------------------------- MODULE NonrefundableBudget -------------------------
(***************************************************************************)
(* What a learning journal promises, whatever its file format: a rollout   *)
(* budget that can be charged and worked off but never refunded.  A failed *)
(* ledger is closed for ever; the only thing anybody can still do with it  *)
(* is to open a fresh ledger that inherits everything it had spent and     *)
(* everything that had been executed.                                      *)
(* LearningJournal is shown to implement this specification.               *)
(***************************************************************************)
EXTENDS Integers

CONSTANTS
  Journals,  (* the ledgers                                                *)
  Target,    (* rollouts that may ever be charged to a lineage             *)
  Size       (* transitions one charged rollout may execute                *)

VARIABLE ledger

Zero == [spent |-> 0, executed |-> 0, failed |-> FALSE]

Ledger == [spent : 0..Target, executed : 0..(Target * Size), failed : BOOLEAN]

Init == ledger = [j \in Journals |-> Zero]

(* One rollout is charged before any of its work exists. *)
Charge(j) ==
  /\ ~ledger[j].failed
  /\ ledger[j].spent < Target
  /\ ledger' = [ledger EXCEPT ![j].spent = @ + 1]

(* Work is executed within what has been charged; it may end in failure. *)
Execute(j) ==
  /\ ~ledger[j].failed
  /\ \E n \in 0..Size, f \in BOOLEAN :
        /\ ledger[j].executed + n <= ledger[j].spent * Size
        /\ ledger' = [ledger EXCEPT ![j] =
                        [spent |-> @.spent, executed |-> @.executed + n, failed |-> f]]

(* A fresh ledger takes over the whole consumption of a failed one. *)
Inherit(k, j) ==
  /\ ledger[k] = Zero
  /\ ledger[j].failed
  /\ ledger' = [ledger EXCEPT ![k] =
                  [spent |-> ledger[j].spent, executed |-> ledger[j].executed,
                   failed |-> FALSE]]

Next ==
  \/ \E j \in Journals : Charge(j) \/ Execute(j)
  \/ \E k, j \in Journals : Inherit(k, j)

Spec == Init /\ [][Next]_ledger
==============================================================================
