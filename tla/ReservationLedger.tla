------------------------- MODULE ReservationLedger -------------------------
(***************************************************************************)
(* What a learning campaign promises about the budget of a cell.  All that *)
(* is left is reserved before any work is done.  A reservation ends in one *)
(* of two ways: settled exactly for the work that was done, which leaves   *)
(* the rest for another reservation, or forfeited as a whole, which closes *)
(* the cell for ever.  Nothing that was charged is ever refunded, and no   *)
(* work is done that was not reserved.                                     *)
(***************************************************************************)
EXTENDS Integers

CONSTANT Target   (* updates a cell may ever be charged                    *)

VARIABLE ledger

Zero == [charged |-> 0, open |-> 0, worked |-> 0, closed |-> FALSE]

Init == ledger = Zero

Reserve ==
  /\ ~ledger.closed /\ ledger.open = 0 /\ ledger.charged < Target
  /\ ledger' = [ledger EXCEPT !.open = Target - ledger.charged]

(* A worker nobody could take hold of may outlive its forfeited            *)
(* reservation; its work is paid for.                                      *)
Work ==
  /\ ledger.worked < ledger.charged + ledger.open
  /\ ledger.open > 0 \/ ledger.closed
  /\ ledger' = [ledger EXCEPT !.worked = @ + 1]

Settle ==
  /\ ledger.open > 0 /\ ledger.worked > ledger.charged
  /\ ledger' = [ledger EXCEPT !.charged = ledger.worked, !.open = 0]

Forfeit ==
  /\ ledger.open > 0
  /\ ledger' = [ledger EXCEPT !.charged = @ + ledger.open, !.open = 0,
                              !.closed = TRUE]

Next == Reserve \/ Work \/ Settle \/ Forfeit

Step == [Next]_ledger

Spec == Init /\ [][Next]_ledger

=============================================================================
