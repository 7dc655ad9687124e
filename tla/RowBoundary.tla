---------------------------- MODULE RowBoundary ----------------------------
(***************************************************************************)
(* What one simulated robot promises whoever reads its trajectory: who     *)
(* drives it, and where one stretch of control ends and the next begins.   *)
(* A control epoch has one driver.  A script may hand over to the policy,  *)
(* which begins a new epoch of the same episode; a reset begins a new      *)
(* episode and a new epoch; the policy never hands back.                   *)
(***************************************************************************)
EXTENDS Integers

VARIABLES
  episode,   (* _episode_id of the row                                     *)
  epoch,     (* _control_epoch of the row                                  *)
  allowed    (* the policy drives the row                                  *)

vars == <<episode, epoch, allowed>>

Init ==
  /\ episode = 1
  /\ epoch = 1
  /\ allowed \in BOOLEAN

(* A script gives the row to the policy in the middle of an episode.       *)
HandOver ==
  /\ ~allowed
  /\ allowed' = TRUE
  /\ epoch' = epoch + 1
  /\ UNCHANGED episode

(* The row starts again.                                                   *)
Reset ==
  /\ episode' = episode + 1
  /\ epoch' = epoch + 1
  /\ allowed' \in BOOLEAN

(* The process starts again, from a checkpoint or from nothing.            *)
Restart ==
  /\ episode' = 1
  /\ epoch' = 1
  /\ allowed' \in BOOLEAN

Next == HandOver \/ Reset \/ Restart

Spec == Init /\ [][Next]_vars

=============================================================================
