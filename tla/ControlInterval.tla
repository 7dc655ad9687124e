-------------------------- MODULE ControlInterval --------------------------
(***************************************************************************)
(* One policy interval after another of one simulated robot: what          *)
(* WheeledLabEnv.step (formal/lab_env/env.py) does with an action between  *)
(* the decision and the torque, who owns the interval, and what a reset    *)
(* clears.                                                                 *)
(*                                                                         *)
(* An action may be delayed twice, and a run is configured for one of the  *)
(* two: by whole policy steps in the action transport, or by physics       *)
(* substeps in the action latch.  The torque computed from a target is     *)
(* delayed once more on the downlink.  In the same interval a preparation  *)
(* script may own the robot, and the recovery lifecycle counts what        *)
(* becomes of the robots born lying down.  Each of them keeps something    *)
(* from an earlier interval that must not survive a reset or a handover.   *)
(*                                                                         *)
(* Robots are rows of a batch and do not interact here; the model is one   *)
(* row.  Time is the number of the policy interval since the process       *)
(* started.  An action is named by the interval it was issued in.          *)
(***************************************************************************)
EXTENDS Integers

CONSTANTS
  Capacity,          (* slots of the transport ring: max(delays_steps) + 1 *)
  StepLags,          (* delays_steps of the transport, scaled and rounded  *)
  Substeps,          (* decimation: physics steps of an interval           *)
  LatchLags,         (* delay_substeps of the action latch                 *)
  HoldFrames,        (* intervals a waypoint preparation lasts at least    *)
  ReleaseFrames,     (* intervals of a passive release                     *)
  PreparationLimit,  (* preparation_timeout_s, in intervals                *)
  StableIntervals,   (* stable_s, in intervals                             *)
  RecoveryLimit,     (* timeout_s of a recovery, in intervals              *)
  MaxTick,           (* bound: intervals of all processes together          *)
  MaxRestarts        (* bound: how often the process starts again          *)

ASSUME IntervalAssumption ==
  /\ Capacity \in Nat \ {0}
  /\ StepLags \subseteq 0..(Capacity - 1)
  /\ Substeps \in Nat \ {0}
  /\ LatchLags \subseteq 0..(Substeps - 1)
  /\ HoldFrames \in Nat \ {0} /\ ReleaseFrames \in Nat \ {0}
  /\ PreparationLimit \in Nat /\ PreparationLimit >= HoldFrames
  /\ StableIntervals \in Nat \ {0}
  /\ RecoveryLimit \in Nat /\ RecoveryLimit > StableIntervals
  /\ MaxTick \in Nat /\ MaxRestarts \in Nat

VARIABLES
  tick,         (* the policy interval                                     *)
  pc,           (* "decide", "physics" or "finish": what step does next    *)
  substep,      (* _substep                                                *)
  row,          (* _episode_id, _control_epoch, _interval_policy_owned     *)
  device,       (* the delay the run is configured for                     *)
  transport,    (* DelayedActionTransport of the row                       *)
  latch,        (* SubstepActionLatch of the row, and _latch_active        *)
  target,       (* _targets with _policy_generated_at_s                    *)
  heldTarget,   (* _held_targets with _held_generated_at_s                 *)
  link,         (* PhysicalCommunication of the row                        *)
  torque,       (* the efforts mixed in the last substep of the interval   *)
  preparation,  (* _RecoveryPreparation of the row                         *)
  recovery,     (* RecoveryLifecycle of the row                            *)
  counts,       (* the counters of RecoveryLifecycle                       *)
  saved,        (* counts in the last checkpoint                           *)
  history       (* ghost: when the epoch and the episode began, and more   *)

vars == <<tick, pc, substep, row, device, transport, latch, target, heldTarget,
          link, torque, preparation, recovery, counts, saved, history>>

------------------------------------------------------------------------------
(* State *)

Neutral == -1                   (* the action 0, that nobody issued        *)

Slots == 0..(Capacity - 1)

Packet(action, stamp) == [action |-> action, stamp |-> stamp]

EmptyRing == [s \in Slots |-> Packet(Neutral, 0)]

(* The postures a row can be born in: "fallen" needs a scripted waypoint   *)
(* before the policy can act, "posed" is lying but within its reach, and   *)
(* "ground" is released without torque for a while.                        *)
Births == {"standing", "ground", "fallen", "posed"}

Recovers(birth) == birth \in {"fallen", "posed"}

Scripted(birth) == birth \in {"fallen", "ground"}

Nothing == [epoch |-> 0, source |-> "none", action |-> Neutral, stamp |-> 0]

(* The target decoded from an action for a control epoch.                  *)
Target(epoch, source, packet) ==
  [epoch |-> epoch, source |-> source, action |-> packet.action,
   stamp |-> packet.stamp]

NoCounts == [births |-> 0, handoffs |-> 0, verified |-> 0, unverified |-> 0,
             timeouts |-> 0, failed |-> 0, resets |-> 0]

One(condition) == IF condition THEN 1 ELSE 0

(* RecoveryLifecycle.reset.                                                *)
BornCounts(c, active, birth) ==
  [c EXCEPT !.resets = @ + One(active), !.births = @ + One(Recovers(birth))]

BornPreparation(birth) ==
  [active |-> Scripted(birth), passive |-> birth = "ground",
   frames |-> 0, elapsed |-> 0]

BornRecovery(birth) ==
  [active |-> Recovers(birth), elapsed |-> 0, estimated |-> 0, physical |-> 0,
   verified |-> FALSE]

------------------------------------------------------------------------------
(* The delays *)

(* The slot `lag` packets before slot i.                                   *)
Back(i, lag) == IF lag <= i THEN i - lag ELSE i + Capacity - lag

Following(i) == IF i = Capacity - 1 THEN 0 ELSE i + 1

(* Mutant: the ring survives a handover.                                   *)
TransportedWithoutFlush(t, allowed) ==
  LET ring   == IF allowed THEN t.ring
                           ELSE [s \in Slots |-> Packet(Neutral, tick)]
      index  == Following(t.index)
      packet == Packet(IF allowed THEN tick ELSE Neutral, tick)
  IN [ring |-> [ring EXCEPT ![index] = packet], index |-> index,
      allowed |-> allowed, lag |-> t.lag]

(* Store the action of this interval.  A row the policy does not own, or   *)
(* owns for the first interval, starts from an empty ring.                 *)
Transported(t, allowed) ==
  LET blocked == ~allowed \/ ~t.allowed
      ring    == IF blocked THEN [s \in Slots |-> Packet(Neutral, tick)]
                            ELSE t.ring
      index   == Following(t.index)
      packet  == Packet(IF allowed THEN tick ELSE Neutral, tick)
  IN [ring |-> [ring EXCEPT ![index] = packet], index |-> index,
      allowed |-> allowed, lag |-> t.lag]

Arrived(t) == t.ring[Back(t.index, t.lag)]

BornTransport(t, lag) == [t EXCEPT !.ring = EmptyRing, !.allowed = FALSE,
                                   !.lag = lag]

BornLatch(lag) == [held |-> FALSE, active |-> FALSE, lag |-> lag]

(* The lag drawn at a reset; only the configured device delays.            *)
Lags == IF device = "transport" THEN StepLags \cup {0} ELSE {0}

SubstepLags == IF device = "latch" THEN LatchLags \cup {0} ELSE {0}

(* Mutant: a change of owner leaves the held torque on the downlink.       *)
FlushedNever(l) == l

Flushed(l) == [l EXCEPT !.effort = Nothing]

------------------------------------------------------------------------------
(* Births *)

Init ==
  /\ device \in {"transport", "latch"}
  /\ tick = 0 /\ pc = "decide" /\ substep = 0 /\ torque = {}
  /\ \E birth \in Births, lag \in Lags, late \in SubstepLags :
       /\ row = [episode |-> 1, epoch |-> 1, owned |-> FALSE]
       /\ transport = [ring |-> EmptyRing, index |-> 0, allowed |-> FALSE,
                       lag |-> lag]
       /\ latch = BornLatch(late)
       /\ target = Target(1, "policy", Packet(Neutral, 0))
       /\ heldTarget = Nothing
       /\ link = [allowed |-> FALSE, effort |-> Nothing]
       /\ preparation = BornPreparation(birth)
       /\ recovery = BornRecovery(birth)
       /\ counts = BornCounts(NoCounts, FALSE, birth)
  /\ saved = [counts |-> NoCounts, lost |-> 0]
  /\ history = [since |-> 0, born |-> 0, lost |-> 0, restarts |-> 0,
                before |-> 0]

------------------------------------------------------------------------------
(* The decision: _pre_physics_step *)

Decide ==
  LET allowed == ~preparation.active
      source  == IF allowed THEN "policy" ELSE "script"
      moved   == IF device = "transport" THEN Transported(transport, allowed)
                                         ELSE transport
      arrived == IF device = "transport" THEN Arrived(moved)
                                         ELSE Packet(tick, tick)
  IN
  /\ pc = "decide"
  /\ history.before + tick < MaxTick
  /\ pc' = "physics" /\ substep' = 0 /\ torque' = {}
  /\ heldTarget' = target
  /\ transport' = moved
  /\ target' = Target(row.epoch, source,
                      IF allowed THEN arrived ELSE Packet(Neutral, tick))
  /\ preparation' = [preparation EXCEPT
                       !.elapsed = IF preparation.active THEN @ + 1 ELSE @]
  /\ row' = [row EXCEPT !.owned = allowed]
  /\ link' = [(IF link.allowed # allowed THEN Flushed(link) ELSE link)
                EXCEPT !.allowed = allowed]
  /\ latch' = IF device = "latch"
                THEN [latch EXCEPT !.active = latch.held /\ allowed,
                                   !.held = allowed]
                ELSE latch
  /\ UNCHANGED <<tick, device, recovery, counts, saved, history>>

------------------------------------------------------------------------------
(* A physics step: _apply_action, then _observe_substep *)

Lagging == latch.active /\ substep < latch.lag

(* Passive rows request no torque.                                         *)
Requested ==
  IF preparation.passive THEN Nothing
  ELSE IF Lagging THEN heldTarget ELSE target

(* The torque of the last step acts until the new one arrives.  The        *)
(* scan of the terrain may be lost under the robot, and the interval with  *)
(* it: it is nobody's then.                                                *)
PhysicsStep ==
  \E good, lost \in BOOLEAN :
    LET owned == row.owned /\ ~lost
    IN
    /\ pc = "physics"
    /\ torque' = {link.effort, Requested}
    /\ link' = [link EXCEPT !.effort = Requested]
    /\ substep' = substep + 1
    /\ pc' = IF substep + 1 = Substeps THEN "finish" ELSE pc
    /\ row' = [row EXCEPT !.owned = owned]
    /\ recovery' = [recovery EXCEPT
                      !.physical = IF recovery.active /\ owned /\ good
                                     THEN @ + 1 ELSE 0]
    /\ UNCHANGED <<tick, device, transport, latch, target, heldTarget,
                   preparation, counts, saved, history>>

------------------------------------------------------------------------------
(* The end of the interval: the rest of step, and _reset_idx *)

(* What the preparation and the recovery make of the interval.             *)
Frames == preparation.frames + (IF preparation.active THEN 1 ELSE 0)

Released == preparation.passive /\ Frames >= ReleaseFrames

Handed(admitted) ==
  \/ Released
  \/ /\ preparation.active /\ ~preparation.passive
     /\ admitted /\ Frames >= HoldFrames

(* Mutant: the limit of the preparation is an interval late.               *)
PreparationLaterStill(admitted) ==
  /\ preparation.active /\ ~preparation.passive
  /\ ~Handed(admitted)
  /\ preparation.elapsed > PreparationLimit

PreparationLate(admitted) ==
  /\ preparation.active /\ ~preparation.passive
  /\ ~Handed(admitted)
  /\ preparation.elapsed >= PreparationLimit

Eligible(terminated) == recovery.active /\ row.owned /\ ~terminated

Estimated(terminated, ready) ==
  IF Eligible(terminated) /\ ready THEN recovery.estimated + 1 ELSE 0

RecoveryHandoff(terminated, ready) ==
  Eligible(terminated) /\ Estimated(terminated, ready) >= StableIntervals

RecoveryTimeout(terminated, ready) ==
  /\ Eligible(terminated) /\ ~RecoveryHandoff(terminated, ready)
  /\ recovery.elapsed + 1 >= RecoveryLimit

Verifies(terminated) ==
  /\ Eligible(terminated) /\ ~recovery.verified
  /\ recovery.physical >= StableIntervals * Substeps

(* Mutant: a failed recovery stays active until the reset counts it again. *)
FinishedRecoveryOfFailed(terminated, ready) ==
  [recovery EXCEPT
     !.active = /\ @ /\ ~RecoveryHandoff(terminated, ready)
                /\ ~RecoveryTimeout(terminated, ready),
     !.elapsed = @ + One(Eligible(terminated)),
     !.estimated = Estimated(terminated, ready),
     !.verified = @ \/ Verifies(terminated)]

(* RecoveryLifecycle.finish_interval, and the counts it adds to.           *)
FinishedRecovery(terminated, ready) ==
  [recovery EXCEPT
     !.active = /\ @ /\ ~terminated
                /\ ~RecoveryHandoff(terminated, ready)
                /\ ~RecoveryTimeout(terminated, ready),
     !.elapsed = @ + One(Eligible(terminated)),
     !.estimated = Estimated(terminated, ready),
     !.verified = @ \/ Verifies(terminated)]

FinishedCounts(terminated, ready) ==
  [counts EXCEPT
     !.verified = @ + One(Verifies(terminated)),
     !.handoffs = @ + One(RecoveryHandoff(terminated, ready)),
     !.unverified = @ + One(/\ RecoveryHandoff(terminated, ready)
                            /\ ~recovery.verified /\ ~Verifies(terminated)),
     !.timeouts = @ + One(RecoveryTimeout(terminated, ready)),
     !.failed = @ + One(recovery.active /\ terminated)]

(* Mutant: a handover keeps the control epoch.                             *)
EpochAfterReset(handoff) == row.epoch

(* A handover begins a control epoch.                                      *)
EpochAfter(handoff) == row.epoch + One(handoff)

(* _reset_idx: whatever the row kept from its last episode is dropped, and *)
(* its first targets are neutral.                                          *)
ResetRow(birth, lag, late, episode, epoch) ==
  /\ row' = [row EXCEPT !.episode = episode, !.epoch = epoch]
  /\ transport' = BornTransport(transport, lag)
  /\ latch' = BornLatch(late)
  /\ target' = Target(epoch, "policy", Packet(Neutral, target.stamp))
  /\ link' = [allowed |-> FALSE, effort |-> Nothing]
  /\ preparation' = BornPreparation(birth)
  /\ recovery' = BornRecovery(birth)

(* The interval goes on, perhaps handed over to the policy.                *)
GoOn(terminated, admitted, ready) ==
  /\ preparation' = [preparation EXCEPT !.active = @ /\ ~Handed(admitted),
                                        !.passive = @ /\ ~Released,
                                        !.frames = Frames]
  /\ recovery' = FinishedRecovery(terminated, ready)
  /\ counts' = FinishedCounts(terminated, ready)
  /\ row' = [row EXCEPT !.epoch = EpochAfter(Handed(admitted))]
  /\ history' = [history EXCEPT !.since = IF Handed(admitted) THEN tick + 1
                                                              ELSE @]
  /\ UNCHANGED <<transport, latch, target, link>>

(* Or the row starts again.                                                *)
StartAgain(terminated, ready) ==
  /\ \E birth \in Births, lag \in Lags, late \in SubstepLags :
       /\ ResetRow(birth, lag, late, row.episode + 1, row.epoch + 1)
       /\ counts' = BornCounts(FinishedCounts(terminated, ready),
                        FinishedRecovery(terminated, ready).active, birth)
  /\ history' = [history EXCEPT !.since = tick + 1, !.born = tick + 1]

(* A failure, a preparation or a recovery that took too long, or a limit   *)
(* of the episode ends it.  A row whose scan was lost fails.               *)
Finish ==
  \E failed, ends, admitted, ready \in BOOLEAN :
    LET terminated == failed \/ PreparationLate(admitted)
        done == terminated \/ ends \/ RecoveryTimeout(terminated, ready)
    IN
    /\ pc = "finish"
    /\ target.source = "policy" /\ ~row.owned => failed
    /\ pc' = "decide" /\ tick' = tick + 1 /\ torque' = {}
    /\ \/ ~done /\ GoOn(terminated, admitted, ready)
       \/ done /\ StartAgain(terminated, ready)
    /\ UNCHANGED <<substep, device, heldTarget, saved>>

------------------------------------------------------------------------------
(* Checkpoints: train.py, between two rollouts *)

(* A checkpoint keeps the counters and none of the packets, clocks or      *)
(* owners; the births that are open now will never be counted as ended.    *)
Save ==
  /\ pc = "decide"
  /\ history.restarts < MaxRestarts      \* a later one is never restored
  /\ saved' = [counts |-> counts,
               lost |-> history.lost + One(recovery.active)]
  /\ UNCHANGED <<tick, pc, substep, row, device, transport, latch, target,
                 heldTarget, link, torque, preparation, recovery, counts,
                 history>>

(* A new process restores the last checkpoint and only then resets every   *)
(* row: collector.reset comes after all the restores.                      *)
Restart ==
  /\ history.restarts < MaxRestarts
  /\ tick' = 0 /\ pc' = "decide" /\ substep' = 0 /\ torque' = {}
  /\ heldTarget' = Nothing
  /\ \E birth \in Births, lag \in Lags, late \in SubstepLags :
       /\ row' = [episode |-> 1, epoch |-> 1, owned |-> FALSE]
       /\ transport' = [ring |-> EmptyRing, index |-> 0, allowed |-> FALSE,
                        lag |-> lag]
       /\ latch' = BornLatch(late)
       /\ target' = Target(1, "policy", Packet(Neutral, 0))
       /\ link' = [allowed |-> FALSE, effort |-> Nothing]
       /\ preparation' = BornPreparation(birth)
       /\ recovery' = BornRecovery(birth)
       /\ counts' = BornCounts(saved.counts, FALSE, birth)
  /\ history' = [since |-> 0, born |-> 0, lost |-> saved.lost,
                 restarts |-> history.restarts + 1,
                 before |-> history.before + tick]
  /\ UNCHANGED <<device, saved>>

Next == Decide \/ PhysicsStep \/ Finish \/ Save \/ Restart

Spec == Init /\ [][Next]_vars

------------------------------------------------------------------------------
(* Properties *)

Packets == [action : Int, stamp : Nat]

Counts == [births : Nat, handoffs : Nat, verified : Nat, unverified : Nat,
           timeouts : Nat, failed : Nat, resets : Nat]

Targets == [epoch : Nat, source : {"none", "script", "policy"}, action : Int,
            stamp : Nat]

(* Every component keeps its shape, and only an active preparation is      *)
(* passive.                                                                *)
TypeOK ==
  /\ tick \in Nat /\ substep \in Nat
  /\ pc \in {"decide", "physics", "finish"}
  /\ row \in [episode : Nat, epoch : Nat, owned : BOOLEAN]
  /\ device \in {"transport", "latch"}
  /\ transport \in [ring : [Slots -> Packets], index : Slots,
                    allowed : BOOLEAN, lag : Slots]
  /\ latch \in [held : BOOLEAN, active : BOOLEAN, lag : Nat]
  /\ target \in Targets /\ heldTarget \in Targets
  /\ link \in [allowed : BOOLEAN, effort : Targets]
  /\ torque \subseteq Targets
  /\ preparation \in [active : BOOLEAN, passive : BOOLEAN, frames : Nat,
                      elapsed : Nat]
  /\ preparation.passive => preparation.active
  /\ recovery \in [active : BOOLEAN, elapsed : Nat, estimated : Nat,
                   physical : Nat, verified : BOOLEAN]
  /\ counts \in Counts
  /\ saved \in [counts : Counts, lost : Nat]
  /\ history \in [since : Nat, born : Nat, lost : Nat, restarts : Nat,
                  before : Nat]

(* The action the torque comes from is the one the policy issued exactly   *)
(* `lag` ago, or the neutral one while this epoch is younger than the lag; *)
(* and its recorded age is its age.  The first epochs after a reset, a     *)
(* handover and a restart are the cases that could leak an older action    *)
(* (action_transport.py step and reset, env.py:963-970).                   *)
DelayedAction ==
  LET issued == tick - transport.lag
      late   == substep <= latch.lag /\ tick > history.since
  IN IF device = "latch"
       THEN IF late THEN Packet(tick - 1, tick - 1) ELSE Packet(tick, tick)
     ELSE IF issued >= history.since THEN Packet(issued, issued)
     ELSE Packet(Neutral, history.since)

ArrivalsAreExact ==
  (torque # {} /\ link.effort.source = "policy") =>
     Packet(link.effort.action, link.effort.stamp) = DelayedAction

(* No torque is mixed from two control epochs or two drivers: what a       *)
(* delay still holds is dropped wherever the row is reset or handed over   *)
(* (flush_commands, held and _latch_active).                               *)
TorqueStaysInEpoch ==
  \A effort \in torque \ {Nothing} :
    /\ effort.epoch = row.epoch
    /\ effort.source = target.source

(* Every recovery birth ends in exactly one way, is still open, or was     *)
(* open when the last restored checkpoint was written; and a handover is   *)
(* counted as unverified unless the physical evidence came first.          *)
RecoveryBalance ==
  /\ counts.births = counts.handoffs + counts.timeouts + counts.failed
                      + counts.resets + One(recovery.active) + history.lost
  /\ counts.handoffs - counts.unverified <= counts.verified
  /\ counts.verified <= counts.births

(* A lying robot is not left alone for ever: the preparation and the       *)
(* recovery together take no longer than their two limits, whoever owns    *)
(* the intervals.                                                          *)
RecoveryIsBounded ==
  recovery.active =>
    tick - history.born < PreparationLimit + RecoveryLimit

(* To its readers the row keeps the promise of RowBoundary: one driver per *)
(* control epoch, one epoch per handover or reset.                         *)
Boundary == INSTANCE RowBoundary WITH
  episode <- row.episode, epoch <- row.epoch, allowed <- ~preparation.active

ImplementsBoundary == Boundary!Spec

=============================================================================
