---------------------------- MODULE StairRequests ----------------------------
(***************************************************************************)
(* The stair skill of one simulated robot: the request protocol            *)
(* (formal/lab_env/course_tasks.py, class StairRequestProtocol), the       *)
(* simulated sensor that submits requests by itself                        *)
(* (formal/lab_env/stair_trigger.py), the mode the robot is in             *)
(* (formal/lab_env/skill_fsm.py, StairFSM.deployment_step) and the policy  *)
(* boundary that drives all three (formal/lab_env/terrain.py,              *)
(* advance_skill).                                                         *)
(*                                                                         *)
(* A request is one protocol record, one mode and one trigger that must    *)
(* agree at every boundary, whoever submitted it: an operator's key, a     *)
(* range sensor outside, a packet that owns the boundary, or the simulated *)
(* sensor.  Robots are rows of a batch and do not interact, so one row is  *)
(* enough; the packet of a boundary is shared by all rows, so it may be    *)
(* there with nothing in it for this one.                                  *)
(*                                                                         *)
(* The jump requests (JumpRequests) appear by the one bit the stair skill  *)
(* sees of them.  Heights matter by the class they fall in, ages in        *)
(* boundaries.  The clock advances at every boundary, so INVALID_CLOCK     *)
(* does not occur.  What nothing looks at before the boundary that uses it *)
(* (the height of a submission, the contents of a packet) is chosen there; *)
(* an abort in a packet acts on this row like an estimate that is not      *)
(* ready, and is one with it.                                              *)
(***************************************************************************)
EXTENDS Integers

CONSTANTS
  MaxId,           (* bound: the largest request id                        *)
  Risers,          (* step edges told apart by riser_identity_m            *)
  NoRiser,         (* the beam shows none                                  *)
  Latency,         (* latency_intervals                                    *)
  Hold,            (* step_up_hold_s, in boundaries                        *)
  StairLimit,      (* timeout_s of the mode STAIR                          *)
  BumpLimit,       (* body_bump_timeout_s                                  *)
  Timeout          (* timeout_s of a request                               *)

ASSUME RisersAssumption == NoRiser \notin Risers
ASSUME TimingAssumption ==
  /\ MaxId \in Nat
  /\ Latency \subseteq Nat
  /\ Hold \in Nat \ {0} /\ StairLimit \in Nat /\ BumpLimit \in Nat /\ Timeout \in Nat
  /\ Hold <= StairLimit /\ StairLimit < Timeout /\ Timeout <= BumpLimit

VARIABLES
  requests,        (* the StairRequestProtocol of the row                  *)
  skill,           (* the StairFSM of the row                              *)
  trigger,         (* the SimulatedTofTrigger of the row                   *)
  inbox,           (* what waits for the next boundary                     *)
  next_id,         (* stair_next_id                                        *)
  jump,            (* tasks.active_id >= 0                                 *)
  history          (* for the properties only                              *)

vars == <<requests, skill, trigger, inbox, next_id, jump, history>>

------------------------------------------------------------------------------
(* State *)

Ids == 0..MaxId

NoId == -1

(* Any id below NoId is refused, but still counts as a command.             *)
BadId == -2

(* min_height_m is curb_max_m: the lowest height a request may have is not  *)
(* a step for the mode.                                                     *)
Heights == {"lowest", "step_up", "stair", "body_bump"}

Requests(max_seen_id) ==
  [max_seen_id |-> max_seen_id, active_id |-> NoId, height |-> "none", elapsed |-> 0]

Ended(r) == Requests(r.max_seen_id)

Normal == [state |-> "normal", time |-> 0]

EmptyInbox == [manual |-> NoId, tof |-> FALSE, cancel |-> NoId, packet |-> "none"]

(* reset: armed for the next riser, with no memory of the last one.         *)
FreshTrigger ==
  [armed |-> TRUE, countdown |-> -1, riser |-> NoRiser, last |-> NoRiser, cleared |-> TRUE]

(* What became of the riser last requested: "ahead" of the row ever since,  *)
(* "stood" if the row had no beam in between, or "gone" from the beam; what *)
(* it was if the last boundary requested the same riser again; and whether  *)
(* the last boundary refused the trigger's submission.                      *)
NewHistory == [riser |-> "gone", again |-> "gone", refused |-> FALSE]

Init ==
  /\ requests = Requests(NoId)
  /\ skill = Normal
  /\ trigger = FreshTrigger
  /\ inbox = EmptyInbox
  /\ next_id = 0
  /\ jump = FALSE
  /\ history = NewHistory

------------------------------------------------------------------------------
(* SimulatedTofTrigger *)

Armed(t) == [t EXCEPT !.armed = TRUE, !.countdown = -1, !.riser = NoRiser]

(* What the beam of one interval shows: a riser or none, within the trigger *)
(* distance, beyond, or one that cannot be requested: of no height to       *)
(* request or, when a submission is due, in another direction than before.  *)
(* A standing row has no beam.                                              *)
Beams ==
  [riser : Risers, reach : {"near", "far", "unfit"}]
    \union [riser : {NoRiser}, reach : {"far", "standing"}]

(* Mutant: the last riser is forgotten at once.                             *)
ClearedAlways(t, b) == TRUE

ClearedNow(t, b) == t.cleared \/ b.riser = NoRiser \/ b.riser # t.last

Detects(t, b) ==
  /\ t.armed /\ b.riser # NoRiser /\ b.reach = "near"
  /\ ClearedNow(t, b)

(* The trigger after it looked along the beam, with the latency drawn.      *)
Looked(t, b, latency) ==
  LET seen == [t EXCEPT !.cleared = ClearedNow(t, b)]
  IN IF Detects(t, b)
     THEN [seen EXCEPT !.armed = FALSE, !.countdown = latency, !.riser = b.riser]
     ELSE seen

(* A due submission is sent only if its riser is still ahead.               *)
Fires(t, b, idle) ==
  /\ t.countdown = 0 /\ idle
  /\ b.riser # NoRiser /\ b.reach # "unfit" /\ b.riser = t.riser

Waited(t, b, idle) ==
  IF Fires(t, b, idle)
  THEN [t EXCEPT !.countdown = -1, !.riser = NoRiser, !.last = t.riser, !.cleared = FALSE]
  ELSE IF t.countdown = 0 /\ idle THEN Armed(t)
  ELSE [t EXCEPT !.countdown = IF @ > 0 THEN @ - 1 ELSE @]

------------------------------------------------------------------------------
(* StairRequestProtocol.step for a command c *)

New(r, c) == c.request >= 0 /\ c.request > r.max_seen_id

Accepted(r, c) ==
  /\ New(r, c)
  /\ r.active_id = NoId /\ ~c.jump
  /\ c.height \in Heights
  /\ c.cancel # c.request
  /\ c.ready

Received(r, c) ==
  LET seen == [r EXCEPT !.max_seen_id = IF New(r, c) THEN c.request ELSE @]
  IN IF Accepted(r, c)
     THEN [seen EXCEPT !.active_id = c.request, !.height = c.height, !.elapsed = 0]
     ELSE [seen EXCEPT !.elapsed = IF r.active_id = NoId THEN 0 ELSE @ + 1]

Finishes(q, c) ==
  /\ q.active_id # NoId
  /\ \/ c.cancel = q.active_id
     \/ q.elapsed >= Timeout
     \/ ~c.ready
     \/ c.jump

Stepped(r, c) ==
  LET q == Received(r, c) IN IF Finishes(q, c) THEN Ended(q) ELSE q

------------------------------------------------------------------------------
(* StairFSM.deployment_step *)

Limit(state) == IF state = "body_bump" THEN BumpLimit ELSE StairLimit

(* The mode after it took up the request and counted the interval.          *)
Driven(s, r) ==
  LET entered == IF s.state = "normal" /\ r.active_id # NoId /\ r.height # "lowest"
                 THEN [state |-> r.height, time |-> 0]
                 ELSE s
  IN IF entered.state = "normal" THEN entered ELSE [entered EXCEPT !.time = @ + 1]

Exits(s, tilted) ==
  /\ s.state # "normal"
  /\ \/ s.state = "step_up" /\ s.time >= Hold
     \/ s.time > Limit(s.state)
     \/ tilted

------------------------------------------------------------------------------
(* What the row and its operators submit between two boundaries *)

EnvironmentUnchanged == UNCHANGED <<requests, skill, trigger, jump, history>>

Max2(a, b) == IF a > b THEN a ELSE b

(* submit_stair_request: the row's own next id or the caller's.             *)
SubmitManual(id) ==
  /\ inbox' = [inbox EXCEPT !.manual = id, !.cancel = NoId]
  /\ next_id' \in {next_id} \union (IF id = next_id THEN {next_id + 1} ELSE {})
  /\ EnvironmentUnchanged

SubmitTof ==
  /\ inbox' = [inbox EXCEPT !.tof = TRUE]
  /\ UNCHANGED next_id /\ EnvironmentUnchanged

CancelRequest(id) ==
  /\ inbox' = [inbox EXCEPT !.cancel = id]
  /\ UNCHANGED next_id /\ EnvironmentUnchanged

(* submit_request: one packet per boundary, for all rows.                   *)
SubmitPacket ==
  /\ inbox.packet = "none"
  /\ inbox' = [inbox EXCEPT !.packet = "open"]
  /\ UNCHANGED next_id /\ EnvironmentUnchanged

(* What the boundary makes of the inbox: the packet if there is one, else   *)
(* the manual request before that of the outside sensor, and the cancel.    *)
Commands ==
  CASE inbox.packet = "open" ->
         [request : Ids \union {NoId, BadId}, cancel : Ids \union {NoId}]
    [] inbox.packet = "blank" ->
         [request : {NoId}, cancel : {NoId}]
    [] OTHER ->
         [request : IF inbox.manual # NoId THEN {inbox.manual}
                    ELSE IF inbox.tof THEN Ids \union {NoId} ELSE {NoId},
          cancel : {inbox.cancel}]

------------------------------------------------------------------------------
(* Behaviour *)

(* _tof_command: an outside command, even a refused one, owns the boundary. *)
Idle(command, ready, jumping) ==
  /\ ready
  /\ command.request = NoId /\ command.cancel = NoId
  /\ ~jumping /\ requests.active_id = NoId

(* The command the protocol sees: an idle row's due submission, with a new  *)
(* id and a measured height clamped into the band, or the outside command.  *)
Submission(command, fired, height, ready, jumping) ==
  [request |-> IF fired THEN Max2(next_id, requests.max_seen_id + 1) ELSE command.request,
   cancel  |-> command.cancel,
   height  |-> height,
   ready   |-> ready,
   jump    |-> jumping]

(* Mutants: a cancelled request leaves the robot in its mode; the trigger   *)
(* is not armed again when a request is cancelled or times out.             *)
ModeKept(s, finished) == s
ArmedAfterExit(t, refused, finished, exited) ==
  IF refused \/ exited THEN Armed(t) ELSE t

ModeReleased(s, finished) == IF finished THEN Normal ELSE s

ArmedAfter(t, refused, finished, exited) ==
  IF refused \/ finished \/ exited THEN Armed(t) ELSE t

NextId(r) == Max2(next_id, r.max_seen_id + 1)

(* What the beam and a submission make of the history.                      *)
Recorded(t, b, fired, refused) ==
  LET riser == CASE b.reach = "standing" /\ history.riser = "ahead" -> "stood"
                 [] b.reach # "standing" /\ b.riser # trigger.last -> "gone"
                 [] OTHER -> history.riser
  IN [riser   |-> IF fired THEN "ahead" ELSE riser,
      again   |-> IF fired /\ t.riser = trigger.last THEN riser ELSE "gone",
      refused |-> refused]

(* What one call of advance_skill makes of its inputs.  Only a new id needs *)
(* a height, and the tilt is only known with a ready estimate.              *)
Decided(command, b, latency, ready, jumping, height, tilted) ==
  LET looked == Looked(trigger, b, latency)
      idle == Idle(command, ready, jumping)
      fired == Fires(looked, b, idle)
      c == Submission(command, fired, height, ready, jumping)
      refused == fired /\ ~Accepted(requests, c)
      finished == Finishes(Received(requests, c), c)
      r == Stepped(requests, c)
      s == Driven(ModeReleased(skill, finished), r)
      exited == Exits(s, tilted)
  IN /\ height # "none" => New(requests, c)
     /\ fired => height # "none" /\ c.request \in Ids
     /\ tilted => ready /\ s.state # "normal"
     /\ requests' = IF exited THEN Ended(r) ELSE r
     /\ skill' = IF exited THEN Normal ELSE s
     /\ trigger' = ArmedAfter(Waited(looked, b, idle), refused, finished, exited)
     /\ next_id' = NextId(r)
     /\ jump' = jumping
     /\ inbox' = EmptyInbox
     /\ history' = Recorded(looked, b, fired, refused)

(* One call of advance_skill.  The jump requests step first and start       *)
(* nothing while a stair request is active.                                 *)
Boundary ==
  \E command \in Commands, b \in Beams, latency \in Latency, ready, tilted \in BOOLEAN,
     jumping \in IF requests.active_id = NoId \/ jump THEN BOOLEAN ELSE {FALSE},
     height \in Heights \union {"none"} :
    Decided(command, b, latency, ready, jumping, height, tilted)

(* The physical reset of the row; the row's part of a waiting packet is     *)
(* blanked, the packet stays.                                               *)
Reset ==
  /\ requests' = Ended(requests)
  /\ skill' = Normal
  /\ trigger' = FreshTrigger
  /\ inbox' = [EmptyInbox EXCEPT !.packet = IF inbox.packet = "none" THEN "none" ELSE "blank"]
  /\ jump' = FALSE
  /\ history' = NewHistory
  /\ UNCHANGED next_id

LoadAccepted(state) == state.next_id > state.max_seen_id

(* A new process restores a checkpoint and resets every row.  What ran      *)
(* between the checkpoint and the stop is gone, so the state restored is    *)
(* that of the current boundary.                                            *)
ColdRestore ==
  /\ LoadAccepted([max_seen_id |-> requests.max_seen_id, next_id |-> next_id])
  /\ requests' = Requests(requests.max_seen_id)
  /\ skill' = Normal
  /\ trigger' = FreshTrigger
  /\ inbox' = EmptyInbox
  /\ jump' = FALSE
  /\ history' = NewHistory
  /\ UNCHANGED next_id

Next ==
  \/ \E id \in Ids : SubmitManual(id) \/ CancelRequest(id)
  \/ SubmitTof \/ SubmitPacket
  \/ Boundary
  \/ Reset \/ ColdRestore

Spec == Init /\ [][Next]_vars

------------------------------------------------------------------------------
(* Properties *)

TypeOK ==
  /\ requests \in [max_seen_id : Ids \union {NoId}, active_id : Ids \union {NoId},
                   height : Heights \union {"none"}, elapsed : 0..Timeout - 1]
  /\ skill \in [state : {"normal", "step_up", "stair", "body_bump"}, time : 0..Timeout]
  /\ trigger \in [armed : BOOLEAN, countdown : Nat \union {-1},
                  riser : Risers \union {NoRiser},
                  last : Risers \union {NoRiser}, cleared : BOOLEAN]
  /\ inbox \in [manual : Ids \union {NoId}, tof : BOOLEAN, cancel : Ids \union {NoId},
                packet : {"none", "open", "blank"}]
  /\ next_id \in 0..MaxId + 1
  /\ jump \in BOOLEAN
  /\ history \in [riser : {"ahead", "stood", "gone"}, again : {"ahead", "stood", "gone"},
                  refused : BOOLEAN]

(* The robot is in a stair mode exactly while a request of a height for     *)
(* that mode is active, and both have the same age: a cancel, a timeout, an *)
(* abort and the end of the mode release both in the same boundary          *)
(* (advance_skill, StairRequestProtocol.step, deployment_step).             *)
SkillFollowsRequest ==
  IF requests.active_id # NoId /\ requests.height # "lowest"
  THEN skill.state = requests.height /\ skill.time = requests.elapsed + 1
  ELSE skill = Normal

(* Jump and stair requests exclude each other, although both may arrive in  *)
(* the same boundary ("One-shot manual/ToF stair requests; jump has         *)
(* arbitration priority", advance_skill).                                   *)
OneSkillAtATime == ~(jump /\ requests.active_id # NoId)

(* The trigger always waits for something that comes: the next riser, the   *)
(* end of its latency, or the end of a request, which arms it again.        *)
TriggerIsNotDeaf ==
  /\ trigger.armed \/ trigger.countdown >= 0 \/ requests.active_id # NoId
  /\ ~(trigger.armed /\ trigger.countdown >= 0)

(* A submission of the trigger is never refused: an idle row, a new id and  *)
(* a height clamped into the band are what the protocol accepts             *)
(* (_tof_command, step, record_responses).                                  *)
SubmissionsAreAccepted == ~history.refused

(* No checkpoint is refused when it is restored: the next automatic id is   *)
(* always above the ids that were consumed, by whichever port.              *)
EveryCheckpointLoads ==
  LoadAccepted([max_seen_id |-> requests.max_seen_id, next_id |-> next_id])

(* A row that keeps its beam never requests the riser it failed at again    *)
(* before the beam has lost it.                                             *)
NoRetriggerAhead == history.again # "ahead"
=============================================================================
