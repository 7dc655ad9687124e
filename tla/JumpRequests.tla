---------------------------- MODULE JumpRequests ----------------------------
(***************************************************************************)
(* The jump requests of one simulated robot: the request protocol          *)
(* (formal/tasks/protocol.py, class RequestProtocol), the course that      *)
(* feeds it (formal/lab_env/course_tasks.py, class LabCourseTasks) and the *)
(* physical channel that decides which request may be paid a reward.       *)
(*                                                                         *)
(* Two records of one jump run side by side.  The protocol sees only the   *)
(* robot's own estimates and ends a request as completed, cancelled, timed *)
(* out or aborted.  The physical channel sees the simulation and verifies  *)
(* a success, possibly long after the protocol has ended the request.      *)
(* Robots are rows of a batch and do not interact, so one row is enough.   *)
(*                                                                         *)
(* Only differences of the clock matter: a timestamp is kept as its age at *)
(* the last boundary, last_time_s as the gap to the next one.  The clock   *)
(* of the environment advances at every boundary, so INVALID_CLOCK does    *)
(* not occur.  Heights matter only as valid or not; an estimate only by    *)
(* the strongest of the conditions step derives from it ("unsure" is also  *)
(* a stale or missing estimate).                                           *)
(***************************************************************************)
EXTENDS Integers

CONSTANTS
  MaxId,             (* bound: the largest request id                      *)
  Timeout,           (* timeout_s, in boundaries                           *)
  StableLanding,     (* stable_landing_s, in boundaries                    *)
  CancelProtection,  (* cancel_protection_after_s, in boundaries           *)
  FlightConfirm,     (* flight_confirm_ticks                               *)
  Verification,      (* the 2 s of stable support that verify a jump       *)
  Intervals          (* the waits drawn between automatic requests         *)

ASSUME TimingAssumption ==
  /\ MaxId \in Nat
  /\ Timeout \in Nat /\ StableLanding \in Nat /\ CancelProtection \in Nat
  /\ FlightConfirm \in Nat \ {0} /\ Verification \in Nat \ {0}
  /\ Timeout > StableLanding + CancelProtection
  /\ Intervals \subseteq Nat

VARIABLES
  protocol,        (* the RequestProtocol of the row                       *)
  course,          (* the request part of LabCourseTasks for the row       *)
  saved,           (* its state_dict in the last checkpoint                *)
  turn,            (* what the environment's step does next                *)
  history          (* what happened to the ids; for the properties only    *)

vars == <<protocol, course, saved, turn, history>>

------------------------------------------------------------------------------
(* State *)

Ids == 0..MaxId

NoId == -1

Estimates == {"unsure", "airborne", "grounded", "stable"}

Grounded == {"grounded", "stable"}

Kinds == {"request", "recovery", "other"}

Cleared(p) ==
  [max_seen_id |-> p.max_seen_id, active_id |-> NoId, since |-> 0, cancelled |-> FALSE,
   flight_seen |-> FALSE, air_ticks |-> 0, landing |-> -1, gap |-> p.gap]

(* reset leaves last_time_s one period before a boundary that was already   *)
(* stepped, so the next boundary is two periods away.                       *)
ResetProtocol(p) == [Cleared(p) EXCEPT !.gap = 2]

------------------------------------------------------------------------------
(* RequestProtocol.step *)

New(p, c) == c.request >= 0 /\ c.request > p.max_seen_id

Accepted(p, c, estimate, allow) ==
  /\ New(p, c)
  /\ p.active_id = NoId
  /\ c.valid
  /\ estimate = "stable"
  /\ p.gap = 1
  /\ allow
  /\ ~c.abort
  /\ c.cancel # c.request

(* The protocol after the new id is consumed and, if accepted, started.     *)
Received(p, c, estimate, allow) ==
  LET seen == [p EXCEPT !.max_seen_id = IF New(p, c) THEN c.request ELSE p.max_seen_id]
  IN IF Accepted(p, c, estimate, allow)
     THEN [Cleared(seen) EXCEPT !.active_id = c.request]
     ELSE IF p.active_id = NoId THEN seen
     ELSE [seen EXCEPT !.since = p.since + p.gap,
                       !.landing = IF p.landing < 0 THEN -1 ELSE p.landing + p.gap]

Cancels(q, c) == q.active_id # NoId /\ c.cancel = q.active_id

AirTicks(q, estimate) ==
  IF q.active_id # NoId /\ estimate = "airborne"
  THEN IF q.gap = 1 THEN q.air_ticks + 1 ELSE 1
  ELSE 0

(* The flight and landing detectors of a received protocol state.           *)
Detected(q, c, estimate) ==
  LET air == AirTicks(q, estimate)
      flight == q.flight_seen \/ (q.active_id # NoId /\ air >= FlightConfirm)
      cancelled == q.cancelled \/ Cancels(q, c)
      eligible == /\ q.active_id # NoId /\ estimate = "stable" /\ q.gap = 1
                  /\ flight \/ cancelled
  IN [q EXCEPT !.air_ticks = air, !.flight_seen = flight, !.cancelled = cancelled,
               !.landing = IF ~eligible THEN -1 ELSE IF q.landing < 0 THEN 0 ELSE q.landing]

Expired(q) == q.active_id # NoId /\ q.since >= Timeout

End(q, c, estimate) ==
  LET d == Detected(q, c, estimate)
      before_takeoff == /\ Cancels(q, c) /\ estimate \in Grounded
                        /\ ~q.flight_seen /\ q.since < CancelProtection
      landed == d.landing >= StableLanding
  IN CASE q.active_id # NoId /\ c.abort -> "safety_abort"
       [] Expired(q) /\ ~c.abort -> "timeout"
       [] ~Expired(q) /\ ~c.abort /\ (before_takeoff \/ landed) /\ d.cancelled -> "cancelled"
       [] ~Expired(q) /\ ~c.abort /\ landed /\ ~d.cancelled -> "estimated_complete"
       [] OTHER -> "none"

Stepped(q, c, estimate) ==
  LET d == [Detected(q, c, estimate) EXCEPT !.gap = 1]
  IN IF End(q, c, estimate) = "none" THEN d ELSE Cleared(d)

------------------------------------------------------------------------------
(* LabCourseTasks: the physical channel and the automatic requests *)

Outcomes == {"verified", "reset", "closed"}

Count(outcomes, outcome) == [outcomes EXCEPT ![outcome] = @ + 1]

NoPhysical(t) ==
  [t EXCEPT !.physical_id = NoId, !.physical_since = 0, !.physical_cancelled = FALSE,
            !.flown = FALSE, !.landed = 0]

Verified(t, landed) ==
  landed >= Verification /\ ~t.physical_cancelled /\ t.physical_id > t.paid_id

(* observe_physics.  "jump" stands for the evidence of a flight of the      *)
(* requested height from stable support, "support" for the stable support   *)
(* that must follow it.                                                     *)
Observed(t, motion) ==
  LET open == t.physical_id # NoId
      flown == t.flown \/ (open /\ motion = "jump")
      landed == IF open /\ flown /\ motion = "support" THEN t.landed + 1 ELSE 0
      seen == [t EXCEPT !.flown = flown, !.landed = landed]
  IN IF open /\ Verified(t, landed)
     THEN [NoPhysical(t) EXCEPT !.success_id = t.physical_id, !.paid_id = t.physical_id,
                                !.outcomes = Count(t.outcomes, "verified")]
     ELSE seen

Due(p, t, blocked) ==
  t.kind = "request" /\ ~blocked /\ t.wait = 0 /\ p.active_id = NoId

(* What the row submits when no external command arrives.                   *)
Automatic(p, t, blocked) ==
  [request |-> IF Due(p, t, blocked) THEN t.next_id ELSE NoId,
   cancel |-> NoId, valid |-> TRUE, abort |-> FALSE]

(* External packets.  Its height, and a cancel of its own id, only matter   *)
(* when the id of the packet is new; an abort when there is a request.      *)
NewPackets(p) ==
  UNION {[request : {r}, cancel : {NoId, p.active_id, r}, valid : BOOLEAN, abort : BOOLEAN] :
           r \in {i \in Ids : i > p.max_seen_id}}

OldPackets(p) ==
  [request : 0..p.max_seen_id \union {NoId}, cancel : {NoId, p.active_id},
   valid : {TRUE}, abort : {FALSE, p.active_id # NoId}]

External(p) == NewPackets(p) \union OldPackets(p)

ChannelCancelled(t, p, accepted, blocked) ==
  /\ ~accepted
  /\ \/ t.physical_cancelled
     \/ t.physical_id # NoId /\ t.physical_id = p.active_id /\ p.cancelled
     \/ t.physical_id # NoId /\ blocked

(* Mutant: an ended request stays open for verification.                    *)
ClosesAtDeadline(t, gap, finished_id, end) ==
  t.physical_id # NoId /\ t.physical_since + gap >= Timeout

Closes(t, gap, finished_id, end) ==
  /\ t.physical_id # NoId
  /\ \/ finished_id = t.physical_id /\ end \notin {"none", "estimated_complete"}
     \/ t.physical_since + gap >= Timeout

(* The physical channel after a boundary: closed, superseded or kept.       *)
Channel(t, p, gap, accepted, finished_id, end, blocked) ==
  LET closed == Closes(t, gap, finished_id, end)
      kept == IF closed THEN [NoPhysical(t) EXCEPT !.outcomes = Count(t.outcomes, "closed")]
              ELSE IF t.physical_id # NoId THEN [t EXCEPT !.physical_since = t.physical_since + gap]
              ELSE t
      opened == IF accepted THEN [NoPhysical(kept) EXCEPT !.physical_id = p.active_id] ELSE kept
  IN [opened EXCEPT !.physical_cancelled = ChannelCancelled(opened, p, accepted, blocked)]

Max2(a, b) == IF a > b THEN a ELSE b

(* Mutant: automatic ids do not skip the ids of external commands.          *)
NextIdAlone(t, p, due) == t.next_id + IF due THEN 1 ELSE 0

NextId(t, p, due) == Max2(t.next_id + IF due THEN 1 ELSE 0, p.max_seen_id + 1)

------------------------------------------------------------------------------
(* Behaviour *)

Fresh == [max_seen_id |-> NoId, active_id |-> NoId, since |-> 0, cancelled |-> FALSE,
          flight_seen |-> FALSE, air_ticks |-> 0, landing |-> -1, gap |-> 2]

NewCourse(kind, wait) ==
  [kind |-> kind, wait |-> wait, next_id |-> 0, physical_id |-> NoId, physical_since |-> 0,
   physical_cancelled |-> FALSE, flown |-> FALSE, landed |-> 0, success_id |-> NoId,
   paid_id |-> NoId, outcomes |-> [o \in Outcomes |-> 0]]

NewHistory == [seen |-> {}, spoiled |-> {}, paid |-> {}]

Snapshot(p, t, h) ==
  [max_seen_id |-> p.max_seen_id, next_id |-> t.next_id, paid_id |-> t.paid_id,
   outcomes |-> t.outcomes, history |-> h]

Init ==
  \E kind \in Kinds, wait \in Intervals :
    /\ protocol = Fresh
    /\ course = NewCourse(kind, wait)
    /\ saved = Snapshot(Fresh, NewCourse(kind, wait), NewHistory)
    /\ turn = "physics"
    /\ history = NewHistory

(* One policy interval of physics, seen by the physical channel.            *)
Observe ==
  \E motion \in {"jump", "support", "other"} :
    /\ turn = "physics"
    /\ turn' = "decision"
    /\ course' = Observed(course, motion)
    /\ history' = [history EXCEPT !.paid =
                     IF course'.success_id = NoId THEN @ ELSE @ \union {course'.success_id}]
    /\ UNCHANGED <<protocol, saved>>

(* The ids a boundary takes out of the reward: cancelled, aborted or timed  *)
(* out by the protocol, or not yet verified when a stair skill takes over.  *)
Spoiled(q, c, end, blocked) ==
  (IF Cancels(q, c) \/ end \in {"safety_abort", "timeout"} THEN {q.active_id} ELSE {})
    \union (IF blocked THEN {course.physical_id} \ {NoId} ELSE {})

(* LabCourseTasks.step for a command c.                                     *)
Boundary(c, due, allow, estimate, blocked) ==
  LET received == Received(protocol, c, estimate, allow)
      end == End(received, c, estimate)
      p == Stepped(received, c, estimate)
      next == Channel(course, p, protocol.gap, Accepted(protocol, c, estimate, allow),
                      IF end = "none" THEN NoId ELSE received.active_id, end, blocked)
  IN /\ turn = "decision"
     /\ turn' = "physics"
     /\ protocol' = p
     /\ \E interval \in Intervals :
          course' = [next EXCEPT !.success_id = NoId, !.next_id = NextId(course, p, due),
                                 !.wait = IF due THEN interval ELSE Max2(course.wait - 1, 0)]
     /\ history' = [history EXCEPT
                      !.seen = IF New(protocol, c) THEN @ \union {c.request} ELSE @,
                      !.spoiled = @ \union Spoiled(received, c, end, blocked)]
     /\ UNCHANGED saved

(* A boundary without an external command: the row may submit its own id.   *)
DecideAutomatic ==
  \E estimate \in Estimates, blocked \in BOOLEAN :
    LET due == Due(protocol, course, blocked)
    IN /\ due => course.next_id \in Ids
       /\ Boundary(Automatic(protocol, course, blocked), due,
                   course.kind = "request" /\ ~blocked, estimate, blocked)

(* A boundary whose command came from outside.                              *)
DecideExternal ==
  \E estimate \in Estimates, blocked \in BOOLEAN, c \in External(protocol) :
    Boundary(c, FALSE, course.kind # "recovery" /\ ~blocked, estimate, blocked)

(* A recovery episode has stood up: its row becomes an ordinary one.        *)
Handoff ==
  /\ turn = "decision"
  /\ course.kind = "recovery"
  /\ course' = [course EXCEPT !.kind = "other"]
  /\ UNCHANGED <<protocol, saved, turn, history>>

NewEpisode(t, kind, wait) ==
  [NoPhysical(t) EXCEPT !.kind = kind, !.wait = wait, !.success_id = NoId]

(* The physical reset of the row, after the interval that ended it.         *)
Reset ==
  \E kind \in Kinds, wait \in Intervals :
    /\ turn = "physics"
    /\ protocol' = ResetProtocol(protocol)
    /\ course' = [NewEpisode(course, kind, wait) EXCEPT
                    !.outcomes = IF course.physical_id = NoId THEN @ ELSE Count(@, "reset")]
    /\ history' = [history EXCEPT !.spoiled = @ \union ({course.physical_id} \ {NoId})]
    /\ UNCHANGED <<saved, turn>>

SaveState ==
  /\ turn = "physics"
  /\ saved' = Snapshot(protocol, course, history)
  /\ UNCHANGED <<protocol, course, turn, history>>

(* Mutant: the ids of the checkpoint are not taken over.                    *)
RestoredFresh(state) == Fresh

RestoredProtocol(state) == [Fresh EXCEPT !.max_seen_id = state.max_seen_id]

(* A new process restores the checkpoint and resets the row.  What happened *)
(* after the checkpoint did not happen in the learning run that continues.  *)
ColdRestore ==
  \E kind \in Kinds, wait \in Intervals :
    /\ protocol' = RestoredProtocol(saved)
    /\ course' = [NewCourse(kind, wait) EXCEPT
                    !.next_id = Max2(saved.next_id, saved.max_seen_id + 1),
                    !.paid_id = saved.paid_id, !.outcomes = saved.outcomes]
    /\ history' = saved.history
    /\ turn' = "physics"
    /\ UNCHANGED saved

Next == Observe \/ DecideAutomatic \/ DecideExternal \/ Handoff \/ Reset \/ SaveState \/ ColdRestore

Spec == Init /\ [][Next]_vars

------------------------------------------------------------------------------
(* Properties *)

Protocols ==
  [max_seen_id : Ids \union {NoId}, active_id : Ids \union {NoId}, since : 0..Timeout - 1,
   cancelled : BOOLEAN, flight_seen : BOOLEAN, air_ticks : Nat,
   landing : -1..StableLanding - 1, gap : {1, 2}]

Courses ==
  [kind : Kinds, wait : Nat, next_id : Nat, physical_id : Ids \union {NoId},
   physical_since : 0..Timeout - 1, physical_cancelled : BOOLEAN, flown : BOOLEAN, landed : Nat,
   success_id : Ids \union {NoId}, paid_id : Ids \union {NoId}, outcomes : [Outcomes -> Nat]]

(* Every request has ended in both records by its deadline: an age never    *)
(* reaches timeout_s at a boundary.                                         *)
TypeOK == protocol \in Protocols /\ course \in Courses

(* A newly seen id is consumed even if rejected: no id is ever started that *)
(* the learning run has seen before, across resets and cold restores.       *)
NothingIsReplayed ==
  [][protocol'.active_id # protocol.active_id /\ protocol'.active_id # NoId
       => protocol'.active_id \notin history.seen]_vars

(* A jump is paid at most once, only if its id was submitted in this        *)
(* learning run, and never after it was cancelled, aborted, timed out,      *)
(* reset or interrupted by a stair skill.                                   *)
PaymentIsEarned ==
  [][course'.success_id # NoId /\ course.success_id = NoId
       => course'.success_id \in history.seen \ (history.spoiled \union history.paid)]_vars

(* While the protocol runs a request, the physical channel verifies that    *)
(* request or, when it is already paid, none; a cancellation the protocol   *)
(* still carries has reached the channel.                                   *)
ChannelFollowsProtocol ==
  /\ protocol.active_id # NoId /\ course.physical_id # NoId
       => course.physical_id = protocol.active_id
  /\ protocol.active_id # NoId /\ protocol.cancelled /\ course.physical_id # NoId
       => course.physical_cancelled

(* An automatic request is never answered REPLAY, whatever ids external     *)
(* commands used and whichever checkpoint was restored.                     *)
AutomaticIdsAreNew == course.next_id > protocol.max_seen_id

=============================================================================
