------------------------- MODULE JumpRequestsProofs -------------------------
(***************************************************************************)
(* Theorems about the jump requests of one row, for every timing and every *)
(* number of ids: deadlines are kept, an id is never started twice, and a  *)
(* jump is paid at most once and never after it was spoiled.               *)
(***************************************************************************)
EXTENDS JumpRequests, TLAPS

Packets ==
  [request : Ids \union {NoId}, cancel : Ids \union {NoId}, valid : BOOLEAN, abort : BOOLEAN]

(* Only a row without a request waits for a distant boundary.               *)
Paced(p) == p.active_id # NoId => p.gap = 1

(* Only a request can be late.                                              *)
Timely(q) == q.active_id = NoId => q.since < Timeout

(* What a boundary leaves of the protocol's record between its two halves.  *)
Receiveds ==
  [max_seen_id : Ids \union {NoId}, active_id : Ids \union {NoId}, since : 0..Timeout,
   cancelled : BOOLEAN, flight_seen : BOOLEAN, air_ticks : Nat,
   landing : -1..StableLanding, gap : {1, 2}]

LEMMA ClearedType ==
  ASSUME NEW p \in Receiveds
  PROVE  /\ Cleared(p) \in Protocols /\ Cleared(p).active_id = NoId
         /\ Cleared(p).max_seen_id = p.max_seen_id /\ Cleared(p).gap = p.gap
         /\ ~Cleared(p).cancelled /\ Cleared(p).since = 0 /\ Cleared(p).landing = -1
BY TimingAssumption DEF Cleared, Protocols, Receiveds, NoId

LEMMA ReceivedFacts ==
  ASSUME NEW p \in Protocols, Paced(p), NEW c \in Packets, NEW estimate \in Estimates,
         NEW allow \in BOOLEAN
  PROVE  LET q == Received(p, c, estimate, allow)
         IN /\ q \in Receiveds
            /\ q.gap = p.gap
            /\ q.max_seen_id = IF New(p, c) THEN c.request ELSE p.max_seen_id
            /\ q.active_id = IF Accepted(p, c, estimate, allow) THEN c.request ELSE p.active_id
            /\ Paced(q) /\ Timely(q)
            /\ Accepted(p, c, estimate, allow) => /\ c.request \in Ids /\ New(p, c) /\ ~q.cancelled
                                                  /\ ~Cancels(q, c)
<1> DEFINE seen == [p EXCEPT !.max_seen_id = IF New(p, c) THEN c.request ELSE p.max_seen_id]
           q == Received(p, c, estimate, allow)
<1>1. p \in Receiveds
  BY TimingAssumption DEF Protocols, Receiveds
<1>2. /\ seen \in Protocols /\ seen \in Receiveds
      /\ seen.max_seen_id = IF New(p, c) THEN c.request ELSE p.max_seen_id
      /\ seen.active_id = p.active_id /\ seen.gap = p.gap
      /\ seen.since = p.since /\ seen.landing = p.landing
  BY <1>1 DEF Packets, Protocols, Receiveds, New
<1>. HIDE DEF seen
<1>3. CASE Accepted(p, c, estimate, allow)
  <2>1. q = [Cleared(seen) EXCEPT !.active_id = c.request]
    BY <1>3 DEF Received, seen
  <2>2. c.request \in Ids /\ New(p, c) /\ p.gap = 1 /\ c.cancel # c.request
    BY <1>3 DEF Accepted, New, Packets, NoId, Ids
  <2>3. Cleared(seen) \in Receiveds
    BY <1>2, ClearedType, TimingAssumption DEF Protocols, Receiveds
  <2>4. /\ q \in Receiveds /\ q.active_id = c.request /\ q.gap = seen.gap
        /\ q.max_seen_id = seen.max_seen_id /\ ~q.cancelled
    BY <2>1, <2>2, <2>3, <1>2, ClearedType DEF Receiveds
  <2>. QED BY <1>2, <1>3, <2>2, <2>4 DEF Paced, Timely, Cancels, NoId, Ids
<1>4. CASE ~Accepted(p, c, estimate, allow) /\ p.active_id = NoId
  BY <1>2, <1>4, TimingAssumption DEF Received, seen, Paced, Timely, Protocols
<1>5. CASE ~Accepted(p, c, estimate, allow) /\ p.active_id # NoId
  <2>1. q = [seen EXCEPT !.since = p.since + p.gap,
                         !.landing = IF p.landing < 0 THEN -1 ELSE p.landing + p.gap]
    BY <1>5 DEF Received, seen
  <2>2. p.gap = 1 /\ p.since + p.gap \in 0..Timeout
    BY <1>5, TimingAssumption DEF Paced, Protocols
  <2>3. (IF p.landing < 0 THEN -1 ELSE p.landing + p.gap) \in -1..StableLanding
    BY <2>2, TimingAssumption DEF Protocols
  <2>4. /\ q \in Receiveds /\ q.active_id = p.active_id /\ q.gap = p.gap
        /\ q.max_seen_id = seen.max_seen_id
    BY <2>1, <2>2, <2>3, <1>2 DEF Receiveds
  <2>. QED BY <1>2, <1>5, <2>2, <2>4 DEF Paced, Timely
<1>. QED BY <1>3, <1>4, <1>5

LEMMA DetectedFacts ==
  ASSUME NEW q \in Receiveds, NEW c \in Packets, NEW estimate \in Estimates
  PROVE  LET d == Detected(q, c, estimate)
         IN /\ d \in Receiveds
            /\ d.active_id = q.active_id /\ d.max_seen_id = q.max_seen_id /\ d.since = q.since
            /\ d.cancelled <=> q.cancelled \/ Cancels(q, c)
            /\ d.landing >= StableLanding => q.active_id # NoId
            /\ d.gap = q.gap
<1> DEFINE air == AirTicks(q, estimate)
           flight == q.flight_seen \/ (q.active_id # NoId /\ air >= FlightConfirm)
           cancelled == q.cancelled \/ Cancels(q, c)
           eligible == /\ q.active_id # NoId /\ estimate = "stable" /\ q.gap = 1
                       /\ flight \/ cancelled
           landing == IF ~eligible THEN -1 ELSE IF q.landing < 0 THEN 0 ELSE q.landing
           d == Detected(q, c, estimate)
<1>1. air \in Nat
  BY DEF AirTicks, Receiveds
<1>2. flight \in BOOLEAN
  <2>. HIDE DEF air
  <2>. QED BY DEF Receiveds
<1>3. cancelled \in BOOLEAN
  BY DEF Receiveds, Cancels
<1>4. eligible => q.active_id # NoId
  OBVIOUS
<1>. HIDE DEF eligible
<1>5. /\ landing \in -1..StableLanding
      /\ landing >= StableLanding => q.active_id # NoId
  BY <1>4, TimingAssumption DEF Receiveds
<1>6. d = [q EXCEPT !.air_ticks = air, !.flight_seen = flight, !.cancelled = cancelled,
                    !.landing = landing]
  BY DEF Detected, eligible
<1>. HIDE DEF air, flight, cancelled, landing, d
<1>7. /\ d \in Receiveds /\ d.active_id = q.active_id /\ d.max_seen_id = q.max_seen_id
      /\ d.since = q.since /\ d.gap = q.gap /\ d.cancelled = cancelled /\ d.landing = landing
  BY <1>1, <1>2, <1>3, <1>5, <1>6 DEF Receiveds
<1>. QED BY <1>5, <1>7 DEF d, cancelled

LEMMA EndFacts ==
  ASSUME NEW q \in Receiveds, NEW c \in Packets, NEW estimate \in Estimates
  PROVE  LET end == End(q, c, estimate)
             d == Detected(q, c, estimate)
         IN /\ end \in {"none", "safety_abort", "timeout", "cancelled", "estimated_complete"}
            /\ end # "none" => q.active_id # NoId
            /\ end = "none" /\ q.active_id # NoId => q.since < Timeout /\ d.landing < StableLanding
            /\ Cancels(q, c) => end # "estimated_complete"
<1> DEFINE d == Detected(q, c, estimate)
<1>1. /\ d \in Receiveds
      /\ d.cancelled <=> q.cancelled \/ Cancels(q, c)
      /\ d.landing >= StableLanding => q.active_id # NoId
  BY DetectedFacts
<1>2. d.landing \in Int /\ q.since \in Int /\ StableLanding \in Int /\ Timeout \in Int
  BY <1>1, TimingAssumption DEF Receiveds
<1>. HIDE DEF d
<1>. QED BY <1>1, <1>2 DEF End, Expired, Cancels, d

LEMMA SteppedFacts ==
  ASSUME NEW q \in Receiveds, Timely(q), NEW c \in Packets, NEW estimate \in Estimates
  PROVE  LET n == Stepped(q, c, estimate)
             end == End(q, c, estimate)
         IN /\ n \in Protocols /\ n.gap = 1
            /\ n.max_seen_id = q.max_seen_id
            /\ n.active_id = IF end = "none" THEN q.active_id ELSE NoId
            /\ end = "none" => (n.cancelled <=> q.cancelled \/ Cancels(q, c))
<1> DEFINE e == Detected(q, c, estimate)
           d == [e EXCEPT !.gap = 1]
           end == End(q, c, estimate)
<1>1. /\ e \in Receiveds
      /\ e.active_id = q.active_id /\ e.max_seen_id = q.max_seen_id /\ e.since = q.since
      /\ e.cancelled <=> q.cancelled \/ Cancels(q, c)
      /\ e.landing >= StableLanding => q.active_id # NoId
  BY DetectedFacts
<1>2. /\ end = "none" /\ q.active_id # NoId => q.since < Timeout /\ e.landing < StableLanding
      /\ end # "none" => q.active_id # NoId
  BY EndFacts
<1>. HIDE DEF e, end
<1>3. /\ d \in Receiveds /\ d.gap = 1 /\ d.active_id = e.active_id
      /\ d.max_seen_id = e.max_seen_id /\ d.since = e.since /\ d.landing = e.landing
      /\ d.cancelled = e.cancelled
  BY <1>1 DEF Receiveds
<1>. HIDE DEF d
<1>4. Stepped(q, c, estimate) = IF end = "none" THEN d ELSE Cleared(d)
  BY DEF Stepped, end, d, e
<1>5. CASE end # "none"
  BY <1>1, <1>3, <1>4, <1>5, ClearedType DEF end
<1>6. CASE end = "none"
  <2>1. q.since < Timeout /\ e.landing < StableLanding
    BY <1>1, <1>2, <1>6, TimingAssumption DEF Timely, Receiveds
  <2>2. d \in Protocols
    BY <1>1, <1>3, <2>1, TimingAssumption DEF Receiveds, Protocols
  <2>. QED BY <1>1, <1>3, <1>4, <1>6, <2>2 DEF end
<1>. QED BY <1>5, <1>6

------------------------------------------------------------------------------
(* The physical channel *)

Ends == {"none", "safety_abort", "timeout", "cancelled", "estimated_complete"}

LEMMA CountType ==
  ASSUME NEW outcomes \in [Outcomes -> Nat], NEW outcome \in Outcomes
  PROVE  Count(outcomes, outcome) \in [Outcomes -> Nat]
BY DEF Count

LEMMA NoPhysicalType ==
  ASSUME NEW t \in Courses
  PROVE  /\ NoPhysical(t) \in Courses /\ NoPhysical(t).physical_id = NoId
         /\ NoPhysical(t).next_id = t.next_id /\ NoPhysical(t).paid_id = t.paid_id
         /\ NoPhysical(t).wait = t.wait /\ NoPhysical(t).outcomes = t.outcomes
<1>1. 0 \in 0..Timeout - 1 /\ NoId \in Ids \union {NoId}
  BY TimingAssumption
<1>. QED BY <1>1 DEF NoPhysical, Courses

(* What a boundary leaves in the channel: r from t.                         *)
ChannelResult(t, n, accepted, closes, blocked, r) ==
  /\ r \in Courses
  /\ r.next_id = t.next_id /\ r.paid_id = t.paid_id /\ r.wait = t.wait
  /\ r.physical_id = IF accepted THEN n.active_id ELSE IF closes THEN NoId ELSE t.physical_id
  /\ /\ ~accepted /\ r.physical_id # NoId
     /\ t.physical_cancelled \/ blocked \/ (r.physical_id = n.active_id /\ n.cancelled)
     => r.physical_cancelled

LEMMA ChannelFacts ==
  ASSUME NEW t \in Courses, NEW n \in Protocols, NEW gap \in {1, 2},
         t.physical_id # NoId => gap = 1,
         NEW accepted \in BOOLEAN, NEW blocked \in BOOLEAN,
         NEW finished_id \in Ids \union {NoId}, NEW end \in Ends
  PROVE  ChannelResult(t, n, accepted, Closes(t, gap, finished_id, end), blocked,
                       Channel(t, n, gap, accepted, finished_id, end, blocked))
<1> DEFINE closed == Closes(t, gap, finished_id, end)
           kept == IF closed THEN [NoPhysical(t) EXCEPT !.outcomes = Count(t.outcomes, "closed")]
                   ELSE IF t.physical_id # NoId
                        THEN [t EXCEPT !.physical_since = t.physical_since + gap]
                   ELSE t
           opened == IF accepted THEN [NoPhysical(kept) EXCEPT !.physical_id = n.active_id] ELSE kept
           mark == ChannelCancelled(opened, n, accepted, blocked)
           r == Channel(t, n, gap, accepted, finished_id, end, blocked)
<1>1. /\ kept \in Courses /\ kept.next_id = t.next_id /\ kept.paid_id = t.paid_id
      /\ kept.wait = t.wait
      /\ kept.physical_id = IF closed THEN NoId ELSE t.physical_id
      /\ ~closed => kept.physical_cancelled = t.physical_cancelled
  <2>1. CASE closed
    <3>1. Count(t.outcomes, "closed") \in [Outcomes -> Nat]
      BY CountType DEF Courses, Outcomes
    <3>. QED BY <2>1, <3>1, NoPhysicalType DEF Courses
  <2>2. CASE ~closed /\ t.physical_id # NoId
    <3>1. t.physical_since + gap \in 0..Timeout - 1
      BY <2>2, TimingAssumption DEF Closes, Courses
    <3>. QED BY <2>2, <3>1 DEF Courses
  <2>3. CASE ~closed /\ t.physical_id = NoId
    BY <2>3
  <2>. QED BY <2>1, <2>2, <2>3
<1>. HIDE DEF kept
<1>2. /\ opened \in Courses /\ opened.next_id = t.next_id /\ opened.paid_id = t.paid_id
      /\ opened.wait = t.wait
      /\ opened.physical_id = IF accepted THEN n.active_id ELSE kept.physical_id
      /\ ~accepted => opened.physical_cancelled = kept.physical_cancelled
  <2>1. CASE accepted
    BY <1>1, <2>1, NoPhysicalType DEF Courses, Protocols
  <2>2. CASE ~accepted
    BY <1>1, <2>2
  <2>. QED BY <2>1, <2>2
<1>. HIDE DEF opened
<1>3. mark \in BOOLEAN
  BY <1>2 DEF ChannelCancelled, Courses, Protocols
<1>. HIDE DEF mark
<1>4. r = [opened EXCEPT !.physical_cancelled = mark]
  BY DEF Channel, mark, opened, kept
<1>. HIDE DEF r
<1>5. /\ r \in Courses /\ r.next_id = t.next_id /\ r.paid_id = t.paid_id /\ r.wait = t.wait
      /\ r.physical_id = opened.physical_id /\ r.physical_cancelled = mark
  BY <1>2, <1>3, <1>4 DEF Courses
<1>6. /\ ~accepted /\ r.physical_id # NoId
      /\ t.physical_cancelled \/ blocked \/ (r.physical_id = n.active_id /\ n.cancelled)
      => mark
  BY <1>1, <1>2, <1>5 DEF mark, ChannelCancelled
<1>. HIDE DEF closed
<1>. QED BY <1>1, <1>2, <1>5, <1>6 DEF r, closed, ChannelResult

LEMMA ObservedFacts ==
  ASSUME NEW t \in Courses, NEW motion \in {"jump", "support", "other"}
  PROVE  LET r == Observed(t, motion)
         IN /\ r \in Courses
            /\ r.next_id = t.next_id /\ r.wait = t.wait
            /\ \/ /\ r.success_id = t.success_id /\ r.paid_id = t.paid_id
                  /\ r.physical_id = t.physical_id
                  /\ r.physical_cancelled = t.physical_cancelled
               \/ /\ t.physical_id # NoId /\ ~t.physical_cancelled /\ t.physical_id > t.paid_id
                  /\ r.success_id = t.physical_id /\ r.paid_id = t.physical_id
                  /\ r.physical_id = NoId
<1> DEFINE open == t.physical_id # NoId
           flown == t.flown \/ (open /\ motion = "jump")
           landed == IF open /\ flown /\ motion = "support" THEN t.landed + 1 ELSE 0
           seen == [t EXCEPT !.flown = flown, !.landed = landed]
           paid == [NoPhysical(t) EXCEPT !.success_id = t.physical_id, !.paid_id = t.physical_id,
                                         !.outcomes = Count(t.outcomes, "verified")]
<1>1. flown \in BOOLEAN /\ landed \in Nat
  BY DEF Courses
<1>2. /\ seen \in Courses /\ seen.next_id = t.next_id /\ seen.wait = t.wait
      /\ seen.success_id = t.success_id /\ seen.paid_id = t.paid_id
      /\ seen.physical_id = t.physical_id /\ seen.physical_cancelled = t.physical_cancelled
  <2>. HIDE DEF flown, landed
  <2>. QED BY <1>1 DEF Courses
<1>3. Count(t.outcomes, "verified") \in [Outcomes -> Nat]
  BY CountType DEF Courses, Outcomes
<1>4. /\ paid \in Courses /\ paid.next_id = t.next_id /\ paid.wait = t.wait
      /\ paid.success_id = t.physical_id /\ paid.paid_id = t.physical_id
      /\ paid.physical_id = NoId
  BY <1>3, NoPhysicalType DEF Courses
<1>5. Observed(t, motion) = IF open /\ Verified(t, landed) THEN paid ELSE seen
  BY DEF Observed
<1>. HIDE DEF seen, paid, landed
<1>. QED BY <1>2, <1>4, <1>5 DEF Verified

------------------------------------------------------------------------------
(* The inductive invariant *)

Histories == [seen : SUBSET Ids, spoiled : SUBSET Ids, paid : SUBSET Ids]

(* A history whose ids lie below the watermarks of the code.                *)
Recorded(h, max_seen_id, paid_id) ==
  /\ h \in Histories
  /\ \A i \in h.seen : i <= max_seen_id
  /\ \A i \in h.paid : i <= paid_id
  /\ h.spoiled \subseteq h.seen

Snapshots ==
  [max_seen_id : Ids \union {NoId}, next_id : Nat, paid_id : Ids \union {NoId},
   outcomes : [Outcomes -> Nat], history : Histories]

Typed ==
  /\ TypeOK
  /\ turn \in {"physics", "decision"}
  /\ Recorded(history, protocol.max_seen_id, course.paid_id)
  /\ course.success_id <= course.paid_id
  /\ saved \in Snapshots
  /\ Recorded(saved.history, saved.max_seen_id, saved.paid_id)

(* The request that runs was submitted in this learning run.                *)
Submitted(p, h) == p.active_id # NoId => p.active_id \in h.seen

(* So was the one that is verified, and the channel knows if it is spoiled. *)
Tracked(p, t, h) ==
  t.physical_id # NoId =>
    /\ p.gap = 1
    /\ t.physical_id \in h.seen
    /\ t.physical_id \in h.spoiled => t.physical_cancelled

Inv ==
  /\ Typed
  /\ Paced(protocol)
  /\ AutomaticIdsAreNew
  /\ ChannelFollowsProtocol
  /\ Submitted(protocol, history)
  /\ Tracked(protocol, course, history)

LEMMA FreshType ==
  ASSUME NEW kind \in Kinds, NEW wait \in Nat
  PROVE  /\ Fresh \in Protocols /\ NewCourse(kind, wait) \in Courses
         /\ NewHistory \in Histories
BY TimingAssumption DEF Fresh, Protocols, NewCourse, Courses, NewHistory, Histories, NoId, Ids

LEMMA InvInit == Init => Inv
<1> SUFFICES ASSUME Init PROVE Inv
  OBVIOUS
<1>1. PICK kind \in Kinds, wait \in Intervals :
        /\ protocol = Fresh
        /\ course = NewCourse(kind, wait)
        /\ saved = Snapshot(Fresh, NewCourse(kind, wait), NewHistory)
        /\ turn = "physics"
        /\ history = NewHistory
  BY DEF Init
<1>2. wait \in Nat
  BY TimingAssumption
<1>3. /\ Fresh \in Protocols /\ NewCourse(kind, wait) \in Courses /\ NewHistory \in Histories
  BY <1>2, FreshType
<1>4. /\ protocol.max_seen_id = NoId /\ protocol.active_id = NoId /\ course.paid_id = NoId
      /\ course.physical_id = NoId /\ course.next_id = 0 /\ course.success_id = NoId
      /\ history.seen = {} /\ history.spoiled = {} /\ history.paid = {}
  BY <1>1 DEF Fresh, NewCourse, NewHistory
<1>5. saved \in Snapshots
  BY <1>1, <1>3 DEF Snapshot, Snapshots, Protocols, Courses
<1>6. /\ saved.max_seen_id = NoId /\ saved.paid_id = NoId /\ saved.history = NewHistory
  BY <1>1 DEF Snapshot, Fresh, NewCourse
<1>7. Recorded(NewHistory, NoId, NoId)
  BY <1>3 DEF Recorded, NewHistory
<1>. QED BY <1>1, <1>3, <1>4, <1>5, <1>6, <1>7
         DEF Inv, Typed, TypeOK, Paced, AutomaticIdsAreNew, ChannelFollowsProtocol, NoId,
             Submitted, Tracked

(* What a step may not do, as the two action properties say it.             *)
StartsNew ==
  protocol'.active_id # protocol.active_id /\ protocol'.active_id # NoId
    => protocol'.active_id \notin history.seen

PaysEarned ==
  course'.success_id # NoId /\ course.success_id = NoId
    => course'.success_id \in history.seen \ (history.spoiled \union history.paid)

LEMMA BoundaryStep ==
  ASSUME Inv, NEW c \in Packets, NEW due \in BOOLEAN, NEW allow \in BOOLEAN,
         NEW estimate \in Estimates, NEW blocked \in BOOLEAN,
         Boundary(c, due, allow, estimate, blocked)
  PROVE  Inv' /\ StartsNew /\ PaysEarned
<1> DEFINE q == Received(protocol, c, estimate, allow)
           end == End(q, c, estimate)
           n == Stepped(q, c, estimate)
           accepted == Accepted(protocol, c, estimate, allow)
           finished_id == IF end = "none" THEN NoId ELSE q.active_id
           r == Channel(course, n, protocol.gap, accepted, finished_id, end, blocked)
           fresh == New(protocol, c)
           spoils == Spoiled(q, c, end, blocked)
<1>1. /\ protocol \in Protocols /\ course \in Courses /\ Paced(protocol)
      /\ history \in Histories /\ saved \in Snapshots
      /\ course.physical_id # NoId => protocol.gap = 1
  BY DEF Inv, Typed, TypeOK, Recorded, Tracked
<1>2. /\ q \in Receiveds /\ Timely(q)
      /\ q.max_seen_id = IF fresh THEN c.request ELSE protocol.max_seen_id
      /\ q.active_id = IF accepted THEN c.request ELSE protocol.active_id
      /\ accepted => /\ c.request \in Ids /\ fresh /\ ~q.cancelled /\ ~Cancels(q, c)
  BY <1>1, ReceivedFacts
<1>3. /\ end \in Ends
      /\ end # "none" => q.active_id # NoId
      /\ Cancels(q, c) => end # "estimated_complete"
  BY <1>2, EndFacts DEF Ends
<1>4. /\ n \in Protocols /\ n.gap = 1
      /\ n.max_seen_id = q.max_seen_id
      /\ n.active_id = IF end = "none" THEN q.active_id ELSE NoId
      /\ end = "none" => (n.cancelled <=> q.cancelled \/ Cancels(q, c))
  BY <1>2, SteppedFacts
<1>5. /\ accepted \in BOOLEAN /\ fresh \in BOOLEAN
      /\ finished_id \in Ids \union {NoId}
      /\ protocol.gap \in {1, 2}
  BY <1>1, <1>2 DEF Accepted, New, Receiveds, Protocols
<1>6. ChannelResult(course, n, accepted, Closes(course, protocol.gap, finished_id, end), blocked, r)
  <2>1. n \in Protocols /\ end \in Ends
    BY <1>3, <1>4
  <2>. HIDE DEF n, end, accepted, finished_id
  <2>. QED BY <1>1, <1>5, <2>1, ChannelFacts
<1>7. /\ turn' = "physics" /\ protocol' = n /\ saved' = saved
      /\ history' = [history EXCEPT !.seen = IF fresh THEN @ \union {c.request} ELSE @,
                                    !.spoiled = @ \union spoils]
      /\ \E interval \in Intervals :
           course' = [r EXCEPT !.success_id = NoId, !.next_id = NextId(course, n, due),
                               !.wait = IF due THEN interval ELSE Max2(course.wait - 1, 0)]
  BY DEF Boundary
<1>8. spoils = (IF Cancels(q, c) \/ end \in {"safety_abort", "timeout"} THEN {q.active_id} ELSE {})
                 \union (IF blocked THEN {course.physical_id} \ {NoId} ELSE {})
  BY DEF Spoiled
<1>9. /\ Cancels(q, c) <=> q.active_id # NoId /\ c.cancel = q.active_id
      /\ /\ course.physical_id # NoId
         /\ finished_id = course.physical_id /\ end \notin {"none", "estimated_complete"}
         => Closes(course, protocol.gap, finished_id, end)
      /\ fresh <=> c.request >= 0 /\ c.request > protocol.max_seen_id
  BY DEF Cancels, Closes, New
<1> DEFINE cancels == Cancels(q, c)
           closes == Closes(course, protocol.gap, finished_id, end)
<1>. HIDE DEF q, end, n, accepted, r, fresh, spoils, cancels, closes
<1>30. /\ r \in Courses
       /\ r.next_id = course.next_id /\ r.paid_id = course.paid_id /\ r.wait = course.wait
       /\ r.physical_id = IF accepted THEN n.active_id
                          ELSE IF closes THEN NoId ELSE course.physical_id
       /\ /\ ~accepted /\ r.physical_id # NoId
          /\ course.physical_cancelled \/ blocked \/ (r.physical_id = n.active_id /\ n.cancelled)
          => r.physical_cancelled
  BY <1>6 DEF ChannelResult, closes
<1>10. /\ course' \in Courses
       /\ course'.success_id = NoId /\ course'.paid_id = course.paid_id
       /\ course'.physical_id = r.physical_id
       /\ course'.physical_cancelled = r.physical_cancelled
       /\ course'.next_id > n.max_seen_id
  <2>1. PICK interval \in Intervals :
          course' = [r EXCEPT !.success_id = NoId, !.next_id = NextId(course, n, due),
                              !.wait = IF due THEN interval ELSE Max2(course.wait - 1, 0)]
    BY <1>7
  <2>2. (IF due THEN interval ELSE Max2(course.wait - 1, 0)) \in Nat
    BY <1>1, TimingAssumption DEF Max2, Courses
  <2>3. NextId(course, n, due) \in Nat /\ NextId(course, n, due) > n.max_seen_id
    BY <1>1, <1>4, TimingAssumption DEF NextId, Max2, Courses, Protocols, Ids, NoId
  <2> DEFINE w == IF due THEN interval ELSE Max2(course.wait - 1, 0)
             i == NextId(course, n, due)
  <2>. HIDE DEF w, i
  <2>4. course' = [r EXCEPT !.success_id = NoId, !.next_id = i, !.wait = w]
    BY <2>1 DEF w, i
  <2>5. w \in Nat /\ i \in Nat
    BY <2>2, <2>3 DEF w, i
  <2>6. /\ course' \in Courses
        /\ course'.success_id = NoId /\ course'.paid_id = r.paid_id
        /\ course'.physical_id = r.physical_id
        /\ course'.physical_cancelled = r.physical_cancelled
        /\ course'.next_id = i
    BY <1>30, <2>4, <2>5 DEF Courses
  <2>. QED BY <1>30, <2>3, <2>6 DEF i
<1>11. \A i \in history.seen : i <= protocol.max_seen_id
  BY DEF Inv, Typed, Recorded
<1>12. /\ history'.seen = IF fresh THEN history.seen \union {c.request} ELSE history.seen
       /\ history'.spoiled = history.spoiled \union spoils
       /\ history'.paid = history.paid
  BY <1>1, <1>7 DEF Histories
<1>13. fresh => c.request \in Ids
  BY <1>9 DEF Packets, Ids, NoId
<1>14. q.active_id # NoId => q.active_id \in history'.seen
  BY <1>2, <1>12 DEF Inv, Submitted
<1>15. course.physical_id # NoId => course.physical_id \in history.seen
  BY DEF Inv, Tracked
<1>16. end # "none" \/ cancels => q.active_id # NoId
  BY <1>3, <1>9 DEF cancels
<1>17. spoils \subseteq history'.seen
  BY <1>8, <1>12, <1>14, <1>15, <1>16 DEF cancels
<1>18. Recorded(history, protocol.max_seen_id, course.paid_id)'
  <2>1. history' \in Histories
    <3>1. spoils \subseteq Ids
      BY <1>1, <1>12, <1>13, <1>17 DEF Histories
    <3>2. history'.seen \subseteq Ids
      BY <1>1, <1>12, <1>13 DEF Histories
    <3>. QED BY <1>1, <1>7, <3>1, <3>2, <1>12 DEF Histories
  <2>2. \A i \in history'.seen : i <= n.max_seen_id
    BY <1>1, <1>2, <1>4, <1>9, <1>11, <1>12, <1>13 DEF Histories, Protocols, Ids, NoId
  <2>3. history'.spoiled \subseteq history'.seen
    BY <1>12, <1>17 DEF Inv, Typed, Recorded
  <2>4. \A i \in history'.paid : i <= course'.paid_id
    BY <1>10, <1>12 DEF Inv, Typed, Recorded
  <2>. QED BY <1>7, <2>1, <2>2, <2>3, <2>4 DEF Recorded
<1>31. course'.success_id <= course'.paid_id
  BY <1>1, <1>10 DEF Courses, Ids, NoId
<1>19. Typed'
  BY <1>4, <1>7, <1>10, <1>18, <1>31 DEF Inv, Typed, TypeOK
<1>20. accepted => c.request \notin history.seen
  BY <1>1, <1>2, <1>9, <1>11, <1>13 DEF Histories, Protocols, Ids, NoId
<1>21. ChannelFollowsProtocol'
  <2>1. protocol.active_id # NoId /\ course.physical_id # NoId
          => course.physical_id = protocol.active_id
    BY DEF Inv, ChannelFollowsProtocol
  <2>2. n.active_id # NoId /\ r.physical_id # NoId => r.physical_id = n.active_id
    BY <1>2, <1>4, <1>30, <2>1
  <2>3. accepted /\ n.active_id # NoId => ~n.cancelled
    BY <1>2, <1>4
  <2>4. n.active_id # NoId /\ n.cancelled /\ r.physical_id # NoId => r.physical_cancelled
    BY <1>30, <2>2, <2>3
  <2>. QED BY <1>7, <1>10, <2>2, <2>4 DEF ChannelFollowsProtocol
<1>22. r.physical_id # NoId =>
         /\ r.physical_id \in history'.seen
         /\ r.physical_id \in history'.spoiled => r.physical_cancelled
  <2> SUFFICES ASSUME r.physical_id # NoId
               PROVE  /\ r.physical_id \in history'.seen
                      /\ r.physical_id \in history'.spoiled => r.physical_cancelled
    OBVIOUS
  <2>1. CASE accepted
    <3>1. r.physical_id = c.request /\ q.active_id = c.request /\ end = "none"
      BY <1>2, <1>4, <1>30, <2>1
    <3>2. c.request \notin history.spoiled
      BY <1>20, <2>1 DEF Inv, Typed, Recorded
    <3>3. course.physical_id # c.request
      BY <1>15, <1>20, <2>1, <3>1
    <3>4. c.request \notin spoils
      BY <1>2, <1>8, <2>1, <3>1, <3>3
    <3>. QED BY <1>12, <1>14, <3>1, <3>2, <3>4
  <2>2. CASE ~accepted
    <3>1. r.physical_id = course.physical_id /\ ~closes /\ q.active_id = protocol.active_id
      BY <1>2, <1>30, <2>2 DEF closes
    <3>2. course.physical_id \in history.spoiled => course.physical_cancelled
      BY <3>1 DEF Inv, Tracked
    <3>3. /\ cancels \/ end \in {"safety_abort", "timeout"}
          /\ q.active_id = course.physical_id /\ course.physical_id # NoId
          => end = "none"
      BY <1>3, <1>9, <3>1 DEF cancels, closes, Ends
    <3>4. cancels /\ end = "none" /\ q.active_id = course.physical_id => r.physical_cancelled
      BY <1>4, <1>30, <2>2, <3>1 DEF cancels
    <3>5. blocked => r.physical_cancelled
      BY <1>30, <2>2
    <3>6. course.physical_cancelled => r.physical_cancelled
      BY <1>30, <2>2
    <3>7. r.physical_id \in spoils => r.physical_cancelled
      BY <1>8, <3>1, <3>3, <3>4, <3>5 DEF cancels
    <3>. QED BY <1>12, <1>15, <3>1, <3>2, <3>6, <3>7
  <2>. QED BY <2>1, <2>2
<1>23. StartsNew
  BY <1>2, <1>4, <1>7, <1>20 DEF StartsNew
<1>24. PaysEarned
  BY <1>10 DEF PaysEarned
<1>25. Paced(protocol)'
  BY <1>4, <1>7 DEF Paced
<1>26. AutomaticIdsAreNew'
  BY <1>7, <1>10 DEF AutomaticIdsAreNew
<1>27. Submitted(protocol, history)'
  BY <1>4, <1>7, <1>14 DEF Submitted
<1>28. Tracked(protocol, course, history)'
  BY <1>4, <1>7, <1>10, <1>22 DEF Tracked
<1>29. Inv'
  BY <1>19, <1>21, <1>25, <1>26, <1>27, <1>28 DEF Inv
<1>. QED BY <1>23, <1>24, <1>29

LEMMA DecideAutomaticStep ==
  ASSUME Inv, DecideAutomatic PROVE Inv' /\ StartsNew /\ PaysEarned
<1>1. PICK estimate \in Estimates, blocked \in BOOLEAN :
        /\ Due(protocol, course, blocked) => course.next_id \in Ids
        /\ Boundary(Automatic(protocol, course, blocked), Due(protocol, course, blocked),
                    course.kind = "request" /\ ~blocked, estimate, blocked)
  BY DEF DecideAutomatic
<1>2. Automatic(protocol, course, blocked) \in Packets
  BY <1>1 DEF Automatic, Packets
<1>3. Due(protocol, course, blocked) \in BOOLEAN /\ (course.kind = "request" /\ ~blocked) \in BOOLEAN
  BY DEF Due
<1>. QED BY <1>1, <1>2, <1>3, BoundaryStep

LEMMA DecideExternalStep ==
  ASSUME Inv, DecideExternal PROVE Inv' /\ StartsNew /\ PaysEarned
<1>1. PICK estimate \in Estimates, blocked \in BOOLEAN, c \in External(protocol) :
        Boundary(c, FALSE, course.kind # "recovery" /\ ~blocked, estimate, blocked)
  BY DEF DecideExternal
<1>2. protocol \in Protocols
  BY DEF Inv, Typed, TypeOK
<1>3. c \in Packets
  <2>1. CASE c \in NewPackets(protocol)
    BY <1>2, <2>1 DEF NewPackets, Packets, Protocols
  <2>2. CASE c \in OldPackets(protocol)
    <3>1. 0..protocol.max_seen_id \subseteq Ids
      BY <1>2, TimingAssumption DEF Protocols, Ids, NoId
    <3>2. (protocol.active_id # NoId) \in BOOLEAN
      OBVIOUS
    <3>. QED BY <1>2, <2>2, <3>1, <3>2 DEF OldPackets, Packets, Protocols
  <2>. QED BY <1>1, <2>1, <2>2 DEF External
<1>4. (course.kind # "recovery" /\ ~blocked) \in BOOLEAN
  OBVIOUS
<1>. QED BY <1>1, <1>3, <1>4, BoundaryStep

LEMMA ObserveStep ==
  ASSUME Inv, Observe PROVE Inv' /\ StartsNew /\ PaysEarned
<1>1. PICK motion \in {"jump", "support", "other"} :
        /\ turn' = "decision"
        /\ course' = Observed(course, motion)
        /\ history' = [history EXCEPT !.paid = IF course'.success_id = NoId THEN @
                                               ELSE @ \union {course'.success_id}]
        /\ protocol' = protocol /\ saved' = saved
  BY DEF Observe
<1>2. /\ protocol \in Protocols /\ course \in Courses /\ history \in Histories
      /\ saved \in Snapshots
  BY DEF Inv, Typed, TypeOK, Recorded
<1>3. /\ course' \in Courses
      /\ course'.next_id = course.next_id
      /\ \/ /\ course'.success_id = course.success_id /\ course'.paid_id = course.paid_id
            /\ course'.physical_id = course.physical_id
            /\ course'.physical_cancelled = course.physical_cancelled
         \/ /\ course.physical_id # NoId /\ ~course.physical_cancelled
            /\ course.physical_id > course.paid_id
            /\ course'.success_id = course.physical_id /\ course'.paid_id = course.physical_id
            /\ course'.physical_id = NoId
  BY <1>1, <1>2, ObservedFacts
<1>4. /\ history'.seen = history.seen /\ history'.spoiled = history.spoiled
      /\ history'.paid = history.paid \union ({course'.success_id} \ {NoId})
      /\ history' \in Histories
  BY <1>1, <1>2, <1>3 DEF Histories, Courses
<1>5. course'.success_id <= course'.paid_id /\ course'.paid_id >= course.paid_id
  BY <1>2, <1>3 DEF Inv, Typed, Courses, Ids, NoId
<1>6. Recorded(history, protocol.max_seen_id, course.paid_id)'
  <2>1. \A i \in history.paid : i <= course.paid_id
    BY DEF Inv, Typed, Recorded
  <2>2. \A i \in history'.paid : i <= course'.paid_id
    BY <1>2, <1>3, <1>4, <1>5, <2>1 DEF Histories, Courses, Ids, NoId
  <2>. QED BY <1>1, <1>4, <2>2 DEF Inv, Typed, Recorded
<1>7. Typed'
  BY <1>1, <1>3, <1>5, <1>6 DEF Inv, Typed, TypeOK
<1>8. Paced(protocol)' /\ AutomaticIdsAreNew' /\ Submitted(protocol, history)'
  BY <1>1, <1>3, <1>4 DEF Inv, Paced, AutomaticIdsAreNew, Submitted
<1>9. ChannelFollowsProtocol'
  BY <1>1, <1>3 DEF Inv, ChannelFollowsProtocol
<1>10. Tracked(protocol, course, history)'
  BY <1>1, <1>3, <1>4 DEF Inv, Tracked
<1>11. Inv'
  BY <1>7, <1>8, <1>9, <1>10 DEF Inv
<1>12. PaysEarned
  <2>1. course.physical_id # NoId /\ course.physical_id > course.paid_id
          => course.physical_id \notin history.paid
    BY <1>2 DEF Inv, Typed, Recorded, Histories, Courses, Ids, NoId
  <2>. QED BY <1>3, <2>1 DEF Inv, Tracked, PaysEarned
<1>. QED BY <1>1, <1>11, <1>12 DEF StartsNew

LEMMA HandoffStep ==
  ASSUME Inv, Handoff PROVE Inv' /\ StartsNew /\ PaysEarned
<1>1. /\ course' = [course EXCEPT !.kind = "other"] /\ protocol' = protocol
      /\ saved' = saved /\ turn' = turn /\ history' = history
  BY DEF Handoff
<1>2. course \in Courses
  BY DEF Inv, Typed, TypeOK
<1>3. /\ course' \in Courses /\ course'.next_id = course.next_id
      /\ course'.success_id = course.success_id /\ course'.paid_id = course.paid_id
      /\ course'.physical_id = course.physical_id
      /\ course'.physical_cancelled = course.physical_cancelled
  BY <1>1, <1>2 DEF Courses, Kinds
<1>4. Typed'
  BY <1>1, <1>3 DEF Inv, Typed, TypeOK, Recorded
<1>5. Inv'
  BY <1>1, <1>3, <1>4
     DEF Inv, Paced, AutomaticIdsAreNew, Submitted, ChannelFollowsProtocol, Tracked
<1>. QED BY <1>1, <1>3, <1>5 DEF StartsNew, PaysEarned

LEMMA ResetStep ==
  ASSUME Inv, Reset PROVE Inv' /\ StartsNew /\ PaysEarned
<1>1. PICK kind \in Kinds, wait \in Intervals :
        /\ turn = "physics"
        /\ protocol' = ResetProtocol(protocol)
        /\ course' = [NewEpisode(course, kind, wait) EXCEPT
                        !.outcomes = IF course.physical_id = NoId THEN @ ELSE Count(@, "reset")]
        /\ history' = [history EXCEPT !.spoiled = @ \union ({course.physical_id} \ {NoId})]
        /\ saved' = saved /\ turn' = turn
  BY DEF Reset
<1>2. /\ protocol \in Protocols /\ course \in Courses /\ history \in Histories
      /\ wait \in Nat
  BY TimingAssumption DEF Inv, Typed, TypeOK, Recorded
<1>3. /\ protocol' \in Protocols /\ protocol'.active_id = NoId
      /\ protocol'.max_seen_id = protocol.max_seen_id
  <2>1. protocol \in Receiveds
    BY <1>2, TimingAssumption DEF Protocols, Receiveds
  <2>2. /\ Cleared(protocol) \in Protocols /\ Cleared(protocol).active_id = NoId
        /\ Cleared(protocol).max_seen_id = protocol.max_seen_id
    BY <2>1, ClearedType
  <2>. QED BY <1>1, <2>2 DEF ResetProtocol, Protocols
<1>4. /\ course' \in Courses /\ course'.next_id = course.next_id
      /\ course'.success_id = NoId /\ course'.paid_id = course.paid_id
      /\ course'.physical_id = NoId
  <2> DEFINE e == NewEpisode(course, kind, wait)
             o == IF course.physical_id = NoId THEN e.outcomes ELSE Count(e.outcomes, "reset")
  <2>1. /\ e \in Courses /\ e.next_id = course.next_id /\ e.success_id = NoId
        /\ e.paid_id = course.paid_id /\ e.physical_id = NoId
    BY <1>2, NoPhysicalType DEF NewEpisode, Courses
  <2>. HIDE DEF e
  <2>2. o \in [Outcomes -> Nat]
    BY <2>1, CountType DEF Courses, Outcomes
  <2>3. course' = [e EXCEPT !.outcomes = o]
    BY <1>1 DEF e
  <2>. HIDE DEF o
  <2>. QED BY <2>1, <2>2, <2>3 DEF Courses
<1>5. /\ history'.seen = history.seen /\ history'.paid = history.paid
      /\ history'.spoiled = history.spoiled \union ({course.physical_id} \ {NoId})
  BY <1>1, <1>2 DEF Histories
<1>6. history'.spoiled \subseteq history.seen
  BY <1>5 DEF Inv, Typed, Recorded, Tracked
<1>7. history' \in Histories
  BY <1>1, <1>2, <1>5, <1>6 DEF Histories
<1>8. Recorded(history, protocol.max_seen_id, course.paid_id)'
  BY <1>3, <1>4, <1>5, <1>6, <1>7 DEF Inv, Typed, Recorded
<1>9. Typed'
  BY <1>1, <1>2, <1>3, <1>4, <1>8 DEF Inv, Typed, TypeOK, Courses, Ids, NoId
<1>10. Inv'
  BY <1>3, <1>4, <1>9
     DEF Inv, Paced, AutomaticIdsAreNew, Submitted, ChannelFollowsProtocol, Tracked
<1>. QED BY <1>3, <1>4, <1>10 DEF StartsNew, PaysEarned

LEMMA SaveStateStep ==
  ASSUME Inv, SaveState PROVE Inv' /\ StartsNew /\ PaysEarned
<1>1. /\ saved' = Snapshot(protocol, course, history)
      /\ protocol' = protocol /\ course' = course /\ turn' = turn /\ history' = history
  BY DEF SaveState
<1>2. /\ protocol \in Protocols /\ course \in Courses
      /\ Recorded(history, protocol.max_seen_id, course.paid_id)
  BY DEF Inv, Typed, TypeOK
<1>3. /\ saved' \in Snapshots
      /\ saved'.max_seen_id = protocol.max_seen_id /\ saved'.paid_id = course.paid_id
      /\ saved'.history = history
  BY <1>1, <1>2 DEF Snapshot, Snapshots, Protocols, Courses, Recorded
<1>4. Typed'
  BY <1>1, <1>2, <1>3 DEF Inv, Typed, TypeOK, Recorded
<1>5. Inv'
  BY <1>1, <1>4
     DEF Inv, Paced, AutomaticIdsAreNew, Submitted, ChannelFollowsProtocol, Tracked
<1>. QED BY <1>1, <1>5 DEF StartsNew, PaysEarned

LEMMA ColdRestoreStep ==
  ASSUME Inv, ColdRestore PROVE Inv' /\ StartsNew /\ PaysEarned
<1>1. PICK kind \in Kinds, wait \in Intervals :
        /\ protocol' = RestoredProtocol(saved)
        /\ course' = [NewCourse(kind, wait) EXCEPT
                        !.next_id = Max2(saved.next_id, saved.max_seen_id + 1),
                        !.paid_id = saved.paid_id, !.outcomes = saved.outcomes]
        /\ history' = saved.history
        /\ turn' = "physics" /\ saved' = saved
  BY DEF ColdRestore
<1>2. /\ saved \in Snapshots /\ wait \in Nat
      /\ Recorded(saved.history, saved.max_seen_id, saved.paid_id)
  BY TimingAssumption DEF Inv, Typed
<1>3. /\ protocol' \in Protocols /\ protocol'.active_id = NoId
      /\ protocol'.max_seen_id = saved.max_seen_id
  <2>1. Fresh \in Protocols
    BY <1>2, FreshType
  <2>2. Fresh.active_id = NoId
    BY DEF Fresh
  <2>. HIDE DEF Fresh
  <2>. QED BY <1>1, <1>2, <2>1, <2>2 DEF RestoredProtocol, Protocols, Snapshots
<1>4. /\ course' \in Courses /\ course'.next_id > saved.max_seen_id
      /\ course'.success_id = NoId /\ course'.paid_id = saved.paid_id
      /\ course'.physical_id = NoId
  <2> DEFINE b == NewCourse(kind, wait)
             i == Max2(saved.next_id, saved.max_seen_id + 1)
  <2>1. b \in Courses /\ b.success_id = NoId /\ b.physical_id = NoId
    BY <1>2, FreshType DEF NewCourse
  <2>2. i \in Nat /\ i > saved.max_seen_id
    BY <1>2, TimingAssumption DEF Snapshots, Max2, Ids, NoId
  <2>. HIDE DEF b, i
  <2>3. course' = [b EXCEPT !.next_id = i, !.paid_id = saved.paid_id,
                            !.outcomes = saved.outcomes]
    BY <1>1 DEF b, i
  <2>. QED BY <1>2, <2>1, <2>2, <2>3 DEF Courses, Snapshots
<1>5. Recorded(history, protocol.max_seen_id, course.paid_id)'
  BY <1>1, <1>2, <1>3, <1>4 DEF Recorded
<1>6. course'.success_id <= course'.paid_id
  BY <1>2, <1>4 DEF Snapshots, Ids, NoId
<1>7. Typed'
  BY <1>1, <1>2, <1>3, <1>4, <1>5, <1>6 DEF Typed, TypeOK
<1>8. Inv'
  BY <1>3, <1>4, <1>7
     DEF Inv, Paced, AutomaticIdsAreNew, Submitted, ChannelFollowsProtocol, Tracked
<1>. QED BY <1>3, <1>4, <1>8 DEF StartsNew, PaysEarned

LEMMA InvStep ==
  ASSUME Inv, [Next]_vars PROVE Inv' /\ [StartsNew /\ PaysEarned]_vars
<1>1. CASE Next
  BY <1>1, ObserveStep, DecideAutomaticStep, DecideExternalStep, HandoffStep, ResetStep,
     SaveStateStep, ColdRestoreStep DEF Next
<1>2. CASE UNCHANGED vars
  BY <1>2 DEF vars, Inv, Typed, TypeOK, Recorded, Paced, AutomaticIdsAreNew,
              ChannelFollowsProtocol, Submitted, Tracked
<1>. QED BY <1>1, <1>2

LEMMA Invariance == Spec => []Inv
<1>1. Inv /\ [Next]_vars => Inv'
  BY InvStep
<1>. QED BY InvInit, <1>1, PTL DEF Spec

(* Every reachable record is of its type; in particular neither record of a *)
(* request ever grows older than timeout_s (RequestProtocol.step,           *)
(* LabCourseTasks.step).                                                    *)
THEOREM TypeCorrect == Spec => []TypeOK
<1>1. Inv => TypeOK
  BY DEF Inv, Typed
<1>. QED BY Invariance, <1>1, PTL

(* While a request runs, the physical channel verifies that request or none *)
(* and knows of its cancellation (LabCourseTasks.step).                     *)
THEOREM ChannelCorrect == Spec => []ChannelFollowsProtocol
<1>1. Inv => ChannelFollowsProtocol
  BY DEF Inv
<1>. QED BY Invariance, <1>1, PTL

(* The id of the next automatic request is above every id the row has seen, *)
(* whatever external commands and restored checkpoints did.                 *)
THEOREM AutomaticIdsNew == Spec => []AutomaticIdsAreNew
<1>1. Inv => AutomaticIdsAreNew
  BY DEF Inv
<1>. QED BY Invariance, <1>1, PTL

(* No id is started that the learning run has seen before: the watermark    *)
(* max_seen_id survives resets and cold restores.                           *)
THEOREM NeverReplayed == Spec => NothingIsReplayed
<1>1. Inv /\ [Next]_vars =>
        [protocol'.active_id # protocol.active_id /\ protocol'.active_id # NoId
           => protocol'.active_id \notin history.seen]_vars
  BY InvStep DEF StartsNew
<1>. QED BY Invariance, <1>1, PTL DEF Spec, NothingIsReplayed

(* A jump is paid once, and never after it was spoiled: what ends a request *)
(* without success has reached the channel before it can verify one.        *)
THEOREM PaymentEarned == Spec => PaymentIsEarned
<1>1. Inv /\ [Next]_vars =>
        [course'.success_id # NoId /\ course.success_id = NoId
           => course'.success_id \in history.seen \ (history.spoiled \union history.paid)]_vars
  BY InvStep DEF PaysEarned
<1>. QED BY Invariance, <1>1, PTL DEF Spec, PaymentIsEarned
=============================================================================
