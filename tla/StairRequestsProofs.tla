------------------------ MODULE StairRequestsProofs -------------------------
(***************************************************************************)
(* Theorems about the stair skill of one row, for every number of ids and  *)
(* risers and every timing: protocol, mode and trigger agree at every      *)
(* boundary.                                                               *)
(***************************************************************************)
EXTENDS StairRequests, TLAPS

RequestSet ==
  [max_seen_id : Ids \union {NoId}, active_id : Ids \union {NoId},
   height : Heights \union {"none"}, elapsed : 0..Timeout]

SkillSet == [state : {"normal", "step_up", "stair", "body_bump"}, time : 0..Timeout]

TriggerSet ==
  [armed : BOOLEAN, countdown : Nat \union {-1}, riser : Risers \union {NoRiser},
   last : Risers \union {NoRiser}, cleared : BOOLEAN]

CommandSet ==
  [request : Ids \union {NoId, BadId}, cancel : Ids \union {NoId},
   height : Heights \union {"none"}, ready : BOOLEAN, jump : BOOLEAN]

(* Waits for a riser or for its latency.                                    *)
Waiting(t) == t.armed \/ t.countdown >= 0

Exclusive(t) == ~(t.armed /\ t.countdown >= 0)

(* While the riser last requested stays ahead, the trigger has not cleared  *)
(* it and has no other riser under way.                                     *)
Held(t) == ~t.cleared /\ t.countdown = -1 /\ t.last # NoRiser

RiserIsHeld == history.riser = "ahead" => Held(trigger)

(* The mode s is the one the request r asks for, of the same age.           *)
Follows(s, r) ==
  IF r.active_id # NoId /\ r.height # "lowest"
  THEN s.state = r.height /\ s.time = r.elapsed + 1
  ELSE s = Normal

(* An active request has a height.                                          *)
Sized(r) == r.active_id # NoId => r.height \in Heights

LEMMA Timings == Timeout \in Nat /\ Timeout > 0 /\ -1 \notin Ids /\ -2 \notin Ids /\ Ids \subseteq Nat
BY TimingAssumption DEF Ids

LEMMA BeamFacts ==
  ASSUME NEW b \in Beams
  PROVE  /\ b.riser \in Risers \union {NoRiser}
         /\ b.reach = "standing" => b.riser = NoRiser
BY DEF Beams

LEMMA LookedFacts ==
  ASSUME NEW t \in TriggerSet, Exclusive(t), NEW b \in Beams, NEW latency \in Latency
  PROVE  LET l == Looked(t, b, latency)
         IN /\ l \in TriggerSet /\ Exclusive(l) /\ l.last = t.last
            /\ Waiting(t) => Waiting(l)
            /\ l.cleared <=> ClearedNow(t, b)
            /\ ~Detects(t, b) => l.countdown = t.countdown
<1> DEFINE seen == [t EXCEPT !.cleared = ClearedNow(t, b)]
           l == Looked(t, b, latency)
<1>1. ClearedNow(t, b) \in BOOLEAN
  BY DEF ClearedNow, TriggerSet
<1>2. /\ seen \in TriggerSet /\ seen.last = t.last /\ seen.armed = t.armed
      /\ seen.countdown = t.countdown /\ seen.cleared = ClearedNow(t, b)
  BY <1>1 DEF TriggerSet
<1>. HIDE DEF seen
<1>3. CASE Detects(t, b)
  <2>1. l = [seen EXCEPT !.armed = FALSE, !.countdown = latency, !.riser = b.riser]
    BY <1>3 DEF Looked, seen
  <2>2. b.riser \in Risers \union {NoRiser} /\ latency \in Nat
    BY BeamFacts, TimingAssumption
  <2>3. /\ l \in TriggerSet /\ ~l.armed /\ l.countdown = latency /\ l.last = seen.last
        /\ l.cleared = seen.cleared
    BY <2>1, <2>2, <1>2 DEF TriggerSet
  <2>. QED BY <2>2, <2>3, <1>2, <1>3 DEF Exclusive, Waiting
<1>4. CASE ~Detects(t, b)
  <2>1. l = seen
    BY <1>4 DEF Looked, seen
  <2>. QED BY <2>1, <1>2 DEF Exclusive, Waiting
<1>. QED BY <1>3, <1>4

LEMMA ArmedFacts ==
  ASSUME NEW t \in TriggerSet
  PROVE  /\ Armed(t) \in TriggerSet /\ Exclusive(Armed(t)) /\ Waiting(Armed(t))
         /\ Armed(t).last = t.last /\ Armed(t).cleared = t.cleared /\ Armed(t).countdown = -1
<1> DEFINE a == Armed(t)
<1>1. a = [t EXCEPT !.armed = TRUE, !.countdown = -1, !.riser = NoRiser]
  BY DEF Armed
<1>. HIDE DEF a
<1>2. /\ a \in TriggerSet /\ a.armed /\ a.countdown = -1 /\ a.last = t.last
      /\ a.cleared = t.cleared
  BY <1>1 DEF TriggerSet
<1>. QED BY <1>2 DEF a, Exclusive, Waiting

LEMMA WaitedFacts ==
  ASSUME NEW t \in TriggerSet, Exclusive(t), NEW b \in Beams, NEW idle \in BOOLEAN
  PROVE  LET w == Waited(t, b, idle)
         IN /\ w \in TriggerSet /\ Exclusive(w)
            /\ Fires(t, b, idle) => Held(w) /\ w.last = t.riser
            /\ ~Fires(t, b, idle) => w.last = t.last /\ w.cleared = t.cleared
            /\ ~Fires(t, b, idle) /\ Waiting(t) => Waiting(w)
            /\ t.countdown = -1 => w.countdown = -1
<1> DEFINE w == Waited(t, b, idle)
           left == IF t.countdown > 0 THEN t.countdown - 1 ELSE t.countdown
<1>1. CASE Fires(t, b, idle)
  <2>1. w = [t EXCEPT !.countdown = -1, !.riser = NoRiser, !.last = t.riser, !.cleared = FALSE]
    BY <1>1 DEF Waited
  <2>2. t.riser # NoRiser /\ t.countdown = 0
    BY <1>1 DEF Fires
  <2>3. /\ w \in TriggerSet /\ w.countdown = -1 /\ w.last = t.riser /\ ~w.cleared
        /\ w.armed = t.armed
    BY <2>1 DEF TriggerSet
  <2>. QED BY <2>2, <2>3, <1>1 DEF Exclusive, Held
<1>2. CASE ~Fires(t, b, idle) /\ t.countdown = 0 /\ idle
  <2>1. w = Armed(t)
    BY <1>2 DEF Waited
  <2>. QED BY <2>1, <1>2, ArmedFacts
<1>3. CASE ~Fires(t, b, idle) /\ ~(t.countdown = 0 /\ idle)
  <2>1. w = [t EXCEPT !.countdown = left]
    BY <1>3 DEF Waited
  <2>2. /\ left \in Nat \union {-1}
        /\ (left >= 0) <=> (t.countdown >= 0)
        /\ t.countdown = -1 => left = -1
    BY DEF TriggerSet
  <2>. HIDE DEF left
  <2>3. /\ w \in TriggerSet /\ w.countdown = left /\ w.last = t.last
        /\ w.cleared = t.cleared /\ w.armed = t.armed
    BY <2>1, <2>2 DEF TriggerSet
  <2>. QED BY <2>2, <2>3, <1>3 DEF Exclusive, Waiting
<1>. QED BY <1>1, <1>2, <1>3

LEMMA EndedFacts ==
  ASSUME NEW r \in RequestSet
  PROVE  /\ Ended(r).max_seen_id = r.max_seen_id /\ Ended(r).active_id = NoId
         /\ Ended(r).elapsed = 0 /\ Ended(r) \in RequestSet
BY Timings DEF Ended, Requests, RequestSet, NoId

LEMMA ReceivedFacts ==
  ASSUME NEW r \in RequestSet, NEW c \in CommandSet, r.elapsed < Timeout, Sized(r)
  PROVE  LET q == Received(r, c)
         IN /\ q \in RequestSet /\ Sized(q)
            /\ Accepted(r, c) => /\ q.active_id = c.request /\ q.height = c.height
                                 /\ q.elapsed = 0 /\ c.request # NoId
                                 /\ r.active_id = NoId
            /\ ~Accepted(r, c) => /\ q.active_id = r.active_id /\ q.height = r.height
                                  /\ q.elapsed = IF r.active_id = NoId THEN 0 ELSE r.elapsed + 1
<1> DEFINE q == Received(r, c)
           seen == [r EXCEPT !.max_seen_id = IF New(r, c) THEN c.request ELSE @]
<1>1. New(r, c) => c.request \in Ids
  BY Timings DEF New, CommandSet, BadId, NoId
<1>2. /\ seen \in RequestSet /\ seen.active_id = r.active_id /\ seen.height = r.height
      /\ seen.elapsed = r.elapsed
  BY <1>1 DEF RequestSet
<1>. HIDE DEF seen
<1>3. CASE Accepted(r, c)
  <2>1. c.request \in Ids /\ c.height \in Heights /\ r.active_id = NoId
    BY <1>1, <1>3 DEF Accepted
  <2>2. q = [seen EXCEPT !.active_id = c.request, !.height = c.height, !.elapsed = 0]
    BY <1>3 DEF Received, seen
  <2>. HIDE DEF q
  <2>3. 0 \in 0..Timeout
    BY Timings
  <2>4. q \in RequestSet /\ q.active_id = c.request /\ q.height = c.height /\ q.elapsed = 0
    BY <2>1, <2>2, <2>3, <1>2 DEF RequestSet
  <2>. QED BY <2>1, <2>4, <1>3, Timings DEF Sized, NoId, q
<1>4. CASE ~Accepted(r, c)
  <2> DEFINE age == IF r.active_id = NoId THEN 0 ELSE r.elapsed + 1
  <2>1. age \in 0..Timeout
    BY Timings DEF RequestSet
  <2>2. q = [seen EXCEPT !.elapsed = age]
    <3>1. q = [seen EXCEPT !.elapsed = IF r.active_id = NoId THEN 0 ELSE seen.elapsed + 1]
      BY <1>4 DEF Received, seen
    <3>. QED BY <3>1, <1>2
  <2>. HIDE DEF age, q
  <2>3. /\ q \in RequestSet /\ q.active_id = r.active_id /\ q.height = r.height
        /\ q.elapsed = age
    BY <2>1, <2>2, <1>2 DEF RequestSet
  <2>. QED BY <2>3, <1>4 DEF Sized, age, q
<1>. QED BY <1>3, <1>4

(* What a boundary makes of the protocol and of the mode.                   *)
LEMMA SkillFacts ==
  ASSUME NEW r \in RequestSet, NEW c \in CommandSet, NEW k \in SkillSet, NEW tilted \in BOOLEAN,
         r.elapsed < Timeout, Sized(r), Follows(k, r)
  PROVE  LET finished == Finishes(Received(r, c), c)
             q == Stepped(r, c)
             s == Driven(ModeReleased(k, finished), q)
             exited == Exits(s, tilted)
             r2 == IF exited THEN Ended(q) ELSE q
             k2 == IF exited THEN Normal ELSE s
         IN /\ q \in RequestSet /\ r2 \in RequestSet /\ r2.elapsed < Timeout /\ Sized(r2)
            /\ k2 \in SkillSet /\ Follows(k2, r2)
            /\ r2.max_seen_id = q.max_seen_id
            /\ c.jump => r2.active_id = NoId
            /\ exited \/ finished \/ (r.active_id = NoId /\ ~Accepted(r, c))
                 \/ r2.active_id # NoId
<1> DEFINE q0 == Received(r, c)
           finished == Finishes(q0, c)
           q == Stepped(r, c)
           k0 == ModeReleased(k, finished)
           s == Driven(k0, q)
           exited == Exits(s, tilted)
           r2 == IF exited THEN Ended(q) ELSE q
           k2 == IF exited THEN Normal ELSE s
<1>1. /\ q0 \in RequestSet /\ Sized(q0)
      /\ Accepted(r, c) => /\ q0.active_id = c.request /\ q0.height = c.height
                           /\ q0.elapsed = 0 /\ c.request # NoId
                           /\ r.active_id = NoId
      /\ ~Accepted(r, c) => /\ q0.active_id = r.active_id /\ q0.height = r.height
                            /\ q0.elapsed = IF r.active_id = NoId THEN 0 ELSE r.elapsed + 1
  BY ReceivedFacts
<1>2. q = IF finished THEN Ended(q0) ELSE q0
  BY DEF Stepped
<1>3. finished => q0.active_id # NoId
  BY DEF Finishes
<1>4. ~finished /\ q0.active_id # NoId => q0.elapsed < Timeout /\ ~c.jump
  <2>1. q0.elapsed \in 0..Timeout
    BY <1>1 DEF RequestSet
  <2>. HIDE DEF q0
  <2>. QED BY <2>1, Timings DEF Finishes
<1>5. k0 = IF finished THEN Normal ELSE k
  BY DEF ModeReleased
<1>. HIDE DEF q0, finished, q, k0, s
<1>6. CASE finished
  <2>1. q = Ended(q0) /\ k0 = Normal
    BY <1>2, <1>5, <1>6
  <2>2. q \in RequestSet /\ q.active_id = NoId /\ q.elapsed = 0
    BY <2>1, <1>1, EndedFacts
  <2>3. s = Normal
    BY <2>1, <2>2 DEF s, Driven, Normal
  <2>4. ~exited
    BY <2>3 DEF Exits, Normal
  <2>. QED BY <2>2, <2>3, <2>4, <1>6, Timings DEF Follows, Sized, Normal, SkillSet, finished, q0, q, s, k0
<1>7. CASE ~finished
  <2>1. q = q0 /\ k0 = k
    BY <1>2, <1>5, <1>7
  <2>2. q.elapsed < Timeout
    BY <2>1, <1>1, <1>4, <1>7, Timings
  <2>3. s \in SkillSet /\ Follows(s, q)
    <3>1. CASE q.active_id = NoId \/ q.height = "lowest"
      <4>1. k = Normal
        BY <3>1, <2>1, <1>1 DEF Follows
      <4>2. s = Normal
        BY <4>1, <3>1, <2>1 DEF s, Driven, Normal
      <4>. QED BY <4>2, <3>1, Timings DEF Follows, Normal, SkillSet
    <3>2. CASE q.active_id # NoId /\ q.height # "lowest" /\ Accepted(r, c)
      <4>1. k = Normal
        BY <3>2, <1>1 DEF Follows
      <4>2. q.height \in Heights \ {"lowest"} /\ q.elapsed = 0
        BY <3>2, <2>1, <1>1 DEF Sized
      <4>3. s = [state |-> q.height, time |-> 1]
        BY <4>1, <4>2, <3>2, <2>1 DEF s, Driven, Normal, Heights
      <4>. QED BY <4>2, <4>3, <3>2, Timings DEF Follows, SkillSet, Heights
    <3>3. CASE q.active_id # NoId /\ q.height # "lowest" /\ ~Accepted(r, c)
      <4>1. /\ k.state = q.height /\ k.time = q.elapsed /\ q.height \in Heights \ {"lowest"}
        BY <3>3, <2>1, <1>1 DEF Follows, Sized
      <4>2. s = [k EXCEPT !.time = k.time + 1]
        BY <4>1, <2>1 DEF s, Driven, Heights
      <4>3. q.elapsed + 1 \in 0..Timeout
        BY <2>1, <2>2, <1>1, Timings DEF RequestSet
      <4>4. s \in SkillSet /\ s.state = q.height /\ s.time = q.elapsed + 1
        BY <4>1, <4>2, <4>3 DEF SkillSet
      <4>. QED BY <4>4, <3>3 DEF Follows
    <3>. QED BY <3>1, <3>2, <3>3
  <2>4. q \in RequestSet /\ Sized(q) /\ (c.jump => q.active_id = NoId)
    BY <2>1, <1>1, <1>4, <1>7
  <2>5. r.active_id # NoId \/ Accepted(r, c) => q.active_id # NoId
    BY <2>1, <1>1
  <2>6. CASE exited
    <3>1. r2 = Ended(q) /\ k2 = Normal
      BY <2>6
    <3>2. /\ r2 \in RequestSet /\ r2.active_id = NoId /\ r2.elapsed = 0
          /\ r2.max_seen_id = q.max_seen_id
      BY <3>1, <2>4, EndedFacts
    <3>. QED BY <3>1, <3>2, <2>4, <2>6, Timings
             DEF Follows, Sized, Normal, SkillSet, finished, q0, q, s, k0
  <2>7. CASE ~exited
    BY <2>2, <2>3, <2>4, <2>5, <2>7 DEF finished, q0, q, s, k0
  <2>. QED BY <2>6, <2>7
<1>. QED BY <1>6, <1>7

(* What a boundary makes of the trigger and of the history.                 *)
LEMMA TriggerFacts ==
  ASSUME NEW b \in Beams, NEW latency \in Latency, NEW idle \in BOOLEAN, NEW refused \in BOOLEAN,
         trigger \in TriggerSet, Exclusive(trigger), RiserIsHeld,
         history.riser \in {"ahead", "stood", "gone"}
  PROVE  LET l == Looked(trigger, b, latency)
             w == Waited(l, b, idle)
             fired == Fires(l, b, idle)
             h == Recorded(l, b, fired, refused)
         IN /\ w \in TriggerSet /\ Exclusive(w)
            /\ Waiting(trigger) /\ ~fired => Waiting(w)
            /\ h \in [riser : {"ahead", "stood", "gone"}, again : {"ahead", "stood", "gone"},
                      refused : BOOLEAN]
            /\ h.again # "ahead" /\ h.refused = refused
            /\ h.riser = "ahead" => Held(w)
<1> DEFINE l == Looked(trigger, b, latency)
           w == Waited(l, b, idle)
           fired == Fires(l, b, idle)
           riser == CASE b.reach = "standing" /\ history.riser = "ahead" -> "stood"
                      [] b.reach # "standing" /\ b.riser # trigger.last -> "gone"
                      [] OTHER -> history.riser
           h == Recorded(l, b, fired, refused)
<1>1. /\ l \in TriggerSet /\ Exclusive(l) /\ l.last = trigger.last
      /\ Waiting(trigger) => Waiting(l)
      /\ l.cleared <=> ClearedNow(trigger, b)
      /\ ~Detects(trigger, b) => l.countdown = trigger.countdown
  BY LookedFacts
<1>. HIDE DEF l
<1>2. /\ w \in TriggerSet /\ Exclusive(w)
      /\ fired => Held(w) /\ w.last = l.riser
      /\ ~fired => w.last = l.last /\ w.cleared = l.cleared
      /\ ~fired /\ Waiting(l) => Waiting(w)
      /\ l.countdown = -1 => w.countdown = -1
  BY <1>1, WaitedFacts
<1>3. h = [riser |-> IF fired THEN "ahead" ELSE riser,
           again |-> IF fired /\ l.riser = trigger.last THEN riser ELSE "gone",
           refused |-> refused]
  BY DEF Recorded
<1>4. riser \in {"ahead", "stood", "gone"}
  OBVIOUS
<1>5. ASSUME riser = "ahead" PROVE /\ history.riser = "ahead" /\ b.reach # "standing"
                                  /\ b.riser = trigger.last
  <2>1. history.riser = "ahead" /\ b.reach # "standing"
    BY <1>5
  <2>. QED BY <1>5, <2>1
<1>. HIDE DEF riser, w
<1>6. ASSUME riser = "ahead" PROVE ~fired /\ Held(w)
  <2>1. Held(trigger) /\ b.riser = trigger.last
    BY <1>5, <1>6 DEF RiserIsHeld
  <2>2. ~ClearedNow(trigger, b)
    BY <2>1 DEF ClearedNow, Held
  <2>3. ~Detects(trigger, b)
    BY <2>2 DEF Detects
  <2>4. l.countdown = -1 /\ ~l.cleared
    BY <1>1, <2>1, <2>2, <2>3 DEF Held
  <2>5. ~fired
    BY <2>4 DEF Fires
  <2>. QED BY <1>1, <1>2, <2>1, <2>4, <2>5 DEF Held
<1>. HIDE DEF fired, h
<1>7. /\ h.again # "ahead" /\ h.refused = refused
      /\ h.riser = "ahead" => fired \/ riser = "ahead"
      /\ h \in [riser : {"ahead", "stood", "gone"}, again : {"ahead", "stood", "gone"},
                refused : BOOLEAN]
  BY <1>3, <1>4, <1>6
<1>. QED BY <1>1, <1>2, <1>6, <1>7 DEF l, w, fired, h

LEMMA Young ==
  ASSUME NEW r
  PROVE  r \in [max_seen_id : Ids \union {NoId}, active_id : Ids \union {NoId},
                height : Heights \union {"none"}, elapsed : 0..Timeout - 1]
           <=> r \in RequestSet /\ r.elapsed < Timeout
<1> DEFINE Younger == 0..Timeout - 1
           Older == 0..Timeout
<1>1. \A e \in Younger : e \in Older /\ e < Timeout
  BY Timings
<1>2. \A e \in Older : e < Timeout => e \in Younger
  BY Timings
<1>. HIDE DEF Younger, Older
<1>3. r \in [max_seen_id : Ids \union {NoId}, active_id : Ids \union {NoId},
             height : Heights \union {"none"}, elapsed : Younger]
        <=> /\ r \in [max_seen_id : Ids \union {NoId}, active_id : Ids \union {NoId},
                      height : Heights \union {"none"}, elapsed : Older]
            /\ r.elapsed < Timeout
  BY <1>1, <1>2
<1>. QED BY <1>3 DEF RequestSet, Younger, Older

(* The type invariant with the names this module gives its parts.           *)
Typed ==
  /\ requests \in RequestSet /\ requests.elapsed < Timeout
  /\ skill \in SkillSet /\ trigger \in TriggerSet
  /\ inbox \in [manual : Ids \union {NoId}, tof : BOOLEAN,
                cancel : Ids \union {NoId}, packet : {"none", "open", "blank"}]
  /\ next_id \in 0..MaxId + 1 /\ jump \in BOOLEAN
  /\ history \in [riser : {"ahead", "stood", "gone"}, again : {"ahead", "stood", "gone"},
                  refused : BOOLEAN]

Inv ==
  /\ Typed /\ Sized(requests)
  /\ Follows(skill, requests) /\ OneSkillAtATime
  /\ Exclusive(trigger) /\ (Waiting(trigger) \/ requests.active_id # NoId)
  /\ SubmissionsAreAccepted /\ EveryCheckpointLoads /\ NoRetriggerAhead
  /\ RiserIsHeld

LEMMA InvInit == Init => Inv
<1> SUFFICES ASSUME Init PROVE Inv
  OBVIOUS
<1>1. requests \in RequestSet /\ requests.active_id = NoId /\ requests.elapsed = 0
  BY Timings DEF Init, Requests, RequestSet
<1>2. Typed
  <2>1. requests.elapsed < Timeout /\ Normal \in SkillSet /\ FreshTrigger \in TriggerSet
    BY <1>1, Timings DEF Normal, FreshTrigger, SkillSet, TriggerSet
  <2>2. next_id \in 0..MaxId + 1
    BY TimingAssumption DEF Init
  <2>3. inbox \in [manual : Ids \union {NoId}, tof : BOOLEAN,
                   cancel : Ids \union {NoId}, packet : {"none", "open", "blank"}]
    BY DEF Init, EmptyInbox
  <2>4. history \in [riser : {"ahead", "stood", "gone"},
                     again : {"ahead", "stood", "gone"}, refused : BOOLEAN]
    BY DEF Init, NewHistory
  <2>. QED BY <1>1, <2>1, <2>2, <2>3, <2>4 DEF Init, Typed
<1>. QED BY <1>1, <1>2, Timings
     DEF Init, Inv, Sized, Follows, OneSkillAtATime, Exclusive, Waiting, FreshTrigger,
         SubmissionsAreAccepted, EveryCheckpointLoads, LoadAccepted, NoRetriggerAhead, RiserIsHeld,
         NewHistory, Requests, NoId

(* What is submitted between two boundaries touches neither the protocol    *)
(* nor the mode.                                                            *)
LEMMA SubmitStep ==
  ASSUME Inv, EnvironmentUnchanged,
         inbox' \in [manual : Ids \union {NoId}, tof : BOOLEAN,
                    cancel : Ids \union {NoId}, packet : {"none", "open", "blank"}],
         next_id' \in 0..MaxId + 1, next_id' >= next_id
  PROVE  Inv'
<1>1. Typed'
  BY DEF Inv, EnvironmentUnchanged, Typed
<1>2. EveryCheckpointLoads'
  <2>1. requests.max_seen_id \in Int
    BY DEF Inv, Typed, RequestSet, Ids, NoId
  <2>. QED BY <2>1 DEF Inv, Typed, EveryCheckpointLoads, LoadAccepted, EnvironmentUnchanged
<1>. QED BY <1>1, <1>2
     DEF Inv, EnvironmentUnchanged, Sized, Follows, OneSkillAtATime, Exclusive, Waiting,
         SubmissionsAreAccepted, NoRetriggerAhead, RiserIsHeld, Held

LEMMA SubmissionsStep ==
  ASSUME Inv, NEW id \in Ids,
         SubmitManual(id) \/ CancelRequest(id) \/ SubmitTof \/ SubmitPacket
  PROVE  Inv'
<1> DEFINE Inboxes == [manual : Ids \union {NoId}, tof : BOOLEAN,
                       cancel : Ids \union {NoId}, packet : {"none", "open", "blank"}]
<1>1. inbox \in Inboxes /\ next_id \in 0..MaxId + 1
  BY DEF Inv, Typed
<1>2. CASE SubmitManual(id)
  <2>1. inbox' \in Inboxes
    BY <1>1, <1>2 DEF SubmitManual
  <2>2. next_id' \in 0..MaxId + 1 /\ next_id' >= next_id
    BY <1>1, <1>2, TimingAssumption DEF SubmitManual, Ids
  <2>. QED BY <2>1, <2>2, <1>2, SubmitStep DEF SubmitManual
<1>3. CASE CancelRequest(id)
  <2>1. inbox' \in Inboxes
    BY <1>1, <1>3 DEF CancelRequest
  <2>2. next_id' \in 0..MaxId + 1 /\ next_id' >= next_id
    BY <1>1, <1>3 DEF CancelRequest
  <2>. QED BY <2>1, <2>2, <1>3, SubmitStep DEF CancelRequest
<1>4. CASE SubmitTof \/ SubmitPacket
  <2>1. inbox' \in Inboxes
    BY <1>1, <1>4 DEF SubmitTof, SubmitPacket
  <2>2. next_id' \in 0..MaxId + 1 /\ next_id' >= next_id
    BY <1>1, <1>4 DEF SubmitTof, SubmitPacket
  <2>. QED BY <2>1, <2>2, <1>4, SubmitStep DEF SubmitTof, SubmitPacket
<1>. QED BY <1>2, <1>3, <1>4

LEMMA CommandFacts ==
  ASSUME Inv, NEW command \in Commands
  PROVE  command.request \in Ids \union {NoId, BadId} /\ command.cancel \in Ids \union {NoId}
<1>1. inbox \in [manual : Ids \union {NoId}, tof : BOOLEAN,
                 cancel : Ids \union {NoId}, packet : {"none", "open", "blank"}]
  BY DEF Inv, Typed
<1>2. CASE inbox.packet = "open"
  BY <1>2 DEF Commands
<1>3. CASE inbox.packet = "blank"
  BY <1>3 DEF Commands
<1>4. CASE inbox.packet = "none"
  <2>1. command \in [request : IF inbox.manual # NoId THEN {inbox.manual}
                               ELSE IF inbox.tof THEN Ids \union {NoId} ELSE {NoId},
                     cancel : {inbox.cancel}]
    BY <1>4 DEF Commands
  <2>2. command.request \in IF inbox.manual # NoId THEN {inbox.manual}
                               ELSE IF inbox.tof THEN Ids \union {NoId} ELSE {NoId}
    BY <2>1
  <2>. QED BY <1>1, <2>1, <2>2
<1>. QED BY <1>1, <1>2, <1>3, <1>4

LEMMA MaxFacts ==
  ASSUME NEW a \in Int, NEW b \in Int
  PROVE  Max2(a, b) \in {a, b} /\ Max2(a, b) >= a /\ Max2(a, b) >= b
BY DEF Max2

LEMMA DecidedStep ==
  ASSUME Inv, NEW command \in Commands, NEW b \in Beams, NEW latency \in Latency,
         NEW ready \in BOOLEAN, NEW jumping \in BOOLEAN, NEW height \in Heights \union {"none"},
         NEW tilted \in BOOLEAN, Decided(command, b, latency, ready, jumping, height, tilted)
  PROVE  Inv'
<1> DEFINE looked == Looked(trigger, b, latency)
           idle == Idle(command, ready, jumping)
           fired == Fires(looked, b, idle)
           c == Submission(command, fired, height, ready, jumping)
           refused == fired /\ ~Accepted(requests, c)
           finished == Finishes(Received(requests, c), c)
           r == Stepped(requests, c)
           s == Driven(ModeReleased(skill, finished), r)
           exited == Exits(s, tilted)
           w == Waited(looked, b, idle)
           r2 == IF exited THEN Ended(r) ELSE r
           k2 == IF exited THEN Normal ELSE s
<1>1. fired => c.request \in Ids /\ height \in Heights
  BY DEF Decided
<1>2. requests' = r2 /\ skill' = k2 /\ next_id' = NextId(r) /\ jump' = jumping /\ inbox' = EmptyInbox
  BY DEF Decided
<1>3. /\ trigger' = ArmedAfter(w, refused, finished, exited)
      /\ history' = Recorded(looked, b, fired, refused)
  BY DEF Decided
<1>4. /\ requests \in RequestSet /\ requests.elapsed < Timeout /\ Sized(requests)
      /\ skill \in SkillSet /\ trigger \in TriggerSet /\ next_id \in 0..MaxId + 1
      /\ history.riser \in {"ahead", "stood", "gone"}
      /\ Follows(skill, requests) /\ Exclusive(trigger) /\ RiserIsHeld
      /\ Waiting(trigger) \/ requests.active_id # NoId
      /\ next_id > requests.max_seen_id
  BY DEF Inv, Typed, EveryCheckpointLoads, LoadAccepted
<1>5. /\ c \in CommandSet /\ c.jump = jumping /\ c.cancel = command.cancel /\ c.ready = ready
      /\ c.height = height
      /\ fired => c.request = Max2(next_id, requests.max_seen_id + 1)
  <2>1. (IF fired THEN Max2(next_id, requests.max_seen_id + 1) ELSE command.request)
          \in Ids \union {NoId, BadId}
    BY <1>1, CommandFacts DEF Submission
  <2>. HIDE DEF fired
  <2>. QED BY <2>1, CommandFacts DEF Submission, CommandSet
<1>6. idle \in BOOLEAN /\ (idle => /\ ready /\ command.cancel = NoId /\ ~jumping
                                  /\ requests.active_id = NoId)
  BY DEF Idle
<1>7. fired => idle
  BY DEF Fires
<1>. HIDE DEF looked, idle, fired, c
<1>8. ~refused
  <2>1. ASSUME fired PROVE Accepted(requests, c)
    <3>1. requests.max_seen_id \in Int /\ next_id \in Nat
      <4>1. requests \in RequestSet
        BY <1>4
      <4>2. next_id \in 0..MaxId + 1
        BY <1>4
      <4>3. requests.max_seen_id \in Ids \union {NoId}
        BY <4>1 DEF RequestSet
      <4>4. requests.max_seen_id \in Int
        BY <4>3, TimingAssumption DEF Ids, NoId
      <4>. QED BY <4>2, <4>4, TimingAssumption
    <3>2. c.request = Max2(next_id, requests.max_seen_id + 1) /\ c.height = height
      BY <1>5, <2>1, Zenon
    <3>3. c.request >= next_id /\ c.request >= requests.max_seen_id + 1
      BY <3>1, <3>2, MaxFacts
    <3>4. c.request \in Int
      <4>1. c.request \in Ids
        BY <1>1, <2>1, Zenon
      <4>. QED BY <4>1, TimingAssumption DEF Ids
    <3>5. ready /\ ~jumping /\ command.cancel = NoId /\ requests.active_id = NoId
      BY <1>6, <1>7, <2>1
    <3>6. c.height \in Heights
      BY <1>1, <2>1, <3>2
    <3>7. c.request >= 0 /\ c.request > requests.max_seen_id /\ c.request # -1
      BY <3>1, <3>3, <3>4
    <3>8. c.ready /\ ~c.jump /\ c.cancel = NoId
      BY <1>5, <3>5, Zenon
    <3>. QED BY <3>5, <3>6, <3>7, <3>8 DEF Accepted, New, NoId
  <2>. QED BY <2>1
<1>9. /\ r \in RequestSet /\ requests' \in RequestSet /\ requests'.elapsed < Timeout
      /\ Sized(requests') /\ skill' \in SkillSet /\ Follows(skill', requests')
      /\ requests'.max_seen_id = r.max_seen_id
      /\ c.jump => requests'.active_id = NoId
      /\ exited \/ finished \/ (requests.active_id = NoId /\ ~Accepted(requests, c))
           \/ requests'.active_id # NoId
  <2>1. /\ r \in RequestSet /\ r2 \in RequestSet /\ r2.elapsed < Timeout
        /\ Sized(r2) /\ k2 \in SkillSet /\ Follows(k2, r2)
        /\ r2.max_seen_id = r.max_seen_id
        /\ c.jump => r2.active_id = NoId
        /\ exited \/ finished \/ (requests.active_id = NoId /\ ~Accepted(requests, c))
             \/ r2.active_id # NoId
    BY <1>4, <1>5, SkillFacts
  <2>. HIDE DEF r2, k2, r, exited, finished
  <2>. QED BY <2>1, <1>2
<1>. HIDE DEF idle, fired, c, r2, k2
<1>10. /\ w \in TriggerSet /\ Exclusive(w)
       /\ Waiting(trigger) /\ ~fired => Waiting(w)
       /\ history' \in [riser : {"ahead", "stood", "gone"}, again : {"ahead", "stood", "gone"},
                        refused : BOOLEAN]
       /\ history'.again # "ahead" /\ history'.refused = refused
       /\ history'.riser = "ahead" => Held(w)
  <2>1. refused \in BOOLEAN
    BY <1>8
  <2>. HIDE DEF refused
  <2>. QED BY <1>3, <1>4, <1>6, <2>1, TriggerFacts DEF fired, looked
<1>. HIDE DEF w, r, s, finished, exited
<1>11. /\ trigger' \in TriggerSet /\ Exclusive(trigger')
       /\ Waiting(trigger') \/ requests'.active_id # NoId
       /\ history'.riser = "ahead" => Held(trigger')
  <2>1. CASE finished \/ exited
    <3>1. trigger' = Armed(w)
      BY <1>3, <2>1 DEF ArmedAfter
    <3>. QED BY <3>1, <1>10, ArmedFacts DEF Held
  <2>2. CASE ~(finished \/ exited)
    <3>1. trigger' = w
      BY <1>3, <1>8, <2>2 DEF ArmedAfter
    <3>2. requests'.active_id # NoId \/ (~fired /\ Waiting(trigger))
      BY <1>4, <1>8, <1>9, <2>2
    <3>. QED BY <3>1, <3>2, <1>10
  <2>. QED BY <2>1, <2>2
<1>12. next_id' \in 0..MaxId + 1 /\ next_id' > requests'.max_seen_id
  <2>1. r.max_seen_id \in -1..MaxId
    <3>1. r.max_seen_id \in Ids \union {NoId}
      BY <1>9 DEF RequestSet
    <3>. QED BY <3>1, TimingAssumption DEF Ids, NoId
  <2>2. next_id' = Max2(next_id, r.max_seen_id + 1)
    BY <1>2 DEF NextId
  <2>3. next_id \in 0..MaxId + 1
    BY <1>4
  <2>4. next_id' \in {next_id, r.max_seen_id + 1} /\ next_id' >= r.max_seen_id + 1
    BY <2>1, <2>2, <2>3, TimingAssumption, MaxFacts
  <2>5. requests'.max_seen_id = r.max_seen_id
    BY <1>9
  <2>6. next_id' > r.max_seen_id
    BY <2>1, <2>3, <2>4, TimingAssumption
  <2>7. next_id' \in 0..MaxId + 1
    BY <2>1, <2>3, <2>4, TimingAssumption
  <2>. QED BY <2>5, <2>6, <2>7
<1>13. inbox' \in [manual : Ids \union {NoId}, tof : BOOLEAN,
                   cancel : Ids \union {NoId}, packet : {"none", "open", "blank"}]
  BY <1>2 DEF EmptyInbox
<1>14. Typed'
  <2>1. requests' \in RequestSet /\ requests'.elapsed < Timeout
    BY <1>9
  <2>2. skill' \in SkillSet /\ trigger' \in TriggerSet /\ next_id' \in 0..MaxId + 1
        /\ jump' \in BOOLEAN
    BY <1>2, <1>9, <1>11, <1>12
  <2>. QED BY <1>10, <1>13, <2>1, <2>2 DEF Typed
<1>15. /\ Sized(requests)' /\ Follows(skill, requests)' /\ Exclusive(trigger)'
       /\ (Waiting(trigger) \/ requests.active_id # NoId)' /\ OneSkillAtATime'
       /\ SubmissionsAreAccepted' /\ NoRetriggerAhead' /\ EveryCheckpointLoads' /\ RiserIsHeld'
  BY <1>2, <1>5, <1>8, <1>9, <1>10, <1>11, <1>12
     DEF Sized, OneSkillAtATime, SubmissionsAreAccepted, NoRetriggerAhead, EveryCheckpointLoads,
         LoadAccepted, RiserIsHeld, Held, Follows, Exclusive, Waiting
<1>. QED BY <1>14, <1>15 DEF Inv

LEMMA BoundaryStep == ASSUME Inv, Boundary PROVE Inv'
<1>1. PICK command \in Commands, b \in Beams, latency \in Latency, ready \in BOOLEAN,
           tilted \in BOOLEAN,
           jumping \in IF requests.active_id = NoId \/ jump THEN BOOLEAN ELSE {FALSE},
           height \in Heights \union {"none"} :
        Decided(command, b, latency, ready, jumping, height, tilted)
  BY DEF Boundary
<1>2. jumping \in BOOLEAN
  OBVIOUS
<1>. QED BY <1>1, <1>2, DecidedStep

LEMMA ResetsStep == ASSUME Inv, Reset \/ ColdRestore PROVE Inv'
<1>1. requests \in RequestSet /\ next_id \in 0..MaxId + 1 /\ next_id > requests.max_seen_id
      /\ inbox.packet \in {"none", "open", "blank"}
  BY DEF Inv, Typed, EveryCheckpointLoads, LoadAccepted
<1>2. Ended(requests) = Requests(requests.max_seen_id)
  BY DEF Ended
<1>3. /\ requests' = Ended(requests) /\ skill' = Normal /\ trigger' = FreshTrigger /\ jump' = FALSE
      /\ history' = NewHistory /\ next_id' = next_id
      /\ \/ inbox' = EmptyInbox
         \/ inbox' = [EmptyInbox EXCEPT
                       !.packet = IF inbox.packet = "none" THEN "none" ELSE "blank"]
  BY <1>2 DEF Reset, ColdRestore
<1>4. /\ requests' \in RequestSet /\ requests'.max_seen_id = requests.max_seen_id
      /\ requests'.active_id = NoId /\ requests'.elapsed = 0
  BY <1>1, <1>3, EndedFacts
<1>5. Normal \in SkillSet /\ FreshTrigger \in TriggerSet /\ 0 < Timeout
  BY Timings DEF Normal, FreshTrigger, SkillSet, TriggerSet
<1>6. inbox' \in [manual : Ids \union {NoId}, tof : BOOLEAN,
                  cancel : Ids \union {NoId}, packet : {"none", "open", "blank"}]
  <2> DEFINE kept == IF inbox.packet = "none" THEN "none" ELSE "blank"
             emptied == [EmptyInbox EXCEPT !.packet = kept]
  <2>1. inbox' = EmptyInbox \/ inbox' = emptied
    BY <1>3
  <2>2. kept \in {"none", "blank"}
    OBVIOUS
  <2>. HIDE DEF kept
  <2>3. EmptyInbox \in [manual : Ids \union {NoId}, tof : BOOLEAN,
                        cancel : Ids \union {NoId}, packet : {"none", "open", "blank"}]
    BY DEF EmptyInbox
  <2>4. emptied \in [manual : Ids \union {NoId}, tof : BOOLEAN,
                     cancel : Ids \union {NoId}, packet : {"none", "open", "blank"}]
    BY <2>2, <2>3
  <2>. QED BY <2>1, <2>3, <2>4
<1>7. history' \in [riser : {"ahead", "stood", "gone"}, again : {"ahead", "stood", "gone"},
                    refused : BOOLEAN]
  BY <1>3 DEF NewHistory
<1>8. Typed'
  BY <1>1, <1>3, <1>4, <1>5, <1>6, <1>7 DEF Typed
<1>. QED BY <1>1, <1>3, <1>4, <1>8
     DEF Inv, Sized, Follows, OneSkillAtATime, Exclusive, Waiting, FreshTrigger, NewHistory,
         SubmissionsAreAccepted, EveryCheckpointLoads, LoadAccepted, NoRetriggerAhead, RiserIsHeld

LEMMA Invariance == Spec => []Inv
<1>1. Inv /\ [Next]_vars => Inv'
  <2> SUFFICES ASSUME Inv, [Next]_vars PROVE Inv'
    OBVIOUS
  <2>1. CASE Next
    <3>1. CASE \E id \in Ids : SubmitManual(id) \/ CancelRequest(id)
      BY <3>1, SubmissionsStep
    <3>2. CASE SubmitTof \/ SubmitPacket
      <4>1. 0 \in Ids
        BY TimingAssumption DEF Ids
      <4>. QED BY <3>2, <4>1, SubmissionsStep
    <3>. QED BY <2>1, <3>1, <3>2, BoundaryStep, ResetsStep DEF Next
  <2>2. CASE UNCHANGED vars
    BY <2>2 DEF vars, Inv, Typed, Sized, Follows, OneSkillAtATime, Exclusive, Waiting,
                SubmissionsAreAccepted, EveryCheckpointLoads, NoRetriggerAhead, RiserIsHeld, Held
  <2>. QED BY <2>1, <2>2
<1>. QED BY InvInit, <1>1, PTL DEF Spec

(* Every reachable record is of its type; in particular no request is ever  *)
(* older than timeout_s (StairRequestProtocol.step).                        *)
THEOREM TypeCorrect == Spec => []TypeOK
<1>1. Inv => TypeOK
  BY Young DEF Inv, Typed, TypeOK, SkillSet, TriggerSet
<1>. QED BY Invariance, <1>1, PTL

(* Mode and request are always those of each other, however the request     *)
(* came and however it ended (advance_skill).                               *)
THEOREM SkillFollows == Spec => []SkillFollowsRequest
<1>1. Inv => SkillFollowsRequest
  BY DEF Inv, Follows, SkillFollowsRequest
<1>. QED BY Invariance, <1>1, PTL

(* A jump and a stair request are never active together (advance_skill).    *)
THEOREM OneSkill == Spec => []OneSkillAtATime
<1>1. Inv => OneSkillAtATime
  BY DEF Inv
<1>. QED BY Invariance, <1>1, PTL

(* The trigger never waits for something that cannot come any more          *)
(* (SimulatedTofTrigger.step, arm).                                         *)
THEOREM TriggerHears == Spec => []TriggerIsNotDeaf
<1>1. Inv => TriggerIsNotDeaf
  BY DEF Inv, Exclusive, Waiting, TriggerIsNotDeaf
<1>. QED BY Invariance, <1>1, PTL

(* What the trigger submits the protocol accepts, whatever ids and packets  *)
(* came before (_tof_command, StairRequestProtocol.step).                   *)
THEOREM SubmissionsAccepted == Spec => []SubmissionsAreAccepted
<1>1. Inv => SubmissionsAreAccepted
  BY DEF Inv
<1>. QED BY Invariance, <1>1, PTL

(* Every checkpoint passes the watermark test of its restore                *)
(* (LabTerrainCourse.restore_after_physical_reset).                         *)
THEOREM CheckpointsLoad == Spec => []EveryCheckpointLoads
<1>1. Inv => EveryCheckpointLoads
  BY DEF Inv
<1>. QED BY Invariance, <1>1, PTL

(* A row that keeps its beam does not request the riser it failed at again  *)
(* (SimulatedTofTrigger.step, riser_cleared).                               *)
THEOREM NoneAhead == Spec => []NoRetriggerAhead
<1>1. Inv => NoRetriggerAhead
  BY DEF Inv
<1>. QED BY Invariance, <1>1, PTL
=============================================================================
