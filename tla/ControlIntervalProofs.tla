----------------------- MODULE ControlIntervalProofs -----------------------
(***************************************************************************)
(* What ControlInterval promises, proved for every ring, every lag, every  *)
(* number of substeps and every limit.                                     *)
(*                                                                         *)
(* The inductive invariant has one part per thing an interval leaves       *)
(* behind: the ring is a delay line that begins with the epoch, the latch  *)
(* holds the target of the last interval, the downlink holds torque of     *)
(* this epoch or none, the books of the recovery balance, and the clocks   *)
(* of preparation and recovery add up to the age of the episode.           *)
(***************************************************************************)
EXTENDS ControlInterval, TLAPS

------------------------------------------------------------------------------
(* The inductive invariant *)

(* The last interval whose action the ring has taken.                      *)
Last == IF pc = "decide" THEN tick - 1 ELSE tick

(* What a delay line that began with the epoch has of interval t.          *)
Expected(t) == IF t >= history.since THEN Packet(t, t)
                                     ELSE Packet(Neutral, history.since)

ClocksAgree ==
  /\ history.since <= tick
  /\ history.born <= history.since
  /\ pc = "decide" => torque = {}
  /\ saved.lost \in Nat

(* Between the decision and the end, the driver is settled.                *)
DriverIsSettled ==
  pc # "decide" =>
    /\ target.epoch = row.epoch
    /\ target.source = IF preparation.active THEN "script" ELSE "policy"
    /\ link.allowed = ~preparation.active
    /\ row.owned => ~preparation.active

RingIsDelayLine ==
  device = "transport" =>
    /\ ~latch.active
    /\ transport.allowed =>
         /\ ~preparation.active
         /\ history.since <= Last
         /\ \A d \in Slots : transport.ring[Back(transport.index, d)] = Expected(Last - d)
    /\ ~transport.allowed =>
         /\ pc = "decide" /\ ~preparation.active => history.since = tick
         /\ pc # "decide" => preparation.active
    /\ (pc # "decide" /\ ~preparation.active) =>
         Packet(target.action, target.stamp) = Expected(tick - transport.lag)

LatchHoldsLastTarget ==
  device = "latch" =>
    /\ pc = "decide" =>
         /\ latch.held => /\ ~preparation.active
                          /\ history.since < tick
                          /\ target = Target(row.epoch, "policy", Packet(tick - 1, tick - 1))
         /\ ~latch.held /\ ~preparation.active => history.since = tick
    /\ pc # "decide" =>
         /\ latch.held = ~preparation.active
         /\ ~preparation.active =>
              /\ Packet(target.action, target.stamp) = Packet(tick, tick)
              /\ latch.active = (tick > history.since)
         /\ latch.active =>
              /\ ~preparation.active
              /\ heldTarget = Target(row.epoch, "policy", Packet(tick - 1, tick - 1))

(* An effort this epoch's driver asked for, or none.                       *)
OfThisEpoch(effort) ==
  effort # Nothing =>
    /\ effort.epoch = row.epoch
    /\ effort.source = IF preparation.active THEN "script" ELSE "policy"

LinkHoldsThisEpoch ==
  /\ link.allowed = ~preparation.active => OfThisEpoch(link.effort)
  /\ pc # "decide" => \A effort \in torque : OfThisEpoch(effort)

Balanced(c, active, verified, lost) ==
  /\ c.births = c.handoffs + c.timeouts + c.failed + c.resets
                   + One(active) + lost
  /\ c.handoffs - c.unverified + One(active /\ verified) <= c.verified
  /\ c.verified + One(active /\ ~verified) <= c.births

BooksBalance ==
  /\ Balanced(counts, recovery.active, recovery.verified, history.lost)
  /\ Balanced(saved.counts, FALSE, FALSE, saved.lost)

RecoveryClock ==
  recovery.active =>
    /\ preparation.active =>
         /\ ~preparation.passive
         /\ recovery.elapsed = 0
         /\ tick = history.born + preparation.frames
         /\ preparation.frames < PreparationLimit
         /\ preparation.elapsed = preparation.frames + One(pc # "decide")
    /\ ~preparation.active =>
         /\ tick <= history.born + PreparationLimit + recovery.elapsed
         /\ recovery.elapsed < RecoveryLimit

IInv ==
  /\ TypeOK
  /\ ClocksAgree
  /\ DriverIsSettled
  /\ RingIsDelayLine
  /\ LatchHoldsLastTarget
  /\ LinkHoldsThisEpoch
  /\ ArrivalsAreExact
  /\ BooksBalance
  /\ RecoveryClock

------------------------------------------------------------------------------
(* The ring *)

(* Walking back from the next slot by d is walking back from this one by   *)
(* d - 1, and only d = 0 meets the slot that was just written.             *)
LEMMA BackInSlots ==
  ASSUME NEW i \in Slots, NEW d \in Slots
  PROVE  /\ Back(i, d) \in Slots
         /\ Following(i) \in Slots
BY IntervalAssumption DEF Slots, Back, Following

LEMMA BackFromFollowing ==
  ASSUME NEW i \in Slots, NEW d \in Slots
  PROVE  /\ d = 0 => Back(Following(i), d) = Following(i)
         /\ d # 0 => /\ Back(Following(i), d) # Following(i)
                     /\ d - 1 \in Slots
                     /\ Back(Following(i), d) = Back(i, d - 1)
BY IntervalAssumption DEF Slots, Back, Following

LEMMA PacketType ==
  ASSUME NEW a \in Int, NEW s \in Nat
  PROVE  Packet(a, s) \in Packets
BY DEF Packet, Packets

LEMMA NeutralInt == Neutral \in Int
BY DEF Neutral

LEMMA OneNat == \A c \in BOOLEAN : One(c) \in Nat
BY DEF One

------------------------------------------------------------------------------
(* Type correctness *)

LEMMA BirthTypes ==
  ASSUME NEW birth \in Births
  PROVE  /\ BornPreparation(birth) \in [active : BOOLEAN, passive : BOOLEAN,
                                        frames : Nat, elapsed : Nat]
         /\ BornPreparation(birth).passive => BornPreparation(birth).active
         /\ BornRecovery(birth) \in [active : BOOLEAN, elapsed : Nat,
                 estimated : Nat, physical : Nat, verified : BOOLEAN]
         /\ Recovers(birth) \in BOOLEAN
<1>1. Recovers(birth) \in BOOLEAN /\ Scripted(birth) \in BOOLEAN /\ (birth = "ground") \in BOOLEAN
  BY DEF Recovers, Scripted
<1>2. 0 \in Nat /\ FALSE \in BOOLEAN
  OBVIOUS
<1>3. BornPreparation(birth) \in [active : BOOLEAN, passive : BOOLEAN,
                                 frames : Nat, elapsed : Nat]
  BY <1>1, <1>2, Zenon DEF BornPreparation
<1>4. BornPreparation(birth).passive => BornPreparation(birth).active
  BY DEF BornPreparation, Scripted
<1>5. BornRecovery(birth) \in [active : BOOLEAN, elapsed : Nat,
                 estimated : Nat, physical : Nat, verified : BOOLEAN]
  BY <1>1, <1>2, Zenon DEF BornRecovery
<1> QED BY <1>1, <1>3, <1>4, <1>5

LEMMA DrawTypes ==
  ASSUME TypeOK, NEW lag \in Lags, NEW late \in SubstepLags
  PROVE  /\ lag \in Slots
         /\ late \in Nat
         /\ BornLatch(late) \in [held : BOOLEAN, active : BOOLEAN, lag : Nat]
         /\ EmptyRing \in [Slots -> Packets]
<1>1. lag \in Slots
  BY IntervalAssumption DEF Lags, Slots
<1>2. late \in Nat
  BY IntervalAssumption DEF SubstepLags
<1>3. EmptyRing \in [Slots -> Packets]
  BY PacketType, NeutralInt DEF EmptyRing
<1> QED BY <1>1, <1>2, <1>3 DEF BornLatch

LEMMA NothingType == Nothing \in Targets
BY NeutralInt DEF Nothing, Targets

LEMMA TargetType ==
  ASSUME NEW e \in Nat, NEW src \in {"none", "script", "policy"},
         NEW packet \in Packets
  PROVE  /\ Target(e, src, packet) \in Targets
         /\ Target(e, src, packet).epoch = e
         /\ Target(e, src, packet).source = src
         /\ Target(e, src, packet).action = packet.action
         /\ Target(e, src, packet).stamp = packet.stamp
BY DEF Target, Targets, Packets

LEMMA TransportedType ==
  ASSUME TypeOK, NEW allowed \in BOOLEAN
  PROVE  /\ Transported(transport, allowed) \in
              [ring : [Slots -> Packets], index : Slots, allowed : BOOLEAN, lag : Slots]
         /\ Transported(transport, allowed).allowed = allowed
         /\ Transported(transport, allowed).lag = transport.lag
         /\ Transported(transport, allowed).index = Following(transport.index)
<1> DEFINE blocked == ~allowed \/ ~transport.allowed
           ring == IF blocked THEN [s \in Slots |-> Packet(Neutral, tick)]
                              ELSE transport.ring
           index == Following(transport.index)
           packet == Packet(IF allowed THEN tick ELSE Neutral, tick)
<1>1. ring \in [Slots -> Packets]
  BY PacketType, NeutralInt DEF TypeOK
<1>2. index \in Slots
  BY BackInSlots DEF TypeOK
<1>3. packet \in Packets
  BY PacketType, NeutralInt DEF TypeOK
<1>4. [ring EXCEPT ![index] = packet] \in [Slots -> Packets]
  <2> HIDE DEF ring, index, packet
  <2> QED BY <1>1, <1>2, <1>3
<1>5. Transported(transport, allowed)
        = [ring |-> [ring EXCEPT ![index] = packet], index |-> index,
           allowed |-> allowed, lag |-> transport.lag]
  BY DEF Transported
<1> HIDE DEF ring, index, packet, blocked
<1>6. index = Following(transport.index)
  BY DEF index
<1> QED BY <1>2, <1>4, <1>5, <1>6 DEF TypeOK

LEMMA ArrivedType ==
  ASSUME NEW t \in [ring : [Slots -> Packets], index : Slots,
                    allowed : BOOLEAN, lag : Slots]
  PROVE  Arrived(t) \in Packets
BY BackInSlots DEF Arrived

LEMMA BornCountsType ==
  ASSUME NEW c \in Counts, NEW active \in BOOLEAN, NEW birth \in Births
  PROVE  BornCounts(c, active, birth) \in Counts
<1> DEFINE r == One(active)
           b == One(Recovers(birth))
<1>1. r \in Nat /\ b \in Nat
  BY DEF One
<1>2. BornCounts(c, active, birth) = [c EXCEPT !.resets = @ + r, !.births = @ + b]
  BY DEF BornCounts
<1>3. PICK resets \in Nat, births \in Nat : resets = c.resets + r /\ births = c.births + b
  <2> HIDE DEF r, b
  <2> QED BY <1>1 DEF Counts
<1>4. BornCounts(c, active, birth) = [c EXCEPT !.resets = resets, !.births = births]
  BY <1>2, <1>3
<1> HIDE DEF r, b
<1> QED BY <1>4 DEF Counts

LEMMA TypeInit == Init => TypeOK
<1> SUFFICES ASSUME Init PROVE TypeOK
  OBVIOUS
<1> PICK birth \in Births, lag \in Lags, late \in SubstepLags :
       /\ row = [episode |-> 1, epoch |-> 1, owned |-> FALSE]
       /\ transport = [ring |-> EmptyRing, index |-> 0, allowed |-> FALSE, lag |-> lag]
       /\ latch = BornLatch(late)
       /\ target = Target(1, "policy", Packet(Neutral, 0))
       /\ heldTarget = Nothing
       /\ link = [allowed |-> FALSE, effort |-> Nothing]
       /\ preparation = BornPreparation(birth)
       /\ recovery = BornRecovery(birth)
       /\ counts = BornCounts(NoCounts, FALSE, birth)
  BY DEF Init
<1>1. /\ lag \in Slots /\ late \in Nat /\ EmptyRing \in [Slots -> Packets]
      /\ 0 \in Slots
  BY IntervalAssumption, PacketType, NeutralInt DEF Init, Lags, SubstepLags, Slots, EmptyRing
<1>2. transport \in [ring : [Slots -> Packets], index : Slots, allowed : BOOLEAN, lag : Slots]
  BY <1>1
<1>3. latch \in [held : BOOLEAN, active : BOOLEAN, lag : Nat]
  BY <1>1 DEF BornLatch
<1>4. target \in Targets /\ heldTarget \in Targets
  BY PacketType, NeutralInt, TargetType, NothingType
<1>5. link \in [allowed : BOOLEAN, effort : Targets]
  BY NothingType
<1>6. /\ row \in [episode : Nat, epoch : Nat, owned : BOOLEAN]
      /\ NoCounts \in Counts
  BY DEF NoCounts, Counts
<1>8. counts \in Counts
  BY <1>6, BornCountsType
<1>7. /\ saved \in [counts : Counts, lost : Nat]
      /\ history \in [since : Nat, born : Nat, lost : Nat, restarts : Nat, before : Nat]
      /\ tick \in Nat /\ substep \in Nat /\ pc \in {"decide", "physics", "finish"}
      /\ device \in {"transport", "latch"} /\ torque \subseteq Targets
  BY <1>6 DEF Init
<1> QED BY <1>2, <1>3, <1>4, <1>5, <1>6, <1>7, <1>8, BirthTypes DEF TypeOK

LEMMA TypeDecide == TypeOK /\ Decide => TypeOK'
<1> SUFFICES ASSUME TypeOK, Decide PROVE TypeOK'
  OBVIOUS
<1> DEFINE allowed == ~preparation.active
           moved == IF device = "transport" THEN Transported(transport, allowed) ELSE transport
           arrived == IF device = "transport" THEN Arrived(moved) ELSE Packet(tick, tick)
<1>0. allowed \in BOOLEAN
  BY DEF TypeOK
<1>1. transport' \in [ring : [Slots -> Packets], index : Slots, allowed : BOOLEAN, lag : Slots]
  BY <1>0, TransportedType DEF Decide, TypeOK
<1>2. target' \in Targets
  <2>1. moved \in [ring : [Slots -> Packets], index : Slots, allowed : BOOLEAN, lag : Slots]
    BY <1>0, TransportedType DEF TypeOK
  <2>2. arrived \in Packets
    BY <2>1, ArrivedType, PacketType DEF TypeOK
  <2>3. target' = Target(row.epoch, IF allowed THEN "policy" ELSE "script",
                         IF allowed THEN arrived ELSE Packet(Neutral, tick))
    BY DEF Decide
  <2>4. row.epoch \in Nat /\ Packet(Neutral, tick) \in Packets
    BY PacketType, NeutralInt DEF TypeOK
  <2> HIDE DEF arrived, moved, allowed
  <2> QED BY <2>2, <2>3, <2>4, TargetType
<1>3. link' \in [allowed : BOOLEAN, effort : Targets]
  <2>1. (IF link.allowed # allowed THEN Flushed(link) ELSE link) \in [allowed : BOOLEAN, effort : Targets]
    BY NothingType DEF Flushed, TypeOK
  <2>2. link' = [(IF link.allowed # allowed THEN Flushed(link) ELSE link) EXCEPT !.allowed = allowed]
    BY DEF Decide
  <2> HIDE DEF allowed
  <2> QED BY <1>0, <2>1, <2>2
<1>4. latch' \in [held : BOOLEAN, active : BOOLEAN, lag : Nat]
  <2> DEFINE late == latch.held /\ allowed
  <2>1. late \in BOOLEAN
    BY DEF TypeOK
  <2>2. latch' = IF device = "latch" THEN [latch EXCEPT !.active = late, !.held = allowed] ELSE latch
    BY DEF Decide
  <2> HIDE DEF late, allowed
  <2> QED BY <1>0, <2>1, <2>2 DEF TypeOK
<1>5. row' \in [episode : Nat, epoch : Nat, owned : BOOLEAN]
  <2>1. row' = [row EXCEPT !.owned = allowed]
    BY DEF Decide
  <2> HIDE DEF allowed
  <2> QED BY <1>0, <2>1 DEF TypeOK
<1>6. /\ preparation' \in [active : BOOLEAN, passive : BOOLEAN, frames : Nat, elapsed : Nat]
      /\ preparation'.passive => preparation'.active
  BY DEF Decide, TypeOK
<1>7. /\ tick' \in Nat /\ substep' \in Nat /\ pc' \in {"decide", "physics", "finish"}
      /\ device' \in {"transport", "latch"} /\ torque' \subseteq Targets /\ heldTarget' \in Targets
  BY DEF Decide, TypeOK
<1>8. UNCHANGED <<recovery, counts, saved, history>>
  BY DEF Decide
<1> QED BY <1>1, <1>2, <1>3, <1>4, <1>5, <1>6, <1>7, <1>8 DEF TypeOK

LEMMA TypePhysics == TypeOK /\ PhysicsStep => TypeOK'
<1> SUFFICES ASSUME TypeOK, PhysicsStep PROVE TypeOK'
  OBVIOUS
<1> PICK good \in BOOLEAN, lost \in BOOLEAN :
      /\ torque' = {link.effort, Requested}
      /\ link' = [link EXCEPT !.effort = Requested]
      /\ substep' = substep + 1
      /\ pc' = IF substep + 1 = Substeps THEN "finish" ELSE pc
      /\ row' = [row EXCEPT !.owned = row.owned /\ ~lost]
      /\ recovery' = [recovery EXCEPT
                        !.physical = IF recovery.active /\ (row.owned /\ ~lost) /\ good
                                       THEN @ + 1 ELSE 0]
      /\ UNCHANGED <<tick, device, transport, latch, target, heldTarget,
                     preparation, counts, saved, history>>
  BY DEF PhysicsStep
<1>1. Requested \in Targets
  BY NothingType DEF Requested, TypeOK
<1>2. link' \in [allowed : BOOLEAN, effort : Targets] /\ torque' \subseteq Targets
  BY <1>1 DEF TypeOK
<1>3. row' \in [episode : Nat, epoch : Nat, owned : BOOLEAN]
  <2> DEFINE owned == row.owned /\ ~lost
  <2>1. owned \in BOOLEAN /\ row' = [row EXCEPT !.owned = owned]
    BY DEF TypeOK
  <2> HIDE DEF owned
  <2> QED BY <2>1 DEF TypeOK
<1>4. recovery' \in [active : BOOLEAN, elapsed : Nat, estimated : Nat, physical : Nat, verified : BOOLEAN]
  BY DEF TypeOK
<1>5. substep' \in Nat /\ pc' \in {"decide", "physics", "finish"}
  BY DEF TypeOK
<1> QED BY <1>2, <1>3, <1>4, <1>5 DEF TypeOK

LEMMA FinishTypes ==
  ASSUME TypeOK, NEW terminated \in BOOLEAN, NEW admitted \in BOOLEAN,
         NEW ready \in BOOLEAN
  PROVE  /\ Released \in BOOLEAN /\ Handed(admitted) \in BOOLEAN
         /\ PreparationLate(admitted) \in BOOLEAN
         /\ Eligible(terminated) \in BOOLEAN
         /\ RecoveryHandoff(terminated, ready) \in BOOLEAN
         /\ RecoveryTimeout(terminated, ready) \in BOOLEAN
         /\ Verifies(terminated) \in BOOLEAN
         /\ Frames \in Nat
         /\ Estimated(terminated, ready) \in Nat
<1>1. Eligible(terminated) \in BOOLEAN
  BY DEF Eligible, TypeOK
<1>2. Estimated(terminated, ready) \in Nat
  BY DEF Estimated, TypeOK
<1>3. Frames \in Nat
  BY DEF Frames, TypeOK
<1>4. Released \in BOOLEAN /\ Handed(admitted) \in BOOLEAN /\ PreparationLate(admitted) \in BOOLEAN
  BY DEF Released, Handed, PreparationLate
<1>5. /\ RecoveryHandoff(terminated, ready) \in BOOLEAN
      /\ RecoveryTimeout(terminated, ready) \in BOOLEAN
      /\ Verifies(terminated) \in BOOLEAN
  BY DEF RecoveryHandoff, RecoveryTimeout, Verifies
<1> QED BY <1>1, <1>2, <1>3, <1>4, <1>5

LEMMA FinishedTypes ==
  ASSUME TypeOK, NEW terminated \in BOOLEAN, NEW ready \in BOOLEAN
  PROVE  /\ FinishedRecovery(terminated, ready) \in [active : BOOLEAN, elapsed : Nat,
               estimated : Nat, physical : Nat, verified : BOOLEAN]
         /\ FinishedCounts(terminated, ready) \in Counts
<1> DEFINE active == /\ recovery.active /\ ~terminated
                     /\ ~RecoveryHandoff(terminated, ready)
                     /\ ~RecoveryTimeout(terminated, ready)
           elapsed == recovery.elapsed + One(Eligible(terminated))
           estimated == Estimated(terminated, ready)
           verified == recovery.verified \/ Verifies(terminated)
<1>1. active \in BOOLEAN /\ elapsed \in Nat /\ estimated \in Nat /\ verified \in BOOLEAN
  <2>1. One(Eligible(terminated)) \in Nat
    BY DEF One
  <2>2. elapsed \in Nat
    BY <2>1 DEF TypeOK
  <2>3. estimated \in Nat
    BY DEF Estimated, TypeOK
  <2>4. active \in BOOLEAN /\ verified \in BOOLEAN
    BY DEF TypeOK, Verifies
  <2> QED BY <2>2, <2>3, <2>4
<1>2. FinishedRecovery(terminated, ready)
        = [recovery EXCEPT !.active = active, !.elapsed = elapsed,
                           !.estimated = estimated, !.verified = verified]
  BY DEF FinishedRecovery
<1>3. FinishedRecovery(terminated, ready) \in [active : BOOLEAN, elapsed : Nat,
               estimated : Nat, physical : Nat, verified : BOOLEAN]
  <2> HIDE DEF active, elapsed, estimated, verified
  <2> QED BY <1>1, <1>2 DEF TypeOK
<1>4. FinishedCounts(terminated, ready) \in Counts
  <2> DEFINE v == One(Verifies(terminated))
             h == One(RecoveryHandoff(terminated, ready))
             u == One(/\ RecoveryHandoff(terminated, ready)
                      /\ ~recovery.verified /\ ~Verifies(terminated))
             t == One(RecoveryTimeout(terminated, ready))
             f == One(recovery.active /\ terminated)
  <2>1. v \in Nat /\ h \in Nat /\ u \in Nat /\ t \in Nat /\ f \in Nat
    BY DEF One
  <2>2. FinishedCounts(terminated, ready)
          = [counts EXCEPT !.verified = @ + v, !.handoffs = @ + h,
                           !.unverified = @ + u, !.timeouts = @ + t, !.failed = @ + f]
    BY DEF FinishedCounts
  <2> HIDE DEF v, h, u, t, f
  <2>3. counts \in Counts
    BY DEF TypeOK
  <2>4. PICK v2 \in Nat : v2 = counts.verified + v
    BY <2>1, <2>3 DEF Counts
  <2>5. PICK h2 \in Nat : h2 = counts.handoffs + h
    BY <2>1, <2>3 DEF Counts
  <2>6. PICK u2 \in Nat : u2 = counts.unverified + u
    BY <2>1, <2>3 DEF Counts
  <2>7. PICK t2 \in Nat : t2 = counts.timeouts + t
    BY <2>1, <2>3 DEF Counts
  <2>8. PICK f2 \in Nat : f2 = counts.failed + f
    BY <2>1, <2>3 DEF Counts
  <2>9. FinishedCounts(terminated, ready)
          = [counts EXCEPT !.verified = v2, !.handoffs = h2, !.unverified = u2,
                           !.timeouts = t2, !.failed = f2]
    BY <2>2, <2>4, <2>5, <2>6, <2>7, <2>8
  <2> QED BY <2>3, <2>9 DEF Counts
<1> QED BY <1>3, <1>4

(* What a reset leaves, whoever resets.                                    *)
LEMMA ResetTypes ==
  ASSUME TypeOK, NEW birth \in Births, NEW lag \in Lags, NEW late \in SubstepLags,
         NEW episode \in Nat, NEW epoch \in Nat,
         ResetRow(birth, lag, late, episode, epoch)
  PROVE  /\ row' \in [episode : Nat, epoch : Nat, owned : BOOLEAN]
         /\ transport' \in [ring : [Slots -> Packets], index : Slots,
                            allowed : BOOLEAN, lag : Slots]
         /\ latch' \in [held : BOOLEAN, active : BOOLEAN, lag : Nat]
         /\ target' \in Targets
         /\ link' \in [allowed : BOOLEAN, effort : Targets]
         /\ preparation' \in [active : BOOLEAN, passive : BOOLEAN, frames : Nat, elapsed : Nat]
         /\ preparation'.passive => preparation'.active
         /\ recovery' \in [active : BOOLEAN, elapsed : Nat, estimated : Nat,
                           physical : Nat, verified : BOOLEAN]
<1>1. row' \in [episode : Nat, epoch : Nat, owned : BOOLEAN]
  BY DEF ResetRow, TypeOK
<1>2. transport' \in [ring : [Slots -> Packets], index : Slots, allowed : BOOLEAN, lag : Slots]
  BY DrawTypes DEF ResetRow, BornTransport, TypeOK
<1>3. latch' \in [held : BOOLEAN, active : BOOLEAN, lag : Nat]
  BY DrawTypes DEF ResetRow
<1>4. target' \in Targets
  <2>1. target.stamp \in Nat
    BY DEF TypeOK, Targets
  <2>2. Packet(Neutral, target.stamp) \in Packets
    BY <2>1, PacketType, NeutralInt
  <2> QED BY <2>2, TargetType DEF ResetRow
<1>5. link' \in [allowed : BOOLEAN, effort : Targets]
  BY NothingType DEF ResetRow
<1>6. preparation' = BornPreparation(birth) /\ recovery' = BornRecovery(birth)
  BY DEF ResetRow
<1> QED BY <1>1, <1>2, <1>3, <1>4, <1>5, <1>6, BirthTypes

LEMMA TypeGoOn ==
  ASSUME TypeOK, NEW terminated \in BOOLEAN, NEW admitted \in BOOLEAN,
         NEW ready \in BOOLEAN, GoOn(terminated, admitted, ready),
         pc' = "decide", tick' = tick + 1, torque' = {},
         UNCHANGED <<substep, device, heldTarget, saved>>
  PROVE  TypeOK'
<1>1. /\ preparation' \in [active : BOOLEAN, passive : BOOLEAN, frames : Nat, elapsed : Nat]
      /\ preparation'.passive => preparation'.active
  <2> DEFINE active == preparation.active /\ ~Handed(admitted)
             passive == preparation.passive /\ ~Released
             frames == Frames
  <2>1. active \in BOOLEAN /\ passive \in BOOLEAN /\ frames \in Nat
    BY FinishTypes DEF TypeOK
  <2>2. passive => active
    BY DEF Handed, TypeOK
  <2>3. preparation' = [preparation EXCEPT !.active = active, !.passive = passive,
                                           !.frames = frames]
    BY DEF GoOn
  <2> HIDE DEF active, passive, frames
  <2> QED BY <2>1, <2>2, <2>3 DEF TypeOK
<1>2. /\ recovery' \in [active : BOOLEAN, elapsed : Nat, estimated : Nat,
                        physical : Nat, verified : BOOLEAN]
      /\ counts' \in Counts
  BY FinishedTypes DEF GoOn
<1>3. row' \in [episode : Nat, epoch : Nat, owned : BOOLEAN]
  <2>1. EpochAfter(Handed(admitted)) \in Nat
    BY DEF EpochAfter, One, TypeOK
  <2> QED BY <2>1 DEF GoOn, TypeOK
<1>4. history' \in [since : Nat, born : Nat, lost : Nat, restarts : Nat, before : Nat]
  BY DEF GoOn, TypeOK
<1>5. UNCHANGED <<transport, latch, target, link>>
  BY DEF GoOn
<1> QED BY <1>1, <1>2, <1>3, <1>4, <1>5 DEF TypeOK

LEMMA TypeStartAgain ==
  ASSUME TypeOK, NEW terminated \in BOOLEAN, NEW ready \in BOOLEAN,
         StartAgain(terminated, ready),
         pc' = "decide", tick' = tick + 1, torque' = {},
         UNCHANGED <<substep, device, heldTarget, saved>>
  PROVE  TypeOK'
<1> PICK birth \in Births, lag \in Lags, late \in SubstepLags :
       /\ ResetRow(birth, lag, late, row.episode + 1, row.epoch + 1)
       /\ counts' = BornCounts(FinishedCounts(terminated, ready),
                        FinishedRecovery(terminated, ready).active, birth)
  BY DEF StartAgain
<1>1. row.episode + 1 \in Nat /\ row.epoch + 1 \in Nat
  BY DEF TypeOK
<1>2. counts' \in Counts
  <2>1. FinishedCounts(terminated, ready) \in Counts
    BY FinishedTypes
  <2>2. FinishedRecovery(terminated, ready).active \in BOOLEAN
    BY FinishedTypes
  <2>3. counts' = BornCounts(FinishedCounts(terminated, ready),
                             FinishedRecovery(terminated, ready).active, birth)
    OBVIOUS
  <2> QED BY <2>1, <2>2, <2>3, BornCountsType, Zenon
<1>3. history' \in [since : Nat, born : Nat, lost : Nat, restarts : Nat, before : Nat]
  <2>1. history' = [history EXCEPT !.since = tick + 1, !.born = tick + 1]
    BY DEF StartAgain
  <2>2. tick + 1 \in Nat
    BY DEF TypeOK
  <2> QED BY <2>1, <2>2 DEF TypeOK
<1> QED BY <1>1, <1>2, <1>3, ResetTypes DEF TypeOK

LEMMA TypeFinish == TypeOK /\ Finish => TypeOK'
<1> SUFFICES ASSUME TypeOK, Finish PROVE TypeOK'
  OBVIOUS
<1> PICK failed \in BOOLEAN, ends \in BOOLEAN, admitted \in BOOLEAN, ready \in BOOLEAN :
      /\ pc' = "decide" /\ tick' = tick + 1 /\ torque' = {}
      /\ \/ GoOn(failed \/ PreparationLate(admitted), admitted, ready)
         \/ StartAgain(failed \/ PreparationLate(admitted), ready)
      /\ UNCHANGED <<substep, device, heldTarget, saved>>
  BY DEF Finish
<1>1. PICK terminated \in BOOLEAN : terminated = (failed \/ PreparationLate(admitted))
  BY FinishTypes
<1>2. \/ GoOn(terminated, admitted, ready)
      \/ StartAgain(terminated, ready)
  BY <1>1
<1> QED BY <1>2, TypeGoOn, TypeStartAgain

LEMMA TypeSave == TypeOK /\ Save => TypeOK'
<1> SUFFICES ASSUME TypeOK, Save PROVE TypeOK'
  OBVIOUS
<1>1. history.lost + One(recovery.active) \in Nat
  BY DEF One, TypeOK
<1>2. saved' \in [counts : Counts, lost : Nat]
  BY <1>1 DEF Save, TypeOK
<1> QED BY <1>2 DEF Save, TypeOK

LEMMA TypeRestart == TypeOK /\ Restart => TypeOK'
<1> SUFFICES ASSUME TypeOK, Restart PROVE TypeOK'
  OBVIOUS
<1> PICK birth \in Births, lag \in Lags, late \in SubstepLags :
       /\ row' = [episode |-> 1, epoch |-> 1, owned |-> FALSE]
       /\ transport' = [ring |-> EmptyRing, index |-> 0, allowed |-> FALSE, lag |-> lag]
       /\ latch' = BornLatch(late)
       /\ target' = Target(1, "policy", Packet(Neutral, 0))
       /\ link' = [allowed |-> FALSE, effort |-> Nothing]
       /\ preparation' = BornPreparation(birth)
       /\ recovery' = BornRecovery(birth)
       /\ counts' = BornCounts(saved.counts, FALSE, birth)
  BY DEF Restart
<1>1. transport' \in [ring : [Slots -> Packets], index : Slots, allowed : BOOLEAN, lag : Slots]
  <2>1. 0 \in Slots
    BY IntervalAssumption DEF Slots
  <2> QED BY <2>1, DrawTypes
<1>2. target' \in Targets /\ heldTarget' \in Targets
  BY PacketType, NeutralInt, TargetType, NothingType DEF Restart
<1>3. link' \in [allowed : BOOLEAN, effort : Targets]
  BY NothingType
<1>4. counts' \in Counts
  BY BornCountsType DEF TypeOK
<1>5. history' \in [since : Nat, born : Nat, lost : Nat, restarts : Nat, before : Nat]
  BY DEF Restart, TypeOK
<1>6. /\ tick' \in Nat /\ substep' \in Nat /\ pc' \in {"decide", "physics", "finish"}
      /\ torque' \subseteq Targets /\ UNCHANGED <<device, saved>>
      /\ row' \in [episode : Nat, epoch : Nat, owned : BOOLEAN]
  BY DEF Restart
<1> QED BY <1>1, <1>2, <1>3, <1>4, <1>5, <1>6, BirthTypes, DrawTypes DEF TypeOK

LEMMA TypeStep == TypeOK /\ [Next]_vars => TypeOK'
<1> SUFFICES ASSUME TypeOK, [Next]_vars PROVE TypeOK'
  OBVIOUS
<1>1. CASE Next
  BY <1>1, TypeDecide, TypePhysics, TypeFinish, TypeSave, TypeRestart DEF Next
<1>2. CASE UNCHANGED vars
  BY <1>2 DEF vars, TypeOK
<1> QED BY <1>1, <1>2

(* Type correctness of the interval, for every configuration.              *)
THEOREM TypeCorrect == Spec => []TypeOK
BY TypeInit, TypeStep, PTL DEF Spec

------------------------------------------------------------------------------
(* The books of the recovery *)

LEMMA OneValues == One(TRUE) = 1 /\ One(FALSE) = 0
BY DEF One

(* Each of the four ways a recovery ends takes it out of the open ones and *)
(* into one counter.                                                       *)
LEMMA FinishedBalance ==
  ASSUME TypeOK, BooksBalance, NEW terminated \in BOOLEAN, NEW ready \in BOOLEAN
  PROVE  Balanced(FinishedCounts(terminated, ready),
                  FinishedRecovery(terminated, ready).active,
                  FinishedRecovery(terminated, ready).verified, history.lost)
<1> DEFINE e == Eligible(terminated)
           h == RecoveryHandoff(terminated, ready)
           t == RecoveryTimeout(terminated, ready)
           v == Verifies(terminated)
           a == recovery.active
           w == recovery.verified
           fc == FinishedCounts(terminated, ready)
           fa == a /\ ~terminated /\ ~h /\ ~t
           fw == w \/ v
<1>1. /\ e \in BOOLEAN /\ h \in BOOLEAN /\ t \in BOOLEAN /\ v \in BOOLEAN
      /\ a \in BOOLEAN /\ w \in BOOLEAN
  BY FinishTypes DEF TypeOK
<1>2. e => a /\ ~terminated
  BY DEF Eligible
<1>3. (h => e) /\ (t => e /\ ~h) /\ (v => e /\ ~w)
  BY DEF RecoveryHandoff, RecoveryTimeout, Verifies
<1>4. /\ fc.births = counts.births
      /\ fc.resets = counts.resets
      /\ fc.verified = counts.verified + One(v)
      /\ fc.handoffs = counts.handoffs + One(h)
      /\ fc.unverified = counts.unverified + One(h /\ ~w /\ ~v)
      /\ fc.timeouts = counts.timeouts + One(t)
      /\ fc.failed = counts.failed + One(a /\ terminated)
  BY DEF FinishedCounts, TypeOK, Counts
<1>5. /\ FinishedRecovery(terminated, ready).active = fa
      /\ FinishedRecovery(terminated, ready).verified = fw
  BY DEF FinishedRecovery, TypeOK
<1>6. /\ counts.births \in Nat /\ counts.resets \in Nat /\ counts.verified \in Nat
      /\ counts.handoffs \in Nat /\ counts.unverified \in Nat
      /\ counts.timeouts \in Nat /\ counts.failed \in Nat /\ history.lost \in Nat
  BY DEF TypeOK, Counts
<1>7. Balanced(counts, a, w, history.lost)
  BY DEF BooksBalance
<1>8. Balanced(fc, fa, fw, history.lost)
  <2> HIDE DEF e, h, t, v, a, w, fc
  <2>1. CASE ~a
    <3>1. ~e /\ ~h /\ ~t /\ ~v /\ ~fa
      BY <1>1, <1>2, <1>3, <2>1
    <3> QED BY <1>1, <1>4, <1>6, <1>7, <2>1, <3>1 DEF Balanced, One
  <2>2. CASE a /\ terminated
    <3>1. ~e /\ ~h /\ ~t /\ ~v /\ ~fa
      BY <1>1, <1>2, <1>3, <2>2
    <3> QED BY <1>1, <1>4, <1>6, <1>7, <2>2, <3>1 DEF Balanced, One
  <2>3. CASE a /\ ~terminated /\ h
    BY <1>1, <1>2, <1>3, <1>4, <1>6, <1>7, <2>3 DEF Balanced, One
  <2>4. CASE a /\ ~terminated /\ ~h /\ t
    BY <1>1, <1>2, <1>3, <1>4, <1>6, <1>7, <2>4 DEF Balanced, One
  <2>5. CASE a /\ ~terminated /\ ~h /\ ~t
    BY <1>1, <1>2, <1>3, <1>4, <1>6, <1>7, <2>5 DEF Balanced, One
  <2> QED BY <1>1, <2>1, <2>2, <2>3, <2>4, <2>5
<1> QED BY <1>5, <1>8, Zenon

LEMMA BornBalance ==
  ASSUME NEW c \in Counts, NEW active \in BOOLEAN, NEW verified \in BOOLEAN,
         NEW lost \in Nat, NEW birth \in Births, Balanced(c, active, verified, lost)
  PROVE  Balanced(BornCounts(c, active, birth), Recovers(birth), FALSE, lost)
<1> DEFINE n == BornCounts(c, active, birth)
           b == Recovers(birth)
<1>1. /\ n.births = c.births + One(b) /\ n.resets = c.resets + One(active)
      /\ n.handoffs = c.handoffs /\ n.verified = c.verified
      /\ n.unverified = c.unverified /\ n.timeouts = c.timeouts /\ n.failed = c.failed
  BY DEF BornCounts, Counts
<1>2. b \in BOOLEAN
  BY DEF Recovers
<1> HIDE DEF n, b
<1>3. Balanced(n, b, FALSE, lost)
  BY <1>1, <1>2 DEF Balanced, One, Counts
<1> QED BY <1>3 DEF n, b

LEMMA BornRecoveryFields ==
  ASSUME NEW birth \in Births
  PROVE  /\ BornRecovery(birth).active = Recovers(birth)
         /\ BornRecovery(birth).verified = FALSE
BY DEF BornRecovery

LEMMA BooksInit == Init => BooksBalance
<1> SUFFICES ASSUME Init PROVE BooksBalance
  OBVIOUS
<1>1. PICK birth \in Births :
        /\ counts = BornCounts(NoCounts, FALSE, birth)
        /\ recovery = BornRecovery(birth)
  BY DEF Init
<1>2. saved.counts = NoCounts /\ saved.lost = 0 /\ history.lost = 0
  BY DEF Init
<1>3. NoCounts \in Counts /\ Balanced(NoCounts, FALSE, FALSE, 0)
  BY DEF NoCounts, Counts, Balanced, One
<1>4. Balanced(BornCounts(NoCounts, FALSE, birth), Recovers(birth), FALSE, 0)
  BY <1>3, BornBalance
<1> QED BY <1>1, <1>2, <1>3, <1>4, BornRecoveryFields, Zenon DEF BooksBalance

LEMMA BooksStep == TypeOK /\ BooksBalance /\ [Next]_vars => BooksBalance'
<1> SUFFICES ASSUME TypeOK, BooksBalance, [Next]_vars PROVE BooksBalance'
  OBVIOUS
<1>1. ASSUME Decide PROVE BooksBalance'
  BY <1>1 DEF Decide, BooksBalance
<1>2. ASSUME PhysicsStep PROVE BooksBalance'
  <2>1. /\ recovery'.active = recovery.active /\ recovery'.verified = recovery.verified
        /\ UNCHANGED <<counts, saved, history>>
    BY <1>2 DEF PhysicsStep, TypeOK
  <2> QED BY <2>1 DEF BooksBalance
<1>3. ASSUME Finish PROVE BooksBalance'
  <2> PICK failed \in BOOLEAN, ends \in BOOLEAN, admitted \in BOOLEAN, ready \in BOOLEAN :
        /\ \/ GoOn(failed \/ PreparationLate(admitted), admitted, ready)
           \/ StartAgain(failed \/ PreparationLate(admitted), ready)
        /\ UNCHANGED saved
    BY <1>3 DEF Finish
  <2>1. PICK terminated \in BOOLEAN : terminated = (failed \/ PreparationLate(admitted))
    BY FinishTypes
  <2>2. Balanced(FinishedCounts(terminated, ready),
                 FinishedRecovery(terminated, ready).active,
                 FinishedRecovery(terminated, ready).verified, history.lost)
    BY FinishedBalance
  <2>3. CASE GoOn(terminated, admitted, ready)
    <3>1. /\ counts' = FinishedCounts(terminated, ready)
          /\ recovery' = FinishedRecovery(terminated, ready)
      BY <2>3 DEF GoOn
    <3>2. history'.lost = history.lost
      BY <2>3 DEF GoOn, TypeOK
    <3> QED BY <2>2, <3>1, <3>2 DEF BooksBalance
  <2>4. CASE StartAgain(terminated, ready)
    <3>1. PICK birth \in Births :
            /\ counts' = BornCounts(FinishedCounts(terminated, ready),
                                    FinishedRecovery(terminated, ready).active, birth)
            /\ recovery' = BornRecovery(birth)
      BY <2>4 DEF StartAgain, ResetRow
    <3>2. history'.lost = history.lost
      BY <2>4 DEF StartAgain, TypeOK
    <3>3. PICK c \in Counts, active \in BOOLEAN, verified \in BOOLEAN :
            /\ c = FinishedCounts(terminated, ready)
            /\ active = FinishedRecovery(terminated, ready).active
            /\ verified = FinishedRecovery(terminated, ready).verified
      BY FinishedTypes
    <3>4. Balanced(BornCounts(c, active, birth), Recovers(birth), FALSE, history.lost)
      BY <2>2, <3>3, BornBalance DEF TypeOK
    <3> QED BY <3>1, <3>2, <3>3, <3>4, BornRecoveryFields, Zenon DEF BooksBalance
  <2> QED BY <2>1, <2>3, <2>4
<1>4. ASSUME Save PROVE BooksBalance'
  <2>1. saved'.counts = counts /\ saved'.lost = history.lost + One(recovery.active)
    BY <1>4 DEF Save
  <2>2. Balanced(counts, FALSE, FALSE, history.lost + One(recovery.active))
    <3>1. recovery.active \in BOOLEAN /\ recovery.verified \in BOOLEAN /\ history.lost \in Nat
      BY DEF TypeOK
    <3>2. counts \in Counts /\ Balanced(counts, recovery.active, recovery.verified, history.lost)
      BY DEF TypeOK, BooksBalance
    <3> QED BY <3>1, <3>2 DEF Balanced, One, Counts
  <2>3. UNCHANGED <<counts, recovery, history>>
    BY <1>4 DEF Save
  <2> QED BY <2>1, <2>2, <2>3 DEF BooksBalance
<1>5. ASSUME Restart PROVE BooksBalance'
  <2>1. PICK birth \in Births :
          /\ counts' = BornCounts(saved.counts, FALSE, birth)
          /\ recovery' = BornRecovery(birth)
    BY <1>5 DEF Restart
  <2>2. history'.lost = saved.lost /\ UNCHANGED saved
    BY <1>5 DEF Restart
  <2>3. saved.counts \in Counts /\ saved.lost \in Nat
    BY DEF TypeOK
  <2>4. Balanced(saved.counts, FALSE, FALSE, saved.lost)
    BY DEF BooksBalance
  <2>5. Balanced(BornCounts(saved.counts, FALSE, birth), Recovers(birth), FALSE, saved.lost)
    BY <2>3, <2>4, BornBalance
  <2> QED BY <2>1, <2>2, <2>4, <2>5, BornRecoveryFields, Zenon DEF BooksBalance
<1>6. CASE UNCHANGED vars
  BY <1>6 DEF vars, BooksBalance
<1> QED BY <1>1, <1>2, <1>3, <1>4, <1>5, <1>6 DEF Next

(* Every recovery that was ever born is accounted for.                     *)
THEOREM RecoveryBalances == Spec => []RecoveryBalance
<1>1. TypeOK /\ BooksBalance => RecoveryBalance
  <2> SUFFICES ASSUME TypeOK, BooksBalance PROVE RecoveryBalance
    OBVIOUS
  <2>1. /\ recovery.active \in BOOLEAN /\ recovery.verified \in BOOLEAN
        /\ counts \in Counts /\ history.lost \in Nat
    BY DEF TypeOK
  <2>2. Balanced(counts, recovery.active, recovery.verified, history.lost)
    BY DEF BooksBalance
  <2> QED BY <2>1, <2>2 DEF Balanced, RecoveryBalance, One, Counts
<1> QED BY <1>1, BooksInit, BooksStep, TypeCorrect, PTL DEF Spec

------------------------------------------------------------------------------
(* How an interval ends *)

LEMMA HandedActive ==
  ASSUME TypeOK, NEW admitted \in BOOLEAN, Handed(admitted)
  PROVE  preparation.active
BY DEF Handed, Released, TypeOK

LEMMA GoOnFields ==
  ASSUME TypeOK, NEW terminated \in BOOLEAN, NEW admitted \in BOOLEAN,
         NEW ready \in BOOLEAN, GoOn(terminated, admitted, ready)
  PROVE  /\ preparation'.active = (preparation.active /\ ~Handed(admitted))
         /\ preparation'.passive = (preparation.passive /\ ~Released)
         /\ preparation'.frames = Frames
         /\ preparation'.elapsed = preparation.elapsed
         /\ row'.episode = row.episode
         /\ row'.epoch = row.epoch + One(Handed(admitted))
         /\ history'.since = IF Handed(admitted) THEN tick + 1 ELSE history.since
         /\ history'.born = history.born
         /\ recovery' = FinishedRecovery(terminated, ready)
         /\ UNCHANGED <<transport, latch, target, link>>
BY DEF GoOn, TypeOK, EpochAfter

LEMMA StartFields ==
  ASSUME TypeOK, NEW terminated \in BOOLEAN, NEW ready \in BOOLEAN,
         StartAgain(terminated, ready)
  PROVE  \E birth \in Births :
           /\ row'.episode = row.episode + 1
           /\ row'.epoch = row.epoch + 1
           /\ transport'.allowed = FALSE
           /\ latch'.held = FALSE /\ latch'.active = FALSE
           /\ link'.effort = Nothing
           /\ preparation' = BornPreparation(birth)
           /\ recovery' = BornRecovery(birth)
           /\ history'.since = tick + 1 /\ history'.born = tick + 1
<1>1. PICK birth \in Births, lag \in Lags, late \in SubstepLags :
        ResetRow(birth, lag, late, row.episode + 1, row.epoch + 1)
  BY DEF StartAgain
<1>2. history'.since = tick + 1 /\ history'.born = tick + 1
  BY DEF StartAgain, TypeOK
<1>3. transport'.allowed = FALSE
  BY <1>1 DEF ResetRow, BornTransport, TypeOK
<1>4. row'.episode = row.episode + 1 /\ row'.epoch = row.epoch + 1
  BY <1>1 DEF ResetRow, TypeOK
<1> QED BY <1>1, <1>2, <1>3, <1>4 DEF ResetRow, BornLatch

LEMMA FinishCases ==
  ASSUME TypeOK, Finish
  PROVE  /\ pc = "finish" /\ pc' = "decide" /\ tick' = tick + 1 /\ torque' = {}
         /\ UNCHANGED <<device, heldTarget>>
         /\ \E terminated \in BOOLEAN, admitted \in BOOLEAN, ready \in BOOLEAN :
              \/ /\ GoOn(terminated, admitted, ready)
                 /\ ~terminated
                 /\ target.source = "policy" => row.owned
                 /\ ~PreparationLate(admitted)
                 /\ ~RecoveryTimeout(terminated, ready)
              \/ StartAgain(terminated, ready)
<1> PICK failed \in BOOLEAN, ends \in BOOLEAN, admitted \in BOOLEAN, ready \in BOOLEAN :
      /\ target.source = "policy" /\ ~row.owned => failed
      /\ \/ /\ ~((failed \/ PreparationLate(admitted)) \/ ends
                   \/ RecoveryTimeout(failed \/ PreparationLate(admitted), ready))
            /\ GoOn(failed \/ PreparationLate(admitted), admitted, ready)
         \/ StartAgain(failed \/ PreparationLate(admitted), ready)
  BY DEF Finish
<1>1. PICK terminated \in BOOLEAN : terminated = (failed \/ PreparationLate(admitted))
  BY FinishTypes
<1>2. \/ /\ ~(terminated \/ ends \/ RecoveryTimeout(terminated, ready))
         /\ GoOn(terminated, admitted, ready)
      \/ StartAgain(terminated, ready)
  BY <1>1
<1>3. /\ pc = "finish" /\ pc' = "decide" /\ tick' = tick + 1 /\ torque' = {}
      /\ UNCHANGED <<device, heldTarget>>
  BY DEF Finish
<1>4. ~terminated => /\ target.source = "policy" => row.owned
                     /\ ~PreparationLate(admitted)
  BY <1>1
<1> QED BY <1>2, <1>3, <1>4

LEMMA RestartFields ==
  ASSUME Restart
  PROVE  \E birth \in Births :
           /\ tick' = 0 /\ pc' = "decide" /\ torque' = {}
           /\ row'.episode = 1 /\ row'.epoch = 1
           /\ transport'.allowed = FALSE
           /\ latch'.held = FALSE /\ latch'.active = FALSE
           /\ link'.effort = Nothing
           /\ preparation' = BornPreparation(birth)
           /\ recovery' = BornRecovery(birth)
           /\ history'.since = 0 /\ history'.born = 0
BY DEF Restart, BornLatch

LEMMA InitFields ==
  ASSUME Init
  PROVE  \E birth \in Births :
           /\ tick = 0 /\ pc = "decide" /\ torque = {}
           /\ row.episode = 1 /\ row.epoch = 1
           /\ transport.allowed = FALSE
           /\ latch.held = FALSE /\ latch.active = FALSE
           /\ link.effort = Nothing
           /\ preparation = BornPreparation(birth)
           /\ recovery = BornRecovery(birth)
           /\ history.since = 0 /\ history.born = 0
BY DEF Init, BornLatch

------------------------------------------------------------------------------
(* The promise of the boundary *)

LEMMA BornActive ==
  ASSUME NEW birth \in Births
  PROVE  BornPreparation(birth).active \in BOOLEAN
BY DEF BornPreparation, Scripted

(* Every step is a handover, a reset, a restart or none of a reader's      *)
(* business.                                                               *)
LEMMA BoundaryStep == TypeOK /\ [Next]_vars => [Boundary!Next]_(Boundary!vars)
<1> SUFFICES ASSUME TypeOK, [Next]_vars PROVE [Boundary!Next]_(Boundary!vars)
  OBVIOUS
<1> USE DEF Boundary!Next, Boundary!vars
<1>1. ASSUME Decide PROVE [Boundary!Next]_(Boundary!vars)
  <2>1. /\ preparation'.active = preparation.active
        /\ row'.episode = row.episode /\ row'.epoch = row.epoch
    BY <1>1 DEF Decide, TypeOK
  <2> QED BY <2>1
<1>2. ASSUME PhysicsStep PROVE [Boundary!Next]_(Boundary!vars)
  <2>1. /\ preparation'.active = preparation.active
        /\ row'.episode = row.episode /\ row'.epoch = row.epoch
    BY <1>2 DEF PhysicsStep, TypeOK
  <2> QED BY <2>1
<1>3. ASSUME Finish PROVE [Boundary!Next]_(Boundary!vars)
  <2> PICK terminated \in BOOLEAN, admitted \in BOOLEAN, ready \in BOOLEAN :
        \/ GoOn(terminated, admitted, ready)
        \/ StartAgain(terminated, ready)
    BY <1>3, FinishCases
  <2>1. CASE GoOn(terminated, admitted, ready) /\ Handed(admitted)
    <3>1. /\ preparation.active /\ ~preparation'.active
          /\ row'.episode = row.episode /\ row'.epoch = row.epoch + 1
      BY <2>1, GoOnFields, HandedActive DEF One
    <3> QED BY <3>1 DEF Boundary!HandOver
  <2>2. CASE GoOn(terminated, admitted, ready) /\ ~Handed(admitted)
    <3>1. /\ preparation'.active = preparation.active
          /\ row'.episode = row.episode /\ row'.epoch = row.epoch
      BY <2>2, GoOnFields DEF One, TypeOK
    <3> QED BY <3>1
  <2>3. CASE StartAgain(terminated, ready)
    <3>1. PICK birth \in Births :
            /\ row'.episode = row.episode + 1 /\ row'.epoch = row.epoch + 1
            /\ preparation' = BornPreparation(birth)
      BY <2>3, StartFields
    <3>2. (~preparation'.active) \in BOOLEAN
      BY <3>1
    <3> QED BY <3>1, <3>2 DEF Boundary!Reset
  <2> QED BY <2>1, <2>2, <2>3
<1>4. ASSUME Save PROVE [Boundary!Next]_(Boundary!vars)
  BY <1>4 DEF Save
<1>5. ASSUME Restart PROVE [Boundary!Next]_(Boundary!vars)
  <2>1. row'.episode = 1 /\ row'.epoch = 1 /\ (~preparation'.active) \in BOOLEAN
    BY <1>5, RestartFields
  <2> QED BY <2>1 DEF Boundary!Restart
<1>6. CASE UNCHANGED vars
  BY <1>6 DEF vars
<1> QED BY <1>1, <1>2, <1>3, <1>4, <1>5, <1>6 DEF Next

LEMMA BoundaryInit == Init => Boundary!Init
BY InitFields DEF Boundary!Init

(* The row keeps its promise to whoever reads its trajectory.              *)
THEOREM BoundaryIsImplemented == Spec => ImplementsBoundary
BY BoundaryInit, BoundaryStep, TypeCorrect, PTL DEF Spec, ImplementsBoundary, Boundary!Spec

------------------------------------------------------------------------------
(* Who drives, and for how long *)

LEMMA DriverInit == Init => DriverIsSettled
BY InitFields DEF DriverIsSettled

LEMMA DriverStep == TypeOK /\ DriverIsSettled /\ [Next]_vars => DriverIsSettled'
<1> SUFFICES ASSUME TypeOK, DriverIsSettled, [Next]_vars PROVE DriverIsSettled'
  OBVIOUS
<1>1. ASSUME Decide PROVE DriverIsSettled'
  <2> DEFINE allowed == ~preparation.active
  <2>1. /\ preparation'.active = preparation.active
        /\ row'.epoch = row.epoch /\ row'.owned = allowed
    BY <1>1 DEF Decide, TypeOK
  <2>2. target'.epoch = row.epoch /\ target'.source = (IF allowed THEN "policy" ELSE "script")
    BY <1>1 DEF Decide, Target
  <2>3. link'.allowed = allowed
    BY <1>1 DEF Decide, Flushed, TypeOK
  <2>4. allowed \in BOOLEAN
    BY DEF TypeOK
  <2> QED BY <2>1, <2>2, <2>3, <2>4 DEF DriverIsSettled, TypeOK
<1>2. ASSUME PhysicsStep PROVE DriverIsSettled'
  <2>1. /\ row'.epoch = row.epoch /\ (row'.owned => row.owned)
        /\ link'.allowed = link.allowed
        /\ UNCHANGED <<target, preparation>>
        /\ pc = "physics"
    BY <1>2 DEF PhysicsStep, TypeOK
  <2> QED BY <2>1 DEF DriverIsSettled
<1>3. ASSUME Finish \/ Restart PROVE DriverIsSettled'
  BY <1>3 DEF Finish, Restart, DriverIsSettled
<1>4. CASE Save \/ UNCHANGED vars
  BY <1>4 DEF Save, vars, DriverIsSettled
<1> QED BY <1>1, <1>2, <1>3, <1>4 DEF Next

LEMMA BornClock ==
  ASSUME NEW birth \in Births
  PROVE  BornRecovery(birth).active =>
           /\ ~BornPreparation(birth).passive
           /\ BornRecovery(birth).elapsed = 0
           /\ BornPreparation(birth).frames = 0
           /\ BornPreparation(birth).elapsed = 0
           /\ 0 < PreparationLimit /\ 0 < RecoveryLimit
<1>1. BornRecovery(birth).active = Recovers(birth) /\ BornRecovery(birth).elapsed = 0
  BY DEF BornRecovery
<1>2. /\ BornPreparation(birth).passive = (birth = "ground")
      /\ BornPreparation(birth).frames = 0 /\ BornPreparation(birth).elapsed = 0
  BY DEF BornPreparation
<1>3. Recovers(birth) => birth # "ground"
  BY DEF Recovers
<1>4. 0 < PreparationLimit /\ 0 < RecoveryLimit
  BY IntervalAssumption
<1> QED BY <1>1, <1>2, <1>3, <1>4

LEMMA ClockInit == Init => RecoveryClock
<1> SUFFICES ASSUME Init PROVE RecoveryClock
  OBVIOUS
<1>1. PICK birth \in Births :
        /\ tick = 0 /\ pc = "decide" /\ history.born = 0
        /\ preparation = BornPreparation(birth) /\ recovery = BornRecovery(birth)
  BY InitFields
<1> QED BY <1>1, BornClock, IntervalAssumption DEF RecoveryClock, One

(* An interval of the preparation counts one frame and one second of its   *)
(* limit; an interval of the recovery that is nobody's is a failure, so    *)
(* each interval that goes on counts against one of the two limits.        *)
LEMMA ClockGoOn ==
  ASSUME TypeOK, DriverIsSettled, RecoveryClock, pc = "finish",
         pc' = "decide", tick' = tick + 1,
         NEW terminated \in BOOLEAN, NEW admitted \in BOOLEAN,
         NEW ready \in BOOLEAN, GoOn(terminated, admitted, ready),
         ~terminated, target.source = "policy" => row.owned,
         ~PreparationLate(admitted), ~RecoveryTimeout(terminated, ready)
  PROVE  RecoveryClock'
<1> DEFINE r == FinishedRecovery(terminated, ready)
<1>1. /\ preparation'.active = (preparation.active /\ ~Handed(admitted))
      /\ preparation'.passive = (preparation.passive /\ ~Released)
      /\ preparation'.frames = Frames
      /\ preparation'.elapsed = preparation.elapsed
      /\ history'.born = history.born
      /\ recovery' = r
  BY GoOnFields
<1>2. /\ r.active => recovery.active /\ ~RecoveryHandoff(terminated, ready)
      /\ r.elapsed = recovery.elapsed + One(Eligible(terminated))
  BY DEF FinishedRecovery, TypeOK
<1>3. /\ tick \in Nat /\ history.born \in Nat /\ recovery.elapsed \in Nat
      /\ preparation.frames \in Nat /\ preparation.elapsed \in Nat
      /\ preparation.active \in BOOLEAN
  BY DEF TypeOK
<1>4. PreparationLimit \in Nat /\ RecoveryLimit \in Nat
  BY IntervalAssumption
<1> HIDE DEF r
<1>5. CASE ~r.active
  BY <1>1, <1>5 DEF RecoveryClock
<1>6. CASE r.active /\ preparation.active
  <2>1. /\ ~preparation.passive
        /\ recovery.elapsed = 0
        /\ tick = history.born + preparation.frames
        /\ preparation.frames < PreparationLimit
        /\ preparation.elapsed = preparation.frames + 1
    BY <1>2, <1>6 DEF RecoveryClock, One
  <2>2. ~row.owned /\ ~Eligible(terminated) /\ r.elapsed = 0
    BY <1>2, <1>6, <2>1 DEF DriverIsSettled, Eligible, One
  <2>3. Frames = preparation.frames + 1
    BY <1>6 DEF Frames
  <2>4. CASE Handed(admitted)
    BY <1>1, <1>3, <1>4, <2>1, <2>2, <2>4, IntervalAssumption DEF RecoveryClock
  <2>5. CASE ~Handed(admitted)
    <3>1. preparation.frames + 1 < PreparationLimit
      BY <1>3, <1>4, <1>6, <2>1, <2>5 DEF PreparationLate
    <3>2. preparation'.active /\ ~preparation'.passive
      BY <1>1, <1>6, <2>1, <2>5
    <3>3. tick + 1 = history.born + (preparation.frames + 1)
      BY <1>3, <2>1
    <3>4. One(pc' # "decide") = 0
      BY DEF One
    <3> QED BY <1>1, <1>3, <2>1, <2>2, <2>3, <3>1, <3>2, <3>3, <3>4 DEF RecoveryClock
  <2> QED BY <2>4, <2>5
<1>7. CASE r.active /\ ~preparation.active
  <2>1. /\ tick <= history.born + PreparationLimit + recovery.elapsed
        /\ recovery.elapsed < RecoveryLimit /\ recovery.active
    BY <1>2, <1>7 DEF RecoveryClock
  <2>2. row.owned
    BY <1>7 DEF DriverIsSettled
  <2>3. Eligible(terminated)
    BY <2>1, <2>2 DEF Eligible
  <2>4. recovery.elapsed + 1 < RecoveryLimit /\ r.elapsed = recovery.elapsed + 1
    BY <1>2, <1>3, <1>4, <1>7, <2>3 DEF RecoveryTimeout, One
  <2> QED BY <1>1, <1>3, <1>4, <1>7, <2>1, <2>4 DEF RecoveryClock
<1> QED BY <1>3, <1>5, <1>6, <1>7

LEMMA ClockStep ==
  TypeOK /\ DriverIsSettled /\ RecoveryClock /\ [Next]_vars => RecoveryClock'
<1> SUFFICES ASSUME TypeOK, DriverIsSettled, RecoveryClock, [Next]_vars
             PROVE  RecoveryClock'
  OBVIOUS
<1>1. ASSUME Decide PROVE RecoveryClock'
  <2>1. /\ preparation'.active = preparation.active
        /\ preparation'.passive = preparation.passive
        /\ preparation'.frames = preparation.frames
        /\ preparation.active => preparation'.elapsed = preparation.elapsed + 1
        /\ pc = "decide" /\ pc' = "physics"
        /\ UNCHANGED <<tick, recovery, history>>
    BY <1>1 DEF Decide, TypeOK
  <2>2. preparation.elapsed \in Nat /\ preparation.frames \in Nat
    BY DEF TypeOK
  <2> QED BY <2>1, <2>2 DEF RecoveryClock, One
<1>2. ASSUME PhysicsStep PROVE RecoveryClock'
  <2>1. /\ recovery'.active = recovery.active /\ recovery'.elapsed = recovery.elapsed
        /\ UNCHANGED <<tick, preparation, history>>
        /\ pc # "decide" /\ pc' # "decide"
    BY <1>2 DEF PhysicsStep, TypeOK
  <2> QED BY <2>1 DEF RecoveryClock
<1>3. ASSUME Finish PROVE RecoveryClock'
  <2> PICK terminated \in BOOLEAN, admitted \in BOOLEAN, ready \in BOOLEAN :
        \/ /\ GoOn(terminated, admitted, ready)
           /\ ~terminated
           /\ target.source = "policy" => row.owned
           /\ ~PreparationLate(admitted)
           /\ ~RecoveryTimeout(terminated, ready)
        \/ StartAgain(terminated, ready)
    BY <1>3, FinishCases
  <2>1. pc = "finish" /\ pc' = "decide" /\ tick' = tick + 1
    BY <1>3, FinishCases
  <2>2. CASE StartAgain(terminated, ready)
    <3>1. PICK birth \in Births :
            /\ preparation' = BornPreparation(birth)
            /\ recovery' = BornRecovery(birth)
            /\ history'.born = tick + 1
      BY <2>2, StartFields
    <3>2. tick \in Nat
      BY DEF TypeOK
    <3> QED BY <2>1, <3>1, <3>2, BornClock, IntervalAssumption DEF RecoveryClock, One
  <2> QED BY <2>1, <2>2, ClockGoOn
<1>4. ASSUME Restart PROVE RecoveryClock'
  <2>1. PICK birth \in Births :
          /\ tick' = 0 /\ pc' = "decide" /\ history'.born = 0
          /\ preparation' = BornPreparation(birth) /\ recovery' = BornRecovery(birth)
    BY <1>4, RestartFields
  <2> QED BY <2>1, BornClock, IntervalAssumption DEF RecoveryClock, One
<1>5. CASE Save \/ UNCHANGED vars
  BY <1>5 DEF Save, vars, RecoveryClock
<1> QED BY <1>1, <1>2, <1>3, <1>4, <1>5 DEF Next

(* A lying robot is never left alone for longer than its two limits.       *)
THEOREM RecoveryEnds == Spec => []RecoveryIsBounded
<1>1. TypeOK /\ RecoveryClock => RecoveryIsBounded
  <2> SUFFICES ASSUME TypeOK, RecoveryClock, recovery.active
               PROVE  tick - history.born < PreparationLimit + RecoveryLimit
    BY DEF RecoveryIsBounded
  <2>1. /\ tick \in Nat /\ history.born \in Nat /\ recovery.elapsed \in Nat
        /\ preparation.frames \in Nat /\ preparation.active \in BOOLEAN
    BY DEF TypeOK
  <2> QED BY <2>1, IntervalAssumption DEF RecoveryClock
<1>2. Init => DriverIsSettled /\ RecoveryClock
  BY DriverInit, ClockInit
<1> QED BY <1>1, <1>2, DriverStep, ClockStep, TypeCorrect, PTL DEF Spec

------------------------------------------------------------------------------
(* The clocks *)

LEMMA ClocksInit == Init => ClocksAgree
BY InitFields DEF ClocksAgree, Init

LEMMA ClocksStep == TypeOK /\ ClocksAgree /\ [Next]_vars => ClocksAgree'
<1> SUFFICES ASSUME TypeOK, ClocksAgree, [Next]_vars PROVE ClocksAgree'
  OBVIOUS
<1>0. /\ tick \in Nat /\ history.since \in Nat /\ history.born \in Nat
      /\ saved.lost \in Nat /\ history.lost \in Nat /\ recovery.active \in BOOLEAN
  BY DEF TypeOK
<1>1. ASSUME Decide PROVE ClocksAgree'
  BY <1>1 DEF Decide, ClocksAgree
<1>2. ASSUME PhysicsStep PROVE ClocksAgree'
  BY <1>2 DEF PhysicsStep, ClocksAgree
<1>3. ASSUME Finish PROVE ClocksAgree'
  <2>1. /\ tick' = tick + 1 /\ torque' = {} /\ UNCHANGED saved
    BY <1>3 DEF Finish
  <2> PICK terminated \in BOOLEAN, admitted \in BOOLEAN, ready \in BOOLEAN :
        \/ GoOn(terminated, admitted, ready)
        \/ StartAgain(terminated, ready)
    BY <1>3, FinishCases
  <2>2. \/ history'.since = tick + 1 /\ history'.born \in {history.born, tick + 1}
        \/ history'.since = history.since /\ history'.born = history.born
    BY GoOnFields, StartFields
  <2> QED BY <1>0, <2>1, <2>2 DEF ClocksAgree
<1>4. ASSUME Save PROVE ClocksAgree'
  <2>1. UNCHANGED <<tick, pc, torque, history>>
    BY <1>4 DEF Save
  <2>2. saved'.lost = history.lost + One(recovery.active)
    BY <1>4 DEF Save
  <2> QED BY <1>0, <2>1, <2>2 DEF ClocksAgree, One
<1>5. ASSUME Restart PROVE ClocksAgree'
  <2>1. UNCHANGED saved
    BY <1>5 DEF Restart
  <2>2. tick' = 0 /\ torque' = {} /\ history'.since = 0 /\ history'.born = 0
    BY <1>5, RestartFields
  <2> QED BY <1>0, <2>1, <2>2 DEF ClocksAgree
<1>6. CASE UNCHANGED vars
  BY <1>6 DEF vars, ClocksAgree
<1> QED BY <1>1, <1>2, <1>3, <1>4, <1>5, <1>6 DEF Next

------------------------------------------------------------------------------
(* The latch *)

LEMMA LatchInit == Init => LatchHoldsLastTarget
BY InitFields DEF LatchHoldsLastTarget

LEMMA TargetIs ==
  ASSUME NEW t \in Targets, NEW e, NEW src, NEW a, NEW s,
         t.epoch = e, t.source = src, Packet(t.action, t.stamp) = Packet(a, s)
  PROVE  t = Target(e, src, Packet(a, s))
<1>1. t.action = a /\ t.stamp = s
  BY DEF Packet
<1> QED BY <1>1 DEF Target, Targets, Packet

LEMMA LatchDecide ==
  ASSUME TypeOK, ClocksAgree, LatchHoldsLastTarget, Decide
  PROVE  LatchHoldsLastTarget'
<1> SUFFICES ASSUME device' = "latch" PROVE LatchHoldsLastTarget'
  BY DEF LatchHoldsLastTarget
<1>1. device = "latch" /\ pc = "decide" /\ pc' = "physics"
  BY DEF Decide
<1>2. /\ preparation'.active = preparation.active
      /\ row'.epoch = row.epoch
      /\ heldTarget' = target
      /\ UNCHANGED <<tick, history>>
  BY DEF Decide, TypeOK
<1>3. latch'.held = ~preparation.active
  BY <1>1 DEF Decide, TypeOK
<1>4. latch'.active = (latch.held /\ ~preparation.active)
  BY <1>1 DEF Decide, TypeOK
<1>5. ~preparation.active => target' = Target(row.epoch, "policy", Packet(tick, tick))
  BY <1>1 DEF Decide
<1>6. /\ latch.held => /\ history.since < tick
                       /\ target = Target(row.epoch, "policy", Packet(tick - 1, tick - 1))
      /\ ~latch.held /\ ~preparation.active => history.since = tick
  BY <1>1 DEF LatchHoldsLastTarget
<1>7. /\ tick \in Nat /\ history.since \in Nat /\ latch.held \in BOOLEAN
      /\ preparation.active \in BOOLEAN
  BY DEF TypeOK
<1>8. ~preparation.active =>
        /\ Packet(target'.action, target'.stamp) = Packet(tick, tick)
        /\ latch'.active = (tick > history.since)
  <2>1. ~preparation.active => Packet(target'.action, target'.stamp) = Packet(tick, tick)
    BY <1>5 DEF Target, Packet
  <2>2. ~preparation.active => latch'.active = (tick > history.since)
    BY <1>4, <1>6, <1>7
  <2> QED BY <2>1, <2>2
<1>9. latch'.active => /\ ~preparation.active
                      /\ heldTarget' = Target(row.epoch, "policy", Packet(tick - 1, tick - 1))
  BY <1>2, <1>4, <1>6
<1> QED BY <1>1, <1>2, <1>3, <1>8, <1>9 DEF LatchHoldsLastTarget

LEMMA LatchGoOn ==
  ASSUME TypeOK, ClocksAgree, DriverIsSettled, LatchHoldsLastTarget,
         pc = "finish", pc' = "decide", tick' = tick + 1, UNCHANGED device,
         NEW terminated \in BOOLEAN, NEW admitted \in BOOLEAN,
         NEW ready \in BOOLEAN, GoOn(terminated, admitted, ready)
  PROVE  LatchHoldsLastTarget'
<1> SUFFICES ASSUME device = "latch" PROVE LatchHoldsLastTarget'
  BY DEF LatchHoldsLastTarget
<1>1. /\ preparation'.active = (preparation.active /\ ~Handed(admitted))
      /\ row'.epoch = row.epoch + One(Handed(admitted))
      /\ history'.since = IF Handed(admitted) THEN tick + 1 ELSE history.since
      /\ UNCHANGED <<latch, target>>
  BY GoOnFields
<1>2. /\ latch.held = ~preparation.active
      /\ ~preparation.active => Packet(target.action, target.stamp) = Packet(tick, tick)
  BY DEF LatchHoldsLastTarget
<1>3. /\ tick \in Nat /\ history.since \in Nat /\ history.since <= tick
      /\ row.epoch \in Nat /\ latch.held \in BOOLEAN /\ preparation.active \in BOOLEAN
  BY DEF TypeOK, ClocksAgree
<1>4. CASE latch.held
  <2>1. ~preparation.active /\ ~Handed(admitted)
    BY <1>2, <1>3, <1>4, HandedActive
  <2>2. /\ ~preparation'.active
        /\ row'.epoch = row.epoch /\ history'.since = history.since
    BY <1>1, <1>3, <2>1 DEF One
  <2>3. target = Target(row.epoch, "policy", Packet(tick, tick))
    <3>1. target.epoch = row.epoch /\ target.source = "policy" /\ target \in Targets
      BY <2>1 DEF DriverIsSettled, TypeOK
    <3> QED BY <1>2, <2>1, <3>1, TargetIs
  <2>4. tick' - 1 = tick /\ history.since < tick'
    BY <1>3
  <2> QED BY <1>1, <1>4, <2>2, <2>3, <2>4 DEF LatchHoldsLastTarget
<1>5. CASE ~latch.held
  <2>1. preparation.active
    BY <1>2, <1>3, <1>5
  <2>2. ~preparation'.active => history'.since = tick + 1
    BY <1>1, <2>1
  <2> QED BY <1>1, <1>5, <2>2 DEF LatchHoldsLastTarget
<1> QED BY <1>4, <1>5

LEMMA LatchStep ==
  TypeOK /\ ClocksAgree /\ DriverIsSettled /\ LatchHoldsLastTarget /\ [Next]_vars
    => LatchHoldsLastTarget'
<1> SUFFICES ASSUME TypeOK, ClocksAgree, DriverIsSettled, LatchHoldsLastTarget, [Next]_vars
             PROVE  LatchHoldsLastTarget'
  OBVIOUS
<1>1. ASSUME PhysicsStep PROVE LatchHoldsLastTarget'
  <2>1. /\ row'.epoch = row.epoch
        /\ pc = "physics" /\ pc' # "decide"
        /\ UNCHANGED <<tick, device, latch, target, heldTarget, preparation, history>>
    BY <1>1 DEF PhysicsStep, TypeOK
  <2> QED BY <2>1 DEF LatchHoldsLastTarget
<1>2. ASSUME Finish PROVE LatchHoldsLastTarget'
  <2>1. pc = "finish" /\ pc' = "decide" /\ tick' = tick + 1 /\ UNCHANGED device
    BY <1>2, FinishCases
  <2> PICK terminated \in BOOLEAN, admitted \in BOOLEAN, ready \in BOOLEAN :
        \/ GoOn(terminated, admitted, ready)
        \/ StartAgain(terminated, ready)
    BY <1>2, FinishCases
  <2>2. CASE StartAgain(terminated, ready)
    BY <2>1, <2>2, StartFields DEF LatchHoldsLastTarget
  <2> QED BY <2>1, <2>2, LatchGoOn
<1>3. ASSUME Restart PROVE LatchHoldsLastTarget'
  BY <1>3, RestartFields DEF LatchHoldsLastTarget
<1>4. CASE Save \/ UNCHANGED vars
  BY <1>4 DEF Save, vars, LatchHoldsLastTarget
<1> QED BY <1>1, <1>2, <1>3, <1>4, LatchDecide DEF Next

------------------------------------------------------------------------------
(* The ring *)

(* What the ring gives for every lag.                                      *)
DelayLine(t, last) ==
  \A d \in Slots : t.ring[Back(t.index, d)] = Expected(last - d)

LEMMA RingInit == Init => RingIsDelayLine
BY InitFields DEF RingIsDelayLine

(* Storing the packet of this interval keeps the line one, whether it      *)
(* went on or began anew.                                                  *)
LEMMA DelayLineGoesOn ==
  ASSUME TypeOK, ClocksAgree, ~preparation.active,
         \/ transport.allowed /\ history.since <= tick - 1 /\ DelayLine(transport, tick - 1)
         \/ ~transport.allowed /\ history.since = tick
  PROVE  DelayLine(Transported(transport, TRUE), tick)
<1> DEFINE moved == Transported(transport, TRUE)
           blocked == ~transport.allowed
           ring == IF blocked THEN [s \in Slots |-> Packet(Neutral, tick)] ELSE transport.ring
           index == Following(transport.index)
<1>1. /\ transport.index \in Slots /\ transport.ring \in [Slots -> Packets]
      /\ tick \in Nat /\ history.since \in Nat /\ history.since <= tick
      /\ transport.allowed \in BOOLEAN
  BY DEF TypeOK, ClocksAgree
<1>2. index \in Slots
  BY <1>1, BackInSlots
<1>3. moved.index = index /\ moved.ring = [ring EXCEPT ![index] = Packet(tick, tick)]
  BY DEF Transported
<1>4. DOMAIN ring = Slots
  BY <1>1
<1>5. SUFFICES ASSUME NEW d \in Slots PROVE moved.ring[Back(index, d)] = Expected(tick - d)
  BY <1>3 DEF DelayLine
<1>6. d \in Nat
  BY IntervalAssumption DEF Slots
<1> HIDE DEF moved, index
<1>7. CASE d = 0
  <2>1. Back(index, d) = index
    BY <1>1, <1>5, <1>7, BackFromFollowing DEF index
  <2>2. moved.ring[index] = Packet(tick, tick)
    <3> HIDE DEF ring
    <3> QED BY <1>2, <1>3, <1>4
  <2> QED BY <1>1, <1>7, <2>1, <2>2 DEF Expected
<1>8. CASE d # 0
  <2>1. /\ Back(index, d) # index /\ d - 1 \in Slots
        /\ Back(index, d) = Back(transport.index, d - 1)
    BY <1>1, <1>5, <1>8, BackFromFollowing DEF index
  <2>2. Back(transport.index, d - 1) \in Slots
    BY <1>1, <2>1, BackInSlots
  <2>3. moved.ring[Back(index, d)] = ring[Back(transport.index, d - 1)]
    <3> HIDE DEF ring
    <3> QED BY <1>2, <1>3, <1>4, <2>1, <2>2
  <2>4. CASE blocked
    <3>1. ring[Back(transport.index, d - 1)] = Packet(Neutral, tick)
      BY <2>2, <2>4
    <3>2. ~(tick - d >= history.since) /\ history.since = tick
      BY <1>1, <1>6, <1>8, <2>4
    <3> QED BY <2>3, <3>1, <3>2 DEF Expected
  <2>5. CASE ~blocked
    <3>1. transport.ring[Back(transport.index, d - 1)] = Expected((tick - 1) - (d - 1))
      BY <2>1, <2>5 DEF DelayLine
    <3>2. (tick - 1) - (d - 1) = tick - d
      BY <1>1, <1>6
    <3> QED BY <2>3, <2>5, <3>1, <3>2
  <2> QED BY <2>4, <2>5
<1> QED BY <1>7, <1>8

LEMMA RingDecide ==
  ASSUME TypeOK, ClocksAgree, RingIsDelayLine, Decide
  PROVE  RingIsDelayLine'
<1> SUFFICES ASSUME device = "transport" PROVE RingIsDelayLine'
  BY DEF RingIsDelayLine, Decide
<1>1. pc = "decide" /\ pc' = "physics"
  BY DEF Decide
<1>2. /\ preparation'.active = preparation.active
      /\ UNCHANGED <<tick, history, device, latch>>
  BY DEF Decide, TypeOK
<1>3. /\ ~latch.active
      /\ transport.allowed => /\ ~preparation.active
                             /\ history.since <= tick - 1
                             /\ DelayLine(transport, tick - 1)
      /\ ~transport.allowed /\ ~preparation.active => history.since = tick
  BY <1>1 DEF RingIsDelayLine, DelayLine, Last
<1>4. transport.allowed \in BOOLEAN /\ preparation.active \in BOOLEAN
  BY DEF TypeOK
<1>5. CASE preparation.active
  <2>1. transport' = Transported(transport, FALSE)
    BY <1>4, <1>5 DEF Decide
  <2>2. ~transport'.allowed
    BY <2>1, TransportedType
  <2> QED BY <1>1, <1>2, <1>3, <1>5, <2>2 DEF RingIsDelayLine
<1>6. CASE ~preparation.active
  <2>1. transport' = Transported(transport, TRUE)
    BY <1>4, <1>6 DEF Decide
  <2>2. transport'.allowed /\ transport'.lag \in Slots
    BY <2>1, TransportedType DEF TypeOK
  <2>3. DelayLine(Transported(transport, TRUE), tick)
    BY <1>3, <1>4, <1>6, DelayLineGoesOn
  <2>4. \A d \in Slots : transport'.ring[Back(transport'.index, d)] = Expected(tick - d)
    BY <2>1, <2>3 DEF DelayLine
  <2>5. Packet(target'.action, target'.stamp) = Expected(tick - transport'.lag)
    <3>1. target' = Target(row.epoch, "policy", Arrived(transport'))
      BY <1>4, <1>6, <2>1 DEF Decide
    <3>2. Arrived(transport') = Expected(tick - transport'.lag)
      BY <2>2, <2>4 DEF Arrived
    <3>3. \E a, s : Expected(tick - transport'.lag) = Packet(a, s)
      BY DEF Expected
    <3> QED BY <3>1, <3>2, <3>3 DEF Target, Packet
  <2>6. Last' = tick /\ history'.since <= Last' /\ tick' = tick
    BY <1>1, <1>2 DEF Last, ClocksAgree
  <2>7. \A d \in Slots : (transport.ring[Back(transport.index, d)] = Expected(Last - d))'
    BY <2>4, <2>6, <1>2 DEF Expected
  <2>8. (Packet(target.action, target.stamp) = Expected(tick - transport.lag))'
    BY <2>5, <1>2 DEF Expected
  <2> QED BY <1>1, <1>2, <1>3, <1>6, <2>2, <2>6, <2>7, <2>8 DEF RingIsDelayLine
<1> QED BY <1>4, <1>5, <1>6

LEMMA RingGoOn ==
  ASSUME TypeOK, ClocksAgree, RingIsDelayLine,
         pc = "finish", pc' = "decide", tick' = tick + 1, UNCHANGED device,
         NEW terminated \in BOOLEAN, NEW admitted \in BOOLEAN,
         NEW ready \in BOOLEAN, GoOn(terminated, admitted, ready)
  PROVE  RingIsDelayLine'
<1> SUFFICES ASSUME device = "transport" PROVE RingIsDelayLine'
  BY DEF RingIsDelayLine
<1>1. /\ preparation'.active = (preparation.active /\ ~Handed(admitted))
      /\ history'.since = IF Handed(admitted) THEN tick + 1 ELSE history.since
      /\ UNCHANGED <<transport, latch>>
  BY GoOnFields
<1>2. tick \in Nat /\ transport.allowed \in BOOLEAN /\ preparation.active \in BOOLEAN
  BY DEF TypeOK
<1>3. Last' = tick /\ Last = tick
  BY <1>2 DEF Last
<1>4. CASE transport.allowed
  <2>1. ~preparation.active /\ ~Handed(admitted)
    BY <1>4, HandedActive DEF RingIsDelayLine
  <2>2. ~preparation'.active /\ history'.since = history.since
    BY <1>1, <2>1
  <2>3. \A d \in Slots : (transport.ring[Back(transport.index, d)] = Expected(Last - d))'
    BY <1>1, <1>3, <1>4, <2>2 DEF Expected, RingIsDelayLine
  <2> QED BY <1>1, <1>3, <1>4, <2>2, <2>3 DEF RingIsDelayLine
<1>5. CASE ~transport.allowed
  <2>1. preparation.active
    BY <1>5 DEF RingIsDelayLine
  <2>2. ~preparation'.active => history'.since = tick + 1
    BY <1>1, <2>1
  <2> QED BY <1>1, <1>5, <2>2 DEF RingIsDelayLine
<1> QED BY <1>2, <1>4, <1>5

LEMMA RingStep ==
  TypeOK /\ ClocksAgree /\ RingIsDelayLine /\ [Next]_vars => RingIsDelayLine'
<1> SUFFICES ASSUME TypeOK, ClocksAgree, RingIsDelayLine, [Next]_vars
             PROVE  RingIsDelayLine'
  OBVIOUS
<1>1. ASSUME PhysicsStep PROVE RingIsDelayLine'
  <2>1. /\ pc = "physics" /\ pc' # "decide"
        /\ UNCHANGED <<tick, device, latch, transport, target, preparation, history>>
    BY <1>1 DEF PhysicsStep, TypeOK
  <2> QED BY <2>1 DEF RingIsDelayLine, Last, Expected
<1>2. ASSUME Finish PROVE RingIsDelayLine'
  <2>1. pc = "finish" /\ pc' = "decide" /\ tick' = tick + 1 /\ UNCHANGED device
    BY <1>2, FinishCases
  <2> PICK terminated \in BOOLEAN, admitted \in BOOLEAN, ready \in BOOLEAN :
        \/ GoOn(terminated, admitted, ready)
        \/ StartAgain(terminated, ready)
    BY <1>2, FinishCases
  <2>2. CASE StartAgain(terminated, ready)
    BY <2>1, <2>2, StartFields DEF RingIsDelayLine
  <2> QED BY <2>1, <2>2, RingGoOn
<1>3. ASSUME Restart PROVE RingIsDelayLine'
  BY <1>3, RestartFields DEF RingIsDelayLine
<1>4. CASE Save \/ UNCHANGED vars
  BY <1>4 DEF Save, vars, RingIsDelayLine, Last, Expected
<1> QED BY <1>1, <1>2, <1>3, <1>4, RingDecide DEF Next

------------------------------------------------------------------------------
(* The downlink *)

(* What a physics step asks for comes from this epoch's driver: the latch  *)
(* holds nothing else.                                                     *)
LEMMA RequestedIsOurs ==
  ASSUME TypeOK, DriverIsSettled, RingIsDelayLine, LatchHoldsLastTarget, pc = "physics"
  PROVE  OfThisEpoch(Requested)
<1>1. /\ target.epoch = row.epoch
      /\ target.source = IF preparation.active THEN "script" ELSE "policy"
  BY DEF DriverIsSettled
<1>2. Lagging => /\ ~preparation.active
                 /\ heldTarget.epoch = row.epoch /\ heldTarget.source = "policy"
  <2>1. Lagging => /\ ~preparation.active
                   /\ heldTarget = Target(row.epoch, "policy", Packet(tick - 1, tick - 1))
    BY DEF Lagging, RingIsDelayLine, LatchHoldsLastTarget, TypeOK
  <2> QED BY <2>1 DEF Target
<1> QED BY <1>1, <1>2 DEF Requested, OfThisEpoch

LEMMA LinkStep ==
  /\ TypeOK /\ DriverIsSettled /\ RingIsDelayLine /\ LatchHoldsLastTarget
  /\ LinkHoldsThisEpoch /\ [Next]_vars
  => LinkHoldsThisEpoch'
<1> SUFFICES ASSUME TypeOK, DriverIsSettled, RingIsDelayLine, LatchHoldsLastTarget,
                    LinkHoldsThisEpoch, [Next]_vars
             PROVE  LinkHoldsThisEpoch'
  OBVIOUS
<1>1. ASSUME Decide PROVE LinkHoldsThisEpoch'
  <2>1. /\ preparation'.active = preparation.active /\ row'.epoch = row.epoch
        /\ torque' = {}
    BY <1>1 DEF Decide, TypeOK
  <2>2. CASE link.allowed = ~preparation.active
    <3>1. link'.effort = link.effort
      BY <1>1, <2>2 DEF Decide, TypeOK
    <3> QED BY <2>1, <2>2, <3>1 DEF LinkHoldsThisEpoch, OfThisEpoch
  <2>3. CASE link.allowed # ~preparation.active
    <3>1. link'.effort = Nothing
      BY <1>1, <2>3 DEF Decide, Flushed, TypeOK
    <3> QED BY <2>1, <3>1 DEF LinkHoldsThisEpoch, OfThisEpoch
  <2> QED BY <2>2, <2>3
<1>2. ASSUME PhysicsStep PROVE LinkHoldsThisEpoch'
  <2>1. /\ torque' = {link.effort, Requested}
        /\ link'.effort = Requested /\ row'.epoch = row.epoch
        /\ UNCHANGED preparation /\ pc = "physics"
    BY <1>2 DEF PhysicsStep, TypeOK
  <2>2. OfThisEpoch(link.effort)
    BY <2>1 DEF LinkHoldsThisEpoch, DriverIsSettled
  <2>3. OfThisEpoch(Requested)
    BY <2>1, RequestedIsOurs
  <2> QED BY <2>1, <2>2, <2>3 DEF LinkHoldsThisEpoch, OfThisEpoch
<1>3. ASSUME Finish PROVE LinkHoldsThisEpoch'
  <2>1. pc = "finish" /\ pc' = "decide"
    BY <1>3, FinishCases
  <2> PICK terminated \in BOOLEAN, admitted \in BOOLEAN, ready \in BOOLEAN :
        \/ GoOn(terminated, admitted, ready)
        \/ StartAgain(terminated, ready)
    BY <1>3, FinishCases
  <2>2. CASE StartAgain(terminated, ready)
    BY <2>1, <2>2, StartFields DEF LinkHoldsThisEpoch, OfThisEpoch
  <2>3. CASE GoOn(terminated, admitted, ready)
    <3>1. /\ link.allowed = ~preparation.active /\ OfThisEpoch(link.effort)
          /\ preparation.active \in BOOLEAN /\ row.epoch \in Nat
      BY <2>1 DEF DriverIsSettled, LinkHoldsThisEpoch, TypeOK
    <3>2. /\ preparation'.active = (preparation.active /\ ~Handed(admitted))
          /\ row'.epoch = row.epoch + One(Handed(admitted))
          /\ UNCHANGED link
      BY <2>3, GoOnFields
    <3>3. CASE Handed(admitted)
      BY <2>1, <3>1, <3>2, <3>3, HandedActive DEF LinkHoldsThisEpoch
    <3>4. CASE ~Handed(admitted)
      <4>1. preparation'.active = preparation.active /\ row'.epoch = row.epoch
        BY <3>1, <3>2, <3>4 DEF One
      <4> QED BY <2>1, <3>1, <3>2, <4>1 DEF LinkHoldsThisEpoch, OfThisEpoch
    <3> QED BY <3>3, <3>4
  <2> QED BY <2>2, <2>3
<1>4. ASSUME Restart PROVE LinkHoldsThisEpoch'
  BY <1>4, RestartFields DEF LinkHoldsThisEpoch, OfThisEpoch
<1>5. CASE Save \/ UNCHANGED vars
  BY <1>5 DEF Save, vars, LinkHoldsThisEpoch, OfThisEpoch
<1> QED BY <1>1, <1>2, <1>3, <1>4, <1>5 DEF Next

LEMMA LinkInit == Init => LinkHoldsThisEpoch
BY InitFields DEF LinkHoldsThisEpoch, OfThisEpoch

------------------------------------------------------------------------------
(* The age of an action *)

LEMMA ArrivalsPhysics ==
  ASSUME TypeOK, DriverIsSettled, RingIsDelayLine, LatchHoldsLastTarget, PhysicsStep
  PROVE  ArrivalsAreExact'
<1>1. /\ link'.effort = Requested /\ substep' = substep + 1 /\ pc = "physics"
      /\ UNCHANGED <<tick, device, latch, transport, history>>
  BY DEF PhysicsStep, TypeOK
<1>2. /\ tick \in Nat /\ history.since \in Nat /\ substep \in Nat /\ latch.lag \in Nat
      /\ latch.active \in BOOLEAN /\ preparation.active \in BOOLEAN
      /\ device \in {"transport", "latch"}
  BY DEF TypeOK
<1>3. SUFFICES ASSUME Requested.source = "policy"
               PROVE  Packet(Requested.action, Requested.stamp) = DelayedAction'
  BY <1>1 DEF ArrivalsAreExact
<1>4. Requested = IF Lagging THEN heldTarget ELSE target
  BY <1>3 DEF Requested, Nothing
<1>5. CASE Lagging
  <2>1. device = "latch" /\ latch.active /\ substep < latch.lag
    BY <1>2, <1>5 DEF Lagging, RingIsDelayLine
  <2>2. /\ heldTarget = Target(row.epoch, "policy", Packet(tick - 1, tick - 1))
        /\ tick > history.since
    BY <1>1, <1>2, <2>1 DEF LatchHoldsLastTarget
  <2>3. Packet(Requested.action, Requested.stamp) = Packet(tick - 1, tick - 1)
    BY <1>4, <1>5, <2>2 DEF Target, Packet
  <2>4. substep + 1 <= latch.lag
    BY <1>2, <2>1
  <2> QED BY <1>1, <2>1, <2>2, <2>3, <2>4 DEF DelayedAction
<1>6. CASE ~Lagging
  <2>1. ~preparation.active
    BY <1>1, <1>3, <1>4, <1>6 DEF DriverIsSettled
  <2>2. CASE device = "latch"
    <3>1. /\ Packet(target.action, target.stamp) = Packet(tick, tick)
          /\ latch.active = (tick > history.since)
      BY <1>1, <2>1, <2>2 DEF LatchHoldsLastTarget
    <3>2. ~(substep + 1 <= latch.lag /\ tick > history.since)
      <4>1. CASE tick > history.since
        <5>1. latch.active
          BY <3>1, <4>1
        <5>2. ~(substep < latch.lag)
          BY <1>6, <5>1 DEF Lagging
        <5> QED BY <1>2, <5>2
      <4>2. CASE ~(tick > history.since)
        BY <4>2
      <4> QED BY <4>1, <4>2
    <3>3. ~(substep' <= latch'.lag /\ tick' > history'.since)
      BY <1>1, <3>2
    <3>4. DelayedAction' = Packet(tick', tick')
      <4>1. device' = "latch"
        BY <1>1, <2>2
      <4> QED BY <3>3, <4>1, Zenon DEF DelayedAction
    <3>5. Requested = target /\ tick' = tick
      BY <1>1, <1>4, <1>6
    <3> QED BY <3>1, <3>4, <3>5
  <2>3. CASE device = "transport"
    <3>1. Packet(target.action, target.stamp) = Expected(tick - transport.lag)
      BY <1>1, <2>1, <2>3 DEF RingIsDelayLine
    <3> QED BY <1>1, <1>4, <1>6, <2>3, <3>1 DEF DelayedAction, Expected
  <2> QED BY <1>2, <2>2, <2>3
<1> QED BY <1>5, <1>6

LEMMA ArrivalsStep ==
  /\ TypeOK /\ DriverIsSettled /\ RingIsDelayLine /\ LatchHoldsLastTarget
  /\ ArrivalsAreExact /\ [Next]_vars
  => ArrivalsAreExact'
<1> SUFFICES ASSUME TypeOK, DriverIsSettled, RingIsDelayLine, LatchHoldsLastTarget,
                    ArrivalsAreExact, [Next]_vars
             PROVE  ArrivalsAreExact'
  OBVIOUS
<1>1. ASSUME Decide \/ Finish \/ Restart PROVE ArrivalsAreExact'
  <2>1. torque' = {}
    BY <1>1 DEF Decide, Finish, Restart
  <2> QED BY <2>1 DEF ArrivalsAreExact
<1>2. CASE Save \/ UNCHANGED vars
  BY <1>2 DEF Save, vars, ArrivalsAreExact, DelayedAction
<1> QED BY <1>1, <1>2, ArrivalsPhysics DEF Next

------------------------------------------------------------------------------
(* The inductive invariant, and the two promises it was made for *)

LEMMA Invariance == Spec => []IInv
<1>1. Init => IInv
  <2>1. Init => ArrivalsAreExact
    BY InitFields DEF ArrivalsAreExact
  <2> QED BY <2>1, TypeInit, ClocksInit, DriverInit, RingInit, LatchInit, LinkInit,
             BooksInit, ClockInit DEF IInv
<1>2. IInv /\ [Next]_vars => IInv'
  <2> SUFFICES ASSUME IInv, [Next]_vars PROVE IInv'
    OBVIOUS
  <2>1. /\ TypeOK /\ ClocksAgree /\ DriverIsSettled /\ RingIsDelayLine
        /\ LatchHoldsLastTarget /\ LinkHoldsThisEpoch /\ ArrivalsAreExact
        /\ BooksBalance /\ RecoveryClock
    BY DEF IInv
  <2> QED BY <2>1, TypeStep, ClocksStep, DriverStep, RingStep, LatchStep, LinkStep,
             ArrivalsStep, BooksStep, ClockStep DEF IInv
<1> QED BY <1>1, <1>2, PTL DEF Spec

(* Every action is as old as its recorded age and as the drawn lag, for    *)
(* every ring, every lag and every number of substeps.                     *)
THEOREM ActionsAreOnTime == Spec => []ArrivalsAreExact
<1>1. IInv => ArrivalsAreExact
  BY DEF IInv
<1> QED BY <1>1, Invariance, PTL

(* No torque of another epoch or of another driver moves the robot.        *)
THEOREM TorqueIsOurs == Spec => []TorqueStaysInEpoch
<1>1. IInv => TorqueStaysInEpoch
  <2> SUFFICES ASSUME IInv, NEW effort \in torque, effort # Nothing
               PROVE  effort.epoch = row.epoch /\ effort.source = target.source
    BY DEF TorqueStaysInEpoch
  <2>1. pc # "decide"
    BY DEF IInv, ClocksAgree
  <2> QED BY <2>1 DEF IInv, LinkHoldsThisEpoch, OfThisEpoch, DriverIsSettled
<1> QED BY <1>1, Invariance, PTL

=============================================================================
