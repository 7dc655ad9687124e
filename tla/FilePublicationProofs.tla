------------------------ MODULE FilePublicationProofs ------------------------
(***************************************************************************)
(* Proofs about FilePublication, for any publishers, names and contents.   *)
(*                                                                         *)
(* The files a publisher counts on are those it has linked and does not    *)
(* yet take back, or all of them once its marker stands.  Nobody else may  *)
(* be about to unlink one of them: another publisher gets there only from  *)
(* a name it owns itself, and an owned name changes hands only by being    *)
(* replaced.                                                               *)
(***************************************************************************)
EXTENDS FilePublication, TLAPS

CountsOn(p, i) ==
  \/ publisher[p].pc = "linking" /\ i <= publisher[p].n
  \/ publisher[p].pc \in {"rolling", "unlinking"} /\ i < publisher[p].n
  \/ file[Marker(p)] = p

Unlinking(p, n) == publisher[p].pc = "unlinking" /\ Contents[p][publisher[p].n] = n

(* The path may only be held by the publisher or a foreign writer, and no   *)
(* other publisher is about to unlink it.                                   *)
Held(p, n) ==
  /\ file[n] \in {p, Another}
  /\ \A q \in Publishers \ {p} : ~Unlinking(q, n)

CountedIsHeld ==
  \A p \in Publishers : \A i \in Indices(p) : CountsOn(p, i) => Held(p, Contents[p][i])

UnlinkingIsHeld ==
  \A p \in Publishers : publisher[p].pc = "unlinking" =>
    publisher[p].n > 0 /\ Held(p, Contents[p][publisher[p].n])

(* What a publisher owns lies among the links it has noted.                 *)
OwnedIsNoted ==
  \A p \in Publishers : \A n \in Names : file[n] = p =>
    \/ /\ publisher[p].pc \in {"linking", "rolling", "unlinking"}
       /\ \E i \in Indices(p) : i <= publisher[p].n /\ n = Contents[p][i]
    \/ publisher[p].pc \in {"published", "abandoned"}

Inv == TypeOK /\ CountedIsHeld /\ UnlinkingIsHeld /\ OwnedIsNoted

(* What the contents of a publication are made of.                          *)
LEMMA ContentsFacts ==
  ASSUME NEW p \in Publishers
  PROVE  /\ Len(Contents[p]) \in Nat \ {0}
         /\ \A i \in Indices(p) : Contents[p][i] \in Names
         /\ \A i, j \in Indices(p) : Contents[p][i] = Contents[p][j] => i = j
         /\ Len(Contents[p]) \in Indices(p)
         /\ Marker(p) \in Names
<1>1. Contents[p] \in Seq(Names)
  BY ContentsAssumption
<1>2. Len(Contents[p]) \in Nat \ {0}
  BY <1>1, ContentsAssumption
<1>3. \A i \in Indices(p) : Contents[p][i] \in Names
  BY <1>1, <1>2 DEF Indices
<1>4. Len(Contents[p]) \in Indices(p)
  BY <1>2 DEF Indices
<1>5. \A i, j \in Indices(p) : Contents[p][i] = Contents[p][j] => i = j
  BY ContentsAssumption DEF Indices
<1> QED
  BY <1>2, <1>3, <1>4, <1>5 DEF Marker

LEMMA InitInv == Init => Inv
<1> SUFFICES ASSUME Init PROVE Inv
  OBVIOUS
<1>1. TypeOK
  BY ContentsFacts DEF Init, TypeOK, Running
<1>2. \A p \in Publishers : \A i \in Indices(p) : ~CountsOn(p, i)
  BY ContentsFacts, OwnersAssumption DEF Init, CountsOn
<1>3. UnlinkingIsHeld
  BY DEF Init, UnlinkingIsHeld
<1>4. OwnedIsNoted
  BY OwnersAssumption DEF Init, OwnedIsNoted
<1> QED
  BY <1>1, <1>2, <1>3, <1>4 DEF Inv, CountedIsHeld

(* A step of p that touches no file keeps the invariant if p comes to count *)
(* on nothing new and starts no unlinking.                                  *)
LEMMA QuietStep ==
  ASSUME Inv, NEW p \in Publishers, UNCHANGED file,
         NEW pc \in Running \union {"idle", "published", "raised", "abandoned"}, NEW n \in Nat,
         n <= Len(Contents[p]), pc # "unlinking",
         Becomes(p, pc, n),
         \A i \in Indices(p) : CountsOn(p, i)' => CountsOn(p, i),
         \A m \in Names : file[m] = p =>
           \/ pc \in {"linking", "rolling"} /\ \E i \in Indices(p) : i <= n /\ m = Contents[p][i]
           \/ pc \in {"published", "abandoned"}
  PROVE  Inv'
<1>1. TypeOK'
  BY DEF Inv, TypeOK, Becomes
<1>2. \A q \in Publishers \ {p} : publisher'[q] = publisher[q]
  BY DEF Inv, TypeOK, Becomes
<1>3. publisher'[p].pc = pc /\ publisher'[p].n = n
  BY DEF Inv, TypeOK, Becomes
<1>4. \A q \in Publishers, m \in Names : Unlinking(q, m)' => Unlinking(q, m)
  BY <1>2, <1>3 DEF Unlinking
<1>5. \A q \in Publishers, m \in Names : Held(q, m) => Held(q, m)'
  BY <1>4 DEF Held
<1>6. \A q \in Publishers : \A i \in Indices(q) : CountsOn(q, i)' => CountsOn(q, i)
  BY <1>2 DEF CountsOn
<1>7. CountedIsHeld'
  BY <1>5, <1>6, ContentsFacts DEF Inv, CountedIsHeld
<1>8. UnlinkingIsHeld'
  <2> SUFFICES ASSUME NEW q \in Publishers, publisher'[q].pc = "unlinking"
               PROVE  publisher'[q].n > 0 /\ Held(q, Contents[q][publisher[q].n])'
    BY DEF UnlinkingIsHeld
  <2>1. q # p /\ publisher'[q] = publisher[q]
    BY <1>2, <1>3
  <2>2. publisher[q].n > 0 /\ Held(q, Contents[q][publisher[q].n])
    BY <2>1 DEF Inv, UnlinkingIsHeld
  <2>3. publisher[q].n \in Indices(q)
    BY <2>2 DEF Inv, TypeOK, Indices
  <2> QED
    BY <2>1, <2>2, <2>3, <1>5, ContentsFacts
<1>9. OwnedIsNoted'
  <2> SUFFICES ASSUME NEW q \in Publishers, NEW m \in Names, file'[m] = q
               PROVE  \/ /\ publisher'[q].pc \in {"linking", "rolling", "unlinking"}
                         /\ \E i \in Indices(q) : i <= publisher'[q].n /\ m = Contents[q][i]
                      \/ publisher'[q].pc \in {"published", "abandoned"}
    BY DEF OwnedIsNoted
  <2>1. CASE q = p
    BY <2>1, <1>3
  <2>2. CASE q # p
    BY <2>2, <1>2 DEF Inv, OwnedIsNoted
  <2> QED
    BY <2>1, <2>2
<1> QED
  BY <1>1, <1>7, <1>8, <1>9 DEF Inv

LEMMA LinkInv == ASSUME Inv, NEW p \in Publishers, Link(p) PROVE Inv'
<1>0. PICK k \in Nat \ {0}, name \in Names :
        k = publisher[p].n + 1 /\ k \in Indices(p) /\ name = Contents[p][k]
  <2>1. publisher[p].n + 1 \in Indices(p) /\ publisher[p].n + 1 \in Nat \ {0}
    BY ContentsFacts DEF Inv, TypeOK, Link, Indices
  <2> QED
    BY <2>1, ContentsFacts
<1>1. k \in Indices(p) /\ k - 1 = publisher[p].n /\ name = Contents[p][k]
  BY <1>0 DEF Inv, TypeOK
<1>2. CASE /\ file[name] = NoOne
           /\ file' = [file EXCEPT ![name] = p]
           /\ Becomes(p, "linking", k) \/ Becomes(p, "rolling", k)
  <2>1. file'[name] = p /\ \A m \in Names \ {name} : file'[m] = file[m]
    BY <1>1, <1>2 DEF Inv, TypeOK
  <2>2. \A q \in Publishers \ {p} : publisher'[q] = publisher[q]
    BY <1>2 DEF Inv, TypeOK, Becomes
  <2>3. publisher'[p].n = k /\ publisher'[p].pc \in {"linking", "rolling"}
    BY <1>2 DEF Inv, TypeOK, Becomes
  <2>4. \A q \in Publishers : ~Held(q, name)
    BY <1>2, OwnersAssumption DEF Held
  <2>5. \A q \in Publishers : ~Unlinking(q, name)
    BY <2>4 DEF Inv, UnlinkingIsHeld, Unlinking
  <2>6. \A q \in Publishers, m \in Names : Unlinking(q, m)' => Unlinking(q, m)
    BY <2>2, <2>3 DEF Unlinking
  <2>7. \A q \in Publishers, m \in Names : Held(q, m) => Held(q, m)'
    BY <2>1, <2>4, <2>6 DEF Held
  <2>8. Held(p, name)'
    BY <2>1, <2>5, <2>6, <1>1 DEF Held
  <2>9. TypeOK'
    <3>1. file' \in [Names -> Publishers \union {NoOne, Another}]
      BY <1>1, <1>2 DEF Inv, TypeOK
    <3>2. publisher' \in [Publishers ->
            [pc : Running \union {"idle", "published", "raised", "abandoned"}, n : Nat]]
      BY <1>0, <1>2 DEF Inv, TypeOK, Becomes, Running
    <3>3. \A q \in Publishers : publisher'[q].n <= Len(Contents[q])
      BY <2>2, <2>3, <1>1 DEF Inv, TypeOK, Indices
    <3> QED
      BY <3>1, <3>2, <3>3 DEF TypeOK
  <2>10. CountedIsHeld'
    <3> SUFFICES ASSUME NEW q \in Publishers, NEW i \in Indices(q), CountsOn(q, i)'
                 PROVE  Held(q, Contents[q][i])'
      BY DEF CountedIsHeld
    <3>1. CASE q = p /\ i = k
      BY <3>1, <2>8, <1>1
    <3>2. CASE q = p /\ i # k
      <4>1. CountsOn(p, i)
        <5>1. CASE file'[Marker(p)] = p
          <6>1. CASE name = Marker(p)
            <7>1. k = Len(Contents[p])
              BY <6>1, <1>1, ContentsFacts DEF Marker
            <7>2. i <= publisher[p].n
              BY <7>1, <3>2, <1>1 DEF Indices
            <7> QED
              BY <7>2 DEF CountsOn, Link
          <6>2. CASE name # Marker(p)
            BY <6>2, <5>1, <2>1, ContentsFacts DEF CountsOn
          <6> QED
            BY <6>1, <6>2
        <5>2. CASE file'[Marker(p)] # p
          <6>1. i <= k
            BY <5>2, <3>2, <2>3, <1>1 DEF CountsOn, Indices
          <6> QED
            BY <6>1, <3>2, <1>1 DEF CountsOn, Link, Indices
        <5> QED
          BY <5>1, <5>2
      <4> QED
        BY <4>1, <3>2, <2>7, ContentsFacts DEF Inv, CountedIsHeld
    <3>3. CASE q # p
      <4>1. file'[Marker(q)] = q => file[Marker(q)] = q
        BY <3>3, <2>1, ContentsFacts
      <4>2. CountsOn(q, i)
        BY <4>1, <3>3, <2>2 DEF CountsOn
      <4> QED
        BY <4>2, <2>7, ContentsFacts DEF Inv, CountedIsHeld
    <3> QED
      BY <3>1, <3>2, <3>3
  <2>11. UnlinkingIsHeld'
    <3> SUFFICES ASSUME NEW q \in Publishers, publisher'[q].pc = "unlinking"
                 PROVE  publisher'[q].n > 0 /\ Held(q, Contents[q][publisher[q].n])'
      BY DEF UnlinkingIsHeld
    <3>1. q # p /\ publisher'[q] = publisher[q]
      BY <2>2, <2>3
    <3>2. publisher[q].n > 0 /\ Held(q, Contents[q][publisher[q].n])
      BY <3>1 DEF Inv, UnlinkingIsHeld
    <3>3. publisher[q].n \in Indices(q)
      BY <3>2 DEF Inv, TypeOK, Indices
    <3> QED
      BY <3>1, <3>2, <3>3, <2>7, ContentsFacts
  <2>12. OwnedIsNoted'
    <3> SUFFICES ASSUME NEW q \in Publishers, NEW m \in Names, file'[m] = q
                 PROVE  \/ /\ publisher'[q].pc \in {"linking", "rolling", "unlinking"}
                           /\ \E i \in Indices(q) : i <= publisher'[q].n /\ m = Contents[q][i]
                        \/ publisher'[q].pc \in {"published", "abandoned"}
      BY DEF OwnedIsNoted
    <3>1. CASE q # p
      BY <3>1, <2>1, <2>2 DEF Inv, OwnedIsNoted
    <3>2. CASE q = p /\ m = name
      BY <3>2, <2>3, <1>1
    <3>3. CASE q = p /\ m # name
      <4>1. file[m] = p
        BY <3>3, <2>1
      <4>2. PICK i \in Indices(p) : i <= publisher[p].n /\ m = Contents[p][i]
        BY <4>1 DEF Inv, OwnedIsNoted, Link
      <4>3. i <= k
        BY <4>2, <1>1 DEF Indices
      <4> QED
        BY <3>3, <4>2, <4>3, <2>3
    <3> QED
      BY <3>1, <3>2, <3>3
  <2> QED
    BY <2>9, <2>10, <2>11, <2>12 DEF Inv
<1>3. CASE Becomes(p, "rolling", k) /\ UNCHANGED file
  <2>1. publisher'[p].pc = "rolling" /\ publisher'[p].n = k
    BY <1>3 DEF Inv, TypeOK, Becomes
  <2>2. \A i \in Indices(p) : CountsOn(p, i)' => CountsOn(p, i)
    BY <2>1, <1>1, <1>3 DEF CountsOn, Link, Indices
  <2>3. ASSUME NEW m \in Names, file[m] = p
        PROVE  \E i \in Indices(p) : i <= k /\ m = Contents[p][i]
    <3>1. PICK i \in Indices(p) : i <= publisher[p].n /\ m = Contents[p][i]
      BY <2>3 DEF Inv, OwnedIsNoted, Link
    <3>2. i <= k
      BY <3>1, <1>1 DEF Indices
    <3> QED
      BY <3>1, <3>2
  <2>4. k <= Len(Contents[p])
    BY <1>1 DEF Indices
  <2> QED
    BY <1>1, <1>3, <2>2, <2>3, <2>4, QuietStep DEF Running
<1> QED
  BY <1>0, <1>2, <1>3 DEF Link, Destination, Noted

LEMMA UnlinkInv == ASSUME Inv, NEW p \in Publishers, Unlink(p) PROVE Inv'
<1>0. PICK k \in Nat \ {0}, name \in Names :
        k = publisher[p].n /\ k \in Indices(p) /\ name = Contents[p][k]
  <2>1. publisher[p].n \in Indices(p) /\ publisher[p].n \in Nat \ {0}
    BY ContentsFacts DEF Inv, TypeOK, UnlinkingIsHeld, Unlink, Indices
  <2> QED
    BY <2>1, ContentsFacts
<1>1. file'[name] = NoOne /\ \A m \in Names \ {name} : file'[m] = file[m]
  BY <1>0 DEF Inv, TypeOK, Unlink
<1>2. \A q \in Publishers \ {p} : publisher'[q] = publisher[q]
  BY DEF Inv, TypeOK, Unlink, Becomes
<1>3. publisher'[p].pc = "rolling" /\ publisher'[p].n = k - 1
  BY <1>0 DEF Inv, TypeOK, Unlink, Becomes
<1>4. Unlinking(p, name) /\ file[name] \in {p, Another}
  BY <1>0 DEF Inv, UnlinkingIsHeld, Held, Unlink, Unlinking
<1>5. \A q \in Publishers \ {p} : ~Held(q, name)
  BY <1>4 DEF Held
<1>6. \A q \in Publishers, m \in Names : Unlinking(q, m)' => Unlinking(q, m)
  BY <1>2, <1>3 DEF Unlinking
<1>7. \A q \in Publishers, m \in Names : m # name /\ Held(q, m) => Held(q, m)'
  BY <1>1, <1>6 DEF Held
<1>8. TypeOK'
  <2>1. file' \in [Names -> Publishers \union {NoOne, Another}]
    BY <1>0 DEF Inv, TypeOK, Unlink
  <2>2. publisher' \in [Publishers ->
          [pc : Running \union {"idle", "published", "raised", "abandoned"}, n : Nat]]
    BY <1>0 DEF Inv, TypeOK, Unlink, Becomes, Running
  <2>3. \A q \in Publishers : publisher'[q].n <= Len(Contents[q])
    BY <1>0, <1>2, <1>3, ContentsFacts DEF Inv, TypeOK, Indices
  <2> QED
    BY <2>1, <2>2, <2>3 DEF TypeOK
<1>9. CountedIsHeld'
  <2> SUFFICES ASSUME NEW q \in Publishers, NEW i \in Indices(q), CountsOn(q, i)'
               PROVE  Held(q, Contents[q][i])'
    BY DEF CountedIsHeld
  <2>0. Contents[q][i] \in Names /\ Marker(q) \in Names
    BY ContentsFacts
  <2>1. CASE q = p
    <3>1. file'[Marker(p)] # p
      <4> SUFFICES ASSUME file'[Marker(p)] = p PROVE FALSE
        OBVIOUS
      <4>1. Marker(p) # name /\ file[Marker(p)] = p
        BY <1>1, <2>0, <2>1, OwnersAssumption
      <4>2. PICK j \in Indices(p) : j <= k /\ Marker(p) = Contents[p][j]
        BY <4>1, <2>0, <2>1, <1>0 DEF Inv, OwnedIsNoted, Unlink
      <4>3. j = Len(Contents[p])
        BY <4>2, ContentsFacts DEF Marker
      <4>4. j = k
        BY <4>2, <4>3, <1>0 DEF Indices
      <4> QED
        BY <4>1, <4>2, <4>4, <1>0
    <3>2. i < k - 1
      BY <3>1, <2>1, <1>3 DEF CountsOn
    <3>3. i < k /\ i # k
      BY <3>2, <1>0 DEF Indices
    <3>4. Held(p, Contents[p][i])
      BY <3>3, <2>1, <1>0 DEF Inv, CountedIsHeld, CountsOn, Unlink
    <3>5. Contents[p][i] # name
      BY <3>3, <2>1, <1>0, ContentsFacts
    <3> QED
      BY <3>4, <3>5, <2>0, <2>1, <1>7
  <2>2. CASE q # p
    <3>1. file'[Marker(q)] = q => file[Marker(q)] = q
      BY <1>1, <2>0, OwnersAssumption
    <3>2. CountsOn(q, i)
      BY <3>1, <2>2, <1>2 DEF CountsOn
    <3>3. Held(q, Contents[q][i])
      BY <3>2 DEF Inv, CountedIsHeld
    <3> QED
      BY <3>3, <2>0, <2>2, <1>5, <1>7
  <2> QED
    BY <2>1, <2>2
<1>10. UnlinkingIsHeld'
  <2> SUFFICES ASSUME NEW q \in Publishers, publisher'[q].pc = "unlinking"
               PROVE  publisher'[q].n > 0 /\ Held(q, Contents[q][publisher[q].n])'
    BY DEF UnlinkingIsHeld
  <2>1. q # p /\ publisher'[q] = publisher[q]
    BY <1>2, <1>3
  <2>2. publisher[q].n > 0 /\ Held(q, Contents[q][publisher[q].n])
    BY <2>1 DEF Inv, UnlinkingIsHeld
  <2>3. publisher[q].n \in Indices(q)
    BY <2>2 DEF Inv, TypeOK, Indices
  <2> QED
    BY <2>1, <2>2, <2>3, <1>5, <1>7, ContentsFacts
<1>11. OwnedIsNoted'
  <2> SUFFICES ASSUME NEW q \in Publishers, NEW m \in Names, file'[m] = q
               PROVE  \/ /\ publisher'[q].pc \in {"linking", "rolling", "unlinking"}
                         /\ \E i \in Indices(q) : i <= publisher'[q].n /\ m = Contents[q][i]
                      \/ publisher'[q].pc \in {"published", "abandoned"}
    BY DEF OwnedIsNoted
  <2>1. m # name /\ file[m] = q
    BY <1>1, OwnersAssumption
  <2>2. CASE q = p
    <3>1. PICK i \in Indices(p) : i <= k /\ m = Contents[p][i]
      BY <2>1, <2>2, <1>0 DEF Inv, OwnedIsNoted, Unlink
    <3>2. i # k
      BY <3>1, <2>1, <1>0
    <3>3. i <= k - 1
      BY <3>1, <3>2, <1>0 DEF Indices
    <3> QED
      BY <3>1, <3>3, <2>2, <1>3
  <2>3. CASE q # p
    BY <2>1, <2>3, <1>2 DEF Inv, OwnedIsNoted
  <2> QED
    BY <2>2, <2>3
<1> QED
  BY <1>8, <1>9, <1>10, <1>11 DEF Inv

LEMMA TakeBackInv == ASSUME Inv, NEW p \in Publishers, TakeBack(p) PROVE Inv'
<1>0. PICK k \in Nat \ {0}, name \in Names :
        k = publisher[p].n /\ k \in Indices(p) /\ name = Contents[p][k]
  <2>1. publisher[p].n \in Indices(p) /\ publisher[p].n \in Nat \ {0}
    BY ContentsFacts DEF Inv, TypeOK, TakeBack, Indices
  <2> QED
    BY <2>1, ContentsFacts
<1>1. CASE file[name] # p /\ Becomes(p, "rolling", k - 1) /\ UNCHANGED file
  <2>1. publisher'[p].pc = "rolling" /\ publisher'[p].n = k - 1
    BY <1>0, <1>1 DEF Inv, TypeOK, Becomes
  <2>2. \A i \in Indices(p) : CountsOn(p, i)' => CountsOn(p, i)
    BY <2>1, <1>0, <1>1 DEF CountsOn, TakeBack, Indices
  <2>3. ASSUME NEW m \in Names, file[m] = p
        PROVE  \E i \in Indices(p) : i <= k - 1 /\ m = Contents[p][i]
    <3>1. PICK i \in Indices(p) : i <= k /\ m = Contents[p][i]
      BY <2>3, <1>0 DEF Inv, OwnedIsNoted, TakeBack
    <3>2. i # k
      BY <3>1, <2>3, <1>0, <1>1
    <3> QED
      BY <3>1, <3>2, <1>0 DEF Indices
  <2>4. k - 1 <= Len(Contents[p]) /\ k - 1 \in Nat
    BY <1>0, ContentsFacts DEF Indices
  <2> QED
    BY <1>1, <2>2, <2>3, <2>4, QuietStep DEF Running
<1>2. CASE file[name] = p /\ Becomes(p, "unlinking", k) /\ UNCHANGED file
  <2>1. publisher'[p].pc = "unlinking" /\ publisher'[p].n = k
    BY <1>0, <1>2 DEF Inv, TypeOK, Becomes
  <2>2. \A q \in Publishers \ {p} : publisher'[q] = publisher[q]
    BY <1>2 DEF Inv, TypeOK, Becomes
  <2>3. \A q \in Publishers \ {p} : ~Held(q, name)
    BY <1>2, OwnersAssumption DEF Held
  <2>4. \A q \in Publishers \ {p} : ~Unlinking(q, name)
    BY <2>3 DEF Inv, UnlinkingIsHeld, Unlinking
  <2>5. \A q \in Publishers, m \in Names : Unlinking(q, m)' => Unlinking(q, m) \/ (q = p /\ m = name)
    BY <2>1, <2>2, <1>0 DEF Unlinking
  <2>6. \A q \in Publishers, m \in Names : m # name /\ Held(q, m) => Held(q, m)'
    BY <2>5, <1>2 DEF Held
  <2>7. Held(p, name)'
    BY <2>4, <2>5, <1>2 DEF Held
  <2>8. TypeOK'
    <3>1. publisher' \in [Publishers ->
            [pc : Running \union {"idle", "published", "raised", "abandoned"}, n : Nat]]
      BY <1>0, <1>2 DEF Inv, TypeOK, Becomes, Running
    <3>2. \A q \in Publishers : publisher'[q].n <= Len(Contents[q])
      BY <1>0, <2>1, <2>2 DEF Inv, TypeOK, Indices
    <3> QED
      BY <3>1, <3>2, <1>2 DEF Inv, TypeOK
  <2>9. CountedIsHeld'
    <3> SUFFICES ASSUME NEW q \in Publishers, NEW i \in Indices(q), CountsOn(q, i)'
                 PROVE  Held(q, Contents[q][i])'
      BY DEF CountedIsHeld
    <3>1. CountsOn(q, i)
      BY <2>1, <2>2, <1>0, <1>2 DEF CountsOn, TakeBack
    <3>2. Held(q, Contents[q][i]) /\ Contents[q][i] \in Names
      BY <3>1, ContentsFacts DEF Inv, CountedIsHeld
    <3>3. CASE Contents[q][i] = name
      <4>1. q = p
        BY <3>2, <3>3, <2>3
      <4> QED
        BY <4>1, <3>3, <2>7
    <3>4. CASE Contents[q][i] # name
      BY <3>4, <3>2, <2>6
    <3> QED
      BY <3>3, <3>4
  <2>10. UnlinkingIsHeld'
    <3> SUFFICES ASSUME NEW q \in Publishers, publisher'[q].pc = "unlinking"
                 PROVE  publisher'[q].n > 0 /\ Held(q, Contents[q][publisher[q].n])'
      <4>1. \A q \in Publishers : publisher'[q].n = publisher[q].n
        BY <2>1, <2>2, <1>0
      <4> QED
        BY <4>1 DEF UnlinkingIsHeld
    <3>1. CASE q = p
      BY <3>1, <2>1, <2>7, <1>0
    <3>2. CASE q # p
      <4>1. publisher'[q] = publisher[q]
        BY <3>2, <2>2
      <4>2. publisher[q].n > 0 /\ Held(q, Contents[q][publisher[q].n])
        BY <4>1 DEF Inv, UnlinkingIsHeld
      <4>3. publisher[q].n \in Indices(q)
        BY <4>2 DEF Inv, TypeOK, Indices
      <4> QED
        BY <4>1, <4>2, <4>3, <3>2, <2>3, <2>6, ContentsFacts
    <3> QED
      BY <3>1, <3>2
  <2>11. OwnedIsNoted'
    <3>1. \A q \in Publishers : publisher'[q].n = publisher[q].n
      BY <2>1, <2>2, <1>0
    <3>2. publisher[p].pc = "rolling"
      BY DEF TakeBack
    <3>3. \A q \in Publishers \ {p} : publisher'[q].pc = publisher[q].pc
      BY <2>2
    <3> QED
      BY <3>1, <3>2, <3>3, <2>1, <1>2 DEF Inv, OwnedIsNoted
  <2> QED
    BY <2>8, <2>9, <2>10, <2>11 DEF Inv
<1> QED
  BY <1>0, <1>1, <1>2 DEF TakeBack, OwnFile

(* The steps that change neither a file nor what a publisher counts on.     *)
LEMMA OtherStepsInv ==
  ASSUME Inv, NEW p \in Publishers,
         Require(p) \/ Stage(p) \/ Sync(p) \/ Raise(p) \/ Abandon(p)
  PROVE  Inv'
<1> DEFINE Owns(m) == file[m] = p
<1>0. /\ publisher[p].n \in Nat /\ publisher[p].n <= Len(Contents[p])
      /\ Len(Contents[p]) \in Nat
      /\ publisher \in [Publishers ->
           [pc : Running \union {"idle", "published", "raised", "abandoned"}, n : Nat]]
  BY ContentsFacts DEF Inv, TypeOK
<1>1. ASSUME publisher[p].pc \in {"idle", "staging"} PROVE \A m \in Names : ~Owns(m)
  BY <1>1 DEF Inv, OwnedIsNoted
<1>2. ASSUME publisher[p].pc \in {"idle", "staging"}, UNCHANGED file,
             NEW pc \in {"staging", "raised", "linking", "abandoned"}, NEW n \in Nat,
             n <= Len(Contents[p]), Becomes(p, pc, n), pc = "linking" => n = 0
      PROVE  Inv'
  <2>1. publisher'[p].pc = pc /\ publisher'[p].n = n
    BY <1>0, <1>2 DEF Becomes
  <2>2. \A i \in Indices(p) : ~CountsOn(p, i)'
    BY <2>1, <1>1, <1>2, ContentsFacts DEF CountsOn, Indices
  <2> QED
    BY <2>2, <1>1, <1>2, QuietStep DEF Running
<1>3. CASE Require(p)
  BY <1>3, <1>2, <1>0 DEF Require
<1>4. CASE Stage(p)
  BY <1>4, <1>2, <1>0 DEF Stage
<1>5. ASSUME publisher[p].pc \in {"linking", "rolling", "unlinking"}, UNCHANGED file,
             NEW pc \in {"published", "abandoned", "rolling"}, Becomes(p, pc, publisher[p].n),
             pc = "rolling" => publisher[p].pc = "linking"
      PROVE  Inv'
  <2>1. publisher'[p].pc = pc /\ publisher'[p].n = publisher[p].n
    BY <1>0, <1>5 DEF Becomes
  <2>2. \A i \in Indices(p) : CountsOn(p, i)' => CountsOn(p, i)
    BY <2>1, <1>0, <1>5 DEF CountsOn, Indices
  <2>3. \A m \in Names : file[m] = p =>
          \E i \in Indices(p) : i <= publisher[p].n /\ m = Contents[p][i]
    BY <1>5 DEF Inv, OwnedIsNoted
  <2> QED
    BY <2>2, <2>3, <1>0, <1>5, QuietStep DEF Running
<1>6. CASE Sync(p)
  BY <1>6, <1>5 DEF Sync
<1>7. CASE Abandon(p)
  <2>1. CASE publisher[p].pc = "staging"
    BY <2>1, <1>0, <1>2, <1>7 DEF Abandon
  <2>2. CASE publisher[p].pc # "staging"
    BY <2>2, <1>5, <1>7 DEF Abandon, Running
  <2> QED
    BY <2>1, <2>2
<1>8. CASE Raise(p)
  <2>1. publisher'[p].pc = "raised"
    BY <1>0, <1>8 DEF Raise, Becomes
  <2>2. \A m \in Names : file[m] # p
    BY <1>8 DEF Inv, OwnedIsNoted, Raise, Indices
  <2>3. \A i \in Indices(p) : ~CountsOn(p, i)'
    BY <2>1, <2>2, <1>8, ContentsFacts DEF CountsOn, Raise
  <2>4. 0 <= Len(Contents[p]) /\ 0 \in Nat
    BY <1>0
  <2> QED
    BY <2>2, <2>3, <2>4, <1>8, QuietStep DEF Raise, Running
<1> QED
  BY <1>3, <1>4, <1>6, <1>7, <1>8

LEMMA ReplaceInv == ASSUME Inv, NEW n \in Names, Replace(n) PROVE Inv'
<1>1. file'[n] = Another /\ \A m \in Names \ {n} : file'[m] = file[m]
  BY DEF Inv, TypeOK, Replace
<1>2. publisher' = publisher
  BY DEF Replace
<1>3. \A q \in Publishers, m \in Names : Held(q, m) => Held(q, m)'
  BY <1>1, <1>2 DEF Held, Unlinking
<1>4. \A q \in Publishers, m \in Names : file'[m] = q => file[m] = q
  BY <1>1, OwnersAssumption
<1>5. TypeOK'
  BY DEF Inv, TypeOK, Replace
<1>6. CountedIsHeld'
  <2> SUFFICES ASSUME NEW q \in Publishers, NEW i \in Indices(q), CountsOn(q, i)'
               PROVE  Held(q, Contents[q][i])'
    BY DEF CountedIsHeld
  <2>1. CountsOn(q, i)
    BY <1>2, <1>4, ContentsFacts DEF CountsOn
  <2> QED
    BY <2>1, <1>3, ContentsFacts DEF Inv, CountedIsHeld
<1>7. UnlinkingIsHeld'
  <2> SUFFICES ASSUME NEW q \in Publishers, publisher[q].pc = "unlinking"
               PROVE  publisher[q].n > 0 /\ Held(q, Contents[q][publisher[q].n])'
    BY <1>2 DEF UnlinkingIsHeld
  <2>1. publisher[q].n > 0 /\ Held(q, Contents[q][publisher[q].n])
    BY DEF Inv, UnlinkingIsHeld
  <2>2. publisher[q].n \in Indices(q)
    BY <2>1 DEF Inv, TypeOK, Indices
  <2> QED
    BY <2>1, <2>2, <1>2, <1>3, ContentsFacts
<1>8. OwnedIsNoted'
  BY <1>2, <1>4 DEF Inv, OwnedIsNoted
<1> QED
  BY <1>5, <1>6, <1>7, <1>8 DEF Inv

LEMMA NextInv == Inv /\ [Next]_vars => Inv'
<1> SUFFICES ASSUME Inv, [Next]_vars PROVE Inv'
  OBVIOUS
<1>1. CASE UNCHANGED vars
  BY <1>1 DEF Inv, TypeOK, CountedIsHeld, UnlinkingIsHeld, OwnedIsNoted, CountsOn, Held,
              Unlinking, vars
<1>2. CASE Next
  BY <1>2, LinkInv, UnlinkInv, TakeBackInv, OtherStepsInv, ReplaceInv DEF Next
<1> QED
  BY <1>1, <1>2

LEMMA Invariance == Spec => []Inv
BY InitInv, NextInv, PTL DEF Spec

(* Paths have owners and calls have positions, for any publishers.          *)
THEOREM TypeCorrect == Spec => []TypeOK
<1>1. Inv => TypeOK
  BY DEF Inv
<1> QED
  BY <1>1, Invariance, PTL

(* At every moment a marker stands only over a complete publication         *)
(* (_publish_new_files: order of the links, reverse order of the roll-back).*)
THEOREM MarkersComplete == Spec => []MarkerIsComplete
<1>1. Inv => MarkerIsComplete
  BY DEF Inv, MarkerIsComplete, CountedIsHeld, CountsOn, Held
<1> QED
  BY <1>1, Invariance, PTL

(* A call that raised after a complete roll-back left nothing behind.       *)
THEOREM NothingLeft == Spec => []NothingLeftBehind
<1>1. Inv => NothingLeftBehind
  BY DEF Inv, NothingLeftBehind, OwnedIsNoted
<1> QED
  BY <1>1, Invariance, PTL

(* A roll-back never takes a file of a publication that succeeded.          *)
THEOREM RivalsSafe == Spec => RivalsSurvive
<1>1. ASSUME Inv, [Next]_vars, NEW p \in Publishers, NEW n \in Names,
             publisher[p].pc = "published", file[n] = p
      PROVE  file'[n] \in {p, Another}
  <2>1. CASE UNCHANGED file
    BY <2>1, <1>1
  <2>2. ASSUME NEW q \in Publishers, Link(q) PROVE file'[n] \in {p, Another}
    <3>1. CASE UNCHANGED file
      BY <3>1, <1>1
    <3>2. CASE file[Destination(q)] = NoOne /\ file' = [file EXCEPT ![Destination(q)] = q]
      BY <3>2, <1>1, OwnersAssumption DEF Inv, TypeOK
    <3> QED
      BY <2>2, <3>1, <3>2 DEF Link
  <2>3. ASSUME NEW q \in Publishers, Unlink(q) PROVE file'[n] \in {p, Another}
    <3>1. file[Contents[q][publisher[q].n]] \in {q, Another} /\ q # p
      BY <2>3, <1>1 DEF Inv, UnlinkingIsHeld, Held, Unlink
    <3>2. n # Contents[q][publisher[q].n]
      BY <3>1, <1>1, OwnersAssumption
    <3> QED
      BY <3>2, <2>3, <1>1 DEF Inv, TypeOK, Unlink
  <2>4. ASSUME NEW m \in Names, Replace(m) PROVE file'[n] \in {p, Another}
    BY <2>4, <1>1 DEF Inv, TypeOK, Replace
  <2> QED
    BY <1>1, <2>1, <2>2, <2>3, <2>4
       DEF Next, vars, Require, Stage, Sync, TakeBack, Raise, Abandon
<1>2. Inv /\ [Next]_vars =>
        [\A p \in Publishers, n \in Names :
           publisher[p].pc = "published" /\ file[n] = p => file'[n] \in {p, Another}]_vars
  BY <1>1
<1> QED
  BY <1>2, Invariance, PTL DEF Spec, RivalsSurvive
==============================================================================
