---------------------- MODULE NotificationQueueProofs ----------------------
(***************************************************************************)
(* Proofs about the codex notification queue for every ring capacity and    *)
(* every number of arrivals.                                                *)
(***************************************************************************)
EXTENDS NotificationQueue, TLAPS

\* A ring whose three indices agree.
Shaped(r) == r \in Ring /\ r.tail = Wrap(r.head + r.length)

\* The i-th oldest entry.
Entry(r, i) == r.values[SlotAt(r, i)]

LEMMA RingTypes ==
  ASSUME NEW r, r \in Ring
  PROVE  /\ r.values \in [SlotsOf -> Nat]
         /\ r.head \in 0 .. RingCap - 1 /\ r.tail \in 0 .. RingCap - 1
         /\ r.length \in 0..RingCap
         /\ RingCap \in Nat /\ RingCap > 0
  BY RingAssumption DEF Ring, SlotsOf

\* Arithmetic of the wrap.
LEMMA WrapFacts ==
  ASSUME NEW h \in 0 .. RingCap - 1
  PROVE  /\ \A i \in 0 .. RingCap : Wrap(h + i) \in 0 .. RingCap - 1
         /\ \A i, j \in 0 .. RingCap - 1 : i # j => Wrap(h + i) # Wrap(h + j)
         /\ \A i \in 0 .. RingCap - 1 : Wrap(Wrap(h + i) + 1) = Wrap(h + (i + 1))
         /\ \A i \in 0 .. RingCap - 1 : Wrap(Wrap(h + 1) + i) = Wrap(h + (i + 1))
         /\ Wrap(h + 0) = h
  BY RingAssumption DEF Wrap

LEMMA NextSlot ==
  ASSUME NEW h \in 0 .. RingCap - 1
  PROVE  Wrap(h + 1) \in SlotsOf /\ h \in SlotsOf
  BY RingAssumption DEF Wrap, SlotsOf

LEMMA SlotFacts ==
  ASSUME NEW r, r \in Ring, NEW i \in 1..RingCap
  PROVE  SlotAt(r, i) = Wrap(r.head + (i - 1)) /\ SlotAt(r, i) \in SlotsOf
  BY RingTypes DEF SlotAt, Wrap, SlotsOf

\* A ring is made of its four fields.
LEMMA MakeRing ==
  ASSUME NEW v \in [SlotsOf -> Nat], NEW h \in SlotsOf, NEW t \in SlotsOf, NEW l \in 0..RingCap
  PROVE  [values |-> v, head |-> h, tail |-> t, length |-> l] \in Ring
  BY DEF Ring

LEMMA NewRing == Shaped(newNotificationRing) /\ newNotificationRing.length = 0
  BY RingAssumption DEF Shaped, newNotificationRing, Ring, Wrap, SlotsOf, Vacant

\* A push into a ring with room appends.
LEMMA PushAppends ==
  ASSUME NEW r, Shaped(r), r.length < RingCap, NEW n \in Nat
  PROVE  /\ Shaped(push(r, n))
         /\ push(r, n).length = r.length + 1
         /\ \A i \in 1 .. r.length : Entry(push(r, n), i) = Entry(r, i)
         /\ Entry(push(r, n), r.length + 1) = n
  <1> DEFINE v == [r.values EXCEPT ![r.tail] = n]
             t == Wrap(r.tail + 1)
             p == [values |-> v, head |-> r.head, tail |-> t, length |-> r.length + 1]
  <1>0. r \in Ring /\ r.tail = Wrap(r.head + r.length)
    BY DEF Shaped
  <1>1. /\ r.values \in [SlotsOf -> Nat]
        /\ r.head \in 0 .. RingCap - 1 /\ r.tail \in 0 .. RingCap - 1
        /\ r.length \in 0 .. RingCap - 1 /\ RingCap \in Nat /\ RingCap > 0
    BY <1>0, RingTypes
  <1>2. push(r, n) = p
    BY <1>1 DEF push
  <1>3. v \in [SlotsOf -> Nat] /\ t \in SlotsOf /\ r.head \in SlotsOf
    <2>1. v \in [SlotsOf -> Nat]
      BY <1>1
    <2>2. t \in SlotsOf
      BY <1>1, NextSlot
    <2>3. r.head \in SlotsOf
      BY <1>1, NextSlot
    <2> QED
      BY <2>1, <2>2, <2>3
  <1>4. p \in Ring
    BY <1>1, <1>3, MakeRing
  <1>5. t = Wrap(r.head + (r.length + 1))
    BY <1>0, <1>1 DEF Wrap
  <1>6. ASSUME NEW i \in 1 .. r.length PROVE Entry(p, i) = Entry(r, i)
    <2>1. i \in 1..RingCap /\ i - 1 \in 0 .. RingCap - 1 /\ i - 1 # r.length
      BY <1>1
    <2>2. Wrap(r.head + (i - 1)) # r.tail
      BY <1>0, <1>1, <2>1 DEF Wrap
    <2>3. SlotAt(r, i) = Wrap(r.head + (i - 1)) /\ SlotAt(r, i) \in SlotsOf
      BY <1>0, <2>1, SlotFacts
    <2>4. SlotAt(p, i) = SlotAt(r, i)
      BY DEF SlotAt
    <2> QED
      BY <1>1, <2>2, <2>3, <2>4 DEF Entry
  <1>7. Entry(p, r.length + 1) = n
    <2>1. SlotAt(p, r.length + 1) = r.tail
      BY <1>0, <1>1 DEF SlotAt
    <2> QED
      BY <1>1, <2>1 DEF Entry, SlotsOf
  <1> QED
    BY <1>2, <1>4, <1>5, <1>6, <1>7 DEF Shaped

\* An eviction removes the oldest entry.
LEMMA EvictDropsOldest ==
  ASSUME NEW r, Shaped(r), r.length > 0
  PROVE  /\ Shaped(evict(r))
         /\ evict(r).length = r.length - 1
         /\ \A i \in 1 .. r.length - 1 : Entry(evict(r), i) = Entry(r, i + 1)
  <1> DEFINE v == [r.values EXCEPT ![r.head] = Vacant]
             h == Wrap(r.head + 1)
             p == [values |-> v, head |-> h, tail |-> r.tail, length |-> r.length - 1]
  <1>0. r \in Ring /\ r.tail = Wrap(r.head + r.length)
    BY DEF Shaped
  <1>1. /\ r.values \in [SlotsOf -> Nat]
        /\ r.head \in 0 .. RingCap - 1 /\ r.tail \in 0 .. RingCap - 1
        /\ r.length \in 1 .. RingCap /\ RingCap \in Nat /\ RingCap > 0
    BY <1>0, RingTypes
  <1>2. evict(r) = p
    BY DEF evict
  <1>3. v \in [SlotsOf -> Nat] /\ h \in SlotsOf /\ r.tail \in SlotsOf
    <2>1. v \in [SlotsOf -> Nat]
      BY <1>1 DEF Vacant
    <2>2. h \in SlotsOf /\ r.tail \in SlotsOf
      BY <1>1, SMTT(30) DEF Wrap, SlotsOf
    <2> QED
      BY <2>1, <2>2
  <1>4. p \in Ring
    BY <1>1, <1>3, MakeRing
  <1>5. r.tail = Wrap(h + (r.length - 1))
    BY <1>0, <1>1 DEF Wrap
  <1>6. ASSUME NEW i \in 1 .. r.length - 1 PROVE Entry(p, i) = Entry(r, i + 1)
    <2>1. i + 1 \in 1..RingCap /\ i \in 1..RingCap /\ i \in 1 .. RingCap - 1
      BY <1>1
    <2>2. SlotAt(r, i + 1) = Wrap(r.head + i) /\ SlotAt(r, i + 1) \in SlotsOf
      BY <1>0, <2>1, SlotFacts
    <2>3. SlotAt(p, i) = Wrap(h + (i - 1))
      BY <1>4, <2>1, SlotFacts
    <2>4. Wrap(h + (i - 1)) = Wrap(r.head + i) /\ Wrap(r.head + i) # r.head
      BY <1>1, <2>1 DEF Wrap
    <2> QED
      BY <1>1, <2>2, <2>3, <2>4 DEF Entry
  <1> QED
    BY <1>2, <1>4, <1>5, <1>6 DEF Shaped

\* A pop removes the oldest entry, and resets the indices of an emptied ring.
LEMMA PopDropsOldest ==
  ASSUME NEW r, Shaped(r), r.length > 0
  PROVE  /\ Shaped(pop(r))
         /\ pop(r).length = r.length - 1
         /\ \A i \in 1 .. r.length - 1 : Entry(pop(r), i) = Entry(r, i + 1)
  <1>1. CASE r.length = 1
    <2> DEFINE v == [r.values EXCEPT ![r.head] = Vacant]
    <2>1. v \in [SlotsOf -> Nat] /\ 0 \in SlotsOf /\ 0 \in 0..RingCap
      BY RingTypes DEF Shaped, SlotsOf, Vacant
    <2>2. [values |-> v, head |-> 0, tail |-> 0, length |-> 0] \in Ring
      BY <2>1, MakeRing
    <2>3. pop(r) = [values |-> v, head |-> 0, tail |-> 0, length |-> 0]
      BY <1>1 DEF pop
    <2>4. Wrap(0 + 0) = 0
      BY RingAssumption DEF Wrap
    <2> QED
      BY <1>1, <2>2, <2>3, <2>4 DEF Shaped
  <1>2. CASE r.length # 1
    BY <1>2, EvictDropsOldest DEF pop
  <1> QED
    BY <1>1, <1>2

\* A displacing push appends after the oldest entry of a full ring has left.
LEMMA PushDisplacing ==
  ASSUME NEW r, Shaped(r), NEW n \in Nat
  PROVE  /\ Shaped(pushDisplacing(r, n))
         /\ Displaces(r) =>
              /\ r.length = RingCap
              /\ pushDisplacing(r, n).length = RingCap
              /\ \A i \in 1 .. RingCap - 1 : Entry(pushDisplacing(r, n), i) = Entry(r, i + 1)
              /\ Entry(pushDisplacing(r, n), RingCap) = n
         /\ ~Displaces(r) =>
              /\ pushDisplacing(r, n).length = r.length + 1
              /\ \A i \in 1 .. r.length : Entry(pushDisplacing(r, n), i) = Entry(r, i)
              /\ Entry(pushDisplacing(r, n), r.length + 1) = n
  <1>0. r.length \in 0..RingCap /\ RingCap \in Nat /\ RingCap > 0
    BY RingTypes DEF Shaped
  <1>1. CASE Displaces(r)
    <2> DEFINE e == evict(r)
    <2>1. r.length = RingCap
      BY <1>0, <1>1 DEF Displaces
    <2>2. /\ Shaped(e) /\ e.length = RingCap - 1
          /\ \A i \in 1 .. RingCap - 1 : Entry(e, i) = Entry(r, i + 1)
      BY <1>0, <2>1, EvictDropsOldest
    <2>3. pushDisplacing(r, n) = push(e, n)
      BY <1>1 DEF pushDisplacing
    <2> HIDE DEF e
    <2>4. /\ Shaped(push(e, n))
          /\ push(e, n).length = RingCap
          /\ \A i \in 1 .. RingCap - 1 : Entry(push(e, n), i) = Entry(e, i)
          /\ Entry(push(e, n), RingCap) = n
      BY <1>0, <2>2, PushAppends
    <2> QED
      BY <1>1, <2>1, <2>2, <2>3, <2>4
  <1>2. CASE ~Displaces(r)
    <2>1. r.length < RingCap
      BY <1>0, <1>2 DEF Displaces
    <2>2. pushDisplacing(r, n) = push(r, n)
      BY <1>2 DEF pushDisplacing
    <2> QED
      BY <1>2, <2>1, <2>2, PushAppends
  <1> QED
    BY <1>1, <1>2

\* The pending notifications of a scope, copied into the new ring in order.
LEMMA AppendAllToNew ==
  ASSUME NEW s \in Seq(Nat), Len(s) <= RingCap
  PROVE  /\ Shaped(appendAll(newNotificationRing, s))
         /\ appendAll(newNotificationRing, s).length = Len(s)
         /\ \A i \in 1 .. Len(s) : Entry(appendAll(newNotificationRing, s), i) = s[i]
  <1> DEFINE v == [j \in SlotsOf |-> IF j < Len(s) THEN s[j + 1] ELSE Vacant]
             p == [values |-> v, head |-> 0, tail |-> Wrap(Len(s)), length |-> Len(s)]
  <1>0. Len(s) \in 0..RingCap /\ RingCap \in Nat /\ RingCap > 0
    BY RingAssumption
  <1>1. appendAll(newNotificationRing, s) = p
    <2>1. ASSUME NEW j \in SlotsOf PROVE Wrap(j + RingCap - 0) = j
      BY <1>0 DEF Wrap, SlotsOf
    <2>2. ~(Len(s) > RingCap - 0) /\ 0 + Len(s) = Len(s)
      BY <1>0
    <2> QED
      BY <2>1, <2>2 DEF appendAll, newNotificationRing
  <1>2. v \in [SlotsOf -> Nat]
    <2>1. ASSUME NEW j \in SlotsOf, j < Len(s) PROVE s[j + 1] \in Nat
      BY <1>0, <2>1 DEF SlotsOf
    <2> QED
      BY <2>1 DEF Vacant
  <1>3. 0 \in SlotsOf /\ Wrap(Len(s)) \in SlotsOf /\ Wrap(0 + Len(s)) = Wrap(Len(s))
    BY <1>0 DEF SlotsOf, Wrap
  <1>4. p \in Ring
    BY <1>0, <1>2, <1>3, MakeRing
  <1>5. ASSUME NEW i \in 1 .. Len(s) PROVE Entry(p, i) = s[i]
    <2>1. SlotAt(p, i) = i - 1 /\ i - 1 \in SlotsOf
      BY <1>0 DEF SlotAt, Wrap, SlotsOf
    <2> QED
      BY <1>0, <2>1 DEF Entry
  <1> QED
    BY <1>1, <1>3, <1>4, <1>5 DEF Shaped
-----------------------------------------------------------------------------
\* The inductive invariant: types, agreeing indices, and the accounting stated
\* on entries rather than on the sequence they form.
Accounted ==
  /\ arrived = delivered + reported + dropped + ring.length
  /\ \A i \in 1 .. ring.length : Entry(ring, i) = delivered + reported + dropped + i

QInv == TypeOK /\ Shaped(ring) /\ Accounted

LEMMA AccountedIsNoSilentLoss ==
  ASSUME Accounted, TypeOK PROVE NoSilentLoss
  <1>1. ring.length \in Nat
    BY RingTypes DEF TypeOK
  <1> QED
    BY <1>1 DEF Accounted, NoSilentLoss, Contents, Entry

LEMMA InitQInv == Init => QInv
  <1> SUFFICES ASSUME Init PROVE QInv
    OBVIOUS
  <1> PICK waiting \in 0..RingCap, lost \in 0..MaxArrivals :
        /\ ring = appendAll(newNotificationRing, [i \in 1..waiting |-> lost + i])
        /\ dropped = lost
        /\ notify = (lost > 0)
        /\ err = "nil" /\ pc = "idle" /\ outcome = "none"
        /\ arrived = waiting + lost /\ delivered = 0 /\ reported = 0
    BY DEF Init
  <1> DEFINE s == [i \in 1..waiting |-> lost + i]
  <1>0. waiting \in Nat /\ lost \in Nat /\ waiting <= RingCap
    BY RingAssumption, ArrivalsAssumption
  <1>1. s \in Seq(Nat) /\ Len(s) = waiting /\ \A i \in 1..waiting : s[i] = lost + i
    BY <1>0
  <1>2. ring = appendAll(newNotificationRing, s)
    OBVIOUS
  <1> HIDE DEF s
  <1>3. /\ Shaped(ring) /\ ring.length = waiting
        /\ \A i \in 1..waiting : Entry(ring, i) = lost + i
    BY <1>0, <1>1, <1>2, AppendAllToNew
  <1>4. Accounted
    BY <1>0, <1>3 DEF Accounted
  <1>5. notify \in BOOLEAN
    OBVIOUS
  <1>6. TypeOK
    BY <1>0, <1>3, <1>5 DEF TypeOK, Shaped
  <1> QED
    BY <1>3, <1>4, <1>6 DEF QInv

LEMMA NextQInv == QInv /\ [Next]_qvars => QInv'
  <1> SUFFICES ASSUME QInv, [Next]_qvars PROVE QInv'
    OBVIOUS
  <1>0. /\ TypeOK /\ Shaped(ring) /\ Accounted
        /\ ring.length \in 0..RingCap /\ RingCap \in Nat /\ RingCap > 0
        /\ dropped \in Nat /\ arrived \in Nat /\ delivered \in Nat /\ reported \in Nat
    BY RingTypes DEF QInv, TypeOK
  \* Steps that leave the ring and the counters alone.
  <1>1. ASSUME UNCHANGED <<ring, dropped, arrived, delivered, reported>>,
               notify' \in BOOLEAN, err' \in {"nil", "closed"}, pc' \in {"idle", "lock", "wait"},
               outcome' \in {"none", "notification", "dropped", "canceled", "closed"}
        PROVE  QInv'
    BY <1>0, <1>1 DEF QInv, TypeOK, Accounted
  <1>2. CASE Push
    <2> DEFINE n == arrived + 1
    <2>1. n \in Nat /\ ring' = pushDisplacing(ring, n)
      BY <1>0, <1>2 DEF Push
    <2>2. CASE Displaces(ring)
      <3>1. /\ Shaped(ring') /\ ring.length = RingCap /\ ring'.length = RingCap
            /\ \A i \in 1 .. RingCap - 1 : Entry(ring', i) = Entry(ring, i + 1)
            /\ Entry(ring', RingCap) = n
        BY <1>0, <2>1, <2>2, PushDisplacing
      <3>2. /\ dropped' = dropped + 1 /\ arrived' = arrived + 1
            /\ delivered' = delivered /\ reported' = reported
        BY <1>2, <2>2 DEF Push
      <3>3. Accounted'
        BY <1>0, <3>1, <3>2 DEF Accounted
      <3> QED
        BY <1>0, <1>2, <3>1, <3>2, <3>3 DEF QInv, TypeOK, Shaped, Push
    <2>3. CASE ~Displaces(ring)
      <3>1. /\ Shaped(ring') /\ ring'.length = ring.length + 1
            /\ \A i \in 1 .. ring.length : Entry(ring', i) = Entry(ring, i)
            /\ Entry(ring', ring.length + 1) = n
        BY <1>0, <2>1, <2>3, PushDisplacing
      <3>2. /\ dropped' = dropped /\ arrived' = arrived + 1
            /\ delivered' = delivered /\ reported' = reported
        BY <1>2, <2>3 DEF Push
      <3>3. Accounted'
        BY <1>0, <3>1, <3>2 DEF Accounted
      <3> QED
        BY <1>0, <1>2, <3>1, <3>2, <3>3 DEF QInv, TypeOK, Shaped, Push
    <2> QED
      BY <2>2, <2>3
  <1>3. CASE NextPop
    <2>1. /\ Shaped(ring') /\ ring'.length = ring.length - 1 /\ ring.length > 0
          /\ \A i \in 1 .. ring.length - 1 : Entry(ring', i) = Entry(ring, i + 1)
      BY <1>0, <1>3, PopDropsOldest DEF NextPop
    <2>2. /\ dropped' = dropped /\ arrived' = arrived
          /\ delivered' = delivered + 1 /\ reported' = reported
      BY <1>3 DEF NextPop
    <2>3. Accounted'
      BY <1>0, <2>1, <2>2 DEF Accounted
    <2> QED
      BY <1>0, <1>3, <2>1, <2>2, <2>3 DEF QInv, TypeOK, Shaped, NextPop
  <1>4. CASE NextDropped
    <2>1. Accounted'
      BY <1>0, <1>4 DEF NextDropped, Accounted
    <2> QED
      BY <1>0, <1>4, <2>1 DEF QInv, TypeOK, NextDropped
  <1>5. CASE Close
    BY <1>0, <1>1, <1>5 DEF Close, TypeOK
  <1>6. CASE NextEnter
    BY <1>0, <1>1, <1>6 DEF NextEnter, TypeOK
  <1>7. CASE NextClosed
    BY <1>0, <1>1, <1>7 DEF NextClosed, TypeOK
  <1>8. CASE NextPark
    BY <1>0, <1>1, <1>8 DEF NextPark, TypeOK
  <1>9. CASE NextWake
    BY <1>0, <1>1, <1>9 DEF NextWake, TypeOK
  <1>10. CASE NextCancel
    BY <1>0, <1>1, <1>10 DEF NextCancel, TypeOK
  <1>11. CASE UNCHANGED qvars
    BY <1>0, <1>1, <1>11 DEF qvars, TypeOK
  <1> QED
    BY <1>2, <1>3, <1>4, <1>5, <1>6, <1>7, <1>8, <1>9, <1>10, <1>11 DEF Next, ConsumerStep

LEMMA QInvHolds == Spec => []QInv
  BY InitQInv, NextQInv, PTL DEF Spec

\* Types, for every capacity.
THEOREM QueueTypeCorrect == Spec => []TypeOK
  BY QInvHolds, PTL DEF QInv

\* The evictions of push, the wrap of the ring and the reports of next never
\* lose, duplicate or reorder a notification silently.
THEOREM QueueNoSilentLoss == Spec => []NoSilentLoss
  <1>1. QInv => NoSilentLoss
    BY AccountedIsNoSilentLoss DEF QInv
  <1> QED
    BY <1>1, QInvHolds, PTL

\* The consumer of a queue never sleeps over a notification, an eviction to
\* report or a close.
THEOREM QueueNoLostWakeup == Spec => []SleepsOnlyWhenIdle
  <1>1. Init => SleepsOnlyWhenIdle
    BY DEF Init, SleepsOnlyWhenIdle
  <1>2. SleepsOnlyWhenIdle /\ [Next]_qvars => SleepsOnlyWhenIdle'
    BY DEF SleepsOnlyWhenIdle, Next, ConsumerStep, Push, Close, NextEnter, NextDropped, NextPop,
           NextClosed, NextPark, NextWake, NextCancel, qvars
  <1> QED
    BY <1>1, <1>2, PTL DEF Spec

\* The error of close is returned only when everything that arrived before it
\* was delivered or reported.
THEOREM QueueDrainsBeforeError == Spec => []ErrorOnlyWhenDrained
  <1> DEFINE Drained == outcome = "closed" => err # "nil" /\ ring.length = 0 /\ dropped = 0
  <1>1. Init => Drained
    BY DEF Init
  <1>2. Drained /\ [Next]_qvars => Drained'
    BY DEF Next, ConsumerStep, Push, Close, NextEnter, NextDropped, NextPop,
           NextClosed, NextPark, NextWake, NextCancel, qvars
  <1>3. QInv /\ Drained => ErrorOnlyWhenDrained
    BY RingTypes DEF QInv, TypeOK, Accounted, ErrorOnlyWhenDrained
  <1> HIDE DEF Drained
  <1> QED
    BY <1>1, <1>2, <1>3, QInvHolds, PTL DEF Spec
-----------------------------------------------------------------------------
\* The contents of a ring are the sequence of its entries.
LEMMA ContentsAreEntries ==
  ASSUME NEW r, Shaped(r)
  PROVE  /\ Contents(r) \in Seq(Nat) /\ Len(Contents(r)) = r.length
         /\ \A i \in 1 .. r.length : Contents(r)[i] = Entry(r, i)
  <1>1. r \in Ring /\ r.length \in 0..RingCap /\ RingCap \in Nat /\ r.values \in [SlotsOf -> Nat]
    BY RingTypes DEF Shaped
  <1>2. ASSUME NEW i \in 1 .. r.length PROVE r.values[SlotAt(r, i)] \in Nat
    BY <1>1, SlotFacts
  <1> QED
    BY <1>1, <1>2 DEF Contents, Entry

\* Sequences with the same length and elements are equal.
LEMMA SameSequence ==
  ASSUME NEW s \in Seq(Nat), NEW t \in Seq(Nat), Len(s) = Len(t), \A i \in 1..Len(s) : s[i] = t[i]
  PROVE  s = t
  OBVIOUS

\* A ring that lost its oldest entry holds the tail of what it held.
LEMMA ContentsTail ==
  ASSUME NEW r, Shaped(r), NEW p, Shaped(p), r.length > 0, p.length = r.length - 1,
         \A i \in 1 .. r.length - 1 : Entry(p, i) = Entry(r, i + 1)
  PROVE  Contents(p) = Tail(Contents(r))
  <1>1. r.length \in Nat /\ p.length \in Nat
    BY RingTypes DEF Shaped
  <1> DEFINE s == Contents(r)
             t == Contents(p)
  <1>2. /\ s \in Seq(Nat) /\ Len(s) = r.length /\ \A i \in 1 .. r.length : s[i] = Entry(r, i)
        /\ t \in Seq(Nat) /\ Len(t) = p.length /\ \A i \in 1 .. p.length : t[i] = Entry(p, i)
    BY ContentsAreEntries
  <1> HIDE DEF s, t
  <1>3. Tail(s) \in Seq(Nat) /\ Len(Tail(s)) = Len(t) /\ \A i \in 1..Len(t) : Tail(s)[i] = s[i + 1]
    BY <1>1, <1>2
  <1>4. ASSUME NEW i \in 1..Len(t) PROVE t[i] = Tail(s)[i]
    <2>1. i \in 1 .. p.length /\ i \in 1 .. r.length - 1 /\ i + 1 \in 1 .. r.length
      BY <1>1, <1>2
    <2>2. t[i] = Entry(p, i) /\ Entry(p, i) = Entry(r, i + 1) /\ s[i + 1] = Entry(r, i + 1)
      BY <1>2, <2>1
    <2> QED
      BY <1>3, <2>2
  <1>5. t = Tail(s)
    BY <1>2, <1>3, <1>4, SameSequence
  <1> QED
    BY <1>5 DEF s, t

\* A ring that gained a newest entry holds what it held with that entry at its end.
LEMMA ContentsAppend ==
  ASSUME NEW r, Shaped(r), NEW p, Shaped(p), NEW n \in Nat, p.length = r.length + 1,
         \A i \in 1 .. r.length : Entry(p, i) = Entry(r, i), Entry(p, r.length + 1) = n
  PROVE  Contents(p) = Append(Contents(r), n)
  <1>1. r.length \in Nat /\ p.length \in Nat
    BY RingTypes DEF Shaped
  <1> DEFINE s == Contents(r)
             t == Contents(p)
  <1>2. /\ s \in Seq(Nat) /\ Len(s) = r.length /\ \A i \in 1 .. r.length : s[i] = Entry(r, i)
        /\ t \in Seq(Nat) /\ Len(t) = p.length /\ \A i \in 1 .. p.length : t[i] = Entry(p, i)
    BY ContentsAreEntries
  <1> HIDE DEF s, t
  <1>3. /\ Append(s, n) \in Seq(Nat) /\ Len(Append(s, n)) = Len(t)
        /\ \A i \in 1..Len(t) : Append(s, n)[i] = IF i = r.length + 1 THEN n ELSE s[i]
    BY <1>1, <1>2
  <1>4. \A i \in 1..Len(t) : t[i] = Append(s, n)[i]
    BY <1>1, <1>2, <1>3
  <1>5. t = Append(s, n)
    BY <1>2, <1>3, <1>4, SameSequence
  <1> QED
    BY <1>5 DEF s, t

\* A displacing push appends to what the ring held, or to its tail when it was full.
LEMMA ContentsDisplacing ==
  ASSUME NEW r, Shaped(r), NEW n \in Nat
  PROVE  Contents(pushDisplacing(r, n)) =
           Append(IF Displaces(r) THEN Tail(Contents(r)) ELSE Contents(r), n)
  <1>0. r.length \in 0..RingCap /\ RingCap \in Nat /\ RingCap > 0
    BY RingTypes DEF Shaped
  <1>1. CASE Displaces(r)
    <2> DEFINE e == evict(r)
    <2>1. r.length = RingCap /\ pushDisplacing(r, n) = push(e, n)
      BY <1>0, <1>1 DEF Displaces, pushDisplacing
    <2>2. /\ Shaped(e) /\ e.length = r.length - 1
          /\ \A i \in 1 .. r.length - 1 : Entry(e, i) = Entry(r, i + 1)
      BY <1>0, <2>1, EvictDropsOldest
    <2> HIDE DEF e
    <2>3. Contents(e) = Tail(Contents(r))
      BY <1>0, <2>1, <2>2, ContentsTail
    <2>4. /\ Shaped(push(e, n)) /\ push(e, n).length = e.length + 1
          /\ \A i \in 1 .. e.length : Entry(push(e, n), i) = Entry(e, i)
          /\ Entry(push(e, n), e.length + 1) = n
      BY <1>0, <2>1, <2>2, PushAppends
    <2>5. Contents(push(e, n)) = Append(Contents(e), n)
      BY <2>2, <2>4, ContentsAppend
    <2> QED
      BY <1>1, <2>1, <2>3, <2>5
  <1>2. CASE ~Displaces(r)
    <2>1. /\ Shaped(pushDisplacing(r, n)) /\ pushDisplacing(r, n).length = r.length + 1
          /\ \A i \in 1 .. r.length : Entry(pushDisplacing(r, n), i) = Entry(r, i)
          /\ Entry(pushDisplacing(r, n), r.length + 1) = n
      BY <1>2, PushDisplacing
    <2> QED
      BY <1>2, <2>1, ContentsAppend
  <1> QED
    BY <1>1, <1>2

LEMMA InitBounded == Init => Bounded!DInit
  <1> SUFFICES ASSUME Init PROVE Bounded!DInit
    OBVIOUS
  <1> PICK waiting \in 0..RingCap, lost \in 0..MaxArrivals :
        /\ ring = appendAll(newNotificationRing, [i \in 1..waiting |-> lost + i])
        /\ dropped = lost /\ err = "nil" /\ arrived = waiting + lost
    BY DEF Init
  <1> DEFINE s == [i \in 1..waiting |-> lost + i]
  <1>0. waiting \in Nat /\ lost \in Nat /\ waiting <= RingCap
    BY RingAssumption, ArrivalsAssumption
  <1>1. s \in Seq(Nat) /\ Len(s) = waiting
    BY <1>0
  <1>2. ring = appendAll(newNotificationRing, s)
    OBVIOUS
  <1>3. Contents(ring) = s
    <2> HIDE DEF s
    <2>1. Shaped(ring) /\ ring.length = waiting /\ \A i \in 1..waiting : Entry(ring, i) = s[i]
      BY <1>0, <1>1, <1>2, AppendAllToNew
    <2>2. /\ Contents(ring) \in Seq(Nat) /\ Len(Contents(ring)) = Len(s)
          /\ \A i \in 1..Len(s) : Contents(ring)[i] = s[i]
      BY <1>1, <2>1, ContentsAreEntries
    <2> QED
      BY <1>1, <2>2, SameSequence
  <1>4. arrived = dropped + waiting /\ Contents(ring) = [i \in 1..waiting |-> dropped + i]
    BY <1>0, <1>3
  <1> QED
    BY <1>0, <1>4 DEF Bounded!DInit

LEMMA NextBounded == QInv /\ [Next]_qvars => [Bounded!DNext]_(Bounded!dvars)
  <1> SUFFICES ASSUME QInv, [Next]_qvars PROVE Bounded!DNext \/ UNCHANGED Bounded!dvars
    OBVIOUS
  <1>0. /\ Shaped(ring) /\ ring.length \in 0..RingCap /\ RingCap \in Nat /\ RingCap > 0
        /\ dropped \in Nat /\ arrived \in Nat
    BY RingTypes DEF QInv, TypeOK
  <1>1. Contents(ring) \in Seq(Nat) /\ Len(Contents(ring)) = ring.length
    BY <1>0, ContentsAreEntries
  \* Steps of the consumer that only concern itself.
  <1>2. ASSUME UNCHANGED <<ring, dropped, err, arrived>> PROVE UNCHANGED Bounded!dvars
    BY <1>2 DEF Bounded!dvars
  <1>3. CASE Push
    <2>1. Contents(ring)' = Append(IF Displaces(ring) THEN Tail(Contents(ring)) ELSE Contents(ring), arrived + 1)
      <3>1. arrived + 1 \in Nat /\ ring' = pushDisplacing(ring, arrived + 1)
        BY <1>0, <1>3 DEF Push
      <3>2. Contents(ring)' = Contents(pushDisplacing(ring, arrived + 1))
        BY <3>1
      <3> QED
        BY <1>0, <3>1, <3>2, ContentsDisplacing
    <2>2. Displaces(ring) <=> ~(Len(Contents(ring)) < RingCap)
      BY <1>0, <1>1 DEF Displaces
    <2>3. Bounded!Accept
      BY <1>3, <2>1, <2>2 DEF Push, Bounded!Accept
    <2> QED
      BY <2>3 DEF Bounded!DNext
  <1>4. CASE NextPop
    <2>1. Contents(ring)' = Tail(Contents(ring)) /\ Contents(ring) # <<>>
      <3>1. /\ Shaped(pop(ring)) /\ pop(ring).length = ring.length - 1 /\ ring.length > 0
            /\ \A i \in 1 .. ring.length - 1 : Entry(pop(ring), i) = Entry(ring, i + 1)
        BY <1>0, <1>4, PopDropsOldest DEF NextPop
      <3>2. Contents(pop(ring)) = Tail(Contents(ring))
        BY <1>0, <3>1, ContentsTail
      <3> QED
        BY <1>1, <1>4, <3>1, <3>2 DEF NextPop
    <2>2. Bounded!Take
      BY <1>4, <2>1 DEF NextPop, Bounded!Take
    <2> QED
      BY <2>2 DEF Bounded!DNext
  <1>5. CASE NextDropped
    <2>1. Bounded!Report
      BY <1>5 DEF NextDropped, Bounded!Report
    <2> QED
      BY <2>1 DEF Bounded!DNext
  <1>6. CASE Close
    <2>1. Bounded!Shut
      BY <1>6 DEF Close, Bounded!Shut
    <2> QED
      BY <2>1 DEF Bounded!DNext
  <1>7. CASE NextEnter \/ NextClosed \/ NextPark \/ NextWake \/ NextCancel \/ UNCHANGED qvars
    <2>1. UNCHANGED <<ring, dropped, err, arrived>>
      BY <1>7 DEF NextEnter, NextClosed, NextPark, NextWake, NextCancel, qvars
    <2> QED
      BY <1>2, <2>1
  <1> QED
    BY <1>3, <1>4, <1>5, <1>6, <1>7 DEF Next, ConsumerStep

\* The ring with its wrap and resets, the wakeup channel and the consumer's loop
\* implement the bounded FIFO that gives up its oldest entries: every step accepts a
\* notification, reports the evictions, hands one out, closes, or changes nothing.
THEOREM RefinesDropOldest == Spec => ImplementsDropOldest
  BY InitBounded, NextBounded, QInvHolds, PTL DEF Spec, ImplementsDropOldest, Bounded!DSpec
=============================================================================
