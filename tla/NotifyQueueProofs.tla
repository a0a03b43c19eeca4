------------------------- MODULE NotifyQueueProofs -------------------------
(***************************************************************************)
(* Proofs about NotifyQueue for every number of goroutines, every capacity  *)
(* and every number of pushed items.                                        *)
(***************************************************************************)
EXTENDS NotifyQueue, SequenceTheorems, TLAPS

LEMMA SlotTypes ==
  /\ \A n \in Nat : Item(n) \in Slots /\ Gap(n) \in Slots
  /\ Zero \in Slots
  BY DEF Item, Gap, Zero, Slots

\* What follows the first m entries of a sequence.
LEMMA DropPrefix ==
  ASSUME NEW S, NEW s \in Seq(S), NEW m \in 0..Len(s)
  PROVE  /\ SubSeq(s, m + 1, Len(s)) \in Seq(S)
         /\ Len(SubSeq(s, m + 1, Len(s))) = Len(s) - m
         /\ \A i \in 1 .. Len(s) - m : SubSeq(s, m + 1, Len(s))[i] = s[m + i]
  <1>1. \A i \in m + 1 .. Len(s) : s[i] \in S
    BY ElementOfSeq
  <1> QED
    BY <1>1, SubSeqProperties

\* The pending part of a well-typed queue.
LEMMA PendingType ==
  ASSUME TypeOK
  PROVE  /\ Pending \in Seq(Slots)
         /\ Len(Pending) = Len(items) - head
         /\ \A i \in 1 .. Len(items) - head : Pending[i] = items[head + i]
  BY DropPrefix DEF Pending, TypeOK

\* What PushBounded leaves in the queue before it appends.
LEMMA MakeRoomType ==
  ASSUME NEW queue \in Seq(Slots)
  PROVE  /\ MakeRoom(queue) \in Seq(Slots)
         /\ Len(MakeRoom(queue)) = IF Len(queue) < Capacity THEN Len(queue) ELSE Capacity - 1
  <1> DEFINE dropped == Len(queue) - (Capacity - 2)
             kept == SubSeq(queue, dropped + 1, Len(queue))
  <1>1. CASE Len(queue) < Capacity
    BY <1>1 DEF MakeRoom
  <1>2. CASE ~(Len(queue) < Capacity)
    <2>1. dropped \in Nat /\ dropped >= 2 /\ Len(queue) \in Nat
      BY <1>2, QueueAssumption
    <2>2. kept \in Seq(Slots) /\ Len(kept) = Capacity - 2
      <3>1. \A i \in dropped + 1 .. Len(queue) : queue[i] \in Slots
        BY <2>1, ElementOfSeq
      <3> QED
        BY <2>1, <3>1, SubSeqProperties, QueueAssumption
    <2>3. <<Gap(dropped)>> \in Seq(Slots) /\ Len(<<Gap(dropped)>>) = 1
      BY <2>1, SlotTypes
    <2>4. MakeRoom(queue) = <<Gap(dropped)>> \o kept
      BY <1>2 DEF MakeRoom
    <2> QED
      BY <1>2, <2>2, <2>3, <2>4, ConcatProperties, QueueAssumption
  <1> QED
    BY <1>1, <1>2

\* Overwriting an entry does not change what follows it.
LEMMA OverwrittenSuffix ==
  ASSUME NEW S, NEW s \in Seq(S), NEW h \in 1..Len(s), NEW e \in S
  PROVE  /\ [s EXCEPT ![h] = e] \in Seq(S)
         /\ Len([s EXCEPT ![h] = e]) = Len(s)
         /\ SubSeq([s EXCEPT ![h] = e], h + 1, Len(s)) = SubSeq(s, h + 1, Len(s))
  <1> DEFINE z == [s EXCEPT ![h] = e]
  <1>1. /\ z \in Seq(S)
        /\ Len(z) = Len(s)
        /\ \A i \in 1 .. Len(s) : i # h => z[i] = s[i]
    OBVIOUS
  <1> HIDE DEF z
  <1>2. SubSeq(z, h + 1, Len(s)) = SubSeq(s, h + 1, Len(s))
    <2>1. \A i \in h + 1 .. Len(s) : z[i] = s[i] /\ s[i] \in S
      BY <1>1
    <2> QED
      BY <1>1, <2>1
  <1> QED
    BY <1>1, <1>2 DEF z

\* The queue after a pop is the queue before it without its head.
LEMMA AfterPopType ==
  ASSUME TypeOK, head < Len(items)
  PROVE  /\ AfterPop[1] \in Seq(Slots)
         /\ AfterPop[2] \in 0..Len(AfterPop[1])
         /\ Len(AfterPop[1]) - AfterPop[2] = Len(items) - (head + 1)
         /\ SubSeq(AfterPop[1], AfterPop[2] + 1, Len(AfterPop[1])) = Tail(Pending)
  <1> DEFINE h == head + 1
             zeroed == [items EXCEPT ![h] = Zero]
             rest == SubSeq(zeroed, h + 1, Len(items))
  <1>1. h \in 1..Len(items) /\ Len(items) \in Nat /\ items \in Seq(Slots)
    BY DEF TypeOK
  <1>2. Pending = SubSeq(items, h, Len(items))
    BY DEF Pending
  <1>3. AfterPop = IF h = Len(items) THEN <<<<>>, 0>>
                   ELSE IF h > CompactAt /\ h * 2 >= Len(items)
                        THEN <<rest, 0>> ELSE <<zeroed, h>>
    BY DEF AfterPop
  <1> SUFFICES /\ AfterPop[1] \in Seq(Slots)
               /\ AfterPop[2] \in 0..Len(AfterPop[1])
               /\ Len(AfterPop[1]) - AfterPop[2] = Len(items) - h
               /\ SubSeq(AfterPop[1], AfterPop[2] + 1, Len(AfterPop[1])) = Tail(Pending)
    OBVIOUS
  <1> HIDE DEF h
  <1>4. /\ zeroed \in Seq(Slots)
        /\ Len(zeroed) = Len(items)
        /\ rest = SubSeq(items, h + 1, Len(items))
    <2>1. Zero \in Slots
      BY SlotTypes
    <2> QED
      BY <1>1, <2>1, OverwrittenSuffix
  <1> HIDE DEF zeroed
  <1>5. rest = Tail(Pending)
    BY <1>1, <1>2, <1>4, HeadTailOfSubSeq, SMTT(30)
  <1>6. rest \in Seq(Slots) /\ Len(rest) = Len(items) - h
    BY <1>1, <1>4, DropPrefix
  <1> HIDE DEF rest
  <1>7. CASE h = Len(items)
    <2>1. AfterPop[1] = <<>> /\ AfterPop[2] = 0
      BY <1>3, <1>7
    <2>2. rest = <<>>
      BY <1>1, <1>6, <1>7, EmptySeq
    <2>3. SubSeq(<<>>, 1, 0) = <<>>
      BY SubSeqEmpty
    <2> QED
      BY <1>1, <1>5, <1>7, <2>1, <2>2, <2>3
  <1>8. CASE h # Len(items) /\ h > CompactAt /\ h * 2 >= Len(items)
    <2>1. AfterPop[1] = rest /\ AfterPop[2] = 0
      BY <1>3, <1>8
    <2>2. SubSeq(rest, 1, Len(rest)) = rest
      BY <1>6, SubSeqFull
    <2> QED
      BY <1>1, <1>5, <1>6, <2>1, <2>2
  <1>9. CASE h # Len(items) /\ ~(h > CompactAt /\ h * 2 >= Len(items))
    <2>1. AfterPop[1] = zeroed /\ AfterPop[2] = h
      BY <1>3, <1>9
    <2> QED
      BY <1>1, <1>4, <1>5, <2>1 DEF rest
  <1> QED
    BY <1>7, <1>8, <1>9
-----------------------------------------------------------------------------
LEMMA InitType == Init => TypeOK
  <1> SUFFICES ASSUME Init PROVE TypeOK
    OBVIOUS
  <1>1. items \in Seq(Slots) /\ received \in Seq(Slots) /\ Len(items) = 0
    BY DEF Init
  <1>2. /\ pc \in [Threads -> {"idle", "signal", "lock", "wait"}]
        /\ outcome \in [Consumers -> {"none", "item", "canceled", "closed", "terminal"}]
    BY DEF Init
  <1>3. bounded \in BOOLEAN /\ notify \in BOOLEAN /\ closed \in BOOLEAN
    BY DEF Init
  <1>4. head \in 0..Len(items) /\ pushed \in Nat /\ err \in Errors
    BY <1>1 DEF Init, Errors
  <1> QED
    BY <1>1, <1>2, <1>3, <1>4 DEF TypeOK

LEMMA NextType == TypeOK /\ [Next]_vars => TypeOK'
  <1> SUFFICES ASSUME TypeOK, [Next]_vars PROVE TypeOK'
    OBVIOUS
  <1> USE DEF Goto, Threads, Errors
  <1>1. ASSUME NEW t \in Threads, signal(t) PROVE TypeOK'
    BY <1>1 DEF signal, TypeOK
  <1>2. ASSUME NEW t \in Senders, Push(t) PROVE TypeOK'
    <2>1. Item(pushed + 1) \in Slots
      BY SlotTypes DEF TypeOK
    <2> QED
      BY <1>2, <2>1 DEF Push, TypeOK
  <1>3. ASSUME NEW t \in Senders, PushBounded(t) PROVE TypeOK'
    <2>1. Item(pushed + 1) \in Slots
      BY SlotTypes DEF TypeOK
    <2>2. MakeRoom(Pending) \in Seq(Slots)
      BY PendingType, MakeRoomType
    <2>3. items' \in Seq(Slots) /\ head' = 0
      BY <1>3, <2>1, <2>2 DEF PushBounded
    <2> QED
      BY <1>3, <2>3 DEF PushBounded, TypeOK
  <1>4. ASSUME NEW t \in Senders, NEW e \in Errors, Close(t, e) PROVE TypeOK'
    BY <1>4 DEF Close, TypeOK
  <1>5. ASSUME NEW c \in Consumers, NextEnter(c) PROVE TypeOK'
    BY <1>5 DEF NextEnter, TypeOK
  <1>6. ASSUME NEW c \in Consumers, NextPop(c) PROVE TypeOK'
    <2>1. /\ items' \in Seq(Slots)
          /\ head' \in 0..Len(items')
      BY <1>6, AfterPopType DEF NextPop
    <2>2. items[head + 1] \in Slots
      BY <1>6, ElementOfSeq DEF NextPop, TypeOK
    <2> QED
      BY <1>6, <2>1, <2>2 DEF NextPop, TypeOK
  <1>7. ASSUME NEW c \in Consumers, NextClosed(c) PROVE TypeOK'
    BY <1>7 DEF NextClosed, TypeOK
  <1>8. ASSUME NEW c \in Consumers, NextPark(c) PROVE TypeOK'
    BY <1>8 DEF NextPark, TypeOK
  <1>9. ASSUME NEW c \in Consumers, NextWake(c) PROVE TypeOK'
    BY <1>9 DEF NextWake, TypeOK
  <1>10. ASSUME NEW c \in Consumers, NextCancel(c) PROVE TypeOK'
    BY <1>10 DEF NextCancel, TypeOK
  <1>11. CASE UNCHANGED vars
    BY <1>11 DEF vars, TypeOK
  <1> QED
    BY <1>1, <1>2, <1>3, <1>4, <1>5, <1>6, <1>7, <1>8, <1>9, <1>10, <1>11
    DEF Next, SenderStep, ConsumerStep

\* The queue's fields keep their types: the head index stays within the
\* backing slice whatever the goroutines do.
THEOREM TypeCorrect == Spec => []TypeOK
  BY InitType, NextType, PTL DEF Spec

-----------------------------------------------------------------------------
\* A step that leaves a goroutine about to signal (or about to look at the
\* queue) establishes WakeupNotLost by itself.
LEMMA AwakeSuffices ==
  ASSUME NEW t \in Threads, pc'[t] \in {"signal", "lock"}
  PROVE  WakeupNotLost'
  BY DEF WakeupNotLost, Threads

LEMMA NextWakeup == TypeOK /\ WakeupNotLost /\ [Next]_vars => WakeupNotLost'
  <1> SUFFICES ASSUME TypeOK, WakeupNotLost, [Next]_vars PROVE WakeupNotLost'
    OBVIOUS
  <1> USE DEF Goto
  <1>1. ASSUME NEW t \in Threads, signal(t) PROVE WakeupNotLost'
    BY <1>1 DEF signal, WakeupNotLost
  <1>2. ASSUME NEW t \in Senders, Push(t) PROVE WakeupNotLost'
    BY <1>2, AwakeSuffices DEF Push, TypeOK, Threads
  <1>3. ASSUME NEW t \in Senders, PushBounded(t) PROVE WakeupNotLost'
    BY <1>3, AwakeSuffices DEF PushBounded, TypeOK, Threads
  <1>4. ASSUME NEW t \in Senders, NEW e \in Errors, Close(t, e) PROVE WakeupNotLost'
    BY <1>4, AwakeSuffices DEF Close, TypeOK, Threads
  <1>5. ASSUME NEW c \in Consumers, NextEnter(c) PROVE WakeupNotLost'
    BY <1>5, AwakeSuffices DEF NextEnter, TypeOK, Threads
  <1>6. ASSUME NEW c \in Consumers, NextPop(c) PROVE WakeupNotLost'
    <2>1. CASE head' < Len(items') \/ closed
      BY <1>6, <2>1, AwakeSuffices DEF NextPop, TypeOK, Threads
    <2>2. CASE ~(head' < Len(items') \/ closed)
      BY <1>6, <2>2 DEF NextPop, WakeupNotLost
    <2> QED
      BY <2>1, <2>2
  <1>7. ASSUME NEW c \in Consumers, NextClosed(c) PROVE WakeupNotLost'
    BY <1>7, AwakeSuffices DEF NextClosed, TypeOK, Threads
  <1>8. ASSUME NEW c \in Consumers, NextPark(c) PROVE WakeupNotLost'
    BY <1>8 DEF NextPark, WakeupNotLost, TypeOK
  <1>9. ASSUME NEW c \in Consumers, NextWake(c) PROVE WakeupNotLost'
    BY <1>9, AwakeSuffices DEF NextWake, TypeOK, Threads
  <1>10. ASSUME NEW c \in Consumers, NextCancel(c) PROVE WakeupNotLost'
    <2>1. \A t \in Threads : pc[t] \in {"signal", "lock"} => pc'[t] = pc[t]
      BY <1>10 DEF NextCancel, TypeOK, Threads
    <2>2. \A d \in Consumers : pc'[d] = "wait" => pc[d] = "wait"
      BY <1>10 DEF NextCancel, TypeOK, Threads
    <2> QED
      BY <1>10, <2>1, <2>2 DEF NextCancel, WakeupNotLost
  <1>11. CASE UNCHANGED vars
    BY <1>11 DEF vars, WakeupNotLost
  <1> QED
    BY <1>1, <1>2, <1>3, <1>4, <1>5, <1>6, <1>7, <1>8, <1>9, <1>10, <1>11
    DEF Next, SenderStep, ConsumerStep

\* No interleaving of pushes, closes, pops and cancellations loses a wakeup:
\* the 1-buffered channel is enough for any number of waiters.
THEOREM NoLostWakeup == Spec => []WakeupNotLost
  <1>1. Init => WakeupNotLost
    BY DEF Init, WakeupNotLost, Threads
  <1> QED
    BY <1>1, TypeCorrect, NextWakeup, PTL DEF Spec
-----------------------------------------------------------------------------
\* What a Next that reported the close has seen stays true.
CloseSeenDrained ==
  (\E c \in Consumers : outcome[c] \in {"closed", "terminal"}) => closed /\ head = Len(items)

LEMMA NextCloseSeen == TypeOK /\ CloseSeenDrained /\ [Next]_vars => CloseSeenDrained'
  <1> SUFFICES ASSUME TypeOK, CloseSeenDrained, [Next]_vars PROVE CloseSeenDrained'
    OBVIOUS
  <1> USE DEF Goto
  <1>1. ASSUME NEW t \in Threads, signal(t) PROVE CloseSeenDrained'
    BY <1>1 DEF signal, CloseSeenDrained
  <1>2. ASSUME NEW t \in Senders, Push(t) PROVE CloseSeenDrained'
    BY <1>2 DEF Push, CloseSeenDrained
  <1>3. ASSUME NEW t \in Senders, PushBounded(t) PROVE CloseSeenDrained'
    BY <1>3 DEF PushBounded, CloseSeenDrained
  <1>4. ASSUME NEW t \in Senders, NEW e \in Errors, Close(t, e) PROVE CloseSeenDrained'
    BY <1>4 DEF Close, CloseSeenDrained
  <1>5. ASSUME NEW c \in Consumers, NextEnter(c) PROVE CloseSeenDrained'
    BY <1>5 DEF NextEnter, CloseSeenDrained, TypeOK
  <1>6. ASSUME NEW c \in Consumers, NextPop(c) PROVE CloseSeenDrained'
    <2>1. \A d \in Consumers : outcome'[d] \notin {"closed", "terminal"}
      BY <1>6 DEF NextPop, CloseSeenDrained, TypeOK
    <2> QED
      BY <2>1 DEF CloseSeenDrained
  <1>7. ASSUME NEW c \in Consumers, NextClosed(c) PROVE CloseSeenDrained'
    BY <1>7 DEF NextClosed, CloseSeenDrained
  <1>8. ASSUME NEW c \in Consumers, NextPark(c) PROVE CloseSeenDrained'
    BY <1>8 DEF NextPark, CloseSeenDrained
  <1>9. ASSUME NEW c \in Consumers, NextWake(c) PROVE CloseSeenDrained'
    BY <1>9 DEF NextWake, CloseSeenDrained
  <1>10. ASSUME NEW c \in Consumers, NextCancel(c) PROVE CloseSeenDrained'
    BY <1>10 DEF NextCancel, CloseSeenDrained, TypeOK
  <1>11. CASE UNCHANGED vars
    BY <1>11 DEF vars, CloseSeenDrained
  <1> QED
    BY <1>1, <1>2, <1>3, <1>4, <1>5, <1>6, <1>7, <1>8, <1>9, <1>10, <1>11
    DEF Next, SenderStep, ConsumerStep

\* Once a Next has reported the close no Next returns an item any more: the
\* close is only surfaced on a drained queue, and nothing is pushed after it.
THEOREM DrainBeforeClose == Spec => DrainedBeforeClose
  <1>1. Init => CloseSeenDrained
    BY DEF Init, CloseSeenDrained
  <1>2. CloseSeenDrained /\ [Next]_vars
          => [(\E c \in Consumers : outcome[c] \in {"closed", "terminal"}) => received' = received]_vars
    <2> SUFFICES ASSUME CloseSeenDrained, Next,
                        NEW c \in Consumers, outcome[c] \in {"closed", "terminal"}
                 PROVE  received' = received
      OBVIOUS
    <2>1. head = Len(items)
      BY DEF CloseSeenDrained
    <2> QED
      BY <2>1 DEF Next, SenderStep, ConsumerStep, signal, Push, PushBounded, Close, NextEnter,
                  NextPop, NextClosed, NextPark, NextWake, NextCancel
  <1> QED
    BY <1>1, <1>2, TypeCorrect, NextCloseSeen, PTL DEF Spec, DrainedBeforeClose

-----------------------------------------------------------------------------
\* Appending to the backing slice appends to what is pending.
LEMMA AppendSuffix ==
  ASSUME NEW S, NEW s \in Seq(S), NEW m \in 0..Len(s), NEW e \in S
  PROVE  SubSeq(Append(s, e), m + 1, Len(Append(s, e))) = Append(SubSeq(s, m + 1, Len(s)), e)
  <1> DEFINE a == Append(s, e)
             p == SubSeq(s, m + 1, Len(s))
             l == SubSeq(a, m + 1, Len(a))
             r == Append(p, e)
  <1>1. /\ a \in Seq(S)
        /\ Len(a) = Len(s) + 1
        /\ \A i \in 1 .. Len(s) : a[i] = s[i]
        /\ a[Len(s) + 1] = e
        /\ Len(s) \in Nat
    OBVIOUS
  <1>2. /\ p \in Seq(S)
        /\ Len(p) = Len(s) - m
        /\ \A i \in 1 .. Len(s) - m : p[i] = s[m + i]
    BY DropPrefix
  <1> HIDE DEF a
  <1>3. /\ l \in Seq(S)
        /\ Len(l) = Len(s) + 1 - m
        /\ \A i \in 1 .. Len(s) + 1 - m : l[i] = a[m + i]
    BY <1>1, DropPrefix
  <1> HIDE DEF p, l
  <1>4. /\ r \in Seq(S)
        /\ Len(r) = Len(p) + 1
        /\ \A i \in 1 .. Len(p) : r[i] = p[i]
        /\ r[Len(p) + 1] = e
    BY <1>2
  <1> HIDE DEF r
  <1>5. ASSUME NEW i \in 1 .. Len(l) PROVE l[i] = r[i]
    <2>1. m \in Nat /\ Len(p) \in Nat /\ i \in 1 .. Len(s) + 1 - m /\ l[i] = a[m + i]
      BY <1>1, <1>2, <1>3
    <2>2. CASE i = Len(p) + 1
      BY <1>1, <1>2, <1>4, <2>1, <2>2
    <2>3. CASE i # Len(p) + 1
      <3>0. Len(s) \in Nat /\ Len(p) = Len(s) - m
        BY <1>1, <1>2, Zenon
      <3>1. i \in 1 .. Len(p) /\ m + i \in 1 .. Len(s)
        BY <2>1, <2>3, <3>0
      <3>2. l[i] = s[m + i]
        BY <1>1, <2>1, <3>1
      <3>3. r[i] = p[i] /\ p[i] = s[m + i]
        BY <1>2, <1>4, <3>1
      <3> QED
        BY <3>2, <3>3
    <2> QED
      BY <2>2, <2>3
  <1>6. Len(l) = Len(r)
    BY <1>1, <1>2, <1>3, <1>4
  <1>7. l = r
    BY <1>3, <1>4, <1>5, <1>6, SeqEqual
  <1> QED
    BY <1>7 DEF a, p, l, r

\* How each step changes what is pending: an append, a push that makes room, a
\* pop, or nothing at all.
LEMMA PendingAfterPush ==
  ASSUME TypeOK, NEW t \in Senders, Push(t)
  PROVE  Pending' = Append(Pending, Item(pushed + 1))
  <1>1. Item(pushed + 1) \in Slots /\ items \in Seq(Slots) /\ head \in 0..Len(items)
    BY SlotTypes DEF TypeOK
  <1> QED
    BY <1>1, AppendSuffix DEF Push, Pending

LEMMA PendingAfterPushBounded ==
  ASSUME TypeOK, NEW t \in Senders, PushBounded(t)
  PROVE  Pending' = Append(MakeRoom(Pending), Item(pushed + 1))
  <1> DEFINE q == Append(MakeRoom(Pending), Item(pushed + 1))
  <1>1. q \in Seq(Slots)
    <2>1. Item(pushed + 1) \in Slots
      BY SlotTypes DEF TypeOK
    <2>2. MakeRoom(Pending) \in Seq(Slots)
      BY PendingType, MakeRoomType
    <2> QED
      BY <2>1, <2>2
  <1>2. items' = q /\ head' = 0
    BY DEF PushBounded
  <1> HIDE DEF q
  <1>3. SubSeq(q, 0 + 1, Len(q)) = q
    BY <1>1, SubSeqFull
  <1>4. Pending' = q
    BY <1>2, <1>3 DEF Pending
  <1> QED
    BY <1>4 DEF q

LEMMA PendingAfterPop ==
  ASSUME TypeOK, NEW c \in Consumers, NextPop(c)
  PROVE  /\ Pending # <<>>
         /\ Pending' = Tail(Pending)
         /\ received' = Append(received, Head(Pending))
  <1>1. head < Len(items) /\ head \in Nat /\ Len(items) \in Nat
    BY DEF NextPop, TypeOK
  <1>2. Pending \in Seq(Slots) /\ Len(Pending) > 0 /\ Pending[1] = items[head + 1]
    BY <1>1, PendingType
  <1>3. Pending # <<>> /\ Head(Pending) = items[head + 1]
    BY <1>2
  <1>4. Pending' = Tail(Pending)
    BY <1>1, AfterPopType DEF NextPop, Pending
  <1> QED
    BY <1>3, <1>4 DEF NextPop

\* Every other step leaves what is pending, and what was received, alone.
OtherStep ==
  \/ \E t \in Threads : signal(t)
  \/ \E c \in Consumers : \/ NextEnter(c) \/ NextClosed(c) \/ NextPark(c)
                          \/ NextWake(c) \/ NextCancel(c)

LEMMA PendingOtherwise ==
  ASSUME OtherStep \/ UNCHANGED vars
  PROVE  Pending' = Pending /\ UNCHANGED <<closed, pushed, received>>
  BY DEF OtherStep, signal, NextEnter, NextClosed, NextPark, NextWake, NextCancel, Pending, vars

-----------------------------------------------------------------------------
LEMMA InitFifo == Init => Fifo!FifoInit
  <1> SUFFICES ASSUME Init PROVE Fifo!FifoInit
    OBVIOUS
  <1>1. Pending = <<>>
    BY SubSeqEmpty DEF Init, Pending
  <1> QED
    BY <1>1 DEF Init, Fifo!FifoInit

LEMMA NextFifo == TypeOK /\ [Next]_vars => [Fifo!FifoNext]_(Fifo!fifoVars)
  <1> SUFFICES ASSUME TypeOK, [Next]_vars PROVE [Fifo!FifoNext]_(Fifo!fifoVars)
    OBVIOUS
  <1>1. ASSUME NEW t \in Senders, Push(t) PROVE Fifo!Accept
    BY <1>1, PendingAfterPush DEF Push, Fifo!Accept, Item, Fifo!FifoItem
  <1>2. ASSUME NEW t \in Senders, PushBounded(t)
        PROVE  Fifo!Accept \/ \E d \in 1..Len(Pending) : Fifo!AcceptDropping(d)
    <2>1. Pending' = Append(MakeRoom(Pending), Item(pushed + 1))
      BY <1>2, PendingAfterPushBounded
    <2>2. CASE Len(Pending) < Capacity
      BY <1>2, <2>1, <2>2 DEF PushBounded, MakeRoom, Fifo!Accept, Item, Fifo!FifoItem
    <2>3. CASE ~(Len(Pending) < Capacity)
      <3> DEFINE d == Len(Pending) - (Capacity - 2)
      <3>1. d \in 1..Len(Pending)
        BY <2>3, PendingType, QueueAssumption
      <3>2. MakeRoom(Pending) = <<Gap(d)>> \o SubSeq(Pending, d + 1, Len(Pending))
        BY <2>3 DEF MakeRoom
      <3>3. Fifo!AcceptDropping(d)
        BY <1>2, <2>1, <3>2
        DEF PushBounded, Fifo!AcceptDropping, Item, Gap, Fifo!FifoItem, Fifo!FifoGap
      <3> QED
        BY <3>1, <3>3
    <2> QED
      BY <2>2, <2>3
  <1>3. ASSUME NEW t \in Senders, NEW e \in Errors, Close(t, e) PROVE Fifo!Shut
    BY <1>3 DEF Close, Fifo!Shut, Pending
  <1>4. ASSUME NEW c \in Consumers, NextPop(c) PROVE Fifo!Deliver
    <2>1. closed' = closed /\ pushed' = pushed
      BY <1>4 DEF NextPop
    <2> QED
      BY <1>4, <2>1, PendingAfterPop DEF Fifo!Deliver
  <1>5. CASE OtherStep \/ UNCHANGED vars
    BY <1>5, PendingOtherwise DEF Fifo!fifoVars
  <1> QED
    BY <1>1, <1>2, <1>3, <1>4, <1>5
    DEF Next, SenderStep, ConsumerStep, OtherStep, Fifo!FifoNext

\* The queue implements the lossy FIFO: whatever the goroutines do, a step
\* accepts one item, hands one out, closes the queue or changes nothing.
THEOREM RefinesFifo == Spec => ImplementsFifo
  BY InitFifo, NextFifo, TypeCorrect, PTL DEF Spec, ImplementsFifo, Fifo!FifoSpec
-----------------------------------------------------------------------------
\* Putting one entry in front of a sequence.
LEMMA Prepend ==
  ASSUME NEW S, NEW e \in S, NEW s \in Seq(S)
  PROVE  /\ Len(<<e>> \o s) = Len(s) + 1
         /\ \A j \in 2 .. Len(s) + 1 : (<<e>> \o s)[j] = s[j - 1]
  OBVIOUS

\* What MakeRoom leaves after its head is what the queue held.
LEMMA MakeRoomKeepsItems ==
  ASSUME NEW queue \in Seq(Slots),
         \A j \in 2..Len(queue) : queue[j].kind = "item"
  PROVE  \A j \in 2..Len(MakeRoom(queue)) : MakeRoom(queue)[j].kind = "item"
  <1> DEFINE dropped == Len(queue) - (Capacity - 2)
             kept == SubSeq(queue, dropped + 1, Len(queue))
             room == <<Gap(dropped)>> \o kept
  <1>1. CASE Len(queue) < Capacity
    BY <1>1 DEF MakeRoom
  <1>2. CASE ~(Len(queue) < Capacity)
    <2>1. MakeRoom(queue) = room
      BY <1>2 DEF MakeRoom
    <2>2. dropped \in 0..Len(queue) /\ dropped >= 2 /\ Len(queue) \in Nat
      BY <1>2, QueueAssumption
    <2> HIDE DEF dropped
    <2>3. /\ kept \in Seq(Slots)
          /\ Len(kept) = Len(queue) - dropped
          /\ \A i \in 1..Len(queue) - dropped : kept[i] = queue[dropped + i]
      BY <2>2, DropPrefix
    <2>4. Gap(dropped) \in Slots
      BY <2>2, SlotTypes
    <2> HIDE DEF kept
    <2>5. /\ Len(room) = Len(kept) + 1
          /\ \A j \in 2 .. Len(kept) + 1 : room[j] = kept[j - 1]
      BY <2>3, <2>4, Prepend
    <2> HIDE DEF room
    <2>6. ASSUME NEW j \in 2..Len(room) PROVE room[j].kind = "item"
      <3>1. j - 1 \in 1..Len(queue) - dropped /\ room[j] = kept[j - 1]
        BY <2>2, <2>3, <2>5
      <3>2. dropped + (j - 1) \in 2..Len(queue)
        BY <2>2, <3>1
      <3> QED
        BY <2>3, <3>1, <3>2
    <2> QED
      BY <2>1, <2>6
  <1> QED
    BY <1>1, <1>2

\* A queue does not change the way its producers push.
LEMMA ModeFixed == [Next]_vars => bounded' = bounded
  BY DEF Next, SenderStep, ConsumerStep, signal, Push, PushBounded, Close, NextEnter,
         NextPop, NextClosed, NextPark, NextWake, NextCancel, vars

LEMMA NextBounded == TypeOK /\ PendingBounded /\ [Next]_vars => PendingBounded'
  <1> SUFFICES ASSUME TypeOK, PendingBounded, [Next]_vars, bounded PROVE PendingBounded'
    BY ModeFixed DEF PendingBounded
  <1>0. Pending \in Seq(Slots) /\ Len(Pending) \in Nat /\ Len(Pending) <= Capacity
    BY PendingType DEF PendingBounded, TypeOK
  <1>1. ASSUME NEW t \in Senders, PushBounded(t) PROVE PendingBounded'
    <2> DEFINE room == MakeRoom(Pending)
               q == Append(room, Item(pushed + 1))
    <2>1. /\ room \in Seq(Slots)
          /\ Len(room) \in Nat /\ Len(room) <= Capacity - 1
          /\ \A j \in 2..Len(room) : room[j].kind = "item"
      <3>1. \A j \in 2..Len(Pending) : Pending[j].kind = "item"
        BY DEF PendingBounded
      <3>2. \A j \in 2..Len(room) : room[j].kind = "item"
        BY <1>0, <3>1, MakeRoomKeepsItems
      <3> QED
        BY <1>0, <3>2, MakeRoomType, QueueAssumption
    <2>2. Item(pushed + 1) \in Slots /\ Item(pushed + 1).kind = "item"
      BY SlotTypes DEF TypeOK, Item
    <2> HIDE DEF room
    <2>3. /\ Len(q) = Len(room) + 1
          /\ \A j \in 2..Len(q) : q[j].kind = "item"
      BY <2>1, <2>2
    <2>4. Pending' = q
      BY <1>1, PendingAfterPushBounded DEF room
    <2> QED
      BY <2>1, <2>3, <2>4, QueueAssumption DEF PendingBounded
  <1>2. ASSUME NEW c \in Consumers, NextPop(c) PROVE PendingBounded'
    <2>1. Pending' = Tail(Pending) /\ Pending # <<>>
      BY <1>2, PendingAfterPop
    <2>2. /\ Len(Tail(Pending)) = Len(Pending) - 1
          /\ \A j \in 1..Len(Pending) - 1 : Tail(Pending)[j] = Pending[j + 1]
      BY <1>0, <2>1
    <2> QED
      BY <1>0, <2>1, <2>2, QueueAssumption DEF PendingBounded
  <1>3. ASSUME NEW t \in Senders, NEW e \in Errors, Close(t, e) PROVE PendingBounded'
    BY <1>3 DEF Close, PendingBounded, Pending
  <1>4. CASE OtherStep \/ UNCHANGED vars
    BY <1>4, PendingOtherwise DEF PendingBounded
  <1> QED
    BY <1>1, <1>2, <1>3, <1>4 DEF Next, SenderStep, ConsumerStep, OtherStep, Push

\* PushBounded keeps every queue within its capacity, for every capacity of at
\* least two, and the gap marker can only be the first pending entry.
THEOREM BoundKept == Spec => []PendingBounded
  <1>1. Init => PendingBounded
    <2> SUFFICES ASSUME Init PROVE PendingBounded
      OBVIOUS
    <2>1. Pending = <<>>
      BY SubSeqEmpty DEF Init, Pending
    <2> QED
      BY <2>1, QueueAssumption DEF PendingBounded
  <1> QED
    BY <1>1, TypeCorrect, NextBounded, PTL DEF Spec
=============================================================================
