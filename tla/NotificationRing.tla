-------------------------- MODULE NotificationRing --------------------------
(***************************************************************************)
(* notificationRing (pkg/llm/codex/notification_ring.go): a fixed-capacity  *)
(* circular buffer of notifications.  A ring is a record; a notification is *)
(* the number of its arrival, and 0 is the zero Notification{} that the     *)
(* code leaves in a vacated slot.  Slots are numbered from 0 as in Go.      *)
(***************************************************************************)
EXTENDS Integers, Sequences

CONSTANT RingCap   \* len(r.values); notificationQueueCapacity in the code

ASSUME RingAssumption == RingCap \in Nat \ {0}

SlotsOf == 0 .. RingCap - 1
Vacant == 0

Ring == [values : [SlotsOf -> Nat], head : SlotsOf, tail : SlotsOf, length : 0..RingCap]

newNotificationRing == [values |-> [i \in SlotsOf |-> Vacant], head |-> 0, tail |-> 0, length |-> 0]

\* Indices below 2 * RingCap, modulo RingCap.
Wrap(i) == IF i < RingCap THEN i ELSE i - RingCap

\* The slot of the i-th oldest entry, i >= 1.
SlotAt(r, i) == Wrap(r.head + i - 1)

\* The entries, oldest first.
Contents(r) == [i \in 1 .. r.length |-> r.values[SlotAt(r, i)]]

\* push refuses an entry when the ring is full.
push(r, n) ==
  IF r.length >= RingCap THEN r
  ELSE [values |-> [r.values EXCEPT ![r.tail] = n], head |-> r.head,
        tail |-> Wrap(r.tail + 1), length |-> r.length + 1]

\* appendAll copies in at most two pieces, or refuses what does not fit: the
\* i-th new entry lands i - 1 slots after the tail, around the end.
appendAll(r, s) ==
  IF Len(s) > RingCap - r.length THEN r
  ELSE LET offset(j) == Wrap(j + RingCap - r.tail)
       IN [values |-> [j \in SlotsOf |-> IF offset(j) < Len(s) THEN s[offset(j) + 1] ELSE r.values[j]],
           head |-> r.head, tail |-> Wrap(r.tail + Len(s)), length |-> r.length + Len(s)]

\* The oldest entry leaves.
evict(r) ==
  [values |-> [r.values EXCEPT ![r.head] = Vacant], head |-> Wrap(r.head + 1),
   tail |-> r.tail, length |-> r.length - 1]

\* pushDisplacing evicts the oldest entry of a full ring.
Displaces(r) == r.length >= RingCap

pushDisplacing(r, n) == push(IF Displaces(r) THEN evict(r) ELSE r, n)

\* pop; a ring that becomes empty starts over at slot 0.
pop(r) ==
  IF r.length = 1
  THEN [values |-> [r.values EXCEPT ![r.head] = Vacant], head |-> 0, tail |-> 0, length |-> 0]
  ELSE evict(r)
=============================================================================
