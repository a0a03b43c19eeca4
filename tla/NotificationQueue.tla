------------------------- MODULE NotificationQueue -------------------------
(***************************************************************************)
(* notificationQueue (pkg/llm/codex/notification_queue.go): the queue of one *)
(* turn, login or process consumer.  The read loop pushes, evicting the      *)
(* oldest entry of a full ring and counting the eviction; the consumer calls *)
(* next, which reports the evictions before it hands out anything else;      *)
(* close leaves an error behind.                                             *)
(*                                                                         *)
(* The notifications of the scope are numbered as they arrive, those that    *)
(* the router buffered before the consumer registered included.              *)
(***************************************************************************)
EXTENDS NotificationRing

CONSTANT MaxArrivals   \* bound: notifications that ever arrive

ASSUME ArrivalsAssumption == MaxArrivals \in Nat

VARIABLES
  ring,       \* q.notifies
  dropped,    \* q.dropped
  notify,     \* a wakeup token is buffered in q.notify
  err,        \* q.err: "nil" or the error of close
  pc,         \* the consumer: "idle", "lock" (in next), "wait" (in its select)
  outcome,    \* how the consumer's last next returned
  arrived,    \* history: notifications that arrived so far
  delivered,  \* history: notifications that next returned
  reported    \* history: evictions that next reported, in all

qvars == <<ring, dropped, notify, err, pc, outcome, arrived, delivered, reported>>

\* The ring, its counters and the consumer's loop keep their types.
TypeOK ==
  /\ ring \in Ring
  /\ dropped \in Nat
  /\ notify \in BOOLEAN
  /\ err \in {"nil", "closed"}
  /\ pc \in {"idle", "lock", "wait"}
  /\ outcome \in {"none", "notification", "dropped", "canceled", "closed"}
  /\ arrived \in Nat /\ delivered \in Nat /\ reported \in Nat

\* The router's register hands the queue over with the notifications that were
\* pending, and with the count of those that did not fit.
Init ==
  \E waiting \in 0..RingCap, lost \in 0..MaxArrivals :
    /\ lost > 0 => waiting = RingCap
    /\ waiting + lost <= MaxArrivals
    /\ ring = appendAll(newNotificationRing, [i \in 1..waiting |-> lost + i])
    /\ dropped = lost
    /\ notify = (lost > 0)
    /\ err = "nil"
    /\ pc = "idle"
    /\ outcome = "none"
    /\ arrived = waiting + lost
    /\ delivered = 0
    /\ reported = 0

-----------------------------------------------------------------------------

\* push; a closed queue discards the notification.
Push ==
  /\ err = "nil" /\ arrived < MaxArrivals
  /\ ring' = pushDisplacing(ring, arrived + 1)
  /\ dropped' = IF Displaces(ring) THEN dropped + 1 ELSE dropped
  /\ arrived' = arrived + 1
  /\ notify' = TRUE
  /\ UNCHANGED <<err, pc, outcome, delivered, reported>>

\* close; only the first one counts.
Close ==
  /\ err = "nil"
  /\ err' = "closed"
  /\ notify' = TRUE
  /\ UNCHANGED <<ring, dropped, pc, outcome, arrived, delivered, reported>>

\* The consumer calls next.
NextEnter ==
  /\ pc = "idle"
  /\ pc' = "lock"
  /\ outcome' = "none"
  /\ UNCHANGED <<ring, dropped, notify, err, arrived, delivered, reported>>

\* next reports the evictions since the last report.
NextDropped ==
  /\ pc = "lock" /\ dropped > 0
  /\ dropped' = 0
  /\ reported' = reported + dropped
  /\ outcome' = "dropped"
  /\ pc' = "idle"
  /\ UNCHANGED <<ring, notify, err, arrived, delivered>>

\* Mutated form of NextPop: a pop does not wait for the drop report.
PopBeforeReport ==
  /\ pc = "lock" /\ ring.length > 0
  /\ ring' = pop(ring)
  /\ delivered' = delivered + 1
  /\ outcome' = "notification"
  /\ pc' = "idle"
  /\ UNCHANGED <<dropped, notify, err, arrived, reported>>

\* next returns the oldest notification.
NextPop ==
  /\ pc = "lock" /\ dropped = 0 /\ ring.length > 0
  /\ ring' = pop(ring)
  /\ delivered' = delivered + 1
  /\ outcome' = "notification"
  /\ pc' = "idle"
  /\ UNCHANGED <<dropped, notify, err, arrived, reported>>

\* next returns the error of close once there is nothing else to return.
NextClosed ==
  /\ pc = "lock" /\ dropped = 0 /\ ring.length = 0 /\ err # "nil"
  /\ outcome' = "closed"
  /\ pc' = "idle"
  /\ UNCHANGED <<ring, dropped, notify, err, arrived, delivered, reported>>

NextPark ==
  /\ pc = "lock" /\ dropped = 0 /\ ring.length = 0 /\ err = "nil"
  /\ pc' = "wait"
  /\ UNCHANGED <<ring, dropped, notify, err, outcome, arrived, delivered, reported>>

\* The select receives the wakeup, and the loop starts over.
NextWake ==
  /\ pc = "wait" /\ notify
  /\ notify' = FALSE
  /\ pc' = "lock"
  /\ UNCHANGED <<ring, dropped, err, outcome, arrived, delivered, reported>>

\* The select sees the context end.
NextCancel ==
  /\ pc = "wait"
  /\ outcome' = "canceled"
  /\ pc' = "idle"
  /\ UNCHANGED <<ring, dropped, notify, err, arrived, delivered, reported>>

-----------------------------------------------------------------------------
ConsumerStep == NextDropped \/ NextPop \/ NextClosed \/ NextPark \/ NextWake

Next == Push \/ Close \/ NextEnter \/ ConsumerStep \/ NextCancel

Spec == Init /\ [][Next]_qvars

\* A runnable consumer runs; nobody has to push, close, call next or cancel.
FairSpec == Spec /\ WF_qvars(ConsumerStep)

-----------------------------------------------------------------------------
\* No notification is lost silently, duplicated or reordered: what is in the
\* ring is exactly the run of notifications that follows those already
\* delivered, reported as evicted or counted for the next report.
NoSilentLoss ==
  /\ arrived = delivered + reported + dropped + ring.length
  /\ \A i \in 1 .. ring.length : Contents(ring)[i] = delivered + reported + dropped + i

\* head, tail and length agree and vacated slots hold no notification, whatever
\* the order of evictions, pops and the reset of an emptied ring.
RingShape ==
  /\ ring.tail = Wrap(ring.head + ring.length)
  /\ \A j \in SlotsOf : ring.values[j] # Vacant <=> \E i \in 1..ring.length : SlotAt(ring, i) = j

\* A consumer does not sleep in next with something to report: the token of
\* push and close covers whatever arrived since it looked.
SleepsOnlyWhenIdle ==
  pc = "wait" => notify \/ (dropped = 0 /\ ring.length = 0 /\ err = "nil")

\* A close lets the consumer drain: it reports the error of close only when all
\* that arrived was delivered or reported.
ErrorOnlyWhenDrained ==
  outcome = "closed" => arrived = delivered + reported

\* The ring, the wakeup channel and the consumer's loop implement a bounded FIFO
\* that gives up its oldest entries.
Bounded == INSTANCE DropOldestQueue
             WITH Limit <- RingCap, buf <- Contents(ring), lost <- dropped,
                  shut <- (err # "nil"), came <- arrived

\* The codex queue implements DropOldestQueue.
ImplementsDropOldest == Bounded!DSpec

\* A consumer blocked in next when the queue closes gets out of it.
CloseReleases == (err # "nil" /\ pc = "wait") ~> (pc = "idle")
=============================================================================
