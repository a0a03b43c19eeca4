---------------------------- MODULE NotifyQueue ----------------------------
(***************************************************************************)
(* llm.NotifyQueue (pkg/llm/notifyqueue.go): a mutex-guarded FIFO that      *)
(* wakes its consumers through a 1-buffered channel.  Every operation has a *)
(* critical section under q.mu and, after the unlock, a separate            *)
(* non-blocking send on q.notify; the two are separate steps here, as the   *)
(* goroutine can be preempted between them.                                 *)
(*                                                                         *)
(* Senders are the goroutines that Push, PushBounded or Close; Consumers    *)
(* are the goroutines that call Next, each with a context of its own.       *)
(* Items are numbered in the order in which the queue accepts them.         *)
(***************************************************************************)
EXTENDS Integers, Sequences

CONSTANTS
  Senders,    \* goroutines calling Push / PushBounded / Close
  Consumers,  \* goroutines calling Next
  Capacity,   \* the capacity argument of PushBounded
  CompactAt,  \* consumed prefix above which Next compacts (1024 in the code)
  MaxPush     \* bound: number of items ever pushed

ASSUME QueueAssumption ==
  /\ Senders \cap Consumers = {}
  /\ Capacity \in Nat /\ Capacity >= 2
  /\ CompactAt \in Nat
  /\ MaxPush \in Nat

VARIABLES
  bounded,  \* the producers of this queue call PushBounded, not Push
  items,    \* q.items
  head,     \* q.head: length of the consumed prefix of items
  notify,   \* a wakeup token is buffered in q.notify
  closed,   \* q.closed
  err,      \* q.err
  pc,       \* where each goroutine is
  outcome,  \* how the last Next of each consumer returned
  pushed,   \* history: number of items accepted so far
  received  \* history: what Next has returned, in the order of the pops

vars == <<bounded, items, head, notify, closed, err, pc, outcome, pushed, received>>

Threads == Senders \cup Consumers
Errors == {"nil", "terminal"}

Item(n) == [kind |-> "item", id |-> n]
Gap(n) == [kind |-> "gap", id |-> n]
Zero == [kind |-> "zero", id |-> 0]
Slots == [kind : {"item", "gap", "zero"}, id : Nat]

\* What is queued: items without the consumed prefix.
Pending == SubSeq(items, head + 1, Len(items))

\* Everything the consumers got or will get if nothing more is pushed.
Stream == received \o Pending

\* The consumed prefix stays within the slice and the wakeup channel holds at most one token.
TypeOK ==
  /\ bounded \in BOOLEAN
  /\ items \in Seq(Slots)
  /\ head \in 0..Len(items)
  /\ notify \in BOOLEAN
  /\ closed \in BOOLEAN
  /\ err \in Errors
  /\ pc \in [Threads -> {"idle", "signal", "lock", "wait"}]
  /\ outcome \in [Consumers -> {"none", "item", "canceled", "closed", "terminal"}]
  /\ pushed \in Nat
  /\ received \in Seq(Slots)

Init ==
  /\ bounded \in BOOLEAN
  /\ items = <<>>
  /\ head = 0
  /\ notify = FALSE
  /\ closed = FALSE
  /\ err = "nil"
  /\ pc = [t \in Threads |-> "idle"]
  /\ outcome = [c \in Consumers |-> "none"]
  /\ pushed = 0
  /\ received = <<>>

Goto(t, label) == pc' = [pc EXCEPT ![t] = label]

-----------------------------------------------------------------------------
\* signal: arm the 1-buffered wakeup channel without blocking.
signal(t) ==
  /\ pc[t] = "signal"
  /\ notify' = TRUE
  /\ Goto(t, "idle")
  /\ UNCHANGED <<bounded, items, head, closed, err, outcome, pushed, received>>

\* Push; on a closed queue it returns false and changes nothing.
Push(t) ==
  /\ pc[t] = "idle" /\ ~closed
  /\ ~bounded /\ pushed < MaxPush
  /\ items' = Append(items, Item(pushed + 1))
  /\ pushed' = pushed + 1
  /\ Goto(t, "signal")
  /\ UNCHANGED <<bounded, head, notify, closed, err, outcome, received>>

\* The backing slice once PushBounded has made room in `queue`: nothing to
\* do below the capacity, else a gap marker followed by the newest
\* capacity - 2 entries.
MakeRoom(queue) ==
  LET keep == Capacity - 2
      dropped == Len(queue) - keep
  IN IF Len(queue) < Capacity
     THEN queue
     ELSE <<Gap(dropped)>> \o SubSeq(queue, dropped + 1, Len(queue))

\* PushBounded: compact, make room, append.
PushBounded(t) ==
  /\ pc[t] = "idle" /\ ~closed
  /\ bounded /\ pushed < MaxPush
  /\ items' = Append(MakeRoom(Pending), Item(pushed + 1))
  /\ head' = 0
  /\ pushed' = pushed + 1
  /\ Goto(t, "signal")
  /\ UNCHANGED <<bounded, notify, closed, err, outcome, received>>

\* Close; the first one wins, a later one changes nothing.
Close(t, e) ==
  /\ pc[t] = "idle" /\ ~closed
  /\ closed' = TRUE
  /\ err' = e
  /\ Goto(t, "signal")
  /\ UNCHANGED <<bounded, items, head, notify, outcome, pushed, received>>

-----------------------------------------------------------------------------
\* A consumer enters Next.
NextEnter(c) ==
  /\ pc[c] = "idle"
  /\ Goto(c, "lock")
  /\ outcome' = [outcome EXCEPT ![c] = "none"]
  /\ UNCHANGED <<bounded, items, head, notify, closed, err, pushed, received>>

\* Mutated form of AfterPop: compaction keeps the slot that was just zeroed.
CompactOneShort ==
  LET h == head + 1
      zeroed == [items EXCEPT ![h] = Zero]
  IN IF h = Len(items) THEN <<<<>>, 0>>
     ELSE IF h > CompactAt /\ h * 2 >= Len(items)
          THEN <<SubSeq(zeroed, h, Len(items)), 0>>
          ELSE <<zeroed, h>>

\* The backing slice and the head index after one pop: the popped slot is
\* zeroed, a drained slice is truncated, a long consumed prefix compacted.
AfterPop ==
  LET h == head + 1
      zeroed == [items EXCEPT ![h] = Zero]
  IN IF h = Len(items) THEN <<<<>>, 0>>
     ELSE IF h > CompactAt /\ h * 2 >= Len(items)
          THEN <<SubSeq(zeroed, h + 1, Len(items)), 0>>
          ELSE <<zeroed, h>>

\* Next pops an item; it re-arms the wakeup when work or a close remains.
NextPop(c) ==
  /\ pc[c] = "lock" /\ head < Len(items)
  /\ items' = AfterPop[1]
  /\ head' = AfterPop[2]
  /\ received' = Append(received, items[head + 1])
  /\ outcome' = [outcome EXCEPT ![c] = "item"]
  /\ Goto(c, IF head' < Len(items') \/ closed THEN "signal" ELSE "idle")
  /\ UNCHANGED <<bounded, notify, closed, err, pushed>>

\* Mutated form of NextClosed: the close is not passed on to other waiters.
ClosedWithoutRearm(c) ==
  /\ pc[c] = "lock" /\ head = Len(items) /\ closed
  /\ outcome' = [outcome EXCEPT ![c] = IF err = "nil" THEN "closed" ELSE err]
  /\ Goto(c, "idle")
  /\ UNCHANGED <<bounded, items, head, notify, closed, err, pushed, received>>

\* Next finds the queue drained and closed: it re-arms and reports the close.
NextClosed(c) ==
  /\ pc[c] = "lock" /\ head = Len(items) /\ closed
  /\ outcome' = [outcome EXCEPT ![c] = IF err = "nil" THEN "closed" ELSE err]
  /\ Goto(c, "signal")
  /\ UNCHANGED <<bounded, items, head, notify, closed, err, pushed, received>>

\* Next finds nothing and blocks in its select.
NextPark(c) ==
  /\ pc[c] = "lock" /\ head = Len(items) /\ ~closed
  /\ Goto(c, "wait")
  /\ UNCHANGED <<bounded, items, head, notify, closed, err, outcome, pushed, received>>

\* The select takes the wakeup token and the loop starts over.
NextWake(c) ==
  /\ pc[c] = "wait" /\ notify
  /\ notify' = FALSE
  /\ Goto(c, "lock")
  /\ UNCHANGED <<bounded, items, head, closed, err, outcome, pushed, received>>

\* The select takes ctx.Done(); the token, if there is one, stays.
NextCancel(c) ==
  /\ pc[c] = "wait"
  /\ outcome' = [outcome EXCEPT ![c] = "canceled"]
  /\ Goto(c, "idle")
  /\ UNCHANGED <<bounded, items, head, notify, closed, err, pushed, received>>

-----------------------------------------------------------------------------
SenderStep(t) ==
  \/ Push(t)
  \/ PushBounded(t)
  \/ \E e \in Errors : Close(t, e)

ConsumerStep(c) == NextPop(c) \/ NextClosed(c) \/ NextPark(c) \/ NextWake(c)

Next ==
  \/ \E t \in Senders : SenderStep(t)
  \/ \E t \in Threads : signal(t)
  \/ \E c \in Consumers : NextEnter(c) \/ ConsumerStep(c) \/ NextCancel(c)

Spec == Init /\ [][Next]_vars

\* A goroutine that can run does run; nobody is obliged to push, to close, to
\* call Next or to cancel.
Fairness ==
  /\ \A t \in Threads : WF_vars(signal(t))
  /\ \A c \in Consumers : WF_vars(ConsumerStep(c))

FairSpec == Spec /\ Fairness

-----------------------------------------------------------------------------
\* The consumers see the accepted items in order, each at most once and never
\* a recycled slot; a missing item is always announced by a gap marker right
\* before the next one; the newest accepted item is never the one dropped.
StreamFaithful ==
  /\ \A j \in 1..Len(Stream) :
       /\ Stream[j].kind \in {"item", "gap"}
       /\ Stream[j].kind = "item" =>
            IF j = 1 THEN Stream[j].id = 1
            ELSE \/ Stream[j - 1].kind = "gap"
                 \/ Stream[j - 1].id + 1 = Stream[j].id
       /\ \A i \in 1..(j - 1) :
            Stream[i].kind = "item" /\ Stream[j].kind = "item" => Stream[i].id < Stream[j].id
  /\ pushed > 0 => Stream # <<>> /\ Stream[Len(Stream)] = Item(pushed)

\* PushBounded keeps the pending queue within the capacity, and coalesces every
\* loss into one gap marker that is always at the head of the pending queue.
PendingBounded ==
  bounded => /\ Len(Pending) <= Capacity
             /\ \A j \in 2..Len(Pending) : Pending[j].kind = "item"

\* No wakeup is lost, for any number of consumers: while there is an item or a
\* close to report and somebody is blocked in Next's select, a token is
\* buffered, or a goroutine is about to send one, or a consumer is awake and
\* will look at the queue (and re-arm the token if it leaves anything).
WakeupNotLost ==
  (head < Len(items) \/ closed) /\ (\E c \in Consumers : pc[c] = "wait")
    => notify \/ \E t \in Threads : pc[t] \in {"signal", "lock"}

\* "Queued items are always drained before the close outcome is surfaced": once
\* a Next has reported the close, no Next ever returns an item any more.
DrainedBeforeClose ==
  [][(\E c \in Consumers : outcome[c] \in {"closed", "terminal"}) => received' = received]_vars

\* Every consumer blocked in Next when the queue closes gets out of it, although
\* the wakeup channel holds a single token.
CloseWakesAll ==
  \A c \in Consumers : (closed /\ pc[c] = "wait") ~> (pc[c] = "idle")

\* An item does not stay queued while a consumer is blocked in Next.
ItemsReachConsumer ==
  \A c \in Consumers :
    (head < Len(items) /\ pc[c] = "wait") ~> (head = Len(items) \/ pc[c] # "wait")

\* A consumer that is blocked in Next is woken by an item and by the close, although one
\* token stands for any number of items and consumers.
ConsumersWoken == CloseWakesAll /\ ItemsReachConsumer

\* The goroutines, the backing slice with its head index and compaction, and
\* the bounded push together implement the lossy FIFO the queue promises.
Fifo ==
  INSTANCE LossyFifo WITH queue <- Pending, shut <- closed, accepted <- pushed, out <- received

\* NotifyQueue implements LossyFifo.
ImplementsFifo == Fifo!FifoSpec
=============================================================================
