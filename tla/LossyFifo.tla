----------------------------- MODULE LossyFifo -----------------------------
(***************************************************************************)
(* What an llm.NotifyQueue promises its users, without goroutines, backing  *)
(* slices or wakeups: a FIFO that may replace any prefix of what is queued  *)
(* by one gap marker when it accepts an item, that hands out the rest in    *)
(* order, and that accepts nothing once it is closed.                       *)
(***************************************************************************)
EXTENDS Naturals, Sequences

VARIABLES
  queue,     \* what is queued
  shut,      \* the queue was closed
  accepted,  \* number of items accepted
  out        \* what was handed out so far

fifoVars == <<queue, shut, accepted, out>>

FifoItem(n) == [kind |-> "item", id |-> n]
FifoGap(n) == [kind |-> "gap", id |-> n]

FifoInit ==
  /\ queue = <<>>
  /\ shut = FALSE
  /\ accepted = 0
  /\ out = <<>>

\* Accept the next item as the newest one.
Accept ==
  /\ ~shut
  /\ queue' = Append(queue, FifoItem(accepted + 1))
  /\ accepted' = accepted + 1
  /\ UNCHANGED <<shut, out>>

\* Accept the next item and replace the d oldest entries by one gap marker.
AcceptDropping(d) ==
  /\ ~shut
  /\ queue' = Append(<<FifoGap(d)>> \o SubSeq(queue, d + 1, Len(queue)), FifoItem(accepted + 1))
  /\ accepted' = accepted + 1
  /\ UNCHANGED <<shut, out>>

\* Hand out the oldest entry.
Deliver ==
  /\ queue # <<>>
  /\ out' = Append(out, Head(queue))
  /\ queue' = Tail(queue)
  /\ UNCHANGED <<shut, accepted>>

Shut ==
  /\ ~shut
  /\ shut' = TRUE
  /\ UNCHANGED <<queue, accepted, out>>

FifoNext ==
  \/ Accept
  \/ \E d \in 1..Len(queue) : AcceptDropping(d)
  \/ Deliver
  \/ Shut

FifoSpec == FifoInit /\ [][FifoNext]_fifoVars
=============================================================================
