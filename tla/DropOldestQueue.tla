-------------------------- MODULE DropOldestQueue --------------------------
(***************************************************************************)
(* What the queue of a codex consumer promises, without ring, wakeups or    *)
(* goroutines: the newest `Limit` notifications are kept in order, the      *)
(* oldest are given up one by one and counted, and the count is handed to   *)
(* the consumer before anything that arrived later.                         *)
(***************************************************************************)
EXTENDS Naturals, Sequences

CONSTANT Limit

VARIABLES
  buf,    \* the notifications kept, oldest first
  lost,   \* given up since the last report
  shut,   \* no more notifications are accepted
  came    \* notifications accepted so far

dvars == <<buf, lost, shut, came>>

DInit ==
  /\ lost \in Nat
  /\ \E n \in 0..Limit : came = lost + n /\ buf = [i \in 1..n |-> lost + i]
  /\ shut = FALSE

Accept ==
  /\ ~shut
  /\ came' = came + 1
  /\ IF Len(buf) < Limit
     THEN buf' = Append(buf, came + 1) /\ lost' = lost
     ELSE buf' = Append(Tail(buf), came + 1) /\ lost' = lost + 1
  /\ UNCHANGED shut

Report ==
  /\ lost > 0
  /\ lost' = 0
  /\ UNCHANGED <<buf, shut, came>>

Take ==
  /\ lost = 0 /\ buf # <<>>
  /\ buf' = Tail(buf)
  /\ UNCHANGED <<lost, shut, came>>

Shut ==
  /\ ~shut
  /\ shut' = TRUE
  /\ UNCHANGED <<buf, lost, came>>

DNext == Accept \/ Report \/ Take \/ Shut

DSpec == DInit /\ [][DNext]_dvars
=============================================================================
