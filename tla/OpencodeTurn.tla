---------------------------- MODULE OpencodeTurn ----------------------------
(***************************************************************************)
(* opencode.TurnHandle (pkg/llm/opencode/api.go): a turn synthesized from   *)
(* two sources, the goroutine that runs the blocking prompt, whose return   *)
(* is authoritative, and the session's events, which enrich it.  Consumers  *)
(* are calls of Stream or Run; each starts a pump goroutine that moves      *)
(* events from the queue to the consumer one at a time.  A consumer may     *)
(* stop early or be canceled, and another one resumes the turn.             *)
(*                                                                         *)
(* The queue is what busConsumer promises (OpencodeBus, NotifyQueue): FIFO, *)
(* drained before a close is reported.                                      *)
(***************************************************************************)
EXTENDS Integers, Sequences, FiniteSets

CONSTANTS
  TnConsumers,  \* calls of Stream or Run
  TnMaxEvents   \* bound: events of the session

ASSUME TnAssumption == TnMaxEvents \in Nat

VARIABLES
  tn,         \* TurnHandle: consuming, finished, out, progress
  tnChan,     \* h.outcome, the 1-buffered channel of the prompt goroutine
  tnQueue,    \* the events queued for the handle, and whether the queue is closed
  tnCall,     \* consume: where each call is, its locals, how it returned
  tnPump,     \* the pump goroutine of each call
  tnEmitted,  \* history: the session's events, in order
  tnLost      \* history: positions of the events a pump dropped

tnVars == <<tn, tnChan, tnQueue, tnCall, tnPump, tnEmitted, tnLost>>

Outcomes == {"ok", "turn error", "failed"}  \* how the prompt returns
TnEvents == {"idle", "error"}  \* session.idle, session.error; the others leave no evidence
TnTerminal == {"ok", "turn error", "failed"}
TnResults == TnTerminal \cup {"refused", "canceled", "stopped", "bus closed"}

\* The turn, its pumps and its consumers keep their types.
TnTypeOK ==
  /\ tn \in [consuming : BOOLEAN, finished : BOOLEAN, out : Outcomes \cup {"nil"},
             sawIdle : BOOLEAN, sessErr : BOOLEAN]
  /\ tnChan \in Outcomes \cup {"running", "drained"}
  /\ tnQueue \in [events : Seq(1..TnMaxEvents), shut : BOOLEAN]
  /\ tnCall \in [TnConsumers -> [pc : {"idle", "loop"} \cup TnResults, mode : {"stream", "run"},
                                 ctx : {"live", "canceled"}, hasOut : BOOLEAN, events : BOOLEAN]]
  /\ tnPump \in [TnConsumers -> [pc : {"off", "next", "hold", "failed", "gone"}, event : 0..TnMaxEvents,
                                 ctx : {"live", "canceled"}]]
  /\ tnEmitted \in Seq(TnEvents) /\ tnLost \subseteq 1..TnMaxEvents

\* The handle as Session.Turn returns it, its prompt goroutine running.
TnInit ==
  /\ tn = [consuming |-> FALSE, finished |-> FALSE, out |-> "nil", sawIdle |-> FALSE, sessErr |-> FALSE]
  /\ tnChan = "running"
  /\ tnQueue = [events |-> <<>>, shut |-> FALSE]
  /\ tnCall \in [TnConsumers -> [pc : {"idle"}, mode : {"stream", "run"}, ctx : {"live"},
                                 hasOut : {FALSE}, events : {TRUE}]]
  /\ tnPump = [c \in TnConsumers |-> [pc |-> "off", event |-> 0, ctx |-> "live"]]
  /\ tnEmitted = <<>>
  /\ tnLost = {}
-----------------------------------------------------------------------------
\* turnOver, the truth table: once the prompt has returned, its own failure, a
\* turn-level error, session.error or session.idle make the turn terminal.
TurnOver(h, out) == out # "ok" \/ h.sessErr \/ h.sawIdle

\* What resolve returns: session.error outweighs the prompt's own result.
Resolution(h) == IF h.sessErr THEN "turn error" ELSE h.out

\* note: what one event contributes to the terminal evidence.
Noted(h, ev) == [h EXCEPT !.sawIdle = @ \/ ev = "idle", !.sessErr = @ \/ ev = "error"]

\* consume returns: the deferred calls cancel the pump and release the handle.
TnReturn(c, h, result) ==
  /\ tnCall' = [tnCall EXCEPT ![c].pc = result]
  /\ tn' = [h EXCEPT !.consuming = FALSE]

\* resolve and finish: the handle is terminal and its consumer unsubscribed.
TnResolve(c, h, pump) ==
  /\ TnReturn(c, [h EXCEPT !.finished = TRUE], Resolution(h))
  /\ tnQueue' = [tnQueue EXCEPT !.shut = TRUE]
  /\ tnPump' = [pump EXCEPT ![c].ctx = "canceled"]

\* Mutated form: a resumed consumer waits on the outcome channel again.
TnConsumeAfresh(c) ==
  /\ tnCall[c].pc = "idle"
  /\ IF tn.finished \/ tn.consuming
     THEN tnCall' = [tnCall EXCEPT ![c].pc = "refused"] /\ UNCHANGED <<tn, tnPump>>
     ELSE /\ tnCall' = [tnCall EXCEPT ![c].pc = "loop"]
          /\ tn' = [tn EXCEPT !.consuming = TRUE]
          /\ tnPump' = [tnPump EXCEPT ![c].pc = "next"]
  /\ UNCHANGED <<tnChan, tnQueue, tnEmitted, tnLost>>

\* consume: one consumer at a time, none on a finished turn; a resumed one
\* resolves at once when an earlier consumer stored the outcome.
TnConsume(c) ==
  /\ tnCall[c].pc = "idle"
  /\ IF tn.finished \/ tn.consuming
     THEN tnCall' = [tnCall EXCEPT ![c].pc = "refused"] /\ UNCHANGED <<tn, tnQueue, tnPump>>
     ELSE LET pump == [tnPump EXCEPT ![c].pc = "next"] IN
          IF tn.out # "nil" THEN TnResolve(c, tn, pump)
          ELSE /\ tnCall' = [tnCall EXCEPT ![c].pc = "loop"]
               /\ tn' = [tn EXCEPT !.consuming = TRUE]
               /\ tnPump' = pump /\ UNCHANGED tnQueue
  /\ UNCHANGED <<tnChan, tnEmitted, tnLost>>

\* The select takes ctx.Done().
TnCanceled(c) ==
  /\ tnCall[c].pc = "loop" /\ tnCall[c].ctx = "canceled"
  /\ TnReturn(c, tn, "canceled")
  /\ tnPump' = [tnPump EXCEPT ![c].ctx = "canceled"]
  /\ UNCHANGED <<tnChan, tnQueue, tnEmitted, tnLost>>

\* The select takes the outcome: it is stored on the handle and resolves the
\* turn if there is terminal evidence; else the drain timer starts.
TnTakeOutcome(c) ==
  /\ tnCall[c].pc = "loop" /\ tnChan \in Outcomes
  /\ tnChan' = "drained"
  /\ LET h == [tn EXCEPT !.out = tnChan] IN
     IF TurnOver(h, tnChan) THEN TnResolve(c, h, tnPump)
     ELSE /\ tn' = h
          /\ tnCall' = [tnCall EXCEPT ![c].hasOut = TRUE]
          /\ UNCHANGED <<tnQueue, tnPump>>
  /\ UNCHANGED <<tnEmitted, tnLost>>

\* The drain window closes: a clean end without a terminal event.
TnDrainEnds(c) ==
  /\ tnCall[c].pc = "loop" /\ tnCall[c].hasOut
  /\ TnResolve(c, tn, tnPump)
  /\ UNCHANGED <<tnChan, tnEmitted, tnLost>>

\* Mutated form: an idle event ends the turn although the prompt is running.
TnTakeEventEager(c) ==
  /\ tnCall[c].pc = "loop" /\ tnCall[c].events /\ tnPump[c].pc = "hold"
  /\ LET h == Noted(tn, tnEmitted[tnPump[c].event])
         pump == [tnPump EXCEPT ![c].pc = "next", ![c].event = 0]
     IN IF TurnOver(h, "ok") THEN TnResolve(c, h, pump)
        ELSE tn' = h /\ tnPump' = pump /\ UNCHANGED <<tnCall, tnQueue>>
  /\ UNCHANGED <<tnChan, tnEmitted, tnLost>>

\* The select takes an event from the pump: it is noted and yielded; a stream
\* may stop there; with the outcome in hand it may resolve the turn.
TnTakeEvent(c) ==
  /\ tnCall[c].pc = "loop" /\ tnCall[c].events /\ tnPump[c].pc = "hold"
  /\ LET h == Noted(tn, tnEmitted[tnPump[c].event])
         pump == [tnPump EXCEPT ![c].pc = "next", ![c].event = 0]
     IN \/ /\ tnCall[c].mode = "stream"
           /\ TnReturn(c, h, "stopped")
           /\ tnPump' = [pump EXCEPT ![c].ctx = "canceled"]
           /\ UNCHANGED tnQueue
        \/ /\ tnCall[c].hasOut /\ TurnOver(h, h.out)
           /\ TnResolve(c, h, pump)
        \/ /\ ~(tnCall[c].hasOut /\ TurnOver(h, h.out))
           /\ tn' = h /\ tnPump' = pump
           /\ UNCHANGED <<tnCall, tnQueue>>
  /\ UNCHANGED <<tnChan, tnEmitted, tnLost>>

\* The select takes the pump's error: Stream reports it and leaves the turn
\* open; Run goes on without events, or resolves if it has the outcome.
TnTakePumpError(c) ==
  /\ tnCall[c].pc = "loop" /\ tnCall[c].events /\ tnPump[c].pc = "failed"
  /\ \/ /\ tnCall[c].mode = "stream"
        /\ TnReturn(c, tn, "bus closed")
        /\ tnPump' = [tnPump EXCEPT ![c].ctx = "canceled"]
        /\ UNCHANGED tnQueue
     \/ tnCall[c].mode = "run" /\ tnCall[c].hasOut /\ TnResolve(c, tn, tnPump)
     \/ /\ tnCall[c].mode = "run" /\ ~tnCall[c].hasOut
        /\ tnCall' = [tnCall EXCEPT ![c].events = FALSE]
        /\ UNCHANGED <<tn, tnQueue, tnPump>>
  /\ UNCHANGED <<tnChan, tnEmitted, tnLost>>
-----------------------------------------------------------------------------
TnPumpDead(c) == tnPump[c].ctx = "canceled" \/ tnCall[c].ctx = "canceled"

\* pumpEvents: Next pops the queue, whatever the state of its ctx; on an empty
\* queue it reports the close, or a canceled ctx.
TnPumpNext(c) ==
  /\ tnPump[c].pc = "next"
  /\ \/ /\ tnQueue.events # <<>>
        /\ tnPump' = [tnPump EXCEPT ![c].pc = "hold", ![c].event = Head(tnQueue.events)]
        /\ tnQueue' = [tnQueue EXCEPT !.events = Tail(@)]
     \/ /\ tnQueue.events = <<>> /\ (tnQueue.shut \/ TnPumpDead(c))
        /\ tnPump' = [tnPump EXCEPT ![c].pc = "failed"]
        /\ UNCHANGED tnQueue
  /\ UNCHANGED <<tn, tnChan, tnCall, tnEmitted, tnLost>>

\* The pump's select takes ctx.Done(): the event in its hand is dropped.
TnPumpDrops(c) ==
  /\ tnPump[c].pc = "hold" /\ TnPumpDead(c)
  /\ tnPump' = [tnPump EXCEPT ![c].pc = "gone", ![c].event = 0]
  /\ tnLost' = tnLost \cup {tnPump[c].event}
  /\ UNCHANGED <<tn, tnChan, tnQueue, tnCall, tnEmitted>>

-----------------------------------------------------------------------------
\* The prompt goroutine returns and sends its outcome.
TnPromptReturns(out) ==
  /\ tnChan = "running"
  /\ tnChan' = out
  /\ UNCHANGED <<tn, tnQueue, tnCall, tnPump, tnEmitted, tnLost>>

\* External: the bus pushes an event of the session, unless the queue is closed.
TnEmit(ev) ==
  /\ Len(tnEmitted) < TnMaxEvents /\ ~tnQueue.shut
  /\ tnEmitted' = Append(tnEmitted, ev)
  /\ tnQueue' = [tnQueue EXCEPT !.events = Append(@, Len(tnEmitted) + 1)]
  /\ UNCHANGED <<tn, tnChan, tnCall, tnPump, tnLost>>

\* External: the bus is closed; the caller's ctx ends.
TnBusCloses ==
  /\ ~tnQueue.shut
  /\ tnQueue' = [tnQueue EXCEPT !.shut = TRUE]
  /\ UNCHANGED <<tn, tnChan, tnCall, tnPump, tnEmitted, tnLost>>

TnCancel(c) ==
  /\ tnCall[c].ctx = "live" /\ tnCall[c].pc = "loop"
  /\ tnCall' = [tnCall EXCEPT ![c].ctx = "canceled"]
  /\ UNCHANGED <<tn, tnChan, tnQueue, tnPump, tnEmitted, tnLost>>

TnCallStep(c) ==
  \/ TnCanceled(c) \/ TnTakeOutcome(c) \/ TnDrainEnds(c) \/ TnTakeEvent(c) \/ TnTakePumpError(c)

TnNext ==
  \/ \E c \in TnConsumers : \/ TnConsume(c) \/ TnCallStep(c) \/ TnCancel(c)
                            \/ TnPumpNext(c) \/ TnPumpDrops(c)
  \/ (\E out \in Outcomes : TnPromptReturns(out)) \/ (\E ev \in TnEvents : TnEmit(ev)) \/ TnBusCloses

TnSpec == TnInit /\ [][TnNext]_tnVars

\* Consumers and pumps keep running; the prompt, the events and the callers
\* need not do anything.
TnFairness ==
  \A c \in TnConsumers : WF_tnVars(TnCallStep(c)) /\ WF_tnVars(TnPumpNext(c) \/ TnPumpDrops(c))
-----------------------------------------------------------------------------
TnResolvedCalls == {c \in TnConsumers : tnCall[c].pc \in TnTerminal}
TnInterrupted == {c \in TnConsumers : tnCall[c].pc \in TnResults \ {"refused"} \/ tnCall[c].ctx = "canceled"}

\* The prompt's return is necessary and authoritative: no event ends a turn
\* before it, at most one consumer resolves it, and none reports success for a
\* prompt that failed or a session.error that was noted.
TnAuthoritative ==
  /\ tn.finished => tn.out # "nil"
  /\ \A c, d \in TnResolvedCalls : c = d
  /\ \A c \in TnResolvedCalls : tnCall[c].pc = "ok" => tn.out = "ok" /\ ~tn.sessErr

\* However consumers are interrupted, the outcome the prompt delivered is not
\* lost: it waits in the channel or is stored for the next consumer.
TnOutcomeKept == tnChan = "drained" => tn.out # "nil"

\* A turn ends with the outcome of its prompt and with no other, however its consumers are
\* interrupted and whatever the events say.
TnOutcomeTrue == TnAuthoritative /\ TnOutcomeKept

\* An interrupted consumer costs at most the one event its pump had in hand;
\* no other event is skipped.
TnHandoverLoss == Cardinality(tnLost) <= Cardinality(TnInterrupted)

\* A consumer whose turn's prompt has returned does not wait for ever, whatever
\* happened to the events and to earlier consumers.
TnConsumerReturns ==
  \A c \in TnConsumers : (tnCall[c].pc = "loop" /\ tnChan # "running") ~> tnCall[c].pc # "loop"

=============================================================================
