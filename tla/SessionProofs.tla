--------------------------- MODULE SessionProofs ---------------------------
(***************************************************************************)
(* Proofs about the sessions of the claude and the opencode SDKs: the       *)
(* control protocol of a claude session, for every number of requests in    *)
(* both directions, and the turn of an opencode session, for every number   *)
(* of events and of consumers.                                              *)
(***************************************************************************)
EXTENDS ClaudeControl, OpencodeTurn, TLAPS

CpState == [pending : SUBSET CpSenders, inflight : SUBSET CpRequests, closed : BOOLEAN]
CpSendRec == [pc : {"idle", "enter", "write", "wait", "done"}, res : CpReturns \cup {"none"}]
CpHandlerPcs == {"none", "run", "reply", "leave", "exit", "dropped"}
CpHandlerRec == [pc : CpHandlerPcs, ctx : {"live", "canceled"}, replied : BOOLEAN]
CpLoopRec == [pc : {"read", "deliver", "failing", "done"}, snap : SUBSET CpSenders, res : CpResults]
CpClosePcs == {"idle", "transport", "inflight", "cancel", "wait", "pending", "failing", "terminate", "done"}
CpCloseRec == [pc : CpClosePcs, cancels : SUBSET CpRequests, snap : SUBSET CpSenders, drained : BOOLEAN]
CpWireRec == [transport : {"open", "shut", "nil"}, holder : CpWriters \cup {"free"},
              cli : {"up", "exited"}, seen : SUBSET CpSenders]
CpHistRec == [missed : SUBSET CpSenders, canceled : SUBSET CpRequests]

LEMMA CpTypes ==
  CpTypeOK <=> /\ cp \in CpState /\ cpChan \in [CpSenders -> CpResults \cup {"empty"}]
               /\ cpSend \in [CpSenders -> CpSendRec] /\ cpHandler \in [CpRequests -> CpHandlerRec]
               /\ cpLoop \in CpLoopRec /\ cpClose \in CpCloseRec
               /\ cpWire \in CpWireRec /\ cpHist \in CpHistRec
  BY Zenon DEF CpTypeOK, CpState, CpSendRec, CpHandlerRec, CpHandlerPcs, CpLoopRec, CpCloseRec, CpClosePcs,
               CpWireRec, CpHistRec

\* A request is registered from before it is written until its caller returns, so
\* only a caller that has returned can miss its answer.
CpSending ==
  /\ \A s \in CpSenders : cpSend[s].pc \in {"write", "wait"} => s \in cp.pending
  /\ \A s \in cpWire.seen : cpSend[s].pc \in {"wait", "done"}
  /\ CpAnswerFindsWaiter

\* What is known of one request of the CLI: a context that ended while the callback
\* ran is remembered, and only a handler without one replies.
CpHandled(r) ==
  /\ cpHandler[r].pc = "none" => cpHandler[r].ctx = "live"
  /\ cpHandler[r].pc \in {"none", "run", "reply", "dropped"} => ~cpHandler[r].replied
  /\ cpHandler[r].pc = "run" /\ cpHandler[r].ctx = "canceled" => r \in cpHist.canceled
  /\ r \in cpHist.canceled =>
       cpHandler[r].ctx = "canceled" /\ cpHandler[r].pc \in {"run", "leave", "exit"} /\ ~cpHandler[r].replied
  /\ cpHandler[r].pc \in {"leave", "exit"} /\ ~cpHandler[r].replied =>
       r \in cpHist.canceled \/ cpClose.pc # "idle" \/ cpWire.cli = "exited"
  /\ r \in cp.inflight \/ r \in cpClose.cancels => cpHandler[r].pc # "none"
  /\ cpClose.drained => cpHandler[r].pc \notin {"run", "reply", "leave"}

CpHandling == \A r \in CpRequests : CpHandled(r)

\* Close: the transport first, the barrier before the drain, and every waiter in the
\* snapshot of failPending.
CpClosing ==
  /\ cpClose.pc # "idle" <=> cpWire.transport # "open"
  /\ cpClose.pc \in {"cancel", "wait", "pending", "failing", "terminate", "done"} => cp.closed
  /\ cpClose.drained => cp.closed
  /\ cpClose.pc = "failing" => \A s \in CpSenders : cpSend[s].pc = "wait" => s \in cpClose.snap
  /\ CpCloseFailsFast

CpInv == CpTypeOK /\ CpSending /\ CpHandling /\ CpClosing

LEMMA CpInitInv == CpInit => CpInv
<1> SUFFICES ASSUME CpInit PROVE CpInv
  OBVIOUS
<1>1. CpTypeOK
  <2>1. cp \in CpState /\ cpClose \in CpCloseRec
    BY Zenon DEF CpInit, CpState, CpCloseRec, CpClosePcs
  <2>2. cpHandler \in [CpRequests -> CpHandlerRec]
    BY Zenon DEF CpInit, CpHandlerRec, CpHandlerPcs
  <2>3. cpSend \in [CpSenders -> CpSendRec] /\ cpChan \in [CpSenders -> CpResults \cup {"empty"}]
    BY DEF CpInit, CpSendRec
  <2>4. cpLoop \in CpLoopRec /\ cpWire \in CpWireRec /\ cpHist \in CpHistRec
    BY DEF CpInit, CpLoopRec, CpWireRec, CpHistRec, CpResults
  <2> QED
    BY <2>1, <2>2, <2>3, <2>4, CpTypes
<1>2. CpSending /\ CpClosing
  BY DEF CpInit, CpSending, CpClosing, CpAnswerFindsWaiter, CpCloseFailsFast
<1>3. CpHandling
  BY Zenon DEF CpInit, CpHandling, CpHandled
<1> QED
  BY <1>1, <1>2, <1>3 DEF CpInv
-----------------------------------------------------------------------------
(* What the parts of the invariant depend on.                               *)

LEMMA CpHandledKept ==
  ASSUME NEW r \in CpRequests, CpHandled(r), cpHandler'[r] = cpHandler[r],
         r \in cp'.inflight => r \in cp.inflight,
         r \in cpClose'.cancels => r \in cpClose.cancels \/ r \in cp.inflight,
         r \in cpHist'.canceled <=> r \in cpHist.canceled,
         cpClose.pc # "idle" => cpClose'.pc # "idle",
         cpWire.cli = "exited" => cpWire'.cli = "exited",
         cpClose'.drained => cpClose.drained \/ cpHandler[r].pc \notin {"run", "reply", "leave"}
  PROVE  CpHandled(r)'
  BY Zenon DEF CpHandled

LEMMA CpClosingKept ==
  ASSUME CpClosing, cpClose' = cpClose, cpWire'.transport = cpWire.transport, cp.closed => cp'.closed,
         \A s \in CpSenders : cpSend'[s].pc = "wait" =>
            \/ cpSend[s].pc = "wait" /\ (cpChan[s] # "empty" => cpChan'[s] # "empty")
            \/ cpWire.transport = "open"
  PROVE  CpClosing'
  BY DEF CpClosing, CpCloseFailsFast

LEMMA CpSendingKept ==
  ASSUME CpSending, cpSend' = cpSend, cp'.pending = cp.pending, cpWire'.seen = cpWire.seen,
         \A s \in cpHist'.missed : s \in cpHist.missed \/ cpSend[s].pc = "done"
  PROVE  CpSending'
  BY DEF CpSending, CpAnswerFindsWaiter
-----------------------------------------------------------------------------
(* The callers of controlRequest.                                           *)

LEMMA CpStateKept ==
  ASSUME NEW p \in CpState
  PROVE  /\ \A X \in SUBSET CpSenders : LET e == [p EXCEPT !.pending = X] IN
              e \in CpState /\ e.pending = X /\ e.inflight = p.inflight /\ e.closed = p.closed
         /\ \A X \in SUBSET CpRequests : LET e == [p EXCEPT !.inflight = X] IN
              e \in CpState /\ e.inflight = X /\ e.pending = p.pending /\ e.closed = p.closed
         /\ LET e == [p EXCEPT !.closed = TRUE] IN
              e \in CpState /\ e.closed /\ e.inflight = p.inflight /\ e.pending = p.pending
  BY Zenon DEF CpState

\* What a step of a caller does to it, to the table of waiters and to the wire.
CpSenderMoves(s) ==
  \/ /\ cpSend[s].pc = "idle" /\ cpSend'[s].pc = "enter"
     /\ cp'.pending = cp.pending /\ cpWire'.seen = cpWire.seen
  \/ /\ cpSend[s].pc = "enter" /\ cpSend'[s].pc = "write"
     /\ cp'.pending = cp.pending \cup {s} /\ cpWire'.seen = cpWire.seen
  \/ /\ cpSend[s].pc = "write" /\ cpSend'[s].pc = "wait" /\ cpWire.transport = "open"
     /\ cp'.pending = cp.pending /\ cpWire'.seen = cpWire.seen \cup {s}
  \/ /\ cpSend[s].pc \in {"write", "wait"} /\ cpSend'[s].pc = "done"
     /\ cp'.pending = cp.pending \ {s} /\ cpWire'.seen = cpWire.seen

LEMMA CpSenderMoveKeeps ==
  ASSUME CpInv, NEW s \in CpSenders, CpSenderMoves(s),
         UNCHANGED <<cpHandler, cpLoop, cpClose, cpHist>>,
         cpSend' \in [CpSenders -> CpSendRec], \A t \in CpSenders \ {s} : cpSend'[t] = cpSend[t],
         cpChan' \in [CpSenders -> CpResults \cup {"empty"}], \A t \in CpSenders \ {s} : cpChan'[t] = cpChan[t],
         cp' \in CpState, cp'.inflight = cp.inflight, cp'.closed = cp.closed,
         cpWire' \in CpWireRec, cpWire'.transport = cpWire.transport, cpWire'.cli = cpWire.cli
  PROVE  CpInv'
<1>1. CpTypeOK'
  BY CpTypes, Zenon DEF CpInv, CpTypeOK, CpState, CpSendRec, CpHandlerRec, CpHandlerPcs, CpLoopRec, CpCloseRec,
                        CpClosePcs, CpWireRec, CpHistRec
<1>2. CpSending'
  <2>1. \A t \in CpSenders : cpSend'[t].pc \in {"write", "wait"} => t \in cp'.pending
    <3>1. \A t \in CpSenders \ {s} : t \in cp.pending => t \in cp'.pending
      BY DEF CpSenderMoves
    <3>2. cpSend'[s].pc \in {"write", "wait"} => s \in cp'.pending
      BY DEF CpSenderMoves, CpInv, CpSending
    <3> QED
      BY <3>1, <3>2, Zenon DEF CpInv, CpSending
  <2>2. \A t \in cpWire'.seen : t \in CpSenders /\ cpSend'[t].pc \in {"wait", "done"}
    <3>1. \A t \in cpWire'.seen : t \in CpSenders /\ (t \in cpWire.seen \/ t = s)
      BY DEF CpSenderMoves, CpWireRec
    <3>2. s \in cpWire'.seen => cpSend'[s].pc \in {"wait", "done"}
      BY DEF CpSenderMoves, CpInv, CpSending
    <3> QED
      BY <3>1, <3>2, Zenon DEF CpInv, CpSending
  <2>3. s \notin cpHist.missed
    BY DEF CpSenderMoves, CpInv, CpSending, CpAnswerFindsWaiter
  <2>4. cpHist.missed \subseteq CpSenders
    BY CpTypes, Zenon DEF CpInv, CpHistRec
  <2> QED
    BY <2>1, <2>2, <2>3, <2>4, Zenon DEF CpInv, CpSending, CpAnswerFindsWaiter
<1>3. CpHandling'
  BY CpHandledKept, Zenon DEF CpInv, CpHandling
<1>4. CpClosing'
  <2>1. \A t \in CpSenders : cpSend'[t].pc = "wait" =>
            \/ cpSend[t].pc = "wait" /\ cpChan'[t] = cpChan[t]
            \/ cpWire.transport = "open"
    BY DEF CpSenderMoves
  <2> QED
    BY <2>1, CpClosingKept, Zenon DEF CpInv
<1> QED
  BY <1>1, <1>2, <1>3, <1>4 DEF CpInv

LEMMA CpSenderKeeps ==
  ASSUME CpInv, NEW s \in CpSenders,
         CpEnter(s) \/ CpRegister(s) \/ CpNotRunning(s) \/ CpWritten(s) \/ CpWriteFails(s) \/ CpTakeResult(s)
         \/ CpGiveUp(s)
  PROVE  CpInv'
<1>t. /\ cp \in CpState /\ cpChan \in [CpSenders -> CpResults \cup {"empty"}]
      /\ cpSend \in [CpSenders -> CpSendRec] /\ cpWire \in CpWireRec
  BY CpTypes DEF CpInv
<1> DEFINE more == [cp EXCEPT !.pending = @ \cup {s}]
           less == [cp EXCEPT !.pending = @ \ {s}]
<1>p. /\ more \in CpState /\ more.pending = cp.pending \cup {s}
      /\ more.inflight = cp.inflight /\ more.closed = cp.closed
  <2>1. cp.pending \cup {s} \in SUBSET CpSenders
    BY <1>t DEF CpState
  <2> QED
    BY <1>t, <2>1, CpStateKept, Zenon
<1>m. /\ less \in CpState /\ less.pending = cp.pending \ {s}
      /\ less.inflight = cp.inflight /\ less.closed = cp.closed
  <2>1. cp.pending \ {s} \in SUBSET CpSenders
    BY <1>t DEF CpState
  <2> QED
    BY <1>t, <2>1, CpStateKept, Zenon
<1> HIDE DEF more, less
<1>u. UNCHANGED <<cpHandler, cpLoop, cpClose, cpHist>>
  BY Zenon DEF CpEnter, CpRegister, CpNotRunning, CpWritten, CpWriteFails, CpTakeResult, CpGiveUp
<1>s. /\ cpSend' \in [CpSenders -> CpSendRec] /\ \A t \in CpSenders \ {s} : cpSend'[t] = cpSend[t]
  <2>1. CASE CpEnter(s) \/ CpRegister(s) \/ CpWritten(s)
    BY <1>t, <2>1 DEF CpEnter, CpRegister, CpWritten, CpSendRec
  <2>2. CASE CpNotRunning(s) \/ CpWriteFails(s) \/ CpGiveUp(s)
    <3>1. PICK res \in CpReturns : cpSend' = [cpSend EXCEPT ![s] = [pc |-> "done", res |-> res]]
      BY <2>2 DEF CpNotRunning, CpWriteFails, CpGiveUp, CpReturn, CpReturns
    <3> QED
      BY <1>t, <3>1 DEF CpSendRec
  <2>3. CASE CpTakeResult(s)
    BY <1>t, <2>3 DEF CpTakeResult, CpReturn, CpSendRec, CpReturns
  <2> QED
    BY <2>1, <2>2, <2>3
<1>c. /\ cpChan' \in [CpSenders -> CpResults \cup {"empty"}]
      /\ \A t \in CpSenders \ {s} : cpChan'[t] = cpChan[t]
  BY <1>t DEF CpEnter, CpRegister, CpNotRunning, CpWritten, CpWriteFails, CpTakeResult, CpGiveUp
<1>w. /\ cpWire' \in CpWireRec /\ cpWire'.transport = cpWire.transport /\ cpWire'.cli = cpWire.cli
      /\ CpWritten(s) => cpWire'.seen = cpWire.seen \cup {s}
      /\ ~CpWritten(s) => cpWire'.seen = cpWire.seen
  <2>1. CASE CpWritten(s)
    BY <1>t, <2>1 DEF CpWritten, CpWireRec
  <2>2. CASE CpWriteFails(s)
    BY <1>t, <2>2 DEF CpWriteFails, CpWritten, CpWireRec
  <2>3. CASE CpEnter(s) \/ CpRegister(s) \/ CpNotRunning(s) \/ CpTakeResult(s) \/ CpGiveUp(s)
    <3>1. cpWire' = cpWire
      BY <2>3, Zenon DEF CpEnter, CpRegister, CpNotRunning, CpTakeResult, CpGiveUp
    <3>2. CpWritten(s) => FALSE
      BY <2>3, <1>t DEF CpWritten, CpEnter, CpRegister, CpNotRunning, CpTakeResult, CpGiveUp
    <3> QED
      BY <1>t, <3>1, <3>2
  <2> QED
    BY <2>1, <2>2, <2>3
<1>1. CASE CpEnter(s)
  <2>1. cp' = cp /\ cpSend[s].pc = "idle" /\ cpSend'[s].pc = "enter" /\ cpWire'.seen = cpWire.seen
    BY <1>1, <1>t DEF CpEnter, CpSendRec
  <2> QED
    BY <1>t, <1>u, <1>s, <1>c, <1>w, <2>1, CpSenderMoveKeeps, Zenon DEF CpSenderMoves
<1>2. CASE CpRegister(s)
  <2>1. cp' = more /\ cpSend[s].pc = "enter" /\ cpSend'[s].pc = "write" /\ cpWire'.seen = cpWire.seen
    BY <1>2, <1>t DEF CpRegister, CpSendRec, more
  <2> QED
    BY <1>p, <1>u, <1>s, <1>c, <1>w, <2>1, CpSenderMoveKeeps, Zenon DEF CpSenderMoves
<1>3. CASE CpWritten(s)
  <2>1. cp' = cp /\ cpSend[s].pc = "write" /\ cpSend'[s].pc = "wait" /\ cpWire.transport = "open"
    BY <1>3, <1>t DEF CpWritten, CpSendRec
  <2> QED
    BY <1>3, <1>t, <1>u, <1>s, <1>c, <1>w, <2>1, CpSenderMoveKeeps, Zenon DEF CpSenderMoves
<1>4. CASE CpNotRunning(s) \/ CpWriteFails(s) \/ CpTakeResult(s) \/ CpGiveUp(s)
  <2>1. cp' = less /\ cpSend[s].pc \in {"write", "wait"} /\ cpSend'[s].pc = "done" /\ cpWire'.seen = cpWire.seen
    <3>1. cp' = less /\ cpSend[s].pc \in {"write", "wait"}
      BY <1>4, Zenon DEF CpNotRunning, CpWriteFails, CpTakeResult, CpGiveUp, CpReturn, less
    <3>2. cpSend'[s].pc = "done"
      <4>1. \E res : cpSend' = [cpSend EXCEPT ![s] = [pc |-> "done", res |-> res]]
        BY <1>4 DEF CpNotRunning, CpWriteFails, CpTakeResult, CpGiveUp, CpReturn
      <4> QED
        BY <1>t, <4>1
    <3>3. cpWire'.seen = cpWire.seen
      BY <1>4, <1>t DEF CpNotRunning, CpWriteFails, CpTakeResult, CpGiveUp, CpWireRec
    <3> QED
      BY <3>1, <3>2, <3>3
  <2> QED
    BY <1>m, <1>u, <1>s, <1>c, <1>w, <2>1, CpSenderMoveKeeps, Zenon DEF CpSenderMoves
<1> QED
  BY <1>1, <1>2, <1>3, <1>4
-----------------------------------------------------------------------------
(* readLoop.                                                                *)

LEMMA CpLoopKeeps ==
  ASSUME CpInv, (\E s \in CpSenders : CpRouteResponse(s)) \/ CpDeliver \/ CpReadFails \/ CpLoopEnds
  PROVE  CpInv'
<1>t. /\ cpChan \in [CpSenders -> CpResults \cup {"empty"}] /\ cpLoop \in CpLoopRec /\ cpHist \in CpHistRec
      /\ cp \in CpState
  BY CpTypes DEF CpInv
<1>u. UNCHANGED <<cp, cpSend, cpHandler, cpClose, cpWire>>
  BY Zenon DEF CpRouteResponse, CpDeliver, CpReadFails, CpLoopEnds
<1>c. /\ cpChan' \in [CpSenders -> CpResults \cup {"empty"}]
      /\ \A s \in CpSenders : cpChan[s] # "empty" => cpChan'[s] # "empty"
  BY <1>t DEF CpRouteResponse, CpDeliver, CpReadFails, CpLoopEnds, CpDelivered, CpLoopRec
<1>h. /\ cpHist' \in CpHistRec /\ cpHist'.canceled = cpHist.canceled
      /\ \A s \in cpHist'.missed : s \in cpHist.missed \/ cpSend[s].pc = "done"
  <2>1. CASE \E s \in CpSenders : CpRouteResponse(s)
    <3>1. PICK s \in CpSenders : CpRouteResponse(s)
      BY <2>1
    <3>2. CASE s \in cp.pending
      BY <1>t, <3>1, <3>2 DEF CpRouteResponse
    <3>3. CASE s \notin cp.pending
      <4>1. cpSend[s].pc = "done"
        BY <3>1, <3>3 DEF CpRouteResponse, CpInv, CpSending
      <4> QED
        <5>1. cpHist' = [cpHist EXCEPT !.missed = @ \cup {s}]
          BY <3>1, <3>3 DEF CpRouteResponse
        <5> QED
          BY <1>t, <4>1, <5>1 DEF CpHistRec
    <3> QED
      BY <3>2, <3>3
  <2> QED
    BY <1>t, <2>1 DEF CpDeliver, CpReadFails, CpLoopEnds
<1>l. cpLoop' \in CpLoopRec
  <2>1. CASE CpDeliver \/ CpLoopEnds
    BY <1>t, <2>1 DEF CpDeliver, CpLoopEnds, CpLoopRec
  <2>2. CASE CpReadFails
    <3>1. cp.pending \in SUBSET CpSenders
      BY <1>t, Zenon DEF CpState
    <3> QED
      BY <2>2, <3>1 DEF CpReadFails, CpLoopRec, CpResults
  <2>3. CASE \E s \in CpSenders : CpRouteResponse(s)
    <3>1. PICK s \in CpSenders : CpRouteResponse(s)
      BY <2>3
    <3>2. \/ cpLoop' = cpLoop
          \/ \E res \in {"response", "cli error"} : cpLoop' = [pc |-> "deliver", snap |-> {s}, res |-> res]
      BY <3>1, Zenon DEF CpRouteResponse
    <3>3. \A res \in {"response", "cli error"} : [pc |-> "deliver", snap |-> {s}, res |-> res] \in CpLoopRec
      BY DEF CpLoopRec, CpResults
    <3> QED
      BY <1>t, <3>2, <3>3, Zenon
  <2> QED
    BY <2>1, <2>2, <2>3
<1>1. CpTypeOK'
  BY <1>u, <1>c, <1>h, <1>l, Zenon DEF CpInv, CpTypeOK, CpLoopRec, CpHistRec
<1>2. CpSending'
  BY <1>u, <1>h, CpSendingKept DEF CpInv
<1>3. CpHandling'
  BY <1>u, <1>h, CpHandledKept, Zenon DEF CpInv, CpHandling
<1>4. CpClosing'
  BY <1>u, <1>c, CpClosingKept, Zenon DEF CpInv
<1> QED
  BY <1>1, <1>2, <1>3, <1>4 DEF CpInv
-----------------------------------------------------------------------------
(* The handlers of the CLI's own requests.                                  *)

LEMMA CpHandlerPc ==
  ASSUME NEW h \in CpHandlerRec, NEW p \in CpHandlerPcs
  PROVE  LET e == [h EXCEPT !.pc = p] IN
           e \in CpHandlerRec /\ e.pc = p /\ e.ctx = h.ctx /\ e.replied = h.replied
  BY Zenon DEF CpHandlerRec

LEMMA CpHandlerSet ==
  ASSUME NEW h \in CpHandlerRec
  PROVE  /\ LET e == [h EXCEPT !.ctx = "canceled"] IN
              e \in CpHandlerRec /\ e.pc = h.pc /\ e.ctx = "canceled" /\ e.replied = h.replied
         /\ LET e == [h EXCEPT !.pc = "leave", !.replied = TRUE] IN
              e \in CpHandlerRec /\ e.pc = "leave" /\ e.ctx = h.ctx /\ e.replied
         /\ LET e == [h EXCEPT !.pc = "exit", !.ctx = "canceled"] IN
              e \in CpHandlerRec /\ e.pc = "exit" /\ e.ctx = "canceled" /\ e.replied = h.replied
  BY Zenon DEF CpHandlerRec, CpHandlerPcs

LEMMA CpOneHandler ==
  ASSUME CpInv, NEW r \in CpRequests, NEW e \in CpHandlerRec,
         cpHandler' = [cpHandler EXCEPT ![r] = e], UNCHANGED <<cpChan, cpSend, cpLoop, cpClose>>,
         cp' \in CpState, cp'.pending = cp.pending, cp'.closed = cp.closed,
         \A t \in CpRequests \ {r} : t \in cp'.inflight => t \in cp.inflight,
         cpWire' \in CpWireRec, cpWire'.seen = cpWire.seen, cpWire'.transport = cpWire.transport,
         cpWire'.cli = cpWire.cli,
         cpHist' \in CpHistRec, cpHist'.missed = cpHist.missed,
         \A t \in CpRequests \ {r} : t \in cpHist'.canceled <=> t \in cpHist.canceled,
         cpHandler'[r] = e => CpHandled(r)'
  PROVE  CpInv'
<1>t. cpHandler \in [CpRequests -> CpHandlerRec]
  BY CpTypes DEF CpInv
<1>e. /\ cpHandler' \in [CpRequests -> CpHandlerRec] /\ cpHandler'[r] = e
      /\ \A t \in CpRequests \ {r} : cpHandler'[t] = cpHandler[t]
  BY <1>t, Zenon
<1>1. CpTypeOK'
  BY <1>e, Zenon DEF CpInv, CpTypeOK, CpState, CpHandlerRec, CpHandlerPcs, CpWireRec, CpHistRec
<1>2. CpSending'
  BY CpSendingKept DEF CpInv
<1>3. CpHandling'
  <2>1. \A t \in CpRequests \ {r} : CpHandled(t)'
    BY <1>e, CpHandledKept, Zenon DEF CpInv, CpHandling
  <2> QED
    BY <1>e, <2>1, Zenon DEF CpHandling
<1>4. CpClosing'
  BY CpClosingKept, Zenon DEF CpInv
<1> QED
  BY <1>1, <1>2, <1>3, <1>4 DEF CpInv

LEMMA CpHandlerKeeps ==
  ASSUME CpInv, NEW r \in CpRequests,
         CpSpawn(r) \/ CpCancelRequest(r) \/ CpCallbackReturns(r) \/ CpReplied(r) \/ CpReplyFails(r)
         \/ CpHandlerExits(r)
  PROVE  CpInv'
<1>t. /\ cp \in CpState /\ cpHandler \in [CpRequests -> CpHandlerRec] /\ cpWire \in CpWireRec
      /\ cpHist \in CpHistRec /\ CpHandled(r)
  BY CpTypes DEF CpInv, CpHandling
<1>h. cpHandler[r] \in CpHandlerRec
  BY <1>t, Zenon
<1> DEFINE more == [cp EXCEPT !.inflight = @ \cup {r}]
           less == [cp EXCEPT !.inflight = @ \ {r}]
<1>p. /\ more \in CpState /\ more.inflight = cp.inflight \cup {r}
      /\ more.pending = cp.pending /\ more.closed = cp.closed
  <2>1. cp.inflight \cup {r} \in SUBSET CpRequests
    BY <1>t DEF CpState
  <2> QED
    BY <1>t, <2>1, CpStateKept, Zenon
<1>m. /\ less \in CpState /\ less.inflight = cp.inflight \ {r}
      /\ less.pending = cp.pending /\ less.closed = cp.closed
  <2>1. cp.inflight \ {r} \in SUBSET CpRequests
    BY <1>t DEF CpState
  <2> QED
    BY <1>t, <2>1, CpStateKept, Zenon
<1> HIDE DEF more, less
<1>w. /\ cpWire' \in CpWireRec /\ cpWire'.seen = cpWire.seen /\ cpWire'.transport = cpWire.transport
      /\ cpWire'.cli = cpWire.cli
  BY <1>t DEF CpSpawn, CpCancelRequest, CpCallbackReturns, CpReplied, CpReplyFails, CpHandlerExits, CpWireRec
<1>u. UNCHANGED <<cpChan, cpSend, cpLoop, cpClose>>
  BY Zenon DEF CpSpawn, CpCancelRequest, CpCallbackReturns, CpReplied, CpReplyFails, CpHandlerExits
<1>1. CASE CpSpawn(r)
  <2>p. PICK p \in {"dropped", "run"} :
          /\ cpHandler' = [cpHandler EXCEPT ![r] = [cpHandler[r] EXCEPT !.pc = p]]
          /\ (p = "dropped" /\ cp.closed /\ cp' = cp) \/ (p = "run" /\ ~cp.closed /\ cp' = more)
    BY <1>1, Zenon DEF CpSpawn, more
  <2> DEFINE e == [cpHandler[r] EXCEPT !.pc = p]
  <2>0. p \in CpHandlerPcs
    BY DEF CpHandlerPcs
  <2>1. /\ e \in CpHandlerRec /\ e.pc = p
        /\ e.ctx = cpHandler[r].ctx /\ e.replied = cpHandler[r].replied
    BY <1>h, <2>0, CpHandlerPc, Zenon
  <2>2. cpHandler' = [cpHandler EXCEPT ![r] = e] /\ cpHist' = cpHist /\ cpHandler[r].pc = "none"
    BY <1>1, <2>p, Zenon DEF CpSpawn
  <2> HIDE DEF e
  <2>3. /\ cp' \in CpState /\ cp'.pending = cp.pending /\ cp'.closed = cp.closed
        /\ \A t \in CpRequests \ {r} : t \in cp'.inflight => t \in cp.inflight
    BY <1>t, <1>p, <2>p
  <2>4. cpHandler'[r] = e => CpHandled(r)'
    <3>1. cpClose.drained => cp.closed
      BY DEF CpInv, CpClosing
    <3> QED
      BY <1>t, <1>u, <1>w, <2>p, <2>1, <2>2, <3>1, Zenon DEF CpHandled
  <2> QED
    BY <1>t, <1>u, <1>w, <2>1, <2>2, <2>3, <2>4, CpOneHandler, Zenon
<1>2. CASE CpCancelRequest(r)
  <2> DEFINE ended == [cpHandler[r] EXCEPT !.ctx = "canceled"]
             e == IF r \in cp.inflight THEN ended ELSE cpHandler[r]
  <2>0. /\ ended \in CpHandlerRec /\ ended.pc = cpHandler[r].pc /\ ended.replied = cpHandler[r].replied
        /\ ended.ctx = "canceled"
    BY <1>h, CpHandlerSet, Zenon
  <2>1. /\ e \in CpHandlerRec /\ e.pc = cpHandler[r].pc /\ e.replied = cpHandler[r].replied
        /\ r \in cp.inflight => e.ctx = "canceled"
        /\ r \notin cp.inflight => e.ctx = cpHandler[r].ctx
    <3> HIDE DEF ended
    <3>1. CASE r \in cp.inflight
      BY <2>0, <3>1, Zenon
    <3>2. CASE r \notin cp.inflight
      BY <1>h, <3>2, Zenon
    <3> QED
      BY <3>1, <3>2
  <2>2. cpHandler' = [cpHandler EXCEPT ![r] = e] /\ cp' = less /\ cpHandler[r].pc # "none"
    BY <1>2, <1>t DEF CpCancelRequest, less
  <2>3. /\ cpHist' \in CpHistRec /\ cpHist'.missed = cpHist.missed
        /\ \A t \in CpRequests \ {r} : t \in cpHist'.canceled <=> t \in cpHist.canceled
        /\ r \in cpHist'.canceled <=> r \in cpHist.canceled \/ (r \in cp.inflight /\ cpHandler[r].pc = "run")
    BY <1>2, <1>t DEF CpCancelRequest, CpHistRec
  <2> HIDE DEF e
  <2>4. cpHandler'[r] = e => CpHandled(r)'
    BY <1>t, <1>u, <1>w, <1>m, <2>1, <2>2, <2>3, Zenon DEF CpHandled
  <2>5. \A t \in CpRequests \ {r} : t \in cp'.inflight => t \in cp.inflight
    BY <1>m, <2>2
  <2> QED
    BY <1>m, <1>u, <1>w, <2>1, <2>2, <2>3, <2>4, <2>5, CpOneHandler, Zenon
<1>3. CASE CpCallbackReturns(r)
  <2>p. PICK p \in {"reply", "leave"} :
          /\ cpHandler' = [cpHandler EXCEPT ![r] = [cpHandler[r] EXCEPT !.pc = p]]
          /\ p = "reply" <=> cpHandler[r].ctx = "live"
    BY <1>3 DEF CpCallbackReturns
  <2> DEFINE e == [cpHandler[r] EXCEPT !.pc = p]
  <2>0. p \in CpHandlerPcs
    BY DEF CpHandlerPcs
  <2>1. e \in CpHandlerRec /\ e.pc = p /\ e.ctx = cpHandler[r].ctx /\ e.replied = cpHandler[r].replied
    BY <1>h, <2>0, CpHandlerPc, Zenon
  <2>2. cpHandler' = [cpHandler EXCEPT ![r] = e] /\ cpHist' = cpHist /\ cp' = cp /\ cpHandler[r].pc = "run"
    BY <1>3, <2>p, Zenon DEF CpCallbackReturns
  <2>3. cpHandler[r].ctx \in {"live", "canceled"}
    BY <1>h DEF CpHandlerRec
  <2> HIDE DEF e
  <2>4. cpHandler'[r] = e => CpHandled(r)'
    BY <1>t, <1>u, <1>w, <2>p, <2>1, <2>2, <2>3, Zenon DEF CpHandled
  <2> QED
    BY <1>t, <1>u, <1>w, <2>1, <2>2, <2>4, CpOneHandler, Zenon
<1>4. CASE CpReplied(r)
  <2> DEFINE e == [cpHandler[r] EXCEPT !.pc = "leave", !.replied = TRUE]
  <2>1. e \in CpHandlerRec /\ e.pc = "leave" /\ e.ctx = cpHandler[r].ctx /\ e.replied
    BY <1>h, CpHandlerSet, Zenon
  <2>2. cpHandler' = [cpHandler EXCEPT ![r] = e] /\ cpHist' = cpHist /\ cp' = cp /\ cpHandler[r].pc = "reply"
    BY <1>4 DEF CpReplied
  <2> HIDE DEF e
  <2>4. cpHandler'[r] = e => CpHandled(r)'
    BY <1>t, <1>u, <1>w, <2>1, <2>2, Zenon DEF CpHandled
  <2> QED
    BY <1>t, <1>u, <1>w, <2>1, <2>2, <2>4, CpOneHandler, Zenon
<1>5. CASE CpReplyFails(r)
  <2> DEFINE e == [cpHandler[r] EXCEPT !.pc = "leave"]
  <2>1. e \in CpHandlerRec /\ e.pc = "leave" /\ e.ctx = cpHandler[r].ctx /\ e.replied = cpHandler[r].replied
    <3>1. "leave" \in CpHandlerPcs
      BY DEF CpHandlerPcs
    <3> QED
      BY <1>h, <3>1, CpHandlerPc, Zenon
  <2>2. cpHandler' = [cpHandler EXCEPT ![r] = e] /\ cpHist' = cpHist /\ cp' = cp /\ cpHandler[r].pc = "reply"
    BY <1>5 DEF CpReplyFails
  <2>3. cpClose.pc # "idle" \/ cpWire.cli = "exited"
    BY <1>5 DEF CpReplyFails, CpInv, CpClosing
  <2> HIDE DEF e
  <2>4. cpHandler'[r] = e => CpHandled(r)'
    BY <1>t, <1>u, <1>w, <2>1, <2>2, <2>3, Zenon DEF CpHandled
  <2> QED
    BY <1>t, <1>u, <1>w, <2>1, <2>2, <2>4, CpOneHandler, Zenon
<1>6. CASE CpHandlerExits(r)
  <2> DEFINE e == [cpHandler[r] EXCEPT !.pc = "exit", !.ctx = "canceled"]
  <2>1. e \in CpHandlerRec /\ e.pc = "exit" /\ e.ctx = "canceled" /\ e.replied = cpHandler[r].replied
    BY <1>h, CpHandlerSet, Zenon
  <2>2. cpHandler' = [cpHandler EXCEPT ![r] = e] /\ cpHist' = cpHist /\ cp' = less /\ cpHandler[r].pc = "leave"
    BY <1>6 DEF CpHandlerExits, less
  <2> HIDE DEF e
  <2>4. cpHandler'[r] = e => CpHandled(r)'
    BY <1>t, <1>u, <1>w, <1>m, <2>1, <2>2, Zenon DEF CpHandled
  <2>5. \A t \in CpRequests \ {r} : t \in cp'.inflight => t \in cp.inflight
    BY <1>m, <2>2
  <2> QED
    BY <1>t, <1>m, <1>u, <1>w, <2>1, <2>2, <2>4, <2>5, CpOneHandler, Zenon
<1> QED
  BY <1>1, <1>2, <1>3, <1>4, <1>5, <1>6
-----------------------------------------------------------------------------
(* The CLI, the launch context and Close.                                   *)

LEMMA CpWireKeeps ==
  ASSUME CpInv, (\E w \in CpWriters : CpWriteBegins(w)) \/ CpCliExits
  PROVE  CpInv'
<1>t. cpWire \in CpWireRec
  BY CpTypes DEF CpInv
<1>u. UNCHANGED <<cp, cpChan, cpSend, cpHandler, cpLoop, cpClose, cpHist>>
  BY Zenon DEF CpWriteBegins, CpCliExits
<1>w. /\ cpWire' \in CpWireRec /\ cpWire'.seen = cpWire.seen /\ cpWire'.transport = cpWire.transport
      /\ cpWire.cli = "exited" => cpWire'.cli = "exited"
  BY <1>t DEF CpWriteBegins, CpCliExits, CpWireRec
<1>1. CpTypeOK'
  BY <1>u, <1>w, Zenon DEF CpInv, CpTypeOK, CpWireRec
<1>2. CpSending'
  BY <1>u, <1>w, CpSendingKept DEF CpInv
<1>3. CpHandling'
  BY <1>u, <1>w, CpHandledKept, Zenon DEF CpInv, CpHandling
<1>4. CpClosing'
  BY <1>u, <1>w, CpClosingKept, Zenon DEF CpInv
<1> QED
  BY <1>1, <1>2, <1>3, <1>4 DEF CpInv

\* Contexts of handlers end; those that are in their callbacks are remembered.
LEMMA CpContextsEnd ==
  ASSUME CpInv, NEW X \in SUBSET CpRequests,
         \A q \in X : cpHandler[q].pc # "none",
         cpHandler' = [q \in CpRequests |->
                         IF q \in X THEN [cpHandler[q] EXCEPT !.ctx = "canceled"] ELSE cpHandler[q]],
         cpHist' = [cpHist EXCEPT !.canceled = @ \cup {q \in X : cpHandler[q].pc = "run"}],
         cp' = cp, cpClose.pc # "idle" => cpClose'.pc # "idle", cpClose'.drained = cpClose.drained,
         cpClose'.cancels \subseteq cpClose.cancels, cpWire.cli = "exited" => cpWire'.cli = "exited"
  PROVE  /\ cpHandler' \in [CpRequests -> CpHandlerRec] /\ CpHandling'
         /\ cpHist' \in CpHistRec /\ cpHist'.missed = cpHist.missed
<1>t. cpHandler \in [CpRequests -> CpHandlerRec] /\ cpHist \in CpHistRec /\ CpHandling
  BY CpTypes DEF CpInv
<1> DEFINE e(q) == [cpHandler[q] EXCEPT !.ctx = "canceled"]
<1>1. \A q \in CpRequests : /\ e(q) \in CpHandlerRec /\ e(q).pc = cpHandler[q].pc
                            /\ e(q).ctx = "canceled" /\ e(q).replied = cpHandler[q].replied
  BY <1>t, CpHandlerSet, Zenon
<1>2. /\ \A q \in CpRequests : cpHandler'[q] = IF q \in X THEN e(q) ELSE cpHandler[q]
      /\ cpHandler' = [q \in CpRequests |-> IF q \in X THEN e(q) ELSE cpHandler[q]]
  BY Zenon
<1> HIDE DEF e
<1>3. cpHandler' \in [CpRequests -> CpHandlerRec]
  BY <1>t, <1>1, <1>2, Zenon
<1>4. /\ cpHist' \in CpHistRec /\ cpHist'.missed = cpHist.missed
      /\ \A r \in CpRequests :
           r \in cpHist'.canceled <=> r \in cpHist.canceled \/ (r \in X /\ cpHandler[r].pc = "run")
  BY <1>t DEF CpHistRec
<1>5. ASSUME NEW r \in CpRequests PROVE CpHandled(r)'
  <2>0. CpHandled(r)
    BY <1>t DEF CpHandling
  <2>1. CASE r \in X
    <3>1. /\ cpHandler'[r].pc = cpHandler[r].pc /\ cpHandler'[r].ctx = "canceled"
          /\ cpHandler'[r].replied = cpHandler[r].replied /\ cpHandler[r].pc # "none"
      BY <1>1, <1>2, <2>1, Zenon
    <3> QED
      BY <1>4, <2>0, <2>1, <3>1, Zenon DEF CpHandled
  <2>2. CASE r \notin X
    BY <1>2, <1>4, <2>0, <2>2, CpHandledKept, Zenon
  <2> QED
    BY <2>1, <2>2
<1> QED
  BY <1>3, <1>4, <1>5 DEF CpHandling

LEMMA CpLaunchKeeps ==
  ASSUME CpInv, CpLaunchContextEnds
  PROVE  CpInv'
<1> DEFINE X == {q \in CpRequests : cpHandler[q].pc = "run"}
<1>t. cpWire \in CpWireRec
  BY CpTypes DEF CpInv
<1>u. UNCHANGED <<cp, cpChan, cpSend, cpLoop, cpClose>>
  BY Zenon DEF CpLaunchContextEnds
<1>w. /\ cpWire' \in CpWireRec /\ cpWire'.seen = cpWire.seen /\ cpWire'.transport = cpWire.transport
      /\ cpWire'.cli = "exited"
  BY <1>t DEF CpLaunchContextEnds, CpWireRec
<1>1. /\ cpHandler' = [q \in CpRequests |->
                         IF q \in X THEN [cpHandler[q] EXCEPT !.ctx = "canceled"] ELSE cpHandler[q]]
      /\ cpHist' = [cpHist EXCEPT !.canceled = @ \cup {q \in X : cpHandler[q].pc = "run"}]
      /\ \A q \in X : cpHandler[q].pc # "none"
  BY DEF CpLaunchContextEnds
<1>x. X \in SUBSET CpRequests
  OBVIOUS
<1> HIDE DEF X
<1>2. /\ cpHandler' \in [CpRequests -> CpHandlerRec] /\ CpHandling'
      /\ cpHist' \in CpHistRec /\ cpHist'.missed = cpHist.missed
  BY <1>u, <1>w, <1>x, <1>1, CpContextsEnd
<1>3. CpTypeOK'
  BY <1>u, <1>w, <1>2, Zenon DEF CpInv, CpTypeOK, CpHandlerRec, CpHandlerPcs, CpWireRec, CpHistRec
<1>4. CpSending'
  BY <1>u, <1>w, <1>2, CpSendingKept DEF CpInv
<1>5. CpClosing'
  BY <1>u, <1>w, CpClosingKept, Zenon DEF CpInv
<1> QED
  BY <1>2, <1>3, <1>4, <1>5 DEF CpInv

\* The steps of Close that leave the callers and their channels alone.
LEMMA CpCloseMoves ==
  ASSUME CpInv, UNCHANGED <<cpChan, cpSend, cpLoop>>, cpClose' \in CpCloseRec, cpWire' \in CpWireRec, cp' \in CpState,
         cpHandler' \in [CpRequests -> CpHandlerRec], cpHist' \in CpHistRec, cpHist'.missed = cpHist.missed,
         cp'.pending = cp.pending, cpWire'.seen = cpWire.seen, CpHandling', CpClosing'
  PROVE  CpInv'
<1>1. CpTypeOK'
  BY Zenon DEF CpInv, CpTypeOK, CpState, CpHandlerRec, CpHandlerPcs, CpCloseRec, CpClosePcs, CpWireRec, CpHistRec
<1>2. CpSending'
  BY CpSendingKept DEF CpInv
<1> QED
  BY <1>1, <1>2 DEF CpInv

LEMMA CpCloseBegins ==
  ASSUME CpInv, CpCloseTransport \/ CpCloseClear \/ CpCloseTerminates
  PROVE  CpInv'
<1>t. cpWire \in CpWireRec /\ cpClose \in CpCloseRec /\ cp \in CpState
  BY CpTypes DEF CpInv
<1>u. UNCHANGED <<cp, cpChan, cpSend, cpHandler, cpLoop, cpHist>>
  BY Zenon DEF CpCloseTransport, CpCloseClear, CpCloseTerminates
<1>w. /\ cpWire' \in CpWireRec /\ cpWire'.seen = cpWire.seen
      /\ cpWire.cli = "exited" => cpWire'.cli = "exited"
      /\ cpWire'.transport # "open" \/ (CpCloseTerminates /\ cpWire'.transport = cpWire.transport)
  BY <1>t DEF CpCloseTransport, CpCloseClear, CpCloseTerminates, CpWireRec
<1>1. PICK p \in {"transport", "inflight", "done"} :
        /\ cpClose' = [cpClose EXCEPT !.pc = p]
        /\ p = "done" <=> CpCloseTerminates
        /\ CpCloseTerminates => cpClose.pc = "terminate"
  BY DEF CpCloseTransport, CpCloseClear, CpCloseTerminates
<1>2. /\ cpClose' \in CpCloseRec /\ cpClose'.pc = p
      /\ cpClose'.cancels = cpClose.cancels /\ cpClose'.snap = cpClose.snap /\ cpClose'.drained = cpClose.drained
  <2>1. p \in CpClosePcs
    BY DEF CpClosePcs
  <2> QED
    BY <1>t, <1>1, <2>1, Zenon DEF CpCloseRec
<1>3. CpHandling'
  BY <1>u, <1>w, <1>2, CpHandledKept, Zenon DEF CpInv, CpHandling
<1>4. CpClosing'
  BY <1>u, <1>w, <1>1, <1>2, Zenon DEF CpInv, CpClosing, CpCloseFailsFast
<1> QED
  BY <1>t, <1>u, <1>w, <1>2, <1>3, <1>4, CpTypes, CpCloseMoves, Zenon DEF CpInv

LEMMA CpCloseDrains ==
  ASSUME CpInv, CpCloseInflight \/ CpCloseCancel \/ CpCloseWait
  PROVE  CpInv'
<1>t. /\ cp \in CpState /\ cpClose \in CpCloseRec /\ cpHandler \in [CpRequests -> CpHandlerRec]
      /\ cpWire \in CpWireRec /\ cpHist \in CpHistRec /\ CpHandling /\ CpClosing
  BY CpTypes DEF CpInv
<1>u. UNCHANGED <<cpChan, cpSend, cpLoop, cpWire>>
  BY Zenon DEF CpCloseInflight, CpCloseCancel, CpCloseWait
<1>1. CASE CpCloseInflight
  <2>1. /\ cpClose' = [cpClose EXCEPT !.pc = "cancel", !.cancels = cp.inflight]
        /\ cp' = [cp EXCEPT !.closed = TRUE] /\ UNCHANGED <<cpHandler, cpHist>> /\ cpClose.pc = "inflight"
    BY <1>1, Zenon DEF CpCloseInflight
  <2>2. cp.inflight \in SUBSET CpRequests
    BY <1>t, Zenon DEF CpState
  <2>3. /\ cpClose' \in CpCloseRec /\ cpClose'.pc = "cancel" /\ cpClose'.cancels = cp.inflight
        /\ cpClose'.drained = cpClose.drained
    <3>1. "cancel" \in CpClosePcs
      BY DEF CpClosePcs
    <3> QED
      BY <1>t, <2>1, <2>2, <3>1, Zenon DEF CpCloseRec
  <2>4. cp' \in CpState /\ cp'.closed /\ cp'.inflight = cp.inflight /\ cp'.pending = cp.pending
    BY <1>t, <2>1, CpStateKept, Zenon
  <2>5. CpHandling'
    BY <1>t, <1>u, <2>1, <2>3, <2>4, CpHandledKept, Zenon DEF CpHandling
  <2>6. CpClosing'
    BY <1>t, <1>u, <2>1, <2>3, <2>4, Zenon DEF CpClosing, CpCloseFailsFast
  <2> QED
    BY <1>t, <1>u, <2>1, <2>3, <2>4, <2>5, <2>6, CpCloseMoves, Zenon
<1>2. CASE CpCloseCancel
  <2> DEFINE X == cpClose.cancels
  <2>1. /\ cpClose' = [cpClose EXCEPT !.pc = "wait", !.cancels = {}] /\ cp' = cp /\ cpClose.pc = "cancel"
        /\ cpHandler' = [q \in CpRequests |->
                           IF q \in X THEN [cpHandler[q] EXCEPT !.ctx = "canceled"] ELSE cpHandler[q]]
        /\ cpHist' = [cpHist EXCEPT !.canceled = @ \cup {q \in X : cpHandler[q].pc = "run"}]
    BY <1>2 DEF CpCloseCancel
  <2>2. X \in SUBSET CpRequests
    BY <1>t, Zenon DEF CpCloseRec
  <2>3. \A q \in X : cpHandler[q].pc # "none"
    BY <1>t, <2>2, Zenon DEF CpHandling, CpHandled
  <2>4. /\ cpClose' \in CpCloseRec /\ cpClose'.pc = "wait" /\ cpClose'.cancels = {}
        /\ cpClose'.drained = cpClose.drained
    <3>1. {} \in SUBSET CpRequests
      OBVIOUS
    <3>2. "wait" \in CpClosePcs
      BY DEF CpClosePcs
    <3> QED
      BY <1>t, <2>1, <3>1, <3>2, Zenon DEF CpCloseRec
  <2> HIDE DEF X
  <2>5. /\ cpHandler' \in [CpRequests -> CpHandlerRec] /\ CpHandling'
        /\ cpHist' \in CpHistRec /\ cpHist'.missed = cpHist.missed
    BY <1>u, <2>1, <2>2, <2>3, <2>4, CpContextsEnd, Zenon
  <2>6. CpClosing'
    BY <1>t, <1>u, <2>1, <2>4, Zenon DEF CpClosing, CpCloseFailsFast
  <2> QED
    BY <1>t, <1>u, <2>1, <2>4, <2>5, <2>6, CpCloseMoves, Zenon
<1>3. CASE CpCloseWait
  <2>1. PICK b \in {FALSE, CpRunning = {}} : cpClose' = [cpClose EXCEPT !.pc = "pending", !.drained = b]
    BY <1>3, Zenon DEF CpCloseWait
  <2>2. b \in BOOLEAN /\ (b => \A r \in CpRequests : cpHandler[r].pc \notin {"run", "reply", "leave"})
    BY <2>1, Zenon DEF CpRunning
  <2>3. UNCHANGED <<cp, cpHandler, cpHist>> /\ cpClose.pc = "wait"
    BY <1>3, Zenon DEF CpCloseWait
  <2>4. /\ cpClose' \in CpCloseRec /\ cpClose'.pc = "pending" /\ cpClose'.cancels = cpClose.cancels
        /\ cpClose'.drained = b
    <3>1. "pending" \in CpClosePcs
      BY DEF CpClosePcs
    <3> QED
      BY <1>t, <2>1, <2>2, <3>1, Zenon DEF CpCloseRec
  <2>5. CpHandling'
    BY <1>t, <1>u, <2>2, <2>3, <2>4, CpHandledKept, Zenon DEF CpHandling
  <2>6. CpClosing'
    BY <1>t, <1>u, <2>3, <2>4, Zenon DEF CpClosing, CpCloseFailsFast
  <2> QED
    BY <1>t, <1>u, <2>3, <2>4, <2>5, <2>6, CpCloseMoves, Zenon
<1> QED
  BY <1>1, <1>2, <1>3

LEMMA CpCloseFailsPending ==
  ASSUME CpInv, CpClosePending \/ CpCloseFails
  PROVE  CpInv'
<1>t. /\ cp \in CpState /\ cpClose \in CpCloseRec /\ cpHandler \in [CpRequests -> CpHandlerRec]
      /\ cpWire \in CpWireRec /\ cpHist \in CpHistRec /\ CpHandling /\ CpClosing /\ CpSending
      /\ cpChan \in [CpSenders -> CpResults \cup {"empty"}]
  BY CpTypes DEF CpInv
<1>u. UNCHANGED <<cp, cpSend, cpHandler, cpLoop, cpWire, cpHist>>
  BY Zenon DEF CpClosePending, CpCloseFails
<1>1. CASE CpClosePending
  <2>1. cpClose' = [cpClose EXCEPT !.pc = "failing", !.snap = cp.pending] /\ cpClose.pc = "pending" /\ cpChan' = cpChan
    BY <1>1, Zenon DEF CpClosePending
  <2>2. cp.pending \in SUBSET CpSenders
    BY <1>t, Zenon DEF CpState
  <2>3. /\ cpClose' \in CpCloseRec /\ cpClose'.pc = "failing" /\ cpClose'.cancels = cpClose.cancels
        /\ cpClose'.snap = cp.pending /\ cpClose'.drained = cpClose.drained
    <3>1. "failing" \in CpClosePcs
      BY DEF CpClosePcs
    <3> QED
      BY <1>t, <2>1, <2>2, <3>1, Zenon DEF CpCloseRec
  <2>4. CpHandling'
    BY <1>t, <1>u, <2>1, <2>3, CpHandledKept, Zenon DEF CpHandling
  <2>5. CpClosing'
    BY <1>t, <1>u, <2>1, <2>3, Zenon DEF CpClosing, CpCloseFailsFast, CpSending
  <2> QED
    BY <1>t, <1>u, <2>1, <2>3, <2>4, <2>5, CpCloseMoves, Zenon
<1>2. CASE CpCloseFails
  <2>1. /\ cpClose' = [cpClose EXCEPT !.pc = "terminate", !.snap = {}] /\ cpClose.pc = "failing"
        /\ cpChan' = CpDelivered(cpClose.snap, "disconnected")
    BY <1>2, Zenon DEF CpCloseFails
  <2>2. /\ cpClose' \in CpCloseRec /\ cpClose'.pc = "terminate" /\ cpClose'.cancels = cpClose.cancels
        /\ cpClose'.drained = cpClose.drained
    <3>1. {} \in SUBSET CpSenders
      OBVIOUS
    <3>2. "terminate" \in CpClosePcs
      BY DEF CpClosePcs
    <3> QED
      BY <1>t, <2>1, <3>1, <3>2, Zenon DEF CpCloseRec
  <2>3. /\ cpChan' \in [CpSenders -> CpResults \cup {"empty"}]
        /\ \A s \in cpClose.snap : s \in CpSenders => cpChan'[s] # "empty"
    BY <1>t, <2>1 DEF CpDelivered, CpResults
  <2>4. CpHandling'
    BY <1>t, <1>u, <2>1, <2>2, CpHandledKept, Zenon DEF CpHandling
  <2>5. CpClosing'
    BY <1>t, <1>u, <2>1, <2>2, <2>3, Zenon DEF CpClosing, CpCloseFailsFast
  <2>6. CpTypeOK'
    BY <1>u, <2>2, <2>3, Zenon DEF CpInv, CpTypeOK, CpCloseRec, CpClosePcs
  <2>7. CpSending'
    BY <1>t, <1>u, CpSendingKept
  <2> QED
    BY <2>4, <2>5, <2>6, <2>7 DEF CpInv
<1> QED
  BY <1>1, <1>2

LEMMA CpNextInv == CpInv /\ [CpNext]_cpVars => CpInv'
<1> SUFFICES ASSUME CpInv, [CpNext]_cpVars PROVE CpInv'
  OBVIOUS
<1>1. CASE UNCHANGED cpVars
  <2>0. UNCHANGED <<cp, cpChan, cpSend, cpHandler, cpLoop, cpClose, cpWire, cpHist>>
    BY <1>1 DEF cpVars
  <2>1. CpTypeOK'
    BY <2>0 DEF CpInv, CpTypeOK
  <2>2. CpSending' /\ CpClosing'
    BY <2>0 DEF CpInv, CpSending, CpAnswerFindsWaiter, CpClosing, CpCloseFailsFast
  <2>3. CpHandling'
    BY <2>0, CpHandledKept, Zenon DEF CpInv, CpHandling
  <2> QED
    BY <2>1, <2>2, <2>3 DEF CpInv
<1>2. CASE CpNext
  BY <1>2, CpSenderKeeps, CpLoopKeeps, CpHandlerKeeps, CpWireKeeps, CpLaunchKeeps, CpCloseBegins, CpCloseDrains,
     CpCloseFailsPending, Zenon DEF CpNext, CpCloseStep
<1> QED
  BY <1>1, <1>2

LEMMA CpInvariant == CpSpec => []CpInv
  BY CpInitInv, CpNextInv, PTL DEF CpSpec

\* The tables of controlProtocol and the goroutines around them keep their types, for
\* every number of requests in both directions.
THEOREM CpTypeCorrect == CpSpec => []CpTypeOK
  BY CpInvariant, PTL DEF CpInv

\* Every control request of the CLI comes to its one proper end, however its handler,
\* readLoop, the launch context and Close interleave: it is answered; or it was canceled
\* while its callback ran and is not; or the session went away; and no callback runs
\* once Close has seen every handler out.
THEOREM CpSettled == CpSpec => []CpRequestsSettled
<1>1. CpInv => CpRequestsSettled
  <2> SUFFICES ASSUME CpInv PROVE CpRequestsSettled
    OBVIOUS
  <2>1. \A r \in CpRequests : CpHandled(r)
    BY DEF CpInv, CpHandling
  <2>2. cpHist.canceled \subseteq CpRequests
    BY CpTypes, Zenon DEF CpInv, CpHistRec
  <2>3. CpNoLateHandler
    BY <2>1, Zenon DEF CpNoLateHandler, CpRunning, CpHandled
  <2>4. CpCanceledStaysSilent
    BY <2>1, <2>2, Zenon DEF CpCanceledStaysSilent, CpHandled
  <2>5. CpRequestsAnswered
    BY <2>1, Zenon DEF CpRequestsAnswered, CpHandled
  <2> QED
    BY <2>3, <2>4, <2>5 DEF CpRequestsSettled
<1> QED
  BY <1>1, CpInvariant, PTL

\* sendControlRequest registers its waiter before it writes: an answer finds no waiter
\* only when the caller has already returned.
THEOREM CpNoAnswerMissed == CpSpec => []CpAnswerFindsWaiter
  BY CpInvariant, PTL DEF CpInv, CpSending

\* Once Close is past failPending, whoever still waits has a result in its channel: Close
\* leaves no caller of controlRequest to its timeout, however late its request was sent.
THEOREM CpNobodyLeftWaiting == CpSpec => []CpCloseFailsFast
  BY CpInvariant, PTL DEF CpInv, CpClosing
-----------------------------------------------------------------------------
(* The opencode turn.                                                        *)

TnHandle == [consuming : BOOLEAN, finished : BOOLEAN, out : Outcomes \cup {"nil"},
             sawIdle : BOOLEAN, sessErr : BOOLEAN]
TnCallPcs == {"idle", "loop"} \cup TnResults
TnCallRec == [pc : TnCallPcs, mode : {"stream", "run"},
              ctx : {"live", "canceled"}, hasOut : BOOLEAN, events : BOOLEAN]
TnPumpRec == [pc : {"off", "next", "hold", "failed", "gone"}, event : 0..TnMaxEvents, ctx : {"live", "canceled"}]
TnQueueRec == [events : Seq(1..TnMaxEvents), shut : BOOLEAN]

\* A pump that holds an event holds one of the session.
TnHeld == \A c \in TnConsumers : tnPump[c].pc = "hold" => tnPump[c].event \in 1..TnMaxEvents

\* The one consumer in its loop has the handle, and an outcome that was taken from the
\* channel is on it; nothing changes the handle of a finished turn.
TnHanded ==
  /\ tn.finished => tn.out # "nil"
  /\ tnChan = "drained" => tn.out # "nil"
  /\ \A c \in TnConsumers :
       /\ tnCall[c].pc = "loop" => tn.consuming /\ ~tn.finished
       /\ tnCall[c].hasOut => tn.out # "nil"
       /\ tnCall[c].pc \in TnTerminal => tn.finished
       /\ tnCall[c].pc = "ok" => tn.out = "ok" /\ ~tn.sessErr
  /\ \A c, d \in TnConsumers : \/ tnCall[c].pc = "loop" /\ tnCall[d].pc = "loop"
                               \/ tnCall[c].pc \in TnTerminal /\ tnCall[d].pc \in TnTerminal
                               => c = d

TnInv == TnTypeOK /\ TnHeld /\ TnHanded

LEMMA TnTypes ==
  TnTypeOK <=> /\ tn \in TnHandle /\ tnChan \in Outcomes \cup {"running", "drained"} /\ tnQueue \in TnQueueRec
               /\ tnCall \in [TnConsumers -> TnCallRec] /\ tnPump \in [TnConsumers -> TnPumpRec]
               /\ tnEmitted \in Seq(TnEvents) /\ tnLost \subseteq 1..TnMaxEvents
  BY Zenon DEF TnTypeOK, TnHandle, TnQueueRec, TnCallRec, TnCallPcs, TnPumpRec

LEMMA TnInitInv == TnInit => TnInv
<1> SUFFICES ASSUME TnInit PROVE TnInv
  OBVIOUS
<1>1. tn \in TnHandle
  BY Zenon DEF TnInit, TnHandle
<1>2. tnQueue \in TnQueueRec
  <2>1. <<>> \in Seq(1..TnMaxEvents)
    OBVIOUS
  <2> QED
    BY <2>1, Zenon DEF TnInit, TnQueueRec
<1>3. /\ tnCall \in [TnConsumers -> TnCallRec]
      /\ \A c \in TnConsumers : tnCall[c].pc = "idle" /\ ~tnCall[c].hasOut
  BY Zenon DEF TnInit, TnCallRec, TnCallPcs
<1>4. /\ tnPump \in [TnConsumers -> TnPumpRec] /\ \A c \in TnConsumers : tnPump[c].pc = "off"
      /\ tnEmitted \in Seq(TnEvents) /\ tnLost \subseteq 1..TnMaxEvents
      /\ tnChan = "running" /\ tn.out = "nil"
  BY TnAssumption DEF TnInit, TnPumpRec
<1>5. ~tn.finished
  BY Zenon DEF TnInit
<1>6. TnTypeOK
  BY <1>1, <1>2, <1>3, <1>4, TnTypes, Zenon
<1>7. TnHeld
  BY <1>4 DEF TnHeld
<1>8. TnHanded
  BY <1>3, <1>4, <1>5 DEF TnHanded, TnTerminal
<1> QED
  BY <1>6, <1>7, <1>8 DEF TnInv
-----------------------------------------------------------------------------
\* What a step of a call does to it and to the handle.
TnMoves(c) ==
  \/ /\ tnCall[c].pc = "idle" /\ tnCall'[c].pc = "refused" /\ tn' = tn
     /\ tnCall'[c].hasOut = tnCall[c].hasOut
  \/ /\ tnCall[c].pc = "idle" /\ tnCall'[c].pc = "loop" /\ ~tn.consuming /\ ~tn.finished
     /\ tn'.consuming /\ ~tn'.finished /\ tn'.out = tn.out /\ tnCall'[c].hasOut = tnCall[c].hasOut
  \/ /\ tnCall[c].pc = "loop" /\ tnCall'[c].pc \in {"canceled", "stopped", "bus closed"}
     /\ tn'.out = tn.out /\ tn'.finished = tn.finished /\ tnCall'[c].hasOut = tnCall[c].hasOut
  \/ /\ tnCall[c].pc = "loop" \/ (tnCall[c].pc = "idle" /\ ~tn.consuming)
     /\ ~tn.finished /\ tn'.finished /\ tn'.out # "nil"
     /\ tnCall'[c].pc \in TnTerminal /\ (tnCall'[c].pc = "ok" => tn'.out = "ok" /\ ~tn'.sessErr)
  \/ /\ tnCall[c].pc = "loop" /\ tnCall'[c].pc = "loop"
     /\ tn'.consuming = tn.consuming /\ tn'.finished = tn.finished
     /\ tn'.out = tn.out \/ tn'.out # "nil"
     /\ tnCall'[c].hasOut => tnCall[c].hasOut \/ tn'.out # "nil"

LEMMA TnMoveKeeps ==
  ASSUME TnInv, NEW c \in TnConsumers, TnMoves(c),
         tn' \in TnHandle, tnCall' \in [TnConsumers -> TnCallRec],
         \A d \in TnConsumers \ {c} : tnCall'[d] = tnCall[d],
         tnChan' = tnChan \/ tn'.out # "nil"
  PROVE  TnHanded'
<1>1. tn.out # "nil" => tn'.out # "nil"
  BY DEF TnMoves
<1>2. /\ tn'.finished => tn'.out # "nil"
      /\ tnChan' = "drained" => tn'.out # "nil"
  BY <1>1, Zenon DEF TnMoves, TnInv, TnHanded
<1>t. {"idle", "loop", "refused", "canceled", "stopped", "bus closed"} \cap TnTerminal = {} /\ "ok" \in TnTerminal
  BY DEF TnTerminal
<1>3. \A d \in TnConsumers : \A e \in TnConsumers \ {d} : tnCall[d].pc = "loop" => tnCall[e].pc # "loop"
  BY Zenon DEF TnInv, TnHanded
<1>4. \A d \in TnConsumers : tnCall[d].pc = "loop" => tn.consuming /\ ~tn.finished
  BY Zenon DEF TnInv, TnHanded
<1>5. \A d \in TnConsumers : tnCall[d].pc \in TnTerminal => tn.finished
  BY Zenon DEF TnInv, TnHanded
<1>6. \A d \in TnConsumers : /\ tnCall'[d].pc = "loop" => tn'.consuming /\ ~tn'.finished
                             /\ tnCall'[d].pc \in TnTerminal => tn'.finished
  <2>1. ASSUME NEW d \in TnConsumers \ {c}, tnCall[d].pc = "loop"
        PROVE  tn'.consuming /\ ~tn'.finished
    <3>1. tnCall[c].pc # "loop" /\ tn.consuming /\ ~tn.finished
      BY <1>3, <1>4, <2>1, Zenon
    <3>2. tn' = tn
      BY <3>1, Zenon DEF TnMoves
    <3> QED
      BY <3>1, <3>2
  <2>2. ASSUME NEW d \in TnConsumers \ {c}, tnCall[d].pc \in TnTerminal
        PROVE  tn'.finished
    BY <1>4, <1>5, <2>2, Zenon DEF TnMoves
  <2>3. /\ tnCall'[c].pc = "loop" => tn'.consuming /\ ~tn'.finished
        /\ tnCall'[c].pc \in TnTerminal => tn'.finished
    BY <1>4, <1>t, Zenon DEF TnMoves
  <2>4. \A d \in TnConsumers \ {c} : /\ tnCall'[d].pc = "loop" => tn'.consuming /\ ~tn'.finished
                                     /\ tnCall'[d].pc \in TnTerminal => tn'.finished
    BY <2>1, <2>2, Zenon
  <2> QED
    BY <2>3, <2>4, Zenon
<1>7. \A d \in TnConsumers : tnCall'[d].hasOut => tn'.out # "nil"
  <2>1. tnCall'[c].hasOut => tnCall[c].hasOut \/ tn'.out # "nil"
    BY Zenon DEF TnMoves
  <2> QED
    BY <1>1, <2>1, Zenon DEF TnInv, TnHanded
<1>8. \A d \in TnConsumers : tnCall'[d].pc = "ok" => tn'.out = "ok" /\ ~tn'.sessErr
  <2>1. tnCall'[c].pc = "ok" => tn'.out = "ok" /\ ~tn'.sessErr
    BY <1>t, Zenon DEF TnMoves
  <2>2. ASSUME NEW d \in TnConsumers \ {c}, tnCall[d].pc = "ok"
        PROVE  tn' = tn
    BY <1>4, <1>5, <1>t, <2>2, Zenon DEF TnMoves
  <2> QED
    BY <2>1, <2>2, Zenon DEF TnInv, TnHanded
<1>9. \A d, e \in TnConsumers : tnCall'[d].pc = "loop" /\ tnCall'[e].pc = "loop" => d = e
  <2>1. \A e \in TnConsumers \ {c} : tnCall'[c].pc = "loop" => tnCall[e].pc # "loop"
    BY <1>3, <1>4, Zenon DEF TnMoves
  <2> QED
    BY <2>1, <1>3, Zenon
<1>10. \A d, e \in TnConsumers : tnCall'[d].pc \in TnTerminal /\ tnCall'[e].pc \in TnTerminal => d = e
  <2>1. \A e \in TnConsumers \ {c} : tnCall'[c].pc \in TnTerminal => tnCall[e].pc \notin TnTerminal
    BY <1>5, <1>t, Zenon DEF TnMoves
  <2> QED
    BY <2>1, Zenon DEF TnInv, TnHanded
<1> QED
  BY <1>2, <1>6, <1>7, <1>8, <1>9, <1>10, Zenon DEF TnHanded

-----------------------------------------------------------------------------
(* What the updates of the handle do.                                        *)

LEMMA TnReleased ==
  ASSUME NEW h \in TnHandle
  PROVE  LET e == [h EXCEPT !.consuming = FALSE] IN
           e \in TnHandle /\ e.finished = h.finished /\ e.out = h.out /\ e.sessErr = h.sessErr
  BY Zenon DEF TnHandle

LEMMA TnTaken ==
  ASSUME NEW h \in TnHandle
  PROVE  LET e == [h EXCEPT !.consuming = TRUE] IN
           e \in TnHandle /\ e.consuming /\ e.finished = h.finished /\ e.out = h.out
  BY Zenon DEF TnHandle

LEMMA TnFinished ==
  ASSUME NEW h \in TnHandle
  PROVE  LET e == [h EXCEPT !.finished = TRUE] IN
           e \in TnHandle /\ e.finished /\ e.out = h.out /\ e.sessErr = h.sessErr
  BY Zenon DEF TnHandle

LEMMA TnStored ==
  ASSUME NEW h \in TnHandle, NEW out \in Outcomes
  PROVE  LET e == [h EXCEPT !.out = out] IN
           e \in TnHandle /\ e.out = out /\ e.finished = h.finished /\ e.consuming = h.consuming
  BY Zenon DEF TnHandle

LEMMA TnNoted ==
  ASSUME NEW h \in TnHandle, NEW ev
  PROVE  /\ Noted(h, ev) \in TnHandle /\ Noted(h, ev).out = h.out
         /\ Noted(h, ev).finished = h.finished /\ Noted(h, ev).consuming = h.consuming
<1>1. \A a, b \in BOOLEAN : LET e == [h EXCEPT !.sawIdle = a, !.sessErr = b] IN
         e \in TnHandle /\ e.out = h.out /\ e.finished = h.finished /\ e.consuming = h.consuming
  BY Zenon DEF TnHandle
<1>2. (h.sawIdle \/ ev = "idle") \in BOOLEAN /\ (h.sessErr \/ ev = "error") \in BOOLEAN
  BY Zenon
<1>3. Noted(h, ev) = [h EXCEPT !.sawIdle = (h.sawIdle \/ ev = "idle"), !.sessErr = (h.sessErr \/ ev = "error")]
  BY Zenon DEF Noted, TnHandle
<1> QED
  BY <1>1, <1>2, <1>3, Zenon

LEMMA TnResolution ==
  ASSUME NEW h \in TnHandle, h.out # "nil"
  PROVE  /\ Resolution(h) \in TnTerminal /\ Resolution(h) \in TnCallPcs
         /\ Resolution(h) = "ok" => h.out = "ok" /\ ~h.sessErr
<1>1. h.out \in TnTerminal
  BY DEF TnHandle, Outcomes, TnTerminal
<1>2. CASE h.sessErr
  BY <1>2, Zenon DEF Resolution, TnTerminal, TnCallPcs, TnResults
<1>3. CASE ~h.sessErr
  BY <1>1, <1>3, Zenon DEF Resolution, TnCallPcs, TnResults
<1> QED
  BY <1>2, <1>3

LEMMA TnCallPc ==
  ASSUME NEW k \in TnCallRec, NEW p \in TnCallPcs
  PROVE  LET e == [k EXCEPT !.pc = p] IN
           e \in TnCallRec /\ e.pc = p /\ e.hasOut = k.hasOut /\ e.ctx = k.ctx
  BY Zenon DEF TnCallRec

\* A call whose label alone changes.
LEMMA TnCallAt ==
  ASSUME TnInv, NEW c \in TnConsumers, NEW p \in TnCallPcs, tnCall' = [tnCall EXCEPT ![c].pc = p]
  PROVE  /\ tnCall' \in [TnConsumers -> TnCallRec] /\ \A d \in TnConsumers \ {c} : tnCall'[d] = tnCall[d]
         /\ tnCall'[c].pc = p /\ tnCall'[c].hasOut = tnCall[c].hasOut
<1>t. tnCall \in [TnConsumers -> TnCallRec]
  BY TnTypes DEF TnInv
<1> DEFINE e == [tnCall[c] EXCEPT !.pc = p]
<1>1. e \in TnCallRec /\ e.pc = p /\ e.hasOut = tnCall[c].hasOut
  BY <1>t, TnCallPc, Zenon
<1>2. tnCall' = [tnCall EXCEPT ![c] = e]
  OBVIOUS
<1> HIDE DEF e
<1> QED
  BY <1>t, <1>1, <1>2, Zenon

LEMMA TnPumpSet ==
  ASSUME TnInv, NEW c \in TnConsumers, NEW e \in TnPumpRec, e.pc = "hold" => e.event \in 1..TnMaxEvents,
         tnPump' = [tnPump EXCEPT ![c] = e]
  PROVE  tnPump' \in [TnConsumers -> TnPumpRec] /\ TnHeld'
<1>t. tnPump \in [TnConsumers -> TnPumpRec]
  BY TnTypes DEF TnInv
<1>1. /\ tnPump' \in [TnConsumers -> TnPumpRec] /\ tnPump'[c] = e
      /\ \A d \in TnConsumers \ {c} : tnPump'[d] = tnPump[d]
  BY <1>t, Zenon
<1> QED
  BY <1>1, Zenon DEF TnInv, TnHeld

LEMMA TnShut ==
  ASSUME NEW q \in TnQueueRec
  PROVE  [q EXCEPT !.shut = TRUE] \in TnQueueRec
  BY Zenon DEF TnQueueRec

LEMMA TnAllTogether ==
  ASSUME TnInv, tn' \in TnHandle, tnChan' \in Outcomes \cup {"running", "drained"}, tnQueue' \in TnQueueRec,
         tnCall' \in [TnConsumers -> TnCallRec], tnPump' \in [TnConsumers -> TnPumpRec],
         UNCHANGED <<tnEmitted, tnLost>>, TnHeld', TnHanded'
  PROVE  TnInv'
<1>1. tnEmitted \in Seq(TnEvents) /\ tnLost \subseteq 1..TnMaxEvents
  BY TnTypes DEF TnInv
<1>2. TnTypeOK'
  BY <1>1, Zenon DEF TnTypeOK, TnHandle, TnQueueRec, TnCallRec, TnCallPcs, TnPumpRec
<1> QED
  BY <1>2 DEF TnInv

\* A consumer that is interrupted leaves the turn open.
LEMMA TnLeaveKeeps ==
  ASSUME TnInv, NEW c \in TnConsumers, tnCall[c].pc = "loop", NEW h \in TnHandle,
         h.out = tn.out, h.finished = tn.finished, NEW p \in {"canceled", "stopped", "bus closed"},
         TnReturn(c, h, p), tnPump' \in [TnConsumers -> TnPumpRec], TnHeld',
         UNCHANGED <<tnChan, tnQueue, tnEmitted, tnLost>>
  PROVE  TnInv'
<1>t. tnChan \in Outcomes \cup {"running", "drained"} /\ tnQueue \in TnQueueRec
  BY TnTypes DEF TnInv
<1>1. p \in TnCallPcs
  BY DEF TnCallPcs, TnResults
<1>2. /\ tnCall' \in [TnConsumers -> TnCallRec] /\ \A d \in TnConsumers \ {c} : tnCall'[d] = tnCall[d]
      /\ tnCall'[c].pc = p /\ tnCall'[c].hasOut = tnCall[c].hasOut
  BY <1>1, TnCallAt DEF TnReturn
<1>3. tn' \in TnHandle /\ tn'.finished = tn.finished /\ tn'.out = tn.out
  BY TnReleased, Zenon DEF TnReturn
<1>4. TnMoves(c)
  BY <1>2, <1>3, Zenon DEF TnMoves
<1>5. TnHanded'
  BY <1>2, <1>3, <1>4, TnMoveKeeps, Zenon
<1> QED
  BY <1>t, <1>2, <1>3, <1>5, TnAllTogether, Zenon

\* A consumer that resolves the turn ends it with the outcome that is on the handle.
LEMMA TnResolveKeeps ==
  ASSUME TnInv, NEW c \in TnConsumers, tnCall[c].pc = "loop" \/ (tnCall[c].pc = "idle" /\ ~tn.consuming),
         ~tn.finished, NEW h \in TnHandle, h.out # "nil", NEW pump, TnResolve(c, h, pump),
         tnPump' \in [TnConsumers -> TnPumpRec], TnHeld',
         tnChan' \in Outcomes \cup {"running", "drained"}, UNCHANGED <<tnEmitted, tnLost>>
  PROVE  TnInv'
<1>t. tnQueue \in TnQueueRec
  BY TnTypes DEF TnInv
<1>q. tnQueue' \in TnQueueRec
  BY <1>t, TnShut, Zenon DEF TnResolve
<1> DEFINE f == [h EXCEPT !.finished = TRUE]
<1>f. f \in TnHandle /\ f.finished /\ f.out = h.out /\ f.sessErr = h.sessErr
  BY TnFinished, Zenon
<1>r. tnCall' = [tnCall EXCEPT ![c].pc = Resolution(h)] /\ tn' = [f EXCEPT !.consuming = FALSE]
  BY DEF TnResolve, TnReturn
<1> HIDE DEF f
<1>1. /\ Resolution(h) \in TnTerminal /\ Resolution(h) \in TnCallPcs
      /\ Resolution(h) = "ok" => h.out = "ok" /\ ~h.sessErr
  BY TnResolution
<1>2. /\ tnCall' \in [TnConsumers -> TnCallRec] /\ \A d \in TnConsumers \ {c} : tnCall'[d] = tnCall[d]
      /\ tnCall'[c].pc = Resolution(h)
  BY <1>1, <1>r, TnCallAt
<1>3. tn' \in TnHandle /\ tn'.finished /\ tn'.out = h.out /\ tn'.sessErr = h.sessErr
  BY <1>f, <1>r, TnReleased, Zenon
<1>4. TnMoves(c)
  BY <1>1, <1>2, <1>3, Zenon DEF TnMoves
<1>5. TnHanded'
  BY <1>2, <1>3, <1>4, TnMoveKeeps, Zenon
<1> QED
  BY <1>q, <1>2, <1>3, <1>5, TnAllTogether, Zenon

-----------------------------------------------------------------------------
LEMMA TnConsumeKeeps ==
  ASSUME TnInv, NEW c \in TnConsumers, TnConsume(c)
  PROVE  TnInv'
<1>t. /\ tn \in TnHandle /\ tnQueue \in TnQueueRec /\ tnPump \in [TnConsumers -> TnPumpRec]
      /\ tnChan \in Outcomes \cup {"running", "drained"}
  BY TnTypes DEF TnInv
<1>u. UNCHANGED <<tnChan, tnEmitted, tnLost>> /\ tnCall[c].pc = "idle"
  BY Zenon DEF TnConsume
<1> DEFINE pump == [tnPump EXCEPT ![c].pc = "next"]
<1>1. CASE tn.finished \/ tn.consuming
  <2>1. tnCall' = [tnCall EXCEPT ![c].pc = "refused"] /\ UNCHANGED <<tn, tnQueue, tnPump>>
    BY <1>1, Zenon DEF TnConsume
  <2>2. "refused" \in TnCallPcs
    BY DEF TnCallPcs, TnResults
  <2>3. /\ tnCall' \in [TnConsumers -> TnCallRec] /\ \A d \in TnConsumers \ {c} : tnCall'[d] = tnCall[d]
        /\ tnCall'[c].pc = "refused" /\ tnCall'[c].hasOut = tnCall[c].hasOut
    BY <2>1, <2>2, TnCallAt, Zenon
  <2>4. TnMoves(c)
    BY <1>u, <2>1, <2>3, Zenon DEF TnMoves
  <2>5. TnHanded'
    BY <1>t, <1>u, <2>1, <2>3, <2>4, TnMoveKeeps, Zenon
  <2>6. TnHeld'
    BY <2>1 DEF TnInv, TnHeld
  <2> QED
    BY <1>t, <1>u, <2>1, <2>3, <2>5, <2>6, TnAllTogether, Zenon
<1>2. CASE ~tn.finished /\ ~tn.consuming /\ tn.out # "nil"
  <2>1. TnResolve(c, tn, pump)
    BY <1>2, Zenon DEF TnConsume
  <2>2. tnPump' = [tnPump EXCEPT ![c] = [tnPump[c] EXCEPT !.pc = "next", !.ctx = "canceled"]]
    BY <1>t, <2>1, Zenon DEF TnResolve, TnPumpRec
  <2>3. tnPump' \in [TnConsumers -> TnPumpRec] /\ TnHeld'
    <3> DEFINE e == [tnPump[c] EXCEPT !.pc = "next", !.ctx = "canceled"]
    <3>1. e \in TnPumpRec /\ e.pc # "hold"
      BY <1>t, Zenon DEF TnPumpRec
    <3> QED
      BY <2>2, <3>1, TnPumpSet, Zenon
  <2> QED
    BY <1>t, <1>u, <1>2, <2>1, <2>3, TnResolveKeeps, Zenon
<1>3. CASE ~tn.finished /\ ~tn.consuming /\ tn.out = "nil"
  <2>1. /\ tnCall' = [tnCall EXCEPT ![c].pc = "loop"] /\ tn' = [tn EXCEPT !.consuming = TRUE]
        /\ tnPump' = pump /\ tnQueue' = tnQueue
    BY <1>3, Zenon DEF TnConsume
  <2>2. "loop" \in TnCallPcs
    BY DEF TnCallPcs
  <2>3. /\ tnCall' \in [TnConsumers -> TnCallRec] /\ \A d \in TnConsumers \ {c} : tnCall'[d] = tnCall[d]
        /\ tnCall'[c].pc = "loop" /\ tnCall'[c].hasOut = tnCall[c].hasOut
    BY <2>1, <2>2, TnCallAt
  <2>4. tn' \in TnHandle /\ tn'.consuming /\ tn'.finished = tn.finished /\ tn'.out = tn.out
    BY <1>t, <2>1, TnTaken, Zenon
  <2>5. TnMoves(c)
    BY <1>u, <1>3, <2>3, <2>4, Zenon DEF TnMoves
  <2>6. TnHanded'
    BY <1>u, <2>3, <2>4, <2>5, TnMoveKeeps, Zenon
  <2>7. tnPump' \in [TnConsumers -> TnPumpRec] /\ TnHeld'
    <3> DEFINE e == [tnPump[c] EXCEPT !.pc = "next"]
    <3>1. e \in TnPumpRec /\ e.pc # "hold"
      BY <1>t DEF TnPumpRec
    <3> QED
      BY <2>1, <3>1, TnPumpSet, Zenon
  <2> QED
    BY <1>t, <1>u, <2>1, <2>3, <2>4, <2>6, <2>7, TnAllTogether, Zenon
<1> QED
  BY <1>1, <1>2, <1>3

\* A pump whose context is canceled is otherwise what it was.
LEMMA TnPumpCanceled ==
  ASSUME TnInv, NEW c \in TnConsumers, tnPump' = [tnPump EXCEPT ![c].ctx = "canceled"]
  PROVE  tnPump' \in [TnConsumers -> TnPumpRec] /\ TnHeld'
<1>t. tnPump \in [TnConsumers -> TnPumpRec]
  BY TnTypes DEF TnInv
<1> DEFINE e == [tnPump[c] EXCEPT !.ctx = "canceled"]
<1>1. e \in TnPumpRec /\ e.pc = tnPump[c].pc /\ e.event = tnPump[c].event
  BY <1>t DEF TnPumpRec
<1>2. e.pc = "hold" => e.event \in 1..TnMaxEvents
  BY <1>1 DEF TnInv, TnHeld
<1> QED
  BY <1>1, <1>2, TnPumpSet

\* A call that stays in its loop: the handle may have noted an event or got the outcome.
LEMMA TnStayKeeps ==
  ASSUME TnInv, NEW c \in TnConsumers, tnCall[c].pc = "loop", NEW e \in TnCallRec,
         tnCall' = [tnCall EXCEPT ![c] = e], e.pc = "loop", e.hasOut => tnCall[c].hasOut \/ tn'.out # "nil",
         tn' \in TnHandle, tn'.consuming = tn.consuming, tn'.finished = tn.finished,
         tn'.out = tn.out \/ tn'.out # "nil", tnChan' = tnChan \/ tn'.out # "nil",
         tnChan' \in Outcomes \cup {"running", "drained"}, tnPump' \in [TnConsumers -> TnPumpRec], TnHeld',
         UNCHANGED <<tnQueue, tnEmitted, tnLost>>
  PROVE  TnInv'
<1>t. tnQueue \in TnQueueRec /\ tnCall \in [TnConsumers -> TnCallRec]
  BY TnTypes DEF TnInv
<1>1. /\ tnCall' \in [TnConsumers -> TnCallRec] /\ tnCall'[c] = e
      /\ \A d \in TnConsumers \ {c} : tnCall'[d] = tnCall[d]
  BY <1>t, Zenon
<1>2. TnMoves(c)
  BY <1>1, Zenon DEF TnMoves
<1>3. TnHanded'
  BY <1>1, <1>2, TnMoveKeeps, Zenon
<1> QED
  BY <1>t, <1>1, <1>3, TnAllTogether, Zenon

LEMMA TnOutcomeKeeps ==
  ASSUME TnInv, NEW c \in TnConsumers, TnTakeOutcome(c)
  PROVE  TnInv'
<1>t. /\ tn \in TnHandle /\ tnPump \in [TnConsumers -> TnPumpRec] /\ tnCall \in [TnConsumers -> TnCallRec]
      /\ TnHeld
  BY TnTypes DEF TnInv
<1>u. /\ UNCHANGED <<tnEmitted, tnLost>> /\ tnCall[c].pc = "loop" /\ tnChan \in Outcomes /\ tnChan' = "drained"
  BY Zenon DEF TnTakeOutcome
<1> DEFINE h == [tn EXCEPT !.out = tnChan]
<1>h. h \in TnHandle /\ h.out = tnChan /\ h.finished = tn.finished /\ h.consuming = tn.consuming
  BY <1>t, <1>u, TnStored, Zenon
<1>n. tnChan # "nil" /\ ~tn.finished
  BY <1>u DEF Outcomes, TnInv, TnHanded
<1>1. CASE TurnOver(h, tnChan)
  <2>1. TnResolve(c, h, tnPump)
    BY <1>1, Zenon DEF TnTakeOutcome
  <2>2. tnPump' \in [TnConsumers -> TnPumpRec] /\ TnHeld'
    BY <2>1, TnPumpCanceled DEF TnResolve
  <2> HIDE DEF h
  <2> QED
    BY <1>u, <1>h, <1>n, <2>1, <2>2, TnResolveKeeps, Zenon
<1>2. CASE ~TurnOver(h, tnChan)
  <2> DEFINE e == [tnCall[c] EXCEPT !.hasOut = TRUE]
  <2>1. tn' = h /\ tnCall' = [tnCall EXCEPT ![c] = e] /\ UNCHANGED <<tnQueue, tnPump>>
    BY <1>2, Zenon DEF TnTakeOutcome
  <2>2. e \in TnCallRec /\ e.pc = tnCall[c].pc
    BY <1>t, Zenon DEF TnCallRec
  <2> HIDE DEF h, e
  <2>3. TnHeld' /\ tnPump' \in [TnConsumers -> TnPumpRec]
    BY <1>t, <2>1 DEF TnHeld
  <2> QED
    BY <1>u, <1>h, <1>n, <2>1, <2>2, <2>3, TnStayKeeps, Zenon
<1> QED
  BY <1>1, <1>2

LEMMA TnEventKeeps ==
  ASSUME TnInv, NEW c \in TnConsumers, TnTakeEvent(c)
  PROVE  TnInv'
<1>t. /\ tn \in TnHandle /\ tnPump \in [TnConsumers -> TnPumpRec] /\ tnCall \in [TnConsumers -> TnCallRec]
      /\ tnChan \in Outcomes \cup {"running", "drained"}
  BY TnTypes DEF TnInv
<1> DEFINE h == Noted(tn, tnEmitted[tnPump[c].event])
           pump == [tnPump EXCEPT ![c].pc = "next", ![c].event = 0]
<1>h. h \in TnHandle /\ h.out = tn.out /\ h.finished = tn.finished /\ h.consuming = tn.consuming
  BY <1>t, TnNoted, Zenon
<1>u. UNCHANGED <<tnChan, tnEmitted, tnLost>> /\ tnCall[c].pc = "loop"
  BY Zenon DEF TnTakeEvent
<1>n. ~tn.finished /\ (tnCall[c].hasOut => tn.out # "nil")
  BY <1>u, Zenon DEF TnInv, TnHanded
<1> DEFINE next == [tnPump[c] EXCEPT !.pc = "next", !.event = 0]
           gone == [next EXCEPT !.ctx = "canceled"]
<1>e. /\ next \in TnPumpRec /\ next.pc = "next" /\ gone \in TnPumpRec /\ gone.pc = "next"
      /\ pump = [tnPump EXCEPT ![c] = next]
      /\ [pump EXCEPT ![c].ctx = "canceled"] = [tnPump EXCEPT ![c] = gone]
  <2>1. tnPump[c] \in TnPumpRec /\ 0 \in 0..TnMaxEvents
    BY <1>t, TnAssumption
  <2>2. next \in TnPumpRec /\ next.pc = "next"
    BY <2>1, Zenon DEF TnPumpRec
  <2>3. pump = [tnPump EXCEPT ![c] = next]
    BY <1>t, Zenon DEF TnPumpRec
  <2> HIDE DEF next
  <2>4. gone \in TnPumpRec /\ gone.pc = "next"
    BY <2>2, Zenon DEF TnPumpRec
  <2> HIDE DEF pump
  <2>5. [pump EXCEPT ![c].ctx = "canceled"] = [tnPump EXCEPT ![c] = gone]
    BY <1>t, <2>3, Zenon
  <2> QED
    BY <2>2, <2>3, <2>4, <2>5
<1>1. \/ /\ TnReturn(c, h, "stopped") /\ tnPump' = [pump EXCEPT ![c].ctx = "canceled"]
         /\ UNCHANGED tnQueue
      \/ tnCall[c].hasOut /\ TnResolve(c, h, pump)
      \/ tn' = h /\ tnPump' = pump /\ UNCHANGED <<tnCall, tnQueue>>
  BY Zenon DEF TnTakeEvent
<1> HIDE DEF h, pump, next, gone
<1>2. CASE /\ TnReturn(c, h, "stopped") /\ tnPump' = [pump EXCEPT ![c].ctx = "canceled"]
           /\ UNCHANGED tnQueue
  <2>1. tnPump' \in [TnConsumers -> TnPumpRec] /\ TnHeld'
    BY <1>e, <1>2, TnPumpSet
  <2> QED
    BY <1>h, <1>u, <1>2, <2>1, TnLeaveKeeps, Zenon
<1>3. CASE tnCall[c].hasOut /\ TnResolve(c, h, pump)
  <2>1. tnPump' \in [TnConsumers -> TnPumpRec] /\ TnHeld'
    BY <1>e, <1>3, TnPumpSet, Zenon DEF TnResolve
  <2> QED
    BY <1>t, <1>h, <1>u, <1>n, <1>3, <2>1, TnResolveKeeps, Zenon
<1>4. CASE tn' = h /\ tnPump' = pump /\ UNCHANGED <<tnCall, tnQueue>>
  <2>1. tnPump' \in [TnConsumers -> TnPumpRec] /\ TnHeld'
    BY <1>e, <1>4, TnPumpSet
  <2>2. tnCall' = [tnCall EXCEPT ![c] = tnCall[c]] /\ tnCall[c] \in TnCallRec
    BY <1>t, <1>4, Zenon
  <2> QED
    BY <1>t, <1>h, <1>u, <1>4, <2>1, <2>2, TnStayKeeps, Zenon
<1> QED
  BY <1>1, <1>2, <1>3, <1>4

LEMMA TnOtherKeeps ==
  ASSUME TnInv, NEW c \in TnConsumers, TnCanceled(c) \/ TnDrainEnds(c) \/ TnTakePumpError(c) \/ TnCancel(c)
  PROVE  TnInv'
<1>t. /\ tn \in TnHandle /\ tnPump \in [TnConsumers -> TnPumpRec] /\ tnCall \in [TnConsumers -> TnCallRec]
      /\ tnChan \in Outcomes \cup {"running", "drained"} /\ TnHeld
  BY TnTypes DEF TnInv
<1>u. UNCHANGED <<tnChan, tnEmitted, tnLost>> /\ tnCall[c].pc = "loop"
  BY Zenon DEF TnCanceled, TnDrainEnds, TnTakePumpError, TnCancel
<1>n. ~tn.finished /\ (tnCall[c].hasOut => tn.out # "nil")
  BY <1>u, Zenon DEF TnInv, TnHanded
<1>1. CASE \E p \in {"canceled", "bus closed"} :
             TnReturn(c, tn, p) /\ tnPump' = [tnPump EXCEPT ![c].ctx = "canceled"] /\ UNCHANGED tnQueue
  <2>1. PICK p \in {"canceled", "bus closed"} :
             TnReturn(c, tn, p) /\ tnPump' = [tnPump EXCEPT ![c].ctx = "canceled"] /\ UNCHANGED tnQueue
    BY <1>1
  <2>2. tnPump' \in [TnConsumers -> TnPumpRec] /\ TnHeld'
    BY <2>1, TnPumpCanceled
  <2>3. p \in {"canceled", "stopped", "bus closed"}
    OBVIOUS
  <2> QED
    BY <1>t, <1>u, <2>1, <2>2, <2>3, TnLeaveKeeps, Zenon
<1>2. CASE tnCall[c].hasOut /\ TnResolve(c, tn, tnPump)
  <2>1. tnPump' \in [TnConsumers -> TnPumpRec] /\ TnHeld'
    BY <1>2, TnPumpCanceled DEF TnResolve
  <2> QED
    BY <1>t, <1>u, <1>n, <1>2, <2>1, TnResolveKeeps, Zenon
<1>3. CASE /\ \/ tnCall' = [tnCall EXCEPT ![c].events = FALSE]
              \/ tnCall' = [tnCall EXCEPT ![c].ctx = "canceled"]
           /\ UNCHANGED <<tn, tnQueue, tnPump>>
  <2>1. \E e \in TnCallRec : /\ tnCall' = [tnCall EXCEPT ![c] = e]
                             /\ e.pc = tnCall[c].pc /\ e.hasOut = tnCall[c].hasOut
    <3> DEFINE d == [tnCall[c] EXCEPT !.events = FALSE]
               f == [tnCall[c] EXCEPT !.ctx = "canceled"]
    <3>1. d \in TnCallRec /\ d.pc = tnCall[c].pc /\ d.hasOut = tnCall[c].hasOut
      BY <1>t, Zenon DEF TnCallRec
    <3>2. f \in TnCallRec /\ f.pc = tnCall[c].pc /\ f.hasOut = tnCall[c].hasOut
      BY <1>t, Zenon DEF TnCallRec
    <3>3. tnCall' = [tnCall EXCEPT ![c] = d] \/ tnCall' = [tnCall EXCEPT ![c] = f]
      BY <1>3, Zenon
    <3> HIDE DEF d, f
    <3> QED
      BY <3>1, <3>2, <3>3, Zenon
  <2>2. tnPump' \in [TnConsumers -> TnPumpRec] /\ TnHeld'
    BY <1>t, <1>3 DEF TnHeld
  <2> QED
    BY <1>t, <1>u, <1>3, <2>1, <2>2, TnStayKeeps, Zenon
<1> QED
  BY <1>1, <1>2, <1>3, Zenon DEF TnCanceled, TnDrainEnds, TnTakePumpError, TnCancel

\* The pumps, the prompt and the bus leave the calls and the handle alone.
LEMMA TnOutsideKeeps ==
  ASSUME TnInv, UNCHANGED <<tn, tnCall>>, tnChan' = tnChan \/ tnChan' \in Outcomes,
         tnQueue' \in TnQueueRec, tnPump' \in [TnConsumers -> TnPumpRec], TnHeld',
         tnEmitted' \in Seq(TnEvents), tnLost' \subseteq 1..TnMaxEvents
  PROVE  TnInv'
<1>t. /\ tn \in TnHandle /\ tnCall \in [TnConsumers -> TnCallRec]
      /\ tnChan \in Outcomes \cup {"running", "drained"}
  BY TnTypes DEF TnInv
<1>1. tnChan' \in Outcomes \cup {"running", "drained"} /\ (tnChan' = "drained" => tnChan = "drained")
  BY <1>t DEF Outcomes
<1>2. TnTypeOK'
  BY <1>t, <1>1, Zenon DEF TnTypeOK, TnHandle, TnQueueRec, TnCallRec, TnCallPcs, TnPumpRec
<1>3. TnHanded'
  BY <1>1, Zenon DEF TnInv, TnHanded
<1> QED
  BY <1>2, <1>3 DEF TnInv

LEMMA TnPumpKeeps ==
  ASSUME TnInv, NEW c \in TnConsumers, TnPumpNext(c) \/ TnPumpDrops(c)
  PROVE  TnInv'
<1>t. /\ tnPump \in [TnConsumers -> TnPumpRec] /\ tnQueue \in TnQueueRec /\ TnHeld
      /\ tnEmitted \in Seq(TnEvents) /\ tnLost \subseteq 1..TnMaxEvents
  BY TnTypes DEF TnInv
<1>s. tnQueue.events \in Seq(1..TnMaxEvents)
  BY <1>t, Zenon DEF TnQueueRec
<1>u. UNCHANGED <<tn, tnCall, tnChan, tnEmitted>>
  BY Zenon DEF TnPumpNext, TnPumpDrops
<1>1. CASE TnPumpNext(c) /\ tnQueue.events # <<>>
  <2> DEFINE e == [tnPump[c] EXCEPT !.pc = "hold", !.event = Head(tnQueue.events)]
  <2>1. tnPump' = [tnPump EXCEPT ![c] = e] /\ tnQueue' = [tnQueue EXCEPT !.events = Tail(@)] /\ tnLost' = tnLost
    BY <1>1, Zenon DEF TnPumpNext
  <2>2. Head(tnQueue.events) \in 1..TnMaxEvents /\ Tail(tnQueue.events) \in Seq(1..TnMaxEvents)
    <3> DEFINE S == 1..TnMaxEvents
    <3> HIDE DEF S
    <3>1. \A s \in Seq(S) : s # <<>> => Head(s) \in S /\ Tail(s) \in Seq(S)
      OBVIOUS
    <3> QED
      BY <1>s, <1>1, <3>1, Zenon DEF S
  <2>3. e \in TnPumpRec /\ e.event \in 1..TnMaxEvents
    <3>1. tnPump[c] \in TnPumpRec /\ Head(tnQueue.events) \in 0..TnMaxEvents
      BY <1>t, <2>2
    <3> QED
      BY <2>2, <3>1, Zenon DEF TnPumpRec
  <2>4. tnPump' \in [TnConsumers -> TnPumpRec] /\ TnHeld'
    BY <2>1, <2>3, TnPumpSet
  <2>5. tnQueue' \in TnQueueRec
    BY <1>t, <2>1, <2>2, Zenon DEF TnQueueRec
  <2> QED
    BY <1>t, <1>u, <2>1, <2>4, <2>5, TnOutsideKeeps, Zenon
<1>2. CASE TnPumpNext(c) /\ tnQueue.events = <<>>
  <2> DEFINE e == [tnPump[c] EXCEPT !.pc = "failed"]
  <2>1. tnPump' = [tnPump EXCEPT ![c] = e] /\ tnQueue' = tnQueue /\ tnLost' = tnLost
    BY <1>2, Zenon DEF TnPumpNext
  <2>3. e \in TnPumpRec /\ e.pc # "hold"
    BY <1>t DEF TnPumpRec
  <2>4. tnPump' \in [TnConsumers -> TnPumpRec] /\ TnHeld'
    BY <2>1, <2>3, TnPumpSet, Zenon
  <2> QED
    BY <1>t, <1>u, <2>1, <2>4, TnOutsideKeeps, Zenon
<1>3. CASE TnPumpDrops(c)
  <2> DEFINE e == [tnPump[c] EXCEPT !.pc = "gone", !.event = 0]
  <2>1. tnPump' = [tnPump EXCEPT ![c] = e] /\ tnQueue' = tnQueue /\ tnLost' = tnLost \cup {tnPump[c].event}
    BY <1>3 DEF TnPumpDrops
  <2>2. tnLost' \subseteq 1..TnMaxEvents
    BY <1>t, <1>3, <2>1, Zenon DEF TnPumpDrops, TnHeld
  <2>3. e \in TnPumpRec /\ e.pc # "hold"
    <3>1. tnPump[c] \in TnPumpRec /\ 0 \in 0..TnMaxEvents
      BY <1>t, TnAssumption
    <3> QED
      BY <3>1, Zenon DEF TnPumpRec
  <2>4. tnPump' \in [TnConsumers -> TnPumpRec] /\ TnHeld'
    BY <2>1, <2>3, TnPumpSet
  <2> QED
    BY <1>t, <1>u, <2>1, <2>2, <2>4, TnOutsideKeeps, Zenon
<1> QED
  BY <1>1, <1>2, <1>3

LEMMA TnWorldKeeps ==
  ASSUME TnInv,
         (\E out \in Outcomes : TnPromptReturns(out)) \/ (\E ev \in TnEvents : TnEmit(ev)) \/ TnBusCloses
  PROVE  TnInv'
<1>t. /\ tnPump \in [TnConsumers -> TnPumpRec] /\ tnQueue \in TnQueueRec /\ TnHeld
      /\ tnEmitted \in Seq(TnEvents) /\ tnLost \subseteq 1..TnMaxEvents
  BY TnTypes DEF TnInv
<1>u. UNCHANGED <<tn, tnCall, tnPump, tnLost>>
  BY Zenon DEF TnPromptReturns, TnEmit, TnBusCloses
<1>h. TnHeld'
  BY <1>t, <1>u DEF TnHeld
<1>1. CASE \E out \in Outcomes : TnPromptReturns(out)
  <2>1. tnChan' \in Outcomes /\ UNCHANGED <<tnQueue, tnEmitted>>
    BY <1>1, Zenon DEF TnPromptReturns
  <2> QED
    BY <1>t, <1>u, <1>h, <2>1, TnOutsideKeeps, Zenon
<1>2. CASE TnBusCloses
  <2>1. tnQueue' \in TnQueueRec /\ UNCHANGED <<tnChan, tnEmitted>>
    BY <1>t, <1>2, TnShut, Zenon DEF TnBusCloses
  <2> QED
    BY <1>t, <1>u, <1>h, <2>1, TnOutsideKeeps, Zenon
<1>3. CASE \E ev \in TnEvents : TnEmit(ev)
  <2>1. PICK ev \in TnEvents : TnEmit(ev)
    BY <1>3
  <2>2. tnEmitted' \in Seq(TnEvents) /\ Len(tnEmitted) + 1 \in 1..TnMaxEvents
    BY <1>t, <2>1, TnAssumption DEF TnEmit
  <2>3. tnQueue.events \in Seq(1..TnMaxEvents)
    BY <1>t, Zenon DEF TnQueueRec
  <2>4. Append(tnQueue.events, Len(tnEmitted) + 1) \in Seq(1..TnMaxEvents)
    BY <2>2, <2>3
  <2>5. /\ tnQueue' = [tnQueue EXCEPT !.events = Append(tnQueue.events, Len(tnEmitted) + 1)]
        /\ tnChan' = tnChan
    BY <2>1 DEF TnEmit
  <2>6. tnQueue' \in TnQueueRec
    BY <1>t, <2>4, <2>5, Zenon DEF TnQueueRec
  <2> QED
    BY <1>t, <1>u, <1>h, <2>2, <2>5, <2>6, TnOutsideKeeps, Zenon
<1> QED
  BY <1>1, <1>2, <1>3

LEMMA TnNextInv == TnInv /\ [TnNext]_tnVars => TnInv'
<1> SUFFICES ASSUME TnInv, [TnNext]_tnVars PROVE TnInv'
  OBVIOUS
<1>1. CASE UNCHANGED tnVars
  <2>1. UNCHANGED <<tn, tnChan, tnQueue, tnCall, tnPump, tnEmitted, tnLost>>
    BY <1>1, Zenon DEF tnVars
  <2>2. TnTypeOK' /\ TnHeld' /\ TnHanded'
    BY <2>1 DEF TnInv, TnTypeOK, TnHeld, TnHanded
  <2> QED
    BY <2>2 DEF TnInv
<1>2. CASE TnNext
  BY <1>2, TnConsumeKeeps, TnOutcomeKeeps, TnEventKeeps, TnOtherKeeps, TnPumpKeeps, TnWorldKeeps, Zenon
     DEF TnNext, TnCallStep
<1> QED
  BY <1>1, <1>2

LEMMA TnInvariant == TnSpec => []TnInv
  BY TnInitInv, TnNextInv, PTL DEF TnSpec

\* The turn, its pumps and its consumers keep their types.
THEOREM TnTypeCorrect == TnSpec => []TnTypeOK
  BY TnInvariant, PTL DEF TnInv

\* A turn ends with the outcome of its prompt and with no other, for every number of
\* consumers and of events: none before the prompt has returned, by one consumer, never
\* as a success when the prompt failed or a session.error was noted; and the outcome
\* survives every interrupted consumer.
THEOREM TnTurnOutcome == TnSpec => []TnOutcomeTrue
<1>1. TnInv => TnOutcomeTrue
  <2> SUFFICES ASSUME TnInv PROVE TnOutcomeTrue
    OBVIOUS
  <2>1. \A c, d \in TnResolvedCalls : c = d
    BY Zenon DEF TnInv, TnHanded, TnResolvedCalls
  <2>2. \A c \in TnResolvedCalls : tnCall[c].pc = "ok" => tn.out = "ok" /\ ~tn.sessErr
    BY Zenon DEF TnInv, TnHanded, TnResolvedCalls
  <2>3. (tn.finished => tn.out # "nil") /\ TnOutcomeKept
    BY Zenon DEF TnInv, TnHanded, TnOutcomeKept
  <2> QED
    BY <2>1, <2>2, <2>3 DEF TnOutcomeTrue, TnAuthoritative
<1> QED
  BY <1>1, TnInvariant, PTL
=============================================================================
