---------------------------- MODULE ClaudeControl ----------------------------
(***************************************************************************)
(* The control protocol of one claude session (pkg/llm/claude/              *)
(* control_protocol.go, client_control.go) with the parts of the client it  *)
(* runs against: readLoop routes every line of the CLI, callers of          *)
(* controlRequest write requests and wait for their responses, every        *)
(* inbound request runs a user callback in a handler goroutine of its own,  *)
(* and Close tears all of it down.  closeMu and writeMu are modelled by who *)
(* holds them; pendingMu and inflightMu sections are single steps.          *)
(*                                                                         *)
(* The CLI is external: it may answer, ask, cancel, stop reading its stdin  *)
(* (a write then blocks, holding writeMu) or exit at any time.              *)
(***************************************************************************)
EXTENDS Integers, FiniteSets

CONSTANTS
  CpSenders,  \* calls of controlRequest, one request id each (newRequestID)
  CpRequests  \* request ids of the CLI's own requests

VARIABLES
  cp,         \* controlProtocol: pending, inflight, closed
  cpChan,     \* the 1-buffered channel of each pending request
  cpSend,     \* controlRequest: where each caller is, what it returned
  cpHandler,  \* the handler goroutine of each inbound request
  cpLoop,     \* readLoop: where it is and what it has looked up under pendingMu
  cpClose,    \* Close: where it is, its snapshots, whether waitInflight drained
  cpWire,     \* the transport, the holder of writeMu, and the CLI
  cpHist      \* history: answers routed to nobody, requests canceled in their callback

cpVars == <<cp, cpChan, cpSend, cpHandler, cpLoop, cpClose, cpWire, cpHist>>

CpWriters == CpSenders \cup CpRequests
CpResults == {"response", "cli error", "disconnected"}
CpReturns == CpResults \cup {"not running", "write failed", "timeout", "canceled"}

\* The tables of controlProtocol and the goroutines around them keep their types.
CpTypeOK ==
  /\ cp \in [pending : SUBSET CpSenders, inflight : SUBSET CpRequests, closed : BOOLEAN]
  /\ cpChan \in [CpSenders -> CpResults \cup {"empty"}]
  /\ cpSend \in [CpSenders -> [pc : {"idle", "enter", "write", "wait", "done"}, res : CpReturns \cup {"none"}]]
  /\ cpHandler \in [CpRequests -> [pc : {"none", "run", "reply", "leave", "exit", "dropped"},
                                   ctx : {"live", "canceled"}, replied : BOOLEAN]]
  /\ cpLoop \in [pc : {"read", "deliver", "failing", "done"}, snap : SUBSET CpSenders, res : CpResults]
  /\ cpClose \in [pc : {"idle", "transport", "inflight", "cancel", "wait", "pending", "failing",
                        "terminate", "done"},
                  cancels : SUBSET CpRequests, snap : SUBSET CpSenders, drained : BOOLEAN]
  /\ cpWire \in [transport : {"open", "shut", "nil"}, holder : CpWriters \cup {"free"},
                 cli : {"up", "exited"}, seen : SUBSET CpSenders]
  /\ cpHist \in [missed : SUBSET CpSenders, canceled : SUBSET CpRequests]

\* The session as start leaves it: readLoop running, nothing asked yet.
CpInit ==
  /\ cp = [pending |-> {}, inflight |-> {}, closed |-> FALSE]
  /\ cpChan = [s \in CpSenders |-> "empty"]
  /\ cpSend = [s \in CpSenders |-> [pc |-> "idle", res |-> "none"]]
  /\ cpHandler = [r \in CpRequests |-> [pc |-> "none", ctx |-> "live", replied |-> FALSE]]
  /\ cpLoop = [pc |-> "read", snap |-> {}, res |-> "response"]
  /\ cpClose = [pc |-> "idle", cancels |-> {}, snap |-> {}, drained |-> FALSE]
  /\ cpWire = [transport |-> "open", holder |-> "free", cli |-> "up", seen |-> {}]
  /\ cpHist = [missed |-> {}, canceled |-> {}]
-----------------------------------------------------------------------------
(* Outbound: controlRequest and sendControlRequest. *)

\* controlRequest takes its snapshot of c.cp under closeMu, which Close holds
\* while it shuts the transport down.
CpEnter(s) ==
  /\ cpSend[s].pc = "idle" /\ cpClose.pc # "transport"
  /\ cpSend' = [cpSend EXCEPT ![s].pc = "enter"]
  /\ UNCHANGED <<cp, cpChan, cpHandler, cpLoop, cpClose, cpWire, cpHist>>

\* The waiter is registered before the request is written.
CpRegister(s) ==
  /\ cpSend[s].pc = "enter"
  /\ cp' = [cp EXCEPT !.pending = @ \cup {s}]
  /\ cpSend' = [cpSend EXCEPT ![s].pc = "write"]
  /\ UNCHANGED <<cpChan, cpHandler, cpLoop, cpClose, cpWire, cpHist>>

\* sendControlRequest returns: the deferred function reaps the pending entry.
CpReturn(s, res) ==
  /\ cpSend' = [cpSend EXCEPT ![s] = [pc |-> "done", res |-> res]]
  /\ cp' = [cp EXCEPT !.pending = @ \ {s}]

\* Mutated form: without a transport the message is dropped without an error.
CpNotRunningSilent(s) ==
  /\ cpSend[s].pc = "write" /\ cpWire.holder = "free" /\ cpWire.transport = "nil"
  /\ cpSend' = [cpSend EXCEPT ![s].pc = "wait"]
  /\ UNCHANGED <<cp, cpChan, cpHandler, cpLoop, cpClose, cpWire, cpHist>>

\* writeMessage finds the transport gone, under writeMu.
CpNotRunning(s) ==
  /\ cpSend[s].pc = "write" /\ cpWire.holder = "free" /\ cpWire.transport = "nil"
  /\ CpReturn(s, "not running")
  /\ UNCHANGED <<cpChan, cpHandler, cpLoop, cpClose, cpWire, cpHist>>

\* writeMessage takes writeMu and starts the blocking write to the CLI's stdin.
CpWriteBegins(w) ==
  /\ \/ w \in CpSenders /\ cpSend[w].pc = "write"
     \/ w \in CpRequests /\ cpHandler[w].pc = "reply"
  /\ cpWire.holder = "free" /\ cpWire.transport # "nil"
  /\ cpWire' = [cpWire EXCEPT !.holder = w]
  /\ UNCHANGED <<cp, cpChan, cpSend, cpHandler, cpLoop, cpClose, cpHist>>

\* The CLI reads the request.
CpWritten(s) ==
  /\ cpSend[s].pc = "write" /\ cpWire.holder = s
  /\ cpWire.transport = "open" /\ cpWire.cli = "up"
  /\ cpWire' = [cpWire EXCEPT !.holder = "free", !.seen = @ \cup {s}]
  /\ cpSend' = [cpSend EXCEPT ![s].pc = "wait"]
  /\ UNCHANGED <<cp, cpChan, cpHandler, cpLoop, cpClose, cpHist>>

\* The write fails: stdin was closed under it, or its reader is gone.
CpWriteFails(s) ==
  /\ cpSend[s].pc = "write" /\ cpWire.holder = s
  /\ cpWire.transport # "open" \/ cpWire.cli = "exited"
  /\ cpWire' = [cpWire EXCEPT !.holder = "free"]
  /\ CpReturn(s, "write failed")
  /\ UNCHANGED <<cpChan, cpHandler, cpLoop, cpClose, cpHist>>

\* The select of sendControlRequest: the channel has a result.
CpTakeResult(s) ==
  /\ cpSend[s].pc = "wait" /\ cpChan[s] # "empty"
  /\ CpReturn(s, cpChan[s])
  /\ cpChan' = [cpChan EXCEPT ![s] = "empty"]
  /\ UNCHANGED <<cpHandler, cpLoop, cpClose, cpWire, cpHist>>

\* The select of sendControlRequest: the timeout elapsed, or the caller's
\* context is done.
CpGiveUp(s) ==
  /\ cpSend[s].pc = "wait"
  /\ \E res \in {"timeout", "canceled"} : CpReturn(s, res)
  /\ UNCHANGED <<cpChan, cpHandler, cpLoop, cpClose, cpWire, cpHist>>
-----------------------------------------------------------------------------
(* Inbound: readLoop, route, and the handlers. *)

\* A non-blocking send to each of the channels: the first result stays.
CpDelivered(senders, res) ==
  [s \in CpSenders |-> IF s \in senders /\ cpChan[s] = "empty" THEN res ELSE cpChan[s]]

\* routeControlResponse looks the waiter up under pendingMu.  The CLI answers
\* what it has seen, possibly twice; an answer nobody waits for is dropped.
CpRouteResponse(s) ==
  /\ cpLoop.pc = "read" /\ s \in cpWire.seen
  /\ IF s \in cp.pending
     THEN /\ \E res \in {"response", "cli error"} : cpLoop' = [pc |-> "deliver", snap |-> {s}, res |-> res]
          /\ UNCHANGED cpHist
     ELSE /\ cpHist' = [cpHist EXCEPT !.missed = @ \cup {s}]
          /\ UNCHANGED cpLoop
  /\ UNCHANGED <<cp, cpChan, cpSend, cpHandler, cpClose, cpWire>>

\* ... and sends the result after releasing it.
CpDeliver ==
  /\ cpLoop.pc = "deliver"
  /\ cpChan' = CpDelivered(cpLoop.snap, cpLoop.res)
  /\ cpLoop' = [cpLoop EXCEPT !.pc = "read", !.snap = {}]
  /\ UNCHANGED <<cp, cpSend, cpHandler, cpClose, cpWire, cpHist>>

\* Mutated form: spawnControlRequest admits a handler whatever closed says.
CpSpawnAlways(r) ==
  /\ cpLoop.pc = "read" /\ cpHandler[r].pc = "none"
  /\ cp' = [cp EXCEPT !.inflight = @ \cup {r}]
  /\ cpHandler' = [cpHandler EXCEPT ![r].pc = "run"]
  /\ UNCHANGED <<cpChan, cpSend, cpLoop, cpClose, cpWire, cpHist>>

\* spawnControlRequest registers the cancel function and the handlerWG.Add in one
\* section, unless Close has begun to drain.
CpSpawn(r) ==
  /\ cpLoop.pc = "read" /\ cpHandler[r].pc = "none"
  /\ IF cp.closed
     THEN cpHandler' = [cpHandler EXCEPT ![r].pc = "dropped"] /\ UNCHANGED cp
     ELSE /\ cp' = [cp EXCEPT !.inflight = @ \cup {r}]
          /\ cpHandler' = [cpHandler EXCEPT ![r].pc = "run"]
  /\ UNCHANGED <<cpChan, cpSend, cpLoop, cpClose, cpWire, cpHist>>

\* cancelControlRequest.
CpCancelRequest(r) ==
  /\ cpLoop.pc = "read" /\ cpHandler[r].pc # "none"
  /\ cp' = [cp EXCEPT !.inflight = @ \ {r}]
  /\ IF r \in cp.inflight
     THEN /\ cpHandler' = [cpHandler EXCEPT ![r].ctx = "canceled"]
          /\ cpHist' = IF cpHandler[r].pc = "run" THEN [cpHist EXCEPT !.canceled = @ \cup {r}] ELSE cpHist
     ELSE UNCHANGED <<cpHandler, cpHist>>
  /\ UNCHANGED <<cpChan, cpSend, cpLoop, cpClose, cpWire>>

\* The callback returned a verdict or an error, or panicked and was recovered:
\* handleControlRequest replies unless its context is done by now.
CpCallbackReturns(r) ==
  /\ cpHandler[r].pc = "run"
  /\ cpHandler' = [cpHandler EXCEPT ![r].pc = IF cpHandler[r].ctx = "live" THEN "reply" ELSE "leave"]
  /\ UNCHANGED <<cp, cpChan, cpSend, cpLoop, cpClose, cpWire, cpHist>>

\* writeControlResponse: the CLI reads the reply.
CpReplied(r) ==
  /\ cpHandler[r].pc = "reply" /\ cpWire.holder = r
  /\ cpWire.transport = "open" /\ cpWire.cli = "up"
  /\ cpWire' = [cpWire EXCEPT !.holder = "free"]
  /\ cpHandler' = [cpHandler EXCEPT ![r].pc = "leave", ![r].replied = TRUE]
  /\ UNCHANGED <<cp, cpChan, cpSend, cpLoop, cpClose, cpHist>>

\* writeControlResponse is best effort: a reply that cannot be written is dropped.
CpReplyFails(r) ==
  /\ cpHandler[r].pc = "reply"
  /\ \/ cpWire.holder = "free" /\ cpWire.transport = "nil"
     \/ cpWire.holder = r /\ (cpWire.transport # "open" \/ cpWire.cli = "exited")
  /\ cpWire' = [cpWire EXCEPT !.holder = "free"]
  /\ cpHandler' = [cpHandler EXCEPT ![r].pc = "leave"]
  /\ UNCHANGED <<cp, cpChan, cpSend, cpLoop, cpClose, cpHist>>

\* The deferred function of the handler goroutine: entry, context, WaitGroup.
CpHandlerExits(r) ==
  /\ cpHandler[r].pc = "leave"
  /\ cp' = [cp EXCEPT !.inflight = @ \ {r}]
  /\ cpHandler' = [cpHandler EXCEPT ![r].pc = "exit", ![r].ctx = "canceled"]
  /\ UNCHANGED <<cpChan, cpSend, cpLoop, cpClose, cpWire, cpHist>>
-----------------------------------------------------------------------------
(* The end: the CLI, the caller's context, readLoop's error path, Close. *)

\* The CLI exits (external).
CpCliExits ==
  /\ cpWire.cli = "up"
  /\ cpWire' = [cpWire EXCEPT !.cli = "exited"]
  /\ UNCHANGED <<cp, cpChan, cpSend, cpHandler, cpLoop, cpClose, cpHist>>

\* The context of the Query that launched the session ends.  It is the parent of
\* every handler's context, readLoop's own, and it kills the CLI.
CpLaunchContextEnds ==
  /\ cpWire.cli = "up"
  /\ cpWire' = [cpWire EXCEPT !.cli = "exited"]
  /\ cpHandler' = [r \in CpRequests |->
                     IF cpHandler[r].pc = "run" THEN [cpHandler[r] EXCEPT !.ctx = "canceled"] ELSE cpHandler[r]]
  /\ cpHist' = [cpHist EXCEPT !.canceled = @ \cup {r \in CpRequests : cpHandler[r].pc = "run"}]
  /\ UNCHANGED <<cp, cpChan, cpSend, cpLoop, cpClose>>

\* ReadJSON fails once the CLI is gone: failPending takes its snapshot ...
CpReadFails ==
  /\ cpLoop.pc = "read" /\ cpWire.cli = "exited"
  /\ cpLoop' = [pc |-> "failing", snap |-> cp.pending, res |-> "disconnected"]
  /\ UNCHANGED <<cp, cpChan, cpSend, cpHandler, cpClose, cpWire, cpHist>>

\* ... and delivers after releasing pendingMu; the buffer is closed and readLoop ends.
CpLoopEnds ==
  /\ cpLoop.pc = "failing"
  /\ cpChan' = CpDelivered(cpLoop.snap, cpLoop.res)
  /\ cpLoop' = [cpLoop EXCEPT !.pc = "done", !.snap = {}]
  /\ UNCHANGED <<cp, cpSend, cpHandler, cpClose, cpWire, cpHist>>

\* Close takes closeMu and shuts the transport before it asks for writeMu, so that
\* a write stuck on a full pipe fails and lets go of it.
CpCloseTransport ==
  /\ cpClose.pc = "idle"
  /\ cpWire' = [cpWire EXCEPT !.transport = "shut"]
  /\ cpClose' = [cpClose EXCEPT !.pc = "transport"]
  /\ UNCHANGED <<cp, cpChan, cpSend, cpHandler, cpLoop, cpHist>>

\* The writeMu section of Close.
CpCloseClear ==
  /\ cpClose.pc = "transport" /\ cpWire.holder = "free"
  /\ cpWire' = [cpWire EXCEPT !.transport = "nil"]
  /\ cpClose' = [cpClose EXCEPT !.pc = "inflight"]
  /\ UNCHANGED <<cp, cpChan, cpSend, cpHandler, cpLoop, cpHist>>

\* closeInflight: the barrier and the snapshot of the cancel functions ...
CpCloseInflight ==
  /\ cpClose.pc = "inflight"
  /\ cp' = [cp EXCEPT !.closed = TRUE]
  /\ cpClose' = [cpClose EXCEPT !.pc = "cancel", !.cancels = cp.inflight]
  /\ UNCHANGED <<cpChan, cpSend, cpHandler, cpLoop, cpWire, cpHist>>

\* ... which are called after inflightMu is released.
CpCloseCancel ==
  /\ cpClose.pc = "cancel"
  /\ cpHandler' = [r \in CpRequests |->
                     IF r \in cpClose.cancels THEN [cpHandler[r] EXCEPT !.ctx = "canceled"] ELSE cpHandler[r]]
  /\ cpHist' = [cpHist EXCEPT !.canceled = @ \cup {r \in cpClose.cancels : cpHandler[r].pc = "run"}]
  /\ cpClose' = [cpClose EXCEPT !.pc = "wait", !.cancels = {}]
  /\ UNCHANGED <<cp, cpChan, cpSend, cpLoop, cpWire>>

CpRunning == {r \in CpRequests : cpHandler[r].pc \in {"run", "reply", "leave"}}  \* handlerWG

\* waitInflight: every handler is done, or its 500 ms are over.
CpCloseWait ==
  /\ cpClose.pc = "wait"
  /\ \E drained \in {FALSE, CpRunning = {}} : cpClose' = [cpClose EXCEPT !.pc = "pending", !.drained = drained]
  /\ UNCHANGED <<cp, cpChan, cpSend, cpHandler, cpLoop, cpWire, cpHist>>

\* failPending of Close: the snapshot ...
CpClosePending ==
  /\ cpClose.pc = "pending"
  /\ cpClose' = [cpClose EXCEPT !.pc = "failing", !.snap = cp.pending]
  /\ UNCHANGED <<cp, cpChan, cpSend, cpHandler, cpLoop, cpWire, cpHist>>

\* ... and the delivery.
CpCloseFails ==
  /\ cpClose.pc = "failing"
  /\ cpChan' = CpDelivered(cpClose.snap, "disconnected")
  /\ cpClose' = [cpClose EXCEPT !.pc = "terminate", !.snap = {}]
  /\ UNCHANGED <<cp, cpSend, cpHandler, cpLoop, cpWire, cpHist>>

\* terminateProcess interrupts and finally kills the CLI; the waits for readLoop
\* and drainStderr are bounded.
CpCloseTerminates ==
  /\ cpClose.pc = "terminate"
  /\ cpWire' = [cpWire EXCEPT !.cli = "exited"]
  /\ cpClose' = [cpClose EXCEPT !.pc = "done"]
  /\ UNCHANGED <<cp, cpChan, cpSend, cpHandler, cpLoop, cpHist>>

CpCloseStep ==
  \/ CpCloseClear \/ CpCloseInflight \/ CpCloseCancel \/ CpCloseWait
  \/ CpClosePending \/ CpCloseFails \/ CpCloseTerminates

CpNext ==
  \/ \E s \in CpSenders : \/ CpEnter(s) \/ CpRegister(s) \/ CpNotRunning(s) \/ CpWritten(s)
                          \/ CpWriteFails(s) \/ CpTakeResult(s) \/ CpGiveUp(s) \/ CpRouteResponse(s)
  \/ \E r \in CpRequests : \/ CpSpawn(r) \/ CpCancelRequest(r) \/ CpCallbackReturns(r)
                           \/ CpReplied(r) \/ CpReplyFails(r) \/ CpHandlerExits(r)
  \/ \E w \in CpWriters : CpWriteBegins(w)
  \/ CpDeliver \/ CpCliExits \/ CpLaunchContextEnds \/ CpReadFails \/ CpLoopEnds
  \/ CpCloseTransport \/ CpCloseStep

CpSpec == CpInit /\ [][CpNext]_cpVars

(***************************************************************************)
(* Goroutines that can run do.  Nothing is assumed of the CLI (it need not  *)
(* read, answer or exit), of a callback (it need not return) or of the      *)
(* timeout of a request.                                                    *)
(***************************************************************************)
CpFairness ==
  /\ WF_cpVars(CpCloseStep)
  /\ WF_cpVars(CpDeliver \/ CpReadFails \/ CpLoopEnds)
  /\ \A s \in CpSenders :
       WF_cpVars(CpRegister(s) \/ CpNotRunning(s) \/ CpWriteFails(s) \/ CpTakeResult(s))
  /\ \A r \in CpRequests : WF_cpVars(CpReplyFails(r) \/ CpHandlerExits(r))
-----------------------------------------------------------------------------
\* sendControlRequest registers its waiter before it writes ("so a fast response
\* cannot race ahead"): an answer finds no waiter only when its request has
\* already returned.
CpAnswerFindsWaiter == \A s \in cpHist.missed : cpSend[s].pc = "done"

\* waitInflight is authoritative: once Close saw every handler out, no callback
\* runs any more, although readLoop may still route buffered requests.
CpNoLateHandler == cpClose.drained => CpRunning = {}

\* A request that was canceled while its callback ran gets no reply.
CpCanceledStaysSilent == \A r \in cpHist.canceled : ~cpHandler[r].replied

\* Every other request is answered, unless the session went away.
CpRequestsAnswered ==
  \A r \in CpRequests :
    cpHandler[r].pc = "exit" /\ ~cpHandler[r].replied =>
      r \in cpHist.canceled \/ cpClose.pc # "idle" \/ cpWire.cli = "exited"

\* Every control request of the CLI comes to its one proper end: it is answered, or it was
\* canceled and is not, or the session went away; and no callback outlives Close.
CpRequestsSettled == CpNoLateHandler /\ CpCanceledStaysSilent /\ CpRequestsAnswered

\* Close never leaves a caller of controlRequest to its timeout: once Close is
\* past failPending, whoever still waits has a result in its channel.
CpCloseFailsFast ==
  cpClose.pc \in {"terminate", "done"} => \A s \in CpSenders : cpSend[s].pc = "wait" => cpChan[s] # "empty"

\* Close returns, even with a writer stuck on a CLI that no longer reads and a
\* callback that ignores its context.
CpCloseReturns == cpClose.pc # "idle" ~> cpClose.pc = "done"

\* Once Close returned, so does every caller of controlRequest, no timer needed.
CpCallersReturn == cpClose.pc = "done" ~> \A s \in CpSenders : cpSend[s].pc \in {"idle", "done"}

\* Close returns, and every caller of controlRequest with it.
CpCloseReleases == CpCloseReturns /\ CpCallersReturn
=============================================================================
