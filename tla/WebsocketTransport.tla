------------------------- MODULE WebsocketTransport -------------------------
(***************************************************************************)
(* websocketTransport (pkg/llm/codex/client_transport.go): WriteJSON and     *)
(* ReadJSON calls that share a connection through a write gate and a read    *)
(* gate, the context of each call, which interrupts its I/O by moving the     *)
(* connection's deadline, and Close, which gives everything one deadline.     *)
(*                                                                         *)
(* The connection has a read and a write deadline; an I/O blocked on it fails *)
(* when its deadline is past, the connection is closed or the peer is gone.   *)
(* The peer sends messages, may stop reading and may go away.                 *)
(***************************************************************************)
EXTENDS Naturals, Sequences, FiniteSets

CONSTANTS
  WsWrites,  \* goroutines that call WriteJSON again and again
  WsReads    \* goroutines that call ReadJSON

WsOps == WsWrites \cup WsReads

ASSUME WsAssumption == WsWrites \cap WsReads = {} /\ WsOps \cap {"free", "closer"} = {}

WsKinds == {"write", "read"}
WsKind(o) == IF o \in WsWrites THEN "write" ELSE "read"

VARIABLES
  wsTerm,   \* terminalErr; done is closed when it is set
  wsRaw,    \* the connection is open
  wsGate,   \* who holds each gate
  wsDl,     \* the deadline in each direction: none, now, or that of Close
  wsLate,   \* the deadline of Close is past
  wsPc,     \* where each call is
  wsCtx,    \* its context is done
  wsCb,     \* its context.AfterFunc
  wsIo,     \* what its I/O, or contextIO, gave
  wsRes,    \* what it returned
  wsCl,     \* where Close is
  wsPart,   \* the last frame on the wire is not complete
  wsTorn,   \* a frame followed one that is not complete
  wsFrame,  \* the close frame is out
  wsIn,     \* the message of the peer that is on its way
  wsLost,   \* a text message was read and not returned
  wsSkip,   \* a later one was returned
  wsPeer    \* the peer is there

wsHeld == <<wsGate, wsRes, wsIo, wsCtx>>
wsOps == <<wsPc, wsCtx, wsCb, wsIo, wsRes>>
wsWire == <<wsPart, wsTorn, wsFrame, wsIn, wsLost, wsSkip, wsPeer>>
wsVars == <<wsTerm, wsRaw, wsGate, wsDl, wsLate, wsCl, wsOps, wsWire>>

WsCauses == {"closed", "canceled", "failed", "last"}

\* The gates, deadlines and calls of the transport keep their types.
WsTypeOK ==
  /\ wsTerm \in WsCauses \cup {"none"}
  /\ wsRaw \in BOOLEAN /\ wsLate \in BOOLEAN /\ wsPeer \in BOOLEAN
  /\ wsGate \in [WsKinds -> WsOps \cup {"free", "closer"}]
  /\ wsDl \in [WsKinds -> {"none", "now", "close"}]
  /\ wsPc \in [WsOps -> {"idle", "acquire", "gated", "arm", "io", "frame", "stop", "reset",
                         "mark", "cut", "done"}]
  /\ wsCtx \in [WsOps -> BOOLEAN]
  /\ wsCb \in [WsOps -> {"none", "armed"}]
  /\ wsIo \in [WsOps -> {"none", "text", "other", "ok"} \cup WsCauses]
  /\ wsRes \in [WsOps -> {"none", "ok", "own"} \cup WsCauses]
  /\ wsCl \in {"idle", "deadline", "wgate", "wclose", "rgate", "shake", "raw", "done"}
  /\ wsPart \in BOOLEAN /\ wsTorn \in BOOLEAN /\ wsFrame \in BOOLEAN
  /\ wsIn \in {"none", "text", "other", "last"}
  /\ wsLost \in BOOLEAN /\ wsSkip \in BOOLEAN

\* newWebsocketTransport
WsInit ==
  /\ wsTerm = "none" /\ wsRaw = TRUE /\ wsLate = FALSE /\ wsCl = "idle"
  /\ wsGate = [k \in WsKinds |-> "free"]
  /\ wsDl = [k \in WsKinds |-> "none"]
  /\ wsPc = [o \in WsOps |-> "idle"]
  /\ wsCtx = [o \in WsOps |-> FALSE]
  /\ wsCb = [o \in WsOps |-> "none"]
  /\ wsIo = [o \in WsOps |-> "none"]
  /\ wsRes = [o \in WsOps |-> "none"]
  /\ wsPart = FALSE /\ wsTorn = FALSE /\ wsFrame = FALSE
  /\ wsIn = "none" /\ wsLost = FALSE /\ wsSkip = FALSE /\ wsPeer = TRUE

WsClosed == wsTerm # "none"

\* markTerminal: the first cause stays.
WsMarked(cause) == wsTerm' = IF WsClosed THEN wsTerm ELSE cause

\* An I/O in this direction cannot go on.
WsBroken(k) ==
  ~wsRaw \/ ~wsPeer \/ wsDl[k] = "now" \/ (wsDl[k] = "close" /\ wsLate)

WsGoto(o, to) == wsPc' = [wsPc EXCEPT ![o] = to]

\* The call returns, and its deferred function gives its gate back.
WsReturn(o, result) ==
  /\ WsGoto(o, "done")
  /\ wsRes' = [wsRes EXCEPT ![o] = result]
  /\ wsIo' = [wsIo EXCEPT ![o] = "none"]
  /\ wsCtx' = [wsCtx EXCEPT ![o] = FALSE]
  /\ wsGate' = [k \in WsKinds |-> IF wsGate[k] = o THEN "free" ELSE wsGate[k]]

-----------------------------------------------------------------------------
(* WriteJSON and ReadJSON up to the gate.                                    *)

\* The caller ends the call's context.
WsCancel(o) ==
  /\ ~wsCtx[o] /\ wsPc[o] \in {"acquire", "gated", "arm", "io", "frame", "stop", "reset"}
  /\ wsCtx' = [wsCtx EXCEPT ![o] = TRUE]
  /\ UNCHANGED <<wsTerm, wsRaw, wsGate, wsDl, wsLate, wsCl, wsPc, wsCb, wsIo, wsRes, wsWire>>

\* acquire: nothing is begun on a closed transport.
WsBegin(o) ==
  /\ wsPc[o] \in {"idle", "done"}
  /\ IF WsClosed
     THEN WsReturn(o, wsTerm)
     ELSE /\ WsGoto(o, "acquire") /\ wsRes' = [wsRes EXCEPT ![o] = "none"]
          /\ UNCHANGED <<wsGate, wsIo, wsCtx>>
  /\ UNCHANGED <<wsTerm, wsRaw, wsDl, wsLate, wsCl, wsCb, wsWire>>

\* acquire: select among done, the context and the gate.  A call whose context ends
\* before it has the gate takes the transport down with it.
WsAcquire(o) ==
  /\ wsPc[o] = "acquire"
  /\ \/ WsClosed /\ WsReturn(o, wsTerm)
     \/ /\ wsCtx[o] /\ ~WsClosed
        /\ WsGoto(o, "mark") /\ wsIo' = [wsIo EXCEPT ![o] = "canceled"]
        /\ UNCHANGED <<wsRes, wsGate, wsCtx>>
     \/ /\ wsGate[WsKind(o)] = "free"
        /\ wsGate' = [wsGate EXCEPT ![WsKind(o)] = o]
        /\ WsGoto(o, "gated") /\ UNCHANGED <<wsRes, wsIo, wsCtx>>
  /\ UNCHANGED <<wsTerm, wsRaw, wsDl, wsLate, wsCl, wsCb, wsWire>>

-----------------------------------------------------------------------------
(* contextIO.                                                                *)

\* With the gate: closedError.
WsGated(o) ==
  /\ wsPc[o] = "gated"
  /\ IF WsClosed THEN WsReturn(o, wsTerm) ELSE WsGoto(o, "arm") /\ UNCHANGED wsHeld
  /\ UNCHANGED <<wsTerm, wsRaw, wsDl, wsLate, wsCl, wsCb, wsWire>>

\* contextIO up to fn: a context that is done or a transport closed meanwhile is an
\* error.  The check and the call's deadline share deadlineMu; the AfterFunc follows.
WsArm(o) ==
  /\ wsPc[o] = "arm"
  /\ IF WsClosed \/ wsCtx[o]
     THEN /\ WsGoto(o, "mark")
          /\ wsIo' = [wsIo EXCEPT ![o] = IF wsCtx[o] THEN "canceled" ELSE "failed"]
          /\ UNCHANGED <<wsDl, wsCb>>
     ELSE /\ WsGoto(o, "io") /\ UNCHANGED wsIo
          /\ wsDl' = [wsDl EXCEPT ![WsKind(o)] = "none"]
          /\ wsCb' = [wsCb EXCEPT ![o] = "armed"]
  /\ UNCHANGED <<wsTerm, wsRaw, wsGate, wsLate, wsCl, wsCtx, wsRes, wsWire>>

\* The context has ended and its AfterFunc runs, in a goroutine of its own.  It moves
\* the deadline only of a transport that nobody has closed.
WsCallback(o) ==
  /\ wsCb[o] = "armed" /\ wsCtx[o]
  /\ wsDl' = IF WsClosed THEN wsDl ELSE [wsDl EXCEPT ![WsKind(o)] = "now"]
  /\ wsCb' = [wsCb EXCEPT ![o] = "none"]
  /\ UNCHANGED <<wsTerm, wsRaw, wsGate, wsLate, wsCl, wsPc, wsCtx, wsIo, wsRes, wsWire>>

\* WriteMessage puts the frame on the wire in pieces.
WsWriteStart(o) ==
  /\ o \in WsWrites /\ wsPc[o] = "io" /\ ~WsBroken("write")
  /\ wsPart' = TRUE /\ wsTorn' = (wsTorn \/ wsPart)
  /\ WsGoto(o, "frame")
  /\ UNCHANGED <<wsFrame, wsTerm, wsRaw, wsGate, wsDl, wsLate, wsCl, wsCtx, wsCb, wsIo, wsRes,
                 wsIn, wsLost, wsSkip, wsPeer>>

WsWriteEnd(o) ==
  /\ wsPc[o] = "frame" /\ ~WsBroken("write")
  /\ wsPart' = FALSE
  /\ WsGoto(o, "stop") /\ wsIo' = [wsIo EXCEPT ![o] = "ok"]
  /\ UNCHANGED <<wsTorn, wsFrame, wsTerm, wsRaw, wsGate, wsDl, wsLate, wsCl, wsCtx, wsCb, wsRes,
                 wsIn, wsLost, wsSkip, wsPeer>>

WsIoFails(o) ==
  /\ wsPc[o] \in {"io", "frame"} /\ WsBroken(WsKind(o))
  /\ WsGoto(o, "stop") /\ wsIo' = [wsIo EXCEPT ![o] = "failed"]
  /\ UNCHANGED <<wsTerm, wsRaw, wsGate, wsDl, wsLate, wsCl, wsCtx, wsCb, wsRes, wsWire>>

\* ReadMessage takes the next message of the peer.
WsRead(o) ==
  /\ o \in WsReads /\ wsPc[o] = "io" /\ wsIn # "none" /\ ~WsBroken("read")
  /\ wsIo' = [wsIo EXCEPT ![o] = wsIn]
  /\ wsIn' = "none"
  /\ WsGoto(o, "stop")
  /\ UNCHANGED <<wsTerm, wsRaw, wsGate, wsDl, wsLate, wsCl, wsCtx, wsCb, wsRes,
                 wsPart, wsTorn, wsFrame, wsLost, wsSkip, wsPeer>>

\* stop(): the AfterFunc is called off, or has started and is waited for.
WsStop(o) ==
  /\ wsPc[o] = "stop"
  /\ wsCb' = [wsCb EXCEPT ![o] = "none"]
  /\ WsGoto(o, "reset")
  /\ UNCHANGED <<wsTerm, wsRaw, wsGate, wsDl, wsLate, wsCl, wsCtx, wsIo, wsRes, wsWire>>

\* Mutated form of WsFin: a canceled call leaves the transport as it is.
WsFinGently(o, io) ==
  \/ /\ io \in {"ok", "text"}
     /\ WsReturn(o, "ok") /\ wsSkip' = (wsSkip \/ (io = "text" /\ wsLost))
  \/ /\ io = "other"
     /\ WsGoto(o, "arm") /\ UNCHANGED <<wsHeld, wsSkip>>
  \/ /\ io = "canceled"
     /\ WsReturn(o, "canceled") /\ UNCHANGED wsSkip
  \/ /\ io \in {"last", "failed"}
     /\ WsGoto(o, "mark") /\ wsIo' = [wsIo EXCEPT ![o] = io]
     /\ UNCHANGED <<wsGate, wsRes, wsCtx, wsSkip>>

\* WriteJSON and ReadJSON with the result of contextIO.  A text message is returned,
\* other opcodes are skipped.  The peer's normal close or a binary message ends the
\* transport with an error of its own, anything else with terminalErr.
WsFin(o, io) ==
  \/ /\ io \in {"ok", "text"}
     /\ WsReturn(o, "ok") /\ wsSkip' = (wsSkip \/ (io = "text" /\ wsLost))
  \/ /\ io = "other"
     /\ WsGoto(o, "arm") /\ UNCHANGED <<wsHeld, wsSkip>>
  \/ /\ io \in {"last", "failed", "canceled"}
     /\ WsGoto(o, "mark") /\ wsIo' = [wsIo EXCEPT ![o] = io]
     /\ UNCHANGED <<wsGate, wsRes, wsCtx, wsSkip>>

\* The deadline is cleared unless the transport was closed, and a context that is
\* done makes an error of whatever fn returned.
WsReset(o) ==
  /\ wsPc[o] = "reset"
  /\ wsDl' = IF WsClosed THEN wsDl ELSE [wsDl EXCEPT ![WsKind(o)] = "none"]
  /\ wsLost' = (wsLost \/ (wsCtx[o] /\ wsIo[o] = "text"))
  /\ WsFin(o, IF wsCtx[o] THEN "canceled" ELSE wsIo[o])
  /\ UNCHANGED <<wsTerm, wsRaw, wsLate, wsCl, wsCb, wsPart, wsTorn, wsFrame, wsIn, wsPeer>>

-----------------------------------------------------------------------------
(* terminate.                                                                *)

\* closeRaw: what is on its way is lost, and deadlines mean nothing any more.
WsCutRaw ==
  /\ wsRaw' = FALSE /\ wsIn' = "none"
  /\ wsDl' = [k \in WsKinds |-> "none"]

\* terminate: mark, then cut the connection.
WsMark(o) ==
  /\ wsPc[o] = "mark"
  /\ WsMarked(wsIo[o])
  /\ WsGoto(o, "cut")
  /\ UNCHANGED <<wsRaw, wsGate, wsDl, wsLate, wsCl, wsCtx, wsCb, wsIo, wsRes, wsWire>>

WsCut(o) ==
  /\ wsPc[o] = "cut"
  /\ WsCutRaw
  /\ WsReturn(o, IF wsIo[o] = "last" THEN "own" ELSE wsTerm)
  /\ UNCHANGED <<wsTerm, wsLate, wsCl, wsCb, wsPart, wsTorn, wsFrame, wsLost, wsSkip, wsPeer>>

-----------------------------------------------------------------------------
(* Close.                                                                    *)
wsOpsWire == <<wsOps, wsWire>>

\* closeByDeadline, once: mark, then one deadline for everything.
WsClose ==
  /\ wsCl = "idle"
  /\ WsMarked("closed")
  /\ wsCl' = "deadline"
  /\ UNCHANGED <<wsRaw, wsGate, wsDl, wsLate, wsOpsWire>>

\* Mutated form of WsCloseDeadline: the handshake has no deadline.
WsCloseDeadlineNone ==
  /\ wsCl = "deadline"
  /\ wsCl' = "wgate"
  /\ UNCHANGED <<wsTerm, wsRaw, wsGate, wsDl, wsLate, wsOpsWire>>

WsCloseDeadline ==
  /\ wsCl = "deadline"
  /\ wsDl' = IF wsRaw THEN [k \in WsKinds |-> "close"] ELSE wsDl
  /\ wsCl' = "wgate"
  /\ UNCHANGED <<wsTerm, wsRaw, wsGate, wsLate, wsOpsWire>>

WsTimePasses ==
  /\ wsCl \notin {"idle", "deadline", "done"} /\ ~wsLate
  /\ wsLate' = TRUE
  /\ UNCHANGED <<wsTerm, wsRaw, wsGate, wsDl, wsCl, wsOpsWire>>

\* acquireUntil gives up at once when the deadline is past.
WsNextGate == IF wsLate THEN "raw" ELSE "rgate"

\* The close frame goes out under the write gate, if it can be had in time.
WsCloseTakeWrite ==
  /\ wsCl = "wgate"
  /\ \/ /\ wsGate["write"] = "free" /\ wsCl' = "wclose"
        /\ wsGate' = [wsGate EXCEPT !["write"] = "closer"]
     \/ wsLate /\ wsCl' = WsNextGate /\ UNCHANGED wsGate
  /\ UNCHANGED <<wsTerm, wsRaw, wsDl, wsLate, wsOpsWire>>

\* WriteClose, whether it gets the frame out or not, and the gate goes back.
WsCloseWrote ==
  /\ wsCl = "wclose"
  /\ wsGate' = [wsGate EXCEPT !["write"] = "free"]
  /\ wsCl' = WsNextGate
  /\ UNCHANGED <<wsTerm, wsRaw, wsDl, wsLate, wsOps, wsIn, wsLost, wsSkip, wsPeer>>

WsCloseFrame ==
  /\ WsCloseWrote /\ ~WsBroken("write")
  /\ wsFrame' = TRUE /\ wsTorn' = (wsTorn \/ wsPart) /\ UNCHANGED wsPart

WsCloseFrameFails == WsCloseWrote /\ WsBroken("write") /\ UNCHANGED <<wsPart, wsTorn, wsFrame>>

WsCloseTakeRead ==
  /\ wsCl = "rgate"
  /\ \/ /\ wsGate["read"] = "free" /\ wsCl' = "shake"
        /\ wsGate' = [wsGate EXCEPT !["read"] = "closer"]
     \/ wsLate /\ wsCl' = "raw" /\ UNCHANGED wsGate
  /\ UNCHANGED <<wsTerm, wsRaw, wsDl, wsLate, wsOpsWire>>

\* CloseContext sends the close frame if it is not out yet, and reads up to the
\* peer's.
WsCloseShake ==
  /\ wsCl = "shake"
  /\ \/ WsBroken("read") /\ UNCHANGED <<wsTorn, wsFrame, wsIn>>
     \/ /\ ~WsBroken("read") /\ wsIn = "last"
        /\ wsIn' = "none"
        /\ wsFrame' = TRUE /\ wsTorn' = (wsTorn \/ (~wsFrame /\ wsPart))
  /\ wsGate' = [wsGate EXCEPT !["read"] = "free"]
  /\ wsCl' = "raw"
  /\ UNCHANGED <<wsPart, wsTerm, wsRaw, wsDl, wsLate, wsOps, wsLost, wsSkip, wsPeer>>

WsCloseRaw ==
  /\ wsCl = "raw"
  /\ WsCutRaw /\ wsCl' = "done"
  /\ UNCHANGED <<wsTerm, wsGate, wsLate, wsOps, wsPart, wsTorn, wsFrame, wsLost, wsSkip, wsPeer>>

-----------------------------------------------------------------------------
(* The peer.  One message is on its way at a time.                           *)
WsPeerSends ==
  /\ wsPeer /\ wsRaw /\ wsIn = "none"
  /\ \E what \in {"text", "other", "last"} : wsIn' = what
  /\ UNCHANGED <<wsTerm, wsRaw, wsGate, wsDl, wsLate, wsCl, wsOps, wsPart, wsTorn, wsFrame, wsLost, wsSkip, wsPeer>>

WsPeerLeaves ==
  /\ wsPeer /\ wsRaw /\ wsPeer' = FALSE
  /\ UNCHANGED <<wsTerm, wsRaw, wsGate, wsDl, wsLate, wsCl, wsOps, wsPart, wsTorn, wsFrame, wsIn, wsLost, wsSkip>>

-----------------------------------------------------------------------------
WsStep(o) ==
  \/ WsAcquire(o) \/ WsGated(o) \/ WsArm(o) \/ WsIoFails(o)
  \/ WsStop(o) \/ WsReset(o) \/ WsMark(o) \/ WsCut(o)

WsCloser ==
  \/ WsCloseDeadline \/ WsCloseTakeWrite \/ WsCloseFrameFails
  \/ WsCloseTakeRead \/ WsCloseShake \/ WsCloseRaw

WsNext ==
  \/ \E o \in WsOps : \/ WsBegin(o) \/ WsCancel(o) \/ WsStep(o) \/ WsCallback(o)
                      \/ WsWriteStart(o) \/ WsWriteEnd(o) \/ WsRead(o)
  \/ WsClose \/ WsCloser \/ WsCloseFrame \/ WsTimePasses
  \/ WsPeerSends \/ WsPeerLeaves

\* Goroutines and AfterFuncs run and deadlines pass.  The peer owes nothing: a write
\* or a read may wait for it for ever.
WsFairness ==
  /\ \A o \in WsOps : WF_wsVars(WsStep(o) \/ WsCallback(o))
  /\ WF_wsVars(WsCloser \/ WsTimePasses)

WsSpec == WsInit /\ [][WsNext]_wsVars /\ WsFairness

-----------------------------------------------------------------------------
(* Properties.                                                               *)

\* A frame that was begun is completed before another one starts, the close frame
\* included; after a frame that was cut off nothing is written.  The gates, the
\* deadline they share in Close and terminate have to work together for this.
WsFramesWhole == ~wsTorn

\* ReadJSON calls return the peer's messages in order and without a gap: a call that
\* is canceled after its message has arrived takes the transport down, so that no
\* later call goes on behind the lost message.
WsReadsInOrder == ~wsSkip

\* Neither direction of the transport is damaged by cancellation or Close: no frame is cut
\* into by another and no message is skipped.
WsStreamsIntact == WsFramesWhole /\ WsReadsInOrder

\* Every call that finds the transport ended reports the same, first cause.
WsOneCause ==
  \A o \in WsOps : wsPc[o] = "done" => wsRes[o] \in {"ok", "own"} \/ (WsClosed /\ wsRes[o] = wsTerm)

\* Once Close has set its deadline nobody moves it: neither the call that gave up
\* nor one that completed clears or advances it.
WsDeadlineHeld ==
  wsRaw /\ wsCl \notin {"idle", "deadline", "done"} => \A k \in WsKinds : wsDl[k] = "close"

\* Close returns, whatever the peer and the calls in progress do.
WsCloseReturns == wsCl = "deadline" ~> wsCl = "done"

\* A call whose context ends, or whose transport is closed, returns.
WsCallsReturn ==
  \A o \in WsOps : wsPc[o] # "idle" /\ (wsCtx[o] \/ WsClosed) ~> wsPc[o] = "done"

\* Calls and Close return.
WsEverybodyReturns == WsCloseReturns /\ WsCallsReturn
=============================================================================
