-------------------------- MODULE WebsocketProofs --------------------------
(***************************************************************************)
(* Proofs about the websocket transport, for every number of calls.         *)
(***************************************************************************)
EXTENDS WebsocketTransport, TLAPS

\* Where a call holds the gate of its kind.
WsHolding == {"gated", "arm", "io", "frame", "stop", "reset"}

\* Calls and Close hold their gates while they use the connection.
WsGates ==
  /\ \A o \in WsOps : wsPc[o] \in WsHolding => wsGate[WsKind(o)] = o
  /\ wsCl = "wclose" => wsGate["write"] = "closer"
  /\ wsCl = "shake" => wsGate["read"] = "closer"

\* A frame that is not complete belongs to a writer that has the gate and completes the
\* frame or ends the connection.
WsPartOf(w) ==
  /\ wsGate["write"] = w
  /\ \/ wsPc[w] \in {"frame", "mark", "cut"}
     \/ wsPc[w] \in {"stop", "reset"} /\ wsIo[w] = "failed"

WsPartOwned == wsPart /\ wsRaw => \E w \in WsWrites : WsPartOf(w)

\* The call that lost a message ends the transport before it lets another one read.
WsLossStops ==
  wsLost => /\ \A r \in WsReads : wsPc[r] \notin WsHolding \ {"gated"}
            /\ WsClosed \/ \E r \in WsReads : wsGate["read"] = r /\ wsPc[r] = "mark"

\* Close and terminate come after the mark, and the close frame before the handshake.
WsEnding ==
  /\ wsCl # "idle" => WsClosed
  /\ \A o \in WsOps : wsPc[o] = "cut" => WsClosed
  /\ \A o \in WsOps : wsPc[o] = "mark" => wsIo[o] \in WsCauses
  /\ wsCl \in {"rgate", "shake"} => wsFrame \/ ~wsRaw \/ ~wsPeer

WsTextRead == \A w \in WsWrites : wsIo[w] # "text"

WsInv ==
  /\ WsTypeOK /\ WsGates /\ WsTextRead /\ WsPartOwned /\ WsLossStops /\ WsEnding
  /\ WsDeadlineHeld /\ WsOneCause /\ WsStreamsIntact

LEMMA WsKinded ==
  /\ \A o \in WsOps : WsKind(o) \in WsKinds /\ o # "free" /\ o # "closer"
  /\ \A o \in WsWrites : o \in WsOps /\ WsKind(o) = "write"
  /\ \A o \in WsReads : o \in WsOps /\ o \notin WsWrites /\ WsKind(o) = "read"
  BY WsAssumption DEF WsKind, WsKinds, WsOps

LEMMA WsInitInv == WsInit => WsInv
<1> SUFFICES ASSUME WsInit PROVE WsInv
  OBVIOUS
<1> USE DEF WsInit
<1>1. WsTypeOK
  <2>1. /\ wsGate \in [WsKinds -> WsOps \cup {"free", "closer"}]
        /\ wsDl \in [WsKinds -> {"none", "now", "close"}]
        /\ wsPc \in [WsOps -> {"idle", "acquire", "gated", "arm", "io", "frame", "stop", "reset",
                               "mark", "cut", "done"}]
        /\ wsCtx \in [WsOps -> BOOLEAN]
        /\ wsCb \in [WsOps -> {"none", "armed"}]
        /\ wsIo \in [WsOps -> {"none", "text", "other", "ok"} \cup WsCauses]
        /\ wsRes \in [WsOps -> {"none", "ok", "own"} \cup WsCauses]
    OBVIOUS
  <2> QED
    BY <2>1, Zenon DEF WsTypeOK
<1>2. WsGates /\ WsTextRead /\ WsPartOwned /\ WsLossStops /\ WsEnding
  BY DEF WsGates, WsTextRead, WsPartOwned, WsLossStops, WsEnding, WsHolding, WsOps
<1>3. WsDeadlineHeld /\ WsOneCause /\ WsStreamsIntact
  BY DEF WsDeadlineHeld, WsOneCause, WsStreamsIntact, WsFramesWhole, WsReadsInOrder
<1> QED
  BY <1>1, <1>2, <1>3 DEF WsInv

\* What a call changes when it returns.
LEMMA WsReturnFacts ==
  ASSUME WsInv, NEW o \in WsOps, NEW res \in {"ok", "own"} \cup WsCauses, WsReturn(o, res)
  PROVE  /\ wsPc' \in [WsOps -> {"idle", "acquire", "gated", "arm", "io", "frame", "stop", "reset",
                                 "mark", "cut", "done"}]
         /\ wsCtx' \in [WsOps -> BOOLEAN]
         /\ wsIo' \in [WsOps -> {"none", "text", "other", "ok"} \cup WsCauses]
         /\ wsRes' \in [WsOps -> {"none", "ok", "own"} \cup WsCauses]
         /\ wsGate' \in [WsKinds -> WsOps \cup {"free", "closer"}]
         /\ wsPc'[o] = "done" /\ wsRes'[o] = res /\ wsIo'[o] = "none"
         /\ \A p \in WsOps \ {o} : wsPc'[p] = wsPc[p] /\ wsIo'[p] = wsIo[p] /\ wsRes'[p] = wsRes[p]
         /\ \A k \in WsKinds : wsGate[k] # o => wsGate'[k] = wsGate[k]
         /\ \A p \in WsOps : wsPc'[p] \in WsHolding => wsGate'[WsKind(p)] = p
<1> USE DEF WsReturn, WsGoto
<1>1. /\ wsPc' \in [WsOps -> {"idle", "acquire", "gated", "arm", "io", "frame", "stop", "reset",
                              "mark", "cut", "done"}]
      /\ wsPc'[o] = "done" /\ \A p \in WsOps \ {o} : wsPc'[p] = wsPc[p]
  BY DEF WsInv, WsTypeOK
<1>2. wsCtx' \in [WsOps -> BOOLEAN]
  BY DEF WsInv, WsTypeOK
<1>3. /\ wsIo' \in [WsOps -> {"none", "text", "other", "ok"} \cup WsCauses]
      /\ wsIo'[o] = "none" /\ \A p \in WsOps \ {o} : wsIo'[p] = wsIo[p]
  BY DEF WsInv, WsTypeOK
<1>4. /\ wsRes' \in [WsOps -> {"none", "ok", "own"} \cup WsCauses]
      /\ wsRes'[o] = res /\ \A p \in WsOps \ {o} : wsRes'[p] = wsRes[p]
  BY DEF WsInv, WsTypeOK
<1>5. /\ wsGate' \in [WsKinds -> WsOps \cup {"free", "closer"}]
      /\ \A k \in WsKinds : wsGate[k] # o => wsGate'[k] = wsGate[k]
  BY DEF WsInv, WsTypeOK
<1>6. ASSUME NEW p \in WsOps, wsPc'[p] \in WsHolding PROVE wsGate'[WsKind(p)] = p
  <2>1. p # o /\ wsPc[p] \in WsHolding
    BY <1>1, <1>6 DEF WsHolding
  <2>2. wsGate[WsKind(p)] = p /\ WsKind(p) \in WsKinds
    BY <2>1, WsKinded DEF WsInv, WsGates
  <2> QED
    BY <1>5, <2>1, <2>2
<1> QED
  BY <1>1, <1>2, <1>3, <1>4, <1>5, <1>6

\* A call that returns with its frame complete, or from a connection that is cut.
LEMMA WsReturnKeeps ==
  ASSUME WsInv, NEW o \in WsOps, NEW res \in {"ok", "own"} \cup WsCauses, WsReturn(o, res),
         res \in {"ok", "own"} \/ (WsClosed /\ res = wsTerm),
         UNCHANGED <<wsTerm, wsLate, wsCl, wsFrame, wsPeer, wsPart, wsTorn>>,
         wsRaw' = wsRaw \/ ~wsRaw', wsRaw' \in BOOLEAN,
         wsPc[o] \in {"frame", "mark", "cut"} \/ (wsPc[o] \in {"stop", "reset"} /\ wsIo[o] = "failed") => ~wsRaw',
         wsLost => WsClosed \/ wsPc[o] # "mark", wsLost' = wsLost, ~wsSkip'
  PROVE  WsGates' /\ WsTextRead' /\ WsPartOwned' /\ WsLossStops' /\ WsEnding' /\ WsOneCause' /\ WsStreamsIntact'
<1>0. /\ wsPc'[o] = "done" /\ wsRes'[o] = res /\ wsIo'[o] = "none"
      /\ \A p \in WsOps \ {o} : wsPc'[p] = wsPc[p] /\ wsIo'[p] = wsIo[p] /\ wsRes'[p] = wsRes[p]
      /\ \A k \in WsKinds : wsGate[k] # o => wsGate'[k] = wsGate[k]
      /\ \A p \in WsOps : wsPc'[p] \in WsHolding => wsGate'[WsKind(p)] = p
  BY WsReturnFacts
<1>k. "write" \in WsKinds /\ "read" \in WsKinds
  BY DEF WsKinds
<1>1. WsGates'
  BY <1>0, <1>k, WsKinded DEF WsInv, WsGates
<1>2. WsPartOwned'
  <2> SUFFICES ASSUME wsPart, wsRaw' PROVE \E w \in WsWrites : WsPartOf(w)'
    BY DEF WsPartOwned
  <2>1. PICK w \in WsWrites : WsPartOf(w)
    BY Zenon DEF WsInv, WsPartOwned
  <2>2. w # o
    BY <2>1 DEF WsPartOf
  <2> QED
    BY <1>0, <1>k, <2>1, <2>2, WsKinded DEF WsPartOf
<1>3. WsLossStops'
  <2>1. ASSUME wsLost, NEW r \in WsReads PROVE wsPc'[r] \notin WsHolding \ {"gated"}
    BY <1>0, <2>1, WsKinded DEF WsInv, WsLossStops, WsHolding
  <2>2. ASSUME wsLost, ~WsClosed PROVE \E r \in WsReads : wsGate'["read"] = r /\ wsPc'[r] = "mark"
    <3>1. PICK r \in WsReads : wsGate["read"] = r /\ wsPc[r] = "mark"
      BY <2>2 DEF WsInv, WsLossStops
    <3> QED
      BY <1>0, <1>k, <2>2, <3>1, WsKinded
  <2> QED
    BY <2>1, <2>2 DEF WsLossStops, WsClosed
<1>4. WsEnding'
  BY <1>0 DEF WsInv, WsEnding, WsClosed
<1>5. WsOneCause'
  BY <1>0 DEF WsInv, WsOneCause, WsClosed
<1>6. WsStreamsIntact'
  BY DEF WsInv, WsStreamsIntact, WsFramesWhole, WsReadsInOrder
<1>7. WsTextRead'
  BY <1>0, WsKinded DEF WsInv, WsTextRead
<1> QED
  BY <1>1, <1>2, <1>3, <1>4, <1>5, <1>6, <1>7

WsPlaces == {"idle", "acquire", "gated", "arm", "io", "frame", "stop", "reset", "mark", "cut", "done"}
WsOutcomes == {"none", "text", "other", "ok"} \cup WsCauses

\* The steps of contextIO between the gate and the result.
LEMMA WsIoStepKeeps ==
  ASSUME WsInv, NEW o \in WsOps,
         WsArm(o) \/ WsWriteStart(o) \/ WsWriteEnd(o) \/ WsIoFails(o) \/ WsRead(o) \/ WsStop(o)
  PROVE  WsInv'
<1> USE DEF wsWire, wsOps, WsGoto
<1>u. /\ UNCHANGED <<wsTerm, wsRaw, wsGate, wsLate, wsCl, wsCtx, wsRes, wsFrame, wsLost, wsSkip, wsPeer>>
      /\ wsPc[o] \in {"arm", "io", "frame", "stop"}
      /\ WsClosed => wsDl' = wsDl
  BY DEF WsArm, WsWriteStart, WsWriteEnd, WsIoFails, WsRead, WsStop
<1>t. /\ wsPc \in [WsOps -> WsPlaces] /\ wsIo \in [WsOps -> WsOutcomes] /\ wsCb \in [WsOps -> {"none", "armed"}]
      /\ wsDl \in [WsKinds -> {"none", "now", "close"}] /\ wsIn \in {"none", "text", "other", "last"}
  BY DEF WsInv, WsTypeOK, WsPlaces, WsOutcomes
<1>1. PICK to \in {"io", "frame", "stop", "reset", "mark"} : wsPc' = [wsPc EXCEPT ![o] = to]
  BY DEF WsArm, WsWriteStart, WsWriteEnd, WsIoFails, WsRead, WsStop
<1>2. /\ wsPc' \in [WsOps -> WsPlaces] /\ wsPc'[o] = to /\ \A p \in WsOps \ {o} : wsPc'[p] = wsPc[p]
  BY <1>t, <1>1 DEF WsPlaces
<1>3. /\ wsIo' \in [WsOps -> WsOutcomes] /\ \A p \in WsOps \ {o} : wsIo'[p] = wsIo[p]
      /\ to = "mark" => wsIo'[o] \in WsCauses
      /\ wsIo'[o] = wsIo[o] \/ wsIo'[o] # "text" \/ o \in WsReads
  <2>1. CASE wsIo' = wsIo /\ to # "mark"
    BY <1>t, <2>1, Zenon
  <2>3. (wsIo' = wsIo /\ to # "mark")
        \/ \E x \in WsOutcomes : /\ wsIo' = [wsIo EXCEPT ![o] = x]
                                 /\ to = "mark" => x \in WsCauses
                                 /\ x # "text" \/ o \in WsReads
    BY <1>1, <1>2, <1>t DEF WsArm, WsWriteStart, WsWriteEnd, WsIoFails, WsRead, WsStop, WsOutcomes, WsCauses
  <2>4. CASE \E x \in WsOutcomes : /\ wsIo' = [wsIo EXCEPT ![o] = x]
                                   /\ to = "mark" => x \in WsCauses
                                   /\ x # "text" \/ o \in WsReads
    <3>1. PICK x \in WsOutcomes : /\ wsIo' = [wsIo EXCEPT ![o] = x]
                                  /\ to = "mark" => x \in WsCauses
                                  /\ x # "text" \/ o \in WsReads
      BY <2>4, Zenon
    <3> QED
      BY <1>t, <3>1
  <2> QED
    BY <2>1, <2>3, <2>4, Zenon
<1>4. WsTypeOK'
  <2>1. wsDl' \in [WsKinds -> {"none", "now", "close"}] /\ wsCb' \in [WsOps -> {"none", "armed"}]
    BY <1>t, WsKinded, Zenon DEF WsArm, WsWriteStart, WsWriteEnd, WsIoFails, WsRead, WsStop
  <2>2. wsIn' \in {"none", "text", "other", "last"}
    BY <1>t DEF WsArm, WsWriteStart, WsWriteEnd, WsIoFails, WsRead, WsStop
  <2>3. wsPart' \in BOOLEAN /\ wsTorn' \in BOOLEAN
    BY Zenon DEF WsInv, WsTypeOK, WsArm, WsWriteStart, WsWriteEnd, WsIoFails, WsRead, WsStop
  <2> QED
    BY <1>u, <1>2, <1>3, <2>1, <2>2, <2>3, Zenon DEF WsInv, WsTypeOK, WsPlaces, WsOutcomes
<1>5. WsGates'
  BY <1>u, <1>2 DEF WsInv, WsGates, WsHolding
<1>g. wsGate[WsKind(o)] = o
  BY <1>u DEF WsInv, WsGates, WsHolding
<1>6. WsPartOwned' /\ wsTorn' = wsTorn
  <2>1. CASE WsWriteStart(o)
    <3>1. /\ o \in WsWrites /\ wsPc[o] = "io" /\ wsRaw /\ wsPc'[o] = "frame"
      BY <1>2, <2>1, <1>t DEF WsWriteStart, WsBroken
    <3>2. ~wsPart
      BY <3>1, <1>g, WsKinded DEF WsInv, WsPartOwned, WsPartOf
    <3>3. WsPartOf(o)'
      BY <1>u, <1>g, <3>1, WsKinded DEF WsPartOf
    <3>4. wsTorn' = (wsTorn \/ wsPart) /\ wsTorn \in BOOLEAN
      BY <2>1, Zenon DEF WsWriteStart, WsInv, WsTypeOK
    <3> QED
      BY <3>1, <3>2, <3>3, <3>4, Zenon DEF WsPartOwned
  <2>2. CASE WsWriteEnd(o)
    BY <2>2, Zenon DEF WsWriteEnd, WsPartOwned
  <2>3. CASE WsArm(o) \/ WsIoFails(o) \/ WsRead(o) \/ WsStop(o)
    <3>1. wsPart' = wsPart /\ wsTorn' = wsTorn
      BY <2>3, Zenon DEF WsArm, WsIoFails, WsRead, WsStop
    <3>2. ASSUME NEW w \in WsWrites, WsPartOf(w) PROVE WsPartOf(w)'
      <4>1. CASE w # o
        BY <1>u, <1>2, <1>3, <3>2, <4>1, WsKinded, Zenon DEF WsPartOf
      <4>2. CASE w = o /\ wsPc[o] = "frame"
        BY <1>u, <1>2, <1>t, <2>3, <3>2, <4>2, WsKinded, Zenon DEF WsPartOf, WsArm, WsIoFails, WsRead, WsStop
      <4>3. CASE w = o /\ wsPc[o] = "stop"
        BY <1>u, <1>2, <1>t, <2>3, <3>2, <4>3, WsKinded DEF WsPartOf, WsArm, WsIoFails, WsRead, WsStop
      <4> QED
        BY <1>u, <3>2, <4>1, <4>2, <4>3 DEF WsPartOf
    <3> QED
      BY <1>u, <3>1, <3>2 DEF WsInv, WsPartOwned
  <2> QED
    BY <2>1, <2>2, <2>3
<1>7. WsLossStops'
  <2>1. ASSUME wsLost PROVE o \notin WsReads
    BY <1>u, <2>1 DEF WsInv, WsLossStops, WsHolding
  <2> QED
    BY <1>u, <1>2, <2>1, WsKinded DEF WsInv, WsLossStops, WsClosed
<1>8. WsEnding'
  BY <1>u, <1>2, <1>3 DEF WsInv, WsEnding, WsClosed
<1>9. WsDeadlineHeld'
  BY <1>u DEF WsInv, WsDeadlineHeld, WsEnding
<1>10. WsOneCause'
  BY <1>u, <1>2 DEF WsInv, WsOneCause, WsClosed
<1>11. WsStreamsIntact'
  BY <1>u, <1>6 DEF WsInv, WsStreamsIntact, WsFramesWhole, WsReadsInOrder
<1>12. WsTextRead'
  BY <1>3, WsKinded DEF WsInv, WsTextRead
<1> QED
  BY <1>4, <1>5, <1>6, <1>7, <1>8, <1>9, <1>10, <1>11, <1>12 DEF WsInv

\* A context that ends, its AfterFunc, the peer and the clock move no call.
LEMMA WsOutsideKeeps ==
  ASSUME WsInv,
         \/ \E o \in WsOps : WsCancel(o) \/ WsCallback(o)
         \/ WsTimePasses \/ WsPeerSends \/ WsPeerLeaves
  PROVE  WsInv'
<1> USE DEF wsWire, wsOps, wsOpsWire
<1>u. /\ UNCHANGED <<wsTerm, wsRaw, wsGate, wsCl, wsPc, wsIo, wsRes, wsPart, wsTorn, wsFrame, wsLost, wsSkip>>
      /\ WsClosed => wsDl' = wsDl
  BY DEF WsCancel, WsCallback, WsTimePasses, WsPeerSends, WsPeerLeaves
<1>1. WsTypeOK'
  <2>1. wsCtx' \in [WsOps -> BOOLEAN]
    BY Zenon DEF WsInv, WsTypeOK, WsCancel, WsCallback, WsTimePasses, WsPeerSends, WsPeerLeaves
  <2>2. wsDl' \in [WsKinds -> {"none", "now", "close"}] /\ wsCb' \in [WsOps -> {"none", "armed"}]
    BY WsKinded DEF WsInv, WsTypeOK, WsCancel, WsCallback, WsTimePasses, WsPeerSends, WsPeerLeaves
  <2>3. wsIn' \in {"none", "text", "other", "last"}
    BY DEF WsInv, WsTypeOK, WsCancel, WsCallback, WsTimePasses, WsPeerSends, WsPeerLeaves
  <2>4. wsLate' \in BOOLEAN /\ wsPeer' \in BOOLEAN
    BY Zenon DEF WsInv, WsTypeOK, WsCancel, WsCallback, WsTimePasses, WsPeerSends, WsPeerLeaves
  <2> QED
    BY <1>u, <2>1, <2>2, <2>3, <2>4, Zenon DEF WsInv, WsTypeOK
<1>2. wsPeer' => wsPeer
  BY Zenon DEF WsCancel, WsCallback, WsTimePasses, WsPeerSends, WsPeerLeaves
<1>3. WsGates' /\ WsTextRead' /\ WsPartOwned' /\ WsLossStops'
  BY <1>u DEF WsInv, WsGates, WsTextRead, WsPartOwned, WsPartOf, WsLossStops, WsClosed
<1>4. WsEnding' /\ WsOneCause' /\ WsStreamsIntact'
  BY <1>u, <1>2 DEF WsInv, WsEnding, WsOneCause, WsStreamsIntact, WsFramesWhole, WsReadsInOrder, WsClosed
<1>5. WsDeadlineHeld'
  BY <1>u DEF WsInv, WsDeadlineHeld, WsEnding
<1> QED
  BY <1>1, <1>3, <1>4, <1>5 DEF WsInv

\* The calls up to the gate, when the transport is not found closed.
LEMMA WsEnterKeeps ==
  ASSUME WsInv, NEW o \in WsOps, NEW to \in {"acquire", "gated", "arm", "mark"},
         WsGoto(o, to), wsPc[o] \in {"idle", "done", "acquire", "gated"},
         UNCHANGED <<wsTerm, wsRaw, wsDl, wsLate, wsCl, wsCb, wsWire>>,
         wsGate' = wsGate \/ (to = "gated" /\ wsGate[WsKind(o)] = "free" /\ wsGate' = [wsGate EXCEPT ![WsKind(o)] = o]),
         to = "gated" => wsGate' # wsGate,
         to = "arm" => wsPc[o] = "gated" /\ ~WsClosed,
         wsIo' = wsIo \/ wsIo' = [wsIo EXCEPT ![o] = "canceled"], to = "mark" => wsIo' = [wsIo EXCEPT ![o] = "canceled"],
         wsCtx' = wsCtx, wsRes' = wsRes \/ wsRes' = [wsRes EXCEPT ![o] = "none"]
  PROVE  WsInv'
<1> USE DEF wsWire, WsGoto
<1>t. /\ wsPc \in [WsOps -> WsPlaces] /\ wsIo \in [WsOps -> WsOutcomes]
      /\ wsRes \in [WsOps -> {"none", "ok", "own"} \cup WsCauses]
      /\ wsGate \in [WsKinds -> WsOps \cup {"free", "closer"}]
  BY DEF WsInv, WsTypeOK, WsPlaces, WsOutcomes
<1>2. /\ wsPc' \in [WsOps -> WsPlaces] /\ wsPc'[o] = to /\ \A p \in WsOps \ {o} : wsPc'[p] = wsPc[p]
  BY <1>t DEF WsPlaces
<1>3. /\ wsIo' \in [WsOps -> WsOutcomes] /\ \A p \in WsOps \ {o} : wsIo'[p] = wsIo[p]
      /\ to = "mark" => wsIo'[o] = "canceled"
      /\ wsIo'[o] = wsIo[o] \/ wsIo'[o] = "canceled"
  BY <1>t DEF WsOutcomes, WsCauses
<1>4. /\ wsRes' \in [WsOps -> {"none", "ok", "own"} \cup WsCauses] /\ \A p \in WsOps \ {o} : wsRes'[p] = wsRes[p]
  BY <1>t
<1>5. /\ wsGate' \in [WsKinds -> WsOps \cup {"free", "closer"}]
      /\ \A k \in WsKinds : wsGate'[k] = wsGate[k] \/ (wsGate[k] = "free" /\ k = WsKind(o))
      /\ to = "gated" => wsGate'[WsKind(o)] = o
  BY <1>t, WsKinded
<1>k. "write" \in WsKinds /\ "read" \in WsKinds
  BY DEF WsKinds
<1>6. WsTypeOK'
  <2>1. UNCHANGED <<wsTerm, wsRaw, wsDl, wsLate, wsCb, wsCl, wsPart, wsTorn, wsFrame, wsIn, wsLost, wsSkip, wsPeer, wsCtx>>
    BY Zenon
  <2> QED
    BY <1>2, <1>3, <1>4, <1>5, <2>1 DEF WsInv, WsTypeOK, WsPlaces, WsOutcomes
<1>7. WsGates'
  <2>1. ASSUME NEW p \in WsOps, wsPc'[p] \in WsHolding PROVE wsGate'[WsKind(p)] = p
    <3>1. CASE p # o
      <4>1. wsGate[WsKind(p)] = p
        BY <1>2, <2>1, <3>1 DEF WsInv, WsGates
      <4> QED
        BY <1>5, <4>1, WsKinded
    <3>2. CASE p = o
      <4>1. CASE to = "gated"
        BY <1>5, <3>2, <4>1
      <4>2. CASE to = "arm"
        <5>1. wsGate[WsKind(o)] = o
          BY <4>2 DEF WsInv, WsGates, WsHolding
        <5> QED
          BY <1>5, <3>2, <5>1, WsKinded
      <4> QED
        BY <1>2, <2>1, <3>2, <4>1, <4>2 DEF WsHolding
    <3> QED
      BY <3>1, <3>2
  <2> QED
    BY <1>5, <1>k, <2>1 DEF WsInv, WsGates
<1>8. WsPartOwned'
  <2>1. ASSUME NEW w \in WsWrites, WsPartOf(w) PROVE WsPartOf(w)'
    <3>1. w # o
      BY <2>1 DEF WsPartOf
    <3> QED
      BY <1>2, <1>3, <1>5, <1>k, <2>1, <3>1, WsKinded DEF WsPartOf
  <2> QED
    BY <2>1 DEF WsInv, WsPartOwned
<1>9. WsLossStops'
  <2>1. ASSUME wsLost, ~WsClosed PROVE \E r \in WsReads : wsGate'["read"] = r /\ wsPc'[r] = "mark"
    <3>1. PICK r \in WsReads : wsGate["read"] = r /\ wsPc[r] = "mark"
      BY <2>1 DEF WsInv, WsLossStops
    <3> QED
      BY <1>2, <1>5, <1>k, <3>1, WsKinded
  <2>2. ASSUME wsLost, o \in WsReads PROVE to # "arm"
    <3>1. CASE WsClosed
      BY <3>1
    <3>2. CASE ~WsClosed
      BY <2>2, <3>2, WsKinded DEF WsInv, WsLossStops, WsGates, WsHolding
    <3> QED
      BY <3>1, <3>2
  <2>3. ASSUME wsLost, NEW r \in WsReads PROVE wsPc'[r] \notin WsHolding \ {"gated"}
    BY <1>2, <2>2, <2>3, WsKinded, Zenon DEF WsInv, WsLossStops, WsHolding
  <2> QED
    BY <2>1, <2>3 DEF WsLossStops, WsClosed
<1>10. WsEnding'
  BY <1>2, <1>3 DEF WsInv, WsEnding, WsClosed, WsCauses
<1>11. WsDeadlineHeld' /\ WsStreamsIntact'
  BY DEF WsInv, WsDeadlineHeld, WsStreamsIntact, WsFramesWhole, WsReadsInOrder
<1>12. WsOneCause'
  BY <1>2, <1>4 DEF WsInv, WsOneCause, WsClosed
<1>13. WsTextRead'
  BY <1>3, WsKinded DEF WsInv, WsTextRead
<1> QED
  BY <1>6, <1>7, <1>8, <1>9, <1>10, <1>11, <1>12, <1>13 DEF WsInv

\* WriteJSON and ReadJSON up to contextIO.
LEMMA WsAcquireKeeps ==
  ASSUME WsInv, NEW o \in WsOps, WsBegin(o) \/ WsAcquire(o) \/ WsGated(o)
  PROVE  WsInv'
<1> USE DEF wsHeld
<1>u. /\ UNCHANGED <<wsTerm, wsRaw, wsDl, wsLate, wsCl, wsCb, wsWire>>
      /\ wsPc[o] \in {"idle", "done", "acquire", "gated"}
  BY DEF WsBegin, WsAcquire, WsGated
<1>1. CASE WsClosed /\ WsReturn(o, wsTerm)
  <2>0. wsTerm \in WsCauses
    BY <1>1 DEF WsInv, WsTypeOK, WsClosed
  <2>1. WsGates' /\ WsTextRead' /\ WsPartOwned' /\ WsLossStops' /\ WsEnding' /\ WsOneCause' /\ WsStreamsIntact'
    <3>1. wsRaw' = wsRaw /\ wsRaw' \in BOOLEAN /\ UNCHANGED <<wsFrame, wsPeer, wsPart, wsTorn>> /\ wsLost' = wsLost
      BY <1>u, Zenon DEF WsInv, WsTypeOK, wsWire
    <3>2. ~wsSkip'
      BY <1>u DEF WsInv, WsStreamsIntact, WsReadsInOrder, wsWire
    <3> QED
      BY <1>1, <1>u, <2>0, <3>1, <3>2, WsReturnKeeps, Zenon
  <2>2. WsTypeOK'
    <3>1. /\ wsPc' \in [WsOps -> WsPlaces] /\ wsCtx' \in [WsOps -> BOOLEAN] /\ wsIo' \in [WsOps -> WsOutcomes]
          /\ wsRes' \in [WsOps -> {"none", "ok", "own"} \cup WsCauses]
          /\ wsGate' \in [WsKinds -> WsOps \cup {"free", "closer"}]
      BY <1>1, <2>0, WsReturnFacts, Zenon DEF WsPlaces, WsOutcomes
    <3> QED
      BY <1>u, <3>1 DEF WsInv, WsTypeOK, wsWire, WsPlaces, WsOutcomes
  <2>3. WsDeadlineHeld'
    BY <1>u, Zenon DEF WsInv, WsDeadlineHeld
  <2> QED
    BY <2>1, <2>2, <2>3 DEF WsInv
<1>2. CASE ~(WsClosed /\ WsReturn(o, wsTerm))
  <2>1. CASE WsBegin(o)
    <3>1. ~WsClosed /\ WsGoto(o, "acquire") /\ wsRes' = [wsRes EXCEPT ![o] = "none"] /\ UNCHANGED <<wsGate, wsIo, wsCtx>>
      BY <1>2, <2>1 DEF WsBegin
    <3> QED
      BY <1>u, <3>1, WsEnterKeeps, Zenon
  <2>2. CASE WsGated(o)
    <3>1. ~WsClosed /\ WsGoto(o, "arm") /\ UNCHANGED <<wsGate, wsRes, wsIo, wsCtx>> /\ wsPc[o] = "gated"
      BY <1>2, <2>2 DEF WsGated
    <3> QED
      BY <1>u, <3>1, WsEnterKeeps
  <2>3. CASE WsAcquire(o) /\ wsCtx[o] /\ ~WsClosed /\ WsGoto(o, "mark")
               /\ wsIo' = [wsIo EXCEPT ![o] = "canceled"] /\ UNCHANGED <<wsRes, wsGate, wsCtx>>
    BY <1>u, <2>3, WsEnterKeeps, Zenon
  <2>4. CASE WsAcquire(o) /\ wsGate[WsKind(o)] = "free" /\ wsGate' = [wsGate EXCEPT ![WsKind(o)] = o]
               /\ WsGoto(o, "gated") /\ UNCHANGED <<wsRes, wsIo, wsCtx>>
    <3>1. wsGate' # wsGate
      <4>1. wsGate'[WsKind(o)] = o /\ o # "free"
        BY <2>4, WsKinded, Zenon DEF WsInv, WsTypeOK
      <4> QED
        BY <2>4, <4>1
    <3> QED
      BY <1>u, <2>4, <3>1, WsEnterKeeps, Zenon
  <2> QED
    BY <1>2, <2>1, <2>2, <2>3, <2>4 DEF WsAcquire
<1> QED
  BY <1>1, <1>2

LEMMA WsResetKeeps ==
  ASSUME WsInv, NEW o \in WsOps, WsReset(o)
  PROVE  WsInv'
<1> USE DEF wsHeld
<1> DEFINE io == IF wsCtx[o] THEN "canceled" ELSE wsIo[o]
<1>u. /\ UNCHANGED <<wsTerm, wsRaw, wsLate, wsCl, wsCb, wsPart, wsTorn, wsFrame, wsIn, wsPeer>>
      /\ wsPc[o] = "reset" /\ wsLost' = (wsLost \/ (wsCtx[o] /\ wsIo[o] = "text"))
      /\ wsDl' = IF WsClosed THEN wsDl ELSE [wsDl EXCEPT ![WsKind(o)] = "none"]
      /\ WsFin(o, io)
  BY Zenon DEF WsReset
<1>t. /\ wsPc \in [WsOps -> WsPlaces] /\ wsIo \in [WsOps -> WsOutcomes]
      /\ wsDl \in [WsKinds -> {"none", "now", "close"}]
  BY DEF WsInv, WsTypeOK, WsPlaces, WsOutcomes
<1>l. wsLost \in BOOLEAN /\ wsSkip \in BOOLEAN /\ wsRaw \in BOOLEAN
  BY DEF WsInv, WsTypeOK
<1>g. wsGate[WsKind(o)] = o
  BY <1>u DEF WsInv, WsGates, WsHolding
<1>n. wsLost => o \notin WsReads
  BY <1>u, Zenon DEF WsInv, WsLossStops, WsHolding
<1>d. wsDl' \in [WsKinds -> {"none", "now", "close"}] /\ WsDeadlineHeld'
  <2>1. wsDl' \in [WsKinds -> {"none", "now", "close"}]
    BY <1>u, <1>t, WsKinded
  <2> QED
    BY <1>u, <2>1, Zenon DEF WsInv, WsDeadlineHeld, WsEnding
<1>x. wsIo[o] = "text" => o \in WsReads
  BY DEF WsInv, WsTextRead, WsOps
<1>1. CASE io \in {"ok", "text"} /\ WsReturn(o, "ok") /\ wsSkip' = (wsSkip \/ (io = "text" /\ wsLost))
  <2>1. io = wsIo[o] /\ wsLost' = wsLost
    BY <1>u, <1>l, <1>1
  <2>2. ~wsSkip'
    BY <1>1, <1>n, <1>x, <2>1, Zenon DEF WsInv, WsStreamsIntact, WsReadsInOrder
  <2>3. WsTypeOK'
    <3>1. wsSkip' \in BOOLEAN /\ wsLost' \in BOOLEAN
      BY <1>1, <1>l, <2>1, Zenon
    <3> QED
      BY <1>u, <1>d, <1>1, <3>1, WsReturnFacts DEF WsInv, WsTypeOK
  <2>4. WsGates' /\ WsTextRead' /\ WsPartOwned' /\ WsLossStops' /\ WsEnding' /\ WsOneCause' /\ WsStreamsIntact'
    <3>1. ~(wsPc[o] \in {"frame", "mark", "cut"} \/ (wsPc[o] \in {"stop", "reset"} /\ wsIo[o] = "failed"))
      BY <1>u, <1>1, <2>1, Zenon
    <3> QED
      BY <1>u, <1>1, <1>l, <2>1, <2>2, <3>1, WsReturnKeeps, Zenon
  <2> QED
    BY <1>d, <2>3, <2>4, Zenon DEF WsInv
<1>2. ASSUME NEW to \in {"arm", "mark"}, WsGoto(o, to), wsSkip' = wsSkip, UNCHANGED <<wsGate, wsRes, wsCtx>>,
             to = "arm" => wsIo' = wsIo /\ io = "other",
             to = "mark" => wsIo' = [wsIo EXCEPT ![o] = io] /\ io \in {"last", "failed", "canceled"}
      PROVE  WsInv'
  <2>2. /\ wsPc' \in [WsOps -> WsPlaces] /\ wsPc'[o] = to /\ \A p \in WsOps \ {o} : wsPc'[p] = wsPc[p]
    BY <1>t, <1>2 DEF WsPlaces, WsGoto
  <2>3. /\ wsIo' \in [WsOps -> WsOutcomes] /\ \A p \in WsOps \ {o} : wsIo'[p] = wsIo[p]
        /\ to = "mark" => wsIo'[o] \in {"last", "failed", "canceled"}
        /\ wsIo'[o] = wsIo[o] \/ wsIo'[o] # "text"
    <3>1. CASE to = "arm"
      BY <1>t, <1>2, <3>1
    <3>2. CASE to = "mark"
      <4> HIDE DEF io
      <4> QED
        BY <1>t, <1>2, <3>2, Zenon DEF WsOutcomes, WsCauses
    <3> QED
      BY <1>2, <3>1, <3>2
  <2>4. WsTypeOK'
    <3>1. wsLost' \in BOOLEAN
      BY <1>u, Zenon
    <3> QED
      BY <1>u, <1>d, <1>2, <2>2, <2>3, <3>1 DEF WsInv, WsTypeOK, WsPlaces, WsOutcomes
  <2>5. WsGates'
    BY <1>u, <1>2, <2>2 DEF WsInv, WsGates, WsHolding
  <2>6. WsTextRead'
    BY <2>3, WsKinded DEF WsInv, WsTextRead
  <2>7. WsPartOwned'
    <3>1. ASSUME NEW w \in WsWrites, WsPartOf(w) PROVE WsPartOf(w)'
      <4>1. CASE w # o
        BY <1>2, <2>2, <2>3, <3>1, <4>1, WsKinded, Zenon DEF WsPartOf
      <4>2. CASE w = o
        BY <1>u, <1>2, <2>2, <3>1, <4>2, Zenon DEF WsPartOf
      <4> QED
        BY <4>1, <4>2, Zenon
    <3> QED
      BY <1>u, <3>1 DEF WsInv, WsPartOwned
  <2>8. WsLossStops'
    <3>1. CASE wsLost' = wsLost
      <4>1. ASSUME wsLost, ~WsClosed PROVE \E r \in WsReads : wsGate'["read"] = r /\ wsPc'[r] = "mark"
        BY <1>u, <1>n, <1>2, <2>2, <4>1, WsKinded DEF WsInv, WsLossStops
      <4>2. ASSUME wsLost, NEW r \in WsReads PROVE wsPc'[r] \notin WsHolding \ {"gated"}
        BY <1>n, <2>2, <4>2, WsKinded DEF WsInv, WsLossStops
      <4> QED
        BY <1>u, <3>1, <4>1, <4>2 DEF WsLossStops, WsClosed
    <3>2. CASE wsCtx[o] /\ wsIo[o] = "text"
      <4>1. o \in WsReads /\ to = "mark" /\ wsGate'["read"] = o /\ wsPc'[o] = "mark"
        BY <1>g, <1>x, <1>2, <2>2, <3>2, WsKinded
      <4>2. ASSUME NEW r \in WsReads PROVE wsPc'[r] \notin WsHolding \ {"gated"}
        BY <1>2, <2>2, <2>5, <4>1, WsKinded, Zenon DEF WsGates, WsHolding
      <4> QED
        BY <4>1, <4>2 DEF WsLossStops
    <3> QED
      BY <1>u, <1>l, <3>1, <3>2, Zenon
  <2>9. WsEnding'
    BY <1>u, <2>2, <2>3 DEF WsInv, WsEnding, WsClosed, WsCauses
  <2>10. WsOneCause'
    BY <1>u, <1>2, <2>2, Zenon DEF WsInv, WsOneCause, WsClosed
  <2>11. WsStreamsIntact'
    BY <1>u, <1>2 DEF WsInv, WsStreamsIntact, WsFramesWhole, WsReadsInOrder
  <2> QED
    BY <1>d, <2>4, <2>5, <2>6, <2>7, <2>8, <2>9, <2>10, <2>11 DEF WsInv
<1>3. CASE io = "other" /\ WsGoto(o, "arm") /\ UNCHANGED <<wsHeld, wsSkip>>
  BY <1>2, <1>3
<1>4. CASE io \in {"last", "failed", "canceled"} /\ WsGoto(o, "mark") /\ wsIo' = [wsIo EXCEPT ![o] = io]
           /\ UNCHANGED <<wsGate, wsRes, wsCtx, wsSkip>>
  BY <1>2, <1>4
<1> QED
  BY <1>u, <1>1, <1>3, <1>4 DEF WsFin

\* terminate: the first cause stays, and the gate goes back after the connection is cut.
LEMMA WsTerminateKeeps ==
  ASSUME WsInv, NEW o \in WsOps, WsMark(o) \/ WsCut(o)
  PROVE  WsInv'
<1> USE DEF wsWire
<1>t. /\ wsPc \in [WsOps -> WsPlaces] /\ wsTerm \in WsCauses \cup {"none"}
  BY DEF WsInv, WsTypeOK, WsPlaces
<1>1. CASE WsMark(o)
  <2>u. /\ UNCHANGED <<wsRaw, wsGate, wsDl, wsLate, wsCl, wsCtx, wsCb, wsIo, wsRes, wsWire>> /\ wsPc[o] = "mark"
        /\ wsTerm' = (IF WsClosed THEN wsTerm ELSE wsIo[o]) /\ wsPc' = [wsPc EXCEPT ![o] = "cut"]
    BY <1>1 DEF WsMark, WsMarked, WsGoto
  <2>1. wsIo[o] \in WsCauses
    BY <2>u, Zenon DEF WsInv, WsEnding
  <2>2. /\ wsTerm' \in WsCauses /\ WsClosed' /\ (WsClosed => wsTerm' = wsTerm)
    BY <1>t, <2>u, <2>1 DEF WsClosed, WsCauses
  <2>3. /\ wsPc' \in [WsOps -> WsPlaces] /\ wsPc'[o] = "cut" /\ \A p \in WsOps \ {o} : wsPc'[p] = wsPc[p]
    BY <1>t, <2>u, Zenon DEF WsPlaces
  <2>4. WsTypeOK'
    BY <2>u, <2>2, <2>3 DEF WsInv, WsTypeOK, WsPlaces
  <2>5. WsGates' /\ WsTextRead'
    BY <2>u, <2>3 DEF WsInv, WsGates, WsTextRead, WsHolding
  <2>6. WsPartOwned'
    <3>1. ASSUME NEW w \in WsWrites, WsPartOf(w) PROVE WsPartOf(w)'
      BY <2>u, <2>3, <3>1, WsKinded, Zenon DEF WsPartOf
    <3> QED
      BY <2>u, <3>1, Zenon DEF WsInv, WsPartOwned
  <2>7. WsLossStops'
    BY <2>u, <2>2, <2>3, WsKinded, Zenon DEF WsInv, WsLossStops, WsHolding
  <2>8. WsEnding'
    BY <2>u, <2>2, <2>3, Zenon DEF WsInv, WsEnding
  <2>9. WsOneCause'
    BY <2>u, <2>2, <2>3 DEF WsInv, WsOneCause
  <2>10. WsDeadlineHeld' /\ WsStreamsIntact'
    BY <2>u DEF WsInv, WsDeadlineHeld, WsStreamsIntact, WsFramesWhole, WsReadsInOrder
  <2> QED
    BY <2>4, <2>5, <2>6, <2>7, <2>8, <2>9, <2>10, Zenon DEF WsInv
<1>2. CASE WsCut(o)
  <2> DEFINE res == IF wsIo[o] = "last" THEN "own" ELSE wsTerm
  <2>u. /\ UNCHANGED <<wsTerm, wsLate, wsCl, wsCb, wsPart, wsTorn, wsFrame, wsLost, wsSkip, wsPeer>> /\ wsPc[o] = "cut"
        /\ WsReturn(o, res) /\ wsRaw' = FALSE /\ wsIn' = "none" /\ wsDl' = [k \in WsKinds |-> "none"]
    BY <1>2, Zenon DEF WsCut, WsCutRaw
  <2>1. WsClosed
    BY <2>u DEF WsInv, WsEnding
  <2>2. res \in {"ok", "own"} \cup WsCauses /\ (res \in {"ok", "own"} \/ res = wsTerm)
    BY <1>t, <2>1 DEF WsClosed
  <2> HIDE DEF res
  <2>3. WsTypeOK'
    <3>1. /\ wsPc' \in [WsOps -> WsPlaces] /\ wsCtx' \in [WsOps -> BOOLEAN] /\ wsIo' \in [WsOps -> WsOutcomes]
          /\ wsRes' \in [WsOps -> {"none", "ok", "own"} \cup WsCauses]
          /\ wsGate' \in [WsKinds -> WsOps \cup {"free", "closer"}]
      BY <2>u, <2>2, WsReturnFacts DEF WsPlaces, WsOutcomes
    <3>2. wsDl' \in [WsKinds -> {"none", "now", "close"}] /\ wsIn' \in {"none", "text", "other", "last"}
      BY <2>u
    <3>3. wsRaw' \in BOOLEAN /\ wsLate' \in BOOLEAN /\ wsPeer' \in BOOLEAN /\ wsPart' \in BOOLEAN
          /\ wsTorn' \in BOOLEAN /\ wsFrame' \in BOOLEAN /\ wsLost' \in BOOLEAN /\ wsSkip' \in BOOLEAN
      BY <2>u, Zenon DEF WsInv, WsTypeOK
    <3> QED
      BY <2>u, <3>1, <3>2, <3>3, Zenon DEF WsInv, WsTypeOK, WsPlaces, WsOutcomes
  <2>4. WsGates' /\ WsTextRead' /\ WsPartOwned' /\ WsLossStops' /\ WsEnding' /\ WsOneCause' /\ WsStreamsIntact'
    <3>1. ~wsSkip'
      BY <2>u DEF WsInv, WsStreamsIntact, WsReadsInOrder
    <3> QED
      BY <2>u, <2>1, <2>2, <3>1, WsReturnKeeps, Zenon
  <2>5. WsDeadlineHeld'
    BY <2>u DEF WsDeadlineHeld
  <2> QED
    BY <2>3, <2>4, <2>5, Zenon DEF WsInv
<1> QED
  BY <1>1, <1>2

\* Close up to the gates, and its last step.
LEMMA WsCloseKeeps ==
  ASSUME WsInv, WsClose \/ WsCloseDeadline \/ WsCloseRaw
  PROVE  WsInv'
<1> USE DEF wsOpsWire, wsOps, wsWire
<1>u. /\ UNCHANGED <<wsGate, wsLate, wsPc, wsCtx, wsCb, wsIo, wsRes, wsPart, wsTorn, wsFrame, wsLost, wsSkip, wsPeer>>
      /\ wsCl' \in {"deadline", "wgate", "done"} /\ (WsClosed => wsTerm' = wsTerm) /\ wsTerm' \in WsCauses
      /\ wsRaw' => wsRaw
  <2>1. CASE WsClose
    BY <2>1, Zenon DEF WsInv, WsTypeOK, WsClose, WsMarked, WsClosed, WsCauses
  <2>2. CASE WsCloseDeadline \/ WsCloseRaw
    BY <2>2 DEF WsInv, WsTypeOK, WsEnding, WsCloseDeadline, WsCloseRaw, WsCutRaw, WsClosed
  <2> QED
    BY <2>1, <2>2, Zenon
<1>1. WsClosed'
  BY <1>u DEF WsClosed, WsCauses
<1>2. WsTypeOK'
  <2>1. wsDl' \in [WsKinds -> {"none", "now", "close"}] /\ wsIn' \in {"none", "text", "other", "last"}
    BY DEF WsInv, WsTypeOK, WsClose, WsCloseDeadline, WsCloseRaw, WsCutRaw
  <2>2. wsRaw' \in BOOLEAN
    BY Zenon DEF WsInv, WsTypeOK, WsClose, WsCloseDeadline, WsCloseRaw, WsCutRaw
  <2> QED
    BY <1>u, <2>1, <2>2 DEF WsInv, WsTypeOK
<1>3. WsGates' /\ WsTextRead' /\ WsPartOwned' /\ WsLossStops'
  BY <1>u, <1>1 DEF WsInv, WsGates, WsTextRead, WsPartOwned, WsPartOf, WsLossStops
<1>4. WsEnding' /\ WsOneCause' /\ WsStreamsIntact'
  BY <1>u, <1>1, Zenon DEF WsInv, WsEnding, WsOneCause, WsStreamsIntact, WsFramesWhole, WsReadsInOrder
<1>5. WsDeadlineHeld'
  <2>1. CASE WsCloseDeadline
    BY <2>1 DEF WsCloseDeadline, WsDeadlineHeld
  <2>2. CASE WsClose \/ WsCloseRaw
    BY <2>2, Zenon DEF WsClose, WsCloseRaw, WsDeadlineHeld
  <2> QED
    BY <2>1, <2>2
<1> QED
  BY <1>2, <1>3, <1>4, <1>5 DEF WsInv

\* Close takes a gate, or gives one up.
LEMMA WsCloseGateKeeps ==
  ASSUME WsInv,
         WsCloseTakeWrite \/ WsCloseTakeRead \/ WsCloseFrame \/ WsCloseFrameFails \/ WsCloseShake
  PROVE  WsInv'
<1> USE DEF wsOpsWire, wsOps, wsWire
<1>t. wsGate \in [WsKinds -> WsOps \cup {"free", "closer"}] /\ "write" \in WsKinds /\ "read" \in WsKinds
  BY Zenon DEF WsInv, WsTypeOK, WsKinds
<1>u. /\ UNCHANGED <<wsTerm, wsRaw, wsDl, wsLate, wsPc, wsCtx, wsCb, wsIo, wsRes, wsPart, wsLost, wsSkip, wsPeer>>
      /\ wsCl \in {"wgate", "wclose", "rgate", "shake"} /\ wsCl' \in {"wclose", "rgate", "shake", "raw"}
      /\ wsFrame => wsFrame'
  BY DEF WsCloseTakeWrite, WsCloseTakeRead, WsCloseFrame, WsCloseFrameFails, WsCloseShake, WsCloseWrote, WsNextGate
<1>1. /\ wsGate' \in [WsKinds -> WsOps \cup {"free", "closer"}]
      /\ \A k \in WsKinds : wsGate[k] \in WsOps => wsGate'[k] = wsGate[k]
  <2>1. CASE wsGate' = wsGate
    BY <1>t, <2>1
  <2>2. CASE \E k \in WsKinds, x \in {"free", "closer"} : wsGate[k] \in {"free", "closer"} /\ wsGate' = [wsGate EXCEPT ![k] = x]
    <3>1. PICK k \in WsKinds, x \in {"free", "closer"} : wsGate[k] \in {"free", "closer"} /\ wsGate' = [wsGate EXCEPT ![k] = x]
      BY <2>2, Zenon
    <3> QED
      BY <1>t, <3>1, WsKinded
  <2>3. CASE WsCloseTakeWrite \/ WsCloseTakeRead
    BY <1>t, <2>1, <2>2, <2>3 DEF WsCloseTakeWrite, WsCloseTakeRead
  <2>4. CASE WsCloseFrame \/ WsCloseFrameFails
    <3>1. wsGate["write"] = "closer" /\ wsGate' = [wsGate EXCEPT !["write"] = "free"]
      BY <2>4 DEF WsCloseFrame, WsCloseFrameFails, WsCloseWrote, WsInv, WsGates
    <3> QED
      BY <1>t, <2>2, <3>1, Zenon
  <2>5. CASE WsCloseShake
    <3>1. wsGate["read"] = "closer" /\ wsGate' = [wsGate EXCEPT !["read"] = "free"]
      BY <2>5, Zenon DEF WsCloseShake, WsInv, WsGates
    <3> QED
      BY <1>t, <2>2, <3>1, Zenon
  <2> QED
    BY <2>3, <2>4, <2>5
<1>2. wsCl' = "wclose" => wsGate'["write"] = "closer"
  BY <1>t, Zenon DEF WsCloseTakeWrite, WsCloseTakeRead, WsCloseFrame, WsCloseFrameFails, WsCloseShake, WsCloseWrote, WsNextGate
<1>3. wsCl' = "shake" => wsGate'["read"] = "closer"
  BY <1>t DEF WsCloseTakeWrite, WsCloseTakeRead, WsCloseFrame, WsCloseFrameFails, WsCloseShake, WsCloseWrote, WsNextGate
<1>4. WsGates'
  BY <1>u, <1>1, <1>2, <1>3, WsKinded, Zenon DEF WsInv, WsGates
<1>5. WsPartOwned'
  BY <1>t, <1>u, <1>1, WsKinded DEF WsInv, WsPartOwned, WsPartOf
<1>6. WsLossStops' /\ WsTextRead'
  BY <1>t, <1>u, <1>1, WsKinded DEF WsInv, WsLossStops, WsTextRead, WsClosed
<1>7. wsTorn' = wsTorn
  <2>b. wsTorn \in BOOLEAN
    BY Zenon DEF WsInv, WsTypeOK
  <2>1. CASE WsCloseTakeWrite \/ WsCloseTakeRead \/ WsCloseFrameFails
    BY <2>1 DEF WsCloseTakeWrite, WsCloseTakeRead, WsCloseFrameFails
  <2>2. CASE WsCloseFrame
    <3>1. wsRaw /\ wsGate["write"] = "closer"
      BY <2>2 DEF WsCloseFrame, WsCloseWrote, WsBroken, WsInv, WsGates
    <3>2. ~wsPart
      BY <3>1, WsKinded DEF WsInv, WsPartOwned, WsPartOf
    <3>3. wsTorn' = (wsTorn \/ wsPart)
      BY <2>2, Zenon DEF WsCloseFrame
    <3> QED
      BY <2>b, <3>2, <3>3, Zenon
  <2>3. CASE WsCloseShake
    <3>1. CASE WsBroken("read") /\ UNCHANGED <<wsTorn, wsFrame, wsIn>>
      BY <3>1
    <3>2. CASE ~WsBroken("read") /\ wsTorn' = (wsTorn \/ (~wsFrame /\ wsPart))
      <4>1. wsFrame
        BY <2>3, <3>2, Zenon DEF WsCloseShake, WsInv, WsEnding, WsBroken
      <4> QED
        BY <2>b, <3>2, <4>1, Zenon
    <3> QED
      BY <2>3, <3>1, <3>2 DEF WsCloseShake
  <2> QED
    BY <2>1, <2>2, <2>3
<1>8. WsTypeOK'
  <2>1. wsFrame' \in BOOLEAN
    BY Zenon DEF WsInv, WsTypeOK, WsCloseTakeWrite, WsCloseTakeRead, WsCloseFrame, WsCloseFrameFails, WsCloseShake
  <2>2. wsIn' \in {"none", "text", "other", "last"}
    BY DEF WsInv, WsTypeOK, WsCloseTakeWrite, WsCloseTakeRead, WsCloseFrame, WsCloseFrameFails, WsCloseShake, WsCloseWrote
  <2> QED
    BY <1>u, <1>1, <1>7, <2>1, <2>2 DEF WsInv, WsTypeOK
<1>9. WsDeadlineHeld'
  BY <1>u DEF WsInv, WsDeadlineHeld
<1>10. wsCl' \in {"rgate", "shake"} => wsFrame' \/ ~wsRaw \/ ~wsPeer
  <2>1. CASE WsCloseTakeWrite \/ WsCloseTakeRead \/ WsCloseShake
    BY <1>u, <2>1, Zenon DEF WsCloseTakeWrite, WsCloseTakeRead, WsCloseShake, WsNextGate, WsInv, WsEnding
  <2>2. CASE WsCloseFrame
    BY <2>2 DEF WsCloseFrame
  <2>3. CASE WsCloseFrameFails
    <3>1. wsCl = "wclose" /\ (wsCl' = "rgate" => ~wsLate) /\ wsCl' \in {"rgate", "raw"} /\ WsBroken("write")
      BY <2>3 DEF WsCloseFrameFails, WsCloseWrote, WsNextGate
    <3>2. wsRaw => wsDl["write"] = "close"
      BY <1>t, <3>1 DEF WsInv, WsDeadlineHeld
    <3> QED
      BY <3>1, <3>2 DEF WsBroken
  <2> QED
    BY <2>1, <2>2, <2>3
<1>11. WsEnding'
  BY <1>u, <1>10, Zenon DEF WsInv, WsEnding, WsClosed
<1>12. WsOneCause' /\ WsStreamsIntact'
  BY <1>u, <1>7 DEF WsInv, WsOneCause, WsClosed, WsStreamsIntact, WsFramesWhole, WsReadsInOrder
<1> QED
  BY <1>4, <1>5, <1>6, <1>8, <1>9, <1>11, <1>12 DEF WsInv

LEMMA WsNextInv == WsInv /\ [WsNext]_wsVars => WsInv'
<1> SUFFICES ASSUME WsInv, [WsNext]_wsVars PROVE WsInv'
  OBVIOUS
<1>1. ASSUME NEW o \in WsOps,
             \/ WsBegin(o) \/ WsCancel(o) \/ WsStep(o) \/ WsCallback(o)
             \/ WsWriteStart(o) \/ WsWriteEnd(o) \/ WsRead(o)
      PROVE  WsInv'
  BY <1>1, WsAcquireKeeps, WsIoStepKeeps, WsResetKeeps, WsTerminateKeeps, WsOutsideKeeps DEF WsStep
<1>2. CASE WsClose \/ WsCloser \/ WsCloseFrame \/ WsTimePasses \/ WsPeerSends \/ WsPeerLeaves
  BY <1>2, WsCloseKeeps, WsCloseGateKeeps, WsOutsideKeeps, Zenon DEF WsCloser
<1>3. CASE UNCHANGED wsVars
  <2> USE <1>3 DEF wsVars, wsOps, wsWire
  <2>1. WsTypeOK'
    BY DEF WsInv, WsTypeOK
  <2>2. WsGates' /\ WsTextRead' /\ WsPartOwned' /\ WsLossStops'
    BY Zenon DEF WsInv, WsGates, WsTextRead, WsPartOwned, WsPartOf, WsLossStops, WsClosed
  <2>3. WsEnding' /\ WsDeadlineHeld' /\ WsOneCause' /\ WsStreamsIntact'
    BY DEF WsInv, WsEnding, WsDeadlineHeld, WsOneCause, WsStreamsIntact, WsFramesWhole, WsReadsInOrder, WsClosed
  <2> QED
    BY <2>1, <2>2, <2>3, Zenon DEF WsInv
<1> QED
  BY <1>1, <1>2, <1>3 DEF WsNext

LEMMA WsInvariant == WsSpec => []WsInv
  BY WsInitInv, WsNextInv, PTL DEF WsSpec

\* The gates, deadlines and calls keep their types, for any number of calls.
THEOREM WsTypeCorrect == WsSpec => []WsTypeOK
  BY WsInvariant, PTL DEF WsInv

\* However many WriteJSON and ReadJSON calls share the connection, and whenever their
\* contexts end and Close runs: no frame is written into one that is not complete, and
\* no ReadJSON returns a message behind one that a canceled call lost.
THEOREM WsStreamsSound == WsSpec => []WsStreamsIntact
  BY WsInvariant, PTL DEF WsInv

\* Every call that ends with the transport reports the first cause of the end.
THEOREM WsSameCause == WsSpec => []WsOneCause
  BY WsInvariant, PTL DEF WsInv

\* From the moment Close has set its deadline until it has cut the connection, no call
\* and no AfterFunc clears or moves it.
THEOREM WsDeadlineStays == WsSpec => []WsDeadlineHeld
  BY WsInvariant, PTL DEF WsInv
=============================================================================
