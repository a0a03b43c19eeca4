-------------------------- MODULE ExecServerProofs --------------------------
(***************************************************************************)
(* Proofs about the codex exec server client, for every value of its         *)
(* constants.                                                              *)
(***************************************************************************)
EXTENDS ExecServer, TLAPS

\* Whoever refers to a queue refers to one that was made, or to a closed one after the
\* end of the client.
ExRefs ==
  /\ exHandle \in (0 .. exMade) \cup {ExDead}
  /\ exRd = "ensure" => exRdQ.queue = 0 /\ exRdQ.seq \in ExEvents
  /\ exRd = "push" => exRdQ.queue \in (1 .. exMade) \cup {ExDead} /\ exRdQ.seq \in ExEvents
  /\ exRd \notin {"ensure", "push"} => exRdQ = ExNoRead
  /\ exCon = "idle" => exConQ = 0
  /\ exCon \in {"next", "sleep"} => exGot < ExLast /\ exConQ \in (1 .. exMade) \cup {ExDead}
  /\ exCon = "sleep" => exConQ # ExDead
  /\ exCon \in {"end", "drop"} => exGot = ExLast /\ exConQ = 1 /\ exMade = 1
  /\ ExDead \in {exHandle, exRdQ.queue, exConQ} => exErr /\ exQ[ExDead].err

\* Up to process/closed or the end of the client the map holds the one queue, which
\* is open; any other queue is closed.
ExMapped ==
  /\ exMap \in {0, exMade}
  /\ exErr => exMap = 0
  /\ exMade = 2 => exGot = ExLast /\ exCon = "idle"
  /\ ~exErr => exMap = exMade \/ (exMade = 1 /\ exGot = ExLast /\ exCon = "idle")
  /\ exCon = "drop" => exQ[1].err
  /\ \A q \in 1 .. exMade : exQ[q].err \/ (exMap = q /\ ~exErr)
  /\ exQ[1].err => exErr \/ exGot = ExLast

\* Every notification sent is with the consumer, in the queue, with the read loop or
\* on its way.
ExFlow ==
  /\ ~exGap
  /\ ~exQ[1].err => exQ[1].next = exGot + 1
  /\ ~exErr /\ exGot < ExLast =>
       \A n \in exTold : n <= exGot \/ n \in exQ[1].pending \/ n \in {exLine.seq, exRdQ.seq}

ExInv == ExTypeOK /\ ExRefs /\ ExMapped /\ ExFlow /\ ExSignalled

\* What is left alone by the calls, the server and Close.
exCore == <<exHandle, exLine, exTold, exReads, exState, exConsumer>>

LEMMA ExInitInv == ExInit => ExInv
<1> SUFFICES ASSUME ExInit PROVE ExInv
  OBVIOUS
<1> USE ExAssumption DEF ExInit, ExNoLine, ExNoRead, ExDead, ExQueues, ExEvents, newExecServerProcessQueue
<1>1. ExTypeOK
  <2>1. exQ \in [ExQueues -> [next : 1..(ExLast + 1), pending : SUBSET ExEvents, notify : BOOLEAN, err : BOOLEAN]]
    OBVIOUS
  <2>2. exRdQ \in [seq : 0..ExLast, queue : 0..ExDead] /\ exGot \in 0..ExLast /\ exAgain \in 0..ExMaxAgain
    OBVIOUS
  <2>3. exLine \in {[is |-> k, seq |-> 0] : k \in {"none", "response", "bad"}}
    OBVIOUS
  <2>4. exHandle \in ExQueues \cup {0} /\ exMap \in ExQueues \cup {0} /\ exConQ \in ExQueues \cup {0} /\ exMade \in 0..2
    OBVIOUS
  <2> QED
    BY <2>1, <2>2, <2>3, <2>4, Zenon DEF ExTypeOK
<1>2. ExRefs /\ ExMapped /\ ExFlow /\ ExSignalled
  BY DEF ExRefs, ExMapped, ExFlow, ExSignalled
<1> QED
  BY <1>1, <1>2 DEF ExInv

LEMMA ExCoreKept ==
  ASSUME ExInv, ExTypeOK', UNCHANGED exCore
  PROVE  ExInv'
  BY DEF ExInv, ExRefs, ExMapped, ExFlow, ExSignalled, ExReady, exCore, exReads, exState, exConsumer

LEMMA ExCallKeeps ==
  ASSUME ExInv, ExStart \/ ExWrite \/ ExWritten \/ ExAnswered \/ ExGiveUp
  PROVE  ExInv'
<1> USE DEF exCall, exServer, exReads, exState, exConsumer, exTransport
<1>1. UNCHANGED exCore
  BY DEF exCore, ExStart, ExWrite, ExWritten, ExAnswered, ExGiveUp
<1>2. ExTypeOK'
  <2>1. /\ exWriteMu' \in {"none", "start", "closer"}
        /\ exRun' \in {"idle", "write", "writing", "wait", "ensure", "done"}
        /\ exResp' \in {"none", "ok", "error"} /\ exAsked' \in {"no", "yes", "answered"}
        /\ exCl' \in {"idle", "queues", "lock", "close", "await", "done"}
    BY DEF ExInv, ExTypeOK, ExStart, ExWrite, ExWritten, ExAnswered, ExGiveUp
  <2>3. exStored' \in BOOLEAN /\ exOpen' \in BOOLEAN /\ exReg' \in BOOLEAN
    BY Zenon DEF ExInv, ExTypeOK, ExStart, ExWrite, ExWritten, ExAnswered, ExGiveUp
  <2>2. exAgain' = exAgain
    BY DEF ExStart, ExWrite, ExWritten, ExAnswered, ExGiveUp
  <2> QED
    BY <1>1, <2>1, <2>2, <2>3 DEF ExInv, ExTypeOK, exCore
<1> QED
  BY <1>1, <1>2, ExCoreKept

LEMMA ExCloseKeeps ==
  ASSUME ExInv, ExClose \/ ExCloseLock \/ ExCloseTransport \/ ExCloseAwait \/ ExServerLeaves
  PROVE  ExInv'
<1> USE DEF exCall, exServer, exReads, exState, exConsumer, exTransport, ExFailPending
<1>1. UNCHANGED exCore
  BY DEF exCore, ExClose, ExCloseLock, ExCloseTransport, ExCloseAwait, ExServerLeaves
<1>2. ExTypeOK'
  <2>1. /\ exWriteMu' \in {"none", "start", "closer"}
        /\ exRun' \in {"idle", "write", "writing", "wait", "ensure", "done"}
        /\ exResp' \in {"none", "ok", "error"} /\ exAsked' \in {"no", "yes", "answered"}
        /\ exCl' \in {"idle", "queues", "lock", "close", "await", "done"}
    BY DEF ExInv, ExTypeOK, ExClose, ExCloseLock, ExCloseTransport, ExCloseAwait, ExServerLeaves
  <2>3. exStored' \in BOOLEAN /\ exOpen' \in BOOLEAN /\ exReg' \in BOOLEAN
    BY Zenon DEF ExInv, ExTypeOK, ExClose, ExCloseLock, ExCloseTransport, ExCloseAwait, ExServerLeaves
  <2>2. exAgain' = exAgain
    BY DEF ExClose, ExCloseLock, ExCloseTransport, ExCloseAwait, ExServerLeaves
  <2> QED
    BY <1>1, <2>1, <2>2, <2>3 DEF ExInv, ExTypeOK, exCore
<1> QED
  BY <1>1, <1>2, ExCoreKept

LEMMA ExServerKeeps ==
  ASSUME ExInv, ExServerAnswers \/ ExServerNotifies \/ ExServerErrs
  PROVE  ExInv'
<1> USE DEF exCall, exReads, exState, exConsumer, exTransport
<1>1. /\ UNCHANGED <<exTransport, exWriteMu, exCall, exReads, exState, exConsumer, exCl>>
      /\ exLine = ExNoLine
  BY DEF ExServerAnswers, ExServerNotifies, ExServerErrs, ExSend
<1>2. ExTypeOK'
  <2>1. /\ exAsked' \in {"no", "yes", "answered"} /\ exTold' \subseteq ExEvents /\ exAgain' \in 0..ExMaxAgain
        /\ exLine' \in {[is |-> k, seq |-> 0] : k \in {"none", "response", "bad"}}
                    \cup {[is |-> "event", seq |-> n] : n \in ExEvents}
    BY ExAssumption DEF ExInv, ExTypeOK, ExServerAnswers, ExServerNotifies, ExServerErrs, ExSend
  <2> QED
    BY <1>1, <2>1 DEF ExInv, ExTypeOK
<1>3. ExRefs' /\ ExMapped' /\ ExSignalled'
  BY <1>1 DEF ExInv, ExRefs, ExMapped, ExSignalled, ExReady
<1>4. \A n \in exTold' : n \in exTold \/ n = exLine'.seq
  BY DEF ExServerAnswers, ExServerNotifies, ExServerErrs, ExSend
<1>5. ExFlow'
  <2>1. \A n \in exTold : n # 0
    BY DEF ExInv, ExTypeOK, ExEvents
  <2> QED
    BY <1>1, <1>4, <2>1 DEF ExInv, ExFlow, ExNoLine
<1> QED
  BY <1>2, <1>3, <1>5 DEF ExInv

LEMMA ExReadKeeps ==
  ASSUME ExInv, ExRead \/ ExReadFails
  PROVE  ExInv'
<1> USE DEF exCall, exServer, exReads, exState, exConsumer, exTransport
<1>1. CASE ExReadFails
  <2>1. ExTypeOK'
    <3>1. /\ exReg' \in BOOLEAN /\ exResp' \in {"none", "ok", "error"} /\ exRd' = "queues"
          /\ UNCHANGED <<exRdQ, exTransport, exWriteMu, exServer, exState, exConsumer, exCl, exRun, exHandle>>
      BY <1>1, Zenon DEF ExInv, ExTypeOK, ExReadFails, ExFailPending
    <3> QED
      BY <3>1 DEF ExInv, ExTypeOK
  <2> QED
    BY <1>1, <2>1 DEF ExInv, ExRefs, ExMapped, ExFlow, ExSignalled, ExReady, ExReadFails, ExFailPending
<1>2. CASE ExRead
  <2>1. /\ UNCHANGED <<exRun, exHandle, exTransport, exWriteMu, exAsked, exTold, exAgain, exState, exConsumer, exCl>>
        /\ exRd = "read" /\ exLine' = ExNoLine
    BY <1>2 DEF ExRead
  <2>2. /\ exReg' \in BOOLEAN /\ exResp' \in {"none", "ok", "error"}
        /\ \/ exRd' \in {"read", "pending"} /\ exRdQ' = exRdQ /\ exLine.seq = 0
           \/ exRd' = "ensure" /\ exLine.seq \in ExEvents /\ exRdQ' = [seq |-> exLine.seq, queue |-> 0]
    <3>1. CASE exLine.is = "event"
      <4>1. exLine.seq \in ExEvents
        BY <3>1 DEF ExInv, ExTypeOK
      <4> QED
        BY <1>2, <3>1, <4>1 DEF ExInv, ExTypeOK, ExRead, ExNoRead
    <3>2. CASE exLine.is \in {"none", "response", "bad"}
      <4>1. exLine.seq = 0
        BY <3>2 DEF ExInv, ExTypeOK
      <4> QED
        BY <1>2, <3>2, <4>1, Zenon DEF ExInv, ExTypeOK, ExRead, ExNoRead
    <3> QED
      BY <3>1, <3>2 DEF ExInv, ExTypeOK
  <2>3. exRdQ = ExNoRead
    BY <2>1 DEF ExInv, ExRefs
  <2>4. exRdQ' \in [seq : 0..ExLast, queue : 0..ExDead]
    BY <2>2, ExAssumption DEF ExInv, ExTypeOK, ExEvents, ExDead
  <2>5. ExTypeOK'
    BY <2>1, <2>2, <2>4 DEF ExInv, ExTypeOK, ExNoLine
  <2>6. ExRefs'
    BY <2>1, <2>2, <2>3 DEF ExInv, ExRefs, ExNoRead, ExDead
  <2>7. ExMapped' /\ ExSignalled'
    BY <2>1 DEF ExInv, ExMapped, ExSignalled, ExReady
  <2>8. ExFlow'
    <3>1. \A n \in exTold : n # 0
      BY DEF ExInv, ExTypeOK, ExEvents
    <3> QED
      BY <2>1, <2>2, <2>3, <3>1 DEF ExInv, ExFlow, ExNoRead
  <2> QED
    BY <2>5, <2>6, <2>7, <2>8 DEF ExInv
<1> QED
  BY <1>1, <1>2

ExQueueRec == [next : 1..(ExLast + 1), pending : SUBSET ExEvents, notify : BOOLEAN, err : BOOLEAN]

LEMMA ExClosedType ==
  ASSUME NEW q \in ExQueueRec
  PROVE  ExClosed(q) \in ExQueueRec /\ ExClosed(q).err /\ (ExClosed(q).notify \/ ExClosed(q) = q)
<1> DEFINE c == [newExecServerProcessQueue EXCEPT !.err = TRUE, !.notify = TRUE]
<1>1. newExecServerProcessQueue \in ExQueueRec
  BY ExAssumption DEF newExecServerProcessQueue, ExQueueRec
<1>2. \A r \in ExQueueRec : LET e == [r EXCEPT !.err = TRUE, !.notify = TRUE]
                           IN e \in ExQueueRec /\ e.err /\ e.notify
  BY Zenon DEF ExQueueRec
<1>3. c \in ExQueueRec /\ c.err /\ c.notify
  BY <1>1, <1>2, Zenon
<1> HIDE DEF c
<1>4. ExClosed(q) = IF q.err THEN q ELSE c
  BY DEF ExClosed, c
<1> QED
  BY <1>3, <1>4

\* What ensureProcessQueue returns, and what it leaves alone.
LEMMA ExEnsureFacts ==
  ASSUME ExInv, NEW q \in ExQueues, ExEnsure(q)
  PROVE  /\ exMade' \in 0..2 /\ exMade <= exMade' /\ exErr' = exErr /\ exMap' \in ExQueues \cup {0}
         /\ exQ' \in [ExQueues -> ExQueueRec]
         /\ \A p \in {1, 2} : exQ'[p] = exQ[p]
         /\ exQ[ExDead].err => exQ'[ExDead].err
         /\ q \in (1 .. exMade') \cup {ExDead}
         /\ q = ExDead => exErr /\ exQ'[ExDead].err
         /\ exGot < ExLast => exMade' <= 1
         /\ exCon \in {"end", "drop"} => exMade' = exMade
         /\ exMap' \in {0, exMade'} /\ (exErr => exMap' = 0) /\ (exMade' = 2 => exGot = ExLast /\ exCon = "idle")
         /\ ~exErr => exMap' = exMade'
         /\ \A p \in 1 .. exMade' : exQ'[p].err \/ (exMap' = p /\ ~exErr)
<1> USE DEF ExDead, ExQueues
<1>0. /\ exMade \in 0..2 /\ exQ \in [ExQueues -> ExQueueRec] /\ exMap \in ExQueues \cup {0} /\ exGot \in 0..ExLast
  BY DEF ExInv, ExTypeOK, ExQueueRec
<1>1. CASE ~exErr /\ exMap # 0 /\ q = exMap /\ UNCHANGED exState
  BY <1>0, <1>1 DEF ExInv, ExMapped, exState
<1>2. CASE ~exErr /\ exMap = 0 /\ q = exMade + 1 /\ exMade' = q /\ exMap' = q /\ UNCHANGED <<exErr, exQ>>
  BY <1>0, <1>2, ExAssumption DEF ExInv, ExMapped, ExRefs
<1>3. CASE /\ exErr /\ q = ExDead /\ exQ' = [exQ EXCEPT ![q] = ExClosed(newExecServerProcessQueue)]
           /\ UNCHANGED <<exMap, exErr, exMade>>
  <2>1. newExecServerProcessQueue \in ExQueueRec
    BY ExAssumption DEF newExecServerProcessQueue, ExQueueRec
  <2>2. ExClosed(newExecServerProcessQueue) \in ExQueueRec /\ ExClosed(newExecServerProcessQueue).err
    BY <2>1, ExClosedType
  <2>3. /\ exQ' \in [ExQueues -> ExQueueRec] /\ exQ'[3].err /\ \A p \in {1, 2} : exQ'[p] = exQ[p]
    BY <1>0, <1>3, <2>2
  <2> QED
    BY <1>0, <1>3, <2>3 DEF ExInv, ExMapped, ExRefs
<1> QED
  BY <1>1, <1>2, <1>3 DEF ExEnsure

LEMMA ExHandledKeeps ==
  ASSUME ExInv, ExHandled
  PROVE  ExInv'
<1> USE DEF exCall, exServer, exReads, exState, exConsumer, exTransport
<1>1. PICK q \in ExQueues : ExEnsure(q) /\ exHandle' = q
  BY DEF ExHandled
<1>u. /\ UNCHANGED <<exReg, exResp, exTransport, exWriteMu, exServer, exReads, exConsumer, exCl>> /\ exRun' = "done"
  BY DEF ExHandled
<1>2. ExTypeOK'
  BY <1>1, <1>u, ExEnsureFacts DEF ExInv, ExTypeOK, ExQueueRec
<1>3. ExRefs'
  BY <1>1, <1>u, ExEnsureFacts DEF ExInv, ExTypeOK, ExRefs, ExDead
<1>4. ExMapped' /\ ExFlow'
  BY <1>1, <1>u, ExEnsureFacts, Zenon DEF ExInv, ExTypeOK, ExMapped, ExFlow
<1>5. ExSignalled'
  <2>1. exCon = "sleep" => exConQ \in {1, 2}
    BY DEF ExInv, ExTypeOK, ExRefs
  <2> QED
    BY <1>1, <1>u, <2>1, ExEnsureFacts DEF ExInv, ExSignalled, ExReady
<1> QED
  BY <1>2, <1>3, <1>4, <1>5 DEF ExInv

LEMMA ExRouteKeeps ==
  ASSUME ExInv, ExRoute
  PROVE  ExInv'
<1> USE DEF exCall, exServer, exReads, exState, exConsumer, exTransport
<1>1. PICK q \in ExQueues : ExEnsure(q) /\ exRdQ' = [exRdQ EXCEPT !.queue = q]
  BY DEF ExRoute
<1>u. /\ UNCHANGED <<exTransport, exWriteMu, exCall, exServer, exConsumer, exCl>> /\ exRd = "ensure" /\ exRd' = "push"
  BY DEF ExRoute
<1>0. exRdQ'.seq = exRdQ.seq /\ exRdQ'.queue = q /\ exRdQ' \in [seq : 0..ExLast, queue : 0..ExDead]
  BY <1>1 DEF ExInv, ExTypeOK, ExQueues, ExDead
<1>2. ExTypeOK'
  BY <1>0, <1>1, <1>u, ExEnsureFacts DEF ExInv, ExTypeOK, ExQueueRec
<1>3. ExRefs'
  BY <1>0, <1>1, <1>u, ExEnsureFacts DEF ExInv, ExTypeOK, ExRefs, ExDead
<1>4. ExMapped' /\ ExFlow'
  BY <1>0, <1>1, <1>u, ExEnsureFacts DEF ExInv, ExTypeOK, ExMapped, ExFlow
<1>5. ExSignalled'
  <2>1. exCon = "sleep" => exConQ \in {1, 2}
    BY DEF ExInv, ExTypeOK, ExRefs
  <2> QED
    BY <1>1, <1>u, <2>1, ExEnsureFacts DEF ExInv, ExSignalled, ExReady
<1> QED
  BY <1>2, <1>3, <1>4, <1>5 DEF ExInv

LEMMA ExPushedFacts ==
  ASSUME NEW q \in ExQueueRec, NEW n \in ExEvents
  PROVE  LET v == ExPushed(q, n)
         IN /\ v \in ExQueueRec /\ v.err = q.err /\ v.next = q.next
            /\ q.err => v = q
            /\ ~q.err => v.pending = q.pending \cup {n} /\ v.notify
<1>1. CASE q.err
  BY <1>1, Zenon DEF ExPushed
<1>2. CASE ~q.err
  <2> DEFINE v == [q EXCEPT !.pending = @ \cup {n}, !.notify = TRUE]
  <2>1. /\ v \in ExQueueRec /\ v.err = q.err /\ v.next = q.next
        /\ v.pending = q.pending \cup {n} /\ v.notify
    BY Zenon DEF ExQueueRec
  <2> QED
    BY <1>2, <2>1 DEF ExPushed
<1> QED
  BY <1>1, <1>2

LEMMA ExPushKeeps ==
  ASSUME ExInv, ExPush
  PROVE  ExInv'
<1> USE DEF exCall, exServer, exReads, exState, exConsumer, exTransport
<1> DEFINE p == exRdQ.queue
           v == ExPushed(exQ[p], exRdQ.seq)
<1>u. /\ UNCHANGED <<exTransport, exWriteMu, exCall, exServer, exMap, exErr, exMade, exConsumer, exCl>>
      /\ exRd = "push" /\ exRd' = "read" /\ exRdQ' = ExNoRead /\ exQ' = [exQ EXCEPT ![p] = v]
  BY DEF ExPush
<1>0. /\ exMade \in 0..2 /\ exQ \in [ExQueues -> ExQueueRec] /\ exConQ \in ExQueues \cup {0}
      /\ p \in ExQueues /\ exRdQ.seq \in ExEvents
  BY <1>u DEF ExInv, ExTypeOK, ExRefs, ExQueueRec, ExQueues, ExDead
<1>1. /\ v \in ExQueueRec /\ v.err = exQ[p].err /\ v.next = exQ[p].next /\ (exQ[p].err => v = exQ[p])
      /\ ~exQ[p].err => v.pending = exQ[p].pending \cup {exRdQ.seq} /\ v.notify
  BY <1>0, ExPushedFacts
<1> HIDE DEF v
<1>2. /\ exQ' \in [ExQueues -> ExQueueRec] /\ exQ'[p] = v /\ \A q \in ExQueues \ {p} : exQ'[q] = exQ[q]
  BY <1>0, <1>1, <1>u
<1>3. \A q \in ExQueues : /\ exQ'[q].err = exQ[q].err /\ exQ'[q].next = exQ[q].next
                          /\ exQ[q].err => exQ'[q] = exQ[q]
                          /\ exQ[q].pending \subseteq exQ'[q].pending
                          /\ exQ'[q].notify \/ exQ'[q] = exQ[q]
  BY <1>0, <1>1, <1>2
<1>4. ExTypeOK'
  <2>1. exRdQ' \in [seq : 0..ExLast, queue : 0..ExDead]
    BY <1>u, ExAssumption DEF ExNoRead, ExDead
  <2> QED
    BY <1>u, <1>2, <2>1 DEF ExInv, ExTypeOK, ExQueueRec
<1>5. ExRefs'
  BY <1>u, <1>3 DEF ExInv, ExRefs, ExNoRead, ExQueues, ExDead
<1>6. ExMapped'
  BY <1>0, <1>u, <1>3 DEF ExInv, ExMapped, ExQueues, ExDead
<1>7. ExSignalled'
  BY <1>0, <1>u, <1>3 DEF ExInv, ExRefs, ExSignalled, ExReady, ExQueues, ExDead
<1>8. ExFlow'
  <2>1. ASSUME ~exErr, exGot < ExLast, NEW n \in exTold
        PROVE  n <= exGot \/ n \in exQ'[1].pending \/ n = exLine.seq
    <3>1. p = 1 /\ ~exQ[1].err
      BY <1>u, <1>0, <2>1 DEF ExInv, ExRefs, ExMapped, ExTypeOK, ExDead
    <3> QED
      BY <1>1, <1>2, <2>1, <3>1, Zenon DEF ExInv, ExFlow
  <2> QED
    BY <1>u, <1>3, <2>1 DEF ExInv, ExFlow, ExQueues, ExDead
<1> QED
  BY <1>4, <1>5, <1>6, <1>7, <1>8 DEF ExInv

LEMMA ExCloseQueuesKeeps ==
  ASSUME ExInv, ExReadEnds \/ ExClosesQueues
  PROVE  ExInv'
<1> USE DEF exCall, exServer, exReads, exState, exConsumer, exTransport
<1>u. /\ UNCHANGED <<exTransport, exWriteMu, exCall, exServer, exRdQ, exConsumer, exMade>> /\ ExCloseQueues
      /\ exErr' = TRUE /\ exMap' = 0
      /\ (exRd = "queues" /\ exRd' = "done") \/ exRd' = exRd
      /\ exCl' \in {exCl, "lock"}
  BY DEF ExReadEnds, ExClosesQueues, ExCloseQueues
<1>0. /\ exMade \in 0..2 /\ exQ \in [ExQueues -> ExQueueRec] /\ exConQ \in ExQueues \cup {0}
      /\ exMap \in 0 .. exMade
  BY DEF ExInv, ExTypeOK, ExMapped, ExQueueRec
<1>1. /\ exQ' \in [ExQueues -> ExQueueRec]
      /\ \A q \in ExQueues : /\ exQ[q].err \/ q = exMap => exQ'[q].err
                             /\ ~exQ'[q].err => exQ'[q] = exQ[q]
                             /\ exQ'[q].notify \/ exQ'[q] = exQ[q]
  <2>1. CASE exMap = 0
    BY <1>0, <1>u, <2>1 DEF ExCloseQueues, ExQueues
  <2>2. CASE exMap # 0
    <3> DEFINE v == ExClosed(exQ[exMap])
    <3>1. exMap \in ExQueues /\ exQ' = [exQ EXCEPT ![exMap] = v]
      BY <1>0, <1>u, <2>2 DEF ExCloseQueues, ExQueues, ExDead
    <3>2. v \in ExQueueRec /\ v.err /\ (v.notify \/ v = exQ[exMap])
      BY <1>0, <3>1, ExClosedType
    <3> HIDE DEF v
    <3> QED
      BY <1>0, <3>1, <3>2
  <2> QED
    BY <2>1, <2>2
<1>2. \A q \in 1 .. exMade : exQ'[q].err
  BY <1>0, <1>1 DEF ExInv, ExMapped, ExQueues, ExDead
<1>4. ExTypeOK'
  BY <1>u, <1>1 DEF ExInv, ExTypeOK, ExQueueRec
<1>5. ExRefs'
  BY <1>u, <1>1 DEF ExInv, ExRefs, ExQueues, ExDead
<1>6. ExMapped'
  BY <1>0, <1>u, <1>1, <1>2 DEF ExInv, ExRefs, ExMapped, ExQueues, ExDead
<1>7. ExSignalled'
  <2>1. exCon = "sleep" => exConQ \in 1 .. exMade /\ exConQ \in ExQueues
    BY <1>0 DEF ExInv, ExRefs
  <2>2. exCon = "sleep" /\ exQ'[exConQ] = exQ[exConQ] => exErr
    <3>1. exCon = "sleep" => exMade = 1 /\ exConQ = 1 /\ exGot < ExLast /\ exGot \in 0..ExLast
      BY <1>0, <2>1 DEF ExInv, ExMapped, ExRefs, ExTypeOK
    <3> QED
      BY <1>0, <1>2, <3>1, ExAssumption DEF ExInv, ExMapped
  <2> QED
    BY <1>u, <1>1, <2>1, <2>2 DEF ExInv, ExSignalled
<1>8. ExFlow'
  BY <1>u, <1>1 DEF ExInv, ExFlow, ExQueues, ExDead
<1> QED
  BY <1>4, <1>5, <1>6, <1>7, <1>8 DEF ExInv

LEMMA ExNextCallKeeps ==
  ASSUME ExInv, ExNextCall
  PROVE  ExInv'
<1> USE DEF exCall, exServer, exReads, exState, exConsumer, exTransport
<1>u. /\ UNCHANGED <<exGot, exGap, exTransport, exWriteMu, exCall, exServer, exReads, exCl>>
      /\ exCon = "idle" /\ exGot < ExLast /\ exCon' = "next"
  BY DEF ExNextCall
<1>1. CASE exHandle # 0 /\ exConQ' = exHandle /\ UNCHANGED exState
  <2>1. ExTypeOK'
    BY <1>1, <1>u DEF ExInv, ExTypeOK
  <2>2. ExRefs'
    BY <1>1, <1>u DEF ExInv, ExTypeOK, ExRefs, ExDead
  <2>3. ExMapped' /\ ExFlow' /\ ExSignalled'
    BY <1>1, <1>u DEF ExInv, ExTypeOK, ExMapped, ExFlow, ExSignalled
  <2> QED
    BY <2>1, <2>2, <2>3 DEF ExInv
<1>2. ASSUME NEW q \in ExQueues, ExEnsure(q), exConQ' = q PROVE ExInv'
  <2>1. ExTypeOK'
    BY <1>2, <1>u, ExEnsureFacts DEF ExInv, ExTypeOK, ExQueueRec
  <2>2. ExRefs'
    BY <1>2, <1>u, ExEnsureFacts DEF ExInv, ExTypeOK, ExRefs, ExDead
  <2>3. ExMapped'
    BY <1>2, <1>u, ExEnsureFacts DEF ExInv, ExMapped
  <2>4. ExFlow' /\ ExSignalled'
    BY <1>2, <1>u, ExEnsureFacts DEF ExInv, ExFlow, ExSignalled
  <2> QED
    BY <2>1, <2>2, <2>3, <2>4, Zenon DEF ExInv
<1> QED
  BY <1>1, <1>2 DEF ExNextCall

LEMMA ExNextKeeps ==
  ASSUME ExInv, ExNext
  PROVE  ExInv'
<1> USE DEF exCall, exServer, exReads, exState, exConsumer, exTransport
<1> DEFINE q == exQ[exConQ]
<1>u. /\ UNCHANGED <<exTransport, exWriteMu, exCall, exServer, exReads, exMap, exErr, exMade, exCl>> /\ exCon = "next"
  BY DEF ExNext
<1>0. /\ exMade \in 0..2 /\ exQ \in [ExQueues -> ExQueueRec] /\ exGot \in 0..ExLast
      /\ exConQ \in (1 .. exMade) \cup {ExDead} /\ exGot < ExLast /\ exConQ \in ExQueues
  BY <1>u DEF ExInv, ExTypeOK, ExRefs, ExQueueRec, ExQueues, ExDead
<1>1. CASE q.err /\ exCon' = "idle" /\ exConQ' = 0 /\ UNCHANGED <<exQ, exGot, exGap>>
  <2>1. ExTypeOK'
    BY <1>1, <1>u DEF ExInv, ExTypeOK
  <2>2. ExRefs'
    BY <1>1, <1>u DEF ExInv, ExRefs, ExDead
  <2>3. ExMapped' /\ ExFlow' /\ ExSignalled'
    BY <1>1, <1>u DEF ExInv, ExMapped, ExFlow, ExSignalled
  <2> QED
    BY <2>1, <2>2, <2>3 DEF ExInv
<1>2. ASSUME ~q.err PROVE exConQ = 1 /\ exMade = 1 /\ exMap = 1 /\ ~exErr /\ q.next = exGot + 1
  BY <1>0, <1>2, <1>u DEF ExInv, ExRefs, ExMapped, ExFlow, ExDead
<1>3. CASE ~q.err /\ ExReady(q) = {} /\ exCon' = "sleep" /\ UNCHANGED <<exConQ, exQ, exGot, exGap>>
  <2>1. ExTypeOK'
    BY <1>3, <1>u DEF ExInv, ExTypeOK
  <2>2. ExRefs'
    BY <1>2, <1>3, <1>u DEF ExInv, ExRefs, ExDead
  <2>3. ExMapped' /\ ExFlow' /\ ExSignalled'
    BY <1>2, <1>3, <1>u DEF ExInv, ExMapped, ExFlow, ExSignalled
  <2> QED
    BY <2>1, <2>2, <2>3 DEF ExInv
<1>4. ASSUME ~q.err, NEW n \in ExReady(q),
             exQ' = [exQ EXCEPT ![exConQ].pending = @ \ {n}, ![exConQ].next = @ + 1],
             exGot' = n, exGap' = (exGap \/ n # exGot + 1),
             exCon' = IF n = ExLast THEN "end" ELSE "idle", exConQ' = IF n = ExLast THEN exConQ ELSE 0
      PROVE  ExInv'
  <2>1. n = exGot + 1 /\ n = q.next /\ n \in ExEvents
    BY <1>0, <1>2, <1>4 DEF ExReady, ExQueueRec
  <2>2. /\ exQ' \in [ExQueues -> ExQueueRec] /\ exQ'[1].err = exQ[1].err /\ exQ'[1].next = n + 1
        /\ exQ'[1].pending = exQ[1].pending \ {n} /\ \A p \in ExQueues \ {1} : exQ'[p] = exQ[p]
    BY <1>0, <1>2, <1>4, <2>1, ExAssumption DEF ExQueueRec, ExEvents
  <2>3. ~exGap'
    BY <1>4, <2>1, Zenon DEF ExInv, ExFlow
  <2>4. ExTypeOK'
    BY <1>0, <1>4, <1>u, <2>1, <2>2, <2>3, ExAssumption DEF ExInv, ExTypeOK, ExQueueRec, ExEvents
  <2>5. ExRefs'
    BY <1>2, <1>4, <1>u, <2>1, <2>2 DEF ExInv, ExRefs, ExDead, ExQueues
  <2>6. ExMapped'
    BY <1>2, <1>4, <1>u, <2>1, <2>2 DEF ExInv, ExMapped, ExQueues, ExDead
  <2>7. ExFlow'
    BY <1>2, <1>4, <1>u, <2>1, <2>2, <2>3 DEF ExInv, ExFlow, ExTypeOK, ExEvents
  <2>8. ExSignalled'
    BY <1>4 DEF ExSignalled
  <2> QED
    BY <2>4, <2>5, <2>6, <2>7, <2>8 DEF ExInv
<1> QED
  BY <1>1, <1>3, <1>4, Zenon DEF ExNext

LEMMA ExWakeKeeps ==
  ASSUME ExInv, ExWake \/ ExCancel
  PROVE  ExInv'
<1> USE DEF exCall, exServer, exReads, exState, exConsumer, exTransport
<1>u. /\ UNCHANGED <<exGot, exGap, exTransport, exWriteMu, exCall, exServer, exReads, exMap, exErr, exMade, exCl>>
      /\ exCon = "sleep"
  BY DEF ExWake, ExCancel
<1>0. exQ \in [ExQueues -> ExQueueRec] /\ exConQ \in ExQueues
  BY <1>u DEF ExInv, ExTypeOK, ExRefs, ExQueueRec, ExQueues, ExDead
<1>1. CASE ExCancel
  <2>1. ExTypeOK'
    BY <1>1, <1>u DEF ExInv, ExTypeOK, ExCancel
  <2>2. ExRefs' /\ ExMapped' /\ ExFlow' /\ ExSignalled'
    BY <1>1, <1>u DEF ExInv, ExRefs, ExMapped, ExFlow, ExSignalled, ExCancel, ExDead
  <2> QED
    BY <2>1, <2>2 DEF ExInv
<1>2. CASE ExWake
  <2>1. exCon' = "next" /\ exConQ' = exConQ /\ exQ' = [exQ EXCEPT ![exConQ].notify = FALSE]
    BY <1>2 DEF ExWake
  <2>2. /\ exQ' \in [ExQueues -> ExQueueRec]
        /\ \A q \in ExQueues : /\ exQ'[q].err = exQ[q].err /\ exQ'[q].next = exQ[q].next
                               /\ exQ'[q].pending = exQ[q].pending
    BY <1>0, <2>1, Zenon DEF ExQueueRec
  <2>3. ExTypeOK'
    BY <1>u, <2>1, <2>2 DEF ExInv, ExTypeOK, ExQueueRec
  <2>4. ExRefs' /\ ExSignalled'
    BY <1>u, <2>1, <2>2 DEF ExInv, ExRefs, ExSignalled, ExQueues, ExDead
  <2>5. ExMapped' /\ ExFlow'
    BY <1>u, <2>1, <2>2 DEF ExInv, ExTypeOK, ExMapped, ExFlow, ExQueues, ExDead
  <2> QED
    BY <2>3, <2>4, <2>5 DEF ExInv
<1> QED
  BY <1>1, <1>2

LEMMA ExEndKeeps ==
  ASSUME ExInv, ExEndQueue \/ deleteProcessQueue
  PROVE  ExInv'
<1> USE DEF exCall, exServer, exReads, exState, exConsumer, exTransport
<1>u. /\ UNCHANGED <<exGot, exGap, exTransport, exWriteMu, exCall, exServer, exReads, exErr, exMade, exCl>>
      /\ exCon \in {"end", "drop"}
  BY Zenon DEF ExEndQueue, deleteProcessQueue
<1>0. /\ exQ \in [ExQueues -> ExQueueRec] /\ exConQ = 1 /\ exMade = 1 /\ exGot = ExLast /\ exMap \in {0, 1}
  BY <1>u DEF ExInv, ExTypeOK, ExRefs, ExMapped, ExQueueRec
<1>1. CASE ExEndQueue
  <2>1. exCon' = "drop" /\ exConQ' = exConQ /\ exMap' = exMap /\ exQ' = [exQ EXCEPT ![1] = ExClosed(exQ[1])]
    BY <1>0, <1>1 DEF ExEndQueue
  <2>2. ExClosed(exQ[1]) \in ExQueueRec /\ ExClosed(exQ[1]).err
    BY <1>0, ExClosedType DEF ExQueues, ExDead
  <2>3. exQ' \in [ExQueues -> ExQueueRec] /\ exQ'[1].err /\ \A q \in ExQueues \ {1} : exQ'[q] = exQ[q]
    BY <1>0, <2>1, <2>2 DEF ExQueues, ExDead
  <2>4. ExTypeOK'
    BY <1>u, <2>1, <2>3 DEF ExInv, ExTypeOK, ExQueueRec
  <2>5. ExRefs' /\ ExSignalled'
    BY <1>0, <1>u, <2>1, <2>3 DEF ExInv, ExRefs, ExSignalled, ExQueues, ExDead
  <2>6. ExMapped' /\ ExFlow'
    BY <1>0, <1>u, <2>1, <2>3, ExAssumption DEF ExInv, ExTypeOK, ExMapped, ExFlow, ExQueues, ExDead
  <2> QED
    BY <2>4, <2>5, <2>6 DEF ExInv
<1>2. CASE deleteProcessQueue
  <2>1. exCon = "drop" /\ exCon' = "idle" /\ exConQ' = 0 /\ exQ' = exQ /\ exMap' = 0
    BY <1>0, <1>2, Zenon DEF deleteProcessQueue
  <2>4. ExTypeOK'
    BY <1>u, <2>1 DEF ExInv, ExTypeOK
  <2>5. ExRefs' /\ ExSignalled'
    BY <1>0, <1>u, <2>1 DEF ExInv, ExRefs, ExSignalled, ExDead
  <2>6. ExMapped' /\ ExFlow'
    BY <1>0, <1>u, <2>1 DEF ExInv, ExMapped, ExFlow
  <2> QED
    BY <2>4, <2>5, <2>6 DEF ExInv
<1> QED
  BY <1>1, <1>2

LEMMA ExNextInv == ExInv /\ [ExNextStep]_exVars => ExInv'
<1> SUFFICES ASSUME ExInv, [ExNextStep]_exVars PROVE ExInv'
  OBVIOUS
<1>1. CASE ExNextStep
  BY <1>1, ExCallKeeps, ExCloseKeeps, ExServerKeeps, ExReadKeeps, ExHandledKeeps, ExRouteKeeps, ExPushKeeps,
     ExCloseQueuesKeeps, ExNextCallKeeps, ExNextKeeps, ExWakeKeeps, ExEndKeeps
     DEF ExNextStep, ExCaller, ExReader, ExConsumes, ExCloser
<1>2. CASE UNCHANGED exVars
  <2>1. UNCHANGED exCore
    BY <1>2, Zenon DEF exVars, exCore, exTransport, exCall, exServer, exReads, exState, exConsumer
  <2>2. ExTypeOK'
    BY <1>2 DEF ExInv, ExTypeOK, exVars, exTransport, exCall, exServer, exReads, exState, exConsumer
  <2> QED
    BY <2>1, <2>2, ExCoreKept
<1> QED
  BY <1>1, <1>2

LEMMA ExInvariant == ExSpec => []ExInv
  BY ExInitInv, ExNextInv, PTL DEF ExSpec

\* The client, its queues and its goroutines keep their types, for every number of
\* notifications and however often the server repeats them.
THEOREM ExTypeCorrect == ExSpec => []ExTypeOK
  BY ExInvariant, PTL DEF ExInv

\* The notifications of a process reach the one handle of ProcessStart, all of them,
\* once and in order, whatever order the server sends them in, whenever the response
\* comes, and whichever of NextNotification and NextProcessNotification asks.
THEOREM ExDelivers == ExSpec => []ExDelivery
<1>1. ExInv => ExDelivery
  <2> SUFFICES ASSUME ExInv PROVE ExDelivery
    OBVIOUS
  <2>1. ExInOrder
    BY DEF ExInv, ExFlow, ExInOrder
  <2>2. ASSUME exHandle # 0, ~exErr, exGot < ExLast PROVE exMade = 1 /\ exHandle = 1 /\ exMap = 1
    BY <2>2 DEF ExInv, ExTypeOK, ExRefs, ExMapped, ExDead
  <2>3. ExHandleSeesAll
    BY <2>2 DEF ExInv, ExFlow, ExHandleSeesAll
  <2> QED
    BY <2>1, <2>3 DEF ExDelivery
<1> QED
  BY <1>1, ExInvariant, PTL

\* After the end of the client no queue that was ever made is open.
THEOREM ExNobodyStranded == ExSpec => []ExNoStranded
<1>1. ExInv => ExNoStranded
  BY DEF ExInv, ExMapped, ExNoStranded
<1> QED
  BY <1>1, ExInvariant, PTL

\* No consumer sleeps over a notification it may have, or over the end of the client,
\* without a signal in its queue, although a queue holds one signal only.
THEOREM ExNoLostWakeup == ExSpec => []ExSignalled
  BY ExInvariant, PTL DEF ExInv
=============================================================================
