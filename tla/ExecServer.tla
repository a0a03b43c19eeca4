----------------------------- MODULE ExecServer -----------------------------
(***************************************************************************)
(* ExecServerClient (pkg/llm/codex/execserver_process.go): ProcessStart, the *)
(* read loop that hands a process's notifications to its queue, a consumer   *)
(* that waits for them in order, and Close.                                  *)
(*                                                                         *)
(* One process, whose notifications carry the sequence numbers 1..ExLast; the *)
(* last is process/closed.  The server may send them in any order, and again. *)
(* Queues are numbered in the order they enter the map; there are never more  *)
(* than two, the second made by a notification sent again after process/closed. *)
(* A queue made after the end of the client is closed at once and known to its *)
(* caller only: ExDead stands for all of those.                              *)
(***************************************************************************)
EXTENDS Naturals, FiniteSets

CONSTANTS
  ExLast,      \* sequence number of process/closed
  ExMaxAgain   \* bound: notifications the server sends again

ASSUME ExAssumption == ExLast \in Nat \ {0} /\ ExMaxAgain \in Nat

ExEvents == 1..ExLast
ExDead == 3
ExQueues == 1..ExDead

VARIABLES
  exStored,   \* the client holds its transport
  exOpen,     \* the transport is open
  exWriteMu,  \* who holds writeMu
  exRun,      \* where the ProcessStart call is
  exReg,      \* its response channel is registered
  exResp,     \* what the channel holds
  exHandle,   \* the queue of the handle it returned
  exAsked,    \* the server has the request
  exLine,     \* the message on its way to the client; a number is a notification
  exTold,     \* notifications sent
  exAgain,    \* how many were sent again
  exRd,       \* where the read loop is
  exRdQ,      \* the notification it routes and its queue
  exMap,      \* processQueues: the process's queue
  exErr,      \* processErr is set; which error it is makes no difference here
  exMade,     \* queues made
  exQ,        \* the queues: nextSeq, pending, notify, err
  exCon,      \* where the consumer is
  exConQ,     \* the queue it waits on
  exGot,      \* the sequence number it was given last
  exGap,      \* it was given one out of order
  exCl        \* where Close is

exCall == <<exRun, exReg, exResp, exHandle>>
exServer == <<exAsked, exLine, exTold, exAgain>>
exReads == <<exRd, exRdQ>>
exState == <<exMap, exErr, exMade, exQ>>
exConsumer == <<exCon, exConQ, exGot, exGap>>
exTransport == <<exStored, exOpen>>
exVars == <<exTransport, exWriteMu, exCall, exServer, exReads, exState, exConsumer, exCl>>

\* The client, its queues and its goroutines keep their types.
ExTypeOK ==
  /\ exStored \in BOOLEAN /\ exOpen \in BOOLEAN /\ exWriteMu \in {"none", "start", "closer"}
  /\ exRun \in {"idle", "write", "writing", "wait", "ensure", "done"}
  /\ exReg \in BOOLEAN /\ exResp \in {"none", "ok", "error"}
  /\ exHandle \in ExQueues \cup {0} /\ exMap \in ExQueues \cup {0} /\ exConQ \in ExQueues \cup {0}
  /\ exAsked \in {"no", "yes", "answered"}
  /\ exLine \in {[is |-> k, seq |-> 0] : k \in {"none", "response", "bad"}}
             \cup {[is |-> "event", seq |-> n] : n \in ExEvents}
  /\ exTold \subseteq ExEvents /\ exAgain \in 0..ExMaxAgain
  /\ exRd \in {"read", "ensure", "push", "pending", "queues", "done"}
  /\ exRdQ \in [seq : 0..ExLast, queue : 0..ExDead]
  /\ exErr \in BOOLEAN /\ exMade \in 0..2
  /\ exQ \in [ExQueues -> [next : 1..(ExLast + 1), pending : SUBSET ExEvents, notify : BOOLEAN,
                           err : BOOLEAN]]
  /\ exCon \in {"idle", "next", "sleep", "end", "drop"}
  /\ exGot \in 0..ExLast /\ exGap \in BOOLEAN
  /\ exCl \in {"idle", "queues", "lock", "close", "await", "done"}

ExNoLine == [is |-> "none", seq |-> 0]
ExNoRead == [seq |-> 0, queue |-> 0]

newExecServerProcessQueue == [next |-> 1, pending |-> {}, notify |-> FALSE, err |-> FALSE]

\* NewExecServerClient
ExInit ==
  /\ exStored = TRUE /\ exOpen = TRUE /\ exWriteMu = "none"
  /\ exRun = "idle" /\ exReg = FALSE /\ exResp = "none" /\ exHandle = 0
  /\ exAsked = "no" /\ exLine = ExNoLine /\ exTold = {} /\ exAgain = 0
  /\ exRd = "read" /\ exRdQ = ExNoRead
  /\ exMap = 0 /\ exErr = FALSE /\ exMade = 0
  /\ exQ = [q \in ExQueues |-> newExecServerProcessQueue]
  /\ exCon = "idle" /\ exConQ = 0 /\ exGot = 0 /\ exGap = FALSE
  /\ exCl = "idle"

-----------------------------------------------------------------------------
(* execServerProcessQueue.                                                   *)

\* close, once: a waiter is woken.  What is pending is never looked at again.
ExClosed(q) ==
  IF q.err THEN q ELSE [newExecServerProcessQueue EXCEPT !.err = TRUE, !.notify = TRUE]

\* push: nothing is added to a closed queue.
ExPushed(q, n) ==
  IF q.err THEN q ELSE [q EXCEPT !.pending = @ \cup {n}, !.notify = TRUE]

\* next: the notification of nextSeq, once it has come.
ExReady(q) == q.pending \cap {q.next}

\* ensureProcessQueue: q is the process's queue, made when there is none; once the
\* client has ended it is one that is closed already.
ExEnsure(q) ==
  \/ ~exErr /\ exMap # 0 /\ q = exMap /\ UNCHANGED exState
  \/ /\ ~exErr /\ exMap = 0 /\ q = exMade + 1
     /\ exMade' = q /\ exMap' = q /\ UNCHANGED <<exErr, exQ>>
  \/ /\ exErr /\ q = ExDead
     /\ exQ' = [exQ EXCEPT ![q] = ExClosed(newExecServerProcessQueue)]
     /\ UNCHANGED <<exMap, exErr, exMade>>

\* closeAllProcessQueues: all of them under processMu.
ExCloseQueues ==
  /\ exErr' = TRUE /\ exMap' = 0
  /\ exQ' = IF exMap = 0 THEN exQ ELSE [exQ EXCEPT ![exMap] = ExClosed(@)]
  /\ UNCHANGED exMade

\* failPending: a registered call gets the error.
ExFailPending ==
  /\ exReg' = FALSE
  /\ exResp' = IF exReg THEN "error" ELSE exResp
  /\ UNCHANGED <<exRun, exHandle>>

-----------------------------------------------------------------------------
(* ProcessStart.                                                             *)

\* requestRaw: register, then write under writeMu.
ExStart ==
  /\ exRun = "idle"
  /\ exRun' = "write" /\ exReg' = TRUE
  /\ UNCHANGED <<exResp, exHandle, exTransport, exWriteMu, exServer, exReads, exState, exConsumer, exCl>>

\* writeMessage: without a transport the call fails.
ExWrite ==
  /\ exRun = "write" /\ exWriteMu = "none"
  /\ IF exStored
     THEN exRun' = "writing" /\ exWriteMu' = "start" /\ UNCHANGED exReg
     ELSE exRun' = "done" /\ exReg' = FALSE /\ UNCHANGED exWriteMu
  /\ UNCHANGED <<exResp, exHandle, exTransport, exServer, exReads, exState, exConsumer, exCl>>

\* WriteJSON waits until the server takes the request or the context ends.
ExWritten ==
  /\ exRun = "writing" /\ exWriteMu' = "none"
  /\ \/ exRun' = "wait" /\ exAsked' = "yes" /\ UNCHANGED exReg
     \/ exRun' = "done" /\ exReg' = FALSE /\ UNCHANGED exAsked
  /\ UNCHANGED <<exResp, exHandle, exTransport, exLine, exTold, exAgain, exReads, exState, exConsumer, exCl>>

\* The response, or the error that failPending left.
ExAnswered ==
  /\ exRun = "wait" /\ exResp # "none"
  /\ exRun' = IF exResp = "ok" THEN "ensure" ELSE "done"
  /\ exResp' = "none"
  /\ UNCHANGED <<exReg, exHandle, exTransport, exWriteMu, exServer, exReads, exState, exConsumer, exCl>>

\* The context of the call ends.
ExGiveUp ==
  /\ exRun = "wait"
  /\ exRun' = "done" /\ exReg' = FALSE /\ exResp' = "none"
  /\ UNCHANGED << exHandle, exTransport, exWriteMu, exServer, exReads, exState, exConsumer, exCl>>

\* Mutated form of ExHandled: the handle gets a queue of its own.
ExHandledFresh ==
  /\ exRun = "ensure" /\ exMade < 2
  /\ exHandle' = exMade + 1 /\ exMade' = exMade + 1 /\ exMap' = exMade + 1
  /\ UNCHANGED <<exErr, exQ>>
  /\ exRun' = "done"
  /\ UNCHANGED <<exReg, exResp, exTransport, exWriteMu, exServer, exReads, exConsumer, exCl>>

\* The handle gets the process's queue, which a notification may have made already.
ExHandled ==
  /\ exRun = "ensure"
  /\ \E q \in ExQueues : ExEnsure(q) /\ exHandle' = q
  /\ exRun' = "done"
  /\ UNCHANGED <<exReg, exResp, exTransport, exWriteMu, exServer, exReads, exConsumer, exCl>>

-----------------------------------------------------------------------------
(* The server.                                                               *)
ExSend(line) ==
  /\ exOpen /\ exLine = ExNoLine /\ exLine' = line
  /\ UNCHANGED <<exTransport, exWriteMu, exCall, exReads, exState, exConsumer, exCl>>

ExServerAnswers ==
  /\ exAsked = "yes" /\ ExSend([is |-> "response", seq |-> 0])
  /\ exAsked' = "answered" /\ UNCHANGED <<exTold, exAgain>>

ExServerNotifies ==
  /\ exAsked # "no"
  /\ \E n \in ExEvents :
       /\ ExSend([is |-> "event", seq |-> n])
       /\ n \in exTold => exAgain < ExMaxAgain
       /\ exAgain' = IF n \in exTold THEN exAgain + 1 ELSE exAgain
       /\ exTold' = exTold \cup {n}
  /\ UNCHANGED exAsked

\* A request of the server's, or a notification that does not decode.
ExServerErrs == ExSend([is |-> "bad", seq |-> 0]) /\ UNCHANGED <<exAsked, exTold, exAgain>>

ExServerLeaves ==
  /\ exOpen /\ exOpen' = FALSE
  /\ UNCHANGED <<exStored, exWriteMu, exCall, exServer, exReads, exState, exConsumer, exCl>>

-----------------------------------------------------------------------------
(* readLoop.                                                                 *)
ExRead ==
  /\ exRd = "read" /\ (exLine # ExNoLine \/ ~exOpen)
  /\ exLine' = ExNoLine
  /\ CASE exLine.is \in {"none", "bad"} -> exRd' = "pending" /\ UNCHANGED <<exRdQ, exReg, exResp>>
       [] exLine.is = "event" -> /\ exRd' = "ensure" /\ exRdQ' = [ExNoRead EXCEPT !.seq = exLine.seq]
                                 /\ UNCHANGED <<exReg, exResp>>
       [] exLine.is = "response" -> \* deliverResponse
            /\ exResp' = IF exReg THEN "ok" ELSE exResp
            /\ exReg' = FALSE /\ UNCHANGED exReads
  /\ UNCHANGED <<exRun, exHandle, exTransport, exWriteMu, exAsked, exTold, exAgain, exState, exConsumer, exCl>>

\* pushProcessNotification: the queue is looked up, and filled after processMu is
\* released.
ExRoute ==
  /\ exRd = "ensure"
  /\ \E q \in ExQueues : ExEnsure(q) /\ exRdQ' = [exRdQ EXCEPT !.queue = q]
  /\ exRd' = "push"
  /\ UNCHANGED <<exTransport, exWriteMu, exCall, exServer, exConsumer, exCl>>

ExPush ==
  /\ exRd = "push"
  /\ exQ' = [exQ EXCEPT ![exRdQ.queue] = ExPushed(@, exRdQ.seq)]
  /\ exRd' = "read" /\ exRdQ' = ExNoRead
  /\ UNCHANGED <<exTransport, exWriteMu, exCall, exServer, exMap, exErr, exMade, exConsumer, exCl>>

\* Mutated form of ExReadFails: the calls are left to Close.
ExReadFailsNobody ==
  /\ exRd = "pending" /\ exRd' = "queues"
  /\ UNCHANGED <<exRdQ, exTransport, exWriteMu, exCall, exServer, exState, exConsumer, exCl>>

ExReadFails ==
  /\ exRd = "pending" /\ ExFailPending
  /\ exRd' = "queues"
  /\ UNCHANGED <<exRdQ, exTransport, exWriteMu, exServer, exState, exConsumer, exCl>>

ExReadEnds ==
  /\ exRd = "queues" /\ ExCloseQueues
  /\ exRd' = "done"
  /\ UNCHANGED <<exRdQ, exTransport, exWriteMu, exCall, exServer, exConsumer, exCl>>

-----------------------------------------------------------------------------
(* The consumer: NextNotification of the handle, or NextProcessNotification.  *)
ExNextCall ==
  /\ exCon = "idle" /\ exGot < ExLast
  /\ \/ exHandle # 0 /\ exConQ' = exHandle /\ UNCHANGED exState
     \/ \E q \in ExQueues : ExEnsure(q) /\ exConQ' = q
  /\ exCon' = "next"
  /\ UNCHANGED <<exGot, exGap, exTransport, exWriteMu, exCall, exServer, exReads, exCl>>

\* next, under the lock of the queue: its error, its next notification, or wait.
ExNext ==
  /\ exCon = "next"
  /\ LET q == exQ[exConQ]
     IN \/ q.err /\ exCon' = "idle" /\ exConQ' = 0 /\ UNCHANGED <<exQ, exGot, exGap>>
        \/ /\ ~q.err
           /\ \E n \in ExReady(q) :
                /\ exQ' = [exQ EXCEPT ![exConQ].pending = @ \ {n}, ![exConQ].next = @ + 1]
                /\ exGot' = n /\ exGap' = (exGap \/ n # exGot + 1)
                /\ exCon' = IF n = ExLast THEN "end" ELSE "idle"
                /\ exConQ' = IF n = ExLast THEN exConQ ELSE 0
        \/ /\ ~q.err /\ ExReady(q) = {}
           /\ exCon' = "sleep" /\ UNCHANGED <<exConQ, exQ, exGot, exGap>>
  /\ UNCHANGED <<exTransport, exWriteMu, exCall, exServer, exReads, exMap, exErr, exMade, exCl>>

\* The signal, or the end of the context.
ExWake ==
  /\ exCon = "sleep" /\ exQ[exConQ].notify
  /\ exQ' = [exQ EXCEPT ![exConQ].notify = FALSE]
  /\ exCon' = "next"
  /\ UNCHANGED <<exConQ, exGot, exGap, exTransport, exWriteMu, exCall, exServer, exReads, exMap, exErr, exMade, exCl>>

ExCancel ==
  /\ exCon = "sleep" /\ exCon' = "idle" /\ exConQ' = 0
  /\ UNCHANGED <<exGot, exGap, exTransport, exWriteMu, exCall, exServer, exReads, exState, exCl>>

\* nextProcessNotification after process/closed: the queue ends and then leaves the map.
ExEndQueue ==
  /\ exCon = "end"
  /\ exQ' = [exQ EXCEPT ![exConQ] = ExClosed(@)]
  /\ exCon' = "drop"
  /\ UNCHANGED <<exConQ, exGot, exGap, exTransport, exWriteMu, exCall, exServer, exReads, exMap, exErr, exMade, exCl>>

deleteProcessQueue ==
  /\ exCon = "drop"
  /\ exMap' = IF exMap = exConQ THEN 0 ELSE exMap
  /\ exCon' = "idle" /\ exConQ' = 0
  /\ UNCHANGED <<exGot, exGap, exTransport, exWriteMu, exCall, exServer, exReads, exErr, exMade, exQ, exCl>>

-----------------------------------------------------------------------------
(* Close.                                                                    *)
ExClose ==
  /\ exCl = "idle" /\ ExFailPending
  /\ exCl' = "queues"
  /\ UNCHANGED <<exTransport, exWriteMu, exServer, exReads, exState, exConsumer>>

ExClosesQueues ==
  /\ exCl = "queues" /\ ExCloseQueues
  /\ exCl' = "lock"
  /\ UNCHANGED <<exTransport, exWriteMu, exCall, exServer, exReads, exConsumer>>

ExCloseLock ==
  /\ exCl = "lock" /\ exWriteMu = "none"
  /\ exWriteMu' = "closer" /\ exCl' = "close"
  /\ UNCHANGED <<exTransport, exCall, exServer, exReads, exState, exConsumer>>

ExCloseTransport ==
  /\ exCl = "close"
  /\ exStored' = FALSE /\ exOpen' = FALSE /\ exWriteMu' = "none" /\ exCl' = "await"
  /\ UNCHANGED <<exCall, exServer, exReads, exState, exConsumer>>

ExCloseAwait ==
  /\ exCl = "await" /\ exRd = "done"
  /\ exCl' = "done"
  /\ UNCHANGED <<exTransport, exWriteMu, exCall, exServer, exReads, exState, exConsumer>>

-----------------------------------------------------------------------------
ExReader == ExRead \/ ExRoute \/ ExPush \/ ExReadFails \/ ExReadEnds
ExConsumes == ExNext \/ ExWake \/ ExEndQueue \/ deleteProcessQueue
ExCloser == ExClosesQueues \/ ExCloseLock \/ ExCloseTransport \/ ExCloseAwait
ExCaller == ExWrite \/ ExAnswered \/ ExHandled

ExNextStep ==
  \/ ExStart \/ ExCaller \/ ExWritten \/ ExGiveUp
  \/ ExServerAnswers \/ ExServerNotifies \/ ExServerErrs \/ ExServerLeaves
  \/ ExReader \/ ExNextCall \/ ExConsumes \/ ExCancel
  \/ ExClose \/ ExCloser

\* The client's goroutines run.  The server owes nothing, and a write may wait for it.
ExFairness ==
  /\ WF_exVars(ExReader) /\ WF_exVars(ExConsumes)
  /\ WF_exVars(ExCloser) /\ WF_exVars(ExCaller)

ExSpec == ExInit /\ [][ExNextStep]_exVars /\ ExFairness

-----------------------------------------------------------------------------
(* Properties.                                                               *)

\* The consumer is given the notifications of the process in the order of their
\* sequence numbers, none left out and none twice, whatever order they came in and
\* whichever of the two calls it uses.
ExInOrder == ~exGap

\* Notifications go to the queue that the handle waits on, also those that came before
\* the response to process/start: up to process/closed or the end of the client the
\* map holds the handle's queue, and the queue every notification that the read loop
\* has routed and the consumer has not had.
ExHandleSeesAll ==
  exHandle # 0 /\ ~exErr /\ exGot < ExLast =>
    /\ exMap = exHandle
    /\ \A n \in exTold : \/ n <= exGot \/ n \in exQ[exHandle].pending
                         \/ n \in {exLine.seq, exRdQ.seq}

\* The notifications of a process reach the one handle, all of them, once and in order.
ExDelivery == ExInOrder /\ ExHandleSeesAll

\* After the end of the client no queue is open, whoever made it and when: nobody can
\* wait on one that nothing will fill or close.
ExNoStranded ==
  exErr => \A q \in 1..exMade : exQ[q].err

\* A consumer is never asleep over a notification it may have, or over the end of the
\* client, without a signal in its queue: no wakeup is lost.
ExSignalled ==
  exCon = "sleep" /\ (exErr \/ ExReady(exQ[exConQ]) # {}) => exQ[exConQ].notify

\* A waiting consumer whose notification has come, or whose client has ended, is woken:
\* the one signal that a queue holds is enough for everything that is put into it.
ExWaiterWoken ==
  exCon = "sleep" /\ (exErr \/ ExReady(exQ[exConQ]) # {}) ~> exCon # "sleep"

\* Close, or else the read loop that it ends, fails a call that waits for its response,
\* also one that registered after Close had failed the calls it found.
ExCallEnds ==
  exRun = "wait" /\ exCl # "idle" /\ exRd \in {"read", "ensure", "push", "pending"} ~> exRun # "wait"

\* Close returns, unless a write that holds writeMu never ends.
ExCloseReturns ==
  <>[](exRun = "writing") \/ (exCl = "queues" ~> exCl = "done")

\* The consumer is woken, the call ends and Close returns.
ExEverybodyReturns == ExWaiterWoken /\ ExCallEnds /\ ExCloseReturns
=============================================================================
