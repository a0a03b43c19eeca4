----------------------------- MODULE TurnRouter -----------------------------
(***************************************************************************)
(* turnNotificationRouter (pkg/llm/codex/router.go) with the consumers that  *)
(* the client builds on it.  The read loop routes each notification of the   *)
(* app-server to the queue of the turn, login or process it belongs to, to a *)
(* pending buffer when a turn or login has no consumer yet, or to the global *)
(* channel.  Sessions are the goroutines in TurnHandle.Stream and Run,       *)
(* StreamText, WaitForTurnCompleted, WaitForLoginCompleted and process       *)
(* handles: register, a loop of next calls, release.  Readers are goroutines *)
(* in NextNotification.                                                      *)
(*                                                                         *)
(* The critical sections under r.mu are atomic, except the three selects of  *)
(* the global route, which race with the readers of the channel.  A queue is *)
(* the drop-oldest queue that NotificationQueue implements; its wakeups are  *)
(* not modelled again.  Notifications are numbered per scope.                *)
(***************************************************************************)
EXTENDS Integers, Sequences, FiniteSets

CONSTANTS
  Turns, Logins, Procs,  \* turn ids, login ids and process handles
  Sessions, Readers,     \* consumer goroutines
  Cap,                   \* notificationQueueCapacity
  MaxRouted,             \* bound: notifications per scope
  MaxGlobal,             \* bound: notifications without a scope
  MaxQueues              \* bound: queues ever created

Scopes == Turns \cup Logins \cup Procs
NoQueue == 0

ASSUME RouterAssumption ==
  /\ Turns \cap Logins = {} /\ Turns \cap Procs = {} /\ Logins \cap Procs = {}
  /\ Cap \in Nat \ {0}
  /\ MaxRouted \in Nat /\ MaxGlobal \in Nat /\ MaxQueues \in Nat

VARIABLES
  closed,          \* r.closed
  queues,          \* r.queues, r.loginQueues, r.processQueues: the queue of a scope
  pending,         \* r.pending, r.pendingLogin
  pendingDropped,  \* r.pendingDropped, r.pendingLoginDropped
  objs,            \* the notificationQueue objects created so far
  closing,         \* queues that close (the router's) or unregisterProcess has yet to close
  global,          \* the buffered global channel
  globalClosed,    \* the channel was closed
  mu,              \* "free", or the select that the global route is at under r.mu
  pc, scope, at,   \* of each session: where it is, its scope, the queue it reads
  released,        \* the session gave up its registration (h.releaseOnce of a process)
  rpc,             \* where each reader is
  routed,          \* history: notifications routed to each scope's consumer
  seen,            \* history: those delivered, reported as dropped, or abandoned
  groute           \* history: notifications routed to the global channel

mapVars == <<queues, pending, pendingDropped>>
channelVars == <<global, globalClosed, mu, groute>>
sessionVars == <<pc, scope, at, released>>
countVars == <<routed, seen>>
rvars == <<closed, queues, pending, pendingDropped, objs, closing, global, globalClosed, mu,
           pc, scope, at, released, rpc, routed, seen, groute>>

Queue == [buf : Seq(Nat), dropped : Nat, closed : BOOLEAN]

\* Every map of the router leads to a queue that was made, and every loop is at one of its steps.
TypeOK ==
  /\ closed \in BOOLEAN /\ globalClosed \in BOOLEAN
  /\ objs \in Seq(Queue)
  /\ queues \in [Scopes -> 0 .. Len(objs)]
  /\ pending \in [Scopes -> Seq(Nat)]
  /\ pendingDropped \in [Scopes -> Nat]
  /\ closing \subseteq (1 .. Len(objs)) \X {"router", "handle"}
  /\ global \in Seq(Nat)
  /\ mu \in {"free", "evict", "send"}
  /\ pc \in [Sessions -> {"idle", "active", "next", "clear", "release"}]
  /\ scope \in [Sessions -> Scopes]
  /\ at \in [Sessions -> 0 .. Len(objs)]
  /\ released \in [Sessions -> BOOLEAN]
  /\ rpc \in [Readers -> {"idle", "select"}]
  /\ routed \in [Scopes -> Nat] /\ seen \in [Scopes -> Nat] /\ groute \in Nat

Init ==
  /\ closed = FALSE /\ globalClosed = FALSE
  /\ objs = <<>>
  /\ queues = [s \in Scopes |-> NoQueue]
  /\ pending = [s \in Scopes |-> <<>>]
  /\ pendingDropped = [s \in Scopes |-> 0]
  /\ closing = {}
  /\ global = <<>>
  /\ mu = "free"
  /\ pc = [c \in Sessions |-> "idle"]
  /\ scope \in [Sessions -> Scopes]
  /\ at = [c \in Sessions |-> NoQueue]
  /\ released = [c \in Sessions |-> TRUE]
  /\ rpc = [g \in Readers |-> "idle"]
  /\ routed = [s \in Scopes |-> 0]
  /\ seen = [s \in Scopes |-> 0]
  /\ groute = 0

-----------------------------------------------------------------------------
(* The read loop *)

\* pushPendingNotification and the push of a full queue: the oldest entry goes.
PushOldestOut(s, n) == IF Len(s) < Cap THEN Append(s, n) ELSE Append(Tail(s), n)

\* route, routeLogin: the scope has an active consumer.
routeQueue(s) ==
  /\ mu = "free" /\ ~closed /\ queues[s] # NoQueue /\ routed[s] < MaxRouted
  /\ LET q == queues[s]
     IN objs' = [objs EXCEPT ![q] =
                   [buf |-> PushOldestOut(objs[q].buf, routed[s] + 1),
                    dropped |-> objs[q].dropped + (IF Len(objs[q].buf) < Cap THEN 0 ELSE 1),
                    closed |-> objs[q].closed]]
  /\ routed' = [routed EXCEPT ![s] = @ + 1]
  /\ UNCHANGED <<closed, closing, rpc, seen, sessionVars, channelVars, mapVars>>

\* route, routeLogin: a turn or a login without a consumer.
routePending(s) ==
  /\ mu = "free" /\ ~closed /\ s \notin Procs /\ queues[s] = NoQueue /\ routed[s] < MaxRouted
  /\ pending' = [pending EXCEPT ![s] = PushOldestOut(@, routed[s] + 1)]
  /\ pendingDropped' = [pendingDropped EXCEPT ![s] = @ + (IF Len(pending[s]) < Cap THEN 0 ELSE 1)]
  /\ routed' = [routed EXCEPT ![s] = @ + 1]
  /\ UNCHANGED <<closed, queues, objs, closing, rpc, seen, sessionVars, channelVars>>

\* route, routeGlobalLocked: no turn id (a process without a consumer included);
\* the first select either sends or leaves the lock held.
routeGlobal ==
  /\ mu = "free" /\ ~closed /\ groute < MaxGlobal
  /\ groute' = groute + 1
  /\ IF Len(global) < Cap
     THEN global' = Append(global, groute + 1) /\ mu' = "free"
     ELSE global' = global /\ mu' = "evict"
  /\ UNCHANGED <<closed, objs, closing, globalClosed, rpc, sessionVars, mapVars, countVars>>

\* Mutated form of routeEvict: nothing is evicted.
EvictNothing ==
  /\ mu = "evict"
  /\ mu' = "send"
  /\ UNCHANGED <<closed, objs, closing, global, globalClosed, rpc, groute, sessionVars, mapVars, countVars>>

\* The second select evicts the oldest entry, if a reader left one.
routeEvict ==
  /\ mu = "evict"
  /\ global' = IF global = <<>> THEN global ELSE Tail(global)
  /\ mu' = "send"
  /\ UNCHANGED <<closed, objs, closing, globalClosed, rpc, groute, sessionVars, mapVars, countVars>>

\* The third select sends; its default is the "paranoid guard".
routeSend ==
  /\ mu = "send"
  /\ global' = IF Len(global) < Cap THEN Append(global, groute) ELSE global
  /\ mu' = "free"
  /\ UNCHANGED <<closed, objs, closing, globalClosed, rpc, groute, sessionVars, mapVars, countVars>>

-----------------------------------------------------------------------------
(* Close *)

\* Mutated form of close: the queues of processes are forgotten.
CloseForgetsProcs ==
  /\ mu = "free" /\ ~closed
  /\ closed' = TRUE
  /\ closing' = closing \cup {<<queues[s], "router">> : s \in {r \in Scopes \ Procs : queues[r] # NoQueue}}
  /\ queues' = [s \in Scopes |-> NoQueue]
  /\ pending' = [s \in Scopes |-> <<>>]
  /\ pendingDropped' = [s \in Scopes |-> 0]
  /\ UNCHANGED <<objs, rpc, sessionVars, channelVars, countVars>>

\* close, under r.mu: the queues are set aside to be closed after the unlock.
close ==
  /\ mu = "free" /\ ~closed
  /\ closed' = TRUE
  /\ closing' = closing \cup {<<queues[s], "router">> : s \in {r \in Scopes : queues[r] # NoQueue}}
  /\ queues' = [s \in Scopes |-> NoQueue]
  /\ pending' = [s \in Scopes |-> <<>>]
  /\ pendingDropped' = [s \in Scopes |-> 0]
  /\ UNCHANGED <<objs, rpc, sessionVars, channelVars, countVars>>

\* close, after the unlock: close(global), then the queues in any order.
closeGlobal ==
  /\ closed /\ ~globalClosed
  /\ globalClosed' = TRUE
  /\ UNCHANGED <<closed, objs, closing, global, mu, rpc, groute, sessionVars, mapVars, countVars>>

closeQueue(q, by) ==
  /\ <<q, by>> \in closing /\ (by = "router" => globalClosed)
  /\ objs' = [objs EXCEPT ![q] = [buf |-> objs[q].buf, dropped |-> objs[q].dropped, closed |-> TRUE]]
  /\ closing' = closing \ {<<q, by>>}
  /\ UNCHANGED <<closed, rpc, sessionVars, channelVars, mapVars, countVars>>

-----------------------------------------------------------------------------
(* Sessions *)

\* Mutated form of register: the drops before the registration are forgotten.
RegisterForgetsDrops(c) ==
  LET s == scope[c] IN
  /\ pc[c] = "idle" /\ mu = "free" /\ ~closed /\ queues[s] = NoQueue
  /\ Len(objs) < MaxQueues
  /\ objs' = Append(objs, [buf |-> pending[s], dropped |-> 0, closed |-> FALSE])
  /\ queues' = [queues EXCEPT ![s] = Len(objs) + 1]
  /\ pending' = [pending EXCEPT ![s] = <<>>]
  /\ pendingDropped' = [pendingDropped EXCEPT ![s] = 0]
  /\ pc' = [pc EXCEPT ![c] = "active"]
  /\ released' = [released EXCEPT ![c] = FALSE]
  /\ UNCHANGED <<closed, closing, scope, at, rpc, channelVars, countVars>>

\* register, registerLogin, registerProcess: the new queue takes over what was
\* pending and the count of what did not fit (a process never has any).  On a closed
\* router, and for a scope that has a consumer, the caller gets an error and
\* returns without the deferred release.
register(c) ==
  LET s == scope[c] IN
  /\ pc[c] = "idle" /\ mu = "free" /\ ~closed /\ queues[s] = NoQueue
  /\ Len(objs) < MaxQueues
  /\ objs' = Append(objs, [buf |-> pending[s], dropped |-> pendingDropped[s], closed |-> FALSE])
  /\ queues' = [queues EXCEPT ![s] = Len(objs) + 1]
  /\ pending' = [pending EXCEPT ![s] = <<>>]
  /\ pendingDropped' = [pendingDropped EXCEPT ![s] = 0]
  /\ pc' = [pc EXCEPT ![c] = "active"]
  /\ released' = [released EXCEPT ![c] = FALSE]
  /\ UNCHANGED <<closed, closing, scope, at, rpc, channelVars, countVars>>

\* Where a session goes on an error or when its user stops: TurnHandle.Stream
\* clears the pending buffer first, the other turn and login sessions release at
\* once, a process handle stays open until its user closes it.
ExitLabels(s) ==
  IF s \in Turns THEN {"clear", "release"} ELSE IF s \in Logins THEN {"release"} ELSE {"active", "release"}

\* Where it goes when its turn, login or process completed.
DoneLabels(s) == IF s \in Procs THEN {"release"} ELSE {"clear"}

Leave(c, labels) ==
  /\ \E l \in labels : pc' = [pc EXCEPT ![c] = l]
  /\ at' = [at EXCEPT ![c] = NoQueue]

\* next, nextLogin, nextProcess, under r.mu: find the queue of the scope.
next(c) ==
  /\ pc[c] = "active" /\ mu = "free"
  /\ \/ /\ closed
        /\ Leave(c, ExitLabels(scope[c]) \ {"active"})
     \/ /\ ~closed /\ queues[scope[c]] = NoQueue
        /\ Leave(c, {"release"})
     \/ /\ ~closed /\ queues[scope[c]] # NoQueue
        /\ at' = [at EXCEPT ![c] = queues[scope[c]]]
        /\ pc' = [pc EXCEPT ![c] = "next"]
  /\ UNCHANGED <<closed, objs, closing, scope, released, rpc, channelVars, mapVars, countVars>>

\* History: n notifications of the scope's current queue were dealt with.
Account(c, n) ==
  seen' = IF at[c] = queues[scope[c]] THEN [seen EXCEPT ![scope[c]] = @ + n] ELSE seen

\* The queue's next reports drops; every session returns that error.
nextDropped(c) ==
  LET q == at[c] IN
  /\ pc[c] = "next" /\ objs[q].dropped > 0
  /\ objs' = [objs EXCEPT ![q] = [buf |-> objs[q].buf, dropped |-> 0, closed |-> objs[q].closed]]
  /\ Account(c, objs[q].dropped)
  /\ Leave(c, ExitLabels(scope[c]))
  /\ UNCHANGED <<closed, closing, scope, released, rpc, routed, channelVars, mapVars>>

\* The queue's next delivers; the session goes on, or this was the completion of
\* its turn, login or process, or the user stops.
nextPop(c) ==
  LET q == at[c] IN
  /\ pc[c] = "next" /\ objs[q].dropped = 0 /\ objs[q].buf # <<>>
  /\ objs' = [objs EXCEPT ![q] = [buf |-> Tail(objs[q].buf), dropped |-> objs[q].dropped, closed |-> objs[q].closed]]
  /\ Account(c, 1)
  /\ Leave(c, {"active"} \cup DoneLabels(scope[c]) \cup ExitLabels(scope[c]))
  /\ UNCHANGED <<closed, closing, scope, released, rpc, routed, channelVars, mapVars>>

\* The queue's next returns the error of close.
nextClosed(c) ==
  LET q == at[c] IN
  /\ pc[c] = "next" /\ objs[q].dropped = 0 /\ objs[q].buf = <<>> /\ objs[q].closed
  /\ Leave(c, ExitLabels(scope[c]) \ {"active"})
  /\ UNCHANGED <<closed, objs, closing, scope, released, rpc, channelVars, mapVars, countVars>>

\* The context of the session ends while its queue is empty.
nextCancel(c) ==
  LET q == at[c] IN
  /\ pc[c] = "next" /\ objs[q].dropped = 0 /\ objs[q].buf = <<>> /\ ~objs[q].closed
  /\ Leave(c, ExitLabels(scope[c]))
  /\ UNCHANGED <<closed, objs, closing, scope, released, rpc, channelVars, mapVars, countVars>>

\* clearPending deletes the pending notifications of a turn, clearLoginPending
\* also the count of the dropped ones.
clearPending(c) ==
  LET s == scope[c] IN
  /\ pc[c] = "clear" /\ mu = "free"
  /\ pending' = [pending EXCEPT ![s] = <<>>]
  /\ pendingDropped' = IF s \in Logins THEN [pendingDropped EXCEPT ![s] = 0] ELSE pendingDropped
  /\ pc' = [pc EXCEPT ![c] = "release"]
  /\ UNCHANGED <<closed, queues, objs, closing, scope, at, released, rpc, channelVars, countVars>>

\* The deletion in unregister, unregisterLogin and unregisterProcess gives up what
\* is unread; unregisterProcess closes the queue after it unlocks.
Abandon(s) ==
  /\ queues' = [queues EXCEPT ![s] = NoQueue]
  /\ seen' = IF queues[s] = NoQueue THEN seen ELSE [seen EXCEPT ![s] = routed[s]]
  /\ closing' = IF s \in Procs /\ queues[s] # NoQueue THEN closing \cup {<<queues[s], "handle">>} ELSE closing

\* The deferred release of a turn or login session, and release of a process
\* handle, which does nothing when it ran before.
unregister(c) ==
  /\ pc[c] = "release" /\ mu = "free"
  /\ IF released[c] THEN UNCHANGED <<queues, seen, closing>> ELSE Abandon(scope[c])
  /\ released' = [released EXCEPT ![c] = TRUE]
  /\ pc' = [pc EXCEPT ![c] = "idle"]
  /\ UNCHANGED <<closed, pending, pendingDropped, objs, scope, at, rpc, routed, channelVars>>

\* AppServerProcessHandle.Close by a goroutine other than the reading one.
handleClose(c) ==
  /\ scope[c] \in Procs /\ pc[c] \in {"active", "next"} /\ ~released[c] /\ mu = "free"
  /\ Abandon(scope[c])
  /\ released' = [released EXCEPT ![c] = TRUE]
  /\ UNCHANGED <<closed, pending, pendingDropped, objs, pc, scope, at, rpc, routed, channelVars>>

\* SpawnProcess gives up its registration when process/spawn fails.
spawnFails(c) ==
  /\ scope[c] \in Procs /\ pc[c] = "active"
  /\ pc' = [pc EXCEPT ![c] = "release"]
  /\ UNCHANGED <<closed, objs, closing, scope, at, released, rpc, channelVars, mapVars, countVars>>

-----------------------------------------------------------------------------
(* NextNotification *)

\* nextGlobal, under r.mu; on a closed router it returns at once.
nextGlobal(g) ==
  /\ rpc[g] = "idle" /\ mu = "free" /\ ~closed
  /\ rpc' = [rpc EXCEPT ![g] = "select"]
  /\ UNCHANGED <<closed, objs, closing, sessionVars, channelVars, mapVars, countVars>>

\* Its select: a notification, or the channel closed and drained, or the context.
globalReceive(g) ==
  /\ rpc[g] = "select" /\ global # <<>>
  /\ global' = Tail(global)
  /\ rpc' = [rpc EXCEPT ![g] = "idle"]
  /\ UNCHANGED <<closed, objs, closing, globalClosed, mu, groute, sessionVars, mapVars, countVars>>

globalEnd(g) ==
  /\ rpc[g] = "select" /\ global = <<>> /\ globalClosed
  /\ rpc' = [rpc EXCEPT ![g] = "idle"]
  /\ UNCHANGED <<closed, objs, closing, sessionVars, channelVars, mapVars, countVars>>

globalCancel(g) ==
  /\ rpc[g] = "select"
  /\ rpc' = [rpc EXCEPT ![g] = "idle"]
  /\ UNCHANGED <<closed, objs, closing, sessionVars, channelVars, mapVars, countVars>>

-----------------------------------------------------------------------------
SessionStep(c) ==
  \/ next(c) \/ nextDropped(c) \/ nextPop(c) \/ nextClosed(c) \/ clearPending(c) \/ unregister(c)

CloserStep == closeGlobal \/ \E x \in closing : closeQueue(x[1], x[2])

Next ==
  \/ \E s \in Scopes : routeQueue(s) \/ routePending(s)
  \/ routeGlobal \/ routeEvict \/ routeSend
  \/ close \/ CloserStep
  \/ \E c \in Sessions : register(c) \/ SessionStep(c) \/ nextCancel(c) \/ handleClose(c) \/ spawnFails(c)
  \/ \E g \in Readers : nextGlobal(g) \/ globalReceive(g) \/ globalEnd(g) \/ globalCancel(g)

Spec == Init /\ [][Next]_rvars

\* A goroutine that holds r.mu, closes the router or reads keeps running; nobody
\* has to open a session, to send, or to close.
FairSpec ==
  /\ Spec
  /\ WF_rvars(routeEvict) /\ WF_rvars(routeSend) /\ WF_rvars(CloserStep)
  /\ \A c \in Sessions : WF_rvars(SessionStep(c))
  /\ \A g \in Readers : WF_rvars(globalReceive(g) \/ globalEnd(g))

-----------------------------------------------------------------------------
(* Properties *)

\* What waits for a scope's consumer, and how much of it was lost: the active
\* queue or, before a consumer registers, the pending buffer.
Waiting(s) == IF queues[s] = NoQueue THEN pending[s] ELSE objs[queues[s]].buf
Lost(s) == IF queues[s] = NoQueue THEN pendingDropped[s] ELSE objs[queues[s]].dropped

\* Buffer b holds, in order, the last of n notifications, those after the sn that
\* were seen and the l that were lost.
Accounted(sn, l, b, n) ==
  /\ Len(b) <= Cap
  /\ sn + l + Len(b) = n
  /\ \A i \in 1 .. Len(b) : b[i] = sn + l + i

\* Until the router closes, every notification routed to a turn, login or process
\* consumer was delivered, reported as dropped, given up by a release, is counted
\* in the drop counter that the consumer will report next, or waits in order in a
\* buffer of bounded length: handing the pending buffer over in register loses and
\* repeats nothing, and an overflow is never silent.
ScopeAccounting ==
  ~closed => \A s \in Scopes : Accounted(seen[s], Lost(s), Waiting(s), routed[s])

\* A scope with a consumer has nothing pending, so no notification of a turn or
\* login can overtake an older one that still waits in the pending buffer.
NothingPendingBehindConsumer ==
  \A s \in Scopes : queues[s] # NoQueue => pending[s] = <<>> /\ pendingDropped[s] = 0

\* At most one session consumes a turn or login at a time, and until the router
\* closes it keeps its registration for as long as it runs: the loser of a
\* registration conflict does not release what the winner holds.
OneConsumer ==
  \A c \in Sessions : pc[c] # "idle" /\ scope[c] \notin Procs =>
    /\ closed \/ queues[scope[c]] # NoQueue
    /\ \A d \in Sessions \ {c} : scope[d] = scope[c] => pc[d] = "idle"

\* A queue that can still be found by its scope is open and serves one scope only,
\* whatever unregisterProcess and close do to the queues they took out.
RegisteredQueueOpen ==
  \A s \in Scopes : queues[s] # NoQueue =>
    /\ ~objs[queues[s]].closed /\ \A x \in closing : x[1] # queues[s]
    /\ \A r \in Scopes \ {s} : queues[r] # queues[s]

\* The "paranoid guard" of the global route: after the eviction the send finds
\* room, whatever the readers did in between, and the newest notification is in the
\* channel or was read; what is left is the newest, in order.
GlobalKeepsNewest ==
  /\ mu = "send" => Len(global) < Cap
  /\ \A i \in 1 .. Len(global) : global[i] = groute - (IF mu = "free" THEN 0 ELSE 1) - Len(global) + i

\* Once the router is closed, every consumer and every reader of the global channel
\* returns, also those that were about to look up or to wait on their queue.
CloseReleasesAll ==
  closed ~> /\ \A c \in Sessions : pc[c] = "idle"
            /\ \A g \in Readers : rpc[g] = "idle"

\* A process handle that another goroutine closes does not leave its reader asleep
\* on the queue that was taken out of the router.
HandleCloseWakes ==
  \A c \in Sessions :
    (pc[c] = "next" /\ scope[c] \in Procs /\ at[c] # queues[scope[c]]) ~> pc[c] # "next"

\* A consumer is released by whatever takes its queue away, a handle that is closed or the
\* end of the router, wherever it is between its look at the queue and its sleep.
ConsumersReleased == HandleCloseWakes /\ CloseReleasesAll

\* "NextNotification() after Close error = %v, want process consumer closed/not
\* active" (process_test.go): a closed handle takes no notification out of the queue
\* that is registered now.
ClosedHandleConsumesNothing ==
  [][\A c \in Sessions : released[c] /\ pc[c] = "next" /\ nextPop(c) => at[c] # queues[scope[c]]]_rvars
=============================================================================
