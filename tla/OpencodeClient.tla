--------------------------- MODULE OpencodeClient ---------------------------
(***************************************************************************)
(* opencode.Client (pkg/llm/opencode/client.go, server_process.go, the      *)
(* session entry points of api.go and ensureBus of event_routing.go): the   *)
(* spawned `opencode serve` child, the one-active-turn slot per session,    *)
(* tracked goroutines and the order in which Close takes them down.         *)
(*                                                                         *)
(* Every critical section under c.mu is one step; Start in particular       *)
(* checks the client, spawns without the lock, and installs the child in a  *)
(* second critical section.  The event bus is seen through what OpencodeBus *)
(* establishes: dial succeeds on a connected bus or fails on a closed one.  *)
(* Children and the HTTP server are external.                               *)
(***************************************************************************)
EXTENDS Integers, FiniteSets

CONSTANTS
  OcStarters,   \* goroutines that call Start once
  OcClosers,    \* goroutines that call Close once
  OcUsers,      \* goroutines that call Session.Run or Session.Turn once
  OcSessions,   \* session ids
  OcMaxBuses    \* bound: buses ever created

VARIABLES
  oc,       \* Client: closed, started (baseURL), proc, bus, activeTurns, lifetime, turnWG
  ocStart,  \* Start: where each caller is, the child it spawned, its fallback attempts
  ocClose,  \* Close: where each caller is, and the proc and the bus it captured
  ocUser,   \* Run and Turn: where each caller is, on which session, on which bus
  ocChild,  \* the state of each child process
  ocBus,    \* the state of each bus ever created
  ocRaced   \* history: a Start was under way when Close or another Start came

ocVars == <<oc, ocStart, ocClose, ocUser, ocChild, ocBus, ocRaced>>

portFallbackAttempts == 3
NoChild == <<>>
\* A Start spawns at most the announcing child and the one on a fallback port.
OcChildren == OcStarters \X {1, 2}
OcCallers == OcClosers \cup OcStarters  \* a Start whose server is not healthy calls Close
StartDone == {"idle", "ok", "err"}
OcStarting == {a \in OcStarters : ocStart[a].pc \notin StartDone}
OcRunning == {p \in OcChildren : ocChild[p] \in {"running", "signaled"}}

\* The client, its children, buses and callers keep their types.
OcTypeOK ==
  /\ oc.closed \in BOOLEAN /\ oc.started \in BOOLEAN /\ oc.lifetime \in BOOLEAN
  /\ oc.proc \in OcChildren \cup {NoChild} /\ oc.bus \in 0..OcMaxBuses
  /\ oc.turns \subseteq OcSessions /\ oc.wg \in 0..(2 * Cardinality(OcUsers))
  /\ \A a \in OcStarters :
       /\ ocStart[a].pc \in {"idle", "spawn", "announce", "abandon", "fallback", "install",
                             "health", "closing", "ok", "err"}
       /\ ocStart[a].tries \in 0..portFallbackAttempts
       /\ ocStart[a].child \in OcChildren \cup {NoChild}
  /\ \A c \in OcCallers : /\ ocClose[c].pc \in {"idle", "cancel", "reap", "terminate", "done"}
                          /\ ocClose[c].proc \in OcChildren \cup {NoChild}
                          /\ ocClose[c].bus \in 0..OcMaxBuses
  /\ \A u \in OcUsers :
       /\ ocUser[u].pc \in {"idle", "bus", "dial", "begin", "subscribe", "go", "prompt", "end", "done"}
       /\ ocUser[u].kind \in {"run", "turn"} /\ ocUser[u].session \in OcSessions
       /\ ocUser[u].bus \in 0..OcMaxBuses
       /\ ocUser[u].tracked \in BOOLEAN /\ ocUser[u].aborting \in BOOLEAN
  /\ ocChild \in [OcChildren -> {"none", "running", "signaled", "exited"}]
  /\ ocBus \in [1..OcMaxBuses -> {"none", "open", "closed"}]
  /\ ocRaced \in BOOLEAN

\* NewClient; remote: NewRemoteClient, attached to a running server.
OcInit(remote) ==
  /\ oc = [closed |-> FALSE, started |-> remote, lifetime |-> TRUE, proc |-> NoChild, bus |-> 0,
           turns |-> {}, wg |-> 0]
  /\ ocStart = [a \in OcStarters |-> [pc |-> "idle", child |-> NoChild, tries |-> 0]]
  /\ ocClose = [c \in OcCallers |-> [pc |-> "idle", proc |-> NoChild, bus |-> 0]]
  /\ ocUser \in [OcUsers -> [pc : {"idle"}, kind : {"run", "turn"}, session : OcSessions,
                             bus : {0}, tracked : {FALSE}, aborting : {FALSE}]]
  /\ ocChild = [p \in OcChildren |-> "none"]
  /\ ocBus = [b \in 1..OcMaxBuses |-> "none"]
  /\ ocRaced = FALSE

OcStartAt(a, label) == ocStart' = [ocStart EXCEPT ![a].pc = label]
OcUserAt(u, label) == ocUser' = [ocUser EXCEPT ![u].pc = label]
-----------------------------------------------------------------------------
(* Start and the child process.                                             *)

\* The first critical section of Start: refused when closed or started.
OcStartCheck(a) ==
  /\ ocStart[a].pc = "idle"
  /\ OcStartAt(a, IF oc.closed \/ oc.started THEN "err" ELSE "spawn")
  /\ ocRaced' = (ocRaced \/ (~oc.closed /\ ~oc.started /\ OcStarting # {}))
  /\ UNCHANGED <<oc, ocClose, ocUser, ocChild, ocBus>>

\* spawnServer: cmd.Start fails, or the child runs and, on port 0, its
\* announce line is awaited; an explicit port needs none.
OcSpawn(a) ==
  /\ ocStart[a].pc = "spawn"
  /\ \/ OcStartAt(a, "err") /\ UNCHANGED ocChild
     \/ /\ \E label \in {"announce", "install"} :
             ocStart' = [ocStart EXCEPT ![a].pc = label, ![a].child = <<a, 1>>]
        /\ ocChild' = [ocChild EXCEPT ![<<a, 1>>] = "running"]
  /\ UNCHANGED <<oc, ocClose, ocUser, ocBus, ocRaced>>

\* The announce line arrives; or the timer or the ctx ends the wait, and the
\* child is closed before spawnServer returns.
OcAnnounce(a) ==
  /\ ocStart[a].pc = "announce"
  /\ \/ OcStartAt(a, "install") /\ UNCHANGED ocChild
     \/ OcStartAt(a, "abandon") /\ ocChild' = [ocChild EXCEPT ![ocStart[a].child] = "signaled"]
  /\ UNCHANGED <<oc, ocClose, ocUser, ocBus, ocRaced>>

\* proc.Close is through: with the announce line timed out an explicit port is
\* tried, with the ctx ended Start fails.
OcAbandoned(a) ==
  /\ ocStart[a].pc = "abandon" /\ ocChild[ocStart[a].child] = "exited"
  /\ \E label \in {"fallback", "err"} :
       ocStart' = [ocStart EXCEPT ![a].child = NoChild, ![a].pc = label]
  /\ UNCHANGED <<oc, ocClose, ocUser, ocChild, ocBus, ocRaced>>

\* One round of the fallback: no port or no attempt left, a failed spawn that
\* is tried again, or a child on the reserved port, whose readiness only the
\* health poll will tell.
OcFallback(a) ==
  /\ ocStart[a].pc = "fallback"
  /\ \/ OcStartAt(a, "err") /\ UNCHANGED ocChild
     \/ /\ ocStart[a].tries < portFallbackAttempts
        /\ ocStart' = [ocStart EXCEPT ![a].tries = @ + 1]
        /\ UNCHANGED ocChild
     \/ /\ ocStart[a].tries < portFallbackAttempts
        /\ ocStart' = [ocStart EXCEPT ![a].pc = "install", ![a].child = <<a, 2>>]
        /\ ocChild' = [ocChild EXCEPT ![<<a, 2>>] = "running"]
  /\ UNCHANGED <<oc, ocClose, ocUser, ocBus, ocRaced>>

\* The second critical section of Start: c.proc and c.baseURL.
OcInstall(a) ==
  /\ ocStart[a].pc = "install"
  /\ oc' = [oc EXCEPT !.proc = ocStart[a].child, !.started = TRUE]
  /\ OcStartAt(a, "health")
  /\ UNCHANGED <<ocClose, ocUser, ocChild, ocBus, ocRaced>>

\* waitHealthy: a Health request succeeds, which a closed client never sends;
\* or the health deadline passes and Start closes the client.
OcHealth(a) ==
  /\ ocStart[a].pc = "health"
  /\ \/ ~oc.closed /\ ocChild[ocStart[a].child] = "running" /\ OcStartAt(a, "ok")
     \/ OcStartAt(a, "closing")
  /\ UNCHANGED <<oc, ocClose, ocUser, ocChild, ocBus, ocRaced>>

OcStartClosed(a) ==
  /\ ocStart[a].pc = "closing" /\ ocClose[a].pc = "done"
  /\ OcStartAt(a, "err")
  /\ UNCHANGED <<oc, ocClose, ocUser, ocChild, ocBus, ocRaced>>

\* External: a child exits by itself, on SIGTERM, or on the SIGKILL that
\* TerminateCommand sends when the grace period is over.
OcChildExits(p) ==
  /\ ocChild[p] \in {"running", "signaled"}
  /\ ocChild' = [ocChild EXCEPT ![p] = "exited"]
  /\ UNCHANGED <<oc, ocStart, ocClose, ocUser, ocBus, ocRaced>>

-----------------------------------------------------------------------------
(* Close.                                                                   *)

\* A closer calls Close, or a Start whose server did not become healthy does.
\* The first one marks the client and captures the bus and the child.
OcCloseMark(c) ==
  /\ ocClose[c].pc = "idle"
  /\ c \in OcStarters => ocStart[c].pc = "closing"
  /\ IF oc.closed
     THEN ocClose' = [ocClose EXCEPT ![c].pc = "done"] /\ UNCHANGED <<oc, ocRaced>>
     ELSE /\ oc' = [oc EXCEPT !.closed = TRUE]
          /\ ocClose' = [ocClose EXCEPT ![c].pc = "cancel", ![c].proc = oc.proc, ![c].bus = oc.bus]
          /\ ocRaced' = (ocRaced \/ OcStarting \ {c} # {})
  /\ UNCHANGED <<ocStart, ocUser, ocChild, ocBus>>

\* Mutated form: the bus is left to the garbage collector.
OcCloseCancelOnly(c) ==
  /\ ocClose[c].pc = "cancel"
  /\ oc' = [oc EXCEPT !.lifetime = FALSE]
  /\ ocClose' = [ocClose EXCEPT ![c].pc = "reap"]
  /\ UNCHANGED <<ocStart, ocUser, ocChild, ocBus, ocRaced>>

\* Mutated form: the client lifetime is not canceled.
OcCloseCancelNever(c) ==
  /\ ocClose[c].pc = "cancel"
  /\ ocBus' = IF ocClose[c].bus = 0 THEN ocBus ELSE [ocBus EXCEPT ![ocClose[c].bus] = "closed"]
  /\ ocClose' = [ocClose EXCEPT ![c].pc = "reap"]
  /\ UNCHANGED <<oc, ocStart, ocUser, ocChild, ocRaced>>

\* lifetimeCancel, then bus.close on the captured bus.
OcCloseCancel(c) ==
  /\ ocClose[c].pc = "cancel"
  /\ oc' = [oc EXCEPT !.lifetime = FALSE]
  /\ ocBus' = IF ocClose[c].bus = 0 THEN ocBus ELSE [ocBus EXCEPT ![ocClose[c].bus] = "closed"]
  /\ ocClose' = [ocClose EXCEPT ![c].pc = "reap"]
  /\ UNCHANGED <<ocStart, ocUser, ocChild, ocRaced>>

\* turnWG.Wait returns or the reap timeout passes; then proc.Close signals the
\* captured child.
OcCloseReap(c) ==
  /\ ocClose[c].pc = "reap"
  /\ LET p == ocClose[c].proc IN
     /\ ocClose' = [ocClose EXCEPT ![c].pc = IF p = NoChild THEN "done" ELSE "terminate"]
     /\ ocChild' = IF p # NoChild /\ ocChild[p] = "running"
                   THEN [ocChild EXCEPT ![p] = "signaled"] ELSE ocChild
  /\ UNCHANGED <<oc, ocStart, ocUser, ocBus, ocRaced>>

\* TerminateCommand returns when the child is reaped.
OcCloseReturns(c) ==
  /\ ocClose[c].pc = "terminate" /\ ocChild[ocClose[c].proc] = "exited"
  /\ ocClose' = [ocClose EXCEPT ![c].pc = "done"]
  /\ UNCHANGED <<oc, ocStart, ocUser, ocChild, ocBus, ocRaced>>
-----------------------------------------------------------------------------
(* Session.Run and Session.Turn.                                            *)

\* A caller comes in; Turn goes through ensureBus first.
OcEnter(u) ==
  /\ ocUser[u].pc = "idle" /\ oc.started
  /\ OcUserAt(u, IF ocUser[u].kind = "turn" THEN "bus" ELSE "begin")
  /\ UNCHANGED <<oc, ocStart, ocClose, ocChild, ocBus, ocRaced>>

\* ensureBus, first critical section: refused when closed, else the shared
\* bus, created on first use.
OcEnsureBus(u) ==
  /\ ocUser[u].pc = "bus"
  /\ \/ oc.closed /\ OcUserAt(u, "done") /\ UNCHANGED <<oc, ocBus>>
     \/ /\ ~oc.closed /\ oc.bus # 0
        /\ ocUser' = [ocUser EXCEPT ![u].pc = "dial", ![u].bus = oc.bus]
        /\ UNCHANGED <<oc, ocBus>>
     \/ \E b \in 1..OcMaxBuses :
          /\ ~oc.closed /\ oc.bus = 0 /\ ocBus[b] = "none" /\ \A d \in 1..(b - 1) : ocBus[d] # "none"
          /\ oc' = [oc EXCEPT !.bus = b]
          /\ ocBus' = [ocBus EXCEPT ![b] = "open"]
          /\ ocUser' = [ocUser EXCEPT ![u].pc = "dial", ![u].bus = b]
  /\ UNCHANGED <<ocStart, ocClose, ocChild, ocRaced>>

\* bus.dial: it succeeds, or it fails, which closes the bus, and ensureBus
\* forgets the bus if c.bus is still that one.
OcDial(u) ==
  LET b == ocUser[u].bus IN
  /\ ocUser[u].pc = "dial"
  /\ \/ OcUserAt(u, "begin") /\ UNCHANGED <<oc, ocBus>>
     \/ /\ OcUserAt(u, "done")
        /\ ocBus' = [ocBus EXCEPT ![b] = "closed"]
        /\ oc' = IF oc.bus = b THEN [oc EXCEPT !.bus = 0] ELSE oc
  /\ UNCHANGED <<ocStart, ocClose, ocChild, ocRaced>>

\* beginTurn: refused when closed or when the session's slot is taken.
OcBeginTurn(u) ==
  LET s == ocUser[u].session IN
  /\ ocUser[u].pc = "begin"
  /\ IF oc.closed \/ s \in oc.turns THEN OcUserAt(u, "done") /\ UNCHANGED oc
     ELSE /\ OcUserAt(u, IF ocUser[u].kind = "turn" THEN "subscribe" ELSE "prompt")
          /\ oc' = [oc EXCEPT !.turns = @ \cup {s}]
  /\ UNCHANGED <<ocStart, ocClose, ocChild, ocBus, ocRaced>>

\* Turn subscribes to its bus; a closed one refuses and the slot is released.
OcSubscribe(u) ==
  /\ ocUser[u].pc = "subscribe"
  /\ OcUserAt(u, IF ocBus[ocUser[u].bus] = "closed" THEN "end" ELSE "go")
  /\ UNCHANGED <<oc, ocStart, ocClose, ocChild, ocBus, ocRaced>>

\* goWork: the prompt goroutine is tracked, or refused by a closing client.
OcGoWork(u) ==
  /\ ocUser[u].pc = "go"
  /\ IF oc.closed THEN OcUserAt(u, "end") /\ UNCHANGED oc
     ELSE /\ ocUser' = [ocUser EXCEPT ![u].pc = "prompt", ![u].tracked = TRUE]
          /\ oc' = [oc EXCEPT !.wg = @ + 1]
  /\ UNCHANGED <<ocStart, ocClose, ocChild, ocBus, ocRaced>>

\* The blocking prompt returns, answered or failed.  A Run whose own ctx ended
\* hands a best-effort Abort to goWork, unless the client is closing.
OcPromptReturns(u) ==
  /\ ocUser[u].pc = "prompt"
  /\ \/ OcUserAt(u, "end") /\ UNCHANGED oc
     \/ /\ ocUser[u].kind = "run" /\ oc.lifetime /\ ~oc.closed
        /\ ocUser' = [ocUser EXCEPT ![u].pc = "end", ![u].aborting = TRUE]
        /\ oc' = [oc EXCEPT !.wg = @ + 1]
  /\ UNCHANGED <<ocStart, ocClose, ocChild, ocBus, ocRaced>>

\* The abort request returns, at the latest on its timeout.
OcAbortReturns(u) ==
  /\ ocUser[u].aborting
  /\ ocUser' = [ocUser EXCEPT ![u].aborting = FALSE]
  /\ oc' = [oc EXCEPT !.wg = @ - 1]
  /\ UNCHANGED <<ocStart, ocClose, ocChild, ocBus, ocRaced>>

\* endTurn; with it a turn's tracked goroutine is done.
OcEndTurn(u) ==
  /\ ocUser[u].pc = "end"
  /\ oc' = [oc EXCEPT !.turns = @ \ {ocUser[u].session},
                      !.wg = @ - (IF ocUser[u].tracked THEN 1 ELSE 0)]
  /\ ocUser' = [ocUser EXCEPT ![u].pc = "done", ![u].tracked = FALSE]
  /\ UNCHANGED <<ocStart, ocClose, ocChild, ocBus, ocRaced>>

-----------------------------------------------------------------------------
OcStartStep(a) ==
  \/ OcSpawn(a) \/ OcAnnounce(a) \/ OcAbandoned(a) \/ OcFallback(a)
  \/ OcInstall(a) \/ OcHealth(a) \/ OcStartClosed(a)

OcCloseStep(c) == OcCloseCancel(c) \/ OcCloseReap(c) \/ OcCloseReturns(c)

\* The steps of a caller that do not wait for the server.
OcUserStep(u) ==
  \/ OcEnsureBus(u) \/ OcDial(u) \/ OcBeginTurn(u) \/ OcSubscribe(u) \/ OcGoWork(u)
  \/ OcEndTurn(u) \/ OcAbortReturns(u)

\* A turn's prompt is bound to the client lifetime, a Run's is not.
OcPromptCanceled(u) == ~oc.lifetime /\ ocUser[u].kind = "turn" /\ OcPromptReturns(u)

OcNext ==
  \/ \E a \in OcStarters : OcStartCheck(a) \/ OcStartStep(a)
  \/ \E c \in OcCallers : OcCloseMark(c) \/ OcCloseStep(c)
  \/ \E u \in OcUsers : OcEnter(u) \/ OcUserStep(u) \/ OcPromptReturns(u)
  \/ \E p \in OcChildren : OcChildExits(p)

OcSpec == OcInit(FALSE) /\ [][OcNext]_ocVars

\* Goroutines keep running, bounded waits end, a Start that must close the
\* client does, and a signaled child dies, on SIGKILL at the latest.
OcFairness ==
  /\ \A a \in OcStarters : WF_ocVars(OcStartStep(a)) /\ WF_ocVars(OcCloseMark(a))
  /\ \A c \in OcCallers : WF_ocVars(OcCloseStep(c))
  /\ \A u \in OcUsers : WF_ocVars(OcUserStep(u)) /\ WF_ocVars(OcPromptCanceled(u))
  /\ \A p \in OcChildren : WF_ocVars(ocChild[p] = "signaled" /\ OcChildExits(p))

-----------------------------------------------------------------------------
\* The Close that did the work has returned, and no Start is under way.
OcSettled == OcStarting = {} /\ \E c \in OcCallers : ocClose[c].pc = "done" /\ oc.closed
             /\ \A d \in OcCallers : ocClose[d].pc \in {"idle", "done"}

\* "Close shuts down the client and terminates the spawned server, if any"
\* (api.go): once Close has returned and no Start is under way, no child runs.
OcServerTerminated == OcSettled => OcRunning = {}

\* Close terminates the spawned server, and a Start that fails leaves no child,
\* provided that no Start was under way when Close or another Start came in.
OcNoOrphan ==
  ~ocRaced => /\ OcServerTerminated
              /\ \A a \in OcStarters : ocStart[a].pc \in {"err", "fallback"} => ocStart[a].child \notin OcRunning
              /\ Cardinality(OcRunning) <= 1

\* One active turn per session: two prompt requests of one session are never
\* in flight together, whichever of Run and Turn they come from.
OcOnePrompt ==
  \A u, v \in OcUsers : u # v /\ ocUser[u].pc = "prompt" /\ ocUser[v].pc = "prompt"
                         => ocUser[u].session # ocUser[v].session

\* A slot is held exactly by a caller between beginTurn and endTurn: an early
\* return, a refused goroutine or a failed prompt never leaves it taken.
OcSlotHeld ==
  \A s \in OcSessions :
    s \in oc.turns <=> \E u \in OcUsers : /\ ocUser[u].session = s
                                       /\ ocUser[u].pc \in {"subscribe", "go", "prompt", "end"}

\* Once Close has returned every bus that was ever created is closed, also one
\* that a concurrent ensureBus created, dialed or dropped.
OcBusesClosed ==
  (\E c \in OcCallers : ocClose[c].pc \in {"reap", "terminate"}) => \A b \in 1..OcMaxBuses : ocBus[b] # "open"

\* Close leaves nothing behind: no bus that was ever made, however ensureBus raced with it,
\* and no server, unless Close met a Start under way.
OcNothingLeft == OcBusesClosed /\ OcNoOrphan

\* goWork orders every WaitGroup Add before the Wait of Close: the counter
\* never grows once the client is marked closed.
OcAddBeforeWait == [][oc.closed => oc.wg' <= oc.wg]_ocVars

\* Close and Start return, whatever they run into.
OcCallsReturn ==
  /\ \A c \in OcCallers : ocClose[c].pc = "cancel" ~> ocClose[c].pc = "done"
  /\ \A a \in OcStarters : ocStart[a].pc = "spawn" ~> ocStart[a].pc \in StartDone

\* Close ends every asynchronous turn: its prompt goroutine gives the slot back.
OcTurnsEnd ==
  \A u \in OcUsers : (oc.closed /\ ocUser[u].kind = "turn" /\ ocUser[u].pc # "idle") ~> ocUser[u].pc = "done"

\* Start and Close return, and Close ends the turns.
OcEverybodyReturns == OcCallsReturn /\ OcTurnsEnd
=============================================================================
