---------------------------- MODULE RemoteLaunch ----------------------------
(***************************************************************************)
(* RemoteAppServer (pkg/llm/codex/remote_launch.go): LaunchRemoteAppServer   *)
(* with its readiness probes, StartCodex calls that attach children, the     *)
(* goroutines that own each child's Wait and take it off the list, and Close. *)
(*                                                                         *)
(* A child runs until it chooses to exit, or is killed.  An interrupt asks it *)
(* to exit and it may ignore that.  Socket files and ports are one resource:  *)
(* what a dial finds there, which another process may own before the launch.  *)
(***************************************************************************)
EXTENDS Naturals, Sequences, FiniteSets, SequencesExt

CONSTANTS
  RlKids,       \* children that StartCodex calls attach
  RlMaxDials    \* remoteReadyAttemptLimit

ASSUME RlAssumption == RlMaxDials \in Nat \ {0}

RlServer == "server"
RlChildren == RlKids \cup {RlServer}

VARIABLES
  rlProc,     \* each child: none, running, asked to exit, exited, or waited for
  rlLaunch,   \* where LaunchRemoteAppServer is
  rlDials,    \* its attempts
  rlLate,     \* the ready context is done
  rlListens,  \* the server child listens at the endpoint
  rlTaken,    \* another process listens there
  rlClosed,   \* closed
  rlAttached, \* attached
  rlStart,    \* what each StartCodex call returned
  rlReap,     \* the reapAttached goroutines that run
  rlTarget,   \* the child terminateTracked is busy with
  rlStage,    \* how far it is
  rlTodo,     \* Close's copy of attached, what is left of it
  rlCl,       \* where Close is
  rlUnix,     \* the endpoint is a socket at a path of the caller's
  rlSocket    \* its file exists

rlTerm == <<rlTarget, rlStage>>
rlDial == <<rlLaunch, rlDials, rlLate>>
rlList == <<rlClosed, rlAttached, rlStart, rlReap>>
rlClose == <<rlTodo, rlCl>>
rlNet == <<rlListens, rlTaken, rlUnix, rlSocket>>
rlVars == <<rlProc, rlDial, rlList, rlTerm, rlClose, rlNet>>

\* The server, its children and the calls keep their types.
RlTypeOK ==
  /\ rlProc \in [RlChildren -> {"none", "running", "asked", "exited", "waited"}]
  /\ rlLaunch \in {"idle", "probe", "dial", "backoff", "terminate", "ready", "failed"}
  /\ rlDials \in 0..RlMaxDials
  /\ {rlLate, rlListens, rlTaken, rlClosed, rlUnix, rlSocket} \subseteq BOOLEAN
  /\ rlAttached \in Seq(RlKids) /\ rlTodo \in Seq(RlKids)
  /\ rlStart \in [RlKids -> {"none", "started", "refused"}]
  /\ rlReap \subseteq RlKids
  /\ rlTarget \in RlChildren \cup {"nobody"} /\ rlStage \in {"none", "wait", "killed"}
  /\ rlCl \in {"idle", "kids", "server", "socket", "done"}

RlInit ==
  /\ rlProc = [p \in RlChildren |-> "none"]
  /\ rlLaunch = "idle" /\ rlDials = 0 /\ rlLate = FALSE
  /\ rlListens = FALSE /\ rlTaken \in BOOLEAN /\ rlUnix \in BOOLEAN /\ rlSocket = FALSE
  /\ rlClosed = FALSE /\ rlAttached = <<>> /\ rlReap = {}
  /\ rlStart = [k \in RlKids |-> "none"]
  /\ rlTarget = "nobody" /\ rlStage = "none"
  /\ rlTodo = <<>> /\ rlCl = "idle"

RlAlive(p) == rlProc[p] \in {"running", "asked"}
RlSet(p, to) == rlProc' = [rlProc EXCEPT ![p] = to]

-----------------------------------------------------------------------------
(* The children, and the goroutine of trackCommand that waits for each.      *)
RlListen ==
  /\ RlAlive(RlServer) /\ ~rlTaken /\ ~rlListens
  /\ rlListens' = TRUE /\ rlSocket' = rlUnix
  /\ UNCHANGED <<rlProc, rlDial, rlList, rlTerm, rlClose, rlTaken, rlUnix>>

RlExit(p) ==
  /\ RlAlive(p) /\ RlSet(p, "exited")
  /\ rlListens' = (rlListens /\ p # RlServer)
  /\ UNCHANGED <<rlDial, rlList, rlTerm, rlClose, rlTaken, rlUnix, rlSocket>>

\* Cmd.Wait returns: done is closed.
RlWaited(p) ==
  /\ rlProc[p] = "exited" /\ RlSet(p, "waited")
  /\ UNCHANGED <<rlDial, rlList, rlTerm, rlClose, rlNet>>

\* The context a child was started with ends: Cancel interrupts it, and WaitDelay later
\* it is killed.
RlContextEnds(p) ==
  /\ rlProc[p] = "running" /\ RlSet(p, "asked")
  /\ UNCHANGED <<rlDial, rlList, rlTerm, rlClose, rlNet>>

-----------------------------------------------------------------------------
(* terminateTracked.                                                         *)

\* Begin with p: interrupt it, unless it is gone.
RlTerminate(p) ==
  /\ rlTarget' = p /\ rlStage' = "wait"
  /\ rlProc' = IF rlProc[p] = "running" THEN [rlProc EXCEPT ![p] = "asked"] ELSE rlProc

\* It has ended: done is closed.
RlTerminated == rlTarget # "nobody" /\ rlProc[rlTarget] = "waited"

\* Mutated form of RlKill: one more interrupt.
RlKillPolitely ==
  /\ rlStage = "wait" /\ rlProc[rlTarget] # "waited"
  /\ rlStage' = "killed"
  /\ UNCHANGED <<rlProc, rlDial, rlList, rlTarget, rlClose, rlNet>>

\* The grace is over: kill.
RlKill ==
  /\ rlStage = "wait" /\ rlProc[rlTarget] # "waited"
  /\ rlStage' = "killed"
  /\ rlProc' = IF RlAlive(rlTarget) THEN [rlProc EXCEPT ![rlTarget] = "exited"] ELSE rlProc
  /\ rlListens' = (rlListens /\ ~(RlAlive(rlTarget) /\ rlTarget = RlServer))
  /\ UNCHANGED <<rlDial, rlList, rlTarget, rlClose, rlTaken, rlUnix, rlSocket>>

-----------------------------------------------------------------------------
(* LaunchRemoteAppServer.                                                    *)
RlStarts ==
  /\ rlLaunch = "idle"
  /\ rlLaunch' = "probe" /\ RlSet(RlServer, "running")
  /\ UNCHANGED <<rlDials, rlLate, rlList, rlTerm, rlClose, rlNet>>

RlTimeout ==
  /\ rlLaunch \in {"probe", "dial", "backoff"} /\ ~rlLate
  /\ rlLate' = TRUE
  /\ UNCHANGED <<rlProc, rlLaunch, rlDials, rlList, rlTerm, rlClose, rlNet>>

\* The launch fails: the child is terminated first.
RlFails == rlLaunch' = "terminate" /\ RlTerminate(RlServer)

\* Top of the loop: a child that has exited and a context that is done end it.
RlProbe ==
  /\ rlLaunch = "probe"
  /\ IF rlProc[RlServer] = "waited" \/ rlLate THEN RlFails
     ELSE rlLaunch' = "dial" /\ UNCHANGED <<rlProc, rlTerm>>
  /\ UNCHANGED <<rlDials, rlLate, rlList, rlClose, rlNet>>

RlDialed ==
  /\ rlLaunch = "dial" /\ rlDials' = rlDials + 1
  /\ \/ /\ (rlListens \/ rlTaken) /\ ~rlLate
        /\ rlLaunch' = "ready" /\ UNCHANGED <<rlProc, rlTerm>>
     \/ /\ ~(rlListens \/ rlTaken) \/ rlLate
        /\ IF rlDials' = RlMaxDials THEN RlFails
           ELSE rlLaunch' = "backoff" /\ UNCHANGED <<rlProc, rlTerm>>
  /\ UNCHANGED <<rlLate, rlList, rlClose, rlNet>>

\* select among the context, the child's exit and the timer.
RlBackoff ==
  /\ rlLaunch = "backoff"
  /\ \/ (rlLate \/ rlProc[RlServer] = "waited") /\ RlFails
     \/ rlLaunch' = "probe" /\ UNCHANGED <<rlProc, rlTerm>>
  /\ UNCHANGED <<rlDials, rlLate, rlList, rlClose, rlNet>>

\* Terminated, and stderr read to its end, which the exit brings.
RlFailed ==
  /\ rlLaunch = "terminate" /\ RlTerminated
  /\ rlLaunch' = "failed" /\ rlTarget' = "nobody" /\ rlStage' = "none"
  /\ UNCHANGED <<rlProc, rlDials, rlLate, rlList, rlClose, rlNet>>

-----------------------------------------------------------------------------
(* StartCodexWithCmd and reapAttached.                                       *)

\* Mutated form of RlStartCodex: closed is not looked at.
RlStartCodexAlways(k) ==
  /\ rlLaunch = "ready" /\ rlStart[k] = "none"
  /\ rlStart' = [rlStart EXCEPT ![k] = "started"]
  /\ rlAttached' = Append(rlAttached, k)
  /\ rlReap' = rlReap \cup {k} /\ RlSet(k, "running")
  /\ UNCHANGED <<rlDial, rlClosed, rlTerm, rlClose, rlNet>>

\* Start and list under mu; refused once closed.
RlStartCodex(k) ==
  /\ rlLaunch = "ready" /\ rlStart[k] = "none"
  /\ IF rlClosed
     THEN rlStart' = [rlStart EXCEPT ![k] = "refused"] /\ UNCHANGED <<rlAttached, rlReap, rlProc>>
     ELSE /\ rlStart' = [rlStart EXCEPT ![k] = "started"]
          /\ rlAttached' = Append(rlAttached, k)
          /\ rlReap' = rlReap \cup {k} /\ RlSet(k, "running")
  /\ UNCHANGED <<rlDial, rlClosed, rlTerm, rlClose, rlNet>>

RlReaped(k) ==
  /\ k \in rlReap /\ rlProc[k] = "waited"
  /\ rlReap' = rlReap \ {k}
  /\ rlAttached' = Remove(rlAttached, k)
  /\ UNCHANGED <<rlProc, rlDial, rlClosed, rlStart, rlTerm, rlClose, rlNet>>

-----------------------------------------------------------------------------
(* Close.                                                                    *)

\* Closed, and the list copied, under mu.
RlClose ==
  /\ rlLaunch = "ready" /\ rlCl = "idle"
  /\ rlClosed' = TRUE /\ rlTodo' = rlAttached /\ rlAttached' = <<>>
  /\ rlCl' = "kids"
  /\ UNCHANGED <<rlProc, rlDial, rlStart, rlReap, rlTerm, rlNet>>

\* One attached child after the other, then the server.
RlCloseNext ==
  /\ rlCl = "kids" /\ (rlTarget = "nobody" \/ RlTerminated)
  /\ IF rlTodo # <<>>
     THEN RlTerminate(Head(rlTodo)) /\ rlTodo' = Tail(rlTodo) /\ UNCHANGED rlCl
     ELSE RlTerminate(RlServer) /\ rlCl' = "server" /\ UNCHANGED rlTodo
  /\ UNCHANGED <<rlDial, rlList, rlNet>>

RlCloseServer ==
  /\ rlCl = "server" /\ RlTerminated
  /\ rlTarget' = "nobody" /\ rlStage' = "none" /\ rlCl' = "socket"
  /\ UNCHANGED <<rlProc, rlDial, rlList, rlTodo, rlNet>>

\* The file of a socket at an explicit path is removed.
RlCloseSocket ==
  /\ rlCl = "socket"
  /\ rlCl' = "done" /\ rlSocket' = (rlSocket /\ ~rlUnix)
  /\ UNCHANGED <<rlProc, rlDial, rlList, rlTerm, rlTodo, rlListens, rlTaken, rlUnix>>

-----------------------------------------------------------------------------
RlLauncher == RlProbe \/ RlDialed \/ RlBackoff \/ RlFailed
RlCloser == RlCloseNext \/ RlCloseServer \/ RlCloseSocket

RlNext ==
  \/ RlStarts \/ RlTimeout \/ RlLauncher \/ RlListen \/ RlKill
  \/ \E p \in RlChildren : RlExit(p) \/ RlWaited(p) \/ RlContextEnds(p)
  \/ \E k \in RlKids : RlStartCodex(k) \/ RlReaped(k)
  \/ RlClose \/ RlCloser

\* Timers fire, the operating system reports exits, and goroutines run.  No child owes
\* an exit: it is the kill that ends one which ignores its interrupt.
RlFairness ==
  /\ WF_rlVars(RlLauncher) /\ WF_rlVars(RlCloser) /\ WF_rlVars(RlKill)
  /\ \A p \in RlChildren : WF_rlVars(RlWaited(p))
  /\ \A k \in RlKids : WF_rlVars(RlReaped(k))

RlSpec == RlInit /\ [][RlNext]_rlVars /\ RlFairness

-----------------------------------------------------------------------------
(* Properties.                                                               *)

\* When Close has returned nothing runs: not the server and no child, also one whose
\* StartCodex call ran beside Close; and every child has been waited for.
RlNothingLeft ==
  rlCl = "done" => \A p \in RlChildren : rlProc[p] \in {"none", "waited"}

\* Close does not touch the server while a child that is attached to it runs.
RlChildrenFirst ==
  rlCl # "idle" /\ rlTarget = RlServer => \A k \in RlKids : ~RlAlive(k)

\* A server that listens at a socket can be reached there until it has ended, and Close
\* leaves no file: the file is removed after the exit of the server, not beside it.
RlSocketOutlives ==
  /\ rlUnix /\ rlListens => rlSocket
  /\ rlUnix /\ rlCl = "done" => ~rlSocket

\* A launch that failed leaves no process behind.
RlFailedLaunchClean == rlLaunch = "failed" => rlProc[RlServer] = "waited"

\* A child that runs is on the list until Close takes the list, so that Close finds it.
RlRunningListed ==
  ~rlClosed => \A k \in RlKids : RlAlive(k) => \E i \in DOMAIN rlAttached : rlAttached[i] = k

\* A child that has exited leaves the list: a server that is kept does not collect them.
RlListShrinks ==
  \A k \in RlKids : rlProc[k] = "waited" ~> k \notin ToSet(rlAttached)

\* Close returns although children may ignore the interrupt.
RlCloseReturns == rlCl = "kids" ~> rlCl = "done"

\* So does the launch, ready or not.
RlLaunchReturns == rlLaunch = "probe" ~> rlLaunch \in {"ready", "failed"}

\* The launch and Close return.
RlEverybodyReturns == RlCloseReturns /\ RlLaunchReturns
=============================================================================
