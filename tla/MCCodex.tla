------------------------------ MODULE MCCodex ------------------------------
(***************************************************************************)
(* What the codex client reads from, writes to and starts, in one model for  *)
(* liveness: the queue of one notification consumer, the websocket transport, *)
(* the exec-server client and the remote launcher.  A behaviour picks one of  *)
(* them and runs it while the others stay in their initial states.  The       *)
(* transport and the exec-server client are explored in parts: only writers,   *)
(* only readers, or both without Close; no notifications, or no Close.  No     *)
(* action under fairness is enabled in the initial state of its component:     *)
(* the idle components' fairness asks nothing.                                *)
(***************************************************************************)
EXTENDS NotificationQueue, WebsocketTransport, ExecServer, RemoteLaunch

VARIABLE part  \* the component that runs, or the half of it

mcVars == <<part, qvars, wsVars, exVars, rlVars>>

MCInit ==
  /\ part \in {"queue", "writes", "reads", "duplex", "calls", "notifications", "remote"}
  /\ Init /\ WsInit /\ ExInit /\ RlInit
  /\ part # "queue" => arrived = 0
  /\ part # "remote" => rlTaken = FALSE /\ rlUnix = FALSE

MCWebsocket ==
  /\ WsNext
  /\ part = "writes" => \A r \in WsReads : wsPc'[r] = "idle"
  /\ part = "reads" => \A w \in WsWrites : wsPc'[w] = "idle"
  /\ part = "duplex" => wsCl' = "idle"

MCExec ==
  /\ ExNextStep
  /\ part = "calls" => exTold' = {}
  /\ part = "notifications" => exCl' = "idle"

MCNext ==
  /\ UNCHANGED part
  /\ \/ part = "queue" /\ Next /\ UNCHANGED <<wsVars, exVars, rlVars>>
     \/ part \in {"writes", "reads", "duplex"} /\ MCWebsocket /\ UNCHANGED <<qvars, exVars, rlVars>>
     \/ part \in {"calls", "notifications"} /\ MCExec /\ UNCHANGED <<qvars, wsVars, rlVars>>
     \/ part = "remote" /\ RlNext /\ UNCHANGED <<qvars, wsVars, exVars>>

MCSpec ==
  /\ MCInit /\ [][MCNext]_mcVars
  /\ WF_qvars(ConsumerStep) /\ WsFairness /\ ExFairness /\ RlFairness
=============================================================================
