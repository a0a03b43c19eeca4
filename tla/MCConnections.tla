--------------------------- MODULE MCConnections ---------------------------
(***************************************************************************)
(* The clients' connections and children, in one model for safety:           *)
(* opencode's event bus, client and turns, and codex's websocket transport,   *)
(* exec-server client and remote launcher.  A behaviour picks one of them and  *)
(* runs it while the others stay in their initial states.  The bus is          *)
(* explored twice: "dial" has every waiter and no consumer, "events" one       *)
(* waiter and the consumers.                                                  *)
(***************************************************************************)
EXTENDS OpencodeBus, OpencodeClient, OpencodeTurn,
        WebsocketTransport, ExecServer, RemoteLaunch

CONSTANT MCWaiter  \* the waiter that dials for the bus's consumers

VARIABLE part  \* the component that runs

MCBusEvents == {[type |-> "permission", session |-> s] : s \in BusSessions}
               \cup {[type |-> "other", session |-> NoSession]}

mcOpencode == <<busVars, ocVars, tnVars>>
mcCodex == <<wsVars, exVars, rlVars>>
mcVars == <<part, mcOpencode, mcCodex>>

MCInit ==
  /\ part \in {"dial", "events", "client", "turn", "websocket", "exec", "remote"}
  /\ BusInit /\ OcInit(part # "client") /\ TnInit /\ WsInit /\ ExInit /\ RlInit
  /\ part # "client" => \A u \in OcUsers : ocUser[u].kind = "run"
  /\ part # "turn" => \A c \in TnConsumers : tnCall[c].mode = "run"
  /\ part # "remote" => rlTaken = FALSE /\ rlUnix = FALSE

MCNext ==
  /\ UNCHANGED part
  /\ \/ part = "dial" /\ BusNext /\ UNCHANGED <<busSub, busLog, ocVars, tnVars, mcCodex>>
     \/ part = "events" /\ BusNext /\ (\A w \in BusWaiters \ {MCWaiter} : busWaiter'[w] = "idle")
                        /\ UNCHANGED <<ocVars, tnVars, mcCodex>>
     \/ part = "client" /\ OcNext /\ UNCHANGED <<busVars, tnVars, mcCodex>>
     \/ part = "turn" /\ TnNext /\ UNCHANGED <<busVars, ocVars, mcCodex>>
     \/ part = "websocket" /\ WsNext /\ UNCHANGED <<mcOpencode, exVars, rlVars>>
     \/ part = "exec" /\ ExNextStep /\ UNCHANGED <<mcOpencode, wsVars, rlVars>>
     \/ part = "remote" /\ RlNext /\ UNCHANGED <<mcOpencode, wsVars, exVars>>

MCSpec == MCInit /\ [][MCNext]_mcVars
=============================================================================
