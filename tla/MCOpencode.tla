----------------------------- MODULE MCOpencode -----------------------------
(***************************************************************************)
(* llm.NotifyQueue and the concurrent parts of pkg/llm/opencode in one       *)
(* model, for liveness: a behaviour picks one of them and runs it while the   *)
(* others stay in their initial states.  The bus is explored twice: "dial"    *)
(* has every waiter and no consumer, "events" one waiter and the consumers.   *)
(* No action under fairness is enabled in the initial state of its component. *)
(***************************************************************************)
EXTENDS NotifyQueue, OpencodeBus, OpencodeClient, OpencodeTurn

CONSTANT MCWaiter  \* the waiter that dials for the consumers

VARIABLE part  \* the component that runs

MCBusEvents == {[type |-> "permission", session |-> s] : s \in BusSessions}
               \cup {[type |-> "other", session |-> NoSession]}

mcVars == <<part, vars, busVars, ocVars, tnVars>>

MCInit ==
  /\ part \in {"queue", "dial", "events", "client", "turn"}
  /\ Init /\ BusInit /\ OcInit(part # "client") /\ TnInit
  /\ part # "queue" => bounded = FALSE
  /\ part # "client" => \A u \in OcUsers : ocUser[u].kind = "run"
  /\ part # "turn" => \A c \in TnConsumers : tnCall[c].mode = "run"

MCNext ==
  /\ UNCHANGED part
  /\ \/ part = "queue" /\ Next /\ UNCHANGED <<busVars, ocVars, tnVars>>
     \/ part = "dial" /\ BusNext /\ UNCHANGED <<vars, busSub, busLog, ocVars, tnVars>>
     \/ part = "events" /\ BusNext /\ (\A w \in BusWaiters \ {MCWaiter} : busWaiter'[w] = "idle")
                        /\ UNCHANGED <<vars, ocVars, tnVars>>
     \/ part = "client" /\ OcNext /\ UNCHANGED <<vars, busVars, tnVars>>
     \/ part = "turn" /\ TnNext /\ UNCHANGED <<vars, busVars, ocVars>>

MCSpec ==
  /\ MCInit /\ [][MCNext]_mcVars
  /\ Fairness /\ BusFairness /\ OcFairness /\ TnFairness
=============================================================================
