------------------------------ MODULE MCClaude ------------------------------
(***************************************************************************)
(* The concurrent parts of pkg/llm/claude in one model: a behaviour picks   *)
(* one of them and runs it while the others stay in their initial states,   *)
(* so the state spaces add up.  No action under fairness is enabled in the  *)
(* initial state of its component: the idle components' fairness asks       *)
(* nothing.                                                                 *)
(***************************************************************************)
EXTENDS ClaudeControl, ClaudeClient, ClaudeSessionStore

VARIABLE part  \* the component that runs

MCHistory == <<"m1", "m2", "m1">>

mcVars == <<part, cpVars, clVars, stVars>>

MCInit ==
  /\ part \in {"control", "client", "store"}
  /\ CpInit /\ ClInit /\ StInit

MCNext ==
  /\ UNCHANGED part
  /\ \/ part = "control" /\ CpNext /\ UNCHANGED <<clVars, stVars>>
     \/ part = "client" /\ ClNext /\ UNCHANGED <<cpVars, stVars>>
     \/ part = "store" /\ StNext /\ UNCHANGED <<cpVars, clVars>>

MCSpec ==
  /\ MCInit /\ [][MCNext]_mcVars
  /\ CpFairness /\ ClFairness
=============================================================================
