---------------------------- MODULE ClaudeClient ----------------------------
(***************************************************************************)
(* ClaudeSDKClient (pkg/llm/claude/client.go) over its sessions: Query      *)
(* launches a CLI when there is none and writes the prompt, readLoop moves  *)
(* the CLI's lines to the session's buffer, ReceiveResponse drains the      *)
(* buffer it captured, and Close ends the session, after which a Query      *)
(* launches the next one.  ClaudeControl has the inside of one session; here *)
(* its handshake is one step that succeeds or fails, and a write never      *)
(* blocks.                                                                  *)
(*                                                                         *)
(* WaitForCommand calls cmd.Wait while readLoop reads the stdout pipe: Wait *)
(* closes the pipe once the CLI has exited, and lines still in it are lost. *)
(***************************************************************************)
EXTENDS Integers, Sequences, FiniteSets, Functions

CONSTANTS
  ClQueries,     \* calls of Query
  ClClosers,     \* calls of Close
  ClReceivers,   \* calls of ReceiveResponse
  ClMaxSessions, \* bound: launches
  ClMaxLines     \* bound: messages one CLI writes

VARIABLES
  cl,       \* the client's fields: session numbers (0 is nil), readErr, and which session set it (history)
  clMu,     \* who holds closeMu
  clSess,   \* each session: its CLI, stdin, handshake, pipe, buffer, readLoop
  clQuery,  \* Query: where each call is
  clClose,  \* Close: where each call is, and the session it tears down
  clRecv    \* ReceiveResponse: where each call is, its session, what it got

clVars == <<cl, clMu, clSess, clQuery, clClose, clRecv>>

ClSessions == 1..ClMaxSessions
ClLines == {"data", "result"}

\* The client, its sessions and its callers keep their types.
ClTypeOK ==
  /\ cl \in [transport : 0..ClMaxSessions, cmd : 0..ClMaxSessions, raw : 0..ClMaxSessions,
             launched : 0..ClMaxSessions, readErr : {"nil", "eof", "error"}, errOf : 0..ClMaxSessions]
  /\ clMu \in ClQueries \cup ClClosers \cup {"free"}
  /\ \A s \in ClSessions :
       /\ clSess[s].cli \in {"none", "up", "exited"} /\ clSess[s].loop \in {"off", "read", "eof", "error"}
       /\ clSess[s].stdin \in {"open", "shut"} /\ clSess[s].prompts \in 0..Cardinality(ClQueries)
       /\ clSess[s].pipe \in Seq(ClLines) /\ clSess[s].buffer \in Seq(ClLines)
       /\ clSess[s].wrote \in 0..ClMaxLines
  /\ clQuery \in [ClQueries -> {"idle", "locked", "initialize", "write", "ok", "failed", "not running"}]
  /\ clClose \in [ClClosers -> [pc : {"idle", "locked", "terminate", "done"}, s : 0..ClMaxSessions]]
  /\ clRecv \in [ClReceivers -> [pc : {"idle", "loop", "drained", "end", "result", "error", "no query"},
                                 s : 0..ClMaxSessions, got : 0..ClMaxLines, own : BOOLEAN]]

ClInit ==
  /\ cl = [transport |-> 0, cmd |-> 0, raw |-> 0, launched |-> 0, readErr |-> "nil", errOf |-> 0]
  /\ clMu = "free"
  /\ clSess = [s \in ClSessions |-> [cli |-> "none", stdin |-> "shut", loop |-> "off", pipe |-> <<>>,
                                     buffer |-> <<>>, wrote |-> 0, prompts |-> 0]]
  /\ clQuery = [q \in ClQueries |-> "idle"]
  /\ clClose = [k \in ClClosers |-> [pc |-> "idle", s |-> 0]]
  /\ clRecv = [r \in ClReceivers |-> [pc |-> "idle", s |-> 0, got |-> 0, own |-> TRUE]]
-----------------------------------------------------------------------------
(* Query. *)

ClLock(q) ==
  /\ clQuery[q] = "idle" /\ clMu = "free"
  /\ clMu' = q
  /\ clQuery' = [clQuery EXCEPT ![q] = "locked"]
  /\ UNCHANGED <<cl, clSess, clClose, clRecv>>

\* A session is up: release closeMu before the write.
ClReuse(q) ==
  /\ clQuery[q] = "locked" /\ cl.transport # 0
  /\ clMu' = "free"
  /\ clQuery' = [clQuery EXCEPT ![q] = "write"]
  /\ UNCHANGED <<cl, clSess, clClose, clRecv>>

\* launchSubprocess starts the CLI and start wires the session up.
ClLaunch(q) ==
  /\ clQuery[q] = "locked" /\ cl.transport = 0 /\ cl.launched < ClMaxSessions
  /\ LET s == cl.launched + 1
     IN /\ cl' = [cl EXCEPT !.transport = s, !.cmd = s, !.raw = s, !.launched = s]
        /\ clSess' = [clSess EXCEPT ![s].cli = "up", ![s].stdin = "open", ![s].loop = "read"]
  /\ clQuery' = [clQuery EXCEPT ![q] = "initialize"]
  /\ UNCHANGED <<clMu, clClose, clRecv>>

\* discoverCLI, buildLaunchArgs, a pipe or cmd.Start fails.
ClLaunchFails(q) ==
  /\ clQuery[q] = "locked" /\ cl.transport = 0
  /\ clMu' = "free"
  /\ clQuery' = [clQuery EXCEPT ![q] = "failed"]
  /\ UNCHANGED <<cl, clSess, clClose, clRecv>>

\* The initialize handshake, still under closeMu, is answered ...
ClInitialized(q) ==
  /\ clQuery[q] = "initialize" /\ clSess[cl.transport].cli = "up"
  /\ clMu' = "free"
  /\ clQuery' = [clQuery EXCEPT ![q] = "write"]
  /\ UNCHANGED <<cl, clSess, clClose, clRecv>>

\* ... or fails: an error response, its timeout, a CLI that is gone.  The session
\* stays in place for Close to release.
ClInitializeFails(q) ==
  /\ clQuery[q] = "initialize"
  /\ clMu' = "free"
  /\ clQuery' = [clQuery EXCEPT ![q] = "failed"]
  /\ UNCHANGED <<cl, clSess, clClose, clRecv>>

\* writeMessage: the transport of the moment, not of the moment closeMu was held.
ClWrite(q) ==
  /\ clQuery[q] = "write"
  /\ LET s == cl.transport IN
     IF s = 0 THEN clQuery' = [clQuery EXCEPT ![q] = "not running"] /\ UNCHANGED clSess
     ELSE IF clSess[s].cli = "up" /\ clSess[s].stdin = "open"
     THEN /\ clQuery' = [clQuery EXCEPT ![q] = "ok"]
          /\ clSess' = [clSess EXCEPT ![s].prompts = @ + 1]
     ELSE clQuery' = [clQuery EXCEPT ![q] = "failed"] /\ UNCHANGED clSess
  /\ UNCHANGED <<cl, clMu, clClose, clRecv>>
-----------------------------------------------------------------------------
(* The CLI (external) and readLoop. *)

\* The CLI writes the messages of a prompt.
ClCliWrites(s) ==
  /\ clSess[s].cli = "up" /\ clSess[s].prompts > 0 /\ clSess[s].wrote < ClMaxLines
  /\ \E line \in ClLines : clSess' = [clSess EXCEPT ![s].pipe = Append(@, line), ![s].wrote = @ + 1]
  /\ UNCHANGED <<cl, clMu, clQuery, clClose, clRecv>>

\* The CLI exits.
ClCliExits(s) ==
  /\ clSess[s].cli = "up"
  /\ clSess' = [clSess EXCEPT ![s].cli = "exited"]
  /\ UNCHANGED <<cl, clMu, clQuery, clClose, clRecv>>

\* cmd.Wait has seen the exit and closes the pipe: what readLoop did not read is lost.
ClWaitClosesPipe(s) ==
  /\ clSess[s].cli = "exited" /\ clSess[s].pipe # <<>>
  /\ clSess' = [clSess EXCEPT ![s].pipe = <<>>, ![s].loop = IF @ = "read" THEN "error" ELSE @]
  /\ cl' = IF clSess[s].loop = "read" THEN [cl EXCEPT !.readErr = "error", !.errOf = s] ELSE cl
  /\ UNCHANGED <<clMu, clQuery, clClose, clRecv>>

\* readLoop pushes a line that is no control message.
ClRead(s) ==
  /\ clSess[s].loop = "read" /\ clSess[s].pipe # <<>>
  /\ clSess' = [clSess EXCEPT ![s].pipe = Tail(@), ![s].buffer = Append(@, Head(clSess[s].pipe))]
  /\ UNCHANGED <<cl, clMu, clQuery, clClose, clRecv>>

\* Mutated form: readLoop returns without closing the buffer.
ClReadEndsOpen(s) ==
  /\ clSess[s].loop = "read" /\ clSess[s].cli = "exited" /\ clSess[s].pipe = <<>>
  /\ \E err \in {"eof", "error"} : cl' = [cl EXCEPT !.readErr = err, !.errOf = s]
  /\ UNCHANGED <<clMu, clSess, clQuery, clClose, clRecv>>

\* The read fails, with EOF or because the file is closed already: readErr is set
\* before the buffer is closed.
ClReadEnds(s) ==
  /\ clSess[s].loop = "read" /\ clSess[s].cli = "exited" /\ clSess[s].pipe = <<>>
  /\ \E err \in {"eof", "error"} :
       /\ clSess' = [clSess EXCEPT ![s].loop = err]
       /\ cl' = [cl EXCEPT !.readErr = err, !.errOf = s]
  /\ UNCHANGED <<clMu, clQuery, clClose, clRecv>>
-----------------------------------------------------------------------------
(* ReceiveResponse. *)

\* rawMessages is captured under closeMu.
ClReceive(r) ==
  /\ clRecv[r].pc = "idle" /\ clMu = "free"
  /\ clRecv' = [clRecv EXCEPT ![r].pc = IF cl.raw = 0 THEN "no query" ELSE "loop", ![r].s = cl.raw]
  /\ UNCHANGED <<cl, clMu, clSess, clQuery, clClose>>

\* The next line of the buffer; the call ends with the ResultMessage.
ClNextLine(r) ==
  /\ clRecv[r].pc = "loop" /\ clSess[clRecv[r].s].buffer # <<>>
  /\ LET s == clRecv[r].s
     IN /\ clSess' = [clSess EXCEPT ![s].buffer = Tail(@)]
        /\ clRecv' = [clRecv EXCEPT ![r].got = @ + 1,
                        ![r].pc = IF Head(clSess[s].buffer) = "result" THEN "result" ELSE @]
  /\ UNCHANGED <<cl, clMu, clQuery, clClose>>

\* The buffer is closed and drained.
ClDrained(r) ==
  /\ clRecv[r].pc = "loop"
  /\ clSess[clRecv[r].s].buffer = <<>> /\ clSess[clRecv[r].s].loop \in {"eof", "error"}
  /\ clRecv' = [clRecv EXCEPT ![r].pc = "drained"]
  /\ UNCHANGED <<cl, clMu, clSess, clQuery, clClose>>

\* Mutated form: the terminal error of readLoop is not consulted.
ClFinalReadErrNever(r) ==
  /\ clRecv[r].pc = "drained"
  /\ clRecv' = [clRecv EXCEPT ![r].pc = "end", ![r].own = (cl.errOf = clRecv[r].s)]
  /\ UNCHANGED <<cl, clMu, clSess, clQuery, clClose>>

\* finalReadErr reads the client's one readErr, whichever session wrote it last.
ClFinalReadErr(r) ==
  /\ clRecv[r].pc = "drained"
  /\ clRecv' = [clRecv EXCEPT ![r].pc = IF cl.readErr = "error" THEN "error" ELSE "end",
                              ![r].own = (cl.errOf = clRecv[r].s)]
  /\ UNCHANGED <<cl, clMu, clSess, clQuery, clClose>>
-----------------------------------------------------------------------------
(* Close. *)

\* Close takes closeMu, finds a transport, takes its snapshots and shuts stdin.
ClCloseBegins(k) ==
  /\ clClose[k].pc = "idle" /\ clMu = "free" /\ cl.transport # 0
  /\ clMu' = k
  /\ clClose' = [clClose EXCEPT ![k] = [pc |-> "locked", s |-> cl.cmd]]
  /\ clSess' = [clSess EXCEPT ![cl.transport].stdin = "shut"]
  /\ cl' = [cl EXCEPT !.cmd = 0]
  /\ UNCHANGED <<clQuery, clRecv>>

\* There is nothing to close.
ClCloseNothing(k) ==
  /\ clClose[k].pc = "idle" /\ clMu = "free" /\ cl.transport = 0
  /\ clClose' = [clClose EXCEPT ![k].pc = "done"]
  /\ UNCHANGED <<cl, clMu, clSess, clQuery, clRecv>>

\* The writeMu section clears the transport; closeMu is released.
ClCloseClears(k) ==
  /\ clClose[k].pc = "locked"
  /\ cl' = [cl EXCEPT !.transport = 0]
  /\ clMu' = "free"
  /\ clClose' = [clClose EXCEPT ![k].pc = "terminate"]
  /\ UNCHANGED <<clSess, clQuery, clRecv>>

\* terminateProcess reaps the CLI; the waits for readLoop and drainStderr are
\* bounded, so Close may return before readLoop does.
ClCloseReaps(k) ==
  /\ clClose[k].pc = "terminate"
  /\ clSess' = [s \in ClSessions |-> IF s = clClose[k].s THEN [clSess[s] EXCEPT !.cli = "exited"] ELSE clSess[s]]
  /\ clClose' = [clClose EXCEPT ![k].pc = "done"]
  /\ UNCHANGED <<cl, clMu, clQuery, clRecv>>
-----------------------------------------------------------------------------
ClQueryStep(q) ==
  \/ ClLock(q) \/ ClReuse(q) \/ ClLaunch(q) \/ ClLaunchFails(q)
  \/ ClInitialized(q) \/ ClInitializeFails(q) \/ ClWrite(q)
ClSessionStep(s) == ClCliWrites(s) \/ ClCliExits(s) \/ ClWaitClosesPipe(s) \/ ClRead(s) \/ ClReadEnds(s)
ClReceiveStep(r) == ClReceive(r) \/ ClNextLine(r) \/ ClDrained(r) \/ ClFinalReadErr(r)
ClCloseStep(k) == ClCloseBegins(k) \/ ClCloseNothing(k) \/ ClCloseClears(k) \/ ClCloseReaps(k)

ClNext ==
  \/ \E q \in ClQueries : ClQueryStep(q)
  \/ \E s \in ClSessions : ClSessionStep(s)
  \/ \E r \in ClReceivers : ClReceiveStep(r)
  \/ \E k \in ClClosers : ClCloseStep(k)

ClSpec == ClInit /\ [][ClNext]_clVars

(***************************************************************************)
(* Goroutines that can run do; initialize has a timeout, so it ends; the    *)
(* read of a pipe whose writer is gone ends.  Nobody has to call Query,     *)
(* Close or ReceiveResponse, and the CLI need not write or exit.            *)
(***************************************************************************)
ClFairness ==
  /\ \A q \in ClQueries : WF_clVars(clQuery[q] # "idle" /\ ClQueryStep(q))
  /\ \A s \in ClSessions : WF_clVars((ClRead(s) \/ ClReadEnds(s) \/ ClWaitClosesPipe(s)))
  /\ \A r \in ClReceivers : WF_clVars(clRecv[r].pc # "idle" /\ ClReceiveStep(r))
  /\ \A k \in ClClosers : WF_clVars(clClose[k].pc # "idle" /\ ClCloseStep(k))
-----------------------------------------------------------------------------
\* No CLI is forgotten: one that runs is the client's or in the hands of a Close.
ClNoOrphan ==
  \A s \in ClSessions : clSess[s].cli = "up" =>
    s = cl.cmd \/ \E k \in ClClosers : clClose[k].s = s /\ clClose[k].pc \in {"locked", "terminate"}

\* ReceiveResponse ends silently only after every message its CLI wrote was
\* delivered: lines lost to cmd.Wait show as an error (as long as no other session
\* has overwritten the readErr they share).
ClSilentEndComplete ==
  \A r \in ClReceivers : clRecv[r].pc = "end" /\ clRecv[r].own =>
    FoldFunction(LAMBDA v, n : IF v.s = clRecv[r].s THEN n + v.got ELSE n, 0, clRecv) = clSess[clRecv[r].s].wrote

\* Query and Close return: initialize is bounded, and Close kills what does not exit.
ClCallsReturn ==
  /\ \A q \in ClQueries : clQuery[q] # "idle" ~> clQuery[q] \in {"ok", "failed", "not running"}
  /\ \A k \in ClClosers : clClose[k].pc # "idle" ~> clClose[k].pc = "done"

\* A receiver of a session whose CLI is gone ends.
ClReceiversEnd ==
  \A r \in ClReceivers : (clRecv[r].pc = "loop" /\ clSess[clRecv[r].s].cli = "exited")
                           ~> clRecv[r].pc \in {"end", "result", "error"}

\* Query, Close and the receivers of a session whose CLI is gone come to an end.
ClEverybodyReturns == ClCallsReturn /\ ClReceiversEnd
=============================================================================
