----------------------------- MODULE TmuxClient -----------------------------
(***************************************************************************)
(* tmux.Client (pkg/tmux/client.go, protocol.go, transport.go): commands are *)
(* written to the stdin of a `tmux -C` process one at a time, a read loop    *)
(* parses its stdout line by line into response blocks, handed to the        *)
(* pending command, and notifications, put in a bounded channel.             *)
(*                                                                         *)
(* Execs are goroutines in ExecRaw, Iterators those in a range over Events;  *)
(* Startup is New, which waits for the response to the initial command.  One *)
(* goroutine runs Close: closeMu makes a second one wait for its result.     *)
(* The tmux process is external: it answers each line with one block, in     *)
(* order, sends notifications between blocks, and may stop or die any time.  *)
(***************************************************************************)
EXTENDS Integers, Sequences, SequencesExt

CONSTANTS
  Execs, Iterators,
  EventBuffer,      \* Options.EventBuffer
  StdinCap,         \* lines that fit into the stdin pipe
  StdoutCap,        \* bound: lines in the stdout pipe
  MaxEvents,        \* bound: notifications that tmux sends
  Payloads          \* bound: the sequences of output lines of a command

Startup == "startup"
Detach == "detach"
Cmds == Execs \cup {Startup}
None == "none"

ASSUME TmuxAssumption ==
  /\ EventBuffer \in Nat \ {0} /\ StdinCap \in Nat \ {0} /\ StdoutCap \in Nat \ {0} /\ MaxEvents \in Nat
  /\ Payloads \subseteq Seq({"text", "blank", "end"})

VARIABLES
  closed,        \* c.closed
  pending,       \* c.pending
  ch,            \* the 1-buffered channel of each pending command
  writeMu,       \* who holds c.writeMu
  pc, outcome,   \* of each command: where it is, what it returned
  rd, active,    \* the read loop: where it is; the parser's open block
  after,         \* where the read loop goes when its notification is delivered
  events, eventsClosed, dropped,   \* c.events, c.droppedNotifications
  it,            \* where each iterator is
  cl, was,       \* Close: where it is; alreadyClosed
  stdin, stdinClosed, stdout, stdoutClosed,  \* the pipes
  alive, out,    \* tmux: it runs; the lines of the block it is writing
  sent,          \* history: the payload and terminator tmux chose for each command
  produced, received   \* history: notifications parsed, and taken by iterators

execVars == <<pending, ch, writeMu, pc, outcome>>
eventVars == <<events, eventsClosed, dropped, it, produced, received>>
readVars == <<rd, active, after>>
closeVars == <<cl, was>>
pipeVars == <<stdin, stdinClosed, stdout, stdoutClosed>>
tmuxVars == <<alive, out, sent>>
tvars == <<closed, execVars, eventVars, readVars, closeVars, pipeVars, tmuxVars>>

Line(k, c) == [kind |-> k, of |-> c]
Response(c, ls, e) == [of |-> c, lines |-> ls, error |-> e]
Failure == Response(None, <<>>, TRUE)   \* an error that is not a response
Nothing == Response(None, <<>>, FALSE)

\* The lines of one response on the wire; a payload line "end" is one that looks
\* like the terminator of another block.
Block(r) ==
  <<Line("begin", r.of)>> \o [i \in 1 .. Len(r.lines) |-> Line(r.lines[i], None)]
                          \o <<Line(IF r.error THEN "error" ELSE "end", r.of)>>

\* The client, its pipes and its goroutines keep their types.
TypeOK ==
  /\ {closed, eventsClosed, was, stdinClosed, stdoutClosed, alive} \subseteq BOOLEAN
  /\ pending \in Cmds \cup {None}
  /\ \A c \in Cmds : Len(ch[c]) <= 1
  /\ writeMu \in Execs \cup {None, "close"}
  /\ pc \in [Cmds -> {"idle", "lock", "register", "write", "stuck", "wait", "abort", "done"}]
  /\ rd \in {"read", "evict", "send", "mark", "fail", "done"} /\ after \in {"read", "mark"}
  /\ events \in Seq(1 .. MaxEvents + 2) /\ Len(events) <= EventBuffer
  /\ it \in [Iterators -> {"idle", "select"}]
  /\ cl \in {"none", "mark", "fail", "detach", "write", "stdin", "process", "kill", "reader", "done"}
  /\ Len(stdin) <= StdinCap /\ Len(stdout) <= StdoutCap
  /\ dropped \in Nat /\ produced \in Nat /\ received \in Nat

\* New has started the process, registered the initial command and started the
\* read loop.
Init ==
  /\ closed = FALSE
  /\ pending = Startup /\ ch = [c \in Cmds |-> <<>>] /\ writeMu = None
  /\ pc = [c \in Cmds |-> IF c = Startup THEN "wait" ELSE "idle"]
  /\ outcome = [c \in Cmds |-> Nothing]
  /\ rd = "read" /\ active = Nothing /\ after = "read"
  /\ events = <<>> /\ eventsClosed = FALSE /\ dropped = 0
  /\ it = [g \in Iterators |-> "idle"]
  /\ cl = "none" /\ was = FALSE
  /\ stdin = <<>> /\ stdinClosed = FALSE /\ stdout = <<>> /\ stdoutClosed = FALSE
  /\ alive = TRUE /\ out = Block(Response(Startup, <<>>, FALSE))
  /\ sent = [c \in Cmds |-> Response(c, <<>>, FALSE)]
  /\ produced = 0 /\ received = 0

Goto(c, l) == pc' = [pc EXCEPT ![c] = l]

-----------------------------------------------------------------------------
(* The tmux process *)

tmuxStart ==
  /\ alive /\ out = <<>> /\ stdin # <<>>
  /\ stdin' = Tail(stdin)
  /\ IF Head(stdin) = Detach
     THEN out' = Block(Response(Detach, <<>>, FALSE)) \o <<Line("exit", None)>> /\ sent' = sent
     ELSE \E p \in Payloads, e \in BOOLEAN :
            LET r == Response(Head(stdin), p, e)
            IN out' = Block(r) /\ sent' = [sent EXCEPT ![r.of] = r]
  /\ UNCHANGED <<closed, execVars, eventVars, readVars, closeVars, stdinClosed, stdout, stdoutClosed, alive>>

tmuxWrite ==
  /\ alive /\ out # <<>> /\ Len(stdout) < StdoutCap
  /\ stdout' = Append(stdout, Head(out))
  /\ out' = Tail(out)
  /\ UNCHANGED <<closed, execVars, eventVars, readVars, closeVars, stdin, stdinClosed, stdoutClosed, alive, sent>>

\* A notification between blocks; a line that does not parse has the effect of
\* %exit on the client.
tmuxNotify(k) ==
  /\ alive /\ out = <<>> /\ Len(stdout) < StdoutCap /\ produced + Len(stdout) < MaxEvents
  /\ stdout' = Append(stdout, Line(k, None))
  /\ UNCHANGED <<closed, execVars, eventVars, readVars, closeVars, stdin, stdinClosed, stdoutClosed, tmuxVars>>

tmuxDie ==
  /\ alive
  /\ alive' = FALSE
  /\ UNCHANGED <<closed, execVars, eventVars, readVars, closeVars, pipeVars, out, sent>>

-----------------------------------------------------------------------------
(* Commands *)

\* failPending: the pending command gets an error.
FailPending ==
  /\ ch' = IF pending = None THEN ch ELSE [ch EXCEPT ![pending] = Append(@, Failure)]
  /\ pending' = None

ClearPending(c) == pending' = IF pending = c THEN None ELSE pending

Return(c, r) ==
  /\ Goto(c, "done")
  /\ outcome' = [outcome EXCEPT ![c] = r]
  /\ writeMu' = IF writeMu = c THEN None ELSE writeMu

Started == pc[Startup] = "done" /\ outcome[Startup].of = Startup /\ ~outcome[Startup].error

otherVars == <<eventVars, readVars, closeVars, tmuxVars>>

execBegin(c) ==
  /\ pc[c] = "idle" /\ Started
  /\ Goto(c, "lock")
  /\ UNCHANGED <<closed, pending, ch, writeMu, outcome, pipeVars, otherVars>>

\* Lock c.writeMu; then closedError and ctx.Err.
execLock(c) ==
  /\ pc[c] = "lock" /\ writeMu = None
  /\ \/ ~closed /\ writeMu' = c /\ Goto(c, "register") /\ UNCHANGED outcome
     \/ Return(c, Failure)
  /\ UNCHANGED <<closed, pending, ch, pipeVars, otherVars>>

execRegister(c) ==
  /\ pc[c] = "register"
  /\ IF pending = None
     THEN pending' = c /\ Goto(c, "write") /\ UNCHANGED <<writeMu, outcome>>
     ELSE Return(c, Failure) /\ UNCHANGED pending
  /\ UNCHANGED <<closed, ch, pipeVars, otherVars>>

execWrite(c) ==
  /\ pc[c] = "write" /\ ~stdinClosed /\ alive /\ Len(stdin) < StdinCap
  /\ stdin' = Append(stdin, c)
  /\ Goto(c, "wait")
  /\ UNCHANGED <<closed, pending, ch, writeMu, outcome, stdinClosed, stdout, stdoutClosed, otherVars>>

\* A line that the pipe cannot take as a whole: the write blocks until tmux has read
\* enough of it.
execWriteBlocks(c) ==
  /\ pc[c] = "write" /\ ~stdinClosed /\ alive
  /\ Goto(c, "stuck")
  /\ UNCHANGED <<closed, pending, ch, writeMu, outcome, pipeVars, otherVars>>

execWriteEnds(c) ==
  /\ pc[c] = "stuck" /\ alive /\ out = <<>> /\ stdin = <<>> /\ ~stdinClosed
  /\ stdin' = <<c>>
  /\ Goto(c, "wait")
  /\ UNCHANGED <<closed, pending, ch, writeMu, outcome, stdinClosed, stdout, stdoutClosed, otherVars>>

\* The pipe was closed or its reader is gone.
execWriteFails(c) ==
  /\ pc[c] \in {"write", "stuck"} /\ (stdinClosed \/ ~alive)
  /\ ClearPending(c)
  /\ Return(c, Failure)
  /\ UNCHANGED <<closed, ch, pipeVars, otherVars>>

\* The select of ExecRaw, and that of New, takes the result.
execReceive(c) ==
  /\ pc[c] = "wait" /\ ch[c] # <<>>
  /\ ch' = [ch EXCEPT ![c] = Tail(@)]
  /\ Return(c, Head(ch[c]))
  /\ UNCHANGED <<closed, pending, pipeVars, otherVars>>

\* Mutated form of execCancel: the client stays open.
CancelWithoutAbort(c) ==
  /\ pc[c] = "wait"
  /\ ClearPending(c)
  /\ Return(c, Failure)
  /\ UNCHANGED <<closed, ch, pipeVars, otherVars>>

\* ctx.Done: ExecRaw goes on to abort; New goes on to Close.
execCancel(c) ==
  /\ pc[c] = "wait"
  /\ ClearPending(c)
  /\ IF c = Startup THEN Return(c, Failure) ELSE Goto(c, "abort") /\ UNCHANGED <<writeMu, outcome>>
  /\ UNCHANGED <<closed, ch, pipeVars, otherVars>>

\* abort of a canceled ExecRaw, which still holds the write lock.
execAbort(c) ==
  /\ pc[c] = "abort"
  /\ closed' = TRUE
  /\ FailPending
  /\ Return(c, Failure)
  /\ UNCHANGED <<pipeVars, otherVars>>

-----------------------------------------------------------------------------
(* The read loop *)

sameMarkerIdentity(a, l) == l.of = a.of

\* protocolParser.feed: the open block after a line, and what the line completes.
feed(a, l) ==
  CASE l.kind = "blank" -> [kind |-> "none", active |-> a]
    [] l.kind # "blank" /\ a # Nothing ->
         IF l.kind \in {"end", "error"} /\ sameMarkerIdentity(a, l)
         THEN [kind |-> "response", active |-> Nothing,
               response |-> Response(a.of, a.lines, l.kind = "error")]
         ELSE [kind |-> "none", active |-> Response(a.of, Append(a.lines, l.kind), FALSE)]
    [] l.kind = "begin" /\ a = Nothing -> [kind |-> "none", active |-> Response(l.of, <<>>, FALSE)]
    [] OTHER -> [kind |-> IF l.kind = "event" THEN "event" ELSE "last", active |-> a]

readIdle == <<closed, closeVars, tmuxVars, stdin, stdinClosed, stdoutClosed, writeMu, pc, outcome>>

\* A line that completes nothing, or a response: deliverResponse.
readResponse ==
  /\ rd = "read" /\ stdout # <<>>
  /\ LET f == feed(active, Head(stdout))
     IN /\ f.kind \in {"none", "response"}
        /\ active' = f.active
        /\ IF f.kind = "response" /\ pending # None
           THEN ch' = [ch EXCEPT ![pending] = Append(@, f.response)] /\ pending' = None
           ELSE UNCHANGED <<ch, pending>>
  /\ stdout' = Tail(stdout)
  /\ UNCHANGED <<readIdle, eventVars, rd, after>>

\* A notification, the first select of deliverEvent.  After %exit, and after the
\* %protocol-error of a line that does not parse, the loop aborts.
readEvent ==
  /\ rd = "read" /\ stdout # <<>>
  /\ LET f == feed(active, Head(stdout))
         then == IF f.kind = "last" THEN "mark" ELSE "read"
     IN /\ f.kind \in {"event", "last"}
        /\ produced' = produced + 1
        /\ IF Len(events) < EventBuffer
           THEN events' = Append(events, produced + 1) /\ rd' = then /\ after' = "read"
           ELSE events' = events /\ rd' = "evict" /\ after' = then
  /\ stdout' = Tail(stdout)
  /\ UNCHANGED <<readIdle, pending, ch, active, eventsClosed, dropped, it, received>>

\* Mutated form of readEvict: nothing is taken out.
EvictNothing ==
  /\ rd = "evict"
  /\ rd' = "send" /\ dropped' = dropped + 1
  /\ UNCHANGED <<readIdle, pending, ch, active, after, events, eventsClosed, it, produced, received, stdout>>

\* The second select: the oldest notification goes, if an iterator left one.
readEvict ==
  /\ rd = "evict"
  /\ events' = IF events = <<>> THEN events ELSE Tail(events)
  /\ dropped' = IF events = <<>> THEN dropped ELSE dropped + 1
  /\ rd' = "send"
  /\ UNCHANGED <<readIdle, pending, ch, active, after, eventsClosed, it, produced, received, stdout>>

\* "This write is now guaranteed to succeed as we are the sole writer."
readSend ==
  /\ rd = "send" /\ Len(events) < EventBuffer
  /\ events' = Append(events, produced)
  /\ rd' = after /\ after' = "read"
  /\ UNCHANGED <<readIdle, pending, ch, active, eventsClosed, dropped, it, produced, received, stdout>>

\* EOF, inside a block or not, or the error of a pipe that Close has closed, with
\* or without lines left in it (those in the reader's buffer may still be read).
readEnds ==
  /\ rd = "read" /\ (stdoutClosed \/ (stdout = <<>> /\ ~alive))
  /\ rd' = "mark"
  /\ UNCHANGED <<readIdle, pending, ch, active, after, eventVars, stdout>>

\* abort and the deferred closes: markClosed; failPending, close(c.events).
readAbortMark ==
  /\ rd = "mark"
  /\ closed' = TRUE
  /\ rd' = "fail"
  /\ UNCHANGED <<execVars, eventVars, active, after, closeVars, pipeVars, tmuxVars>>

readAbortFail ==
  /\ rd = "fail"
  /\ FailPending
  /\ rd' = "done"
  /\ eventsClosed' = TRUE
  /\ UNCHANGED <<closed, writeMu, pc, outcome, active, after, events, dropped, it, produced, received,
                 closeVars, pipeVars, tmuxVars>>

-----------------------------------------------------------------------------
(* Close *)

closeIdle == <<eventVars, readVars, pc, outcome>>

\* Close by a user, or by New when the initial command failed.
closeBegin ==
  /\ cl = "none" /\ pc[Startup] = "done"
  /\ was' = closed
  /\ cl' = "mark"
  /\ UNCHANGED <<closed, closeIdle, pending, ch, writeMu, pipeVars, tmuxVars>>

closeMark ==
  /\ cl = "mark"
  /\ closed' = TRUE
  /\ cl' = "fail"
  /\ UNCHANGED <<closeIdle, pending, ch, writeMu, was, pipeVars, tmuxVars>>

closeFail ==
  /\ cl = "fail"
  /\ FailPending
  /\ cl' = IF was THEN "stdin" ELSE "detach"
  /\ UNCHANGED <<closed, closeIdle, writeMu, was, pipeVars, tmuxVars>>

\* Mutated form of closeTryLock: wait for the write lock.
CloseLocks ==
  /\ cl = "detach" /\ writeMu = None
  /\ writeMu' = "close" /\ cl' = "write"
  /\ UNCHANGED <<closed, closeIdle, pending, ch, was, pipeVars, tmuxVars>>

\* TryLock: detach-client is not sent when a command holds the write lock.
closeTryLock ==
  /\ cl = "detach"
  /\ IF writeMu = None THEN writeMu' = "close" /\ cl' = "write" ELSE writeMu' = writeMu /\ cl' = "stdin"
  /\ UNCHANGED <<closed, closeIdle, pending, ch, was, pipeVars, tmuxVars>>

closeDetach ==
  /\ cl = "write"
  /\ \/ alive /\ Len(stdin) < StdinCap /\ stdin' = Append(stdin, Detach)
     \/ ~alive /\ stdin' = stdin
  /\ writeMu' = None /\ cl' = "stdin"
  /\ UNCHANGED <<closed, closeIdle, pending, ch, was, stdinClosed, stdout, stdoutClosed, tmuxVars>>

closeStdin ==
  /\ cl = "stdin"
  /\ stdinClosed' = TRUE /\ cl' = "process"
  /\ UNCHANGED <<closed, closeIdle, pending, ch, writeMu, was, stdin, stdout, stdoutClosed, tmuxVars>>

\* waitProcess: cmd.Wait reaps the process and closes the read end of stdout.
closeWait ==
  /\ cl \in {"process", "kill"} /\ ~alive
  /\ stdoutClosed' = TRUE /\ cl' = "reader"
  /\ UNCHANGED <<closed, closeIdle, pending, ch, writeMu, was, stdin, stdinClosed, stdout, tmuxVars>>

\* waitProcess: ShutdownTimeout or the context of Close ends the wait; Process.Kill.
closeKill ==
  /\ cl = "process"
  /\ cl' = "kill"
  /\ UNCHANGED <<closed, closeIdle, pending, ch, writeMu, was, pipeVars, tmuxVars>>

\* A second after the kill the process is still there.
closeGivesUp ==
  /\ cl = "kill" /\ alive
  /\ cl' = "reader"
  /\ UNCHANGED <<closed, closeIdle, pending, ch, writeMu, was, pipeVars, tmuxVars>>

\* waitOptional for the read loop, within the same time limit, and the same for
\* the stderr drain.
closeReader ==
  /\ cl = "reader"
  /\ \/ rd = "done" /\ stdoutClosed' = stdoutClosed
     \/ stdoutClosed' = TRUE
  /\ cl' = "done"
  /\ UNCHANGED <<closed, closeIdle, pending, ch, writeMu, was, stdin, stdinClosed, stdout, tmuxVars>>

-----------------------------------------------------------------------------
(* Events *)

iterIdle == <<closed, execVars, readVars, closeVars, pipeVars, tmuxVars, eventsClosed, dropped, produced>>

iterBegin(g) ==
  /\ it[g] = "idle" /\ Started
  /\ it' = [it EXCEPT ![g] = "select"]
  /\ UNCHANGED <<iterIdle, events, received>>

\* A notification; the caller goes on or breaks.
iterReceive(g) ==
  /\ it[g] = "select" /\ events # <<>>
  /\ events' = Tail(events)
  /\ received' = received + 1
  /\ \E l \in {"idle", "select"} : it' = [it EXCEPT ![g] = l]
  /\ UNCHANGED iterIdle

\* The channel was closed and is drained.
iterEnd(g) ==
  /\ it[g] = "select" /\ events = <<>> /\ eventsClosed
  /\ it' = [it EXCEPT ![g] = "idle"]
  /\ UNCHANGED <<iterIdle, events, received>>

\* ctx.Done.
iterCancel(g) ==
  /\ it[g] = "select"
  /\ it' = [it EXCEPT ![g] = "idle"]
  /\ UNCHANGED <<iterIdle, events, received>>

-----------------------------------------------------------------------------
ExecStep(c) ==
  \/ execLock(c) \/ execRegister(c) \/ execWrite(c) \/ execWriteBlocks(c) \/ execWriteFails(c)
  \/ execReceive(c) \/ execAbort(c)

ReadStep ==
  \/ readResponse \/ readEvent \/ readEvict \/ readSend \/ readEnds \/ readAbortMark \/ readAbortFail

CloseStep ==
  \/ closeMark \/ closeFail \/ closeTryLock \/ closeDetach \/ closeStdin
  \/ closeWait \/ closeKill \/ closeGivesUp \/ closeReader

IterStep(g) == iterReceive(g) \/ iterEnd(g)

Next ==
  \/ tmuxStart \/ tmuxWrite \/ tmuxDie \/ \E k \in {"event", "exit"} : tmuxNotify(k)
  \/ \E c \in Execs : execBegin(c)
  \/ \E c \in Cmds : ExecStep(c) \/ execWriteEnds(c) \/ execCancel(c)
  \/ ReadStep
  \/ closeBegin \/ CloseStep
  \/ \E g \in Iterators : iterBegin(g) \/ IterStep(g) \/ iterCancel(g)

Spec == Init /\ [][Next]_tvars

\* The goroutines of the client run and its timers fire; tmux owes nothing, and no
\* context needs to end.
FairSpec ==
  /\ Spec
  /\ WF_tvars(ReadStep) /\ WF_tvars(CloseStep)
  /\ \A c \in Cmds : WF_tvars(ExecStep(c))
  /\ \A g \in Iterators : WF_tvars(IterStep(g))

-----------------------------------------------------------------------------
(* Properties *)

NonBlank(s) == SelectSeq(s, LAMBDA x : x # "blank")

\* What a command returns as its response is the block tmux sent for it, with all
\* its lines but the empty ones, which feed drops, whatever the lines look like and whatever happened to the
\* commands before it: a canceled command closes the client, so that its late
\* response cannot be taken for that of a later command.
RightResponse ==
  \A c \in Cmds : outcome[c].of # None =>
    outcome[c] = Response(c, NonBlank(sent[c].lines), sent[c].error)

\* Commands are serialized: by the time a command registers, the one before it has
\* left, so "another command is already pending" is never returned.
NeverAlreadyPending == \A c \in Execs : pc[c] = "register" => pending = None

\* deliverEvent never blocks the read loop, and the channel holds the newest
\* notifications in order; every notification was received, is in the channel or
\* was counted as dropped, also when iterators receive between the selects.
EventAccounting ==
  LET inFlight == IF rd \in {"evict", "send"} THEN 1 ELSE 0
  IN /\ rd = "send" => Len(events) < EventBuffer
     /\ received + dropped + Len(events) + inFlight = produced
     /\ \A i \in 1 .. Len(events) : events[i] = produced - inFlight - Len(events) + i

\* Close returns, with a command stuck in its write, tmux not reading, not writing
\* or not dying, and the read loop blocked.  The stdin pipe has room for
\* detach-client behind the one command line that tmux may have left unread (StdinCap
\* is at least 2): its write does not look at the context of Close.
CloseTerminates == cl # "none" ~> cl = "done"

\* A command that waits for its response when Close begins is released.
CloseReleasesExec == \A c \in Cmds : (pc[c] = "wait" /\ cl = "mark") ~> pc[c] = "done"

\* "Iteration stops when the client closes": every range over Events that is
\* running ends, and so does one that starts later.
IterationStops == \A g \in Iterators : (cl # "none" /\ it[g] = "select") ~> it[g] = "idle"

\* Close takes everything down: it returns, and the commands and the iterations that it
\* finds come to an end with it.
CloseEndsAll == CloseTerminates /\ CloseReleasesExec /\ IterationStops
=============================================================================
