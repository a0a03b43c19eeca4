----------------------------- MODULE RpcClient -----------------------------
(***************************************************************************)
(* The life cycle of codex.Client (pkg/llm/codex/client.go) and its JSON-RPC *)
(* request table (jsonrpc_helpers.go): concurrent RequestRaw calls, the read *)
(* loop, Close and Start.  Start gives the client a new request table        *)
(* (c.rpcState), router and transport; together they are a generation.  Code *)
(* that says c.rpcState uses the table of the generation that is current     *)
(* when the expression is evaluated.  Requests are made once the first Start  *)
(* has launched a server.                                                    *)
(*                                                                         *)
(* A transport is a pipe to the server that holds PipeCap messages, after     *)
(* which a write blocks, and a stream back.  The server answers requests in   *)
(* any order or never, sends notifications, requests and broken lines, and    *)
(* may exit.                                                                 *)
(***************************************************************************)
EXTENDS Integers, Sequences, FiniteSets

CONSTANTS
  Requests,   \* RequestRaw calls
  MaxGen,     \* bound: how often Start launches a server
  PipeCap,    \* messages that fit the pipe to the server
  MaxPushed   \* bound: messages a server sends that are not responses

NoRequest == "none"

ASSUME ClientAssumption ==
  /\ MaxGen \in Nat \ {0} /\ PipeCap \in Nat \ {0} /\ MaxPushed \in Nat
  /\ IsFiniteSet(Requests) /\ Requests \cap {NoRequest, "empty", "closed"} = {}

Gens == 1 .. MaxGen
Ids == 1 .. Cardinality(Requests)

VARIABLES
  cur,          \* the generation of c.rpcState and c.turnRouter
  transport,    \* the generation of c.transport; 0 is nil
  seq,          \* requestSeq of each table
  responses,    \* the pending responses of each table
  writeMu,      \* writeMu of each table is locked
  routerClosed, \* the router of each generation is closed
  conn,         \* each transport: not made, open, closed by Close
  server,       \* each server process: not started, running, exited
  inbox,        \* requests that the server has yet to answer
  outbox,       \* what the server sent and the read loop has not read
  pushed,       \* messages other than responses that each server sent
  rd,           \* where the read loop of each generation is
  cl,           \* where the goroutine that holds closeMu is
  ct,           \* Close: the transport it loaded
  pc,           \* where each request is
  st, id,       \* its table and its id
  lk, un,       \* the tables it locks and unlocks; a read loop has both as well
  tr,           \* the transport it loaded
  answer,       \* its response channel
  fatal         \* an unlocked mutex was unlocked

Response == [kind : {"resp"}, id : Ids, for : Requests]
Pushed == [kind : {"note", "req", "bad"}]
Writers == Requests \cup Gens

reqVars == <<pc, st, id, answer>>
lockVars == <<writeMu, lk, un, tr, fatal>>
tableVars == <<seq, responses>>
wireVars == <<inbox, outbox, pushed, server, conn>>
lifeVars == <<cur, transport, cl, ct, routerClosed>>
vars == <<lifeVars, tableVars, wireVars, lockVars, reqVars, rd>>

\* Tables, pipes and locks keep their types, and every goroutine is at one of its steps.
TypeOK ==
  /\ cur \in 0 .. MaxGen /\ transport \in 0 .. MaxGen /\ ct \in 0 .. MaxGen
  /\ seq \in [Gens -> 0 .. Cardinality(Requests)]
  /\ responses \in [Gens -> [Ids -> Requests \cup {NoRequest}]]
  /\ writeMu \in [Gens -> BOOLEAN]
  /\ routerClosed \in [Gens -> BOOLEAN]
  /\ conn \in [Gens -> {"none", "open", "closed"}]
  /\ server \in [Gens -> {"none", "running", "exited"}]
  /\ inbox \in [Gens -> SUBSET (Ids \X Requests)]
  /\ outbox \in [Gens -> Seq(Response \cup Pushed)]
  /\ pushed \in [Gens -> 0 .. MaxPushed]
  /\ rd \in [Gens -> {"none", "read", "reply", "lock", "load", "write", "done"}]
  /\ cl \in {"idle", "starting", "router", "fail", "conn", "lock"}
  /\ pc \in [Requests -> {"idle", "marshal", "lock", "load", "write", "wait", "done"}]
  /\ st \in [Requests -> Gens] /\ id \in [Requests -> Ids]
  /\ lk \in [Writers -> Gens] /\ un \in [Writers -> Gens] /\ tr \in [Writers -> 0 .. MaxGen]
  /\ answer \in [Requests -> Requests \cup {"empty", "closed"}]
  /\ fatal \in BOOLEAN

\* NewClient
Init ==
  /\ cur = 0 /\ transport = 0 /\ ct = 0 /\ cl = "idle"
  /\ seq = [g \in Gens |-> 0]
  /\ responses = [g \in Gens |-> [i \in Ids |-> NoRequest]]
  /\ writeMu = [g \in Gens |-> FALSE]
  /\ routerClosed = [g \in Gens |-> FALSE]
  /\ conn = [g \in Gens |-> "none"]
  /\ server = [g \in Gens |-> "none"]
  /\ inbox = [g \in Gens |-> {}] /\ outbox = [g \in Gens |-> <<>>]
  /\ pushed = [g \in Gens |-> 0]
  /\ rd = [g \in Gens |-> "none"]
  /\ pc = [r \in Requests |-> "idle"]
  /\ st = [r \in Requests |-> 1] /\ id = [r \in Requests |-> 1]
  /\ lk = [w \in Writers |-> 1] /\ un = [w \in Writers |-> 1] /\ tr = [w \in Writers |-> 0]
  /\ answer = [r \in Requests |-> "empty"]
  /\ fatal = FALSE

-----------------------------------------------------------------------------
(* The request table *)

\* failPending of table g: every registered request gets the error.
FailPending(g) ==
  /\ responses' = [responses EXCEPT ![g] = [i \in Ids |-> NoRequest]]
  /\ answer' = [r \in Requests |->
                  IF \E i \in Ids : responses[g][i] = r THEN "closed" ELSE answer[r]]

\* deliverResponse on the current table.
Deliver(m) ==
  LET r == responses[cur][m.id] IN
  /\ responses' = [responses EXCEPT ![cur][m.id] = NoRequest]
  /\ answer' = IF r = NoRequest THEN answer ELSE [answer EXCEPT ![r] = m.for]

\* The deferred unlockWrite at the end of writeMessage; its locals go.  Unlocking a
\* free mutex ends the program; the model notes it in fatal and goes on.
Unlock(w) ==
  /\ writeMu' = [writeMu EXCEPT ![un[w]] = FALSE]
  /\ fatal' = (fatal \/ ~writeMu[un[w]])
  /\ lk' = [lk EXCEPT ![w] = 1] /\ un' = [un EXCEPT ![w] = 1] /\ tr' = [tr EXCEPT ![w] = 0]

-----------------------------------------------------------------------------
(* RequestRaw *)

\* Mutated form of register: the counter is read and not advanced.
RegisterSameId(r) ==
  /\ pc[r] = "idle" /\ server[1] # "none"
  /\ st' = [st EXCEPT ![r] = cur]
  /\ responses' = [responses EXCEPT ![cur][seq[cur] + 1] = r]
  /\ pc' = [pc EXCEPT ![r] = "marshal"]
  /\ UNCHANGED <<answer, id, seq, rd, lifeVars, wireVars, lockVars>>

\* requestRaw takes the current table, an id and an entry in the table.
register(r) ==
  /\ pc[r] = "idle" /\ server[1] # "none"
  /\ st' = [st EXCEPT ![r] = cur]
  /\ seq' = [seq EXCEPT ![cur] = @ + 1]
  /\ id' = [id EXCEPT ![r] = seq[cur] + 1]
  /\ responses' = [responses EXCEPT ![cur][seq[cur] + 1] = r]
  /\ pc' = [pc EXCEPT ![r] = "marshal"]
  /\ UNCHANGED <<answer, rd, lifeVars, wireVars, lockVars>>

\* writeMessage evaluates c.rpcState for lockWrite, and then waits for the lock.
lockWrite(r) ==
  /\ pc[r] = "marshal"
  /\ lk' = [lk EXCEPT ![r] = cur]
  /\ pc' = [pc EXCEPT ![r] = "lock"]
  /\ UNCHANGED <<st, id, answer, writeMu, un, tr, fatal, rd, lifeVars, wireVars, tableVars>>

\* It holds the lock; the defer evaluates c.rpcState once more.
locked(r) ==
  /\ pc[r] = "lock" /\ ~writeMu[lk[r]]
  /\ writeMu' = [writeMu EXCEPT ![lk[r]] = TRUE]
  /\ un' = [un EXCEPT ![r] = cur]
  /\ pc' = [pc EXCEPT ![r] = "load"]
  /\ UNCHANGED <<st, id, answer, lk, tr, fatal, rd, lifeVars, wireVars, tableVars>>

\* The write failed: unlock and drop the entry.
WriteFails(r) ==
  /\ Unlock(r)
  /\ responses' = [responses EXCEPT ![st[r]][id[r]] = NoRequest]
  /\ pc' = [pc EXCEPT ![r] = "done"]
  /\ UNCHANGED <<st, id, answer, seq, rd, lifeVars, wireVars>>

loadTransport(r) ==
  /\ pc[r] = "load"
  /\ \/ transport = 0 /\ WriteFails(r)
     \/ /\ transport # 0
        /\ tr' = [tr EXCEPT ![r] = transport]
        /\ pc' = [pc EXCEPT ![r] = "write"]
        /\ UNCHANGED <<st, id, answer, writeMu, lk, un, fatal, rd, lifeVars, wireVars, tableVars>>

Writable(g) == conn[g] = "open" /\ server[g] = "running"

\* WriteJSON: it blocks while the pipe is full, until the transport is closed.
write(r) ==
  LET g == tr[r] IN
  /\ pc[r] = "write"
  /\ \/ ~Writable(g) /\ WriteFails(r)
     \/ /\ Writable(g) /\ Cardinality(inbox[g]) < PipeCap
        /\ inbox' = [inbox EXCEPT ![g] = @ \cup {<<id[r], r>>}]
        /\ Unlock(r)
        /\ pc' = [pc EXCEPT ![r] = "wait"]
        /\ UNCHANGED <<st, id, answer, rd, outbox, pushed, server, conn, lifeVars, tableVars>>

\* The select at the end of requestRaw: the answer, or the context.
receive(r) ==
  /\ pc[r] = "wait" /\ answer[r] # "empty"
  /\ pc' = [pc EXCEPT ![r] = "done"]
  /\ UNCHANGED <<st, id, answer, rd, lifeVars, wireVars, lockVars, tableVars>>

cancel(r) ==
  /\ pc[r] = "wait"
  /\ responses' = [responses EXCEPT ![st[r]][id[r]] = NoRequest]
  /\ pc' = [pc EXCEPT ![r] = "done"]
  /\ UNCHANGED <<st, id, answer, seq, rd, lifeVars, wireVars, lockVars>>
-----------------------------------------------------------------------------
(* readLoop *)

\* Mutated form of LoopEnds: the pending requests are left alone.
LoopEndsSilently(g) ==
  /\ rd' = [rd EXCEPT ![g] = "done"]
  /\ routerClosed' = [routerClosed EXCEPT ![g] = TRUE]
  /\ UNCHANGED <<responses, answer>>

\* The loop ends: failPending on the current table, then the deferred close of the
\* router that was current when the loop began.
LoopEnds(g) ==
  /\ FailPending(cur)
  /\ rd' = [rd EXCEPT ![g] = "done"]
  /\ routerClosed' = [routerClosed EXCEPT ![g] = TRUE]

readMessage(g) ==
  LET m == Head(outbox[g]) IN
  /\ rd[g] = "read" /\ outbox[g] # <<>>
  /\ outbox' = [outbox EXCEPT ![g] = Tail(@)]
  /\ \/ m.kind = "resp" /\ Deliver(m) /\ UNCHANGED <<rd, routerClosed>>
     \/ m.kind = "req" /\ rd' = [rd EXCEPT ![g] = "reply"] /\ UNCHANGED <<routerClosed, responses, answer>>
     \/ m.kind = "note" /\ ~routerClosed[cur] /\ UNCHANGED <<rd, routerClosed, responses, answer>>
     \/ (m.kind = "bad" \/ (m.kind = "note" /\ routerClosed[cur])) /\ LoopEnds(g)
  /\ UNCHANGED <<cur, transport, cl, ct, inbox, pushed, server, conn, pc, st, id, seq, lockVars>>

\* The stream ended, because the server exited or Close closed the transport.
readEnds(g) ==
  /\ rd[g] = "read" /\ (conn[g] = "closed" \/ (server[g] = "exited" /\ outbox[g] = <<>>))
  /\ LoopEnds(g)
  /\ UNCHANGED <<cur, transport, cl, ct, pc, st, id, seq, wireVars, lockVars>>

\* The reply to a request of the server goes through writeMessage; in the pipe it
\* only has to find room.
reply(g) ==
  \/ /\ rd[g] = "reply"
     /\ lk' = [lk EXCEPT ![g] = cur]
     /\ rd' = [rd EXCEPT ![g] = "lock"]
     /\ UNCHANGED <<writeMu, un, tr, fatal, routerClosed, responses, answer>>
  \/ /\ rd[g] = "lock" /\ ~writeMu[lk[g]]
     /\ writeMu' = [writeMu EXCEPT ![lk[g]] = TRUE]
     /\ un' = [un EXCEPT ![g] = cur]
     /\ rd' = [rd EXCEPT ![g] = "load"]
     /\ UNCHANGED <<lk, tr, fatal, routerClosed, responses, answer>>
  \/ /\ rd[g] = "load" /\ transport # 0
     /\ tr' = [tr EXCEPT ![g] = transport]
     /\ rd' = [rd EXCEPT ![g] = "write"]
     /\ UNCHANGED <<writeMu, lk, un, fatal, routerClosed, responses, answer>>
  \/ /\ rd[g] = "write" /\ Writable(tr[g]) /\ Cardinality(inbox[tr[g]]) < PipeCap
     /\ Unlock(g)
     /\ rd' = [rd EXCEPT ![g] = "read"]
     /\ UNCHANGED <<routerClosed, responses, answer>>
  \/ /\ (rd[g] = "load" /\ transport = 0) \/ (rd[g] = "write" /\ ~Writable(tr[g]))
     /\ Unlock(g)
     /\ LoopEnds(g)

readLoop(g) ==
  \/ readMessage(g) \/ readEnds(g)
  \/ reply(g) /\ UNCHANGED <<cur, transport, cl, ct, pc, st, id, seq, wireVars>>

-----------------------------------------------------------------------------
(* The server *)

serverReply(g) ==
  /\ server[g] = "running"
  /\ \E x \in inbox[g] :
       /\ inbox' = [inbox EXCEPT ![g] = @ \ {x}]
       /\ outbox' = [outbox EXCEPT ![g] = Append(@, [kind |-> "resp", id |-> x[1], for |-> x[2]])]
  /\ UNCHANGED <<pushed, server, conn, rd, lifeVars, lockVars, reqVars, tableVars>>

serverPush(g) ==
  /\ server[g] = "running" /\ pushed[g] < MaxPushed
  /\ \E m \in Pushed : outbox' = [outbox EXCEPT ![g] = Append(@, m)]
  /\ pushed' = [pushed EXCEPT ![g] = @ + 1]
  /\ UNCHANGED <<inbox, server, conn, rd, lifeVars, lockVars, reqVars, tableVars>>

serverExit(g) ==
  /\ server[g] = "running"
  /\ server' = [server EXCEPT ![g] = "exited"]
  /\ UNCHANGED <<inbox, outbox, pushed, conn, rd, lifeVars, lockVars, reqVars, tableVars>>

-----------------------------------------------------------------------------
(* Start and Close; closeMu is held while cl is not "idle" *)

\* Start replaces the table and the router before it launches the server.
startState ==
  /\ cl = "idle" /\ transport = 0 /\ cur < MaxGen
  /\ cur' = cur + 1
  /\ cl' = "starting"
  /\ UNCHANGED <<transport, ct, routerClosed, rd, tableVars, wireVars, lockVars, reqVars>>

\* The launch fails, or the transport is stored and the read loop started.
startTransport ==
  /\ cl = "starting"
  /\ cl' = "idle"
  /\ \/ UNCHANGED <<transport, conn, server, rd>>
     \/ /\ transport' = cur
        /\ conn' = [conn EXCEPT ![cur] = "open"]
        /\ server' = [server EXCEPT ![cur] = "running"]
        /\ rd' = [rd EXCEPT ![cur] = "read"]
  /\ UNCHANGED <<cur, ct, routerClosed, inbox, outbox, pushed, tableVars, lockVars, reqVars>>

closeBegin ==
  /\ cl = "idle" /\ transport # 0
  /\ ct' = transport
  /\ cl' = "router"
  /\ UNCHANGED <<cur, transport, routerClosed, rd, tableVars, wireVars, lockVars, reqVars>>

closeRouter ==
  /\ cl = "router"
  /\ routerClosed' = [routerClosed EXCEPT ![cur] = TRUE]
  /\ cl' = "fail"
  /\ UNCHANGED <<cur, transport, ct, rd, tableVars, wireVars, lockVars, reqVars>>

closeFailPending ==
  /\ cl = "fail"
  /\ FailPending(cur)
  /\ cl' = "conn"
  /\ UNCHANGED <<cur, transport, ct, routerClosed, rd, seq, pc, st, id, wireVars, lockVars>>

\* "Close the transport before waiting for the write gate."
closeTransport ==
  /\ cl = "conn"
  /\ conn' = [conn EXCEPT ![ct] = "closed"]
  /\ cl' = "lock"
  /\ UNCHANGED <<cur, transport, ct, routerClosed, rd, inbox, outbox, pushed, server, tableVars, lockVars, reqVars>>

\* lockWrite, storeTransport(nil), unlockWrite and the end of closeMu.
closeStore ==
  /\ cl = "lock" /\ ~writeMu[cur]
  /\ transport' = 0
  /\ cl' = "idle"
  /\ UNCHANGED <<cur, ct, routerClosed, rd, tableVars, wireVars, lockVars, reqVars>>

closeStep == closeRouter \/ closeFailPending \/ closeTransport \/ closeStore

-----------------------------------------------------------------------------
requestStep(r) ==
  register(r) \/ lockWrite(r) \/ locked(r) \/ loadTransport(r) \/ write(r) \/ receive(r)

Next ==
  \/ \E r \in Requests : requestStep(r) \/ cancel(r)
  \/ \E g \in Gens : readLoop(g) \/ serverReply(g) \/ serverPush(g) \/ serverExit(g)
  \/ startState \/ startTransport \/ closeBegin \/ closeStep

Spec == Init /\ [][Next]_vars

\* Goroutines run; mutexes are handed over (sync.Mutex is starvation free).  Nobody
\* has to start, close or cancel anything, and the server owes nothing.
FairSpec ==
  /\ Spec
  /\ \A r \in Requests : WF_vars(requestStep(r)) /\ SF_vars(locked(r))
  /\ \A g \in Gens : WF_vars(readLoop(g)) /\ SF_vars(rd[g] = "lock" /\ readLoop(g))
  /\ WF_vars(startTransport \/ closeStep) /\ SF_vars(closeStore)

-----------------------------------------------------------------------------
(* Properties *)

\* The response that a request receives is the one to this request.  It holds for a
\* client that is started once; ids start again with the table that a second Start
\* makes, and the read loop of the first connection delivers into that table.
RightResponse == \A r \in Requests : answer[r] \in Requests => answer[r] = r

\* A request that is still in a table has an empty response channel: each of the
\* sends of deliverResponse and failPending, which happen outside the lock, finds
\* room in the one-element channel, so neither the read loop nor Close can block.
OneAnswer ==
  \A g \in Gens, i \in Ids : responses[g][i] # NoRequest => answer[responses[g][i]] = "empty"

\* A waiting request is in its table or has its answer.
WaitingIsTracked ==
  \A r \in Requests : pc[r] = "wait" => answer[r] # "empty" \/ responses[st[r]][id[r]] = r

\* No writer releases a write lock that it does not hold: [Client] is "safe for
\* concurrent use by multiple goroutines" (doc.go), Close and Start included.
NoFatalUnlock == ~fatal

\* Close returns closeMu even if a writer or the read loop is stuck in a full pipe
\* with the write lock held.
CloseTerminates == cl # "idle" ~> cl = "idle"

\* A request that waits when its connection is closed under a running read loop
\* returns: the read loop's last failPending finds it.  It holds for a client that is
\* started once; after a second Start that failPending goes to the new table.
ReaderReleases ==
  \A r \in Requests :
    (pc[r] = "wait" /\ rd[st[r]] \notin {"none", "done"} /\ conn[st[r]] = "closed") ~> pc[r] = "done"

\* Close returns although writers may be stuck, and the read loop that it ends releases
\* the requests that wait, for a client that is started once.
CloseEndsAll == CloseTerminates /\ ReaderReleases

\* A request that races with Close returns though its context does not end: "timed out
\* waiting for pending request to unblock after Close" is what a test (sdk_test.go)
\* says of one that does not.
CloseReleasesRequests == \A r \in Requests : (pc[r] # "idle" /\ conn[st[r]] = "closed") ~> pc[r] = "done"

=============================================================================
