-------------------------- MODULE RpcClientProofs --------------------------
(***************************************************************************)
(* Proofs about RpcClient for every set of requests, every number of         *)
(* launches and every pipe: no response channel is sent to twice, and no     *)
(* waiting request is forgotten, across any number of Close and Start.       *)
(***************************************************************************)
EXTENDS RpcClient, FiniteSetTheorems, TLAPS

\* The requests that took an id from table g.
Registered(g) == {r \in Requests : pc[r] # "idle" /\ st[r] = g}

\* A request between its registration and its return.
Active == {"marshal", "lock", "load", "write", "wait"}

\* requestSeq counts the requests of its table.
Counted == \A g \in Gens : seq[g] = Cardinality(Registered(g))

\* Ids are given once per table, and none is above the counter.
DistinctIds ==
  /\ \A r \in Requests : pc[r] # "idle" => id[r] <= seq[st[r]]
  /\ \A r, s \in Requests :
       pc[r] # "idle" /\ pc[s] # "idle" /\ st[r] = st[s] /\ id[r] = id[s] => r = s

\* An entry is that of an active request, under its id, with an empty channel.
Entries ==
  \A g \in Gens, i \in Ids :
    responses[g][i] # NoRequest =>
      /\ pc[responses[g][i]] \in Active /\ answer[responses[g][i]] = "empty"
      /\ st[responses[g][i]] = g /\ id[responses[g][i]] = i

\* An active request has its entry or its answer, and one that has not begun has none.
Tracked ==
  \A r \in Requests :
    /\ pc[r] \in Active => answer[r] # "empty" \/ responses[st[r]][id[r]] = r
    /\ pc[r] = "idle" => answer[r] = "empty"

\* Whatever runs was launched: there is a current generation.
Launched ==
  /\ \A g \in Gens : (server[g] # "none" \/ rd[g] # "none") => g <= cur
  /\ (transport # 0 \/ cl # "idle") => cur >= 1
  /\ \A r \in Requests : pc[r] # "idle" => cur >= 1

\* What is in the pipes is about requests that were made, under their ids.
Wires ==
  \A g \in Gens :
    /\ \A x \in inbox[g] : pc[x[2]] # "idle" /\ id[x[2]] = x[1]
    /\ \A k \in 1 .. Len(outbox[g]) : outbox[g][k].kind = "resp" =>
         pc[outbox[g][k].for] # "idle" /\ id[outbox[g][k].for] = outbox[g][k].id

Tables == Counted /\ DistinctIds /\ Entries /\ Tracked
Right == MaxGen = 1 => RightResponse
RpcInv == TypeOK /\ Launched /\ Tables /\ Wires /\ Right

-----------------------------------------------------------------------------
(* The tables *)

LEMMA RequestsCount == Cardinality(Requests) \in Nat
  BY ClientAssumption, FS_CardinalityType

LEMMA RegisteredFinite ==
  ASSUME NEW g
  PROVE  IsFiniteSet(Registered(g)) /\ Cardinality(Registered(g)) \in Nat
  <1>1. Registered(g) \in SUBSET Requests
    BY DEF Registered
  <1> QED
    BY <1>1, ClientAssumption, FS_Subset, FS_CardinalityType

\* There is a current generation once one was launched.
LEMMA CurrentGen ==
  ASSUME TypeOK, cur >= 1 \/ \E g \in Gens : g <= cur
  PROVE  cur \in Gens /\ cur >= 1 /\ cur \in Nat /\ cur <= MaxGen
  <1>1. cur \in 0 .. MaxGen
    BY Zenon DEF TypeOK
  <1> QED
    BY <1>1, ClientAssumption DEF Gens

\* Nothing happens to the requests.
LEMMA QuietTables ==
  ASSUME Tables, Right, UNCHANGED <<reqVars, tableVars>>
  PROVE  Tables' /\ Right'
  <1>1. \A g \in Gens : Registered(g)' = Registered(g)
    BY DEF Registered, reqVars
  <1> QED
    BY <1>1 DEF Tables, Right, RightResponse, Counted, DistinctIds, Entries, Tracked, reqVars, tableVars

\* A request goes on to its next step.
LEMMA MoveTables ==
  ASSUME TypeOK, Tables, Right, NEW r \in Requests, pc[r] \in Active, NEW to \in Active,
         pc' = [pc EXCEPT ![r] = to], UNCHANGED <<st, id, answer, tableVars>>
  PROVE  Tables' /\ Right'
  <1>1. \A g \in Gens : Registered(g)' = Registered(g)
    BY DEF Registered, TypeOK, Active
  <1>2. Counted'
    BY <1>1 DEF Tables, Counted, tableVars
  <1>0. /\ \A s \in Requests : pc'[s] = IF s = r THEN to ELSE pc[s]
        /\ UNCHANGED <<seq, responses>>
    BY DEF TypeOK, tableVars
  <1>3. DistinctIds'
    BY <1>0 DEF Tables, DistinctIds, Active
  <1>4. Entries'
    <2>1. \A g \in Gens, i \in Ids : responses[g][i] \in Requests \cup {NoRequest}
      BY DEF TypeOK
    <2> QED
      BY <1>0, <2>1 DEF Tables, Entries
  <1>5. Tracked'
    BY <1>0 DEF Tables, Tracked, Active
  <1> QED
    BY <1>2, <1>3, <1>4, <1>5 DEF Tables, Right, RightResponse

\* A request returns, and its entry goes if it still has one.
LEMMA LeaveTables ==
  ASSUME TypeOK, Tables, Right, NEW r \in Requests, pc[r] \in Active,
         pc' = [pc EXCEPT ![r] = "done"], UNCHANGED <<st, id, answer, seq>>,
         \/ responses' = [responses EXCEPT ![st[r]][id[r]] = NoRequest]
         \/ responses' = responses /\ answer[r] # "empty"
  PROVE  Tables' /\ Right'
  <1>1. \A g \in Gens : Registered(g)' = Registered(g)
    BY DEF Registered, TypeOK, Active
  <1>2. Counted'
    BY <1>1 DEF Tables, Counted
  <1>3. DistinctIds'
    <2>1. \A s \in Requests : pc'[s] # "idle" => pc[s] # "idle"
      BY DEF TypeOK, Active
    <2> QED
      BY <2>1 DEF Tables, DistinctIds
  <1>4. Entries'
    <2> SUFFICES ASSUME NEW h \in Gens, NEW i \in Ids, responses'[h][i] # NoRequest
                 PROVE  /\ pc'[responses'[h][i]] \in Active /\ answer[responses'[h][i]] = "empty"
                        /\ st[responses'[h][i]] = h /\ id[responses'[h][i]] = i
      BY DEF Entries
    <2>0. st[r] \in Gens /\ id[r] \in Ids /\ responses[h][i] \in Requests \cup {NoRequest}
      BY DEF TypeOK
    <2>1. responses'[h][i] = responses[h][i] /\ responses[h][i] \in Requests
      <3>1. CASE responses' = [responses EXCEPT ![st[r]][id[r]] = NoRequest]
        BY <3>1, <2>0 DEF TypeOK
      <3>2. CASE responses' = responses
        BY <3>2, <2>0
      <3> QED
        BY <3>1, <3>2
    <2>2. /\ pc[responses[h][i]] \in Active /\ answer[responses[h][i]] = "empty"
          /\ st[responses[h][i]] = h /\ id[responses[h][i]] = i
      BY <2>1 DEF Tables, Entries
    <2>3. responses[h][i] # r
      BY <2>1, <2>2 DEF TypeOK
    <2> QED
      BY <2>1, <2>2, <2>3 DEF TypeOK
  <1>5. Tracked'
    <2> SUFFICES ASSUME NEW s \in Requests
                 PROVE  /\ pc'[s] \in Active => answer'[s] # "empty" \/ responses'[st'[s]][id'[s]] = s
                        /\ pc'[s] = "idle" => answer'[s] = "empty"
      BY DEF Tracked
    <2>1. CASE s = r
      BY <2>1 DEF TypeOK, Active
    <2>2. CASE s # r
      <3>1. pc[s] \in Active => ~(st[s] = st[r] /\ id[s] = id[r])
        BY <2>2 DEF Tables, DistinctIds, Active
      <3> QED
        BY <2>2, <3>1 DEF Tables, Tracked, TypeOK, Active
    <2> QED
      BY <2>1, <2>2
  <1> QED
    BY <1>2, <1>3, <1>4, <1>5 DEF Tables, Right, RightResponse

\* failPending sends the error to each request of a table, which it empties.
LEMMA FailTables ==
  ASSUME TypeOK, Tables, Right, NEW g \in Gens, FailPending(g), UNCHANGED <<pc, st, id, seq>>
  PROVE  /\ Tables' /\ Right'
         /\ responses' \in [Gens -> [Ids -> Requests \cup {NoRequest}]]
         /\ answer' \in [Requests -> Requests \cup {"empty", "closed"}]
  <1>1. \A h \in Gens : Registered(h)' = Registered(h)
    BY DEF Registered
  <1>2. Counted' /\ DistinctIds'
    BY <1>1 DEF Tables, Counted, DistinctIds
  <1>3. /\ responses' \in [Gens -> [Ids -> Requests \cup {NoRequest}]]
        /\ answer' \in [Requests -> Requests \cup {"empty", "closed"}]
    BY DEF FailPending, TypeOK
  <1>4. Entries'
    <2> SUFFICES ASSUME NEW h \in Gens, NEW i \in Ids, responses'[h][i] # NoRequest
                 PROVE  /\ pc[responses'[h][i]] \in Active /\ answer'[responses'[h][i]] = "empty"
                        /\ st[responses'[h][i]] = h /\ id[responses'[h][i]] = i
      BY DEF Entries
    <2>1. h # g /\ responses'[h][i] = responses[h][i]
      BY DEF FailPending, TypeOK
    <2> DEFINE q == responses[h][i]
    <2>2. q \in Requests /\ pc[q] \in Active /\ answer[q] = "empty" /\ st[q] = h /\ id[q] = i
      BY <2>1 DEF Tables, Entries, TypeOK
    <2>3. \A j \in Ids : responses[g][j] # q
      BY <2>1, <2>2, ClientAssumption DEF Tables, Entries, NoRequest
    <2>4. answer'[q] = "empty"
      BY <2>2, <2>3 DEF FailPending
    <2> QED
      BY <2>1, <2>2, <2>4
  <1>5. Tracked'
    <2> SUFFICES ASSUME NEW s \in Requests
                 PROVE  /\ pc[s] \in Active => answer'[s] # "empty" \/ responses'[st[s]][id[s]] = s
                        /\ pc[s] = "idle" => answer'[s] = "empty"
      BY DEF Tracked
    <2>1. pc[s] = "idle" => \A j \in Ids : responses[g][j] # s
      BY ClientAssumption DEF Tables, Entries, Active, NoRequest
    <2> QED
      BY <2>1 DEF Tables, Tracked, FailPending, TypeOK
  <1>6. Right'
    BY ClientAssumption DEF Right, RightResponse, FailPending, TypeOK
  <1> QED
    BY <1>2, <1>3, <1>4, <1>5, <1>6 DEF Tables

\* A response goes to the request that has its id in the current table.
LEMMA DeliverTables ==
  ASSUME TypeOK, Tables, Right, cur \in Gens, NEW m \in Response, Deliver(m),
         pc[m.for] # "idle", id[m.for] = m.id, UNCHANGED <<pc, st, id, seq>>
  PROVE  /\ Tables' /\ Right'
         /\ responses' \in [Gens -> [Ids -> Requests \cup {NoRequest}]]
         /\ answer' \in [Requests -> Requests \cup {"empty", "closed"}]
  <1> DEFINE r == responses[cur][m.id]
  <1>0. m.id \in Ids /\ m.for \in Requests
    BY DEF Response
  <1>1. \A h \in Gens : Registered(h)' = Registered(h)
    BY DEF Registered
  <1>2. Counted' /\ DistinctIds'
    BY <1>1 DEF Tables, Counted, DistinctIds
  <1>3. /\ responses' \in [Gens -> [Ids -> Requests \cup {NoRequest}]]
        /\ answer' \in [Requests -> Requests \cup {"empty", "closed"}]
    BY <1>0 DEF Deliver, TypeOK
  <1>4. r # NoRequest => r \in Requests /\ pc[r] \in Active /\ st[r] = cur /\ id[r] = m.id
    BY <1>0 DEF Tables, Entries, TypeOK
  <1>5. Entries'
    BY <1>0, <1>4, ClientAssumption DEF Tables, Entries, Deliver, TypeOK
  <1>6. Tracked'
    BY <1>0, <1>4, ClientAssumption DEF Tables, Tracked, Deliver, TypeOK, Active
  <1>7. Right'
    <2> SUFFICES ASSUME MaxGen = 1, r # NoRequest
                 PROVE  m.for = r
      BY <1>0, <1>4 DEF Right, RightResponse, Deliver, TypeOK
    <2>1. st[m.for] = st[r]
      BY <1>0, <1>4 DEF TypeOK, Gens
    <2> QED
      BY <2>1, <1>0, <1>4, Zenon DEF Tables, DistinctIds, Active
  <1> QED
    BY <1>2, <1>3, <1>5, <1>6, <1>7 DEF Tables

-----------------------------------------------------------------------------
(* The steps *)

\* NewClient.
LEMMA InitRpcInv == Init => RpcInv
  <1> SUFFICES ASSUME Init PROVE RpcInv
    OBVIOUS
  <1>1. 1 \in Gens /\ \A r \in Requests : 1 \in Ids
    <2>1. \A r \in Requests : Cardinality(Requests) # 0
      BY ClientAssumption, FS_EmptySet
    <2> QED
      BY <2>1, RequestsCount, ClientAssumption DEF Gens, Ids
  <1>2. TypeOK
    <2>1. st \in [Requests -> Gens] /\ id \in [Requests -> Ids]
      BY <1>1 DEF Init
    <2>2. /\ lk \in [Writers -> Gens] /\ un \in [Writers -> Gens] /\ tr \in [Writers -> 0 .. MaxGen]
          /\ seq \in [Gens -> 0 .. Cardinality(Requests)] /\ pushed \in [Gens -> 0 .. MaxPushed]
      BY <1>1, ClientAssumption, RequestsCount DEF Init
    <2>3. outbox \in [Gens -> Seq(Response \cup Pushed)] /\ inbox \in [Gens -> SUBSET (Ids \X Requests)]
      BY DEF Init
    <2>4. responses \in [Gens -> [Ids -> Requests \cup {NoRequest}]]
      BY DEF Init
    <2>5. writeMu \in [Gens -> BOOLEAN] /\ routerClosed \in [Gens -> BOOLEAN] /\ fatal \in BOOLEAN
      BY Zenon DEF Init
    <2>6. /\ cur \in 0 .. MaxGen /\ transport \in 0 .. MaxGen /\ ct \in 0 .. MaxGen
          /\ pc \in [Requests -> {"idle", "marshal", "lock", "load", "write", "wait", "done"}]
          /\ answer \in [Requests -> Requests \cup {"empty", "closed"}]
      BY ClientAssumption DEF Init
    <2> QED
      BY <2>1, <2>2, <2>3, <2>4, <2>5, <2>6 DEF Init, TypeOK
  <1>3. Counted
    <2>1. \A g \in Gens : Registered(g) = {}
      BY DEF Init, Registered
    <2> QED
      BY <2>1, FS_EmptySet DEF Init, Counted
  <1>4. Wires
    BY DEF Init, Wires
  <1>5. Right
    BY ClientAssumption DEF Init, Right, RightResponse
  <1> QED
    BY <1>2, <1>3, <1>4, <1>5
    DEF Init, RpcInv, Tables, DistinctIds, Entries, Tracked, Launched, Active

\* The response that a pipe holds is to a request.
LEMMA OutboxTypes ==
  ASSUME TypeOK, NEW g \in Gens, NEW k \in 1 .. Len(outbox[g]), outbox[g][k].kind = "resp"
  PROVE  outbox[g][k] \in Response /\ outbox[g][k].for \in Requests
  <1>1. outbox[g][k] \in Response \cup Pushed
    BY DEF TypeOK
  <1>2. outbox[g][k] \notin Pushed
    BY DEF Pushed
  <1> QED
    BY <1>1, <1>2 DEF Response

\* A new request: the counter goes up by one and its id is nobody else's.
LEMMA RegisterKeeps ==
  ASSUME RpcInv, NEW r \in Requests, register(r)
  PROVE  RpcInv'
  <1> USE ClientAssumption DEF RpcInv
  <1>1. cur \in Gens
    <2>1. 1 \in Gens
      BY DEF Gens
    <2> QED
      BY <2>1, CurrentGen DEF register, Launched
  <1>2. /\ Registered(cur)' = Registered(cur) \cup {r} /\ r \notin Registered(cur)
        /\ \A g \in Gens \ {cur} : Registered(g)' = Registered(g)
    BY <1>1 DEF register, Registered, TypeOK, lifeVars
  <1>3. Cardinality(Registered(cur)') = seq[cur] + 1
    BY <1>1, <1>2, RegisteredFinite, FS_AddElement, Zenon DEF Tables, Counted
  <1>4. seq[cur] \in Nat /\ seq[cur] + 1 \in Ids
    <2>1. Registered(cur)' \in SUBSET Requests
      BY DEF Registered
    <2>2. Cardinality(Registered(cur)') <= Cardinality(Requests)
      BY <2>1, FS_Subset
    <2> QED
      BY <1>1, <1>3, <2>2, RequestsCount DEF Ids, TypeOK
  <1>5. TypeOK'
    <2>1. /\ st' \in [Requests -> Gens] /\ id' \in [Requests -> Ids]
          /\ pc' \in [Requests -> {"idle", "marshal", "lock", "load", "write", "wait", "done"}]
      BY <1>1, <1>4 DEF register, TypeOK
    <2>2. seq' \in [Gens -> 0 .. Cardinality(Requests)]
      <3>1. seq[cur] + 1 \in 0 .. Cardinality(Requests)
        BY <1>4, RequestsCount DEF Ids
      <3> QED
        BY <1>1, <3>1 DEF register, TypeOK
    <2>3. responses' \in [Gens -> [Ids -> Requests \cup {NoRequest}]]
      BY <1>1, <1>4 DEF register, TypeOK
    <2> QED
      BY <2>1, <2>2, <2>3, Zenon DEF register, TypeOK, lifeVars, wireVars, lockVars
  <1>a. /\ \A s \in Requests \ {r} : pc'[s] = pc[s] /\ st'[s] = st[s] /\ id'[s] = id[s]
        /\ pc'[r] = "marshal" /\ st'[r] = cur /\ id'[r] = seq[cur] + 1
    BY DEF register, TypeOK
  <1>b. \A g \in Gens : seq'[g] = IF g = cur THEN seq[cur] + 1 ELSE seq[g]
    BY <1>1 DEF register, TypeOK
  <1>c. \A g \in Gens, i \in Ids : responses'[g][i] = IF g = cur /\ i = seq[cur] + 1 THEN r ELSE responses[g][i]
    BY <1>1, <1>4 DEF register, TypeOK
  <1>d. pc[r] = "idle" /\ server[1] # "none" /\ UNCHANGED <<answer, cur>>
    BY DEF register, lifeVars
  <1>e. /\ \A s \in Requests : id[s] \in Nat /\ id[s] \in Ids /\ st[s] \in Gens
        /\ \A g \in Gens : seq[g] \in Nat
        /\ \A g \in Gens, i \in Ids : responses[g][i] \in Requests \cup {NoRequest}
    <2>1. /\ \A s \in Requests : id[s] \in Ids /\ st[s] \in Gens
          /\ \A g \in Gens : seq[g] \in 0 .. Cardinality(Requests)
      BY DEF TypeOK
    <2>2. \A g \in Gens, i \in Ids : responses[g][i] \in Requests \cup {NoRequest}
      BY DEF TypeOK
    <2> QED
      BY <2>1, <2>2, RequestsCount DEF Ids
  <1>6. Counted'
    <2>1. \A g \in Gens \ {cur} : seq'[g] = Cardinality(Registered(g)')
      BY <1>2, <1>b DEF Tables, Counted
    <2>2. seq'[cur] = Cardinality(Registered(cur)')
      BY <1>1, <1>3, <1>b
    <2> QED
      BY <1>d, <2>1, <2>2, Zenon DEF Counted
  <1>7. DistinctIds'
    BY <1>1, <1>a, <1>b, <1>d, <1>e DEF Tables, DistinctIds
  <1>8. Entries'
    <2> SUFFICES ASSUME NEW g \in Gens, NEW i \in Ids, responses'[g][i] # NoRequest
                 PROVE  /\ pc'[responses'[g][i]] \in Active /\ answer'[responses'[g][i]] = "empty"
                        /\ st'[responses'[g][i]] = g /\ id'[responses'[g][i]] = i
      BY DEF Entries
    <2>1. CASE g = cur /\ i = seq[cur] + 1
      <3>1. answer[r] = "empty"
        BY <1>d DEF Tables, Tracked
      <3> QED
        BY <2>1, <1>a, <1>c, <1>d, <3>1 DEF Active
    <2>2. CASE ~(g = cur /\ i = seq[cur] + 1)
      <3> DEFINE q == responses[g][i]
      <3>1. q \in Requests /\ responses'[g][i] = q
        BY <2>2, <1>c, <1>e
      <3>2. pc[q] \in Active /\ answer[q] = "empty" /\ st[q] = g /\ id[q] = i
        BY <3>1 DEF Tables, Entries
      <3>3. q # r
        BY <1>d, <3>2 DEF Active
      <3> HIDE DEF q
      <3> QED
        BY <1>a, <1>d, <3>1, <3>2, <3>3
    <2> QED
      BY <2>1, <2>2
  <1>9. Tracked'
    <2>1. \A s \in Requests : pc[s] \in Active => ~(st[s] = cur /\ id[s] = seq[cur] + 1)
      BY <1>1, <1>e DEF Tables, DistinctIds, Active
    <2> QED
      BY <1>1, <1>4, <1>a, <1>c, <1>d, <1>e, <2>1 DEF Tables, Tracked, Active
  <1>10. Launched'
    <2>1. cur >= 1
      BY <1>1 DEF Gens
    <2> QED
      BY <2>1, Zenon DEF register, Launched, lifeVars, wireVars
  <1>11. Wires'
    <2>1. /\ \A g \in Gens : \A x \in inbox[g] : x[2] \in Requests
          /\ \A g \in Gens : \A k \in 1 .. Len(outbox[g]) :
               outbox[g][k].kind = "resp" => outbox[g][k].for \in Requests
      <3>1. \A g \in Gens : \A x \in inbox[g] : x[2] \in Requests
        BY DEF TypeOK
      <3> QED
        BY <3>1, OutboxTypes, Zenon
    <2>2. \A s \in Requests : pc[s] # "idle" => pc'[s] # "idle" /\ id'[s] = id[s]
      BY <1>a, <1>d
    <2>3. UNCHANGED <<inbox, outbox>>
      BY DEF register, wireVars
    <2> QED
      BY <2>1, <2>2, <2>3 DEF Wires
  <1>12. Right'
    BY DEF register, Right, RightResponse
  <1> QED
    BY <1>5, <1>6, <1>7, <1>8, <1>9, <1>10, <1>11, <1>12, Zenon DEF Tables

\* Nothing on the wire changes and requests that were made stay made.
LEMMA QuietWires ==
  ASSUME TypeOK, Wires, UNCHANGED <<inbox, outbox, id>>,
         \A r \in Requests : pc[r] # "idle" => pc'[r] # "idle"
  PROVE  Wires'
  <1>1. \A g \in Gens : \A x \in inbox[g] : x[2] \in Requests
    BY DEF TypeOK
  <1>2. \A g \in Gens : \A k \in 1 .. Len(outbox[g]) :
          outbox[g][k].kind = "resp" => outbox[g][k].for \in Requests
    BY OutboxTypes
  <1> QED
    BY <1>1, <1>2 DEF Wires

LEMMA UnlockTypes ==
  ASSUME TypeOK, NEW w \in Writers, Unlock(w)
  PROVE  /\ writeMu' \in [Gens -> BOOLEAN] /\ fatal' \in BOOLEAN
         /\ lk' \in [Writers -> Gens] /\ un' \in [Writers -> Gens] /\ tr' \in [Writers -> 0 .. MaxGen]
  <1>1. 1 \in Gens /\ 0 \in 0 .. MaxGen
    BY ClientAssumption DEF Gens
  <1> QED
    BY <1>1 DEF Unlock, TypeOK

\* The steps of a request between its registration and its return.
LEMMA RequestKeeps ==
  ASSUME RpcInv, NEW r \in Requests,
         lockWrite(r) \/ locked(r) \/ loadTransport(r) \/ write(r) \/ receive(r) \/ cancel(r)
  PROVE  RpcInv'
  <1> USE DEF RpcInv
  <1>0. r \in Writers /\ pc[r] \in Active /\ cur \in Gens
    <2>1. pc[r] \in Active
      BY Zenon DEF lockWrite, locked, loadTransport, write, receive, cancel, Active
    <2>2. cur \in Gens
      BY <2>1, ClientAssumption DEF Launched, TypeOK, Gens, Active
    <2> QED
      BY <2>1, <2>2 DEF Writers
  <1>1. CASE WriteFails(r)
    <2>1. TypeOK'
      BY <1>0, <1>1, UnlockTypes, Zenon DEF WriteFails, TypeOK, lifeVars, wireVars
    <2>2. Tables' /\ Right'
      BY <1>0, <1>1, LeaveTables, Zenon DEF WriteFails
    <2>3. Launched' /\ Wires'
      BY <1>0, <1>1, QuietWires, Zenon DEF WriteFails, Launched, TypeOK, lifeVars, wireVars, Active
    <2> QED
      BY <2>1, <2>2, <2>3, Zenon
  <1>2. CASE lockWrite(r)
    <2>1. TypeOK'
      BY <1>0, <1>2, Zenon DEF lockWrite, TypeOK, lifeVars, wireVars, tableVars
    <2>2. Tables' /\ Right'
      BY <1>0, <1>2, MoveTables, Zenon DEF lockWrite, Active
    <2>3. Launched' /\ Wires'
      BY <1>0, <1>2, QuietWires, Zenon DEF lockWrite, Launched, TypeOK, lifeVars, wireVars, Active
    <2> QED
      BY <2>1, <2>2, <2>3
  <1>3. CASE locked(r)
    <2>1. TypeOK'
      BY <1>0, <1>3, Zenon DEF locked, TypeOK, lifeVars, wireVars, tableVars
    <2>2. Tables' /\ Right'
      BY <1>0, <1>3, MoveTables, Zenon DEF locked, Active
    <2>3. Launched' /\ Wires'
      BY <1>0, <1>3, QuietWires, Zenon DEF locked, Launched, TypeOK, lifeVars, wireVars, Active
    <2> QED
      BY <2>1, <2>2, <2>3
  <1>4. CASE loadTransport(r)
    <2>1. CASE WriteFails(r)
      BY <2>1, <1>1
    <2>2. CASE ~WriteFails(r)
      <3>0. /\ tr' = [tr EXCEPT ![r] = transport] /\ pc' = [pc EXCEPT ![r] = "write"]
            /\ UNCHANGED <<st, id, answer, writeMu, lk, un, fatal, rd, lifeVars, wireVars, tableVars>>
        BY <1>4, <2>2 DEF loadTransport
      <3>1. TypeOK'
        BY <1>0, <3>0, Zenon DEF TypeOK, lifeVars, wireVars, tableVars
      <3>2. Tables' /\ Right'
        BY <1>0, <3>0, MoveTables, Zenon DEF Active
      <3>3. Launched' /\ Wires'
        BY <1>0, <3>0, QuietWires, Zenon DEF Launched, TypeOK, lifeVars, wireVars, Active
      <3> QED
        BY <3>1, <3>2, <3>3
    <2> QED
      BY <2>1, <2>2
  <1>5. CASE write(r)
    <2>1. CASE WriteFails(r)
      BY <2>1, <1>1
    <2>2. CASE ~WriteFails(r)
      <3> DEFINE g == tr[r]
      <3>0. /\ inbox' = [inbox EXCEPT ![g] = @ \cup {<<id[r], r>>}] /\ Unlock(r)
            /\ pc' = [pc EXCEPT ![r] = "wait"]
            /\ UNCHANGED <<st, id, answer, rd, outbox, pushed, server, conn, lifeVars, tableVars>>
        BY <1>5, <2>2, Zenon DEF write
      <3>1. TypeOK'
        <4>1. inbox' \in [Gens -> SUBSET (Ids \X Requests)]
          <5>1. <<id[r], r>> \in Ids \X Requests /\ inbox \in [Gens -> SUBSET (Ids \X Requests)]
            BY Zenon DEF TypeOK
          <5>2. \A h \in Gens : inbox[h] \cup {<<id[r], r>>} \in SUBSET (Ids \X Requests)
            BY <5>1
          <5> QED
            BY <3>0, <5>1, <5>2, Zenon
        <4>2. pc' \in [Requests -> {"idle", "marshal", "lock", "load", "write", "wait", "done"}]
          BY <3>0 DEF TypeOK
        <4> QED
          BY <1>0, <3>0, <4>1, <4>2, UnlockTypes, Zenon DEF TypeOK, lifeVars, tableVars
      <3>2. Tables' /\ Right'
        BY <1>0, <3>0, MoveTables, Zenon DEF Active
      <3>3. Launched'
        BY <1>0, <3>0 DEF Launched, TypeOK, lifeVars, Active
      <3>4. Wires'
        <4>1. \A h \in Gens : \A x \in inbox'[h] : x \in inbox[h] \/ x = <<id[r], r>>
          BY <3>0, Zenon DEF TypeOK
        <4>2. \A h \in Gens : \A x \in inbox[h] : x[2] \in Requests
          BY DEF TypeOK
        <4>3. \A h \in Gens : \A k \in 1 .. Len(outbox[h]) :
                outbox[h][k].kind = "resp" => outbox[h][k].for \in Requests
          BY OutboxTypes, Zenon
        <4>4. pc'[r] # "idle" /\ \A s \in Requests : pc[s] # "idle" => pc'[s] # "idle"
          BY <3>0, Zenon DEF TypeOK
        <4> QED
          <5>1. \A h \in Gens : \A x \in inbox'[h] : pc'[x[2]] # "idle" /\ id[x[2]] = x[1]
            <6>1. \A x : x = <<id[r], r>> => x[2] = r /\ x[1] = id[r]
              OBVIOUS
            <6> QED
              BY <4>1, <4>2, <4>4, <6>1, Zenon DEF Wires
          <5>2. \A h \in Gens : \A k \in 1 .. Len(outbox[h]) : outbox[h][k].kind = "resp" =>
                  pc'[outbox[h][k].for] # "idle" /\ id[outbox[h][k].for] = outbox[h][k].id
            BY <4>3, <4>4, Zenon DEF Wires
          <5>3. UNCHANGED <<outbox, id>>
            BY <3>0
          <5> QED
            BY <5>1, <5>2, <5>3, Zenon DEF Wires
      <3> QED
        BY <3>1, <3>2, <3>3, <3>4
    <2> QED
      BY <2>1, <2>2
  <1>6. CASE receive(r) \/ cancel(r)
    <2>1. TypeOK'
      <3>0. /\ pc' = [pc EXCEPT ![r] = "done"]
            /\ \/ responses' = [responses EXCEPT ![st[r]][id[r]] = NoRequest]
               \/ responses' = responses
        BY <1>6, Zenon DEF receive, cancel, tableVars
      <3>1. pc' \in [Requests -> {"idle", "marshal", "lock", "load", "write", "wait", "done"}]
        BY <3>0, Zenon DEF TypeOK
      <3>2. responses' \in [Gens -> [Ids -> Requests \cup {NoRequest}]]
        <4>1. /\ responses \in [Gens -> [Ids -> Requests \cup {NoRequest}]]
              /\ st[r] \in Gens /\ id[r] \in Ids
          BY DEF TypeOK
        <4>2. CASE responses' = [responses EXCEPT ![st[r]][id[r]] = NoRequest]
          BY <4>1, <4>2, Zenon
        <4> QED
          BY <3>0, <4>1, <4>2, Zenon
      <3>3. UNCHANGED <<st, id, answer, seq, rd, lifeVars, wireVars, lockVars>>
        BY <1>6, Zenon DEF receive, cancel, tableVars
      <3> QED
        BY <3>1, <3>2, <3>3 DEF TypeOK, lifeVars, wireVars, lockVars
    <2>2. Tables' /\ Right'
      BY <1>0, <1>6, LeaveTables, Zenon DEF receive, cancel, tableVars
    <2>3. Launched' /\ Wires'
      <3>1. /\ pc' = [pc EXCEPT ![r] = "done"] /\ UNCHANGED <<id, rd, lifeVars, wireVars>>
        BY <1>6 DEF receive, cancel
      <3> QED
        BY <1>0, <3>1, QuietWires DEF Launched, TypeOK, lifeVars, wireVars, Active
    <2> QED
      BY <2>1, <2>2, <2>3
  <1> QED
    BY <1>2, <1>3, <1>4, <1>5, <1>6

\* The loop ends: failPending on the current table.
LEMMA LoopEndsTables ==
  ASSUME TypeOK, Launched, Tables, Right, NEW g \in Gens, LoopEnds(g), rd[g] # "none",
         UNCHANGED <<pc, st, id, seq>>
  PROVE  /\ Tables' /\ Right'
         /\ responses' \in [Gens -> [Ids -> Requests \cup {NoRequest}]]
         /\ answer' \in [Requests -> Requests \cup {"empty", "closed"}]
         /\ rd' \in [Gens -> {"none", "read", "reply", "lock", "load", "write", "done"}]
         /\ routerClosed' \in [Gens -> BOOLEAN]
  <1>1. cur \in Gens
    BY CurrentGen DEF Launched
  <1>2. /\ Tables' /\ Right'
        /\ responses' \in [Gens -> [Ids -> Requests \cup {NoRequest}]]
        /\ answer' \in [Requests -> Requests \cup {"empty", "closed"}]
    BY <1>1, FailTables DEF LoopEnds
  <1>3. /\ rd' \in [Gens -> {"none", "read", "reply", "lock", "load", "write", "done"}]
        /\ routerClosed' \in [Gens -> BOOLEAN]
    BY Zenon DEF LoopEnds, TypeOK
  <1> QED
    BY <1>2, <1>3

\* One message is read: a response, a request of the server, a notification, a broken line.
LEMMA ReadKeeps ==
  ASSUME RpcInv, NEW g \in Gens, readMessage(g)
  PROVE  RpcInv'
  <1> USE DEF RpcInv
  <1> DEFINE m == Head(outbox[g])
  <1>1. cur \in Gens
    BY ClientAssumption DEF readMessage, Launched, TypeOK, Gens
  <1>2. /\ rd[g] = "read" /\ outbox[g] # <<>> /\ outbox' = [outbox EXCEPT ![g] = Tail(@)]
        /\ UNCHANGED <<cur, transport, cl, ct, inbox, pushed, server, conn, pc, st, id, seq, lockVars>>
    BY Zenon DEF readMessage
  <1>3. outbox[g] \in Seq(Response \cup Pushed) /\ 1 \in 1 .. Len(outbox[g]) /\ m = outbox[g][1]
    BY <1>2 DEF TypeOK
  <1>4. outbox' \in [Gens -> Seq(Response \cup Pushed)]
    BY <1>2, <1>3 DEF TypeOK
  <1>5. Wires'
    <2>1. \A h \in Gens : \A k \in 1 .. Len(outbox'[h]) :
            \E j \in 1 .. Len(outbox[h]) : outbox'[h][k] = outbox[h][j]
      <3> TAKE h \in Gens
      <3>1. outbox'[h] = IF h = g THEN Tail(outbox[g]) ELSE outbox[h]
        BY <1>2, Zenon DEF TypeOK
      <3>2. \A k \in 1 .. Len(Tail(outbox[g])) :
              k + 1 \in 1 .. Len(outbox[g]) /\ Tail(outbox[g])[k] = outbox[g][k + 1]
        BY <1>2, <1>3
      <3> QED
        BY <3>1, <3>2
    <2> QED
      <3>1. UNCHANGED <<inbox, pc, id>>
        BY <1>2
      <3>2. \A h \in Gens : \A k \in 1 .. Len(outbox'[h]) : outbox'[h][k].kind = "resp" =>
              pc[outbox'[h][k].for] # "idle" /\ id[outbox'[h][k].for] = outbox'[h][k].id
        BY <2>1 DEF Wires
      <3> QED
        BY <3>1, <3>2, Zenon DEF Wires
  <1>6. /\ Tables' /\ Right'
        /\ responses' \in [Gens -> [Ids -> Requests \cup {NoRequest}]]
        /\ answer' \in [Requests -> Requests \cup {"empty", "closed"}]
        /\ rd' \in [Gens -> {"none", "read", "reply", "lock", "load", "write", "done"}]
        /\ routerClosed' \in [Gens -> BOOLEAN]
        /\ \A h \in Gens : rd'[h] # "none" => rd[h] # "none"
    <2>1. CASE m.kind = "resp" /\ Deliver(m) /\ UNCHANGED <<rd, routerClosed>>
      <3>1. m \in Response /\ pc[m.for] # "idle" /\ id[m.for] = m.id
        BY <1>3, <2>1, OutboxTypes, Zenon DEF Wires
      <3> QED
        BY <1>1, <1>2, <2>1, <3>1, DeliverTables DEF TypeOK
    <2>2. CASE /\ UNCHANGED <<routerClosed, responses, answer>>
               /\ rd' = rd \/ rd' = [rd EXCEPT ![g] = "reply"]
      <3>1. Tables' /\ Right'
        BY <1>2, <2>2, QuietTables, Zenon DEF reqVars, tableVars
      <3>2. rd' \in [Gens -> {"none", "read", "reply", "lock", "load", "write", "done"}]
        BY <2>2, Zenon DEF TypeOK
      <3>3. \A h \in Gens : rd'[h] # "none" => rd[h] # "none"
        BY <1>2, <2>2 DEF TypeOK
      <3> QED
        BY <2>2, <3>1, <3>2, <3>3, Zenon DEF TypeOK
    <2>3. CASE LoopEnds(g)
      <3>1. \A h \in Gens : rd'[h] # "none" => rd[h] # "none"
        BY <1>2, <2>3, Zenon DEF LoopEnds, TypeOK
      <3> QED
        BY <1>2, <2>3, <3>1, LoopEndsTables
    <2> QED
      BY <2>1, <2>2, <2>3, Zenon DEF readMessage
  <1>7. TypeOK'
    BY <1>2, <1>4, <1>6 DEF TypeOK, lockVars
  <1>8. Launched'
    BY <1>2, <1>6, Zenon DEF Launched
  <1> QED
    BY <1>5, <1>6, <1>7, <1>8

\* The other steps of the read loop: the end of the stream, and the reply to a request.
LEMMA LoopKeeps ==
  ASSUME RpcInv, NEW g \in Gens,
         \/ readEnds(g)
         \/ reply(g) /\ UNCHANGED <<cur, transport, cl, ct, pc, st, id, seq, wireVars>>
  PROVE  RpcInv'
  <1> USE DEF RpcInv
  <1>0. UNCHANGED <<cur, transport, cl, ct, pc, st, id, seq, wireVars>>
    BY Zenon DEF readEnds
  <1>1. rd[g] # "none" /\ cur \in Gens /\ g \in Writers
    <2>1. rd[g] # "none"
      BY Zenon DEF readEnds, reply
    <2> QED
      BY <2>1, ClientAssumption DEF Launched, TypeOK, Gens, Writers
  <1>2. Wires'
    BY <1>0, QuietWires DEF wireVars
  <1>3. CASE LoopEnds(g) /\ (Unlock(g) \/ UNCHANGED lockVars)
    <2>1. /\ writeMu' \in [Gens -> BOOLEAN] /\ fatal' \in BOOLEAN
          /\ lk' \in [Writers -> Gens] /\ un' \in [Writers -> Gens] /\ tr' \in [Writers -> 0 .. MaxGen]
      BY <1>1, <1>3, UnlockTypes, Zenon DEF TypeOK, lockVars
    <2>2. TypeOK' /\ Tables' /\ Right'
      BY <1>0, <1>1, <1>3, <2>1, LoopEndsTables, Zenon DEF TypeOK, wireVars
    <2>3. Launched'
      BY <1>0, <1>1, <1>3, Zenon DEF LoopEnds, Launched, TypeOK, wireVars
    <2> QED
      BY <1>2, <2>2, <2>3, Zenon
  <1>4. CASE /\ UNCHANGED <<routerClosed, responses, answer>>
             /\ \E to \in {"read", "lock", "load", "write"} : rd' = [rd EXCEPT ![g] = to]
             /\ writeMu' \in [Gens -> BOOLEAN] /\ fatal' \in BOOLEAN
             /\ lk' \in [Writers -> Gens] /\ un' \in [Writers -> Gens] /\ tr' \in [Writers -> 0 .. MaxGen]
    <2>1. rd' \in [Gens -> {"none", "read", "reply", "lock", "load", "write", "done"}]
      BY <1>4, Zenon DEF TypeOK
    <2>2. TypeOK'
      BY <1>0, <1>4, <2>1, Zenon DEF TypeOK, wireVars
    <2>3. Tables' /\ Right'
      BY <1>0, <1>4, QuietTables, Zenon DEF reqVars, tableVars
    <2>4. Launched'
      BY <1>0, <1>1, <1>4 DEF Launched, TypeOK, wireVars
    <2> QED
      BY <1>2, <2>2, <2>3, <2>4, Zenon
  <1>5. CASE readEnds(g)
    BY <1>3, <1>5, Zenon DEF readEnds
  <1>6. CASE reply(g)
    <2>1. CASE Unlock(g) /\ LoopEnds(g)
      BY <1>3, <2>1
    <2>2. CASE /\ lk' = [lk EXCEPT ![g] = cur] /\ rd' = [rd EXCEPT ![g] = "lock"]
               /\ UNCHANGED <<writeMu, un, tr, fatal, routerClosed, responses, answer>>
      <3>1. lk' \in [Writers -> Gens]
        BY <1>1, <2>2 DEF TypeOK
      <3> QED
        BY <1>4, <2>2, <3>1, Zenon DEF TypeOK
    <2>3. CASE /\ writeMu' = [writeMu EXCEPT ![lk[g]] = TRUE] /\ un' = [un EXCEPT ![g] = cur]
               /\ rd' = [rd EXCEPT ![g] = "load"]
               /\ UNCHANGED <<lk, tr, fatal, routerClosed, responses, answer>>
      <3>1. un' \in [Writers -> Gens] /\ writeMu' \in [Gens -> BOOLEAN]
        BY <1>1, <2>3 DEF TypeOK
      <3> QED
        BY <1>4, <2>3, <3>1, Zenon DEF TypeOK
    <2>4. CASE /\ tr' = [tr EXCEPT ![g] = transport] /\ rd' = [rd EXCEPT ![g] = "write"]
               /\ UNCHANGED <<writeMu, lk, un, fatal, routerClosed, responses, answer>>
      <3>1. tr' \in [Writers -> 0 .. MaxGen]
        BY <1>1, <2>4, Zenon DEF TypeOK
      <3> QED
        BY <1>4, <2>4, <3>1, Zenon DEF TypeOK
    <2>5. CASE Unlock(g) /\ rd' = [rd EXCEPT ![g] = "read"] /\ UNCHANGED <<routerClosed, responses, answer>>
      BY <1>1, <1>4, <2>5, UnlockTypes, Zenon
    <2> QED
      BY <1>6, <2>1, <2>2, <2>3, <2>4, <2>5, Zenon DEF reply
  <1> QED
    BY <1>5, <1>6

\* The server answers a request that reached it, sends something else, or exits.
LEMMA ServerKeeps ==
  ASSUME RpcInv, NEW g \in Gens, serverReply(g) \/ serverPush(g) \/ serverExit(g)
  PROVE  RpcInv'
  <1> USE DEF RpcInv
  <1>0. UNCHANGED <<conn, rd, lifeVars, lockVars, reqVars, tableVars>>
    BY DEF serverReply, serverPush, serverExit
  <1>1. Tables' /\ Right'
    BY <1>0, QuietTables DEF reqVars, tableVars
  <1>2. Launched'
    <2>1. \A h \in Gens : server'[h] # "none" => server[h] # "none"
      BY DEF serverReply, serverPush, serverExit, TypeOK
    <2> QED
      BY <1>0, <2>1, Zenon DEF Launched, lifeVars, reqVars
  <1>3. ASSUME NEW m \in Response \cup Pushed, outbox' = [outbox EXCEPT ![g] = Append(@, m)]
        PROVE  /\ outbox' \in [Gens -> Seq(Response \cup Pushed)]
               /\ \A h \in Gens : \A k \in 1 .. Len(outbox'[h]) :
                    \/ k \in 1 .. Len(outbox[h]) /\ outbox'[h][k] = outbox[h][k]
                    \/ h = g /\ outbox'[h][k] = m
    <2>1. outbox[g] \in Seq(Response \cup Pushed)
      BY DEF TypeOK
    <2>2. /\ Append(outbox[g], m) \in Seq(Response \cup Pushed)
          /\ \A k \in 1 .. Len(Append(outbox[g], m)) :
               \/ k \in 1 .. Len(outbox[g]) /\ Append(outbox[g], m)[k] = outbox[g][k]
               \/ Append(outbox[g], m)[k] = m
      BY <2>1
    <2>3. \A h \in Gens : outbox'[h] = IF h = g THEN Append(outbox[g], m) ELSE outbox[h]
      BY <1>3 DEF TypeOK
    <2>4. outbox' \in [Gens -> Seq(Response \cup Pushed)]
      BY <1>3, <2>2, Zenon DEF TypeOK
    <2> QED
      BY <2>2, <2>3, <2>4, Zenon
  <1>4. CASE serverReply(g)
    <2>1. PICK x \in inbox[g] :
            /\ inbox' = [inbox EXCEPT ![g] = @ \ {x}]
            /\ outbox' = [outbox EXCEPT ![g] = Append(@, [kind |-> "resp", id |-> x[1], for |-> x[2]])]
      BY <1>4, Zenon DEF serverReply
    <2> DEFINE m == [kind |-> "resp", id |-> x[1], for |-> x[2]]
    <2>0. inbox \in [Gens -> SUBSET (Ids \X Requests)]
      BY Zenon DEF TypeOK
    <2>2. x \in Ids \X Requests /\ m \in Response
      BY <2>0 DEF Response
    <2>3. inbox' \in [Gens -> SUBSET (Ids \X Requests)] /\ \A h \in Gens : inbox'[h] \subseteq inbox[h]
      BY <2>0, <2>1
    <2>6. /\ outbox' \in [Gens -> Seq(Response \cup Pushed)]
          /\ \A h \in Gens : \A k \in 1 .. Len(outbox'[h]) :
               \/ k \in 1 .. Len(outbox[h]) /\ outbox'[h][k] = outbox[h][k]
               \/ h = g /\ outbox'[h][k] = m
      BY <1>3, <2>1, <2>2, Zenon
    <2> HIDE DEF m
    <2>4. TypeOK'
      <3>1. UNCHANGED <<pushed, server, conn, rd>>
        BY <1>4, Zenon DEF serverReply
      <3> QED
        BY <1>0, <2>3, <2>6, <3>1, Zenon DEF TypeOK, lifeVars, lockVars, reqVars, tableVars
    <2>5. Wires'
      <3>1. m.kind = "resp" /\ pc[m.for] # "idle" /\ id[m.for] = m.id
        BY <2>2, Zenon DEF Wires, m
      <3>2. UNCHANGED <<pc, id>>
        BY <1>0 DEF reqVars
      <3>3. \A h \in Gens : \A y \in inbox'[h] : pc[y[2]] # "idle" /\ id[y[2]] = y[1]
        BY <2>3, Zenon DEF Wires
      <3>4. \A h \in Gens : \A k \in 1 .. Len(outbox'[h]) : outbox'[h][k].kind = "resp" =>
              pc[outbox'[h][k].for] # "idle" /\ id[outbox'[h][k].for] = outbox'[h][k].id
        BY <2>6, <3>1, Zenon DEF Wires
      <3> QED
        BY <3>2, <3>3, <3>4, Zenon DEF Wires
    <2> QED
      BY <1>1, <1>2, <2>4, <2>5, Zenon
  <1>5. CASE serverPush(g)
    <2>1. PICK m \in Pushed : outbox' = [outbox EXCEPT ![g] = Append(@, m)]
      BY <1>5 DEF serverPush
    <2>2. pushed' \in [Gens -> 0 .. MaxPushed]
      <3>1. pushed[g] \in 0 .. MaxPushed /\ pushed[g] < MaxPushed /\ MaxPushed \in Nat
        BY <1>5, ClientAssumption, Zenon DEF serverPush, TypeOK
      <3>2. pushed[g] + 1 \in 0 .. MaxPushed
        BY <3>1
      <3> QED
        BY <1>5, <3>2, Zenon DEF serverPush, TypeOK
    <2>6. /\ outbox' \in [Gens -> Seq(Response \cup Pushed)]
          /\ \A h \in Gens : \A k \in 1 .. Len(outbox'[h]) :
               \/ k \in 1 .. Len(outbox[h]) /\ outbox'[h][k] = outbox[h][k]
               \/ h = g /\ outbox'[h][k] = m
      BY <1>3, <2>1
    <2>3. TypeOK'
      <3>1. UNCHANGED <<inbox, server>>
        BY <1>5 DEF serverPush
      <3> QED
        BY <1>0, <2>2, <2>6, <3>1, Zenon DEF TypeOK, lifeVars, lockVars, reqVars, tableVars
    <2>4. m.kind # "resp"
      BY DEF Pushed
    <2>5. Wires'
      <3>1. UNCHANGED <<inbox, pc, id>>
        BY <1>0, <1>5, Zenon DEF serverPush, reqVars
      <3>2. \A h \in Gens : \A k \in 1 .. Len(outbox'[h]) : outbox'[h][k].kind = "resp" =>
              pc[outbox'[h][k].for] # "idle" /\ id[outbox'[h][k].for] = outbox'[h][k].id
        BY <2>4, <2>6, Zenon DEF Wires
      <3> QED
        BY <3>1, <3>2, Zenon DEF Wires
    <2> QED
      BY <1>1, <1>2, <2>3, <2>5, Zenon
  <1>6. CASE serverExit(g)
    <2>1. TypeOK'
      BY <1>0, <1>6, Zenon DEF serverExit, TypeOK, lifeVars, lockVars, reqVars, tableVars
    <2>2. Wires'
      BY <1>0, <1>6, QuietWires, Zenon DEF serverExit, reqVars
    <2> QED
      BY <1>1, <1>2, <2>1, <2>2
  <1> QED
    BY <1>4, <1>5, <1>6, Zenon

\* Start and Close.
LEMMA LifeKeeps ==
  ASSUME RpcInv, startState \/ startTransport \/ closeBegin \/ closeStep
  PROVE  RpcInv'
  <1> USE DEF RpcInv
  <1>0. UNCHANGED <<inbox, outbox, pushed, lockVars, seq, pc, st, id>>
    BY Zenon DEF startState, startTransport, closeBegin, closeStep, closeRouter, closeFailPending,
           closeTransport, closeStore, wireVars, reqVars, tableVars
  <1>1. Wires'
    BY <1>0, QuietWires, Zenon
  <1>2. CASE UNCHANGED <<responses, answer>>
    <2>1. Tables' /\ Right'
      BY <1>0, <1>2, QuietTables DEF reqVars, tableVars
    <2>2. CASE startState
      <3>1. cur' \in 0 .. MaxGen /\ cur' = cur + 1 /\ cur \in Nat
        <4>1. cur \in 0 .. MaxGen
          BY Zenon DEF TypeOK
        <4>2. cur < MaxGen /\ cur' = cur + 1
          BY <2>2, Zenon DEF startState
        <4> QED
          BY <4>1, <4>2, ClientAssumption
      <3>2. TypeOK'
        BY <1>0, <1>2, <2>2, <3>1, Zenon DEF startState, TypeOK, lockVars, wireVars
      <3>3. Launched'
        BY <1>0, <2>2, <3>1 DEF startState, Launched, wireVars, Gens
      <3> QED
        BY <1>1, <2>1, <3>2, <3>3
    <2>3. CASE startTransport
      <3>1. cur \in Gens /\ cur >= 1
        BY <2>3, CurrentGen DEF startTransport, Launched
      <3>2. /\ transport' \in 0 .. MaxGen
            /\ conn' \in [Gens -> {"none", "open", "closed"}]
            /\ server' \in [Gens -> {"none", "running", "exited"}]
            /\ rd' \in [Gens -> {"none", "read", "reply", "lock", "load", "write", "done"}]
        <4>1. CASE UNCHANGED <<transport, conn, server, rd>>
          BY <4>1, Zenon DEF TypeOK
        <4>2. CASE /\ transport' = cur /\ conn' = [conn EXCEPT ![cur] = "open"]
                   /\ server' = [server EXCEPT ![cur] = "running"] /\ rd' = [rd EXCEPT ![cur] = "read"]
          BY <4>2 DEF TypeOK
        <4> QED
          BY <2>3, <4>1, <4>2, Zenon DEF startTransport
      <3>0. cl' = "idle" /\ UNCHANGED <<cur, ct, routerClosed>>
        BY <2>3, Zenon DEF startTransport
      <3>3. TypeOK'
        BY <1>0, <1>2, <3>0, <3>2, Zenon DEF TypeOK, lockVars
      <3>4. \A h \in Gens : /\ server'[h] # "none" => server[h] # "none" \/ h = cur
                            /\ rd'[h] # "none" => rd[h] # "none" \/ h = cur
        <4>1. CASE UNCHANGED <<server, rd>>
          BY <4>1, Zenon
        <4>2. CASE server' = [server EXCEPT ![cur] = "running"] /\ rd' = [rd EXCEPT ![cur] = "read"]
          <5>1. DOMAIN server = Gens /\ DOMAIN rd = Gens
            BY DEF TypeOK
          <5> QED
            BY <4>2, <5>1
        <4> QED
          BY <2>3, <4>1, <4>2, Zenon DEF startTransport
      <3>5. Launched'
        <4>1. \A h \in Gens : (server'[h] # "none" \/ rd'[h] # "none") => h <= cur
          <5>1. cur <= cur
            BY <3>1, CurrentGen
          <5> QED
            BY <3>4, <5>1, Zenon DEF Launched
        <4> QED
          BY <1>0, <3>0, <3>1, <4>1, Zenon DEF Launched
      <3> QED
        BY <1>1, <2>1, <3>3, <3>5
    <2>4. CASE closeBegin \/ closeRouter \/ closeTransport \/ closeStore
      <3>1. cur >= 1 /\ UNCHANGED <<cur, rd, server>>
        BY <2>4, Zenon DEF closeBegin, closeRouter, closeTransport, closeStore, Launched, wireVars
      <3>2. TypeOK'
        <4>1. /\ ct' \in 0 .. MaxGen /\ transport' \in 0 .. MaxGen
              /\ cl' \in {"idle", "starting", "router", "fail", "conn", "lock"}
          <5>1. 0 \in 0 .. MaxGen
            BY ClientAssumption
          <5>2. ct' \in {ct, transport} /\ transport' \in {transport, 0} /\ cl' \in {"router", "fail", "lock", "idle"}
            BY <2>4, Zenon DEF closeBegin, closeRouter, closeTransport, closeStore
          <5> QED
            BY <5>1, <5>2, Zenon DEF TypeOK
        <4>2. /\ routerClosed' \in [Gens -> BOOLEAN]
              /\ conn' \in [Gens -> {"none", "open", "closed"}]
          BY <2>4, Zenon DEF closeBegin, closeRouter, closeTransport, closeStore, TypeOK, wireVars
        <4> QED
          BY <1>0, <1>2, <3>1, <4>1, <4>2, Zenon DEF TypeOK, lockVars
      <3>3. Launched'
        BY <1>0, <3>1, Zenon DEF Launched
      <3> QED
        BY <1>1, <2>1, <3>2, <3>3
    <2>5. CASE closeFailPending
      <3>1. cur >= 1 /\ UNCHANGED <<cur, rd, server>>
        BY <2>5 DEF closeFailPending, Launched, wireVars
      <3>2. TypeOK'
        BY <1>0, <1>2, <2>5, Zenon DEF closeFailPending, TypeOK, lockVars, wireVars
      <3>3. Launched'
        BY <1>0, <3>1 DEF Launched
      <3> QED
        BY <1>1, <2>1, <3>2, <3>3
    <2> QED
      BY <2>2, <2>3, <2>4, <2>5, Zenon DEF closeStep
  <1>3. CASE closeFailPending
    <2>1. cur >= 1 /\ cur \in Gens
      BY <1>3, CurrentGen DEF closeFailPending, Launched
    <2>2. /\ Tables' /\ Right'
          /\ responses' \in [Gens -> [Ids -> Requests \cup {NoRequest}]]
          /\ answer' \in [Requests -> Requests \cup {"empty", "closed"}]
      BY <1>0, <1>3, <2>1, FailTables DEF closeFailPending
    <2>3. TypeOK'
      <3>1. cl' = "conn" /\ UNCHANGED <<cur, transport, ct, routerClosed, rd, wireVars>>
        BY <1>3, Zenon DEF closeFailPending
      <3> QED
        BY <1>0, <2>2, <3>1, Zenon DEF TypeOK, lockVars, wireVars
    <2>4. Launched'
      BY <1>0, <1>3, <2>1, Zenon DEF closeFailPending, Launched, wireVars
    <2> QED
      BY <1>1, <2>2, <2>3, <2>4, Zenon
  <1> QED
    BY <1>2, <1>3 DEF startState, startTransport, closeBegin, closeStep, closeRouter,
       closeTransport, closeStore, reqVars, tableVars

\* Every step preserves the invariant.
LEMMA NextRpcInv == RpcInv /\ [Next]_vars => RpcInv'
  <1> SUFFICES ASSUME RpcInv, [Next]_vars
               PROVE  RpcInv'
    OBVIOUS
  <1>1. ASSUME NEW r \in Requests, requestStep(r) \/ cancel(r)
        PROVE  RpcInv'
    BY <1>1, RegisterKeeps, RequestKeeps, Zenon DEF requestStep
  <1>2. ASSUME NEW g \in Gens, readLoop(g) \/ serverReply(g) \/ serverPush(g) \/ serverExit(g)
        PROVE  RpcInv'
    BY <1>2, ReadKeeps, LoopKeeps, ServerKeeps DEF readLoop
  <1>3. CASE startState \/ startTransport \/ closeBegin \/ closeStep
    BY <1>3, LifeKeeps, Zenon
  <1>4. CASE UNCHANGED vars
    <2>1. TypeOK' /\ Launched'
      BY <1>4, Zenon DEF vars, lifeVars, tableVars, wireVars, lockVars, reqVars, RpcInv, TypeOK, Launched
    <2>2. Tables' /\ Right'
      BY <1>4, QuietTables, Zenon DEF vars, tableVars, reqVars, RpcInv
    <2>3. Wires'
      BY <1>4, QuietWires DEF vars, wireVars, reqVars, RpcInv
    <2> QED
      BY <2>1, <2>2, <2>3 DEF RpcInv
  <1> QED
    BY <1>1, <1>2, <1>3, <1>4, Zenon DEF Next

\* The invariant holds in every state.
LEMMA RpcInvariant == Spec => []RpcInv
  BY InitRpcInv, NextRpcInv, PTL DEF Spec

\* Tables, pipes, locks and goroutines of the client keep their types, for every number
\* of requests, of Starts and of messages: no id outgrows the table.
THEOREM RpcTypeCorrect == Spec => []TypeOK
  <1>1. RpcInv => TypeOK
    BY DEF RpcInv
  <1> QED
    BY <1>1, RpcInvariant, PTL

\* A request that is in a table has an empty response channel, whatever Close, Start and
\* the read loops of several generations do: the sends of deliverResponse and failPending
\* never block and no request is answered twice.
THEOREM RpcOneAnswer == Spec => []OneAnswer
  <1>1. RpcInv => OneAnswer
    BY Zenon DEF RpcInv, Tables, Entries, OneAnswer
  <1> QED
    BY <1>1, RpcInvariant, PTL

\* A request that waits in requestRaw's select is in its table, where a response or
\* failPending finds it, or has its answer.
THEOREM RpcWaitingIsTracked == Spec => []WaitingIsTracked
  <1>1. RpcInv => WaitingIsTracked
    BY DEF RpcInv, Tables, Tracked, WaitingIsTracked, TypeOK, Active
  <1> QED
    BY <1>1, RpcInvariant, PTL

\* Every request of a client that is started once receives the response to this request,
\* however many requests are in flight and in whatever order the server answers them.
THEOREM RpcRightResponse == ASSUME MaxGen = 1 PROVE Spec => []RightResponse
  <1>1. RpcInv => RightResponse
    BY DEF RpcInv, Right
  <1> QED
    BY <1>1, RpcInvariant, PTL
=============================================================================
