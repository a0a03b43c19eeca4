------------------------ MODULE TurnRouterInvariant -------------------------
(***************************************************************************)
(* The inductive invariant of the notification router, what it needs to know*)
(* about buffers, and the actions that change no queue of a scope, or fill, *)
(* close and read one.                                                     *)
(***************************************************************************)
EXTENDS TurnRouter, SequenceTheorems, TLAPS

\* Facts of the reachable states that the properties rest on.
Support ==
  /\ \A c \in Sessions : pc[c] = "next" => at[c] # NoQueue
  /\ \A c \in Sessions : pc[c] # "idle" /\ scope[c] \notin Procs => ~released[c]
  /\ \A c \in Sessions, s \in Scopes : pc[c] = "next" /\ queues[s] # NoQueue /\ at[c] = queues[s] => scope[c] = s
  /\ \A s \in Procs : pending[s] = <<>> /\ pendingDropped[s] = 0
  /\ \A c \in Sessions : pc[c] = "clear" => scope[c] \notin Procs
  /\ closed => \A s \in Scopes : queues[s] = NoQueue

RInv ==
  /\ TypeOK /\ Support
  /\ ScopeAccounting /\ NothingPendingBehindConsumer /\ OneConsumer /\ RegisteredQueueOpen

-----------------------------------------------------------------------------
(* Buffers *)

LEMMA EmptyAccounted ==
  ASSUME NEW n \in Nat
  PROVE Accounted(n, 0, <<>>, n)
<1>1. Len(<<>>) = 0 /\ 1 .. 0 = {}
  OBVIOUS
<1> QED
  BY <1>1, RouterAssumption DEF Accounted

LEMMA PushAccounted ==
  ASSUME NEW sn \in Nat, NEW l \in Nat, NEW n \in Nat, NEW b \in Seq(Nat), Accounted(sn, l, b, n)
  PROVE /\ PushOldestOut(b, n + 1) \in Seq(Nat)
        /\ Accounted(sn, l + (IF Len(b) < Cap THEN 0 ELSE 1), PushOldestOut(b, n + 1), n + 1)
<1>1. CASE Len(b) < Cap
  <2> DEFINE p == Append(b, n + 1)
  <2>1. /\ p \in Seq(Nat) /\ Len(p) = Len(b) + 1
        /\ \A i \in 1 .. Len(b) : p[i] = b[i]
        /\ p[Len(b) + 1] = n + 1
    OBVIOUS
  <2>2. PushOldestOut(b, n + 1) = p
    BY <1>1 DEF PushOldestOut
  <2> HIDE DEF p
  <2>0. Len(b) \in Nat /\ Cap \in Nat /\ sn + l + Len(b) = n
    BY RouterAssumption DEF Accounted
  <2>3. Len(p) <= Cap /\ sn + l + Len(p) = n + 1 /\ Len(b) \in Nat
    BY <1>1, <2>0, <2>1
  <2>4. ASSUME NEW i \in 1 .. Len(p) PROVE p[i] = sn + l + i
    <3>1. CASE i = Len(b) + 1
      BY <3>1, <2>1, <2>3
    <3>2. CASE i # Len(b) + 1
      <4>1. i \in 1 .. Len(b)
        BY <3>2, <2>1, <2>3
      <4> QED
        BY <4>1, <2>1 DEF Accounted
    <3> QED
      BY <3>1, <3>2
  <2>5. Accounted(sn, l, p, n + 1)
    BY <2>3, <2>4 DEF Accounted
  <2> QED
    BY <1>1, <2>1, <2>2, <2>5
<1>2. CASE ~(Len(b) < Cap)
  <2> DEFINE u == Tail(b)
             p == Append(u, n + 1)
  <2>1. Len(b) = Cap /\ b # <<>> /\ Len(b) \in Nat
    BY <1>2, RouterAssumption DEF Accounted
  <2>2. /\ u \in Seq(Nat) /\ Len(u) = Len(b) - 1
        /\ \A i \in 1 .. Len(u) : u[i] = b[i + 1]
    BY <2>1
  <2> HIDE DEF u
  <2>3. /\ p \in Seq(Nat) /\ Len(p) = Len(u) + 1
        /\ \A i \in 1 .. Len(u) : p[i] = u[i]
        /\ p[Len(u) + 1] = n + 1
    BY <2>2
  <2>4. PushOldestOut(b, n + 1) = p
    BY <1>2 DEF PushOldestOut, u
  <2> HIDE DEF p
  <2>5. /\ Len(p) <= Cap /\ sn + (l + 1) + Len(p) = n + 1
    BY <2>1, <2>2, <2>3, RouterAssumption DEF Accounted
  <2>6. ASSUME NEW i \in 1 .. Len(p) PROVE p[i] = sn + (l + 1) + i
    <3>1. CASE i = Len(p)
      <4>1. Len(u) \in Nat
        BY <2>2
      <4>2. p[i] = n + 1
        BY <3>1, <2>3
      <4> QED
        BY <3>1, <4>1, <4>2, <2>3, <2>5, n + 1 \in Nat, sn + (l + 1) + i \in Nat
    <3>2. CASE i # Len(p)
      <4>0. Len(b) \in Nat /\ Len(u) = Len(b) - 1 /\ Len(p) = Len(u) + 1
        BY <2>1, <2>2, <2>3
      <4>1. i \in 1 .. Len(u) /\ i + 1 \in 1 .. Len(b)
        BY <3>2, <4>0
      <4>2. p[i] = b[i + 1]
        BY <4>1, <2>2, <2>3
      <4>3. b[i + 1] = sn + l + (i + 1)
        BY <4>1 DEF Accounted
      <4> QED
        BY <4>2, <4>3
    <3> QED
      BY <3>1, <3>2
  <2>7. Accounted(sn, l + 1, p, n + 1)
    BY <2>5, <2>6 DEF Accounted
  <2> QED
    BY <1>2, <2>3, <2>4, <2>7
<1> QED
  BY <1>1, <1>2

LEMMA PopAccounted ==
  ASSUME NEW sn \in Nat, NEW n \in Nat, NEW b \in Seq(Nat), b # <<>>, Accounted(sn, 0, b, n)
  PROVE Tail(b) \in Seq(Nat) /\ Accounted(sn + 1, 0, Tail(b), n)
<1> DEFINE u == Tail(b)
<1>1. /\ u \in Seq(Nat) /\ Len(u) = Len(b) - 1 /\ Len(b) \in Nat
      /\ \A i \in 1 .. Len(u) : u[i] = b[i + 1]
  BY HeadTailProperties
<1> HIDE DEF u
<1>0. Len(b) <= Cap /\ Cap \in Nat /\ sn + 0 + Len(b) = n
  BY RouterAssumption DEF Accounted
<1>2. Len(u) <= Cap /\ (sn + 1) + 0 + Len(u) = n
  <2>1. Len(b) \in Nat /\ Len(u) = Len(b) - 1
    BY <1>1
  <2> QED
    BY <1>0, <2>1
<1>3. ASSUME NEW i \in 1 .. Len(u) PROVE u[i] = (sn + 1) + 0 + i
  <2>1. i + 1 \in 1 .. Len(b)
    BY <1>1
  <2> QED
    BY <1>1, <2>1 DEF Accounted
<1>4. Accounted(sn + 1, 0, u, n)
  BY <1>2, <1>3 DEF Accounted
<1> QED
  BY <1>1, <1>4 DEF u

LEMMA ReportAccounted ==
  ASSUME NEW sn \in Nat, NEW l \in Nat, NEW n \in Nat, NEW b \in Seq(Nat), Accounted(sn, l, b, n)
  PROVE Accounted(sn + l, 0, b, n)
BY DEF Accounted
-----------------------------------------------------------------------------
(* Steps *)

LEMMA InitRInv == Init => RInv
<1> SUFFICES ASSUME Init PROVE RInv
  OBVIOUS
<1>1. TypeOK
  <2>1. <<>> \in Seq(Queue) /\ <<>> \in Seq(Nat) /\ Len(<<>>) = 0
    OBVIOUS
  <2>2. closed \in BOOLEAN /\ globalClosed \in BOOLEAN /\ released \in [Sessions -> BOOLEAN]
    BY Zenon DEF Init
  <2>3. /\ objs \in Seq(Queue) /\ global \in Seq(Nat) /\ pending \in [Scopes -> Seq(Nat)]
    BY <2>1 DEF Init
  <2> QED
    BY <2>1, <2>2, <2>3 DEF Init, TypeOK, NoQueue
<1>2. Support
  BY DEF Init, Support, Scopes
<1>3. ScopeAccounting
  <2>1. ASSUME NEW s \in Scopes PROVE Accounted(seen[s], Lost(s), Waiting(s), routed[s])
    BY EmptyAccounted DEF Init, Lost, Waiting
  <2> QED
    BY <2>1 DEF ScopeAccounting
<1>4. NothingPendingBehindConsumer /\ OneConsumer /\ RegisteredQueueOpen
  BY DEF Init, NothingPendingBehindConsumer, OneConsumer, RegisteredQueueOpen
<1> QED
  BY <1>1, <1>2, <1>3, <1>4 DEF RInv

\* What holds of the queues holds as long as nobody touches them.
LEMMA QueuesKept ==
  ASSUME RInv, UNCHANGED <<closed, objs, closing, mapVars, countVars>>
  PROVE  ScopeAccounting' /\ NothingPendingBehindConsumer' /\ RegisteredQueueOpen'
<1>u. /\ closed' = closed /\ objs' = objs /\ closing' = closing /\ queues' = queues
      /\ pending' = pending /\ pendingDropped' = pendingDropped /\ routed' = routed /\ seen' = seen
  BY DEF mapVars, countVars
<1>1. ScopeAccounting'
  <2>1. ASSUME NEW s \in Scopes PROVE Waiting(s)' = Waiting(s) /\ Lost(s)' = Lost(s)
    BY <1>u, Zenon DEF Waiting, Lost
  <2> QED
    BY <1>u, <2>1 DEF RInv, ScopeAccounting
<1>2. NothingPendingBehindConsumer'
  BY <1>u, Zenon DEF RInv, NothingPendingBehindConsumer
<1>3. RegisteredQueueOpen'
  BY <1>u, Zenon DEF RInv, RegisteredQueueOpen
<1> QED
  BY <1>1, <1>2, <1>3, Zenon

\* A step on the global channel and its readers concerns only their types.
LEMMA ChannelStepKeeps ==
  ASSUME RInv, UNCHANGED <<closed, objs, closing, sessionVars, mapVars, countVars>>,
         global' \in Seq(Nat), groute' \in Nat, globalClosed' \in BOOLEAN,
         mu' \in {"free", "evict", "send"}, rpc' \in [Readers -> {"idle", "select"}]
  PROVE  RInv'
<1>u. /\ closed' = closed /\ objs' = objs /\ closing' = closing /\ queues' = queues
      /\ pending' = pending /\ pendingDropped' = pendingDropped /\ routed' = routed /\ seen' = seen
      /\ pc' = pc /\ scope' = scope /\ at' = at /\ released' = released
  BY DEF mapVars, countVars, sessionVars
<1>1. TypeOK'
  BY <1>u, Zenon DEF RInv, TypeOK
<1>2. Support'
  BY <1>u DEF RInv, Support
<1>3. OneConsumer'
  BY <1>u DEF RInv, OneConsumer
<1>4. ScopeAccounting' /\ NothingPendingBehindConsumer' /\ RegisteredQueueOpen'
  BY QueuesKept, Zenon
<1> QED
  BY <1>1, <1>2, <1>3, <1>4, Zenon DEF RInv

LEMMA RouteGlobalKeeps ==
  ASSUME RInv, routeGlobal
  PROVE  RInv'
<1>1. global \in Seq(Nat) /\ groute \in Nat
  BY Zenon DEF RInv, TypeOK
<1>2. groute + 1 \in Nat /\ Append(global, groute + 1) \in Seq(Nat)
  BY <1>1
<1>3. global' \in Seq(Nat) /\ groute' \in Nat /\ mu' \in {"free", "evict", "send"}
  BY <1>1, <1>2 DEF routeGlobal
<1>4. /\ UNCHANGED <<closed, objs, closing, sessionVars, mapVars, countVars>>
      /\ globalClosed' = globalClosed /\ rpc' = rpc
  BY Zenon DEF routeGlobal
<1>5. globalClosed \in BOOLEAN /\ rpc \in [Readers -> {"idle", "select"}]
  BY Zenon DEF RInv, TypeOK
<1> QED
  BY <1>3, <1>4, <1>5, ChannelStepKeeps, Zenon

LEMMA EvictOrSendKeeps ==
  ASSUME RInv, routeEvict \/ routeSend
  PROVE  RInv'
<1>1. global \in Seq(Nat) /\ groute \in Nat
  BY Zenon DEF RInv, TypeOK
<1>2. Append(global, groute) \in Seq(Nat) /\ (global # <<>> => Tail(global) \in Seq(Nat))
  BY <1>1
<1>3. global' \in Seq(Nat) /\ groute' \in Nat /\ mu' \in {"free", "evict", "send"}
  BY <1>1, <1>2 DEF routeEvict, routeSend
<1>4. /\ UNCHANGED <<closed, objs, closing, sessionVars, mapVars, countVars>>
      /\ globalClosed' = globalClosed /\ rpc' = rpc
  BY Zenon DEF routeEvict, routeSend
<1>5. globalClosed \in BOOLEAN /\ rpc \in [Readers -> {"idle", "select"}]
  BY Zenon DEF RInv, TypeOK
<1> QED
  BY <1>3, <1>4, <1>5, ChannelStepKeeps, Zenon

LEMMA CloseGlobalKeeps ==
  ASSUME RInv, closeGlobal
  PROVE  RInv'
<1>1. /\ UNCHANGED <<closed, objs, closing, sessionVars, mapVars, countVars>>
      /\ global' = global /\ groute' = groute /\ mu' = mu /\ rpc' = rpc /\ globalClosed' = TRUE
  BY Zenon DEF closeGlobal
<1>2. /\ global \in Seq(Nat) /\ groute \in Nat /\ mu \in {"free", "evict", "send"}
      /\ rpc \in [Readers -> {"idle", "select"}]
  BY Zenon DEF RInv, TypeOK
<1>3. globalClosed' \in BOOLEAN
  BY <1>1, Zenon
<1> QED
  BY <1>1, <1>2, <1>3, ChannelStepKeeps, Zenon

LEMMA ReaderKeeps ==
  ASSUME RInv, NEW g \in Readers, nextGlobal(g) \/ globalReceive(g) \/ globalEnd(g) \/ globalCancel(g)
  PROVE  RInv'
<1>1. /\ UNCHANGED <<closed, objs, closing, sessionVars, mapVars, countVars>>
      /\ globalClosed' = globalClosed /\ mu' = mu /\ groute' = groute
  BY Zenon DEF nextGlobal, globalReceive, globalEnd, globalCancel, channelVars
<1>2. /\ global \in Seq(Nat) /\ groute \in Nat /\ mu \in {"free", "evict", "send"}
      /\ globalClosed \in BOOLEAN /\ rpc \in [Readers -> {"idle", "select"}]
  BY Zenon DEF RInv, TypeOK
<1>3. global' \in Seq(Nat)
  <2>1. global # <<>> => Tail(global) \in Seq(Nat)
    BY <1>2
  <2> QED
    BY <1>2, <2>1, Zenon DEF nextGlobal, globalReceive, globalEnd, globalCancel, channelVars
<1>4. rpc' \in [Readers -> {"idle", "select"}]
  BY <1>2 DEF nextGlobal, globalReceive, globalEnd, globalCancel
<1> QED
  BY <1>1, <1>2, <1>3, <1>4, ChannelStepKeeps, Zenon

LEMMA ExitLabelFacts ==
  ASSUME NEW s \in Scopes
  PROVE  /\ ExitLabels(s) \subseteq {"active", "clear", "release"}
         /\ DoneLabels(s) \subseteq {"clear", "release"}
         /\ "clear" \in ExitLabels(s) \cup DoneLabels(s) => s \notin Procs
  BY RouterAssumption DEF ExitLabels, DoneLabels, Scopes

LEMMA LeaveKeeps ==
  ASSUME RInv, NEW c \in Sessions, NEW L, Leave(c, L), pc[c] # "idle",
         L \subseteq {"active", "clear", "release"}, "clear" \in L => scope[c] \notin Procs,
         UNCHANGED <<closed, mapVars, scope, released>>, Len(objs') = Len(objs)
  PROVE  /\ pc' \in [Sessions -> {"idle", "active", "next", "clear", "release"}]
         /\ at' \in [Sessions -> 0 .. Len(objs')]
         /\ Support' /\ OneConsumer' /\ NothingPendingBehindConsumer'
<1> USE DEF mapVars
<1>1. PICK l \in L : pc' = [pc EXCEPT ![c] = l]
  BY Zenon DEF Leave
<1>2. Len(objs) \in Nat
  BY DEF RInv, TypeOK
<1>3. /\ pc \in [Sessions -> {"idle", "active", "next", "clear", "release"}]
      /\ at \in [Sessions -> 0 .. Len(objs)]
  BY DEF RInv, TypeOK
<1>4. /\ pc' \in [Sessions -> {"idle", "active", "next", "clear", "release"}]
      /\ at' \in [Sessions -> 0 .. Len(objs')]
  BY <1>1, <1>2, <1>3 DEF Leave, NoQueue
<1>5. /\ pc'[c] = l /\ l \notin {"idle", "next"} /\ (l = "clear" => scope[c] \notin Procs)
      /\ \A d \in Sessions \ {c} : pc'[d] = pc[d] /\ at'[d] = at[d]
  BY <1>1, <1>3 DEF Leave
<1>6. Support'
  BY <1>5 DEF RInv, Support
<1>7. OneConsumer' /\ NothingPendingBehindConsumer'
  BY <1>5 DEF RInv, OneConsumer, NothingPendingBehindConsumer
<1> QED
  BY <1>4, <1>6, <1>7

LEMMA QuietLeaveKeeps ==
  ASSUME RInv, NEW c \in Sessions, NEW L, Leave(c, L), pc[c] # "idle",
         L \subseteq {"active", "clear", "release"}, "clear" \in L => scope[c] \notin Procs,
         UNCHANGED <<closed, objs, closing, scope, released, rpc, channelVars, mapVars, countVars>>
  PROVE  RInv'
<1> USE DEF mapVars, channelVars, countVars
<1>1. Len(objs') = Len(objs)
  OBVIOUS
<1>2. /\ pc' \in [Sessions -> {"idle", "active", "next", "clear", "release"}]
      /\ at' \in [Sessions -> 0 .. Len(objs')]
      /\ Support' /\ OneConsumer' /\ NothingPendingBehindConsumer'
  BY <1>1, LeaveKeeps, Zenon
<1>3. TypeOK'
  BY <1>2, Zenon DEF RInv, TypeOK
<1>4. ScopeAccounting' /\ RegisteredQueueOpen'
  BY QueuesKept, Zenon
<1> QED
  BY <1>2, <1>3, <1>4 DEF RInv

LEMMA NextLookupKeeps ==
  ASSUME RInv, NEW c \in Sessions, next(c)
  PROVE  RInv'
<1>0. scope[c] \in Scopes /\ pc[c] # "idle"
  BY DEF RInv, TypeOK, next
<1>u. UNCHANGED <<closed, objs, closing, scope, released, rpc, channelVars, mapVars, countVars>>
  BY DEF next
<1>1. CASE closed /\ Leave(c, ExitLabels(scope[c]) \ {"active"})
  <2> DEFINE L == ExitLabels(scope[c]) \ {"active"}
  <2>1. L \subseteq {"active", "clear", "release"} /\ ("clear" \in L => scope[c] \notin Procs)
    BY <1>0, ExitLabelFacts
  <2> HIDE DEF L
  <2>2. Leave(c, L)
    BY <1>1 DEF L
  <2> QED
    BY <1>0, <1>u, <2>1, <2>2, QuietLeaveKeeps, Zenon
<1>2. CASE ~closed /\ Leave(c, {"release"})
  BY <1>0, <1>u, <1>2, QuietLeaveKeeps
<1>3. CASE /\ ~closed /\ queues[scope[c]] # NoQueue
           /\ at' = [at EXCEPT ![c] = queues[scope[c]]]
           /\ pc' = [pc EXCEPT ![c] = "next"]
  <2> USE DEF mapVars, channelVars, countVars
  <2>1. TypeOK'
    BY <1>0, <1>3, <1>u, Zenon DEF RInv, TypeOK
  <2>2. /\ pc'[c] = "next" /\ at'[c] = queues[scope[c]]
        /\ \A d \in Sessions \ {c} : pc'[d] = pc[d] /\ at'[d] = at[d]
    BY <1>3 DEF RInv, TypeOK
  <2>3. Support'
    <3>1. \A s \in Scopes : queues[s] # NoQueue /\ queues[scope[c]] = queues[s] => scope[c] = s
      BY <1>0 DEF RInv, RegisteredQueueOpen
    <3>2. pc[c] = "active"
      BY DEF next
    <3> QED
      BY <1>0, <1>3, <1>u, <2>2, <3>1, <3>2 DEF RInv, Support
  <2>4. ScopeAccounting' /\ RegisteredQueueOpen' /\ NothingPendingBehindConsumer'
    BY <1>u, QueuesKept, Zenon
  <2>5. OneConsumer'
    BY <1>0, <1>u, <2>2, Zenon DEF RInv, OneConsumer
  <2> QED
    BY <2>1, <2>3, <2>4, <2>5 DEF RInv
<1> QED
  BY <1>1, <1>2, <1>3 DEF next

LEMMA NextClosedKeeps ==
  ASSUME RInv, NEW c \in Sessions, nextClosed(c) \/ nextCancel(c)
  PROVE  RInv'
<1>0. scope[c] \in Scopes /\ pc[c] # "idle"
  BY DEF RInv, TypeOK, nextClosed, nextCancel
<1>u. UNCHANGED <<closed, objs, closing, scope, released, rpc, channelVars, mapVars, countVars>>
  BY DEF nextClosed, nextCancel
<1>1. PICK L : Leave(c, L) /\ L \subseteq ExitLabels(scope[c])
  BY DEF nextClosed, nextCancel
<1>2. L \subseteq {"active", "clear", "release"} /\ ("clear" \in L => scope[c] \notin Procs)
  BY <1>0, <1>1, ExitLabelFacts
<1> QED
  BY <1>0, <1>1, <1>2, <1>u, QuietLeaveKeeps, Zenon

LEMMA SpawnFailsKeeps ==
  ASSUME RInv, NEW c \in Sessions, spawnFails(c)
  PROVE  RInv'
<1>u. /\ UNCHANGED <<closed, objs, closing, scope, at, released, rpc, channelVars, mapVars, countVars>>
      /\ scope[c] \in Procs /\ pc[c] = "active" /\ pc' = [pc EXCEPT ![c] = "release"]
  BY Zenon DEF spawnFails
<1> USE DEF mapVars, channelVars, countVars
<1>1. /\ pc' \in [Sessions -> {"idle", "active", "next", "clear", "release"}]
      /\ pc'[c] = "release" /\ \A d \in Sessions \ {c} : pc'[d] = pc[d]
  <2>1. pc \in [Sessions -> {"idle", "active", "next", "clear", "release"}]
    BY Zenon DEF RInv, TypeOK
  <2> QED
    BY <1>u, <2>1
<1>2. TypeOK'
  BY <1>u, <1>1, Zenon DEF RInv, TypeOK
<1>3. Support'
  BY <1>u, <1>1 DEF RInv, Support
<1>4. OneConsumer'
  BY <1>u, <1>1 DEF RInv, OneConsumer
<1>5. ScopeAccounting' /\ NothingPendingBehindConsumer' /\ RegisteredQueueOpen'
  BY <1>u, QueuesKept, Zenon
<1> QED
  BY <1>2, <1>3, <1>4, <1>5, Zenon DEF RInv

-----------------------------------------------------------------------------
(* The actions that fill, close and read the queue of a scope. *)

LEMMA ReplaceObj ==
  ASSUME NEW s \in Seq(Queue), NEW q \in 1 .. Len(s), NEW o \in Queue
  PROVE  LET u == [s EXCEPT ![q] = o]
         IN /\ u \in Seq(Queue) /\ Len(u) = Len(s) /\ u[q] = o
            /\ \A p \in 1 .. Len(s) : p # q => u[p] = s[p]
  OBVIOUS

\* A step that changes one queue that is not registered, or only fields of it that
\* the accounting does not read.
LEMMA CloseQueueKeeps ==
  ASSUME RInv, NEW q, NEW by, closeQueue(q, by)
  PROVE  RInv'
<1> USE DEF mapVars, channelVars, sessionVars, countVars
<1>0. /\ <<q, by>> \in closing /\ q \in 1 .. Len(objs) /\ objs \in Seq(Queue) /\ objs[q] \in Queue
  <2>1. <<q, by>> \in (1 .. Len(objs)) \X {"router", "handle"}
    BY DEF RInv, TypeOK, closeQueue
  <2> QED
    BY <2>1 DEF RInv, TypeOK, closeQueue
<1> DEFINE o == [buf |-> objs[q].buf, dropped |-> objs[q].dropped, closed |-> TRUE]
<1>1. o \in Queue
  BY <1>0 DEF Queue
<1>2. objs' = [objs EXCEPT ![q] = o]
  BY DEF closeQueue
<1> HIDE DEF o
<1>3. /\ objs' \in Seq(Queue) /\ Len(objs') = Len(objs)
      /\ \A p \in 1 .. Len(objs) : p # q => objs'[p] = objs[p]
  BY <1>0, <1>1, <1>2, ReplaceObj
<1>u. UNCHANGED <<closed, rpc, sessionVars, channelVars, mapVars, countVars>> /\ closing' = closing \ {<<q, by>>}
  BY DEF closeQueue
<1>4. TypeOK'
  BY <1>3, <1>u DEF RInv, TypeOK
<1>5. ASSUME NEW s \in Scopes, queues[s] # NoQueue PROVE objs'[queues[s]] = objs[queues[s]]
  <2>1. queues[s] # q
    BY <1>0, <1>5 DEF RInv, RegisteredQueueOpen
  <2>2. queues[s] \in 1 .. Len(objs)
    BY <1>5 DEF RInv, TypeOK, NoQueue
  <2> QED
    BY <1>3, <2>1, <2>2
<1>6. ScopeAccounting'
  BY <1>5, <1>u DEF RInv, ScopeAccounting, Accounted, Waiting, Lost
<1>7. RegisteredQueueOpen'
  BY <1>5, <1>u DEF RInv, RegisteredQueueOpen
<1>8. Support' /\ NothingPendingBehindConsumer' /\ OneConsumer'
  BY <1>u DEF RInv, Support, NothingPendingBehindConsumer, OneConsumer
<1> QED
  BY <1>4, <1>6, <1>7, <1>8 DEF RInv

\* What the accounting says of one scope.
LEMMA Fields ==
  ASSUME TypeOK, NEW s \in Scopes
  PROVE  /\ seen[s] \in Nat /\ routed[s] \in Nat /\ Lost(s) \in Nat /\ Waiting(s) \in Seq(Nat)
         /\ queues[s] # NoQueue => /\ queues[s] \in 1 .. Len(objs) /\ objs[queues[s]] \in Queue
                                   /\ Waiting(s) = objs[queues[s]].buf /\ Lost(s) = objs[queues[s]].dropped
<1>1. seen[s] \in Nat /\ routed[s] \in Nat
  BY DEF TypeOK
<1>2. CASE queues[s] = NoQueue
  BY <1>1, <1>2 DEF TypeOK, Waiting, Lost
<1>3. CASE queues[s] # NoQueue
  <2>1. queues[s] \in 1 .. Len(objs)
    BY <1>3 DEF TypeOK, NoQueue
  <2>2. objs[queues[s]] \in Queue
    BY <2>1 DEF TypeOK
  <2> QED
    BY <1>1, <1>3, <2>1, <2>2 DEF Waiting, Lost, Queue
<1> QED
  BY <1>2, <1>3

LEMMA RouteQueueKeeps ==
  ASSUME RInv, NEW s \in Scopes, routeQueue(s)
  PROVE  RInv'
<1> USE DEF mapVars, channelVars, sessionVars
<1> DEFINE q == queues[s]
           o == [buf |-> PushOldestOut(objs[q].buf, routed[s] + 1),
                 dropped |-> objs[q].dropped + (IF Len(objs[q].buf) < Cap THEN 0 ELSE 1),
                 closed |-> objs[q].closed]
<1>u. UNCHANGED <<closed, closing, rpc, seen, sessionVars, channelVars, mapVars>> /\ ~closed
  BY DEF routeQueue
<1>0. /\ q # NoQueue /\ q \in 1 .. Len(objs) /\ objs[q] \in Queue /\ objs \in Seq(Queue)
      /\ seen[s] \in Nat /\ routed[s] \in Nat
      /\ objs[q].buf \in Seq(Nat) /\ objs[q].dropped \in Nat /\ objs[q].closed \in BOOLEAN
  BY Fields, Zenon DEF RInv, TypeOK, routeQueue, Queue
<1>1. Accounted(seen[s], objs[q].dropped, objs[q].buf, routed[s])
  BY <1>0, <1>u, Fields DEF RInv, ScopeAccounting
<1>2. o.buf \in Seq(Nat) /\ Accounted(seen[s], o.dropped, o.buf, routed[s] + 1)
  BY <1>0, <1>1, PushAccounted, Zenon
<1>3. o \in Queue /\ o.closed = objs[q].closed
  <2>1. o.dropped \in Nat
    BY <1>0
  <2> QED
    BY <1>0, <1>2, <2>1 DEF Queue
<1>4. objs' = [objs EXCEPT ![q] = o] /\ routed' = [routed EXCEPT ![s] = routed[s] + 1]
  BY DEF routeQueue
<1> HIDE DEF o
<1>5. /\ objs' \in Seq(Queue) /\ Len(objs') = Len(objs) /\ objs'[q] = o
      /\ \A p \in 1 .. Len(objs) : p # q => objs'[p] = objs[p]
  BY <1>0, <1>3, <1>4, ReplaceObj
<1>6. TypeOK'
  <2>1. routed' \in [Scopes -> Nat]
    BY <1>0, <1>4 DEF RInv, TypeOK
  <2> QED
    BY <1>5, <1>u, <2>1, Zenon DEF RInv, TypeOK
<1>7. ASSUME NEW r \in Scopes, r # s, queues[r] # NoQueue PROVE objs'[queues[r]] = objs[queues[r]]
  BY <1>0, <1>5, <1>7, Fields DEF RInv, RegisteredQueueOpen
<1>8. routed'[s] = routed[s] + 1 /\ \A r \in Scopes : r # s => routed'[r] = routed[r]
  BY <1>4 DEF RInv, TypeOK
<1>9. ASSUME NEW r \in Scopes PROVE Accounted(seen[r], Lost(r), Waiting(r), routed[r])'
  <2>1. CASE r = s
    <3>1. Waiting(s)' = o.buf /\ Lost(s)' = o.dropped
      BY <1>0, <1>5, <1>u DEF Waiting, Lost
    <3> QED
      BY <2>1, <3>1, <1>2, <1>8, <1>u
  <2>2. CASE r # s
    <3>1. Waiting(r)' = Waiting(r) /\ Lost(r)' = Lost(r)
      BY <2>2, <1>7, <1>u DEF Waiting, Lost
    <3> QED
      BY <2>2, <3>1, <1>8, <1>u DEF RInv, ScopeAccounting
  <2> QED
    BY <2>1, <2>2
<1>10. ScopeAccounting'
  BY <1>9 DEF ScopeAccounting
<1>11. RegisteredQueueOpen'
  BY <1>0, <1>3, <1>5, <1>7, <1>u DEF RInv, RegisteredQueueOpen
<1>12. Support' /\ NothingPendingBehindConsumer' /\ OneConsumer'
  BY <1>u DEF RInv, Support, NothingPendingBehindConsumer, OneConsumer
<1> QED
  BY <1>6, <1>10, <1>11, <1>12 DEF RInv

\* Queue p is what n notifications fewer leave of queue q.
TakesOut(q, p, n) ==
  \A sn \in Nat, rt \in Nat : Accounted(sn, q.dropped, q.buf, rt) => Accounted(sn + n, p.dropped, p.buf, rt)

\* What a session takes out of the queue it found, n notifications, it accounts for
\* if that queue is still the one of its scope; no other scope has that queue.
LEMMA DeliverKeeps ==
  ASSUME RInv, NEW c \in Sessions, NEW L, NEW o \in Queue, NEW n \in Nat, pc[c] = "next",
         objs' = [objs EXCEPT ![at[c]] = o], o.closed = objs[at[c]].closed, Account(c, n),
         TakesOut(objs[at[c]], o, n),
         Leave(c, L), L \subseteq {"active", "clear", "release"}, "clear" \in L => scope[c] \notin Procs,
         UNCHANGED <<closed, closing, scope, released, rpc, routed, channelVars, mapVars>>
  PROVE  RInv'
<1>u. /\ closed' = closed /\ closing' = closing /\ queues' = queues /\ pending' = pending
      /\ pendingDropped' = pendingDropped /\ routed' = routed /\ scope' = scope /\ released' = released
  BY DEF mapVars
<1>0. at[c] \in 1 .. Len(objs) /\ objs \in Seq(Queue) /\ scope[c] \in Scopes /\ at[c] # NoQueue
  BY DEF RInv, TypeOK, Support, NoQueue
<1>1. /\ objs' \in Seq(Queue) /\ Len(objs') = Len(objs) /\ objs'[at[c]] = o
      /\ \A p \in 1 .. Len(objs) : p # at[c] => objs'[p] = objs[p]
  BY <1>0, ReplaceObj
<1>2. /\ pc' \in [Sessions -> {"idle", "active", "next", "clear", "release"}]
      /\ at' \in [Sessions -> 0 .. Len(objs')]
      /\ Support' /\ OneConsumer' /\ NothingPendingBehindConsumer'
  BY <1>1, LeaveKeeps, Zenon
<1>3. seen' \in [Scopes -> Nat]
  <2>1. seen \in [Scopes -> Nat]
    BY Zenon DEF RInv, TypeOK
  <2> QED
    BY <1>0, <2>1 DEF Account
<1>4. TypeOK'
  BY <1>1, <1>2, <1>3, Zenon DEF RInv, TypeOK, mapVars, channelVars
<1>5. ASSUME NEW r \in Scopes, queues[r] # NoQueue, queues[r] = at[c] PROVE r = scope[c]
  BY <1>5 DEF RInv, Support
<1>6. ASSUME NEW r \in Scopes, queues[r] # NoQueue, queues[r] # at[c]
      PROVE  objs'[queues[r]] = objs[queues[r]]
  BY <1>1, <1>6, Fields DEF RInv
<1>7. ASSUME ~closed, NEW r \in Scopes PROVE Accounted(seen[r], Lost(r), Waiting(r), routed[r])'
  <2>1. CASE queues[r] # NoQueue /\ queues[r] = at[c]
    <3>1. r = scope[c]
      BY <1>5, <2>1
    <3>2. Accounted(seen[r], objs[at[c]].dropped, objs[at[c]].buf, routed[r])
      BY <1>7, <2>1, Fields DEF RInv, ScopeAccounting
    <3>3. seen[r] \in Nat /\ routed[r] \in Nat
      BY DEF RInv, TypeOK
    <3>4. Accounted(seen[r] + n, o.dropped, o.buf, routed[r])
      BY <3>2, <3>3, Zenon DEF TakesOut
    <3>5. seen'[r] = seen[r] + n
      BY <2>1, <3>1 DEF RInv, TypeOK, Account
    <3>6. Waiting(r)' = o.buf /\ Lost(r)' = o.dropped
      BY <1>1, <1>u, <2>1, Zenon DEF Waiting, Lost
    <3> QED
      BY <1>u, <3>4, <3>5, <3>6, Zenon
  <2>2. CASE ~(queues[r] # NoQueue /\ queues[r] = at[c])
    <3>1. Waiting(r)' = Waiting(r) /\ Lost(r)' = Lost(r)
      <4>1. CASE queues[r] = NoQueue
        BY <1>u, <4>1, Zenon DEF Waiting, Lost
      <4>2. CASE queues[r] # NoQueue
        <5>1. objs'[queues[r]] = objs[queues[r]]
          BY <1>6, <2>2, <4>2, Zenon
        <5> QED
          <6>1. Waiting(r) = objs[queues[r]].buf /\ Lost(r) = objs[queues[r]].dropped
            BY <4>2, Zenon DEF Waiting, Lost
          <6>2. Waiting(r)' = objs'[queues[r]].buf /\ Lost(r)' = objs'[queues[r]].dropped
            BY <1>u, <4>2, Zenon DEF Waiting, Lost
          <6> QED
            BY <5>1, <6>1, <6>2, Zenon
      <4> QED
        BY <4>1, <4>2, Zenon
    <3>2. seen'[r] = seen[r]
      <4>1. CASE r = scope[c]
        <5>1. at[c] # queues[r]
          BY <1>0, <2>2, Zenon
        <5> QED
          BY <4>1, <5>1, Zenon DEF Account
      <4>2. CASE r # scope[c]
        BY <4>2, <1>0 DEF RInv, TypeOK, Account
      <4> QED
        BY <4>1, <4>2, Zenon
    <3> QED
      BY <1>7, <1>u, <3>1, <3>2, Zenon DEF RInv, ScopeAccounting
  <2> QED
    BY <2>1, <2>2, Zenon
<1>8. ScopeAccounting'
  <2>1. closed' = closed
    BY <1>u
  <2> QED
    BY <1>7, <2>1 DEF ScopeAccounting
<1>9. RegisteredQueueOpen'
  <2>1. ASSUME NEW r \in Scopes, queues[r] # NoQueue PROVE ~objs'[queues[r]].closed
    <3>1. ~objs[queues[r]].closed
      BY <2>1, Zenon DEF RInv, RegisteredQueueOpen
    <3> QED
      BY <1>1, <1>6, <2>1, <3>1, Zenon
  <2> QED
    BY <1>u, <2>1, Zenon DEF RInv, RegisteredQueueOpen
<1> QED
  BY <1>2, <1>4, <1>8, <1>9 DEF RInv
=============================================================================
