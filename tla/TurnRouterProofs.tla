-------------------------- MODULE TurnRouterProofs --------------------------
(***************************************************************************)
(* The router actions on pending buffers, the close of the router, the     *)
(* registration and the release of a consumer keep the invariant; the      *)
(* theorems about the notification router, for any number of turns, logins,*)
(* processes and consumers, and any capacity.                              *)
(***************************************************************************)
EXTENDS TurnRouterInvariant

(* Pending buffers, the close of the router, registration. *)

LEMMA NextDroppedKeeps ==
  ASSUME RInv, NEW c \in Sessions, nextDropped(c)
  PROVE  RInv'
<1> DEFINE q == at[c]
           o == [buf |-> objs[q].buf, dropped |-> 0, closed |-> objs[q].closed]
<1>0. /\ scope[c] \in Scopes /\ pc[c] = "next" /\ objs[q] \in Queue
  BY DEF RInv, TypeOK, Support, NoQueue, nextDropped
<1>1. objs[q].buf \in Seq(Nat) /\ objs[q].dropped \in Nat /\ objs[q].closed \in BOOLEAN
  BY <1>0 DEF Queue
<1>2. o \in Queue /\ o.closed = objs[q].closed
  BY <1>1 DEF Queue
<1>3. TakesOut(objs[q], o, objs[q].dropped)
  BY <1>1, ReportAccounted DEF TakesOut
<1>4. /\ objs' = [objs EXCEPT ![q] = o] /\ Account(c, objs[q].dropped) /\ Leave(c, ExitLabels(scope[c]))
      /\ UNCHANGED <<closed, closing, scope, released, rpc, routed, channelVars, mapVars>>
  BY DEF nextDropped
<1>5. ExitLabels(scope[c]) \subseteq {"active", "clear", "release"} /\ ("clear" \in ExitLabels(scope[c]) => scope[c] \notin Procs)
  BY <1>0, ExitLabelFacts
<1> HIDE DEF o
<1> QED
  BY <1>0, <1>1, <1>2, <1>3, <1>4, <1>5, DeliverKeeps, Zenon

LEMMA NextPopKeeps ==
  ASSUME RInv, NEW c \in Sessions, nextPop(c)
  PROVE  RInv'
<1> DEFINE q == at[c]
           o == [buf |-> Tail(objs[q].buf), dropped |-> objs[q].dropped, closed |-> objs[q].closed]
           L == {"active"} \cup DoneLabels(scope[c]) \cup ExitLabels(scope[c])
<1>0. /\ scope[c] \in Scopes /\ pc[c] = "next" /\ objs[q] \in Queue
      /\ objs[q].dropped = 0 /\ objs[q].buf # <<>>
  BY DEF RInv, TypeOK, Support, NoQueue, nextPop
<1>1. objs[q].buf \in Seq(Nat) /\ objs[q].dropped \in Nat /\ objs[q].closed \in BOOLEAN
  BY <1>0 DEF Queue
<1>2. o \in Queue /\ o.closed = objs[q].closed
  <2>1. Tail(objs[q].buf) \in Seq(Nat)
    BY <1>0, <1>1
  <2> QED
    BY <1>1, <2>1 DEF Queue
<1>3. TakesOut(objs[q], o, 1)
  BY <1>0, <1>1, PopAccounted DEF TakesOut
<1>4. /\ objs' = [objs EXCEPT ![q] = o] /\ Account(c, 1) /\ Leave(c, L)
      /\ UNCHANGED <<closed, closing, scope, released, rpc, routed, channelVars, mapVars>>
  BY DEF nextPop
<1>5. L \subseteq {"active", "clear", "release"} /\ ("clear" \in L => scope[c] \notin Procs)
  BY <1>0, ExitLabelFacts
<1> HIDE DEF o, L
<1> QED
  BY <1>0, <1>2, <1>3, <1>4, <1>5, DeliverKeeps, Zenon

LEMMA RoutePendingKeeps ==
  ASSUME RInv, NEW s \in Scopes, routePending(s)
  PROVE  RInv'
<1> USE DEF channelVars, sessionVars
<1> DEFINE b == PushOldestOut(pending[s], routed[s] + 1)
           l == pendingDropped[s] + (IF Len(pending[s]) < Cap THEN 0 ELSE 1)
<1>u. /\ UNCHANGED <<closed, queues, objs, closing, rpc, seen, sessionVars, channelVars>> /\ ~closed
      /\ queues[s] = NoQueue /\ s \notin Procs
  BY DEF routePending
<1>0. pending[s] \in Seq(Nat) /\ pendingDropped[s] \in Nat /\ seen[s] \in Nat /\ routed[s] \in Nat
  BY DEF RInv, TypeOK
<1>1. Accounted(seen[s], pendingDropped[s], pending[s], routed[s])
  <2>1. Waiting(s) = pending[s] /\ Lost(s) = pendingDropped[s]
    BY <1>u, Zenon DEF Waiting, Lost
  <2>2. Accounted(seen[s], Lost(s), Waiting(s), routed[s])
    BY <1>u, Zenon DEF RInv, ScopeAccounting
  <2> QED
    BY <2>1, <2>2, Zenon
<1>2. b \in Seq(Nat) /\ l \in Nat /\ Accounted(seen[s], l, b, routed[s] + 1)
  <2>1. l \in Nat
    BY <1>0
  <2>2. b \in Seq(Nat) /\ Accounted(seen[s], l, b, routed[s] + 1)
    BY <1>0, <1>1, PushAccounted, Zenon
  <2> QED
    BY <2>1, <2>2, Zenon
<1>3. /\ pending' = [pending EXCEPT ![s] = b] /\ pendingDropped' = [pendingDropped EXCEPT ![s] = l]
      /\ routed' = [routed EXCEPT ![s] = routed[s] + 1]
  BY DEF routePending
<1> HIDE DEF b, l
<1>4. TypeOK'
  <2>1. pending' \in [Scopes -> Seq(Nat)] /\ pendingDropped' \in [Scopes -> Nat] /\ routed' \in [Scopes -> Nat]
    BY <1>0, <1>2, <1>3 DEF RInv, TypeOK
  <2> QED
    BY <1>u, <2>1, Zenon DEF RInv, TypeOK
<1>5. /\ pending'[s] = b /\ pendingDropped'[s] = l /\ routed'[s] = routed[s] + 1
      /\ \A r \in Scopes : r # s => /\ pending'[r] = pending[r] /\ pendingDropped'[r] = pendingDropped[r]
                                    /\ routed'[r] = routed[r]
  BY <1>3 DEF RInv, TypeOK
<1>6. ASSUME NEW r \in Scopes PROVE Accounted(seen[r], Lost(r), Waiting(r), routed[r])'
  <2>1. CASE r = s
    BY <1>2, <1>5, <1>u, <2>1 DEF Waiting, Lost
  <2>2. CASE r # s
    <3>1. Waiting(r)' = Waiting(r) /\ Lost(r)' = Lost(r)
      BY <2>2, <1>5, <1>u DEF Waiting, Lost
    <3> QED
      BY <2>2, <3>1, <1>5, <1>u DEF RInv, ScopeAccounting
  <2> QED
    BY <2>1, <2>2
<1>7. ScopeAccounting'
  BY <1>6 DEF ScopeAccounting
<1>8. Support'
  BY <1>5, <1>u DEF RInv, Support, Scopes
<1>9. NothingPendingBehindConsumer' /\ OneConsumer' /\ RegisteredQueueOpen'
  BY <1>5, <1>u DEF RInv, NothingPendingBehindConsumer, OneConsumer, RegisteredQueueOpen
<1> QED
  BY <1>4, <1>7, <1>8, <1>9 DEF RInv

LEMMA CloseKeeps ==
  ASSUME RInv, close
  PROVE  RInv'
<1> USE DEF channelVars, sessionVars, countVars
<1>1. closing' \subseteq (1 .. Len(objs)) \X {"router", "handle"}
  <2>1. \A s \in Scopes : queues[s] # NoQueue => queues[s] \in 1 .. Len(objs)
    BY Fields DEF RInv
  <2> QED
    BY <2>1 DEF RInv, TypeOK, close
<1>2. queues' \in [Scopes -> 0 .. Len(objs)] /\ pending' \in [Scopes -> Seq(Nat)] /\ pendingDropped' \in [Scopes -> Nat]
  BY DEF RInv, TypeOK, close, NoQueue
<1>3. TypeOK'
  BY <1>1, <1>2 DEF RInv, TypeOK, close
<1>4. Support'
  BY DEF RInv, Support, Scopes, close
<1>5. ScopeAccounting' /\ NothingPendingBehindConsumer' /\ OneConsumer' /\ RegisteredQueueOpen'
  BY DEF RInv, ScopeAccounting, NothingPendingBehindConsumer, OneConsumer, RegisteredQueueOpen, close
<1> QED
  BY <1>3, <1>4, <1>5 DEF RInv

LEMMA ClearPendingKeeps ==
  ASSUME RInv, NEW c \in Sessions, clearPending(c)
  PROVE  RInv'
<1> USE DEF channelVars, countVars
<1> DEFINE s == scope[c]
<1>u. /\ UNCHANGED <<closed, queues, objs, closing, scope, at, released, rpc, channelVars, countVars>>
      /\ pc[c] = "clear" /\ pc' = [pc EXCEPT ![c] = "release"]
  BY DEF clearPending
<1>0. s \in Scopes /\ s \notin Procs /\ (closed \/ queues[s] # NoQueue)
  BY <1>u DEF RInv, TypeOK, Support, OneConsumer
<1>1. ~closed => pending[s] = <<>> /\ pendingDropped[s] = 0
  BY <1>0 DEF RInv, NothingPendingBehindConsumer
<1>2. pending' \in [Scopes -> Seq(Nat)] /\ pendingDropped' \in [Scopes -> Nat]
  <2>1. pending \in [Scopes -> Seq(Nat)] /\ pendingDropped \in [Scopes -> Nat]
    BY Zenon DEF RInv, TypeOK
  <2>2. <<>> \in Seq(Nat) /\ 0 \in Nat
    OBVIOUS
  <2> QED
    BY <1>0, <2>1, <2>2, Zenon DEF clearPending
<1>3. \A r \in Scopes : r # s => pending'[r] = pending[r] /\ pendingDropped'[r] = pendingDropped[r]
  BY <1>0 DEF RInv, TypeOK, clearPending
<1>4. ~closed => pending'[s] = pending[s] /\ pendingDropped'[s] = pendingDropped[s]
  BY <1>0, <1>1 DEF RInv, TypeOK, clearPending
<1>5. TypeOK'
  <2>1. pc' \in [Sessions -> {"idle", "active", "next", "clear", "release"}]
    BY <1>u DEF RInv, TypeOK
  <2> QED
    BY <1>2, <1>u, <2>1, Zenon DEF RInv, TypeOK
<1>6. pc'[c] = "release" /\ \A d \in Sessions \ {c} : pc'[d] = pc[d]
  BY <1>u DEF RInv, TypeOK
<1>7. Support'
  <2>1. \A r \in Procs : pending'[r] = <<>> /\ pendingDropped'[r] = 0
    BY <1>0, <1>3 DEF RInv, Support, Scopes
  <2> QED
    BY <1>u, <1>6, <2>1 DEF RInv, Support
<1>8. ScopeAccounting'
  <2>1. ASSUME ~closed, NEW r \in Scopes PROVE Waiting(r)' = Waiting(r) /\ Lost(r)' = Lost(r)
    BY <2>1, <1>3, <1>4, <1>u DEF Waiting, Lost
  <2> QED
    BY <2>1, <1>u DEF RInv, ScopeAccounting
<1>9. NothingPendingBehindConsumer'
  <2>1. CASE closed
    BY <2>1, <1>u DEF RInv, Support, NothingPendingBehindConsumer
  <2>2. CASE ~closed
    BY <2>2, <1>3, <1>4, <1>u DEF RInv, NothingPendingBehindConsumer
  <2> QED
    BY <2>1, <2>2
<1>10. OneConsumer' /\ RegisteredQueueOpen'
  BY <1>6, <1>u DEF RInv, OneConsumer, RegisteredQueueOpen
<1> QED
  BY <1>5, <1>7, <1>8, <1>9, <1>10 DEF RInv

LEMMA RegisterKeeps ==
  ASSUME RInv, NEW c \in Sessions, register(c)
  PROVE  RInv'
<1> USE DEF channelVars, countVars
<1> DEFINE s == scope[c]
           o == [buf |-> pending[s], dropped |-> pendingDropped[s], closed |-> FALSE]
           m == Len(objs) + 1
<1>u. /\ UNCHANGED <<closed, closing, scope, at, rpc, channelVars, countVars>> /\ ~closed
      /\ pc[c] = "idle" /\ queues[s] = NoQueue
      /\ objs' = Append(objs, o) /\ queues' = [queues EXCEPT ![s] = m]
      /\ pending' = [pending EXCEPT ![s] = <<>>] /\ pendingDropped' = [pendingDropped EXCEPT ![s] = 0]
      /\ pc' = [pc EXCEPT ![c] = "active"] /\ released' = [released EXCEPT ![c] = FALSE]
  BY DEF register
<1>0. /\ s \in Scopes /\ o \in Queue /\ objs \in Seq(Queue) /\ Len(objs) \in Nat
      /\ o.buf = pending[s] /\ o.dropped = pendingDropped[s] /\ ~o.closed
  BY DEF RInv, TypeOK, Queue
<1> HIDE DEF o
<1>1. /\ objs' \in Seq(Queue) /\ Len(objs') = m /\ objs'[m] = o
      /\ \A p \in 1 .. Len(objs) : objs'[p] = objs[p]
  BY <1>0, <1>u, AppendProperties
<1>2. /\ queues'[s] = m /\ m # NoQueue /\ pending'[s] = <<>> /\ pendingDropped'[s] = 0
      /\ \A r \in Scopes : r # s => /\ queues'[r] = queues[r] /\ pending'[r] = pending[r]
                                    /\ pendingDropped'[r] = pendingDropped[r]
  BY <1>0, <1>u DEF RInv, TypeOK, NoQueue
<1>3. /\ pc'[c] = "active" /\ ~released'[c]
      /\ \A d \in Sessions \ {c} : pc'[d] = pc[d] /\ released'[d] = released[d]
  BY <1>u DEF RInv, TypeOK
<1>4. TypeOK'
  <2>1. queues' \in [Scopes -> 0 .. Len(objs')] /\ at' \in [Sessions -> 0 .. Len(objs')]
    <3>1. /\ queues \in [Scopes -> 0 .. Len(objs)] /\ at \in [Sessions -> 0 .. Len(objs)]
      BY DEF RInv, TypeOK
    <3>2. 0 .. Len(objs) \subseteq 0 .. m /\ m \in 0 .. m
      BY <1>0
    <3> HIDE DEF m
    <3> QED
      BY <3>1, <3>2, <1>0, <1>1, <1>u
  <2>2. pending' \in [Scopes -> Seq(Nat)] /\ pendingDropped' \in [Scopes -> Nat]
    BY <1>0, <1>u DEF RInv, TypeOK
  <2>3. closing' \subseteq (1 .. Len(objs')) \X {"router", "handle"}
    <3>1. 1 .. Len(objs) \subseteq 1 .. m
      BY <1>0
    <3>2. closing \subseteq (1 .. Len(objs)) \X {"router", "handle"}
      BY DEF RInv, TypeOK
    <3> HIDE DEF m
    <3> QED
      BY <3>1, <1>1, <1>u, <3>2
  <2>4. pc' \in [Sessions -> {"idle", "active", "next", "clear", "release"}]
    BY <1>u DEF RInv, TypeOK
  <2>5. released' \in [Sessions -> BOOLEAN]
    BY <1>u DEF RInv, TypeOK
  <2> QED
    BY <1>1, <1>u, <2>1, <2>2, <2>3, <2>4, <2>5, Zenon DEF RInv, TypeOK
<1>5. \A r \in Scopes : queues[r] \in 0 .. Len(objs) /\ queues[r] # m
  BY <1>0 DEF RInv, TypeOK
<1>6. \A d \in Sessions : at[d] # m
  BY <1>0 DEF RInv, TypeOK
<1>7. \A x \in closing : x[1] # m
  <2>1. \A x \in closing : x[1] \in 1 .. Len(objs)
    BY DEF RInv, TypeOK
  <2>2. m \notin 1 .. Len(objs)
    BY <1>0
  <2> QED
    BY <2>1, <2>2, Zenon
<1>8. ASSUME NEW r \in Scopes, r # s, queues[r] # NoQueue PROVE objs'[queues[r]] = objs[queues[r]]
  BY <1>1, <1>8, Fields DEF RInv
<1> HIDE DEF m
<1>9. Support'
  <2>1. \A r \in Procs : pending'[r] = <<>> /\ pendingDropped'[r] = 0
    BY <1>2 DEF RInv, Support, Scopes
  <2>2. \A d \in Sessions, r \in Scopes : pc'[d] = "next" /\ queues'[r] # NoQueue /\ at'[d] = queues'[r] => scope'[d] = r
    <3>1. \A d \in Sessions, r \in Scopes : pc[d] = "next" /\ queues[r] # NoQueue /\ at[d] = queues[r] => scope[d] = r
      BY DEF RInv, Support
    <3>2. at' = at /\ scope' = scope
      BY <1>u
    <3> QED
      BY <1>2, <1>3, <1>6, <3>1, <3>2
  <2> QED
    BY <1>3, <1>u, <2>1, <2>2 DEF RInv, Support
<1>10. ASSUME NEW r \in Scopes PROVE Accounted(seen[r], Lost(r), Waiting(r), routed[r])'
  <2>1. CASE r = s
    <3>1. Waiting(s)' = pending[s] /\ Lost(s)' = pendingDropped[s]
      BY <1>0, <1>1, <1>2, <1>u DEF Waiting, Lost
    <3>2. Waiting(s) = pending[s] /\ Lost(s) = pendingDropped[s]
      BY <1>u DEF Waiting, Lost
    <3> QED
      BY <1>0, <1>u, <2>1, <3>1, <3>2 DEF RInv, ScopeAccounting
  <2>2. CASE r # s
    <3>1. Waiting(r)' = Waiting(r) /\ Lost(r)' = Lost(r)
      BY <2>2, <1>2, <1>8 DEF Waiting, Lost
    <3> QED
      BY <3>1, <1>u DEF RInv, ScopeAccounting
  <2> QED
    BY <2>1, <2>2
<1>11. ScopeAccounting'
  BY <1>10 DEF ScopeAccounting
<1>12. NothingPendingBehindConsumer'
  BY <1>2 DEF RInv, NothingPendingBehindConsumer
<1>13. OneConsumer'
  <2>1. \A d \in Sessions : scope[d] \in Scopes
    BY DEF RInv, TypeOK
  <2>2. ASSUME NEW d \in Sessions, pc'[d] # "idle", scope[d] \notin Procs
        PROVE  /\ closed \/ queues'[scope[d]] # NoQueue
               /\ \A e \in Sessions \ {d} : scope[e] = scope[d] => pc'[e] = "idle"
    <3>1. CASE d = c
      <4>1. ASSUME NEW e \in Sessions \ {c}, scope[e] = s PROVE pc[e] = "idle"
        BY <1>u, <2>2, <3>1, <4>1 DEF RInv, OneConsumer
      <4> QED
        BY <1>2, <1>3, <3>1, <4>1
    <3>2. CASE d # c
      <4>1. pc[d] # "idle"
        BY <1>3, <2>2, <3>2
      <4>2. closed \/ queues[scope[d]] # NoQueue
        BY <2>2, <4>1 DEF RInv, OneConsumer
      <4>3. scope[d] # s
        BY <1>u, <4>2
      <4>4. \A e \in Sessions \ {d} : scope[e] = scope[d] => pc[e] = "idle"
        BY <2>2, <4>1 DEF RInv, OneConsumer
      <4> QED
        BY <1>2, <1>3, <2>1, <4>2, <4>3, <4>4
    <3> QED
      BY <3>1, <3>2
  <2> QED
    BY <1>u, <2>2 DEF OneConsumer
<1>14. RegisteredQueueOpen'
  <2>1. ASSUME NEW r \in Scopes, queues'[r] # NoQueue
        PROVE  /\ ~objs'[queues'[r]].closed /\ \A x \in closing : x[1] # queues'[r]
               /\ \A z \in Scopes \ {r} : queues'[z] # queues'[r]
    <3>1. CASE r = s
      BY <3>1, <1>0, <1>1, <1>2, <1>5, <1>7
    <3>2. CASE r # s
      BY <2>1, <3>2, <1>0, <1>2, <1>5, <1>8 DEF RInv, RegisteredQueueOpen
    <3> QED
      BY <3>1, <3>2
  <2> QED
    BY <2>1, <1>u, Zenon DEF RegisteredQueueOpen
<1> QED
  BY <1>4, <1>9, <1>11, <1>12, <1>13, <1>14 DEF RInv

-----------------------------------------------------------------------------
(* Releases, and the theorems. *)

\* A release: the scope has no consumer afterwards, and what was unread is given up.
LEMMA AbandonKeeps ==
  ASSUME RInv, NEW s \in Scopes, Abandon(s), UNCHANGED <<closed, pending, pendingDropped, objs, routed>>
  PROVE  /\ queues' \in [Scopes -> 0 .. Len(objs)] /\ seen' \in [Scopes -> Nat]
         /\ closing' \subseteq (1 .. Len(objs)) \X {"router", "handle"}
         /\ queues'[s] = NoQueue /\ \A r \in Scopes : r # s => queues'[r] = queues[r]
         /\ ScopeAccounting' /\ NothingPendingBehindConsumer' /\ RegisteredQueueOpen'
<1>0. /\ queues \in [Scopes -> 0 .. Len(objs)] /\ Len(objs) \in Nat /\ seen \in [Scopes -> Nat] /\ routed \in [Scopes -> Nat]
      /\ closing \subseteq (1 .. Len(objs)) \X {"router", "handle"}
  BY DEF RInv, TypeOK
<1>1. queues' \in [Scopes -> 0 .. Len(objs)] /\ seen' \in [Scopes -> Nat]
  BY <1>0 DEF Abandon, NoQueue
<1>2. queues[s] # NoQueue => queues[s] \in 1 .. Len(objs)
  BY Fields DEF RInv
<1>3. closing' \subseteq (1 .. Len(objs)) \X {"router", "handle"}
  BY <1>0, <1>2 DEF Abandon
<1>4. queues'[s] = NoQueue /\ \A r \in Scopes : r # s => queues'[r] = queues[r] /\ seen'[r] = seen[r]
  BY <1>0 DEF Abandon
<1>5. \A x \in closing' : x \in closing \/ (queues[s] # NoQueue /\ x[1] = queues[s])
  BY DEF Abandon
<1>6. ASSUME ~closed, NEW r \in Scopes PROVE Accounted(seen[r], Lost(r), Waiting(r), routed[r])'
  <2>1. CASE r = s /\ queues[s] # NoQueue
    <3>1. pending[s] = <<>> /\ pendingDropped[s] = 0
      BY <2>1 DEF RInv, NothingPendingBehindConsumer
    <3>2. Waiting(s)' = <<>> /\ Lost(s)' = 0
      BY <1>4, <3>1 DEF Waiting, Lost
    <3>3. seen'[s] = routed[s] /\ routed[s] \in Nat
      BY <1>0, <2>1 DEF Abandon
    <3> QED
      BY <2>1, <3>2, <3>3, EmptyAccounted
  <2>2. CASE ~(r = s /\ queues[s] # NoQueue)
    <3>1. queues'[r] = queues[r] /\ seen'[r] = seen[r]
      BY <1>4, <2>2 DEF Abandon
    <3>2. Waiting(r)' = Waiting(r) /\ Lost(r)' = Lost(r)
      BY <3>1 DEF Waiting, Lost
    <3> QED
      BY <1>6, <3>1, <3>2 DEF RInv, ScopeAccounting
  <2> QED
    BY <2>1, <2>2
<1>7. ScopeAccounting'
  BY <1>6 DEF ScopeAccounting
<1>8. NothingPendingBehindConsumer'
  BY <1>4 DEF RInv, NothingPendingBehindConsumer
<1>9. RegisteredQueueOpen'
  BY <1>4, <1>5 DEF RInv, RegisteredQueueOpen
<1> QED
  BY <1>1, <1>3, <1>4, <1>7, <1>8, <1>9

LEMMA UnregisterKeeps ==
  ASSUME RInv, NEW c \in Sessions, unregister(c)
  PROVE  RInv'
<1> USE DEF channelVars
<1>u. /\ UNCHANGED <<closed, pending, pendingDropped, objs, scope, at, rpc, routed, channelVars>>
      /\ pc[c] = "release" /\ pc' = [pc EXCEPT ![c] = "idle"] /\ released' = [released EXCEPT ![c] = TRUE]
  BY DEF unregister
<1>0. scope[c] \in Scopes
  BY DEF RInv, TypeOK
<1>1. /\ pc'[c] = "idle" /\ \A d \in Sessions \ {c} : pc'[d] = pc[d] /\ released'[d] = released[d]
      /\ pc' \in [Sessions -> {"idle", "active", "next", "clear", "release"}]
  BY <1>u DEF RInv, TypeOK
<1>2. released' \in [Sessions -> BOOLEAN]
  BY <1>u DEF RInv, TypeOK
<1>3. CASE released[c]
  <2>1. UNCHANGED <<queues, seen, closing>>
    BY <1>3 DEF unregister
  <2>2. TypeOK'
    BY <1>1, <1>2, <1>u, <2>1, SMTT(30) DEF RInv, TypeOK
  <2>3. Support' /\ OneConsumer'
    BY <1>1, <1>u, <2>1 DEF RInv, Support, OneConsumer
  <2>4. ScopeAccounting' /\ NothingPendingBehindConsumer' /\ RegisteredQueueOpen'
    BY <1>u, <2>1 DEF RInv, ScopeAccounting, Accounted, Waiting, Lost, NothingPendingBehindConsumer, RegisteredQueueOpen
  <2> QED
    BY <2>2, <2>3, <2>4 DEF RInv
<1>4. CASE ~released[c]
  <2>1. Abandon(scope[c])
    BY <1>4 DEF unregister
  <2>2. /\ queues' \in [Scopes -> 0 .. Len(objs)] /\ seen' \in [Scopes -> Nat]
        /\ closing' \subseteq (1 .. Len(objs)) \X {"router", "handle"}
        /\ queues'[scope[c]] = NoQueue /\ \A r \in Scopes : r # scope[c] => queues'[r] = queues[r]
        /\ ScopeAccounting' /\ NothingPendingBehindConsumer' /\ RegisteredQueueOpen'
    BY <1>0, <1>u, <2>1, AbandonKeeps
  <2>3. TypeOK'
    BY <1>1, <1>2, <1>u, <2>2 DEF RInv, TypeOK
  <2>4. Support'
    <3>1. \A d \in Sessions, r \in Scopes : pc'[d] = "next" /\ queues'[r] # NoQueue /\ at'[d] = queues'[r] => scope'[d] = r
      <4>1. \A d \in Sessions, r \in Scopes : pc[d] = "next" /\ queues[r] # NoQueue /\ at[d] = queues[r] => scope[d] = r
        BY DEF RInv, Support
      <4>2. at' = at /\ scope' = scope
        BY <1>u
      <4>3. ASSUME NEW d \in Sessions, NEW r \in Scopes, pc'[d] = "next", queues'[r] # NoQueue, at[d] = queues'[r]
            PROVE  scope[d] = r
        <5>1. d # c /\ r # scope[c]
          BY <1>1, <2>2, <4>3
        <5>2. pc[d] = pc'[d] /\ queues[r] = queues'[r]
          BY <1>1, <2>2, <5>1
        <5> QED
          BY <4>1, <4>3, <5>2
      <4> QED
        BY <4>2, <4>3
    <3>2. closed' => \A r \in Scopes : queues'[r] = NoQueue
      BY <1>u, <2>2 DEF RInv, Support
    <3> QED
      BY <1>1, <1>u, <3>1, <3>2 DEF RInv, Support
  <2>5. OneConsumer'
    <3>1. ASSUME NEW d \in Sessions, pc'[d] # "idle", scope[d] \notin Procs
          PROVE  /\ closed \/ queues'[scope[d]] # NoQueue
                 /\ \A e \in Sessions \ {d} : scope[e] = scope[d] => pc'[e] = "idle"
      <4>1. d # c /\ pc[d] # "idle" /\ pc[c] # "idle" /\ scope[d] \in Scopes
        BY <1>1, <1>u, <3>1 DEF RInv, TypeOK
      <4>2. scope[c] # scope[d]
        BY <3>1, <4>1 DEF RInv, OneConsumer
      <4>3. queues'[scope[d]] = queues[scope[d]]
        BY <2>2, <4>1, <4>2
      <4> QED
        BY <1>1, <3>1, <4>1, <4>2, <4>3 DEF RInv, OneConsumer
    <3> QED
      BY <1>u, <3>1 DEF OneConsumer
  <2> QED
    BY <2>2, <2>3, <2>4, <2>5 DEF RInv
<1> QED
  BY <1>3, <1>4

LEMMA HandleCloseKeeps ==
  ASSUME RInv, NEW c \in Sessions, handleClose(c)
  PROVE  RInv'
<1> USE DEF channelVars
<1>u. /\ UNCHANGED <<closed, pending, pendingDropped, objs, pc, scope, at, rpc, routed, channelVars>>
      /\ scope[c] \in Procs /\ Abandon(scope[c]) /\ released' = [released EXCEPT ![c] = TRUE]
  BY DEF handleClose
<1>0. scope[c] \in Scopes
  BY DEF RInv, TypeOK
<1>1. \A d \in Sessions \ {c} : released'[d] = released[d]
  BY <1>u DEF RInv, TypeOK
<1>2. released' \in [Sessions -> BOOLEAN]
  BY <1>u DEF RInv, TypeOK
<1>3. /\ queues' \in [Scopes -> 0 .. Len(objs)] /\ seen' \in [Scopes -> Nat]
      /\ closing' \subseteq (1 .. Len(objs)) \X {"router", "handle"}
      /\ queues'[scope[c]] = NoQueue /\ \A r \in Scopes : r # scope[c] => queues'[r] = queues[r]
      /\ ScopeAccounting' /\ NothingPendingBehindConsumer' /\ RegisteredQueueOpen'
  BY <1>0, <1>u, AbandonKeeps
<1>4. TypeOK'
  BY <1>2, <1>u, <1>3, Zenon DEF RInv, TypeOK
<1>5. Support'
  <2>1. \A d \in Sessions, r \in Scopes : pc'[d] = "next" /\ queues'[r] # NoQueue /\ at'[d] = queues'[r] => scope'[d] = r
    <3>1. \A r \in Scopes : queues'[r] # NoQueue => queues'[r] = queues[r]
      BY <1>3, Zenon
    <3> QED
      BY <1>u, <3>1 DEF RInv, Support
  <2>2. closed' => \A r \in Scopes : queues'[r] = NoQueue
    BY <1>u, <1>3, Zenon DEF RInv, Support
  <2> QED
    BY <1>1, <1>u, <2>1, <2>2 DEF RInv, Support
<1>6. OneConsumer'
  BY <1>0, <1>1, <1>u, <1>3, Zenon DEF RInv, OneConsumer, TypeOK
<1> QED
  BY <1>3, <1>4, <1>5, <1>6 DEF RInv

-----------------------------------------------------------------------------
(* The results *)

LEMMA NextRInv == RInv /\ [Next]_rvars => RInv'
<1> SUFFICES ASSUME RInv, [Next]_rvars PROVE RInv'
  OBVIOUS
<1>1. ASSUME NEW s \in Scopes, routeQueue(s) \/ routePending(s) PROVE RInv'
  BY <1>1, RouteQueueKeeps, RoutePendingKeeps, Zenon
<1>2. CASE routeGlobal \/ routeEvict \/ routeSend
  BY <1>2, RouteGlobalKeeps, EvictOrSendKeeps, Zenon
<1>3. CASE close
  BY <1>3, CloseKeeps
<1>4. CASE CloserStep
  BY <1>4, CloseGlobalKeeps, CloseQueueKeeps DEF CloserStep
<1>5. ASSUME NEW c \in Sessions, SessionStep(c) PROVE RInv'
  BY <1>5, NextLookupKeeps, NextDroppedKeeps, NextPopKeeps, NextClosedKeeps, ClearPendingKeeps, UnregisterKeeps, Zenon
     DEF SessionStep
<1>6. ASSUME NEW c \in Sessions, register(c) \/ nextCancel(c) \/ handleClose(c) \/ spawnFails(c) PROVE RInv'
  BY <1>6, RegisterKeeps, NextClosedKeeps, HandleCloseKeeps, SpawnFailsKeeps, Zenon
<1>7. ASSUME NEW g \in Readers, nextGlobal(g) \/ globalReceive(g) \/ globalEnd(g) \/ globalCancel(g) PROVE RInv'
  BY <1>7, ReaderKeeps, Zenon
<1>8. CASE UNCHANGED rvars
  <2>1. /\ UNCHANGED <<closed, objs, closing, sessionVars, mapVars, countVars>>
        /\ global' = global /\ groute' = groute /\ globalClosed' = globalClosed /\ mu' = mu /\ rpc' = rpc
    BY <1>8 DEF rvars, sessionVars, mapVars, countVars
  <2>2. /\ global \in Seq(Nat) /\ groute \in Nat /\ globalClosed \in BOOLEAN
        /\ mu \in {"free", "evict", "send"} /\ rpc \in [Readers -> {"idle", "select"}]
    BY Zenon DEF RInv, TypeOK
  <2> QED
    BY <2>1, <2>2, ChannelStepKeeps, Zenon
<1> QED
  BY <1>1, <1>2, <1>3, <1>4, <1>5, <1>6, <1>7, <1>8, Zenon DEF Next

LEMMA RouterInvariant == Spec => []RInv
  BY InitRInv, NextRInv, PTL DEF Spec

\* The router's maps, buffers and goroutines keep their types for any number of
\* scopes, consumers and readers.
THEOREM RouterTypeCorrect == Spec => []TypeOK
<1>1. RInv => TypeOK
  BY DEF RInv
<1> QED
  BY <1>1, RouterInvariant, PTL

\* Until the router closes, route, register, next and unregister lose no
\* notification of a scope without accounting for it, and keep their order.
THEOREM RouterLosesNothing == Spec => []ScopeAccounting
<1>1. RInv => ScopeAccounting
  BY DEF RInv
<1> QED
  BY <1>1, RouterInvariant, PTL

\* A scope that has a consumer has nothing left in its pending buffer.
THEOREM RouterNothingBehind == Spec => []NothingPendingBehindConsumer
<1>1. RInv => NothingPendingBehindConsumer
  BY DEF RInv
<1> QED
  BY <1>1, RouterInvariant, PTL

\* At most one session consumes a turn or a login, and it stays registered.
THEOREM RouterOneConsumer == Spec => []OneConsumer
<1>1. RInv => OneConsumer
  BY DEF RInv
<1> QED
  BY <1>1, RouterInvariant, PTL

\* unregisterProcess and close never close a queue that can still be found.
THEOREM RouterRegisteredOpen == Spec => []RegisteredQueueOpen
<1>1. RInv => RegisteredQueueOpen
  BY DEF RInv
<1> QED
  BY <1>1, RouterInvariant, PTL

-----------------------------------------------------------------------------
(* The global channel. *)

\* The channel holds the newest notifications in order, and has room for the send
\* that follows an eviction.
GInv ==
  /\ Len(global) <= Cap
  /\ GlobalKeepsNewest

\* The actions on the channel: the three selects of the global route and a reader.
ChannelAction == routeGlobal \/ routeEvict \/ routeSend \/ \E g \in Readers : globalReceive(g)

LEMMA ChannelActionKeeps ==
  ASSUME TypeOK, GInv, ChannelAction
  PROVE  GInv'
<1> USE RouterAssumption
<1>0. /\ global \in Seq(Nat) /\ groute \in Nat /\ Cap \in Nat \ {0} /\ mu \in {"free", "evict", "send"}
      /\ Len(global) \in Nat
  BY DEF TypeOK
<1>1. CASE routeGlobal
  <2>1. CASE Len(global) < Cap
    <3>1. global' = Append(global, groute + 1) /\ mu' = "free" /\ mu = "free" /\ groute' = groute + 1
      BY <1>1, <2>1 DEF routeGlobal
    <3>2. /\ Len(global') = Len(global) + 1
          /\ \A i \in 1 .. Len(global') : global'[i] = IF i = Len(global) + 1 THEN groute + 1 ELSE global[i]
      BY <1>0, <3>1
    <3>3. ASSUME NEW i \in 1 .. Len(global')
          PROVE  global'[i] = groute' - Len(global') + i
      <4>1. CASE i = Len(global) + 1
        BY <1>0, <3>1, <3>2, <4>1
      <4>2. CASE i # Len(global) + 1
        <5>1. i \in 1 .. Len(global) /\ global'[i] = global[i]
          BY <1>0, <3>2, <4>2
        <5>2. global[i] = groute - Len(global) + i
          BY <1>0, <3>1, <5>1 DEF GInv, GlobalKeepsNewest
        <5> QED
          BY <1>0, <3>1, <3>2, <5>1, <5>2
      <4> QED
        BY <4>1, <4>2
    <3> QED
      BY <1>0, <2>1, <3>1, <3>2, <3>3 DEF GInv, GlobalKeepsNewest
  <2>2. CASE ~(Len(global) < Cap)
    BY <1>0, <1>1, <2>2 DEF routeGlobal, GInv, GlobalKeepsNewest
  <2> QED
    BY <2>1, <2>2
<1>2. CASE routeEvict
  <2>1. CASE global = <<>>
    BY <1>0, <1>2, <2>1 DEF routeEvict, GInv, GlobalKeepsNewest
  <2>2. CASE global # <<>>
    BY <1>0, <1>2, <2>2 DEF routeEvict, GInv, GlobalKeepsNewest
  <2> QED
    BY <2>1, <2>2
<1>3. CASE routeSend
  BY <1>0, <1>3 DEF routeSend, GInv, GlobalKeepsNewest
<1>4. ASSUME NEW g \in Readers, globalReceive(g)
      PROVE  GInv'
  BY <1>0, <1>4 DEF globalReceive, GInv, GlobalKeepsNewest
<1> QED
  BY <1>1, <1>2, <1>3, <1>4 DEF ChannelAction

\* No other action touches the channel.
LEMMA OthersKeepChannel ==
  ASSUME Next, ~ChannelAction
  PROVE  UNCHANGED <<global, mu, groute>>
<1>1. ASSUME NEW s \in Scopes, routeQueue(s) \/ routePending(s)
      PROVE  UNCHANGED <<global, mu, groute>>
  BY <1>1 DEF routeQueue, routePending, channelVars
<1>2. CASE close \/ CloserStep
  BY <1>2 DEF close, CloserStep, closeGlobal, closeQueue, channelVars
<1>3. ASSUME NEW c \in Sessions,
             register(c) \/ SessionStep(c) \/ nextCancel(c) \/ handleClose(c) \/ spawnFails(c)
      PROVE  UNCHANGED <<global, mu, groute>>
  BY <1>3 DEF register, SessionStep, nextCancel, handleClose, spawnFails, next, nextDropped, nextPop,
              nextClosed, clearPending, unregister, channelVars
<1>4. ASSUME NEW g \in Readers, nextGlobal(g) \/ globalEnd(g) \/ globalCancel(g)
      PROVE  UNCHANGED <<global, mu, groute>>
  BY <1>4 DEF nextGlobal, globalEnd, globalCancel, channelVars
<1> QED
  BY <1>1, <1>2, <1>3, <1>4, Zenon DEF Next, ChannelAction

\* The three selects of the global route and the readers between them: the send after
\* an eviction finds room, and the channel always holds the newest notifications in order.
THEOREM RouterGlobalNewest == Spec => []GlobalKeepsNewest
<1>1. Init => GInv
  BY RouterAssumption DEF Init, GInv, GlobalKeepsNewest
<1>2. TypeOK /\ GInv /\ [Next]_rvars => GInv'
  <2> SUFFICES ASSUME TypeOK, GInv, [Next]_rvars
               PROVE  GInv'
    OBVIOUS
  <2>1. CASE ChannelAction
    BY <2>1, ChannelActionKeeps
  <2>2. CASE ~ChannelAction
    <3>1. UNCHANGED <<global, mu, groute>>
      BY <2>2, OthersKeepChannel DEF rvars
    <3> QED
      BY <3>1 DEF GInv, GlobalKeepsNewest
  <2> QED
    BY <2>1, <2>2
<1>3. GInv => GlobalKeepsNewest
  BY DEF GInv
<1> QED
  BY <1>1, <1>2, <1>3, RouterTypeCorrect, PTL DEF Spec
=============================================================================
