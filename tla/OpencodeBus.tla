---------------------------- MODULE OpencodeBus ----------------------------
(***************************************************************************)
(* The shared SSE event bus of pkg/llm/opencode/event_routing.go: one       *)
(* GET /event connection for the whole client, a run loop that dials,       *)
(* streams and reconnects within a budget, dial waiters that may give up,   *)
(* and session-scoped consumers, each with a bounded queue.                 *)
(*                                                                         *)
(* Goroutines: the run loop, the waiters blocked in dial, the consumers and *)
(* whoever closes the bus.  closeInternal and route work on a snapshot      *)
(* taken under b.mu and act on it after the unlock, so both are split       *)
(* there.  The server is external: it numbers the events it emits, writes   *)
(* them to the open stream and loses them when there is none.               *)
(***************************************************************************)
EXTENDS Integers, Sequences, FiniteSets

CONSTANTS
  BusWaiters,      \* goroutines that call dial (through ensureBus)
  BusConsumers,    \* consumers that may subscribe
  BusSessions,     \* session ids
  BusEvents,       \* what the server emits: [type, session] records
  BusCapacity,     \* eventQueueCapacity (128 in the code)
  BusMaxAttempts,  \* RetryConfig.MaxAttempts
  BusMaxEvents,    \* bound: events the server emits
  BusMaxStreams    \* bound: streams the server accepts

NoSession == "none"

ASSUME BusAssumption ==
  /\ BusEvents \subseteq [type : {"permission", "other"}, session : BusSessions \cup {NoSession}]
  /\ BusCapacity \in Nat /\ BusCapacity >= 2
  /\ BusMaxAttempts \in Nat \ {0}
  /\ BusMaxEvents \in Nat /\ BusMaxStreams \in Nat

VARIABLES
  bus,        \* eventBus: connected, closed, err, body, consumers, and b.ctx canceled
  busLoop,    \* run: where it is, its locals, the snapshot it is pushing to
  busConn,    \* the stream the run loop last opened: up, unread frames
  busTear,    \* what the winning closeInternal still has to do after its unlock
  busWaiter,  \* where each dial waiter is, or how its dial returned
  busSub,     \* busConsumer: session, queue, and what its reader got
  busLog,     \* history: what the server emitted, in order
  busReplied  \* history: permission requests handed to respondPermission

busVars == <<bus, busLoop, busConn, busTear, busWaiter, busSub, busLog, busReplied>>

BusCauses == {"dial failed", "timeout", "canceled", "exhausted", "backoff", "client closed"}
\* Frames are event numbers, or one of these.
Handshake == 0    \* server.connected
OddFirst == -1    \* any other event in the place of the handshake
Undecodable == -2
\* Queue entries are event numbers, or the gap marker.
GapEvent == 0

\* The bus, its run loop, waiters and consumers keep their types.
BusTypeOK ==
  /\ bus \in [connected : BOOLEAN, closed : BOOLEAN, err : BusCauses \cup {"nil"},
              body : BOOLEAN, consumers : SUBSET BusConsumers, ctx : {"live", "canceled"}]
  /\ busLoop.pc \in {"off", "top", "dial", "set body", "read", "push", "after", "sleep", "closing", "done"}
  /\ busLoop.first \in BOOLEAN /\ busLoop.handshaken \in BOOLEAN
  /\ busLoop.attempt \in 0..BusMaxAttempts
  /\ busLoop.snap \subseteq BusConsumers
  /\ busConn.up \in BOOLEAN /\ busConn.opened \in 0..BusMaxStreams
  /\ \A i \in 1..Len(busConn.wire) : busConn.wire[i] \in -2..BusMaxEvents
  /\ busTear \in [active : BOOLEAN, canceled : BOOLEAN, consumers : SUBSET BusConsumers]
  /\ busWaiter \in [BusWaiters -> {"idle", "waiting", "closing", "wait done", "ok", "err"}]
  /\ \A k \in BusConsumers : /\ busSub[k].phase \in {"new", "subscribed", "leaving", "left", "refused"}
                             /\ busSub[k].shut \in BOOLEAN
                             /\ Len(busSub[k].queue) <= BusCapacity
  /\ busLog \in Seq(BusEvents)
  /\ busReplied \subseteq 1..BusMaxEvents

\* newEventBus, and the consumers nobody has created yet.
BusInit ==
  /\ bus = [connected |-> FALSE, closed |-> FALSE, err |-> "nil", body |-> FALSE,
            consumers |-> {}, ctx |-> "live"]
  /\ busLoop = [pc |-> "off", first |-> TRUE, attempt |-> 0, handshaken |-> FALSE,
                snap |-> {}, item |-> 0, redials |-> 0]  \* redials: history, since the last handshake
  /\ busConn = [up |-> FALSE, wire |-> <<>>, opened |-> 0]
  /\ busTear = [active |-> FALSE, canceled |-> FALSE, consumers |-> {}]
  /\ busWaiter = [w \in BusWaiters |-> "idle"]
  /\ busSub = [k \in BusConsumers |-> [phase |-> "new", session |-> NoSession, since |-> 0,
                                       queue |-> <<>>, got |-> <<>>, shut |-> FALSE]]
  /\ busLog = <<>>
  /\ busReplied = {}
-----------------------------------------------------------------------------
(* closeInternal and the goroutine that carries it out.                     *)

\* The critical section of closeInternal on an open bus: mark it, take the
\* body and the consumers for the work after the unlock.
BusMarkClosed(cause) ==
  /\ bus' = [bus EXCEPT !.closed = TRUE, !.err = cause, !.body = FALSE, !.consumers = {}]
  /\ busTear' = [active |-> TRUE, canceled |-> FALSE, consumers |-> bus.consumers]

\* Mutated form: the context of the run loop is left alone.
BusTearCancelNever ==
  /\ busTear.active /\ ~busTear.canceled
  /\ busTear' = [busTear EXCEPT !.canceled = TRUE]
  /\ UNCHANGED <<bus, busLoop, busConn, busWaiter, busSub, busLog, busReplied>>

\* After the unlock: b.cancel and body.Close, which interrupt the run loop ...
BusTearCancel ==
  /\ busTear.active /\ ~busTear.canceled
  /\ bus' = [bus EXCEPT !.ctx = "canceled"]
  /\ busTear' = [busTear EXCEPT !.canceled = TRUE]
  /\ UNCHANGED <<busLoop, busConn, busWaiter, busSub, busLog, busReplied>>

\* ... and consumer.close for every consumer of the snapshot.
BusTearConsumer(k) ==
  /\ busTear.canceled /\ k \in busTear.consumers
  /\ busTear' = [busTear EXCEPT !.consumers = @ \ {k}]
  /\ busSub' = [busSub EXCEPT ![k].shut = TRUE]
  /\ UNCHANGED <<bus, busLoop, busConn, busWaiter, busLog, busReplied>>

BusTornDown == busTear.canceled /\ busTear.consumers = {}

-----------------------------------------------------------------------------
(* dial and failDial.                                                       *)

\* dial: start the run loop once; return at once on a connected bus.
BusDial(w) ==
  /\ busWaiter[w] = "idle"
  /\ busLoop' = IF busLoop.pc = "off" THEN [busLoop EXCEPT !.pc = "top"] ELSE busLoop
  /\ busWaiter' = [busWaiter EXCEPT ![w] = IF bus.connected THEN "ok" ELSE "waiting"]
  /\ UNCHANGED <<bus, busConn, busTear, busSub, busLog, busReplied>>

\* The select of dial takes b.connected or b.done.
BusDialAnswered(w) ==
  /\ busWaiter[w] = "waiting"
  /\ \/ bus.connected /\ busWaiter' = [busWaiter EXCEPT ![w] = "ok"]
     \/ busLoop.pc = "done" /\ busWaiter' = [busWaiter EXCEPT ![w] = "err"]
  /\ UNCHANGED <<bus, busLoop, busConn, busTear, busSub, busLog, busReplied>>

\* The timer fires or the caller's ctx ends: failDial, which closes the bus
\* only if the handshake has not won.
BusFailDial(w, cause) ==
  /\ busWaiter[w] = "waiting"
  /\ \/ /\ bus.closed
        /\ busWaiter' = [busWaiter EXCEPT ![w] = "wait done"]
        /\ UNCHANGED <<bus, busTear>>
     \/ /\ ~bus.closed /\ bus.connected
        /\ busWaiter' = [busWaiter EXCEPT ![w] = "ok"]
        /\ UNCHANGED <<bus, busTear>>
     \/ /\ ~bus.closed /\ ~bus.connected
        /\ BusMarkClosed(cause)
        /\ busWaiter' = [busWaiter EXCEPT ![w] = "closing"]
  /\ UNCHANGED <<busLoop, busConn, busSub, busLog, busReplied>>

\* failDial goes on once its own closeInternal is through, then waits for done.
BusFailDialGoesOn(w) ==
  /\ \/ /\ busWaiter[w] = "closing" /\ BusTornDown
        /\ busWaiter' = [busWaiter EXCEPT ![w] = "wait done"]
     \/ /\ busWaiter[w] = "wait done" /\ busLoop.pc = "done"
        /\ busWaiter' = [busWaiter EXCEPT ![w] = "err"]
  /\ UNCHANGED <<bus, busLoop, busConn, busTear, busSub, busLog, busReplied>>
-----------------------------------------------------------------------------
(* Consumers.                                                               *)

\* subscribe, by a goroutine whose ensureBus succeeded: refused on a closed bus.
BusSubscribe(k, s) ==
  /\ busSub[k].phase = "new" /\ \E w \in BusWaiters : busWaiter[w] = "ok"
  /\ IF bus.closed
     THEN busSub' = [busSub EXCEPT ![k].phase = "refused"] /\ UNCHANGED bus
     ELSE /\ busSub' = [busSub EXCEPT ![k].phase = "subscribed", ![k].session = s,
                                      ![k].since = Len(busLog)]
          /\ bus' = [bus EXCEPT !.consumers = @ \cup {k}]
  /\ UNCHANGED <<busLoop, busConn, busTear, busWaiter, busLog, busReplied>>

\* unsubscribe: delete under b.mu, then close the consumer.
BusUnsubscribe(k) ==
  /\ busSub[k].phase = "subscribed"
  /\ bus' = [bus EXCEPT !.consumers = @ \ {k}]
  /\ busSub' = [busSub EXCEPT ![k].phase = "leaving"]
  /\ UNCHANGED <<busLoop, busConn, busTear, busWaiter, busLog, busReplied>>

BusUnsubscribed(k) ==
  /\ busSub[k].phase = "leaving"
  /\ busSub' = [busSub EXCEPT ![k].phase = "left", ![k].shut = TRUE]
  /\ UNCHANGED <<bus, busLoop, busConn, busTear, busWaiter, busLog, busReplied>>

\* busConsumer.next takes the oldest entry; a closed queue is drained first.
BusConsumerNext(k) ==
  /\ busSub[k].phase = "subscribed" /\ busSub[k].queue # <<>>
  /\ busSub' = [busSub EXCEPT ![k].got = Append(@, Head(busSub[k].queue)),
                              ![k].queue = Tail(@)]
  /\ UNCHANGED <<bus, busLoop, busConn, busTear, busWaiter, busLog, busReplied>>

\* Mutated form: the dropped events leave no marker.
BusPushedSilently(queue, item) ==
  IF Len(queue) < BusCapacity THEN Append(queue, item)
  ELSE Append(SubSeq(queue, Len(queue) - BusCapacity + 3, Len(queue)), item)

\* busConsumer.push, through PushBounded: on overflow the newest capacity - 2
\* entries stay behind one gap marker.
BusPushed(queue, item) ==
  IF Len(queue) < BusCapacity THEN Append(queue, item)
  ELSE <<GapEvent>> \o Append(SubSeq(queue, Len(queue) - BusCapacity + 3, Len(queue)), item)

-----------------------------------------------------------------------------
(* The run loop.                                                            *)

\* The next iteration, unless the bus has been closed.
BusLoopTop ==
  /\ busLoop.pc = "top"
  /\ busLoop' = IF bus.closed THEN [busLoop EXCEPT !.pc = "done"]
                ELSE [busLoop EXCEPT !.pc = "dial", !.redials = @ + (IF busLoop.first THEN 0 ELSE 1)]
  /\ UNCHANGED <<bus, busConn, busTear, busWaiter, busSub, busLog, busReplied>>

\* dialEvents opens a stream; the first decodable frame the server sends is
\* its handshake, or not.
BusDialEvents(frames) ==
  /\ busLoop.pc = "dial" /\ bus.ctx = "live" /\ busConn.opened < BusMaxStreams
  /\ busConn' = [up |-> TRUE, wire |-> frames, opened |-> busConn.opened + 1]
  /\ busLoop' = [busLoop EXCEPT !.pc = "set body"]
  /\ UNCHANGED <<bus, busTear, busWaiter, busSub, busLog, busReplied>>

\* dialEvents fails; a canceled b.ctx makes it fail.
BusDialEventsFails ==
  /\ busLoop.pc = "dial"
  /\ busLoop' = [busLoop EXCEPT !.pc = "after", !.handshaken = FALSE]
  /\ UNCHANGED <<bus, busConn, busTear, busWaiter, busSub, busLog, busReplied>>

\* setBody: on a closed bus the new stream is closed at once.
BusSetBody ==
  /\ busLoop.pc = "set body"
  /\ IF bus.closed
     THEN /\ busConn' = [busConn EXCEPT !.up = FALSE]
          /\ busLoop' = [busLoop EXCEPT !.pc = "after", !.handshaken = FALSE]
          /\ UNCHANGED bus
     ELSE /\ bus' = [bus EXCEPT !.body = TRUE]
          /\ busLoop' = [busLoop EXCEPT !.pc = "read", !.handshaken = FALSE]
          /\ UNCHANGED busConn
  /\ UNCHANGED <<busTear, busWaiter, busSub, busLog, busReplied>>

\* scanner.next fails: the server is gone and everything is read, or close or
\* the canceled context interrupts the read.
BusReadFails ==
  /\ busLoop.pc = "read"
  /\ \/ ~busConn.up /\ busConn.wire = <<>>
     \/ bus.ctx = "canceled"
  /\ busLoop' = [busLoop EXCEPT !.pc = "after"]
  /\ UNCHANGED <<bus, busConn, busTear, busWaiter, busSub, busLog, busReplied>>

\* The run loop with these consumers left to push to.
BusPushTo(snap, item, loop) ==
  IF snap = {} THEN [loop EXCEPT !.pc = "read", !.snap = {}, !.item = 0]
  ELSE [loop EXCEPT !.pc = "push", !.snap = snap, !.item = item]

\* The first decodable frame of a stream: handshake.  The first connection
\* marks the bus connected under b.mu, unless it was closed meanwhile; a
\* reconnection broadcasts a gap to a snapshot of the consumers.
BusHandshake(frame) ==
  /\ \/ /\ frame # Handshake \/ (busLoop.first /\ bus.closed)
        /\ busLoop' = [busLoop EXCEPT !.pc = "after"]
        /\ UNCHANGED bus
     \/ /\ frame = Handshake /\ busLoop.first /\ ~bus.closed
        /\ busLoop' = [busLoop EXCEPT !.first = FALSE, !.handshaken = TRUE]
        /\ bus' = [bus EXCEPT !.connected = TRUE]
     \/ /\ frame = Handshake /\ ~busLoop.first
        /\ busLoop' = BusPushTo(bus.consumers, GapEvent,
                                [busLoop EXCEPT !.handshaken = TRUE, !.redials = 0])
        /\ UNCHANGED bus
  /\ UNCHANGED <<busSub, busReplied>>

\* route: permission requests of every session go to respondPermission, an
\* event without a session to nobody, the others to a snapshot of the
\* consumers of their session.
BusRoute(n) ==
  LET ev == busLog[n] IN
  /\ busReplied' = IF ev.type = "permission" THEN busReplied \cup {n} ELSE busReplied
  /\ busLoop' = IF ev.session = NoSession THEN busLoop
                ELSE BusPushTo({k \in bus.consumers : busSub[k].session = ev.session}, n, busLoop)
  /\ UNCHANGED <<bus, busSub>>

\* One frame of streamOnce: undecodable ones are skipped, the first other one
\* must be the handshake, the rest is routed.
BusRead ==
  /\ busLoop.pc = "read" /\ busConn.wire # <<>>
  /\ busConn' = [busConn EXCEPT !.wire = Tail(@)]
  /\ LET frame == Head(busConn.wire) IN
     IF frame = Undecodable THEN UNCHANGED <<bus, busLoop, busSub, busReplied>>
     ELSE IF busLoop.handshaken THEN BusRoute(frame) ELSE BusHandshake(frame)
  /\ UNCHANGED <<busTear, busWaiter, busLog>>

\* Push the event, or the gap, to one consumer of the snapshot; a queue that
\* has been closed since discards it.
BusPush(k) ==
  /\ busLoop.pc = "push" /\ k \in busLoop.snap
  /\ busSub' = IF busSub[k].shut THEN busSub
               ELSE [busSub EXCEPT ![k].queue = BusPushed(@, busLoop.item)]
  /\ busLoop' = BusPushTo(busLoop.snap \ {k}, busLoop.item, busLoop)
  /\ UNCHANGED <<bus, busConn, busTear, busWaiter, busLog, busReplied>>

\* b.close of the run loop, and where it goes on.
BusLoopCloses(cause, loop) ==
  IF bus.closed THEN busLoop' = [loop EXCEPT !.pc = "done"] /\ UNCHANGED <<bus, busTear>>
  ELSE busLoop' = [loop EXCEPT !.pc = "closing"] /\ BusMarkClosed(cause)

\* The stream ended: an established one renews the budget; the first dial
\* fails fast; a bus that was connected once retries until the budget is spent.
BusAfterStream ==
  /\ busLoop.pc = "after"
  /\ LET loop == [busLoop EXCEPT !.attempt = (IF busLoop.handshaken THEN 0 ELSE @) + 1]
     IN IF bus.closed \/ bus.ctx = "canceled"
        THEN busLoop' = [busLoop EXCEPT !.pc = "done"] /\ UNCHANGED <<bus, busTear>>
        ELSE IF busLoop.first THEN BusLoopCloses("dial failed", busLoop)
        ELSE IF loop.attempt >= BusMaxAttempts THEN BusLoopCloses("exhausted", loop)
        ELSE busLoop' = [loop EXCEPT !.pc = "sleep"] /\ UNCHANGED <<bus, busTear>>
  /\ UNCHANGED <<busConn, busWaiter, busSub, busLog, busReplied>>

\* SleepDelay: the backoff passes, or b.ctx ends it and the loop closes the bus.
BusSleep ==
  /\ busLoop.pc = "sleep"
  /\ \/ busLoop' = [busLoop EXCEPT !.pc = "top"] /\ UNCHANGED <<bus, busTear>>
     \/ bus.ctx = "canceled" /\ BusLoopCloses("backoff", busLoop)
  /\ UNCHANGED <<busConn, busWaiter, busSub, busLog, busReplied>>

BusLoopClosed ==
  /\ busLoop.pc = "closing" /\ BusTornDown
  /\ busLoop' = [busLoop EXCEPT !.pc = "done"]
  /\ UNCHANGED <<bus, busConn, busTear, busWaiter, busSub, busLog, busReplied>>

-----------------------------------------------------------------------------
(* Client.Close and the server.                                             *)

\* Client.Close cancels the client lifetime, from which b.ctx derives ...
BusLifetimeEnds ==
  /\ bus.ctx = "live"
  /\ bus' = [bus EXCEPT !.ctx = "canceled"]
  /\ UNCHANGED <<busLoop, busConn, busTear, busWaiter, busSub, busLog, busReplied>>

\* ... and then closes the bus.
BusClientCloses ==
  /\ bus.ctx = "canceled" /\ ~bus.closed
  /\ BusMarkClosed("client closed")
  /\ UNCHANGED <<busLoop, busConn, busWaiter, busSub, busLog, busReplied>>

\* External: the server emits an event; without an open stream it is lost.
\* What it emits before the bus connects or after it closes concerns nobody.
BusEmit(ev) ==
  /\ Len(busLog) < BusMaxEvents /\ bus.connected /\ ~bus.closed
  /\ busLog' = Append(busLog, ev)
  /\ busConn' = IF busConn.up THEN [busConn EXCEPT !.wire = Append(@, Len(busLog) + 1)] ELSE busConn
  /\ UNCHANGED <<bus, busLoop, busTear, busWaiter, busSub, busReplied>>

\* External: the stream breaks; some of the unread frames still arrive.
BusStreamBreaks ==
  /\ busConn.up
  /\ \E n \in 0..Len(busConn.wire) :
       busConn' = [busConn EXCEPT !.up = FALSE, !.wire = SubSeq(@, 1, n)]
  /\ UNCHANGED <<bus, busLoop, busTear, busWaiter, busSub, busLog, busReplied>>

-----------------------------------------------------------------------------
\* What the run loop does without waiting for the server.
BusLoopStep ==
  \/ BusLoopTop \/ BusSetBody \/ BusReadFails \/ BusRead
  \/ (\E k \in BusConsumers : BusPush(k))
  \/ BusAfterStream \/ BusSleep \/ BusLoopClosed
  \/ (bus.ctx = "canceled" /\ BusDialEventsFails)

BusWaiterStep(w) == BusDialAnswered(w) \/ BusFailDial(w, "timeout") \/ BusFailDialGoesOn(w)

BusTearStep == BusTearCancel \/ \E k \in BusConsumers : BusTearConsumer(k)

BusNext ==
  \/ BusLoopStep \/ BusTearStep
  \/ BusDialEventsFails
  \/ \E frames \in {<<Handshake>>, <<OddFirst>>, <<Undecodable, Handshake>>} : BusDialEvents(frames)
  \/ \E w \in BusWaiters : BusDial(w) \/ BusWaiterStep(w) \/ BusFailDial(w, "canceled")
  \/ \E k \in BusConsumers : \/ \E s \in BusSessions : BusSubscribe(k, s)
                             \/ BusUnsubscribe(k) \/ BusUnsubscribed(k) \/ BusConsumerNext(k)
  \/ BusLifetimeEnds \/ BusClientCloses
  \/ (\E ev \in BusEvents : BusEmit(ev)) \/ BusStreamBreaks

BusSpec == BusInit /\ [][BusNext]_busVars

\* The run loop, the goroutine inside closeInternal and the waiters, whose
\* dial timer always fires, keep running.  Nobody has to dial, subscribe,
\* close or emit, and a dial that the server does not answer may hang.
BusFairness ==
  /\ WF_busVars(BusLoopStep) /\ WF_busVars(BusTearStep)
  /\ \A w \in BusWaiters : WF_busVars(BusWaiterStep(w))

-----------------------------------------------------------------------------
BusStream(k) == busSub[k].got \o busSub[k].queue

\* Event n is one that session s should see after event m.
BusMissed(s, m, n) == \E i \in (m + 1)..(n - 1) : busLog[i].session = s

\* Every loss is marked: what a consumer gets is its own session's events in
\* order, and where one emitted after its subscription is missing, through an
\* outage or an overflow of its queue, a gap event stands in the place.
BusGapMarksLoss ==
  \A k \in BusConsumers : LET stream == BusStream(k) IN
    \A j \in 1..Len(stream) : stream[j] # GapEvent =>
      /\ busLog[stream[j]].session = busSub[k].session
      /\ j = 1 => ~BusMissed(busSub[k].session, busSub[k].since, stream[j])
      /\ j > 1 /\ stream[j - 1] # GapEvent =>
           /\ stream[j - 1] < stream[j]
           /\ ~BusMissed(busSub[k].session, stream[j - 1], stream[j])

\* "an established shared bus is sacrosanct": a dial that times out or is
\* canceled never tears down a bus that another dial connected.
BusSacrosanct == bus.err \in {"timeout", "canceled", "dial failed"} => ~bus.connected

\* dial succeeds only on a bus that got its handshake, and fails only once the
\* bus is closed, torn down and its run loop gone: nothing it started leaks.
BusDialTruth ==
  \A w \in BusWaiters :
    /\ busWaiter[w] = "ok" => bus.connected
    /\ busWaiter[w] = "err" => busLoop.pc = "done" /\ (bus.closed \/ bus.ctx = "canceled")

\* When the bus is torn down no consumer is left that would wait for ever,
\* however subscribe and unsubscribe raced with the close.
BusNobodyLeft ==
  BusTornDown => \A k \in BusConsumers : busSub[k].phase \in {"new", "refused", "leaving"} \/ busSub[k].shut

\* The reconnect budget is per outage: an established bus gives up only after
\* MaxAttempts - 1 failed redials since the last handshake.
BusBudget == bus.err = "exhausted" => busLoop.redials = BusMaxAttempts - 1

\* A dial returns: its timer, its ctx or the bus itself ends the wait.
BusDialReturns == \A w \in BusWaiters : busWaiter[w] = "waiting" ~> busWaiter[w] \in {"ok", "err"}

\* A closed bus stops its run loop, wherever it is, and releases its consumers.
BusCloseEnds ==
  bus.closed ~> /\ busLoop.pc \in {"off", "done"}
                /\ \A k \in BusConsumers : busSub[k].phase = "subscribed" => busSub[k].shut

\* Dials return, and a closed bus ends its run loop and its consumers.
BusEverybodyReturns == BusDialReturns /\ BusCloseEnds
=============================================================================
