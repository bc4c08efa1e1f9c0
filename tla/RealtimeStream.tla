---------------------------- MODULE RealtimeStream ----------------------------
(* How a realtime event published on Redis reaches the GraphQL subscriptions  *)
(* of one process: RedisRealtimeBus of @modern-admin/realtime with its one     *)
(* subscriber connection, and the iterator createRealtimeAsyncIterator of      *)
(* @modern-admin/graphql builds for every subscription.                        *)
(*                                                                           *)
(* Redis is external: it hands every event to each subscribed connection, in   *)
(* the order of publication, and may refuse a SUBSCRIBE.                       *)
EXTENDS Naturals, Sequences, SequencesExt

CONSTANTS
    Subs,       \* the subscriptions: one iterator and one bus handler each
    Wanted,     \* per subscription, the events that pass its filter
    MaxEvents,  \* bound on the events published, by any instance
    MaxConns,   \* bound on the subscriber connections the bus opens
    MaxPulls,   \* bound on a subscription's next() calls that wait
    MayRefuse,  \* Redis may refuse to subscribe a connection
    MayClose    \* close() of the bus is called

Events == 1 .. MaxEvents
Conns == 1 .. MaxConns

ASSUME StreamAssumption ==
    /\ MaxEvents \in Nat /\ MaxConns \in Nat \ {0} /\ MaxPulls \in Nat
    /\ Wanted \in [Subs -> SUBSET Events]
    /\ MayRefuse \in BOOLEAN /\ MayClose \in BOOLEAN

VARIABLES
    published,  \* the number of events published: they are 1 .. published
    conn,       \* the connections: the reply to SUBSCRIBE, the messages not read
                \* yet, and how many events were published before it
    current,    \* subscriberStarted: the connection subscribe() waits for, 0: null
    handlers,   \* the bus's handlers
    iter,       \* the iterators
    closer      \* where close() of the bus stands, and the connection it took

vars == <<published, conn, current, handlers, iter, closer>>

-----------------------------------------------------------------------------
(* The bus.                                                                    *)

\* publish(): Redis copies the message to the connections that are subscribed.
Publish ==
    /\ published < MaxEvents
    /\ published' = published + 1
    /\ conn' = [c \in Conns |->
           IF conn[c].live THEN [conn[c] EXCEPT !.inbox = Append(@, published')] ELSE conn[c]]
    /\ UNCHANGED <<current, handlers, iter, closer>>

\* Redis answers SUBSCRIBE; what is published from now on reaches the connection.
Subscribed(c) ==
    /\ conn[c].reply = "pending"
    /\ \/ conn' = [conn EXCEPT ![c] = [@ EXCEPT !.reply = "ok", !.live = TRUE, !.from = published]]
       \/ MayRefuse /\ conn' = [conn EXCEPT ![c].reply = "refused"]
    /\ UNCHANGED <<published, current, handlers, iter, closer>>

\* An iterator that keeps the event although a next() call waits for it.
Kept(i, e) ==
    IF i.pulls > 0 THEN [i EXCEPT !.pulls = @ - 1, !.got = Append(@, e), !.queue = Append(@, e)]
                   ELSE [i EXCEPT !.queue = Append(@, e)]

\* A handler that has nowhere to put an event nobody waits for.
Dropped(i, e) == IF i.pulls > 0 THEN [i EXCEPT !.pulls = @ - 1, !.got = Append(@, e)] ELSE i

\* A handler that resolves a waiting next() without looking whether there is one.
Unchecked(i, e) == [i EXCEPT !.pulls = @ - 1, !.got = Append(@, e)]

\* The handler of an iterator: the waiting next() gets the event, or the queue.
Handled(i, e) ==
    IF i.pulls > 0 THEN [i EXCEPT !.pulls = @ - 1, !.got = Append(@, e)]
                   ELSE [i EXCEPT !.queue = Append(@, e)]

\* The message listener runs every handler in one go.
Message(c) ==
    /\ conn[c].inbox # <<>>
    /\ LET e == Head(conn[c].inbox) IN
        iter' = [s \in Subs |->
                    IF s \in handlers /\ ~iter[s].closed /\ e \in Wanted[s]
                      THEN Handled(iter[s], e) ELSE iter[s]]
    /\ conn' = [conn EXCEPT ![c].inbox = Tail(@)]
    /\ UNCHANGED <<published, current, handlers, closer>>

\* close() forgets the connection before it awaits its end; without one it
\* clears the handlers at once.
Close ==
    /\ MayClose /\ closer.pc = "idle"
    /\ closer' = [pc |-> IF current = 0 THEN "done" ELSE "unsubscribe", conn |-> current]
    /\ current' = 0
    /\ handlers' = IF current = 0 THEN {} ELSE handlers
    /\ UNCHANGED <<published, conn, iter>>

\* unsubscribe and quit run after the SUBSCRIBE that was sent before them.
Unsubscribe ==
    /\ closer.pc = "unsubscribe" /\ conn[closer.conn].reply # "pending"
    /\ conn' = [conn EXCEPT ![closer.conn].live = FALSE]
    /\ closer' = [closer EXCEPT !.pc = "clear"]
    /\ UNCHANGED <<published, current, handlers, iter>>

\* handlers.clear(): every handler there is by now.
ClearHandlers ==
    /\ closer.pc = "clear"
    /\ handlers' = {}
    /\ closer' = [closer EXCEPT !.pc = "done"]
    /\ UNCHANGED <<published, conn, current, iter>>

-----------------------------------------------------------------------------
(* The iterator.                                                               *)

\* createRealtimeAsyncIterator: the handler is added before the connection is
\* there; ensureSubscriber opens one only if none was ever started.
Create(s) ==
    /\ iter[s].sub = "none"
    /\ handlers' = handlers \cup {s}
    /\ LET fresh == {c \in Conns : conn[c].reply = "unused"}
           c == IF current # 0 THEN current ELSE CHOOSE d \in fresh : \A x \in fresh : d <= x
       IN /\ current # 0 \/ fresh # {}
          /\ current' = c
          /\ conn' = IF current = 0 THEN [conn EXCEPT ![c].reply = "pending"] ELSE conn
          /\ iter' = [iter EXCEPT ![s] = [@ EXCEPT !.sub = "waiting", !.conn = c, !.born = published]]
    /\ UNCHANGED <<published, closer>>

\* A subscription closed before its registration is not looked after.
LateTeardownForgotten(s) == FALSE

\* bus.subscribe has resolved: an iterator closed meanwhile unsubscribes now.
LateTeardown(s) == iter[s].closed

Registered(s) ==
    /\ iter[s].sub = "waiting" /\ conn[iter[s].conn].reply = "ok"
    /\ iter' = [iter EXCEPT ![s].sub = IF LateTeardown(s) THEN "left" ELSE "held"]
    /\ handlers' = IF LateTeardown(s) THEN handlers \ {s} ELSE handlers
    /\ UNCHANGED <<published, conn, current, closer>>

\* bus.subscribe has rejected: one waiting next() ends, the handler stays.
Rejected(s) ==
    /\ iter[s].sub = "waiting" /\ conn[iter[s].conn].reply = "refused"
    /\ LET i == iter[s] IN
        iter' = [iter EXCEPT ![s] = [i EXCEPT !.sub = "failed", !.closed = TRUE,
                                              !.pulls = IF i.pulls > 0 THEN i.pulls - 1 ELSE 0]]
    /\ UNCHANGED <<published, conn, current, handlers, closer>>

\* next(): an event of the queue, the end, or a wait.
Pull(s) ==
    /\ iter[s].sub # "none"
    /\ LET i == iter[s] IN
        iter' = [iter EXCEPT ![s] =
                    IF i.queue # <<>> THEN [i EXCEPT !.got = Append(@, Head(i.queue)),
                                                     !.queue = Tail(@)]
                    ELSE IF i.closed THEN i
                    ELSE [i EXCEPT !.pulls = @ + 1]]
    /\ iter'[s].pulls <= MaxPulls
    /\ iter' # iter
    /\ UNCHANGED <<published, conn, current, handlers, closer>>

\* A teardown that leaves the waiting next() calls as they are.
NoneEnd(pulls) == pulls

\* The waiting next() calls a teardown leaves.
AllEnd(pulls) == 0

\* return() or throw(): teardown, which does nothing the second time.
Return(s) ==
    /\ iter[s].sub # "none" /\ ~iter[s].closed
    /\ LET i == iter[s] IN
        iter' = [iter EXCEPT ![s] = [i EXCEPT !.closed = TRUE, !.pulls = AllEnd(i.pulls),
                                              !.sub = IF i.sub = "held" THEN "left" ELSE i.sub]]
    /\ handlers' = IF iter[s].sub = "held" THEN handlers \ {s} ELSE handlers
    /\ UNCHANGED <<published, conn, current, closer>>

-----------------------------------------------------------------------------
Init ==
    /\ published = 0
    /\ conn = [c \in Conns |-> [reply |-> "unused", live |-> FALSE, inbox |-> <<>>, from |-> 0]]
    /\ current = 0
    /\ handlers = {}
    /\ iter = [s \in Subs |-> [sub |-> "none", conn |-> 0, born |-> 0, closed |-> FALSE,
                               queue |-> <<>>, pulls |-> 0, got |-> <<>>]]
    /\ closer = [pc |-> "idle", conn |-> 0]

BusStep == (\E c \in Conns : Subscribed(c) \/ Message(c)) \/ Unsubscribe \/ ClearHandlers

IterStep(s) == Registered(s) \/ Rejected(s)

Next ==
    \/ Publish \/ Close \/ BusStep
    \/ \E s \in Subs : Create(s) \/ IterStep(s) \/ Pull(s) \/ Return(s)

Spec == Init /\ [][Next]_vars

\* Redis answers, messages are read, promises settle; clients owe nothing.
FairSpec == Spec /\ WF_vars(BusStep) /\ \A s \in Subs : WF_vars(IterStep(s))

-----------------------------------------------------------------------------
(* Properties.                                                               *)

Replies == {"unused", "pending", "ok", "refused"}
SubStates == {"none", "waiting", "held", "left", "failed"}

\* Connections, iterators and the closer are of their shapes.
TypeOK ==
    /\ published \in 0 .. MaxEvents
    /\ conn \in [Conns -> [reply : Replies, live : BOOLEAN, inbox : Seq(Events), from : Nat]]
    /\ current \in 0 .. MaxConns
    /\ handlers \subseteq Subs
    /\ iter \in [Subs -> [sub : SubStates, conn : 0 .. MaxConns, born : Nat, closed : BOOLEAN,
                          queue : Seq(Events), pulls : 0 .. MaxPulls, got : Seq(Events)]]
    /\ closer \in [pc : {"idle", "unsubscribe", "clear", "done"}, conn : 0 .. MaxConns]

\* What a subscription has got and holds.
Seen(s) == iter[s].got \o iter[s].queue

\* The events it has seen and those still to be read from its connection.
Stream(s) == Seen(s) \o conn[iter[s].conn].inbox

\* An open subscription sees the events it asked for, and no other, in their
\* order and each once, and misses none that was published since it was created
\* and its connection subscribed, whichever of next() and the event comes first.
\* (A bus that closes drops its handlers.)
StreamIsExact ==
    \A s \in Subs :
        closer.pc = "idle" /\ iter[s].sub \in {"waiting", "held"} /\ ~iter[s].closed
                /\ conn[iter[s].conn].live =>
            /\ \A m, n \in DOMAIN Stream(s) : m < n => Stream(s)[m] < Stream(s)[n]
            /\ \A m \in DOMAIN Seen(s) : Seen(s)[m] \in Wanted[s]
            /\ \A e \in Wanted[s] :
                e <= published /\ e > iter[s].born /\ e > conn[iter[s].conn].from
                    => Contains(Stream(s), e)

\* No next() call waits beside a queued event, or on a closed subscription.
NoLostWakeup == \A s \in Subs : iter[s].pulls > 0 => iter[s].queue = <<>> /\ ~iter[s].closed

\* A registered subscription that is closed leaves no handler behind in the bus,
\* wherever its end fell in its registration.
ClosedLeavesNoHandler ==
    \A s \in Subs : iter[s].closed /\ iter[s].sub \in {"held", "left"} => s \notin handlers

\* An event on its way to a registered subscription arrives, unless the client
\* closes it or the bus shuts down first; a waiting next() then has it (NoLostWakeup).
EventsArrive ==
    \A s \in Subs : \A e \in Wanted[s] :
        iter[s].sub = "held" /\ Contains(conn[iter[s].conn].inbox, e)
            ~> \/ iter[s].closed \/ closer.pc # "idle"
               \/ Contains(Seen(s), e)
=============================================================================
