------------------------ MODULE RealtimeStreamProofs ------------------------
(* The safety of the event streams for every number of subscriptions, events, *)
(* connections and waiting next() calls.                                      *)
EXTENDS RealtimeStream, TLAPS

Connections == [reply : Replies, live : BOOLEAN, inbox : Seq(Events), from : Nat]

Iterators == [sub : SubStates, conn : 0 .. MaxConns, born : Nat, closed : BOOLEAN,
              queue : Seq(Events), pulls : 0 .. MaxPulls, got : Seq(Events)]

\* The connections are opened in their order, so there is a first unused one.
OpenedInOrder ==
    \E n \in 0 .. MaxConns : \A c \in Conns : conn[c].reply = "unused" <=> c > n

\* Who waits for a connection, or closes one, has one.
ConnectionsKnown ==
    /\ \A s \in Subs : iter[s].sub # "none" => iter[s].conn \in Conns
    /\ closer.pc = "unsubscribe" => closer.conn \in Conns

\* A subscription has left its handler only when it is closed.
LeftIsClosed == \A s \in Subs : iter[s].sub = "left" => iter[s].closed

IInv == TypeOK /\ OpenedInOrder /\ ConnectionsKnown /\ LeftIsClosed

LEMMA InitType == Init => IInv
<1>. SUFFICES ASSUME Init PROVE IInv
    OBVIOUS
<1>. USE StreamAssumption DEF StreamAssumption, Init
<1>1. <<>> \in Seq(Events)
    OBVIOUS
<1>2. conn \in [Conns -> Connections]
    BY <1>1 DEF Connections, Replies
<1>3. iter \in [Subs -> Iterators]
    BY <1>1 DEF Iterators, SubStates
<1>4. closer \in [pc : {"idle", "unsubscribe", "clear", "done"}, conn : 0 .. MaxConns]
    OBVIOUS
<1>5. published \in 0 .. MaxEvents /\ current \in 0 .. MaxConns /\ handlers \subseteq Subs
    OBVIOUS
<1>6. TypeOK
    BY <1>2, <1>3, <1>4, <1>5 DEF TypeOK, Connections, Iterators
<1>7. OpenedInOrder
    <2>1. \A c \in Conns : conn[c].reply = "unused" <=> c > 0
        BY DEF Conns
    <2>. QED BY <2>1 DEF OpenedInOrder
<1>8. ConnectionsKnown /\ LeftIsClosed
    BY DEF ConnectionsKnown, LeftIsClosed
<1>. QED BY <1>6, <1>7, <1>8 DEF IInv

\* A connection changes to one of its shape.
LEMMA ConnUpdate ==
    ASSUME NEW c \in Conns, NEW x \in Connections, conn \in [Conns -> Connections],
           conn' = [conn EXCEPT ![c] = x]
    PROVE  /\ conn' \in [Conns -> Connections]
           /\ conn'[c] = x /\ \A d \in Conns : d # c => conn'[d] = conn[d]
OBVIOUS

\* An iterator changes to one of its shape.
LEMMA IterUpdate ==
    ASSUME NEW s \in Subs, NEW x \in Iterators, iter \in [Subs -> Iterators],
           iter' = [iter EXCEPT ![s] = x]
    PROVE  /\ iter' \in [Subs -> Iterators]
           /\ iter'[s] = x /\ \A t \in Subs : t # s => iter'[t] = iter[t]
OBVIOUS

\* Handling an event keeps the shape: a waiting call gets it, or the queue.
LEMMA HandledType ==
    ASSUME NEW i \in Iterators, NEW e \in Events
    PROVE  /\ Handled(i, e) \in Iterators
           /\ Handled(i, e).sub = i.sub /\ Handled(i, e).conn = i.conn
           /\ Handled(i, e).born = i.born /\ Handled(i, e).closed = i.closed
           /\ i.pulls > 0 => /\ Handled(i, e).pulls = i.pulls - 1
                             /\ Handled(i, e).queue = i.queue
                             /\ Handled(i, e).got = Append(i.got, e)
           /\ i.pulls = 0 => /\ Handled(i, e).pulls = 0
                             /\ Handled(i, e).queue = Append(i.queue, e)
                             /\ Handled(i, e).got = i.got
<1>0. i.pulls \in 0 .. MaxPulls /\ i.queue \in Seq(Events) /\ i.got \in Seq(Events)
    BY DEF Iterators
<1>1. Append(i.got, e) \in Seq(Events) /\ Append(i.queue, e) \in Seq(Events)
    BY <1>0
<1>2. CASE i.pulls > 0
    <2>1. Handled(i, e) = [i EXCEPT !.pulls = i.pulls - 1, !.got = Append(i.got, e)]
        BY <1>2 DEF Handled
    <2>2. i.pulls - 1 \in 0 .. MaxPulls
        BY <1>0, <1>2, StreamAssumption DEF StreamAssumption
    <2>3. Handled(i, e) \in Iterators
        BY <1>1, <2>1, <2>2 DEF Iterators
    <2>. QED BY <1>2, <2>1, <2>3 DEF Iterators
<1>3. CASE i.pulls = 0
    <2>1. Handled(i, e) = [i EXCEPT !.queue = Append(i.queue, e)]
        BY <1>3 DEF Handled
    <2>2. Handled(i, e) \in Iterators
        BY <1>1, <2>1 DEF Iterators
    <2>. QED BY <1>3, <2>1, <2>2 DEF Iterators
<1>. QED BY <1>0, <1>2, <1>3, StreamAssumption DEF StreamAssumption

\* The shapes, part by part.
LEMMA Shapes ==
    TypeOK <=> /\ published \in 0 .. MaxEvents
               /\ conn \in [Conns -> Connections]
               /\ current \in 0 .. MaxConns
               /\ handlers \subseteq Subs
               /\ iter \in [Subs -> Iterators]
               /\ closer \in [pc : {"idle", "unsubscribe", "clear", "done"}, conn : 0 .. MaxConns]
BY DEF TypeOK, Connections, Iterators

\* What one step does to the iterator of a subscription s; the other iterators
\* stay.
IterOnly(s) == \A t \in Subs : t # s => iter'[t] = iter[t]

LEMMA PublishStep ==
    ASSUME IInv, Publish
    PROVE  IInv'
<1>. USE StreamAssumption DEF StreamAssumption, IInv
<1>1. published' \in 0 .. MaxEvents /\ published' \in Events
    BY DEF Publish, TypeOK, Events
<1>2. \A c \in Conns : /\ conn'[c] \in Connections
                       /\ conn'[c].reply = conn[c].reply
    <2>. TAKE c \in Conns
    <2>1. conn[c] \in Connections
        BY Shapes
    <2>2. conn'[c] = IF conn[c].live
                       THEN [conn[c] EXCEPT !.inbox = Append(conn[c].inbox, published')] ELSE conn[c]
        BY DEF Publish
    <2>3. Append(conn[c].inbox, published') \in Seq(Events)
        BY <1>1, <2>1 DEF Connections
    <2>. QED BY <2>1, <2>2, <2>3 DEF Connections
<1>3. conn' \in [Conns -> Connections]
    BY <1>2 DEF Publish
<1>4. TypeOK'
    BY <1>1, <1>3, Shapes DEF Publish, TypeOK, Connections, Iterators
<1>5. OpenedInOrder'
    BY <1>2 DEF OpenedInOrder
<1>. QED BY <1>4, <1>5 DEF Publish, ConnectionsKnown, LeftIsClosed

LEMMA SubscribedStep ==
    ASSUME IInv, NEW c \in Conns, Subscribed(c)
    PROVE  IInv'
<1>. USE StreamAssumption DEF StreamAssumption, IInv
<1>0. conn \in [Conns -> Connections] /\ conn[c].reply = "pending"
    BY Shapes DEF Subscribed
<1>1. \E x \in Connections : conn' = [conn EXCEPT ![c] = x] /\ x.reply # "unused"
    <2>1. CASE conn' = [conn EXCEPT ![c].reply = "refused"]
        <3>. DEFINE x == [conn[c] EXCEPT !.reply = "refused"]
        <3>1. conn' = [conn EXCEPT ![c] = x]
            BY <1>0, <2>1
        <3>2. x \in Connections /\ x.reply = "refused"
            BY <1>0 DEF Connections, Replies
        <3>. QED BY <3>1, <3>2
    <2>. DEFINE y == [conn[c] EXCEPT !.reply = "ok", !.live = TRUE, !.from = published]
    <2>2. CASE conn' = [conn EXCEPT ![c] = y]
        <3>1. conn[c] \in Connections /\ published \in Nat
            BY <1>0 DEF TypeOK
        <3>3. y \in Connections
            BY <3>1 DEF Connections, Replies
        <3>4. y.reply = "ok"
            BY <3>1 DEF Connections
        <3>. HIDE DEF y
        <3>. QED BY <2>2, <3>3, <3>4
    <2>. QED BY <2>1, <2>2 DEF Subscribed
<1>2. /\ conn' \in [Conns -> Connections]
      /\ \A d \in Conns : conn'[d].reply = "unused" <=> conn[d].reply = "unused"
    BY <1>0, <1>1, ConnUpdate
<1>3. TypeOK'
    BY <1>2, Shapes DEF Subscribed, TypeOK, Connections, Iterators
<1>4. OpenedInOrder'
    BY <1>2 DEF OpenedInOrder
<1>. QED BY <1>3, <1>4 DEF Subscribed, ConnectionsKnown, LeftIsClosed

\* A message is handled by the open subscriptions that asked for it.
LEMMA MessageStep ==
    ASSUME IInv, NEW c \in Conns, Message(c)
    PROVE  IInv'
<1>. USE StreamAssumption DEF StreamAssumption, IInv
<1>0. conn \in [Conns -> Connections] /\ iter \in [Subs -> Iterators]
    BY Shapes
<1>1. conn[c].inbox \in Seq(Events) /\ conn[c].inbox # <<>>
    BY <1>0 DEF Message, Connections
<1>2. Head(conn[c].inbox) \in Events /\ Tail(conn[c].inbox) \in Seq(Events)
    BY <1>1
<1>3. /\ conn' \in [Conns -> Connections]
      /\ \A d \in Conns : conn'[d].reply = conn[d].reply
    <2>1. conn' = [conn EXCEPT ![c] = [conn[c] EXCEPT !.inbox = Tail(conn[c].inbox)]]
        BY <1>0 DEF Message
    <2>2. [conn[c] EXCEPT !.inbox = Tail(conn[c].inbox)] \in Connections
        BY <1>0, <1>2 DEF Connections
    <2>3. [conn[c] EXCEPT !.inbox = Tail(conn[c].inbox)].reply = conn[c].reply
        BY <1>0 DEF Connections
    <2>. QED BY <1>0, <2>1, <2>2, <2>3, ConnUpdate
<1>4. \A s \in Subs : \/ iter'[s] = iter[s]
                      \/ iter'[s] = Handled(iter[s], Head(conn[c].inbox))
    BY DEF Message
<1>5. \A s \in Subs : /\ iter'[s] \in Iterators
                      /\ iter'[s].sub = iter[s].sub
                      /\ iter'[s].conn = iter[s].conn
                      /\ iter'[s].closed = iter[s].closed
    BY <1>0, <1>2, <1>4, HandledType
<1>6. iter' \in [Subs -> Iterators]
    BY <1>5 DEF Message
<1>7. TypeOK'
    BY <1>3, <1>6, Shapes DEF Message, TypeOK, Connections, Iterators
<1>8. OpenedInOrder'
    BY <1>3 DEF OpenedInOrder
<1>. QED BY <1>5, <1>7, <1>8 DEF Message, ConnectionsKnown, LeftIsClosed

LEMMA CloseStep ==
    ASSUME IInv, Close \/ Unsubscribe \/ ClearHandlers
    PROVE  IInv'
<1>. USE StreamAssumption DEF StreamAssumption, IInv
<1>1. CASE Close
    <2>1. TypeOK'
        BY <1>1 DEF Close, TypeOK
    <2>2. OpenedInOrder'
        BY <1>1 DEF Close, OpenedInOrder
    <2>3. current # 0 => current \in Conns
        BY DEF TypeOK, Conns
    <2>. QED BY <1>1, <2>1, <2>2, <2>3 DEF Close, ConnectionsKnown, LeftIsClosed
<1>2. CASE Unsubscribe
    <2>0. conn \in [Conns -> Connections] /\ closer.conn \in Conns
        BY <1>2, Shapes DEF Unsubscribe, ConnectionsKnown
    <2>1. conn' = [conn EXCEPT ![closer.conn] = [conn[closer.conn] EXCEPT !.live = FALSE]]
        BY <1>2, <2>0 DEF Unsubscribe
    <2>2. [conn[closer.conn] EXCEPT !.live = FALSE] \in Connections
        BY <2>0 DEF Connections
    <2>3. [conn[closer.conn] EXCEPT !.live = FALSE].reply = conn[closer.conn].reply
        BY <2>0 DEF Connections
    <2>4. /\ conn' \in [Conns -> Connections]
          /\ \A d \in Conns : conn'[d].reply = conn[d].reply
        BY <2>0, <2>1, <2>2, <2>3, ConnUpdate
    <2>5. TypeOK'
        BY <1>2, <2>4, Shapes DEF Unsubscribe, TypeOK, Connections, Iterators
    <2>6. OpenedInOrder'
        BY <2>4 DEF OpenedInOrder
    <2>7. closer'.pc = "clear"
        BY <1>2 DEF Unsubscribe, TypeOK
    <2>. QED BY <1>2, <2>5, <2>6, <2>7 DEF Unsubscribe, ConnectionsKnown, LeftIsClosed
<1>3. CASE ClearHandlers
    <2>1. TypeOK' /\ closer'.pc = "done"
        BY <1>3 DEF ClearHandlers, TypeOK
    <2>. QED BY <1>3, <2>1 DEF ClearHandlers, OpenedInOrder, ConnectionsKnown, LeftIsClosed
<1>. QED BY <1>1, <1>2, <1>3

\* The first unused connection is there as long as one is unused.
LEMMA FreshConnection ==
    ASSUME IInv, NEW fresh, fresh = {c \in Conns : conn[c].reply = "unused"}, fresh # {}
    PROVE  /\ (CHOOSE d \in fresh : \A x \in fresh : d <= x) \in fresh
           /\ \A x \in fresh : (CHOOSE d \in fresh : \A y \in fresh : d <= y) <= x
<1>1. PICK n \in 0 .. MaxConns : \A c \in Conns : conn[c].reply = "unused" <=> c > n
    BY DEF IInv, OpenedInOrder
<1>2. n + 1 \in fresh /\ \A x \in fresh : n + 1 <= x
    BY <1>1, StreamAssumption DEF Conns, StreamAssumption
<1>. QED BY <1>2

LEMMA CreateStep ==
    ASSUME IInv, NEW s \in Subs, Create(s)
    PROVE  IInv'
<1>. USE StreamAssumption DEF StreamAssumption, IInv
<1>0. conn \in [Conns -> Connections] /\ iter \in [Subs -> Iterators]
    BY Shapes
<1>. DEFINE fresh == {c \in Conns : conn[c].reply = "unused"}
            first == CHOOSE d \in fresh : \A x \in fresh : d <= x
            c == IF current # 0 THEN current ELSE first
            x == [iter[s] EXCEPT !.sub = "waiting", !.conn = c, !.born = published]
<1>1. /\ handlers' = handlers \cup {s}
      /\ current # 0 \/ fresh # {}
      /\ current' = c
      /\ conn' = IF current = 0 THEN [conn EXCEPT ![c].reply = "pending"] ELSE conn
      /\ iter' = [iter EXCEPT ![s] = x]
      /\ UNCHANGED <<published, closer>>
    BY DEF Create
<1>2. fresh # {} => first \in fresh /\ \A y \in fresh : first <= y
    BY FreshConnection
<1>3. c \in Conns
    <2>. HIDE DEF first
    <2>. QED BY <1>1, <1>2 DEF TypeOK, Conns
<1>. HIDE DEF c
<1>4. x \in Iterators /\ x.sub = "waiting" /\ x.conn = c /\ x.closed = iter[s].closed
    <2>1. iter[s] \in Iterators /\ published \in Nat /\ c \in 0 .. MaxConns
        BY <1>0, <1>3 DEF Conns, TypeOK
    <2>2. x \in Iterators
        BY <2>1 DEF Iterators, SubStates
    <2>3. x.sub = "waiting" /\ x.conn = c /\ x.closed = iter[s].closed
        BY <2>1 DEF Iterators
    <2>. QED BY <2>2, <2>3
<1>5. /\ iter' \in [Subs -> Iterators]
      /\ iter'[s] = x /\ \A t \in Subs : t # s => iter'[t] = iter[t]
    <2>. HIDE DEF x
    <2>. QED BY <1>0, <1>1, <1>4, IterUpdate
<1>6. /\ conn' \in [Conns -> Connections] /\ OpenedInOrder'
    <2>1. CASE current # 0
        BY <1>0, <1>1, <2>1 DEF OpenedInOrder
    <2>2. CASE current = 0
        <3>1. conn' = [conn EXCEPT ![c] = [conn[c] EXCEPT !.reply = "pending"]]
            BY <1>0, <1>1, <2>2
        <3>2. /\ [conn[c] EXCEPT !.reply = "pending"] \in Connections
              /\ [conn[c] EXCEPT !.reply = "pending"].reply = "pending"
            BY <1>0, <1>3 DEF Connections, Replies
        <3>3. /\ conn' \in [Conns -> Connections]
              /\ conn'[c].reply = "pending"
              /\ \A d \in Conns : d # c => conn'[d] = conn[d]
            BY <1>0, <1>3, <3>1, <3>2, ConnUpdate
        <3>4. c \in fresh /\ \A y \in fresh : c <= y
            BY <1>1, <1>2, <2>2 DEF c
        <3>5. PICK n \in 0 .. MaxConns : \A d \in Conns : conn[d].reply = "unused" <=> d > n
            BY DEF OpenedInOrder
        <3>6. c = n + 1 /\ n + 1 \in 0 .. MaxConns
            BY <1>3, <3>4, <3>5 DEF Conns
        <3>7. \A d \in Conns : conn'[d].reply = "unused" <=> d > n + 1
            BY <3>3, <3>5, <3>6 DEF Conns
        <3>. QED BY <3>3, <3>6, <3>7 DEF OpenedInOrder
    <2>. QED BY <2>1, <2>2
<1>7. TypeOK'
    <2>1. current' \in 0 .. MaxConns /\ handlers' \subseteq Subs
        <3>1. c \in 0 .. MaxConns /\ handlers \subseteq Subs
            BY <1>3 DEF Conns, TypeOK
        <3>. HIDE DEF x
        <3>. QED BY <1>1, <3>1
    <2>. QED BY <1>1, <1>5, <1>6, <2>1, Shapes DEF TypeOK, Connections, Iterators
<1>8. ConnectionsKnown' /\ LeftIsClosed'
    <2>. HIDE DEF x
    <2>. QED BY <1>1, <1>3, <1>4, <1>5 DEF ConnectionsKnown, LeftIsClosed
<1>. QED BY <1>6, <1>7, <1>8

\* The other steps of an iterator.
LEMMA IteratorStep ==
    ASSUME IInv, NEW s \in Subs, IterStep(s) \/ Pull(s) \/ Return(s)
    PROVE  /\ IInv'
           /\ iter'[s].conn = iter[s].conn
           /\ \A t \in Subs : t # s => iter'[t] = iter[t]
<1>. USE StreamAssumption DEF StreamAssumption, IInv
<1>0. /\ conn \in [Conns -> Connections] /\ iter \in [Subs -> Iterators]
      /\ iter[s] \in Iterators
    BY Shapes
<1>. SUFFICES \E x \in Iterators :
                  /\ iter' = [iter EXCEPT ![s] = x]
                  /\ x.sub # "none" => iter[s].sub # "none"
                  /\ x.conn = iter[s].conn
                  /\ x.sub = "left" => x.closed
                  /\ handlers' \subseteq Subs
                  /\ UNCHANGED <<published, conn, current, closer>>
    <2>. SUFFICES ASSUME NEW x \in Iterators, iter' = [iter EXCEPT ![s] = x],
                         x.sub # "none" => iter[s].sub # "none", x.conn = iter[s].conn,
                         x.sub = "left" => x.closed, handlers' \subseteq Subs,
                         UNCHANGED <<published, conn, current, closer>>
                  PROVE  /\ IInv'
                         /\ iter'[s].conn = iter[s].conn
                         /\ \A t \in Subs : t # s => iter'[t] = iter[t]
        OBVIOUS
    <2>1. /\ iter' \in [Subs -> Iterators]
          /\ iter'[s] = x /\ \A t \in Subs : t # s => iter'[t] = iter[t]
        BY <1>0, IterUpdate
    <2>2. TypeOK'
        BY <2>1, Shapes DEF TypeOK, Connections, Iterators
    <2>3. OpenedInOrder' /\ ConnectionsKnown' /\ LeftIsClosed'
        BY <2>1 DEF OpenedInOrder, ConnectionsKnown, LeftIsClosed
    <2>. QED BY <2>1, <2>2, <2>3
<1>1. CASE Registered(s)
    <2>. DEFINE x == [iter[s] EXCEPT !.sub = IF LateTeardown(s) THEN "left" ELSE "held"]
    <2>1. iter' = [iter EXCEPT ![s] = x]
        BY <1>0, <1>1 DEF Registered
    <2>2. /\ x \in Iterators /\ x.conn = iter[s].conn
          /\ x.sub = "left" => x.closed
        BY <1>0 DEF Iterators, SubStates, LateTeardown
    <2>3. handlers' \subseteq Subs
        BY <1>1 DEF Registered, TypeOK
    <2>. QED BY <1>1, <2>1, <2>2, <2>3 DEF Registered
<1>2. CASE Rejected(s)
    <2>. DEFINE x == [iter[s] EXCEPT !.sub = "failed", !.closed = TRUE,
                                     !.pulls = IF iter[s].pulls > 0 THEN iter[s].pulls - 1 ELSE 0]
    <2>1. iter' = [iter EXCEPT ![s] = x]
        BY <1>0, <1>2 DEF Rejected
    <2>2. (IF iter[s].pulls > 0 THEN iter[s].pulls - 1 ELSE 0) \in 0 .. MaxPulls
        BY <1>0 DEF Iterators
    <2>3. x \in Iterators /\ x.conn = iter[s].conn /\ x.sub = "failed"
        BY <1>0, <2>2 DEF Iterators, SubStates
    <2>4. handlers' \subseteq Subs
        BY <1>2 DEF Rejected, TypeOK
    <2>. QED BY <1>2, <2>1, <2>3, <2>4 DEF Rejected
<1>3. CASE Pull(s)
    <2>1. CASE iter[s].queue # <<>>
        <3>. DEFINE x == [iter[s] EXCEPT !.got = Append(iter[s].got, Head(iter[s].queue)),
                                         !.queue = Tail(iter[s].queue)]
        <3>1. iter' = [iter EXCEPT ![s] = x]
            BY <1>0, <1>3, <2>1 DEF Pull
        <3>2. /\ Append(iter[s].got, Head(iter[s].queue)) \in Seq(Events)
              /\ Tail(iter[s].queue) \in Seq(Events)
            BY <1>0, <2>1 DEF Iterators
        <3>3. x \in Iterators /\ x.conn = iter[s].conn /\ x.sub = iter[s].sub /\ x.closed = iter[s].closed
            BY <1>0, <3>2 DEF Iterators
        <3>. QED BY <1>3, <3>1, <3>3 DEF Pull, LeftIsClosed, TypeOK
    <2>2. CASE iter[s].queue = <<>>
        <3>. DEFINE x == IF iter[s].closed THEN iter[s] ELSE [iter[s] EXCEPT !.pulls = iter[s].pulls + 1]
        <3>1. iter' = [iter EXCEPT ![s] = x]
            BY <1>0, <1>3, <2>2 DEF Pull
        <3>2. x.pulls <= MaxPulls
            BY <1>0, <1>3, <3>1 DEF Pull
        <3>3. iter[s].pulls \in 0 .. MaxPulls
            BY <1>0 DEF Iterators
        <3>4. CASE iter[s].closed
            BY <1>0, <1>3, <3>1, <3>4 DEF Pull, LeftIsClosed, TypeOK
        <3>5. CASE ~iter[s].closed
            <4>1. iter[s].pulls + 1 \in 0 .. MaxPulls
                BY <1>0, <3>2, <3>3, <3>5 DEF Iterators
            <4>2. x \in Iterators
                BY <1>0, <3>5, <4>1 DEF Iterators
            <4>3. x.conn = iter[s].conn /\ x.sub = iter[s].sub /\ x.closed = iter[s].closed
                BY <1>0, <3>5 DEF Iterators
            <4>. QED BY <1>3, <3>1, <4>2, <4>3 DEF Pull, LeftIsClosed, TypeOK
        <3>. QED BY <3>4, <3>5
    <2>. QED BY <2>1, <2>2
<1>4. CASE Return(s)
    <2>. DEFINE x == [iter[s] EXCEPT !.closed = TRUE, !.pulls = AllEnd(iter[s].pulls),
                                     !.sub = IF iter[s].sub = "held" THEN "left" ELSE iter[s].sub]
    <2>1. iter' = [iter EXCEPT ![s] = x]
        BY <1>0, <1>4 DEF Return
    <2>a. AllEnd(iter[s].pulls) \in 0 .. MaxPulls
        BY DEF AllEnd
    <2>2. x \in Iterators /\ x.conn = iter[s].conn /\ x.closed
        <3>1. (IF iter[s].sub = "held" THEN "left" ELSE iter[s].sub) \in SubStates
            BY <1>0 DEF Iterators, SubStates
        <3>2. x \in Iterators
            BY <1>0, <2>a, <3>1 DEF Iterators
        <3>. QED BY <1>0, <3>2 DEF Iterators
    <2>3. handlers' \subseteq Subs
        BY <1>4 DEF Return, TypeOK
    <2>. QED BY <1>4, <2>1, <2>2, <2>3 DEF Return
<1>. QED BY <1>1, <1>2, <1>3, <1>4 DEF IterStep

LEMMA NextType == ASSUME IInv, [Next]_vars PROVE IInv'
<1>1. CASE UNCHANGED vars
    BY <1>1 DEF vars, IInv, TypeOK, OpenedInOrder, ConnectionsKnown, LeftIsClosed
<1>. QED BY <1>1, PublishStep, CloseStep, SubscribedStep, MessageStep, CreateStep, IteratorStep
    DEF Next, BusStep

\* Connections, iterators and the closing bus keep their shapes; no subscription
\* waits for more calls than the bound, and none refers to a connection that was
\* never opened.
THEOREM TypeCorrect == Spec => []TypeOK
<1>1. IInv => TypeOK
    BY DEF IInv
<1>. QED BY <1>1, InitType, NextType, PTL DEF Spec

-----------------------------------------------------------------------------
(* No lost wake-up, and no handler left behind.                               *)

RefusedOnlyIfMay == MayRefuse \/ \A c \in Conns : conn[c].reply # "refused"

WakeInv == IInv /\ NoLostWakeup /\ RefusedOnlyIfMay

(* What a step does to the iterator of t and to its handler.                  *)

Untouched(t) == iter'[t] = iter[t] /\ (t \in handlers' => t \in handlers)

Same(t) ==
    iter'[t].closed = iter[t].closed /\ iter'[t].pulls = iter[t].pulls /\ iter'[t].queue = iter[t].queue

IsCreated(t) == iter[t].sub = "none" /\ iter'[t].sub = "waiting" /\ Same(t)

Delivered(t) ==
    ~iter[t].closed /\ handlers' = handlers /\ \E e \in Events : iter'[t] = Handled(iter[t], e)

IsRegistered(t) ==
    /\ iter[t].sub = "waiting" /\ Same(t)
    /\ iter'[t].sub = IF iter[t].closed THEN "left" ELSE "held"
    /\ handlers' = IF iter[t].closed THEN handlers \ {t} ELSE handlers

IsRejected(t) ==
    /\ conn[iter[t].conn].reply = "refused" /\ iter[t].sub = "waiting"
    /\ iter'[t].sub = "failed" /\ handlers' = handlers
    /\ iter'[t].closed = TRUE /\ iter'[t].queue = iter[t].queue
    /\ iter'[t].pulls = IF iter[t].pulls > 0 THEN iter[t].pulls - 1 ELSE 0

Pulled(t) ==
    /\ iter'[t].sub = iter[t].sub /\ iter'[t].closed = iter[t].closed /\ handlers' = handlers
    /\ \/ /\ iter[t].queue # <<>> /\ iter'[t].pulls = iter[t].pulls
          /\ iter'[t].queue = Tail(iter[t].queue)
       \/ /\ iter[t].queue = <<>> /\ ~iter[t].closed
          /\ iter'[t].queue = <<>> /\ iter'[t].pulls = iter[t].pulls + 1

Returned(t) ==
    /\ ~iter[t].closed
    /\ iter'[t].closed = TRUE /\ iter'[t].pulls = 0 /\ iter'[t].queue = iter[t].queue
    /\ iter'[t].sub = IF iter[t].sub = "held" THEN "left" ELSE iter[t].sub
    /\ handlers' = IF iter[t].sub = "held" THEN handlers \ {t} ELSE handlers

\* Every step is one of these for the iterator of t.
LEMMA IteratorEffect ==
    ASSUME IInv, Next, NEW t \in Subs
    PROVE  \/ Untouched(t) \/ IsCreated(t) \/ Delivered(t) \/ IsRegistered(t)
           \/ IsRejected(t) \/ Pulled(t) \/ Returned(t)
<1>0. iter \in [Subs -> Iterators] /\ iter[t] \in Iterators
    BY Shapes DEF IInv
<1>1. CASE UNCHANGED iter /\ handlers' \subseteq handlers
    BY <1>1 DEF Untouched
<1>2. ASSUME NEW c \in Conns, Message(c)
      PROVE  Untouched(t) \/ Delivered(t)
    <2>1. Head(conn[c].inbox) \in Events
        BY <1>2 DEF Message, IInv, TypeOK
    <2>. QED BY <1>2, <2>1 DEF Message, Untouched, Delivered
<1>3. ASSUME NEW s \in Subs, s # t, Create(s) \/ IterStep(s) \/ Pull(s) \/ Return(s)
      PROVE  Untouched(t)
    BY <1>0, <1>3 DEF Untouched, Create, IterStep, Registered, Rejected, Pull, Return
<1>4. ASSUME Create(t)
      PROVE  IsCreated(t)
    <2>1. \E x \in 0 .. MaxConns : iter'[t] = [iter[t] EXCEPT !.sub = "waiting", !.conn = x, !.born = published]
        <3>a. IInv'
            BY <1>4, CreateStep
        <3>1. current' \in 0 .. MaxConns
            BY <3>a DEF IInv, TypeOK
        <3>2. iter' = [iter EXCEPT ![t] = [iter[t] EXCEPT !.sub = "waiting", !.conn = current', !.born = published]]
            BY <1>4 DEF Create
        <3>. QED BY <1>0, <3>1, <3>2
    <2>. QED BY <1>0, <1>4, <2>1 DEF Create, Iterators, IsCreated, Same
<1>5. ASSUME Registered(t) PROVE IsRegistered(t)
    BY <1>0, <1>5 DEF Registered, LateTeardown, Iterators, IsRegistered, Same
<1>6. ASSUME Rejected(t) PROVE IsRejected(t)
    BY <1>0, <1>6 DEF Rejected, Iterators, IsRejected
<1>7. ASSUME Pull(t) PROVE Pulled(t)
    <2>1. CASE iter[t].queue # <<>>
        BY <1>0, <1>7, <2>1 DEF Pull, Iterators, Pulled
    <2>2. CASE iter[t].queue = <<>>
        <3>1. ~iter[t].closed
            BY <1>0, <1>7, <2>2 DEF Pull
        <3>2. iter'[t] = [iter[t] EXCEPT !.pulls = iter[t].pulls + 1]
            BY <1>0, <1>7, <2>2, <3>1 DEF Pull
        <3>. QED BY <1>0, <1>7, <2>2, <3>1, <3>2 DEF Pull, Iterators, Pulled
    <2>. QED BY <2>1, <2>2
<1>8. ASSUME Return(t) PROVE Returned(t)
    BY <1>0, <1>8 DEF Return, AllEnd, Iterators, Returned
<1>9. CASE Publish \/ Close \/ Unsubscribe \/ ClearHandlers \/ \E c \in Conns : Subscribed(c)
    BY <1>1, <1>9 DEF Publish, Close, Unsubscribe, ClearHandlers, Subscribed
<1>. QED
    BY <1>2, <1>3, <1>4, <1>5, <1>6, <1>7, <1>8, <1>9 DEF Next, BusStep, IterStep

LEMMA NextRefused ==
    ASSUME IInv, Next, RefusedOnlyIfMay
    PROVE  RefusedOnlyIfMay'
<1>0. conn \in [Conns -> Connections]
    BY Shapes DEF IInv
<1>1. CASE MayRefuse
    BY <1>1 DEF RefusedOnlyIfMay
<1>2. CASE ~MayRefuse
    <2>1. ASSUME NEW c \in Conns, Subscribed(c) PROVE \A d \in Conns : conn'[d].reply # "refused"
        BY ZenonT(40), <1>0, <1>2, <2>1 DEF Subscribed, RefusedOnlyIfMay, Connections
    <2>2. ASSUME NEW c \in Conns, Message(c) PROVE \A d \in Conns : conn'[d].reply # "refused"
        BY <1>0, <1>2, <2>2 DEF Message, RefusedOnlyIfMay, Connections
    <2>3. CASE Publish
        BY <1>0, <1>2, <2>3 DEF Publish, RefusedOnlyIfMay, Connections
    <2>4. CASE Unsubscribe
        BY <1>0, <1>2, <2>4 DEF Unsubscribe, RefusedOnlyIfMay, Connections, IInv, ConnectionsKnown
    <2>5. ASSUME NEW s \in Subs, Create(s) PROVE \A d \in Conns : conn'[d].reply # "refused"
        <3>1. \E c : conn' = [conn EXCEPT ![c].reply = "pending"] \/ conn' = conn
            BY <2>5 DEF Create
        <3>. QED BY <1>0, <1>2, <3>1 DEF RefusedOnlyIfMay, Connections
    <2>6. CASE UNCHANGED conn
        BY <1>2, <2>6 DEF RefusedOnlyIfMay
    <2>. QED
        BY <2>1, <2>2, <2>3, <2>4, <2>5, <2>6 DEF Next, BusStep, Close, ClearHandlers, IterStep,
            Registered, Rejected, Pull, Return, RefusedOnlyIfMay
<1>. QED BY <1>1, <1>2

LEMMA NextWakeup ==
    ASSUME WakeInv, Next, MaxPulls <= 1 \/ ~MayRefuse
    PROVE  NoLostWakeup'
<1>. SUFFICES ASSUME NEW t \in Subs, iter'[t].pulls > 0
              PROVE  iter'[t].queue = <<>> /\ ~iter'[t].closed
    BY DEF NoLostWakeup
<1>0. /\ IInv /\ iter[t] \in Iterators
      /\ iter[t].pulls > 0 => iter[t].queue = <<>> /\ ~iter[t].closed
    BY Shapes DEF WakeInv, IInv, NoLostWakeup
<1>1. iter[t].pulls \in Nat /\ iter[t].pulls <= MaxPulls /\ iter[t].queue \in Seq(Events)
    BY <1>0, StreamAssumption DEF Iterators, StreamAssumption
<1>2. iter[t].sub = "waiting" /\ conn[iter[t].conn].reply = "refused" => MaxPulls <= 1
    BY <1>0 DEF WakeInv, RefusedOnlyIfMay, IInv, ConnectionsKnown
<1>3. CASE Delivered(t)
    <2>1. PICK e \in Events : iter'[t] = Handled(iter[t], e)
        BY <1>3 DEF Delivered
    <2> DEFINE h == Handled(iter[t], e)
    <2>2. /\ h.closed = iter[t].closed
          /\ iter[t].pulls > 0 => h.queue = iter[t].queue
          /\ iter[t].pulls = 0 => h.pulls = 0
        BY <1>0, HandledType
    <2>3. h.pulls > 0
        BY <2>1
    <2>4. iter[t].pulls > 0
        <3> HIDE DEF h
        <3>. QED BY <1>1, <2>2, <2>3
    <2>5. h.queue = <<>> /\ ~h.closed
        BY <1>0, <2>2, <2>4
    <2>. QED BY <2>1, <2>5
<1>4. CASE IsRejected(t)
    BY <1>1, <1>2, <1>4, StreamAssumption DEF IsRejected, StreamAssumption
<1>5. CASE Untouched(t) \/ IsCreated(t) \/ IsRegistered(t)
    BY <1>0, <1>5 DEF Untouched, IsCreated, IsRegistered, Same
<1>6. CASE Pulled(t)
    BY <1>0, <1>1, <1>6 DEF Pulled
<1>7. CASE Returned(t)
    BY <1>7 DEF Returned
<1>. QED
    BY <1>0, <1>3, <1>4, <1>5, <1>6, <1>7, IteratorEffect DEF WakeInv

\* A next() call never waits beside a queued event, nor on a closed subscription,
\* in whatever order next(), the events, the replies of Redis and return() come.
\* A refused SUBSCRIBE ends one of the waiting calls only: where Redis may refuse,
\* the client must not have two calls waiting at a time.
THEOREM WakeupsAreNotLost ==
    ASSUME MaxPulls <= 1 \/ ~MayRefuse
    PROVE  Spec => []NoLostWakeup
<1>1. Init => WakeInv
    BY InitType DEF Init, WakeInv, NoLostWakeup, RefusedOnlyIfMay
<1>2. WakeInv /\ [Next]_vars => WakeInv'
    <2>. SUFFICES ASSUME WakeInv, [Next]_vars PROVE WakeInv'
        OBVIOUS
    <2>1. CASE Next
        BY <2>1, NextType, NextWakeup, NextRefused DEF WakeInv
    <2>2. CASE UNCHANGED vars
        BY <2>2, NextType DEF vars, WakeInv, NoLostWakeup, RefusedOnlyIfMay
    <2>. QED BY <2>1, <2>2
<1>3. WakeInv => NoLostWakeup
    BY DEF WakeInv
<1>. QED BY <1>1, <1>2, <1>3, PTL DEF Spec

\* A registered subscription that was closed leaves no handler in the bus, whether
\* it was closed before, while or after its registration came through.
THEOREM HandlersAreRemoved == Spec => []ClosedLeavesNoHandler
<1>1. Init => ClosedLeavesNoHandler
    BY DEF Init, ClosedLeavesNoHandler
<1>2. IInv /\ ClosedLeavesNoHandler /\ [Next]_vars => ClosedLeavesNoHandler'
    <2>. SUFFICES ASSUME IInv, ClosedLeavesNoHandler, [Next]_vars,
                         NEW t \in Subs, iter'[t].closed, iter'[t].sub \in {"held", "left"}
                  PROVE  t \notin handlers'
        BY DEF ClosedLeavesNoHandler
    <2>0. iter[t] \in Iterators
        BY Shapes DEF IInv
    <2>1. CASE Next
        <3>1. CASE Delivered(t)
            <4>. PICK e \in Events : iter'[t] = Handled(iter[t], e)
                BY <3>1 DEF Delivered
            <4>. QED BY <2>0, <3>1, HandledType DEF Delivered
        <3>2. CASE Untouched(t) \/ Pulled(t)
            BY <3>2 DEF Untouched, Pulled, ClosedLeavesNoHandler
        <3>3. CASE IsCreated(t) \/ IsRejected(t)
            BY <3>3 DEF IsCreated, IsRejected
        <3>4. CASE IsRegistered(t)
            BY <3>4 DEF IsRegistered, Same
        <3>5. CASE Returned(t)
            BY <3>5 DEF Returned, IInv, LeftIsClosed
        <3>. QED BY <2>1, <3>1, <3>2, <3>3, <3>4, <3>5, IteratorEffect
    <2>2. CASE UNCHANGED vars
        BY <2>2 DEF vars, ClosedLeavesNoHandler
    <2>. QED BY <2>1, <2>2
<1>. QED BY <1>1, <1>2, InitType, NextType, PTL DEF Spec
-----------------------------------------------------------------------------
(* The stream of an open subscription.                                        *)

\* While the bus is open it uses one connection, which stays subscribed.
OneConnection ==
    closer.pc = "idle" =>
        /\ \A c \in Conns : c # current => conn[c].reply = "unused"
        /\ \A s \in Subs : iter[s].sub # "none" => iter[s].conn = current
        /\ \A c \in Conns : conn[c].reply = "ok" => conn[c].live

\* Nothing reaches a connection that Redis has not subscribed.
QuietBefore == \A c \in Conns : conn[c].reply # "ok" => ~conn[c].live /\ conn[c].inbox = <<>>

\* What waits to be read is the last events published, in their order.
ReadInOrder ==
    \A c \in Conns : conn[c].live =>
        /\ conn[c].from + Len(conn[c].inbox) <= published
        /\ \A i \in 1 .. Len(conn[c].inbox) :
              conn[c].inbox[i] = published - Len(conn[c].inbox) + i

Open(s) == closer.pc = "idle" /\ iter[s].sub \in {"waiting", "held"} /\ ~iter[s].closed

OpenIsHandled == \A s \in Subs : Open(s) => s \in handlers

EmptyAtFirst ==
    \A s \in Subs : iter[s].sub = "none" =>
        s \notin handlers /\ iter[s].got = <<>> /\ iter[s].queue = <<>>

WaitsOnEmpty == \A s \in Subs : ~iter[s].closed /\ iter[s].pulls > 0 => iter[s].queue = <<>>

ConnInv == OneConnection /\ QuietBefore /\ ReadInOrder

\* The last event the connection of a subscription has handled.
Read(s) == published - Len(conn[iter[s].conn].inbox)

Ordered(q) == \A m, n \in 1 .. Len(q) : m < n => q[m] < q[n]

Before(p, q) == \A m \in 1 .. Len(p) : \A n \in 1 .. Len(q) : p[m] < q[n]

UpTo(q, r, W) == \A m \in 1 .. Len(q) : q[m] <= r /\ q[m] \in W

InOrder(s) ==
    /\ Ordered(iter[s].got) /\ Ordered(iter[s].queue) /\ Before(iter[s].got, iter[s].queue)
    /\ UpTo(iter[s].got, Read(s), Wanted[s]) /\ UpTo(iter[s].queue, Read(s), Wanted[s])

Has(q, e) == \E m \in 1 .. Len(q) : q[m] = e

Complete(s) ==
    conn[iter[s].conn].live =>
        \A e \in Wanted[s] :
            e > iter[s].born /\ e > conn[iter[s].conn].from /\ e <= Read(s)
                => Has(iter[s].got, e) \/ Has(iter[s].queue, e)

StreamInv ==
    /\ IInv /\ ConnInv /\ OpenIsHandled /\ EmptyAtFirst /\ WaitsOnEmpty
    /\ \A s \in Subs : Open(s) => InOrder(s) /\ Complete(s)

(* What a step does to a connection.                                          *)

Stays(c) == conn'[c] = conn[c] /\ published' = published

Grown(c) ==
    /\ published' = published + 1
    /\ conn'[c].reply = conn[c].reply /\ conn'[c].live = conn[c].live /\ conn'[c].from = conn[c].from
    /\ conn'[c].inbox = IF conn[c].live THEN Append(conn[c].inbox, published') ELSE conn[c].inbox

Answered(c) ==
    /\ published' = published /\ conn[c].reply = "pending" /\ conn'[c].inbox = conn[c].inbox
    /\ \/ conn'[c].reply = "ok" /\ conn'[c].live = TRUE /\ conn'[c].from = published
       \/ conn'[c].reply = "refused" /\ conn'[c].live = conn[c].live

IsRead(c) ==
    /\ published' = published
    /\ conn'[c].reply = conn[c].reply /\ conn'[c].live = conn[c].live /\ conn'[c].from = conn[c].from
    /\ conn[c].inbox # <<>> /\ conn'[c].inbox = Tail(conn[c].inbox)

Ended(c) ==
    /\ published' = published /\ closer'.pc # "idle"
    /\ conn'[c].reply = conn[c].reply /\ conn'[c].inbox = conn[c].inbox
    /\ conn'[c].live = FALSE

Opened(c) ==
    /\ published' = published /\ current = 0 /\ current' = c
    /\ conn[c].reply = "unused" /\ conn'[c].reply = "pending"
    /\ conn'[c].live = conn[c].live /\ conn'[c].inbox = conn[c].inbox

\* Creating an iterator without a connection opens the first unused one.
LEMMA CreateOpens ==
    ASSUME IInv, NEW s \in Subs, Create(s)
    PROVE  /\ current' \in Conns
           /\ iter'[s].sub = "waiting" /\ iter'[s].conn = current' /\ iter'[s].born = published
           /\ iter'[s].got = iter[s].got /\ iter'[s].queue = iter[s].queue
           /\ iter'[s].pulls = iter[s].pulls /\ iter'[s].closed = iter[s].closed
           /\ \A t \in Subs : t # s => iter'[t] = iter[t]
           /\ current # 0 => current' = current /\ conn' = conn
           /\ current = 0 => /\ Opened(current')
                             /\ \A c \in Conns : c # current' => conn'[c] = conn[c]
<1>. USE StreamAssumption DEF StreamAssumption, IInv
<1>0. conn \in [Conns -> Connections] /\ iter \in [Subs -> Iterators]
    BY Shapes
<1>. DEFINE fresh == {c \in Conns : conn[c].reply = "unused"}
            first == CHOOSE d \in fresh : \A x \in fresh : d <= x
<1>1. /\ current # 0 \/ fresh # {}
      /\ current' = IF current # 0 THEN current ELSE first
      /\ conn' = IF current = 0 THEN [conn EXCEPT ![current'].reply = "pending"] ELSE conn
      /\ iter' = [iter EXCEPT ![s] = [iter[s] EXCEPT !.sub = "waiting", !.conn = current', !.born = published]]
      /\ published' = published
    BY <1>0 DEF Create
<1>2. fresh # {} => first \in fresh
    BY FreshConnection
<1>. HIDE DEF first
<1>3. current' \in Conns /\ (current = 0 => conn[current'].reply = "unused")
    BY <1>1, <1>2 DEF TypeOK, Conns
<1>4. iter'[s] = [iter[s] EXCEPT !.sub = "waiting", !.conn = current', !.born = published]
    BY <1>0, <1>1
<1>5. /\ iter'[s].sub = "waiting" /\ iter'[s].conn = current' /\ iter'[s].born = published
      /\ iter'[s].got = iter[s].got /\ iter'[s].queue = iter[s].queue
      /\ iter'[s].pulls = iter[s].pulls /\ iter'[s].closed = iter[s].closed
    BY <1>0, <1>4 DEF Iterators
<1>6. \A t \in Subs : t # s => iter'[t] = iter[t]
    BY <1>0, <1>1
<1>7. CASE current = 0
    <2>1. conn' = [conn EXCEPT ![current'] = [conn[current'] EXCEPT !.reply = "pending"]]
        BY <1>0, <1>1, <1>7
    <2>2. conn[current'] \in Connections
        BY <1>0, <1>3
    <2>3. Opened(current')
        BY <1>0, <1>1, <1>3, <1>7, <2>1, <2>2 DEF Opened, Connections
    <2>4. \A c \in Conns : c # current' => conn'[c] = conn[c]
        BY <1>0, <1>3, <2>1
    <2>. QED BY <1>3, <1>5, <1>6, <1>7, <2>3, <2>4
<1>8. CASE current # 0
    BY <1>1, <1>3, <1>5, <1>6, <1>8
<1>. QED BY <1>7, <1>8

LEMMA ConnEffect ==
    ASSUME IInv, Next, NEW c \in Conns
    PROVE  Stays(c) \/ Grown(c) \/ Answered(c) \/ IsRead(c) \/ Ended(c) \/ Opened(c)
<1>0. conn \in [Conns -> Connections] /\ conn[c] \in Connections
    BY Shapes DEF IInv
<1>1. CASE Publish
    BY <1>0, <1>1 DEF Publish, Grown, Connections
<1>2. ASSUME NEW d \in Conns, d # c, Subscribed(d) \/ Message(d)
      PROVE  Stays(c)
    BY <1>0, <1>2 DEF Subscribed, Message, Stays
<1>3. CASE Subscribed(c)
    <2>1. CASE conn' = [conn EXCEPT ![c].reply = "refused"]
        BY <1>0, <1>3, <2>1 DEF Subscribed, Answered, Connections
    <2>2. CASE conn' = [conn EXCEPT ![c] = [conn[c] EXCEPT !.reply = "ok", !.live = TRUE, !.from = published]]
        <3>1. conn'[c] = [conn[c] EXCEPT !.reply = "ok", !.live = TRUE, !.from = published]
            BY <1>0, <2>2
        <3>. QED BY <1>0, <1>3, <3>1 DEF Subscribed, Answered, Connections
    <2>. QED BY <1>0, <1>3, <2>1, <2>2 DEF Subscribed
<1>4. CASE Message(c)
    BY <1>0, <1>4 DEF Message, IsRead, Connections
<1>5. CASE Unsubscribe
    <2>1. closer'.pc = "clear" /\ closer.conn \in Conns
        BY <1>5 DEF Unsubscribe, IInv, TypeOK, ConnectionsKnown
    <2>2. CASE c = closer.conn
        BY <1>0, <1>5, <2>1, <2>2 DEF Unsubscribe, Ended, Connections
    <2>3. CASE c # closer.conn
        BY <1>0, <1>5, <2>1, <2>3 DEF Unsubscribe, Stays
    <2>. QED BY <2>2, <2>3
<1>6. ASSUME NEW s \in Subs, Create(s) PROVE Stays(c) \/ Opened(c)
    <2>1. published' = published
        BY <1>6 DEF Create
    <2>. QED BY <1>6, <2>1, CreateOpens DEF Stays
<1>7. CASE Close \/ ClearHandlers \/ \E s \in Subs : IterStep(s) \/ Pull(s) \/ Return(s)
    BY <1>7 DEF Close, ClearHandlers, IterStep, Registered, Rejected, Pull, Return, Stays
<1>. QED
    BY <1>1, <1>2, <1>3, <1>4, <1>5, <1>6, <1>7 DEF Next, BusStep

LEMMA NextQuiet ==
    ASSUME IInv, QuietBefore, Next
    PROVE  QuietBefore'
<1>. SUFFICES ASSUME NEW c \in Conns, conn'[c].reply # "ok"
              PROVE  ~conn'[c].live /\ conn'[c].inbox = <<>>
    BY DEF QuietBefore
<1>1. conn[c].reply # "ok" => ~conn[c].live /\ conn[c].inbox = <<>>
    BY DEF QuietBefore
<1>2. CASE Stays(c) \/ Opened(c) \/ Ended(c)
    BY <1>1, <1>2 DEF Stays, Opened, Ended
<1>3. CASE Grown(c) \/ IsRead(c) \/ Answered(c)
    BY <1>1, <1>3 DEF Grown, IsRead, Answered
<1>. QED BY <1>2, <1>3, ConnEffect

\* Redis appends what is published, the listener reads from the front.
LEMMA NextReadInOrder ==
    ASSUME IInv, QuietBefore, ReadInOrder, Next
    PROVE  ReadInOrder'
<1>. SUFFICES ASSUME NEW c \in Conns, conn'[c].live
              PROVE  /\ conn'[c].from + Len(conn'[c].inbox) <= published'
                     /\ \A i \in 1 .. Len(conn'[c].inbox) :
                           conn'[c].inbox[i] = published' - Len(conn'[c].inbox) + i
    BY DEF ReadInOrder
<1>0. published \in Nat /\ conn[c].inbox \in Seq(Events) /\ conn[c].from \in Nat
    BY Shapes, StreamAssumption DEF IInv, Connections, StreamAssumption
<1>1. conn[c].live =>
        /\ conn[c].from + Len(conn[c].inbox) <= published
        /\ \A i \in 1 .. Len(conn[c].inbox) : conn[c].inbox[i] = published - Len(conn[c].inbox) + i
    BY DEF ReadInOrder
<1>2. CASE Stays(c)
    BY <1>1, <1>2 DEF Stays
<1>3. CASE Grown(c)
    <2>1. conn[c].live
        BY <1>3 DEF Grown
    <2>2. /\ published' = published + 1 /\ conn'[c].from = conn[c].from
          /\ conn'[c].inbox = Append(conn[c].inbox, published + 1)
        BY <1>3, <2>1 DEF Grown
    <2>3. Len(conn'[c].inbox) = Len(conn[c].inbox) + 1
        BY <1>0, <2>2
    <2>4. \A i \in 1 .. Len(conn[c].inbox) : conn'[c].inbox[i] = conn[c].inbox[i]
        BY <1>0, <2>2
    <2>5. conn'[c].inbox[Len(conn[c].inbox) + 1] = published + 1
        BY <1>0, <2>2
    <2>6. Len(conn[c].inbox) \in Nat
        BY <1>0
    <2>7. conn'[c].from + Len(conn'[c].inbox) <= published'
        BY <1>0, <1>1, <2>1, <2>2, <2>3, <2>6
    <2>8. ASSUME NEW i \in 1 .. Len(conn'[c].inbox)
          PROVE  conn'[c].inbox[i] = published' - Len(conn'[c].inbox) + i
        <3>1. CASE i = Len(conn[c].inbox) + 1
            BY <1>0, <2>2, <2>3, <2>5, <2>6, <3>1
        <3>2. CASE i \in 1 .. Len(conn[c].inbox)
            <4>1. conn'[c].inbox[i] = published - Len(conn[c].inbox) + i /\ i \in Nat
                BY <1>1, <2>1, <2>4, <3>2
            <4>2. published \in Nat /\ published' = published + 1
                BY <1>0, <2>2
            <4>. QED BY <2>3, <2>6, <4>1, <4>2
        <3>. QED BY <2>3, <2>6, <3>1, <3>2
    <2>. QED BY <2>7, <2>8
<1>4. CASE Answered(c)
    <2>1. ~conn[c].live /\ conn[c].inbox = <<>>
        BY <1>4 DEF Answered, QuietBefore
    <2>2. conn'[c].inbox = <<>> /\ conn'[c].from = published /\ published' = published
        BY <1>4, <2>1 DEF Answered
    <2>3. Len(conn'[c].inbox) = 0
        BY <2>2
    <2>. QED BY <1>0, <2>2, <2>3
<1>5. CASE IsRead(c)
    <2>1. Len(conn'[c].inbox) = Len(conn[c].inbox) - 1
        BY <1>0, <1>5 DEF IsRead
    <2>2. \A i \in 1 .. Len(conn'[c].inbox) : conn'[c].inbox[i] = conn[c].inbox[i + 1]
        BY <1>0, <1>5 DEF IsRead
    <2>3. Len(conn[c].inbox) \in Nat
        BY <1>0
    <2>4. conn[c].live /\ published' = published /\ conn'[c].from = conn[c].from
        BY <1>5 DEF IsRead
    <2>5. conn'[c].from + Len(conn'[c].inbox) <= published'
        BY <1>0, <1>1, <2>1, <2>3, <2>4
    <2>6. ASSUME NEW i \in 1 .. Len(conn'[c].inbox)
          PROVE  conn'[c].inbox[i] = published' - Len(conn'[c].inbox) + i
        <3>1. i + 1 \in 1 .. Len(conn[c].inbox)
            BY <2>1, <2>3
        <3>2. conn[c].inbox[i + 1] = published - Len(conn[c].inbox) + (i + 1)
            BY <1>1, <2>4, <3>1
        <3>3. conn'[c].inbox[i] = published - Len(conn[c].inbox) + (i + 1) /\ i \in Nat
            BY <2>2, <3>2
        <3>4. published \in Nat /\ published' = published
            BY <1>0, <2>4
        <3>. QED BY <2>1, <2>3, <3>3, <3>4
    <2>. QED BY <2>5, <2>6
<1>6. CASE Ended(c) \/ Opened(c)
    BY <1>6 DEF Ended, Opened, QuietBefore
<1>. QED BY <1>2, <1>3, <1>4, <1>5, <1>6, ConnEffect

\* A bus that is open after a step was open before it.
LEMMA IdleStays ==
    ASSUME IInv, Next, closer'.pc = "idle"
    PROVE  ~Close /\ ~Unsubscribe /\ ~ClearHandlers /\ closer.pc = "idle"
<1>1. closer \in [pc : {"idle", "unsubscribe", "clear", "done"}, conn : 0 .. MaxConns]
    BY Shapes DEF IInv
<1>2. ~Close /\ ~Unsubscribe /\ ~ClearHandlers
    BY <1>1 DEF Close, Unsubscribe, ClearHandlers
<1>. QED BY <1>2 DEF Next, BusStep, Publish, Subscribed, Message, Create, IterStep,
            Registered, Rejected, Pull, Return

\* A step of an open bus leaves the connection it has, or opens its first one.
LEMMA NextOneConnection ==
    ASSUME IInv, ConnInv, Next
    PROVE  OneConnection'
<1>. SUFFICES ASSUME closer'.pc = "idle"
              PROVE  /\ \A c \in Conns : c # current' => conn'[c].reply = "unused"
                     /\ \A s \in Subs : iter'[s].sub # "none" => iter'[s].conn = current'
                     /\ \A c \in Conns : conn'[c].reply = "ok" => conn'[c].live
    BY DEF OneConnection
<1>0. iter \in [Subs -> Iterators] /\ conn \in [Conns -> Connections] /\ current \in 0 .. MaxConns
    BY Shapes DEF IInv
<1>1. ~Close /\ ~Unsubscribe /\ ~ClearHandlers /\ closer.pc = "idle"
    BY IdleStays
<1>2. /\ \A c \in Conns : c # current => conn[c].reply = "unused"
      /\ \A s \in Subs : iter[s].sub # "none" => iter[s].conn = current
      /\ \A c \in Conns : conn[c].reply = "ok" => conn[c].live
    BY <1>1 DEF ConnInv, OneConnection
<1>3. ASSUME NEW c \in Conns, conn'[c].reply = "ok" PROVE conn'[c].live
    <2>1. CASE Stays(c) \/ Grown(c) \/ IsRead(c)
        BY <1>2, <1>3, <2>1 DEF Stays, Grown, IsRead
    <2>2. CASE Answered(c) \/ Ended(c) \/ Opened(c)
        BY <1>3, <2>2 DEF Answered, Ended, Opened
    <2>. QED BY <2>1, <2>2, ConnEffect
<1>4. CASE \E s \in Subs : Create(s)
    <2>. PICK s \in Subs : Create(s)
        BY <1>4
    <2>1. CASE current = 0
        <3>1. \A t \in Subs : iter[t].sub = "none"
            BY <1>2, <2>1 DEF IInv, ConnectionsKnown, Conns
        <3>2. \A c \in Conns : c # current
            BY <2>1 DEF Conns
        <3>. QED BY <1>2, <1>3, <2>1, <3>1, <3>2, CreateOpens
    <2>2. CASE current # 0
        BY <1>2, <1>3, <2>2, CreateOpens
    <2>. QED BY <2>1, <2>2
<1>5. CASE ~\E s \in Subs : Create(s)
    <2>1. current' = current
        BY <1>1, <1>5 DEF Next, BusStep, Publish, Subscribed, Message, IterStep,
            Registered, Rejected, Pull, Return
    <2>2. \A s \in Subs : iter'[s].sub # "none" => iter[s].sub # "none" /\ iter'[s].conn = iter[s].conn
        <3>1. CASE UNCHANGED iter
            BY <3>1
        <3>2. ASSUME NEW c \in Conns, Message(c), NEW s \in Subs
              PROVE  iter'[s].sub = iter[s].sub /\ iter'[s].conn = iter[s].conn
            <4>1. Head(conn[c].inbox) \in Events
                BY <3>2 DEF Message, IInv, TypeOK
            <4>2. iter[s] \in Iterators
                BY <1>0
            <4>. QED BY <3>2, <4>1, <4>2, HandledType DEF Message
        <3>3. ASSUME NEW s \in Subs, IterStep(s) \/ Pull(s) \/ Return(s)
              PROVE  /\ iter'[s].conn = iter[s].conn /\ iter[s].sub # "none"
                     /\ \A t \in Subs : t # s => iter'[t] = iter[t]
            <4>1. iter[s].sub # "none"
                BY <3>3 DEF IterStep, Registered, Rejected, Pull, Return
            <4>. QED BY <3>3, <4>1, IteratorStep
        <3>. QED BY <1>1, <1>5, <3>1, <3>2, <3>3 DEF Next, BusStep, Publish, Subscribed
    <2>3. ASSUME NEW c \in Conns, c # current PROVE conn'[c].reply = "unused"
        <3>1. conn[c].reply = "unused" /\ ~Opened(c)
            BY <1>2, <2>1, <2>3 DEF Opened
        <3>. QED BY <3>1, ConnEffect DEF Stays, Grown, Answered, IsRead, Ended
    <2>. QED BY <1>2, <1>3, <2>1, <2>2, <2>3
<1>. QED BY <1>4, <1>5

(* Sequences of events in their order.                                        *)

LEMMA EventsAreNumbers ==
    ASSUME NEW q \in Seq(Events)
    PROVE  \A m \in 1 .. Len(q) : q[m] \in Nat
<1>1. \A m \in 1 .. Len(q) : q[m] \in Events
    OBVIOUS
<1>2. Events \subseteq Nat
    BY StreamAssumption DEF Events, StreamAssumption
<1>. QED BY <1>1, <1>2

\* A later event is appended to an ordered sequence.
LEMMA AppendOrdered ==
    ASSUME NEW q \in Seq(Events), NEW r \in Int, NEW e \in Events, e > r, NEW W, e \in W,
           Ordered(q), UpTo(q, r, W)
    PROVE  /\ Ordered(Append(q, e)) /\ UpTo(Append(q, e), e, W)
           /\ Has(Append(q, e), e)
           /\ \A x : Has(q, x) => Has(Append(q, e), x)
<1>. DEFINE p == Append(q, e)
<1>1. /\ Len(p) = Len(q) + 1 /\ Len(q) \in Nat
      /\ \A m \in 1 .. Len(q) : p[m] = q[m]
      /\ p[Len(q) + 1] = e
    OBVIOUS
<1>2. \A m \in 1 .. Len(q) : q[m] \in Nat /\ q[m] <= r /\ q[m] \in W
    BY StreamAssumption DEF UpTo, Events, StreamAssumption
<1>3. e \in Nat
    BY StreamAssumption DEF Events, StreamAssumption
<1>. HIDE DEF p
<1>4. \A m \in 1 .. Len(p) : m = Len(q) + 1 \/ m \in 1 .. Len(q)
    BY <1>1
<1>5. ASSUME NEW m \in 1 .. Len(p), NEW n \in 1 .. Len(p), m < n
      PROVE  p[m] < p[n]
    <2>1. m \in 1 .. Len(q)
        BY <1>1, <1>5
    <2>2. CASE n \in 1 .. Len(q)
        BY <1>1, <1>5, <2>1, <2>2 DEF Ordered
    <2>3. CASE n = Len(q) + 1
        BY <1>1, <1>2, <1>3, <2>1, <2>3
    <2>. QED BY <1>4, <2>2, <2>3
<1>6. Ordered(p)
    BY <1>5 DEF Ordered
<1>7. ASSUME NEW m \in 1 .. Len(p) PROVE p[m] <= e /\ p[m] \in W
    <2>1. CASE m \in 1 .. Len(q)
        BY <1>1, <1>2, <1>3, <2>1
    <2>2. CASE m = Len(q) + 1
        BY <1>1, <1>3, <2>2
    <2>. QED BY <1>4, <2>1, <2>2
<1>8. Has(p, e)
    <2>1. Len(q) + 1 \in 1 .. Len(p)
        BY <1>1
    <2>. QED BY <1>1, <2>1 DEF Has
<1>9. \A x : Has(q, x) => Has(p, x)
    <2>1. \A m \in 1 .. Len(q) : m \in 1 .. Len(p)
        BY <1>1
    <2>. QED BY <1>1, <2>1 DEF Has
<1>. QED BY <1>6, <1>7, <1>8, <1>9 DEF p, UpTo

\* The head of the queue goes to the end of what the client has got.
LEMMA MoveOrdered ==
    ASSUME NEW p \in Seq(Events), NEW q \in Seq(Events), q # <<>>, NEW r \in Int, NEW W,
           Ordered(p), Ordered(q), Before(p, q), UpTo(p, r, W), UpTo(q, r, W)
    PROVE  /\ Ordered(Append(p, Head(q))) /\ Ordered(Tail(q)) /\ Before(Append(p, Head(q)), Tail(q))
           /\ UpTo(Append(p, Head(q)), r, W) /\ UpTo(Tail(q), r, W)
           /\ \A x : Has(p, x) \/ Has(q, x) => Has(Append(p, Head(q)), x) \/ Has(Tail(q), x)
<1>. DEFINE e == Head(q)
            a == Append(p, e)
            b == Tail(q)
<1>1. /\ Len(q) \in Nat /\ Len(q) > 0 /\ q[1] = e /\ Len(b) = Len(q) - 1
      /\ \A m \in 1 .. Len(b) : b[m] = q[m + 1]
    OBVIOUS
<1>2. /\ Len(a) = Len(p) + 1 /\ Len(p) \in Nat
      /\ \A m \in 1 .. Len(p) : a[m] = p[m]
      /\ a[Len(p) + 1] = e
    OBVIOUS
<1>3. /\ \A m \in 1 .. Len(p) : p[m] \in Nat /\ p[m] <= r /\ p[m] \in W
      /\ \A m \in 1 .. Len(q) : q[m] \in Nat /\ q[m] <= r /\ q[m] \in W
    BY StreamAssumption DEF UpTo, Events, StreamAssumption
<1>. HIDE DEF a, b, e
<1>4. \A m \in 1 .. Len(a) : m = Len(p) + 1 \/ m \in 1 .. Len(p)
    BY <1>2
<1>5. 1 \in 1 .. Len(q) /\ \A m \in 1 .. Len(b) : m + 1 \in 1 .. Len(q) /\ 1 < m + 1
    BY <1>1
<1>6. \A m \in 1 .. Len(p) : a[m] < e
    BY <1>1, <1>2, <1>5 DEF Before
<1>7. \A m \in 1 .. Len(b) : e < b[m]
    BY <1>1, <1>5 DEF Ordered
<1>8. Ordered(a)
    <2>. SUFFICES ASSUME NEW m \in 1 .. Len(a), NEW n \in 1 .. Len(a), m < n PROVE a[m] < a[n]
        BY DEF Ordered
    <2>1. m \in 1 .. Len(p)
        BY <1>2
    <2>2. CASE n \in 1 .. Len(p)
        BY <1>2, <2>1, <2>2 DEF Ordered
    <2>3. CASE n = Len(p) + 1
        BY <1>2, <1>6, <2>1, <2>3
    <2>. QED BY <1>4, <2>2, <2>3
<1>9. Ordered(b)
    <2>. SUFFICES ASSUME NEW m \in 1 .. Len(b), NEW n \in 1 .. Len(b), m < n PROVE b[m] < b[n]
        BY DEF Ordered
    <2>1. m + 1 < n + 1
        OBVIOUS
    <2>. QED BY <1>1, <1>5, <2>1 DEF Ordered
<1>10. Before(a, b)
    <2>. SUFFICES ASSUME NEW m \in 1 .. Len(a), NEW n \in 1 .. Len(b) PROVE a[m] < b[n]
        BY DEF Before
    <2>1. CASE m = Len(p) + 1
        BY <1>2, <1>7, <2>1
    <2>2. CASE m \in 1 .. Len(p)
        BY <1>1, <1>2, <1>5, <2>2 DEF Before
    <2>. QED BY <1>4, <2>1, <2>2
<1>11. UpTo(a, r, W)
    <2>. SUFFICES ASSUME NEW m \in 1 .. Len(a) PROVE a[m] <= r /\ a[m] \in W
        BY DEF UpTo
    <2>1. CASE m = Len(p) + 1
        BY <1>1, <1>2, <1>3, <1>5, <2>1
    <2>2. CASE m \in 1 .. Len(p)
        BY <1>2, <1>3, <2>2
    <2>. QED BY <1>4, <2>1, <2>2
<1>12. UpTo(b, r, W)
    BY <1>1, <1>3, <1>5 DEF UpTo
<1>13. ASSUME NEW x, Has(p, x) PROVE Has(a, x)
    <2>1. \A m \in 1 .. Len(p) : m \in 1 .. Len(a)
        BY <1>2
    <2>. QED BY <1>2, <1>13, <2>1 DEF Has
<1>14. ASSUME NEW x, Has(q, x) PROVE Has(a, x) \/ Has(b, x)
    <2>. PICK m \in 1 .. Len(q) : q[m] = x
        BY <1>14 DEF Has
    <2>1. CASE m = 1
        <3>1. Len(p) + 1 \in 1 .. Len(a)
            BY <1>2
        <3>. QED BY <1>1, <1>2, <2>1, <3>1 DEF Has
    <2>2. CASE m # 1
        <3>1. m - 1 \in 1 .. Len(b) /\ (m - 1) + 1 = m
            BY <1>1, <2>2
        <3>2. b[m - 1] = x
            BY <1>1, <3>1
        <3>. QED BY <3>1, <3>2 DEF Has
    <2>. QED BY <2>1, <2>2
<1>. QED BY <1>8, <1>9, <1>10, <1>11, <1>12, <1>13, <1>14 DEF a, b, e

\* One ordered sequence after another.
LEMMA ConcatOrdered ==
    ASSUME NEW p \in Seq(Events), NEW q \in Seq(Events), Ordered(p), Ordered(q), Before(p, q)
    PROVE  /\ Ordered(p \o q)
           /\ \A x : Has(p, x) \/ Has(q, x) => Has(p \o q, x)
           /\ \A m \in 1 .. Len(p \o q) : Has(p, (p \o q)[m]) \/ Has(q, (p \o q)[m])
<1>. DEFINE s == p \o q
<1>1. /\ Len(s) = Len(p) + Len(q) /\ Len(p) \in Nat /\ Len(q) \in Nat
      /\ \A m \in 1 .. Len(p) : s[m] = p[m]
      /\ \A m \in 1 .. Len(q) : s[Len(p) + m] = q[m]
    OBVIOUS
<1>. HIDE DEF s
<1>2. \A m \in 1 .. Len(s) : \/ m \in 1 .. Len(p)
                             \/ m - Len(p) \in 1 .. Len(q) /\ s[m] = q[m - Len(p)]
    <2>. TAKE m \in 1 .. Len(s)
    <2>1. m \in 1 .. Len(p) \/ m - Len(p) \in 1 .. Len(q)
        BY <1>1
    <2>2. Len(p) + (m - Len(p)) = m
        BY <1>1
    <2>. QED BY <1>1, <2>1, <2>2
<1>3. Ordered(s)
    <2>. SUFFICES ASSUME NEW m \in 1 .. Len(s), NEW n \in 1 .. Len(s), m < n PROVE s[m] < s[n]
        BY DEF Ordered
    <2>1. CASE m \in 1 .. Len(p) /\ n \in 1 .. Len(p)
        BY <1>1, <2>1 DEF Ordered
    <2>2. CASE m \in 1 .. Len(p) /\ n - Len(p) \in 1 .. Len(q) /\ s[n] = q[n - Len(p)]
        BY <1>1, <2>2 DEF Before
    <2>3. CASE /\ m - Len(p) \in 1 .. Len(q) /\ s[m] = q[m - Len(p)]
               /\ n - Len(p) \in 1 .. Len(q) /\ s[n] = q[n - Len(p)]
        <3>1. m - Len(p) < n - Len(p)
            BY <1>1
        <3>. QED BY <2>3, <3>1 DEF Ordered
    <2>4. CASE m - Len(p) \in 1 .. Len(q) /\ n \in 1 .. Len(p)
        BY <1>1, <2>4
    <2>. QED BY <1>2, <2>1, <2>2, <2>3, <2>4
<1>4. ASSUME NEW x, Has(p, x) PROVE Has(s, x)
    <2>1. \A m \in 1 .. Len(p) : m \in 1 .. Len(s)
        BY <1>1
    <2>. QED BY <1>1, <1>4, <2>1 DEF Has
<1>5. ASSUME NEW x, Has(q, x) PROVE Has(s, x)
    <2>1. \A m \in 1 .. Len(q) : Len(p) + m \in 1 .. Len(s)
        BY <1>1
    <2>. QED BY <1>1, <1>5, <2>1 DEF Has
<1>6. \A m \in 1 .. Len(s) : Has(p, s[m]) \/ Has(q, s[m])
    BY <1>1, <1>2 DEF Has
<1>. QED BY <1>3, <1>4, <1>5, <1>6 DEF s

(* The iterators of an open bus.                                              *)

\* An iterator that is open after a step was open before it, or is new.
LEMMA OpenBefore ==
    ASSUME IInv, Next, NEW t \in Subs, Open(t)'
    PROVE  Open(t) \/ iter[t].sub = "none"
<1>1. closer.pc = "idle"
    BY IdleStays DEF Open
<1>2. CASE Untouched(t) \/ Pulled(t) \/ IsCreated(t)
    BY <1>1, <1>2 DEF Untouched, Pulled, IsCreated, Open
<1>3. CASE Delivered(t)
    <2>1. iter[t] \in Iterators
        BY Shapes DEF IInv
    <2>2. PICK e \in Events : iter'[t] = Handled(iter[t], e)
        BY <1>3 DEF Delivered
    <2>. QED BY <1>1, <2>1, <2>2, HandledType DEF Open
<1>4. CASE IsRegistered(t)
    BY <1>1, <1>4 DEF IsRegistered, Same, Open
<1>5. CASE IsRejected(t) \/ Returned(t)
    BY <1>5 DEF IsRejected, Returned, Open
<1>. QED BY <1>2, <1>3, <1>4, <1>5, IteratorEffect

LEMMA NextOpenIsHandled ==
    ASSUME IInv, OpenIsHandled, Next
    PROVE  OpenIsHandled'
<1>. SUFFICES ASSUME NEW t \in Subs, Open(t)' PROVE t \in handlers'
    BY DEF OpenIsHandled
<1>0. ~Close /\ ~Unsubscribe /\ ~ClearHandlers
    BY IdleStays DEF Open
<1>1. CASE iter[t].sub = "none"
    <2>1. iter'[t].sub # "none" /\ iter[t] \in Iterators
        BY Shapes DEF Open, IInv
    <2>2. ~\E c \in Conns : Message(c)
        <3>. SUFFICES ASSUME NEW c \in Conns, Message(c) PROVE iter'[t].sub = "none"
            BY <2>1
        <3>1. Head(conn[c].inbox) \in Events
            BY DEF Message, IInv, TypeOK
        <3>. QED BY <1>1, <2>1, <3>1, HandledType DEF Message
    <2>3. ASSUME NEW s \in Subs, IterStep(s) \/ Pull(s) \/ Return(s) PROVE FALSE
        <3>1. iter[s].sub # "none"
            BY <2>3 DEF IterStep, Registered, Rejected, Pull, Return
        <3>. QED BY <1>1, <2>1, <2>3, <3>1, IteratorStep
    <2>4. \E s \in Subs : Create(s)
        BY <1>0, <1>1, <2>1, <2>2, <2>3 DEF Next, BusStep, Publish, Subscribed
    <2>. PICK s \in Subs : Create(s)
        BY <2>4
    <2>5. s = t
        BY <1>1, <2>1, CreateOpens
    <2>. QED BY <2>5 DEF Create
<1>2. CASE Open(t)
    <2>1. t \in handlers
        BY <1>2 DEF OpenIsHandled
    <2>2. ASSUME NEW s \in Subs, IterStep(s) \/ Return(s) PROVE t \in handlers'
        <3>1. CASE s # t
            BY <2>1, <2>2, <3>1 DEF IterStep, Registered, Rejected, Return
        <3>2. CASE s = t /\ Return(s)
            <4>1. iter'[t].closed
                BY <3>2, Shapes DEF Return, IInv, Iterators
            <4>. QED BY <4>1 DEF Open
        <3>3. CASE s = t /\ IterStep(s)
            BY <1>2, <2>1, <3>3 DEF IterStep, Registered, Rejected, LateTeardown, Open
        <3>. QED BY <2>2, <3>1, <3>2, <3>3
    <2>. QED
        BY <1>0, <2>1, <2>2 DEF Next, BusStep, Publish, Subscribed, Message, Create, Pull
<1>. QED BY <1>1, <1>2, OpenBefore

LEMMA NextEmptyAtFirst ==
    ASSUME IInv, EmptyAtFirst, Next
    PROVE  EmptyAtFirst'
<1>. SUFFICES ASSUME NEW t \in Subs, iter'[t].sub = "none"
              PROVE  t \notin handlers' /\ iter'[t].got = <<>> /\ iter'[t].queue = <<>>
    BY DEF EmptyAtFirst
<1>. SUFFICES iter[t].sub = "none" => iter'[t] = iter[t] /\ (t \in handlers' => t \in handlers)
    <2>1. iter[t].sub = "none"
        <3>1. CASE Untouched(t) \/ IsCreated(t) \/ IsRegistered(t) \/ IsRejected(t) \/ Pulled(t) \/ Returned(t)
            BY <3>1 DEF Untouched, IsCreated, IsRegistered, IsRejected, Pulled, Returned
        <3>2. CASE Delivered(t)
            BY <3>2, Shapes, HandledType DEF Delivered, IInv
        <3>. QED BY <3>1, <3>2, IteratorEffect
    <2>. QED BY <2>1 DEF EmptyAtFirst
<1>. SUFFICES ASSUME iter[t].sub = "none"
              PROVE  iter'[t] = iter[t] /\ (t \in handlers' => t \in handlers)
    OBVIOUS
<1>1. t \notin handlers
    BY DEF EmptyAtFirst
<1>2. ASSUME NEW s \in Subs, Create(s) PROVE s # t /\ iter'[t] = iter[t] /\ handlers' = handlers \cup {s}
    BY <1>2, CreateOpens DEF Create
<1>3. ASSUME NEW s \in Subs, IterStep(s) \/ Pull(s) \/ Return(s)
      PROVE  iter'[t] = iter[t] /\ handlers' \subseteq handlers
    <2>1. iter[s].sub # "none" /\ handlers' \subseteq handlers
        BY <1>3 DEF IterStep, Registered, Rejected, Pull, Return
    <2>. QED BY <1>3, <2>1, IteratorStep
<1>4. ASSUME NEW c \in Conns, Message(c) PROVE iter'[t] = iter[t] /\ handlers' = handlers
    BY <1>1, <1>4 DEF Message
<1>5. CASE Publish \/ Close \/ Unsubscribe \/ ClearHandlers \/ \E c \in Conns : Subscribed(c)
    BY <1>5 DEF Publish, Close, Unsubscribe, ClearHandlers, Subscribed
<1>. QED BY <1>2, <1>3, <1>4, <1>5 DEF Next, BusStep

LEMMA NextWaitsOnEmpty ==
    ASSUME IInv, WaitsOnEmpty, Next
    PROVE  WaitsOnEmpty'
<1>. SUFFICES ASSUME NEW t \in Subs, ~iter'[t].closed, iter'[t].pulls > 0
              PROVE  iter'[t].queue = <<>>
    BY DEF WaitsOnEmpty
<1>0. iter[t] \in Iterators /\ (~iter[t].closed /\ iter[t].pulls > 0 => iter[t].queue = <<>>)
    BY Shapes DEF IInv, WaitsOnEmpty
<1>1. iter[t].pulls \in Nat
    BY <1>0 DEF Iterators
<1>2. CASE Delivered(t)
    <2>. PICK e \in Events : iter'[t] = Handled(iter[t], e)
        BY <1>2 DEF Delivered
    <2>. QED BY <1>0, <1>1, <1>2, HandledType DEF Delivered
<1>3. CASE Untouched(t) \/ IsCreated(t) \/ IsRegistered(t)
    BY <1>0, <1>3 DEF Untouched, IsCreated, IsRegistered, Same
<1>4. CASE Pulled(t)
    BY <1>0, <1>1, <1>4 DEF Pulled
<1>5. CASE IsRejected(t) \/ Returned(t)
    BY <1>5 DEF IsRejected, Returned
<1>. QED BY <1>2, <1>3, <1>4, <1>5, IteratorEffect

\* The stream of an iterator that a step leaves alone stays exact, also when its
\* connection is subscribed by the step, or something is published.
LEMMA Carried ==
    ASSUME NEW t \in Subs, InOrder(t), Complete(t), Read(t) \in Int, Read(t)' \in Int,
           iter[t] \in Iterators,
           iter'[t].got = iter[t].got, iter'[t].queue = iter[t].queue,
           iter'[t].born = iter[t].born, Read(t) <= Read(t)',
           conn'[iter'[t].conn].live =>
               \/ /\ conn[iter[t].conn].live /\ Read(t)' = Read(t)
                  /\ conn'[iter'[t].conn].from = conn[iter[t].conn].from
               \/ conn'[iter'[t].conn].from \in Nat /\ Read(t)' <= conn'[iter'[t].conn].from
    PROVE  InOrder(t)' /\ Complete(t)'
<1>0. /\ \A m \in 1 .. Len(iter[t].got) : iter[t].got[m] \in Nat
      /\ \A m \in 1 .. Len(iter[t].queue) : iter[t].queue[m] \in Nat
      /\ \A e \in Wanted[t] : e \in Nat
    <2>1. iter[t].got \in Seq(Events) /\ iter[t].queue \in Seq(Events)
        BY DEF Iterators
    <2>2. Events \subseteq Nat /\ Wanted[t] \subseteq Events
        BY StreamAssumption DEF Events, StreamAssumption
    <2>. QED BY <2>1, <2>2, EventsAreNumbers
<1>1. UpTo(iter[t].got, Read(t)', Wanted[t]) /\ UpTo(iter[t].queue, Read(t)', Wanted[t])
    <2>. DEFINE r == Read(t)
                x == Read(t)'
    <2>1. UpTo(iter[t].got, r, Wanted[t]) /\ UpTo(iter[t].queue, r, Wanted[t]) /\ r <= x /\ r \in Int /\ x \in Int
        BY DEF InOrder
    <2>. HIDE DEF r, x
    <2>2. UpTo(iter[t].got, x, Wanted[t]) /\ UpTo(iter[t].queue, x, Wanted[t])
        BY SMTT(30), <1>0, <2>1 DEF UpTo
    <2>. QED BY <2>2 DEF x
<1>2. InOrder(t)'
    BY <1>1 DEF InOrder
<1>3. ASSUME conn'[iter'[t].conn].live,
             NEW e \in Wanted[t], e > iter'[t].born, e > conn'[iter'[t].conn].from, e <= Read(t)'
      PROVE  Has(iter'[t].got, e) \/ Has(iter'[t].queue, e)
    <2>1. e \in Nat
        BY <1>0
    <2>2. CASE /\ conn[iter[t].conn].live /\ Read(t)' = Read(t)
               /\ conn'[iter'[t].conn].from = conn[iter[t].conn].from
        BY <1>3, <2>2 DEF Complete
    <2>3. CASE conn'[iter'[t].conn].from \in Nat /\ Read(t)' <= conn'[iter'[t].conn].from
        <3>. DEFINE x == Read(t)'
                    f == conn'[iter'[t].conn].from
        <3>1. e > f /\ e <= x /\ x <= f /\ f \in Nat /\ x \in Int
            BY <1>3, <2>3
        <3>. HIDE DEF x, f
        <3>. QED BY <2>1, <3>1
    <2>. QED BY <1>3, <2>2, <2>3
<1>4. Complete(t)'
    BY <1>3 DEF Complete
<1>. QED BY <1>2, <1>4

\* The events of an iterator, and the place its connection has read up to.
LEMMA StreamTypes ==
    ASSUME IInv, NEW t \in Subs, iter[t].sub # "none"
    PROVE  /\ iter[t] \in Iterators /\ iter[t].conn \in Conns
           /\ conn[iter[t].conn] \in Connections
           /\ published \in Nat /\ Len(conn[iter[t].conn].inbox) \in Nat
           /\ Read(t) \in Int /\ Read(t) <= published
<1>1. iter[t] \in Iterators /\ iter[t].conn \in Conns /\ conn[iter[t].conn] \in Connections
    BY Shapes DEF IInv, ConnectionsKnown
<1>2. published \in Nat /\ Len(conn[iter[t].conn].inbox) \in Nat
    BY <1>1, StreamAssumption DEF Connections, IInv, TypeOK, StreamAssumption
<1>. QED BY <1>1, <1>2 DEF Read

\* Publication and the answer of Redis.
LEMMA BusKeepsExact ==
    ASSUME StreamInv, NEW t \in Subs, Open(t), IInv',
           Publish \/ \E c \in Conns : Subscribed(c)
    PROVE  InOrder(t)' /\ Complete(t)'
<1>. DEFINE k == iter[t].conn
<1>0. /\ InOrder(t) /\ Complete(t) /\ IInv /\ Next /\ QuietBefore /\ iter' = iter /\ iter[t].sub # "none"
    BY DEF StreamInv, ConnInv, Next, BusStep, Publish, Subscribed, Open
<1>1. /\ iter[t] \in Iterators /\ k \in Conns /\ conn[k] \in Connections
      /\ published \in Nat /\ Len(conn[k].inbox) \in Nat /\ Read(t) \in Int
    BY <1>0, StreamTypes
<1>2. Read(t)' = published' - Len(conn'[k].inbox) /\ Read(t) = published - Len(conn[k].inbox)
    BY <1>0 DEF Read
<1>3. Grown(k) \/ Answered(k) \/ Stays(k)
    <2>1. CASE Publish
        BY <1>0, <1>1, <2>1 DEF Publish, Grown, Connections, IInv
    <2>2. ASSUME NEW c \in Conns, Subscribed(c) PROVE Answered(k) \/ Stays(k)
        <3>1. published' = published
            BY <2>2 DEF Subscribed
        <3>2. ~Grown(k)
            BY <1>1, <3>1 DEF Grown
        <3>3. ~IsRead(k)
            <4>. SUFFICES ASSUME IsRead(k) PROVE FALSE
                OBVIOUS
            <4>1. conn'[k].inbox = Tail(conn[k].inbox) /\ conn[k].inbox # <<>> /\ conn[k].inbox \in Seq(Events)
                BY <1>1 DEF IsRead, Connections
            <4>a. Len(conn'[k].inbox) = Len(conn[k].inbox) - 1 /\ Len(conn[k].inbox) \in Nat
                BY <4>1
            <4>2. conn'[k].inbox # conn[k].inbox
                BY <4>a
            <4>3. conn \in [Conns -> Connections]
                BY <1>0, Shapes DEF IInv
            <4>4. CASE conn' = [conn EXCEPT ![c].reply = "refused"]
                BY <1>1, <4>2, <4>3, <4>4 DEF Connections
            <4>5. CASE conn' = [conn EXCEPT ![c] = [conn[c] EXCEPT !.reply = "ok", !.live = TRUE, !.from = published]]
                <5>1. conn'[k] = conn[k] \/ conn'[k] = [conn[k] EXCEPT !.reply = "ok", !.live = TRUE, !.from = published]
                    BY <1>1, <4>3, <4>5
                <5>. QED BY <1>1, <4>2, <5>1 DEF Connections
            <4>. QED BY <2>2, <4>4, <4>5 DEF Subscribed
        <3>4. ~Ended(k) /\ ~Opened(k)
            <4>1. closer'.pc = "idle" /\ current' = current
                BY <2>2 DEF Subscribed, Open
            <4>. QED BY <1>1, <4>1 DEF Ended, Opened, Conns
        <3>. QED BY <1>0, <1>1, <3>2, <3>3, <3>4, ConnEffect
    <2>. QED BY <2>1, <2>2
<1>4. CASE Stays(k)
    <2>1. Read(t)' = Read(t) /\ conn'[k] = conn[k]
        BY <1>2, <1>4 DEF Stays
    <2>. QED BY <1>0, <1>1, <2>1, Carried
<1>5. CASE Answered(k)
    <2>1. ~conn[k].live /\ conn[k].inbox = <<>>
        BY <1>0, <1>1, <1>5 DEF Answered, QuietBefore
    <2>2. Read(t)' = Read(t) /\ Read(t) = published
        BY <1>1, <1>2, <1>5, <2>1 DEF Answered
    <2>3. conn'[k].live => conn'[k].from = published
        BY <1>5, <2>1 DEF Answered
    <2>. QED BY <1>0, <1>1, <2>2, <2>3, Carried
<1>6. CASE Grown(k)
    <2>1. CASE conn[k].live
        <3>1. Len(conn'[k].inbox) = Len(conn[k].inbox) + 1
            BY SMTT(30), <1>1, <1>6, <2>1 DEF Grown, Connections
        <3>a. published' = published + 1 /\ conn'[k].from = conn[k].from
            BY <1>6 DEF Grown
        <3>b. Read(t)' = (published + 1) - (Len(conn[k].inbox) + 1)
            BY <1>2, <3>1, <3>a
        <3>2. Read(t)' = Read(t) /\ conn'[k].from = conn[k].from
            <4>. DEFINE l == Len(conn[k].inbox)
            <4>0. l \in Nat /\ published \in Nat
                BY <1>1
            <4>1. (published + 1) - (l + 1) = published - l
                <5>. HIDE DEF l
                <5>. QED BY <4>0
            <4>2. Read(t) = published - Len(conn[k].inbox)
                BY <1>2
            <4>. QED BY <3>a, <3>b, <4>1, <4>2
        <3>. QED BY <1>0, <1>1, <2>1, <3>2, Carried
    <2>2. CASE ~conn[k].live
        <3>1. Read(t)' = Read(t) + 1 /\ ~conn'[k].live
            BY SMTT(30), <1>1, <1>2, <1>6, <2>2 DEF Grown
        <3>2. Read(t)' \in Int /\ Read(t) <= Read(t)'
            BY <1>1, <3>1
        <3>. QED BY <1>0, <1>1, <3>1, <3>2, Carried
    <2>. QED BY <2>1, <2>2
<1>. QED BY <1>3, <1>4, <1>5, <1>6

\* The listener hands the next event to the handlers.
LEMMA MessageKeepsExact ==
    ASSUME StreamInv, NEW t \in Subs, Open(t), NEW c \in Conns, Message(c)
    PROVE  InOrder(t)' /\ Complete(t)'
<1>. DEFINE k == iter[t].conn
            e == Head(conn[k].inbox)
            r == Read(t)
<1>0. /\ InOrder(t) /\ Complete(t) /\ IInv /\ ConnInv /\ iter[t].sub # "none" /\ closer.pc = "idle"
      /\ t \in handlers /\ ~iter[t].closed
    BY DEF StreamInv, Open, OpenIsHandled
<1>1. /\ iter[t] \in Iterators /\ k \in Conns /\ conn[k] \in Connections
      /\ published \in Nat /\ Len(conn[k].inbox) \in Nat /\ Read(t) \in Int
    BY <1>0, StreamTypes
<1>2. c = k
    <2>1. conn[c].reply = "ok"
        BY <1>0 DEF Message, ConnInv, QuietBefore
    <2>. QED BY <1>0, <2>1 DEF ConnInv, OneConnection
<1>3. conn[k].live /\ conn[k].inbox # <<>> /\ conn[k].inbox \in Seq(Events)
    BY <1>0, <1>1, <1>2 DEF Message, ConnInv, OneConnection, QuietBefore, Connections
<1>4. e \in Events /\ e = conn[k].inbox[1] /\ Len(Tail(conn[k].inbox)) = Len(conn[k].inbox) - 1 /\ Len(conn[k].inbox) > 0
    BY <1>3
<1>5. e = r + 1 /\ r \in Int /\ e \in Nat
    <2>1. 1 \in 1 .. Len(conn[k].inbox)
        BY <1>1, <1>4
    <2>2. conn[k].inbox[1] = published - Len(conn[k].inbox) + 1
        BY <1>0, <1>1, <1>3, <2>1 DEF ConnInv, ReadInOrder
    <2>3. e \in Nat
        BY <1>4, StreamAssumption DEF Events, StreamAssumption
    <2>. QED BY <1>1, <1>4, <2>2, <2>3 DEF Read
<1>6. /\ conn'[k].inbox = Tail(conn[k].inbox) /\ conn'[k].live = conn[k].live
      /\ conn'[k].from = conn[k].from /\ published' = published
    BY <1>0, <1>1, <1>2, Shapes DEF Message, Connections, IInv
<1>7. iter'[t] = IF e \in Wanted[t] THEN Handled(iter[t], e) ELSE iter[t]
    BY <1>0, <1>2 DEF Message
<1>. HIDE DEF e
<1>8. iter'[t].conn = k /\ iter'[t].born = iter[t].born
    BY <1>1, <1>4, <1>7, HandledType
<1>9. Read(t)' = e
    <2>1. Read(t)' = published - Len(Tail(conn[k].inbox))
        BY <1>6, <1>8 DEF Read
    <2>2. r = published - Len(conn[k].inbox)
        BY DEF Read
    <2>3. Read(t)' = published - (Len(conn[k].inbox) - 1)
        BY <1>4, <2>1
    <2>. QED BY <1>1, <1>5, <2>2, <2>3
<1>10. /\ iter[t].got \in Seq(Events) /\ iter[t].queue \in Seq(Events) /\ iter[t].pulls \in Nat
       /\ Wanted[t] \subseteq Nat
    BY <1>1, StreamAssumption DEF Iterators, Events, StreamAssumption
<1>. HIDE DEF r
<1>11. /\ Ordered(iter[t].got) /\ Ordered(iter[t].queue) /\ Before(iter[t].got, iter[t].queue)
       /\ UpTo(iter[t].got, r, Wanted[t]) /\ UpTo(iter[t].queue, r, Wanted[t])
    BY <1>0 DEF InOrder, r
<1>12. \A x \in Wanted[t] : x > iter[t].born /\ x > conn[k].from /\ x <= r
                              => Has(iter[t].got, x) \/ Has(iter[t].queue, x)
    BY <1>0, <1>3 DEF Complete, r
<1>13. /\ UpTo(iter[t].got, e, Wanted[t]) /\ UpTo(iter[t].queue, e, Wanted[t])
    <2>1. /\ \A m \in 1 .. Len(iter[t].got) : iter[t].got[m] \in Nat
          /\ \A m \in 1 .. Len(iter[t].queue) : iter[t].queue[m] \in Nat
        BY <1>10, EventsAreNumbers
    <2>. QED BY <1>5, <1>11, <2>1 DEF UpTo
<1>14. CASE e \notin Wanted[t]
    <2>1. InOrder(t)'
        BY <1>7, <1>9, <1>11, <1>13, <1>14 DEF InOrder
    <2>2. \A x \in Wanted[t] : x <= e => x <= r
        BY <1>5, <1>10, <1>14
    <2>. QED BY <1>6, <1>7, <1>8, <1>9, <1>12, <1>14, <2>1, <2>2 DEF Complete
<1>15. CASE e \in Wanted[t]
    <2>0. \A x \in Wanted[t] : x <= e => x <= r \/ x = e
        BY <1>5, <1>10
    <2>1. CASE iter[t].pulls > 0
        <3>1. iter[t].queue = <<>>
            BY <1>0, <2>1 DEF StreamInv, WaitsOnEmpty
        <3>2. iter'[t].got = Append(iter[t].got, e) /\ iter'[t].queue = iter[t].queue
            BY SMTT(30), <1>1, <1>4, <1>7, <1>15, <2>1, HandledType
        <3>3. /\ Ordered(iter'[t].got) /\ UpTo(iter'[t].got, e, Wanted[t]) /\ Has(iter'[t].got, e)
              /\ \A x : Has(iter[t].got, x) => Has(iter'[t].got, x)
            BY <1>4, <1>5, <1>10, <1>11, <1>15, <3>2, AppendOrdered
        <3>4. Before(iter'[t].got, iter'[t].queue)
            BY <3>1, <3>2 DEF Before
        <3>5. InOrder(t)'
            BY <1>9, <1>11, <1>13, <3>2, <3>3, <3>4 DEF InOrder
        <3>. QED BY <1>6, <1>8, <1>9, <1>12, <2>0, <3>2, <3>3, <3>5 DEF Complete
    <2>2. CASE iter[t].pulls = 0
        <3>2. iter'[t].got = iter[t].got /\ iter'[t].queue = Append(iter[t].queue, e)
            BY SMTT(30), <1>1, <1>4, <1>7, <1>15, <2>2, HandledType
        <3>3. /\ Ordered(iter'[t].queue) /\ UpTo(iter'[t].queue, e, Wanted[t]) /\ Has(iter'[t].queue, e)
              /\ \A x : Has(iter[t].queue, x) => Has(iter'[t].queue, x)
            BY <1>4, <1>5, <1>10, <1>11, <1>15, <3>2, AppendOrdered
        <3>4. Before(iter'[t].got, iter'[t].queue)
            <4>. SUFFICES ASSUME NEW m \in 1 .. Len(iter[t].got), NEW n \in 1 .. Len(iter'[t].queue)
                          PROVE  iter[t].got[m] < iter'[t].queue[n]
                BY <3>2 DEF Before
            <4>1. CASE n \in 1 .. Len(iter[t].queue)
                <5>1. iter'[t].queue[n] = iter[t].queue[n]
                    BY <1>10, <3>2, <4>1
                <5>. QED BY <1>11, <4>1, <5>1 DEF Before
            <4>2. CASE n = Len(iter[t].queue) + 1
                <5>1. iter'[t].queue[n] = e
                    BY <1>10, <3>2, <4>2
                <5>2. iter[t].got[m] <= r /\ iter[t].got[m] \in Wanted[t]
                    BY <1>11 DEF UpTo
                <5>. QED BY <1>5, <1>10, <5>1, <5>2
            <4>. QED BY <1>10, <3>2, <4>1, <4>2
        <3>5. InOrder(t)'
            BY <1>9, <1>11, <1>13, <3>2, <3>3, <3>4 DEF InOrder
        <3>. QED BY <1>6, <1>8, <1>9, <1>12, <2>0, <3>2, <3>3, <3>5 DEF Complete
    <2>. QED BY <1>10, <2>1, <2>2
<1>. QED BY <1>14, <1>15

\* next() takes the head of the queue.
LEMMA PullKeepsExact ==
    ASSUME StreamInv, NEW t \in Subs, Open(t), Pull(t)
    PROVE  InOrder(t)' /\ Complete(t)'
<1>. DEFINE k == iter[t].conn
            r == Read(t)
<1>0. /\ InOrder(t) /\ Complete(t) /\ IInv /\ iter[t].sub # "none" /\ ~iter[t].closed
    BY DEF StreamInv, Open
<1>1. /\ iter[t] \in Iterators /\ k \in Conns /\ conn[k] \in Connections
      /\ published \in Nat /\ Len(conn[k].inbox) \in Nat /\ Read(t) \in Int
    BY <1>0, StreamTypes
<1>2. /\ iter[t].got \in Seq(Events) /\ iter[t].queue \in Seq(Events)
      /\ iter \in [Subs -> Iterators]
    BY <1>0, <1>1, Shapes DEF Iterators, IInv
<1>3. CASE iter[t].queue = <<>>
    <2>1. iter'[t] = [iter[t] EXCEPT !.pulls = iter[t].pulls + 1] /\ conn' = conn /\ published' = published
        BY <1>0, <1>2, <1>3 DEF Pull
    <2>2. /\ iter'[t].got = iter[t].got /\ iter'[t].queue = iter[t].queue
          /\ iter'[t].born = iter[t].born /\ iter'[t].conn = k
        BY <1>1, <2>1 DEF Iterators
    <2>3. Read(t)' = Read(t)
        BY <2>1, <2>2 DEF Read
    <2>4. Read(t) <= Read(t)' /\ Read(t)' \in Int
        BY <1>1, <2>3
    <2>5. conn'[iter'[t].conn] = conn[iter[t].conn]
        BY <2>1, <2>2
    <2>. QED BY <1>0, <1>1, <2>2, <2>3, <2>4, <2>5, Carried
<1>4. CASE iter[t].queue # <<>>
    <2>1. /\ iter'[t] = [iter[t] EXCEPT !.got = Append(iter[t].got, Head(iter[t].queue)),
                                        !.queue = Tail(iter[t].queue)]
          /\ conn' = conn /\ published' = published
        BY <1>0, <1>2, <1>4 DEF Pull
    <2>2. /\ iter'[t].got = Append(iter[t].got, Head(iter[t].queue))
          /\ iter'[t].queue = Tail(iter[t].queue)
          /\ iter'[t].born = iter[t].born /\ iter'[t].conn = k
        BY <1>1, <2>1 DEF Iterators
    <2>3. Read(t)' = r
        BY <2>1, <2>2 DEF Read
    <2>4. /\ Ordered(iter[t].got) /\ Ordered(iter[t].queue) /\ Before(iter[t].got, iter[t].queue)
          /\ UpTo(iter[t].got, r, Wanted[t]) /\ UpTo(iter[t].queue, r, Wanted[t])
        BY <1>0 DEF InOrder
    <2>a. r \in Int
        BY <1>1
    <2>. HIDE DEF r
    <2>5. /\ Ordered(iter'[t].got) /\ Ordered(iter'[t].queue) /\ Before(iter'[t].got, iter'[t].queue)
          /\ UpTo(iter'[t].got, r, Wanted[t]) /\ UpTo(iter'[t].queue, r, Wanted[t])
          /\ \A x : Has(iter[t].got, x) \/ Has(iter[t].queue, x) => Has(iter'[t].got, x) \/ Has(iter'[t].queue, x)
        BY <1>2, <1>4, <2>a, <2>2, <2>4, MoveOrdered
    <2>6. InOrder(t)'
        BY <2>3, <2>5 DEF InOrder
    <2>7. conn'[k] = conn[k]
        BY <2>1
    <2>. QED BY <1>0, <2>2, <2>3, <2>5, <2>6, <2>7 DEF Complete, r
<1>. QED BY <1>3, <1>4

\* Every step keeps the streams of the open subscriptions exact.
LEMMA NextExact ==
    ASSUME StreamInv, Next, IInv', NEW t \in Subs, Open(t)'
    PROVE  InOrder(t)' /\ Complete(t)'
<1>0. IInv /\ (Open(t) => InOrder(t) /\ Complete(t)) /\ ~Close /\ ~Unsubscribe /\ ~ClearHandlers
    BY IdleStays DEF StreamInv, Open
<1>1. CASE iter[t].sub = "none"
    <2>1. iter'[t].sub # "none"
        BY DEF Open
    <2>2. ASSUME NEW s \in Subs, IterStep(s) \/ Pull(s) \/ Return(s) PROVE FALSE
        <3>1. iter[s].sub # "none"
            BY <2>2 DEF IterStep, Registered, Rejected, Pull, Return
        <3>. QED BY <1>0, <1>1, <2>1, <2>2, <3>1, IteratorStep
    <2>3. ASSUME NEW c \in Conns, Message(c) PROVE FALSE
        <3>1. t \notin handlers
            BY <1>1 DEF StreamInv, EmptyAtFirst
        <3>. QED BY <1>1, <2>1, <2>3, <3>1 DEF Message
    <2>4. \E s \in Subs : Create(s)
        BY <1>0, <1>1, <2>1, <2>2, <2>3 DEF Next, BusStep, Publish, Subscribed
    <2>. PICK s \in Subs : Create(s)
        BY <2>4
    <2>5. s = t
        BY <1>0, <1>1, <2>1, CreateOpens
    <2>6. iter'[t].got = <<>> /\ iter'[t].queue = <<>> /\ iter'[t].born = published /\ published' = published
        <3>1. iter[t].got = <<>> /\ iter[t].queue = <<>>
            BY <1>1 DEF StreamInv, EmptyAtFirst
        <3>2. published' = published
            BY DEF Create
        <3>. QED BY <1>0, <2>5, <3>1, <3>2, CreateOpens
    <2>7. InOrder(t)'
        BY <2>6 DEF InOrder, Ordered, Before, UpTo
    <2>8. Read(t)' \in Int /\ Read(t)' <= published' /\ published \in Nat
        <3>. DEFINE k == iter'[t].conn
        <3>a. k \in Conns
            BY <2>1 DEF IInv, ConnectionsKnown
        <3>b. TypeOK'
            BY DEF IInv
        <3>c. conn' \in [Conns -> Connections]
            BY <3>b DEF TypeOK, Connections
        <3>d. published' \in Nat
            BY <3>b, StreamAssumption DEF TypeOK, StreamAssumption
        <3>1. k \in Conns /\ conn'[k] \in Connections /\ published' \in Nat
            BY <3>a, <3>c, <3>d
        <3>2. Len(conn'[k].inbox) \in Nat
            BY <3>1 DEF Connections
        <3>3. Read(t)' = published' - Len(conn'[k].inbox)
            BY DEF Read
        <3>. HIDE DEF k
        <3>. QED BY <2>6, <3>1, <3>2, <3>3
    <2>9. Complete(t)'
        <3>. DEFINE x == Read(t)'
        <3>1. x \in Int /\ x <= published /\ published \in Nat
            BY <2>6, <2>8
        <3>2. Wanted[t] \subseteq Nat
            BY StreamAssumption DEF Events, StreamAssumption
        <3>. HIDE DEF x
        <3>3. \A e \in Wanted[t] : ~(e > published /\ e <= x)
            BY <3>1, <3>2
        <3>. QED BY <2>6, <3>3 DEF Complete, x
    <2>. QED BY <2>7, <2>9
<1>2. CASE Open(t)
    <2>0. InOrder(t) /\ Complete(t) /\ iter[t].sub # "none"
        BY <1>0, <1>2 DEF Open
    <2>1. CASE Publish \/ \E c \in Conns : Subscribed(c)
        BY <1>2, <2>1, BusKeepsExact
    <2>2. CASE \E c \in Conns : Message(c)
        BY <1>2, <2>2, MessageKeepsExact
    <2>3. CASE Pull(t)
        BY <1>2, <2>3, PullKeepsExact
    <2>4. ASSUME /\ iter'[t].got = iter[t].got /\ iter'[t].queue = iter[t].queue
                 /\ iter'[t].born = iter[t].born /\ iter'[t].conn = iter[t].conn
                 /\ conn'[iter[t].conn] = conn[iter[t].conn] /\ published' = published
          PROVE  InOrder(t)' /\ Complete(t)'
        <3>1. iter[t] \in Iterators /\ Read(t) \in Int
            BY <1>0, <2>0, StreamTypes
        <3>2. Read(t)' = Read(t)
            BY <2>4 DEF Read
        <3>3. Read(t) <= Read(t)' /\ Read(t)' \in Int
            BY <3>1, <3>2
        <3>4. conn'[iter'[t].conn] = conn[iter[t].conn]
            BY <2>4
        <3>. QED BY <2>0, <2>4, <3>1, <3>2, <3>3, <3>4, Carried
    <2>5. ASSUME NEW s \in Subs, Create(s) PROVE InOrder(t)' /\ Complete(t)'
        <3>1. s # t /\ published' = published
            BY <2>0, <2>5 DEF Create
        <3>2. current # 0
            BY <1>0, <1>2, <2>0 DEF StreamInv, ConnInv, OneConnection, IInv, ConnectionsKnown, Open, Conns
        <3>. QED BY <1>0, <2>4, <2>5, <3>1, <3>2, CreateOpens
    <2>6. ASSUME NEW s \in Subs, s # t, IterStep(s) \/ Pull(s) \/ Return(s) PROVE InOrder(t)' /\ Complete(t)'
        <3>1. conn' = conn /\ published' = published
            BY <2>6 DEF IterStep, Registered, Rejected, Pull, Return
        <3>2. iter'[t] = iter[t]
            BY <1>0, <2>6, IteratorStep
        <3>. QED BY <2>4, <3>1, <3>2
    <2>7. CASE IterStep(t) \/ Return(t)
        <3>1. conn' = conn /\ published' = published
            BY <2>7 DEF IterStep, Registered, Rejected, Return
        <3>2. iter[t] \in Iterators /\ iter \in [Subs -> Iterators]
            BY <1>0, Shapes DEF IInv
        <3>3. CASE Registered(t)
            <4>1. iter'[t] = [iter[t] EXCEPT !.sub = IF LateTeardown(t) THEN "left" ELSE "held"]
                BY <3>2, <3>3 DEF Registered
            <4>. QED BY <2>4, <3>1, <3>2, <4>1 DEF Iterators
        <3>4. CASE Rejected(t)
            BY <3>2, <3>4 DEF Rejected, Open, Iterators
        <3>5. CASE Return(t)
            BY <3>2, <3>5 DEF Return, Open, Iterators
        <3>. QED BY <2>7, <3>3, <3>4, <3>5 DEF IterStep
    <2>. QED BY <1>0, <2>1, <2>2, <2>3, <2>5, <2>6, <2>7 DEF Next, BusStep
<1>. QED BY <1>0, <1>1, <1>2, OpenBefore

LEMMA InitStream == Init => StreamInv
<1>. SUFFICES ASSUME Init PROVE StreamInv
    OBVIOUS
<1>1. IInv
    BY InitType
<1>2. ConnInv
    BY <1>1 DEF Init, ConnInv, OneConnection, QuietBefore, ReadInOrder
<1>3. OpenIsHandled /\ EmptyAtFirst /\ WaitsOnEmpty /\ \A s \in Subs : ~Open(s)
    BY DEF Init, OpenIsHandled, EmptyAtFirst, WaitsOnEmpty, Open
<1>. QED BY <1>1, <1>2, <1>3 DEF StreamInv

LEMMA NextStream == ASSUME StreamInv, [Next]_vars PROVE StreamInv'
<1>1. CASE Next
    <2>1. /\ IInv /\ ConnInv /\ OneConnection /\ QuietBefore /\ ReadInOrder
          /\ OpenIsHandled /\ EmptyAtFirst /\ WaitsOnEmpty
        BY DEF StreamInv, ConnInv
    <2>2. IInv'
        BY <2>1, NextType
    <2>3. ConnInv'
        BY <1>1, <2>1, NextQuiet, NextReadInOrder, NextOneConnection DEF ConnInv
    <2>4. OpenIsHandled' /\ EmptyAtFirst' /\ WaitsOnEmpty'
        BY <1>1, <2>1, NextOpenIsHandled, NextEmptyAtFirst, NextWaitsOnEmpty
    <2>5. \A s \in Subs : Open(s)' => InOrder(s)' /\ Complete(s)'
        BY <1>1, <2>2, NextExact
    <2>. QED BY <2>2, <2>3, <2>4, <2>5 DEF StreamInv
<1>2. CASE UNCHANGED vars
    <2>1. IInv'
        BY <1>2, NextType DEF StreamInv
    <2>2. ConnInv' /\ OpenIsHandled' /\ EmptyAtFirst' /\ WaitsOnEmpty'
        BY <1>2 DEF vars, StreamInv, ConnInv, OneConnection, QuietBefore, ReadInOrder,
            OpenIsHandled, EmptyAtFirst, WaitsOnEmpty, Open
    <2>3. \A s \in Subs : (Open(s)' => Open(s)) /\ (InOrder(s) => InOrder(s)') /\ (Complete(s) => Complete(s)')
        BY <1>2 DEF vars, Open, InOrder, Complete, Read
    <2>. QED BY <2>1, <2>2, <2>3 DEF StreamInv
<1>. QED BY <1>1, <1>2

\* An open subscription of an open bus sees exactly the events it asked for:
\* none twice, none out of order, none lost between its creation, the reply of
\* Redis, the connection and its next() calls.
THEOREM StreamsAreExact == Spec => []StreamIsExact
<1>1. StreamInv => StreamIsExact
    <2>. SUFFICES ASSUME StreamInv, NEW s \in Subs, Open(s), conn[iter[s].conn].live
                  PROVE  /\ \A m, n \in DOMAIN Stream(s) : m < n => Stream(s)[m] < Stream(s)[n]
                         /\ \A m \in DOMAIN Seen(s) : Seen(s)[m] \in Wanted[s]
                         /\ \A e \in Wanted[s] :
                              e <= published /\ e > iter[s].born /\ e > conn[iter[s].conn].from
                                => Contains(Stream(s), e)
        BY DEF StreamIsExact, Open
    <2>. DEFINE k == iter[s].conn
                got == iter[s].got
                queue == iter[s].queue
                inbox == conn[k].inbox
                r == Read(s)
    <2>1. InOrder(s) /\ Complete(s) /\ IInv /\ ReadInOrder /\ iter[s].sub # "none"
        BY DEF StreamInv, ConnInv, Open
    <2>2. /\ iter[s] \in Iterators /\ k \in Conns /\ conn[k] \in Connections
          /\ published \in Nat /\ Len(inbox) \in Nat /\ r \in Int
        BY <2>1, StreamTypes
    <2>3. Events \subseteq Nat /\ Wanted[s] \subseteq Nat
        BY StreamAssumption DEF Events, StreamAssumption
    <2>4. got \in Seq(Events) /\ queue \in Seq(Events) /\ inbox \in Seq(Events)
        BY <2>2 DEF Iterators, Connections
    <2>5. /\ Ordered(got) /\ Ordered(queue) /\ Before(got, queue)
          /\ UpTo(got, r, Wanted[s]) /\ UpTo(queue, r, Wanted[s])
        BY <2>1 DEF InOrder
    <2>6. \A i \in 1 .. Len(inbox) : inbox[i] = r + i
        <3>1. r = published - Len(inbox)
            BY DEF Read
        <3>2. \A i \in 1 .. Len(inbox) : inbox[i] = published - Len(inbox) + i
            BY <2>1, <2>2 DEF ReadInOrder
        <3>. HIDE DEF r, inbox
        <3>. QED BY <2>2, <3>1, <3>2
    <2>7. \A e \in Wanted[s] : e > iter[s].born /\ e > conn[k].from /\ e <= r => Has(got, e) \/ Has(queue, e)
        BY <2>1 DEF Complete
    <2>8. \A e \in Wanted[s] : e <= published /\ e > r => Has(inbox, e)
        <3>. SUFFICES ASSUME NEW e \in Wanted[s], e <= published, e > r PROVE Has(inbox, e)
            OBVIOUS
        <3>1. r = published - Len(inbox) /\ e \in Nat
            BY <2>3 DEF Read
        <3>. HIDE DEF r, inbox
        <3>2. e - r \in 1 .. Len(inbox) /\ r + (e - r) = e
            BY <2>2, <3>1
        <3>. QED BY <2>6, <3>2 DEF Has
    <2>. HIDE DEF r
    <2>. DEFINE seen == got \o queue
    <2>10. seen \in Seq(Events)
        BY <2>4
    <2>11. /\ Ordered(seen)
           /\ \A x : Has(got, x) \/ Has(queue, x) => Has(seen, x)
           /\ \A m \in 1 .. Len(seen) : Has(got, seen[m]) \/ Has(queue, seen[m])
        BY <2>4, <2>5, ConcatOrdered
    <2>12. \A m \in 1 .. Len(seen) : seen[m] <= r /\ seen[m] \in Wanted[s]
        <3>1. \A x : Has(got, x) \/ Has(queue, x) => x <= r /\ x \in Wanted[s]
            BY <2>5 DEF Has, UpTo
        <3>. QED BY <2>11, <3>1
    <2>. HIDE DEF seen, inbox
    <2>13. Ordered(inbox)
        BY <2>2, <2>6 DEF Ordered
    <2>14. Before(seen, inbox)
        <3>. SUFFICES ASSUME NEW m \in 1 .. Len(seen), NEW n \in 1 .. Len(inbox) PROVE seen[m] < inbox[n]
            BY DEF Before
        <3>1. seen[m] <= r /\ seen[m] \in Nat /\ inbox[n] = r + n /\ n > 0
            BY <2>3, <2>6, <2>12
        <3>. QED BY <2>2, <3>1
    <2>15. /\ Ordered(seen \o inbox) /\ seen \o inbox \in Seq(Events)
           /\ \A x : Has(seen, x) \/ Has(inbox, x) => Has(seen \o inbox, x)
        BY <2>4, <2>10, <2>11, <2>13, <2>14, ConcatOrdered
    <2>16. Seen(s) = seen /\ Stream(s) = seen \o inbox
        BY DEF Seen, Stream, seen, inbox
    <2>17. \A m, n \in DOMAIN Stream(s) : m < n => Stream(s)[m] < Stream(s)[n]
        BY <2>15, <2>16 DEF Ordered
    <2>18. \A m \in DOMAIN Seen(s) : Seen(s)[m] \in Wanted[s]
        BY <2>10, <2>12, <2>16
    <2>19. ASSUME NEW e \in Wanted[s], e <= published, e > iter[s].born, e > conn[k].from
           PROVE  Contains(Stream(s), e)
        <3>1. e <= r \/ e > r
            BY <2>2, <2>3
        <3>2. Has(seen \o inbox, e)
            BY <2>7, <2>8, <2>11, <2>15, <2>19, <3>1
        <3>. QED BY <2>16, <3>2 DEF Has, Contains
    <2>. QED BY <2>17, <2>18, <2>19
<1>. QED BY <1>1, InitStream, NextStream, PTL DEF Spec
=============================================================================
