--------------------------- MODULE TypingIndicator ---------------------------
(***************************************************************************)
(* The typing indicators of chat-service (websocket/socketHandler.ts).     *)
(* Each node keeps at most one timer per typist, whoever the typist types  *)
(* to, and switches an indicator off when the timer fires.  An event goes  *)
(* to the receiver's room through the Socket.IO adapter: events of one     *)
(* node arrive in order, those of different nodes in any.                  *)
(***************************************************************************)
EXTENDS Naturals, Sequences

CONSTANTS
    Nodes,
    Typists,
    Receivers,
    MaxEvents,  \* bound on what the typists' clients send, all together
    None

ASSUME TypingAssumption == MaxEvents \in Nat /\ None \notin Receivers

VARIABLES
    timer,      \* typingTimeouts of each node: whom the typist's timer will tell
    wire,       \* emitted by each node and not yet delivered
    shown,      \* pairs whose receiver was last told that the typist is typing
    sent,       \* events that clients have sent so far
    abandoned,  \* <<node, typist, receiver>> whose node dropped its timer, or
                \* what it had emitted, without telling the receiver (history)
    crossed     \* pairs switched off by a node other than one whose timer was
                \* running for them (history)

typingVars == <<timer, wire, shown, sent, abandoned, crossed>>

Event == [from: Typists, to: Receivers, on: BOOLEAN]

TypingInit ==
    /\ timer = [n \in Nodes |-> [u \in Typists |-> None]]
    /\ wire = [n \in Nodes |-> <<>>]
    /\ shown = {}
    /\ sent = 0
    /\ abandoned = {}
    /\ crossed = {}
-----------------------------------------------------------------------------
\* io.to(receiverId).emit('typing', { userId, isTyping })
Emitted(n, u, r, on) == [wire EXCEPT ![n] = Append(@, [from |-> u, to |-> r, on |-> on])]

\* The receiver that node n would have told that u has stopped.
Owed(n, u) == IF timer[n][u] = None THEN {} ELSE {<<n, u, timer[n][u]>>}

\* A client sends something; u's timer is cleared, and the event told to r.
Hear(n, u, r, next, on) ==
    /\ sent < MaxEvents
    /\ sent' = sent + 1
    /\ timer' = [timer EXCEPT ![n][u] = next]
    /\ wire' = Emitted(n, u, r, on)
    /\ abandoned' = (abandoned \cup Owed(n, u)) \ {<<n, u, r>>}
    /\ UNCHANGED <<shown, crossed>>

\* Seeded fault: no timer is set.
NoTimer(r) == None

\* setTimeout for the receiver, and its entry in typingTimeouts.
NewTimer(r) == r

\* handleTyping, isTyping
StartTyping(n, u, r) == Hear(n, u, r, NewTimer(r), TRUE)

\* Seeded fault: the timer runs on.
Kept(n, u) == timer[n][u]

\* clearTimeout, and the entry in typingTimeouts deleted.
Cleared(n, u) == None

\* handleTyping, ~isTyping
StopTyping(n, u, r) == Hear(n, u, r, Cleared(n, u), FALSE)

\* Seeded fault: a message leaves the timer of its sender running.
SendsAndTypes(n, u, r) == u # r /\ Hear(n, u, r, timer[n][u], FALSE)

\* handleSendMessage, once the message is stored.
SendMessage(n, u, r) == u # r /\ Hear(n, u, r, Cleared(n, u), FALSE)

\* Whom the callback of the timer tells.
Fires(n, u) == {r \in Receivers : timer[n][u] = r}

Timeout(n, u) ==
    \E r \in Fires(n, u) :
        /\ wire' = Emitted(n, u, r, FALSE)
        /\ timer' = [timer EXCEPT ![n][u] = Cleared(n, u)]
        /\ abandoned' = (abandoned \cup Owed(n, u)) \ {<<n, u, r>>}
        /\ UNCHANGED <<shown, sent, crossed>>

\* Any of the typist's sockets at the node disconnects.
DisconnectTypist(n, u) ==
    /\ timer[n][u] # None
    /\ timer' = [timer EXCEPT ![n][u] = Cleared(n, u)]
    /\ abandoned' = abandoned \cup Owed(n, u)
    /\ UNCHANGED <<wire, shown, sent, crossed>>

\* The process of the node ends, with its timers and what it was sending.
RestartNode(n) ==
    /\ \/ wire[n] # <<>>
       \/ \E u \in Typists : timer[n][u] # None
    /\ timer' = [timer EXCEPT ![n] = [u \in Typists |-> None]]
    /\ wire' = [wire EXCEPT ![n] = <<>>]
    /\ abandoned' = abandoned \cup (UNION {Owed(n, u) : u \in Typists})
                    \cup {<<n, wire[n][k].from, wire[n][k].to>> : k \in DOMAIN wire[n]}
    /\ UNCHANGED <<shown, sent, crossed>>

\* The oldest event of node n reaches the receiver's client.
Deliver(n) ==
    /\ wire[n] # <<>>
    /\ LET e == Head(wire[n])
           pair == <<e.from, e.to>>
           rivals == {m \in Nodes \ {n} : timer[m][e.from] = e.to}
       IN /\ wire' = [wire EXCEPT ![n] = Tail(@)]
          /\ shown' = IF e.on THEN shown \cup {pair} ELSE shown \ {pair}
          /\ crossed' = IF e.on THEN crossed \ {pair}
                        ELSE IF rivals # {} THEN crossed \cup {pair} ELSE crossed
    /\ UNCHANGED <<timer, sent, abandoned>>

TypingNext ==
    \E n \in Nodes :
        \/ \E u \in Typists, r \in Receivers :
               StartTyping(n, u, r) \/ StopTyping(n, u, r) \/ SendMessage(n, u, r)
        \/ \E u \in Typists : Timeout(n, u) \/ DisconnectTypist(n, u)
        \/ RestartNode(n)
        \/ Deliver(n)

\* A timer fires after three seconds, unless it is cleared; MaxEvents bounds
\* how often a typist can restart it.  Redis and Socket.IO deliver.
TypingFairness ==
    \A n \in Nodes :
        /\ WF_typingVars(Deliver(n))
        /\ \A u \in Typists : WF_typingVars(Timeout(n, u))

TypingSpec == TypingInit /\ [][TypingNext]_typingVars /\ TypingFairness
-----------------------------------------------------------------------------
\* Event e is about the pair of u and r.
AboutPair(e, u, r) == e.from = u /\ e.to = r

InFlight(n, u, r) == \E k \in DOMAIN wire[n] : AboutPair(wire[n][k], u, r)

\* The last event about the pair that is under way switches the indicator on.
LastOn(q, u, r) ==
    \A k \in DOMAIN q :
       AboutPair(q[k], u, r) /\ (\A j \in DOMAIN q : j > k => ~AboutPair(q[j], u, r)) =>
          q[k].on

\* A node whose timer runs for r has not told r since that the typist stopped.
TimerInv == \A n \in Nodes, u \in Typists, r \in Receivers :
    timer[n][u] = r => LastOn(wire[n], u, r)

TypingTypeOK ==
    /\ timer \in [Nodes -> [Typists -> Receivers \cup {None}]]
    /\ wire \in [Nodes -> Seq(Event)]
    /\ shown \subseteq Typists \X Receivers
    /\ sent \in 0..MaxEvents
    /\ abandoned \subseteq Nodes \X Typists \X Receivers
    /\ crossed \subseteq Typists \X Receivers
    /\ TimerInv

\* While a node's timer runs for a receiver and the node has told everything,
\* the receiver sees the indicator, unless another node has switched it off: a
\* typist with sockets on two nodes has two timers, and each node stops the
\* indicator for both (handleTyping 137-154).
ShownWhileTyping ==
    \A n \in Nodes, u \in Typists, r \in Receivers :
        timer[n][u] = r /\ ~InFlight(n, u, r) => <<u, r>> \in shown \cup crossed

\* Every indicator goes off once its typist is silent, unless it was abandoned:
\* the typist turned to another receiver, sent a message to another, lost a
\* socket, or the node went down (110-115, 137-155, 352-356).
IndicatorEnds ==
    \A u \in Typists, r \in Receivers :
        <<u, r>> \in shown ~>
            \/ <<u, r>> \notin shown
            \/ \E n \in Nodes : <<n, u, r>> \in abandoned
=============================================================================
