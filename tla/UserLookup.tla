------------------------------ MODULE UserLookup ------------------------------
(* The lookup of a user by chat-service at user-service: a request queue, a     *)
(* response queue that all nodes of chat-service consume, a correlation id and  *)
(* a 5 s timer for each call, over connections that close and come back, and a  *)
(* broker that restarts.                                                       *)
EXTENDS BrokerConnection, Sequences

CONSTANTS
    Nodes,        \* processes of chat-service
    UserService,  \* the process of user-service
    Calls,        \* correlation ids
    Asker         \* by call, the node that makes it

ASSUME LookupAssumption ==
    /\ Services = Nodes \cup {UserService} /\ UserService \notin Nodes
    /\ Asker \in [Calls -> Nodes]

Channels == 1..MaxChannels[UserService]

VARIABLES
    call,       \* by call, what its caller knows
    requests,   \* calls in USER_DETAILS_REQUEST, not delivered
    responses,  \* by call, its answers in USER_DETAILS_RESPONSE
    delivered,  \* by channel of user-service, its deliveries in tag order
    unacked,    \* tags of its current channel that the broker waits for
    task,       \* by channel and call, what the handler in user-service awaits
    sent,       \* history: calls whose request reached the broker
    replied,    \* history: calls that user-service has answered
    lost,       \* history: calls whose request the broker lost when it restarted
    mistaken    \* history: by channel and call, the requests that were settled by
                \* an acknowledgement meant for an earlier channel

server == <<delivered, unacked, task>>
history == <<sent, replied, lost, mistaken>>
vars == <<link, proc, call, requests, responses, server, history>>

Current == link[UserService].chan

\* The broker waits only for deliveries whose handler is at work.
BeingFound == \A t \in unacked : task[<<Current, delivered[Current][t]>>] = "finding"

TypeOK ==
    /\ LinkTypeOK
    /\ call \in [Calls -> {"idle", "waiting", "answered", "null", "gone"}]
    /\ requests \subseteq sent /\ sent \subseteq Calls
    /\ replied \subseteq sent /\ lost \subseteq sent
    /\ mistaken \subseteq Channels \X Calls
    /\ responses \in [Calls -> Nat]
    /\ delivered \in [Channels -> Seq(Calls)]
    /\ unacked \subseteq IF link[UserService].open THEN DOMAIN delivered[Current] ELSE {}
    /\ task \in [Channels \X Calls -> {"none", "finding", "done"}]
    /\ BeingFound

Init ==
    /\ LinkInit
    /\ call = [c \in Calls |-> "idle"]
    /\ requests = {} /\ unacked = {}
    /\ sent = {} /\ replied = {} /\ lost = {} /\ mistaken = {}
    /\ responses = [c \in Calls |-> 0]
    /\ delivered = [k \in Channels |-> <<>>]
    /\ task = [d \in Channels \X Calls |-> "none"]

-------------------------------------------------------------------------------
(* chat-service: getUserDetails.                                               *)

\* The request goes out.  On a closed channel sendToQueue throws: nobody awaits
\* the promise of getUserDetails, so its rejection reaches the handler of
\* unhandledRejection, which begins a graceful shutdown.
Ask(c) ==
    LET n == Asker[c]
    IN /\ call[c] = "idle" /\ Alive(n)
       /\ call' = [call EXCEPT ![c] = "waiting"]
       /\ \/ /\ link[n].open
             /\ requests' = requests \cup {c} /\ sent' = sent \cup {c}
             /\ UNCHANGED proc
          \/ /\ ~link[n].open
             /\ proc' = [proc EXCEPT ![n] = "stopping"]
             /\ UNCHANGED <<requests, sent>>
       /\ UNCHANGED <<link, responses, server, replied, lost, mistaken>>

\* Seeded fault: an answer is taken by whoever receives it, entry or not.
EntryUnchecked(n, c) == Asker[c] = n

\* correlationMap.get(correlationId) on node n.
Entry(n, c) == Asker[c] = n /\ call[c] = "waiting"

\* Seeded fault: set the timer after the send, which may throw.
TimerAfterSend(c) == call[c] = "waiting" /\ Alive(Asker[c]) /\ c \in sent

\* The timer was set before the send, so each call that waits has one.
HasTimer(c) == call[c] = "waiting" /\ Alive(Asker[c])

\* The timer: the callback is called with null.
Timeout(c) ==
    /\ HasTimer(c)
    /\ call' = [call EXCEPT ![c] = "null"]
    /\ UNCHANGED <<link, proc, requests, responses, server, history>>

\* Some node consumes an answer, without acknowledgement; unless it made the
\* call and still waits, the answer is lost.
Receive(n, c) ==
    /\ Consumes(n) /\ responses[c] > 0
    /\ responses' = [responses EXCEPT ![c] = @ - 1]
    /\ call' = IF Entry(n, c) THEN [call EXCEPT ![c] = "answered"] ELSE call
    /\ UNCHANGED <<link, proc, requests, server, history>>

-------------------------------------------------------------------------------
(* user-service: listenForRequests.                                            *)

Waiting == {delivered[Current][t] : t \in unacked}

\* The channel of user-service closes: the broker puts back what waits.
Requeue == requests' = requests \cup Waiting /\ unacked' = {}

TagsOf(k, c) == {t \in DOMAIN delivered[k] : delivered[k][t] = c}

\* Seeded fault: noAck, the broker waits for nothing.
NoAck == {}

\* The tag of a delivery on the current channel, for which the broker waits.
NextTag == {Len(delivered[Current]) + 1}

Deliver(c) ==
    /\ Consumes(UserService) /\ c \in requests
    /\ requests' = requests \ {c}
    /\ delivered' = [delivered EXCEPT ![Current] = Append(@, c)]
    /\ unacked' = unacked \cup NextTag
    /\ task' = [task EXCEPT ![<<Current, c>>] = "finding"]
    /\ UNCHANGED <<link, proc, call, responses, history>>

\* Seeded fault: no acknowledgement in a finally clause.
NeverAcked(k, c) == {}

\* The tags that a handler acknowledges, whatever findOne gave it.
Acked(k, c) == TagsOf(k, c)

\* The requests of the current channel that have the same tags, if the delivery
\* was made on an earlier one.
Mistaken(k, c) ==
    IF k = Current THEN {} ELSE {<<Current, delivered[Current][t]>> : t \in Acked(k, c)}

\* findOne ends, with a row or an error, and the handler answers and
\* acknowledges on this.channel, which need not be the channel of the delivery.
Finish(k, c) ==
    /\ task[<<k, c>>] = "finding" /\ Alive(UserService)
    /\ task' = [task EXCEPT ![<<k, c>>] = "done"]
    /\ UNCHANGED <<call, delivered, sent, lost>>

Answer(k, c) ==
    /\ Finish(k, c)
    /\ link[UserService].open
    /\ responses' = [responses EXCEPT ![c] = @ + 1]
    /\ replied' = replied \cup {c}
    /\ UNCHANGED proc
    /\ \/ /\ Acked(k, c) \subseteq unacked
          /\ unacked' = unacked \ Acked(k, c)
          /\ mistaken' = mistaken \cup Mistaken(k, c)
          /\ UNCHANGED <<link, requests>>
       \/ \* A tag that the broker does not wait for: it closes the channel, and
          \* for want of an error listener amqplib the connection.
          /\ ~(Acked(k, c) \subseteq unacked)
          /\ SetLink(UserService, Lost(link[UserService]))
          /\ Requeue
          /\ UNCHANGED mistaken

\* On a closed channel sendToQueue throws, again in the catch clause, and ack in
\* the finally clause: an unhandled rejection, which begins a graceful shutdown.
AnswerFails(k, c) ==
    /\ Finish(k, c)
    /\ ~link[UserService].open
    /\ proc' = [proc EXCEPT ![UserService] = "stopping"]
    /\ UNCHANGED <<link, requests, responses, unacked, replied, mistaken>>

-------------------------------------------------------------------------------
(* Connections and processes.                                                  *)

QueuesAfterClose(s) ==
    IF s = UserService THEN Requeue ELSE UNCHANGED <<requests, unacked>>

LoseConnection(s) ==
    /\ Alive(s) /\ link[s].open
    /\ SetLink(s, Lost(link[s]))
    /\ QueuesAfterClose(s)
    /\ UNCHANGED <<proc, call, responses, delivered, task, history>>

\* RabbitMQ restarts: all connections close, and requests and answers are gone,
\* for neither is sent as persistent.
RestartBroker ==
    /\ link' = [s \in Services |-> IF link[s].open THEN Lost(link[s]) ELSE link[s]]
    /\ requests' = {} /\ unacked' = {}
    /\ responses' = [c \in Calls |-> 0]
    /\ lost' = lost \cup requests \cup Waiting
    /\ UNCHANGED <<proc, call, delivered, task, sent, replied, mistaken>>

\* The process ends: a crash, or the end of a graceful shutdown.
Exit(s) ==
    /\ Alive(s)
    /\ proc' = [proc EXCEPT ![s] = "exited"]
    /\ SetLink(s, Dead(link[s]))
    /\ QueuesAfterClose(s)
    /\ call' = [c \in Calls |->
                  IF Asker[c] = s /\ call[c] = "waiting" THEN "gone" ELSE call[c]]
    /\ task' = [d \in Channels \X Calls |->
                  IF s = UserService /\ task[d] = "finding" THEN "done" ELSE task[d]]
    /\ UNCHANGED <<responses, delivered, history>>

Recover(s) ==
    /\ Reconnect(s) \/ StartService(s)
    /\ UNCHANGED <<call, requests, responses, server, history>>

Next ==
    \/ \E c \in Calls : Ask(c) \/ Timeout(c) \/ Deliver(c)
    \/ \E n \in Nodes, c \in Calls : Receive(n, c)
    \/ \E k \in Channels, c \in Calls : Answer(k, c) \/ AnswerFails(k, c)
    \/ \E s \in Services : LoseConnection(s) \/ Exit(s) \/ Recover(s)
    \/ RestartBroker

\* Only the timers of chat-service are sure to go off.
Spec == Init /\ [][Next]_vars /\ \A c \in Calls : WF_vars(Timeout(c))

-------------------------------------------------------------------------------
(* Properties.                                                                 *)

\* A callback runs once: an answer after the timer, a second answer to a request
\* that was delivered twice and a timer after the answer do nothing.
CalledBackOnce ==
    [][\A c \in Calls : call[c] \in {"answered", "null", "gone"} => call'[c] = call[c]]_vars

\* Each call ends whatever becomes of its request, even if it was never sent.
CallsSettle == \A c \in Calls : call[c] = "waiting" ~> call[c] # "waiting"

\* The broker forgets a request that was not answered only when it restarts, or
\* when user-service, having reconnected, acknowledges with the tag of a delivery
\* of the old channel; then its handler still answers, if the channel stays open.
GoneWasAnswered ==
    \A c \in sent \ (requests \cup Waiting \cup replied \cup lost) :
        \E k \in Channels :
            /\ <<k, c>> \in mistaken
            /\ link[UserService].open /\ k = Current => task[<<k, c>>] = "finding"
===============================================================================
