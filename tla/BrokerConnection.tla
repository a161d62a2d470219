--------------------------- MODULE BrokerConnection ---------------------------
(* The RabbitMQ connection of each service, as its RabbitMQService keeps it:    *)
(* the three services have the same code for it.  The specification begins     *)
(* when start() has connected.                                                 *)
EXTENDS Naturals

CONSTANTS
    Services,              \* the processes that have a connection
    MaxReconnectAttempts,  \* MAX_RECONNECT_ATTEMPTS
    MaxChannels            \* bound on the channels that each service opens

ASSUME ConnectionAssumption ==
    MaxReconnectAttempts \in Nat \ {0} /\ MaxChannels \in [Services -> Nat \ {0}]

VARIABLES
    link,  \* by service, what its RabbitMQService knows
    proc   \* by service, the state of its process

\* this.channel is the channel number chan; timers counts the setTimeouts that
\* will call connect(); asserting: connect() has its channel and awaits the
\* assertQueues.
Link == [chan : Nat, open : BOOLEAN, isReconnecting : BOOLEAN,
         reconnectAttempts : Nat, timers : Nat, asserting : BOOLEAN]

LinkTypeOK ==
    /\ link \in [Services -> Link]
    /\ \A s \in Services : link[s].chan \in 1..MaxChannels[s]
    /\ proc \in [Services -> {"running", "stopping", "exited"}]

LinkInit ==
    /\ link = [s \in Services |->
                 [chan |-> 1, open |-> TRUE, isReconnecting |-> FALSE,
                  reconnectAttempts |-> 0, timers |-> 0, asserting |-> FALSE]]
    /\ proc = [s \in Services |-> "running"]

Alive(s) == proc[s] # "exited"

\* Seeded fault: no test of isReconnecting.
RefusesAtLimit(l) == l.reconnectAttempts >= MaxReconnectAttempts

\* scheduleReconnect returns at once while a reconnect is under way, and gives
\* up at the limit.
Refuses(l) == l.isReconnecting \/ l.reconnectAttempts >= MaxReconnectAttempts

ScheduleReconnect(l) ==
    IF Refuses(l) THEN l
    ELSE [l EXCEPT !.isReconnecting = TRUE, !.reconnectAttempts = @ + 1, !.timers = @ + 1]

\* The connection closes, and its close handler runs.
Lost(l) == ScheduleReconnect([l EXCEPT !.open = FALSE])

\* The process dies, and its timers with it.
Dead(l) == [l EXCEPT !.open = FALSE, !.isReconnecting = FALSE,
                     !.reconnectAttempts = 0, !.timers = 0, !.asserting = FALSE]

SetLink(s, l) == link' = [link EXCEPT ![s] = l]

\* The timer calls connect, which gets a connection and a channel.
ReconnectOpens(s) ==
    /\ link[s].timers > 0 /\ link[s].chan < MaxChannels[s]
    /\ SetLink(s, [link[s] EXCEPT !.timers = @ - 1, !.chan = @ + 1, !.open = TRUE,
                                  !.reconnectAttempts = 0, !.asserting = TRUE])
    /\ UNCHANGED proc

\* connect rejects: logged, and nothing schedules another attempt.
ReconnectFails(s) ==
    /\ link[s].timers > 0
    /\ SetLink(s, [link[s] EXCEPT !.timers = @ - 1, !.isReconnecting = FALSE])
    /\ UNCHANGED proc

\* The assertQueues resolve and connect returns; or the channel has closed
\* meanwhile and they reject.  The finally clause is the same.
ReconnectEnds(s) ==
    /\ link[s].asserting
    /\ SetLink(s, [link[s] EXCEPT !.asserting = FALSE, !.isReconnecting = FALSE])
    /\ UNCHANGED proc

Reconnect(s) == ReconnectOpens(s) \/ ReconnectFails(s) \/ ReconnectEnds(s)

\* A new process of the service, connected.
StartService(s) ==
    /\ proc[s] = "exited" /\ link[s].chan < MaxChannels[s]
    /\ SetLink(s, [link[s] EXCEPT !.chan = @ + 1, !.open = TRUE])
    /\ proc' = [proc EXCEPT ![s] = "running"]

\* A consumer is registered when connect has awaited its assertQueues.
Consumes(s) == Alive(s) /\ link[s].open /\ ~link[s].asserting

-------------------------------------------------------------------------------
\* At most one connect() is under way in a service, whatever closes while it is:
\* two would leave two connections with a consumer each.
OneReconnect == \A s \in Services :
    link[s].timers + (IF link[s].asserting THEN 1 ELSE 0) <= 1
===============================================================================
