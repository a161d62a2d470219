--------------------------- MODULE ServiceLifecycle ---------------------------
(***************************************************************************)
(* One process of a service from start() to process.exit: server.ts of the *)
(* three services, with the connection that RabbitMQService keeps and the  *)
(* Redis clients that chat-service waits for.  Signals and uncaught errors *)
(* may come at any time, and each calls gracefulShutdown anew.             *)
(*                                                                         *)
(* The queues are taken to exist as the services declare them, so that an  *)
(* assertQueue rejects only when its connection is lost.                   *)
(***************************************************************************)
EXTENDS Naturals, FiniteSets

CONSTANTS
    MaxRetries,            \* maxRetries of the connect loop in start()
    MaxReconnectAttempts,  \* MAX_RECONNECT_ATTEMPTS
    MaxConnections,        \* bound on the broker connections ever opened
    MaxRequests,           \* bound on the HTTP requests in progress
    MaxSockets,            \* bound on the WebSockets open
    MaxCalls               \* bound on the calls of gracefulShutdown

ASSUME LifecycleAssumption ==
    /\ MaxRetries \in Nat \ {0} /\ MaxReconnectAttempts \in Nat
    /\ MaxConnections \in Nat /\ MaxRequests \in Nat
    /\ MaxSockets \in Nat /\ MaxCalls \in Nat

Services == {"chat", "user", "notification"}
Clients == {"pub", "sub", "presence"}
Connections == 1..MaxConnections
Calls == 1..MaxCalls

VARIABLES
    service,      \* which service the process runs
    boot,         \* how far start() is
    redis,        \* what waitReady knows of each Redis client
    store,        \* the presence store in use
    attempt,      \* the pass of the connect loop
    bootConn,     \* the connection whose queues start() asserts, or 0
    current,      \* this.connection, or 0
    opened,       \* connections opened so far, numbered from 1
    conns,        \* those that are open
    reconnect,    \* scheduleReconnect: its timer, or its connect() under way
    tries,        \* this.reconnectAttempts
    http,         \* the HTTP server
    requests,     \* HTTP requests in progress
    sockets,      \* WebSockets open
    database,     \* AppDataSource
    call,         \* how far each call of gracefulShutdown is
    exit,         \* the exit code, or "none" while the process runs
    early,        \* a shutdown began before there was a server (history)
    late,         \* a connection was opened after disconnect() (history)
    retried       \* start() connected again after losing its connection (history)

brokerVars == <<attempt, bootConn, current, opened, conns, reconnect, tries, late>>
httpVars == <<http, requests, sockets>>
lifecycleVars == <<service, boot, redis, store, brokerVars, httpVars, database, call,
                   exit, early, retried>>

LifecycleTypeOK ==
    /\ service \in Services
    /\ boot \in {"database", "redis", "broker", "asserting", "rejected", "backoff",
                 "listen", "done"}
    /\ redis \in [Clients -> {"waiting", "errored", "ready"}]
    /\ store \in {"local", "redis", "closed"}
    /\ attempt \in 1..MaxRetries
    /\ bootConn \in Connections \cup {0} /\ current \in Connections \cup {0}
    /\ opened \in 0..MaxConnections /\ conns \subseteq 1..opened
    /\ reconnect \in {"idle", "timer", "asserting"} /\ tries \in 0..MaxReconnectAttempts
    /\ http \in {"off", "open", "closing", "closed"}
    /\ requests \in 0..MaxRequests /\ sockets \in 0..MaxSockets
    /\ database \in {"unopened", "open", "closing", "closed"}
    /\ call \in [Calls -> {"none", "drain", "stores", "broker", "database", "destroying"}]
    /\ exit \in {"none", "0", "1"}
    /\ early \in BOOLEAN /\ late \in BOOLEAN /\ retried \in BOOLEAN

LifecycleInit ==
    /\ service \in Services
    /\ boot = "database"
    /\ redis = [c \in Clients |-> "waiting"]
    /\ store = "local"
    /\ attempt = 1 /\ bootConn = 0 /\ current = 0 /\ opened = 0 /\ conns = {}
    /\ reconnect = "idle" /\ tries = 0
    /\ http = "off" /\ requests = 0 /\ sockets = 0
    /\ database = "unopened"
    /\ call = [k \in Calls |-> "none"]
    /\ exit = "none"
    /\ early = FALSE /\ late = FALSE /\ retried = FALSE

\* Seeded fault: the process is left to end by itself.
LeftRunning(code) == UNCHANGED exit

\* process.exit
Exits(code) == exit' = code
-----------------------------------------------------------------------------
(* start()                                                                 *)

\* connectDB, and what follows it up to the next await: only chat-service waits
\* for Redis, if it has a REDIS_URL, and only it listens last.
ConnectDB ==
    /\ boot = "database"
    /\ \/ /\ Exits("1")
          /\ UNCHANGED <<boot, http, database>>
       \/ /\ database' = "open"
          /\ IF service = "chat"
             THEN boot' \in {"redis", "broker"} /\ UNCHANGED http
             ELSE boot' = "broker" /\ http' = IF http = "off" THEN "open" ELSE http
          /\ UNCHANGED exit
    /\ UNCHANGED <<service, redis, store, brokerVars, requests, sockets, call, early, retried>>

\* waitReady: the first error clears the timeout, and does not reject.
RedisError(c) ==
    /\ boot = "redis" /\ redis[c] = "waiting"
    /\ redis' = [redis EXCEPT ![c] = "errored"]
    /\ UNCHANGED <<service, boot, store, brokerVars, httpVars, database, call, exit, early, retried>>

RedisReady(c) ==
    /\ boot = "redis" /\ redis[c] # "ready"
    /\ redis' = [redis EXCEPT ![c] = "ready"]
    /\ UNCHANGED <<service, boot, store, brokerVars, httpVars, database, call, exit, early, retried>>

\* Promise.all of the three clients resolves.
RedisUp ==
    /\ boot = "redis" /\ \A c \in Clients : redis[c] = "ready"
    /\ boot' = "broker"
    /\ store' = IF store = "closed" THEN store ELSE "redis"
    /\ UNCHANGED <<service, redis, brokerVars, httpVars, database, call, exit, early, retried>>

\* The timeout of a client rejects; start() goes on with the local store.
RedisTimeout(c) ==
    /\ boot = "redis" /\ redis[c] = "waiting"
    /\ boot' = "broker"
    /\ UNCHANGED <<service, redis, store, brokerVars, httpVars, database, call, exit, early, retried>>

\* Seeded fault: the loop goes on after a connect that succeeded.
AfterConnectLoops == "broker"

\* Where start() goes when the loop is left.
AfterConnect == IF service = "chat" THEN "listen" ELSE "done"

\* amqp.connect and createChannel resolve: this.connection is replaced.
Opens ==
    /\ opened < MaxConnections
    /\ opened' = opened + 1
    /\ conns' = conns \cup {opened + 1}
    /\ current' = opened + 1
    /\ tries' = 0
    /\ late' = (late \/ \E k \in Calls : call[k] \in {"database", "destroying"})

\* Seeded fault: one attempt too many.
RetriesAgain == attempt <= MaxRetries

HasRetries == attempt < MaxRetries

\* The loop's catch: wait and connect again, or go on without a connection.
AttemptFailed ==
    \/ HasRetries /\ attempt' = attempt + 1 /\ boot' = "backoff"
    \/ ~HasRetries /\ boot' = AfterConnect /\ UNCHANGED attempt

BootConnects ==
    /\ boot = "broker"
    /\ \/ /\ Opens
          /\ boot' = "asserting" /\ bootConn' = opened + 1
          /\ UNCHANGED <<attempt, reconnect>>
       \/ /\ AttemptFailed
          /\ UNCHANGED <<bootConn, current, opened, conns, reconnect, tries, late>>
    /\ UNCHANGED <<service, redis, store, httpVars, database, call, exit, early, retried>>

\* The assertQueues resolve, or have rejected with the loss of the connection.
BootAsserted ==
    /\ \/ /\ boot = "asserting"
          /\ boot' = AfterConnect
          /\ UNCHANGED <<attempt, retried>>
       \/ /\ boot = "rejected"
          /\ AttemptFailed
          /\ retried' = (retried \/ HasRetries)
    /\ bootConn' = 0
    /\ UNCHANGED <<service, redis, store, current, opened, conns, reconnect, tries, late,
                   httpVars, database, call, exit, early>>

BackoffEnds ==
    /\ boot = "backoff"
    /\ boot' = "broker"
    /\ UNCHANGED <<service, redis, store, brokerVars, httpVars, database, call, exit, early, retried>>

\* chat-service: app.listen and createSocketServer.
Listen ==
    /\ boot = "listen"
    /\ boot' = "done" /\ http' = "open"
    /\ UNCHANGED <<service, redis, store, brokerVars, requests, sockets, database, call, exit,
                   early, retried>>

StartStep ==
    \/ ConnectDB \/ RedisUp \/ BootConnects \/ BootAsserted \/ BackoffEnds \/ Listen
    \/ \E c \in Clients : RedisTimeout(c)
-----------------------------------------------------------------------------
(* The connection to RabbitMQ.                                             *)

\* scheduleReconnect
Schedule ==
    IF reconnect # "idle" \/ tries >= MaxReconnectAttempts
    THEN UNCHANGED <<reconnect, tries>>
    ELSE reconnect' = "timer" /\ tries' = tries + 1

\* Connection c is closed, whoever closes it: its close handler runs, and an
\* assertQueue that start() awaits on it rejects.
Closes(c) ==
    /\ conns' = conns \ {c}
    /\ Schedule
    /\ boot' = IF boot = "asserting" /\ bootConn = c THEN "rejected" ELSE boot

ConnectionLost(c) ==
    /\ c \in conns
    /\ Closes(c)
    /\ UNCHANGED <<service, redis, store, attempt, bootConn, current, opened, late, httpVars,
                   database, call, exit, early, retried>>

\* The timer of scheduleReconnect calls connect().
ReconnectOpens ==
    /\ reconnect = "timer"
    /\ Opens
    /\ reconnect' = "asserting"
    /\ UNCHANGED <<service, boot, redis, store, attempt, bootConn, httpVars, database, call,
                   exit, early, retried>>

\* connect() has failed, or its assertQueues have resolved or rejected.
ReconnectEnds ==
    /\ reconnect # "idle"
    /\ reconnect' = "idle"
    /\ UNCHANGED <<service, boot, redis, store, attempt, bootConn, current, opened, conns, tries,
                   late, httpVars, database, call, exit, early, retried>>
-----------------------------------------------------------------------------
(* The HTTP server.                                                        *)

RequestComes ==
    /\ http = "open" /\ requests < MaxRequests
    /\ requests' = requests + 1
    /\ UNCHANGED <<service, boot, redis, store, brokerVars, http, sockets, database, call, exit,
                   early, retried>>

RequestEnds ==
    /\ requests > 0
    /\ requests' = requests - 1
    /\ UNCHANGED <<service, boot, redis, store, brokerVars, http, sockets, database, call, exit,
                   early, retried>>

SocketOpens ==
    /\ service = "chat" /\ http = "open" /\ sockets < MaxSockets
    /\ sockets' = sockets + 1
    /\ UNCHANGED <<service, boot, redis, store, brokerVars, http, requests, database, call, exit,
                   early, retried>>

\* Only the client ends a WebSocket: nothing calls io.close().
SocketLeaves ==
    /\ sockets > 0
    /\ sockets' = sockets - 1
    /\ UNCHANGED <<service, boot, redis, store, brokerVars, http, requests, database, call, exit,
                   early, retried>>
-----------------------------------------------------------------------------
(* gracefulShutdown, the k-th call.                                        *)

CallTo(k, next) == call' = [call EXCEPT ![k] = next]

\* Only chat-service closes its presence store and its Redis clients.
AfterHttp == IF service = "chat" THEN "stores" ELSE "broker"

\* SIGTERM, SIGINT, uncaughtException or unhandledRejection: server.close(),
\* if there is a server.  A call that finds the server closing waits as well.
BeginShutdown(k) ==
    /\ call[k] = "none" /\ \A j \in Calls : j < k => call[j] # "none"
    /\ \/ /\ http = "off"
          /\ CallTo(k, AfterHttp)
          /\ early' = TRUE
          /\ UNCHANGED http
       \/ /\ http # "off"
          /\ CallTo(k, "drain")
          /\ http' = IF http = "open" THEN "closing" ELSE http
          /\ UNCHANGED early
    /\ UNCHANGED <<service, boot, redis, store, brokerVars, requests, sockets, database, exit, retried>>

\* Seeded fault: server.close() is not awaited.
DrainedAtOnce == TRUE

\* The server emits close when no connection is left, WebSockets included.
Drained == requests = 0 /\ sockets = 0

HttpClosed(k) ==
    /\ call[k] = "drain" /\ Drained
    /\ http' = "closed"
    /\ CallTo(k, AfterHttp)
    /\ UNCHANGED <<service, boot, redis, store, brokerVars, requests, sockets, database, exit,
                   early, retried>>

CloseStores(k) ==
    /\ call[k] = "stores"
    /\ store' = "closed"
    /\ CallTo(k, "broker")
    /\ UNCHANGED <<service, boot, redis, brokerVars, httpVars, database, exit, early, retried>>

\* disconnect(): the close of this.connection runs the close handler too.
\* Closing what is closed already throws, and is only logged.
Disconnect(k) ==
    /\ call[k] = "broker"
    /\ CallTo(k, "database")
    /\ \/ current \in conns /\ Closes(current)
       \/ current \notin conns /\ UNCHANGED <<conns, reconnect, tries, boot>>
    /\ UNCHANGED <<service, redis, store, attempt, bootConn, current, opened, late, httpVars,
                   database, exit, early, retried>>

\* isInitialized stays true until destroy() is done: a second destroy() while
\* the first runs rejects.
CloseDatabase(k) ==
    /\ call[k] = "database"
    /\ \/ /\ database = "open"
          /\ database' = "closing"
          /\ CallTo(k, "destroying")
          /\ UNCHANGED exit
       \/ /\ database = "closing"
          /\ Exits("1")
          /\ UNCHANGED <<call, database>>
       \/ /\ database \in {"unopened", "closed"}
          /\ Exits("0")
          /\ UNCHANGED <<call, database>>
    /\ UNCHANGED <<service, boot, redis, store, brokerVars, httpVars, early, retried>>

Destroyed(k) ==
    /\ call[k] = "destroying"
    /\ \/ database' = "closed" /\ Exits("0")
       \/ UNCHANGED database /\ Exits("1")
    /\ UNCHANGED <<service, boot, redis, store, brokerVars, httpVars, call, early, retried>>

ShutdownStep(k) ==
    HttpClosed(k) \/ CloseStores(k) \/ Disconnect(k) \/ CloseDatabase(k) \/ Destroyed(k)
-----------------------------------------------------------------------------
Running == exit = "none"

Start == Running /\ StartStep
Shutdown(k) == Running /\ ShutdownStep(k)
Answer == Running /\ RequestEnds

LifecycleNext ==
    \/ Start
    \/ Answer
    \/ \E k \in Calls : Shutdown(k)
    \/ /\ Running
       /\ \/ \E c \in Clients : RedisError(c) \/ RedisReady(c)
          \/ \E c \in conns : ConnectionLost(c)
          \/ ReconnectOpens \/ ReconnectEnds
          \/ RequestComes \/ SocketOpens \/ SocketLeaves
          \/ \E k \in Calls : BeginShutdown(k)

\* Timers fire, queries and closes return, and every request is answered; Redis
\* need not come up, RabbitMQ need not answer, and WebSockets need not close.
LifecycleFairness ==
    /\ WF_lifecycleVars(Start) /\ WF_lifecycleVars(Answer)
    /\ \A k \in Calls : WF_lifecycleVars(Shutdown(k))

LifecycleSpec == LifecycleInit /\ [][LifecycleNext]_lifecycleVars /\ LifecycleFairness
-----------------------------------------------------------------------------
\* No request runs and no queue is consumed while the database is closing,
\* unless the shutdown began before there was a server to close, or a
\* connection was opened behind the back of disconnect(): by the timer that the
\* close handler sets, or by start() (gracefulShutdown of the server.ts files;
\* chat-service 92-114).
NothingWithoutDatabase ==
    database = "open" \/ ((requests > 0 => early) /\ (conns # {} => late \/ retried))

\* The service has one connection, hence one consumer of each queue, unless it
\* lost one while start() was still in its connect loop: then both the loop and
\* scheduleReconnect connect.
OneConnection == Cardinality(conns) > 1 => retried

\* Every shutdown ends, provided that the clients with a WebSocket leave.
ShutdownEnds ==
    <>[](sockets = 0) => ((\E k \in Calls : call[k] # "none") ~> ~Running)

\* "if first connect fails we reject via timeout" (RedisService.ts 119), "Redis
\* init failed, falling back to in-process presence" (server.ts 53): start()
\* comes to its end whether Redis is there or not.  The code breaks this.
StartEnds == <>(boot = "done" \/ ~Running)
=============================================================================
