---------------------- MODULE NotificationPipeline_proofs ----------------------
(* What the broker may forget, proved for any events and any number of          *)
(* channels; and ServiceLifecycle, the life of a process, for any bounds on      *)
(* retries, connections, requests and signals.                                  *)
EXTENDS NotificationPipeline, ServiceLifecycle, FiniteSetTheorems, TLAPS

\* A handler sends its mail only when its row is stored.
StoredInv == \A c \in Channels, e \in Known :
    task[c, e] = "mail" => "stored" \in fate[e]

IInv == TypeOK /\ StoredInv /\ GoneWasStored /\ GoneWasMailed

Steps == {"none", "save", "mail", "done"}

-------------------------------------------------------------------------------
(* Type correctness.                                                           *)

LEMMA TypeInit == Init => TypeOK
<1> SUFFICES ASSUME Init PROVE TypeOK
  OBVIOUS
<1>1. delivered \in [Channels -> Seq(Events)]
  BY DEF Init
<1>2. chan \in 0..MaxChannels
  BY PipelineAssumption DEF Init
<1>3. task \in [Channels \X Known -> {"none", "save", "mail", "done"}]
  BY DEF Init
<1>4. fate \in [Events -> SUBSET Fates]
  BY DEF Init
<1> QED
  BY <1>1, <1>2, <1>3, <1>4 DEF Init, TypeOK, BeingHandled

\* Closing a channel types all but the handlers.
LEMMA TypeClose ==
    ASSUME TypeOK, NEW survivors, CloseChannel(survivors),
           task' \in [Channels \X Known -> Steps]
    PROVE  TypeOK'
<1>1. Waiting \subseteq Events
  <2>1. CASE live
    <3>1. delivered[chan] \in Seq(Events) /\ unacked \subseteq DOMAIN delivered[chan]
      BY <2>1 DEF TypeOK, Channels
    <3> QED
      BY <2>1, <3>1 DEF Waiting
  <2> QED
    BY <2>1 DEF Waiting
<1>2. ready' \subseteq Events
  BY <1>1 DEF TypeOK, CloseChannel
<1>3. fate' \in [Events -> SUBSET Fates]
  BY DEF TypeOK, CloseChannel, Fates
<1> QED
  BY <1>2, <1>3 DEF TypeOK, BeingHandled, CloseChannel, Steps

\* The last step of a handler types its own variables.
LEMMA TypeFinish ==
    ASSUME TypeOK, NEW c \in Channels, NEW e \in Known, Finish(c, e)
    PROVE  /\ task' \in [Channels \X Known -> Steps]
           /\ unacked' \subseteq unacked
BY DEF TypeOK, Finish, Steps

\* A step of a handler changes nothing that others see but the tags and fates.
LEMMA TypeHandle ==
    ASSUME TypeOK, NEW c \in Channels, NEW e \in Known, Handle(c, e)
    PROVE  TypeOK'
<1>1. UNCHANGED <<published, ready, chan, live, delivered>>
  BY DEF Handle, SaveRow, SaveFails, Mail
<1>2. fate' \in [Events -> SUBSET Fates]
  <2>1. e \in Events
    BY DEF Events
  <2>2. PICK F \in SUBSET Fates : fate' = [fate EXCEPT ![e] = @ \cup F]
    <3>1. {"stored"} \subseteq Fates /\ {"mail tried"} \subseteq Fates
             /\ {"dropped"} \subseteq Fates
      BY DEF Fates
    <3>2. CASE SaveRow(c, e)
      BY <3>1, <3>2 DEF SaveRow
    <3>3. CASE SaveFails(c, e)
      BY <3>1, <3>3 DEF SaveFails
    <3>4. CASE Mail(c, e)
      BY <3>1, <3>4 DEF Mail
    <3> QED
      BY <3>2, <3>3, <3>4 DEF Handle
  <2> QED
    BY <2>1, <2>2 DEF TypeOK
<1>3. task' \in [Channels \X Known -> Steps]
  BY TypeFinish DEF Handle, SaveRow, SaveFails, Mail, TypeOK, Steps
<1>4. unacked' \subseteq unacked
  BY TypeFinish DEF Handle, SaveRow, SaveFails, Mail
<1>5. BeingHandled'
  <2>1. CASE Finish(c, e)
    <3> SUFFICES ASSUME NEW t \in unacked'
                 PROVE  BeingHandled!(t)'
      BY DEF BeingHandled
    <3>1. t \in unacked /\ (live /\ c = chan => t \notin TagsOf(c, e))
      BY <2>1 DEF Finish, Settled
    <3>2. /\ live /\ t \in DOMAIN delivered[chan]
          /\ delivered[chan][t] \in Known
          /\ task[<<chan, delivered[chan][t]>>] \in {"save", "mail"}
      BY <3>1 DEF TypeOK, BeingHandled
    <3>3. <<chan, delivered[chan][t]>> # <<c, e>>
      BY <3>1, <3>2 DEF TagsOf
    <3>4. <<chan, delivered[chan][t]>> \in Channels \X Known
      BY <3>2, <3>1, PipelineAssumption DEF TypeOK, Channels
    <3>5. task'[<<chan, delivered[chan][t]>>] = task[<<chan, delivered[chan][t]>>]
      BY <2>1, <3>3, <3>4 DEF Finish, TypeOK
    <3> QED
      BY <1>1, <3>2, <3>5
  <2>2. CASE task' = [task EXCEPT ![<<c, e>>] = "mail"] /\ UNCHANGED unacked
    BY <1>1, <2>2 DEF TypeOK, BeingHandled
  <2> QED
    BY <2>1, <2>2 DEF Handle, SaveRow, SaveFails, Mail
<1> QED
  BY <1>1, <1>2, <1>3, <1>4, <1>5 DEF TypeOK, Steps

LEMMA TypeStep ==
    ASSUME TypeOK, [Next]_vars
    PROVE  TypeOK'
<1>1. CASE Connect
  <2>1. chan' \in 0..MaxChannels /\ chan' # 0
    BY <1>1, PipelineAssumption DEF Connect, TypeOK
  <2>2. unacked' = {}
    BY <1>1 DEF Connect, TypeOK
  <2> QED
    BY <1>1, <2>1, <2>2 DEF Connect, TypeOK, BeingHandled
<1>2. CASE LoseConnection
  BY <1>2, TypeClose DEF LoseConnection, TypeOK, Steps
<1>3. CASE RestartBroker
  BY <1>3, TypeClose DEF RestartBroker, TypeOK, Steps
<1>4. CASE Crash
  <2>1. task' \in [Channels \X Known -> Steps]
    BY <1>4 DEF Crash, Steps
  <2> QED
    BY <1>4, <2>1, TypeClose DEF Crash
<1>5. ASSUME NEW e \in Events, Publish(e)
      PROVE  TypeOK'
  BY <1>5 DEF Publish, TypeOK, BeingHandled
<1>6. ASSUME NEW e \in Events, Deliver(e)
      PROVE  TypeOK'
  <2>1. chan \in Channels
    BY <1>6 DEF Deliver, TypeOK, Channels
  <2>2. delivered' \in [Channels -> Seq(Events)]
    BY <1>6, <2>1 DEF Deliver, TypeOK
  <2>3. unacked' \subseteq DOMAIN delivered'[chan]
    BY <1>6, <2>1 DEF Deliver, TypeOK, Pending
  <2>4. task' \in [Channels \X Known -> Steps]
    BY <1>6 DEF Deliver, TypeOK, Steps
  <2>5. BeingHandled'
    <3> SUFFICES ASSUME NEW t \in unacked'
                 PROVE  BeingHandled!(t)'
      BY DEF BeingHandled
    <3>1. live /\ UNCHANGED chan
      BY <1>6 DEF Deliver
    <3>2. CASE t \in unacked
      <4>1. /\ t \in DOMAIN delivered[chan]
            /\ delivered[chan][t] \in Known
            /\ task[<<chan, delivered[chan][t]>>] \in {"save", "mail"}
        BY <3>1, <3>2 DEF TypeOK, BeingHandled
      <4>2. delivered'[chan][t] = delivered[chan][t]
        BY <1>6, <2>1, <4>1 DEF Deliver, TypeOK
      <4>3. task'[<<chan, delivered[chan][t]>>] \in {"save", "mail"}
        BY <1>6, <2>1, <4>1 DEF Deliver, TypeOK
      <4> QED
        BY <3>1, <4>1, <4>2, <4>3
    <3>3. CASE t \notin unacked
      <4>1. e \in Known /\ t = Len(delivered[chan]) + 1
        BY <1>6, <3>3 DEF Deliver, Pending
      <4>2. delivered'[chan][t] = e
        BY <1>6, <2>1, <4>1 DEF Deliver, TypeOK
      <4>3. task'[<<chan, e>>] = "save"
        BY <1>6, <2>1, <4>1 DEF Deliver
      <4> QED
        BY <3>1, <4>1, <4>2, <4>3
    <3> QED
      BY <3>2, <3>3
  <2> QED
    BY <1>6, <2>2, <2>3, <2>4, <2>5 DEF Deliver, TypeOK, Steps
<1>7. ASSUME NEW c \in Channels, NEW e \in Known, Handle(c, e)
      PROVE  TypeOK'
  BY <1>7, TypeHandle
<1>8. CASE UNCHANGED vars
  BY <1>8 DEF vars, TypeOK, BeingHandled
<1> QED
  BY <1>1, <1>2, <1>3, <1>4, <1>5, <1>6, <1>7, <1>8 DEF Next

\* Every reachable state is well typed.
THEOREM TypeCorrect == Spec => []TypeOK
<1> QED
  BY TypeInit, TypeStep, PTL DEF Spec

-------------------------------------------------------------------------------
(* What is gone was handled.                                                   *)

\* An event is gone after a channel closed only if it was, or is lost.
LEMMA GoneByClose ==
    ASSUME TypeOK, NEW survivors, CloseChannel(survivors),
           NEW e \in Events, Gone(e)'
    PROVE  Gone(e) \/ "lost by the broker" \in fate'[e]
<1>1. Waiting' = {}
  BY DEF CloseChannel, Waiting
<1>2. e \notin (ready \cup Waiting) \cap survivors
  BY <1>1 DEF Gone, CloseChannel
<1>3. e \in published
  BY DEF Gone, CloseChannel
<1> QED
  BY <1>2, <1>3 DEF Gone, CloseChannel, TypeOK

\* Closing a channel forgets no fate.
LEMMA FatesGrow ==
    ASSUME TypeOK, [Next]_vars, NEW e \in Events
    PROVE  fate[e] \subseteq fate'[e]
<1>1. CASE \E c \in Channels, d \in Known : Handle(c, d)
  BY <1>1 DEF Handle, SaveRow, SaveFails, Mail, TypeOK
<1>2. CASE LoseConnection \/ RestartBroker \/ Crash
  BY <1>2 DEF LoseConnection, RestartBroker, Crash, CloseChannel
<1>3. CASE Connect \/ \E d \in Events : Publish(d) \/ Deliver(d)
  BY <1>3 DEF Connect, Publish, Deliver
<1>4. CASE UNCHANGED vars
  BY <1>4 DEF vars
<1> QED
  BY <1>1, <1>2, <1>3, <1>4 DEF Next

\* The last step of a handler settles only deliveries of its own event, and
\* none if its channel has closed.
LEMMA GoneByFinish ==
    ASSUME TypeOK, NEW c \in Channels, NEW e \in Known, Finish(c, e),
           UNCHANGED <<published, ready, chan, live, delivered>>,
           NEW d \in Known, Gone(d)'
    PROVE  Gone(d) \/ (d = e /\ live /\ c = chan)
<1>1. CASE live /\ c = chan /\ d # e
  <2>1. Waiting \ {e} \subseteq Waiting'
    <3> SUFFICES ASSUME NEW t \in unacked, delivered[chan][t] # e
                 PROVE  delivered[chan][t] \in Waiting'
      BY <1>1 DEF Waiting
    <3>1. t \in unacked'
      BY DEF Finish, Settled, TagsOf
    <3> QED
      BY <3>1, <1>1 DEF Waiting
  <2> QED
    BY <1>1, <2>1 DEF Gone
<1>2. CASE ~(live /\ c = chan)
  <2>1. unacked' = unacked
    BY <1>2 DEF Finish, Settled
  <2> QED
    BY <2>1 DEF Gone, Waiting
<1> QED
  BY <1>1, <1>2

\* An event that no step but its own handler's settles stays with the broker.
LEMMA GoneByOthers ==
    ASSUME TypeOK, NEW e \in Known, Gone(e)',
           Connect \/ \E d \in Events : Publish(d) \/ Deliver(d)
    PROVE  Gone(e)
<1>1. CASE Connect
  BY <1>1 DEF Connect, Gone, Waiting, TypeOK
<1>2. ASSUME NEW d \in Events, Publish(d)
      PROVE  Gone(e)
  BY <1>2 DEF Publish, Gone, Waiting
<1>3. ASSUME NEW d \in Events, Deliver(d)
      PROVE  Gone(e)
  <2>1. chan \in Channels
    BY <1>3 DEF Deliver, TypeOK, Channels
  <2>2. delivered'[chan] = Append(delivered[chan], d)
    BY <1>3, <2>1 DEF Deliver, TypeOK
  <2>3. delivered[chan] \in Seq(Events)
    BY <2>1 DEF TypeOK
  <2>4. Waiting \subseteq Waiting'
    <3>0. Waiting = {delivered[chan][t] : t \in unacked}
      BY <1>3 DEF Waiting, Deliver
    <3> SUFFICES ASSUME NEW t \in unacked
                 PROVE  delivered[chan][t] \in Waiting'
      BY <3>0
    <3>1. t \in DOMAIN delivered[chan]
      BY <1>3 DEF TypeOK, Deliver
    <3>2. delivered'[chan][t] = delivered[chan][t]
      BY <2>2, <2>3, <3>1
    <3> QED
      BY <1>3, <3>2 DEF Waiting, Deliver
  <2>5. d \in Known => d \in Waiting'
    <3> SUFFICES ASSUME d \in Known
                 PROVE  d \in Waiting'
      OBVIOUS
    <3>1. Len(delivered[chan]) + 1 \in unacked'
      BY <1>3 DEF Deliver, Pending
    <3>2. delivered'[chan][Len(delivered[chan]) + 1] = d
      BY <2>2, <2>3
    <3> QED
      BY <1>3, <3>1, <3>2 DEF Waiting, Deliver
  <2> QED
    BY <1>3, <2>4, <2>5 DEF Gone, Deliver
<1> QED
  BY <1>1, <1>2, <1>3

\* A handler that awaits its mail has stored its row.
LEMMA StoredStep ==
    ASSUME TypeOK, StoredInv, [Next]_vars
    PROVE  StoredInv'
<1> SUFFICES ASSUME NEW c \in Channels, NEW e \in Known, task'[c, e] = "mail"
             PROVE  "stored" \in fate'[e]
  BY DEF StoredInv
<1>1. e \in Events
  BY DEF Events
<1>2. CASE task[c, e] = "mail"
  BY <1>1, <1>2, FatesGrow DEF StoredInv
<1>3. CASE task[c, e] # "mail"
  <2>1. PICK b \in Channels, d \in Known : SaveRow(b, d) /\ task'[c, e] # task[c, e]
    BY <1>3 DEF Next, vars, Connect, LoseConnection, RestartBroker, Crash, Publish,
                Deliver, Handle, SaveFails, Mail, Finish, TypeOK
  <2>2. d = e
    BY <2>1 DEF SaveRow, Finish, TypeOK
  <2> QED
    BY <1>1, <2>1, <2>2 DEF SaveRow, TypeOK
<1> QED
  BY <1>2, <1>3

\* One step of any kind: who is gone now was gone or has just met its fate.
LEMMA GoneStep ==
    ASSUME TypeOK, StoredInv, [Next]_vars, NEW e \in Known, Gone(e)'
    PROVE  \/ Gone(e)
           \/ "lost by the broker" \in fate'[e]
           \/ "dropped" \in fate'[e]
           \/ "stored" \in fate'[e] /\ (e \in Addressed => "mail tried" \in fate'[e])
<1>0. Known \subseteq Events
  BY DEF Events
<1>1. CASE LoseConnection \/ RestartBroker \/ Crash
  BY <1>0, <1>1, GoneByClose DEF LoseConnection, RestartBroker, Crash
<1>2. CASE Connect \/ \E d \in Events : Publish(d) \/ Deliver(d)
  BY <1>2, GoneByOthers
<1>3. ASSUME NEW c \in Channels, NEW d \in Known, SaveRow(c, d)
      PROVE  Gone(e) \/ ("stored" \in fate'[e] /\ e \notin Addressed)
  <2>1. CASE d \in Addressed
    <3>1. unacked' = unacked
      BY <1>3, <2>1 DEF SaveRow, MailsFirst
    <3>2. UNCHANGED <<published, ready, chan, live, delivered>>
      BY <1>3 DEF SaveRow
    <3>3. Waiting' = Waiting
      BY <3>1, <3>2 DEF Waiting
    <3> QED
      BY <3>2, <3>3 DEF Gone
  <2>2. CASE d \notin Addressed
    <3>1. Gone(e) \/ d = e
      BY <1>3, <2>2, GoneByFinish DEF SaveRow, MailsFirst
    <3>2. "stored" \in fate'[d]
      BY <1>0, <1>3 DEF SaveRow, TypeOK
    <3> QED
      BY <2>2, <3>1, <3>2
  <2> QED
    BY <2>1, <2>2
<1>4. ASSUME NEW c \in Channels, NEW d \in Known, SaveFails(c, d)
      PROVE  Gone(e) \/ "dropped" \in fate'[e]
  <2>1. Gone(e) \/ (e = d /\ live /\ c = chan)
    BY <1>4, GoneByFinish DEF SaveFails
  <2> QED
    BY <1>0, <1>4, <2>1 DEF SaveFails, TypeOK
<1>5. ASSUME NEW c \in Channels, NEW d \in Known, Mail(c, d)
      PROVE  Gone(e) \/ {"stored", "mail tried"} \subseteq fate'[e]
  <2>1. Gone(e) \/ e = d
    BY <1>5, GoneByFinish DEF Mail
  <2>2. "stored" \in fate[d]
    BY <1>5 DEF Mail, StoredInv
  <2> QED
    BY <1>0, <1>5, <2>1, <2>2 DEF Mail, TypeOK
<1>6. CASE UNCHANGED vars
  BY <1>6 DEF vars, Gone, Waiting
<1> QED
  BY <1>1, <1>2, <1>3, <1>4, <1>5, <1>6 DEF Next, Handle

LEMMA IInvInit == Init => IInv
<1>1. Init => StoredInv
  BY DEF Init, StoredInv
<1>2. Init => GoneWasStored /\ GoneWasMailed
  BY DEF Init, GoneWasStored, GoneWasMailed, Gone
<1> QED
  BY <1>1, <1>2, TypeInit DEF IInv

LEMMA IInvStep ==
    ASSUME IInv, [Next]_vars
    PROVE  IInv'
<1>1. TypeOK' /\ StoredInv'
  BY TypeStep, StoredStep DEF IInv
<1>2. GoneWasStored'
  <2> SUFFICES ASSUME NEW e \in Known, Gone(e)'
               PROVE  fate'[e] \cap {"stored", "dropped", "lost by the broker"} # {}
    BY DEF GoneWasStored
  <2>1. fate[e] \subseteq fate'[e]
    BY FatesGrow DEF IInv, Events
  <2> QED
    BY <2>1, GoneStep DEF IInv, GoneWasStored
<1>3. GoneWasMailed'
  <2> SUFFICES ASSUME NEW e \in Known \cap Addressed, Gone(e)'
               PROVE  fate'[e] \cap {"mail tried", "dropped", "lost by the broker"} # {}
    BY DEF GoneWasMailed
  <2>1. fate[e] \subseteq fate'[e]
    BY FatesGrow DEF IInv, Events
  <2> QED
    BY <2>1, GoneStep DEF IInv, GoneWasMailed
<1> QED
  BY <1>1, <1>2, <1>3 DEF IInv

\* Whatever closes when, the broker forgets a known event only when its row is
\* stored, storing it failed, or the broker restarted.
THEOREM GoneWasStoredAlways == Spec => []GoneWasStored
<1>1. IInv => GoneWasStored
  BY DEF IInv
<1> QED
  BY <1>1, IInvInit, IInvStep, PTL DEF Spec

\* The same for the mail of an event that has an address.
THEOREM GoneWasMailedAlways == Spec => []GoneWasMailed
<1>1. IInv => GoneWasMailed
  BY DEF IInv
<1> QED
  BY <1>1, IInvInit, IInvStep, PTL DEF Spec

-------------------------------------------------------------------------------
(* The life of a process: ServiceLifecycle.                                     *)

\* The types of the variables by what changes them.
BootType ==
    /\ service \in Services
    /\ boot \in {"database", "redis", "broker", "asserting", "rejected", "backoff",
                 "listen", "done"}
    /\ redis \in [Clients -> {"waiting", "errored", "ready"}]
    /\ store \in {"local", "redis", "closed"}

BrokerType ==
    /\ attempt \in 1..MaxRetries
    /\ bootConn \in Connections \cup {0} /\ current \in Connections \cup {0}
    /\ opened \in 0..MaxConnections /\ conns \subseteq 1..opened
    /\ reconnect \in {"idle", "timer", "asserting"} /\ tries \in 0..MaxReconnectAttempts

ServerType ==
    /\ http \in {"off", "open", "closing", "closed"}
    /\ requests \in 0..MaxRequests /\ sockets \in 0..MaxSockets
    /\ database \in {"unopened", "open", "closing", "closed"}

CallType ==
    /\ call \in [Calls -> {"none", "drain", "stores", "broker", "database",
                                  "destroying"}]
    /\ exit \in {"none", "0", "1"}
    /\ early \in BOOLEAN /\ late \in BOOLEAN /\ retried \in BOOLEAN

\* A server that is closed answers nothing, chat-service has none before it listens,
\* and a call that began with a server waits for it to close.
HttpInv ==
    /\ http \in {"off", "closed"} => requests = 0
    /\ boot = "database" \/ (service = "chat" /\ boot # "done") => http = "off"
    /\ boot = "listen" => service = "chat"
    /\ \A k \in Calls : call[k] = "drain" => http # "off"
    /\ ~early => \A k \in Calls :
          call[k] \in {"stores", "broker", "database", "destroying"} => http = "closed"

\* start() opens the database, and only a call that is destroying it closes it.
DatabaseInv ==
    /\ database = "unopened" => boot = "database"
    /\ database \in {"closing", "closed"} => \E k \in Calls : call[k] = "destroying"

\* Only the last connection is open, and none while one is to be opened, unless
\* start() connected again.
ConnectionInv ==
    /\ current = opened
    /\ ~retried =>
          /\ conns \subseteq {current}
          /\ reconnect = "timer" => conns = {}
          /\ boot \in {"database", "redis", "broker", "backoff"} =>
                opened = 0 /\ reconnect = "idle" /\ conns = {}
    /\ ~retried /\ ~late =>
          \A k \in Calls : call[k] \in {"database", "destroying"} => conns = {}

ProcessInv ==
    /\ BootType /\ BrokerType /\ ServerType /\ CallType
    /\ HttpInv /\ DatabaseInv /\ ConnectionInv

LEMMA TypeParts == LifecycleTypeOK <=> BootType /\ BrokerType /\ ServerType /\ CallType
BY DEF LifecycleTypeOK, BootType, BrokerType, ServerType, CallType

LEMMA ProcessInit ==
    ASSUME LifecycleInit
    PROVE  ProcessInv
<1> USE DEF LifecycleInit
<1>1. BootType /\ CallType
  BY DEF BootType, CallType
<1>2. BrokerType
  BY LifecycleAssumption DEF BrokerType
<1>3. ServerType
  BY LifecycleAssumption DEF ServerType
<1>4. HttpInv /\ DatabaseInv /\ ConnectionInv
  BY DEF HttpInv, DatabaseInv, ConnectionInv
<1> QED
  BY <1>1, <1>2, <1>3, <1>4 DEF ProcessInv

\* The steps of start().
LEMMA StartKeeps ==
    ASSUME ProcessInv, StartStep
    PROVE  ProcessInv'
<1> USE LifecycleAssumption DEF ProcessInv, brokerVars, httpVars
<1>1. CASE ConnectDB
  <2> USE <1>1 DEF ConnectDB, Exits
  <2>1. BootType'
    BY DEF BootType
  <2>2. BrokerType'
    BY DEF BrokerType
  <2>3. ServerType'
    BY DEF ServerType
  <2>4. CallType'
    BY DEF CallType
  <2>5. HttpInv'
    BY DEF HttpInv, ServerType, CallType
  <2>6. DatabaseInv'
    BY DEF DatabaseInv, CallType
  <2>7. ConnectionInv'
    BY DEF ConnectionInv, BrokerType, CallType
  <2> QED
    BY <2>1, <2>2, <2>3, <2>4, <2>5, <2>6, <2>7
<1>2. CASE RedisUp \/ \E c \in Clients : RedisTimeout(c)
  <2> USE <1>2 DEF RedisUp, RedisTimeout
  <2>1. BootType'
    BY DEF BootType
  <2>2. BrokerType'
    BY DEF BrokerType
  <2>3. ServerType'
    BY DEF ServerType
  <2>4. CallType'
    BY DEF CallType
  <2>5. HttpInv'
    BY DEF HttpInv, ServerType, CallType
  <2>6. DatabaseInv'
    BY DEF DatabaseInv, CallType
  <2>7. ConnectionInv'
    BY DEF ConnectionInv, BrokerType, CallType
  <2> QED
    BY <2>1, <2>2, <2>3, <2>4, <2>5, <2>6, <2>7
<1>3. CASE BootConnects
  <2> USE <1>3 DEF BootConnects, Opens, AttemptFailed,
    HasRetries, AfterConnect, Connections
  <2>1. BootType'
    BY DEF BootType
  <2>2. BrokerType'
    <3>1. CASE Opens
      BY <3>1 DEF BrokerType
    <3>2. CASE /\ AttemptFailed
               /\ UNCHANGED <<bootConn, current, opened, conns, reconnect, tries>>
      BY <3>2 DEF BrokerType
    <3> QED
      BY <3>1, <3>2
  <2>3. ServerType'
    BY DEF ServerType
  <2>4. CallType'
    BY DEF CallType
  <2>5. HttpInv'
    BY DEF HttpInv, ServerType, CallType
  <2>6. DatabaseInv'
    BY DEF DatabaseInv, CallType
  <2>7. ConnectionInv'
    BY DEF ConnectionInv, BrokerType, CallType
  <2> QED
    BY <2>1, <2>2, <2>3, <2>4, <2>5, <2>6, <2>7
<1>4. CASE BootAsserted
  <2> USE <1>4 DEF BootAsserted, AttemptFailed, HasRetries,
    AfterConnect, Connections
  <2>1. BootType'
    BY DEF BootType
  <2>2. BrokerType'
    BY DEF BrokerType
  <2>3. ServerType'
    BY DEF ServerType
  <2>4. CallType'
    BY DEF CallType
  <2>5. HttpInv'
    BY DEF HttpInv, ServerType, CallType
  <2>6. DatabaseInv'
    BY DEF DatabaseInv, CallType
  <2>7. ConnectionInv'
    BY DEF ConnectionInv, BrokerType, CallType
  <2> QED
    BY <2>1, <2>2, <2>3, <2>4, <2>5, <2>6, <2>7
<1>5. CASE BackoffEnds
  <2> USE <1>5 DEF BackoffEnds
  <2>1. BootType'
    BY DEF BootType
  <2>2. BrokerType'
    BY DEF BrokerType
  <2>3. ServerType'
    BY DEF ServerType
  <2>4. CallType'
    BY DEF CallType
  <2>5. HttpInv'
    BY DEF HttpInv, ServerType, CallType
  <2>6. DatabaseInv'
    BY DEF DatabaseInv, CallType
  <2>7. ConnectionInv'
    BY DEF ConnectionInv, BrokerType, CallType
  <2> QED
    BY <2>1, <2>2, <2>3, <2>4, <2>5, <2>6, <2>7
<1>6. CASE Listen
  <2> USE <1>6 DEF Listen
  <2>1. BootType'
    BY DEF BootType
  <2>2. BrokerType'
    BY DEF BrokerType
  <2>3. ServerType'
    BY DEF ServerType
  <2>4. CallType'
    BY DEF CallType
  <2>5. HttpInv'
    BY DEF HttpInv, ServerType, CallType
  <2>6. DatabaseInv'
    BY DEF DatabaseInv, CallType
  <2>7. ConnectionInv'
    BY DEF ConnectionInv, BrokerType, CallType
  <2> QED
    BY <2>1, <2>2, <2>3, <2>4, <2>5, <2>6, <2>7
<1> QED
  BY <1>1, <1>2, <1>3, <1>4, <1>5, <1>6 DEF StartStep

\* What happens to Redis and to the connection.
LEMMA BrokerKeeps ==
    ASSUME ProcessInv,
           \/ \E c \in Clients : RedisError(c) \/ RedisReady(c)
           \/ \E c \in conns : ConnectionLost(c)
           \/ ReconnectOpens \/ ReconnectEnds
    PROVE  ProcessInv'
<1> USE LifecycleAssumption DEF ProcessInv, brokerVars, httpVars
<1>1. CASE \E c \in Clients : RedisError(c) \/ RedisReady(c)
  <2> USE <1>1 DEF RedisError, RedisReady
  <2>1. BootType'
    BY DEF BootType
  <2>2. BrokerType'
    BY DEF BrokerType
  <2>3. ServerType'
    BY DEF ServerType
  <2>4. CallType'
    BY DEF CallType
  <2>5. HttpInv'
    BY DEF HttpInv, ServerType, CallType
  <2>6. DatabaseInv'
    BY DEF DatabaseInv, CallType
  <2>7. ConnectionInv'
    <3>1. UNCHANGED <<boot, current, opened, conns, reconnect, call, retried, late>>
      OBVIOUS
    <3> QED
      BY <3>1 DEF ConnectionInv
  <2> QED
    BY <2>1, <2>2, <2>3, <2>4, <2>5, <2>6, <2>7
<1>2. CASE \E c \in conns : ConnectionLost(c)
  <2> USE <1>2 DEF ConnectionLost, Closes, Schedule
  <2>1. BootType'
    BY DEF BootType
  <2>2. BrokerType'
    BY DEF BrokerType
  <2>3. ServerType'
    BY DEF ServerType
  <2>4. CallType'
    BY DEF CallType
  <2>5. HttpInv'
    BY DEF HttpInv, ServerType, CallType
  <2>6. DatabaseInv'
    BY DEF DatabaseInv, CallType
  <2>7. ConnectionInv'
    BY DEF ConnectionInv, BrokerType, CallType
  <2> QED
    BY <2>1, <2>2, <2>3, <2>4, <2>5, <2>6, <2>7
<1>3. CASE ReconnectOpens
  <2> USE <1>3 DEF ReconnectOpens, Opens, Connections
  <2>1. BootType'
    BY DEF BootType
  <2>2. BrokerType'
    BY DEF BrokerType
  <2>3. ServerType'
    BY DEF ServerType
  <2>4. CallType'
    BY DEF CallType
  <2>5. HttpInv'
    BY DEF HttpInv, ServerType, CallType
  <2>6. DatabaseInv'
    BY DEF DatabaseInv, CallType
  <2>7. ConnectionInv'
    BY DEF ConnectionInv, BrokerType, CallType
  <2> QED
    BY <2>1, <2>2, <2>3, <2>4, <2>5, <2>6, <2>7
<1>4. CASE ReconnectEnds
  <2> USE <1>4 DEF ReconnectEnds
  <2>1. BootType'
    BY DEF BootType
  <2>2. BrokerType'
    BY DEF BrokerType
  <2>3. ServerType'
    BY DEF ServerType
  <2>4. CallType'
    BY DEF CallType
  <2>5. HttpInv'
    BY DEF HttpInv, ServerType, CallType
  <2>6. DatabaseInv'
    BY DEF DatabaseInv, CallType
  <2>7. ConnectionInv'
    BY DEF ConnectionInv, BrokerType, CallType
  <2> QED
    BY <2>1, <2>2, <2>3, <2>4, <2>5, <2>6, <2>7
<1> QED
  BY <1>1, <1>2, <1>3, <1>4

\* Requests and WebSockets.
LEMMA ServerKeeps ==
    ASSUME ProcessInv,
           \/ RequestComes \/ RequestEnds
           \/ SocketOpens \/ SocketLeaves
    PROVE  ProcessInv'
<1> USE LifecycleAssumption DEF ProcessInv, brokerVars, httpVars
<1>1. CASE RequestComes \/ RequestEnds
  <2> USE <1>1 DEF RequestComes, RequestEnds
  <2>1. BootType'
    BY DEF BootType
  <2>2. BrokerType'
    BY DEF BrokerType
  <2>3. ServerType'
    BY DEF ServerType
  <2>4. CallType'
    BY DEF CallType
  <2>5. HttpInv'
    BY DEF HttpInv, ServerType, CallType
  <2>6. DatabaseInv'
    BY DEF DatabaseInv, CallType
  <2>7. ConnectionInv'
    BY DEF ConnectionInv, BrokerType, CallType
  <2> QED
    BY <2>1, <2>2, <2>3, <2>4, <2>5, <2>6, <2>7
<1>2. CASE SocketOpens \/ SocketLeaves
  <2> USE <1>2 DEF SocketOpens, SocketLeaves
  <2>1. BootType'
    BY DEF BootType
  <2>2. BrokerType'
    BY DEF BrokerType
  <2>3. ServerType'
    BY DEF ServerType
  <2>4. CallType'
    BY DEF CallType
  <2>5. HttpInv'
    BY DEF HttpInv, ServerType, CallType
  <2>6. DatabaseInv'
    BY DEF DatabaseInv, CallType
  <2>7. ConnectionInv'
    BY DEF ConnectionInv, BrokerType, CallType
  <2> QED
    BY <2>1, <2>2, <2>3, <2>4, <2>5, <2>6, <2>7
<1> QED
  BY <1>1, <1>2

\* The steps of gracefulShutdown.
LEMMA ShutdownKeeps ==
    ASSUME ProcessInv, NEW k \in Calls,
           BeginShutdown(k) \/ ShutdownStep(k)
    PROVE  ProcessInv'
<1> USE LifecycleAssumption DEF ProcessInv, brokerVars, httpVars, CallTo
<1>1. CASE BeginShutdown(k)
  <2> USE <1>1 DEF BeginShutdown, AfterHttp
  <2>1. BootType'
    BY DEF BootType
  <2>2. BrokerType'
    BY DEF BrokerType
  <2>3. ServerType'
    BY DEF ServerType
  <2>4. CallType'
    BY DEF CallType
  <2>5. HttpInv'
    BY DEF HttpInv, ServerType, CallType
  <2>6. DatabaseInv'
    BY DEF DatabaseInv, CallType
  <2>7. ConnectionInv'
    BY DEF ConnectionInv, BrokerType, CallType
  <2> QED
    BY <2>1, <2>2, <2>3, <2>4, <2>5, <2>6, <2>7
<1>2. CASE HttpClosed(k)
  <2> USE <1>2 DEF HttpClosed, Drained, AfterHttp
  <2>1. BootType'
    BY DEF BootType
  <2>2. BrokerType'
    BY DEF BrokerType
  <2>3. ServerType'
    BY DEF ServerType
  <2>4. CallType'
    BY DEF CallType
  <2>5. HttpInv'
    <3>1. http # "off" /\ http' = "closed" /\ requests' = 0
      BY DEF HttpInv, Drained
    <3>2. UNCHANGED <<boot, service, early>>
      OBVIOUS
    <3> QED
      BY <3>1, <3>2 DEF HttpInv
  <2>6. DatabaseInv'
    BY DEF DatabaseInv, CallType
  <2>7. ConnectionInv'
    BY DEF ConnectionInv, BrokerType, CallType
  <2> QED
    BY <2>1, <2>2, <2>3, <2>4, <2>5, <2>6, <2>7
<1>3. CASE CloseStores(k)
  <2> USE <1>3 DEF CloseStores
  <2>1. BootType'
    BY DEF BootType
  <2>2. BrokerType'
    BY DEF BrokerType
  <2>3. ServerType'
    BY DEF ServerType
  <2>4. CallType'
    BY DEF CallType
  <2>5. HttpInv'
    BY DEF HttpInv, ServerType, CallType
  <2>6. DatabaseInv'
    BY DEF DatabaseInv, CallType
  <2>7. ConnectionInv'
    BY DEF ConnectionInv, BrokerType, CallType
  <2> QED
    BY <2>1, <2>2, <2>3, <2>4, <2>5, <2>6, <2>7
<1>4. CASE Disconnect(k)
  <2> USE <1>4 DEF Disconnect, Closes, Schedule
  <2>1. BootType'
    BY DEF BootType
  <2>2. BrokerType'
    <3>1. CASE current \in conns /\ Closes(current)
      <4>1. UNCHANGED <<reconnect, tries>> \/ (reconnect' = "timer" /\ tries' = tries + 1
                /\ tries < MaxReconnectAttempts)
        BY <3>1 DEF BrokerType
      <4>2. tries' \in 0..MaxReconnectAttempts
        BY <4>1 DEF BrokerType
      <4> QED
        BY <3>1, <4>1, <4>2 DEF BrokerType
    <3>2. CASE current \notin conns /\ UNCHANGED <<conns, reconnect, tries, boot>>
      BY <3>2 DEF BrokerType
    <3> QED
      BY <3>1, <3>2
  <2>3. ServerType'
    BY DEF ServerType
  <2>4. CallType'
    BY DEF CallType
  <2>5. HttpInv'
    BY DEF HttpInv, ServerType, CallType
  <2>6. DatabaseInv'
    BY DEF DatabaseInv, CallType
  <2>7. ConnectionInv'
    BY DEF ConnectionInv, BrokerType, CallType
  <2> QED
    BY <2>1, <2>2, <2>3, <2>4, <2>5, <2>6, <2>7
<1>5. CASE CloseDatabase(k)
  <2> USE <1>5 DEF CloseDatabase, Exits
  <2>1. BootType'
    BY DEF BootType
  <2>2. BrokerType'
    BY DEF BrokerType
  <2>3. ServerType'
    BY DEF ServerType
  <2>4. CallType'
    BY DEF CallType
  <2>5. HttpInv'
    BY DEF HttpInv, ServerType, CallType
  <2>6. DatabaseInv'
    BY DEF DatabaseInv, CallType
  <2>7. ConnectionInv'
    BY DEF ConnectionInv, BrokerType, CallType
  <2> QED
    BY <2>1, <2>2, <2>3, <2>4, <2>5, <2>6, <2>7
<1>6. CASE Destroyed(k)
  <2> USE <1>6 DEF Destroyed, Exits
  <2>1. BootType'
    BY DEF BootType
  <2>2. BrokerType'
    BY DEF BrokerType
  <2>3. ServerType'
    BY DEF ServerType
  <2>4. CallType'
    BY DEF CallType
  <2>5. HttpInv'
    BY DEF HttpInv, ServerType, CallType
  <2>6. DatabaseInv'
    BY DEF DatabaseInv, CallType
  <2>7. ConnectionInv'
    BY DEF ConnectionInv, BrokerType, CallType
  <2> QED
    BY <2>1, <2>2, <2>3, <2>4, <2>5, <2>6, <2>7
<1> QED
  BY <1>1, <1>2, <1>3, <1>4, <1>5, <1>6 DEF ShutdownStep

LEMMA ProcessStutters ==
    ASSUME ProcessInv, UNCHANGED lifecycleVars
    PROVE  ProcessInv'
<1> USE DEF ProcessInv, lifecycleVars, brokerVars, httpVars
<1>1. BootType' /\ BrokerType' /\ ServerType' /\ CallType'
  BY DEF BootType, BrokerType, ServerType, CallType
<1>2. HttpInv' /\ DatabaseInv' /\ ConnectionInv'
  BY DEF HttpInv, DatabaseInv, ConnectionInv
<1> QED
  BY <1>1, <1>2

LEMMA ProcessStep ==
    ASSUME ProcessInv, [LifecycleNext]_lifecycleVars
    PROVE  ProcessInv'
<1>1. CASE Start
  BY <1>1, StartKeeps DEF Start
<1>2. CASE \/ Answer \/ RequestComes
           \/ SocketOpens \/ SocketLeaves
  BY <1>2, ServerKeeps DEF Answer
<1>3. CASE \E k \in Calls : Shutdown(k) \/ BeginShutdown(k)
  BY <1>3, ShutdownKeeps DEF Shutdown
<1>4. CASE \/ \E c \in Clients : RedisError(c) \/ RedisReady(c)
           \/ \E c \in conns : ConnectionLost(c)
           \/ ReconnectOpens \/ ReconnectEnds
  BY <1>4, BrokerKeeps
<1>5. CASE UNCHANGED lifecycleVars
  BY <1>5, ProcessStutters
<1> QED
  BY <1>1, <1>2, <1>3, <1>4, <1>5 DEF LifecycleNext

\* The variables of a service keep their types from start() to process.exit.
THEOREM LifecycleTypeCorrect ==
    LifecycleSpec => []LifecycleTypeOK
<1>1. ProcessInv => LifecycleTypeOK
  BY TypeParts DEF ProcessInv
<1> QED
  BY <1>1, ProcessInit, ProcessStep, PTL DEF LifecycleSpec

\* Whatever signals come and whenever the connection is lost, no request runs and
\* no queue is consumed without the database, unless the shutdown began before
\* there was a server or a connection was opened behind the back of disconnect().
THEOREM NothingWithoutDatabaseAlways ==
    LifecycleSpec => []NothingWithoutDatabase
<1>1. ASSUME ProcessInv PROVE NothingWithoutDatabase
  <2> USE <1>1 DEF ProcessInv, NothingWithoutDatabase
  <2>1. CASE database = "open"
    BY <2>1
  <2>2. CASE database = "unopened"
    <3>1. boot = "database"
      BY <2>2 DEF DatabaseInv
    <3>2. requests = 0
      BY <3>1 DEF HttpInv
    <3>3. retried \/ conns = {}
      BY <3>1 DEF ConnectionInv
    <3> QED
      BY <3>2, <3>3
  <2>3. CASE database \in {"closing", "closed"}
    <3>1. PICK k \in Calls : call[k] = "destroying"
      BY <2>3 DEF DatabaseInv
    <3>2. early \/ requests = 0
      BY <3>1 DEF HttpInv
    <3>3. late \/ retried \/ conns = {}
      BY <3>1 DEF ConnectionInv
    <3> QED
      BY <3>2, <3>3
  <2> QED
    BY <2>1, <2>2, <2>3 DEF ServerType
<1> QED
  BY <1>1, ProcessInit, ProcessStep, PTL DEF LifecycleSpec

\* The service has at most one connection to the broker, unless start() lost one
\* and connected again while scheduleReconnect did too.
THEOREM OneConnectionAlways ==
    LifecycleSpec => []OneConnection
<1>1. ASSUME ProcessInv PROVE OneConnection
  <2> SUFFICES ASSUME ~retried PROVE ~(Cardinality(conns) > 1)
    BY DEF OneConnection
  <2>1. conns = {} \/ conns = {current}
    BY <1>1 DEF ProcessInv, ConnectionInv
  <2>2. Cardinality({current}) = 1 /\ Cardinality({}) = 0
    BY FS_Singleton, FS_EmptySet
  <2>3. Cardinality(conns) = 0 \/ Cardinality(conns) = 1
    BY <2>1, <2>2
  <2> QED
    BY <2>3
<1> QED
  BY <1>1, ProcessInit, ProcessStep, PTL DEF LifecycleSpec
===============================================================================
