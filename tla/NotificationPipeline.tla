------------------------- MODULE NotificationPipeline -------------------------
(* The way of a notification: a producer publishes an event to the durable     *)
(* queue NOTIFICATIONS, notification-service consumes it, stores a row, sends  *)
(* a mail and acknowledges.                                                    *)
(*                                                                             *)
(* The consumer sets no prefetch, so RabbitMQ delivers what is ready at once   *)
(* and the handlers of all deliveries interleave at their awaits: the ready    *)
(* events need no order.  A handler keeps the channel of its delivery (deps)   *)
(* and goes on after that channel has closed.                                  *)
EXTENDS Naturals, Sequences

CONSTANTS
    MessageEvents,  \* MESSAGE_RECEIVED, published by chat-service
    WelcomeEvents,  \* USER_REGISTERED, published by user-service
    OtherEvents,    \* of a type that the consumer does not know
    Addressed,      \* events whose payload has a userEmail
    MaxChannels     \* bound on the channels that the consumer opens

Known == MessageEvents \cup WelcomeEvents
Events == Known \cup OtherEvents
Channels == 1..MaxChannels

ASSUME PipelineAssumption ==
    /\ MaxChannels \in Nat
    /\ MessageEvents \cap WelcomeEvents = {}
    /\ Known \cap OtherEvents = {}

VARIABLES
    published,  \* events that reached the broker
    ready,      \* events in the queue, not delivered
    chan,       \* this.channel: the channel opened last, 0 before the first
    live,       \* is it open?
    delivered,  \* by channel, its deliveries; the delivery tag is the index
    unacked,    \* tags of chan that the broker waits for
    task,       \* by channel and event, what the handler awaits
    fate        \* history: what happened to each event

vars == <<published, ready, chan, live, delivered, unacked, task, fate>>

Fates == {"stored", "mail tried", "dropped", "lost by the broker"}

\* The broker waits only for deliveries whose handler is at work.
BeingHandled == \A t \in unacked :
    /\ delivered[chan][t] \in Known
    /\ task[<<chan, delivered[chan][t]>>] \in {"save", "mail"}

TypeOK ==
    /\ published \subseteq Events
    /\ ready \subseteq Events
    /\ chan \in 0..MaxChannels
    /\ live \in BOOLEAN
    /\ live => chan # 0
    /\ delivered \in [Channels -> Seq(Events)]
    /\ unacked \subseteq IF live THEN DOMAIN delivered[chan] ELSE {}
    /\ task \in [Channels \X Known -> {"none", "save", "mail", "done"}]
    /\ BeingHandled
    /\ fate \in [Events -> SUBSET Fates]

Init ==
    /\ published = {} /\ ready = {} /\ unacked = {}
    /\ chan = 0 /\ live = FALSE
    /\ delivered = [c \in Channels |-> <<>>]
    /\ task = [d \in Channels \X Known |-> "none"]
    /\ fate = [e \in Events |-> {}]

-------------------------------------------------------------------------------
(* Producers and broker.                                                       *)

\* publishNotification and notifyReceiver.  A producer whose channel is closed
\* logs that and forgets the event, which is then never published.
Publish(e) ==
    /\ e \notin published
    /\ published' = published \cup {e}
    /\ ready' = ready \cup {e}
    /\ UNCHANGED <<chan, live, delivered, unacked, task, fate>>

\* The events that the broker has delivered and not heard of again.
Waiting == IF live THEN {delivered[chan][t] : t \in unacked} ELSE {}

\* connect: a new connection and channel, and a consumer on it.
Connect ==
    /\ ~live /\ chan < MaxChannels
    /\ chan' = chan + 1
    /\ live' = TRUE
    /\ UNCHANGED <<published, ready, delivered, unacked, task, fate>>

\* notifyReceiver sets persistent: true, publishNotification does not.
Persistent == MessageEvents

\* The channel closes.  The broker puts back what was not acknowledged, and
\* keeps the survivors.
CloseChannel(survivors) ==
    LET queue == ready \cup Waiting
    IN /\ ready' = queue \cap survivors
       /\ fate' = [e \in Events |->
                     fate[e] \cup IF e \in queue \ survivors
                                  THEN {"lost by the broker"} ELSE {}]
       /\ live' = FALSE
       /\ unacked' = {}
       /\ UNCHANGED <<published, chan, delivered>>

\* The connection breaks; handlers in flight go on.
LoseConnection == live /\ CloseChannel(Events) /\ UNCHANGED task

\* The broker restarts with the persistent events, the queue being durable.
RestartBroker == CloseChannel(Persistent) /\ UNCHANGED task

\* notification-service dies with its handlers.
Crash ==
    /\ CloseChannel(Events)
    /\ task' = [d \in Channels \X Known |->
                  IF task[d] = "none" THEN "none" ELSE "done"]

-------------------------------------------------------------------------------
(* The consumer.                                                               *)

\* Seeded fault: an unknown event is not acknowledged.
PendingUnknown(e) == {Len(delivered[chan]) + 1}

\* What the broker waits for after a delivery: the tag of a known event.  An
\* unknown one is acknowledged in the callback.
Pending(e) == IF e \in Known THEN {Len(delivered[chan]) + 1} ELSE {}

\* The callback of consume and handleMessage, up to the first await.
Deliver(e) ==
    /\ live /\ e \in ready
    /\ ready' = ready \ {e}
    /\ delivered' = [delivered EXCEPT ![chan] = Append(@, e)]
    /\ unacked' = unacked \cup Pending(e)
    /\ task' = [d \in Channels \X Known |-> IF d = <<chan, e>> THEN "save" ELSE task[d]]
    /\ UNCHANGED <<published, chan, live, fate>>

TagsOf(c, e) == {t \in DOMAIN delivered[c] : delivered[c][t] = e}

\* Seeded faults: acknowledge on this.channel, which may be a later one; end
\* without ack or nack.
SettledOnThisChannel(c, e) == IF live THEN TagsOf(c, e) ELSE {}
Unsettled(c, e) == {}

\* The tags that an ack, or a nack without requeue, settles.  It goes to the
\* channel of the delivery; if that has closed, amqplib throws, which is caught
\* and logged.
Settled(c, e) == IF live /\ c = chan THEN TagsOf(c, e) ELSE {}

\* The last step of a handler.
Finish(c, e) ==
    /\ task' = [task EXCEPT ![<<c, e>>] = "done"]
    /\ unacked' = unacked \ Settled(c, e)

\* Seeded fault: acknowledge when the row is stored, mail or not.
AckedWithoutMail(e) == FALSE

\* Is there a mail to send before the acknowledgement?  Nobody calls
\* setUserOnline, so the branch that sends a push is never taken.
MailsFirst(e) == e \in Addressed

\* repo.save resolves; without an address the acknowledgement follows at once.
SaveRow(c, e) ==
    /\ task[c, e] = "save"
    /\ fate' = [fate EXCEPT ![e] = @ \cup {"stored"}]
    /\ \/ /\ MailsFirst(e)
          /\ task' = [task EXCEPT ![<<c, e>>] = "mail"]
          /\ UNCHANGED unacked
       \/ ~MailsFirst(e) /\ Finish(c, e)
    /\ UNCHANGED <<published, ready, chan, live, delivered>>

\* repo.save rejects: logged, and the event is dropped if the nack arrives.
SaveFails(c, e) ==
    /\ task[c, e] = "save"
    /\ Finish(c, e)
    /\ fate' = [fate EXCEPT ![e] = @ \cup IF live /\ c = chan THEN {"dropped"} ELSE {}]
    /\ UNCHANGED <<published, ready, chan, live, delivered>>

\* sendEmail ends.  If it fails, a welcome is acknowledged and a message is
\* dropped although its row is stored: to the broker it is the same.
Mail(c, e) ==
    /\ task[c, e] = "mail"
    /\ Finish(c, e)
    /\ fate' = [fate EXCEPT ![e] = @ \cup {"mail tried"}]
    /\ UNCHANGED <<published, ready, chan, live, delivered>>

Handle(c, e) == SaveRow(c, e) \/ SaveFails(c, e) \/ Mail(c, e)

-------------------------------------------------------------------------------
Next ==
    \/ Connect \/ LoseConnection \/ RestartBroker \/ Crash
    \/ \E e \in Events : Publish(e) \/ Deliver(e)
    \/ \E c \in Channels, e \in Known : Handle(c, e)

\* RabbitMQ delivers what is ready; Postgres and the mail server answer, with
\* an error if need be.  Nothing brings a lost connection back for sure.
Fairness ==
    /\ \A e \in Events : WF_vars(Deliver(e))
    /\ \A c \in Channels, e \in Known : WF_vars(Handle(c, e))

Spec == Init /\ [][Next]_vars /\ Fairness

-------------------------------------------------------------------------------
(* Properties.                                                                 *)

\* The broker has done with an event.
Gone(e) == e \in published /\ e \notin ready \cup Waiting

\* At least once: whatever closes when, the broker is done with a known event
\* only when its row is stored, when storing it failed, or by a restart.
GoneWasStored == \A e \in Known : Gone(e) =>
    fate[e] \cap {"stored", "dropped", "lost by the broker"} # {}

\* The same for the mail: an event with an address leaves the queue only when a
\* mail for it was tried.
GoneWasMailed == \A e \in Known \cap Addressed : Gone(e) =>
    fate[e] \cap {"mail tried", "dropped", "lost by the broker"} # {}

\* Each published event is settled if the connection stays up at last,
\* whatever fails in the handlers.
QueuedIsSettled == \A e \in Events : <>[]live => (e \in published ~> Gone(e))
===============================================================================
