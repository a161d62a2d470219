-------------------------- MODULE MessageDelivery --------------------------
(***************************************************************************)
(* The messages of one sender to one receiver in chat-service: how they    *)
(* are stored and passed on (sendMessage over Socket.IO and REST), and     *)
(* how their status follows what the receiver does (messageDelivered,      *)
(* markRead).                                                              *)
(*                                                                         *)
(* Each handler is a process with one action between two awaits: database  *)
(* round trips, the presence lookup and the user-details RPC.  The         *)
(* receiver's client is external: it reports any message it has got.       *)
(***************************************************************************)
EXTENDS Naturals, FiniteSets

CONSTANTS
    Messages,
    Calls  \* messageDelivered events

VARIABLES
    room,      \* a socket of the receiver is in the receiver's room
    listed,    \* the presence store has the receiver online
    status,    \* column of each message; "absent" before it is saved
    spc,       \* where the send of each message stands
    via,       \* how it was sent: "ws" or "rest"
    steady,    \* sends since whose presence check the receiver has not come or
               \* gone (history)
    misjudged, \* of these, the sends whose check said the opposite of what the room
               \* is (history)
    emitted,   \* messages emitted to a connected receiver
    notified,  \* messages for which a notification was published
    unpublished, \* messages whose notification could not be published
    known,     \* messages the receiver's client has got
    dpc, msg, base,  \* each messageDelivered call, its message, what save() re-read
    told,      \* messages whose delivery the sender was told of
    read,      \* messages marked as read at some time (history)
    overlapped \* messages read while one of their calls was under way (history)

receiver == <<room, listed>>
judged == <<steady, misjudged>>
send == <<spc, via, judged, emitted, notified, unpublished>>
calls == <<dpc, msg, base, told>>
vars == <<receiver, status, send, known, calls, read, overlapped>>

Status == {"absent", "NotDelivered", "Delivered", "Seen"}
-----------------------------------------------------------------------------
(* The receiver's sockets                                                  *)

ComeOrGo(in) ==
    /\ room' = in
    /\ steady' = {} /\ misjudged' = {}
    /\ UNCHANGED <<listed, status, spc, via, emitted, notified, unpublished, known,
                   calls, read, overlapped>>

\* registerPresence, of the first socket: socket.join, before it awaits the store.
Join == ~room /\ ComeOrGo(TRUE)

\* The last socket closes; Socket.IO takes it out of the room.
Leave == room /\ ComeOrGo(FALSE)

\* connect and disconnect of the store reach their last command.  They are round
\* trips of any socket of the receiver, which fail or end late, so the store may
\* be wrong about the room at any time (RedisPresence has them in detail).
StoreFollows(online) ==
    /\ listed # online
    /\ listed' = online
    /\ UNCHANGED <<room, status, send, known, calls, read, overlapped>>

ConnectEnds == StoreFollows(TRUE)

DisconnectEnds == StoreFollows(FALSE)

\* fetchConversation: the client loads what is stored.
Fetch ==
    /\ known' = {m \in Messages : status[m] # "absent"}
    /\ UNCHANGED <<receiver, status, send, calls, read, overlapped>>
-----------------------------------------------------------------------------
(* sendMessage                                                             *)

Goto(m, pc) == spc' = [spc EXCEPT ![m] = pc]

\* The envelope is valid and the receiver is somebody else: save() it.
BeginSend(m, how) ==
    /\ spc[m] = "idle"
    /\ Goto(m, "save")
    /\ via' = [via EXCEPT ![m] = how]
    /\ UNCHANGED <<receiver, status, judged, emitted, notified, unpublished, known,
                   calls, read, overlapped>>

HandleSendMessage(m) == BeginSend(m, "ws")

SendMessage(m) == BeginSend(m, "rest")

Save(m) ==
    /\ spc[m] = "save"
    /\ Goto(m, "check")
    /\ status' = [status EXCEPT ![m] = "NotDelivered"]
    /\ UNCHANGED <<receiver, via, judged, emitted, notified, unpublished, known, calls,
                   read, overlapped>>

\* Seeded fault: the error of save() is swallowed and the send goes on.
SaveFailsUnnoticed(m) ==
    /\ spc[m] = "save"
    /\ Goto(m, "check")
    /\ UNCHANGED <<receiver, status, via, judged, emitted, notified, unpublished, known,
                   calls, read, overlapped>>

\* save() fails: the sender gets an error.
SaveFails(m) ==
    /\ spc[m] = "save"
    /\ Goto(m, "failed")
    /\ UNCHANGED <<receiver, status, via, judged, emitted, notified, unpublished, known,
                   calls, read, overlapped>>

\* After handleMessageReceived: Socket.IO emits, REST answers at once.
AfterNotifying(m) == IF via[m] = "ws" THEN "emit" ELSE "ok"

\* Seeded fault: notify a receiver who is online and skip one who is not.
SkipsNotificationInverted(online) == ~online

\* handleMessageReceived: no notification for a receiver who is online.
SkipsNotification(online) == online

\* isOnline: what the store says, or false if Redis fails.
CheckPresence(m) ==
    /\ spc[m] = "check"
    /\ \E online \in {listed, FALSE} :
          /\ Goto(m, IF SkipsNotification(online) THEN AfterNotifying(m) ELSE "lookup")
          /\ misjudged' = IF online = room THEN misjudged ELSE misjudged \cup {m}
    /\ steady' = steady \cup {m}
    /\ UNCHANGED <<receiver, status, via, emitted, notified, unpublished, known, calls,
                   read, overlapped>>

\* getUserDetails: user-service answers.
LookupReplies(m) ==
    /\ spc[m] = "lookup"
    /\ Goto(m, "notify")
    /\ UNCHANGED <<receiver, status, via, judged, emitted, notified, unpublished, known,
                   calls, read, overlapped>>

\* Seeded fault: the timer forgets the call without calling back.
LookupForgotten(m) ==
    /\ spc[m] = "lookup"
    /\ UNCHANGED vars

\* getUserDetails: no answer in 5 s, the timer calls back with null.
LookupTimesOut(m) ==
    /\ spc[m] = "lookup"
    /\ Goto(m, "notify")
    /\ UNCHANGED <<receiver, status, via, judged, emitted, notified, unpublished, known,
                   calls, read, overlapped>>

\* notifyReceiver; an error of the channel is logged and swallowed.
Notify(m) ==
    /\ spc[m] = "notify"
    /\ Goto(m, AfterNotifying(m))
    /\ \/ /\ notified' = notified \cup {m}
          /\ UNCHANGED unpublished
       \/ /\ unpublished' = unpublished \cup {m}
          /\ UNCHANGED notified
    /\ UNCHANGED <<receiver, status, via, judged, emitted, known, calls, read,
                   overlapped>>

\* io.to(receiverId).emit('receiveMessage') reaches whoever is in the room.
Reach(m) ==
    /\ emitted' = IF room THEN emitted \cup {m} ELSE emitted
    /\ known' = IF room THEN known \cup {m} ELSE known

\* handleSendMessage, after the message was saved: emit and acknowledge.
EmitMessage(m) ==
    /\ spc[m] = "emit"
    /\ Goto(m, "ok")
    /\ Reach(m)
    /\ UNCHANGED <<receiver, status, via, judged, notified, unpublished, calls, read,
                   overlapped>>

\* sendMessage with the _id of a stored message: emit again, notify nobody.
Resend(m) ==
    /\ status[m] # "absent"
    /\ Reach(m)
    /\ UNCHANGED <<receiver, status, spc, via, judged, notified, unpublished, calls,
                   read, overlapped>>
-----------------------------------------------------------------------------
(* messageDelivered and markRead                                           *)

\* Seeded fault: no test of the status before it is set.
NeedsSaveAlways(m) == TRUE

\* existing.status === NotDelivered
NeedsSave(m) == status[m] = "NotDelivered"

\* findOne; the receiver is the message's.
FindDelivered(c, m) ==
    /\ dpc[c] = "idle"
    /\ m \in known
    /\ msg' = [msg EXCEPT ![c] = m]
    /\ dpc' = [dpc EXCEPT ![c] = IF NeedsSave(m) THEN "save" ELSE "emit"]
    /\ UNCHANGED <<receiver, status, send, known, base, told, read, overlapped>>

\* save() re-reads the row to find out what has changed.
ReselectDelivered(c) ==
    /\ dpc[c] = "save"
    /\ base' = [base EXCEPT ![c] = status[msg[c]]]
    /\ dpc' = [dpc EXCEPT ![c] = "update"]
    /\ UNCHANGED <<receiver, status, send, known, msg, told, read, overlapped>>

\* UPDATE of the status, if it differs from what save() re-read.
UpdateDelivered(c) ==
    /\ dpc[c] = "update"
    /\ status' = IF base[c] # "Delivered"
                 THEN [status EXCEPT ![msg[c]] = "Delivered"] ELSE status
    /\ dpc' = [dpc EXCEPT ![c] = "emit"]
    /\ UNCHANGED <<receiver, send, known, msg, base, told, read, overlapped>>

\* Seeded fault: the receipt goes out while save() is still under way.
EmittableEarly(c) == dpc[c] \in {"save", "update", "emit"}

Emittable(c) == dpc[c] = "emit"

\* io.to(senderId).emit('messageDelivered')
EmitDelivered(c) ==
    /\ Emittable(c)
    /\ told' = told \cup {msg[c]}
    /\ dpc' = [dpc EXCEPT ![c] = "done"]
    /\ UNCHANGED <<receiver, status, send, known, msg, base, read, overlapped>>

\* A query fails: the error is logged, nobody is told.
DeliveredFails(c) ==
    /\ dpc[c] \in {"save", "update"}
    /\ dpc' = [dpc EXCEPT ![c] = "done"]
    /\ UNCHANGED <<receiver, status, send, known, msg, base, told, read, overlapped>>

InFlight(m) == \E c \in Calls : dpc[c] \in {"save", "update"} /\ msg[c] = m

\* handleMarkRead and markAsRead: one UPDATE of all messages not Seen yet.
MarkRead ==
    LET saved == {m \in Messages : status[m] # "absent"}
    IN /\ saved # {}
       /\ status' = [m \in Messages |-> IF m \in saved THEN "Seen" ELSE status[m]]
       /\ read' = read \cup saved
       /\ overlapped' = overlapped \cup {m \in saved : InFlight(m)}
       /\ UNCHANGED <<receiver, send, known, calls>>
-----------------------------------------------------------------------------
Init ==
    /\ room = FALSE /\ listed = FALSE
    /\ status = [m \in Messages |-> "absent"]
    /\ spc = [m \in Messages |-> "idle"]
    /\ via = [m \in Messages |-> "ws"]
    /\ steady = {} /\ misjudged = {}
    /\ emitted = {}
    /\ notified = {}
    /\ unpublished = {}
    /\ known = {}
    /\ dpc = [c \in Calls |-> "idle"]
    /\ msg \in [Calls -> Messages]
    /\ base = [c \in Calls |-> "absent"]
    /\ told = {}
    /\ read = {}
    /\ overlapped = {}

\* What a send does next by itself; LookupReplies depends on user-service.
SendStep(m) ==
    \/ Save(m)
    \/ SaveFails(m)
    \/ CheckPresence(m)
    \/ LookupTimesOut(m)
    \/ Notify(m)
    \/ EmitMessage(m)

Next ==
    \/ Join \/ Leave
    \/ ConnectEnds \/ DisconnectEnds
    \/ Fetch
    \/ \E m \in Messages :
          \/ HandleSendMessage(m) \/ SendMessage(m)
          \/ SendStep(m)
          \/ LookupReplies(m)
          \/ Resend(m)
    \/ \E c \in Calls :
          \/ \E m \in Messages : FindDelivered(c, m)
          \/ ReselectDelivered(c)
          \/ UpdateDelivered(c)
          \/ EmitDelivered(c)
          \/ DeliveredFails(c)
    \/ MarkRead

\* A send that has begun goes on: Postgres and Redis answer or fail, the
\* lookup's timer fires.  Nothing is assumed of user-service or the clients.
Spec == Init /\ [][Next]_vars /\ \A m \in Messages : WF_vars(SendStep(m))
-----------------------------------------------------------------------------
TypeOK ==
    /\ room \in BOOLEAN /\ listed \in BOOLEAN
    /\ status \in [Messages -> Status]
    /\ spc \in [Messages -> {"idle", "save", "check", "lookup", "notify", "emit", "ok", "failed"}]
    /\ via \in [Messages -> {"ws", "rest"}]
    /\ dpc \in [Calls -> {"idle", "save", "update", "emit", "done"}]
    /\ msg \in [Calls -> Messages]
    /\ base \in [Calls -> Status]
    /\ {steady, misjudged, emitted, notified, unpublished, known, told, read, overlapped}
          \subseteq SUBSET Messages
    /\ \A m \in Messages :
          status[m] = "absent" <=> spc[m] \in {"idle", "save", "failed"}
    /\ \A m \in known \cup told \cup read : status[m] # "absent"

\* A sender is told that a message was delivered only when its stored status
\* says so, and from then on it never says otherwise: whatever overlaps, no
\* save takes a message back to NotDelivered.
ReceiptsHonest == \A m \in told : status[m] \in {"Delivered", "Seen"}

\* A message that was read stays Seen unless one of its messageDelivered
\* calls was under way when it was read.
ReadUndoneOnlyByOverlap ==
    \A m \in read \ overlapped : status[m] = "Seen"

\* The receiver neither comes nor goes from the presence check to the answer.  If
\* it has a socket, it has got an acknowledged WebSocket message over it, whatever
\* the store says, and is notified as well just when isOnline took it for away: it
\* failed, or connect had not ended.  If it has none, it is notified (unless the
\* broker refused) and gets neither just when isOnline took it for connected.
OneChannel ==
    \A m \in steady :
       spc[m] = "ok" =>
          IF room
          THEN /\ via[m] = "ws" => m \in emitted
               /\ m \in notified \cup unpublished <=> m \in misjudged
          ELSE m \in notified \cup unpublished <=> m \notin misjudged

\* Every send is answered, whether or not user-service ever replies.
SendsAnswered ==
    \A m \in Messages : spc[m] = "save" ~> spc[m] \in {"ok", "failed"}
-----------------------------------------------------------------------------
(* The inductive invariant behind ReceiptsHonest and                       *)
(* ReadUndoneOnlyByOverlap.                                                *)

Reported(m) == status[m] \in {"Delivered", "Seen"}

\* A call that is about to save its message found it unread: if it has been
\* read by now, the read overlapped the call.
CallInv ==
    \A c \in Calls :
       /\ dpc[c] \in {"save", "update"} /\ msg[c] \in read => msg[c] \in overlapped
       /\ dpc[c] = "update" /\ base[c] = "Delivered" => Reported(msg[c])
       /\ dpc[c] \in {"save", "update"} => status[msg[c]] # "absent"
       /\ dpc[c] = "emit" => Reported(msg[c])

IInv ==
    /\ TypeOK
    /\ CallInv
    /\ \A m \in read : Reported(m)
    /\ ReceiptsHonest
    /\ ReadUndoneOnlyByOverlap
=============================================================================
