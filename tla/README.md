# Formal model of chat-microservices

TLA+ specifications of the parts of chat-microservices whose correctness depends
on the order in which things happen, the TLC configurations that check them on
small instances, and TLAPS proofs of what matters most for instances of any size.
File and line numbers refer to the repository, in `src/`.

## The system

| Component | State | Operations | Talks to |
|---|---|---|---|
| **user-service: prekey store** (`PrekeyController.ts`, `prekeyConsumption.ts`) | table `prekeys`: one JSON bundle per row, time of the last backup | `getPrekeyBundle`, `publishPrekey`, `storeSignalKeys`, `getSignalKeys` | Postgres |
| **user-service: accounts** (`AuthController.ts`, `auth.ts`) | table `users`; tokens that are out | register, login, logout, search, `getUserById` | Postgres, queue `NOTIFICATIONS` |
| **user-service: lookups** (`RabbitMQService.ts`) | channel, reconnect counter | answer `USER_DETAILS_REQUEST`, publish | RabbitMQ |
| **chat-service: presence** (`PresenceStore.ts`, `socketHandler.ts`) | sockets of each user, in memory or in Redis | connect, disconnect, isOnline, getOnlineUserIds | Socket.IO clients, Redis |
| **chat-service: messages** (`socketHandler.ts`, `MessageController.ts`, `messageHandler.ts`) | table `messages` with a status, an LRU cache of user names (`userDetailCache`) | send (Socket.IO and REST), fetch, `messageDelivered`, `markRead` | Postgres, presence, lookups, `NOTIFICATIONS` |
| **chat-service: typing** (`socketHandler.ts`) | one timer per user | typing, send, disconnect, timeout | Socket.IO clients |
| **chat-service: lookups** (`RabbitMQService.ts`) | calls waiting for an answer, each with a 5 s timer | ask, answer, time out, reconnect | RabbitMQ |
| **notification-service: pipeline** (`RabbitMQService.ts`, `handlers/`) | table `notifications`, unacknowledged deliveries | store, mail or push, ack, nack, reconnect | RabbitMQ, Postgres, mail |
| **notification-service: inbox** (`NotificationController.ts`) | table `notifications` | list, count, read, read all, delete, create | Postgres |
| **start and shutdown** (`server.ts` of each service, `RedisService.ts`) | how far `start()` and each `gracefulShutdown` are, connections, HTTP server, database | start, signals, reconnect, exit | Postgres, Redis, RabbitMQ |
| nginx, deployment, CI, migrations, logging, metrics, health, OpenAPI, e-mail templates | - | - | - |

A client logs in at user-service, opens a socket to a node of chat-service and
publishes prekeys.  Whoever writes to it fetches one prekey bundle, encrypts, and
sends over Socket.IO or REST; chat-service stores the message, asks presence
whether the receiver is online and, if not, looks up its address at user-service
over RabbitMQ and queues a notification, which notification-service stores and
mails.  The receiver's client confirms delivery and reading, and the status of
the message follows.

What makes this hard is that every handler is an `async` function.  At each
`await` other handlers run, on this node and on others, against the same rows and
keys; only one handler in the whole repository takes a lock (`getPrekeyBundle`).
There are two databases' worth of shared state (Postgres and Redis), state kept
in memory that a crash loses, one RPC with a timeout, and an at-least-once queue.

What makes each component correct:

- *Prekey store*: a one-time prekey goes to one initiator; none is lost; nobody is
  told the pool is empty when it is not; uploads and backups keep each other's data.
- *Presence*: a change between no socket and some socket is announced once, in
  order; clients end up with the truth; nobody stays online without a socket.
- *Messages*: a status never claims too much and never goes back; an acknowledged
  message went somewhere; every send is answered.
- *Lookups*: each question is answered exactly once, by an answer or its timer.
- *Typing*: an indicator that was switched on is switched off.
- *Pipeline and inbox*: a queued notification is stored at least once and
  acknowledged once; deleting and reading do not undo one another; turning pages
  shows what is there.
- *Start and shutdown*: start comes to an end whatever is down; a shutdown ends,
  and nothing works on without a database; a service has one connection.
- *Accounts*: a user name, wherever it is carried or cached, stands for one
  account; who registers is welcomed.

## Modules

| Module | Models | Checked by |
|---|---|---|
| `PrekeyStore` | the `prekeys` table of one owner with its requests | `prekeys`, `prekeys_twice` |
| `Presence` | abstract: users change, each change is announced | `local` (as `AnnouncesOnce`) |
| `LocalPresence` | one node with `LocalPresenceStore` | `local` |
| `RedisPresence` | the writes of `RedisPresenceStore` on several nodes | `redis` |
| `MessageDelivery` | the messages from one sender to one receiver | `delivery` |
| `TypingIndicator` | typing timers of several nodes and what receivers see | `typing` |
| `NotificationPipeline` | the queue `NOTIFICATIONS`, its producers and its consumer | `notifications` |
| `BrokerConnection` | the RabbitMQ connection of each service and its reconnecting | through `UserLookup` |
| `UserLookup` | chat-service's lookups at user-service, on `BrokerConnection` | `lookup` |
| `NotificationInbox` | the rows of `notifications` under the requests of their owners | `inbox` |
| `ServiceLifecycle` | one process of any service, from `start()` to `process.exit` | `lifecycle`, `start_hangs` |
| `Accounts` | accounts, tokens, and the names in conversation lists | `accounts` |
| `*_proofs` | theorems about the module of that name | `tlapm` |
| `MC*` | constants for TLC: model values, owners | the cfg files |

Operators marked "Seeded fault" are wrong on purpose: a property must fail when
one of them takes the place of the definition below it.  The specifications do
not use them.

### PrekeyStore

One action per database round trip.  `getPrekeyBundle` is `BeginGetBundle` (the
transaction starts and the SELECT takes its snapshot: `seen` rows), `LockRows`
(FOR UPDATE has got the locks of these rows and read their newest versions, and
the code has chosen a row), then `NotFound` or `Exhausted`, which commit and answer, or
`TakeKey`, `Commit` and `AnswerBundle`: the pool is saved without one prekey, the
COMMIT makes that visible and frees the locks, and the initiator gets its prekey.
`Rollback` may end the call at any point before the COMMIT, which then changes nothing;
after it only the answer can fail (`LoseAnswer`: an error as the reply to a COMMIT that
was done, or a process or client that is gone), and the prekey is used up although
nobody has it.  `publishPrekey` and
`storeSignalKeys` are `FindToPublish` or `FindToBackup` (findOne and merge, or
`RefuseBackup` for 429) and TypeORM's `save()`: an INSERT for a new entity, else
a SELECT without a lock (`Reselect`) and an UPDATE of the columns that differ
(`Update`), which waits for row locks.  Either may fail before its write is committed
(`WriterFails`); a write that was committed ends as "done" whether or not its client
hears of it, since nothing later in the request depends on that.

A pool is a set of prekeys: the code takes the first, but nothing tells the
order apart.  A bundle has a flag "has preKeys", its pool, and its backup,
which is named by the request that brought it: a `storeSignalKeys`, or one of the
`publishPrekey` requests in `Carriers`, whose own `_encryptedKeyBundle` the spread lets
replace the stored one.  A client uploads prekeys it has not uploaded before (Signal
clients generate fresh ones; the server does not enforce it).  `createdAt` order is row order.  A time stamp is null, younger or older
than 24 hours; `DayPasses` requires that no write is in flight, since no request
takes a day.  `ver`, `restored` and `uploaded` are history or input bounds that no
action of the code reads.  The owner starts without rows, or with a device backed
up today whose prekeys are used up (`UsedUp`), so that a backup can be refused.

### LocalPresence and Presence

A handler runs to its first `await` at once, and its rest is a continuation in
the microtask queue; `pending` holds these in order, without those that emit
nothing.  `Connect` is `registerSocketHandlers` up to there: the store's
`connect`, then `getOnlineUserIds`; `Disconnect` is `handleDisconnect`.
`RunContinuation` does what the first continuation emits: a `presence` broadcast
to all connected sockets or a `presenceBulk` to one.  `view` is what each client
has been told.  `Restart` is the death of the process.  A socket's first
continuation could be overtaken only by microtasks queued earlier; letting other
sockets connect in between is more than Node allows from one poll phase and
costs nothing.

`LocalPresence` implements `Presence` under the mapping in `Abstract`: the online
users are those with an entry in the store, and a user's lag is its number of
queued broadcasts.  TLC checks the refinement, with its liveness, as
`AnnouncesOnce`.

### RedisPresence

A node's ioredis client is a queue of commands and a queue of replies.
`Connect` and `Disconnect` send the first command; `HandleReply` sends the next,
as the code after each `await` does.  `Execute` is Redis.  `Fail` breaks the
connection for longer than ioredis retries: the command has been executed or
not, and its promise rejects.  `Crash` kills a node; a prefix of what it had sent
still arrives.  `Expire` is the end of the 3600 s TTL.  The sum of these faults is
bounded by `MaxFaults`.  SADD and EXPIRE of a connect travel in one pipeline and
are one command.  Two history variables say whom the properties cannot speak of:
`blamed`, the users of a node that died or whose disconnect failed, and `crossed`,
those that came or went while a call of theirs was under way (`Busy`, `Begins`).

### MessageDelivery

Sends over both transports share their steps: `Save`, `CheckPresence`, the lookup
that ends by an answer or by the timer, `Notify`, and for Socket.IO
`EmitMessage`.  `Resend` is the idempotent path with an `_id`.  `messageDelivered`
is `FindDelivered`, the two steps of `save()` and `EmitDelivered`; `MarkRead` is the
single UPDATE of `markRead` and of the REST endpoint.  The receiver comes and goes
at any time, in two places: its room (`Join`, `Leave`) is what `emit` reaches, and the
presence store (`ConnectEnds`, `DisconnectEnds`) is what `isOnline` is asked, which
answers "offline" also when Redis fails.  The store follows the room by round trips
that end late or fail, so it may be wrong at any time; RedisPresence says when it
is.  `emit` to the room is taken to reach the receiver at once.  Requests that
validation refuses change nothing and are left out.  `steady`, `misjudged`, `read` and
`overlapped` are history.

### NotificationPipeline

The broker's side is a queue (`ready`), the deliveries of each channel with their
tags, and the tags it waits for.  `Publish` is `notifyReceiver` or
`publishNotification`; an event that a producer could not send is one that is never
published.  `Deliver` is the callback of `consume` with `handleMessage` up to its
first `await`; `SaveRow`, `SaveFails` and `Mail` are what follows each `await` of the
two handlers, the acknowledgement included.  A handler keeps the channel of its
delivery and goes on when that has closed (`LoseConnection`, `RestartBroker`), but
not when its process died (`Crash`).  There is no prefetch, so the handlers of all
deliveries interleave and the queue's order does not matter.  A user's
online flag is never set by this service, so the push branch does not occur.
`fate` is history.

### BrokerConnection and UserLookup

The three services have the same `connect` and `scheduleReconnect`.
`BrokerConnection` has what each knows of its connection (`link`): the number of
its channel, whether it is open, `isReconnecting`, `reconnectAttempts`, the timers
that will call `connect`, and whether `connect` awaits its `assertQueue`s.
`ScheduleReconnect` is the function of that name; `ReconnectOpens`,
`ReconnectFails` and `ReconnectEnds` are the steps of the timer's callback.

`UserLookup` adds the two queues.  `Ask` is `getUserDetails` (with what becomes of
the exception on a closed channel), `Timeout` its timer, `Receive` the response
consumer of any node.  `Deliver`, `Answer` and `AnswerFails` are `listenForRequests`,
which answers and acknowledges on `this.channel`, whichever that is by then.
`LoseConnection`, `Exit` and `Recover` close and reopen connections and end and
restart processes.  `RestartBroker` closes all connections and empties both queues, for
neither requests nor answers are published as persistent.  `MessageDelivery` uses of all
this only that a lookup ends, which is `CallsSettle` here.  `sent`, `replied`, `lost`
(requests lost in a restart) and `mistaken` (requests acknowledged by a handler whose
delivery was on an earlier channel) are history.

### TypingIndicator

`timer` is `typingTimeouts` of each node: at most one receiver per typist.
`StartTyping` and `StopTyping` are `handleTyping`, `SendMessage` what
`handleSendMessage` does once the message is stored, `DisconnectTypist` the part of
`handleDisconnect` about typing, `Timeout` the callback of the timer, `RestartNode` the
end of a node's process.  Rebuilding
the map every five minutes changes nothing.  `wire` holds what a node has
emitted: the Redis adapter keeps each node's events in order, and nothing orders
those of two nodes.  `shown` is the last thing each receiver was told, over all
of its sockets; a client that reconnects starts without indicators, which is not
in this repository and left out.  `abandoned` and `crossed` are history.

### NotificationInbox

The queries of one handler are actions of their own.  `FindToMark` and
`FindToDelete` are the `findOne` of `markAsRead` and `deleteNotification`;
`SelectAgain` is the SELECT with which TypeORM's `save()` decides between
`UpdateRead`, `InsertAgain` (the row is gone, so `save()` inserts the entity
with its id) and nothing; `Remove` is the DELETE.  `MarkAllAsRead` is one UPDATE.
Rows come from `CreateNotification`, with its validation, and from `Arrive`, the
end of `NotificationPipeline`, which settles only events and need not know of
this table.  `createdAt` is a small number that rows may share, since nothing
makes it unique.  `reader` is a client that asks for page after page with one
limit until a page is not full; such a client is assumed, the server only has
`limit` and `offset`.

### ServiceLifecycle

One process of a service chosen at the start.  `boot` is how far `start()` is:
`ConnectDB`; for chat-service with a REDIS_URL the three clients of `waitReady`
(`RedisError`, `RedisReady`, `RedisTimeout`, `RedisUp`); the connect loop
(`BootConnects`, `BootAsserted`, `BackoffEnds`); and for chat-service `Listen` at
the end, while the others listen before the loop.  `conns` are the open
connections to RabbitMQ and `current` is `this.connection`: `connect` replaces it
without closing the old one.  A connection that closes, by `ConnectionLost` or by
`Disconnect` of the service itself, runs the close handler (`Closes`, `Schedule`).
Each signal or uncaught error is a call of `gracefulShutdown` of its own, and each
call goes through `BeginShutdown`, `HttpClosed`, `CloseStores`, `Disconnect`,
`CloseDatabase`, `Destroyed`, while `start()` goes on if it has not ended.  A
second `destroy()` while the first runs rejects, which makes the process exit with
1.  The queues are taken to exist as they are declared.  `early`, `late` and
`retried` are history.

### Accounts

`Register` is `registration` up to its hash, `Insert` and `InsertFails` are
`save()`, whose answer may be lost although it committed, and
`FinishRegistration` is what follows without a further wait: the cookie and the
welcome event.  A token names its account's id, name and address; `valid` are the
tokens that have not expired.  `ConnectSocket` keeps the token's identity for as
long as the socket is open.  `GetConversations` is the batch of
`fetchUserDetailsBatch`; each of its lookups ends in `FetchName`
(`getUserById` answered, and the cache has an entry) or `FetchFails` (any refusal:
shown as "Unknown User", not cached).  `Evict` is the TTL or the limit of the
cache.  Accounts are never changed or deleted by the code.

## What the runs check

The type invariants hold more than types where the code could break it: a stored message
has left `save` (`MessageDelivery`); only sockets that are gone are taken out of Redis
(`OnlyGone`); the broker waits only for deliveries whose handler is at work
(`BeingHandled`, `BeingFound`); and a node whose timer runs has not told the receiver
since that the typist stopped (`TimerInv`).

Bounds are in each cfg; all runs together take about ten minutes.

| Run | Instance | Distinct states | Result |
|---|---|---|---|
| `prekeys` | 1 prekey, 2 initiators, 2 publishes, one with a backup, 1 backup | 473,072 | holds |
| `prekeys_twice` | 2 prekeys, 2 initiators, 1 publish, 1 backup | - | violated |
| `local` | 2 users with 2 sockets each | 164,883 | holds |
| `redis` | 1 user, 2 sockets on one node and 1 on another, 1 fault | 2,251,466 | holds |
| `delivery` | 1 message, 3 receipts | 1,226,918 | holds |
| `typing` | 1 typist on 2 nodes, 2 receivers, 4 client events | 39,942 | holds |
| `notifications` | a message, a welcome, an unknown event, 2 channels | 41,287 | holds |
| `lookup` | 2 nodes with a call each, user-service with 2 channels | 604,300 | holds |
| `inbox` | 2 users, 3 rows, 2 requests at a time, pages of 1 | 573,332 | holds |
| `lifecycle` | any service, 2 attempts, 3 connections, 1 request, 1 WebSocket, 2 signals | 618,614 | holds |
| `start_hangs` | the same without requests and WebSockets, 1 connection | - | violated |
| `accounts` | 2 clients, 2 accounts, 2 addresses, 3 spellings of 2 names | 784,137 | holds |

**Prekeys.**  `HandedOnceUnlessRestored`: the row locks do their work; two
initiators share a prekey only if a save from a stale copy put it back.
`PoolChangesExplained`: a stored pool changes only by the COMMIT of a hand-out, which
takes exactly its prekey; by a publish from a current copy, which replaces the pool by
other prekeys; or by a save from a stale copy.  It does not say that prekeys are safe
from backups: a backup or publish that read the row before another write may
destroy newer prekeys or bring old ones back, and that is the third case.  What it
excludes is every other loss: by a call that fails or rolls back, by the wrong row, or
by a backup from a current copy.  `EmptyHandedOnlyWhenEmpty`: "exhausted" and 404 are
true of all rows the caller locked.  `CurrentSaveLosesNothing`: the merges keep the
other writer's data as long as the copy is current and the upload has none of its own.
`GetBundleEnds`: every transaction ends.  Two initiators and one prekey are the smallest instance in which a prekey can be handed
out twice; three writers let a stale save meet both kinds of current one.
Prekeys do not mix, each being in a pool or not by itself; the violation below has two.
Locks are taken in one statement in one order, so waiting involves one holder and two
initiators show it.

**Presence on a node.**  `ViewsAgree`: when nothing is queued, each client's list
is exact.  `AnnouncesOnce`: each change of a user is announced once, in order, and in
the end.  Two sockets per user are needed for "first" and "last" to differ from "any".

**Presence over Redis.**  `OnlineIsRight` is two statements.  `NoStuckOnline`: a user
of one node does not stay in `ps:online` without a socket, unless the node died or its
disconnect failed.  `NoLostOnline`: as long as nothing fails, a user with a socket is in
`ps:online`, on any number of nodes, unless two of its calls overlapped: SADD and SCARD
are two round trips (`PresenceStore.ts:126`), and two sockets that connect at once can
both count 2.
`NoGhostSockets`: on any number of nodes, `ps:sockets` names no dead socket under
the same condition.  Users share no key but `ps:online`, in which each owns its
member, so one user suffices; three sockets put two connects and a disconnect, or
two nodes, at odds.

**Delivery.**  `ReceiptsHonest`: a receipt the sender saw is true and stays true.
`ReadUndoneOnlyByOverlap`: only an overlapping receipt can take "Seen" back.
`OneChannel`: with a receiver that stays in its room or out of it, a connected one
got an acknowledged Socket.IO message by `emit`, and is notified too just when
`isOnline` took it for away (Redis failed, or `connect` had not ended); one that is away
is notified unless `isOnline` took it for connected (`disconnect` had not ended, or
failed), and then gets neither.  `SendsAnswered`: each send ends,
whatever user-service does.  Every action treats each message by itself, so one
message shows what several would; three receipts let two overlap a read and each
other.

**Notifications.**  `GoneWasStored`, `GoneWasMailed`: at least once; whatever closes
or dies between store, mail and acknowledgement, the broker is done with an event
only when its row is stored and its mail tried, unless storing failed or a restart
lost it.  They rest on each handler keeping its own channel: an acknowledgement on
the newest one would settle another event.  A restart of the broker loses a welcome
that waits, which is not published as persistent.
`QueuedIsSettled`: once the connection stays up, every event is settled.  An event
can be redelivered once, on the second channel, while the first handler still runs:
one more channel repeats that.

**Lookups.**  `CalledBackOnce`: an answer after the timer, a second answer, or an
answer that another node consumed never calls back again.  `CallsSettle`: a lookup
ends even if its request or answer was lost.  `GoneWasAnswered`: the broker forgets an
unanswered request only when it restarts, or by the acknowledgement of a handler that
outlived its channel, whose tag means another request on the new one; then that
other request's handler is still at work, unless this channel closes too, in which
case no redelivery follows.  `OneReconnect`: no service reconnects twice at a
time.  A request can be delivered on both channels and answered twice, and either
node may get either answer.

**Typing.**  `ShownWhileTyping`: while a node's timer runs and the node has told all
it had to, its receiver sees the indicator, unless another node of the same typist
has switched it off.  `IndicatorEnds`: an indicator goes off once its typist is
silent, except in the cases where the code forgets it (`abandoned`, below).  Four client events let
a typist turn away from a receiver and back on two nodes.

**Inbox.**  `BuriedStaysBuried`: a deleted notification comes back only under a
`markAsRead` that had found it before; after that never.  `AcknowledgedIsRead`: what
an owner was told is read never counts as unread again, however saves, bulk updates
and re-insertions mix.  `MissedAtMostDeleted`: with offset and limit, each deletion
while the pages are turned hides at most one row that was there all the time; new
and revived rows hide none.  Rows of equal `createdAt` are left out of that, for
nothing orders them the same way twice.  Two requests at a time let one delete what
the other has found; a page of one row is the smallest that can be skipped.

**Start and shutdown.**  `NothingWithoutDatabase`: after the database began to close no
request runs and no queue is consumed, with three exceptions that the property names
because they happen: a signal that came before there was a server, a connection opened
by the reconnect timer that `disconnect()` itself has set off, and one opened by
`start()`.  `OneConnection`: a process has one connection unless it lost one inside its
connect loop, where the loop and `scheduleReconnect` both connect.  `ShutdownEnds`:
each shutdown ends if the clients with WebSockets leave.  Three connections allow one
from each of the loop, the timer and a reconnect; the limits of attempts are lowered
to two, which keeps the first, a middle and a last attempt apart.

**Accounts.**  `NamesIdentify`: over all tokens, sockets and cache entries, one id has one
name and one name one id, whatever registrations raced between `findOne` and INSERT
and however old the copies are.  `WelcomedUnlessUnanswered`: an account whose
registration is over has its welcome on the way, unless the answer to the INSERT, the
process, or the channel was lost; nothing makes up for it later.  Two clients that
register two names or addresses collide in each way that the two unique columns can be
violated.

**Disagreements between code and comments.**  Two are runs that expect a violation:

- `prekeys_twice`: a publish or a backup from a stale copy puts a handed-out prekey
  back in the pool, against "it is never handed out again"
  (`prekeyConsumption.ts:28-30`).
- `start_hangs`: a Redis client whose first connection is refused clears its timeout
  without rejecting, so `start()` hangs instead of falling back, against "if first
  connect fails we reject via timeout" (`RedisService.ts:120`).

The others follow from the models as they stand:

- Two sockets that connect at once both count 2 and neither is the first
  (`PresenceStore.ts:15-16, 27`).
- `messageDelivered` can take a read message back to Delivered
  (`socketHandler.ts:249-251`); `ReadUndoneOnlyByOverlap` says when.
- A message posted over REST is not emitted to a connected receiver
  (`ARCHITECTURE.md:189-191`).
- A lookup on a closed channel does not degrade to null (`messageHandler.ts:7-9`); its
  rejection is unhandled and shuts the node down (`Ask`).
- A failed reconnect is not followed by another, against "Max attempts: 10"
  (`ARCHITECTURE.md:306-314`).
- Typing timeouts are not "auto-correcting" (`socketHandler.ts:10`): turning to
  another receiver, or losing a socket, drops the timer (`abandoned`).
- A shutdown waits for WebSockets that nothing closes (`ARCHITECTURE.md:335-346`).
- Uncaught errors end with exit code 0, against "exit code 1" (`ARCHITECTURE.md:348`).
- `isHealthy` tests that a connection was once made, not that it is alive
  (`ARCHITECTURE.md:318`).
- `publishNotification` logs and forgets an event that it cannot send, against
  "queued until recovery" (`incident-response.md:99`).

**What the properties except.**  Besides the above, these happen, and the properties name
them as exceptions or causes (by the names in brackets).  So they do not rule them out;
they show that nothing else breaks the promise:

- A publish that read the row before a backup wipes that backup, and a backup wipes a
  newer pool (`PrekeyController.ts:81, 186`), although both merge (`StaleEntity`).
- An acknowledgement after a reconnect uses a tag of the old channel
  (`user-service/src/services/RabbitMQService.ts:95`) (`mistaken`).
- A node that died, or a disconnect whose command failed, leaves its users online
  (`PresenceStore.ts:26-27, 154`) (`blamed`).
- Two nodes of a typist switch off the one indicator of both (`socketHandler.ts:137`)
  (`crossed`).
- A signal during `start()`, the reconnect timer that `disconnect()` sets off, and a loss
  inside the connect loop lead to work without a database or to two connections
  (`server.ts:65, 96`, `RabbitMQService.ts:42`) (`early`, `late`, `retried`).

`CHECK_DEADLOCK FALSE` is used where requests and sockets are finite in number, so
the system rightly comes to rest.

## Fairness

Only what the platform does by itself is fair.  Postgres answers queries and grants
free locks (`PrekeyStore`: one conjunct per request, once it has begun; failures
remain possible).  Node drains its microtask queue (`LocalPresence`).  Database,
Redis and the lookup's 5 s timer let a send go on (`MessageDelivery`); an answer from
user-service is not assumed.  Clients never have to do anything.  The broker delivers
what is ready, and Postgres and the mail server answer, with an error if need be
(`NotificationPipeline`); nothing brings a connection back for sure, so
`QueuedIsSettled` asks for one that stays up.  In `UserLookup` only the 5 s timers
are fair.  In `TypingIndicator` the 3 s timers fire, and Redis and Socket.IO deliver
what was emitted; a typist who goes on restarts the timer, but only as often as
`MaxEvents` allows, so the fairness of a timer says that it fires once its typist is
silent.  In `ServiceLifecycle` timers fire, queries and `close` calls return, and each
HTTP request is answered; Redis and RabbitMQ need not come up, and WebSockets need
not close.  `RedisPresence`, `NotificationInbox` and `Accounts` state safety only and
assume no fairness.

## What is proved

For every value of the constants, from the named assumption of each module
(`PrekeyAssumption`, `OwnerAssumption`, `RedisAssumption`, `PipelineAssumption`,
`ConnectionAssumption`, `LookupAssumption`, `InboxAssumption`, `AccountsAssumption`,
`TypingAssumption`, `LifecycleAssumption`; `MessageDelivery` needs none):

- `PrekeyStore_proofs`: `TypeCorrect` and `HandedOnceCorrect`.  The invariant `IInv`
  says that two transactions never hold the same row (`LockInv`), so what one read
  is still there (`ReadInv`); that an uploaded prekey lives in one row or in the
  entities to be saved to that row (`ApartInv`, `KnownInv`); and that a handed-out
  prekey is in a pool only if it was restored, and in an entity only if that
  entity is older than its row (`PoolInv`, `VersionInv`).  Without `ApartInv` a
  prekey could come back from another row, without `PoolInv` nothing relates
  pools to what was handed out.  `PoolChangesAreExplained` and
  `CurrentSavesLoseNothing` rest on `CurrentInv`: an entity whose version is its row's
  differs from it only by what its own request merged into it.  Neither says anything of
  a stale save but that it is one.  `EmptyOnlyWhenEmpty` rests
  on `EmptyInv`: a call that found nothing to hand out holds only rows with nothing.
- `LocalPresence_proofs`: `TypeCorrect`, `ViewsAgreeAlways`.  `QueueInv` says that the
  last queued word about a user is the truth and that, if none is queued, the client has
  been told it.  The lemmas about `Queue` and `Tail` show how appending and running a
  continuation keep that.
  `AnnouncesInOrder` is the refinement of `Presence` step by step, without its
  fairness: `TurnsInv` says that the queued broadcasts about one user take turns between
  "online" and "offline", starting with the opposite of what was last told and ending
  with what is true, so that each broadcast is one `Announce` of the abstract user and
  the number of those queued is its lag.
- `LocalPresence_proofs` again, of `TypingIndicator`: `TypingTypeCorrect` and
  `ShownWhileTypingAlways`.  The property speaks only of nodes with nothing under way;
  `TimerInv`, part of the type invariant, adds that, while a timer runs, the last
  event under way about its pair says "on" (`LastOn`), for every queue of events.
  `ShownIsOwedAlways` is what `IndicatorEnds` relies on: an indicator that is shown
  has its timer running, its stop under way, or was abandoned by a node that dropped
  the timer. It follows from `OwedInv`, which says the same of each "on" that is still
  under way.
- `RedisPresence_proofs`: `TypeCorrect`, `NoGhostsAlways`, `OnlineIsRightAlways`
  (`NeverStuckOnline` and `NeverLostOnline`), for any number of users, nodes, sockets and
  faults.  `GhostInv` says that the SREM of a socket
  that is gone is behind every SADD of it in its node's queue.  `AwayInv` follows the last
  disconnect of a user through its commands and replies (`Away`): the last SREM is
  behind everything else, then its reply is behind every reply that could still send
  SADD ps:online, then its SCARD is behind every SADD ps:online, and so on until the
  user is out.  `DeadInv` says that a dead node has commands only for users that
  are blamed.  Each stage needs the order of both queues: nothing weaker is inductive.
  `CallInv` is for users whose calls do not overlap: one command or one reply is theirs
  (`Only`), and `Asks` and `Hears` say for each of the six commands how `ps:sockets`,
  `ps:online` and the sockets that are up then relate; when a call has returned, they
  agree.
- `MessageDelivery_proofs`: `TypeCorrect`, `ReceiptsAreHonest`, `ReadUndoneOnly`,
  `OneChannelAlways`.  `CallInv` says that a call about to save found its message unread,
  so a read since then overlapped it, and that nothing takes a status back to
  NotDelivered.  `ChannelInv` says at each step of a send what has been published and
  emitted so far (`Judged`): a send looks its receiver up, and later has published, just
  if `isOnline` said "away", rightly (no room) or not (`misjudged`).
- `NotificationPipeline_proofs`: `TypeCorrect`, `GoneWasStoredAlways`,
  `GoneWasMailedAlways`.  The invariant adds to both properties `StoredInv`: a
  handler that sends its mail has stored its row, so a mail that ends and
  acknowledges leaves both fates.  That no other step settles an event
  (`GoneStep`) rests on each acknowledgement's tags being those of its event.
- `NotificationPipeline_proofs` again, of `ServiceLifecycle`: `LifecycleTypeCorrect`,
  `NothingWithoutDatabaseAlways`, `OneConnectionAlways`.  `HttpInv` says when the server
  is off, and that a call past `server.close()` that began with a server left it closed
  for good; it needs that a call which drains began with one.  `DatabaseInv` says that
  the database is down only before it is up or because some call is destroying it.
  `ConnectionInv` says that only `this.connection` is open, and none while one is to be
  opened or after `disconnect()`, unless `start()` connected again or a timer did.
- `UserLookup_proofs`: `TypeCorrect`, `OneReconnectAlways`, `CalledBackOnceAlways`,
  `GoneWasAnsweredAlways`.  `LinkGood` says that a timer or a `connect` under way
  implies `isReconnecting`, which the property itself does not; `Fits` what the
  connection of a process that is stopping or gone can still be.  `BrokerInv`
  follows a request: the broker waits only for tags of the channel that is open
  (`QueueInv`), each of which has a handler at work on a channel that user-service has
  had (`TaskInv`), and what it has forgotten was answered, lost in a restart, or settled
  by mistake, and then handled on a channel that is still open (`ForgottenInv`).  That
  each tag has its handler is what makes an acknowledgement on its own channel follow
  an answer.
- `NotificationInbox_proofs`: `TypeCorrect`, `AcknowledgedIsReadAlways`, `BuriedForGood`,
  `MissedAtMostDeletedAlways`.  `EntityInv` says that what a request holds was
  a row once, `AckInv` that what an owner was told is read is read if it is there.
  `ReadInv` counts for a reader the rows it has passed and not seen, those with fewer newer
  rows than its offset: there are no more of their distinct times than deletions, since
  only a deletion moves a row towards the front.
- `Accounts_proofs`: `TypeCorrect`, `NamesIdentifyAlways`, `WelcomedAlways`.  `UniqueInv`
  is what the two unique columns keep, `CopyInv` says that tokens, sockets and cache
  entries copy a row, which never changes, and `RegInv` that a registration which
  has the answer of its INSERT has a row.

Every safety invariant and action property that a passing run checks on a small
instance is a theorem here.  Model-checked only is every liveness property
(`GetBundleEnds`, `SendsAnswered`, `QueuedIsSettled`, `CallsSettle`, `IndicatorEnds`,
`ShutdownEnds`, and of `AnnouncesOnce` the part that every change is announced in the
end), since tlapm neither reasons about ENABLED nor derives a leads-to from weak
fairness.

## Not modelled

- Reads that change nothing and that no property relates to later state:
  `getSignalKeys`, `getCurrentUser`, `search`, `fetchConversation`'s paging, and the SQL
  that ranks conversations and counts unread messages.
- The `messageRead` event to the sender, and what the handlers of chat-service broadcast
  from the results of `RedisPresenceStore`.  A socket that connects while another is
  still connecting can make both results wrong (both count 2, `PresenceStore.ts:126`);
  on one node `LocalPresence` has the broadcasts.
- Validators are pure functions of one request; requests that they refuse change
  nothing.  The exception is what may be created in the inbox.
- Rate limiters.  chat-service's own lookups of users share the budget of 100 requests in
  15 minutes of one address at user-service, and a caller with a Bearer token has no
  cookie to pass on: both end as "Unknown User", which is `FetchFails` in `Accounts`.
- E-mail, push, logging, metrics, health, OpenAPI, migrations, nginx, deployment and the
  n8n workflows: external effects or observation only.
- Content, encryption and ids are abstract values.

## Plan

Prekeys, both kinds of presence, delivery, notifications and their inbox, lookups,
typing, start and shutdown, and accounts are written.  What is left, most important
first:

1. The broadcasts over Redis: `RedisPresence` with what each node emits from its
   results, and the clients' lists, for connects that overlap.
2. The `messageRead` event and the order of receipts at the sender.
