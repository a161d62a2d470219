--------------------------- MODULE LocalPresence ---------------------------
(***************************************************************************)
(* Presence on one node of chat-service: LocalPresenceStore                *)
(* (services/PresenceStore.ts) and the connect and disconnect handlers     *)
(* that use it (websocket/socketHandler.ts).                               *)
(*                                                                         *)
(* A handler runs up to its first await in one go; what follows the await  *)
(* is a continuation in the microtask queue of the process, which runs     *)
(* them in the order in which they were queued.  Other sockets may connect *)
(* or disconnect before a continuation has run.                            *)
(***************************************************************************)
EXTENDS Naturals, Sequences, FiniteSets

CONSTANTS
    Users,
    Sockets,  \* every socket that will ever be: ids are never used again
    Owner     \* the user a socket's token names

ASSUME OwnerAssumption == Owner \in [Sockets -> Users]

VARIABLES
    state,    \* of each socket: "new", "up" (in the namespace) or "gone"
    sockets,  \* the store's map; a user without an entry has {}
    pending,  \* continuations that emit something, in queue order
    view,     \* which users each socket's client has been told are online
    told      \* the users whose last broadcast said online (history)

vars == <<state, sockets, pending, view, told>>

Up == {s \in Sockets : state[s] = "up"}

\* What a continuation emits: a broadcast about the owner of "socket", or
\* the bulk list "users" to "socket".
Task == [kind: {"online", "offline", "bulk"}, socket: Sockets, users: SUBSET Users]

Broadcast(kind, s) == [kind |-> kind, socket |-> s, users |-> {}]

Bulk(s, others) == [kind |-> "bulk", socket |-> s, users |-> others]

\* A continuation that emits nothing is left out of the queue.
Queue(queue, t, emits) == IF emits THEN Append(queue, t) ELSE queue
-----------------------------------------------------------------------------
\* Seeded fault: every connection counts as the first.
EveryIsFirst(set) == TRUE

\* connect: the set is empty before this socket joins it.
IsFirst(set) == set = {}

\* Seeded fault: drop the user's entry whatever sockets remain in it.
LeaveDroppingEntry(set, s) == {}

\* disconnect: set.delete(socketId); an entry that is left empty is dropped.
Leave(set, s) == set \ {s}

\* Seeded fault: test the set before the socket is taken out of it.
IsLastBeforeDelete(set, s) == set = {}

\* disconnect: the set is empty once this socket has left it.
IsLast(set, s) == Leave(set, s) = {}

\* Seeded fault: only users with a second socket.
OnlineOthersOffByOne(store, u) == {x \in Users \ {u} : Cardinality(store[x]) > 1}

\* getOnlineUserIds(exclude)
OnlineOthers(store, u) == {x \in Users \ {u} : store[x] # {}}

\* registerSocketHandlers: registerPresence, then sendInitialPresence, each up
\* to its await.  An empty bulk list is not sent.
Connect(s) ==
    LET u == Owner[s]
        store == [sockets EXCEPT ![u] = @ \cup {s}]
        others == OnlineOthers(store, u)
    IN /\ state[s] = "new"
       /\ state' = [state EXCEPT ![s] = "up"]
       /\ sockets' = store
       /\ pending' = Queue(Queue(pending, Broadcast("online", s), IsFirst(sockets[u])),
                           Bulk(s, others), others # {})
       /\ UNCHANGED <<view, told>>

\* handleDisconnect; socket.io has taken the socket out of the namespace.
Disconnect(s) ==
    LET u == Owner[s]
    IN /\ state[s] = "up"
       /\ state' = [state EXCEPT ![s] = "gone"]
       /\ sockets' = [sockets EXCEPT ![u] = Leave(@, s)]
       /\ pending' = Queue(pending, Broadcast("offline", s), IsLast(sockets[u], s))
       /\ UNCHANGED <<view, told>>

\* The client of x after task t: io.emit reaches every socket, socket.emit
\* one, and neither reaches a socket that is gone.
Shown(x, t) ==
    IF state[x] # "up" \/ (t.kind = "bulk" /\ x # t.socket)
    THEN view[x]
    ELSE CASE t.kind = "online"  -> view[x] \cup {Owner[t.socket]}
           [] t.kind = "offline" -> view[x] \ {Owner[t.socket]}
           [] t.kind = "bulk"    -> view[x] \cup t.users

RunContinuation ==
    LET t == Head(pending)
    IN /\ pending # <<>>
       /\ pending' = Tail(pending)
       /\ view' = [x \in Sockets |-> Shown(x, t)]
       /\ told' = CASE t.kind = "online"  -> told \cup {Owner[t.socket]}
                    [] t.kind = "offline" -> told \ {Owner[t.socket]}
                    [] t.kind = "bulk"    -> told
       /\ UNCHANGED <<state, sockets>>

\* The process ends, and all of its sockets and its store with it.
Restart ==
    /\ Up # {}
    /\ state' = [s \in Sockets |-> IF s \in Up THEN "gone" ELSE state[s]]
    /\ sockets' = [u \in Users |-> {}]
    /\ pending' = <<>>
    /\ told' = {}
    /\ UNCHANGED view

Init ==
    /\ state = [s \in Sockets |-> "new"]
    /\ sockets = [u \in Users |-> {}]
    /\ pending = <<>>
    /\ view = [s \in Sockets |-> {}]
    /\ told = {}

Next ==
    \/ \E s \in Sockets : Connect(s) \/ Disconnect(s)
    \/ RunContinuation
    \/ Restart

\* Queued continuations run: the event loop drains the microtask queue.
Spec == Init /\ [][Next]_vars /\ WF_vars(RunContinuation)
-----------------------------------------------------------------------------
TypeOK ==
    /\ state \in [Sockets -> {"new", "up", "gone"}]
    /\ sockets \in [Users -> SUBSET Sockets]
    /\ pending \in Seq(Task)
    /\ view \in [Sockets -> SUBSET Users]
    /\ told \in SUBSET Users
    /\ \A u \in Users : sockets[u] = {s \in Up : Owner[s] = u}

Online == {u \in Users : sockets[u] # {}}

AllRight == \A s \in Up : view[s] \ {Owner[s]} = Online \ {Owner[s]}

\* However connects, disconnects and continuations interleave, once nothing
\* is queued every client knows exactly which other users have a socket: the
\* bulk list and the broadcasts around it neither miss nor undo one another.
ViewsAgree == pending = <<>> => AllRight
-----------------------------------------------------------------------------
(* The inductive invariant behind ViewsAgree: the last queued word about a *)
(* user is the truth, and if none is queued the client has been told it.   *)

\* Task t tells the client of socket s something about user u, ...
About(t, s, u) ==
    \/ t.kind # "bulk" /\ Owner[t.socket] = u
    \/ t.kind = "bulk" /\ t.socket = s /\ u \in t.users

\* ... namely that it is online.
SaysOnline(t) == t.kind # "offline"

LastWordTrue(queue, s, u, truth) ==
    \A n \in DOMAIN queue :
       About(queue[n], s, u) /\ (\A k \in DOMAIN queue : k > n => ~About(queue[k], s, u)) =>
          (SaysOnline(queue[n]) <=> u \in truth)

NoWordTrue(queue, s, u, shown, truth) ==
    (\A n \in DOMAIN queue : ~About(queue[n], s, u)) => (u \in shown <=> u \in truth)

QueueInv ==
    /\ \A s \in Sockets, u \in Users :
          state[s] # "gone" /\ u # Owner[s] => LastWordTrue(pending, s, u, Online)
    /\ \A s \in Up, u \in Users :
          u # Owner[s] => NoWordTrue(pending, s, u, view[s], Online)
    /\ \A s \in Sockets : state[s] = "new" => view[s] = {}
    /\ \A n \in DOMAIN pending : state[pending[n].socket] # "new"

IInv == TypeOK /\ QueueInv
-----------------------------------------------------------------------------
\* The node implements the abstract presence specification: its changes are
\* the queued broadcasts.
Abstract == INSTANCE Presence WITH
    live <- Online,
    told <- told,
    lag <- [u \in Users |->
              Cardinality({n \in DOMAIN pending :
                 pending[n].kind # "bulk" /\ Owner[pending[n].socket] = u})]

\* Every change between no socket and some socket of a user is announced
\* once, in order, and in the end.
AnnouncesOnce == Abstract!Spec
=============================================================================
