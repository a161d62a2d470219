--------------------------- MODULE RedisPresence ---------------------------
(***************************************************************************)
(* Presence across nodes of chat-service: RedisPresenceStore               *)
(* (services/PresenceStore.ts), called by the connect and disconnect       *)
(* handlers of websocket/socketHandler.ts.                                 *)
(*                                                                         *)
(* A node has one ioredis client for presence (services/RedisService.ts):  *)
(* its commands reach Redis in the order in which they were issued and the *)
(* replies come back in that order.  connect and disconnect issue their    *)
(* next command when the reply to the one before arrives, so the commands  *)
(* of different sockets mix, on one node as well as between nodes.         *)
(* What is broadcast from the results is not modelled here, nor are the    *)
(* commands that only read (SISMEMBER, SMEMBERS).                          *)
(***************************************************************************)
EXTENDS Naturals, Sequences, FiniteSets

CONSTANTS
    Users, Nodes,
    Sockets,      \* every socket that will ever be: ids are never used again
    Owner, Home,  \* the user and the node of each socket
    MaxFaults     \* bound on crashes, failed commands and expired keys together

ASSUME RedisAssumption ==
    /\ Owner \in [Sockets -> Users]
    /\ Home \in [Sockets -> Nodes]
    /\ MaxFaults \in Nat

VARIABLES
    state,     \* of each socket: "new", "up" or "gone"
    cmds,      \* of each node: commands that Redis has not executed, in order
    replies,   \* of each node: replies that it has not handled, in order
    conns,     \* ps:sockets:{userId}
    online,    \* ps:online
    dead,      \* nodes that crashed
    faults,    \* how many crashes, failed commands and expired keys so far
    blamed,    \* users of a node that crashed, or whose disconnect failed (history)
    crossed    \* users that came or went while a call of theirs ran (history)

vars == <<state, cmds, replies, conns, online, dead, faults, blamed, crossed>>

Ops == {"SADD", "SCARD up", "SADD online", "SREM", "SCARD down", "SREM online"}

\* What disconnect issues.
Removals == {"SREM", "SCARD down", "SREM online"}

Cmd == [op: Ops, socket: Sockets]

\* SCARD replies with a count, the others with one nobody looks at (0); "ok"
\* is FALSE when the promise is rejected.
Reply == [op: Ops, socket: Sockets, count: Nat, ok: BOOLEAN]

Up(u) == {s \in Sockets : state[s] = "up" /\ Owner[s] = u}

\* Seeded fault: commands of one node can overtake one another.
SendOvertaking(queue, op, s) == <<[op |-> op, socket |-> s]>> \o queue

Send(queue, op, s) == Append(queue, [op |-> op, socket |-> s])

\* A connect or disconnect of u has not returned.
Busy(u) ==
    \E n \in Nodes : \E q \in {cmds[n], replies[n]} : \E k \in DOMAIN q : Owner[q[k].socket] = u

\* A call for u begins.
Begins(u) == crossed' = IF Busy(u) THEN crossed \cup {u} ELSE crossed
-----------------------------------------------------------------------------
\* connect: the pipeline of SADD and EXPIRE is on its way.
Connect(s) ==
    /\ state[s] = "new"
    /\ Home[s] \notin dead
    /\ state' = [state EXCEPT ![s] = "up"]
    /\ cmds' = [cmds EXCEPT ![Home[s]] = Send(@, "SADD", s)]
    /\ Begins(Owner[s])
    /\ UNCHANGED <<replies, conns, online, dead, faults, blamed>>

\* disconnect: SREM is on its way, whatever connect is still waiting for.
Disconnect(s) ==
    /\ state[s] = "up"
    /\ state' = [state EXCEPT ![s] = "gone"]
    /\ cmds' = [cmds EXCEPT ![Home[s]] = Send(@, "SREM", s)]
    /\ Begins(Owner[s])
    /\ UNCHANGED <<replies, conns, online, dead, faults, blamed>>

\* What Redis does with the two keys of the socket's owner.
Apply(c) ==
    LET u == Owner[c.socket]
    IN /\ conns' = CASE c.op = "SADD" -> [conns EXCEPT ![u] = @ \cup {c.socket}]
                     [] c.op = "SREM" -> [conns EXCEPT ![u] = @ \ {c.socket}]
                     [] OTHER         -> conns
       /\ online' = CASE c.op = "SADD online" -> online \cup {u}
                      [] c.op = "SREM online" -> online \ {u}
                      [] OTHER                -> online

Answer(n, r) ==
    replies' = IF n \in dead THEN replies ELSE [replies EXCEPT ![n] = Append(@, r)]

\* Redis executes the next command of node n.
Execute(n) ==
    LET c == Head(cmds[n])
        count == IF c.op \in {"SCARD up", "SCARD down"}
                 THEN Cardinality(conns[Owner[c.socket]]) ELSE 0
    IN /\ cmds[n] # <<>>
       /\ cmds' = [cmds EXCEPT ![n] = Tail(@)]
       /\ Apply(c)
       /\ Answer(n, [op |-> c.op, socket |-> c.socket, count |-> count, ok |-> TRUE])
       /\ UNCHANGED <<state, dead, faults, blamed, crossed>>

\* The connection breaks for longer than ioredis retries: the promise is
\* rejected, and the command may have been executed or not.
Fail(n) ==
    LET c == Head(cmds[n])
    IN /\ n \notin dead
       /\ cmds[n] # <<>>
       /\ faults < MaxFaults
       /\ cmds' = [cmds EXCEPT ![n] = Tail(@)]
       /\ Apply(c) \/ UNCHANGED <<conns, online>>
       /\ Answer(n, [op |-> c.op, socket |-> c.socket, count |-> 0, ok |-> FALSE])
       /\ faults' = faults + 1
       /\ blamed' = IF c.op \in Removals
                    THEN blamed \cup {Owner[c.socket]} ELSE blamed
       /\ UNCHANGED <<state, dead, crossed>>

\* Seeded fault: the count as it would be before SREM.
CountedBeforeRemoval(count) == count = 1

\* SCARD after SREM: nobody is left.
LastCount(count) == count = 0

\* Seeded fault: the catch of connect takes the socket out of the set again.
ContinueUndoing(r, queue) ==
    CASE r.op = "SADD" -> Send(queue, "SCARD up", r.socket)
      [] r.op = "SCARD up" /\ ~r.ok -> Send(queue, "SREM", r.socket)
      [] r.op = "SCARD up" /\ r.ok /\ r.count = 1 -> Send(queue, "SADD online", r.socket)
      [] r.op = "SREM" /\ r.ok -> Send(queue, "SCARD down", r.socket)
      [] r.op = "SCARD down" /\ r.ok /\ LastCount(r.count) ->
            Send(queue, "SREM online", r.socket)
      [] OTHER -> queue

\* The command that the handler of reply r issues next, if any.  pipeline.exec()
\* resolves even when its commands failed; the other promises reject, and both
\* methods catch that and return.
Continue(r, queue) ==
    CASE r.op = "SADD" -> Send(queue, "SCARD up", r.socket)
      [] r.op = "SCARD up" /\ r.ok /\ r.count = 1 -> Send(queue, "SADD online", r.socket)
      [] r.op = "SREM" /\ r.ok -> Send(queue, "SCARD down", r.socket)
      [] r.op = "SCARD down" /\ r.ok /\ LastCount(r.count) ->
            Send(queue, "SREM online", r.socket)
      [] OTHER -> queue

\* Node n handles its next reply.
HandleReply(n) ==
    /\ replies[n] # <<>>
    /\ replies' = [replies EXCEPT ![n] = Tail(@)]
    /\ cmds' = [cmds EXCEPT ![n] = Continue(Head(replies[n]), @)]
    /\ UNCHANGED <<state, conns, online, dead, faults, blamed, crossed>>

\* Sockets of node n with something in Redis or on the way to it.
InUse(n) ==
    {s \in Sockets : Home[s] = n /\
        \/ state[s] = "up"
        \/ \E q \in {cmds[n], replies[n]} : \E k \in DOMAIN q : q[k].socket = s}

\* Node n dies: what is on the wire may still reach Redis, up to some point.
Crash(n) ==
    /\ n \notin dead
    /\ faults < MaxFaults
    /\ faults' = faults + 1
    /\ dead' = dead \cup {n}
    /\ state' = [s \in Sockets |->
                   IF Home[s] = n /\ state[s] = "up" THEN "gone" ELSE state[s]]
    /\ \E k \in 0..Len(cmds[n]) : cmds' = [cmds EXCEPT ![n] = SubSeq(@, 1, k)]
    /\ replies' = [replies EXCEPT ![n] = <<>>]
    /\ blamed' = blamed \cup {Owner[s] : s \in InUse(n)}
    /\ UNCHANGED <<conns, online, crossed>>

Quiet == \A n \in Nodes : cmds[n] = <<>> /\ replies[n] = <<>>

\* An hour after its last EXPIRE the key goes, sockets up or not; no command
\* is on its way for that long.
Expire(u) ==
    /\ Quiet
    /\ conns[u] # {}
    /\ faults < MaxFaults
    /\ faults' = faults + 1
    /\ conns' = [conns EXCEPT ![u] = {}]
    /\ UNCHANGED <<state, cmds, replies, online, dead, blamed, crossed>>

Init ==
    /\ state = [s \in Sockets |-> "new"]
    /\ cmds = [n \in Nodes |-> <<>>]
    /\ replies = [n \in Nodes |-> <<>>]
    /\ conns = [u \in Users |-> {}]
    /\ online = {}
    /\ dead = {}
    /\ faults = 0
    /\ blamed = {}
    /\ crossed = {}

Next ==
    \/ \E s \in Sockets : Connect(s) \/ Disconnect(s)
    \/ \E n \in Nodes : Execute(n) \/ Fail(n) \/ HandleReply(n) \/ Crash(n)
    \/ \E u \in Users : Expire(u)

Spec == Init /\ [][Next]_vars
-----------------------------------------------------------------------------
\* Only sockets that are gone are being removed, in a queue.
OnlyGone(q) == \A k \in DOMAIN q : q[k].op \in Removals => state[q[k].socket] = "gone"

TypeOK ==
    /\ state \in [Sockets -> {"new", "up", "gone"}]
    /\ cmds \in [Nodes -> Seq(Cmd)]
    /\ replies \in [Nodes -> Seq(Reply)]
    /\ conns \in [Users -> SUBSET Sockets]
    /\ online \in SUBSET Users
    /\ dead \in SUBSET Nodes
    /\ faults \in 0..MaxFaults
    /\ blamed \in SUBSET Users
    /\ crossed \in SUBSET Users
    /\ \A u \in Users : \A s \in conns[u] : Owner[s] = u /\ state[s] # "new"
    /\ \A n \in dead : replies[n] = <<>>
    /\ \A n \in Nodes : OnlyGone(cmds[n]) /\ OnlyGone(replies[n])

\* All sockets that u ever had were on one node.
OneNode(u) ==
    \A s, t \in Sockets :
       Owner[s] = u /\ Owner[t] = u /\ state[s] # "new" /\ state[t] # "new" =>
          Home[s] = Home[t]

\* A user whose sockets are all on one node does not stay in ps:online (and
\* so is not listed for ever, and does not lose its notifications) without a
\* socket once all commands are done, however its connects and disconnects
\* mix, and whether keys expire or connects fail - unless the node died or a
\* disconnect failed.  With two nodes that is not so: a SADD ps:online can
\* reach Redis after the other node's SREM ps:online.
NoStuckOnline ==
    Quiet => \A u \in online \ blamed : OneNode(u) => Up(u) # {}

\* A user with a socket is in ps:online once all commands are done, as long as
\* nothing fails and its calls did not overlap: of two sockets that connect at
\* once both can count 2, and neither adds the user (connect, 121-137).
NoLostOnline ==
    Quiet /\ faults = 0 => \A u \in Users \ crossed : Up(u) # {} => u \in online

\* ps:online is right once all commands are done: as far as the two say.
OnlineIsRight == NoStuckOnline /\ NoLostOnline

\* Unless the node died or a disconnect failed, ps:sockets holds no
\* socket that is gone: the counts are never too high.
NoGhostSockets ==
    Quiet => \A u \in Users \ blamed : conns[u] \subseteq Up(u)
=============================================================================
