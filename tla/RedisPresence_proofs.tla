------------------------- MODULE RedisPresence_proofs -------------------------
(* ps:sockets never counts a socket that is gone, and ps:online is right about *)
(* users, for any users, nodes and sockets and any number of faults.           *)
EXTENDS RedisPresence, FiniteSetTheorems, TLAPS

Is(c, op, s) == c.op = op /\ c.socket = s

\* The commands of node n, and the replies, are about sockets of n that exist.
Known(st, n, q) ==
    \A k \in 1..Len(q) : Home[q[k].socket] = n /\ st[q[k].socket] # "new"

\* ps:sockets is finite, so that its SCARD is a number, even if Sockets is not.
TypeInv ==
    /\ TypeOK
    /\ \A n \in Nodes : Known(state, n, cmds[n]) /\ Known(state, n, replies[n])
    /\ \A u \in Users : IsFiniteSet(conns[u])

-------------------------------------------------------------------------------
(* Queues.                                                                     *)

LEMMA TailKeeps ==
    ASSUME NEW S, NEW q \in Seq(S), q # <<>>
    PROVE  /\ Tail(q) \in Seq(S) /\ Len(Tail(q)) = Len(q) - 1 /\ Len(q) \in Nat \ {0}
           /\ Head(q) \in S /\ Head(q) = q[1]
           /\ \A k \in 1..Len(q) - 1 : Tail(q)[k] = q[k + 1]
OBVIOUS

LEMMA AppendKeeps ==
    ASSUME NEW S, NEW q \in Seq(S), NEW e \in S
    PROVE  /\ Append(q, e) \in Seq(S) /\ Len(Append(q, e)) = Len(q) + 1 /\ Len(q) \in Nat
           /\ Append(q, e)[Len(q) + 1] = e
           /\ \A k \in 1..Len(q) : Append(q, e)[k] = q[k]
OBVIOUS

LEMMA PrefixKeeps ==
    ASSUME NEW S, NEW q \in Seq(S), NEW k \in 0..Len(q)
    PROVE  /\ SubSeq(q, 1, k) \in Seq(S) /\ Len(SubSeq(q, 1, k)) = k
           /\ \A i \in 1..k : i \in 1..Len(q) /\ SubSeq(q, 1, k)[i] = q[i]
<1>1. Len(q) \in Nat /\ k \in Nat /\ k <= Len(q)
  OBVIOUS
<1>2. \A i \in 1..k : q[i] \in S
  BY <1>1
<1> QED
  BY <1>1, <1>2

\* What a command does to ps:sockets.
LEMMA ApplyConns ==
    ASSUME TypeOK, NEW c \in Cmd, Apply(c)
    PROVE  /\ conns' \in [Users -> SUBSET Sockets] /\ online' \in SUBSET Users
           /\ \A u \in Users :
                 /\ \A s \in conns'[u] : s \in conns[u] \/ (Owner[s] = u /\ Is(c, "SADD", s))
                 /\ \A s \in conns'[u] : ~Is(c, "SREM", s) \/ Owner[s] # u
<1>1. c.socket \in Sockets /\ Owner[c.socket] \in Users
  BY RedisAssumption DEF Cmd
<1>2. conns \in [Users -> SUBSET Sockets] /\ online \in SUBSET Users
  BY DEF TypeOK
<1>3. CASE c.op = "SADD"
  <2>1. conns' = [conns EXCEPT ![Owner[c.socket]] = @ \cup {c.socket}] /\ online' = online
    BY <1>3 DEF Apply
  <2> QED
    BY <1>1, <1>2, <1>3, <2>1 DEF Is
<1>4. CASE c.op = "SREM"
  <2>1. conns' = [conns EXCEPT ![Owner[c.socket]] = @ \ {c.socket}] /\ online' = online
    BY <1>4 DEF Apply
  <2> QED
    BY <1>1, <1>2, <1>4, <2>1 DEF Is
<1>5. CASE c.op \notin {"SADD", "SREM"}
  <2>1. conns' = conns
    BY <1>5 DEF Apply
  <2>2. \/ online' = online
        \/ online' = online \cup {Owner[c.socket]}
        \/ online' = online \ {Owner[c.socket]}
    BY <1>5 DEF Apply
  <2> QED
    BY <1>1, <1>2, <1>5, <2>1, <2>2 DEF Is
<1> QED
  BY <1>3, <1>4, <1>5

\* One element more or less leaves ps:sockets finite.
LEMMA ApplyFinite ==
    ASSUME TypeOK, \A u \in Users : IsFiniteSet(conns[u]), NEW c \in Cmd, Apply(c)
    PROVE  \A u \in Users : IsFiniteSet(conns'[u])
<1>1. c.socket \in Sockets /\ Owner[c.socket] \in Users
  BY RedisAssumption DEF Cmd
<1>2. ASSUME NEW u \in Users
      PROVE  conns'[u] \in {conns[u], conns[u] \cup {c.socket}, conns[u] \ {c.socket}}
  <2>1. \/ conns' = [conns EXCEPT ![Owner[c.socket]] = @ \cup {c.socket}]
        \/ conns' = [conns EXCEPT ![Owner[c.socket]] = @ \ {c.socket}]
        \/ conns' = conns
    BY DEF Apply
  <2> QED
    BY <1>1, <2>1 DEF TypeOK
<1>3. ASSUME NEW u \in Users
      PROVE  IsFiniteSet(conns[u] \cup {c.socket}) /\ IsFiniteSet(conns[u] \ {c.socket})
  BY FS_AddElement, FS_RemoveElement, Zenon
<1> QED
  BY <1>2, <1>3

\* Queues of other nodes stay; this one's queue is replaced by a good one.
LEMMA QueueSet ==
    ASSUME NEW S, NEW f \in [Nodes -> Seq(S)], NEW n \in Nodes, NEW q \in Seq(S), NEW st,
           Known(st, n, q),
           \A m \in Nodes : Known(st, m, f[m])
    PROVE  /\ [f EXCEPT ![n] = q] \in [Nodes -> Seq(S)]
           /\ \A m \in Nodes : Known(st, m, [f EXCEPT ![n] = q][m])
<1>1. \A m \in Nodes : [f EXCEPT ![n] = q][m] = IF m = n THEN q ELSE f[m]
  OBVIOUS
<1> QED
  BY <1>1

LEMMA KnownTail ==
    ASSUME NEW S, NEW st, NEW n, NEW q \in Seq(S), q # <<>>, Known(st, n, q)
    PROVE  /\ Known(st, n, Tail(q))
           /\ Home[Head(q).socket] = n /\ st[Head(q).socket] # "new"
BY TailKeeps DEF Known

LEMMA KnownStays ==
    ASSUME NEW st, NEW next, NEW n, NEW S, NEW q \in Seq(S),
           \A e \in S : e.socket \in Sockets,
           \A s \in Sockets : st[s] # "new" => next[s] # "new",
           Known(st, n, q)
    PROVE  Known(next, n, q)
<1>1. \A k \in 1..Len(q) : q[k] \in S
  OBVIOUS
<1> QED
  BY <1>1 DEF Known

LEMMA KnownAppend ==
    ASSUME NEW S, NEW st, NEW n, NEW q \in Seq(S), NEW e \in S, Known(st, n, q),
           Home[e.socket] = n, st[e.socket] # "new"
    PROVE  Known(st, n, Append(q, e))
BY AppendKeeps DEF Known

\* No step makes a socket new again.
LEMMA StateSteps ==
    ASSUME TypeOK, [Next]_vars
    PROVE  \A s \in Sockets : state[s] # "new" => state'[s] # "new"
<1>1. ASSUME NEW s \in Sockets, Connect(s) \/ Disconnect(s)
      PROVE  \A t \in Sockets : state[t] # "new" => state'[t] # "new"
  BY <1>1 DEF Connect, Disconnect, TypeOK
<1>2. ASSUME NEW n \in Nodes, Crash(n)
      PROVE  \A t \in Sockets : state[t] # "new" => state'[t] # "new"
  <2>1. state' = [s \in Sockets |-> IF Home[s] = n /\ state[s] = "up" THEN "gone" ELSE state[s]]
    BY <1>2 DEF Crash
  <2> QED
    BY <2>1
<1>3. ASSUME NEW n \in Nodes, Execute(n) \/ Fail(n) \/ HandleReply(n)
      PROVE  UNCHANGED state
  BY <1>3 DEF Execute, Fail, HandleReply
<1>4. ASSUME NEW u \in Users, Expire(u)
      PROVE  UNCHANGED state
  BY <1>4 DEF Expire
<1>5. CASE UNCHANGED vars
  BY <1>5 DEF vars
<1> QED
  BY <1>1, <1>2, <1>3, <1>4, <1>5 DEF Next

-------------------------------------------------------------------------------
(* The type invariant.                                                         *)

LEMMA TypeInit ==
    ASSUME Init
    PROVE  TypeInv
<1>1. \A n \in Nodes : Len(cmds[n]) = 0 /\ Len(replies[n]) = 0
  BY DEF Init
<1>2. \A u \in Users : IsFiniteSet(conns[u])
  BY FS_EmptySet DEF Init
<1>3. TypeOK
  BY RedisAssumption DEF Init, TypeOK, OnlyGone
<1>4. \A n \in Nodes : 1..Len(cmds[n]) = {} /\ 1..Len(replies[n]) = {}
  BY <1>1
<1> QED
  BY <1>2, <1>3, <1>4 DEF TypeInv, Known

\* The parts of TypeOK that the queues do not touch.
SocketsOK ==
    /\ state \in [Sockets -> {"new", "up", "gone"}]
    /\ conns \in [Users -> SUBSET Sockets]
    /\ online \in SUBSET Users
    /\ dead \in SUBSET Nodes
    /\ faults \in 0..MaxFaults
    /\ blamed \in SUBSET Users
    /\ crossed \in SUBSET Users
    /\ \A u \in Users : \A s \in conns[u] : Owner[s] = u /\ state[s] # "new"
    /\ \A u \in Users : IsFiniteSet(conns[u])

\* The queues: each is known, and a dead node has no replies.
QueuesOK ==
    /\ cmds \in [Nodes -> Seq(Cmd)]
    /\ replies \in [Nodes -> Seq(Reply)]
    /\ \A n \in Nodes : Known(state, n, cmds[n]) /\ Known(state, n, replies[n])
    /\ \A n \in dead : replies[n] = <<>>

CoreInv == SocketsOK /\ QueuesOK

\* What is being removed is gone.
GoneInv == \A n \in Nodes : OnlyGone(cmds[n]) /\ OnlyGone(replies[n])

LEMMA Parts == TypeInv <=> CoreInv /\ GoneInv
BY DEF TypeInv, TypeOK, SocketsOK, QueuesOK, CoreInv, GoneInv

LEMMA PartsThen == TypeInv' <=> CoreInv' /\ GoneInv'
BY DEF TypeInv, TypeOK, SocketsOK, QueuesOK, CoreInv, GoneInv, OnlyGone

\* Every queue stays known when sockets come up or go.
LEMMA AllKnownStay ==
    ASSUME TypeInv, [Next]_vars
    PROVE  \A n \in Nodes : Known(state', n, cmds[n]) /\ Known(state', n, replies[n])
<1>1. \A e \in Cmd \cup Reply : e.socket \in Sockets
  BY DEF Cmd, Reply
<1>2. \A s \in Sockets : state[s] # "new" => state'[s] # "new"
  BY StateSteps DEF TypeInv
<1>3. ASSUME NEW n \in Nodes
      PROVE  Known(state', n, cmds[n])
  <2>1. cmds[n] \in Seq(Cmd) /\ Known(state, n, cmds[n])
    BY DEF TypeInv, TypeOK
  <2>2. \A e \in Cmd : e.socket \in Sockets
    BY <1>1
  <2> QED
    BY <1>2, <2>1, <2>2, KnownStays
<1>4. ASSUME NEW n \in Nodes
      PROVE  Known(state', n, replies[n])
  <2>1. replies[n] \in Seq(Reply) /\ Known(state, n, replies[n])
    BY DEF TypeInv, TypeOK
  <2>2. \A e \in Reply : e.socket \in Sockets
    BY <1>1
  <2> QED
    BY <1>2, <2>1, <2>2, KnownStays
<1> QED
  BY <1>3, <1>4

LEMMA Enqueue ==
    ASSUME TypeInv, [Next]_vars, NEW n \in Nodes, NEW e \in Cmd, Home[e.socket] = n,
           state'[e.socket] # "new", cmds' = [cmds EXCEPT ![n] = Append(cmds[n], e)]
    PROVE  /\ cmds' \in [Nodes -> Seq(Cmd)]
           /\ \A m \in Nodes : Known(state', m, cmds'[m])
<1> DEFINE q == Append(cmds[n], e)
<1>1. cmds \in [Nodes -> Seq(Cmd)] /\ cmds[n] \in Seq(Cmd)
  BY DEF TypeInv, TypeOK
<1>2. \A m \in Nodes : Known(state', m, cmds[m])
  BY AllKnownStay
<1>3. q \in Seq(Cmd)
  BY <1>1
<1>4. Known(state', n, q)
  BY <1>1, <1>2, KnownAppend
<1> HIDE DEF q
<1> QED
  BY <1>1, <1>2, <1>3, <1>4, QueueSet DEF q

\* The first command of a queue is taken.
LEMMA Dequeue ==
    ASSUME TypeInv, [Next]_vars, NEW n \in Nodes, cmds[n] # <<>>,
           cmds' = [cmds EXCEPT ![n] = Tail(cmds[n])]
    PROVE  /\ cmds' \in [Nodes -> Seq(Cmd)]
           /\ \A m \in Nodes : Known(state', m, cmds'[m])
           /\ Head(cmds[n]) \in Cmd
           /\ Home[Head(cmds[n]).socket] = n /\ state[Head(cmds[n]).socket] # "new"
<1> DEFINE q == Tail(cmds[n])
<1>1. cmds \in [Nodes -> Seq(Cmd)] /\ cmds[n] \in Seq(Cmd)
  BY DEF TypeInv, TypeOK
<1>2. \A m \in Nodes : Known(state', m, cmds[m])
  BY AllKnownStay
<1>3. q \in Seq(Cmd) /\ Head(cmds[n]) \in Cmd
  BY <1>1, TailKeeps
<1>4. Known(state', n, q)
  BY <1>1, <1>2, KnownTail
<1>5. Known(state, n, cmds[n])
  BY DEF TypeInv
<1>6. Home[Head(cmds[n]).socket] = n /\ state[Head(cmds[n]).socket] # "new"
  <2>1. Len(cmds[n]) \in Nat \ {0} /\ Head(cmds[n]) = cmds[n][1]
    BY <1>1, TailKeeps
  <2>2. 1 \in 1..Len(cmds[n])
    BY <2>1
  <2> QED
    BY <1>5, <2>1, <2>2 DEF Known
<1> HIDE DEF q
<1> QED
  BY <1>1, <1>2, <1>3, <1>4, <1>6, QueueSet DEF q

\* A reply goes to a node that is alive.
LEMMA Answered ==
    ASSUME TypeInv, [Next]_vars, NEW n \in Nodes, NEW r \in Reply, Home[r.socket] = n,
           state[r.socket] # "new", UNCHANGED <<state, dead>>, Answer(n, r)
    PROVE  /\ replies' \in [Nodes -> Seq(Reply)]
           /\ \A m \in Nodes : Known(state', m, replies'[m])
           /\ \A m \in dead' : replies'[m] = <<>>
<1> DEFINE q == Append(replies[n], r)
<1>1. /\ replies \in [Nodes -> Seq(Reply)] /\ replies[n] \in Seq(Reply)
      /\ \A m \in dead : m \in Nodes /\ replies[m] = <<>>
  BY DEF TypeInv, TypeOK
<1>2. \A m \in Nodes : Known(state', m, replies[m])
  BY AllKnownStay
<1>3. q \in Seq(Reply)
  BY <1>1
<1>3a. Home[r.socket] = n /\ state'[r.socket] # "new" /\ Known(state', n, replies[n])
  BY <1>2
<1>4. Known(state', n, q)
  BY <1>1, <1>3a, KnownAppend
<1> HIDE DEF q
<1>5. CASE n \in dead
  <2>1. replies' = replies
    BY <1>5 DEF Answer
  <2> QED
    BY <1>1, <1>2, <2>1
<1>6. CASE n \notin dead
  <2>1. replies' = [replies EXCEPT ![n] = q]
    BY <1>6 DEF Answer, q
  <2>2. /\ replies' \in [Nodes -> Seq(Reply)]
        /\ \A m \in Nodes : Known(state', m, replies'[m])
    BY <1>1, <1>2, <1>3, <1>4, <2>1, QueueSet
  <2>3. \A m \in dead' : m # n /\ replies'[m] = replies[m]
    BY <1>1, <1>6, <2>1
  <2> QED
    BY <1>1, <2>2, <2>3
<1> QED
  BY <1>5, <1>6

\* The next command, if any, is about the socket of the reply.
LEMMA Continues ==
    ASSUME NEW r, NEW queue
    PROVE  \/ Continue(r, queue) = queue
           \/ \E op \in {"SCARD up", "SADD online", "SCARD down", "SREM online"} :
                 Continue(r, queue) = Append(queue, [op |-> op, socket |-> r.socket])
<1>1. \/ Continue(r, queue) = queue
      \/ \E op \in {"SCARD up", "SADD online", "SCARD down", "SREM online"} :
            Continue(r, queue) = Send(queue, op, r.socket)
  BY DEF Continue
<1> QED
  BY <1>1 DEF Send

\* conns and online after a command of a socket that exists.
LEMMA AppliedOK ==
    ASSUME TypeInv, NEW c \in Cmd, state[c.socket] # "new", UNCHANGED state,
           Apply(c) \/ UNCHANGED <<conns, online>>
    PROVE  /\ conns' \in [Users -> SUBSET Sockets] /\ online' \in SUBSET Users
           /\ \A u \in Users : \A s \in conns'[u] : Owner[s] = u /\ state'[s] # "new"
           /\ \A u \in Users : IsFiniteSet(conns'[u])
<1>1. /\ TypeOK
      /\ conns \in [Users -> SUBSET Sockets] /\ online \in SUBSET Users
      /\ \A u \in Users : \A s \in conns[u] : Owner[s] = u /\ state[s] # "new"
      /\ \A u \in Users : IsFiniteSet(conns[u])
  BY DEF TypeInv, TypeOK
<1>2. CASE Apply(c)
  <2>1. /\ conns' \in [Users -> SUBSET Sockets] /\ online' \in SUBSET Users
        /\ \A u \in Users : \A s \in conns'[u] :
              s \in conns[u] \/ (Owner[s] = u /\ Is(c, "SADD", s))
    BY <1>1, <1>2, ApplyConns
  <2>2. \A u \in Users : IsFiniteSet(conns'[u])
    BY <1>1, <1>2, ApplyFinite
  <2> QED
    BY <1>1, <2>1, <2>2 DEF Is
<1>3. CASE UNCHANGED <<conns, online>>
  BY <1>1, <1>3
<1> QED
  BY <1>2, <1>3

LEMMA CoreStep ==
    ASSUME TypeInv, [Next]_vars
    PROVE  CoreInv'
<1>1. /\ SocketsOK /\ QueuesOK
      /\ \A n \in Nodes : Known(state', n, cmds[n]) /\ Known(state', n, replies[n])
  BY Parts, AllKnownStay DEF CoreInv
<1>2. ASSUME NEW s \in Sockets, Connect(s) \/ Disconnect(s)
      PROVE  CoreInv'
  <2>1. PICK op \in {"SADD", "SREM"} :
           cmds' = [cmds EXCEPT ![Home[s]] = Append(cmds[Home[s]], [op |-> op, socket |-> s])]
    BY <1>2 DEF Connect, Disconnect, Send
  <2>2. /\ Home[s] \in Nodes /\ [op |-> op, socket |-> s] \in Cmd
    BY RedisAssumption DEF Cmd, Ops
  <2>3. PICK new \in {"up", "gone"} : state' = [state EXCEPT ![s] = new]
    BY <1>2 DEF Connect, Disconnect
  <2>4. state'[s] # "new" /\ state' \in [Sockets -> {"new", "up", "gone"}]
    BY <1>1, <2>3 DEF SocketsOK
  <2>5. /\ cmds' \in [Nodes -> Seq(Cmd)]
        /\ \A m \in Nodes : Known(state', m, cmds'[m])
    BY <2>1, <2>2, <2>4, Enqueue
  <2>6. UNCHANGED <<replies, conns, online, dead, faults, blamed>>
    BY <1>2 DEF Connect, Disconnect
  <2>7. QueuesOK'
    BY <1>1, <2>5, <2>6 DEF QueuesOK
  <2>8. \A t \in Sockets : state[t] # "new" => state'[t] # "new"
    BY <1>1, <2>3 DEF SocketsOK
  <2>9. crossed' \in SUBSET Users
    BY <1>1, <1>2, RedisAssumption DEF Connect, Disconnect, Begins, SocketsOK
  <2>10. SocketsOK'
    BY <1>1, <2>4, <2>6, <2>8, <2>9 DEF SocketsOK
  <2> QED
    BY <2>7, <2>10 DEF CoreInv
<1>3. ASSUME NEW n \in Nodes, Execute(n) \/ Fail(n)
      PROVE  CoreInv'
  <2> DEFINE c == Head(cmds[n])
  <2>1. /\ cmds[n] # <<>> /\ cmds' = [cmds EXCEPT ![n] = Tail(cmds[n])]
        /\ UNCHANGED <<state, dead, crossed>>
        /\ Apply(c) \/ UNCHANGED <<conns, online>>
    BY <1>3 DEF Execute, Fail
  <2>2. /\ cmds' \in [Nodes -> Seq(Cmd)]
        /\ \A m \in Nodes : Known(state', m, cmds'[m])
        /\ c \in Cmd /\ Home[c.socket] = n /\ state[c.socket] # "new"
    BY <2>1, Dequeue
  <2> HIDE DEF c
  <2>3. c.op \in Ops /\ c.socket \in Sockets /\ Owner[c.socket] \in Users
    BY <2>2, RedisAssumption DEF Cmd
  <2>4. Cardinality(conns[Owner[c.socket]]) \in Nat
    BY <1>1, <2>3, FS_CardinalityType DEF SocketsOK
  <2>5. PICK r \in Reply : r.socket = c.socket /\ Answer(n, r)
    <3>1. PICK count \in Nat, ok \in BOOLEAN :
             Answer(n, [op |-> c.op, socket |-> c.socket, count |-> count, ok |-> ok])
      <4>1. CASE Execute(n)
        <5> DEFINE num == IF c.op \in {"SCARD up", "SCARD down"}
                          THEN Cardinality(conns[Owner[c.socket]]) ELSE 0
        <5>1. Answer(n, [op |-> c.op, socket |-> c.socket, count |-> num, ok |-> TRUE])
          BY <4>1 DEF Execute, c
        <5>2. num \in Nat
          BY <2>4
        <5> HIDE DEF num
        <5> QED
          BY <5>1, <5>2
      <4>2. CASE Fail(n)
        BY <4>2 DEF Fail, c
      <4> QED
        BY <1>3, <4>1, <4>2
    <3>2. [op |-> c.op, socket |-> c.socket, count |-> count, ok |-> ok] \in Reply
      BY <2>3, <3>1 DEF Reply
    <3> QED
      BY <3>1, <3>2
  <2>6. /\ replies' \in [Nodes -> Seq(Reply)]
        /\ \A m \in Nodes : Known(state', m, replies'[m])
        /\ \A m \in dead' : replies'[m] = <<>>
    BY <2>1, <2>2, <2>5, Answered
  <2>7. /\ conns' \in [Users -> SUBSET Sockets] /\ online' \in SUBSET Users
        /\ \A u \in Users : \A s \in conns'[u] : Owner[s] = u /\ state'[s] # "new"
        /\ \A u \in Users : IsFiniteSet(conns'[u])
    BY <2>1, <2>2, AppliedOK
  <2>8. faults' \in 0..MaxFaults /\ blamed' \in SUBSET Users
    <3>1. CASE Execute(n)
      BY <1>1, <3>1 DEF Execute, SocketsOK
    <3>2. CASE Fail(n)
      <4>1. faults' = faults + 1 /\ faults < MaxFaults
        BY <3>2 DEF Fail
      <4>2. blamed' = blamed \/ blamed' = blamed \cup {Owner[c.socket]}
        BY <3>2 DEF Fail, c
      <4> QED
        BY <1>1, <2>3, <4>1, <4>2, RedisAssumption DEF SocketsOK
    <3> QED
      BY <1>3, <3>1, <3>2
  <2>9. SocketsOK'
    BY <1>1, <2>1, <2>7, <2>8 DEF SocketsOK
  <2>10. QueuesOK'
    BY <2>2, <2>6 DEF QueuesOK
  <2> QED
    BY <2>9, <2>10 DEF CoreInv
<1>4. ASSUME NEW n \in Nodes, HandleReply(n)
      PROVE  CoreInv'
  <2> DEFINE r == Head(replies[n])
  <2>1. /\ replies[n] # <<>> /\ replies' = [replies EXCEPT ![n] = Tail(replies[n])]
        /\ cmds' = [cmds EXCEPT ![n] = Continue(r, cmds[n])]
        /\ UNCHANGED <<state, conns, online, dead, faults, blamed, crossed>>
    BY <1>4 DEF HandleReply
  <2>2. /\ replies \in [Nodes -> Seq(Reply)] /\ replies[n] \in Seq(Reply)
        /\ Known(state, n, replies[n]) /\ Known(state', n, replies[n])
    BY <1>1 DEF QueuesOK
  <2>3. Tail(replies[n]) \in Seq(Reply) /\ r \in Reply
    BY <2>1, <2>2, TailKeeps
  <2>4. Known(state', n, Tail(replies[n])) /\ Home[r.socket] = n /\ state'[r.socket] # "new"
    <3> DEFINE queue == replies[n]
               st == state'
    <3>1. queue # <<>> /\ queue \in Seq(Reply) /\ Known(st, n, queue)
      BY <2>1, <2>2
    <3> HIDE DEF queue, st
    <3>2. Known(st, n, Tail(queue)) /\ Home[Head(queue).socket] = n /\ st[Head(queue).socket] # "new"
      BY <3>1, KnownTail
    <3> QED
      BY <3>2 DEF queue, st
  <2>5. /\ replies' \in [Nodes -> Seq(Reply)]
        /\ \A m \in Nodes : Known(state', m, replies'[m])
    BY <1>1, <2>1, <2>2, <2>3, <2>4, QueueSet
  <2>6. \A m \in dead' : m # n /\ replies'[m] = <<>>
    BY <1>1, <2>1, <2>2 DEF QueuesOK, SocketsOK
  <2> HIDE DEF r
  <2>7. /\ cmds' \in [Nodes -> Seq(Cmd)]
        /\ \A m \in Nodes : Known(state', m, cmds'[m])
    <3>1. CASE Continue(r, cmds[n]) = cmds[n]
      <4>1. cmds' = cmds
        BY <1>1, <2>1, <3>1 DEF QueuesOK
      <4> QED
        BY <1>1, <4>1 DEF QueuesOK
    <3>2. ASSUME NEW op \in {"SCARD up", "SADD online", "SCARD down", "SREM online"},
                 Continue(r, cmds[n]) = Append(cmds[n], [op |-> op, socket |-> r.socket])
          PROVE  /\ cmds' \in [Nodes -> Seq(Cmd)]
                 /\ \A m \in Nodes : Known(state', m, cmds'[m])
      <4>1. [op |-> op, socket |-> r.socket] \in Cmd
        BY <2>3 DEF Cmd, Ops, Reply
      <4> QED
        BY <2>1, <2>4, <3>2, <4>1, Enqueue
    <3> QED
      BY <3>1, <3>2, Continues
  <2>8. QueuesOK' /\ SocketsOK'
    BY <1>1, <2>1, <2>5, <2>6, <2>7 DEF QueuesOK, SocketsOK
  <2> QED
    BY <2>8 DEF CoreInv
<1>5. ASSUME NEW n \in Nodes, Crash(n)
      PROVE  CoreInv'
  <2>1. PICK k \in 0..Len(cmds[n]) : cmds' = [cmds EXCEPT ![n] = SubSeq(cmds[n], 1, k)]
    BY <1>5 DEF Crash
  <2>2. cmds \in [Nodes -> Seq(Cmd)] /\ cmds[n] \in Seq(Cmd) /\ Known(state', n, cmds[n])
    BY <1>1 DEF QueuesOK
  <2> DEFINE q == SubSeq(cmds[n], 1, k)
  <2>3. q \in Seq(Cmd) /\ Len(q) = k /\ \A i \in 1..k : i \in 1..Len(cmds[n]) /\ q[i] = cmds[n][i]
    BY <2>2, PrefixKeeps
  <2> HIDE DEF q
  <2>4. Known(state', n, q)
    BY <2>2, <2>3 DEF Known
  <2>5. /\ cmds' \in [Nodes -> Seq(Cmd)]
        /\ \A m \in Nodes : Known(state', m, cmds'[m])
    BY <1>1, <2>1, <2>2, <2>3, <2>4, QueueSet DEF q
  <2>6. replies' = [replies EXCEPT ![n] = <<>>] /\ dead' = dead \cup {n}
    BY <1>5 DEF Crash
  <2>7. <<>> \in Seq(Reply) /\ Known(state', n, <<>>)
    BY DEF Known
  <2>8. /\ replies' \in [Nodes -> Seq(Reply)]
        /\ \A m \in Nodes : Known(state', m, replies'[m])
    <3>1. replies \in [Nodes -> Seq(Reply)] /\ \A m \in Nodes : Known(state', m, replies[m])
      BY <1>1 DEF QueuesOK
    <3> QED
      BY <2>6, <2>7, <3>1, QueueSet
  <2>9. \A m \in dead' : replies'[m] = <<>>
    BY <1>1, <2>6 DEF QueuesOK, SocketsOK
  <2>10. QueuesOK'
    BY <2>5, <2>8, <2>9 DEF QueuesOK
  <2>11. /\ state' \in [Sockets -> {"new", "up", "gone"}]
         /\ \A t \in Sockets : state[t] # "new" => state'[t] # "new"
    <3>1. state' = [s \in Sockets |->
                      IF Home[s] = n /\ state[s] = "up" THEN "gone" ELSE state[s]]
      BY <1>5 DEF Crash
    <3> QED
      BY <1>1, <3>1 DEF SocketsOK
  <2>12. faults' = faults + 1 /\ faults < MaxFaults /\ UNCHANGED <<conns, online, crossed>>
    BY <1>5 DEF Crash
  <2>13. blamed' \in SUBSET Users
    <3>1. blamed' = blamed \cup {Owner[s] : s \in InUse(n)}
      BY <1>5 DEF Crash
    <3>2. \A s \in InUse(n) : Owner[s] \in Users
      BY RedisAssumption DEF InUse
    <3> QED
      BY <1>1, <3>1, <3>2 DEF SocketsOK
  <2>14. faults' \in 0..MaxFaults
    BY <1>1, <2>12, RedisAssumption DEF SocketsOK
  <2>15. SocketsOK'
    BY <1>1, <2>6, <2>11, <2>12, <2>13, <2>14 DEF SocketsOK
  <2> QED
    BY <2>10, <2>15 DEF CoreInv
<1>6. ASSUME NEW u \in Users, Expire(u)
      PROVE  CoreInv'
  <2>1. /\ conns' = [conns EXCEPT ![u] = {}] /\ faults' = faults + 1 /\ faults < MaxFaults
        /\ UNCHANGED <<state, cmds, replies, online, dead, blamed, crossed>>
    BY <1>6 DEF Expire
  <2>2. \A v \in Users : conns'[v] = conns[v] \/ conns'[v] = {}
    BY <1>1, <2>1 DEF SocketsOK
  <2>3. \A v \in Users : IsFiniteSet(conns'[v])
    BY <1>1, <2>2, FS_EmptySet DEF SocketsOK
  <2>4. faults' \in 0..MaxFaults
    BY <1>1, <2>1, RedisAssumption DEF SocketsOK
  <2>5. SocketsOK'
    BY <1>1, <2>1, <2>2, <2>3, <2>4 DEF SocketsOK
  <2>6. QueuesOK'
    BY <1>1, <2>1 DEF QueuesOK
  <2> QED
    BY <2>5, <2>6 DEF CoreInv
<1>7. CASE UNCHANGED vars
  <2>1. SocketsOK' /\ QueuesOK'
    BY <1>1, <1>7 DEF SocketsOK, QueuesOK, vars
  <2> QED
    BY <2>1 DEF CoreInv
<1> QED
  BY <1>2, <1>3, <1>4, <1>5, <1>6, <1>7 DEF Next

\* Removals that are queued are of sockets that are gone.
Going(st, q) == \A k \in 1..Len(q) : q[k].op \in Removals => st[q[k].socket] = "gone"

LEMMA GoingIs ==
    ASSUME NEW S, NEW q \in Seq(S)
    PROVE  OnlyGone(q) <=> Going(state, q)
<1>1. DOMAIN q = 1..Len(q)
  OBVIOUS
<1> QED
  BY <1>1 DEF OnlyGone, Going

LEMMA GoingTail ==
    ASSUME NEW S, NEW st, NEW q \in Seq(S), q # <<>>, Going(st, q)
    PROVE  /\ Going(st, Tail(q))
           /\ Head(q).op \in Removals => st[Head(q).socket] = "gone"
<1>1. /\ Len(Tail(q)) = Len(q) - 1 /\ Len(q) \in Nat \ {0} /\ Head(q) = q[1]
      /\ \A k \in 1..Len(q) - 1 : Tail(q)[k] = q[k + 1]
  BY TailKeeps
<1>2. \A k \in 1..Len(q) - 1 : k + 1 \in 1..Len(q)
  BY <1>1
<1>3. 1 \in 1..Len(q)
  BY <1>1
<1> QED
  BY <1>1, <1>2, <1>3 DEF Going

LEMMA GoingAppend ==
    ASSUME NEW S, NEW st, NEW q \in Seq(S), NEW e \in S, Going(st, q),
           e.op \in Removals => st[e.socket] = "gone"
    PROVE  Going(st, Append(q, e))
BY AppendKeeps DEF Going

\* No step brings a socket back.
LEMMA GoneStays ==
    ASSUME TypeOK, [Next]_vars
    PROVE  \A s \in Sockets : state[s] = "gone" => state'[s] = "gone"
<1>1. ASSUME NEW s \in Sockets, Connect(s) \/ Disconnect(s)
      PROVE  \A t \in Sockets : state[t] = "gone" => state'[t] = "gone"
  BY <1>1 DEF Connect, Disconnect, TypeOK
<1>2. ASSUME NEW n \in Nodes, Crash(n)
      PROVE  \A t \in Sockets : state[t] = "gone" => state'[t] = "gone"
  <2>1. state' = [s \in Sockets |-> IF Home[s] = n /\ state[s] = "up" THEN "gone" ELSE state[s]]
    BY <1>2 DEF Crash
  <2> QED
    BY <2>1
<1>3. ASSUME NEW n \in Nodes, Execute(n) \/ Fail(n) \/ HandleReply(n)
      PROVE  UNCHANGED state
  BY <1>3 DEF Execute, Fail, HandleReply
<1>4. ASSUME NEW u \in Users, Expire(u)
      PROVE  UNCHANGED state
  BY <1>4 DEF Expire
<1>5. CASE UNCHANGED vars
  BY <1>5 DEF vars
<1> QED
  BY <1>1, <1>2, <1>3, <1>4, <1>5 DEF Next

LEMMA GoingStays ==
    ASSUME TypeOK, [Next]_vars, NEW S, \A e \in S : e.socket \in Sockets,
           NEW q \in Seq(S), Going(state, q)
    PROVE  Going(state', q)
<1>1. \A k \in 1..Len(q) : q[k].socket \in Sockets
  <2>1. \A k \in 1..Len(q) : q[k] \in S
    OBVIOUS
  <2> QED
    BY <2>1
<1> QED
  BY <1>1, GoneStays DEF Going

\* disconnect goes on with a removal only after one of its own replies.
LEMMA ContinuesRemoval ==
    ASSUME NEW r, NEW queue
    PROVE  \/ Continue(r, queue) = queue
           \/ \E op \in {"SCARD up", "SADD online", "SCARD down", "SREM online"} :
                 /\ Continue(r, queue) = Append(queue, [op |-> op, socket |-> r.socket])
                 /\ op \in Removals => r.op \in Removals
BY DEF Continue, Send, Removals

LEMMA GoneStep ==
    ASSUME TypeInv, [Next]_vars
    PROVE  GoneInv'
<1>1. /\ TypeOK
      /\ cmds \in [Nodes -> Seq(Cmd)] /\ replies \in [Nodes -> Seq(Reply)]
      /\ cmds' \in [Nodes -> Seq(Cmd)] /\ replies' \in [Nodes -> Seq(Reply)]
  BY CoreStep DEF TypeInv, TypeOK, CoreInv, QueuesOK
<1>2. ASSUME NEW n \in Nodes
      PROVE  /\ Going(state, cmds[n]) /\ Going(state, replies[n])
             /\ Going(state', cmds[n]) /\ Going(state', replies[n])
  <2>1. cmds[n] \in Seq(Cmd) /\ replies[n] \in Seq(Reply)
    BY <1>1
  <2>2. OnlyGone(cmds[n]) /\ OnlyGone(replies[n])
    BY <1>1 DEF TypeOK
  <2>3. Going(state, cmds[n]) /\ Going(state, replies[n])
    BY <2>1, <2>2, GoingIs
  <2>4. \A e \in Cmd : e.socket \in Sockets
    BY DEF Cmd
  <2>5. \A e \in Reply : e.socket \in Sockets
    BY DEF Reply
  <2>6. Going(state', cmds[n])
    BY <1>1, <2>1, <2>3, <2>4, GoingStays
  <2>7. Going(state', replies[n])
    BY <1>1, <2>1, <2>3, <2>5, GoingStays
  <2> QED
    BY <2>3, <2>6, <2>7
<1>3. SUFFICES ASSUME NEW m \in Nodes
               PROVE  Going(state', cmds'[m]) /\ Going(state', replies'[m])
  <2>1. ASSUME NEW m \in Nodes, Going(state', cmds'[m]) /\ Going(state', replies'[m])
        PROVE  (OnlyGone(cmds[m]) /\ OnlyGone(replies[m]))'
    <3>1. DOMAIN (cmds'[m]) = 1..Len(cmds'[m]) /\ DOMAIN (replies'[m]) = 1..Len(replies'[m])
      BY <1>1
    <3> QED
      BY <2>1, <3>1 DEF OnlyGone, Going
  <2> QED
    BY <2>1 DEF GoneInv
<1>4. ASSUME NEW s \in Sockets, Connect(s) \/ Disconnect(s)
      PROVE  Going(state', cmds'[m]) /\ Going(state', replies'[m])
  <2>1. PICK op \in {"SADD", "SREM"} :
           /\ cmds' = [cmds EXCEPT ![Home[s]] = Append(cmds[Home[s]], [op |-> op, socket |-> s])]
           /\ op \in Removals => state'[s] = "gone"
    BY <1>1, <1>4 DEF Connect, Disconnect, Send, Removals, TypeOK
  <2> DEFINE e == [op |-> op, socket |-> s]
             st == state'
  <2>2. e \in Cmd /\ e.op = op /\ e.socket = s /\ replies' = replies
    BY <1>4 DEF Cmd, Ops, Connect, Disconnect
  <2>3. cmds'[m] = IF m = Home[s] THEN Append(cmds[m], e) ELSE cmds[m]
    BY <1>1, <2>1
  <2>4. Going(st, cmds[m]) /\ cmds[m] \in Seq(Cmd) /\ Going(st, replies[m])
        /\ (e.op \in Removals => st[e.socket] = "gone")
    BY <1>1, <1>2, <2>1, <2>2
  <2> HIDE DEF e, st
  <2>5. Going(st, Append(cmds[m], e))
    BY <2>2, <2>4, GoingAppend
  <2> QED
    BY <2>2, <2>3, <2>4, <2>5 DEF st
<1>5. ASSUME NEW n \in Nodes, Execute(n) \/ Fail(n)
      PROVE  Going(state', cmds'[m]) /\ Going(state', replies'[m])
  <2> DEFINE c == Head(cmds[n])
             q == cmds[n]
             st == state
  <2>1. /\ q # <<>> /\ cmds' = [cmds EXCEPT ![n] = Tail(q)] /\ state' = state
        /\ \E count, ok : Answer(n, [op |-> c.op, socket |-> c.socket, count |-> count, ok |-> ok])
    BY <1>5 DEF Execute, Fail
  <2>2. q \in Seq(Cmd) /\ Going(st, q) /\ Going(st, replies[m]) /\ Going(st, cmds[m])
    BY <1>1, <1>2
  <2>3. c = Head(q)
    OBVIOUS
  <2> HIDE DEF c, q, st
  <2>4. /\ Going(st, Tail(q))
        /\ c.op \in Removals => st[c.socket] = "gone"
    BY <2>1, <2>2, <2>3, GoingTail
  <2>5. Going(st, cmds'[m])
    BY <1>1, <2>1, <2>2, <2>4
  <2>6. PICK count, ok : Answer(n, [op |-> c.op, socket |-> c.socket, count |-> count, ok |-> ok])
    BY <2>1
  <2> DEFINE r == [op |-> c.op, socket |-> c.socket, count |-> count, ok |-> ok]
             a == replies[m]
  <2>7. replies'[m] = a \/ replies'[m] = Append(a, r)
    BY <1>1, <2>6 DEF Answer
  <2>8. r.op \in Removals => st[r.socket] = "gone"
    BY <2>4
  <2>9. a \in Seq(Reply)
    BY <1>1
  <2>10. CASE replies'[m] = Append(a, r)
    <3> DEFINE T == Reply \cup {r}
    <3>1. a \in Seq(T) /\ r \in T
      BY <2>9
    <3>2. Going(st, a)
      BY <2>2
    <3> HIDE DEF r, T, a
    <3>3. Going(st, Append(a, r))
      BY <2>8, <3>1, <3>2, GoingAppend
    <3> QED
      BY <2>1, <2>5, <2>10, <3>3 DEF st
  <2>11. CASE replies'[m] = a
    BY <2>1, <2>2, <2>5, <2>11 DEF st
  <2> QED
    BY <2>7, <2>10, <2>11
<1>6. ASSUME NEW n \in Nodes, HandleReply(n)
      PROVE  Going(state', cmds'[m]) /\ Going(state', replies'[m])
  <2> DEFINE q == replies[n]
             r == Head(replies[n])
             st == state
  <2>1. /\ q # <<>> /\ replies' = [replies EXCEPT ![n] = Tail(q)] /\ state' = state
        /\ cmds' = [cmds EXCEPT ![n] = Continue(r, cmds[n])]
    BY <1>6 DEF HandleReply
  <2>2. q \in Seq(Reply) /\ Going(st, q) /\ Going(st, replies[m]) /\ Going(st, cmds[m])
        /\ cmds[m] \in Seq(Cmd)
    BY <1>1, <1>2
  <2>3. r = Head(q)
    OBVIOUS
  <2>3a. r \in Reply
    BY <1>1, <2>1, TailKeeps
  <2> HIDE DEF q, r, st
  <2>4. /\ Going(st, Tail(q))
        /\ r.op \in Removals => st[r.socket] = "gone"
    BY <2>1, <2>2, <2>3, GoingTail
  <2>5. Going(st, replies'[m])
    BY <1>1, <2>1, <2>2, <2>4
  <2> DEFINE a == cmds[m]
  <2>6. a \in Seq(Cmd) /\ Going(st, a) /\ (cmds'[m] = a \/ cmds'[m] = Continue(r, a))
    BY <1>1, <2>1, <2>2
  <2> HIDE DEF a
  <2>7. Going(st, Continue(r, a))
    <3>1. ASSUME NEW op \in {"SCARD up", "SADD online", "SCARD down", "SREM online"},
                 Continue(r, a) = Append(a, [op |-> op, socket |-> r.socket]),
                 op \in Removals => r.op \in Removals
          PROVE  Going(st, Continue(r, a))
      <4> DEFINE e == [op |-> op, socket |-> r.socket]
      <4>1. e \in Cmd /\ (e.op \in Removals => st[e.socket] = "gone")
        BY <2>3a, <2>4, <3>1 DEF Cmd, Ops, Reply
      <4> HIDE DEF e
      <4>2. Going(st, Append(a, e))
        BY <2>6, <4>1, GoingAppend
      <4> QED
        BY <3>1, <4>2 DEF e
    <3> QED
      BY <2>6, <3>1, ContinuesRemoval
  <2> QED
    BY <2>1, <2>5, <2>6, <2>7 DEF st
<1>7. ASSUME NEW n \in Nodes, Crash(n)
      PROVE  Going(state', cmds'[m]) /\ Going(state', replies'[m])
  <2>1. PICK k \in 0..Len(cmds[n]) : cmds' = [cmds EXCEPT ![n] = SubSeq(cmds[n], 1, k)]
    BY <1>7 DEF Crash
  <2>2. replies' = [replies EXCEPT ![n] = <<>>]
    BY <1>7 DEF Crash
  <2> DEFINE q == cmds[n]
             st == state'
  <2>3. q \in Seq(Cmd) /\ k \in 0..Len(q) /\ Going(st, q) /\ Going(st, cmds[m])
        /\ Going(st, replies[m])
    BY <1>1, <1>2
  <2> HIDE DEF q, st
  <2>4. /\ Len(SubSeq(q, 1, k)) = k
        /\ \A i \in 1..k : i \in 1..Len(q) /\ SubSeq(q, 1, k)[i] = q[i]
    BY <2>3, PrefixKeeps
  <2>5. Going(st, SubSeq(q, 1, k))
    BY <2>3, <2>4 DEF Going
  <2>6. Going(st, <<>>)
    BY DEF Going
  <2>7. cmds'[m] \in {cmds[m], SubSeq(q, 1, k)} /\ replies'[m] \in {replies[m], <<>>}
    BY <1>1, <2>1, <2>2 DEF q
  <2> QED
    BY <2>3, <2>5, <2>6, <2>7 DEF st
<1>8. ASSUME NEW u \in Users, Expire(u)
      PROVE  UNCHANGED <<cmds, replies>>
  BY <1>8 DEF Expire
<1>9. CASE UNCHANGED vars
  BY <1>2, <1>9 DEF vars
<1> QED
  BY <1>2, <1>4, <1>5, <1>6, <1>7, <1>8, <1>9 DEF Next

LEMMA TypeStep ==
    ASSUME TypeInv, [Next]_vars
    PROVE  TypeInv'
BY CoreStep, GoneStep, PartsThen

LEMMA AlwaysTyped == Spec => []TypeInv
<1> QED
  BY TypeInit, TypeStep, PTL DEF Spec

\* Each queue holds commands and replies of its own node, and a key only sockets
\* of its user that exist: whatever crashes, fails or expires (PresenceStore).
THEOREM TypeCorrect == Spec => []TypeOK
<1>1. TypeInv => TypeOK
  BY DEF TypeInv
<1> QED
  BY <1>1, AlwaysTyped, PTL

-------------------------------------------------------------------------------
(* Ghosts.                                                                     *)

\* A removal of socket s is in queue q, at or after position k.
RemovedFrom(q, k, s) == \E j \in k..Len(q) : Is(q[j], "SREM", s)

\* Whatever adds s again is followed by its removal.
AddsUndone(q, s) == \A i \in 1..Len(q) : Is(q[i], "SADD", s) => RemovedFrom(q, i + 1, s)

\* A socket that is gone leaves ps:sockets with what is on its way to Redis,
\* unless the node crashed with it or its disconnect failed.
SocketLeaves(s) ==
    state[s] = "gone" /\ Owner[s] \notin blamed =>
        /\ s \in conns[Owner[s]] => RemovedFrom(cmds[Home[s]], 1, s)
        /\ AddsUndone(cmds[Home[s]], s)

GhostInv == \A s \in Sockets : SocketLeaves(s)

LEMMA TailUndone ==
    ASSUME NEW q \in Seq(Cmd), q # <<>>, NEW s, AddsUndone(q, s)
    PROVE  /\ AddsUndone(Tail(q), s)
           /\ Is(Head(q), "SADD", s) => RemovedFrom(Tail(q), 1, s)
           /\ RemovedFrom(q, 1, s) => Is(Head(q), "SREM", s) \/ RemovedFrom(Tail(q), 1, s)
<1>1. /\ Len(Tail(q)) = Len(q) - 1 /\ Len(q) \in Nat \ {0} /\ Head(q) = q[1]
      /\ \A k \in 1..Len(q) - 1 : Tail(q)[k] = q[k + 1]
  BY TailKeeps
<1>2. ASSUME NEW k \in 1..Len(q), RemovedFrom(q, k + 1, s)
      PROVE  RemovedFrom(Tail(q), k, s)
  <2>1. PICK j \in k + 1..Len(q) : Is(q[j], "SREM", s)
    BY <1>2 DEF RemovedFrom
  <2>2. j - 1 \in k..Len(Tail(q)) /\ j - 1 \in 1..Len(q) - 1 /\ (j - 1) + 1 = j
    BY <1>1
  <2>3. Is(Tail(q)[j - 1], "SREM", s)
    BY <1>1, <2>1, <2>2
  <2> QED
    BY <2>2, <2>3 DEF RemovedFrom
<1>3. ASSUME NEW i \in 1..Len(Tail(q)), Is(Tail(q)[i], "SADD", s)
      PROVE  RemovedFrom(Tail(q), i + 1, s)
  <2>1. i + 1 \in 1..Len(q) /\ i \in 1..Len(q) - 1
    BY <1>1
  <2>2. Is(q[i + 1], "SADD", s)
    BY <1>1, <1>3, <2>1
  <2>3. RemovedFrom(q, (i + 1) + 1, s)
    BY <2>1, <2>2 DEF AddsUndone
  <2> QED
    BY <1>2, <2>1, <2>3
<1>4. ASSUME Is(Head(q), "SADD", s)
      PROVE  RemovedFrom(Tail(q), 1, s)
  <2>1. 1 \in 1..Len(q)
    BY <1>1
  <2>2. RemovedFrom(q, 1 + 1, s)
    BY <1>1, <1>4, <2>1 DEF AddsUndone
  <2> QED
    BY <1>2, <2>1, <2>2
<1>5. ASSUME RemovedFrom(q, 1, s), ~Is(Head(q), "SREM", s)
      PROVE  RemovedFrom(Tail(q), 1, s)
  <2>1. PICK j \in 1..Len(q) : Is(q[j], "SREM", s)
    BY <1>5 DEF RemovedFrom
  <2>2. j # 1
    BY <1>1, <1>5, <2>1
  <2>3. j \in 1 + 1..Len(q) /\ 1 \in 1..Len(q)
    BY <1>1, <2>2
  <2>4. RemovedFrom(q, 1 + 1, s)
    BY <2>1, <2>3 DEF RemovedFrom
  <2> QED
    BY <1>2, <2>3, <2>4
<1>6. AddsUndone(Tail(q), s)
  BY <1>3 DEF AddsUndone
<1> QED
  BY <1>4, <1>5, <1>6

LEMMA AppendUndone ==
    ASSUME NEW q \in Seq(Cmd), NEW e \in Cmd, NEW s
    PROVE  /\ AddsUndone(q, s) /\ ~Is(e, "SADD", s) => AddsUndone(Append(q, e), s)
           /\ RemovedFrom(q, 1, s) => RemovedFrom(Append(q, e), 1, s)
           /\ Is(e, "SREM", s) => /\ RemovedFrom(Append(q, e), 1, s)
                                  /\ AddsUndone(Append(q, e), s)
<1> DEFINE p == Append(q, e)
<1>1. /\ Len(p) = Len(q) + 1 /\ Len(q) \in Nat
      /\ p[Len(q) + 1] = e /\ \A k \in 1..Len(q) : p[k] = q[k]
  BY AppendKeeps
<1> HIDE DEF p
<1>2. ASSUME NEW k \in Nat \ {0}, RemovedFrom(q, k, s)
      PROVE  RemovedFrom(p, k, s)
  <2>1. PICK j \in k..Len(q) : Is(q[j], "SREM", s)
    BY <1>2 DEF RemovedFrom
  <2>2. j \in k..Len(p) /\ j \in 1..Len(q)
    BY <1>1
  <2> QED
    BY <1>1, <2>1, <2>2 DEF RemovedFrom
<1>3. ASSUME AddsUndone(q, s), ~Is(e, "SADD", s), NEW i \in 1..Len(p), Is(p[i], "SADD", s)
      PROVE  RemovedFrom(p, i + 1, s)
  <2>1. i # Len(q) + 1
    BY <1>1, <1>3
  <2>2. i \in 1..Len(q) /\ i + 1 \in Nat \ {0}
    BY <1>1, <2>1
  <2>3. RemovedFrom(q, i + 1, s)
    BY <1>1, <1>3, <2>2 DEF AddsUndone
  <2> QED
    BY <1>2, <2>2, <2>3
<1>4. ASSUME Is(e, "SREM", s), NEW k \in 1..Len(q) + 1
      PROVE  RemovedFrom(p, k, s)
  <2>1. Len(q) + 1 \in k..Len(p)
    BY <1>1
  <2> QED
    BY <1>1, <1>4, <2>1 DEF RemovedFrom
<1>5. ASSUME Is(e, "SREM", s), NEW i \in 1..Len(p), Is(p[i], "SADD", s)
      PROVE  RemovedFrom(p, i + 1, s)
  <2>1. i # Len(q) + 1
    BY <1>1, <1>5 DEF Is
  <2>2. i + 1 \in 1..Len(q) + 1
    BY <1>1, <2>1
  <2> QED
    BY <1>4, <1>5, <2>2
<1>6. AddsUndone(q, s) /\ ~Is(e, "SADD", s) => AddsUndone(p, s)
  BY <1>3 DEF AddsUndone
<1>7. RemovedFrom(q, 1, s) => RemovedFrom(p, 1, s)
  BY <1>2
<1>8. ASSUME Is(e, "SREM", s) PROVE RemovedFrom(p, 1, s) /\ AddsUndone(p, s)
  <2>1. 1 \in 1..Len(q) + 1
    BY <1>1
  <2> QED
    BY <1>4, <1>5, <1>8, <2>1 DEF AddsUndone
<1> QED
  BY <1>6, <1>7, <1>8 DEF p

\* A command that adds nobody, or the removal of its own socket, at the end of
\* the queue of node n.
LEMMA EnqueueKeeps ==
    ASSUME TypeInv, NEW n \in Nodes, NEW e \in Cmd,
           cmds' = [cmds EXCEPT ![n] = Append(cmds[n], e)],
           UNCHANGED <<conns, blamed>>, NEW s \in Sockets, SocketLeaves(s),
           state'[s] = "gone" => state[s] = "gone",
           ~Is(e, "SADD", s)
    PROVE  SocketLeaves(s)'
<1>1. /\ cmds \in [Nodes -> Seq(Cmd)] /\ cmds[n] \in Seq(Cmd)
      /\ Home[s] \in Nodes
  BY RedisAssumption DEF TypeInv, TypeOK
<1>2. CASE Home[s] = n
  <2>1. cmds'[Home[s]] = Append(cmds[n], e)
    BY <1>1, <1>2
  <2>2. /\ AddsUndone(cmds[n], s) => AddsUndone(Append(cmds[n], e), s)
        /\ RemovedFrom(cmds[n], 1, s) => RemovedFrom(Append(cmds[n], e), 1, s)
    BY <1>1, AppendUndone
  <2> QED
    BY <1>2, <2>1, <2>2 DEF SocketLeaves
<1>3. CASE Home[s] # n
  <2>1. cmds'[Home[s]] = cmds[Home[s]]
    BY <1>1, <1>3
  <2> QED
    BY <2>1 DEF SocketLeaves
<1> QED
  BY <1>2, <1>3

LEMMA GhostStep ==
    ASSUME TypeInv, GhostInv, [Next]_vars
    PROVE  GhostInv'
<1>1. /\ TypeOK /\ cmds \in [Nodes -> Seq(Cmd)] /\ conns \in [Users -> SUBSET Sockets]
      /\ state \in [Sockets -> {"new", "up", "gone"}]
      /\ \A s \in Sockets : Home[s] \in Nodes /\ Owner[s] \in Users
  BY RedisAssumption DEF TypeInv, TypeOK
<1>2. ASSUME NEW s \in Sockets, Connect(s)
      PROVE  GhostInv'
  <2> DEFINE e == [op |-> "SADD", socket |-> s]
  <2>1. /\ cmds' = [cmds EXCEPT ![Home[s]] = Append(cmds[Home[s]], e)]
        /\ state' = [state EXCEPT ![s] = "up"] /\ UNCHANGED <<conns, blamed>>
    BY <1>2 DEF Connect, Send
  <2>2. e \in Cmd /\ e.socket = s
    BY DEF Cmd, Ops
  <2> HIDE DEF e
  <2>3. ASSUME NEW t \in Sockets PROVE SocketLeaves(t)'
    <3>1. CASE t = s
      <4>1. state'[t] = "up"
        BY <1>1, <2>1, <3>1
      <4> QED
        BY <4>1 DEF SocketLeaves
    <3>2. CASE t # s
      <4>1. state'[t] = state[t] /\ ~Is(e, "SADD", t) /\ SocketLeaves(t)
        BY <1>1, <2>1, <2>2, <3>2 DEF Is, GhostInv
      <4> QED
        BY <1>1, <2>1, <2>2, <4>1, EnqueueKeeps
    <3> QED
      BY <3>1, <3>2
  <2> QED
    BY <2>3 DEF GhostInv
<1>3. ASSUME NEW s \in Sockets, Disconnect(s)
      PROVE  GhostInv'
  <2> DEFINE e == [op |-> "SREM", socket |-> s]
  <2>1. /\ cmds' = [cmds EXCEPT ![Home[s]] = Append(cmds[Home[s]], e)]
        /\ state' = [state EXCEPT ![s] = "gone"] /\ UNCHANGED <<conns, blamed>>
    BY <1>3 DEF Disconnect, Send
  <2>2. e \in Cmd /\ e.socket = s /\ e.op = "SREM"
    BY DEF Cmd, Ops
  <2> HIDE DEF e
  <2>3. ASSUME NEW t \in Sockets PROVE SocketLeaves(t)'
    <3>1. CASE t = s
      <4>1. cmds'[Home[t]] = Append(cmds[Home[t]], e) /\ cmds[Home[t]] \in Seq(Cmd)
        BY <1>1, <2>1, <3>1
      <4>2. Is(e, "SREM", t)
        BY <2>2, <3>1 DEF Is
      <4>3. RemovedFrom(cmds'[Home[t]], 1, t) /\ AddsUndone(cmds'[Home[t]], t)
        BY <2>2, <4>1, <4>2, AppendUndone
      <4> QED
        BY <4>3 DEF SocketLeaves
    <3>2. CASE t # s
      <4>1. state'[t] = state[t] /\ ~Is(e, "SADD", t) /\ SocketLeaves(t)
        BY <1>1, <2>1, <2>2, <3>2 DEF Is, GhostInv
      <4> QED
        BY <1>1, <2>1, <2>2, <4>1, EnqueueKeeps
    <3> QED
      BY <3>1, <3>2
  <2> QED
    BY <2>3 DEF GhostInv
<1>4. ASSUME NEW n \in Nodes, Execute(n) \/ Fail(n)
      PROVE  GhostInv'
  <2> DEFINE c == Head(cmds[n])
  <2>1. /\ cmds[n] # <<>> /\ cmds' = [cmds EXCEPT ![n] = Tail(cmds[n])]
        /\ UNCHANGED state
        /\ Apply(c) \/ UNCHANGED <<conns, online>>
    BY <1>4 DEF Execute, Fail
  <2>2. c \in Cmd /\ Home[c.socket] = n
    BY <2>1, Dequeue
  <2>3. blamed \subseteq blamed'
    BY <1>4 DEF Execute, Fail
  <2>4. Apply(c) \/ (UNCHANGED conns /\ (c.op = "SREM" => Owner[c.socket] \in blamed'))
    BY <1>4, <2>1 DEF Execute, Fail, Removals
  <2> HIDE DEF c
  <2>5. ASSUME NEW s \in Sockets, s \in conns'[Owner[s]]
        PROVE  \/ s \in conns[Owner[s]] /\ (Is(c, "SREM", s) => Owner[s] \in blamed')
               \/ Is(c, "SADD", s)
    <3>1. CASE Apply(c)
      <4>1. /\ \A t \in conns'[Owner[s]] : t \in conns[Owner[s]] \/ (Owner[t] = Owner[s] /\ Is(c, "SADD", t))
            /\ \A t \in conns'[Owner[s]] : ~Is(c, "SREM", t) \/ Owner[t] # Owner[s]
        BY <1>1, <2>2, <3>1, ApplyConns
      <4> QED
        BY <2>5, <4>1
    <3>2. CASE UNCHANGED conns /\ (c.op = "SREM" => Owner[c.socket] \in blamed')
      BY <2>5, <3>2 DEF Is
    <3> QED
      BY <2>4, <3>1, <3>2
  <2>6. ASSUME NEW s \in Sockets PROVE SocketLeaves(s)'
    <3> SUFFICES ASSUME state'[s] = "gone", Owner[s] \notin blamed'
                 PROVE  /\ s \in conns'[Owner[s]] => RemovedFrom(cmds'[Home[s]], 1, s)
                        /\ AddsUndone(cmds'[Home[s]], s)
      BY DEF SocketLeaves
    <3>1. /\ s \in conns[Owner[s]] => RemovedFrom(cmds[Home[s]], 1, s)
          /\ AddsUndone(cmds[Home[s]], s)
      BY <2>1, <2>3 DEF GhostInv, SocketLeaves
    <3>2. CASE Home[s] = n
      <4>1. cmds'[Home[s]] = Tail(cmds[n]) /\ cmds[n] \in Seq(Cmd)
        BY <1>1, <2>1, <3>2
      <4>2. /\ AddsUndone(Tail(cmds[n]), s)
            /\ Is(c, "SADD", s) => RemovedFrom(Tail(cmds[n]), 1, s)
            /\ RemovedFrom(cmds[n], 1, s) => Is(c, "SREM", s) \/ RemovedFrom(Tail(cmds[n]), 1, s)
        BY <2>1, <3>1, <3>2, <4>1, TailUndone DEF c
      <4> QED
        BY <2>5, <3>1, <3>2, <4>1, <4>2
    <3>3. CASE Home[s] # n
      <4>1. cmds'[Home[s]] = cmds[Home[s]] /\ c.socket # s
        BY <1>1, <2>1, <2>2, <3>3
      <4> QED
        BY <2>5, <3>1, <4>1 DEF Is
    <3> QED
      BY <3>2, <3>3
  <2> QED
    BY <2>6 DEF GhostInv
<1>5. ASSUME NEW n \in Nodes, HandleReply(n)
      PROVE  GhostInv'
  <2> DEFINE r == Head(replies[n])
  <2>1. /\ replies[n] # <<>> /\ cmds' = [cmds EXCEPT ![n] = Continue(r, cmds[n])]
        /\ UNCHANGED <<state, conns, blamed>>
    BY <1>5 DEF HandleReply
  <2>2. r.socket \in Sockets
    <3>1. replies[n] \in Seq(Reply)
      BY <1>1 DEF TypeOK
    <3>2. r \in Reply
      BY <2>1, <3>1, TailKeeps
    <3> QED
      BY <3>2 DEF Reply
  <2> HIDE DEF r
  <2>3. CASE Continue(r, cmds[n]) = cmds[n]
    <3>1. cmds' = cmds
      BY <1>1, <2>1, <2>3
    <3> QED
      BY <2>1, <3>1 DEF GhostInv, SocketLeaves
  <2>4. ASSUME NEW op \in {"SCARD up", "SADD online", "SCARD down", "SREM online"},
               Continue(r, cmds[n]) = Append(cmds[n], [op |-> op, socket |-> r.socket])
        PROVE  GhostInv'
    <3> DEFINE e == [op |-> op, socket |-> r.socket]
    <3>1. e \in Cmd /\ \A s \in Sockets : ~Is(e, "SADD", s)
      BY <2>2 DEF Cmd, Ops, Is
    <3>2. cmds' = [cmds EXCEPT ![n] = Append(cmds[n], e)]
      BY <2>1, <2>4
    <3> HIDE DEF e
    <3>3. ASSUME NEW s \in Sockets PROVE SocketLeaves(s)'
      <4>1. SocketLeaves(s) /\ state'[s] = state[s] /\ ~Is(e, "SADD", s)
        BY <2>1, <3>1 DEF GhostInv
      <4> QED
        BY <2>1, <3>1, <3>2, <4>1, EnqueueKeeps
    <3> QED
      BY <3>3 DEF GhostInv
  <2> QED
    BY <2>3, <2>4, Continues
<1>6. ASSUME NEW n \in Nodes, Crash(n)
      PROVE  GhostInv'
  <2>1. PICK k \in 0..Len(cmds[n]) : cmds' = [cmds EXCEPT ![n] = SubSeq(cmds[n], 1, k)]
    BY <1>6 DEF Crash
  <2>2. /\ state' = [s \in Sockets |->
                       IF Home[s] = n /\ state[s] = "up" THEN "gone" ELSE state[s]]
        /\ blamed' = blamed \cup {Owner[s] : s \in InUse(n)}
        /\ UNCHANGED conns
    BY <1>6 DEF Crash
  <2>3. ASSUME NEW s \in Sockets PROVE SocketLeaves(s)'
    <3> SUFFICES ASSUME state'[s] = "gone", Owner[s] \notin blamed'
                 PROVE  /\ s \in conns'[Owner[s]] => RemovedFrom(cmds'[Home[s]], 1, s)
                        /\ AddsUndone(cmds'[Home[s]], s)
      BY DEF SocketLeaves
    <3>1. s \notin InUse(n) /\ Owner[s] \notin blamed
      BY <2>2
    <3>2. state[s] = "gone"
      BY <2>2, <3>1 DEF InUse
    <3>3. /\ s \in conns[Owner[s]] => RemovedFrom(cmds[Home[s]], 1, s)
          /\ AddsUndone(cmds[Home[s]], s)
      BY <3>1, <3>2 DEF GhostInv, SocketLeaves
    <3>4. CASE Home[s] = n
      <4>1. \A i \in DOMAIN cmds[n] : cmds[n][i].socket # s
        BY <3>1, <3>4 DEF InUse
      <4>2. cmds[n] \in Seq(Cmd) /\ DOMAIN cmds[n] = 1..Len(cmds[n])
        BY <1>1
      <4>3. ~RemovedFrom(cmds[n], 1, s)
        BY <4>1, <4>2 DEF RemovedFrom, Is
      <4>4. /\ Len(SubSeq(cmds[n], 1, k)) = k
            /\ \A i \in 1..k : i \in 1..Len(cmds[n]) /\ SubSeq(cmds[n], 1, k)[i] = cmds[n][i]
        BY <4>2, PrefixKeeps
      <4>5. AddsUndone(SubSeq(cmds[n], 1, k), s)
        BY <4>1, <4>2, <4>4 DEF AddsUndone, Is
      <4>6. cmds'[Home[s]] = SubSeq(cmds[n], 1, k)
        BY <1>1, <2>1, <3>4
      <4> QED
        BY <2>2, <3>3, <3>4, <4>3, <4>5, <4>6
    <3>5. CASE Home[s] # n
      <4>1. cmds'[Home[s]] = cmds[Home[s]]
        BY <1>1, <2>1, <3>5
      <4> QED
        BY <2>2, <3>3, <4>1
    <3> QED
      BY <3>4, <3>5
  <2> QED
    BY <2>3 DEF GhostInv
<1>7. ASSUME NEW u \in Users, Expire(u)
      PROVE  GhostInv'
  <2>1. conns' = [conns EXCEPT ![u] = {}] /\ UNCHANGED <<state, cmds, blamed>>
    BY <1>7 DEF Expire
  <2>2. \A s \in Sockets : s \in conns'[Owner[s]] => s \in conns[Owner[s]]
    BY <1>1, <2>1
  <2> QED
    BY <2>1, <2>2 DEF GhostInv, SocketLeaves
<1>8. CASE UNCHANGED vars
  BY <1>8 DEF GhostInv, SocketLeaves, vars
<1> QED
  BY <1>2, <1>3, <1>4, <1>5, <1>6, <1>7, <1>8 DEF Next

\* However connects, disconnects, crashes, failed commands and expiries mix, on
\* any number of nodes: once Redis and the nodes are done, ps:sockets of a user
\* whom no crash or failed disconnect touched holds only sockets that are up
\* (RedisPresenceStore.connect and disconnect).
THEOREM NoGhostsAlways == Spec => []NoGhostSockets
<1>1. Init => GhostInv
  BY DEF Init, GhostInv, SocketLeaves
<1>2. TypeInv /\ GhostInv => NoGhostSockets
  <2> SUFFICES ASSUME TypeInv, GhostInv, Quiet, NEW u \in Users, u \notin blamed,
                      NEW s \in conns[u]
               PROVE  s \in Up(u)
    BY DEF NoGhostSockets
  <2>1. s \in Sockets /\ Owner[s] = u /\ state[s] \in {"up", "gone"} /\ Home[s] \in Nodes
    BY RedisAssumption DEF TypeInv, TypeOK
  <2>2. cmds[Home[s]] = <<>>
    BY <2>1 DEF Quiet
  <2>3. ~RemovedFrom(cmds[Home[s]], 1, s)
    BY <2>2 DEF RemovedFrom
  <2>4. state[s] # "gone"
    BY <2>1, <2>3 DEF GhostInv, SocketLeaves
  <2> QED
    BY <2>1, <2>4 DEF Up
<1> QED
  BY <1>1, <1>2, AlwaysTyped, GhostStep, PTL DEF Spec

-------------------------------------------------------------------------------
(* Staying online.                                                             *)

Has(q, A) == \E j \in 1..Len(q) : q[j] \in A

\* An element of B comes after all elements of A.
LastIn(q, A, B) == \E j \in 1..Len(q) :
    q[j] \in B /\ \A k \in 1..Len(q) : q[k] \in A => k < j

LEMMA HasTail ==
    ASSUME NEW S, NEW q \in Seq(S), q # <<>>, NEW A
    PROVE  Has(q, A) <=> (Head(q) \in A \/ Has(Tail(q), A))
<1>1. /\ Len(Tail(q)) = Len(q) - 1 /\ Len(q) \in Nat \ {0} /\ Head(q) = q[1]
      /\ \A k \in 1..Len(q) - 1 : Tail(q)[k] = q[k + 1]
  BY TailKeeps
<1>2. ASSUME Has(q, A), Head(q) \notin A PROVE Has(Tail(q), A)
  <2>1. PICK j \in 1..Len(q) : q[j] \in A
    BY <1>2 DEF Has
  <2>2. j - 1 \in 1..Len(Tail(q)) /\ (j - 1) + 1 = j
    BY <1>1, <1>2, <2>1
  <2>3. Tail(q)[j - 1] \in A
    BY <1>1, <2>1, <2>2
  <2> QED
    BY <2>2, <2>3 DEF Has
<1>3. ASSUME Head(q) \in A PROVE Has(q, A)
  <2>1. 1 \in 1..Len(q)
    BY <1>1
  <2> QED
    BY <1>1, <1>3, <2>1 DEF Has
<1>4. ASSUME Has(Tail(q), A) PROVE Has(q, A)
  <2>1. PICK j \in 1..Len(Tail(q)) : Tail(q)[j] \in A
    BY <1>4 DEF Has
  <2>2. j + 1 \in 1..Len(q) /\ q[j + 1] \in A
    BY <1>1, <2>1
  <2> QED
    BY <2>2 DEF Has
<1> QED
  BY <1>2, <1>3, <1>4

LEMMA HasAppend ==
    ASSUME NEW S, NEW q \in Seq(S), NEW e \in S, NEW A
    PROVE  Has(Append(q, e), A) <=> (Has(q, A) \/ e \in A)
<1> DEFINE p == Append(q, e)
<1>1. /\ Len(p) = Len(q) + 1 /\ Len(q) \in Nat
      /\ p[Len(q) + 1] = e /\ \A k \in 1..Len(q) : p[k] = q[k]
  BY AppendKeeps
<1> HIDE DEF p
<1>2. \A j \in 1..Len(p) : j \in 1..Len(q) \/ j = Len(q) + 1
  BY <1>1
<1>3. Len(q) + 1 \in 1..Len(p) /\ \A j \in 1..Len(q) : j \in 1..Len(p)
  BY <1>1
<1> QED
  BY <1>1, <1>2, <1>3 DEF Has, p

LEMMA LastTail ==
    ASSUME NEW S, NEW q \in Seq(S), q # <<>>, NEW A, NEW B, LastIn(q, A, B)
    PROVE  LastIn(Tail(q), A, B) \/ (Head(q) \in B /\ ~Has(Tail(q), A))
<1>1. /\ Len(Tail(q)) = Len(q) - 1 /\ Len(q) \in Nat \ {0} /\ Head(q) = q[1]
      /\ \A k \in 1..Len(q) - 1 : Tail(q)[k] = q[k + 1]
  BY TailKeeps
<1>2. PICK j \in 1..Len(q) : q[j] \in B /\ \A k \in 1..Len(q) : q[k] \in A => k < j
  BY DEF LastIn
<1>3. CASE j = 1
  <2>1. \A k \in 1..Len(q) : q[k] \notin A
    BY <1>2, <1>3
  <2>2. ~Has(q, A)
    BY <2>1 DEF Has
  <2> QED
    BY <1>1, <1>2, <1>3, <2>2, HasTail
<1>4. CASE j # 1
  <2>1. j - 1 \in 1..Len(Tail(q)) /\ (j - 1) + 1 = j
    BY <1>1, <1>4
  <2>2. Tail(q)[j - 1] \in B
    BY <1>1, <1>2, <2>1
  <2>3. ASSUME NEW k \in 1..Len(Tail(q)), Tail(q)[k] \in A PROVE k < j - 1
    <3>1. k + 1 \in 1..Len(q) /\ q[k + 1] \in A
      BY <1>1, <2>3
    <3> QED
      BY <1>2, <3>1
  <2> QED
    BY <2>1, <2>2, <2>3 DEF LastIn
<1> QED
  BY <1>3, <1>4

LEMMA LastAppend ==
    ASSUME NEW S, NEW q \in Seq(S), NEW e \in S, NEW A, NEW B, e \notin A,
           LastIn(q, A, B) \/ e \in B
    PROVE  LastIn(Append(q, e), A, B)
<1> DEFINE p == Append(q, e)
<1>1. /\ Len(p) = Len(q) + 1 /\ Len(q) \in Nat
      /\ p[Len(q) + 1] = e /\ \A k \in 1..Len(q) : p[k] = q[k]
  BY AppendKeeps
<1> HIDE DEF p
<1>2. \A k \in 1..Len(p) : p[k] \in A => k \in 1..Len(q)
  BY <1>1
<1>3. CASE e \in B
  <2>1. Len(q) + 1 \in 1..Len(p) /\ p[Len(q) + 1] \in B
    BY <1>1, <1>3
  <2>2. \A k \in 1..Len(p) : p[k] \in A => k < Len(q) + 1
    BY <1>1, <1>2
  <2> QED
    BY <2>1, <2>2 DEF LastIn, p
<1>4. CASE LastIn(q, A, B)
  <2>1. PICK j \in 1..Len(q) : q[j] \in B /\ \A k \in 1..Len(q) : q[k] \in A => k < j
    BY <1>4 DEF LastIn
  <2>2. j \in 1..Len(p) /\ p[j] \in B
    BY <1>1, <2>1
  <2>3. \A k \in 1..Len(p) : p[k] \in A => k < j
    BY <1>1, <1>2, <2>1
  <2> QED
    BY <2>2, <2>3 DEF LastIn, p
<1> QED
  BY <1>3, <1>4

Cmds(op, u) == {c \in Cmd : c.op = op /\ Owner[c.socket] = u}

\* Replies that make a node put u into ps:online, count its sockets once more
\* after a removal, and take it out of ps:online.
Firsts(u) == {r \in Reply : r.op = "SCARD up" /\ Owner[r.socket] = u /\ r.ok /\ r.count = 1}
Removed(u) == {r \in Reply : r.op = "SREM" /\ Owner[r.socket] = u /\ r.ok}
Empties(u) == {r \in Reply : r.op = "SCARD down" /\ Owner[r.socket] = u /\ r.ok /\ r.count = 0}

\* How a user without a socket goes: what its node has sent (q) and will handle
\* (p) ends with its last removal, or ps:sockets is empty (C) and the count after
\* the last removal, its answer and SREM ps:online follow one another behind
\* everything that puts the user into ps:online (O) - or it is out.
Away(q, p, C, O, u) ==
    \/ Has(q, Cmds("SREM", u))
    \/ /\ C = {}
       /\ ~Has(q, Cmds("SADD", u))
       /\ \/ LastIn(p, Firsts(u), Removed(u))
          \/ /\ ~Has(p, Firsts(u))
             /\ \/ LastIn(q, Cmds("SADD online", u), Cmds("SCARD down", u))
                \/ /\ ~Has(q, Cmds("SADD online", u))
                   /\ \/ Has(p, Empties(u))
                      \/ Has(q, Cmds("SREM online", u))
                      \/ u \notin O

\* A command that neither adds a socket of u nor puts u into ps:online.
LEMMA AwaySends ==
    ASSUME NEW q \in Seq(Cmd), NEW p, NEW C, NEW O, NEW u, NEW e \in Cmd,
           Away(q, p, C, O, u), e \notin Cmds("SADD", u), e \notin Cmds("SADD online", u)
    PROVE  Away(Append(q, e), p, C, O, u)
<1>1. \A A : Has(Append(q, e), A) <=> (Has(q, A) \/ e \in A)
  BY HasAppend
<1>2. LastIn(q, Cmds("SADD online", u), Cmds("SCARD down", u)) =>
      LastIn(Append(q, e), Cmds("SADD online", u), Cmds("SCARD down", u))
  BY LastAppend
<1> QED
  BY <1>1, <1>2 DEF Away

\* Redis takes the next command c and answers r; D and P are what it makes of
\* ps:sockets and ps:online.
LEMMA AwayExecutes ==
    ASSUME NEW q \in Seq(Cmd), q # <<>>, NEW p \in Seq(Reply), NEW C, NEW D, NEW O, NEW P,
           NEW u, NEW r \in Reply, r.op = Head(q).op, r.socket = Head(q).socket,
           Away(q, p, C, O, u),
           Owner[r.socket] # u => D = C /\ (u \in P <=> u \in O),
           Owner[r.socket] = u =>
              /\ C = {} /\ r.op # "SADD" => D = {} /\ r \notin Firsts(u)
              /\ r.op \notin {"SADD online", "SREM online"} => (u \in P <=> u \in O)
              /\ r.op = "SREM" =>
                    /\ r.ok
                    /\ Has(Tail(q), Cmds("SREM", u)) \/ (D = {} /\ ~Has(Tail(q), Cmds("SADD", u)))
              /\ r.op = "SCARD down" => r.ok /\ (C = {} => r.count = 0)
              /\ r.op = "SREM online" => u \notin P
    PROVE  Away(Tail(q), Append(p, r), D, P, u)
<1> DEFINE c == Head(q)
           t == Tail(q)
           a == Append(p, r)
<1>1. c \in Cmd /\ t \in Seq(Cmd) /\ c.op = r.op /\ c.socket = r.socket
  BY TailKeeps
<1>2. \A A : Has(q, A) <=> (c \in A \/ Has(t, A))
  BY HasTail
<1>3. \A A : Has(a, A) <=> (Has(p, A) \/ r \in A)
  BY HasAppend
<1>4. LastIn(q, Cmds("SADD online", u), Cmds("SCARD down", u)) =>
      \/ LastIn(t, Cmds("SADD online", u), Cmds("SCARD down", u))
      \/ c \in Cmds("SCARD down", u) /\ ~Has(t, Cmds("SADD online", u))
  BY LastTail
<1>5. \A op : c \in Cmds(op, u) <=> (r.op = op /\ Owner[r.socket] = u)
  BY <1>1 DEF Cmds
<1> HIDE DEF c, t, a
<1>6. CASE Has(q, Cmds("SREM", u))
  <2>1. CASE Has(t, Cmds("SREM", u))
    BY <2>1 DEF Away, t
  <2>2. CASE ~Has(t, Cmds("SREM", u))
    <3>1. r.op = "SREM" /\ Owner[r.socket] = u
      BY <1>2, <1>5, <1>6, <2>2
    <3>2. r.ok /\ D = {} /\ ~Has(t, Cmds("SADD", u))
      BY <2>2, <3>1 DEF t
    <3>3. r \in Removed(u) /\ r \notin Firsts(u)
      BY <3>1, <3>2 DEF Removed, Firsts
    <3>4. LastIn(a, Firsts(u), Removed(u))
      BY <3>3, LastAppend DEF a
    <3> QED
      BY <3>2, <3>4 DEF Away, t, a
  <2> QED
    BY <2>1, <2>2
<1>7. CASE ~Has(q, Cmds("SREM", u))
  <2>1. /\ C = {} /\ ~Has(q, Cmds("SADD", u))
        /\ \/ LastIn(p, Firsts(u), Removed(u))
           \/ /\ ~Has(p, Firsts(u))
              /\ \/ LastIn(q, Cmds("SADD online", u), Cmds("SCARD down", u))
                 \/ /\ ~Has(q, Cmds("SADD online", u))
                    /\ Has(p, Empties(u)) \/ Has(q, Cmds("SREM online", u)) \/ u \notin O
    BY <1>7 DEF Away
  <2>2. ~Has(t, Cmds("SADD", u)) /\ ~(r.op = "SADD" /\ Owner[r.socket] = u)
    BY <1>2, <1>5, <2>1
  <2>3. D = {} /\ r \notin Firsts(u)
    BY <2>1, <2>2 DEF Firsts
  <2>4. CASE LastIn(p, Firsts(u), Removed(u))
    <3>1. LastIn(a, Firsts(u), Removed(u))
      BY <2>3, <2>4, LastAppend DEF a
    <3> QED
      BY <2>2, <2>3, <3>1 DEF Away, t, a
  <2>5. CASE /\ ~Has(p, Firsts(u))
             /\ LastIn(q, Cmds("SADD online", u), Cmds("SCARD down", u))
    <3>1. ~Has(a, Firsts(u))
      BY <1>3, <2>3, <2>5
    <3>2. CASE LastIn(t, Cmds("SADD online", u), Cmds("SCARD down", u))
      BY <2>2, <2>3, <3>1, <3>2 DEF Away, t, a
    <3>3. CASE c \in Cmds("SCARD down", u) /\ ~Has(t, Cmds("SADD online", u))
      <4>1. r.op = "SCARD down" /\ Owner[r.socket] = u
        BY <1>5, <3>3
      <4>2. r \in Empties(u)
        BY <2>1, <4>1 DEF Empties
      <4>3. Has(a, Empties(u))
        BY <1>3, <4>2
      <4> QED
        BY <2>2, <2>3, <3>1, <3>3, <4>3 DEF Away, t, a
    <3> QED
      BY <1>4, <2>5, <3>2, <3>3
  <2>6. CASE /\ ~Has(p, Firsts(u)) /\ ~Has(q, Cmds("SADD online", u))
             /\ Has(p, Empties(u)) \/ Has(q, Cmds("SREM online", u)) \/ u \notin O
    <3>1. ~Has(a, Firsts(u)) /\ ~Has(t, Cmds("SADD online", u))
      BY <1>2, <1>3, <2>3, <2>6
    <3>2. ~(r.op = "SADD online" /\ Owner[r.socket] = u)
      BY <1>2, <1>5, <2>6
    <3>3. CASE Has(p, Empties(u))
      BY <1>3, <2>2, <2>3, <3>1, <3>3 DEF Away, t, a
    <3>4. CASE Has(t, Cmds("SREM online", u))
      BY <2>2, <2>3, <3>1, <3>4 DEF Away, t, a
    <3>5. CASE c \in Cmds("SREM online", u)
      <4>1. u \notin P
        BY <1>5, <3>5
      <4> QED
        BY <2>2, <2>3, <3>1, <4>1 DEF Away, t, a
    <3>6. CASE u \notin O /\ c \notin Cmds("SREM online", u)
      <4>1. u \notin P
        BY <1>5, <3>2, <3>6
      <4> QED
        BY <2>2, <2>3, <3>1, <4>1 DEF Away, t, a
    <3> QED
      BY <1>2, <2>6, <3>3, <3>4, <3>5, <3>6
  <2> QED
    BY <2>1, <2>4, <2>5, <2>6
<1> QED
  BY <1>6, <1>7

\* A node handles its next reply and sends what follows from it.
LEMMA AwayHandles ==
    ASSUME NEW q \in Seq(Cmd), NEW p \in Seq(Reply), p # <<>>, NEW C, NEW O, NEW u,
           Away(q, p, C, O, u)
    PROVE  Away(Continue(Head(p), q), Tail(p), C, O, u)
<1> DEFINE r == Head(p)
           t == Tail(p)
           e(op) == [op |-> op, socket |-> r.socket]
<1>1. r \in Reply /\ t \in Seq(Reply)
  BY TailKeeps
<1>2. \A A : Has(p, A) <=> (r \in A \/ Has(t, A))
  BY HasTail
<1>3. LastIn(p, Firsts(u), Removed(u)) =>
      LastIn(t, Firsts(u), Removed(u)) \/ (r \in Removed(u) /\ ~Has(t, Firsts(u)))
  BY LastTail
<1> HIDE DEF r, t
<1>4. r.socket \in Sockets
  BY <1>1 DEF Reply
<1>5. \A op \in Ops : e(op) \in Cmd /\ e(op).op = op /\ e(op).socket = r.socket
  BY <1>4 DEF Cmd
<1>6. \A op \in Ops : \A x : e(op) \in Cmds(x, u) <=> (x = op /\ Owner[r.socket] = u)
  BY <1>5 DEF Cmds
<1>7. \A op \in Ops : \A A : Has(Append(q, e(op)), A) <=> (Has(q, A) \/ e(op) \in A)
  BY <1>5, HasAppend
<1>8. CASE r \in Removed(u)
  <2>1. Continue(r, q) = Append(q, e("SCARD down"))
    BY <1>8 DEF Continue, Send, Removed
  <2>2. "SCARD down" \in Ops /\ Owner[r.socket] = u
    BY <1>8 DEF Ops, Removed
  <2>3. /\ e("SCARD down") \in Cmd /\ e("SCARD down") \in Cmds("SCARD down", u)
        /\ e("SCARD down") \notin Cmds("SADD online", u)
        /\ e("SCARD down") \notin Cmds("SADD", u)
    BY <1>5, <1>6, <2>2
  <2> DEFINE f == e("SCARD down")
  <2> HIDE DEF e, f
  <2>4. LastIn(Append(q, f), Cmds("SADD online", u), Cmds("SCARD down", u))
    BY <2>3, LastAppend DEF f
  <2>5. \A A : Has(Append(q, f), A) <=> (Has(q, A) \/ f \in A)
    BY <1>7, <2>2 DEF f
  <2>6. Away(Append(q, f), t, C, O, u)
    BY <1>2, <1>3, <2>3, <2>4, <2>5 DEF Away, f
  <2> QED
    BY <2>1, <2>6 DEF r, t, f
<1>9. CASE r \in Empties(u)
  <2>1. Continue(r, q) = Append(q, e("SREM online"))
    BY <1>9 DEF Continue, Send, Empties, LastCount
  <2>2. "SREM online" \in Ops /\ Owner[r.socket] = u
    BY <1>9 DEF Ops, Empties
  <2>3. /\ e("SREM online") \in Cmd /\ e("SREM online") \in Cmds("SREM online", u)
        /\ e("SREM online") \notin Cmds("SADD online", u)
        /\ e("SREM online") \notin Cmds("SADD", u)
    BY <1>5, <1>6, <2>2
  <2> DEFINE f == e("SREM online")
  <2> HIDE DEF e, f
  <2>4. LastIn(q, Cmds("SADD online", u), Cmds("SCARD down", u)) =>
        LastIn(Append(q, f), Cmds("SADD online", u), Cmds("SCARD down", u))
    BY <2>3, LastAppend DEF f
  <2>5. \A A : Has(Append(q, f), A) <=> (Has(q, A) \/ f \in A)
    BY <1>7, <2>2 DEF f
  <2>6. r \notin Removed(u)
    BY <1>9 DEF Empties, Removed
  <2>7. Away(Append(q, f), t, C, O, u)
    BY <1>2, <1>3, <2>3, <2>4, <2>5, <2>6 DEF Away, f
  <2> QED
    BY <2>1, <2>7 DEF r, t, f
<1>10. CASE r \in Firsts(u)
  <2>1. Continue(r, q) = Append(q, e("SADD online"))
    BY <1>10 DEF Continue, Send, Firsts
  <2>2. "SADD online" \in Ops /\ Owner[r.socket] = u
    BY <1>10 DEF Ops, Firsts
  <2>3. e("SADD online") \in Cmd /\ e("SADD online") \notin Cmds("SADD", u)
    BY <1>5, <1>6, <2>2
  <2> DEFINE f == e("SADD online")
  <2> HIDE DEF e, f
  <2>4. \A A : Has(Append(q, f), A) <=> (Has(q, A) \/ f \in A)
    BY <1>7, <2>2 DEF f
  <2>5. r \notin Removed(u)
    BY <1>10 DEF Firsts, Removed
  <2>6. Away(Append(q, f), t, C, O, u)
    BY <1>2, <1>3, <1>10, <2>3, <2>4, <2>5 DEF Away, f
  <2> QED
    BY <2>1, <2>6 DEF r, t, f
<1>11. CASE r \notin Removed(u) \cup Empties(u) \cup Firsts(u)
  <2>1. Away(q, t, C, O, u)
    BY <1>2, <1>3, <1>11 DEF Away
  <2>2. \/ Continue(r, q) = q
        \/ \E op \in {"SCARD up", "SADD online", "SCARD down", "SREM online"} :
              Continue(r, q) = Append(q, e(op)) /\ (op = "SADD online" => Owner[r.socket] # u)
    <3>1. CASE r.op = "SADD"
      BY <3>1 DEF Continue, Send
    <3>2. CASE r.op = "SCARD up"
      BY <1>1, <1>11, <3>2 DEF Continue, Send, Firsts
    <3>3. CASE r.op \notin {"SADD", "SCARD up"}
      BY <3>3 DEF Continue, Send
    <3> QED
      BY <3>1, <3>2, <3>3
  <2>3. CASE Continue(r, q) = q
    BY <2>1, <2>3 DEF r, t
  <2>4. ASSUME NEW op \in {"SCARD up", "SADD online", "SCARD down", "SREM online"},
               Continue(r, q) = Append(q, e(op)), op = "SADD online" => Owner[r.socket] # u
        PROVE  Away(Continue(r, q), t, C, O, u)
    <3>1. op \in Ops /\ op # "SADD"
      BY DEF Ops
    <3>2. e(op) \in Cmd /\ e(op) \notin Cmds("SADD", u) /\ e(op) \notin Cmds("SADD online", u)
      BY <1>5, <1>6, <2>4, <3>1
    <3> HIDE DEF e
    <3> QED
      BY <2>1, <2>4, <3>2, AwaySends
  <2> QED
    BY <2>2, <2>3, <2>4 DEF r, t
<1> QED
  BY <1>8, <1>9, <1>10, <1>11

\* All sockets of u so far are on node n.
Alone(st, n, u) == \A s \in Sockets : Owner[s] = u /\ st[s] # "new" => Home[s] = n

AwayInv == \A n \in Nodes, u \in Users \ blamed :
    Alone(state, n, u) /\ Up(u) = {} => Away(cmds[n], replies[n], conns[u], online, u)

\* Whoever a dead node still has commands for is blamed.
DeadInv == \A n \in dead :
    /\ \A s \in Sockets : Home[s] = n => state[s] # "up"
    /\ \A k \in 1..Len(cmds[n]) : Owner[cmds[n][k].socket] \in blamed

CameInv == \A u \in online : \E s \in Sockets : Owner[s] = u /\ state[s] # "new"

LEMMA DeadStep ==
    ASSUME TypeInv, DeadInv, [Next]_vars
    PROVE  DeadInv'
<1>1. /\ cmds \in [Nodes -> Seq(Cmd)] /\ replies \in [Nodes -> Seq(Reply)]
      /\ state \in [Sockets -> {"new", "up", "gone"}]
      /\ dead \subseteq Nodes /\ \A n \in dead : replies[n] = <<>>
      /\ \A s \in Sockets : Home[s] \in Nodes
  BY RedisAssumption DEF TypeInv, TypeOK
<1>2. ASSUME NEW s \in Sockets, Connect(s) \/ Disconnect(s)
      PROVE  DeadInv'
  <2>1. PICK op \in {"SADD", "SREM"}, new \in {"up", "gone"} :
           /\ cmds' = [cmds EXCEPT ![Home[s]] = Append(cmds[Home[s]], [op |-> op, socket |-> s])]
           /\ state' = [state EXCEPT ![s] = new]
           /\ UNCHANGED <<dead, blamed>>
    BY <1>2 DEF Connect, Disconnect, Send
  <2>2. Home[s] \notin dead
    BY <1>2 DEF Connect, Disconnect, DeadInv
  <2>3. \A n \in dead : cmds'[n] = cmds[n]
    BY <1>1, <2>1, <2>2
  <2>4. \A n \in dead, t \in Sockets : Home[t] = n => state'[t] = state[t]
    BY <1>1, <2>1, <2>2
  <2>5. \A n \in dead : \A t \in Sockets : Home[t] = n => state'[t] # "up"
    BY <2>4 DEF DeadInv
  <2>6. \A n \in dead : \A k \in 1..Len(cmds'[n]) : Owner[cmds'[n][k].socket] \in blamed
    BY <2>3 DEF DeadInv
  <2> QED
    BY <2>1, <2>5, <2>6 DEF DeadInv
<1>3. ASSUME NEW m \in Nodes, Execute(m)
      PROVE  DeadInv'
  <2>1. /\ cmds[m] # <<>> /\ cmds' = [cmds EXCEPT ![m] = Tail(cmds[m])]
        /\ UNCHANGED <<state, dead, blamed>>
    BY <1>3 DEF Execute
  <2>2. \A n \in Nodes : n # m => cmds'[n] = cmds[n]
    BY <1>1, <2>1
  <2>3. cmds'[m] = Tail(cmds[m]) /\ cmds[m] \in Seq(Cmd)
    BY <1>1, <2>1
  <2>4. \A k \in 1..Len(cmds'[m]) : k + 1 \in 1..Len(cmds[m]) /\ cmds'[m][k] = cmds[m][k + 1]
    <3>1. /\ Len(Tail(cmds[m])) = Len(cmds[m]) - 1 /\ Len(cmds[m]) \in Nat \ {0}
          /\ \A k \in 1..Len(cmds[m]) - 1 : Tail(cmds[m])[k] = cmds[m][k + 1]
      BY <2>1, <2>3, TailKeeps
    <3> QED
      BY <2>3, <3>1
  <2> QED
    BY <1>1, <2>1, <2>2, <2>4 DEF DeadInv
<1>4. ASSUME NEW m \in Nodes, Fail(m) \/ HandleReply(m)
      PROVE  DeadInv'
  <2>1. m \notin dead /\ UNCHANGED <<state, dead>> /\ blamed \subseteq blamed'
    BY <1>1, <1>4 DEF Fail, HandleReply
  <2>2. \A n \in Nodes : n # m => cmds'[n] = cmds[n]
    BY <1>1, <1>4 DEF Fail, HandleReply
  <2> QED
    BY <1>1, <2>1, <2>2 DEF DeadInv
<1>5. ASSUME NEW m \in Nodes, Crash(m)
      PROVE  DeadInv'
  <2>1. PICK k \in 0..Len(cmds[m]) : cmds' = [cmds EXCEPT ![m] = SubSeq(cmds[m], 1, k)]
    BY <1>5 DEF Crash
  <2>2. /\ state' = [s \in Sockets |->
                       IF Home[s] = m /\ state[s] = "up" THEN "gone" ELSE state[s]]
        /\ blamed' = blamed \cup {Owner[s] : s \in InUse(m)}
        /\ dead' = dead \cup {m}
    BY <1>5 DEF Crash
  <2>3. ASSUME NEW n \in dead' PROVE \A s \in Sockets : Home[s] = n => state'[s] # "up"
    BY <2>2, <2>3 DEF DeadInv
  <2>4. ASSUME NEW n \in dead', NEW i \in 1..Len(cmds'[n])
        PROVE  Owner[cmds'[n][i].socket] \in blamed'
    <3>1. CASE n = m
      <4>1. cmds'[n] = SubSeq(cmds[m], 1, k) /\ cmds[m] \in Seq(Cmd)
        BY <1>1, <2>1, <3>1
      <4>2. i \in 1..Len(cmds[m]) /\ cmds'[n][i] = cmds[m][i]
        BY <4>1, PrefixKeeps
      <4>3. Home[cmds[m][i].socket] = m
        BY <4>2 DEF TypeInv, Known
      <4>4. cmds[m][i] \in Cmd /\ i \in DOMAIN cmds[m]
        BY <4>1, <4>2
      <4>5. cmds[m][i].socket \in InUse(m)
        BY <4>3, <4>4 DEF InUse, Cmd
      <4> QED
        BY <2>2, <4>2, <4>5
    <3>2. CASE n # m
      <4>1. n \in dead /\ cmds'[n] = cmds[n]
        BY <1>1, <2>1, <2>2, <3>2
      <4> QED
        BY <2>2, <4>1 DEF DeadInv
    <3> QED
      BY <3>1, <3>2
  <2> QED
    BY <2>3, <2>4 DEF DeadInv
<1>6. ASSUME (\E u \in Users : Expire(u)) \/ UNCHANGED vars
      PROVE  DeadInv'
  BY <1>6 DEF Expire, DeadInv, vars
<1> QED
  BY <1>2, <1>3, <1>4, <1>5, <1>6 DEF Next

\* What a command does to ps:online.
LEMMA ApplyOnline ==
    ASSUME NEW c, Apply(c), NEW u
    PROVE  /\ u \in online' => u \in online \/ (c.op = "SADD online" /\ Owner[c.socket] = u)
           /\ Owner[c.socket] # u \/ c.op \notin {"SADD online", "SREM online"} =>
                 (u \in online' <=> u \in online)
           /\ c.op = "SREM online" /\ Owner[c.socket] = u => u \notin online'
BY DEF Apply

LEMMA CameStep ==
    ASSUME TypeInv, CameInv, [Next]_vars
    PROVE  CameInv'
<1>1. \A s \in Sockets : state[s] # "new" => state'[s] # "new"
  BY StateSteps DEF TypeInv
<1>2. ASSUME UNCHANGED online
      PROVE  CameInv'
  BY <1>1, <1>2 DEF CameInv
<1>3. ASSUME NEW n \in Nodes, Execute(n) \/ Fail(n)
      PROVE  CameInv'
  <2> DEFINE c == Head(cmds[n])
  <2>1. /\ cmds[n] # <<>> /\ cmds' = [cmds EXCEPT ![n] = Tail(cmds[n])]
        /\ Apply(c) \/ UNCHANGED <<conns, online>>
    BY <1>3 DEF Execute, Fail
  <2>2. c \in Cmd /\ state[c.socket] # "new"
    BY <2>1, Dequeue
  <2> HIDE DEF c
  <2>3. \A u \in online' : u \in online \/ Owner[c.socket] = u
    BY <2>1, ApplyOnline
  <2>4. c.socket \in Sockets
    BY <2>2 DEF Cmd
  <2> QED
    BY <1>1, <2>2, <2>3, <2>4 DEF CameInv
<1>4. ASSUME \/ \E s \in Sockets : Connect(s) \/ Disconnect(s)
             \/ \E n \in Nodes : HandleReply(n) \/ Crash(n)
             \/ \E u \in Users : Expire(u)
             \/ UNCHANGED vars
      PROVE  UNCHANGED online
  BY <1>4 DEF Connect, Disconnect, HandleReply, Crash, Expire, vars
<1> QED
  BY <1>2, <1>3, <1>4 DEF Next

\* Nothing in queue q is about user u.
Untouched(q, u) == \A k \in 1..Len(q) : Owner[q[k].socket] # u

LEMMA AwayIdle ==
    ASSUME NEW q, NEW p, NEW C, NEW O, NEW u, Untouched(q, u), Untouched(p, u)
    PROVE  Away(q, p, C, O, u) <=> (C = {} /\ u \notin O)
<1>1. \A op : ~Has(q, Cmds(op, u))
  BY DEF Untouched, Has, Cmds
<1>2. ~Has(p, Firsts(u)) /\ ~Has(p, Empties(u))
  BY DEF Untouched, Has, Firsts, Empties
<1>3. ~LastIn(p, Firsts(u), Removed(u))
  BY DEF Untouched, LastIn, Removed
<1>4. ~LastIn(q, Cmds("SADD online", u), Cmds("SCARD down", u))
  BY DEF Untouched, LastIn, Cmds
<1> QED
  BY <1>1, <1>2, <1>3, <1>4 DEF Away

\* A user whose sockets are all gone has none in ps:sockets after the last of
\* its SREMs, and no SADD is still to come.
LEMMA LastRemoval ==
    ASSUME TypeInv, GhostInv, NEW n \in Nodes, NEW u \in Users, u \notin blamed,
           Alone(state, n, u), Up(u) = {}, cmds[n] # <<>>, Apply(Head(cmds[n])),
           Head(cmds[n]).op = "SREM", ~Has(Tail(cmds[n]), Cmds("SREM", u))
    PROVE  conns'[u] = {} /\ ~Has(Tail(cmds[n]), Cmds("SADD", u))
<1> DEFINE q == cmds[n]
           t == Tail(q)
           c == Head(q)
<1>1. /\ TypeOK /\ q \in Seq(Cmd) /\ q # <<>> /\ c \in Cmd /\ t \in Seq(Cmd)
      /\ c.op = "SREM" /\ Apply(c)
  BY TailKeeps DEF TypeInv, TypeOK
<1>2. Known(state, n, t)
  BY <1>1, KnownTail DEF TypeInv
<1>3. /\ state \in [Sockets -> {"new", "up", "gone"}]
      /\ \A s \in conns[u] : s \in Sockets /\ Owner[s] = u /\ state[s] # "new"
  BY DEF TypeInv, TypeOK
<1> HIDE DEF q, t, c
<1>4. ASSUME NEW s \in Sockets, Owner[s] = u, state[s] # "new"
      PROVE  /\ AddsUndone(t, s)
             /\ s \in conns[u] => Is(c, "SREM", s) \/ RemovedFrom(t, 1, s)
  <2>1. state[s] = "gone" /\ Home[s] = n
    BY <1>3, <1>4 DEF Up, Alone
  <2>2. /\ s \in conns[u] => RemovedFrom(q, 1, s)
        /\ AddsUndone(q, s)
    BY <1>4, <2>1 DEF GhostInv, SocketLeaves, q
  <2> QED
    BY <1>1, <2>2, TailUndone DEF t, c
<1>5. ASSUME NEW s \in Sockets, Owner[s] = u, NEW k \in Nat \ {0}, RemovedFrom(t, k, s)
      PROVE  FALSE
  <2>1. PICK j \in k..Len(t) : Is(t[j], "SREM", s)
    BY <1>5 DEF RemovedFrom
  <2>2. j \in 1..Len(t) /\ t[j] \in Cmd
    BY <1>1
  <2>3. t[j] \in Cmds("SREM", u)
    BY <1>5, <2>1, <2>2 DEF Is, Cmds
  <2> QED
    BY <2>2, <2>3 DEF Has, t, q
<1>6. ASSUME NEW s \in conns'[u] PROVE FALSE
  <2>1. /\ s \in conns[u] \/ (Owner[s] = u /\ Is(c, "SADD", s))
        /\ ~Is(c, "SREM", s) \/ Owner[s] # u
    BY <1>1, <1>6, ApplyConns
  <2>2. s \in conns[u]
    BY <1>1, <2>1 DEF Is
  <2> QED
    BY <1>3, <1>4, <1>5, <2>1, <2>2
<1>7. ASSUME NEW k \in 1..Len(t), t[k] \in Cmds("SADD", u) PROVE FALSE
  <2> DEFINE s == t[k].socket
  <2>1. /\ s \in Sockets /\ Owner[s] = u /\ state[s] # "new" /\ Is(t[k], "SADD", s)
    BY <1>2, <1>7 DEF Known, Cmds, Cmd, Is
  <2>2. RemovedFrom(t, k + 1, s)
    BY <1>4, <2>1 DEF AddsUndone
  <2>3. k + 1 \in Nat \ {0}
    BY <1>1
  <2> HIDE DEF s
  <2> QED
    BY <1>5, <2>1, <2>2, <2>3
<1> QED
  BY <1>6, <1>7 DEF Has, t, q

\* Redis executes a command of node n, or its client gives it up.
LEMMA AwayRedis ==
    ASSUME TypeInv, GhostInv, AwayInv, DeadInv, NEW m \in Nodes, Execute(m) \/ Fail(m),
           [Next]_vars,
           NEW n \in Nodes, NEW u \in Users, u \notin blamed', Alone(state, n, u), Up(u) = {}
    PROVE  Away(cmds'[n], replies'[n], conns'[u], online', u)
<1> DEFINE c == Head(cmds[m])
<1>1. /\ cmds[m] # <<>> /\ cmds' = [cmds EXCEPT ![m] = Tail(cmds[m])]
      /\ UNCHANGED <<state, dead>>
      /\ Apply(c) \/ UNCHANGED <<conns, online>>
      /\ blamed \subseteq blamed'
  BY DEF Execute, Fail
<1>2. /\ c \in Cmd /\ Home[c.socket] = m /\ state[c.socket] # "new"
  BY <1>1, Dequeue
<1>3. /\ TypeOK /\ cmds \in [Nodes -> Seq(Cmd)] /\ replies \in [Nodes -> Seq(Reply)]
      /\ conns \in [Users -> SUBSET Sockets] /\ dead \subseteq Nodes
      /\ \A v \in Users : IsFiniteSet(conns[v])
      /\ \A d \in dead : replies[d] = <<>>
  BY DEF TypeInv, TypeOK
<1>4. Away(cmds[n], replies[n], conns[u], online, u)
  BY <1>1 DEF AwayInv
<1>5. c.socket \in Sockets /\ Owner[c.socket] \in Users /\ c.op \in Ops
  BY <1>2, RedisAssumption DEF Cmd
<1>6. Owner[c.socket] # u => conns'[u] = conns[u] /\ (u \in online' <=> u \in online)
  <2>1. Apply(c) /\ Owner[c.socket] # u => conns'[u] = conns[u]
    BY <1>3, <1>5 DEF Apply
  <2> QED
    BY <1>1, <2>1, ApplyOnline
<1>7. PICK num \in Nat, ok \in BOOLEAN :
        /\ Answer(m, [op |-> c.op, socket |-> c.socket, count |-> num, ok |-> ok])
        /\ ok => /\ Apply(c)
                 /\ c.op \in {"SCARD up", "SCARD down"} => num = Cardinality(conns[Owner[c.socket]])
        /\ ~ok /\ c.op \in {"SREM", "SCARD down", "SREM online"} => Owner[c.socket] # u
  <2>1. CASE Execute(m)
    <3> DEFINE num == IF c.op \in {"SCARD up", "SCARD down"}
                      THEN Cardinality(conns[Owner[c.socket]]) ELSE 0
    <3>1. /\ Answer(m, [op |-> c.op, socket |-> c.socket, count |-> num, ok |-> TRUE])
          /\ Apply(c)
      BY <2>1 DEF Execute
    <3>2. Cardinality(conns[Owner[c.socket]]) \in Nat
      BY <1>3, <1>5, FS_CardinalityType
    <3>3. num \in Nat /\ (c.op \in {"SCARD up", "SCARD down"} => num = Cardinality(conns[Owner[c.socket]]))
      BY <3>2
    <3> HIDE DEF num, c
    <3> QED
      BY <3>1, <3>3
  <2>2. CASE Fail(m)
    <3>1. Answer(m, [op |-> c.op, socket |-> c.socket, count |-> 0, ok |-> FALSE])
      BY <2>2 DEF Fail
    <3>2. c.op \in {"SREM", "SCARD down", "SREM online"} => Owner[c.socket] \in blamed'
      BY <2>2 DEF Fail, Removals
    <3> HIDE DEF c
    <3> QED
      BY <3>1, <3>2
  <2> QED
    BY <2>1, <2>2
<1> DEFINE r == [op |-> c.op, socket |-> c.socket, count |-> num, ok |-> ok]
<1> HIDE DEF c
<1>8. r \in Reply /\ r.op = c.op /\ r.socket = c.socket /\ r.count = num /\ r.ok = ok
  BY <1>5 DEF Reply
<1> HIDE DEF r
<1>9. CASE m # n
  <2>1. Owner[c.socket] # u
    BY <1>2, <1>5, <1>9 DEF Alone
  <2>2. cmds'[n] = cmds[n]
    BY <1>1, <1>3, <1>9
  <2>3. replies'[n] = replies[n]
    BY <1>3, <1>7, <1>9 DEF Answer
  <2> QED
    BY <1>4, <1>6, <2>1, <2>2, <2>3 DEF Away
<1>10. CASE m = n /\ n \in dead
  <2>1. Untouched(cmds[n], u)
    BY <1>1, <1>10 DEF DeadInv, Untouched
  <2>2. replies[n] = <<>> /\ replies' = replies
    BY <1>3, <1>7, <1>10 DEF Answer
  <2>3. Untouched(replies[n], u)
    BY <2>2 DEF Untouched
  <2>4. conns[u] = {} /\ u \notin online
    BY <1>4, <2>1, <2>3, AwayIdle
  <2>5. cmds'[n] = Tail(cmds[n]) /\ cmds[n] \in Seq(Cmd) /\ cmds[n] # <<>>
    BY <1>1, <1>3, <1>10
  <2>6. /\ Len(Tail(cmds[n])) = Len(cmds[n]) - 1 /\ Len(cmds[n]) \in Nat \ {0}
        /\ Head(cmds[n]) = cmds[n][1]
        /\ \A k \in 1..Len(cmds[n]) - 1 : Tail(cmds[n])[k] = cmds[n][k + 1]
    BY <2>5, TailKeeps
  <2>7. Untouched(cmds'[n], u) /\ Owner[c.socket] # u
    BY <1>10, <2>1, <2>5, <2>6 DEF Untouched, c
  <2> QED
    BY <1>6, <2>2, <2>3, <2>4, <2>7, AwayIdle
<1>11. CASE m = n /\ n \notin dead
  <2>1. cmds'[n] = Tail(cmds[n]) /\ cmds[n] \in Seq(Cmd) /\ cmds[n] # <<>> /\ c = Head(cmds[n])
    BY <1>1, <1>3, <1>11 DEF c
  <2>2. replies'[n] = Append(replies[n], r) /\ replies[n] \in Seq(Reply)
    BY <1>3, <1>7, <1>11 DEF Answer, r
  <2>3. ASSUME Owner[r.socket] = u, conns[u] = {}, r.op # "SADD"
        PROVE  conns'[u] = {} /\ r \notin Firsts(u)
    <3>1. Apply(c) => \A s \in conns'[u] : s \in conns[u] \/ (Owner[s] = u /\ Is(c, "SADD", s))
      BY <1>2, <1>3, ApplyConns
    <3>2. conns'[u] = {}
      BY <1>1, <1>8, <2>3, <3>1 DEF Is
    <3>3. Cardinality(conns[u]) = 0
      BY <2>3, FS_EmptySet
    <3>4. ok /\ c.op = "SCARD up" => num = 0
      <4>1. ok /\ c.op \in {"SCARD up", "SCARD down"} => num = Cardinality(conns[Owner[c.socket]])
        BY <1>7, Zenon
      <4>2. Owner[c.socket] = u
        BY <1>8, <2>3
      <4> QED
        BY <3>3, <4>1, <4>2
    <3>5. r \in Firsts(u) => r.op = "SCARD up" /\ r.ok /\ r.count = 1
      BY Zenon DEF Firsts
    <3>6. r.op = c.op /\ r.count = num /\ (r.ok => ok)
      BY <1>8, Zenon
    <3>7. r \in Firsts(u) => num = 0 /\ num = 1
      BY <3>4, <3>5, <3>6, Zenon
    <3>8. r \notin Firsts(u)
      BY <3>7
    <3> QED
      BY <3>2, <3>8
  <2>4. ASSUME Owner[r.socket] = u, r.op \notin {"SADD online", "SREM online"}
        PROVE  u \in online' <=> u \in online
    BY <1>1, <1>8, <2>4, ApplyOnline
  <2>5. ASSUME Owner[r.socket] = u, r.op = "SREM"
        PROVE  /\ r.ok
               /\ \/ Has(Tail(cmds[n]), Cmds("SREM", u))
                  \/ conns'[u] = {} /\ ~Has(Tail(cmds[n]), Cmds("SADD", u))
    <3>1. ok /\ Apply(c)
      BY <1>7, <1>8, <2>5
    <3>2. u \notin blamed /\ c.op = "SREM"
      BY <1>1, <1>8, <2>5
    <3>3. ~Has(Tail(cmds[n]), Cmds("SREM", u)) =>
            conns'[u] = {} /\ ~Has(Tail(cmds[n]), Cmds("SADD", u))
      <4>1. Apply(Head(cmds[n]))
        BY <2>1, <3>1 DEF Apply
      <4>2. Head(cmds[n]).op = "SREM"
        BY <2>1, <3>2
      <4> QED
        BY <2>1, <3>2, <4>1, <4>2, LastRemoval
    <3> QED
      BY <1>8, <3>1, <3>3
  <2>6. ASSUME Owner[r.socket] = u, r.op = "SCARD down"
        PROVE  r.ok /\ (conns[u] = {} => r.count = 0)
    <3>1. ok
      BY <1>7, <1>8, <2>6
    <3>2. num = Cardinality(conns[u])
      BY <1>7, <1>8, <2>6, <3>1
    <3>3. conns[u] = {} => num = 0
      BY <3>2, FS_EmptySet
    <3> QED
      BY <1>8, <3>1, <3>3
  <2>7. ASSUME Owner[r.socket] = u, r.op = "SREM online"
        PROVE  u \notin online'
    BY <1>7, <1>8, <2>7, ApplyOnline
  <2>8. Owner[r.socket] # u => conns'[u] = conns[u] /\ (u \in online' <=> u \in online)
    BY <1>6, <1>8
  <2>9. Away(Tail(cmds[n]), Append(replies[n], r), conns'[u], online', u)
    BY <1>4, <1>8, <2>1, <2>2, <2>3, <2>4, <2>5, <2>6, <2>7, <2>8, AwayExecutes
  <2> QED
    BY <2>1, <2>2, <2>9
<1> QED
  BY <1>9, <1>10, <1>11

\* A socket comes or goes.
LEMMA AwaySockets ==
    ASSUME TypeInv, AwayInv, NEW s \in Sockets, Connect(s) \/ Disconnect(s),
           NEW n \in Nodes, NEW u \in Users, u \notin blamed,
           Alone(state, n, u), Alone(state', n, u), Up(u)' = {}
    PROVE  Away(cmds'[n], replies'[n], conns'[u], online', u)
<1>1. PICK op \in {"SADD", "SREM"}, new \in {"up", "gone"} :
        /\ cmds' = [cmds EXCEPT ![Home[s]] = Append(cmds[Home[s]], [op |-> op, socket |-> s])]
        /\ state' = [state EXCEPT ![s] = new]
        /\ op = "SADD" <=> new = "up"
        /\ UNCHANGED <<replies, conns, online>>
  BY DEF Connect, Disconnect, Send
<1>2. /\ state \in [Sockets -> {"new", "up", "gone"}]
      /\ cmds \in [Nodes -> Seq(Cmd)] /\ cmds[n] \in Seq(Cmd) /\ Home[s] \in Nodes
  BY RedisAssumption DEF TypeInv, TypeOK
<1> DEFINE e == [op |-> op, socket |-> s]
<1>3. e \in Cmd /\ e.op = op /\ e.socket = s
  BY DEF Cmd, Ops
<1> HIDE DEF e
<1>4. CASE Owner[s] = u
  <2>1. Home[s] = n
    BY <1>1, <1>2, <1>4 DEF Alone
  <2>2. new # "up"
    BY <1>1, <1>2, <1>4 DEF Up
  <2>3. op = "SREM" /\ e \in Cmds("SREM", u)
    BY <1>1, <1>3, <1>4, <2>2 DEF Cmds
  <2>4. cmds'[n] = Append(cmds[n], e)
    BY <1>1, <1>2, <2>1 DEF e
  <2>5. Has(cmds'[n], Cmds("SREM", u))
    BY <1>2, <1>3, <2>3, <2>4, HasAppend
  <2> QED
    BY <2>5 DEF Away
<1>5. CASE Owner[s] # u
  <2>1. Up(u) = {}
    BY <1>1, <1>2, <1>5 DEF Up
  <2>2. Away(cmds[n], replies[n], conns[u], online, u)
    BY <2>1 DEF AwayInv
  <2>3. e \notin Cmds("SADD", u) /\ e \notin Cmds("SADD online", u)
    BY <1>3, <1>5 DEF Cmds
  <2>4. Away(Append(cmds[n], e), replies[n], conns[u], online, u)
    BY <1>2, <1>3, <2>2, <2>3, AwaySends
  <2>5. cmds'[n] = cmds[n] \/ cmds'[n] = Append(cmds[n], e)
    BY <1>1, <1>2 DEF e
  <2> QED
    BY <1>1, <2>2, <2>4, <2>5
<1> QED
  BY <1>4, <1>5

\* A node dies.
LEMMA AwayCrash ==
    ASSUME TypeInv, AwayInv, NEW m \in Nodes, Crash(m),
           NEW n \in Nodes, NEW u \in Users, u \notin blamed', Alone(state, n, u), Up(u)' = {}
    PROVE  Away(cmds'[n], replies'[n], conns'[u], online', u)
<1>1. PICK k \in 0..Len(cmds[m]) : cmds' = [cmds EXCEPT ![m] = SubSeq(cmds[m], 1, k)]
  BY DEF Crash
<1>2. /\ state' = [s \in Sockets |->
                     IF Home[s] = m /\ state[s] = "up" THEN "gone" ELSE state[s]]
      /\ blamed' = blamed \cup {Owner[s] : s \in InUse(m)}
      /\ replies' = [replies EXCEPT ![m] = <<>>]
      /\ UNCHANGED <<conns, online>>
  BY DEF Crash
<1>3. /\ cmds \in [Nodes -> Seq(Cmd)] /\ replies \in [Nodes -> Seq(Reply)]
      /\ \A d \in Nodes : cmds[d] \in Seq(Cmd) /\ replies[d] \in Seq(Reply)
      /\ \A d \in Nodes : Known(state, d, cmds[d]) /\ Known(state, d, replies[d])
  BY DEF TypeInv, TypeOK
<1>4. \A s \in InUse(m) : Owner[s] # u
  BY <1>2
<1>5. Up(u) = {}
  <2> SUFFICES ASSUME NEW s \in Up(u) PROVE FALSE
    OBVIOUS
  <2>1. s \in Sockets /\ state[s] = "up" /\ Owner[s] = u
    BY DEF Up
  <2>2. Home[s] # m
    BY <1>4, <2>1 DEF InUse
  <2>3. state'[s] = "up"
    BY <1>2, <2>1, <2>2
  <2> QED
    BY <2>1, <2>3 DEF Up
<1>6. Away(cmds[n], replies[n], conns[u], online, u)
  BY <1>2, <1>5 DEF AwayInv
<1>7. CASE m # n
  <2>1. cmds'[n] = cmds[n] /\ replies'[n] = replies[n]
    BY <1>1, <1>2, <1>3, <1>7
  <2> QED
    BY <1>2, <1>6, <2>1
<1>8. CASE m = n
  <2>1. Untouched(cmds[n], u)
    <3> SUFFICES ASSUME NEW i \in 1..Len(cmds[n]) PROVE Owner[cmds[n][i].socket] # u
      BY DEF Untouched
    <3>0. cmds[n][i] \in Cmd /\ i \in DOMAIN cmds[n]
      <4>1. cmds[n] \in Seq(Cmd)
        BY <1>3
      <4> QED
        BY <4>1
    <3>1. cmds[n][i].socket \in Sockets /\ i \in DOMAIN cmds[n]
      BY <3>0 DEF Cmd
    <3>2. Home[cmds[n][i].socket] = m
      BY <1>3, <1>8 DEF Known
    <3>3. cmds[n][i].socket \in InUse(m)
      BY <1>8, <3>1, <3>2 DEF InUse
    <3> QED
      BY <1>4, <3>3
  <2>2. Untouched(replies[n], u)
    <3> SUFFICES ASSUME NEW i \in 1..Len(replies[n]) PROVE Owner[replies[n][i].socket] # u
      BY DEF Untouched
    <3>0. replies[n][i] \in Reply /\ i \in DOMAIN replies[n]
      <4>1. replies[n] \in Seq(Reply)
        BY <1>3
      <4> QED
        BY <4>1
    <3>1. replies[n][i].socket \in Sockets /\ i \in DOMAIN replies[n]
      BY <3>0 DEF Reply
    <3>2. Home[replies[n][i].socket] = m
      BY <1>3, <1>8 DEF Known
    <3>3. replies[n][i].socket \in InUse(m)
      BY <1>8, <3>1, <3>2 DEF InUse
    <3> QED
      BY <1>4, <3>3
  <2>3. conns[u] = {} /\ u \notin online
    BY <1>6, <2>1, <2>2, AwayIdle
  <2>4. cmds'[n] = SubSeq(cmds[n], 1, k) /\ replies'[n] = <<>>
    BY <1>1, <1>2, <1>3, <1>8
  <2>5. /\ Len(SubSeq(cmds[n], 1, k)) = k
        /\ \A i \in 1..k : i \in 1..Len(cmds[n]) /\ SubSeq(cmds[n], 1, k)[i] = cmds[n][i]
    BY <1>3, <1>8, PrefixKeeps
  <2>6. Untouched(cmds'[n], u) /\ Untouched(replies'[n], u)
    BY <2>1, <2>4, <2>5 DEF Untouched
  <2> QED
    BY <1>2, <2>3, <2>6, AwayIdle
<1> QED
  BY <1>7, <1>8

LEMMA AwayStep ==
    ASSUME TypeInv, GhostInv, AwayInv, DeadInv, [Next]_vars
    PROVE  AwayInv'
<1> SUFFICES ASSUME NEW n \in Nodes, NEW u \in Users, u \notin blamed', Alone(state', n, u),
                    Up(u)' = {}
             PROVE  Away(cmds'[n], replies'[n], conns'[u], online', u)
  BY DEF AwayInv
<1>1. blamed \subseteq blamed'
  BY DEF Next, vars, Connect, Disconnect, Execute, Fail, HandleReply, Crash, Expire
<1>2. u \notin blamed /\ Alone(state, n, u)
  BY <1>1, StateSteps DEF Alone, TypeInv
<1>3. UNCHANGED state => Up(u) = {}
  BY DEF Up
<1>4. Up(u) = {} => Away(cmds[n], replies[n], conns[u], online, u)
  BY <1>2 DEF AwayInv
<1>5. /\ cmds \in [Nodes -> Seq(Cmd)] /\ replies \in [Nodes -> Seq(Reply)]
      /\ cmds[n] \in Seq(Cmd) /\ replies[n] \in Seq(Reply)
      /\ conns \in [Users -> SUBSET Sockets]
  BY DEF TypeInv, TypeOK
<1>6. ASSUME NEW s \in Sockets, Connect(s) \/ Disconnect(s)
      PROVE  Away(cmds'[n], replies'[n], conns'[u], online', u)
  BY <1>2, <1>6, AwaySockets
<1>7. ASSUME NEW m \in Nodes, Execute(m) \/ Fail(m)
      PROVE  Away(cmds'[n], replies'[n], conns'[u], online', u)
  <2>1. Up(u) = {}
    BY <1>3, <1>7 DEF Execute, Fail
  <2> QED
    BY <1>2, <1>7, <2>1, AwayRedis
<1>8. ASSUME NEW m \in Nodes, HandleReply(m)
      PROVE  Away(cmds'[n], replies'[n], conns'[u], online', u)
  <2>1. /\ replies[m] # <<>> /\ replies' = [replies EXCEPT ![m] = Tail(replies[m])]
        /\ cmds' = [cmds EXCEPT ![m] = Continue(Head(replies[m]), cmds[m])]
        /\ UNCHANGED <<state, conns, online>>
    BY <1>8 DEF HandleReply
  <2>2. Away(cmds[n], replies[n], conns[u], online, u)
    BY <1>3, <1>4, <2>1
  <2>3. CASE m = n
    <3>1. replies'[n] = Tail(replies[n]) /\ cmds'[n] = Continue(Head(replies[n]), cmds[n])
      BY <1>5, <2>1, <2>3
    <3>2. Away(Continue(Head(replies[n]), cmds[n]), Tail(replies[n]), conns[u], online, u)
      BY <1>5, <2>1, <2>2, <2>3, AwayHandles
    <3> QED
      BY <2>1, <3>1, <3>2
  <2>4. CASE m # n
    <3>1. replies'[n] = replies[n] /\ cmds'[n] = cmds[n]
      BY <1>5, <2>1, <2>4
    <3> QED
      BY <2>1, <2>2, <3>1
  <2> QED
    BY <2>3, <2>4
<1>9. ASSUME NEW m \in Nodes, Crash(m)
      PROVE  Away(cmds'[n], replies'[n], conns'[u], online', u)
  BY <1>2, <1>9, AwayCrash
<1>10. ASSUME NEW v \in Users, Expire(v)
       PROVE  Away(cmds'[n], replies'[n], conns'[u], online', u)
  <2>1. /\ conns' = [conns EXCEPT ![v] = {}] /\ UNCHANGED <<state, cmds, replies, online>>
        /\ cmds[n] = <<>> /\ replies[n] = <<>>
    BY <1>10 DEF Expire, Quiet
  <2>2. Untouched(cmds[n], u) /\ Untouched(replies[n], u)
    BY <2>1 DEF Untouched
  <2>3. conns[u] = {} /\ u \notin online
    BY <1>3, <1>4, <2>1, <2>2, AwayIdle
  <2>4. conns'[u] = {}
    BY <1>5, <2>1, <2>3
  <2> QED
    BY <2>1, <2>2, <2>3, <2>4, AwayIdle
<1>11. CASE UNCHANGED vars
  BY <1>3, <1>4, <1>11 DEF vars
<1> QED
  BY <1>6, <1>7, <1>8, <1>9, <1>10, <1>11 DEF Next

LEMMA AwayInit ==
    ASSUME Init
    PROVE  AwayInv /\ DeadInv /\ CameInv
<1>1. DeadInv /\ CameInv
  BY DEF Init, DeadInv, CameInv
<1>2. ASSUME NEW n \in Nodes, NEW u \in Users
      PROVE  Away(cmds[n], replies[n], conns[u], online, u)
  <2>1. cmds[n] = <<>> /\ replies[n] = <<>> /\ conns[u] = {} /\ u \notin online
    BY DEF Init
  <2>2. Untouched(cmds[n], u) /\ Untouched(replies[n], u)
    BY <2>1 DEF Untouched
  <2> QED
    BY <2>1, <2>2, AwayIdle
<1> QED
  BY <1>1, <1>2 DEF AwayInv

\* However the connects and disconnects of a user on one node mix, whatever other
\* users and nodes do, and whether keys expire or connects fail: once all commands
\* are done, the user is in ps:online only with a socket, unless the node died or a
\* disconnect failed (RedisPresenceStore.connect and disconnect).
THEOREM NeverStuckOnline == Spec => []NoStuckOnline
<1> DEFINE Inv == TypeInv /\ GhostInv /\ AwayInv /\ DeadInv /\ CameInv
<1>1. Init => Inv
  <2>1. Init => GhostInv
    BY DEF Init, GhostInv, SocketLeaves
  <2> QED
    BY <2>1, TypeInit, AwayInit
<1>2. Inv /\ [Next]_vars => Inv'
  BY TypeStep, GhostStep, AwayStep, DeadStep, CameStep
<1>3. Inv => NoStuckOnline
  <2> SUFFICES ASSUME Inv, Quiet, NEW u \in online, u \notin blamed, OneNode(u), Up(u) = {}
               PROVE  FALSE
    BY DEF NoStuckOnline
  <2>1. u \in Users
    BY DEF TypeInv, TypeOK
  <2>2. PICK s \in Sockets : Owner[s] = u /\ state[s] # "new"
    BY DEF CameInv
  <2> DEFINE n == Home[s]
  <2>3. n \in Nodes /\ Alone(state, n, u)
    BY <2>2, RedisAssumption DEF OneNode, Alone
  <2> HIDE DEF n
  <2>4. Away(cmds[n], replies[n], conns[u], online, u)
    BY <2>1, <2>3 DEF AwayInv
  <2>5. cmds[n] = <<>> /\ replies[n] = <<>>
    BY <2>3 DEF Quiet
  <2>6. Untouched(cmds[n], u) /\ Untouched(replies[n], u)
    BY <2>5 DEF Untouched
  <2> QED
    BY <2>4, <2>6, AwayIdle
<1> HIDE DEF Inv
<1> QED
  BY <1>1, <1>2, <1>3, PTL DEF Spec

-------------------------------------------------------------------------------
(* A user whose calls do not overlap is in ps:online as long as it has a socket. *)

\* e is in queue q, and nothing else of user u.
Only(q, u, e) ==
    \E k \in 1..Len(q) : /\ q[k] = e /\ Owner[e.socket] = u
                         /\ \A j \in 1..Len(q) : Owner[q[j].socket] = u => j = k

\* How far the one call of u has come: C is its ps:sockets, O is ps:online, up its
\* sockets.  Before command c is executed ...
Asks(c, up, C, O, u) ==
    \/ c.op = "SADD" /\ c.socket \in up /\ C = up \ {c.socket}
         /\ (u \in O <=> up \ {c.socket} # {})
    \/ c.op = "SCARD up" /\ c.socket \in up /\ C = up /\ (u \in O <=> up \ {c.socket} # {})
    \/ c.op = "SADD online" /\ c.socket \in up /\ C = up
    \/ c.op = "SREM" /\ c.socket \notin up /\ C = up \cup {c.socket} /\ u \in O
    \/ c.op = "SCARD down" /\ C = up /\ u \in O
    \/ c.op = "SREM online" /\ C = up /\ up = {}

\* ... before the handler sees reply r ...
Hears(r, up, C, O, u) ==
    /\ r.ok
    /\ \/ r.op = "SADD" /\ r.socket \in up /\ C = up /\ (u \in O <=> up \ {r.socket} # {})
       \/ r.op = "SCARD up" /\ r.socket \in up /\ C = up /\ (u \in O <=> up \ {r.socket} # {})
            /\ (up = {r.socket} => r.count = 1)
       \/ r.op = "SADD online" /\ C = up /\ u \in O /\ up # {}
       \/ r.op = "SREM" /\ C = up /\ u \in O
       \/ r.op = "SCARD down" /\ C = up /\ u \in O /\ (r.count = 0 <=> up = {})
       \/ r.op = "SREM online" /\ C = up /\ u \notin O /\ up = {}

\* ... and when the call has returned.
Rests(up, C, O, u) == C = up /\ (u \in O <=> up # {})

Calm(u) == \A n \in Nodes : Untouched(cmds[n], u) /\ Untouched(replies[n], u)

Resting(u) == Calm(u) /\ Rests(Up(u), conns[u], online, u)

Asking(u) ==
    \E n \in Nodes, c \in Cmd :
       /\ Only(cmds[n], u, c) /\ Untouched(replies[n], u)
       /\ \A m \in Nodes \ {n} : Untouched(cmds[m], u) /\ Untouched(replies[m], u)
       /\ Asks(c, Up(u), conns[u], online, u)

Hearing(u) ==
    \E n \in Nodes, r \in Reply :
       /\ Untouched(cmds[n], u) /\ Only(replies[n], u, r)
       /\ \A m \in Nodes \ {n} : Untouched(cmds[m], u) /\ Untouched(replies[m], u)
       /\ Hears(r, Up(u), conns[u], online, u)

OneCall(u) == Resting(u) \/ Asking(u) \/ Hearing(u)

CallInv ==
    faults = 0 => dead = {} /\ \A u \in Users \ crossed : OneCall(u)

LEMMA OnlyAppend ==
    ASSUME NEW S, NEW q \in Seq(S), NEW e \in S, NEW u, Untouched(q, u), Owner[e.socket] = u
    PROVE  Only(Append(q, e), u, e)
<1> DEFINE p == Append(q, e)
<1>1. /\ Len(p) = Len(q) + 1 /\ Len(q) \in Nat /\ p[Len(q) + 1] = e
      /\ \A k \in 1..Len(q) : p[k] = q[k]
  BY AppendKeeps
<1> HIDE DEF p
<1>2. ASSUME NEW j \in 1..Len(p), Owner[p[j].socket] = u
      PROVE  j = Len(q) + 1
  BY <1>1, <1>2 DEF Untouched
<1>3. Len(q) + 1 \in 1..Len(p)
  BY <1>1
<1>4. Only(p, u, e)
  BY <1>1, <1>2, <1>3 DEF Only
<1> QED
  BY <1>4 DEF p

LEMMA OthersAppend ==
    ASSUME NEW S, NEW q \in Seq(S), NEW e \in S, NEW u, Owner[e.socket] # u
    PROVE  /\ Untouched(q, u) => Untouched(Append(q, e), u)
           /\ \A x : Only(q, u, x) => Only(Append(q, e), u, x)
<1> DEFINE p == Append(q, e)
<1>1. /\ Len(p) = Len(q) + 1 /\ Len(q) \in Nat /\ p[Len(q) + 1] = e
      /\ \A k \in 1..Len(q) : p[k] = q[k]
  BY AppendKeeps
<1> HIDE DEF p
<1>2. Untouched(q, u) => Untouched(p, u)
  BY <1>1 DEF Untouched
<1>3. ASSUME NEW x, Only(q, u, x)
      PROVE  Only(p, u, x)
  <2>1. PICK k \in 1..Len(q) :
           /\ q[k] = x /\ Owner[x.socket] = u
           /\ \A j \in 1..Len(q) : Owner[q[j].socket] = u => j = k
    BY <1>3 DEF Only
  <2>2. k \in 1..Len(p) /\ p[k] = x
    BY <1>1, <2>1
  <2>3. ASSUME NEW j \in 1..Len(p), Owner[p[j].socket] = u
        PROVE  j = k
    <3>1. j # Len(q) + 1
      BY <1>1, <2>3
    <3>2. j \in 1..Len(q)
      BY <1>1, <3>1
    <3> QED
      BY <1>1, <2>1, <2>3, <3>2
  <2> QED
    BY <2>1, <2>2, <2>3 DEF Only
<1> QED
  BY <1>2, <1>3 DEF p

LEMMA OnlyHead ==
    ASSUME NEW S, NEW q \in Seq(S), q # <<>>, NEW u, NEW x, Only(q, u, x),
           Owner[Head(q).socket] = u
    PROVE  x = Head(q) /\ Untouched(Tail(q), u)
<1> DEFINE p == Tail(q)
<1>1. /\ Len(p) = Len(q) - 1 /\ Len(q) \in Nat \ {0} /\ Head(q) = q[1]
      /\ \A k \in 1..Len(q) - 1 : p[k] = q[k + 1]
  BY TailKeeps
<1> HIDE DEF p
<1>2. PICK k \in 1..Len(q) :
         /\ q[k] = x /\ Owner[x.socket] = u
         /\ \A j \in 1..Len(q) : Owner[q[j].socket] = u => j = k
  BY DEF Only
<1>3. k = 1
  BY <1>1, <1>2
<1>4. ASSUME NEW j \in 1..Len(p)
      PROVE  Owner[p[j].socket] # u
  <2>1. j + 1 \in 1..Len(q) /\ p[j] = q[j + 1] /\ j + 1 # 1
    BY <1>1
  <2> QED
    BY <1>2, <1>3, <2>1
<1> QED
  BY <1>1, <1>2, <1>3, <1>4 DEF Untouched, p

LEMMA OthersTail ==
    ASSUME NEW S, NEW q \in Seq(S), q # <<>>, NEW u, Owner[Head(q).socket] # u
    PROVE  /\ Untouched(q, u) => Untouched(Tail(q), u)
           /\ \A x : Only(q, u, x) => Only(Tail(q), u, x)
<1> DEFINE p == Tail(q)
<1>1. /\ Len(p) = Len(q) - 1 /\ Len(q) \in Nat \ {0} /\ Head(q) = q[1]
      /\ \A k \in 1..Len(q) - 1 : p[k] = q[k + 1]
  BY TailKeeps
<1> HIDE DEF p
<1>2. Untouched(q, u) => Untouched(p, u)
  <2>1. \A j \in 1..Len(p) : j + 1 \in 1..Len(q) /\ p[j] = q[j + 1]
    BY <1>1
  <2> QED
    BY <2>1 DEF Untouched
<1>3. ASSUME NEW x, Only(q, u, x)
      PROVE  Only(p, u, x)
  <2>1. PICK k \in 1..Len(q) :
           /\ q[k] = x /\ Owner[x.socket] = u
           /\ \A j \in 1..Len(q) : Owner[q[j].socket] = u => j = k
    BY <1>3 DEF Only
  <2>2. k # 1
    BY <1>1, <2>1
  <2>3. k - 1 \in 1..Len(p) /\ p[k - 1] = q[k]
    BY <1>1, <2>2
  <2>4. ASSUME NEW j \in 1..Len(p), Owner[p[j].socket] = u
        PROVE  j = k - 1
    <3>1. j + 1 \in 1..Len(q) /\ p[j] = q[j + 1]
      BY <1>1
    <3>2. j + 1 = k
      BY <2>1, <2>4, <3>1
    <3> QED
      BY <3>2
  <2> QED
    BY <2>1, <2>3, <2>4 DEF Only
<1> QED
  BY <1>2, <1>3 DEF p

LEMMA NotBoth ==
    ASSUME NEW q, NEW u, NEW x, Only(q, u, x)
    PROVE  ~Untouched(q, u)
BY DEF Only, Untouched

\* Of user u, queue p holds what q holds.
Kept(q, p, u) ==
    /\ Untouched(q, u) => Untouched(p, u)
    /\ \A x : Only(q, u, x) => Only(p, u, x)

LEMMA CallKept ==
    ASSUME NEW u, OneCall(u), Up(u)' = Up(u), conns'[u] = conns[u],
           u \in online' <=> u \in online,
           \A n \in Nodes : Kept(cmds[n], cmds'[n], u) /\ Kept(replies[n], replies'[n], u)
    PROVE  OneCall(u)'
<1>1. CASE Resting(u)
  <2>1. Calm(u)'
    BY <1>1 DEF Resting, Calm, Kept
  <2>2. Rests(Up(u)', conns'[u], online', u)
    BY <1>1 DEF Resting, Rests
  <2> QED
    BY <2>1, <2>2 DEF OneCall, Resting
<1>2. CASE Asking(u)
  <2>1. PICK n \in Nodes, c \in Cmd :
           /\ Only(cmds[n], u, c) /\ Untouched(replies[n], u)
           /\ \A m \in Nodes \ {n} : Untouched(cmds[m], u) /\ Untouched(replies[m], u)
           /\ Asks(c, Up(u), conns[u], online, u)
    BY <1>2 DEF Asking
  <2>2. /\ Only(cmds'[n], u, c) /\ Untouched(replies'[n], u)
        /\ \A m \in Nodes \ {n} : Untouched(cmds'[m], u) /\ Untouched(replies'[m], u)
    BY <2>1 DEF Kept
  <2>3. Asks(c, Up(u)', conns'[u], online', u)
    BY <2>1 DEF Asks
  <2> QED
    BY <2>2, <2>3 DEF OneCall, Asking
<1>3. CASE Hearing(u)
  <2>1. PICK n \in Nodes, r \in Reply :
           /\ Untouched(cmds[n], u) /\ Only(replies[n], u, r)
           /\ \A m \in Nodes \ {n} : Untouched(cmds[m], u) /\ Untouched(replies[m], u)
           /\ Hears(r, Up(u), conns[u], online, u)
    BY <1>3 DEF Hearing
  <2>2. /\ Untouched(cmds'[n], u) /\ Only(replies'[n], u, r)
        /\ \A m \in Nodes \ {n} : Untouched(cmds'[m], u) /\ Untouched(replies'[m], u)
    BY <2>1 DEF Kept
  <2>3. Hears(r, Up(u)', conns'[u], online', u)
    BY <2>1 DEF Hears
  <2> QED
    BY <2>2, <2>3 DEF OneCall, Hearing
<1> QED
  BY <1>1, <1>2, <1>3 DEF OneCall

LEMMA KeptSame ==
    ASSUME NEW q, NEW u
    PROVE  Kept(q, q, u)
BY DEF Kept

LEMMA KeptAppend ==
    ASSUME NEW S, NEW q \in Seq(S), NEW e \in S, NEW u, Owner[e.socket] # u
    PROVE  Kept(q, Append(q, e), u)
BY OthersAppend DEF Kept

LEMMA KeptTail ==
    ASSUME NEW S, NEW q \in Seq(S), q # <<>>, NEW u, Owner[Head(q).socket] # u
    PROVE  Kept(q, Tail(q), u)
BY OthersTail DEF Kept

LEMMA IdleRests ==
    ASSUME TypeInv, NEW u, ~Busy(u)
    PROVE  Calm(u) /\ (OneCall(u) => Resting(u))
<1>1. ASSUME NEW n \in Nodes, NEW q \in {cmds[n], replies[n]}
      PROVE  Untouched(q, u)
  <2>1. q \in Seq(Cmd) \/ q \in Seq(Reply)
    BY <1>1 DEF TypeInv, TypeOK
  <2>2. DOMAIN q = 1..Len(q)
    BY <2>1
  <2>3. \A k \in DOMAIN q : Owner[q[k].socket] # u
    BY <1>1 DEF Busy
  <2> QED
    BY <2>2, <2>3 DEF Untouched
<1>2. Calm(u)
  BY <1>1 DEF Calm
<1>3. ~Asking(u) /\ ~Hearing(u)
  BY <1>2, NotBoth DEF Asking, Hearing, Calm
<1> QED
  BY <1>2, <1>3 DEF OneCall

\* A socket of a user whose calls have all returned connects or disconnects.
LEMMA CallBegins ==
    ASSUME TypeInv, NEW s \in Sockets, Connect(s) \/ Disconnect(s),
           Resting(Owner[s])
    PROVE  OneCall(Owner[s])'
<1> DEFINE u == Owner[s]
           n == Home[s]
<1>1. u \in Users /\ n \in Nodes
  BY RedisAssumption
<1>2. PICK op \in {"SADD", "SREM"} :
         /\ cmds' = [cmds EXCEPT ![n] = Append(cmds[n], [op |-> op, socket |-> s])]
         /\ op = "SADD" => state[s] = "new" /\ state' = [state EXCEPT ![s] = "up"]
         /\ op = "SREM" => state[s] = "up" /\ state' = [state EXCEPT ![s] = "gone"]
         /\ UNCHANGED <<replies, conns, online>>
  BY DEF Connect, Disconnect, Send
<1> DEFINE c == [op |-> op, socket |-> s]
<1>3. c \in Cmd /\ c.op = op /\ c.socket = s
  BY DEF Cmd, Ops
<1>4. cmds \in [Nodes -> Seq(Cmd)] /\ state \in [Sockets -> {"new", "up", "gone"}]
  BY DEF TypeInv, TypeOK
<1>5. cmds'[n] = Append(cmds[n], c) /\ \A m \in Nodes \ {n} : cmds'[m] = cmds[m]
  BY <1>1, <1>2, <1>4
<1>6. Up(u)' = {t \in Sockets : state'[t] = "up" /\ Owner[t] = u}
  BY DEF Up
<1>7. /\ op = "SADD" => Up(u)' = Up(u) \cup {s} /\ s \notin Up(u)
      /\ op = "SREM" => Up(u)' = Up(u) \ {s} /\ s \in Up(u)
  BY <1>2, <1>4, <1>6 DEF Up
<1>8. Calm(u) /\ conns[u] = Up(u) /\ (u \in online <=> Up(u) # {})
  BY DEF Resting, Rests
<1> HIDE DEF c, u, n
<1>9. Asks(c, Up(u)', conns'[u], online', u)
  <2>1. conns'[u] = conns[u] /\ online' = online
    BY <1>2
  <2>2. CASE op = "SADD"
    <3>1. Up(u)' \ {s} = Up(u) /\ s \in Up(u)'
      BY <1>7, <2>2
    <3> QED
      BY <1>3, <1>8, <2>1, <2>2, <3>1 DEF Asks
  <2>3. CASE op = "SREM"
    <3>1. Up(u)' \cup {s} = Up(u) /\ s \notin Up(u)' /\ Up(u) # {}
      BY <1>7, <2>3
    <3> QED
      BY <1>3, <1>8, <2>1, <2>3, <3>1 DEF Asks
  <2> QED
    BY <2>2, <2>3
<1>10. Only(cmds'[n], u, c)
  BY <1>1, <1>3, <1>4, <1>5, <1>8, OnlyAppend DEF Calm, u
<1>11. /\ Untouched(replies'[n], u)
       /\ \A m \in Nodes \ {n} : Untouched(cmds'[m], u) /\ Untouched(replies'[m], u)
  BY <1>1, <1>2, <1>5, <1>8 DEF Calm
<1>12. Asking(u)'
  BY <1>1, <1>3, <1>9, <1>10, <1>11 DEF Asking
<1> QED
  BY <1>12 DEF OneCall, u

\* Redis executes the one command of u: c in front of the queue of n.
LEMMA AnswersOwn ==
    ASSUME NEW c, NEW u, NEW up, NEW C, NEW D, NEW O, NEW P, NEW count, NEW r,
           IsFiniteSet(C),
           Asks(c, up, C, O, u),
           c.op = "SADD" => D = C \cup {c.socket},
           c.op = "SREM" => D = C \ {c.socket},
           c.op \notin {"SADD", "SREM"} => D = C,
           c.op = "SADD online" => u \in P,
           c.op = "SREM online" => u \notin P,
           c.op \notin {"SADD online", "SREM online"} => (u \in P <=> u \in O),
           c.op \in {"SCARD up", "SCARD down"} => count = Cardinality(C),
           r.op = c.op, r.socket = c.socket, r.count = count, r.ok
    PROVE  Hears(r, up, D, P, u)
<1>1. CASE c.op = "SADD"
  <2>1. c.socket \in up /\ C = up \ {c.socket} /\ (u \in O <=> up \ {c.socket} # {})
    BY <1>1 DEF Asks
  <2>2. D = up /\ (u \in P <=> u \in O)
    BY <1>1, <2>1
  <2> QED
    BY <1>1, <2>1, <2>2 DEF Hears
<1>2. CASE c.op = "SCARD up"
  <2>1. c.socket \in up /\ C = up /\ (u \in O <=> up \ {c.socket} # {})
    BY <1>2 DEF Asks
  <2>2. D = up /\ (u \in P <=> u \in O) /\ count = Cardinality(up)
    BY <1>2, <2>1
  <2>3. up = {c.socket} => count = 1
    BY <2>2, FS_Singleton
  <2> QED
    BY <1>2, <2>1, <2>2, <2>3 DEF Hears
<1>3. CASE c.op = "SADD online"
  <2>1. c.socket \in up /\ C = up
    BY <1>3 DEF Asks
  <2>2. D = up /\ u \in P
    BY <1>3, <2>1
  <2> QED
    BY <1>3, <2>1, <2>2 DEF Hears
<1>4. CASE c.op = "SREM"
  <2>1. c.socket \notin up /\ C = up \cup {c.socket} /\ u \in O
    BY <1>4 DEF Asks
  <2>2. D = up /\ u \in P
    BY <1>4, <2>1
  <2> QED
    BY <1>4, <2>2 DEF Hears
<1>5. CASE c.op = "SCARD down"
  <2>1. C = up /\ u \in O
    BY <1>5 DEF Asks
  <2>2. D = up /\ u \in P /\ count = Cardinality(up)
    BY <1>5, <2>1
  <2>3. count = 0 <=> up = {}
    BY <2>1, <2>2, FS_EmptySet
  <2> QED
    BY <1>5, <2>2, <2>3 DEF Hears
<1>6. CASE c.op = "SREM online"
  <2>1. C = up /\ up = {}
    BY <1>6 DEF Asks
  <2>2. D = up /\ u \notin P
    BY <1>6, <2>1
  <2> QED
    BY <1>6, <2>1, <2>2 DEF Hears
<1> QED
  BY <1>1, <1>2, <1>3, <1>4, <1>5, <1>6 DEF Asks

\* The handler sees the reply of u's one command: it issues the next, or returns.
LEMMA HandlesOwn ==
    ASSUME NEW r, NEW u, NEW up, NEW C, NEW O, NEW q, Hears(r, up, C, O, u)
    PROVE  \/ Continue(r, q) = q /\ Rests(up, C, O, u)
           \/ \E op \in Ops :
                 /\ Continue(r, q) = Append(q, [op |-> op, socket |-> r.socket])
                 /\ Asks([op |-> op, socket |-> r.socket], up, C, O, u)
<1>1. CASE r.op = "SADD"
  <2>1. Continue(r, q) = Append(q, [op |-> "SCARD up", socket |-> r.socket])
    BY <1>1 DEF Continue, Send
  <2>2. Asks([op |-> "SCARD up", socket |-> r.socket], up, C, O, u)
    BY <1>1 DEF Hears, Asks
  <2> QED
    BY <2>1, <2>2 DEF Ops
<1>2. CASE r.op = "SCARD up" /\ r.count = 1
  <2>1. Continue(r, q) = Append(q, [op |-> "SADD online", socket |-> r.socket])
    BY <1>2 DEF Continue, Send, Hears
  <2>2. Asks([op |-> "SADD online", socket |-> r.socket], up, C, O, u)
    BY <1>2 DEF Hears, Asks
  <2> QED
    BY <2>1, <2>2 DEF Ops
<1>3. CASE r.op = "SCARD up" /\ r.count # 1
  <2>1. Continue(r, q) = q
    BY <1>3 DEF Continue
  <2>2. r.socket \in up /\ C = up /\ (u \in O <=> up \ {r.socket} # {}) /\ up # {r.socket}
    BY <1>3 DEF Hears
  <2>3. up \ {r.socket} # {} /\ up # {}
    BY <2>2
  <2> QED
    BY <2>1, <2>2, <2>3 DEF Rests
<1>4. CASE r.op = "SREM"
  <2>1. Continue(r, q) = Append(q, [op |-> "SCARD down", socket |-> r.socket])
    BY <1>4 DEF Continue, Send, Hears
  <2>2. Asks([op |-> "SCARD down", socket |-> r.socket], up, C, O, u)
    BY <1>4 DEF Hears, Asks
  <2> QED
    BY <2>1, <2>2 DEF Ops
<1>5. CASE r.op = "SCARD down" /\ r.count = 0
  <2>1. Continue(r, q) = Append(q, [op |-> "SREM online", socket |-> r.socket])
    BY <1>5 DEF Continue, Send, Hears, LastCount
  <2>2. Asks([op |-> "SREM online", socket |-> r.socket], up, C, O, u)
    BY <1>5 DEF Hears, Asks
  <2> QED
    BY <2>1, <2>2 DEF Ops
<1>6. CASE r.op = "SCARD down" /\ r.count # 0
  <2>1. Continue(r, q) = q
    BY <1>6 DEF Continue, LastCount
  <2> QED
    BY <1>6, <2>1 DEF Hears, Rests
<1>7. CASE r.op \in {"SADD online", "SREM online"}
  <2>1. Continue(r, q) = q
    BY <1>7 DEF Continue
  <2> QED
    BY <1>7, <2>1 DEF Hears, Rests
<1> QED
  BY <1>1, <1>2, <1>3, <1>4, <1>5, <1>6, <1>7 DEF Hears

LEMMA CallExecutes ==
    ASSUME TypeInv, dead = {}, [Next]_vars, NEW n \in Nodes, Execute(n), NEW u \in Users,
           Owner[Head(cmds[n]).socket] = u, OneCall(u)
    PROVE  OneCall(u)'
<1> DEFINE c == Head(cmds[n])
           count == IF c.op \in {"SCARD up", "SCARD down"} THEN Cardinality(conns[u]) ELSE 0
           r == [op |-> c.op, socket |-> c.socket, count |-> count, ok |-> TRUE]
<1>1. /\ cmds[n] # <<>> /\ cmds' = [cmds EXCEPT ![n] = Tail(cmds[n])]
      /\ Apply(c) /\ Answer(n, r) /\ UNCHANGED state
  BY DEF Execute
<1>2. /\ cmds \in [Nodes -> Seq(Cmd)] /\ cmds[n] \in Seq(Cmd)
      /\ replies \in [Nodes -> Seq(Reply)] /\ replies[n] \in Seq(Reply)
      /\ conns \in [Users -> SUBSET Sockets] /\ IsFiniteSet(conns[u])
  BY DEF TypeInv, TypeOK
<1>3. c \in Cmd /\ Owner[c.socket] = u
  BY <1>1, Dequeue
<1>4. ~Untouched(cmds[n], u)
  <2>1. Len(cmds[n]) \in Nat \ {0} /\ c = cmds[n][1]
    BY <1>1, <1>2, TailKeeps
  <2> HIDE DEF c
  <2> QED
    BY <1>3, <2>1 DEF Untouched
<1>5. PICK m \in Nodes, d \in Cmd :
         /\ Only(cmds[m], u, d) /\ Untouched(replies[m], u)
         /\ \A k \in Nodes \ {m} : Untouched(cmds[k], u) /\ Untouched(replies[k], u)
         /\ Asks(d, Up(u), conns[u], online, u)
  BY <1>4 DEF OneCall, Resting, Calm, Asking, Hearing
<1>6. m = n
  BY <1>4, <1>5
<1>7. d = c /\ Untouched(Tail(cmds[n]), u)
  BY <1>1, <1>2, <1>3, <1>5, <1>6, OnlyHead
<1>8. count \in Nat /\ r \in Reply
  <2>1. count \in Nat
    BY <1>2, FS_CardinalityType
  <2> QED
    BY <1>3, <2>1 DEF Cmd, Reply
<1>9. replies' = [replies EXCEPT ![n] = Append(replies[n], r)]
  BY <1>1 DEF Answer
<1>10. /\ r.op = c.op /\ r.socket = c.socket /\ r.count = count /\ r.ok
       /\ c.op \in {"SCARD up", "SCARD down"} => count = Cardinality(conns[u])
  OBVIOUS
<1>11. /\ c.op = "SADD" => conns'[u] = conns[u] \cup {c.socket}
       /\ c.op = "SREM" => conns'[u] = conns[u] \ {c.socket}
       /\ c.op \notin {"SADD", "SREM"} => conns'[u] = conns[u]
  <2> HIDE DEF c
  <2> QED
    BY <1>1, <1>2, <1>3 DEF Apply
<1>12. /\ c.op = "SADD online" => u \in online'
       /\ c.op = "SREM online" => u \notin online'
       /\ c.op \notin {"SADD online", "SREM online"} => (u \in online' <=> u \in online)
  <2> HIDE DEF c
  <2>1. c.op = "SADD online" => u \in online'
    BY <1>1, <1>3 DEF Apply
  <2> QED
    BY <1>1, <1>3, <2>1, ApplyOnline
<1>13. Up(u)' = Up(u)
  BY <1>1 DEF Up
<1> HIDE DEF c, count, r
<1>14. Hears(r, Up(u)', conns'[u], online', u)
  <2>1. Asks(c, Up(u), conns[u], online, u) /\ IsFiniteSet(conns[u])
    BY <1>2, <1>5, <1>7
  <2>2. Hears(r, Up(u), conns'[u], online', u)
    BY <1>10, <1>11, <1>12, <2>1, AnswersOwn, Zenon
  <2> QED
    BY <1>13, <2>2
<1>15. Only(replies'[n], u, r)
  BY <1>2, <1>3, <1>5, <1>6, <1>8, <1>9, <1>10, OnlyAppend
<1>16. /\ Untouched(cmds'[n], u)
       /\ \A k \in Nodes \ {n} : Untouched(cmds'[k], u) /\ Untouched(replies'[k], u)
  BY <1>1, <1>2, <1>5, <1>6, <1>7, <1>9
<1>17. Hearing(u)'
  BY <1>8, <1>14, <1>15, <1>16 DEF Hearing
<1> QED
  BY <1>17 DEF OneCall

LEMMA CallHandles ==
    ASSUME TypeInv, NEW n \in Nodes, HandleReply(n), NEW u \in Users,
           Owner[Head(replies[n]).socket] = u, OneCall(u)
    PROVE  OneCall(u)'
<1> DEFINE r == Head(replies[n])
<1>1. /\ replies[n] # <<>> /\ replies' = [replies EXCEPT ![n] = Tail(replies[n])]
      /\ cmds' = [cmds EXCEPT ![n] = Continue(r, cmds[n])]
      /\ UNCHANGED <<state, conns, online>>
  BY DEF HandleReply
<1>2. /\ cmds \in [Nodes -> Seq(Cmd)] /\ cmds[n] \in Seq(Cmd)
      /\ replies \in [Nodes -> Seq(Reply)] /\ replies[n] \in Seq(Reply)
  BY DEF TypeInv, TypeOK
<1>3. r \in Reply /\ Len(replies[n]) \in Nat \ {0} /\ r = replies[n][1]
  BY <1>1, <1>2, TailKeeps
<1>4. ~Untouched(replies[n], u)
  BY <1>3 DEF Untouched
<1>5. PICK m \in Nodes, d \in Reply :
         /\ Untouched(cmds[m], u) /\ Only(replies[m], u, d)
         /\ \A k \in Nodes \ {m} : Untouched(cmds[k], u) /\ Untouched(replies[k], u)
         /\ Hears(d, Up(u), conns[u], online, u)
  BY <1>4 DEF OneCall, Resting, Calm, Asking, Hearing
<1>6. m = n
  BY <1>4, <1>5
<1>7. d = r /\ Untouched(Tail(replies[n]), u)
  BY <1>1, <1>2, <1>5, <1>6, OnlyHead
<1>8. Up(u)' = Up(u) /\ conns'[u] = conns[u] /\ online' = online
  BY <1>1 DEF Up
<1>9. Owner[r.socket] = u /\ r.socket \in Sockets
  BY <1>3 DEF Reply
<1> HIDE DEF r
<1>10. /\ Untouched(replies'[n], u)
       /\ \A k \in Nodes \ {n} : Untouched(cmds'[k], u) /\ Untouched(replies'[k], u)
       /\ cmds'[n] = Continue(r, cmds[n])
  BY <1>1, <1>2, <1>5, <1>6, <1>7
<1>11. CASE Continue(r, cmds[n]) = cmds[n] /\ Rests(Up(u), conns[u], online, u)
  <2>1. Calm(u)'
    BY <1>5, <1>6, <1>10, <1>11 DEF Calm
  <2>2. Rests(Up(u)', conns'[u], online', u)
    BY <1>8, <1>11
  <2> QED
    BY <2>1, <2>2 DEF Resting, OneCall
<1>12. ASSUME NEW op \in Ops,
              Continue(r, cmds[n]) = Append(cmds[n], [op |-> op, socket |-> r.socket]),
              Asks([op |-> op, socket |-> r.socket], Up(u), conns[u], online, u)
       PROVE  OneCall(u)'
  <2> DEFINE c == [op |-> op, socket |-> r.socket]
  <2>1. c \in Cmd /\ c.socket = r.socket
    BY <1>9 DEF Cmd
  <2>2. cmds'[n] = Append(cmds[n], c) /\ Asks(c, Up(u)', conns'[u], online', u)
    BY <1>8, <1>10, <1>12
  <2> HIDE DEF c
  <2>3. Only(cmds'[n], u, c)
    BY <1>2, <1>5, <1>6, <1>9, <2>1, <2>2, OnlyAppend
  <2>4. Asking(u)'
    BY <1>10, <2>1, <2>2, <2>3 DEF Asking
  <2> QED
    BY <2>4 DEF OneCall
<1> QED
  BY <1>5, <1>7, <1>11, <1>12, HandlesOwn

\* What others do leaves the call of u alone.
LEMMA CallOfOther ==
    ASSUME TypeInv, dead = {}, [Next]_vars, NEW u \in Users, OneCall(u),
           \/ \E s \in Sockets : Owner[s] # u /\ (Connect(s) \/ Disconnect(s))
           \/ \E n \in Nodes : Owner[Head(cmds[n]).socket] # u /\ Execute(n)
           \/ \E n \in Nodes : Owner[Head(replies[n]).socket] # u /\ HandleReply(n)
           \/ UNCHANGED vars
    PROVE  OneCall(u)'
<1>1. /\ cmds \in [Nodes -> Seq(Cmd)] /\ replies \in [Nodes -> Seq(Reply)]
      /\ conns \in [Users -> SUBSET Sockets]
      /\ state \in [Sockets -> {"new", "up", "gone"}]
  BY DEF TypeInv, TypeOK
<1>2. UNCHANGED state => Up(u)' = Up(u)
  BY DEF Up
<1>3. ASSUME NEW s \in Sockets, Owner[s] # u, Connect(s) \/ Disconnect(s)
      PROVE  OneCall(u)'
  <2>1. PICK op \in {"SADD", "SREM"}, x \in {"up", "gone"} :
           /\ cmds' = [cmds EXCEPT ![Home[s]] = Append(cmds[Home[s]], [op |-> op, socket |-> s])]
           /\ state' = [state EXCEPT ![s] = x]
           /\ UNCHANGED <<replies, conns, online>>
    BY <1>3 DEF Connect, Disconnect, Send
  <2> DEFINE c == [op |-> op, socket |-> s]
  <2>2. c \in Cmd /\ c.socket = s
    BY DEF Cmd, Ops
  <2>3. Up(u)' = Up(u)
    BY <1>1, <1>3, <2>1 DEF Up
  <2> HIDE DEF c
  <2>4. Home[s] \in Nodes
    BY RedisAssumption
  <2>5. \A n \in Nodes : cmds'[n] = IF n = Home[s] THEN Append(cmds[n], c) ELSE cmds[n]
    BY <1>1, <2>1, <2>4 DEF c
  <2>6. \A n \in Nodes : Kept(cmds[n], Append(cmds[n], c), u)
    BY <1>1, <1>3, <2>2, KeptAppend
  <2>7. \A n \in Nodes : Kept(cmds[n], cmds'[n], u) /\ Kept(replies[n], replies'[n], u)
    BY <2>1, <2>5, <2>6, KeptSame
  <2> QED
    BY <2>1, <2>3, <2>7, CallKept
<1>4. ASSUME NEW m \in Nodes, Owner[Head(cmds[m]).socket] # u, Execute(m)
      PROVE  OneCall(u)'
  <2> DEFINE c == Head(cmds[m])
  <2>1. /\ cmds[m] # <<>> /\ cmds' = [cmds EXCEPT ![m] = Tail(cmds[m])]
        /\ Apply(c) /\ UNCHANGED state
        /\ \E count : Answer(m, [op |-> c.op, socket |-> c.socket, count |-> count, ok |-> TRUE])
    BY <1>4 DEF Execute
  <2>2. PICK count : Answer(m, [op |-> c.op, socket |-> c.socket, count |-> count, ok |-> TRUE])
    BY <2>1
  <2> DEFINE r == [op |-> c.op, socket |-> c.socket, count |-> count, ok |-> TRUE]
  <2>3. Kept(cmds[m], Tail(cmds[m]), u)
    BY <1>1, <1>4, <2>1, KeptTail
  <2>4. r.socket = c.socket /\ replies' = [replies EXCEPT ![m] = Append(replies[m], r)]
    BY <2>2 DEF Answer
  <2>5. c \in Cmd /\ Owner[c.socket] # u
    BY <1>4, <2>1, Dequeue
  <2>6. Kept(replies[m], Append(replies[m], r), u)
    <3>1. replies[m] \in Seq(Reply \cup {r}) /\ r \in Reply \cup {r}
      BY <1>1
    <3> HIDE DEF r
    <3> QED
      BY <2>4, <2>5, <3>1, KeptAppend
  <2>7. conns'[u] = conns[u] /\ (u \in online' <=> u \in online)
    <3> HIDE DEF c, r
    <3>1. conns'[u] = conns[u]
      BY <1>1, <2>1, <2>5 DEF Apply
    <3> QED
      BY <2>1, <2>5, <3>1, ApplyOnline
  <2> HIDE DEF c, r
  <2>8. \A n \in Nodes : Kept(cmds[n], cmds'[n], u) /\ Kept(replies[n], replies'[n], u)
    BY <1>1, <2>1, <2>3, <2>4, <2>6, KeptSame
  <2> QED
    BY <1>2, <2>1, <2>7, <2>8, CallKept
<1>5. ASSUME NEW m \in Nodes, Owner[Head(replies[m]).socket] # u, HandleReply(m)
      PROVE  OneCall(u)'
  <2> DEFINE r == Head(replies[m])
  <2>1. /\ replies[m] # <<>> /\ replies' = [replies EXCEPT ![m] = Tail(replies[m])]
        /\ cmds' = [cmds EXCEPT ![m] = Continue(r, cmds[m])]
        /\ UNCHANGED <<state, conns, online>>
    BY <1>5 DEF HandleReply
  <2>2. Kept(replies[m], Tail(replies[m]), u)
    BY <1>1, <1>5, <2>1, KeptTail
  <2>3. r \in Reply
    BY <1>1, <2>1, TailKeeps
  <2> HIDE DEF r
  <2>4. r.socket \in Sockets /\ Owner[r.socket] # u
    BY <1>5, <2>3 DEF Reply, r
  <2>5. Kept(cmds[m], Continue(r, cmds[m]), u)
    <3>1. ASSUME NEW op \in {"SCARD up", "SADD online", "SCARD down", "SREM online"}
          PROVE  Kept(cmds[m], Append(cmds[m], [op |-> op, socket |-> r.socket]), u)
      <4> DEFINE c == [op |-> op, socket |-> r.socket]
      <4>1. c \in Cmd /\ c.socket = r.socket
        BY <2>4 DEF Cmd, Ops
      <4> HIDE DEF c
      <4>2. Kept(cmds[m], Append(cmds[m], c), u)
        BY <1>1, <2>4, <4>1, KeptAppend
      <4> QED
        BY <4>2 DEF c
    <3> QED
      BY <3>1, KeptSame, Continues
  <2>6. \A n \in Nodes : Kept(cmds[n], cmds'[n], u) /\ Kept(replies[n], replies'[n], u)
    BY <1>1, <2>1, <2>2, <2>5, KeptSame
  <2> QED
    BY <1>2, <2>1, <2>6, CallKept
<1>6. CASE UNCHANGED vars
  <2>1. UNCHANGED <<state, cmds, replies, conns, online>>
    BY <1>6 DEF vars
  <2>2. \A n \in Nodes : Kept(cmds[n], cmds'[n], u) /\ Kept(replies[n], replies'[n], u)
    BY <2>1, KeptSame
  <2> QED
    BY <1>2, <2>1, <2>2, CallKept
<1> QED
  BY <1>3, <1>4, <1>5, <1>6

LEMMA CallStep ==
    ASSUME TypeInv, CallInv, [Next]_vars
    PROVE  CallInv'
<1> SUFFICES ASSUME faults' = 0
             PROVE  dead' = {} /\ \A u \in (Users \ crossed)' : OneCall(u)'
  BY DEF CallInv
<1>1. faults \in Nat
  BY RedisAssumption DEF TypeInv, TypeOK
<1>2. (\A n \in Nodes : ~Fail(n) /\ ~Crash(n)) /\ \A u \in Users : ~Expire(u)
  <2>1. ASSUME \/ \E n \in Nodes : Fail(n) \/ Crash(n)
               \/ \E u \in Users : Expire(u)
        PROVE  faults' = faults + 1
    BY <2>1 DEF Fail, Crash, Expire
  <2> QED
    BY <1>1, <2>1
<1>3. faults = 0 /\ dead' = dead /\ crossed \subseteq crossed'
  <2>1. ASSUME NEW s \in Sockets, Connect(s) \/ Disconnect(s)
        PROVE  faults' = faults /\ dead' = dead /\ crossed \subseteq crossed'
    BY <2>1 DEF Connect, Disconnect, Begins
  <2>2. ASSUME NEW n \in Nodes, Execute(n) \/ HandleReply(n)
        PROVE  UNCHANGED <<faults, dead, crossed>>
    BY <2>2 DEF Execute, HandleReply
  <2>3. UNCHANGED vars => UNCHANGED <<faults, dead, crossed>>
    BY DEF vars
  <2> QED
    BY <1>2, <2>1, <2>2, <2>3 DEF Next
<1>4. dead = {} /\ \A u \in Users \ crossed : OneCall(u)
  BY <1>3 DEF CallInv
<1> SUFFICES ASSUME NEW u \in Users, u \notin crossed'
             PROVE  OneCall(u)'
  BY <1>3, <1>4
<1>5. OneCall(u)
  BY <1>3, <1>4
<1>6. ASSUME NEW s \in Sockets, Owner[s] = u, Connect(s) \/ Disconnect(s)
      PROVE  OneCall(u)'
  <2>1. ~Busy(u)
    BY <1>6 DEF Connect, Disconnect, Begins
  <2>2. Resting(u)
    BY <1>5, <2>1, IdleRests
  <2> QED
    BY <1>6, <2>2, CallBegins
<1>7. ASSUME NEW n \in Nodes, Owner[Head(cmds[n]).socket] = u, Execute(n)
      PROVE  OneCall(u)'
  BY <1>4, <1>5, <1>7, CallExecutes
<1>8. ASSUME NEW n \in Nodes, Owner[Head(replies[n]).socket] = u, HandleReply(n)
      PROVE  OneCall(u)'
  BY <1>5, <1>8, CallHandles
<1>9. ASSUME \/ \E s \in Sockets : Owner[s] # u /\ (Connect(s) \/ Disconnect(s))
             \/ \E n \in Nodes : Owner[Head(cmds[n]).socket] # u /\ Execute(n)
             \/ \E n \in Nodes : Owner[Head(replies[n]).socket] # u /\ HandleReply(n)
             \/ UNCHANGED vars
      PROVE  OneCall(u)'
  BY <1>4, <1>5, <1>9, CallOfOther
<1>10. \/ \E s \in Sockets : Connect(s) \/ Disconnect(s)
       \/ \E n \in Nodes : Execute(n) \/ HandleReply(n)
       \/ UNCHANGED vars
  BY <1>2 DEF Next
<1> QED
  BY <1>6, <1>7, <1>8, <1>9, <1>10

\* As long as nothing fails, a user whose connects and disconnects do not overlap is
\* in ps:online whenever it has a socket and all commands are done, on any number of
\* nodes: SADD and SCARD being two round trips (RedisPresenceStore.connect) loses
\* only users of which two calls run at once.
THEOREM NeverLostOnline == Spec => []NoLostOnline
<1> DEFINE Inv == TypeInv /\ CallInv
<1>1. Init => Inv
  <2> SUFFICES ASSUME Init
               PROVE  Inv
    OBVIOUS
  <2>1. ASSUME NEW u \in Users
        PROVE  Resting(u)
    <3>1. /\ \A n \in Nodes : cmds[n] = <<>> /\ replies[n] = <<>>
          /\ conns[u] = {} /\ u \notin online
      BY DEF Init
    <3>2. Up(u) = {}
      BY DEF Init, Up
    <3>3. Calm(u)
      BY <3>1 DEF Calm, Untouched
    <3> QED
      BY <3>1, <3>2, <3>3 DEF Resting, Rests
  <2>2. dead = {}
    BY DEF Init
  <2> QED
    BY <2>1, <2>2, TypeInit DEF CallInv, OneCall
<1>2. Inv /\ [Next]_vars => Inv'
  BY TypeStep, CallStep
<1>3. Inv => NoLostOnline
  <2> SUFFICES ASSUME Inv, Quiet, faults = 0, NEW u \in Users, u \notin crossed, Up(u) # {}
               PROVE  u \in online
    BY DEF NoLostOnline
  <2>1. OneCall(u)
    BY DEF CallInv
  <2>2. Calm(u)
    BY DEF Quiet, Calm, Untouched
  <2>3. Resting(u)
    BY <2>1, <2>2, NotBoth DEF OneCall, Asking, Hearing, Calm
  <2> QED
    BY <2>3 DEF Resting, Rests
<1> HIDE DEF Inv
<1> QED
  BY <1>1, <1>2, <1>3, PTL DEF Spec

\* Both ways round, ps:online is right once all commands are done.
THEOREM OnlineIsRightAlways == Spec => []OnlineIsRight
BY NeverStuckOnline, NeverLostOnline, PTL DEF OnlineIsRight
===============================================================================
