----------------------- MODULE LocalPresence_proofs -----------------------
(***************************************************************************)
(* Proofs about socketHandler.ts: LocalPresence for any users and sockets, *)
(* and TypingIndicator for any nodes, typists and receivers.               *)
(***************************************************************************)
EXTENDS LocalPresence, TypingIndicator, FiniteSetTheorems, TLAPS

-----------------------------------------------------------------------------
(* The queue of continuations.                                             *)

LEMMA QueueType ==
    ASSUME NEW q \in Seq(Task), NEW t \in Task, NEW emits \in BOOLEAN
    PROVE  Queue(q, t, emits) \in Seq(Task)
BY DEF Queue

\* A word that is queued must be true; if nothing is queued about u, what
\* was said before must be.
LEMMA QueueLastWord ==
    ASSUME NEW q \in Seq(Task), NEW t \in Task, NEW emits \in BOOLEAN,
           NEW s, NEW u, NEW truth,
           emits /\ About(t, s, u) => (SaysOnline(t) <=> u \in truth),
           (emits /\ About(t, s, u)) \/ LastWordTrue(q, s, u, truth)
    PROVE  LastWordTrue(Queue(q, t, emits), s, u, truth)
<1>1. CASE ~emits
  BY <1>1 DEF Queue
<1>2. CASE emits
  <2> DEFINE a == Append(q, t)
  <2>1. Len(q) \in Nat /\ DOMAIN q = 1..Len(q) /\ DOMAIN a = 1..(Len(q) + 1)
        /\ a[Len(q) + 1] = t /\ \A n \in 1..Len(q) : a[n] = q[n]
    OBVIOUS
  <2>2. Queue(q, t, emits) = a
    BY <1>2 DEF Queue
  <2> HIDE DEF a
  <2>3. ASSUME NEW n \in DOMAIN a, About(a[n], s, u),
               \A k \in DOMAIN a : k > n => ~About(a[k], s, u)
        PROVE  SaysOnline(a[n]) <=> u \in truth
    <3>1. CASE n = Len(q) + 1
      BY <1>2, <2>1, <2>3, <3>1
    <3>2. CASE n # Len(q) + 1
      <4>1. n \in DOMAIN q /\ a[n] = q[n] /\ Len(q) + 1 > n /\ Len(q) + 1 \in DOMAIN a
        BY <2>1, <3>2
      <4>2. ~About(t, s, u)
        BY <2>1, <2>3, <4>1
      <4>3. \A k \in DOMAIN q : k > n => ~About(q[k], s, u)
        BY <2>1, <2>3
      <4> QED
        BY <2>3, <4>1, <4>2, <4>3 DEF LastWordTrue
    <3> QED
      BY <3>1, <3>2
  <2> QED
    BY <2>2, <2>3 DEF LastWordTrue
<1> QED
  BY <1>1, <1>2

LEMMA QueueNoWord ==
    ASSUME NEW q \in Seq(Task), NEW t \in Task, NEW emits \in BOOLEAN,
           NEW s, NEW u, NEW heard, NEW truth,
           (emits /\ About(t, s, u)) \/ NoWordTrue(q, s, u, heard, truth)
    PROVE  NoWordTrue(Queue(q, t, emits), s, u, heard, truth)
<1>1. CASE ~emits
  BY <1>1 DEF Queue
<1>2. CASE emits
  <2> DEFINE a == Append(q, t)
  <2>1. Len(q) \in Nat /\ DOMAIN q = 1..Len(q) /\ DOMAIN a = 1..(Len(q) + 1)
        /\ a[Len(q) + 1] = t /\ \A n \in 1..Len(q) : a[n] = q[n]
    OBVIOUS
  <2>2. Queue(q, t, emits) = a /\ Len(q) + 1 \in DOMAIN a /\ DOMAIN q \subseteq DOMAIN a
    BY <1>2, <2>1 DEF Queue
  <2> HIDE DEF a
  <2> QED
    BY <1>2, <2>1, <2>2 DEF NoWordTrue
<1> QED
  BY <1>1, <1>2

\* Running the first continuation: the client has been told its word.
LEMMA TailWords ==
    ASSUME NEW q \in Seq(Task), q # <<>>, NEW s, NEW u,
           NEW heard, NEW heardNext, NEW truth,
           LastWordTrue(q, s, u, truth),
           NoWordTrue(q, s, u, heard, truth),
           u \in heardNext <=> IF About(Head(q), s, u) THEN SaysOnline(Head(q)) ELSE u \in heard
    PROVE  NoWordTrue(Tail(q), s, u, heardNext, truth)
<1> DEFINE r == Tail(q)
<1>1. Len(q) \in Nat \ {0} /\ DOMAIN q = 1..Len(q) /\ DOMAIN r = 1..(Len(q) - 1)
      /\ Head(q) = q[1] /\ \A n \in 1..(Len(q) - 1) : r[n] = q[n + 1]
  OBVIOUS
<1> HIDE DEF r
<1>2. SUFFICES ASSUME \A n \in DOMAIN r : ~About(r[n], s, u)
               PROVE  u \in heardNext <=> u \in truth
  BY DEF NoWordTrue, r
<1>3. ASSUME NEW k \in DOMAIN q, k > 1
      PROVE  ~About(q[k], s, u)
  <2>1. k - 1 \in DOMAIN r /\ r[k - 1] = q[k]
    BY <1>1, <1>3
  <2> QED
    BY <1>2, <2>1
<1>4. CASE About(q[1], s, u)
  <2>1. 1 \in DOMAIN q
    BY <1>1
  <2> QED
    BY <1>1, <1>3, <1>4, <2>1 DEF LastWordTrue
<1>5. CASE ~About(q[1], s, u)
  <2>1. \A n \in DOMAIN q : ~About(q[n], s, u)
    BY <1>1, <1>3, <1>5
  <2> QED
    BY <1>1, <1>5, <2>1 DEF NoWordTrue
<1> QED
  BY <1>4, <1>5

LEMMA TailLastWord ==
    ASSUME NEW q \in Seq(Task), q # <<>>, NEW s, NEW u, NEW truth,
           LastWordTrue(q, s, u, truth)
    PROVE  LastWordTrue(Tail(q), s, u, truth)
<1> DEFINE r == Tail(q)
<1>1. Len(q) \in Nat \ {0} /\ DOMAIN q = 1..Len(q) /\ DOMAIN r = 1..(Len(q) - 1)
      /\ \A n \in 1..(Len(q) - 1) : r[n] = q[n + 1]
  OBVIOUS
<1> HIDE DEF r
<1>2. ASSUME NEW n \in DOMAIN r, About(r[n], s, u),
             \A k \in DOMAIN r : k > n => ~About(r[k], s, u)
      PROVE  SaysOnline(r[n]) <=> u \in truth
  <2>1. n + 1 \in DOMAIN q /\ q[n + 1] = r[n]
    BY <1>1
  <2>2. ASSUME NEW k \in DOMAIN q, k > n + 1
        PROVE  ~About(q[k], s, u)
    <3>1. k - 1 \in DOMAIN r /\ r[k - 1] = q[k] /\ k - 1 > n
      BY <1>1, <2>2
    <3> QED
      BY <1>2, <3>1
  <2> QED
    BY <1>2, <2>1, <2>2 DEF LastWordTrue
<1> QED
  BY <1>2 DEF LastWordTrue, r
-----------------------------------------------------------------------------
LEMMA TypeInit ==
    ASSUME Init
    PROVE  TypeOK
BY OwnerAssumption DEF Init, TypeOK, Up, Task

LEMMA TaskTypes ==
    ASSUME NEW s \in Sockets, NEW others \in SUBSET Users
    PROVE  /\ Broadcast("online", s) \in Task
           /\ Broadcast("offline", s) \in Task
           /\ Bulk(s, others) \in Task
BY DEF Broadcast, Bulk, Task

LEMMA ConnectTypes ==
    ASSUME TypeOK, NEW s \in Sockets, Connect(s)
    PROVE  TypeOK'
<1> USE OwnerAssumption
<1> DEFINE others == OnlineOthers(sockets', Owner[s])
<1>1. /\ state[s] = "new" /\ state' = [state EXCEPT ![s] = "up"]
      /\ sockets' = [sockets EXCEPT ![Owner[s]] = @ \cup {s}]
      /\ pending' = Queue(Queue(pending, Broadcast("online", s), IsFirst(sockets[Owner[s]])),
                          Bulk(s, others), others # {})
      /\ UNCHANGED <<view, told>>
  BY DEF Connect
<1>2. others \subseteq Users
  BY DEF OnlineOthers
<1>3. pending' \in Seq(Task)
  BY <1>1, <1>2, TaskTypes, QueueType DEF TypeOK, IsFirst
<1>4. \A u \in Users : sockets'[u] = {x \in Up' : Owner[x] = u}
  BY <1>1 DEF TypeOK, Up
<1>5. state' \in [Sockets -> {"new", "up", "gone"}]
  BY <1>1 DEF TypeOK
<1>6. sockets' \in [Users -> SUBSET Sockets]
  BY <1>1 DEF TypeOK
<1>7. view' \in [Sockets -> SUBSET Users] /\ told' \in SUBSET Users
  BY <1>1 DEF TypeOK
<1> QED
  BY <1>3, <1>4, <1>5, <1>6, <1>7 DEF TypeOK

LEMMA DisconnectTypes ==
    ASSUME TypeOK, NEW s \in Sockets, Disconnect(s)
    PROVE  TypeOK'
<1> USE OwnerAssumption
<1>1. /\ state[s] = "up" /\ state' = [state EXCEPT ![s] = "gone"]
      /\ sockets' = [sockets EXCEPT ![Owner[s]] = @ \ {s}]
      /\ pending' = Queue(pending, Broadcast("offline", s), IsLast(sockets[Owner[s]], s))
      /\ UNCHANGED <<view, told>>
  BY DEF Disconnect, Leave
<1>2. pending' \in Seq(Task)
  BY <1>1, TaskTypes, QueueType DEF TypeOK, IsLast
<1>3. \A u \in Users : sockets'[u] = {x \in Up' : Owner[x] = u}
  BY <1>1 DEF TypeOK, Up
<1> QED
  BY <1>1, <1>2, <1>3 DEF TypeOK

LEMMA RunTypes ==
    ASSUME TypeOK, RunContinuation
    PROVE  TypeOK' /\ Head(pending) \in Task
<1> USE OwnerAssumption
<1>1. Head(pending) \in Task /\ pending' \in Seq(Task)
  BY DEF RunContinuation, TypeOK
<1>2. view' \in [Sockets -> SUBSET Users]
  BY <1>1 DEF RunContinuation, Shown, TypeOK, Task
<1>3. told' \in SUBSET Users
  BY <1>1 DEF RunContinuation, TypeOK, Task
<1> QED
  BY <1>1, <1>2, <1>3 DEF RunContinuation, TypeOK, Up

LEMMA RestartTypes ==
    ASSUME TypeOK, Restart
    PROVE  TypeOK'
<1>1. state' \in [Sockets -> {"new", "up", "gone"}] /\ Up' = {}
  <2>1. state \in [Sockets -> {"new", "up", "gone"}]
    BY DEF TypeOK
  <2>2. state' = [s \in Sockets |-> IF s \in Up THEN "gone" ELSE state[s]]
    BY DEF Restart
  <2>3. ASSUME NEW s \in Sockets
        PROVE  state'[s] \in {"new", "gone"}
    BY <2>1, <2>2 DEF Up
  <2> QED
    BY <2>2, <2>3 DEF Up
<1>2. sockets' = [u \in Users |-> {}] /\ pending' = <<>> /\ told' = {} /\ view' = view
  BY DEF Restart
<1>3. \A u \in Users : sockets'[u] = {s \in Up' : Owner[s] = u}
  BY <1>1, <1>2
<1>4. pending' \in Seq(Task) /\ sockets' \in [Users -> SUBSET Sockets]
  BY <1>2
<1> QED
  BY <1>1, <1>2, <1>3, <1>4 DEF TypeOK
-----------------------------------------------------------------------------
LEMMA ConnectInv ==
    ASSUME IInv, NEW s \in Sockets, Connect(s)
    PROVE  QueueInv'
<1> USE OwnerAssumption
<1> DEFINE first == IsFirst(sockets[Owner[s]])
           others == OnlineOthers(sockets', Owner[s])
           on == Broadcast("online", s)
           list == Bulk(s, others)
           q == Queue(pending, on, first)
<1>1. /\ state[s] = "new" /\ state' = [state EXCEPT ![s] = "up"]
      /\ sockets' = [sockets EXCEPT ![Owner[s]] = @ \cup {s}]
      /\ pending' = Queue(q, list, others # {})
      /\ view' = view
  BY DEF Connect
<1>2. TypeOK /\ QueueInv /\ TypeOK'
  BY ConnectTypes DEF IInv
<1>3. Online' = Online \cup {Owner[s]} /\ (first <=> Owner[s] \notin Online)
  BY <1>1, <1>2 DEF Online, IsFirst, TypeOK
<1>4. others = Online \ {Owner[s]}
  BY <1>1, <1>2 DEF OnlineOthers, Online, TypeOK
<1>5. on \in Task /\ list \in Task /\ first \in BOOLEAN
  BY <1>4, TaskTypes DEF IsFirst, Online
<1>6. pending \in Seq(Task) /\ q \in Seq(Task)
  BY <1>2, <1>5, QueueType DEF TypeOK
<1>7. /\ \A x, u : About(on, x, u) <=> u = Owner[s]
      /\ \A x, u : About(list, x, u) <=> x = s /\ u \in others
      /\ SaysOnline(on) /\ SaysOnline(list)
  BY DEF About, SaysOnline, Broadcast, Bulk
<1>8. Up' = Up \cup {s} /\ s \notin Up
  BY <1>1, <1>2 DEF Up, TypeOK
<1> HIDE DEF first, others, on, list
<1>9. ASSUME NEW x \in Sockets, NEW u \in Users, state[x] # "gone", u # Owner[x]
      PROVE  LastWordTrue(q, x, u, Online')
  <2>1. LastWordTrue(pending, x, u, Online)
    BY <1>2, <1>9 DEF QueueInv
  <2>2. u # Owner[s] \/ ~first => LastWordTrue(pending, x, u, Online')
    BY <1>3, <2>1 DEF LastWordTrue
  <2> QED
    BY <1>3, <1>5, <1>6, <1>7, <2>2, QueueLastWord
<1>10. ASSUME NEW x \in Sockets, NEW u \in Users, state'[x] # "gone", u # Owner[x]
       PROVE  LastWordTrue(pending', x, u, Online')
  <2>1. state[x] # "gone"
    BY <1>1, <1>2, <1>10 DEF TypeOK
  <2>2. LastWordTrue(q, x, u, Online')
    BY <1>9, <1>10, <2>1
  <2>3. About(list, x, u) => u \in Online'
    BY <1>3, <1>4, <1>7
  <2> QED
    BY <1>1, <1>5, <1>6, <1>7, <2>2, <2>3, QueueLastWord
<1>11. ASSUME NEW x \in Up', NEW u \in Users, u # Owner[x]
       PROVE  NoWordTrue(pending', x, u, view'[x], Online')
  <2>1. CASE x \in Up
    <3>1. NoWordTrue(pending, x, u, view[x], Online)
      BY <1>2, <1>11, <2>1 DEF QueueInv
    <3>2. u # Owner[s] \/ ~first => NoWordTrue(pending, x, u, view[x], Online')
      BY <1>3, <3>1 DEF NoWordTrue
    <3>3. NoWordTrue(q, x, u, view[x], Online')
      BY <1>5, <1>6, <1>7, <3>2, QueueNoWord
    <3> QED
      BY <1>1, <1>5, <1>6, <3>3, QueueNoWord
  <2>2. CASE x = s /\ u \in others
    <3>1. others # {}
      BY <2>2
    <3> QED
      BY <1>1, <1>5, <1>6, <1>7, <2>2, <3>1, QueueNoWord
  <2>3. CASE x = s /\ u \notin others
    <3>1. u \notin Online' /\ view[s] = {}
      BY <1>1, <1>2, <1>3, <1>4, <1>11, <2>3 DEF QueueInv
    <3>2. NoWordTrue(q, s, u, view[s], Online')
      BY <3>1 DEF NoWordTrue
    <3> QED
      BY <1>1, <1>5, <1>6, <2>3, <3>2, QueueNoWord
  <2> QED
    BY <1>8, <2>1, <2>2, <2>3
<1>12. \A x \in Sockets : state'[x] = "new" => view'[x] = {}
  BY <1>1, <1>2 DEF QueueInv, TypeOK
<1>13. \A n \in DOMAIN pending' : state'[pending'[n].socket] # "new"
  <2>1. on.socket = s /\ list.socket = s
    BY DEF on, list, Broadcast, Bulk
  <2>2. \A n \in DOMAIN q : q[n] = on \/ \E k \in DOMAIN pending : q[n] = pending[k]
    BY <1>6 DEF Queue
  <2>3. \A n \in DOMAIN pending' : pending'[n] = list \/ \E k \in DOMAIN q : pending'[n] = q[k]
    <3> HIDE DEF q
    <3> QED BY <1>1, <1>6 DEF Queue
  <2>4. \A n \in DOMAIN pending : pending[n].socket \in Sockets
                                  /\ state[pending[n].socket] # "new"
    <3>1. \A n \in DOMAIN pending : pending[n] \in Task
      BY <1>6
    <3>2. \A t \in Task : t.socket \in Sockets
      BY DEF Task
    <3> QED
      BY <1>2, <3>1, <3>2 DEF QueueInv
  <2>5. state'[s] = "up" /\ \A x \in Sockets : state[x] # "new" => state'[x] # "new"
    BY <1>1, <1>2 DEF TypeOK
  <2> HIDE DEF q
  <2> QED
    BY <2>1, <2>2, <2>3, <2>4, <2>5
<1> QED
  BY <1>10, <1>11, <1>12, <1>13 DEF QueueInv

LEMMA DisconnectInv ==
    ASSUME IInv, NEW s \in Sockets, Disconnect(s)
    PROVE  QueueInv'
<1> USE OwnerAssumption
<1> DEFINE last == IsLast(sockets[Owner[s]], s)
           off == Broadcast("offline", s)
<1>1. /\ state[s] = "up" /\ state' = [state EXCEPT ![s] = "gone"]
      /\ sockets' = [sockets EXCEPT ![Owner[s]] = @ \ {s}]
      /\ pending' = Queue(pending, off, last)
      /\ view' = view
  BY DEF Disconnect, Leave
<1>2. TypeOK /\ QueueInv /\ TypeOK'
  BY DisconnectTypes DEF IInv
<1>3. Online' = (IF last THEN Online \ {Owner[s]} ELSE Online)
  BY <1>1, <1>2 DEF Online, IsLast, Leave, TypeOK
<1>4. off \in Task /\ last \in BOOLEAN /\ pending \in Seq(Task)
  BY <1>2, TaskTypes DEF IsLast, TypeOK
<1>5. /\ \A x, u : About(off, x, u) <=> u = Owner[s]
      /\ ~SaysOnline(off) /\ off.socket = s
  BY DEF About, SaysOnline, Broadcast
<1>6. Up' = Up \ {s}
  BY <1>1, <1>2 DEF Up, TypeOK
<1> HIDE DEF last, off
<1>7. ASSUME NEW x \in Sockets, NEW u \in Users, state'[x] # "gone", u # Owner[x]
      PROVE  LastWordTrue(pending', x, u, Online')
  <2>1. state[x] # "gone"
    BY <1>1, <1>2, <1>7 DEF TypeOK
  <2>2. LastWordTrue(pending, x, u, Online)
    BY <1>2, <1>7, <2>1 DEF QueueInv
  <2>3. u # Owner[s] \/ ~last => LastWordTrue(pending, x, u, Online')
    BY <1>3, <2>2 DEF LastWordTrue
  <2> QED
    BY <1>1, <1>3, <1>4, <1>5, <2>3, QueueLastWord
<1>8. ASSUME NEW x \in Up', NEW u \in Users, u # Owner[x]
      PROVE  NoWordTrue(pending', x, u, view'[x], Online')
  <2>1. NoWordTrue(pending, x, u, view[x], Online)
    BY <1>2, <1>6, <1>8 DEF QueueInv
  <2>2. u # Owner[s] \/ ~last => NoWordTrue(pending, x, u, view[x], Online')
    BY <1>3, <2>1 DEF NoWordTrue
  <2> QED
    BY <1>1, <1>4, <1>5, <2>2, QueueNoWord
<1>9. \A x \in Sockets : state'[x] = "new" => view'[x] = {}
  BY <1>1, <1>2 DEF QueueInv, TypeOK
<1>10. \A n \in DOMAIN pending' : state'[pending'[n].socket] # "new"
  <2>1. \A n \in DOMAIN pending' : pending'[n] = off
                                   \/ \E k \in DOMAIN pending : pending'[n] = pending[k]
    BY <1>1, <1>4 DEF Queue
  <2>2. \A n \in DOMAIN pending : pending[n].socket \in Sockets
                                  /\ state[pending[n].socket] # "new"
    <3>1. \A n \in DOMAIN pending : pending[n] \in Task
      BY <1>4
    <3>2. \A t \in Task : t.socket \in Sockets
      BY DEF Task
    <3> QED
      BY <1>2, <3>1, <3>2 DEF QueueInv
  <2>3. state'[s] = "gone" /\ \A x \in Sockets : state[x] # "new" => state'[x] # "new"
    BY <1>1, <1>2 DEF TypeOK
  <2> QED
    BY <1>5, <2>1, <2>2, <2>3
<1> QED
  BY <1>7, <1>8, <1>9, <1>10 DEF QueueInv

LEMMA RunInv ==
    ASSUME IInv, RunContinuation
    PROVE  QueueInv'
<1> USE OwnerAssumption
<1> DEFINE t == Head(pending)
<1>1. /\ pending # <<>> /\ pending' = Tail(pending)
      /\ view' = [x \in Sockets |-> Shown(x, t)]
      /\ UNCHANGED <<state, sockets>>
  BY DEF RunContinuation
<1>2. TypeOK /\ QueueInv /\ t \in Task /\ pending \in Seq(Task)
  BY RunTypes DEF IInv, TypeOK
<1>3. Online' = Online /\ Up' = Up
  BY <1>1 DEF Online, Up
<1>4. t = pending[1] /\ 1 \in DOMAIN pending
  BY <1>1, <1>2
<1> HIDE DEF t
<1>5. ASSUME NEW x \in Up, NEW u \in Users, u # Owner[x]
      PROVE  NoWordTrue(pending', x, u, view'[x], Online')
  <2>1. view'[x] = Shown(x, t) /\ state[x] = "up"
    BY <1>1, <1>5 DEF Up
  <2>2. t.kind \in {"online", "offline", "bulk"}
    BY <1>2 DEF Task
  <2>3. u \in view'[x] <=> IF About(t, x, u) THEN SaysOnline(t) ELSE u \in view[x]
    BY <2>1, <2>2 DEF Shown, About, SaysOnline
  <2>4. LastWordTrue(pending, x, u, Online) /\ NoWordTrue(pending, x, u, view[x], Online)
    BY <1>2, <1>5, <2>1 DEF QueueInv, Up
  <2> QED
    BY <1>1, <1>2, <1>3, <2>3, <2>4, TailWords DEF t
<1>6. ASSUME NEW x \in Sockets, NEW u \in Users, state[x] # "gone", u # Owner[x]
      PROVE  LastWordTrue(pending', x, u, Online')
  BY <1>1, <1>2, <1>3, <1>6, TailLastWord DEF QueueInv
<1>7. ASSUME NEW x \in Sockets, state'[x] = "new"
      PROVE  view'[x] = {}
  <2>1. view'[x] = Shown(x, t) /\ state[x] = "new"
    BY <1>1, <1>7
  <2>2. Shown(x, t) = view[x]
    BY <2>1 DEF Shown
  <2> QED
    BY <1>2, <2>1, <2>2 DEF QueueInv
<1>8. \A n \in DOMAIN pending' : state'[pending'[n].socket] # "new"
  <2>1. \A n \in DOMAIN pending' : \E k \in DOMAIN pending : pending'[n] = pending[k]
    <3>1. ASSUME NEW n \in DOMAIN pending'
          PROVE  n + 1 \in DOMAIN pending /\ pending'[n] = pending[n + 1]
      BY <1>1, <1>2, <3>1
    <3> QED
      BY <3>1
  <2> QED
    BY <1>1, <1>2, <2>1 DEF QueueInv
<1> QED
  BY <1>1, <1>3, <1>5, <1>6, <1>7, <1>8 DEF QueueInv

LEMMA RestartInv ==
    ASSUME IInv, Restart
    PROVE  QueueInv'
<1>1. pending' = <<>> /\ Up' = {} /\ Online' = {} /\ view' = view
  BY DEF Restart, Up, Online
<1>2. \A x \in Sockets : state'[x] = "new" => state[x] = "new"
  BY DEF Restart
<1> QED
  BY <1>1, <1>2 DEF QueueInv, IInv, LastWordTrue

LEMMA IInvInit ==
    ASSUME Init
    PROVE  IInv
<1>1. TypeOK
  BY TypeInit
<1>2. pending = <<>> /\ Up = {} /\ Online = {}
  BY DEF Init, Up, Online
<1> QED
  BY <1>1, <1>2 DEF Init, IInv, QueueInv, LastWordTrue

LEMMA IInvStep ==
    ASSUME IInv, [Next]_vars
    PROVE  IInv'
<1>1. CASE UNCHANGED vars
  <2>1. UNCHANGED <<state, sockets, pending, view, told>>
    BY <1>1 DEF vars
  <2>2. TypeOK'
    BY <2>1 DEF IInv, TypeOK, Up
  <2> QED
    BY <2>1, <2>2 DEF IInv, QueueInv, Up, Online
<1>2. CASE Next
  BY <1>2, ConnectTypes, DisconnectTypes, RunTypes, RestartTypes,
     ConnectInv, DisconnectInv, RunInv, RestartInv DEF Next, IInv
<1> QED
  BY <1>1, <1>2

\* The map of sockets is exact at all times: a user's entry holds its sockets that
\* are up and no other, however often they come and go and whenever the node
\* restarts (LocalPresenceStore.connect and disconnect).
THEOREM TypeCorrect == Spec => []TypeOK
<1>1. IInv => TypeOK
  BY DEF IInv
<1> QED
  BY <1>1, IInvInit, IInvStep, PTL DEF Spec

\* Whenever nothing is queued, the client of every socket knows exactly which
\* other users have a socket, for any number of users and sockets.
THEOREM ViewsAgreeAlways == Spec => []ViewsAgree
<1>1. Spec => []IInv
  BY IInvInit, IInvStep, PTL DEF Spec
<1>2. IInv => ViewsAgree
  <2>1. SUFFICES ASSUME IInv, pending = <<>>, NEW s \in Up, NEW u \in Users, u # Owner[s]
                 PROVE  u \in view[s] <=> u \in Online
    <3>1. IInv => \A s \in Up : view[s] \subseteq Users
      BY DEF IInv, TypeOK, Up
    <3> QED
      BY <3>1 DEF ViewsAgree, AllRight, Online
  <2> QED
    BY <2>1 DEF IInv, QueueInv, NoWordTrue
<1> QED
  BY <1>1, <1>2, PTL
-----------------------------------------------------------------------------
(* The refinement of Presence.                                             *)

\* Continuation t announces a change of user u.
Announces(t, u) == t.kind # "bulk" /\ Owner[t.socket] = u

Announced(q, u) == {n \in DOMAIN q : Announces(q[n], u)}

NoneBetween(q, u, low, high) ==
    \A k \in DOMAIN q : low < k /\ k < high => ~Announces(q[k], u)

\* The queued announcements of u turn what was told before into what is true
\* after them, by turns online and offline.
Turns(q, u, before, after) ==
    /\ \A n \in DOMAIN q : Announces(q[n], u) /\ NoneBetween(q, u, 0, n) =>
          (q[n].kind = "online" <=> u \notin before)
    /\ \A m, n \in DOMAIN q :
          m < n /\ Announces(q[m], u) /\ Announces(q[n], u) /\ NoneBetween(q, u, m, n) =>
             (q[m].kind = "online" <=> q[n].kind # "online")
    /\ \A n \in DOMAIN q : Announces(q[n], u) /\ NoneBetween(q, u, n, Len(q) + 1) =>
          (q[n].kind = "online" <=> u \in after)
    /\ NoneBetween(q, u, 0, Len(q) + 1) => (u \in before <=> u \in after)

TurnsInv == \A u \in Users : Turns(pending, u, told, Online)

LEMMA AppendTurns ==
    ASSUME NEW q \in Seq(Task), NEW t \in Task, NEW u, NEW before, NEW old, NEW new,
           Turns(q, u, before, old),
           IF Announces(t, u) THEN (t.kind = "online" <=> u \in new) /\ (u \in old <=> u \notin new)
                              ELSE u \in old <=> u \in new
    PROVE  Turns(Append(q, t), u, before, new)
<1> DEFINE a == Append(q, t)
           N == Len(q)
<1>1. /\ N \in Nat /\ DOMAIN q = 1..N /\ DOMAIN a = 1..(N + 1) /\ Len(a) = N + 1
      /\ a[N + 1] = t /\ \A n \in 1..N : a[n] = q[n]
  OBVIOUS
<1> HIDE DEF a, N
<1>2. \A n \in DOMAIN a : (n \in DOMAIN q /\ a[n] = q[n] /\ n < N + 1) \/ n = N + 1
  BY <1>1
<1>3. \A low, high \in 0..(N + 1) :
         NoneBetween(a, u, low, high) <=> NoneBetween(q, u, low, high)
  BY <1>1 DEF NoneBetween
<1>4. \A low \in 0..N : NoneBetween(a, u, low, N + 2) <=>
                           NoneBetween(q, u, low, N + 1) /\ ~Announces(t, u)
  BY <1>1 DEF NoneBetween
<1>5. ASSUME NEW n \in DOMAIN a, Announces(a[n], u), NoneBetween(a, u, 0, n)
      PROVE  a[n].kind = "online" <=> u \notin before
  <2>1. NoneBetween(q, u, 0, n)
    BY <1>1, <1>3, <1>5
  <2>2. CASE n = N + 1
    BY <1>1, <1>5, <2>1, <2>2 DEF Turns, N
  <2>3. CASE n \in DOMAIN q /\ a[n] = q[n]
    BY <1>5, <2>1, <2>3 DEF Turns
  <2> QED
    BY <1>2, <2>2, <2>3
<1>6. ASSUME NEW m \in DOMAIN a, NEW n \in DOMAIN a, m < n,
             Announces(a[m], u), Announces(a[n], u), NoneBetween(a, u, m, n)
      PROVE  a[m].kind = "online" <=> a[n].kind # "online"
  <2>1. m \in DOMAIN q /\ a[m] = q[m] /\ NoneBetween(q, u, m, n)
    BY <1>1, <1>2, <1>3, <1>6
  <2>2. CASE n = N + 1
    BY <1>1, <1>6, <2>1, <2>2 DEF Turns, N
  <2>3. CASE n \in DOMAIN q /\ a[n] = q[n]
    BY <1>6, <2>1, <2>3 DEF Turns
  <2> QED
    BY <1>2, <2>2, <2>3
<1>7. ASSUME NEW n \in DOMAIN a, Announces(a[n], u), NoneBetween(a, u, n, N + 2)
      PROVE  a[n].kind = "online" <=> u \in new
  <2>1. CASE n = N + 1
    BY <1>1, <1>7, <2>1
  <2>2. CASE n \in DOMAIN q /\ a[n] = q[n]
    <3>1. NoneBetween(q, u, n, N + 1) /\ ~Announces(t, u)
      BY <1>1, <1>4, <1>7, <2>2
    <3> QED
      BY <1>7, <2>2, <3>1 DEF Turns, N
  <2> QED
    BY <1>2, <2>1, <2>2
<1>8. NoneBetween(a, u, 0, N + 2) => (u \in before <=> u \in new)
  BY <1>1, <1>4 DEF Turns, N
<1>9. Len(a) + 1 = N + 2
  BY <1>1
<1> QED
  BY <1>5, <1>6, <1>7, <1>8, <1>9 DEF Turns, a

LEMMA QueueTurns ==
    ASSUME NEW q \in Seq(Task), NEW t \in Task, NEW emits \in BOOLEAN,
           NEW u, NEW before, NEW old, NEW new, Turns(q, u, before, old),
           IF emits /\ Announces(t, u)
           THEN (t.kind = "online" <=> u \in new) /\ (u \in old <=> u \notin new)
           ELSE u \in old <=> u \in new
    PROVE  Turns(Queue(q, t, emits), u, before, new)
<1>1. CASE emits
  BY <1>1, AppendTurns DEF Queue
<1>2. CASE ~emits
  BY <1>2 DEF Queue, Turns
<1> QED
  BY <1>1, <1>2

\* The head of the queue is the next turn.
LEMMA TailTurns ==
    ASSUME NEW q \in Seq(Task), q # <<>>, NEW u, NEW before, NEW next, NEW after,
           Turns(q, u, before, after),
           u \in next <=> IF Announces(Head(q), u) THEN Head(q).kind = "online" ELSE u \in before
    PROVE  /\ Turns(Tail(q), u, next, after)
           /\ Announces(Head(q), u) => (Head(q).kind = "online" <=> u \notin before)
<1> DEFINE r == Tail(q)
           N == Len(q)
<1>1. /\ N \in Nat \ {0} /\ DOMAIN q = 1..N /\ DOMAIN r = 1..(N - 1) /\ Len(r) = N - 1
      /\ Head(q) = q[1] /\ \A n \in 1..(N - 1) : r[n] = q[n + 1]
  OBVIOUS
<1> HIDE DEF r, N
<1>2. /\ 1 \in DOMAIN q /\ NoneBetween(q, u, 0, 1)
      /\ \A n \in DOMAIN r : n + 1 \in DOMAIN q /\ r[n] = q[n + 1]
  BY <1>1 DEF NoneBetween
<1>3. Announces(Head(q), u) => (Head(q).kind = "online" <=> u \notin before)
  BY <1>1, <1>2 DEF Turns
<1>4. \A low, high \in 0..N :
         NoneBetween(r, u, low, high) <=> NoneBetween(q, u, low + 1, high + 1)
  <2> SUFFICES ASSUME NEW low \in 0..N, NEW high \in 0..N
               PROVE  NoneBetween(r, u, low, high) <=> NoneBetween(q, u, low + 1, high + 1)
    OBVIOUS
  <2>1. ASSUME NoneBetween(r, u, low, high), NEW k \in DOMAIN q, low + 1 < k, k < high + 1
        PROVE  ~Announces(q[k], u)
    <3>1. k - 1 \in DOMAIN r /\ r[k - 1] = q[k] /\ low < k - 1 /\ k - 1 < high
      BY <1>1, <2>1
    <3> QED
      BY <2>1, <3>1 DEF NoneBetween
  <2>2. ASSUME NoneBetween(q, u, low + 1, high + 1), NEW k \in DOMAIN r, low < k, k < high
        PROVE  ~Announces(r[k], u)
    BY <1>1, <1>2, <2>2 DEF NoneBetween
  <2> QED
    BY <2>1, <2>2 DEF NoneBetween
<1>5. \A high \in 0..(N + 1) :
         NoneBetween(q, u, 0, high) <=>
            NoneBetween(q, u, 1, high) /\ (high > 1 => ~Announces(Head(q), u))
  BY <1>1 DEF NoneBetween
<1>6. ASSUME NEW n \in DOMAIN r, Announces(r[n], u), NoneBetween(r, u, 0, n)
      PROVE  r[n].kind = "online" <=> u \notin next
  <2>1. n + 1 \in DOMAIN q /\ r[n] = q[n + 1] /\ NoneBetween(q, u, 1, n + 1) /\ 1 < n + 1
    BY <1>1, <1>2, <1>4, <1>6
  <2>2. CASE Announces(Head(q), u)
    BY <1>1, <1>2, <1>6, <2>1, <2>2 DEF Turns
  <2>3. CASE ~Announces(Head(q), u)
    <3>1. NoneBetween(q, u, 0, n + 1)
      BY <1>1, <1>5, <2>1, <2>3
    <3> QED
      BY <1>6, <2>1, <2>3, <3>1 DEF Turns
  <2> QED
    BY <2>2, <2>3
<1>7. ASSUME NEW m \in DOMAIN r, NEW n \in DOMAIN r, m < n,
             Announces(r[m], u), Announces(r[n], u), NoneBetween(r, u, m, n)
      PROVE  r[m].kind = "online" <=> r[n].kind # "online"
  <2>1. NoneBetween(q, u, m + 1, n + 1) /\ m + 1 < n + 1
    BY <1>1, <1>4, <1>7
  <2> QED
    BY <1>2, <1>7, <2>1 DEF Turns
<1>8. ASSUME NEW n \in DOMAIN r, Announces(r[n], u), NoneBetween(r, u, n, N)
      PROVE  r[n].kind = "online" <=> u \in after
  <2>1. NoneBetween(q, u, n + 1, N + 1)
    BY <1>1, <1>4, <1>8
  <2> QED
    BY <1>2, <1>8, <2>1 DEF Turns, N
<1>9. ASSUME NoneBetween(r, u, 0, N)
      PROVE  u \in next <=> u \in after
  <2>1. NoneBetween(q, u, 1, N + 1)
    BY <1>1, <1>4, <1>9
  <2>2. CASE Announces(Head(q), u)
    BY <1>1, <1>2, <2>1, <2>2 DEF Turns, N
  <2>3. CASE ~Announces(Head(q), u)
    <3>1. NoneBetween(q, u, 0, N + 1)
      BY <1>1, <1>5, <2>1, <2>3
    <3> QED
      BY <2>3, <3>1 DEF Turns, N
  <2> QED
    BY <2>2, <2>3
<1>10. Len(r) + 1 = N
  BY <1>1
<1> QED
  BY <1>3, <1>6, <1>7, <1>8, <1>9, <1>10 DEF Turns, r

LEMMA AnnouncedFinite ==
    ASSUME NEW q \in Seq(Task), NEW u
    PROVE  IsFiniteSet(Announced(q, u)) /\ Cardinality(Announced(q, u)) \in Nat
<1>1. Len(q) \in Nat /\ DOMAIN q = 1..Len(q)
  OBVIOUS
<1>2. IsFiniteSet(1..Len(q)) /\ Announced(q, u) \subseteq 1..Len(q)
  BY <1>1, FS_Interval DEF Announced
<1> QED
  BY <1>2, FS_Subset, FS_CardinalityType

LEMMA QueueCount ==
    ASSUME NEW q \in Seq(Task), NEW t \in Task, NEW emits \in BOOLEAN, NEW u
    PROVE  Cardinality(Announced(Queue(q, t, emits), u)) =
              IF emits /\ Announces(t, u) THEN Cardinality(Announced(q, u)) + 1
                                          ELSE Cardinality(Announced(q, u))
<1> DEFINE a == Append(q, t)
<1>1. /\ Len(q) \in Nat /\ DOMAIN q = 1..Len(q) /\ DOMAIN a = 1..(Len(q) + 1)
      /\ a[Len(q) + 1] = t /\ \A n \in 1..Len(q) : a[n] = q[n]
  OBVIOUS
<1> HIDE DEF a
<1>2. Announced(a, u) = IF Announces(t, u) THEN Announced(q, u) \cup {Len(q) + 1}
                                          ELSE Announced(q, u)
  BY <1>1 DEF Announced
<1>3. Len(q) + 1 \notin Announced(q, u)
  BY <1>1 DEF Announced
<1> QED
  BY <1>2, <1>3, AnnouncedFinite, FS_AddElement DEF Queue, a

LEMMA TailCount ==
    ASSUME NEW q \in Seq(Task), q # <<>>, NEW u
    PROVE  Cardinality(Announced(q, u)) =
              IF Announces(Head(q), u) THEN Cardinality(Announced(Tail(q), u)) + 1
                                       ELSE Cardinality(Announced(Tail(q), u))
<1> DEFINE r == Tail(q)
           later == Announced(q, u) \ {1}
           f == [n \in Announced(r, u) |-> n + 1]
<1>1. /\ Len(q) \in Nat \ {0} /\ DOMAIN q = 1..Len(q) /\ DOMAIN r = 1..(Len(q) - 1)
      /\ Head(q) = q[1] /\ r \in Seq(Task) /\ \A n \in 1..(Len(q) - 1) : r[n] = q[n + 1]
  OBVIOUS
<1> HIDE DEF r
<1>2. \A n \in Announced(r, u) : n \in Nat /\ n + 1 \in later
  BY <1>1 DEF Announced
<1>3. \A k \in later : k - 1 \in Announced(r, u) /\ (k - 1) + 1 = k
  BY <1>1 DEF Announced
<1>4. f \in Surjection(Announced(r, u), later)
  <2>1. \A k \in later : \E n \in Announced(r, u) : f[n] = k
    BY <1>3
  <2> QED
    BY <1>2, <2>1 DEF Surjection
<1>5. f \in Injection(Announced(r, u), later)
  BY <1>2 DEF Injection, IsInjective
<1>6. Cardinality(later) = Cardinality(Announced(r, u))
  BY <1>1, <1>4, <1>5, AnnouncedFinite, FS_Surjection
<1>7. 1 \in Announced(q, u) <=> Announces(Head(q), u)
  BY <1>1 DEF Announced
<1>8. IsFiniteSet(Announced(q, u)) /\ Cardinality(Announced(q, u)) \in Nat
  BY AnnouncedFinite
<1>9. Cardinality(later) = IF 1 \in Announced(q, u) THEN Cardinality(Announced(q, u)) - 1
                                                   ELSE Cardinality(Announced(q, u))
  BY <1>8, FS_RemoveElement
<1> QED
  BY <1>6, <1>7, <1>8, <1>9 DEF r

\* The abstract lag.
Lag == [u \in Users |-> Cardinality(Announced(pending, u))]

\* What the abstract specification sees of a step.
LEMMA AbstractSteps ==
    ASSUME NEW u \in Users
    PROVE  /\ /\ Online' = Abstract!Toggle(Online, u) /\ told' = told
              /\ Lag' = [Lag EXCEPT ![u] = @ + 1]
              => Abstract!Change(u)
           /\ /\ Online' = Online /\ told' = Abstract!Toggle(told, u)
              /\ Lag[u] > 0 /\ Lag' = [Lag EXCEPT ![u] = @ - 1]
              => Abstract!Announce(u)
           /\ UNCHANGED <<Online, told, Lag>> => UNCHANGED Abstract!vars
BY DEF Abstract!Change, Abstract!Announce, Abstract!vars, Lag, Announced, Announces

LEMMA ConnectRefines ==
    ASSUME IInv, TurnsInv, NEW s \in Sockets, Connect(s)
    PROVE  TurnsInv' /\ [Abstract!Next]_(Abstract!vars)
<1> USE OwnerAssumption
<1> DEFINE owner == Owner[s]
           first == IsFirst(sockets[owner])
           others == OnlineOthers(sockets', owner)
           on == Broadcast("online", s)
           list == Bulk(s, others)
           q == Queue(pending, on, first)
           listed == others # {}
<1>1. /\ sockets' = [sockets EXCEPT ![owner] = @ \cup {s}]
      /\ pending' = Queue(q, list, listed) /\ told' = told
  BY DEF Connect
<1>2. Online' = Online \cup {owner} /\ (first <=> owner \notin Online)
  BY <1>1 DEF Online, IsFirst, IInv, TypeOK
<1>3. on \in Task /\ list \in Task /\ first \in BOOLEAN /\ listed \in BOOLEAN /\ owner \in Users
  BY TaskTypes DEF IsFirst, OnlineOthers
<1>4. pending \in Seq(Task) /\ q \in Seq(Task)
  BY <1>3, QueueType DEF IInv, TypeOK
<1>5. /\ \A u : Announces(on, u) <=> u = owner
      /\ \A u : ~Announces(list, u)
      /\ on.kind = "online"
  BY DEF Announces, Broadcast, Bulk
<1> HIDE DEF owner, first, others, on, list, listed
<1>6. ASSUME NEW u \in Users
      PROVE  Turns(pending', u, told', Online')
  <2>1. Turns(pending, u, told, Online)
    BY DEF TurnsInv
  <2>2. Turns(q, u, told, Online')
    BY <1>2, <1>3, <1>4, <1>5, <2>1, QueueTurns
  <2> HIDE DEF q
  <2> QED
    BY <1>1, <1>3, <1>4, <1>5, <2>2, QueueTurns
<1>7. ASSUME NEW u \in Users
      PROVE  Lag'[u] = IF first /\ u = owner THEN Lag[u] + 1 ELSE Lag[u]
  <2>1. Cardinality(Announced(q, u)) =
           IF first /\ u = owner THEN Cardinality(Announced(pending, u)) + 1
                                 ELSE Cardinality(Announced(pending, u))
    BY <1>3, <1>4, <1>5, QueueCount
  <2> HIDE DEF q
  <2>2. Cardinality(Announced(pending', u)) = Cardinality(Announced(q, u))
    BY <1>1, <1>3, <1>4, <1>5, QueueCount
  <2> QED
    BY <2>1, <2>2 DEF Lag
<1>8. CASE first
  <2>1. Lag' = [Lag EXCEPT ![owner] = @ + 1]
    BY <1>7, <1>8 DEF Lag
  <2>2. Online' = Abstract!Toggle(Online, owner)
    BY <1>2, <1>8 DEF Abstract!Toggle
  <2> QED
    BY <1>1, <1>3, <1>6, <2>1, <2>2, AbstractSteps DEF TurnsInv, Abstract!Next
<1>9. CASE ~first
  <2>1. Lag' = Lag
    BY <1>7, <1>9 DEF Lag
  <2>2. Online' = Online
    BY <1>2, <1>9
  <2> QED
    BY <1>1, <1>3, <1>6, <2>1, <2>2, AbstractSteps DEF TurnsInv
<1> QED
  BY <1>8, <1>9

LEMMA DisconnectRefines ==
    ASSUME IInv, TurnsInv, NEW s \in Sockets, Disconnect(s)
    PROVE  TurnsInv' /\ [Abstract!Next]_(Abstract!vars)
<1> USE OwnerAssumption
<1> DEFINE owner == Owner[s]
           last == IsLast(sockets[owner], s)
           off == Broadcast("offline", s)
<1>1. /\ state[s] = "up" /\ sockets' = [sockets EXCEPT ![owner] = @ \ {s}]
      /\ pending' = Queue(pending, off, last) /\ told' = told
  BY DEF Disconnect, Leave
<1>2. s \in sockets[owner]
  BY <1>1 DEF IInv, TypeOK, Up
<1>3. owner \in Online /\ Online' = IF last THEN Online \ {owner} ELSE Online
  BY <1>1, <1>2 DEF Online, IsLast, Leave, IInv, TypeOK
<1>4. off \in Task /\ last \in BOOLEAN /\ owner \in Users /\ pending \in Seq(Task)
  BY TaskTypes DEF IsLast, IInv, TypeOK
<1>5. (\A u : Announces(off, u) <=> u = owner) /\ off.kind # "online"
  BY DEF Announces, Broadcast
<1> HIDE DEF owner, last, off
<1>6. ASSUME NEW u \in Users
      PROVE  Turns(pending', u, told', Online')
  <2>1. Turns(pending, u, told, Online)
    BY DEF TurnsInv
  <2> QED
    BY <1>1, <1>3, <1>4, <1>5, <2>1, QueueTurns
<1>7. ASSUME NEW u \in Users
      PROVE  Lag'[u] = IF last /\ u = owner THEN Lag[u] + 1 ELSE Lag[u]
  <2>1. Cardinality(Announced(pending', u)) =
           IF last /\ u = owner THEN Cardinality(Announced(pending, u)) + 1
                                ELSE Cardinality(Announced(pending, u))
    BY <1>1, <1>4, <1>5, QueueCount
  <2> QED
    BY <2>1 DEF Lag
<1>8. CASE last
  <2>1. Lag' = [Lag EXCEPT ![owner] = @ + 1]
    BY <1>7, <1>8 DEF Lag
  <2>2. Online' = Abstract!Toggle(Online, owner)
    BY <1>3, <1>8 DEF Abstract!Toggle
  <2> QED
    BY <1>1, <1>4, <1>6, <2>1, <2>2, AbstractSteps DEF TurnsInv, Abstract!Next
<1>9. CASE ~last
  <2>1. Lag' = Lag
    BY <1>7, <1>9 DEF Lag
  <2> QED
    BY <1>1, <1>3, <1>4, <1>6, <1>9, <2>1, AbstractSteps DEF TurnsInv
<1> QED
  BY <1>8, <1>9

LEMMA RunRefines ==
    ASSUME IInv, TurnsInv, RunContinuation
    PROVE  TurnsInv' /\ [Abstract!Next]_(Abstract!vars)
<1> USE OwnerAssumption
<1> DEFINE t == Head(pending)
           owner == Owner[t.socket]
<1>1. /\ pending # <<>> /\ pending \in Seq(Task) /\ pending' = Tail(pending)
      /\ Online' = Online
      /\ told' = CASE t.kind = "online"  -> told \cup {owner}
                   [] t.kind = "offline" -> told \ {owner}
                   [] t.kind = "bulk"    -> told
  BY DEF RunContinuation, Online, IInv, TypeOK
<1>2. t \in Task /\ t.kind \in {"online", "offline", "bulk"} /\ owner \in Users
  BY RunTypes DEF IInv, Task
<1>3. \A u : Announces(t, u) <=> t.kind # "bulk" /\ u = owner
  BY DEF Announces
<1> HIDE DEF t, owner
<1>4. ASSUME NEW u \in Users
      PROVE  /\ Turns(pending', u, told', Online')
             /\ Announces(t, u) => (t.kind = "online" <=> u \notin told)
  <2>1. Turns(pending, u, told, Online)
    BY DEF TurnsInv
  <2>2. u \in told' <=> IF Announces(t, u) THEN t.kind = "online" ELSE u \in told
    BY <1>1, <1>2, <1>3
  <2>3. pending \in Seq(Task) /\ pending # <<>> /\ t = Head(pending)
    BY <1>1 DEF t
  <2>4. /\ Turns(Tail(pending), u, told', Online)
        /\ Announces(t, u) => (t.kind = "online" <=> u \notin told)
    BY <2>1, <2>2, <2>3, TailTurns
  <2> QED
    BY <1>1, <2>4
<1>5. ASSUME NEW u \in Users
      PROVE  /\ Lag[u] \in Nat /\ Lag'[u] \in Nat
             /\ Lag[u] = IF Announces(t, u) THEN Lag'[u] + 1 ELSE Lag'[u]
  <2>1. Tail(pending) \in Seq(Task)
    BY <1>1
  <2> QED
    BY <1>1, <2>1, TailCount, AnnouncedFinite DEF Lag, t
<1>6. CASE t.kind # "bulk"
  <2>1. told' = Abstract!Toggle(told, owner)
    BY <1>1, <1>2, <1>3, <1>4, <1>6 DEF Abstract!Toggle
  <2>2. Lag[owner] > 0
    BY <1>2, <1>3, <1>5, <1>6
  <2>3. \A u \in Users : Lag'[u] = IF u = owner THEN Lag[u] - 1 ELSE Lag[u]
    BY <1>3, <1>5, <1>6
  <2>4. Lag' = [Lag EXCEPT ![owner] = @ - 1]
    BY <2>3 DEF Lag
  <2> QED
    BY <1>1, <1>2, <1>4, <2>1, <2>2, <2>4, AbstractSteps DEF TurnsInv, Abstract!Next
<1>7. CASE t.kind = "bulk"
  <2>1. told' = told
    BY <1>1, <1>7
  <2>2. Lag' = Lag
    <3>1. \A u \in Users : Lag'[u] = Lag[u]
      BY <1>3, <1>5, <1>7
    <3> QED
      BY <3>1 DEF Lag
  <2> QED
    BY <1>1, <1>2, <1>4, <2>1, <2>2, AbstractSteps DEF TurnsInv
<1> QED
  BY <1>6, <1>7

LEMMA RestartRefines ==
    ASSUME IInv, TurnsInv, Restart
    PROVE  TurnsInv' /\ Abstract!Restart
<1>1. Online' = {} /\ told' = {} /\ pending' = <<>>
  BY DEF Restart, Online
<1>2. Lag' = [u \in Users |-> 0]
  <2>1. \A u : Announced(pending', u) = {}
    BY <1>1 DEF Announced
  <2> QED
    BY <2>1, FS_EmptySet DEF Lag
<1>3. TurnsInv'
  BY <1>1 DEF TurnsInv, Turns
<1>4. Abstract!Restart
  BY <1>1, <1>2 DEF Abstract!Restart, Lag, Announced, Announces
<1> QED
  BY <1>3, <1>4

LEMMA StepRefines ==
    ASSUME IInv, TurnsInv, [Next]_vars
    PROVE  TurnsInv' /\ [Abstract!Next]_(Abstract!vars)
<1>1. CASE UNCHANGED vars
  <2>1. UNCHANGED <<Online, told, pending>>
    BY <1>1 DEF vars, Online
  <2>2. UNCHANGED Lag
    BY <2>1 DEF Lag
  <2>3. UNCHANGED Abstract!vars
    BY <2>1, <2>2 DEF Abstract!vars, Lag, Announced, Announces
  <2> QED
    BY <2>1, <2>3 DEF TurnsInv
<1> QED
  BY <1>1, ConnectRefines, DisconnectRefines, RunRefines, RestartRefines DEF Next, Abstract!Next

\* The node implements the abstract presence specification, step by step: every
\* change between no socket and some socket of a user is announced once and in
\* order, for any users and sockets and across restarts.  (That each is announced
\* in the end is the fairness that AnnouncesOnce adds.)
THEOREM AnnouncesInOrder == Spec => Abstract!Init /\ [][Abstract!Next]_(Abstract!vars)
<1>1. Init => Abstract!Init /\ TurnsInv
  <2> SUFFICES ASSUME Init
               PROVE  Abstract!Init /\ TurnsInv
    OBVIOUS
  <2>1. Online = {} /\ told = {} /\ pending = <<>>
    BY DEF Init, Online
  <2>2. Lag = [u \in Users |-> 0]
    <3>1. \A u : Announced(pending, u) = {}
      BY <2>1 DEF Announced
    <3> QED
      BY <3>1, FS_EmptySet DEF Lag
  <2>3. TurnsInv
    BY <2>1 DEF TurnsInv, Turns
  <2>4. Abstract!Init
    BY <2>1, <2>2 DEF Abstract!Init, Lag, Announced, Announces
  <2> QED
    BY <2>3, <2>4
<1>2. IInv /\ TurnsInv /\ [Next]_vars => TurnsInv' /\ [Abstract!Next]_(Abstract!vars)
  BY StepRefines
<1> QED
  BY <1>1, <1>2, IInvInit, IInvStep, PTL DEF Spec
-----------------------------------------------------------------------------
(* Typing indicators.                                                      *)

TypingInv == TypingTypeOK /\ ShownWhileTyping

\* After an event that is not about the pair, or one that says on, the last word
\* is still "on".
LEMMA AppendLastOn ==
    ASSUME NEW q \in Seq(Event), NEW e \in Event, NEW u, NEW r,
           \/ AboutPair(e, u, r) /\ e.on
           \/ ~AboutPair(e, u, r) /\ LastOn(q, u, r)
    PROVE  LastOn(Append(q, e), u, r)
<1> DEFINE a == Append(q, e)
<1>1. Len(q) \in Nat /\ DOMAIN q = 1..Len(q) /\ DOMAIN a = 1..(Len(q) + 1)
      /\ a[Len(q) + 1] = e /\ \A k \in 1..Len(q) : a[k] = q[k]
  OBVIOUS
<1> HIDE DEF a
<1>2. ASSUME NEW k \in DOMAIN a, AboutPair(a[k], u, r),
             \A j \in DOMAIN a : j > k => ~AboutPair(a[j], u, r)
      PROVE  a[k].on
  <2>1. CASE k = Len(q) + 1
    BY <1>1, <1>2, <2>1
  <2>2. CASE k # Len(q) + 1
    <3>1. k \in DOMAIN q /\ a[k] = q[k] /\ Len(q) + 1 > k /\ Len(q) + 1 \in DOMAIN a
      BY <1>1, <2>2
    <3>2. LastOn(q, u, r)
      BY <1>1, <1>2, <3>1
    <3>3. \A j \in DOMAIN q : j > k => ~AboutPair(q[j], u, r)
      BY <1>1, <1>2
    <3> QED
      BY <1>2, <3>1, <3>2, <3>3 DEF LastOn
  <2> QED
    BY <2>1, <2>2
<1> QED
  BY <1>2 DEF LastOn, a

\* What an event that arrives leaves under way.
LEMMA TailLastOn ==
    ASSUME NEW q \in Seq(Event), q # <<>>, NEW u, NEW r
    PROVE  /\ Head(q) \in Event /\ Tail(q) \in Seq(Event)
           /\ LastOn(q, u, r) => LastOn(Tail(q), u, r)
           /\ LastOn(q, u, r) /\ AboutPair(Head(q), u, r) =>
                 \/ Head(q).on
                 \/ \E k \in DOMAIN Tail(q) : AboutPair(Tail(q)[k], u, r)
           /\ ~AboutPair(Head(q), u, r) /\ (\E k \in DOMAIN q : AboutPair(q[k], u, r)) =>
                 \E k \in DOMAIN Tail(q) : AboutPair(Tail(q)[k], u, r)
<1> DEFINE t == Tail(q)
<1>1. /\ Len(q) \in Nat /\ Len(q) > 0 /\ DOMAIN q = 1..Len(q) /\ Head(q) = q[1]
      /\ t \in Seq(Event) /\ Len(t) = Len(q) - 1 /\ DOMAIN t = 1..Len(t)
      /\ \A k \in 1..Len(t) : t[k] = q[k + 1]
  OBVIOUS
<1> HIDE DEF t
<1>2. /\ 1 \in DOMAIN q
      /\ \A k \in DOMAIN t : k + 1 \in DOMAIN q /\ t[k] = q[k + 1]
      /\ \A j \in DOMAIN q : j # 1 => j - 1 \in DOMAIN t /\ q[j] = t[j - 1]
      /\ \A j \in DOMAIN q : j # 1 => j > 1
      /\ \A j \in DOMAIN q, k \in DOMAIN t : j > k + 1 => j # 1 /\ j - 1 > k
  BY <1>1
<1>3. Head(q) \in Event
  BY <1>1, <1>2
<1>4. ASSUME LastOn(q, u, r), NEW k \in DOMAIN t, AboutPair(t[k], u, r),
             \A j \in DOMAIN t : j > k => ~AboutPair(t[j], u, r)
      PROVE  t[k].on
  <2>1. k + 1 \in DOMAIN q /\ AboutPair(q[k + 1], u, r) /\ t[k] = q[k + 1]
    BY <1>2, <1>4
  <2>2. \A j \in DOMAIN q : j > k + 1 => ~AboutPair(q[j], u, r)
    BY <1>2, <1>4
  <2> QED
    BY <1>4, <2>1, <2>2 DEF LastOn
<1>5. ASSUME LastOn(q, u, r), AboutPair(Head(q), u, r), ~Head(q).on
      PROVE  \E k \in DOMAIN t : AboutPair(t[k], u, r)
  <2>1. PICK j \in DOMAIN q : j > 1 /\ AboutPair(q[j], u, r)
    BY <1>1, <1>2, <1>5 DEF LastOn
  <2> QED
    BY <1>1, <1>2, <2>1
<1>6. ASSUME ~AboutPair(Head(q), u, r), NEW k \in DOMAIN q, AboutPair(q[k], u, r)
      PROVE  \E j \in DOMAIN t : AboutPair(t[j], u, r)
  BY <1>1, <1>2, <1>6
<1> QED
  BY <1>1, <1>3, <1>4, <1>5, <1>6 DEF LastOn, t

\* A node that tells a receiver something runs a timer for it, if it said "on",
\* and none for the typist otherwise.
LEMMA EmitKeeps ==
    ASSUME TypingInv, NEW n \in Nodes, NEW u \in Typists, NEW r \in Receivers, NEW on \in BOOLEAN,
           timer' = [timer EXCEPT ![n][u] = IF on THEN r ELSE None],
           wire' = Emitted(n, u, r, on), UNCHANGED <<shown, crossed>>
    PROVE  /\ timer' \in [Nodes -> [Typists -> Receivers \cup {None}]]
           /\ wire' \in [Nodes -> Seq(Event)]
           /\ TimerInv' /\ ShownWhileTyping'
<1> DEFINE e == [from |-> u, to |-> r, on |-> on]
           q == wire[n]
<1>1. /\ e \in Event /\ q \in Seq(Event)
      /\ wire' = [wire EXCEPT ![n] = Append(q, e)]
      /\ wire \in [Nodes -> Seq(Event)]
      /\ timer \in [Nodes -> [Typists -> Receivers \cup {None}]]
  BY DEF Event, Emitted, TypingInv, TypingTypeOK
<1>2. wire' \in [Nodes -> Seq(Event)] /\ wire'[n] = Append(q, e)
  BY <1>1
<1>3. timer' \in [Nodes -> [Typists -> Receivers \cup {None}]]
  BY <1>1
<1>4. /\ Len(q) + 1 \in DOMAIN Append(q, e) /\ Append(q, e)[Len(q) + 1] = e
      /\ \A k \in DOMAIN q : k \in DOMAIN Append(q, e) /\ Append(q, e)[k] = q[k]
  <2> HIDE DEF q, e
  <2> QED
    BY <1>1
<1>5. /\ e.from = u /\ e.to = r /\ e.on = on
      /\ \A v \in Typists, x \in Receivers : AboutPair(e, v, x) <=> v = u /\ x = r
  BY DEF AboutPair
<1> HIDE DEF q, e
<1>6. ASSUME NEW m \in Nodes, NEW v \in Typists, NEW x \in Receivers, timer'[m][v] = x
      PROVE  \/ m # n /\ timer[m][v] = x /\ wire'[m] = wire[m]
             \/ m = n /\ v # u /\ timer[m][v] = x
             \/ m = n /\ v = u /\ on /\ x = r
  BY <1>1, <1>6, TypingAssumption
<1>7. ASSUME NEW m \in Nodes, NEW v \in Typists, NEW x \in Receivers, timer'[m][v] = x
      PROVE  LastOn(wire'[m], v, x)
  <2>1. timer[m][v] = x => LastOn(wire[m], v, x)
    BY DEF TypingInv, TypingTypeOK, TimerInv
  <2>2. CASE m # n
    BY <1>6, <1>7, <2>1, <2>2
  <2>3. CASE m = n /\ v # u
    <3>1. ~AboutPair(e, v, x) /\ LastOn(q, v, x)
      BY <1>5, <1>6, <1>7, <2>1, <2>3 DEF q
    <3> QED
      BY <1>1, <1>2, <2>3, <3>1, AppendLastOn
  <2>4. CASE m = n /\ v = u
    <3>1. AboutPair(e, v, x) /\ e.on
      BY <1>5, <1>6, <1>7, <2>4
    <3> QED
      BY <1>1, <1>2, <2>4, <3>1, AppendLastOn
  <2> QED
    BY <2>2, <2>3, <2>4
<1>8. ASSUME NEW m \in Nodes, NEW v \in Typists, NEW x \in Receivers, timer'[m][v] = x,
             ~\E k \in DOMAIN wire'[m] : AboutPair(wire'[m][k], v, x)
      PROVE  timer[m][v] = x /\ ~\E k \in DOMAIN wire[m] : AboutPair(wire[m][k], v, x)
  <2>1. CASE m # n
    BY <1>6, <1>8, <2>1
  <2>2. CASE m = n
    <3>1. ~AboutPair(e, v, x)
      BY <1>2, <1>4, <1>8, <2>2
    <3>2. timer[m][v] = x
      BY <1>5, <1>6, <1>8, <2>2, <3>1
    <3>3. \A k \in DOMAIN q : ~AboutPair(q[k], v, x)
      BY <1>2, <1>4, <1>8, <2>2
    <3> QED
      BY <2>2, <3>2, <3>3 DEF q
  <2> QED
    BY <2>1, <2>2
<1>9. TimerInv'
  BY <1>7 DEF TimerInv
<1>10. ShownWhileTyping'
  BY <1>8 DEF TypingInv, ShownWhileTyping, InFlight, AboutPair
<1> QED
  BY <1>2, <1>3, <1>9, <1>10

\* A node that drops timers, or starts anew with nothing to send, owes nothing.
LEMMA DropKeeps ==
    ASSUME TypingInv,
           timer' \in [Nodes -> [Typists -> Receivers \cup {None}]],
           \A m \in Nodes, v \in Typists :
              timer'[m][v] # None => timer'[m][v] = timer[m][v] /\ wire'[m] = wire[m],
           UNCHANGED <<shown, crossed>>
    PROVE  TimerInv' /\ ShownWhileTyping'
<1>1. ASSUME NEW m \in Nodes, NEW v \in Typists, NEW x \in Receivers, timer'[m][v] = x
      PROVE  timer[m][v] = x /\ wire'[m] = wire[m]
  BY <1>1, TypingAssumption
<1>2. TimerInv'
  BY <1>1 DEF TypingInv, TypingTypeOK, TimerInv
<1>3. ShownWhileTyping'
  BY <1>1 DEF TypingInv, ShownWhileTyping, InFlight
<1> QED
  BY <1>2, <1>3

\* An event that arrives at the receiver: if it says "off", every other node whose
\* timer runs for the pair is crossed.
LEMMA DeliverKeeps ==
    ASSUME TypingInv, NEW n \in Nodes, Deliver(n)
    PROVE  TypingTypeOK' /\ TimerInv' /\ ShownWhileTyping'
<1> DEFINE q == wire[n]
           e == Head(q)
           pair == <<e.from, e.to>>
           rivals == {m \in Nodes \ {n} : timer[m][e.from] = e.to}
<1>1. /\ q # <<>> /\ q \in Seq(Event) /\ wire' = [wire EXCEPT ![n] = Tail(q)]
      /\ wire \in [Nodes -> Seq(Event)] /\ UNCHANGED <<timer, sent, abandoned>>
      /\ shown' = IF e.on THEN shown \cup {pair} ELSE shown \ {pair}
      /\ crossed' = IF e.on THEN crossed \ {pair}
                    ELSE IF rivals # {} THEN crossed \cup {pair} ELSE crossed
  BY DEF Deliver, TypingInv, TypingTypeOK
<1>2. e \in Event /\ Tail(q) \in Seq(Event)
  BY <1>1, TailLastOn
<1>3. wire' \in [Nodes -> Seq(Event)] /\ wire'[n] = Tail(q)
  BY <1>1, <1>2
<1>4. e.from \in Typists /\ e.to \in Receivers /\ e.on \in BOOLEAN
  BY <1>2 DEF Event
<1> HIDE DEF q, e, rivals
<1>5. TimerInv'
  <2> SUFFICES ASSUME NEW m \in Nodes, NEW v \in Typists, NEW x \in Receivers, timer[m][v] = x
               PROVE  LastOn(wire'[m], v, x)
    BY <1>1 DEF TimerInv
  <2>1. LastOn(wire[m], v, x)
    BY DEF TypingInv, TypingTypeOK, TimerInv
  <2> QED
    BY <1>1, <1>3, <2>1, TailLastOn DEF q
<1>6. TypingTypeOK'
  BY <1>1, <1>3, <1>4, <1>5 DEF TypingInv, TypingTypeOK, pair
<1>7. ASSUME NEW m \in Nodes, NEW v \in Typists, NEW x \in Receivers, timer[m][v] = x,
             ~\E k \in DOMAIN wire'[m] : AboutPair(wire'[m][k], v, x)
      PROVE  <<v, x>> \in shown' \cup crossed'
  <2>1. LastOn(wire[m], v, x)
    BY <1>7 DEF TypingInv, TypingTypeOK, TimerInv
  <2>2. (~\E k \in DOMAIN wire[m] : AboutPair(wire[m][k], v, x)) => <<v, x>> \in shown \cup crossed
    BY <1>7 DEF TypingInv, ShownWhileTyping, InFlight, AboutPair
  <2>3. CASE e.on
    <3>1. shown' = shown \cup {pair} /\ crossed' = crossed \ {pair}
      BY <1>1, <2>3
    <3>2. AboutPair(e, v, x) => pair = <<v, x>>
      BY DEF AboutPair
    <3>3. ~AboutPair(e, v, x) => ~\E k \in DOMAIN wire[m] : AboutPair(wire[m][k], v, x)
      BY <1>1, <1>3, <1>7, TailLastOn DEF q, e
    <3> QED
      BY <2>2, <3>1, <3>2, <3>3
  <2>4. CASE ~e.on /\ AboutPair(e, v, x)
    <3>1. m # n
      BY <1>1, <1>3, <1>7, <2>1, <2>4, TailLastOn DEF q, e
    <3>2. m \in rivals
      BY <1>7, <2>4, <3>1 DEF rivals, AboutPair
    <3>3. pair = <<v, x>> /\ pair \in crossed'
      BY <1>1, <2>4, <3>2 DEF AboutPair
    <3> QED
      BY <3>3
  <2>5. CASE ~e.on /\ ~AboutPair(e, v, x)
    <3>1. ~\E k \in DOMAIN wire[m] : AboutPair(wire[m][k], v, x)
      BY <1>1, <1>3, <1>7, <2>5, TailLastOn DEF q, e
    <3>2. <<v, x>> # pair
      BY <1>4, <2>5 DEF AboutPair
    <3>3. shown' = shown \ {pair} /\ crossed \subseteq crossed'
      BY <1>1, <2>5
    <3> QED
      BY <2>2, <3>1, <3>2, <3>3
  <2> QED
    BY <2>3, <2>4, <2>5
<1>8. ShownWhileTyping'
  BY <1>1, <1>7 DEF ShownWhileTyping, InFlight, AboutPair
<1> QED
  BY <1>5, <1>6, <1>8

LEMMA OwedType ==
    ASSUME TypingInv, NEW n \in Nodes, NEW u \in Typists
    PROVE  Owed(n, u) \subseteq Nodes \X Typists \X Receivers
<1>1. timer[n][u] \in Receivers \cup {None}
  BY DEF TypingInv, TypingTypeOK
<1> QED
  BY <1>1 DEF Owed

LEMMA HearKeeps ==
    ASSUME TypingInv, NEW n \in Nodes,
           NEW u \in Typists, NEW r \in Receivers, NEW on \in BOOLEAN,
           Hear(n, u, r, IF on THEN r ELSE None, on)
    PROVE  TypingInv'
<1>1. /\ timer' = [timer EXCEPT ![n][u] = IF on THEN r ELSE None]
      /\ wire' = Emitted(n, u, r, on) /\ UNCHANGED <<shown, crossed>>
      /\ sent < MaxEvents /\ sent' = sent + 1
      /\ abandoned' = (abandoned \cup Owed(n, u)) \ {<<n, u, r>>}
  BY DEF Hear
<1>2. sent' \in 0..MaxEvents
  BY <1>1, TypingAssumption DEF TypingInv, TypingTypeOK
<1>3. abandoned' \subseteq Nodes \X Typists \X Receivers
  BY <1>1, OwedType DEF TypingInv, TypingTypeOK
<1>4. /\ timer' \in [Nodes -> [Typists -> Receivers \cup {None}]]
      /\ wire' \in [Nodes -> Seq(Event)]
      /\ TimerInv' /\ ShownWhileTyping'
  BY <1>1, EmitKeeps
<1>5. TypingTypeOK'
  BY <1>1, <1>2, <1>3, <1>4 DEF TypingInv, TypingTypeOK
<1> QED
  BY <1>4, <1>5 DEF TypingInv

LEMMA TimeoutKeeps ==
    ASSUME TypingInv, NEW n \in Nodes, NEW u \in Typists,
           Timeout(n, u)
    PROVE  TypingInv'
<1>1. PICK r \in Receivers :
        /\ wire' = Emitted(n, u, r, FALSE)
        /\ timer' = [timer EXCEPT ![n][u] = None]
        /\ abandoned' = (abandoned \cup Owed(n, u)) \ {<<n, u, r>>}
        /\ UNCHANGED <<shown, sent, crossed>>
  BY DEF Timeout, Fires, Cleared
<1>2. abandoned' \subseteq Nodes \X Typists \X Receivers
  BY <1>1, OwedType DEF TypingInv, TypingTypeOK
<1>3. /\ timer' \in [Nodes -> [Typists -> Receivers \cup {None}]]
      /\ wire' \in [Nodes -> Seq(Event)]
      /\ TimerInv' /\ ShownWhileTyping'
  BY <1>1, EmitKeeps
<1>4. TypingTypeOK'
  BY <1>1, <1>2, <1>3 DEF TypingInv, TypingTypeOK
<1> QED
  BY <1>3, <1>4 DEF TypingInv

LEMMA TypingDisconnectKeeps ==
    ASSUME TypingInv, NEW n \in Nodes, NEW u \in Typists,
           DisconnectTypist(n, u)
    PROVE  TypingInv'
<1>1. /\ timer' = [timer EXCEPT ![n][u] = None]
      /\ abandoned' = abandoned \cup Owed(n, u)
      /\ UNCHANGED <<wire, shown, sent, crossed>>
  BY DEF DisconnectTypist, Cleared
<1>2. abandoned' \subseteq Nodes \X Typists \X Receivers
  BY <1>1, OwedType DEF TypingInv, TypingTypeOK
<1>3. /\ timer' \in [Nodes -> [Typists -> Receivers \cup {None}]]
      /\ \A m \in Nodes, v \in Typists : timer'[m][v] # None => timer'[m][v] = timer[m][v]
  BY <1>1 DEF TypingInv, TypingTypeOK
<1>4. TimerInv' /\ ShownWhileTyping'
  BY <1>1, <1>3, DropKeeps
<1>5. TypingTypeOK'
  BY <1>1, <1>2, <1>3, <1>4 DEF TypingInv, TypingTypeOK
<1> QED
  BY <1>4, <1>5 DEF TypingInv

LEMMA TypingRestartKeeps ==
    ASSUME TypingInv, NEW n \in Nodes, RestartNode(n)
    PROVE  TypingInv'
<1> DEFINE lost == UNION {Owed(n, u) : u \in Typists}
           unsent == {<<n, wire[n][k].from, wire[n][k].to>> : k \in DOMAIN wire[n]}
<1>1. /\ timer' = [timer EXCEPT ![n] = [u \in Typists |-> None]]
      /\ wire' = [wire EXCEPT ![n] = <<>>]
      /\ abandoned' = abandoned \cup lost \cup unsent
      /\ UNCHANGED <<shown, sent, crossed>>
  BY DEF RestartNode
<1>2. /\ timer \in [Nodes -> [Typists -> Receivers \cup {None}]]
      /\ wire \in [Nodes -> Seq(Event)]
  BY DEF TypingInv, TypingTypeOK
<1>3. lost \subseteq Nodes \X Typists \X Receivers
  BY OwedType
<1>4. unsent \subseteq Nodes \X Typists \X Receivers
  <2>1. \A k \in DOMAIN wire[n] : wire[n][k] \in Event
    BY <1>2
  <2> QED
    BY <2>1 DEF Event
<1> HIDE DEF lost, unsent
<1>5. /\ timer' \in [Nodes -> [Typists -> Receivers \cup {None}]]
      /\ wire' \in [Nodes -> Seq(Event)]
      /\ \A m \in Nodes, v \in Typists :
            timer'[m][v] # None => timer'[m][v] = timer[m][v] /\ wire'[m] = wire[m]
  BY <1>1, <1>2
<1>6. TimerInv' /\ ShownWhileTyping'
  BY <1>1, <1>5, DropKeeps
<1>7. TypingTypeOK'
  BY <1>1, <1>3, <1>4, <1>5, <1>6 DEF TypingInv, TypingTypeOK
<1> QED
  BY <1>6, <1>7 DEF TypingInv

LEMMA TypingInvStep ==
    ASSUME TypingInv, [TypingNext]_typingVars
    PROVE  TypingInv'
<1>1. ASSUME NEW n \in Nodes, NEW u \in Typists, NEW r \in Receivers,
             \/ StartTyping(n, u, r)
             \/ StopTyping(n, u, r)
             \/ SendMessage(n, u, r)
      PROVE  TypingInv'
  <2>1. \/ Hear(n, u, r, IF TRUE THEN r ELSE None, TRUE)
        \/ Hear(n, u, r, IF FALSE THEN r ELSE None, FALSE)
    BY <1>1 DEF StartTyping, StopTyping, SendMessage,
                NewTimer, Cleared
  <2> QED
    BY <2>1, HearKeeps
<1>2. CASE UNCHANGED typingVars
  BY <1>2 DEF typingVars, TypingInv, TypingTypeOK, TimerInv, ShownWhileTyping,
              InFlight
<1>3. ASSUME NEW n \in Nodes, Deliver(n)
      PROVE  TypingInv'
  BY <1>3, DeliverKeeps DEF TypingInv
<1> QED
  BY <1>1, <1>2, <1>3, TimeoutKeeps, TypingDisconnectKeeps, TypingRestartKeeps DEF TypingNext

LEMMA TypingInvAlways ==
    TypingSpec => []TypingInv
<1>1. TypingInit => TypingInv
  BY TypingAssumption DEF TypingInit, TypingInv, TypingTypeOK, TimerInv,
     ShownWhileTyping
<1>2. TypingInv /\ [TypingNext]_typingVars => TypingInv'
  BY TypingInvStep
<1> QED
  BY <1>1, <1>2, PTL DEF TypingSpec

\* The typing indicators keep their types for any nodes, typists, receivers and
\* number of events, and a node whose timer runs has not told its receiver since that
\* the typist stopped, however clients, timers, disconnects and restarts interleave (handleTyping, handleSendMessage,
\* handleDisconnect).
THEOREM TypingTypeCorrect ==
    TypingSpec => []TypingTypeOK
<1>1. TypingInv => TypingTypeOK
  BY DEF TypingInv
<1> QED
  BY <1>1, TypingInvAlways, PTL

\* While a node's timer runs for a receiver and the node has told everything, the
\* receiver sees the indicator, unless another node with a timer was crossed: so
\* for any number of nodes, typists and receivers (handleTyping, 137-154).
THEOREM ShownWhileTypingAlways ==
    TypingSpec => []ShownWhileTyping
<1>1. TypingInv => ShownWhileTyping
  BY DEF TypingInv
<1> QED
  BY <1>1, TypingInvAlways, PTL
-----------------------------------------------------------------------------
(* Who switches an indicator off.                                          *)

\* After the k-th event of q there is one that switches the pair off.
Stops(q, u, r, k) == \E j \in DOMAIN q : j > k /\ AboutPair(q[j], u, r) /\ ~q[j].on

\* Node n has a timer for the pair, or the stop on its way after event k, or has
\* abandoned it.
Owes(n, u, r, k) ==
    timer[n][u] = r \/ <<n, u, r>> \in abandoned \/ Stops(wire[n], u, r, k)

\* Whoever emits "on" owes the stop.
OwedInv ==
    \A n \in Nodes, u \in Typists, r \in Receivers : \A k \in DOMAIN wire[n] :
       AboutPair(wire[n][k], u, r) /\ wire[n][k].on => Owes(n, u, r, k)

\* What IndicatorEnds relies on: an indicator that is shown has a timer running for
\* it, or its stop on the way, or some node has abandoned it.
ShownIsOwed ==
    \A u \in Typists, r \in Receivers :
       <<u, r>> \in shown => \E n \in Nodes : Owes(n, u, r, 0)

StopInv == TypingTypeOK /\ OwedInv /\ ShownIsOwed

\* It is enough that what is owed stays owed, and that new events are owed.
LEMMA OwedStays ==
    ASSUME StopInv, shown' \subseteq shown,
           \A n \in Nodes, u \in Typists, r \in Receivers :
              Owes(n, u, r, 0) => Owes(n, u, r, 0)',
           \A n \in Nodes, u \in Typists, r \in Receivers : \A k \in DOMAIN wire'[n] :
              AboutPair(wire'[n][k], u, r) /\ wire'[n][k].on =>
                 \/ Owes(n, u, r, k)'
                 \/ /\ k \in DOMAIN wire[n] /\ wire'[n][k] = wire[n][k]
                    /\ Owes(n, u, r, k) => Owes(n, u, r, k)'
    PROVE  OwedInv' /\ ShownIsOwed'
<1>1. ShownIsOwed'
  <2> SUFFICES ASSUME NEW u \in Typists, NEW r \in Receivers, <<u, r>> \in shown'
               PROVE  \E n \in Nodes : Owes(n, u, r, 0)'
    BY DEF ShownIsOwed, Owes, Stops
  <2>1. PICK n \in Nodes : Owes(n, u, r, 0)
    BY DEF StopInv, ShownIsOwed
  <2> QED
    BY <2>1
<1>2. OwedInv'
  <2> SUFFICES ASSUME NEW n \in Nodes, NEW u \in Typists, NEW r \in Receivers,
                      NEW k \in DOMAIN wire'[n],
                      AboutPair(wire'[n][k], u, r), wire'[n][k].on
               PROVE  Owes(n, u, r, k)'
    BY DEF OwedInv, Owes, Stops
  <2>1. k \in DOMAIN wire[n] /\ AboutPair(wire[n][k], u, r) /\ wire[n][k].on =>
           Owes(n, u, r, k)
    BY DEF StopInv, OwedInv
  <2> QED
    BY <2>1
<1> QED
  BY <1>1, <1>2

\* A node that tells a receiver something has a timer for it, or has just told it to
\* stop; the receiver it turns away from is abandoned.
LEMMA EmitOwes ==
    ASSUME StopInv, NEW n \in Nodes, NEW u \in Typists, NEW r \in Receivers, NEW on \in BOOLEAN,
           timer' = [timer EXCEPT ![n][u] = IF on THEN r ELSE None],
           wire' = Emitted(n, u, r, on), UNCHANGED shown,
           abandoned' = (abandoned \cup Owed(n, u)) \ {<<n, u, r>>}
    PROVE  OwedInv' /\ ShownIsOwed'
<1> DEFINE e == [from |-> u, to |-> r, on |-> on]
           q == wire[n]
           a == Append(q, e)
<1>1. /\ wire' = [wire EXCEPT ![n] = a] /\ wire \in [Nodes -> Seq(Event)]
      /\ timer \in [Nodes -> [Typists -> Receivers \cup {None}]]
      /\ q \in Seq(Event) /\ e \in Event
  BY DEF Emitted, StopInv, TypingTypeOK, Event
<1>2. e.from = u /\ e.to = r /\ e.on = on
  OBVIOUS
<1> HIDE DEF e, q
<1>3. /\ Len(q) \in Nat /\ DOMAIN q = 1..Len(q) /\ DOMAIN a = 1..(Len(q) + 1)
      /\ a[Len(q) + 1] = e /\ \A j \in DOMAIN q : a[j] = q[j]
  BY <1>1
<1> HIDE DEF a
<1>4. /\ wire'[n] = a /\ wire[n] = q /\ \A m \in Nodes : m # n => wire'[m] = wire[m]
      /\ timer'[n][u] = IF on THEN r ELSE None
      /\ \A m \in Nodes, v \in Typists : m # n \/ v # u => timer'[m][v] = timer[m][v]
  BY <1>1 DEF q
<1>5. \A v, x, k : Stops(q, v, x, k) => Stops(a, v, x, k)
  BY <1>3 DEF Stops
<1>6. ASSUME NEW k \in Nat, k <= Len(q), ~on
      PROVE  Stops(a, u, r, k)
  BY <1>2, <1>3, <1>6 DEF Stops, AboutPair
<1>7. ASSUME NEW m \in Nodes, NEW v \in Typists, NEW x \in Receivers, NEW k \in Nat,
             Owes(m, v, x, k), m = n => k <= Len(q)
      PROVE  Owes(m, v, x, k)'
  <2>1. CASE m # n
    BY <1>4, <1>7, <2>1 DEF Owes, Owed
  <2>2. CASE m = n /\ <<v, x>> # <<u, r>>
    <3>1. <<n, u, x>> \in Owed(n, u) \/ timer[n][u] # x
      BY TypingAssumption DEF Owed
    <3> QED
      BY <1>4, <1>5, <1>7, <2>2, <3>1 DEF Owes
  <2>3. CASE m = n /\ v = u /\ x = r
    BY <1>4, <1>6, <1>7, <2>3 DEF Owes
  <2> QED
    BY <2>1, <2>2, <2>3
<1>8. ASSUME NEW m \in Nodes, NEW v \in Typists, NEW x \in Receivers, NEW k \in DOMAIN wire'[m],
             AboutPair(wire'[m][k], v, x), wire'[m][k].on
      PROVE  \/ Owes(m, v, x, k)'
             \/ /\ k \in DOMAIN wire[m] /\ wire'[m][k] = wire[m][k]
                /\ Owes(m, v, x, k) => Owes(m, v, x, k)'
  <2>1. k \in Nat
    BY <1>1, <1>3, <1>4
  <2>2. CASE m # n
    BY <1>4, <1>7, <2>1, <2>2
  <2>3. CASE m = n /\ k = Len(q) + 1
    <3>1. v = u /\ x = r /\ on
      BY <1>2, <1>3, <1>4, <1>8, <2>3 DEF AboutPair
    <3> QED
      BY <1>4, <2>3, <3>1 DEF Owes
  <2>4. CASE m = n /\ k # Len(q) + 1
    <3>1. k \in DOMAIN q /\ k <= Len(q)
      BY <1>3, <1>4, <2>4
    <3> QED
      BY <1>3, <1>4, <1>7, <2>1, <2>4, <3>1
  <2> QED
    BY <2>2, <2>3, <2>4
<1>9. \A m \in Nodes, v \in Typists, x \in Receivers : Owes(m, v, x, 0) => Owes(m, v, x, 0)'
  BY <1>3, <1>7
<1> QED
  BY <1>8, <1>9, OwedStays

\* A timer that a disconnect drops leaves its receiver abandoned.
LEMMA DropOwes ==
    ASSUME StopInv, NEW n \in Nodes, NEW u \in Typists, DisconnectTypist(n, u)
    PROVE  OwedInv' /\ ShownIsOwed'
<1>1. /\ timer' = [timer EXCEPT ![n][u] = None] /\ abandoned' = abandoned \cup Owed(n, u)
      /\ UNCHANGED <<wire, shown>>
      /\ timer \in [Nodes -> [Typists -> Receivers \cup {None}]]
  BY DEF DisconnectTypist, Cleared, StopInv, TypingTypeOK
<1>2. ASSUME NEW m \in Nodes, NEW v \in Typists, NEW x \in Receivers, NEW k, Owes(m, v, x, k)
      PROVE  Owes(m, v, x, k)'
  <2>1. timer[m][v] = x => timer'[m][v] = x \/ <<m, v, x>> \in Owed(n, u)
    BY <1>1, TypingAssumption DEF Owed
  <2> QED
    BY <1>1, <1>2, <2>1 DEF Owes
<1> QED
  BY <1>1, <1>2, OwedStays

\* So does a node that ends, and all that it had not told.
LEMMA RestartOwes ==
    ASSUME StopInv, NEW n \in Nodes, RestartNode(n)
    PROVE  OwedInv' /\ ShownIsOwed'
<1> DEFINE lost == UNION {Owed(n, u) : u \in Typists}
           unsent == {<<n, wire[n][k].from, wire[n][k].to>> : k \in DOMAIN wire[n]}
<1>1. /\ timer' = [timer EXCEPT ![n] = [u \in Typists |-> None]]
      /\ wire' = [wire EXCEPT ![n] = <<>>] /\ abandoned' = abandoned \cup lost \cup unsent
      /\ UNCHANGED shown
      /\ timer \in [Nodes -> [Typists -> Receivers \cup {None}]]
      /\ wire \in [Nodes -> Seq(Event)]
  BY DEF RestartNode, StopInv, TypingTypeOK
<1>2. \A u \in Typists, r \in Receivers : timer[n][u] = r => <<n, u, r>> \in lost
  BY TypingAssumption DEF Owed
<1>3. \A u, r, k : Stops(wire[n], u, r, k) => <<n, u, r>> \in unsent
  BY DEF Stops, AboutPair
<1> HIDE DEF lost, unsent
<1>4. wire'[n] = <<>> /\ \A m \in Nodes : m # n => wire'[m] = wire[m] /\ timer'[m] = timer[m]
  BY <1>1
<1>5. ASSUME NEW m \in Nodes, NEW u \in Typists, NEW r \in Receivers, NEW k, Owes(m, u, r, k)
      PROVE  Owes(m, u, r, k)'
  <2>1. CASE m = n
    BY <1>1, <1>2, <1>3, <1>5, <2>1 DEF Owes
  <2>2. CASE m # n
    BY <1>1, <1>4, <1>5, <2>2 DEF Owes
  <2> QED
    BY <2>1, <2>2
<1>6. ASSUME NEW m \in Nodes, NEW k \in DOMAIN wire'[m]
      PROVE  k \in DOMAIN wire[m] /\ wire'[m][k] = wire[m][k]
  BY <1>4, <1>6
<1> QED
  BY <1>1, <1>5, <1>6, OwedStays

\* An event that says "on" hands over to the receiver what its node owes.
LEMMA DeliverOwes ==
    ASSUME StopInv, NEW n \in Nodes, Deliver(n)
    PROVE  OwedInv' /\ ShownIsOwed'
<1> DEFINE q == wire[n]
           e == Head(q)
           t == Tail(q)
           pair == <<e.from, e.to>>
<1>1. /\ q # <<>> /\ q \in Seq(Event) /\ wire' = [wire EXCEPT ![n] = t]
      /\ wire \in [Nodes -> Seq(Event)] /\ UNCHANGED <<timer, abandoned>>
      /\ shown' = IF e.on THEN shown \cup {pair} ELSE shown \ {pair}
  BY DEF Deliver, StopInv, TypingTypeOK
<1> HIDE DEF q
<1>2. /\ Len(q) \in Nat /\ Len(q) > 0 /\ DOMAIN q = 1..Len(q) /\ e = q[1]
      /\ Len(t) = Len(q) - 1 /\ DOMAIN t = 1..Len(t) /\ t \in Seq(Event)
      /\ \A k \in DOMAIN t : k + 1 \in DOMAIN q /\ t[k] = q[k + 1]
      /\ \A k \in DOMAIN q : k # 1 => k - 1 \in DOMAIN t /\ q[k] = t[k - 1]
  BY <1>1
<1> HIDE DEF e, t
<1>3. wire[n] = q /\ wire'[n] = t /\ \A m \in Nodes : m # n => wire'[m] = wire[m]
  BY <1>1, <1>2 DEF q
<1>4. ASSUME NEW u, NEW r, NEW k \in Nat, Stops(q, u, r, k + 1)
      PROVE  Stops(t, u, r, k)
  <2>1. PICK j \in DOMAIN q : j > k + 1 /\ AboutPair(q[j], u, r) /\ ~q[j].on
    BY <1>4 DEF Stops
  <2>2. j # 1 /\ j - 1 > k
    BY <1>2, <2>1
  <2> QED
    BY <1>2, <2>1, <2>2 DEF Stops
<1>5. ASSUME NEW u, NEW r, Stops(q, u, r, 0), ~Stops(t, u, r, 0)
      PROVE  AboutPair(e, u, r) /\ ~e.on
  <2>1. PICK j \in DOMAIN q : j > 0 /\ AboutPair(q[j], u, r) /\ ~q[j].on
    BY <1>5 DEF Stops
  <2>2. CASE j = 1
    BY <1>2, <2>1, <2>2
  <2>3. CASE j # 1
    <3>1. j - 1 \in DOMAIN t /\ j - 1 > 0 /\ t[j - 1] = q[j]
      BY <1>2, <2>1, <2>3
    <3> QED
      BY <1>5, <2>1, <3>1 DEF Stops
  <2> QED
    BY <2>2, <2>3
<1>6. OwedInv'
  <2> SUFFICES ASSUME NEW m \in Nodes, NEW u \in Typists, NEW r \in Receivers,
                      NEW k \in DOMAIN wire'[m], AboutPair(wire'[m][k], u, r), wire'[m][k].on
               PROVE  Owes(m, u, r, k)'
    BY DEF OwedInv, Owes, Stops
  <2>1. CASE m # n
    BY <1>1, <1>3, <2>1 DEF StopInv, OwedInv, Owes
  <2>2. CASE m = n
    <3>1. k \in Nat /\ k + 1 \in DOMAIN q /\ q[k + 1] = wire'[n][k]
      BY <1>2, <1>3, <2>2
    <3>2. Owes(n, u, r, k + 1)
      BY <1>3, <2>2, <3>1 DEF StopInv, OwedInv
    <3> QED
      BY <1>1, <1>3, <1>4, <2>2, <3>1, <3>2 DEF Owes
  <2> QED
    BY <2>1, <2>2
<1>7. ASSUME NEW u \in Typists, NEW r \in Receivers, <<u, r>> \in shown'
      PROVE  \E m \in Nodes : Owes(m, u, r, 0)'
  <2>1. CASE AboutPair(e, u, r)
    <3>1. e.on
      BY <1>1, <1>7, <2>1 DEF AboutPair
    <3>2. Owes(n, u, r, 1)
      BY <1>2, <1>3, <2>1, <3>1 DEF StopInv, OwedInv
    <3>3. Stops(q, u, r, 1) => Stops(t, u, r, 0)
      BY <1>4
    <3> QED
      BY <1>1, <1>3, <3>2, <3>3 DEF Owes
  <2>2. CASE ~AboutPair(e, u, r)
    <3>1. (e.from = u /\ e.to = r) \/ <<u, r>> \in shown
      BY <1>1, <1>7
    <3>2. PICK m \in Nodes : Owes(m, u, r, 0)
      BY <2>2, <3>1 DEF StopInv, ShownIsOwed, AboutPair
    <3>3. Stops(wire[m], u, r, 0) => Stops(wire'[m], u, r, 0)
      BY <1>3, <1>5, <2>2
    <3> QED
      BY <1>1, <3>2, <3>3 DEF Owes
  <2> QED
    BY <2>1, <2>2
<1>8. ShownIsOwed'
  BY <1>7 DEF ShownIsOwed, Owes
<1> QED
  BY <1>6, <1>8

LEMMA StopInvStep ==
    ASSUME StopInv, TypingTypeOK', [TypingNext]_typingVars
    PROVE  StopInv'
<1>1. ASSUME NEW n \in Nodes, NEW u \in Typists, NEW r \in Receivers,
             StartTyping(n, u, r) \/ StopTyping(n, u, r) \/ SendMessage(n, u, r)
      PROVE  OwedInv' /\ ShownIsOwed'
  <2>1. PICK on \in BOOLEAN : Hear(n, u, r, IF on THEN r ELSE None, on)
    <3>1. \/ Hear(n, u, r, IF TRUE THEN r ELSE None, TRUE)
          \/ Hear(n, u, r, IF FALSE THEN r ELSE None, FALSE)
      BY <1>1 DEF StartTyping, StopTyping, SendMessage, NewTimer, Cleared
    <3> QED
      BY <3>1
  <2>2. /\ timer' = [timer EXCEPT ![n][u] = IF on THEN r ELSE None]
        /\ wire' = Emitted(n, u, r, on) /\ UNCHANGED shown
        /\ abandoned' = (abandoned \cup Owed(n, u)) \ {<<n, u, r>>}
    BY <2>1 DEF Hear
  <2> QED
    BY <2>2, EmitOwes
<1>2. ASSUME NEW n \in Nodes, NEW u \in Typists, Timeout(n, u)
      PROVE  OwedInv' /\ ShownIsOwed'
  <2>1. PICK r \in Receivers :
           /\ wire' = Emitted(n, u, r, FALSE)
           /\ timer' = [timer EXCEPT ![n][u] = IF FALSE THEN r ELSE None]
           /\ abandoned' = (abandoned \cup Owed(n, u)) \ {<<n, u, r>>}
           /\ UNCHANGED shown
    BY <1>2 DEF Timeout, Fires, Cleared
  <2> QED
    BY <2>1, EmitOwes
<1>3. CASE UNCHANGED typingVars
  BY <1>3 DEF typingVars, StopInv, TypingTypeOK, OwedInv, ShownIsOwed, Owes, Stops
<1> QED
  BY <1>1, <1>2, <1>3, DropOwes, RestartOwes, DeliverOwes DEF TypingNext, StopInv

\* No indicator is left on by itself: for any nodes, typists and receivers, one that a
\* receiver sees has a node with a timer for it or with the stop on its way, unless
\* the code dropped the timer (handleTyping 137-140, handleDisconnect 110-115,
\* handleSendMessage 352-357, or the end of the process).
THEOREM ShownIsOwedAlways == TypingSpec => []ShownIsOwed
<1>1. TypingInit => StopInv
  BY TypingAssumption DEF TypingInit, StopInv, TypingTypeOK, TimerInv, OwedInv, ShownIsOwed
<1>2. StopInv /\ TypingTypeOK' /\ [TypingNext]_typingVars => StopInv'
  BY StopInvStep
<1>3. StopInv => ShownIsOwed
  BY DEF StopInv
<1> QED
  BY <1>1, <1>2, <1>3, TypingTypeCorrect, PTL DEF TypingSpec
=============================================================================
