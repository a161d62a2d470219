--------------------------- MODULE UserLookup_proofs ---------------------------
(* Reconnecting and calling back, proved for any nodes and calls and any number *)
(* of channels.                                                                 *)
EXTENDS UserLookup, TLAPS

\* What a service knows of its connection: one connect() at most is under way,
\* and isReconnecting says so.
LinkGood(l) ==
    /\ l \in Link
    /\ l.timers + (IF l.asserting THEN 1 ELSE 0) <= 1
    /\ l.timers > 0 \/ l.asserting => l.isReconnecting

IInv == link \in [Services -> Link] /\ \A s \in Services : LinkGood(link[s])

-------------------------------------------------------------------------------
(* The code on one connection.                                                 *)

LEMMA LostGood ==
    ASSUME NEW l, LinkGood(l)
    PROVE  LinkGood(Lost(l))
<1> DEFINE c == [l EXCEPT !.open = FALSE]
           m == ScheduleReconnect(c)
<1>1. LinkGood(c) /\ c \in Link
  BY DEF LinkGood, Link
<1>2. CASE Refuses(c)
  BY <1>1, <1>2 DEF Lost, ScheduleReconnect
<1>3. CASE ~Refuses(c)
  <2>1. ~c.isReconnecting /\ c.timers = 0 /\ ~c.asserting
    BY <1>1, <1>3 DEF Refuses, LinkGood, Link
  <2>2. c.reconnectAttempts + 1 \in Nat /\ c.timers + 1 = 1 /\ c.timers + 1 \in Nat
    BY <1>1, <2>1 DEF Link
  <2> HIDE DEF c
  <2>3. m = [c EXCEPT !.isReconnecting = TRUE, !.reconnectAttempts = @ + 1, !.timers = @ + 1]
    BY <1>3 DEF ScheduleReconnect
  <2>4. m \in Link
    BY <1>1, <2>2, <2>3 DEF Link
  <2>5. m.timers = 1 /\ ~m.asserting /\ m.isReconnecting
    BY <1>1, <2>1, <2>2, <2>3 DEF Link
  <2>6. LinkGood(m)
    BY <2>4, <2>5 DEF LinkGood
  <2> QED
    BY <2>6 DEF Lost, c
<1> QED
  BY <1>2, <1>3

LEMMA DeadGood ==
    ASSUME NEW l, LinkGood(l)
    PROVE  LinkGood(Dead(l))
<1>1. Dead(l) \in Link
  BY DEF LinkGood, Link, Dead
<1>2. Dead(l).timers = 0 /\ ~Dead(l).asserting
  BY DEF LinkGood, Link, Dead
<1> QED
  BY <1>1, <1>2 DEF LinkGood

\* Setting one connection to a good one keeps the invariant.
LEMMA SetGood ==
    ASSUME IInv, NEW s \in Services, NEW l, LinkGood(l), SetLink(s, l)
    PROVE  IInv'
<1>1. l \in Link
  BY DEF LinkGood
<1>2. link' = [link EXCEPT ![s] = l]
  BY DEF SetLink
<1>3. link' \in [Services -> Link]
  BY <1>1, <1>2 DEF IInv
<1>4. \A r \in Services : LinkGood(link'[r])
  BY <1>2 DEF IInv
<1> QED
  BY <1>3, <1>4 DEF IInv

LEMMA ReconnectGood ==
    ASSUME IInv, NEW s \in Services, Reconnect(s) \/ StartService(s)
    PROVE  IInv'
<1> DEFINE l == link[s]
<1>1. LinkGood(l) /\ l \in Link
  BY DEF IInv, LinkGood
<1>0. /\ l.chan + 1 \in Nat
      /\ l.timers > 0 => l.timers - 1 = 0 /\ l.timers - 1 \in Nat /\ ~l.asserting
      /\ l.asserting => l.timers = 0
  BY <1>1 DEF LinkGood, Link
<1>2. CASE ReconnectOpens(s)
  <2> DEFINE m == [l EXCEPT !.timers = @ - 1, !.chan = @ + 1, !.open = TRUE,
                          !.reconnectAttempts = 0, !.asserting = TRUE]
  <2>1. l.timers > 0 /\ SetLink(s, m)
    BY <1>2 DEF ReconnectOpens
  <2>2. l.timers - 1 \in Nat /\ l.timers - 1 = 0 /\ l.isReconnecting
    BY <1>0, <1>1, <2>1 DEF LinkGood
  <2>3. m \in Link
    BY <1>0, <1>1, <2>2 DEF Link
  <2>4. m.timers = 0 /\ m.asserting /\ m.isReconnecting
    BY <1>1, <2>2 DEF Link
  <2>5. LinkGood(m)
    BY <2>3, <2>4 DEF LinkGood
  <2> QED
    BY <2>1, <2>5, SetGood
<1>3. CASE ReconnectFails(s)
  <2> DEFINE m == [l EXCEPT !.timers = @ - 1, !.isReconnecting = FALSE]
  <2>1. l.timers > 0 /\ SetLink(s, m)
    BY <1>3 DEF ReconnectFails
  <2>2. l.timers - 1 \in Nat /\ l.timers - 1 = 0 /\ ~l.asserting
    BY <1>0, <2>1
  <2>3. m \in Link
    BY <1>1, <2>2 DEF Link
  <2>4. m.timers = 0 /\ ~m.asserting
    BY <1>1, <2>2 DEF Link
  <2>5. LinkGood(m)
    BY <2>3, <2>4 DEF LinkGood
  <2> QED
    BY <2>1, <2>5, SetGood
<1>4. CASE ReconnectEnds(s)
  <2> DEFINE m == [l EXCEPT !.asserting = FALSE, !.isReconnecting = FALSE]
  <2>1. l.timers = 0 /\ SetLink(s, m)
    BY <1>0, <1>4 DEF ReconnectEnds
  <2>2. m \in Link
    BY <1>1 DEF Link
  <2>3. m.timers = 0 /\ ~m.asserting
    BY <1>1, <2>1 DEF Link
  <2>4. LinkGood(m)
    BY <2>2, <2>3 DEF LinkGood
  <2> QED
    BY <2>1, <2>4, SetGood
<1>5. CASE StartService(s)
  <2> DEFINE m == [l EXCEPT !.chan = @ + 1, !.open = TRUE]
  <2>1. m \in Link
    BY <1>0, <1>1, <1>5 DEF StartService, Link
  <2>2. LinkGood(m)
    BY <1>0, <1>1, <1>5, <2>1 DEF StartService, LinkGood, Link
  <2> QED
    BY <1>5, <2>2, SetGood DEF StartService
<1> QED
  BY <1>2, <1>3, <1>4, <1>5 DEF Reconnect

-------------------------------------------------------------------------------
LEMMA IInvInit == Init => IInv
BY DEF Init, LinkInit, IInv, LinkGood, Link

LEMMA IInvStep ==
    ASSUME IInv, [Next]_vars
    PROVE  IInv'
<1>1. CASE UNCHANGED link
  BY <1>1 DEF IInv
<1>2. ASSUME NEW s \in Services, Recover(s)
      PROVE  IInv'
  BY <1>2, ReconnectGood DEF Recover
<1>3. ASSUME NEW s \in Services, LoseConnection(s) \/ SetLink(s, Lost(link[s]))
      PROVE  IInv'
  <2>1. LinkGood(Lost(link[s]))
    BY LostGood DEF IInv
  <2> QED
    BY <1>3, <2>1, SetGood DEF LoseConnection
<1>4. ASSUME NEW s \in Services, Exit(s)
      PROVE  IInv'
  <2>1. LinkGood(Dead(link[s]))
    BY DeadGood DEF IInv
  <2> QED
    BY <1>4, <2>1, SetGood DEF Exit
<1>5. ASSUME NEW k \in Channels, NEW c \in Calls, Answer(k, c)
      PROVE  IInv'
  <2>1. UserService \in Services
    BY LookupAssumption
  <2> QED
    BY <1>1, <1>3, <1>5, <2>1 DEF Answer
<1>6. ASSUME NEW c \in Calls,
             \/ Ask(c) \/ Timeout(c) \/ Deliver(c)
             \/ \E n \in Nodes : Receive(n, c)
             \/ \E k \in Channels : AnswerFails(k, c)
      PROVE  IInv'
  BY <1>1, <1>6 DEF Ask, Timeout, Deliver, Receive, AnswerFails
<1>7. CASE RestartBroker
  <2>1. \A s \in Services : LinkGood(link[s]) /\ LinkGood(Lost(link[s]))
    BY LostGood DEF IInv
  <2>2. \A s \in Services : LinkGood(link'[s])
    BY <1>7, <2>1 DEF RestartBroker
  <2>3. \A s \in Services : link'[s] \in Link
    BY <2>2 DEF LinkGood
  <2>4. link' = [s \in Services |-> link'[s]]
    BY <1>7 DEF RestartBroker
  <2> QED
    BY <2>2, <2>3, <2>4 DEF IInv
<1> QED
  BY <1>1, <1>2, <1>3, <1>4, <1>5, <1>6, <1>7 DEF Next, vars

\* No service ever has two connect() under way, so none gets two connections,
\* whatever closes while it reconnects.
THEOREM OneReconnectAlways == Spec => []OneReconnect
<1>1. IInv => OneReconnect
  BY DEF IInv, LinkGood, OneReconnect
<1> QED
  BY <1>1, IInvInit, IInvStep, PTL DEF Spec

-------------------------------------------------------------------------------
(* Calling back.                                                               *)

States == {"idle", "waiting", "answered", "null", "gone"}

Settled(c) == call[c] \in {"answered", "null", "gone"}

\* What one step makes of a call.
LEMMA CallStep ==
    ASSUME call \in [Calls -> States], [Next]_vars
    PROVE  /\ call' \in [Calls -> States]
           /\ \A c \in Calls : Settled(c) => call'[c] = call[c]
<1>1. CASE UNCHANGED call
  BY <1>1
<1>2. ASSUME NEW c \in Calls, Ask(c) \/ Timeout(c)
      PROVE  ~Settled(c) /\ \E state \in {"waiting", "null"} : call' = [call EXCEPT ![c] = state]
  BY <1>2 DEF Ask, Timeout, HasTimer, Settled
<1>3. ASSUME NEW n \in Nodes, NEW c \in Calls, Receive(n, c)
      PROVE  \/ UNCHANGED call
             \/ ~Settled(c) /\ call' = [call EXCEPT ![c] = "answered"]
  BY <1>3 DEF Receive, Entry, Settled
<1>4. ASSUME NEW s \in Services, Exit(s)
      PROVE  call' = [c \in Calls |->
                        IF Asker[c] = s /\ call[c] = "waiting" THEN "gone" ELSE call[c]]
  BY <1>4 DEF Exit
<1>5. ASSUME \/ \E c \in Calls : Deliver(c)
             \/ \E k \in Channels, c \in Calls : Answer(k, c) \/ AnswerFails(k, c)
             \/ \E s \in Services : LoseConnection(s) \/ Recover(s)
             \/ RestartBroker
      PROVE  UNCHANGED call
  BY <1>5 DEF Deliver, Answer, AnswerFails, Finish, LoseConnection, Recover, RestartBroker
<1>6. ASSUME NEW c \in Calls, ~Settled(c), NEW state \in States,
             call' = [call EXCEPT ![c] = state]
      PROVE  call' \in [Calls -> States] /\ \A d \in Calls : Settled(d) => call'[d] = call[d]
  BY <1>6
<1>7. ASSUME NEW s \in Services, Exit(s)
      PROVE  call' \in [Calls -> States] /\ \A d \in Calls : Settled(d) => call'[d] = call[d]
  BY <1>4, <1>7 DEF States, Settled
<1> QED
  BY <1>1, <1>2, <1>3, <1>5, <1>6, <1>7 DEF Next, vars, States

\* A lookup is called back at most once: a late answer, a second one, or a timer
\* that raced an answer leaves what the caller was told, for any number of nodes,
\* calls and channels (getUserDetails and the consumer of the responses).
THEOREM CalledBackOnceAlways == Spec => CalledBackOnce
<1>1. Init => call \in [Calls -> States]
  BY DEF Init, States
<1>2. call \in [Calls -> States] /\ [Next]_vars =>
        [\A c \in Calls : call[c] \in {"answered", "null", "gone"} => call'[c] = call[c]]_vars
  BY CallStep DEF Settled
<1>3. call \in [Calls -> States] /\ [Next]_vars => (call \in [Calls -> States])'
  BY CallStep
<1> QED
  BY <1>1, <1>2, <1>3, PTL DEF Spec, CalledBackOnce

-------------------------------------------------------------------------------
(* What becomes of a request.                                                  *)

\* A connection and the state of its process: a timer runs only on a closed
\* connection, and a process that has exited has neither.
Fits(s, l, p) ==
    /\ l.chan \in 1..MaxChannels[s]
    /\ l.timers > 0 => ~l.open
    /\ p \in {"running", "stopping", "exited"}
    /\ p = "exited" => ~l.open /\ l.timers = 0 /\ ~l.asserting

LinkInv ==
    /\ IInv
    /\ proc \in [Services -> {"running", "stopping", "exited"}]
    /\ \A s \in Services : Fits(s, link[s], proc[s])

\* What the queues of user-service hold was sent; a tag that the broker waits for
\* is one of the current channel.
QueueInv ==
    /\ requests \subseteq sent /\ sent \subseteq Calls
    /\ replied \subseteq sent /\ lost \subseteq sent
    /\ delivered \in [Channels -> Seq(sent)]
    /\ unacked \subseteq IF link[UserService].open THEN DOMAIN delivered[Current] ELSE {}

\* What the broker has forgotten: answered, lost when it restarted, or settled by
\* mistake.  A request settled by mistake on a channel that is still open has a
\* handler, or had its answer.
ForgottenInv ==
    /\ mistaken \subseteq Channels \X Calls
    /\ \A m \in mistaken : m[1] <= Current
    /\ sent \subseteq requests \cup Waiting \cup replied \cup lost \cup {m[2] : m \in mistaken}
    /\ link[UserService].open =>
          \A c \in Calls : <<Current, c>> \in mistaken =>
              task[<<Current, c>>] = "finding" \/ c \in replied

\* A handler runs for a request that was sent, on a channel that user-service has
\* had; the broker waits only for deliveries that have one.
TaskInv ==
    /\ task \in [Channels \X Calls -> {"none", "finding", "done"}]
    /\ \A k \in Channels, c \in Calls :
          task[<<k, c>>] # "none" => k <= Current /\ c \in sent
    /\ BeingFound

BrokerInv == QueueInv /\ ForgottenInv /\ TaskInv

LookupInv ==
    /\ LinkInv /\ BrokerInv
    /\ call \in [Calls -> States] /\ responses \in [Calls -> Nat]

LEMMA LostFits ==
    ASSUME NEW s, NEW p, NEW l, LinkGood(l), Fits(s, l, p), p # "exited"
    PROVE  Fits(s, Lost(l), p) /\ Lost(l).chan = l.chan /\ ~Lost(l).open
<1> DEFINE c == [l EXCEPT !.open = FALSE]
           m == [c EXCEPT !.isReconnecting = TRUE, !.reconnectAttempts = @ + 1, !.timers = @ + 1]
<1>1. Lost(l) = c \/ Lost(l) = m
  BY DEF Lost, ScheduleReconnect
<1>2. c.chan = l.chan /\ ~c.open /\ m.chan = l.chan /\ ~m.open
  BY DEF LinkGood, Link
<1> QED
  BY <1>1, <1>2 DEF Fits

LEMMA DeadFits ==
    ASSUME NEW s, NEW p, NEW l, LinkGood(l), Fits(s, l, p)
    PROVE  Fits(s, Dead(l), "exited") /\ Dead(l).chan = l.chan /\ ~Dead(l).open
<1>1. /\ Dead(l).chan = l.chan /\ ~Dead(l).open
      /\ Dead(l).timers = 0 /\ ~Dead(l).asserting
  BY DEF LinkGood, Link, Dead
<1> QED
  BY <1>1 DEF Fits

\* A connection comes back on the next channel, or what is under way ends.
LEMMA RecoverFits ==
    ASSUME LinkInv, NEW s \in Services, Reconnect(s) \/ StartService(s)
    PROVE  /\ Fits(s, link'[s], proc'[s])
           /\ \/ link'[s].chan = link[s].chan /\ link'[s].open = link[s].open
              \/ link'[s].chan = link[s].chan + 1 /\ ~link[s].open
           /\ \A r \in Services \ {s} : link'[r] = link[r] /\ proc'[r] = proc[r]
           /\ proc' \in [Services -> {"running", "stopping", "exited"}]
<1> DEFINE l == link[s]
<1>1. l \in Link /\ LinkGood(l) /\ Fits(s, l, proc[s]) /\ link \in [Services -> Link]
  BY DEF LinkInv, IInv, LinkGood
<1>2. /\ l.chan \in 1..MaxChannels[s] /\ MaxChannels[s] \in Nat /\ l.timers \in Nat
      /\ l.chan < MaxChannels[s] => l.chan + 1 \in 1..MaxChannels[s]
      /\ l.timers > 0 => l.timers - 1 = 0 /\ ~l.open
  BY <1>1, ConnectionAssumption DEF Fits, Link, LinkGood
<1>3. /\ l.asserting => proc[s] # "exited"
      /\ l.timers > 0 => proc[s] # "exited"
  BY <1>1 DEF Fits
<1>4. CASE ReconnectOpens(s)
  <2> DEFINE m == [l EXCEPT !.timers = @ - 1, !.chan = @ + 1, !.open = TRUE,
                          !.reconnectAttempts = 0, !.asserting = TRUE]
  <2>1. /\ l.timers > 0 /\ l.chan < MaxChannels[s] /\ UNCHANGED proc
        /\ link' = [link EXCEPT ![s] = m]
    BY <1>4 DEF ReconnectOpens, SetLink
  <2>2. m.timers = l.timers - 1 /\ m.chan = l.chan + 1
    BY <1>1 DEF Link
  <2>3. ~l.open /\ m.timers = 0 /\ m.chan \in 1..MaxChannels[s] /\ proc[s] # "exited"
    BY <1>2, <1>3, <2>1, <2>2
  <2>4. Fits(s, m, proc[s])
    BY <1>1, <2>3 DEF Fits, LinkInv
  <2> QED
    BY <1>1, <2>1, <2>2, <2>3, <2>4 DEF LinkInv
<1>5. CASE ReconnectFails(s)
  BY <1>1, <1>2, <1>3, <1>5 DEF ReconnectFails, SetLink, Fits, LinkInv, Link
<1>6. CASE ReconnectEnds(s)
  BY <1>1, <1>2, <1>3, <1>6 DEF ReconnectEnds, SetLink, Fits, LinkInv, Link
<1>7. CASE StartService(s)
  <2>1. ~l.open /\ l.timers = 0 /\ l.chan < MaxChannels[s]
    BY <1>1, <1>7 DEF StartService, Fits
  <2>2. /\ link' = [link EXCEPT ![s] = [l EXCEPT !.chan = @ + 1, !.open = TRUE]]
        /\ proc' = [proc EXCEPT ![s] = "running"]
    BY <1>7 DEF StartService, SetLink
  <2> DEFINE m == [l EXCEPT !.chan = @ + 1, !.open = TRUE]
  <2>3. m.chan = l.chan + 1 /\ m.timers = 0
    BY <1>1, <2>1 DEF Link
  <2>4. m.chan \in 1..MaxChannels[s]
    BY <1>2, <2>1, <2>3
  <2>5. Fits(s, m, "running")
    BY <2>3, <2>4 DEF Fits
  <2> QED
    BY <1>1, <2>1, <2>2, <2>3, <2>5 DEF LinkInv
<1> QED
  BY <1>4, <1>5, <1>6, <1>7 DEF Reconnect

LEMMA LinkInvStep ==
    ASSUME LinkInv, [Next]_vars
    PROVE  LinkInv'
<1>1. IInv'
  BY IInvStep DEF LinkInv
<1>2. \A s \in Services : LinkGood(link[s]) /\ Fits(s, link[s], proc[s])
  BY DEF LinkInv, IInv
<1>3. UserService \in Services /\ \A c \in Calls : Asker[c] \in Services
  BY LookupAssumption
<1>0. link \in [Services -> Link] /\ proc \in [Services -> {"running", "stopping", "exited"}]
  BY DEF LinkInv, IInv
<1>4. CASE UNCHANGED <<link, proc>>
  BY <1>1, <1>4 DEF LinkInv
<1>5. ASSUME NEW s \in Services, UNCHANGED link, Alive(s),
             proc' = [proc EXCEPT ![s] = "stopping"]
      PROVE  LinkInv'
  BY <1>0, <1>1, <1>2, <1>5 DEF LinkInv, Fits, Alive
<1>6. ASSUME NEW s \in Services, Alive(s), SetLink(s, Lost(link[s])), UNCHANGED proc
      PROVE  LinkInv'
  <2>1. Fits(s, Lost(link[s]), proc[s])
    BY <1>2, <1>6, LostFits DEF Alive
  <2>2. \A r \in Services : Fits(r, link'[r], proc[r])
    BY <1>0, <1>2, <1>6, <2>1 DEF SetLink
  <2> QED
    BY <1>0, <1>1, <1>6, <2>2 DEF LinkInv
<1>7. ASSUME NEW s \in Services, Exit(s)
      PROVE  LinkInv'
  <2>1. Fits(s, Dead(link[s]), "exited")
    BY <1>2, DeadFits
  <2>2. /\ link' = [link EXCEPT ![s] = Dead(link[s])] /\ proc' = [proc EXCEPT ![s] = "exited"]
    BY <1>7 DEF Exit, SetLink
  <2>3. \A r \in Services : Fits(r, link'[r], proc'[r])
    BY <1>0, <1>2, <2>1, <2>2
  <2> QED
    BY <1>0, <1>1, <2>2, <2>3 DEF LinkInv
<1>8. ASSUME NEW s \in Services, Recover(s)
      PROVE  LinkInv'
  <2>1. /\ Fits(s, link'[s], proc'[s])
        /\ \A r \in Services \ {s} : link'[r] = link[r] /\ proc'[r] = proc[r]
        /\ proc' \in [Services -> {"running", "stopping", "exited"}]
    BY <1>8, RecoverFits DEF Recover
  <2>2. \A r \in Services : Fits(r, link'[r], proc'[r])
    BY <1>2, <2>1
  <2> QED
    BY <1>1, <2>1, <2>2 DEF LinkInv
<1>11. CASE RestartBroker
  <2>1. ASSUME NEW s \in Services
        PROVE  Fits(s, link'[s], proc'[s])
    <3>1. link'[s] = (IF link[s].open THEN Lost(link[s]) ELSE link[s]) /\ UNCHANGED proc
      BY <1>11 DEF RestartBroker
    <3>2. CASE link[s].open
      <4>1. proc[s] # "exited"
        BY <1>2, <3>2 DEF Fits
      <4> QED
        BY <1>2, <3>1, <3>2, <4>1, LostFits
    <3> QED
      BY <1>2, <3>1, <3>2
  <2> QED
    BY <1>0, <1>1, <1>11, <2>1 DEF LinkInv, RestartBroker
<1>9. ASSUME NEW c \in Calls, Ask(c)
      PROVE  LinkInv'
  BY <1>3, <1>4, <1>5, <1>9 DEF Ask
<1>10. ASSUME NEW k \in Channels, NEW c \in Calls, Answer(k, c) \/ AnswerFails(k, c)
       PROVE  LinkInv'
  BY <1>3, <1>4, <1>5, <1>6, <1>10 DEF Answer, AnswerFails, Finish
<1> QED
  BY <1>4, <1>6, <1>7, <1>8, <1>9, <1>10, <1>11
     DEF Next, vars, Timeout, Deliver, Receive, LoseConnection

LEMMA ChanFacts ==
    ASSUME LinkInv
    PROVE  /\ UserService \in Services /\ link \in [Services -> Link]
           /\ Current \in Channels /\ Channels \subseteq Nat
BY LookupAssumption, ConnectionAssumption DEF LinkInv, IInv, Fits, Channels, Current

LEMMA WaitingSent ==
    ASSUME LinkInv, QueueInv
    PROVE  Waiting \subseteq sent
BY ChanFacts DEF QueueInv, Waiting

\* A step that leaves user-service, its channel and its queue as they are.
LEMMA SameKeeps ==
    ASSUME LookupInv, Current' = Current, link'[UserService].open = link[UserService].open,
           UNCHANGED <<requests, delivered, unacked, task, sent, replied, lost, mistaken>>
    PROVE  BrokerInv'
<1>1. Waiting' = Waiting
  BY DEF Waiting
<1>2. QueueInv'
  BY DEF LookupInv, BrokerInv, QueueInv
<1>3. ForgottenInv'
  BY <1>1 DEF LookupInv, BrokerInv, ForgottenInv
<1>4. TaskInv'
  BY DEF LookupInv, BrokerInv, TaskInv, BeingFound
<1> QED
  BY <1>2, <1>3, <1>4 DEF BrokerInv

\* A step after which user-service has no channel: the broker has put back or
\* lost what waited.
LEMMA ClosedKeeps ==
    ASSUME LookupInv, Current' = Current, ~link'[UserService].open, unacked' = {},
           requests \cup Waiting \subseteq requests' \cup lost',
           requests' \subseteq sent, lost \subseteq lost', lost' \subseteq sent,
           replied \subseteq replied', replied' \subseteq sent,
           UNCHANGED <<delivered, sent, mistaken>>,
           task' \in [Channels \X Calls -> {"none", "finding", "done"}],
           \A d \in Channels \X Calls : task'[d] # "none" => task[d] # "none"
    PROVE  BrokerInv'
<1>1. QueueInv'
  BY DEF LookupInv, BrokerInv, QueueInv
<1>2. ForgottenInv'
  BY DEF LookupInv, BrokerInv, ForgottenInv
<1>3. TaskInv'
  BY DEF LookupInv, BrokerInv, TaskInv, BeingFound
<1> QED
  BY <1>1, <1>2, <1>3 DEF BrokerInv

LEMMA AskKeeps ==
    ASSUME LookupInv, NEW c \in Calls, Ask(c)
    PROVE  BrokerInv'
<1>1. /\ sent \subseteq sent' /\ sent' \subseteq Calls
      /\ requests' \subseteq sent' /\ requests \subseteq requests'
      /\ sent' \ sent \subseteq requests'
  BY DEF LookupInv, BrokerInv, QueueInv, Ask
<1>2. UNCHANGED <<delivered, unacked, task, replied, lost, mistaken, link>>
  BY DEF Ask, server
<1>3. Waiting' = Waiting /\ Current' = Current
  BY <1>2 DEF Waiting, Current
<1>4. QueueInv'
  <2>1. delivered' \in [Channels -> Seq(sent')]
    BY <1>1, <1>2 DEF LookupInv, BrokerInv, QueueInv
  <2>2. replied' \subseteq sent' /\ lost' \subseteq sent'
    BY <1>1, <1>2 DEF LookupInv, BrokerInv, QueueInv
  <2>3. unacked' \subseteq IF link'[UserService].open THEN DOMAIN delivered'[Current'] ELSE {}
    BY <1>2, <1>3 DEF LookupInv, BrokerInv, QueueInv
  <2> QED
    BY <1>1, <2>1, <2>2, <2>3 DEF QueueInv
<1>5. ForgottenInv'
  BY <1>1, <1>2, <1>3 DEF LookupInv, BrokerInv, ForgottenInv
<1>6. TaskInv'
  BY <1>1, <1>2, <1>3 DEF LookupInv, BrokerInv, TaskInv, BeingFound
<1> QED
  BY <1>4, <1>5, <1>6 DEF BrokerInv

\* The broker takes a request out of its queue, and waits for its tag.
LEMMA DeliverKeeps ==
    ASSUME LookupInv, NEW c \in Calls, Deliver(c)
    PROVE  BrokerInv'
<1> DEFINE k == Current
           q == delivered[k]
<1>1. k \in Channels /\ k \in Nat /\ c \in sent /\ q \in Seq(sent)
  BY ChanFacts DEF Deliver, LookupInv, BrokerInv, QueueInv
<1>2. /\ delivered' = [delivered EXCEPT ![k] = Append(q, c)]
      /\ unacked' = unacked \cup {Len(q) + 1} /\ requests' = requests \ {c}
      /\ task' = [task EXCEPT ![<<k, c>>] = "finding"]
      /\ UNCHANGED <<link, replied, sent, lost, mistaken>> /\ link[UserService].open
      /\ Current' = k
  BY DEF Deliver, NextTag, Consumes, history, Current
<1>3. delivered' \in [Channels -> Seq(sent)] /\ delivered'[k] = Append(q, c)
  BY <1>1, <1>2 DEF LookupInv, BrokerInv, QueueInv
<1>4. /\ DOMAIN Append(q, c) = DOMAIN q \cup {Len(q) + 1}
      /\ Append(q, c)[Len(q) + 1] = c
      /\ \A t \in DOMAIN q : Append(q, c)[t] = q[t]
  <2> HIDE DEF q
  <2>1. /\ Len(q) \in Nat /\ DOMAIN q = 1..Len(q)
        /\ DOMAIN Append(q, c) = 1..(Len(q) + 1)
        /\ Append(q, c)[Len(q) + 1] = c
    BY <1>1
  <2>2. \A t \in 1..Len(q) : Append(q, c)[t] = q[t]
    BY <1>1
  <2>3. 1..(Len(q) + 1) = (1..Len(q)) \cup {Len(q) + 1}
    BY <2>1
  <2> QED
    BY <2>1, <2>2, <2>3
<1>5. unacked \subseteq DOMAIN q
  BY <1>2 DEF LookupInv, BrokerInv, QueueInv
<1>6. Waiting = {q[t] : t \in unacked}
  BY DEF Waiting
<1>7. Waiting' = {delivered'[k][t] : t \in unacked'}
  BY <1>2 DEF Waiting
<1>8. /\ task \in [Channels \X Calls -> {"none", "finding", "done"}]
      /\ \A j \in Channels, d \in Calls : task[<<j, d>>] # "none" => j <= k /\ d \in sent
      /\ \A t \in unacked : task[<<k, q[t]>>] = "finding"
  BY DEF LookupInv, BrokerInv, TaskInv, BeingFound
<1>9. /\ mistaken \subseteq Channels \X Calls
      /\ \A m \in mistaken : m[1] <= k
      /\ sent \subseteq requests \cup Waiting \cup replied \cup lost \cup {m[2] : m \in mistaken}
      /\ \A d \in Calls : <<k, d>> \in mistaken => task[<<k, d>>] = "finding" \/ d \in replied
  BY <1>2 DEF LookupInv, BrokerInv, ForgottenInv
<1>10. sent \subseteq Calls
  BY DEF LookupInv, BrokerInv, QueueInv
<1>11. /\ requests \subseteq sent /\ replied \subseteq sent /\ lost \subseteq sent
  BY DEF LookupInv, BrokerInv, QueueInv
<1> HIDE DEF k, q
<1>12. Waiting \cup {c} \subseteq Waiting'
  BY <1>2, <1>3, <1>4, <1>5, <1>6, <1>7
<1>13. \A d \in Channels \X Calls :
          task'[d] = IF d = <<k, c>> THEN "finding" ELSE task[d]
  BY <1>2, <1>8
<1>14. task' \in [Channels \X Calls -> {"none", "finding", "done"}]
  BY <1>2, <1>8
<1>15. unacked' \subseteq DOMAIN delivered'[k]
  BY <1>2, <1>3, <1>4, <1>5
<1>16. QueueInv'
  BY <1>2, <1>3, <1>10, <1>11, <1>15 DEF QueueInv
<1>17. ForgottenInv'
  <2>1. \A d \in Calls : <<k, d>> \in mistaken => task'[<<k, d>>] = "finding" \/ d \in replied
    BY <1>1, <1>9, <1>13
  <2> QED
    BY <1>2, <1>9, <1>12, <2>1 DEF ForgottenInv
<1>18. BeingFound'
  <2>1. ASSUME NEW t \in unacked'
        PROVE  task'[<<k, delivered'[k][t]>>] = "finding"
    <3>1. CASE t \in unacked
      <4>1. delivered'[k][t] = q[t] /\ q[t] \in Calls /\ task[<<k, q[t]>>] = "finding"
        BY <1>1, <1>3, <1>4, <1>5, <1>8, <1>10, <3>1
      <4> QED
        BY <1>1, <1>13, <4>1
    <3>2. CASE t = Len(q) + 1
      BY <1>1, <1>3, <1>4, <1>13, <3>2
    <3> QED
      BY <1>2, <3>1, <3>2
  <2> QED
    BY <1>2, <2>1 DEF BeingFound
<1>19. TaskInv'
  <2>1. ASSUME NEW j \in Channels, NEW d \in Calls, task'[<<j, d>>] # "none"
        PROVE  j <= k /\ d \in sent
    BY <1>1, <1>8, <1>13, <2>1
  <2> QED
    BY <1>2, <1>14, <1>18, <2>1 DEF TaskInv
<1> QED
  BY <1>16, <1>17, <1>19 DEF BrokerInv

\* A handler that ends leaves the others as they were.
LEMMA FinishTask ==
    ASSUME LookupInv, NEW k \in Channels, NEW c \in Calls, Finish(k, c)
    PROVE  /\ task' \in [Channels \X Calls -> {"none", "finding", "done"}]
           /\ \A d \in Channels \X Calls : d # <<k, c>> => task'[d] = task[d]
           /\ \A d \in Channels \X Calls : task'[d] # "none" => task[d] # "none"
           /\ c \in sent /\ k <= Current
BY DEF Finish, LookupInv, BrokerInv, TaskInv

\* An acknowledgement that the broker expects settles its own request, which is
\* answered, or by mistake requests of the current channel, which have handlers.
LEMMA AckKeeps ==
    ASSUME LookupInv, NEW k \in Channels, NEW c \in Calls, Finish(k, c),
           link[UserService].open, TagsOf(k, c) \subseteq unacked,
           unacked' = unacked \ TagsOf(k, c), replied' = replied \cup {c},
           mistaken' = mistaken \cup Mistaken(k, c), UNCHANGED <<link, requests>>
    PROVE  BrokerInv'
<1> DEFINE n == Current
           q == delivered[n]
           tags == TagsOf(k, c)
           new == Mistaken(k, c)
<1>1. /\ n \in Channels /\ Channels \subseteq Nat /\ q \in Seq(sent) /\ unacked \subseteq DOMAIN q
      /\ requests \subseteq sent /\ sent \subseteq Calls /\ replied \subseteq sent /\ lost \subseteq sent
      /\ delivered \in [Channels -> Seq(sent)]
  BY ChanFacts DEF LookupInv, BrokerInv, QueueInv
<1>2. /\ UNCHANGED <<delivered, sent, lost, link>> /\ Current' = n
      /\ unacked' = unacked \ tags
  BY DEF Finish, Current
<1>3. /\ task' \in [Channels \X Calls -> {"none", "finding", "done"}]
      /\ \A d \in Channels \X Calls : d # <<k, c>> => task'[d] = task[d]
      /\ \A d \in Channels \X Calls : task'[d] # "none" => task[d] # "none"
      /\ c \in sent /\ k <= n
  BY FinishTask
<1>4. /\ \A j \in Channels, d \in Calls : task[<<j, d>>] # "none" => j <= n /\ d \in sent
      /\ \A t \in unacked : task[<<n, q[t]>>] = "finding"
  BY DEF LookupInv, BrokerInv, TaskInv, BeingFound
<1>5. /\ mistaken \subseteq Channels \X Calls
      /\ \A m \in mistaken : m[1] <= n
      /\ sent \subseteq requests \cup Waiting \cup replied \cup lost \cup {m[2] : m \in mistaken}
      /\ \A d \in Calls : <<n, d>> \in mistaken => task[<<n, d>>] = "finding" \/ d \in replied
  BY DEF LookupInv, BrokerInv, ForgottenInv
<1>6. \A t \in unacked : q[t] \in Calls
  BY <1>1
<1>7. new = IF k = n THEN {} ELSE {<<n, q[t]>> : t \in tags}
  BY DEF Mistaken, Acked
<1>8. k = n => \A t \in unacked : t \in tags <=> q[t] = c
  BY <1>1 DEF TagsOf
<1>9. Waiting = {q[t] : t \in unacked} /\ Waiting' = {q[t] : t \in unacked'}
  BY <1>2 DEF Waiting
<1> HIDE DEF n, q, tags, new
<1>10. QueueInv'
  <2>1. unacked' \subseteq DOMAIN delivered'[Current']
    BY <1>1, <1>2 DEF n, q
  <2> QED
    BY <1>1, <1>2, <1>3, <2>1 DEF QueueInv
<1>11. Waiting \subseteq Waiting' \cup {c} \cup {m[2] : m \in new}
  <2>1. ASSUME NEW t \in unacked
        PROVE  q[t] \in Waiting' \cup {c} \cup {m[2] : m \in new}
    <3>1. CASE t \notin tags
      BY <1>2, <1>9, <2>1, <3>1
    <3>2. CASE t \in tags /\ k = n
      BY <1>8, <2>1, <3>2
    <3>3. CASE t \in tags /\ k # n
      <4>1. <<n, q[t]>> \in new
        BY <1>7, <3>3
      <4> QED
        BY <4>1
    <3> QED
      BY <3>1, <3>2, <3>3
  <2> QED
    BY <1>9, <2>1
<1>12. new \subseteq Channels \X Calls /\ \A m \in new : m[1] = n
  BY <1>1, <1>2, <1>6, <1>7 DEF tags
<1>13. ASSUME NEW d \in Calls, <<n, d>> \in mistaken \cup new
       PROVE  task'[<<n, d>>] = "finding" \/ d \in replied \cup {c}
  <2>1. CASE <<n, d>> \in new
    <3>1. PICK t \in unacked : d = q[t] /\ k # n
      BY <1>7, <2>1 DEF tags
    <3> QED
      BY <1>1, <1>3, <1>4, <3>1
  <2>2. CASE <<n, d>> \in mistaken
    <3>1. CASE <<n, d>> = <<k, c>>
      BY <3>1
    <3>2. CASE <<n, d>> # <<k, c>>
      BY <1>1, <1>3, <1>5, <2>2, <3>2
    <3> QED
      BY <3>1, <3>2
  <2> QED
    BY <1>13, <2>1, <2>2
<1>14. ForgottenInv'
  <2>1. mistaken' = mistaken \cup new
    BY DEF new
  <2>2. /\ mistaken' \subseteq Channels \X Calls
        /\ \A m \in mistaken' : m[1] <= n
    BY <1>1, <1>5, <1>12, <2>1
  <2>3. sent' \subseteq requests' \cup Waiting' \cup replied' \cup lost' \cup {m[2] : m \in mistaken'}
    BY <1>2, <1>5, <1>11, <2>1
  <2> QED
    BY <1>2, <1>13, <2>1, <2>2, <2>3 DEF ForgottenInv
<1>15. BeingFound'
  <2>1. ASSUME NEW t \in unacked'
        PROVE  task'[<<n, q[t]>>] = "finding"
    <3>1. t \in unacked /\ t \notin tags
      BY <1>2
    <3>2. <<n, q[t]>> # <<k, c>>
      BY <1>8, <3>1
    <3> QED
      BY <1>1, <1>3, <1>4, <1>6, <3>1, <3>2
  <2> QED
    BY <1>2, <2>1 DEF BeingFound, q, n
<1>16. TaskInv'
  BY <1>2, <1>3, <1>4, <1>15 DEF TaskInv
<1> QED
  BY <1>10, <1>14, <1>16 DEF BrokerInv

LEMMA AnswerKeeps ==
    ASSUME LookupInv, NEW k \in Channels, NEW c \in Calls, Answer(k, c)
    PROVE  BrokerInv'
<1>1. /\ Finish(k, c) /\ UNCHANGED <<delivered, sent, lost>>
      /\ replied' = replied \cup {c} /\ link[UserService].open
      /\ Alive(UserService)
  BY DEF Answer, Finish
<1>2. CASE /\ TagsOf(k, c) \subseteq unacked /\ unacked' = unacked \ TagsOf(k, c)
           /\ mistaken' = mistaken \cup Mistaken(k, c) /\ UNCHANGED <<link, requests>>
  BY <1>1, <1>2, AckKeeps
<1>3. CASE SetLink(UserService, Lost(link[UserService])) /\ Requeue /\ UNCHANGED mistaken
  <2> DEFINE l == Lost(link[UserService])
  <2>1. l.chan = Current /\ ~l.open
    BY <1>1, LostFits, ChanFacts DEF LookupInv, LinkInv, IInv, Alive, Current
  <2>2. link' = [link EXCEPT ![UserService] = l]
    BY <1>3 DEF SetLink
  <2> HIDE DEF l
  <2>3. Current' = Current /\ ~link'[UserService].open
    BY <2>1, <2>2, ChanFacts DEF LookupInv, Current
  <2>4. requests' = requests \cup Waiting /\ unacked' = {}
    BY <1>3 DEF Requeue
  <2>5. requests' \subseteq sent /\ lost \subseteq sent /\ replied' \subseteq sent
    BY <1>1, <2>4, WaitingSent, FinishTask DEF LookupInv, BrokerInv, QueueInv
  <2>6. /\ task' \in [Channels \X Calls -> {"none", "finding", "done"}]
        /\ \A d \in Channels \X Calls : task'[d] # "none" => task[d] # "none"
    BY <1>1, FinishTask
  <2> QED
    BY <1>1, <1>3, <2>3, <2>4, <2>5, <2>6, ClosedKeeps
<1> QED
  BY <1>2, <1>3 DEF Answer, Acked

LEMMA AnswerFailsKeeps ==
    ASSUME LookupInv, NEW k \in Channels, NEW c \in Calls, AnswerFails(k, c)
    PROVE  BrokerInv'
<1>1. /\ Finish(k, c) /\ ~link[UserService].open
      /\ UNCHANGED <<link, requests, unacked, replied, mistaken, delivered, sent, lost>>
  BY DEF AnswerFails, Finish
<1>2. /\ task' \in [Channels \X Calls -> {"none", "finding", "done"}]
      /\ \A d \in Channels \X Calls : task'[d] # "none" => task[d] # "none"
  BY <1>1, FinishTask
<1>3. unacked = {} /\ Waiting = {} /\ Current' = Current
  BY <1>1 DEF LookupInv, BrokerInv, QueueInv, Waiting, Current
<1>4. requests \subseteq sent /\ lost \subseteq sent /\ replied \subseteq sent
  BY DEF LookupInv, BrokerInv, QueueInv
<1> QED
  BY <1>1, <1>2, <1>3, <1>4, ClosedKeeps

LEMMA LoseKeeps ==
    ASSUME LookupInv, NEW s \in Services, LoseConnection(s) \/ Exit(s)
    PROVE  BrokerInv'
<1>1. PICK l : /\ link' = [link EXCEPT ![s] = l] /\ l.chan = link[s].chan /\ ~l.open
  <2>1. LinkGood(link[s]) /\ Fits(s, link[s], proc[s])
    BY DEF LookupInv, LinkInv, IInv
  <2>2. CASE LoseConnection(s)
    BY <2>1, <2>2, LostFits DEF LoseConnection, SetLink, Alive
  <2>3. CASE Exit(s)
    BY <2>1, <2>3, DeadFits DEF Exit, SetLink
  <2> QED
    BY <2>2, <2>3
<1>2. /\ QueuesAfterClose(s) /\ UNCHANGED <<delivered, sent, replied, lost, mistaken>>
      /\ s # UserService => UNCHANGED task
  <2>1. task \in [Channels \X Calls -> {"none", "finding", "done"}]
    BY DEF LookupInv, BrokerInv, TaskInv
  <2> QED
    BY <2>1 DEF LoseConnection, Exit, history
<1>3. CASE s # UserService
  <2>1. link'[UserService] = link[UserService] /\ UNCHANGED <<requests, unacked>>
    BY <1>1, <1>2, <1>3, ChanFacts DEF QueuesAfterClose, LookupInv
  <2> QED
    BY <1>2, <1>3, <2>1, SameKeeps DEF Current
<1>4. CASE s = UserService
  <2>1. Current' = Current /\ ~link'[UserService].open
    BY <1>1, <1>4, ChanFacts DEF LookupInv, Current
  <2>2. requests' = requests \cup Waiting /\ unacked' = {}
    BY <1>2, <1>4 DEF QueuesAfterClose, Requeue
  <2>3. requests' \subseteq sent /\ lost \subseteq sent /\ replied \subseteq sent
    BY <2>2, WaitingSent DEF LookupInv, BrokerInv, QueueInv
  <2>4. /\ task' \in [Channels \X Calls -> {"none", "finding", "done"}]
        /\ \A d \in Channels \X Calls : task'[d] # "none" => task[d] # "none"
    <3>1. CASE LoseConnection(s)
      BY <3>1 DEF LoseConnection, LookupInv, BrokerInv, TaskInv
    <3>2. CASE Exit(s)
      BY <3>2 DEF Exit, LookupInv, BrokerInv, TaskInv
    <3> QED
      BY <3>1, <3>2
  <2> QED
    BY <1>2, <2>1, <2>2, <2>3, <2>4, ClosedKeeps
<1> QED
  BY <1>3, <1>4

\* The broker restarts: it has lost what it held.
LEMMA RestartKeeps ==
    ASSUME LookupInv, RestartBroker
    PROVE  BrokerInv'
<1>1. /\ requests' = {} /\ unacked' = {} /\ lost' = lost \cup requests \cup Waiting
      /\ UNCHANGED <<delivered, task, sent, replied, mistaken>>
  BY DEF RestartBroker
<1>2. Current' = Current /\ ~link'[UserService].open
  <2> DEFINE l == link[UserService]
  <2>1. LinkGood(l) /\ Fits(UserService, l, proc[UserService])
    BY ChanFacts DEF LookupInv, LinkInv, IInv
  <2>2. link'[UserService] = IF l.open THEN Lost(l) ELSE l
    BY ChanFacts DEF LookupInv, RestartBroker
  <2>3. CASE l.open
    <3>1. proc[UserService] # "exited"
      BY <2>1, <2>3 DEF Fits
    <3>2. Lost(l).chan = l.chan /\ ~Lost(l).open
      BY <2>1, <3>1, LostFits
    <3> QED
      BY <2>2, <2>3, <3>2 DEF Current
  <2>4. CASE ~l.open
    BY <2>2, <2>4 DEF Current
  <2> QED
    BY <2>3, <2>4
<1>3. lost' \subseteq sent /\ replied \subseteq sent
  BY <1>1, WaitingSent DEF LookupInv, BrokerInv, QueueInv
<1>4. task' \in [Channels \X Calls -> {"none", "finding", "done"}]
  BY <1>1 DEF LookupInv, BrokerInv, TaskInv
<1> QED
  BY <1>1, <1>2, <1>3, <1>4, ClosedKeeps

\* A new channel, on which nothing was settled by mistake yet.
LEMMA RecoverKeeps ==
    ASSUME LookupInv, NEW s \in Services, Recover(s)
    PROVE  BrokerInv'
<1> DEFINE old == link[UserService]
           new == link'[UserService]
<1>1. UNCHANGED <<requests, unacked, delivered, task, sent, replied, lost, mistaken>>
  BY DEF Recover, server, history
<1>2. \/ new.chan = old.chan /\ new.open = old.open
      \/ new.chan = old.chan + 1 /\ ~old.open
  <2>1. CASE s = UserService
    BY <2>1, RecoverFits DEF Recover, LookupInv
  <2>2. CASE s # UserService
    BY <2>2, RecoverFits, ChanFacts DEF Recover, LookupInv
  <2> QED
    BY <2>1, <2>2
<1>3. CASE new.chan = old.chan /\ new.open = old.open
  BY <1>1, <1>3, SameKeeps DEF Current
<1>4. CASE new.chan = old.chan + 1 /\ ~old.open
  <2>1. unacked = {} /\ Waiting = {} /\ unacked' = {}
    BY <1>1, <1>4 DEF LookupInv, BrokerInv, QueueInv, Waiting
  <2>2. Current \in Nat /\ Current' = Current + 1 /\ Channels \subseteq Nat
    BY <1>4, ChanFacts DEF LookupInv, Current
  <2>3. QueueInv'
    BY <1>1, <2>1 DEF LookupInv, BrokerInv, QueueInv
  <2>4. /\ mistaken \subseteq Channels \X Calls
        /\ \A m \in mistaken : m[1] <= Current
        /\ sent \subseteq requests \cup replied \cup lost \cup {m[2] : m \in mistaken}
    BY <2>1 DEF LookupInv, BrokerInv, ForgottenInv
  <2>5. \A m \in mistaken : m[1] <= Current' /\ m[1] # Current'
    <3>1. \A m \in mistaken : m[1] \in Nat
      BY <2>2, <2>4
    <3> QED
      BY <2>2, <2>4, <3>1
  <2>6. \A c : <<Current', c>> \notin mistaken
    BY <2>5
  <2>7. ForgottenInv'
    BY <1>1, <2>4, <2>5, <2>6 DEF ForgottenInv
  <2>8. \A k \in Channels : k <= Current => k <= Current'
    BY <2>2
  <2>9. TaskInv'
    BY <1>1, <2>1, <2>8 DEF LookupInv, BrokerInv, TaskInv, BeingFound
  <2> QED
    BY <2>3, <2>7, <2>9 DEF BrokerInv
<1> QED
  BY <1>2, <1>3, <1>4

LEMMA LookupInvStep ==
    ASSUME LookupInv, [Next]_vars
    PROVE  LookupInv'
<1>1. LinkInv'
  BY LinkInvStep DEF LookupInv
<1>2. call' \in [Calls -> States]
  BY CallStep DEF LookupInv
<1>3. responses' \in [Calls -> Nat]
  <2>1. CASE UNCHANGED responses
    BY <2>1 DEF LookupInv
  <2>2. ASSUME NEW n \in Nodes, NEW c \in Calls, Receive(n, c)
        PROVE  responses' \in [Calls -> Nat]
    <3>1. responses[c] - 1 \in Nat
      BY <2>2 DEF Receive, LookupInv
    <3> QED
      BY <2>2, <3>1 DEF Receive, LookupInv
  <2>3. ASSUME NEW k \in Channels, NEW c \in Calls, Answer(k, c)
        PROVE  responses' \in [Calls -> Nat]
    BY <2>3 DEF Answer, LookupInv
  <2>4. CASE RestartBroker
    BY <2>4 DEF RestartBroker
  <2> QED
    BY <2>1, <2>2, <2>3, <2>4
       DEF Next, vars, Ask, Timeout, Deliver, AnswerFails, LoseConnection, Exit, Recover
<1>4. BrokerInv'
  <2>1. ASSUME UNCHANGED <<link, requests, delivered, unacked, task, history>>
        PROVE  BrokerInv'
    BY <2>1, SameKeeps DEF Current, history
  <2>2. ASSUME NEW c \in Calls, Timeout(c) \/ \E n \in Nodes : Receive(n, c)
        PROVE  BrokerInv'
    BY <2>1, <2>2 DEF Timeout, Receive, server
  <2>3. CASE UNCHANGED vars
    BY <2>1, <2>3 DEF vars, server
  <2> QED
    BY <2>2, <2>3, AskKeeps, DeliverKeeps, AnswerKeeps, AnswerFailsKeeps, LoseKeeps,
       RestartKeeps, RecoverKeeps DEF Next
<1> QED
  BY <1>1, <1>2, <1>3, <1>4 DEF LookupInv

LEMMA LookupInvInit == Init => LookupInv
<1> SUFFICES ASSUME Init
             PROVE  LookupInv
  OBVIOUS
<1>1. IInv
  BY IInvInit
<1>2. \A s \in Services : Fits(s, link[s], proc[s])
  <2> SUFFICES ASSUME NEW s \in Services
               PROVE  Fits(s, link[s], proc[s])
    OBVIOUS
  <2>1. 1 \in 1..MaxChannels[s]
    BY ConnectionAssumption
  <2>2. /\ link[s].chan = 1 /\ link[s].timers = 0
        /\ proc[s] = "running"
    BY DEF Init, LinkInit
  <2> QED
    BY <2>1, <2>2 DEF Fits
<1>3. LinkInv
  BY <1>1, <1>2 DEF LinkInv, Init, LinkInit
<1>4. QueueInv /\ ForgottenInv
  BY DEF Init, QueueInv, ForgottenInv
<1>5. TaskInv
  BY DEF Init, TaskInv, BeingFound
<1> QED
  BY <1>3, <1>4, <1>5 DEF LookupInv, BrokerInv, Init, States

LEMMA LookupInvAlways == Spec => []LookupInv
BY LookupInvInit, LookupInvStep, PTL DEF Spec

\* The variables keep their types, whatever fails and however often: the channels
\* stay within their bound, and the broker waits only for deliveries of the channel
\* that user-service has, whose handlers are at work (listenForRequests, connect
\* and its close handler).
THEOREM TypeCorrect == Spec => []TypeOK
<1>1. LookupInv => TypeOK
  <2> SUFFICES ASSUME LookupInv
               PROVE  TypeOK
    OBVIOUS
  <2>1. LinkTypeOK
    BY DEF LookupInv, LinkInv, IInv, Fits, LinkTypeOK
  <2>2. delivered \in [Channels -> Seq(Calls)]
    BY DEF LookupInv, BrokerInv, QueueInv
  <2> QED
    BY <2>1, <2>2
       DEF LookupInv, BrokerInv, QueueInv, ForgottenInv, TaskInv, States, TypeOK
<1> QED
  BY <1>1, LookupInvAlways, PTL

\* A request that the broker has forgotten was answered, unless the broker lost it
\* when it restarted, or user-service settled it with the tag of an old channel; on
\* a channel that stays open its handler is still at work.  For any number of nodes,
\* calls and channels (listenForRequests and its acknowledgement at line 95).
THEOREM GoneWasAnsweredAlways == Spec => []GoneWasAnswered
<1>1. LookupInv => GoneWasAnswered
  <2> SUFFICES ASSUME LookupInv,
                      NEW c \in sent \ (requests \cup Waiting \cup replied \cup lost)
               PROVE  \E k \in Channels :
                         /\ <<k, c>> \in mistaken
                         /\ link[UserService].open /\ k = Current => task[<<k, c>>] = "finding"
    BY DEF GoneWasAnswered
  <2>1. PICK m \in mistaken : m[2] = c
    BY DEF LookupInv, BrokerInv, ForgottenInv
  <2>2. m[1] \in Channels /\ c \in Calls /\ m = <<m[1], c>>
    BY <2>1 DEF LookupInv, BrokerInv, ForgottenInv
  <2>3. link[UserService].open /\ m[1] = Current => task[<<m[1], c>>] = "finding"
    BY <2>1, <2>2 DEF LookupInv, BrokerInv, ForgottenInv
  <2> QED
    BY <2>1, <2>2, <2>3
<1> QED
  BY <1>1, LookupInvAlways, PTL
===============================================================================
