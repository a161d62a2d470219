------------------------------ MODULE Presence ------------------------------
(***************************************************************************)
(* What the presence events of chat-service promise, whatever store is     *)
(* behind them: a user goes online when the first of its sockets connects  *)
(* and offline when the last one is gone, and each of these changes is     *)
(* announced once to everybody, in the order in which they happened        *)
(* (chat-service/src/services/PresenceStore.ts, "Design decisions").       *)
(***************************************************************************)
EXTENDS Naturals

CONSTANT Users

VARIABLES
    live,  \* the users with a socket
    told,  \* the users whose last announcement said "online"
    lag    \* for each user, how many of its changes are not announced yet

vars == <<live, told, lag>>

Toggle(S, u) == IF u \in S THEN S \ {u} ELSE S \cup {u}

Init ==
    /\ live = {}
    /\ told = {}
    /\ lag = [u \in Users |-> 0]

\* The first socket of u connects, or its last one disconnects.
Change(u) ==
    /\ live' = Toggle(live, u)
    /\ lag' = [lag EXCEPT ![u] = @ + 1]
    /\ UNCHANGED told

Announce(u) ==
    /\ lag[u] > 0
    /\ told' = Toggle(told, u)
    /\ lag' = [lag EXCEPT ![u] = @ - 1]
    /\ UNCHANGED live

\* The process stops; whoever connects to the next one starts afresh.
Restart ==
    /\ live' = {}
    /\ told' = {}
    /\ lag' = [u \in Users |-> 0]

Next ==
    \/ \E u \in Users : Change(u) \/ Announce(u)
    \/ Restart

Spec ==
    /\ Init
    /\ [][Next]_vars
    /\ \A u \in Users : WF_vars(Announce(u))
-----------------------------------------------------------------------------
TypeOK ==
    /\ live \subseteq Users
    /\ told \subseteq Users
    /\ lag \in [Users -> Nat]
=============================================================================
