-------------------------- MODULE MCLocalPresence --------------------------
(* Small instances of LocalPresence for TLC.                               *)
EXTENDS LocalPresence, TLC

CONSTANTS alice, bob, a1, a2, b1, b2

\* Alice opens two sockets, and so does Bob.
MCOwner == (a1 :> alice) @@ (a2 :> alice) @@ (b1 :> bob) @@ (b2 :> bob)
=============================================================================
