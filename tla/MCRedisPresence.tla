-------------------------- MODULE MCRedisPresence --------------------------
(* Small instances of RedisPresence for TLC.                               *)
EXTENDS RedisPresence, TLC

CONSTANTS alice, n1, n2, s1, s2, s3

\* Three sockets of one user, two of them on one node.  Users share no key.
MCOwner == (s1 :> alice) @@ (s2 :> alice) @@ (s3 :> alice)
MCHome == (s1 :> n1) @@ (s2 :> n1) @@ (s3 :> n2)
=============================================================================
