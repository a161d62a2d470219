----------------------------- MODULE MCUserLookup -----------------------------
(* UserLookup with model values.                                               *)
EXTENDS UserLookup, TLC

CONSTANTS c1, c2, n1, n2

\* Each node makes a call, and may consume the answer to the other's.
OneCallEach == [c \in Calls |-> IF c = c1 THEN n1 ELSE n2]

\* user-service reconnects or restarts once, the nodes do not.
OneReconnectOfServer == [s \in Services |-> IF s = UserService THEN 2 ELSE 1]
===============================================================================
