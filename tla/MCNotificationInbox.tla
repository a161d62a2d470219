------------------------ MODULE MCNotificationInbox ------------------------
(* Small instances of NotificationInbox for TLC.                           *)
EXTENDS NotificationInbox, TLC

CONSTANTS r1, r2

MCSymmetry == Permutations(Ids) \cup Permutations(Requests) \cup Permutations(Users)
=============================================================================
