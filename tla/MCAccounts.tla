----------------------------- MODULE MCAccounts -----------------------------
(* Small instances of Accounts for TLC.                                    *)
EXTENDS Accounts, TLC

CONSTANTS Ann, ann, bob

\* Two spellings of one name, and another name.
MCUname == (Ann :> ann) @@ (ann :> ann) @@ (bob :> bob)

MCSymmetry == Permutations(Clients) \cup Permutations(Ids) \cup Permutations(Emails)
=============================================================================
