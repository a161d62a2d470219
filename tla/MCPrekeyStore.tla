--------------------------- MODULE MCPrekeyStore ---------------------------
(* Small instances of PrekeyStore for TLC: all constants are sets of model *)
(* values, given in the cfg files.                                         *)
EXTENDS PrekeyStore, TLC
=============================================================================
