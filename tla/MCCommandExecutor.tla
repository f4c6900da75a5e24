------------------------- MODULE MCCommandExecutor -------------------------
(***************************************************************************)
(* CommandExecutor for TLC: the executor, one other caller of the          *)
(* database, and the set of writes built from the records.                 *)
(***************************************************************************)
EXTENDS CommandExecutor

CONSTANTS e1, e2, e3, executor, caller

AllWrites == [op : {"batch", "fallback", "other"}, records : SUBSET Records]
=============================================================================
