--------------------------- MODULE MCDatabaseSwap ---------------------------
(* Small instances of DatabaseSwap for TLC. *)
EXTENDS DatabaseSwap, TLC

CONSTANTS r1, r2

ReaderSymmetry == Permutations(Readers)
=============================================================================
