--------------------------- MODULE MCKbDurability ---------------------------
(* Small instances of KbDurability for TLC. *)
EXTENDS KbDurability, TLC

CONSTANTS p1, p2, k1, k2

ProcSymmetry == Permutations(Procs)

\* Sound where no initial log names a key.
ProcKeySymmetry == Permutations(Procs) \cup Permutations(Keys)

NoLogs == {}

Up(i, k) == [id |-> i, key |-> k, op |-> "upsert", bad |-> FALSE]
Exp(i, k) == [id |-> i, key |-> k, op |-> "expire", bad |-> FALSE]
Bad(i, k) == [id |-> i, key |-> k, op |-> "upsert", bad |-> TRUE]

LegacyLogs == {<<Up(1, k1)>>}

PoisonedLogs == {<<Bad(1, k1)>>}
=============================================================================
