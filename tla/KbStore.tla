------------------------------ MODULE KbStore ------------------------------
(***************************************************************************)
(* Data of the agentic-kb store: events of the append-only log, the rows   *)
(* of the `entries` table they materialize, the applied cursor that says   *)
(* how much of the log the database contains, and the classification of a  *)
(* database against the log (cursor::inspect).                             *)
(*                                                                         *)
(* Offsets count events where the code counts bytes.  A row is the id of   *)
(* the upsert event that last wrote it, Stale once the entry is expired    *)
(* (the row stays, with is_stale = 1), NoRow when there is none.           *)
(***************************************************************************)
EXTENDS Integers, Sequences, FiniteSets

CONSTANTS
    Keys,            \* entry ids
    NoCursor,        \* what cursor::read returns when a cursor row is missing
    Window,          \* events covered by each of the two windows of tail_sha
    PoisonAttempts   \* POISON_MAX_ATTEMPTS

ASSUME StoreAssumption ==
    /\ Window \in Nat \ {0}
    /\ PoisonAttempts \in Nat \ {0}

NoRow == 0
Stale == -1

\* An event of the `entries` table.  `bad` marks an event no database can
\* digest (apply_event fails on it every time).
Event == [id : Nat \ {0}, key : Keys, op : {"upsert", "expire"}, bad : BOOLEAN]

EventIds(s) == {s[i].id : i \in DOMAIN s}

BadIds(s) == {s[i].id : i \in {j \in DOMAIN s : s[j].bad}}

Rows == [Keys -> Nat \cup {Stale}]

EmptyRows == [k \in Keys |-> NoRow]

\* What a search can see: a stale row is as good as none.
Visible(rows) == [k \in Keys |-> IF rows[k] = Stale THEN NoRow ELSE rows[k]]

\* Positions in s of the events of entry k that are not skipped.
Touching(s, k, skip) == {i \in DOMAIN s : s[i].key = k /\ s[i].id \notin skip}

IsLast(S, i) == i \in S /\ \A j \in S : j <= i

\* apply_event over every event of s that is not skipped, in log order and in
\* one transaction: an upsert overwrites the row; an expire marks the row stale
\* if there is one (UPDATE ... WHERE id).
ApplyAll(rows, s, skip) ==
    [k \in Keys |->
        LET touching == Touching(s, k, skip)
            last == s[CHOOSE i \in touching : IsLast(touching, i)]
        IN  IF touching = {} THEN rows[k]
            ELSE IF last.op = "upsert" THEN last.id
            ELSE IF rows[k] # NoRow \/ \E i \in touching : s[i].op = "upsert" THEN Stale
            ELSE NoRow]

Materialize(s, skip) == ApplyAll(EmptyRows, s, skip)

\* The events at which applying s can fail: every unskipped event before the
\* failing one was digested.  A transient failure (embedding, I/O) can hit any.
Failing(s, skip, transient) ==
    {i \in DOMAIN s :
        /\ s[i].id \notin skip
        /\ s[i].bad \/ transient
        /\ \A j \in 1 .. i - 1 : s[j].id \in skip \/ ~s[j].bad}

Digestible(s, skip) == \A i \in DOMAIN s : s[i].id \in skip \/ ~s[i].bad

-----------------------------------------------------------------------------
(* The applied cursor.                                                     *)

Prefix(s, n) == SubSeq(s, 1, n)

\* Bounded fingerprint of the first n events: their number and a window at
\* either end.  What lies between the windows is not covered.
TailSha(s, n) ==
    LET w == IF n <= Window THEN n ELSE Window
    IN  <<n, SubSeq(s, 1, w), SubSeq(s, n - w + 1, n)>>

\* Mutant: the offset of the last event instead of the one after it.
CursorBeforeLast(g, s, n) == [gen |-> g, off |-> n - 1, sha |-> TailSha(s, n)]

CursorAt(g, s, n) == [gen |-> g, off |-> n, sha |-> TailSha(s, n)]

Cursor == [gen : Nat, off : Nat, sha : Nat \X Seq(Event) \X Seq(Event)]

\* The database file: schema_is_current is `stamp`.
Database == [exists : BOOLEAN, rows : Rows, cur : Cursor \cup {NoCursor}, stamp : BOOLEAN]

\* A database open_rw just created: stamped, and a cursor at generation 0,
\* offset 0.
FreshDb == [exists |-> TRUE, rows |-> EmptyRows, cur |-> CursorAt(0, <<>>, 0), stamp |-> TRUE]

NoDb == [FreshDb EXCEPT !.exists = FALSE]

OpenRw(d) == IF d.exists THEN d ELSE FreshDb

\* cursor::inspect, in the order the code tests: cursor c, log s of generation
\* g, schema stamp.  A log that cannot be read (Defer, LogMissing) is outside
\* this module.
Inspect(c, stamp, s, g) ==
    IF c = NoCursor THEN "CursorMissing"
    ELSE IF c.gen # g THEN "GenerationMismatch"
    ELSE IF c.off > Len(s) THEN "OffsetBeyondLog"
    ELSE IF c.sha # TailSha(s, c.off) THEN "TailShaMismatch"
    ELSE IF c.off < Len(s) THEN "ReplayTail"
    ELSE IF ~stamp THEN "SchemaObsolete"
    ELSE "NoOp"

FullRebuild == {"CursorMissing", "GenerationMismatch", "OffsetBeyondLog",
                "TailShaMismatch", "SchemaObsolete"}

\* Mutant: a database that is merely behind may be written.
BlocksUnlessBehind(decision) == decision \notin {"NoOp", "SchemaObsolete", "ReplayTail"}

BlocksWrites(decision) == decision \notin {"NoOp", "SchemaObsolete"}

\* The cursor is a claim inspect accepts: everything up to c.off is applied.
Accepts(decision) == decision \in {"NoOp", "ReplayTail", "SchemaObsolete"}

-----------------------------------------------------------------------------
(* Compaction of the `entries` events of a log: an upsert is kept when no  *)
(* later event is about the same entry; expires are always dropped.        *)

\* Mutant: an expire after the upsert does not count.
RetainedDespiteExpire(s) ==
    {i \in DOMAIN s : s[i].op = "upsert" /\ \A j \in DOMAIN s :
        s[j].key = s[i].key /\ s[j].op = "upsert" => j <= i}

Retained(s) ==
    {i \in DOMAIN s : s[i].op = "upsert" /\ IsLast(Touching(s, s[i].key, {}), i)}

\* The listing of a set of positions in increasing order (a singleton).
InOrder(S) ==
    {f \in [1 .. Cardinality(S) -> S] :
        /\ \A m, n \in DOMAIN f : m < n => f[m] < f[n]
        /\ \A i \in S : \E n \in DOMAIN f : f[n] = i}

Compacted(s) == {[n \in DOMAIN f |-> s[f[n]]] : f \in InOrder(Retained(s))}
=============================================================================
