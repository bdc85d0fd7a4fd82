------------------------------ MODULE Citations ------------------------------
(* The evidence of entries cites places of files that nobody locks. Here are *)
(* the commands that record, verify and repair citations: add, compress,     *)
(* stale-check with its healing and migrate-citations; beside them a user    *)
(* edits, replaces and removes the files.                                    *)
(*                                                                           *)
(* A text is a sequence of blocks, a block stands for enough lines to be a   *)
(* strong excerpt, offsets count blocks, and the hash of a text is the text. *)
EXTENDS Integers, Sequences

CONSTANTS
    Files,        \* names of files of the repository
    Blocks,       \* what their texts are made of
    Setups,       \* a tree and entries to start from; what clients do then, the
                  \* texts users write and the bound on their edits
    MaxEntries,   \* bound on entries
    MaxCites      \* bound on the citations of an entry

\* An inode is named by the file it was created as, and when.
Gone == [ino |-> <<>>, text |-> <<>>]
FileStates == {Gone} \cup [ino : Files \X Nat, text : Seq(Blocks) \ {<<>>}]

Whole == <<>>
Ranges == {Whole} \cup {r \in Nat \X Nat : r[1] < r[2]}
NoExcerpt == <<>>
NoHash == <<>>
Policies == {"FileOnly", "FileThenRepo"}

\* A citation: a place, the hash of the text there, and an excerpt. An expiry
\* deletes the rows of an entry.
Citations == [file : Files, range : Ranges, hash : Seq(Blocks), excerpt : Seq(Blocks)]
EntryStates ==
    {e \in [live : BOOLEAN, rows : Seq(Citations)] : e.rows # <<>> => e.live}

ASSUME CitationAssumption ==
    /\ MaxEntries \in Nat /\ MaxCites \in Nat
    /\ \A s \in Setups :
          /\ s.tree \in [Files -> FileStates]
          /\ \A f \in Files : s.tree[f] # Gone => s.tree[f].ino = <<f, 0>>
          /\ s.entries \in Seq(EntryStates)
          /\ s.edits \in Nat
          /\ s.texts \subseteq Seq(Blocks) \ {<<>>}
          /\ s.cites \subseteq [file : Files, range : Ranges, excerpt : Seq(Blocks)]

VARIABLES
    tree,      \* the files: inode and text
    entries,   \* the entries of the one path of this model: live, and their rows
    holder,    \* who holds the repository lock
    seen,      \* every tree since the holder took it: a ghost, for the properties
    add,       \* the process that adds or compresses
    heal,      \* the process that runs stale-check
    migrate,   \* the process that runs migrate-citations
    setup,     \* what this behaviour started from
    edits      \* edits so far

vars == <<tree, entries, holder, seen, add, heal, migrate, setup, edits>>

Uses(op) == op \in setup.ops

-----------------------------------------------------------------------------
(* Verification of a row in a tree.                                        *)

Present(t, f) == t[f] # Gone

\* hash_citation_bytes: a range has to lie inside the file.
Readable(t, f, range) ==
    /\ Present(t, f)
    /\ range # Whole => range[1] < range[2] /\ range[2] <= Len(t[f].text)

HashOf(t, f, range) ==
    IF range = Whole THEN t[f].text ELSE SubSeq(t[f].text, range[1] + 1, range[2])

Holds(t, row) ==
    Readable(t, row.file, row.range) /\ HashOf(t, row.file, row.range) = row.hash

\* What is not searched for: a citation that holds, a file that cannot be opened.
Decayed(t, row) == Present(t, row.file) /\ ~Holds(t, row)

\* count_occurrences: overlapping ones count.
Offsets(text, needle) ==
    {o \in 0..Len(text) - Len(needle) : SubSeq(text, o + 1, o + Len(needle)) = needle}

PlacesIn(files, t, row) == UNION {{f} \X Offsets(t[f].text, row.excerpt) : f \in files}

\* Mutant: a repository walk leaves out the file that is cited.
ElsewhereIn(t, row, policy) ==
    PlacesIn(IF policy = "FileOnly" THEN {row.file} ELSE Files \ {row.file}, t, row)

\* search_for_excerpt: the cited file, then all others if the policy says so.
Places(t, row, policy) == PlacesIn(IF policy = "FileOnly" THEN {row.file} ELSE Files, t, row)

Spot(row) == [file |-> row.file, range |-> row.range]
Moved(row, spot) == [row EXCEPT !.file = spot.file, !.range = spot.range]

\* The range keeps its length at the new offset; a whole file stays whole.
SpotAt(place, range) ==
    [file |-> place[1],
     range |-> IF range = Whole THEN Whole
               ELSE <<place[2], place[2] + range[2] - range[1]>>]

\* Where verify_evidence says a decayed row went: one spot or none. A weak excerpt
\* is not searched for, one that is found twice is nowhere, and one that did not
\* move is decay.
Relocations(t, row, policy) ==
    {spot \in {SpotAt(place, row.range) : place \in Places(t, row, policy)} :
        /\ row.excerpt # NoExcerpt
        /\ \A p, q \in Places(t, row, policy) : p = q
        /\ spot.range # Whole => spot.range[2] <= Len(t[spot.file].text)
        /\ spot # Spot(row)}

-----------------------------------------------------------------------------
(* The rows, the lock and the user.                                        *)

\* A row is named by its entry and its place there.
Rows == {<<e, k>> : e \in DOMAIN entries, k \in 1..MaxCites}
Stands(r) == r[2] \in DOMAIN entries[r[1]].rows
Row(r) == entries[r[1]].rows[r[2]]
Stale == [live |-> FALSE, rows |-> <<>>]
LiveEntries == {e \in DOMAIN entries : entries[e].live}

\* apply_event of citation_healed: where the row points, and nothing else.
Repoint(r, spot) == entries' = [entries EXCEPT ![r[1]].rows[r[2]] = Moved(@, spot)]

Nobody == "nobody"
Take(who) == holder = Nobody /\ holder' = who /\ seen' = {tree}
Release == holder' = Nobody /\ seen' = {}
Hold == UNCHANGED <<holder, seen>>

\* An editor writes in place, or a new file over the old name, or removes it.
Edit(f, file) ==
    /\ edits < setup.edits
    /\ tree' = [tree EXCEPT ![f] = file]
    /\ seen' = IF holder = Nobody THEN {} ELSE seen \cup {tree'}
    /\ edits' = edits + 1
    /\ UNCHANGED <<entries, holder, add, heal, migrate, setup>>

\* Does text bring back to the inode what it had, since the lock was taken, as a
\* whole or at a place where it has something else now? Nobody who reads twice can
\* see that, and users who do are left out.
BringsBack(f, text) ==
    \E t \in seen :
        /\ t[f].ino = tree[f].ino
        /\ \/ t[f].text = text
           \/ \E i \in DOMAIN text \cap DOMAIN t[f].text :
                 /\ t[f].text[i] = text[i]
                 /\ ~(i \in DOMAIN tree[f].text /\ tree[f].text[i] = text[i])

EditInPlace(f, text) ==
    /\ Present(tree, f) /\ text # tree[f].text
    /\ ~BringsBack(f, text)
    /\ Edit(f, [ino |-> tree[f].ino, text |-> text])

Replace(f, text) == Edit(f, [ino |-> <<f, edits + 1>>, text |-> text])
Remove(f) == Present(tree, f) /\ Edit(f, Gone)

\* kb expire
Expire(e) ==
    /\ Uses("expire") /\ holder = Nobody /\ e \in LiveEntries
    /\ entries' = [entries EXCEPT ![e] = Stale]
    /\ UNCHANGED <<tree, holder, seen, add, heal, migrate, setup, edits>>

-----------------------------------------------------------------------------
(* kb add and kb compress: the client gathers citations, without the lock;   *)
(* add_locked resolves all of them, and then reads every file once more.     *)

NoAdd == [phase |-> "idle", draft |-> <<>>, from |-> 0, replace |-> FALSE,
          resolved |-> <<>>, verified |-> 0]

AddOnly == UNCHANGED <<tree, heal, migrate, setup, edits>>

\* kb cite prints a place and its hash; without it the place alone is written down.
Cite(f, range, excerpt, hashed) ==
    /\ Uses("cite") /\ add.phase = "idle" /\ Len(add.draft) < MaxCites
    /\ Len(entries) < MaxEntries
    /\ Readable(tree, f, range)
    /\ add' = [add EXCEPT !.draft =
                  Append(@, [file |-> f, range |-> range, excerpt |-> excerpt,
                             hash |-> IF hashed THEN HashOf(tree, f, range) ELSE NoHash])]
    /\ UNCHANGED entries /\ Hold /\ AddOnly

\* kb compress reads the newest live entry and embeds its paragraphs; then its
\* evidence, whatever happened to the entry meanwhile.
CompressRead ==
    /\ Uses("compress") /\ add = NoAdd /\ Len(entries) < MaxEntries
    /\ \E e \in LiveEntries :
          /\ \A older \in LiveEntries : older <= e
          /\ add' = [NoAdd EXCEPT !.phase = "compress", !.from = e, !.replace = TRUE]
    /\ UNCHANGED entries /\ Hold /\ AddOnly

CompressEvidence ==
    /\ add.phase = "compress"
    /\ add' = [add EXCEPT !.phase = "ready", !.draft = entries[add.from].rows]
    /\ UNCHANGED entries /\ Hold /\ AddOnly

\* With --replace-path, as compress does, the entries of the path are replaced.
AddBegin(replace) ==
    /\ add.phase = "ready" \/ (add.phase = "idle" /\ add.draft # <<>>)
    /\ Take("add")
    /\ add' = [add EXCEPT !.phase = "add", !.replace = @ \/ replace]
    /\ UNCHANGED entries /\ AddOnly

\* Mutant: the lock stays taken.
AddForgotten == add' = NoAdd /\ UNCHANGED entries /\ Hold /\ AddOnly

\* An error ends the command before anything is appended.
AddRefused == add' = NoAdd /\ UNCHANGED entries /\ Release /\ AddOnly

\* ResolvedCitationHashes: what was resolved before of the same inode and range.
Same(k, ino) ==
    {j \in 1..k - 1 : add.resolved[j].ino = ino /\ add.draft[j].range = add.draft[k].range}

\* Any of them will do: all have the hash of the first.
Former(k, ino) == add.resolved[CHOOSE j \in Same(k, ino) : TRUE].hash

\* The next citation is opened and hashed, or its hash is one of a former; a hash
\* the client has must agree.
Resolve ==
    LET k == Len(add.resolved) + 1
        c == add.draft[k]
        ino == tree[c.file].ino
        hash == IF Same(k, ino) # {} THEN Former(k, ino)
                ELSE HashOf(tree, c.file, c.range)
    IN /\ add.phase = "add" /\ k <= Len(add.draft)
       /\ IF /\ Present(tree, c.file)
             /\ (Same(k, ino) # {} \/ Readable(tree, c.file, c.range))
             /\ c.hash \in {NoHash, hash}
          THEN /\ add' = [add EXCEPT !.resolved = Append(@, [ino |-> ino, hash |-> hash])]
               /\ UNCHANGED entries /\ Hold /\ AddOnly
          ELSE AddRefused

Resolved == Len(add.resolved) = Len(add.draft)

\* Mutant: only the inodes are compared.
SameInode(k) == tree[add.draft[k].file].ino = add.resolved[k].ino

\* The file is opened again: same inode, same hash; what this pass has read of the
\* same inode and range is not read again.
StillResolved(k) ==
    LET c == add.draft[k]
        was == add.resolved[k]
    IN /\ Present(tree, c.file)
       /\ tree[c.file].ino = was.ino
       /\ IF Same(k, was.ino) # {} THEN Former(k, was.ino) = was.hash
          ELSE Readable(tree, c.file, c.range) /\ HashOf(tree, c.file, c.range) = was.hash

Reverify ==
    /\ add.phase = "add" /\ Resolved /\ add.verified < Len(add.draft)
    /\ IF StillResolved(add.verified + 1)
       THEN /\ add' = [add EXCEPT !.verified = @ + 1]
            /\ UNCHANGED entries /\ Hold /\ AddOnly
       ELSE AddRefused

\* The batch: if asked for, all live entries of the path expire; the new entry.
AddAppend ==
    /\ add.phase = "add" /\ Resolved /\ add.verified = Len(add.draft)
    /\ LET rows == [k \in DOMAIN add.draft |->
                       [add.draft[k] EXCEPT !.hash = add.resolved[k].hash]]
           kept == [e \in DOMAIN entries |-> IF add.replace THEN Stale ELSE entries[e]]
       IN entries' = Append(kept, [live |-> TRUE, rows |-> rows])
    /\ add' = NoAdd /\ Release /\ AddOnly

-----------------------------------------------------------------------------
(* kb stale-check --relocate, with relocation_autoheal.                      *)

NoHeal == [policy |-> "Never", plan |-> {}, decayed |-> {}]

HealOnly == UNCHANGED <<tree, add, migrate, setup, edits>>

\* The report is made without the lock: where each row that decayed has gone.
HealPlan(policy) ==
    /\ Uses("heal") /\ heal = NoHeal
    /\ LET lost == {r \in Rows : Stands(r) /\ Decayed(tree, Row(r))}
           plan == UNION {{[row |-> r, from |-> Spot(Row(r)), to |-> spot] :
                              spot \in Relocations(tree, Row(r), policy)} : r \in lost}
       IN plan # {} /\ heal' = [NoHeal EXCEPT !.policy = policy, !.plan = plan]
    /\ UNCHANGED entries /\ Hold /\ HealOnly

HealBegin ==
    /\ heal.plan # {} /\ Take("heal")
    /\ UNCHANGED <<entries, heal>> /\ HealOnly

\* Mutant: the row is not hashed again.
StillThere(p) == Stands(p.row) /\ Spot(Row(p.row)) = p.from

\* Under the lock the row is read again, and must still be where the report saw it
\* and decayed; verify_evidence opens the file first and searches it then.
Confirmed(p) ==
    Stands(p.row) /\ Spot(Row(p.row)) = p.from /\ Decayed(tree, Row(p.row))

HealCheck(p) ==
    /\ holder = "heal" /\ heal.decayed = {}
    /\ heal' = [heal EXCEPT !.plan = @ \ {p}, !.decayed = IF Confirmed(p) THEN {p} ELSE {}]
    /\ UNCHANGED entries /\ Hold /\ HealOnly

\* The new place must be the one of the report.
HealSearch(p) ==
    /\ IF Relocations(tree, Row(p.row), heal.policy) = {p.to}
       THEN Repoint(p.row, p.to) ELSE UNCHANGED entries
    /\ heal' = [heal EXCEPT !.decayed = {}]
    /\ Hold /\ HealOnly

HealEnd ==
    /\ holder = "heal" /\ heal.plan = {} /\ heal.decayed = {}
    /\ heal' = NoHeal
    /\ UNCHANGED entries /\ Release /\ HealOnly

-----------------------------------------------------------------------------
(* kb migrate-citations: a range that is a whole file becomes the bare file. *)

NoMigration == [plan |-> {}, next |-> <<>>]

MigrateOnly == UNCHANGED <<tree, add, heal, setup, edits>>
Bare(row) == [file |-> row.file, range |-> Whole]

\* Mutant: the size is trusted.
SizeFits(t, row) ==
    /\ row.range # Whole /\ row.range[1] = 0 /\ Present(t, row.file)
    /\ Len(t[row.file].text) = row.range[2]

\* classify_row: from the start, as long as the file, with the hash of the file.
Migratable(t, row) ==
    /\ row.range # Whole /\ row.range[1] = 0
    /\ Present(t, row.file)
    /\ Len(t[row.file].text) = row.range[2]
    /\ t[row.file].text = row.hash

MigratePlan ==
    /\ Uses("migrate") /\ migrate = NoMigration
    /\ LET plan == {r \in Rows : Stands(r) /\ Migratable(tree, Row(r))}
       IN plan # {} /\ migrate' = [NoMigration EXCEPT !.plan = plan]
    /\ UNCHANGED entries /\ Hold /\ MigrateOnly

MigrateBegin ==
    /\ migrate.plan # {} /\ Take("migrate")
    /\ UNCHANGED <<entries, migrate>> /\ MigrateOnly

\* A file that is gone ends the command, with the rows before it migrated.
MigrateAbort == migrate' = NoMigration /\ UNCHANGED entries /\ Release /\ MigrateOnly

\* The row as it is now is classified again, and the inode of its file kept.
MigrateClassify(r) ==
    /\ holder = "migrate" /\ migrate.next = <<>>
    /\ IF Stands(r) /\ ~Present(tree, Row(r).file) THEN MigrateAbort
       ELSE /\ migrate' = [plan |-> migrate.plan \ {r},
                           next |-> IF Stands(r) /\ Migratable(tree, Row(r))
                                    THEN <<r, tree[Row(r).file].ino>> ELSE <<>>]
            /\ UNCHANGED entries /\ Hold /\ MigrateOnly

MigrateAppend ==
    LET r == migrate.next[1]
    IN /\ migrate.next # <<>>
       /\ IF ~Present(tree, Row(r).file) THEN MigrateAbort
          ELSE /\ IF tree[Row(r).file].ino = migrate.next[2]
                  THEN Repoint(r, Bare(Row(r))) ELSE UNCHANGED entries
               /\ migrate' = [migrate EXCEPT !.next = <<>>]
               /\ Hold /\ MigrateOnly

MigrateEnd ==
    /\ holder = "migrate" /\ migrate.plan = {} /\ migrate.next = <<>>
    /\ MigrateAbort

-----------------------------------------------------------------------------
Init ==
    /\ setup \in Setups
    /\ tree = setup.tree /\ entries = setup.entries
    /\ holder = Nobody /\ seen = {}
    /\ add = NoAdd /\ heal = NoHeal /\ migrate = NoMigration
    /\ edits = 0

Next ==
    \/ \E f \in Files, text \in setup.texts : EditInPlace(f, text) \/ Replace(f, text)
    \/ \E f \in Files : Remove(f)
    \/ \E e \in DOMAIN entries : Expire(e)
    \/ \E c \in setup.cites, hashed \in BOOLEAN : Cite(c.file, c.range, c.excerpt, hashed)
    \/ CompressRead \/ CompressEvidence
    \/ \E replace \in BOOLEAN : AddBegin(replace)
    \/ Resolve \/ Reverify \/ AddAppend
    \/ \E policy \in Policies : HealPlan(policy)
    \/ HealBegin \/ HealEnd
    \/ \E p \in heal.plan : HealCheck(p)
    \/ \E p \in heal.decayed : HealSearch(p)
    \/ MigratePlan \/ MigrateBegin \/ MigrateEnd \/ MigrateAppend
    \/ \E r \in migrate.plan : MigrateClassify(r)

Spec == Init /\ [][Next]_vars

-----------------------------------------------------------------------------
(* What the citations are worth.                                           *)

\* Whoever holds the lock is the one process whose work has begun, and rows belong
\* to live entries.
TypeOK ==
    /\ setup \in Setups /\ edits \in 0..setup.edits
    /\ tree \in [Files -> FileStates] /\ entries \in Seq(EntryStates)
    /\ holder = Nobody <=> seen = {}
    /\ holder # Nobody => tree \in seen
    /\ holder = "add" <=> add.phase = "add"
    /\ migrate.next # <<>> => holder = "migrate" /\ Stands(migrate.next[1])
    /\ \A p \in heal.decayed : holder = "heal" /\ Stands(p.row)

\* The citations of an entry that is added, which are hashed one after the other
\* in files nobody locks, held all together at one moment since the lock was taken
\* (kb_core.rs: resolved and read again under the lock).
AddIsSnapshot ==
    [][Len(entries') > Len(entries) =>
          \E t \in seen : \A k \in DOMAIN entries'[Len(entries')].rows :
              Holds(t, entries'[Len(entries')].rows[k])]_vars

\* The rows a step points elsewhere.
Repointed == {r \in Rows : /\ Stands(r) /\ r[2] \in DOMAIN entries'[r[1]].rows
                           /\ entries'[r[1]].rows[r[2]] # Row(r)}

\* A heal moves only a citation that was found decayed while the lock was held, to
\* a spot where its excerpt stood then and nowhere else that was to be searched,
\* whoever wrote the row or the file since the report.
HealIsConfirmed ==
    [][holder = "heal" => \A r \in Repointed :
          /\ \E t \in seen : Decayed(t, Row(r))
          /\ Relocations(tree, Row(r), heal.policy) = {Spot(entries'[r[1]].rows[r[2]])}]_vars

\* A heal is the last one until a file changes: what it wrote is verified or decayed
\* for good, and never moves on or back (the relocation is idempotent).
HealSettles ==
    [][holder = "heal" => \A r \in Repointed :
          LET row == entries'[r[1]].rows[r[2]]
          IN ~Decayed(tree, row) \/ Relocations(tree, row, heal.policy) = {}]_vars

\* A migration only spells a citation differently: while the lock was held there
\* was a moment when it held, in the old form and in the new.
MigrationRespells ==
    [][holder = "migrate" => \A r \in Repointed :
          \E t \in seen : Holds(t, Row(r)) /\ Holds(t, entries'[r[1]].rows[r[2]])]_vars

=============================================================================
