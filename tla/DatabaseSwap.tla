---------------------------- MODULE DatabaseSwap ----------------------------
(***************************************************************************)
(* The files of a knowledge base's database: the database itself, which    *)
(* `kb rebuild` and `kb migrate-embeddings` replace by a rename, and its   *)
(* write-ahead log beside it, which SQLite finds by name.  Writers, the    *)
(* rebuild and the migration hold the repository lock; readers take none.  *)
(* How SQLite opens, reads, checkpoints and closes is taken from how the   *)
(* code and its comments rely on it; a name's -wal and -shm are one        *)
(* "sidecar", created and unlinked together.  The file system keeps its    *)
(* metadata in order, and a sync makes durable the renames before it.      *)
(***************************************************************************)
EXTENDS Integers, Sequences, FiniteSets, FiniteSetsExt

CONSTANTS
    Readers,        \* connections of open_ro, one each
    Attempts,       \* checkpoint_live_db: ATTEMPTS
    MaxVersions,    \* bound: commits, rebuilds and migrations
    MaxFaults       \* bound: kills and power losses

ASSUME SwapAssumption ==
    /\ IsFiniteSet(Readers)
    /\ Attempts \in Nat \ {0} /\ MaxVersions \in Nat /\ MaxFaults \in Nat

VARIABLES
    disk,       \* what the names stand for, and the files' contents
    reader,     \* the readers' connections
    job,        \* the process that holds the repository lock
    staged,     \* migration: the staged copy and the recovery state beside it
    undurable,  \* what a rename replaced, until the directory is synced
    version,    \* the last version of a page written
    truth,      \* ghost: what has been committed, rebuilt and migrated so far
    past,       \* ghost: everything it has been
    split,      \* ghost: sidecars were unlinked under a connection to the named file
    faults

vars == <<disk, reader, job, staged, undurable, version, truth, past, split, faults>>

Pages == {"rows", "vectors"}

Value(v, legacy) == [at |-> v, legacy |-> legacy]

Inodes == 0..MaxVersions        \* a file is known by the version it came with
NoSide == 0
Sides == 1..(Cardinality(Readers) + 3)

None == [none |-> TRUE]

-----------------------------------------------------------------------------
(* SQLite.                                                                 *)

\* What a connection to file i with sidecar s sees, up to frame n of its log.
View(d, i, s, n) ==
    [p \in Pages |->
        LET frames == IF s = NoSide THEN {}
                      ELSE {k \in DOMAIN d.wal[s] : k <= n /\ p \in DOMAIN d.wal[s][k]}
        IN IF frames = {} THEN d.file[i][p] ELSE d.wal[s][Max(frames)][p]]

Whole(d, i, s) == View(d, i, s, IF s = NoSide THEN 0 ELSE Len(d.wal[s]))

\* What a process that opens the database by its name would see.
FreshView(d) == Whole(d, d.name, d.side)

Connected(r) == reader[r].side # NoSide

InUse(d) == {d.side, job.side} \cup {reader[r].side : r \in Readers}

\* The first statement on a connection opens the sidecar the name stands for
\* then, or creates one.
Connect(d) ==
    IF d.side # NoSide THEN d
    ELSE LET s == Min(Sides \ InUse(d))
         IN [d EXCEPT !.side = s, !.wal[s] = <<>>]

\* Readers in a read transaction on sidecar s.
Reading(s) == {r \in Readers : reader[r].at = "reading" /\ reader[r].side = s}

\* wal_checkpoint(PASSIVE) goes as far as every reader has its frames.
Passive(d, s) ==
    [d EXCEPT !.file[d.name] =
        View(d, d.name, s, Min({Len(d.wal[s])} \cup {reader[r].mark : r \in Reading(s)}))]

\* wal_checkpoint(TRUNCATE) is busy while there is a reader.
Busy(d, s) == d.wal[s] # <<>> /\ Reading(s) # {}

Truncate(d, s) == [d EXCEPT !.file[d.name] = Whole(d, d.name, s), !.wal[s] = <<>>]

\* The last connection to a file that is still the named one checkpoints its own
\* sidecar and unlinks the named one; any other just closes.
Close(d, i, s, others) ==
    IF s # NoSide /\ i = d.name /\ i \notin others
    THEN [d EXCEPT !.file[i] = Whole(d, i, s), !.side = NoSide]
    ELSE d

FilesOf(rs) == {reader[r].file : r \in {q \in rs : Connected(q)}}

CloseJob(d, s) == Close(d, d.name, s, FilesOf(Readers))

-----------------------------------------------------------------------------

Closed == [at |-> "closed", file |-> 0, side |-> NoSide, mark |-> 0,
           rows |-> Value(0, FALSE), stray |-> FALSE]

Idle == [role |-> "none", pc |-> "none", side |-> NoSide, tries |-> 0,
         aim |-> "none", content |-> None]

NoStage == [copy |-> None, source |-> None]

Init ==
    /\ \E legacy \in BOOLEAN :
          disk = [name |-> 0, side |-> NoSide,
                  file |-> [i \in Inodes |-> [p \in Pages |->
                               Value(0, legacy /\ p = "vectors")]],
                  wal |-> [s \in Sides |-> <<>>]]
    /\ reader = [r \in Readers |-> Closed]
    /\ job = Idle
    /\ staged = NoStage
    /\ undurable = None
    /\ version = 0
    /\ truth = FreshView(disk)
    /\ past = {truth}
    /\ split = FALSE
    /\ faults = 0

-----------------------------------------------------------------------------
(* Readers: open_ro, a query, drop.                                        *)

Untouched == UNCHANGED <<staged, undurable, version, truth, past, faults>>

\* The file is opened by name; nothing is read yet.
ReaderOpen(r) ==
    /\ reader[r].at = "closed"
    /\ reader' = [reader EXCEPT ![r] = [Closed EXCEPT !.at = "opened", !.file = disk.name]]
    /\ UNCHANGED <<disk, job, split>> /\ Untouched

\* A read transaction begins and reads the first page.
ReaderBegin(r) ==
    /\ reader[r].at \in {"opened", "idle"}
    /\ LET d == IF Connected(r) THEN disk ELSE Connect(disk)
           s == IF Connected(r) THEN reader[r].side ELSE d.side
       IN
       /\ disk' = d
       /\ reader' = [reader EXCEPT
             ![r].at = "reading", ![r].side = s, ![r].mark = Len(d.wal[s]),
             ![r].rows = Whole(d, reader[r].file, s)["rows"],
             ![r].stray = @ \/ (~Connected(r) /\ reader[r].file # disk.name)]
    /\ UNCHANGED <<job, split>> /\ Untouched

ReaderEnd(r) ==
    /\ reader[r].at = "reading"
    /\ reader' = [reader EXCEPT ![r].at = "idle", ![r].mark = 0, ![r].rows = Value(0, FALSE)]
    /\ UNCHANGED <<disk, job, split>> /\ Untouched

ReaderClose(r) ==
    /\ reader[r].at \in {"opened", "idle"}
    /\ disk' = Close(disk, reader[r].file, reader[r].side,
                     FilesOf(Readers \ {r}) \cup
                        (IF job.side # NoSide THEN {disk.name} ELSE {}))
    /\ reader' = [reader EXCEPT ![r] = Closed]
    /\ UNCHANGED <<job, split>> /\ Untouched

-----------------------------------------------------------------------------
(* Writers: acquire_lock, open_rw, one transaction, drop.                  *)

Holds(role, pc) == job.role = role /\ job.pc = pc

\* Connections to another file that share this sidecar see the frames as theirs.
Strays(s) == {r \in Readers : reader[r].side = s /\ reader[r].file # disk.name}

\* A transaction on some pages, or none, durable when it returns: its sync also
\* makes durable a rename before it.
WriterCommit(pages) ==
    /\ job = Idle
    /\ pages # {} => version < MaxVersions
    /\ LET d == Connect(disk)
           old == FreshView(d)
           frame == [p \in pages |-> Value(version + 1, old[p].legacy)]
           e == IF pages = {} THEN d
                ELSE [d EXCEPT !.wal[d.side] = Append(@, frame)]
       IN
       /\ disk' = e
       /\ job' = [Idle EXCEPT !.role = "writer", !.pc = "written", !.side = d.side]
       /\ past' = past \cup {FreshView(e)}
       /\ truth' = [p \in Pages |-> IF p \in pages THEN frame[p] ELSE truth[p]]
       /\ reader' = IF pages = {} THEN reader
                    ELSE [r \in Readers |-> [reader[r] EXCEPT
                                                !.stray = @ \/ r \in Strays(d.side)]]
    /\ version' = IF pages = {} THEN version ELSE version + 1
    /\ undurable' = IF pages = {} THEN undurable ELSE None
    /\ UNCHANGED <<staged, split, faults>>

\* The log has grown past wal_autocheckpoint.
AutoCheckpoint ==
    /\ Holds("writer", "written")
    /\ disk' = Passive(disk, job.side)
    /\ UNCHANGED <<reader, job, split>> /\ Untouched

WriterClose ==
    /\ Holds("writer", "written")
    /\ disk' = CloseJob(disk, job.side)
    /\ job' = Idle
    /\ UNCHANGED <<reader, split>> /\ Untouched

\* A reembed batch: a second connection, read-only, keeps the close from
\* checkpointing and unlinking.
WriterCloseDeferred ==
    /\ Holds("writer", "written")
    /\ job' = Idle
    /\ UNCHANGED <<disk, reader, split>> /\ Untouched

\* reembed's drain, in a lock of its own and deferred as well.
DrainWal(passive) ==
    /\ job = Idle
    /\ LET d == Connect(disk) IN
       disk' = IF passive THEN Passive(d, d.side)
               ELSE IF Busy(d, d.side) THEN d ELSE Truncate(d, d.side)
    /\ UNCHANGED <<reader, job, split>> /\ Untouched

-----------------------------------------------------------------------------
(* What the rebuild and the migration have in common.                      *)

\* Mutant: the content is written over the file instead of renamed over its name.
InstallInPlace(content, i, meant) ==
    /\ disk' = [disk EXCEPT !.file[disk.name] = content]
    /\ undurable' = None
    /\ truth' = meant
    /\ past' = past \cup {content}

\* A rename over the database: content is what is put there, meant what should be.
Install(content, i, meant) ==
    /\ disk' = [disk EXCEPT !.name = i, !.file[i] = content]
    /\ undurable' = [name |-> disk.name, truth |-> truth, copy |-> staged.copy]
    /\ truth' = meant
    /\ past' = past \cup {content}

\* The sidecars are unlinked by name, whoever uses them.
UnlinkSidecars ==
    LET users == {r \in Readers : disk.side # NoSide /\ reader[r].side = disk.side
                                   /\ reader[r].file = disk.name}
    IN
    /\ disk' = [disk EXCEPT !.side = NoSide]
    /\ split' = (split \/ users # {})
    /\ reader' = [r \in Readers |-> [reader[r] EXCEPT !.stray = @ \/ r \in users]]

(* kb rebuild, from the lock of its third phase on.                        *)

\* The scratch database holds what the log says, all of it written anew; then the
\* live one is opened for the checkpoint.
RebuildCatchUp ==
    /\ job = Idle
    /\ version < MaxVersions
    /\ version' = version + 1
    /\ LET d == Connect(disk) IN
       /\ disk' = d
       /\ job' = [Idle EXCEPT !.role = "rebuild", !.pc = "checkpoint", !.side = d.side,
                              !.content = [p \in Pages |-> Value(version + 1, FALSE)]]
    /\ UNCHANGED <<reader, staged, undurable, truth, past, split, faults>>

RebuildCheckpoint ==
    /\ Holds("rebuild", "checkpoint")
    /\ ~Busy(disk, job.side)
    /\ disk' = Truncate(disk, job.side)
    /\ job' = [job EXCEPT !.pc = "verify"]
    /\ UNCHANGED <<reader, split>> /\ Untouched

\* The last attempt aborts: nothing was renamed or unlinked.
RebuildBusy ==
    /\ Holds("rebuild", "checkpoint")
    /\ Busy(disk, job.side)
    /\ IF job.tries + 1 < Attempts
       THEN job' = [job EXCEPT !.tries = @ + 1] /\ UNCHANGED disk
       ELSE job' = Idle /\ disk' = CloseJob(disk, job.side)
    /\ UNCHANGED <<reader, split>> /\ Untouched

Drained(d) == d.side = NoSide \/ d.wal[d.side] = <<>>

\* The live connection is dropped before the rename, whether the swap goes on
\* or not.
RebuildVerify ==
    /\ Holds("rebuild", "verify")
    /\ disk' = CloseJob(disk, job.side)
    /\ job' = IF Drained(disk) THEN [job EXCEPT !.pc = "rename", !.side = NoSide] ELSE Idle
    /\ UNCHANGED <<reader, split>> /\ Untouched

RebuildRename ==
    /\ Holds("rebuild", "rename")
    /\ Install(job.content, job.content["rows"].at, job.content)
    /\ job' = [job EXCEPT !.pc = "unlink"]
    /\ UNCHANGED <<reader, staged, version, split, faults>>

RebuildUnlink ==
    /\ Holds("rebuild", "unlink")
    /\ UnlinkSidecars
    /\ job' = [job EXCEPT !.pc = "sync"]
    /\ Untouched

RebuildSync ==
    /\ Holds("rebuild", "sync")
    /\ undurable' = None
    /\ job' = Idle
    /\ UNCHANGED <<disk, reader, staged, version, truth, past, split, faults>>

-----------------------------------------------------------------------------
(* kb migrate-embeddings, in one hold of the lock.                         *)

Migrating(pc, aim) ==
    [Idle EXCEPT !.role = "migration", !.pc = pc, !.aim = aim]

Pending(content) == content["vectors"].legacy

\* recover_ready_stage: a recovery state without a copy was published, or never
\* will be; a copy without a state is of no use.
MigrateStart ==
    /\ job = Idle
    /\ LET published == staged.source # None /\ staged.copy = None
           d == Connect(disk)
       IN
       /\ disk' = IF published THEN CloseJob(d, d.side) ELSE disk
       /\ staged' = IF staged.source # None /\ staged.copy # None THEN staged ELSE NoStage
       /\ job' = IF published /\ ~Pending(FreshView(d)) THEN Idle
                 ELSE Migrating("checkpoint", IF staged' = NoStage THEN "stage" ELSE "resume")
    /\ UNCHANGED <<reader, undurable, version, truth, past, split, faults>>

\* checkpoint_database of the live database: drain, close, unlink, digest.
MigrateCheckpoint ==
    /\ Holds("migration", "checkpoint")
    /\ LET d == Connect(disk) IN
       /\ disk' = IF Busy(d, d.side) THEN CloseJob(d, d.side)
                  ELSE CloseJob(Truncate(d, d.side), d.side)
       /\ job' = IF Busy(d, d.side) THEN Idle ELSE [job EXCEPT !.pc = "unlink"]
    /\ UNCHANGED <<reader, split>> /\ Untouched

MigrateUnlink ==
    /\ Holds("migration", "unlink")
    /\ UnlinkSidecars
    /\ job' = [job EXCEPT !.pc = job.aim]
    /\ Untouched

Digest == disk.file[disk.name]

\* Mutant: the copy is published whatever was written since it was made.
AsGood(source) == TRUE

\* The copy is published only if it was made of the database as it is.
Unchanged(source) == Digest = source

MigrateResume ==
    /\ Holds("migration", "resume")
    /\ staged' = IF Unchanged(staged.source) THEN staged ELSE NoStage
    /\ job' = Migrating("checkpoint", IF Unchanged(staged.source) THEN "publish" ELSE "stage")
    /\ UNCHANGED <<disk, reader, undurable, version, truth, past, split, faults>>

\* The copy is made, migrated and verified before its state is written.
MigrateStage ==
    /\ Holds("migration", "stage")
    /\ LET d == Connect(disk) IN
       /\ disk' = CloseJob(d, d.side)
       /\ IF Pending(FreshView(d))
          THEN /\ version < MaxVersions
               /\ version' = version + 1
               /\ staged' = [NoStage EXCEPT !.copy =
                     [FreshView(d) EXCEPT !["vectors"] = Value(version + 1, FALSE)]]
               /\ job' = [Migrating("ready", "publish") EXCEPT !.content = Digest]
          ELSE job' = Idle /\ UNCHANGED <<version, staged>>
    /\ UNCHANGED <<reader, undurable, truth, past, split, faults>>

\* An embedding of the old format that is corrupt: the copy is thrown away.
MigrateFails ==
    /\ Holds("migration", "stage")
    /\ LET d == Connect(disk) IN
       /\ Pending(FreshView(d))
       /\ disk' = CloseJob(d, d.side)
    /\ job' = Idle
    /\ UNCHANGED <<reader, split>> /\ Untouched

MigrateReady ==
    /\ Holds("migration", "ready")
    /\ staged' = [staged EXCEPT !.source = job.content]
    /\ job' = Migrating("checkpoint", "publish")
    /\ UNCHANGED <<disk, reader, undurable, version, truth, past, split, faults>>

MigratePublish ==
    /\ Holds("migration", "publish")
    /\ Unchanged(staged.source)
    /\ LET copy == staged.copy["vectors"] IN
       Install(staged.copy, copy.at,
               [truth EXCEPT !["vectors"] = IF @.at < copy.at THEN copy ELSE @])
    /\ staged' = [staged EXCEPT !.copy = None]
    /\ job' = [job EXCEPT !.pc = "sync"]
    /\ UNCHANGED <<reader, version, split, faults>>

MigrateSync ==
    /\ Holds("migration", "sync")
    /\ undurable' = None
    /\ staged' = NoStage
    /\ job' = Idle
    /\ UNCHANGED <<disk, reader, version, truth, past, split, faults>>

-----------------------------------------------------------------------------
(* Faults.                                                                 *)

KillJob ==
    /\ faults < MaxFaults /\ faults' = faults + 1
    /\ job # Idle
    /\ job' = Idle
    /\ UNCHANGED <<disk, reader, staged, undurable, version, truth, past, split>>

KillReader(r) ==
    /\ faults < MaxFaults /\ faults' = faults + 1
    /\ Connected(r)
    /\ reader' = [reader EXCEPT ![r] = Closed]
    /\ UNCHANGED <<disk, job, staged, undurable, version, truth, past, split>>

\* A rename whose directory is not synced may be lost, and the unlinks after it.
PowerLoss ==
    /\ faults < MaxFaults /\ faults' = faults + 1
    /\ job' = Idle
    /\ reader' = [r \in Readers |-> Closed]
    /\ undurable' = None
    /\ \/ UNCHANGED <<disk, staged, truth>>
       \/ /\ undurable # None
          /\ disk' = [disk EXCEPT !.name = undurable.name]
          /\ staged' = [staged EXCEPT !.copy = undurable.copy]
          /\ truth' = undurable.truth
    /\ UNCHANGED <<version, past, split>>

-----------------------------------------------------------------------------

Next ==
    \/ \E r \in Readers : ReaderOpen(r) \/ ReaderBegin(r) \/ ReaderEnd(r)
                          \/ ReaderClose(r) \/ KillReader(r)
    \/ \E pages \in SUBSET Pages : WriterCommit(pages)
    \/ AutoCheckpoint \/ WriterClose \/ WriterCloseDeferred
    \/ \E passive \in BOOLEAN : DrainWal(passive)
    \/ RebuildCatchUp \/ RebuildCheckpoint \/ RebuildBusy \/ RebuildVerify
    \/ RebuildRename \/ RebuildUnlink \/ RebuildSync
    \/ MigrateStart \/ MigrateCheckpoint \/ MigrateUnlink \/ MigrateResume
    \/ MigrateStage \/ MigrateFails \/ MigrateReady \/ MigratePublish \/ MigrateSync
    \/ KillJob \/ PowerLoss

Spec == Init /\ [][Next]_vars

-----------------------------------------------------------------------------
(* Properties.                                                             *)

\* Whoever opens the database by its name, at any moment and after any kill or power
\* loss, finds one state that was committed, and it is the last one: a rebuild and a
\* migration, resumed after a kill or not, lose no transaction, never leave frames of
\* the old log beside the new file, and an aborted one changes nothing.  Only where
\* sidecars were unlinked under a connection to a file that stays (split) may a
\* transaction be lost later: that connection's close unlinks the log of others.
CommittedStays ==
    /\ FreshView(disk) \in past
    /\ ~split => FreshView(disk) = truth

\* A query sees one state of one database, whatever is swapped, checkpointed or
\* unlinked while it runs, unless its connection is astray: it read nothing before
\* its file was replaced, its sidecars were unlinked while its file stays, or the
\* writers of the new file share them.
ReadsOneState ==
    \A r \in Readers :
        reader[r].at = "reading" /\ ~reader[r].stray =>
            [View(disk, reader[r].file, reader[r].side, reader[r].mark)
                EXCEPT !["rows"] = reader[r].rows] \in past
=============================================================================
