---------------------------- MODULE KbDurability ----------------------------
(***************************************************************************)
(* How kb processes keep an append-only event log and a SQLite             *)
(* materialization of it in agreement: the write path (log first, then     *)
(* database and cursor in one transaction), recovery (tail replay with     *)
(* poison quarantine, full rebuild), manual rebuild, and compaction, over  *)
(* one repository lock; with kills, power loss and a deleted database.     *)
(*                                                                         *)
(* Everything a lock holder does to its own scratch state before the next  *)
(* durable effect is one action: no other process can see it.              *)
(***************************************************************************)
EXTENDS KbStore

CONSTANTS
    Procs,         \* kb processes (CLI invocations, MCP port servers)
    NoProc,        \* a free lock
    NoEmbed,       \* processes running with KB_NO_EMBED
    MaxAttempts,   \* MAX_ATTEMPTS of Rebuild::execute_with
    InitialLogs,   \* logs written before the cursor existed
    BadFlags,      \* which values of `bad` writers produce
    Faults,        \* which faults the environment injects
    MaxFaults,     \* bound on how many
    MaxEvents,     \* bound on events ever written
    MaxBatch,      \* bound on the events of a batch
    MaxGen         \* bound on the log generation (compactions)

ASSUME DurabilityAssumption ==
    /\ NoProc \notin Procs
    /\ NoEmbed \subseteq Procs
    /\ MaxAttempts \in Nat \ {0}
    /\ InitialLogs \subseteq Seq(Event)
    /\ \A s \in InitialLogs : \A i \in DOMAIN s : s[i].id = i
    /\ BadFlags \subseteq BOOLEAN
    /\ Faults \subseteq {"kill", "power", "rmdb", "sync", "transient", "busy"}
    /\ MaxFaults \in Nat /\ MaxEvents \in Nat /\ MaxBatch \in Nat /\ MaxGen \in Nat

VARIABLES
    log,      \* committed events of the log file, as every process reads them
    gen,      \* the .generation sidecar
    ledger,   \* the .deadletter sidecar: failed apply attempts per event id
    db,       \* the database file
    disk,     \* what a power loss would leave of log and db
    pending,  \* files renamed into place whose directory is not synced yet
    lock,     \* holder of paths.lock
    flight,   \* holder of schema-upgrade.lock
    proc,     \* per process: program counter and local variables
    nextId,   \* id the next written event gets
    faults,   \* faults injected so far
    acked,    \* ghost: events of commands that reported success
    history   \* ghost: the log as it would be had it never been compacted

vars == <<log, gen, ledger, db, disk, pending, lock, flight, proc, nextId,
          faults, acked, history>>

fileVars == <<log, gen, ledger, disk, pending>>
ghostVars == <<acked, history>>

PCs == {"idle", "inspectCursor", "inspectLog", "replay", "replaying", "flight",
        "recheck", "coverage", "snapshot", "scratch", "catchup", "swap", "swapSync",
        "write", "sync", "apply", "compact", "rename", "renameSync"}

Commands == {"write", "compact", "recover", "rebuild"}

\* Local state of a process: the command it runs, the cursor its lock-free
\* inspection read, the batch it writes, and a rebuild's snapshot, scratch
\* rows and attempt number.
Local == [pc : PCs, cmd : Commands, seen : Cursor \cup {NoCursor},
          batch : Seq(Event), snap : Seq(Event), tmp : Rows, tries : Nat]

Disk == [log : Seq(Event), db : Database, history : Seq(Event)]

Resting == [pc |-> "idle", cmd |-> "recover", seen |-> NoCursor,
            batch |-> <<>>, snap |-> <<>>, tmp |-> EmptyRows, tries |-> 0]

Quarantined == {i \in DOMAIN ledger : ledger[i] >= PoisonAttempts}

TransientPossible == "transient" \in Faults /\ faults < MaxFaults

-----------------------------------------------------------------------------
(* Building blocks.                                                        *)

At(p, label) == proc[p].pc = label

Become(p, local) == proc' = [proc EXCEPT ![p] = local]

Goto(p, label) == Become(p, [proc[p] EXCEPT !.pc = label])

\* The command is over, or gave up with an error.
Stop(p) == Become(p, Resting)

\* Recovery is over: the command goes on to its own write, if it has one.
Proceed(p) ==
    Become(p, IF proc[p].cmd \in {"write", "compact"}
              THEN [Resting EXCEPT !.pc = proc[p].cmd, !.cmd = proc[p].cmd]
              ELSE Resting)

Acquire(p) == lock = NoProc /\ lock' = p

Release(p) == lock = p /\ lock' = NoProc

\* The lock is taken and given back within the action.
Locked == lock = NoProc /\ UNCHANGED lock

LeaveFlight(p) == flight' = IF flight = p THEN NoProc ELSE flight

\* The directory of the log, its sidecars and the database is synced, with d
\* the database file it then names.
DirSynced(d) ==
    /\ pending' = {}
    /\ disk' = [log |-> IF "log" \in pending THEN log ELSE disk.log,
                db |-> d,
                history |-> IF "log" \in pending THEN history ELSE disk.history]

SyncDir == DirSynced(IF "db" \in pending THEN db ELSE disk.db)

\* A SQLite transaction makes the database d (synchronous=FULL).  Every
\* connection is opened for one hold of the lock, and the first sync of its
\* write-ahead log syncs the directory, too.
Commit(d) == db' = d /\ DirSynced(d)

\* A transaction that may have nothing to write.
Settle(d) == IF d = db THEN UNCHANGED <<db, disk, pending>> ELSE Commit(d)

Fault(kind) ==
    /\ kind \in Faults
    /\ faults < MaxFaults
    /\ faults' = faults + 1

-----------------------------------------------------------------------------

Init ==
    /\ log \in {<<>>} \cup InitialLogs
    /\ gen = 0
    /\ ledger = [i \in 1 .. MaxEvents |-> 0]
    \* No database yet; one of a binary that predates the cursor; one of a binary
    \* that has the cursor and an older schema; or one that was just initialized, by a
    \* process that then created the log, wrote its events and was killed before it
    \* synced the log and its directory, as only the creator of a log does.
    /\ \/ db = NoDb
       \/ db = FreshDb
       \/ db = [exists |-> TRUE, rows |-> Materialize(log, BadIds(log)),
                cur |-> NoCursor, stamp |-> FALSE]
       \/ /\ BadIds(log) = {}
          /\ db = [exists |-> TRUE, rows |-> Materialize(log, {}),
                   cur |-> CursorAt(0, log, Len(log)), stamp |-> FALSE]
    /\ pending = IF db = FreshDb THEN {"log"} ELSE {}
    /\ LET durable == IF db = FreshDb THEN <<>> ELSE log
       IN disk = [log |-> durable, db |-> db, history |-> durable]
    /\ lock = NoProc
    /\ flight = NoProc
    /\ proc = [p \in Procs |-> Resting]
    /\ nextId = Len(log) + 1
    /\ faults = 0
    /\ acked = {}
    /\ history = log

-----------------------------------------------------------------------------
(* Entering a command.  Commands that may write initialize the database    *)
(* and run recovery first; `kb rebuild` does not.                          *)

\* EntryPoint::run -> open_or_init -> init_locked.
Begin(p, c) ==
    /\ At(p, "idle")
    /\ c = "write" => nextId <= MaxEvents
    /\ c = "compact" => gen < MaxGen
    /\ Locked
    /\ Settle(OpenRw(db))
    /\ Become(p, [Resting EXCEPT !.pc = "inspectCursor", !.cmd = c])
    /\ UNCHANGED <<log, gen, ledger, flight, nextId, faults, ghostVars>>

BeginRebuild(p) ==
    /\ At(p, "idle")
    /\ Become(p, [Resting EXCEPT !.pc = "snapshot", !.cmd = "rebuild", !.tries = 1])
    /\ UNCHANGED <<fileVars, db, lock, flight, nextId, faults, ghostVars>>

-----------------------------------------------------------------------------
(* recover_if_needed.  The inspection takes no lock: it reads the cursor,  *)
(* then the log and its generation, and may act on neither.                *)

InspectCursor(p) ==
    /\ At(p, "inspectCursor")
    /\ IF db.exists
       THEN Become(p, [proc[p] EXCEPT !.pc = "inspectLog", !.seen = db.cur])
       ELSE Proceed(p)
    /\ UNCHANGED <<fileVars, db, lock, flight, nextId, faults, ghostVars>>

InspectLog(p) ==
    /\ At(p, "inspectLog")
    /\ LET decision == Inspect(proc[p].seen, db.stamp, log, gen)
       IN  \/ decision = "NoOp" /\ Proceed(p)
           \/ decision = "ReplayTail" /\ Goto(p, "replay")
           \/ decision \in FullRebuild /\ Goto(p, "flight")
    /\ UNCHANGED <<fileVars, db, lock, flight, nextId, faults, ghostVars>>

ReplayLock(p) ==
    /\ At(p, "replay")
    /\ Acquire(p)
    /\ Settle(OpenRw(db))
    /\ Goto(p, "replaying")
    /\ UNCHANGED <<log, gen, ledger, flight, nextId, faults, ghostVars>>

\* replay_tail_locked reads the cursor again, but does not classify again: the
\* log may have been rewritten since the inspection.  That it finds a cursor is
\* checked here as the absence of deadlock (the code bails out without one).
Unapplied == SubSeq(log, db.cur.off + 1, Len(log))

\* Nothing past the cursor; or the offset, taken in a log that has been
\* rewritten since, is not a record boundary of this one (LogUnreadable).
ReplayNothing(p) ==
    /\ At(p, "replaying")
    /\ db.cur # NoCursor
    /\ Unapplied = <<>> \/ (db.cur.gen # gen /\ db.cur.off > 0)
    /\ Release(p)
    /\ Proceed(p)
    /\ UNCHANGED <<fileVars, db, flight, nextId, faults, ghostVars>>

ReplayCommit(p) ==
    /\ At(p, "replaying")
    /\ db.cur # NoCursor
    /\ Unapplied # <<>>
    /\ Digestible(Unapplied, Quarantined)
    /\ Commit([db EXCEPT !.rows = ApplyAll(db.rows, Unapplied, Quarantined),
                         !.cur = CursorAt(gen, log, Len(log))])
    /\ Release(p)
    /\ Proceed(p)
    /\ UNCHANGED <<log, gen, ledger, flight, nextId, faults, ghostVars>>

\* The transaction is rolled back, the failure counted durably against the
\* event, and the next round starts.
ReplayFail(p) ==
    /\ At(p, "replaying")
    /\ db.cur # NoCursor
    /\ \E i \in Failing(Unapplied, Quarantined, TransientPossible) :
          LET e == Unapplied[i]
          IN  /\ ledger' = [ledger EXCEPT ![e.id] = @ + 1]
              /\ faults' = IF e.bad THEN faults ELSE faults + 1
    /\ SyncDir
    /\ UNCHANGED <<log, gen, db, lock, flight, proc, nextId, ghostVars>>

\* full_rebuild_for: single flight, then classify again under the lock.
FlightLock(p) ==
    /\ At(p, "flight")
    /\ flight = NoProc
    /\ flight' = p
    /\ Goto(p, "recheck")
    /\ UNCHANGED <<fileVars, db, lock, nextId, faults, ghostVars>>

Decision(d) == Inspect(d.cur, d.stamp, log, gen)

\* Mutant: the empty database is stamped but given no cursor.
RecheckStampOnly(p) ==
    /\ At(p, "recheck")
    /\ Locked
    /\ LET d == OpenRw(db)
       IN  \/ Decision(d) \notin FullRebuild /\ Settle(d)
           \/ /\ Decision(d) \in FullRebuild
              /\ log = <<>>
              /\ Settle(IF d.rows = EmptyRows THEN [d EXCEPT !.stamp = TRUE] ELSE d)
    /\ LeaveFlight(p)
    /\ Proceed(p)
    /\ UNCHANGED <<log, gen, ledger, nextId, faults, ghostVars>>

\* The winner of the race has done it; or there are no events: a database
\* without entries is declared current, one with entries is left alone.
RecheckDone(p) ==
    /\ At(p, "recheck")
    /\ Locked
    /\ LET d == OpenRw(db)
       IN  \/ Decision(d) \notin FullRebuild /\ Settle(d)
           \/ /\ Decision(d) \in FullRebuild
              /\ log = <<>>
              /\ Settle(IF d.rows = EmptyRows
                        THEN [d EXCEPT !.stamp = TRUE, !.cur = CursorAt(gen, log, 0)]
                        ELSE d)
    /\ LeaveFlight(p)
    /\ Proceed(p)
    /\ UNCHANGED <<log, gen, ledger, nextId, faults, ghostVars>>

RecheckGoOn(p) ==
    /\ At(p, "recheck")
    /\ Locked
    /\ Decision(OpenRw(db)) \in FullRebuild
    /\ log # <<>>
    /\ Settle(OpenRw(db))
    /\ Goto(p, "coverage")
    /\ UNCHANGED <<log, gen, ledger, flight, nextId, faults, ghostVars>>

\* The guards of the automatic rebuild, read without the lock: every live entry
\* is mentioned by the log, and the process can embed.  The backup then written
\* beside the database is read by nobody and left out.
Covered == \A k \in Keys : db.rows[k] \notin {NoRow, Stale} =>
              \E i \in DOMAIN log : log[i].key = k /\ log[i].op = "upsert"

CoverageGoOn(p) ==
    /\ At(p, "coverage")
    /\ db.exists
    /\ Covered
    /\ p \notin NoEmbed
    /\ Become(p, [proc[p] EXCEPT !.pc = "snapshot", !.tries = 1])
    /\ UNCHANGED <<fileVars, db, lock, flight, nextId, faults, ghostVars>>

CoverageDefer(p) ==
    /\ At(p, "coverage")
    /\ ~db.exists \/ ~Covered \/ p \in NoEmbed
    /\ LeaveFlight(p)
    /\ IF db.exists THEN Proceed(p) ELSE Stop(p)
    /\ UNCHANGED <<fileVars, db, lock, nextId, faults, ghostVars>>

-----------------------------------------------------------------------------
(* Rebuild::execute_with: snapshot under the lock, replay without it,      *)
(* catch up and swap under it again.                                       *)

Snapshot(p) ==
    /\ At(p, "snapshot")
    /\ Locked
    /\ Settle(OpenRw(db))
    /\ Become(p, [proc[p] EXCEPT !.pc = "scratch", !.snap = log])
    /\ UNCHANGED <<log, gen, ledger, flight, nextId, faults, ghostVars>>

\* Any failed apply aborts the rebuild; it is not counted in the ledger.  Some
\* commands fail with it, others warn and go on to the gate of their own write.
AbortRebuild(p) ==
    /\ LeaveFlight(p)
    /\ Stop(p) \/ Proceed(p)

\* The snapshot is byte for byte the beginning of the log.
PrefixMatches(p) ==
    /\ Len(proc[p].snap) <= Len(log)
    /\ Prefix(log, Len(proc[p].snap)) = proc[p].snap

\* Phase 2 reads the log as it is now, as far as the snapshot reached.
ScratchSource(p) ==
    Prefix(log, IF Len(proc[p].snap) <= Len(log) THEN Len(proc[p].snap) ELSE Len(log))

Scratch(p) ==
    /\ At(p, "scratch")
    /\ Digestible(ScratchSource(p), Quarantined)
    /\ Become(p, [proc[p] EXCEPT !.pc = "catchup",
                                 !.tmp = Materialize(ScratchSource(p), Quarantined)])
    /\ UNCHANGED <<fileVars, db, lock, flight, nextId, faults, ghostVars>>

\* An event fails; or the snapshot's length is no record boundary of a log
\* rewritten since.
ScratchFail(p) ==
    /\ At(p, "scratch")
    /\ \/ /\ Failing(ScratchSource(p), Quarantined, FALSE) # {}
          /\ UNCHANGED faults
       \/ /\ ~PrefixMatches(p)
          /\ UNCHANGED faults
       \/ /\ Failing(ScratchSource(p), Quarantined, TRUE) # {}
          /\ Fault("transient")
    /\ AbortRebuild(p)
    /\ UNCHANGED <<fileVars, db, lock, nextId, ghostVars>>

\* Mutant: what was appended during the replay is left out of the swap.
NoCatchupEvents(p) == <<>>

CatchupEvents(p) == SubSeq(log, Len(proc[p].snap) + 1, Len(log))

\* The snapshot is no longer a prefix of the log: start over, a few times.
Restart(p) ==
    /\ At(p, "catchup")
    /\ Locked
    /\ ~PrefixMatches(p)
    /\ IF proc[p].tries < MaxAttempts
       THEN /\ Become(p, [proc[p] EXCEPT !.pc = "snapshot", !.tries = @ + 1,
                                         !.snap = <<>>, !.tmp = EmptyRows])
            /\ UNCHANGED flight
       ELSE AbortRebuild(p)
    /\ UNCHANGED <<fileVars, db, nextId, faults, ghostVars>>

\* Phase 3 applies what was appended since, with the ledger as it is now.
Catchup(p) ==
    /\ At(p, "catchup")
    /\ PrefixMatches(p)
    /\ Digestible(CatchupEvents(p), Quarantined)
    /\ Acquire(p)
    /\ Become(p, [proc[p] EXCEPT !.pc = "swap",
                                 !.tmp = ApplyAll(@, CatchupEvents(p), Quarantined)])
    /\ UNCHANGED <<fileVars, db, flight, nextId, faults, ghostVars>>

CatchupFail(p) ==
    /\ At(p, "catchup")
    /\ PrefixMatches(p)
    /\ Locked
    /\ \/ /\ Failing(CatchupEvents(p), Quarantined, FALSE) # {}
          /\ UNCHANGED faults
       \/ /\ Failing(CatchupEvents(p), Quarantined, TRUE) # {}
          /\ Fault("transient")
    /\ AbortRebuild(p)
    /\ UNCHANGED <<fileVars, db, nextId, ghostVars>>

\* The live WAL could not be drained: nothing was renamed.
SwapBusy(p) ==
    /\ At(p, "swap")
    /\ Fault("busy")
    /\ Release(p)
    /\ AbortRebuild(p)
    /\ UNCHANGED <<fileVars, db, nextId, ghostVars>>

\* The scratch database, its cursor at the end of the log, replaces the live one.
Swap(p) ==
    /\ At(p, "swap")
    /\ db' = [exists |-> TRUE, rows |-> proc[p].tmp,
              cur |-> CursorAt(gen, log, Len(log)), stamp |-> TRUE]
    /\ pending' = pending \cup {"db"}
    /\ Goto(p, "swapSync")
    /\ UNCHANGED <<log, gen, ledger, disk, lock, flight, nextId, faults, ghostVars>>

SwapSync(p) ==
    /\ At(p, "swapSync")
    /\ SyncDir
    /\ Release(p)
    /\ LeaveFlight(p)
    /\ Proceed(p)
    /\ UNCHANGED <<log, gen, ledger, db, nextId, faults, ghostVars>>

SwapSyncFail(p) ==
    /\ At(p, "swapSync")
    /\ Fault("sync")
    /\ Release(p)
    /\ AbortRebuild(p)
    /\ UNCHANGED <<fileVars, db, nextId, ghostVars>>

-----------------------------------------------------------------------------
(* append_and_apply: refuse unless converged, append, sync, then apply and *)
(* advance the cursor in one transaction.                                  *)

WriteRefuse(p) ==
    /\ At(p, "write")
    /\ Locked
    /\ Settle(OpenRw(db))
    /\ BlocksWrites(Decision(OpenRw(db)))
    /\ Stop(p)
    /\ UNCHANGED <<log, gen, ledger, flight, nextId, faults, ghostVars>>

\* The command ends before its append: its own checks refuse, it has no events
\* to write, or their embeddings, computed before anything is written, fail.
WriteNothing(p) ==
    /\ At(p, "write")
    /\ Locked
    /\ Settle(OpenRw(db))
    /\ Stop(p)
    /\ UNCHANGED <<log, gen, ledger, flight, nextId, faults, ghostVars>>

Batches ==
    UNION {{b \in [1 .. n -> [id : nextId .. nextId + n - 1, key : Keys,
                              op : {"upsert", "expire"}, bad : BadFlags]] :
              \A i \in 1 .. n : b[i].id = nextId + i - 1} :
           n \in 1 .. (IF MaxBatch <= MaxEvents + 1 - nextId
                      THEN MaxBatch ELSE MaxEvents + 1 - nextId)}

AppendBatch(p) ==
    /\ At(p, "write")
    /\ Acquire(p)
    /\ Settle(OpenRw(db))
    /\ ~BlocksWrites(Decision(OpenRw(db)))
    /\ \E batch \in Batches :
          /\ log' = log \o batch
          /\ history' = history \o batch
          /\ nextId' = nextId + Len(batch)
          /\ Become(p, [proc[p] EXCEPT !.pc = "sync", !.batch = batch])
    /\ UNCHANGED <<gen, ledger, flight, faults, acked>>

\* Mutant: the batch is applied before it is durable.
SyncLogSkipped(p) ==
    /\ At(p, "sync")
    /\ Goto(p, "apply")
    /\ UNCHANGED <<fileVars, db, lock, flight, nextId, faults, ghostVars>>

SyncLog(p) ==
    /\ At(p, "sync")
    /\ disk' = IF "log" \in pending THEN disk
               ELSE [disk EXCEPT !.log = log, !.history = history]
    /\ Goto(p, "apply")
    /\ UNCHANGED <<log, gen, ledger, db, pending, lock, flight, nextId, faults, ghostVars>>

\* The command reports an error, and the batch stays in the log.
SyncLogFail(p) ==
    /\ At(p, "sync")
    /\ Fault("sync")
    /\ Release(p)
    /\ Stop(p)
    /\ UNCHANGED <<fileVars, db, flight, nextId, ghostVars>>

ApplyBatch(p) ==
    /\ At(p, "apply")
    /\ Digestible(proc[p].batch, {})
    /\ Commit([db EXCEPT !.rows = ApplyAll(db.rows, proc[p].batch, {}),
                         !.cur = CursorAt(gen, log, Len(log))])
    /\ acked' = acked \cup EventIds(proc[p].batch)
    /\ Release(p)
    /\ Stop(p)
    /\ UNCHANGED <<log, gen, ledger, flight, nextId, faults, history>>

\* Rolled back: the batch is durable in the log and the database is behind it.
ApplyBatchFail(p) ==
    /\ At(p, "apply")
    /\ \/ Failing(proc[p].batch, {}, FALSE) # {} /\ UNCHANGED faults
       \/ Failing(proc[p].batch, {}, TRUE) # {} /\ Fault("transient")
    /\ Release(p)
    /\ Stop(p)
    /\ UNCHANGED <<fileVars, db, flight, nextId, ghostVars>>

-----------------------------------------------------------------------------
(* Compact::execute: the gate of a write, unless there is no database; the *)
(* generation is bumped before the rewritten log is renamed into place.    *)

\* Not converged, or no compaction left within the bound.
CompactRefuse(p) ==
    /\ At(p, "compact")
    /\ Locked
    /\ (db.exists /\ BlocksWrites(Decision(db))) \/ gen = MaxGen
    /\ Stop(p)
    /\ UNCHANGED <<fileVars, db, flight, nextId, faults, ghostVars>>

CompactBump(p) ==
    /\ At(p, "compact")
    /\ Acquire(p)
    /\ db.exists => ~BlocksWrites(Decision(db))
    /\ gen < MaxGen
    /\ gen' = gen + 1
    /\ SyncDir
    /\ Goto(p, "rename")
    /\ UNCHANGED <<log, ledger, db, flight, nextId, faults, ghostVars>>

CompactRename(p) ==
    /\ At(p, "rename")
    /\ log' \in Compacted(log)
    /\ pending' = pending \cup {"log"}
    /\ Goto(p, "renameSync")
    /\ UNCHANGED <<gen, ledger, db, disk, lock, flight, nextId, faults, ghostVars>>

CompactSync(p) ==
    /\ At(p, "renameSync")
    /\ SyncDir
    /\ Release(p)
    /\ Stop(p)
    /\ UNCHANGED <<log, gen, ledger, db, flight, nextId, faults, ghostVars>>

\* The renamed log stays, its directory entry not synced until somebody else's
\* commit, compaction or ledger entry syncs the directory.
CompactSyncFail(p) ==
    /\ At(p, "renameSync")
    /\ Fault("sync")
    /\ Release(p)
    /\ Stop(p)
    /\ UNCHANGED <<fileVars, db, flight, nextId, ghostVars>>

-----------------------------------------------------------------------------
(* The environment.                                                        *)

\* SIGKILL anywhere: flock locks die with the process, files stay as they are.
Kill(p) ==
    /\ ~At(p, "idle")
    /\ Fault("kill")
    /\ lock' = IF lock = p THEN NoProc ELSE lock
    /\ LeaveFlight(p)
    /\ Stop(p)
    /\ UNCHANGED <<fileVars, db, nextId, ghostVars>>

\* Every process dies, and each file is as the page cache or as the disk has it.
PowerLoss ==
    /\ Fault("power")
    /\ proc' = [p \in Procs |-> Resting]
    /\ lock' = NoProc
    /\ flight' = NoProc
    /\ pending' = {}
    /\ \/ log' = log /\ history' = history
       \/ log' = disk.log /\ history' = disk.history
    /\ db' \in {db, disk.db}
    /\ disk' = [log |-> log', db |-> db', history |-> history']
    /\ UNCHANGED <<gen, ledger, nextId, acked>>

\* The operator deletes agent-kb.db (it can be rebuilt), not under a writer.
RemoveDb ==
    /\ db.exists
    /\ Locked
    /\ Fault("rmdb")
    /\ db' = NoDb
    /\ pending' = pending \cup {"db"}
    /\ UNCHANGED <<log, gen, ledger, disk, flight, proc, nextId, ghostVars>>

Recovery(p) ==
    \/ InspectCursor(p) \/ InspectLog(p)
    \/ ReplayLock(p) \/ ReplayNothing(p) \/ ReplayCommit(p) \/ ReplayFail(p)
    \/ FlightLock(p) \/ RecheckDone(p) \/ RecheckGoOn(p)
    \/ CoverageGoOn(p) \/ CoverageDefer(p)

RebuildStep(p) ==
    \/ Snapshot(p) \/ Scratch(p) \/ ScratchFail(p)
    \/ Restart(p) \/ Catchup(p) \/ CatchupFail(p)
    \/ SwapBusy(p) \/ Swap(p) \/ SwapSync(p) \/ SwapSyncFail(p)

Write(p) ==
    \/ WriteRefuse(p) \/ WriteNothing(p)
    \/ AppendBatch(p) \/ SyncLog(p) \/ SyncLogFail(p) \/ ApplyBatch(p) \/ ApplyBatchFail(p)

Compact(p) ==
    \/ CompactRefuse(p) \/ CompactBump(p) \/ CompactRename(p) \/ CompactSync(p)
    \/ CompactSyncFail(p)

Next ==
    \/ \E p \in Procs :
          \/ \E c \in {"write", "compact", "recover"} : Begin(p, c)
          \/ BeginRebuild(p)
          \/ Recovery(p) \/ RebuildStep(p) \/ Write(p) \/ Compact(p)
          \/ Kill(p)
    \/ PowerLoss
    \/ RemoveDb

Spec == Init /\ [][Next]_vars

-----------------------------------------------------------------------------
(* Properties.                                                             *)

TypeOK ==
    /\ log \in Seq(Event)
    /\ gen \in Nat
    /\ ledger \in [1 .. MaxEvents -> Nat]
    /\ db \in Database
    /\ disk \in Disk
    /\ pending \subseteq {"log", "db"}
    /\ lock \in Procs \cup {NoProc}
    /\ flight \in Procs \cup {NoProc}
    /\ proc \in [Procs -> Local]
    /\ nextId \in Nat \ {0}
    /\ faults \in Nat
    /\ acked \subseteq Nat
    /\ history \in Seq(Event)

\* A cursor that inspect accepts is the truth: the rows are what the log up to
\* the cursor materializes, but for events recovery has given up on.  A tail
\* replay, a rebuild or a write that ran on a stale reading of cursor, log or
\* generation would stamp a cursor over rows that are not this.
CursorIsTruth ==
    db.exists /\ Accepts(Decision(db)) =>
        \E given \in SUBSET Quarantined :
            db.rows = Materialize(Prefix(log, db.cur.off), given)

\* What a command reported as done is in the history, whatever processes were
\* killed, syncs failed, files lost their names or power was lost since.
AckedSurvives == acked \subseteq EventIds(history)

\* The log still says, of every entry, what the uncompacted log would say:
\* no compaction, crash inside one, or power loss after one changes it.
LogTellsHistory ==
    Visible(Materialize(log, {})) = Visible(Materialize(history, {}))

\* Row r of entry k is no older than event n about k.
Reflects(r, k, n) ==
    \E i \in DOMAIN history :
        /\ history[i].key = k /\ history[i].id >= n
        /\ IF history[i].op = "upsert" THEN r = history[i].id ELSE r \in {NoRow, Stale}

AckedOn(k) == {i \in acked : \E j \in DOMAIN history : history[j].id = i /\ history[j].key = k}

\* No step of the program takes back a write that a command acknowledged and
\* the database showed: a rebuild swaps in what was written during its replay,
\* and a tail replay never re-applies what a later write overrode.
NoAckedRowTakenBack ==
    [][faults' = faults /\ db.exists /\ db'.exists =>
        \A k \in Keys : \A n \in AckedOn(k) :
            Reflects(db.rows[k], k, n) => Reflects(db'.rows[k], k, n)]_vars

-----------------------------------------------------------------------------
(* The abstract store this one implements, as long as no event is          *)
(* undigestible: what a search sees is the database's non-stale rows.      *)

Promise == INSTANCE DurableKb WITH shown <- Visible(db.rows),
                                   kept <- Visible(disk.db.rows)

\* Whatever makes or changes the rows a search sees, compactions and crashes
\* included, leaves in them one complete prefix of the history as it then is;
\* a command reports success only once all of the history is in them and
\* durable; and a power loss leaves rows that were shown or kept before it.
KeepsPromise == Promise!Spec

-----------------------------------------------------------------------------
(* Liveness.  The scheduler runs every process that can run, and flock     *)
(* grants a lock that is free again and again (SF); somebody keeps issuing *)
(* commands that recover first.  Nobody has to run `kb rebuild`.           *)

Work(p) == Recovery(p) \/ RebuildStep(p) \/ Write(p) \/ Compact(p)

Fairness ==
    \A p \in Procs : SF_vars(Work(p)) /\ SF_vars(Begin(p, "recover"))

FairSpec == Spec /\ Fairness

Converged == db.exists /\ Decision(db) = "NoOp"

\* The states recovery itself never leaves: an emptied log under a database
\* with rows; an event a rebuild fails on, which only a tail replay would
\* quarantine; a live entry the log does not mention.
DeadEnd ==
    /\ db.exists
    /\ Decision(db) \in FullRebuild
    /\ \/ log = <<>> /\ db.rows # EmptyRows
       \/ ~Digestible(log, Quarantined)
       \/ ~Covered

\* cursor.rs, replay_tail_locked: an event that cannot be applied must not brick
\* every entry point; a database without a cursor leaves that state.
PoisonDoesNotBrick ==
    (db.exists /\ Decision(db) = "CursorMissing") ~> (Decision(db) # "CursorMissing")

\* Once writes, compactions and faults stop, recovery makes the database
\* current with the log for good, whatever happened before.
RecoveryConverges == <>[](Converged \/ DeadEnd)
=============================================================================
