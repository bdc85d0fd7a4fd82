# TLA+ models of agentic-kb

agentic-kb is a knowledge base kept in a repository: an append-only JSONL event
log of record, a SQLite database that materializes it, a `kb` binary that is run
by many short-lived CLI processes and by long-lived MCP port servers, and an
Elixir MCP front end that supervises those servers. These modules model the part
of it that must survive concurrency and crashes, and the content whose meaning
must survive them, check it with TLC, and prove the most important facts with
TLAPS. Where the code reads `src/...`, the paths
are those of the repository's Rust crate (`src/components`, `src/commands`) and
of its MCP server (`mcp/lib/agentic_kb_mcp`).

## The system

| component | state | operations | hard behaviour | what makes it correct |
|---|---|---|---|---|
| event log (`components/events.rs`) | the JSONL file: spans of events closed by a commit marker | append a batch and sync, read from an offset, repair an uncommitted tail | kill inside an append, power loss, torn tail | every committed span survives, no uncommitted one is read |
| applied cursor and recovery (`components/cursor.rs`, `commands/rebuild.rs`) | cursor rows in the database (generation, offset, hash), `.generation` and `.deadletter` sidecars | inspect, tail replay with quarantine, automatic full rebuild, refusal of writes | inspection without a lock, another process acting in between, failing events, crashes in every step | a cursor that inspection accepts is the truth; recovery converges |
| rebuild (`commands/rebuild.rs`) | scratch database, snapshot identity, single-flight lock | snapshot, lock-free replay, catch-up, swap by rename | appends, compactions and quarantines during the replay; a busy WAL; kill or power loss around the rename; readers without a lock | the swap loses nothing that was written meanwhile, and no query reads two databases |
| write path (`cursor.rs`, `kb_core.rs`, `add.rs`) | the batch | gate, append, sync, apply with cursor in one transaction | partial failure after the append | what is acknowledged is durable and searchable |
| compaction (`commands/compact.rs`) | rewritten log, generation | gate, retain and reorder, bump, rename, sync | kill between bump and rename, or rename and sync; evidence, audits and runs kept by rules of their own | the log says what it said before |
| materialization (`components/db.rs`) | tables of the database | `apply_event` | cascades between entries, evidence, audit runs; events of earlier versions | replay from nothing equals incremental application |
| citations (`verification.rs`, `kb_core.rs`, `stale_check.rs`, `migrate_citations.rs`, `compress.rs`) | evidence rows; the files they cite, which nobody locks | cite, add, verify, relocate and heal, respell | files edited, replaced and removed between any two reads; a plan made without the lock | what is recorded held at one moment; a heal moves only what has moved |
| embeddings (`reembed.rs`, `migrate_embeddings.rs`) | vectors of entries; a staged copy and its recovery state | select, embed, write batch by batch; stage, publish | rows that change while they are embedded; the database replaced underneath; kills between copy, state and rename | a vector is of the text its entry has; a migration loses no write |
| repository lock (`commands/add.rs`) | flock plus an in-process registry | acquire, release | threads of one process, death of the holder | mutual exclusion |
| MCP port server (`commands/mcp.rs`) | one database path per process | tools, audit runs | recovers only on mutating requests | audit verdicts refer to what was audited |
| MCP session (`mcp_server.ex`, `port_manager.ex`, `application.ex`) | mailboxes, the line being answered, the request being collected, restarts left | frame, answer, call the port; handshake, send, collect, discard, time out | a busy port, replies later than their deadline, replies longer than a frame, deaths of either side, end of file behind unanswered lines | each line is answered once, in order, with its own result; nothing is executed twice |
| MCP rebuild manager (`rebuild_manager.ex`) | phase, port, waiters, timers | request, cancel, await | exit status, signals, frames and timers in any order | each caller is answered once, and truthfully |
| peers (`commands/peers.rs`) | edges and graphs in the database, told by no log; stamp files of imported seeds | add, remove, import, sweep | statements that commit one by one, kills between them, a stamp read without the lock, rebuilds that lose the tables | no relation is imported twice, none that is stamped is missing without a reason |
| ingest, import (`ingest.rs`, `import_cmd.rs`, `mcp.rs`) | chunks written so far; a stamp file | one add after the other, each under a lock of its own | kills between two adds, others in between | who ends has left his document, whole and once |
| transcript hook (`digest.rs`, `transcript_state.rs`) | offset per transcript, in a file that is replaced | read the rest, digest, advance | kills, concurrent hooks, a lock on a file that is renamed over | no turn is passed over, the offset does not go back |
| query hits, search, configuration | | | | not modelled, see below |

`PROJECT.json` lists every component with its status, and every hazard of the
code at the line where it bites.

## Modules

| module | models | role |
|---|---|---|
| `KbStore` | `db.rs` (entries), `cursor.rs` (cursor, `inspect`), `compact.rs` (retention) | data and pure functions: events, rows, cursors, classification of a database against a log, compaction |
| `KbDurability` | `cursor.rs`, `rebuild.rs`, `compact.rs`, `events.rs` (append, sync), `commands.rs` (dispatch) | the processes, the files and the crashes; extends `KbStore` |
| `DurableKb` | the promise of the whole | abstract specification; `KbDurability` implements it |
| `LogFormat` | `events.rs` (readers, backward searches, span of a writer) | pure functions on the text of the log |
| `LogFraming` | `events.rs` (repair, append, sync) with the cursor of `cursor.rs` | the writer write by write, and the other users of the log; extends `LogFormat` |
| `CommittedLog` | the promise of the log to its readers | abstract specification; `LogFraming` implements it |
| `DatabaseSwap` | `rebuild.rs` (phase 3), `migrate_embeddings.rs`, `reembed.rs` (deferred checkpoints), `db.rs` (opening, checkpoint) | the database file, its write-ahead log beside it, and connections that take no lock |
| `KbContent` | `db.rs` (`apply_event`), `compact.rs` (retention and order), `cursor.rs` (tail replay), the writers of `add.rs`, `kb_core.rs`, `mcp.rs`, `stale_check.rs`, `reembed.rs` | what events mean and what a compaction keeps of them |
| `BulkCommands` | `ingest.rs`, `import_cmd.rs`, the import of `mcp.rs`, `digest.rs`, `transcript_state.rs`, `hook.rs` | the commands that write in several steps; extends `KbContent` |
| `PeerGraph` | `peers.rs`, the peer tools of `mcp.rs` | edges, graphs and stamps, statement by statement |
| `KbRepository` | the sweeps of `compact.rs` and `rebuild.rs` | composes `BulkCommands` (and so `KbContent`) with `PeerGraph` over one database |
| `Citations` | `verification.rs`, `kb_core.rs`, `stale_check.rs`, `migrate_citations.rs`, `compress.rs`, `cite.rs`, `expire.rs` | citing, adding, healing and respelling over files that change |
| `McpSession` | `cli.ex`, `application.ex`, `transport/stdio.ex`, `mcp_server.ex`, `port_manager.ex`, and the request loop of `mcp.rs` as seen from them | client, McpServer, PortManager, supervisor and Rust process |
| `RebuildManager` | `rebuild_manager.ex`, and `kb rebuild --supervised` (`rebuild.rs`) as seen from it | the GenServer, its mailbox and timers, ports, workers and callers |
| `MCKbDurability`, `MCLogFraming`, `MCDatabaseSwap`, `MCKbContent`, `MCCitations`, `MCMcpSession`, `MCRebuildManager` | | small instances for TLC |
| `KbDurabilityProofs` | | theorems of `KbDurability`, and that it implements `DurableKb` |
| `LogFramingProofs` | | theorems of `LogFormat` and `LogFraming`, and that it implements `CommittedLog` |
| `DatabaseSwapProofs`, `CitationsProofs`, `RebuildManagerProofs`, `McpSessionProofs` | | theorems of the module each is named after |
| `KbRepositoryProofs` | | theorems of the hook, of the peer graph, of the history of runs and audits, of evidence, of vectors and of the commands of several adds, in the whole repository |
| `KbAgreementProofs` | | theorems on what the tables show after writes, replays, rebuilds and compactions; extends `KbRepositoryProofs` |

The database's life is told at three levels. `KbDurability` has the log, the
cursor and all processes, with rows that are no more than the id of their upsert
and a swap that is one step. `DatabaseSwap` opens that step and looks only at
files and connections. `KbContent` opens the rows, with one writer at a time as the
lock makes it, and looks only at what they say; `BulkCommands` puts the commands that
take the lock several times over it, and `KbRepository` the peer graph beside it.
`LogFraming` opens the append, and
`Citations` what happens under the lock before an append of evidence.

### How `KbDurability` corresponds to the code

*State.* `log`, `gen`, `ledger`, `db` are the files every process sees: events
where the code counts bytes, the generation sidecar, the failed attempts per
event of the dead-letter sidecar, and the database (rows, cursor, schema
stamp). A row is the id of the upsert that wrote it, `Stale` after an expire.
`disk` and `pending` are what a power loss would leave: `disk` is the synced
content, `pending` names the files whose rename into place is not yet covered
by a directory sync. `lock` and `flight` are the two flocks. `proc` holds each
process's program counter and local variables. `acked` and `history` are ghosts:
the events of commands that reported success, and the log as if it had never
been compacted.

*Actions.* One per step between two effects another process, or a crash, can
tell apart. A command enters through `Begin` (`open_or_init`), inspects in two
lock-free reads (`InspectCursor`, `InspectLog`), then replays the tail
(`ReplayLock`, `ReplayCommit`, `ReplayFail`), rebuilds (`FlightLock`, `Recheck*`,
`Coverage*`, `Snapshot`, `Scratch`, `Catchup`, `Swap`, `SwapSync` and their
failures) or goes on to its own write (`AppendBatch`, `SyncLog`, `ApplyBatch`) or
compaction (`CompactBump`, `CompactRename`, `CompactSync`). What a lock holder
does to its scratch state before its next durable effect is one action.
`AbortRebuild` covers the two callers of a rebuild: the command line warns about
a failed recovery and goes on to the gate of its own write, an explicit rebuild
stops.

*Environment.* `Kill` at any step releases the process's flocks; `PowerLoss`
kills all and leaves, for each file on its own, what the page cache or the disk
had; `RemoveDb` deletes the database, which is legitimate as it can be rebuilt.
The faults are named by kind (`kill`, `power`, `rmdb`, `sync`, `transient`,
`busy`) so that an instance says which it injects, `MaxFaults` how many.

*Directory syncs.* The names of a compacted log and of a swapped-in database are
durable once their directory is synced: by the renaming process, by whoever next
writes a sidecar, or by SQLite, which syncs the directory with the first sync of
each connection's write-ahead log (`DirSynced` in `Commit`; the comment on the
checkpoint guard in `db.rs` counts that sync). `append_events_batch_with_sync`
syncs the directory only when it creates the log, so the durability of a write
after a compaction that died before its own directory sync, or into a log whose
creator was killed before its own, rests on the commit that applies it;
`AckedSurvives` and its proof rest on that, too. A behaviour may begin with such a
log, of which a power loss leaves nothing.

*Abstractions.* The log file exists from the start, though its name may not be
durable; a log that cannot be read (`Defer`, `LogMissing`) does not occur; span
framing and torn tails are left to `LogFraming`, so a batch is appended whole; the
swap is one step, which can fail as busy, and its files and write-ahead log are left
to `DatabaseSwap`; evidence, embeddings and the other tables are not rows here
(`KbContent` has them); the tail hash is the two windows it hashes, not a digest.
`RemoveDb` needs the lock, as a file deleted under a writer is not a state the
program claims to handle.

### How `LogFormat` and `LogFraming` correspond to the code

*Text.* A file is a sequence of lines: a marker or an event, a blank line, or
text that is no JSON value; the last line may lack its newline, and text written
after such a line spoils it. An offset counts two for a line and one for its
text, so an odd offset is one that is not a record boundary. `Scan` is
`scan_events`; `EndsOnIntactSpan` and `DanglingSpanStart` are the two searches
backwards from the end, in windows that double; `CommittedLen` is
`committed_len` with both shortcuts. Windows hold whole lines here, as the code
drops the first, possibly cut, line of a window that does not start the file.

*State.* `file` is what every process reads, `disk` what a power loss may leave
(any state since the last sync), `writer` the process that appends and the lines
it has yet to write. `cursor` is the database's, with the whole prefix for its
hash; `applied` and `acked` are ghosts, and so is `told`, the events of `file`.

*Actions.* An append goes through the gate (`BeginAppend`), the repair in its
four outcomes (`RepairNotNeeded`, `RepairDanglingSpan`, `RepairByScan` with
`TerminateLastLine`, `RepairFail`), two writes per line, the sync and the apply;
it may fail or die at each (`WriteFail`, `GiveUp`), leaving text written in part.
`ReplayTail`, `Rebuild` and `Compact` are single steps, as `KbDurability` has
their inner ones. The lock makes these take turns. Readers take no lock and are
not processes: what they get is a function of `file`, so a property of every
state is a property of every reader.

*Abstractions.* A marker's `n` and `batch_id` are well-formed; a power loss that
cuts a line in two leaves what `WriteFail` leaves; the database is durable at
once (`KbDurability` has its losses); a compacted log keeps all events.

### How `RebuildManager` corresponds to the code

*State.* `manager` is the GenServer's state map: `port`, `phase`, `terminal` (the
known outcome of the last rebuild), the callers that wait for a launch
(`launcher`), a cancellation (`canceller`) or the end (`waiters`), and whether the
grace timer runs. `mailbox` is its FIFO queue of calls, frames, exit statuses,
exit signals and expired timers; `timers` those that `Process.send_after` has yet
to deliver. A worker is named after the call that launched it; `worker` is its
progress (`spawned`, `armed` once its stdin guard thread owns stdin, `locked` with
the lifetime lock, `replaying` after READY, `failing` after an error, `exited`),
`told` says that its stdin holds the stop byte or an end of file, `pipe` the
frames its port has not read, `open` which ports are open. `latest`, `readied`
and the field `about` of a call are ghosts.

*Actions.* One per clause of `handle_call` and `handle_info`, with every guard of
the clause; `Ignore` is their catch-all clauses. Erlang delivers messages one at
a time, so a handler is atomic; what interleaves is the arrival of messages.
Ports are external: a port passes frames on in order, then the exit status and
the `EXIT` signal of a worker that is gone; a write to a worker that is already
gone breaks the pipe, and only `EXIT` arrives (`WriteStop`). Cancelling a timer
does not remove its message when it has fired. `Crash` is a crash of the manager:
its supervisor (`one_for_one`) starts a fresh one, the ports close, whoever waits
is told that the process is down. The worker's side is `execute_supervised`, its
guard thread and the lifetime lock; at any step it may fail, be killed, or, once
told, be stopped by its guard.

*Abstractions.* Durations: a timer may fire at any time. The log tail and its
file; the `GenServer.call` timeouts of the callers themselves, which only drop
an answer. `:already_running` is answered while a worker is being cancelled or
has just exited, too: `AnsweredOnceAndTruly` asks no more of it than that the worker
had emitted READY.

### How `DatabaseSwap` corresponds to the code

*State.* `disk` has what the names stand for: the file behind the database's name
(a file is known by the version it came with), the sidecar behind the names with
`-wal` and `-shm`, the pages of each file and the frames of each sidecar. There are
two pages, `rows` and `vectors`, as the migration rewrites only the latter. A
`reader` is one `open_ro` connection: the file it has open, the sidecar it
attached, its read mark and the page it has read. `job` is the one process that
holds the repository lock. `staged` is the migration's copy and recovery state.
`undurable` is what a rename replaced, until the directory is synced. `truth` and
`past` are ghosts: the last committed state and all that ever were.

*Actions.* A connection opens its file by name first, and attaches the sidecar by
name with its first statement (`ReaderOpen`, `ReaderBegin`), which is what makes a
rename in between interesting. A writer commits, may checkpoint, and closes
(`WriterClose`), or keeps the close from checkpointing (`WriterCloseDeferred`, the
deferred batches of `reembed`, drained by `DrainWal`). A rebuild goes through
`RebuildCatchUp`, `RebuildCheckpoint` or `RebuildBusy`, `RebuildVerify`,
`RebuildRename`, `RebuildUnlink`, `RebuildSync`; a migration through
`MigrateStart`, the checkpoint and unlink it makes before each use of the file, and
`MigrateStage`, `MigrateReady`, `MigratePublish`, `MigrateSync`, or `MigrateResume`
after a kill. Kills and a power loss hit between any two.

*SQLite* is external and modelled as the code relies on it: a transaction is whole
and durable; a checkpoint is atomic and stops short of, or is busy with, readers;
the last connection to a file checkpoints and unlinks the sidecar when it closes,
but neither if its file is no longer the named one. `-wal` and `-shm` come and go
together. The file system keeps its metadata in order, and a sync makes earlier
renames durable, so a kill after a rename followed by a power loss is out of the
bounds of one fault and named here.

*Abstractions.* Phases 1 and 2 of a rebuild and its restarts (`KbDurability`), the
backups, the integrity check of the new file, the DDL that `open_rw` runs; a digest
of the whole file is its content.

*Exceptions.* `split` and `stray` are named in the two properties because the
states are reachable; see the observations below.

### How `KbContent` corresponds to the code

*State.* `log`, `db` (the tables, as sets and functions over ids), `applied` (the
cursor, `Void` when the generation is another's), `reembed` (the process that embeds
beside the writers). `writes` counts batches and stands for time and fresh ids.

*Functions.* `Apply` is `apply_event`, one operator per arm; `ReplayTail` is a tail
replay, with the ordinals of legacy runs taken from the whole log; `Compacted` is
the rewrite, with `audit_required_entry_upserts`, `audit_required_expire_indices`,
`live_at_cursor` and `evidence_owner_by_id` as operators over indices of the log. What
is kept is put in the order of `Precedes`: by place in the old log, and evidence after
the upsert it was written under.

*Actions.* One per command that appends a batch (`AddEntry`, `ExpireEntry`,
`HealCitation`, `AuditRun`, `AuditRecord`, `TestAdd`, `RunTest`), with a crash or
failure between append and apply as a choice; `Compact`, `CatchUp`, `Rebuild`, and
`reembed` in three (`ReembedSelect`, `ReembedWrite`, `ReembedEnd`). A writer holds
the repository lock from its first read to its apply, which is why it is one step.

*Abstractions.* A compaction always leaves the cursor void (the path for a
repository without a database is not modelled); `reembed` writes batches of one;
audit notes and the session of a weight; cues, sessions. An evidence id is
fresh, so the same id never moves between entries, and no modelled client writes an
upsert with an older time stamp, or one without a kind after one with a kind.
`evidence_expire` is written by no command: it occurs in a log of an earlier version
only, and so do entries without a kind and runs without an id. `created_at`, which a
compaction does not keep for an entry or test that was added again under its id, is
not a column here.

### How `BulkCommands` corresponds to the code

*State.* `bulk` is what each process is doing: adding item `k` of a document or a seed
file, or on its way through a digest. `stamped` is the stamp file of `kb import`;
`transcript` counts the turns of a session; `offset` is the state file, with a number
for the file itself. `digests` tells of which turns the digest written at a time was
made; `peak` and `stray` are ghosts.

*Actions.* `JobBegins`, `AddItem` or `SkipItem` per item, `JobEnds`; an add is `Add` of
`KbContent`, with its crash between append and apply. `DigestBegins` reads transcript
and offset, `DigestLooks` the last digest's tag, `DigestAdds` writes; the advance of the
offset is `OpensState`, `LocksState`, `AdvancesState`, as the lock is that of a file
which is replaced. `Dies` is a kill, or an add that is refused. In `KbRepository` the
single commands write in between (`WritesBetween`).

*Abstractions.* A digest is known by the turns it was made of; the code compares a hash
of its first and last three turns and its tool calls. Transcripts stay below the caps
(see the observations). A seed file has entries of one path; a fresh id is one that is
not live. How a document is split, telemetry, and redaction are left out.

### How `PeerGraph` corresponds to the code

*State.* `peers` has the tables `peers` and `graphs`; `stamps` the seed files with a
stamp beside the database; `asked` the file each importer has found no stamp for;
`time` the clock; `gone` is a ghost, the relations that were removed, expired or lost.

*Actions.* One per command. A command holds the lock, and each of its statements
commits by itself: the action's outcomes are the states after each statement, for a
kill there (`Becomes`). An import looks for its stamp before it has the lock
(`ImportAsks`), then looks for each seed and adds it, and writes the stamp (`Import`),
or ends somewhere on its way (`ImportStops`), also at a type it does not accept. In
`KbRepository` a compaction sweeps what has expired and a rebuild puts empty tables in
place.

*Abstractions.* Time stands still during a command; names of repositories and notes;
migration of graphs from an older schema; the search over the graph.

### How `Citations` corresponds to the code

*State.* `tree` gives each file an inode and a text; `entries` each entry's evidence
rows; `holder` the repository lock; `add`, `heal`, `migrate` what each process has
read, resolved or planned. `seen` is a ghost: every tree since the lock was taken.

*Actions.* The user edits in place, replaces and removes between any two. `add`
resolves one citation after the other, reads every file once more, and appends;
`stale-check` plans without the lock, then confirms each row (`HealCheck`) and
searches (`HealSearch`) under it; `migrate-citations` likewise; `compress` reads an
entry and its evidence without the lock and adds with `--replace-path`.

*Functions.* `Readable`, `HashOf`, `Offsets`, `Relocations` are
`hash_citation_bytes`, `count_occurrences`, `search_for_excerpt` and
`verify_evidence` over a tree; `Migratable` is `classify_row`.

*Restriction.* `BringsBack`: nobody brings a former text, or a former block at its
place, back to the same inode while the lock is held. Reading twice cannot tell
that from no change, so `AddIsSnapshot` is neither true nor promised without it; it
is an assumption of that theorem and the only use of the restriction.

*Abstractions.* A block stands for enough lines to be a strong excerpt; an empty
excerpt for a weak one. A search over several files sees one tree. Caps on files,
ranges and scans, symlinks, excluded directories, the path grammar, kinds of
evidence that are not code, citations of the log itself, redaction, and a failing
append or apply are left out. All entries are of one path of the knowledge base.

### How `McpSession` corresponds to the code

*State.* McpServer's `inbox` and the line whose `GenServer.call` it waits for;
PortManager's phase, the request it collects, its queued calls and undelivered
frames; the Rust process with its unread requests and the one it executes; what was
written to `out`; the supervisor's count of restarts in its window. `executed` is a
ghost. A request's random id is the number of its line.

*Actions.* One per handler. `Frame` casts each line to McpServer itself, so that end
of file queues behind lines that are not answered. PortManager's receive loops
(`await_ready`, `collect`) are one action per clause: `CollectReply`,
`DiscardReply`, `CollectMalformed`, `Deadline`, `CollectExit`. A reply longer than a
frame arrives as text that is no JSON; a request longer than Rust accepts is refused,
under its own id if `shallow_scan_id` finds one in its first bytes and else under null.
`SendRequest` is a `Port.command` that returns, after which the deadline is set. While
requests are unread the port may be busy, as the pipe and the driver's queue are full,
and `Port.command` then suspends PortManager: `SendSuspends`. It goes on when Rust has
read enough (`SendResumes`), or raises when Rust is gone (`SendRaises`). How many bytes
that takes is abstracted: with unread requests a command may or may not find the port
busy, with none it never does, as one command alone is queued by the driver whatever
its length. A request counts as read (`ReadRequest`) when all of it is. Either child
may crash or be killed; the supervisor restarts one at a time, or gives up (`GiveUp`),
after which the VM lives and reads nothing, as `main` sleeps for ever.

*Abstractions.* What a tool does is `KbContent` and `KbDurability`; rebuild requests
are `RebuildManager`'s; schemas, rendering and discovery of the database are data.

## Runs

| run | question | properties |
|---|---|---|
| `durability` | is a cursor that inspection accepts true, and is no acknowledged row ever taken back, with writes, compactions, recoveries and rebuilds interleaved? | `TypeOK`, `CursorIsTruth`, `LogTellsHistory`, `NoAckedRowTakenBack` |
| `crashes` | does what was acknowledged survive, does whatever changes the rows a search sees leave one complete prefix of the history, and does a power loss leave only rows that were shown or kept? | `AckedSurvives`, `KeepsPromise` (refinement of `DurableKb`) |
| `convergence` | does recovery end with a database current with its log? | `RecoveryConverges`, `CursorIsTruth` |
| `poisoned_rebuild` | does the quarantine keep one bad event from bricking the database? | `PoisonDoesNotBrick`, violated |
| `database_swap` | whoever opens the database, at any moment and after any kill, does it find the last committed state, and does a query see one? | `CommittedStays`, `ReadsOneState` |
| `log_framing` | from any small text, is the log readable at every moment, are the shortcuts right, is the cursor a batch boundary, and do readers see whole batches, in order, and none that was acknowledged vanish? | `ShortcutAgrees`, `CursorSplits`, `ReadersNeverBreak`, `KeepsPromise` (refinement of `CommittedLog`) |
| `kb_content` | does the database say what its log says, however it came to hold it; is a compaction a fixpoint; is no run, verdict or expiry undone; is a vector of the entry's text? Do imports of peers neither double nor skip, do documents and seed files end whole, and is each turn of a session digested? | `AgreesWithLog`, `ReplayNeverFails`, `CompactionIsFixpoint`, `HistoryStands`, `NoEvidenceRevived`, `VectorsAreOfTheText`, `ImportsOnce`, `ImportedStays`, `BulkIsWhole`, `TurnsDigested`, `OffsetIsPeak` |
| `redefined_test` | can every log the program writes be replayed? | `ReplayNeverFails`, violated |
| `citations` | did an added entry's citations hold together at one moment, and do heals and migrations move only what they confirmed? | `TypeOK`, `AddIsSnapshot`, `HealIsConfirmed`, `HealSettles`, `MigrationRespells` |
| `mcp_session` | are answers each request's own, in order and complete, is nothing executed twice, and is each line answered, if PortManager is not suspended for ever? | `OwnResult`, `ExecutedOnce`, `DrainedAtEof`, `EveryLineAnswered` |
| `suspended_port` | does every call of PortManager end, by its deadline if not before? | `EveryCallEnds`, violated |
| `rebuild_supervision` | is each caller of the rebuild manager answered, once and truthfully; is no worker forgotten, its end found out, and one that was told stopped; and does one at most replay, in any order of messages? | `AnsweredOnceAndTruly`, `OrphansAreTold`, `OneReplays`, `EveryCallAnswered`, `OutcomeKnown`, `OrphansStop` |

### Bounds

*The store.* Two processes are enough for each of the races in the hazard list (one
acts between two steps of the other); a third only repeats them. `Window = 1`
makes the hash blind from three events on, so that only the generation can tell
two logs apart, which is the case the generation exists for. `PoisonAttempts =
2` needs a second attempt as the code's 2 does. `durability` has one entry,
three events and a compaction over a log that starts with an event no cursor
covers: enough for an upsert, its expire and an upsert that revives it around a
compaction and a rebuild. `crashes` has two entries and batches of two, so that a
partly applied or partly lost batch would show, and two faults, so that a power
loss can hit the repair of an earlier kill. `convergence` needs one event, good
or undigestible, one compaction and one fault: everything afterwards is
recovery. Symmetry is over processes, and over entries where no initial log
names one; liveness is checked without symmetry.

*The files.* `database_swap` has two readers, so that one can keep a sidecar alive
that another's close would end; two versions, so that a commit can precede or follow
a swap, or a migration a rebuild; two attempts at a checkpoint and one kill or power
loss. With three versions and one reader the properties hold as well. It never
stops, as readers come and go.

*The text of the log.* `log_framing` starts from every text of at most
three lines over markers of one batch, an event, a blank and a spoiled line, with
and without the last newline: logs of older writers, and of none. Two batches of
up to two events follow, with two faults, so that a repair can be interrupted
and repaired again, and a compaction. Windows of two lines and a search cap of
four are smaller than the logs that arise, so that each search grows, gives up,
or meets a span that began before the window. It stops when the batches are
written, so deadlock is not checked.

*The content.* `kb_content` has two entries on one path, one test case, drafts that
replace, are permanent, cite, or are of a kind that needs no evidence, and four
batches: enough to sample, judge false, add again under the id and cite again. Nine
workloads share the state space out, each with the operations that bear on one
another; two of the three initial logs are of earlier versions. A test case is in each
initial log, so that a run of an unknown one, which poisons the log (see below), does
not end every behaviour early; and in no workload do `test_add`, `run` and `compact`
meet, as `redefined_test` shows what happens when they do.

Three workloads are of `BulkCommands`, with two processes, documents and files of two
items, and three batches: one that is killed after its first add, and one that does the
whole. Sessions have two turns, so that a hook that read one can race one that read
both. One workload is of the peer graph: two importers (symmetric), two seed files that
share a relation, one of them with a type nobody accepts at its end, links with and
without an epic and an expiry, two edges at a time and one tick of the clock. These four
start from a converged database over a log of one event, as what is in it does not bear
on them. All workloads stop when the batches are written.

*Citations.* Two files, texts of at most three blocks, two entries with two citations
and three edits, so that a file can change before a plan, between plan and lock, and
between two reads under the lock. Four setups: an add with the same place cited
twice, a heal with an excerpt in the middle of its range, a migration against a
heal, a compression against a heal. All stop when the edits and entries are used up.

*The MCP processes.* `rebuild_supervision` makes three calls (a launch; a
cancellation that may time out; a retry, an await or a second cancellation) and one
crash, so that messages and timers of a first worker meet the second and its callers.
Its three invariants are theorems for any number of calls of any kind; the bound is for
the liveness properties, which a fourth call makes too large for the run.
`mcp_session` has three lines: one that may time out, be refused or get a reply
longer than a frame, one in between that may need no port, and one that meets what
is left of both, or finds the port busy; one kill of Rust, one crash of McpServer and one restart in the
window. `suspended_port` has the same lines and neither kill nor crash: a hang is
enough. All may stop, when all calls are made or the session has ended, so deadlock
is not checked there.

### Fairness

Each process's own steps in `KbDurability` are strongly fair (`SF` of all its work
together): a process keeps running, and a flock that is free again and again is
eventually granted. `Begin(p, "recover")` is strongly fair: somebody keeps
issuing commands that recover first, which the MCP server does on each mutating
request and the command line on each mutating command. Writes, compactions and
`kb rebuild` are not fair; nobody has to issue them. In `RebuildManager` the
manager handles its mailbox, the runtime delivers what ports and timers have, and
a worker arms its guard and the guard acts on what is in stdin (`WF` of each):
nothing makes a worker that was not told to stop finish, take the lifetime lock
or emit READY, so answers must not depend on it. In `McpSession` the client closes
its end at last, the Erlang processes and their supervisor run, and the two timers
(the handshake's and the request's deadline) fire; nothing makes the Rust process
read, execute, answer, boot or die. A suspended PortManager is sure to go on only when
everything has been read (`WF` of `SendResumes` with an empty pipe) or the port is
closed. `EveryLineAnswered` has `[]<>(manager # "suspended")` as its premise, which the
code does not guarantee: that is what `suspended_port` shows. The other modules state safety only.

### What the violated runs show

- `poisoned_rebuild`: an event that cannot be applied aborts a full rebuild and
  is not counted in the ledger; only a tail replay counts, and a database that
  needs a full rebuild never gets to one. `kb run` of a test that does not exist
  writes such an event.
- `redefined_test`: a test case is defined, run and defined again; a compaction
  keeps the last definition at its own place and the run at its own, before it. The
  run's foreign key then fails every rebuild, and the compaction has made a rebuild
  necessary.
- `suspended_port`: the Rust process hangs. A request is written and times out; it
  is still unread, and long enough to fill the pipe (64 KiB) and the driver's queue (a
  frame may have 10 MiB). The next request suspends PortManager in `Port.command`
  (`port_manager.ex:140`). Its deadline is computed after that (line 144), and
  `call_port` waits with `:infinity` because "`timeout` is solely the *inner* absolute
  deadline": McpServer waits, end of file queues behind it, and the session answers
  nothing more until somebody kills the Rust process.

### Observations without a run

Where a property is stated up to a named exception, the exception is reachable and
is described here; the rest was met while modelling and contradicts a comment, or
deserves to be known.

*Recovery.* `RecoveryConverges` is stated up to `DeadEnd`, three states that recovery
never leaves by itself. An emptied log: expire every entry and compact, and the log
is empty, its generation new, while the database still has (stale) rows; automatic
rebuild refuses an empty log under a database with rows, so writes are refused until
somebody runs `kb rebuild`. An event that cannot be applied, as in
`poisoned_rebuild`. A live row the log does not mention, which a power loss after a
replay of an unsynced tail can leave; the automatic rebuild then refuses. Besides:
compaction keeps a quarantined upsert as the last of its entry and drops the good
one before it; failures of the embedder count as failures of the event, so two
rounds of an outage quarantine a good event; the comment at `compact.rs:90-98` says
that `kb compact` does not recover first, and `commands.rs:123` makes it do so.

*Rows ahead of the log.* The abstract specification first said that searches always see
a prefix of the history. The proof of the refinement failed, for a good reason: a tail
replay commits the rows of a batch whose writer has not synced its log yet, and a power
loss may then leave the rows and not the batch; and a rebuild whose rename is not synced
gives way to the older database when power is lost. A third fault is needed to see
either, more than the run has. `DurableKb` therefore has `kept`, what a search would see
after a power loss, and `Lose` leaves what was shown or what was kept: rows a search
could have seen before, but perhaps of a batch that is in no history any more. It was
not acknowledged, so nothing that was reported is wrong; the next inspection finds the
log shorter than the cursor and rebuilds.

*A log without its last newline.* A last record without its newline, as older writers
may have left, counts as committed, and the cursor stands at its last byte. The next
append first writes the newline (`events.rs:975`); if it then dies, the cursor is no
record boundary, and the tail (a newline) is not replayed but deferred: writes are
refused until `kb rebuild`. `CursorSplits` says that this is the only such case
on a log that is not damaged.

*Files of the database.* (a) `migrate-embeddings` unlinks the sidecars of the live
database while a reader may be connected to them, even if nothing is to be migrated;
a rebuild does so to a reader that connects between its rename and its unlink. A
writer then starts a new sidecar, and the reader, whose file is still the named one,
unlinks it when it closes last: the writer's transaction is lost from the database
(`split`). Rows that come from the log are replayed, as the cursor went with them;
vectors of `reembed` are not. (b) A reader that opened the database and read nothing
before the rename attaches the new file's sidecar to the old file (`stray`), and may
read a mixture. (c) The same befalls a reader that connects while a migration
digests the file between its unlink and its rename, or if a rebuild is killed
between rename and unlink: its sidecar stays and becomes the new file's. The
unlinking that `rebuild.rs` calls hygiene is what prevents this in an undisturbed
rebuild.

*Content.* `kb run` of a test case that does not exist is appended before the foreign
key refuses it. An upsert under an existing id by a process with `KB_NO_EMBED` leaves
the old text's vector in place, and `reembed` selects only entries without one;
`VectorsAreOfTheText` therefore speaks of vectors that appear.

*Peers.* Every rebuild, an automatic one too, drops the peer graph with its "persistent"
dep edges (`peer-graph-cli.md:6`), and the stamps then make `kb peers import` add
nothing until the file changes: `gone` in `ImportedStays`. An edge that has expired but
is not yet swept keeps its seed from being added, the file gets its stamp, and the next
sweep leaves neither. Only commands that change something, compactions and rebuilds
sweep, not "every `kb` invocation" (`peer-graph-cli.md:36`). Duplicates are looked for
among graphs of all types.

*Digests.* (a) The lock of `transcript_state.rs` is on the file that `advance` replaces.
A hook that has opened it and waits gets the lock of a file without a name, while
another locks the new one; both then read, decide and rename, and the offset may end at
the lower value, although a test asks that "state file offset must equal the highest
successfully committed value": `stray` in `OffsetIsPeak`. `TurnsDigested` holds
nevertheless; turns are digested twice. (b) A digest takes 500 turns and 512 KiB at most
and then moves the offset to the end of the transcript; what is over the caps is never
digested, although `hook.md` says that such sessions "are digested in multiple runs".
(c) A later digest of a session replaces the earlier one, and so may that of a hook
which has read a shorter transcript.

*Ingest and import.* `kb_import` with `upsert`, "Overwrite existing entries"
(`tool_registry.ex:205`), overwrites nothing: it adds beside what is there. `kb import`
of a file with two entries for a path leaves the last. `kb ingest` with a `--chunk-size`
that is not above the overlap (150 by default) never ends on a text that must be split
hard: the start of the next chunk goes back to 0. The MCP import recovers once, before
the request, and a failure of that only warns; the `open_rw` of each seed does not ask
for the cursor (`mcp.rs:1447-1484`), only an add does. So an entry may be skipped for
rows that an event in the log already takes away, and is then at neither. `alone` in
`BulkCommands` leaves such imports out of `BulkIsWhole`.

*Citations.* (a) A comment in `verification.rs` says of a range whose excerpt is where
it was that this is decay, not a move. That is so only if the excerpt starts the
range; if it is further in, the heal shifts the range so that the excerpt starts it.
(b) A comment in `db.rs` says that a healed row reads back as `relocated`; it reads
back as verified, or as unverified. (c) `compress` reads the entry and its evidence
without the lock. An entry expired or judged false in between comes back, without
evidence; entries added meanwhile at the path, permanent ones too, are replaced. (d)
A citation whose file was removed or renamed is never searched for.

## Theorems

Every theorem is for every set of processes, entries, files, readers or lines, every
bound, every initial log its assumption admits and every choice of faults. The argument
is the same in each module: an inductive invariant, one lemma per action that shows what
the action preserves of it, a lemma `...Stays` that puts these together over `Next`, and
the theorem with PTL. Where a conjunct is about the parts of a big state, a lemma says
what a quiet step (one that leaves these parts alone) keeps, and each action that is
quiet in this sense only has to be shown to be so.

### The store: `KbDurabilityProofs`

`KbDurabilityProofs` begins with the lemmas about the data: the last position of a
non-empty set of positions exists, sub-logs, applications, cursors and compactions are
well typed.

- `TypeCorrect == Spec => []TypeOK`. Inductive as it stands; one lemma per group
  of actions. The arithmetic that matters is that offsets stay natural numbers.
- `MutualExclusion == Spec => []LockInv`: a process at a program counter in
  `Holding` has the repository lock. Every action of a process is a `LockStep`
  (it enters `Holding` only with the lock, which it takes free and returns), and
  a `LockStep` preserves `LockInv`.
- `AckedSafe == Spec => []AckedSurvives`. The invariant is strengthened to
  `AckedInv`: the history on disk is part of the history; what is acknowledged is
  in the history on disk; a batch at `sync` or `apply` is in the history, and one
  at `apply` is in the history on disk unless the log's name is not durable. The
  steps that matter are `SyncLog`, after which either the batch is on disk or the
  name it waits for is pending, and `ApplyBatch`, whose commit syncs the directory
  before the command reports success. Every other step is a `QuietStep`: it
  acknowledges nothing and either leaves the disk's history alone or completes it.

Its second half builds on these.

- `LogTells == Spec => []LogTellsHistory`, from `TellInv`: log and history give the same
  visible rows, in memory and on disk. Appending keeps it as rows after a concatenation
  are a function of the rows before; a compaction does as it keeps the last event of
  each entry, in the same order.
- `CursorTrue == Spec => []CursorIsTruth`, from `CursorInv`. `LogInv`: event ids grow
  along the log and the log on disk; the latter may lack what was appended last and hold
  what a compaction dropped whose rename is not synced, nothing else (`Within`).
  `StampInv`: every cursor, also the one a power loss would bring back, was made from
  some log `K`, at its end, and if it is of the present generation then `K` begins the
  log as soon as its last event stands at the same place there (`Agrees`). The
  fingerprint, which covers two windows only, tells that one event, and nobody need read
  the middle.
  `LocalInv`: what each process has read, snapshotted, replayed or appended at each
  program counter. The step that matters is a catch-up whose snapshot is a prefix
  again: ids grow, and an id that a compaction dropped never comes back, so a snapshot
  that matches where it is looked at is the log up to there.
- `PromiseKept == Spec => KeepsPromise`, the refinement of `DurableKb`, and
  `NothingTakenBack == Spec => NoAckedRowTakenBack`, both under `NoPoison`: no event is
  bad, and no apply fails for a transient reason. That hypothesis is no weakness of the
  proof: a quarantined event is left out of the rows by design, so searches then see a
  history without it, which is what the code means and not what `DurableKb` says. The
  `crashes` run has no bad events either. The five theorems before have no such
  hypothesis. `PlainInv` adds to the invariants that nothing is quarantined and that the
  disk's history is a prefix of the history; then each database file that is made, is
  made from the whole log (`StampedNow`), and shows the view of the whole history.

### The text of the log: `LogFramingProofs`

`LogFormat` is data, so most of the module is about it: the table that the scan fills
exists and is unique, so that the scan of a prefix is the prefix of the scan (`ScanIs`,
`SamePrefix`) and the scan of a log and one line more is one step more (`AppendLine`);
what is open after a begin marker stays open as long as no marker follows
(`StaysOpen`); what a scan has committed is the end of some line (`ScanTold`). On this rest:

- `ShortcutsAgree == Spec => []ShortcutAgrees`: a window that ends with an intact span
  ends the committed part; a last begin marker with fewer lines after it than its size
  is where it ends; otherwise nothing is open and the scan decides. A last begin marker
  with more lines after it cannot be in a readable log (`CountedFits`).
- `FramingInvariant == Spec => []FramingInv`, of five parts. `FilesInv`: files are logs,
  and either all that the disk may hold can be read or nobody has touched them.
  `CursorInv`: a cursor is at the end of a text with nothing open, all applied.
  `WriterInv`: `Written(h, b, n, m, base)` says that a log `h` has the first `m` lines of
  a span over what a reader gets, which is still `base`; a writer that is to write line
  `m + 1` is in this phase, one that has written its text but no newline is one line
  further, with the same readers. `BatchInv`: batches are numbered as they are begun.
  `DiskInv`: what a power loss leaves has the events of the log but for some whole last
  batches that were not acknowledged.
- `NoReaderBreaks == Spec => ReadersNeverBreak` and `CursorSplitsLog == Spec =>
  []CursorSplits` follow from these, the second with `SplitAt`: reading a log from the
  end of a prefix in which nothing is open gives the events that are not in the prefix,
  shifted by its size.
- `PromiseKept == Spec => KeepsPromise`, the refinement of `CommittedLog`: the last
  newline of a span adds a whole batch (`Add`), a power loss takes whole ones back
  (`Lose`, by `DiskInv`), all else stutters.

### The files of the database: `DatabaseSwapProofs`

- `SwapInvariant == Spec => [](TypeOK /\ Inv)`. `FilesInv` is the heart: some prefix of
  the named log is checkpointed, no reader's mark is before it, and each state the log
  leads to from there on was committed; a connection to the named file is on the named
  sidecar, unless that was unlinked under it and had nothing in it; what a connection
  that is not astray sees was committed. `Replaced`: until the directory is synced
  nothing is written to what a rename installed, and what it replaced is as it was, so a
  power loss may bring it back. `LockInv`: from the drain to the unlink the log is
  empty. `RebuildInv`, `StagedInv`: what a rebuild or a migration will install is a
  file that nobody has open. `MigrationInv` and `CopyInv` say what a migration and its
  recovery find.
- `FindsCommitted == Spec => []CommittedStays` and `QueriesReadOneState == Spec =>
  []ReadsOneState`, with the exceptions `split` and `stray` that the properties name.

### The MCP processes: `RebuildManagerProofs`, `McpSessionProofs`

- `SupervisionInvariant == Spec => [](TypeOK /\ Inv)`: a call is not made, in the
  mailbox once, waiting in one place, or answered once (`CallInv`, `WaitInv`,
  `MessageInv`, `OnceInMail`); what the phase tells about the latest worker
  (`ManagerInv`); a worker that lives is the port's or was told, and one that replays
  has the lifetime lock (`WorkerInv`). `AnswersTrue`, `OrphansTold` and `OneReplaysOnly`
  follow, for `AnsweredOnceAndTruly`, `OrphansAreTold` and `OneReplays`.
- `SessionInvariant == Spec => [](TypeOK /\ Inv)`: requests move in the order of their
  lines, executed before busy before those in the pipe before those waiting before those
  in the mailbox (`OrderInv`), a frame with an id is of that request, which was executed
  or refused (`FramesInv`), and answers come in the order of lines that are done with (`OutInv`).
  With it `ResultIsOwn`, `AtMostOnce` and `EofDrains`, for `OwnResult`, `ExecutedOnce`
  and `DrainedAtEof`; for the last `DrainInv` says where a line is that has no answer.

### Citations: `CitationsProofs`

- `CitationTypes == Spec => []TypeOK`, from `Inv1 == TypeInv /\ RowsInv /\ LockInv`:
  the types of what each process keeps, that planned rows are rows, and that the
  holder of the lock is the process whose work has begun, with the present tree
  among those `seen`.
- `HealsAreConfirmed`, `HealsSettle` and `MigrationsRespell`, from `Inv2`, which adds
  that a row a heal has found decayed was decayed in a tree that was seen, and that a
  row about to be respelled held, in both forms, in one. For `HealsSettle` the row at
  its new spot is searched once more: the excerpt is where it was, so the search
  finds the place it is at (`RelocatedStays`).
- `AddsAreSnapshots`, from `Inv3 == Inv1 /\ InodeInv /\ AddInv`. Two readings of each
  file agree; the moment at which all citations held is the end of the first pass.
  `AddInv` says that each resolved citation held in some tree that was seen, and that
  once all are resolved there is one tree in which those hold that the second pass
  has verified or that hold now. The lemma `NoReturn` is what an edit preserves it by:
  a citation that held when it was read, and does not hold now, does not hold again,
  which is where `BringsBack` is needed.

### The repository: `KbRepositoryProofs`

Of the whole repository: any number of processes that ingest, import or digest, beside
all other writers, compactions, rebuilds and importers of peers.

- `NoTurnIsSkipped == KbSpec => []TurnsDigested`, from `HookInv`: the form of what a
  process keeps (`BulkForms`), that the turns up to the offset are digested, and with
  them those up to where a hook read from, and up to where it will move the offset once
  it opens the state file. The steps that matter are `DigestLooks`, which goes on
  without a digest only if one of just these turns was found, and `DigestAdds`. Every
  step of another command is an `OthersStep`: it leaves the hook's variables alone and
  each process where it is, ended, or at an ingest or import.
- `OffsetKeepsPeak == KbSpec => []OffsetIsPeak`, from `PeakInv`: unless somebody strayed,
  the hook that may advance has the lock of the state file that is there, will move the
  offset up, and is the only one.
- `NoRelationTwice == KbSpec => []ImportsOnce` and `StampedIsThere == KbSpec =>
  []ImportedStays`, from `PeersInv`: imported edges are members, one for each relation,
  and each relation of a stamped file is related or in `gone`. What a command leaves of
  a table, wherever it dies, is `Leaves`: at most `taken` is lost, and nothing is
  doubled. An import is a recursive function over its file; that it exists is shown by
  the least counterexample among its positions, and each of its rows is `Growing`.
- `HistoryIsKept == KbSpec => HistoryStands`, from `HistoryInv`: the log is one of events,
  and the tables `Tells` what its first `applied` events say of the history; if the
  cursor is void, what they hold is at least `Foretold` by the log, which the next
  replay starts over. What events say of the history is stated without a replay: the
  runs with a key, the occurrences of each test among the legacy ones, the sampled
  candidates, the judged pairs, and of each pair its *first* verdict, counted for the
  kind of the latest upsert before it (`RunRows`, `CandidateRows`, `VerdictRows`,
  `CountedAs`). There is one lemma for each arm of `Apply`, by which one event more says
  what the arm writes; the other arms are `LeavesHistory` steps. A replay is a recursive
  function, shown to exist, and tells the same from wherever it starts. For a compaction
  it is shown that its table of places is a bijection of the kept indices onto the
  new log which keeps their order (`Rank`, `Rewrites`), that every event of the history
  is kept, and with each verdict the upsert that gave its entry the kind it counts
  for: so the new log tells no less than the old one.
- `NoEvidenceComesBack == KbSpec => NoEvidenceRevived`, from `EvidenceInv`: the tables
  hold the evidence that their part of the log `Says` is held, with the entries live and
  the pairs judged that it says are, and what the rest of the log gives is of the batch
  written last. Which entries are live (`Alive`) and who holds an id (`Owners`, which is
  the table of owners that a compaction goes by) are stated of the log; again one lemma
  for each arm of `Apply`. For a compaction: evidence that the new log holds after any of
  its events was held by the old log at its end, because a kept add took its id, its
  entry did not end since, and no kept event in between could have dropped it
  (`RewriteOwns`). That no pair is judged twice (`JudgedOnce`) is part of it: a batch that
  was answered before would end an entry again.
- `VectorsFit == KbSpec => VectorsAreOfTheText`, from `RowsInv`: the row of a live entry
  has the path and the text of its latest upsert and the time of an event since
  (`Depicts`), and whoever has the time of an entry has its text (`OneText`). The second
  is said of all times anybody can still have (`Seen`): those of the live rows, those
  a reembedding process has read and will compare, and those a replay of the log would
  give (`Times`), which is what a rebuild behind its back writes. No compaction adds to
  these (`RewriteTimes`): evidence that is kept is put behind the upsert it was about,
  which is kept with it, and before any later one.
- `BulkStaysWhole == KbSpec => []BulkIsWhole`, from `WholeInv` beside `RowsInv`: of a
  command that is undisturbed and has done an item, what the *log* says is live at the
  path (`Placed`) is what it is to leave there (`Whole`). It is said of the log because
  the tables are behind it whenever the cursor is, and what a replay will find has to
  be right then too. `AddPlaces` says what one add does to the path: its entry is
  there, what it replaced is not, all else is as before. A compaction leaves the path
  as it is (`RewriteHere`), which is where `JudgedAfterSampled` is needed: an expiry
  that no audit is about is dropped, and the upserts it ended must go with it; those
  kept for an audit are kept with the end that followed the sampling (`DeadStaysDead`).
- `CompactingSettles == KbSpec => []CompactionIsFixpoint`, from `OrderInv`: beside `RowsInv`
  the log is one in which an id of evidence stays with its entry and is added again only
  after it was given up (`IdsAreOwn`). Of a compacted log everything is kept
  (`KeptAgain`): what made an event worth keeping is kept with it, so it is still the
  reason. And nothing is moved (`PrecedesAgain`): evidence that was put behind its
  upsert is there already. Two numberings of the same events in the same order are
  one (`NumberingIsIdentity`). Without `IdsAreOwn` it is false: of two adds of an id the
  second, which took nothing, would be effective once the first was dropped.

### What the tables show: `KbAgreementProofs`

What the tables hold is what the log says, to the last column that clients see.

- `DatabaseAgrees == KbSpec => []((applied # Void \/ RunsAreDefined(log)) => AgreesWithLog)`,
  from `BuiltInv`: beside `OrderInv`, tables with a valid cursor are `Alike` to those a
  rebuild makes of the first `applied` events (`Built`: equal but for the vectors), and
  tables with a void cursor are so of a log that is the present one, or of which the
  present one is the compaction (`Origin`). That a write, a tail replay and a rebuild
  keep this comes down to `AlikeApply`, that an arm of `Apply` reads no vector and counts
  the occurrences of a run to the same number in the log and in the table.

  What a compaction keeps cannot be shown replay against replay, as the two logs have no
  steps in common. So every column is stated of the log without a replay (`Pictured`):
  the history as above, the evidence with what was said last of where it points to, a
  row by the latest upsert of its entry, the last event that `Updates` it and whether
  evidence is held, a test by its last definition. There is one lemma for each arm of
  `Apply` again (`ApplyPictures`). Then each statement is shown to be the same of a
  log and of its compaction (`Recast`): the runs, pairs and counts (`SameRecall`), tests
  (`SameTests`), evidence and owners (`SameEvidence`), which entries live (`SameLife`),
  the rows of these (`SameLiveRow`) and of stale ones that an audit sampled
  (`SameStaleRow`), whose last upsert and last end a compaction keeps for just this. The
  rows of other stale entries do differ, and `View` leaves them out.
- `ReplaysSucceed == KbSpec => [](RunsAreDefined(log) => ReplayNeverFails)`: a replay either
  pictures the log up to where it is, or has met a run without its test (`Follows`).
  The other ways an arm of `Apply` could fail, an answer about an entry without a row, a
  second answer and a second arm for a sampled entry, are excluded by what the writers
  keep to (`SoundLog`, which is part of the invariant: `AnsweredHasRow`, `CandidatesFit`).
- `ReplayableStays == KbSpec /\ RunsAreDefined(log) /\ []~Redefined(log) /\
  [][~RunsUnknown]_kbVars => [](ReplayNeverFails /\ AgreesWithLog)` says where the premise
  of the two comes from: it holds on, unless a test is run that the database does
  not know, or defined twice. The code allows both, so it is no invariant: the run
  `redefined_test` is an example of the second, and the first appends an event like the
  one that `poisoned_rebuild` has. That the database knows the
  test (`db.tests`) means that the log defines it is again `Pictured`; a compaction
  without a second definition keeps the first, and it stays before the run.

### Assumptions

`StoreAssumption`, `DurabilityAssumption`, `FormatAssumption`, `FramingAssumption`,
`SwapAssumption`, `SessionAssumption`, `CitationAssumption`, `ContentAssumption`,
`EarlierAssumption`, `BulkAssumption`, `PeerAssumption` and `ManagerAssumption`: the types of the
constants, and what the code gives the initial states. Initial logs of `KbDurability`
number their events in writing order (ids are ghosts, so this names them); initial texts
of `LogFraming` are files in which only the last line may lack its newline, and all
their events are of batch 1; the ids of `KbContent` name finitely many entries, and its
initial logs are sequences of events about these, in which a run judges an entry once,
samples what is live, under one arm, and judges what it sampled, an id of evidence is
one entry's and is not added while it is held, the entries that have no kind are older
than those of the same id that have one, evidence and audit runs are numbered as of batch
0, and times are of batch 0 or before, no two texts of an entry having the same
(`EarlierAssumption`: `handle_audit_run`, `handle_audit_record`, fresh uuids for evidence,
and times in nanoseconds, as for the batches of the model, which have one time each); seed files are sequences. TLC
evaluates them on each run.

### Model-checked only

Every invariant and every action property of the runs is stated by a theorem,
`ReplayNeverFails` and, behind a void cursor, `AgreesWithLog` under the premise above,
without which they do not hold. What is left is liveness, with whatever is ENABLED,
which the prover does not do: `RecoveryConverges`, `EveryLineAnswered`,
`EveryCallAnswered`, `OutcomeKnown`, `OrphansStop`.

## Not modelled

- *Search*: ranking over a read-only snapshot, and the walk over the peer graph, which
  opens other repositories' databases read-only. *Configuration*: path resolution.
- *Query hits*: best effort by design, in a database of its own; the audit's traffic
  arm reads them, which `KbContent` has as a choice among sets of favoured entries.
- How a document is split into chunks and a transcript into turns, the caps of a digest,
  and the redactor: pattern matching on text. `older-than` only reads.
- *The lock's in-process registry*, which turns a thread's waiting for itself into an
  error; the model's lock is the flock.
- A log that was removed (`LogMissing`), the loss of the
  generation sidecar alone.
- The full-text index, cues, weights of sessions; embedding itself.
- An upsert with `is_stale: true`: replay clears the entry's evidence, vector and cues,
  and compaction drops it unless an audit needs it (`db.rs:1871-1886`, `compact.rs:178-184`,
  `286-296`, `373`). No writer of the present code emits one; an older log might hold some.

About half of the lines of the Rust sources are inline tests; much of the rest of
`mcp.rs`, `db.rs` and the commands is argument parsing, schema text, SQL and
rendering, which the models abstract.

## Plan

1. `KbStore`, `KbDurability`, `DurableKb` and their theorems (done).
2. `RebuildManager` and its theorems (done).
3. `LogFormat`, `LogFraming`, `CommittedLog` and their theorems (done).
4. `KbContent`, `BulkCommands`, `PeerGraph`, `KbRepository`, the theorems of the hook,
   of the peer graph, of the history, of the evidence, of the vectors, of the commands
   of several adds, and of what the tables show after any replay, rebuild and compaction
   (done), next a repository without a database, cues, and the caps of
   a digest.
5. `DatabaseSwap` and its theorems (done).
6. `Citations` and its theorems (done), next the search as one step per file.
7. `McpSession` and its theorems (done), next the composition with `RebuildManager`
   under one supervisor.
