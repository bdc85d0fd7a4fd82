----------------------------- MODULE LogFraming -----------------------------
(***************************************************************************)
(* The writer of the event log, write by write: repair of what an          *)
(* interrupted writer left, the span, its sync, and the cursor of the      *)
(* database that follows the log; with write errors, deaths of the writer  *)
(* and power loss at every point.  The repository lock makes writers,      *)
(* recoveries and compactions take turns; readers take no lock, and may    *)
(* read the file as it is in any state.                                    *)
(***************************************************************************)
EXTENDS LogFormat

CONSTANTS
    InitialLogs,      \* logs left by other or older programs
    MaxBatches,       \* bound on batches written
    MaxSize,          \* bound on the events of a batch
    MaxFaults,        \* bound on faults
    MaxCompactions    \* bound on compactions

\* Batch 1 stands for whatever the initial log contains.
ASSUME FramingAssumption ==
    /\ MaxBatches \in Nat /\ MaxSize \in Nat /\ MaxFaults \in Nat /\ MaxCompactions \in Nat
    /\ \A f \in InitialLogs : Log(f) /\ \A i \in DOMAIN Events(f) : Events(f)[i].batch = 1

Batches == 1 .. MaxBatches + 1

VARIABLES
    file,       \* the log, as every process reads it
    told,       \* ghost: Events(file), what a reader gets
    disk,       \* what a power loss may leave of it
    gen,        \* the .generation sidecar
    writer,     \* the process that appends, and what it has yet to write
    cursor,     \* the applied cursor of the database
    applied,    \* ghost: the events the database has applied, in this order
    lastBatch,  \* batch of the last append that was begun
    acked,      \* ghost: batches whose commands reported success
    faults      \* faults injected so far

vars == <<file, told, disk, gen, writer, cursor, applied, lastBatch, acked, faults>>

fileVars == <<file, told>>

dbVars == <<cursor, applied>>

Idle == [pc |-> "idle", n |-> 0, todo |-> <<>>]

NoCursor == [gen |-> -1, off |-> 0, seen |-> <<>>]

\* The hash of the cursor is taken for what it hashes.
CursorAt(f, offset) == [gen |-> gen, off |-> offset, seen |-> UpTo(f, offset)]

At(label) == writer.pc = label

Goto(label) == writer' = [writer EXCEPT !.pc = label]

Stop == writer' = Idle

\* The file changes, and a power loss may leave it as it was at any time since
\* it was last synced.
Become(f) == file' = f /\ told' = Events(f)

Change(f) == Become(f) /\ disk' = disk \cup {f}

Fault == faults < MaxFaults /\ faults' = faults + 1

Init ==
    /\ file \in InitialLogs
    /\ told = Events(file)
    /\ disk = {file}
    /\ gen = 0
    /\ writer = Idle
    /\ cursor = NoCursor
    /\ applied = <<>>
    /\ lastBatch = 1
    /\ acked = {}
    /\ faults = 0

-----------------------------------------------------------------------------
(* inspect, as far as the log is concerned.                                *)

Decision ==
    LET committed == CommittedLen(file)
    IN  IF cursor = NoCursor THEN "CursorMissing"
        ELSE IF committed = Malformed THEN "Defer"
        ELSE IF cursor.gen # gen THEN "GenerationMismatch"
        ELSE IF cursor.off > committed THEN "OffsetBeyondLog"
        ELSE IF cursor.seen # UpTo(file, cursor.off) THEN "TailShaMismatch"
        ELSE IF cursor.off = committed THEN "NoOp"
        ELSE IF ReadableFrom(file, cursor.off) THEN "ReplayTail"
        ELSE "Defer"

-----------------------------------------------------------------------------
(* append_events_batch.                                                    *)

AppendBatch(n) ==
    /\ At("idle")
    /\ lastBatch <= MaxBatches
    /\ lastBatch' = lastBatch + 1
    /\ writer' = [pc |-> "repair", n |-> n, todo |-> Span(lastBatch + 1, n)]
    /\ UNCHANGED <<fileVars, disk, gen, dbVars, acked, faults>>

\* Mutant: append whether or not the database has the log's events.
BeginUnconverged == \E n \in 1 .. MaxSize : AppendBatch(n)

\* The gate of a write: recovery has made the database converge.
BeginAppend == Decision = "NoOp" /\ \E n \in 1 .. MaxSize : AppendBatch(n)

\* Mutant: append after whatever is there.
RepairNothing ==
    /\ At("repair")
    /\ Goto("write")
    /\ UNCHANGED <<fileVars, disk, gen, dbVars, lastBatch, acked, faults>>

NeedsNoRepair == file = <<>> \/ EndsOnIntactSpan(file)

RepairNotNeeded ==
    /\ At("repair")
    /\ NeedsNoRepair
    /\ Goto("write")
    /\ UNCHANGED <<fileVars, disk, gen, dbVars, lastBatch, acked, faults>>

\* An uncommitted span is cut off; keeping it in a sidecar is best effort.
RepairDanglingSpan ==
    /\ At("repair")
    /\ ~NeedsNoRepair
    /\ TrustedDanglingStart(file) >= 0
    /\ Change(UpTo(file, TrustedDanglingStart(file)))
    /\ Goto("write")
    /\ UNCHANGED <<gen, dbVars, lastBatch, acked, faults>>

\* The full scan decides what is cut off, if anything.
RepairByScan ==
    /\ At("repair")
    /\ ~NeedsNoRepair
    /\ TrustedDanglingStart(file) = NoSpan
    /\ Readable(file)
    /\ Change(UpTo(file, Scan(file).committed))
    /\ Goto("terminate")
    /\ UNCHANGED <<gen, dbVars, lastBatch, acked, faults>>

TailOpensSpan == Head(Rest(file, Scan(file).committed)).kind = "begin"

\* The log cannot be read; or its torn tail opens no span, and could not be
\* saved to its sidecar.
RepairFail ==
    /\ At("repair")
    /\ ~NeedsNoRepair
    /\ \/ TrustedDanglingStart(file) = Malformed /\ UNCHANGED faults
       \/ TrustedDanglingStart(file) = NoSpan /\ ~Readable(file) /\ UNCHANGED faults
       \/ /\ TrustedDanglingStart(file) = NoSpan
          /\ Readable(file)
          /\ Scan(file).committed < Size(file)
          /\ ~TailOpensSpan
          /\ Fault
    /\ Stop
    /\ UNCHANGED <<fileVars, disk, gen, dbVars, lastBatch, acked>>

\* What survives may be a record that never got its newline.
TerminateLastLine ==
    /\ At("terminate")
    /\ IF file = <<>> \/ LastEnded(file)
       THEN UNCHANGED <<fileVars, disk>>
       ELSE Change(EndLine(file))
    /\ Goto("write")
    /\ UNCHANGED <<gen, dbVars, lastBatch, acked, faults>>

\* A line takes two writes, of its text and of the newline.
WriteText ==
    /\ At("write")
    /\ Change(Write(file, Head(writer.todo)))
    /\ Goto("end_line")
    /\ UNCHANGED <<gen, dbVars, lastBatch, acked, faults>>

WriteNewline ==
    /\ At("end_line")
    /\ Change(EndLine(file))
    /\ writer' = [writer EXCEPT !.todo = Tail(@),
                                !.pc = IF Len(writer.todo) = 1 THEN "sync" ELSE "write"]
    /\ UNCHANGED <<gen, dbVars, lastBatch, acked, faults>>

\* A write error, or the death of the writer, in the middle of a span: text may
\* be written in part.
WriteFail ==
    /\ writer.pc \in {"write", "end_line"}
    /\ Fault
    /\ \/ UNCHANGED <<fileVars, disk>>
       \/ At("write") /\ Change(Write(file, Torn))
    /\ Stop
    /\ UNCHANGED <<gen, dbVars, lastBatch, acked>>

SyncLog ==
    /\ At("sync")
    /\ disk' = {file}
    /\ Goto("apply")
    /\ UNCHANGED <<fileVars, gen, dbVars, lastBatch, acked, faults>>

\* The sync or the apply fails, or the writer dies anywhere else.
GiveUp ==
    /\ writer.pc \in {"repair", "terminate", "sync", "apply"}
    /\ Fault
    /\ Stop
    /\ UNCHANGED <<fileVars, disk, gen, dbVars, lastBatch, acked>>

\* Returned by the append: the length of the file it has just closed a span in.
Appended == Size(file)

Apply ==
    /\ At("apply")
    /\ cursor' = CursorAt(file, Appended)
    /\ applied' = applied \o [i \in 1 .. writer.n |-> Event(lastBatch, i)]
    /\ acked' = acked \cup {lastBatch}
    /\ Stop
    /\ UNCHANGED <<fileVars, disk, gen, lastBatch, faults>>

-----------------------------------------------------------------------------
(* The other users of the log that hold the lock.                          *)

ReplayTail ==
    /\ At("idle")
    /\ Decision = "ReplayTail"
    /\ cursor' = CursorAt(file, CommittedFrom(file, cursor.off))
    /\ applied' = applied \o EventsFrom(file, cursor.off)
    /\ UNCHANGED <<fileVars, disk, gen, writer, lastBatch, acked, faults>>

Rebuild ==
    /\ At("idle")
    /\ Readable(file)
    /\ cursor' = CursorAt(file, Scan(file).committed)
    /\ applied' = told
    /\ UNCHANGED <<fileVars, disk, gen, writer, lastBatch, acked, faults>>

\* The rewritten log has no markers, here it has all events; its generation is
\* bumped first.  Without a database nothing gates it.
Compact ==
    /\ At("idle")
    /\ Decision \in {"CursorMissing", "NoOp"}
    /\ Readable(file)
    /\ gen < MaxCompactions
    /\ gen' = gen + 1
    /\ Become([i \in DOMAIN told |-> Ended(told[i])])
    /\ disk' \in {{file'}, disk \cup {file'}}
    /\ UNCHANGED <<writer, dbVars, lastBatch, acked, faults>>

PowerLoss ==
    /\ Fault
    /\ \E f \in disk : Become(f) /\ disk' = {f}
    /\ Stop
    /\ UNCHANGED <<gen, dbVars, lastBatch, acked>>

Next ==
    \/ BeginAppend
    \/ RepairNotNeeded \/ RepairDanglingSpan \/ RepairByScan \/ RepairFail
    \/ TerminateLastLine \/ WriteText \/ WriteNewline \/ WriteFail \/ SyncLog \/ Apply \/ GiveUp
    \/ ReplayTail \/ Rebuild \/ Compact
    \/ PowerLoss

Spec == Init /\ [][Next]_vars

-----------------------------------------------------------------------------
(* Properties.                                                             *)

\* No step of a writer, no death and no power loss makes a log that could be
\* read unreadable, for readers that look at any moment.
ReadersNeverBreak == [][Readable(file) => Readable(file')]_vars

\* The shortcuts that spare a writer the full scan agree with it: on logs of
\* other programs, on what interrupted writers leave, wherever a window starts.
ShortcutAgrees == Readable(file) => CommittedLen(file) = Scan(file).committed

\* A cursor that inspect accepts splits the log between two batches: what is
\* applied, and what a replay from the cursor would add, are the whole log. And
\* whoever holds the lock defers to an operator only for damage to the log; a
\* cursor at the end of a record, wherever the line ends, is never the reason.
CursorSplits ==
    /\ Decision \in {"NoOp", "ReplayTail"} =>
           applied \o EventsFrom(file, cursor.off) = told
    /\ At("idle") /\ IsRecordBoundary(cursor.off) /\ Decision = "Defer" => ~Readable(file)

Promise == INSTANCE CommittedLog WITH visible <- told

\* Readers see whole batches in order; a crash takes back whole batches from
\* the end, and none that was acknowledged.
KeepsPromise == Promise!Spec
=============================================================================
