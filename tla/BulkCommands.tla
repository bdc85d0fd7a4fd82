---------------------------- MODULE BulkCommands ----------------------------
(* The commands that take the lock more than once: `kb ingest` adds a        *)
(* document chunk by chunk, `kb import` and the tool kb_import a seed file    *)
(* entry by entry, and the session hook digests what it has not read of a     *)
(* transcript and then moves its offset, under a lock of its own. Each add is *)
(* that of KbContent; between two of them others write, and any of the        *)
(* commands may die.                                                          *)
EXTENDS KbContent

CONSTANTS
    Bulk,        \* the processes
    Items,       \* chunks of the document, entries of the seed file: of one path
    MaxTurns     \* bound on the turns of the session

ASSUME BulkAssumption == Items \in Nat \ {0} /\ MaxTurns \in Nat

VARIABLES
    bulk,        \* what each process is doing
    stamped,     \* the seed file has its stamp beside it
    transcript,  \* turns in the transcript
    offset,      \* the state file: which file it is, and how far the hook has read
    digests,     \* [ts, from, to]: the turns that the digest written at ts was made of
    peak,        \* ghost: the highest offset anyone wrote
    stray        \* ghost: somebody took the lock of a state file that was replaced

bulkVars == <<bulk, stamped, transcript, offset, digests, peak, stray>>
hookVars == <<transcript, offset, digests, peak, stray>>

Idle == [pc |-> "idle"]
ThePath == CHOOSE path \in Paths : TRUE
LiveHere == {e \in Entries : LiveIn(db, e) /\ db.entries[e].path = ThePath}

\* Somebody wrote: what is at the path is no longer the work of one command.
Disturbed ==
    [p \in Bulk |-> IF bulk[p].pc \in {"adding", "done"} THEN [bulk[p] EXCEPT !.alone = FALSE]
                    ELSE bulk[p]]

\* A failed add ends the command; who dies after the append leaves it as well.
Goes(p, next) ==
    bulk' = [Disturbed EXCEPT ![p] = IF applied' = Len(log') THEN next ELSE Idle]

AtPath(e, kind, replace) ==
    [id |-> e, path |-> ThePath, kind |-> kind, permanent |-> FALSE, replace |-> replace,
     cites |-> 0]

-----------------------------------------------------------------------------
(* Ingest and import.                                                        *)

ToolJobs == {"kb_import", "kb_upsert"}
Jobs == {"ingest", "import"} \cup ToolJobs

\* Mutant: what kb ingest once did, every chunk replaces what is at the path.
ReplacesAll(job, k) == job \notin ToolJobs

\* The first chunk of a document; every entry of kb import; none of the tool's, with
\* or without upsert.
Replaces(job, k) == job = "import" \/ (job = "ingest" /\ k = 1)

JobBegins(p, job) ==
    /\ Uses(job)
    /\ bulk[p].pc \in {"idle", "done"}
    /\ job = "import" => ~stamped
    /\ bulk' = [bulk EXCEPT ![p] = [pc |-> "adding", job |-> job, k |-> 1, ids |-> {},
                                    alone |-> TRUE]]
    /\ UNCHANGED <<vars, stamped, hookVars>>

NextItem(p) == [bulk[p] EXCEPT !.k = @ + 1]

\* kb_import looks for the path under the lock it adds with, unless it is to upsert.
Skips(p) == bulk[p].job = "kb_import" /\ LiveHere # {}

\* An id is fresh, or that of an entry the same batch expires.
AddItem(p) ==
    /\ bulk[p].pc = "adding" /\ bulk[p].k <= Items
    /\ ~Skips(p)
    /\ LET replace == Replaces(bulk[p].job, bulk[p].k)
           before == IF bulk[p].job = "import" THEN {} ELSE bulk[p].ids
       IN \E e \in Entries :
             /\ replace \/ ~LiveIn(db, e)
             /\ Add(AtPath(e, "convention", replace))
             /\ Goes(p, [NextItem(p) EXCEPT !.ids = before \cup {e}])
    /\ UNCHANGED <<stamped, hookVars>>

\* Only an add asks for the cursor: the rows a skip is decided on may be behind the log.
SkipItem(p) ==
    /\ bulk[p].pc = "adding" /\ bulk[p].k <= Items
    /\ Skips(p)
    /\ bulk' = [bulk EXCEPT ![p] = [NextItem(p) EXCEPT !.alone = @ /\ Converged]]
    /\ UNCHANGED <<vars, stamped, hookVars>>

\* kb import writes its stamp.
JobEnds(p) ==
    /\ bulk[p].pc = "adding" /\ bulk[p].k > Items
    /\ bulk' = [bulk EXCEPT ![p].pc = "done"]
    /\ stamped' = (stamped \/ bulk[p].job = "import")
    /\ UNCHANGED <<vars, hookVars>>

-----------------------------------------------------------------------------
(* The digest of a session.                                                  *)

\* The transcript is read whole, and after it the offset under the lock of the state
\* file: by then the transcript may be longer.
DigestBegins(p) ==
    /\ Uses("digest")
    /\ bulk[p].pc \in {"idle", "done"}
    /\ \E read \in offset.at + 1..transcript :
          bulk' = [bulk EXCEPT ![p] = [pc |-> "looking", from |-> offset.at, to |-> read]]
    /\ UNCHANGED <<vars, stamped, hookVars>>

Newest == CHOOSE e \in LiveHere : \A f \in LiveHere : db.entries[f].text <= db.entries[e].text

\* Mutant: any digest will do.
AnyDigest(from, to) == LiveHere # {} /\ \E d \in digests : d.ts = db.entries[Newest].text

\* The tag of the last entry at the path has the hash of these turns.
AlreadyDigested(from, to) ==
    /\ LiveHere # {}
    /\ [ts |-> db.entries[Newest].text, from |-> from, to |-> to] \in digests

DigestLooks(p) ==
    /\ bulk[p].pc = "looking"
    /\ bulk' = [bulk EXCEPT ![p].pc = IF AlreadyDigested(bulk[p].from, bulk[p].to)
                                      THEN "opening" ELSE "digesting"]
    /\ UNCHANGED <<vars, stamped, hookVars>>

DigestAdds(p) ==
    /\ bulk[p].pc = "digesting"
    /\ \E e \in Entries : Add(AtPath(e, "memory", TRUE))
    /\ digests' = digests \cup {[ts |-> Now, from |-> bulk[p].from, to |-> bulk[p].to]}
    /\ Goes(p, [bulk[p] EXCEPT !.pc = "opening"])
    /\ UNCHANGED <<stamped, transcript, offset, peak, stray>>

\* The lock is that of the state file, which every advance replaces: whoever has
\* opened it and waits gets the lock of a file that has no name any more.
OpensState(p) ==
    /\ bulk[p].pc = "opening"
    /\ bulk' = [bulk EXCEPT ![p] = [pc |-> "locking", to |-> bulk[p].to, file |-> offset.file]]
    /\ UNCHANGED <<vars, stamped, hookVars>>

\* Mutant: the lock is shared.
NobodyHolds(file) == {}

Holders(file) == {q \in Bulk : bulk[q].pc = "advancing" /\ bulk[q].file = file}

\* The state is read by its name; an offset that does not advance is refused.
LocksState(p) ==
    /\ bulk[p].pc = "locking"
    /\ Holders(bulk[p].file) = {}
    /\ stray' = (stray \/ bulk[p].file # offset.file)
    /\ bulk' = [bulk EXCEPT ![p] = IF @.to > offset.at THEN [@ EXCEPT !.pc = "advancing"]
                                   ELSE Idle]
    /\ UNCHANGED <<vars, stamped, transcript, offset, digests, peak>>

Files == {offset.file} \cup {bulk[q].file : q \in {r \in Bulk : bulk[r].pc \in {"locking", "advancing"}}}

\* A temporary file is written, synced and renamed into place, the lock released.
AdvancesState(p) ==
    /\ bulk[p].pc = "advancing"
    /\ offset' = [file |-> CHOOSE n \in 0..Cardinality(Files) : n \notin Files, at |-> bulk[p].to]
    /\ peak' = Max({peak, bulk[p].to})
    /\ bulk' = [bulk EXCEPT ![p] = Idle]
    /\ UNCHANGED <<vars, stamped, transcript, digests, stray>>

SessionGoesOn ==
    /\ Uses("digest")
    /\ transcript < MaxTurns
    /\ transcript' = transcript + 1
    /\ UNCHANGED <<vars, bulk, stamped, offset, digests, peak, stray>>

-----------------------------------------------------------------------------

\* It is killed, or its next add is refused.
Dies(p) ==
    /\ bulk[p].pc \notin {"idle", "done"}
    /\ bulk' = [bulk EXCEPT ![p] = Idle]
    /\ UNCHANGED <<vars, stamped, hookVars>>

BulkInit ==
    /\ bulk = [p \in Bulk |-> Idle]
    /\ stamped = FALSE
    /\ transcript = 0 /\ offset = [file |-> 0, at |-> 0]
    /\ digests = {} /\ peak = 0 /\ stray = FALSE

BulkNext ==
    \/ \E p \in Bulk :
          \/ \E job \in Jobs : JobBegins(p, job)
          \/ AddItem(p) \/ SkipItem(p) \/ JobEnds(p)
          \/ DigestBegins(p) \/ DigestLooks(p) \/ DigestAdds(p)
          \/ OpensState(p) \/ LocksState(p) \/ AdvancesState(p)
          \/ Dies(p)
    \/ SessionGoesOn

-----------------------------------------------------------------------------
(* Properties.                                                               *)

\* Who ends a document or a file, with nobody else writing in between or since, and
\* has skipped nothing for rows that an event in the log already takes away, has left
\* at the path: exactly the chunks of the document (ingest.rs: "non-stale entries
\* cover all chunk indices {0..N-1}"), the last entry of the file of kb import, one
\* entry at most of the file of kb_import (mcp.rs: "prevents two importers from both
\* observing this seed's path absent and both adding it"), all of it with upsert. So it
\* is whatever a command that was killed left there before, and whatever compactions,
\* recoveries and rebuilds came between two adds.
BulkIsWhole ==
    \A p \in Bulk : Converged /\ bulk[p].pc = "done" /\ bulk[p].alone =>
        \/ bulk[p].job \in {"ingest", "import"} /\ LiveHere = bulk[p].ids
        \/ bulk[p].job = "kb_import" /\ LiveHere # {} /\ Cardinality(bulk[p].ids) <= 1
        \/ bulk[p].job = "kb_upsert" /\ bulk[p].ids \subseteq LiveHere

\* The offset has passed no turn of which no digest was written, wherever hooks
\* died, whoever raced, and also when the offset went back (digest.rs: "A crash
\* before it re-queues the same turns on the next invocation").
TurnsDigested ==
    \A t \in 1..offset.at : \E d \in digests : d.from < t /\ t <= d.to

\* The offset is the highest that any hook wrote (transcript_state.rs, tests:
\* "state file offset must equal the highest successfully committed value"), as
\* long as nobody got the lock of a state file that had been replaced.
OffsetIsPeak == ~stray => offset.at = peak

=============================================================================
