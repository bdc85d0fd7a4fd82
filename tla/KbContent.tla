------------------------------ MODULE KbContent ------------------------------
(* What the events of the log say and what the database holds of them: the   *)
(* meaning of every event (apply_event), the ten writers, the audit protocol *)
(* and the rewrite of the log by a compaction, which keeps evidence, audit   *)
(* batches and run history by rules of its own.                              *)
(*                                                                           *)
(* A writer holds the repository lock from its first read to its append and  *)
(* apply, so each is one step here; a crash between the append and the apply *)
(* is a choice of the step. How that pair survives kills, power losses and   *)
(* concurrent rebuilds is the subject of KbDurability, where an event is a   *)
(* version of an entry; here the events have their content and the process   *)
(* is one.                                                                   *)
EXTENDS Integers, SequencesExt, FiniteSetsExt

CONSTANTS
    Entries,       \* ids of entries
    Paths,         \* what entries are about
    Tests,         \* ids of test cases
    Drafts,        \* the entries that clients add
    Samples,       \* the sample sizes clients ask an audit for
    Heated,        \* the sets of entries the query log may favour
    InitialLogs,   \* logs that earlier versions left
    Workloads      \* what the clients of a behaviour do: the operations they use
                   \* and the bound on the batches they write

Absent == [live |-> FALSE, row |-> FALSE]
Mandated == {"belief", "observation", "procedure"}
Kinds == Mandated \cup {"convention", "memory"}
Answers == {"true", "false"}
Arms == {"uniform", "traffic"}

EvidenceOps == {"evidence_add", "citation_healed", "evidence_expire"}

\* The events, as far as what they name is concerned.
IsEvent(ev) ==
    \/ ev.op = "upsert" /\ ev.id \in Entries /\ ev.kind \in Kinds \cup {"none"}
    \/ ev.op \in {"expire"} \cup EvidenceOps /\ ev.id \in Entries
    \/ ev.op = "candidates" /\ DOMAIN ev.arms \subseteq Entries
    \/ /\ ev.op = "verdicts" /\ DOMAIN ev.answers \subseteq Entries
       /\ \A e \in DOMAIN ev.answers : ev.answers[e] \in Answers
    \/ ev.op = "test" /\ ev.id \in Tests
    \/ ev.op = "run" /\ ev.id \in Tests /\ ev.key \in Nat

IsLog(L) == L \in Seq({L[i] : i \in DOMAIN L}) /\ \A i \in DOMAIN L : IsEvent(L[i])

ASSUME ContentAssumption ==
    /\ IsFiniteSet(Entries)
    /\ \A d \in Drafts :
          /\ d.id \in Entries /\ d.path \in Paths /\ d.kind \in Kinds
          /\ d.permanent \in BOOLEAN /\ d.replace \in BOOLEAN /\ d.cites \in Nat
    /\ Samples \subseteq Nat \ {0}
    /\ \A L \in InitialLogs : IsLog(L)
    /\ \A w \in Workloads : w.writes \in Nat

VARIABLES
    log,        \* the committed events
    db,         \* the tables materialized from them
    applied,    \* the applied cursor: the events of the log that db holds
    writes,     \* batches written so far; stands for the time and fresh ids
    reembed,    \* the process that embeds what has no vector
    workload    \* what the clients of this behaviour do

vars == <<log, db, applied, writes, reembed, workload>>

-----------------------------------------------------------------------------
(* The tables.                                                             *)

NoVector == -1

Empty ==
    [entries    |-> [e \in Entries |-> Absent],
     evidence   |-> {},      \* [ev, owner, at]
     candidates |-> {},      \* <<run, entry, arm>>
     verdicts   |-> {},      \* <<run, entry, answer>>
     weights    |-> [k \in Kinds |-> [good |-> 0, bad |-> 0]],
     tests      |-> [t \in Tests |-> 0],
     runs       |-> {},      \* [key, ordinal, test]
     emb        |-> [e \in Entries |-> NoVector],  \* the text that is embedded
     failed     |-> FALSE]   \* an event could not be applied

LiveIn(d, e) == d.entries[e].live
CitedBy(d, e) == {r \in d.evidence : r.owner = e}

\* compute_evidence_status
EvidenceStatus(d, e) ==
    IF d.entries[e].kind \notin Mandated THEN "n/a"
    ELSE IF CitedBy(d, e) # {} THEN "present" ELSE "missing"

WithStatus(d, e) == [d EXCEPT !.entries[e].status = EvidenceStatus(d, e)]

\* An upsert keeps the evidence of the entry and derives the status from it; one
\* without a kind, of an earlier version, keeps the status of the row instead. A
\* process without an embedder leaves the vector that is there.
ApplyUpsert(d, ev, embeds) ==
    LET e == ev.id
        old == d.entries[e]
        row == [live |-> TRUE, row |-> TRUE, path |-> ev.path,
                permanent |-> ev.permanent, updated |-> ev.ts, text |-> ev.ts,
                kind |-> IF ev.kind = "none" THEN "belief" ELSE ev.kind,
                status |-> IF old.row THEN old.status ELSE "n/a"]
        put == [d EXCEPT !.entries[e] = row, !.emb[e] = IF embeds THEN row.text ELSE @]
    IN IF ev.kind = "none" THEN put ELSE WithStatus(put, e)

\* expire_entry_materialized: the rows stay, stale; their evidence and vectors go.
Expired(d, ended, ts) ==
    [d EXCEPT
        !.evidence = {r \in @ : r.owner \notin ended},
        !.emb = [e \in Entries |-> IF e \in ended THEN NoVector ELSE @[e]],
        !.entries = [e \in Entries |->
            IF e \in ended /\ @[e].row
            THEN [@[e] EXCEPT !.live = FALSE, !.status = "n/a", !.updated = ts] ELSE @[e]]]

ApplyExpire(d, ev) == Expired(d, {ev.id}, ev.ts)

\* Evidence of an absent or stale entry is skipped, an id that is taken ignored.
ApplyEvidenceAdd(d, ev) ==
    LET taken == \E r \in d.evidence : r.ev = ev.ev
        new == IF taken THEN {} ELSE {[ev |-> ev.ev, owner |-> ev.id, at |-> ev.at]}
        put == [d EXCEPT !.evidence = @ \cup new, !.entries[ev.id].updated = ev.ts]
    IN IF LiveIn(d, ev.id) THEN WithStatus(put, ev.id) ELSE d

\* A heal rewrites where a row points and nothing else.
ApplyHealed(d, ev) ==
    [d EXCEPT !.evidence =
        {IF r.ev = ev.ev /\ r.owner = ev.id THEN [r EXCEPT !.at = ev.at] ELSE r : r \in @}]

ApplyEvidenceExpire(d, ev) ==
    LET put == [d EXCEPT !.evidence = {r \in @ : ~(r.ev = ev.ev /\ r.owner = ev.id)},
                         !.entries[ev.id].updated = ev.ts]
    IN IF LiveIn(d, ev.id) THEN WithStatus(put, ev.id) ELSE d

\* The candidates of a run; another arm for the same pair fails the event.
ApplyCandidates(d, ev) ==
    LET pairs == {<<ev.run, e, ev.arms[e]>> : e \in DOMAIN ev.arms}
        conflict == \E c \in d.candidates, p \in pairs :
                        c[1] = p[1] /\ c[2] = p[2] /\ c[3] # p[3]
    IN IF conflict THEN [d EXCEPT !.failed = TRUE]
       ELSE [d EXCEPT !.candidates = @ \cup pairs]

Answered(d, run, e) == {v[3] : v \in {x \in d.verdicts : x[1] = run /\ x[2] = e}}

\* The verdicts of a batch: one that is recorded is skipped, one that differs
\* from what is recorded, or whose entry has no row, fails the whole event. A new
\* one is recorded and counted for the kind of its entry, which ends if it is false.
ApplyVerdicts(d, ev) ==
    LET judged == {e \in DOMAIN ev.answers : Answered(d, ev.run, e) # {}}
        new == DOMAIN ev.answers \ judged
        bad == \/ \E e \in judged : Answered(d, ev.run, e) # {ev.answers[e]}
               \/ \E e \in new : ~d.entries[e].row
        Of(k, answer) == {e \in new : d.entries[e].kind = k /\ ev.answers[e] = answer}
        counted ==
            [d EXCEPT
                !.verdicts = @ \cup {<<ev.run, e, ev.answers[e]>> : e \in new},
                !.weights = [k \in Kinds |->
                    [good |-> @[k].good + Cardinality(Of(k, "true")),
                     bad |-> @[k].bad + Cardinality(Of(k, "false"))]]]
    IN IF bad THEN [d EXCEPT !.failed = TRUE]
       ELSE Expired(counted, {e \in new : ev.answers[e] = "false"}, ev.ts)

ApplyTest(d, ev) == [d EXCEPT !.tests[ev.id] = ev.ts]

\* A run names its test case (a foreign key). One without an id, of an earlier
\* version, is keyed by its content and an ordinal: its occurrence in the log when
\* the replay knows it, the rows with the same content otherwise. A key that
\* exists is left alone.
Unknown == -1
SameContent(d, ev) == {r \in d.runs : r.key = ev.key /\ r.test = ev.id}

ApplyRun(d, ev, occurrence) ==
    LET ordinal == IF ev.key # 0 THEN 0
                   ELSE IF occurrence # Unknown THEN occurrence
                   ELSE Cardinality(SameContent(d, ev))
        row == [key |-> ev.key, ordinal |-> ordinal, test |-> ev.id]
    IN IF d.tests[ev.id] = 0 THEN [d EXCEPT !.failed = TRUE]
       ELSE [d EXCEPT !.runs = @ \cup {row}]

Apply(d, ev, occurrence, embeds) ==
    CASE ev.op = "upsert" -> ApplyUpsert(d, ev, embeds)
      [] ev.op = "expire" -> ApplyExpire(d, ev)
      [] ev.op = "evidence_add" -> ApplyEvidenceAdd(d, ev)
      [] ev.op = "citation_healed" -> ApplyHealed(d, ev)
      [] ev.op = "evidence_expire" -> ApplyEvidenceExpire(d, ev)
      [] ev.op = "candidates" -> ApplyCandidates(d, ev)
      [] ev.op = "verdicts" -> ApplyVerdicts(d, ev)
      [] ev.op = "test" -> ApplyTest(d, ev)
      [] ev.op = "run" -> ApplyRun(d, ev, occurrence)

IsLegacyRun(ev) == ev.op = "run" /\ ev.key = 0

\* legacy_run_occurrences: the place of event i among those of the same content.
Occurrence(events, i) ==
    IF ~IsLegacyRun(events[i]) THEN Unknown
    ELSE Cardinality({j \in 1..i - 1 : IsLegacyRun(events[j]) /\ events[j].id = events[i].id})

\* The events that follow the first from of them, one after the other.
Replay(d, events, from, counts, embeds) ==
    LET after[i \in from..Len(events)] ==
            IF i = from THEN d
            ELSE Apply(after[i - 1], events[i],
                       IF counts THEN Occurrence(events, i) ELSE Unknown, embeds)
    IN after[Len(events)]

\* A rebuild replays the log onto an empty database.
Materialize(events, embeds) == Replay(Empty, events, 0, FALSE, embeds)

\* replay_tail_locked replays what follows the cursor.
ReplayTail(d, events, from, embeds) == Replay(d, events, from, TRUE, embeds)

-----------------------------------------------------------------------------
(* The rewrite of a compaction. L is the log; an index stands for an event.  *)

\* What ends an entry: its expiry, or a batch that answers false for it.
Ends(ev, e) == \/ ev.op = "expire" /\ ev.id = e
               \/ ev.op = "verdicts" /\ e \in DOMAIN ev.answers /\ ev.answers[e] = "false"

Upserts(L, e) == {i \in DOMAIN L : L[i].op = "upsert" /\ L[i].id = e}
Sampled(L, e) == {i \in DOMAIN L : L[i].op = "candidates" /\ e \in DOMAIN L[i].arms}
Audited(L, e) == {i \in DOMAIN L : L[i].op = "verdicts" /\ e \in DOMAIN L[i].answers}

LatestUpsert(L, e, i) == Max({u \in Upserts(L, e) : u <= i} \cup {0})

\* Mutant: only the first end of an entry is remembered.
FirstEnd(L, e, i) ==
    IF \E x \in 1..i : Ends(L[x], e) THEN Min({x \in 1..i : Ends(L[x], e)}) ELSE 0

LatestEnd(L, e, i) == Max({x \in 1..i : Ends(L[x], e)} \cup {0})

\* live_at_cursor
LiveAt(L, e, i) == LatestUpsert(L, e, i) > LatestEnd(L, e, i)

\* Mutant: upserts are kept for the rows that were sampled, not for those judged.
SampledUpserts(L, e) == {u \in Upserts(L, e) : \E c \in Sampled(L, e) : c < u}

\* audit_required_entry_upserts: the upserts that gave a sampled or judged row
\* its content, and all those after the entry was first sampled.
AuditUpserts(L, e) ==
    ({LatestUpsert(L, e, i) : i \in Sampled(L, e) \cup Audited(L, e)} \ {0})
        \cup {u \in Upserts(L, e) : \E c \in Sampled(L, e) : c < u}

\* Mutant: the expiry of a sampled entry is dropped like any other.
NoExpires(L, e) == {}

\* audit_required_expire_indices
AuditExpires(L, e) ==
    {i \in DOMAIN L : /\ L[i].op = "expire" /\ L[i].id = e
                      /\ \E c \in Sampled(L, e) : c < i}

\* The last upsert of an entry that is not ended after it.
LastUpserts(L, e) == IF LiveAt(L, e, Len(L)) THEN {LatestUpsert(L, e, Len(L))} ELSE {}

LastTests(L) ==
    {i \in DOMAIN L : /\ L[i].op = "test"
                      /\ \A j \in i + 1..Len(L) : ~(L[j].op = "test" /\ L[j].id = L[i].id)}

\* Mutant: the cap that D5.2 removed, at one run.
LastRun(L) ==
    {i \in DOMAIN L : \/ L[i].op \in {"candidates", "verdicts"}
                      \/ L[i].op = "run" /\ \A j \in i + 1..Len(L) : L[j].op # "run"}

\* D5.2: every run and every audit batch is kept.
History(L) == {i \in DOMAIN L : L[i].op \in {"run", "candidates", "verdicts"}}

\* evidence_owner_by_id after each event: who holds which evidence id.
Owners(L) ==
    LET own[i \in 0..Len(L)] ==
            IF i = 0 THEN {}
            ELSE LET ev == L[i]
                 IN CASE ev.op = "evidence_add" ->
                            IF /\ LiveAt(L, ev.id, i - 1)
                               /\ \A p \in own[i - 1] : p[1] # ev.ev
                            THEN own[i - 1] \cup {<<ev.ev, ev.id>>} ELSE own[i - 1]
                      [] ev.op = "evidence_expire" ->
                            IF LiveAt(L, ev.id, i - 1)
                            THEN own[i - 1] \ {<<ev.ev, ev.id>>} ELSE own[i - 1]
                      [] OTHER -> {p \in own[i - 1] : ~Ends(ev, p[2])}
    IN own

\* Evidence of an entry that is live at the end, written since its last end to a
\* live entry; an add only when it took an id nobody held.
KeptEvidence(L) ==
    LET own == Owners(L)
    IN {i \in DOMAIN L :
            /\ L[i].op \in EvidenceOps
            /\ LiveAt(L, L[i].id, Len(L))
            /\ LiveAt(L, L[i].id, i - 1)
            /\ i > LatestEnd(L, L[i].id, Len(L))
            /\ L[i].op = "evidence_add" => own[i] # own[i - 1]}

\* Kept evidence follows the upsert it was written under, which is kept for it.
Anchor(L, i) == LatestUpsert(L, L[i].id, i)

Place(L, evidence, i) == IF i \in evidence THEN Anchor(L, i) ELSE i

\* Mutant: the evidence goes before its upsert.
PrecedesReversed(L, evidence, j, i) ==
    \/ Place(L, evidence, j) < Place(L, evidence, i)
    \/ Place(L, evidence, j) = Place(L, evidence, i) /\ j > i

Precedes(L, evidence, j, i) ==
    \/ Place(L, evidence, j) < Place(L, evidence, i)
    \/ Place(L, evidence, j) = Place(L, evidence, i) /\ j < i

Compacted(L) ==
    LET evidence == KeptEvidence(L)
        kept == evidence \cup {Anchor(L, i) : i \in evidence} \cup LastTests(L) \cup History(L)
                    \cup UNION {LastUpserts(L, e) \cup AuditUpserts(L, e) \cup AuditExpires(L, e) :
                                   e \in Entries}
        ranked == {<<Cardinality({j \in kept : Precedes(L, evidence, j, i)}), i>> : i \in kept}
    IN [n \in 1..Cardinality(kept) |-> L[(CHOOSE r \in ranked : r[1] = n - 1)[2]]]

\* Who records verdicts skips those that are recorded: a run judges an entry once.
JudgedOnce(L) ==
    \A i, j \in DOMAIN L :
        /\ L[i].op = "verdicts" /\ L[j].op = "verdicts"
        /\ L[i].run = L[j].run /\ i # j
        => DOMAIN L[i].answers \cap DOMAIN L[j].answers = {}

\* Who samples takes live entries, and who records verdicts takes what was sampled.
JudgedAfterSampled(L) ==
    \A e \in Entries : /\ \A c \in Sampled(L, e) : LiveAt(L, e, c)
                       /\ \A i \in Audited(L, e) : \E c \in Sampled(L, e) : c < i

\* Who samples decides the arm of an entry for the whole run.
ArmsAgree(L) ==
    \A i, j \in DOMAIN L :
        L[i].op = "candidates" /\ L[j].op = "candidates" /\ L[i].run = L[j].run
        => \A e \in DOMAIN L[i].arms \cap DOMAIN L[j].arms : L[i].arms[e] = L[j].arms[e]

\* An id of evidence stays with its entry and is used again only when it was given up.
IdsAreOwn(L) ==
    \A i, j \in DOMAIN L :
        i < j /\ L[i].op = "evidence_add" /\ L[j].op = "evidence_add" /\ L[i].ev = L[j].ev
        => /\ L[i].id = L[j].id
           /\ \E k \in i + 1..j - 1 :
                 L[k].op = "evidence_expire" /\ L[k].ev = L[i].ev /\ L[k].id = L[i].id

\* The versions that gave no kind are older than those that do.
KindsComeLast(L) ==
    \A e \in Entries : \A u, v \in Upserts(L, e) :
        u < v /\ L[v].kind = "none" => L[u].kind = "none"

\* A run finds the definition of its test before it.
RunsAreDefined(L) ==
    \A i \in DOMAIN L : L[i].op = "run" =>
        \E j \in 1..i - 1 : L[j].op = "test" /\ L[j].id = L[i].id

\* What sets the time a row was updated, with the time of the text the row then had.
DatingOps == {"upsert", "evidence_add", "evidence_expire"}

Times(L) ==
    {<<L[i].id, L[i].ts, L[LatestUpsert(L, L[i].id, i)].ts>> :
        i \in {j \in DOMAIN L : L[j].op \in DatingOps /\ LatestUpsert(L, L[j].id, j) # 0}}

\* What the writers of earlier versions kept to. Their batches count as batch 0 and
\* before; whatever the clock, it told the texts of an entry apart.
ASSUME EarlierAssumption ==
    \A L \in InitialLogs :
        /\ JudgedOnce(L) /\ JudgedAfterSampled(L) /\ ArmsAgree(L)
        /\ IdsAreOwn(L) /\ KindsComeLast(L)
        /\ \A i \in DOMAIN L :
              /\ L[i].op = "evidence_add" => L[i].ev[1] = 0
              /\ L[i].op = "candidates" => L[i].run = 0
              /\ L[i].op = "test" => L[i].ts # 0
        /\ \A s \in Times(L) : s[2] \in Int /\ s[2] <= 0
        /\ \A s, t \in Times(L) : s[1] = t[1] /\ s[2] = t[2] => s[3] = t[3]

-----------------------------------------------------------------------------
(* The writers. Each takes the lock, reads db, and appends one batch.        *)

\* A cursor of another generation than the log's is of no use: only a rebuild
\* can tell what the database holds.
Void == -1
Converged == applied = Len(log)

\* append_and_apply_writer_events: the batch is durable before it is applied, in
\* one transaction with the cursor. The process may die in between, and an
\* event that cannot be applied rolls the transaction back.
WriteAs(batch, embeds) ==
    /\ Converged /\ writes < workload.writes
    /\ log' = log \o batch
    /\ writes' = writes + 1
    /\ LET after == Replay(db, log \o batch, Len(log), FALSE, embeds)
       IN \/ ~after.failed /\ db' = after /\ applied' = Len(log')
          \/ UNCHANGED <<db, applied>>
    /\ UNCHANGED <<reembed, workload>>

Write(batch) == WriteAs(batch, FALSE)

Uses(op) == op \in workload.ops
Now == writes + 1

\* KB_NO_EMBED: a process may have no embedder.
Embedders == IF Uses("reembed") THEN BOOLEAN ELSE {TRUE}
ExpireEvent(e) == [op |-> "expire", id |-> e, ts |-> Now]

\* add_locked: the live entries at the path are expired first if they are to be
\* replaced; the id may be one that exists. Evidence ids are fresh.
Add(d) ==
    LET replaced == {e \in Entries : LiveIn(db, e) /\ db.entries[e].path = d.path}
        expires == IF d.replace THEN SetToSeq({ExpireEvent(e) : e \in replaced}) ELSE <<>>
        upsert == [op |-> "upsert", id |-> d.id, path |-> d.path, kind |-> d.kind,
                   permanent |-> d.permanent, ts |-> Now]
        adds == [k \in 1..d.cites |->
                     [op |-> "evidence_add", id |-> d.id, ev |-> <<Now, k>>,
                      at |-> Now, ts |-> Now]]
    IN \E embeds \in Embedders : WriteAs(expires \o <<upsert>> \o adds, embeds)

\* kb add
AddEntry(d) == Uses("add") /\ Add(d)

\* kb expire: a permanent entry is refused unless forced; an entry that is not
\* there is expired all the same.
ExpireEntry(e, force) ==
    /\ Uses("expire")
    /\ db.entries[e].row /\ db.entries[e].permanent => force
    /\ Write(<<ExpireEvent(e)>>)

\* kb stale-check with autoheal: the row and its live entry are read again
\* under the lock.
HealCitation(r) ==
    /\ Uses("heal")
    /\ LiveIn(db, r.owner)
    /\ Write(<<[op |-> "citation_healed", id |-> r.owner, ev |-> r.ev, at |-> Now]>>)

Auditable == {e \in Entries : LiveIn(db, e) /\ db.entries[e].status = "present"}
Lesser(m, n) == IF m < n THEN m ELSE n

\* kb audit-run: the uniform arm first, then, of what it left of the sample, the
\* traffic arm among the entries the query log favours.
AuditRun(mode, sample, heated) ==
    /\ Uses("audit")
    /\ \E U \in SUBSET Auditable, T \in SUBSET (Auditable \cap heated) :
          /\ Cardinality(U) = Lesser(IF mode = "traffic" THEN (sample + 1) \div 2 ELSE sample,
                                     Cardinality(Auditable))
          /\ T \cap U = {}
          /\ Cardinality(T) = IF mode = "traffic"
                              THEN Lesser(sample - Cardinality(U),
                                          Cardinality((Auditable \cap heated) \ U))
                              ELSE 0
          /\ U \cup T # {}
          /\ Write(<<[op |-> "candidates", run |-> Now,
                      arms |-> [e \in U \cup T |-> IF e \in U THEN "uniform" ELSE "traffic"]]>>)

Runs == {c[1] : c \in db.candidates}
SampledIn(run) == {c[2] : c \in {x \in db.candidates : x[1] = run}}

\* kb audit-record: verdicts only on what the run sampled, none against a
\* permanent entry, none that contradicts a recorded one; those already recorded
\* are dropped and the others written as one event.
AuditRecord(run, answers) ==
    LET judged == {e \in DOMAIN answers : Answered(db, run, e) # {}}
        pending == DOMAIN answers \ judged
    IN /\ Uses("record")
       /\ DOMAIN answers \subseteq SampledIn(run)
       /\ \A e \in DOMAIN answers :
             /\ db.entries[e].row
             /\ answers[e] = "false" => ~db.entries[e].permanent
       /\ \A e \in judged : Answered(db, run, e) = {answers[e]}
       /\ pending # {}
       /\ Write(<<[op |-> "verdicts", run |-> run, ts |-> Now,
                   answers |-> [e \in pending |-> answers[e]]]>>)

TestAdd(t) == Uses("test_add") /\ Write(<<[op |-> "test", id |-> t, ts |-> Now]>>)

\* kb run: nobody asks whether the test case exists.
RunTest(t) == Uses("run") /\ Write(<<[op |-> "run", id |-> t, key |-> Now]>>)

\* kb compact: refused unless the database is converged. The generation is bumped
\* first, so whether or not the rewrite follows, the cursor is void.
Compact ==
    /\ Uses("compact")
    /\ Converged
    /\ log' \in {log, Compacted(log)}
    /\ applied' = Void
    /\ UNCHANGED <<db, writes, reembed, workload>>

\* Recovery: the tail after a cursor that is valid, or a rebuild from the log. A
\* replay that fails changes nothing (KbDurability has what follows then).
CatchUp ==
    /\ applied \in 0..Len(log) - 1
    /\ \E embeds \in Embedders :
          LET after == ReplayTail(db, log, applied, embeds) IN ~after.failed /\ db' = after
    /\ applied' = Len(log)
    /\ UNCHANGED <<log, writes, reembed, workload>>

\* A rebuild puts another database file in the place of the old.
Rebuild ==
    /\ applied = Void \/ Uses("rebuild")
    /\ \E embeds \in Embedders :
          LET after == Materialize(log, embeds) IN ~after.failed /\ db' = after
    /\ applied' = Len(log)
    /\ reembed' = [reembed EXCEPT !.swapped = reembed.busy]
    /\ UNCHANGED <<log, writes, workload>>

(* kb reembed, beside the writers: it selects the live entries that have no  *)
(* vector and embeds them without the lock, then takes it batch by batch.    *)

Asleep == [busy |-> FALSE, chosen |-> {}, todo |-> {}, swapped |-> FALSE, again |-> FALSE]

ReembedSelect ==
    LET bare == {e \in Entries : LiveIn(db, e) /\ db.emb[e] = NoVector}
        chosen == {[id |-> e, updated |-> db.entries[e].updated, text |-> db.entries[e].text] :
                       e \in bare}
    IN /\ Uses("reembed") /\ ~reembed.busy /\ chosen # {}
       /\ reembed' = [Asleep EXCEPT !.busy = TRUE, !.chosen = chosen, !.todo = chosen]
       /\ UNCHANGED <<log, db, applied, writes, workload>>

\* Mutant: that the row was written again since is not noticed.
StillLive(w) == LiveIn(db, w.id) /\ db.emb[w.id] = NoVector

\* Only a row that is as it was selected and still has no vector is written.
StillBare(w) ==
    /\ LiveIn(db, w.id)
    /\ db.entries[w.id].updated = w.updated
    /\ db.emb[w.id] = NoVector

ReembedWrite(w) ==
    /\ db' = IF StillBare(w) THEN [db EXCEPT !.emb[w.id] = w.text] ELSE db
    /\ reembed' = [reembed EXCEPT !.todo = @ \ {w}]
    /\ UNCHANGED <<log, applied, writes, workload>>

\* If the file was replaced since the selection everything is written once more.
ReembedEnd ==
    /\ reembed.busy /\ reembed.todo = {}
    /\ reembed' = IF reembed.swapped /\ ~reembed.again
                  THEN [reembed EXCEPT !.todo = reembed.chosen, !.again = TRUE]
                  ELSE Asleep
    /\ UNCHANGED <<log, db, applied, writes, workload>>

-----------------------------------------------------------------------------
\* A database that was never built, or that holds a prefix of the log.
Init ==
    /\ log \in InitialLogs
    /\ applied \in 0..Len(log)
    /\ writes = 0 /\ reembed = Asleep
    /\ workload \in Workloads
    /\ \E embeds \in Embedders : db = Materialize(SubSeq(log, 1, applied), embeds)
    /\ ~db.failed

AnswerSheets(run) == UNION {[A -> Answers] : A \in (SUBSET SampledIn(run)) \ {{}}}

Writers ==
    \/ \E d \in Drafts : AddEntry(d)
    \/ \E e \in Entries, force \in BOOLEAN : ExpireEntry(e, force)
    \/ \E r \in db.evidence : HealCitation(r)
    \/ \E mode \in Arms, sample \in Samples, heated \in Heated : AuditRun(mode, sample, heated)
    \/ \E run \in Runs : \E answers \in AnswerSheets(run) : AuditRecord(run, answers)
    \/ \E t \in Tests : TestAdd(t) \/ RunTest(t)

Reembed == ReembedSelect \/ ReembedEnd \/ \E w \in reembed.todo : ReembedWrite(w)

Next == Writers \/ Compact \/ CatchUp \/ Rebuild \/ Reembed

Spec == Init /\ [][Next]_vars

-----------------------------------------------------------------------------
(* What is true of the content.                                              *)

\* What clients can see of the tables: everything but the rows of entries that
\* are stale and that no audit refers to, and the vectors, which depend on whether
\* the process that applied an event could embed.
View(d) ==
    [d EXCEPT !.emb = {}, !.entries = [e \in Entries |->
        IF d.entries[e].live \/ \E c \in d.candidates : c[2] = e THEN d.entries[e] ELSE Absent]]

Materialized == IF applied = Void THEN log ELSE SubSeq(log, 1, applied)

\* The database shows what its part of the log says, however it came to hold it:
\* written through, replayed from a cursor, rebuilt, or rebuilt from a log that
\* a compaction rewrote (compact.rs: D5.2, "materialization-preserving").
AgreesWithLog == View(db) = View(Materialize(Materialized, TRUE))

\* No event of the log can fail on replay, of the whole log or of what follows
\* the cursor (db.rs, on the upsert: "replay (rebuild is the RECOVERY path) must
\* never fail on data the log actually contains").
ReplayNeverFails ==
    /\ ~Materialize(log, TRUE).failed
    /\ applied # Void => ~ReplayTail(db, log, applied, TRUE).failed

\* Compacting twice is compacting once: what the first rewrite keeps is enough to
\* decide again what to keep.
CompactionIsFixpoint ==
    LET once == Compacted(log) IN Compacted(once) = once

\* No operation, recovery or rewrite loses a run, a sampled candidate or a verdict
\* that the database once held, or counts a verdict down.
HistoryStands ==
    [][/\ db.runs \subseteq db'.runs
       /\ db.candidates \subseteq db'.candidates
       /\ db.verdicts \subseteq db'.verdicts
       /\ \A k \in Kinds : /\ db.weights[k].good <= db'.weights[k].good
                            /\ db.weights[k].bad <= db'.weights[k].bad]_vars

\* Evidence that an expiry took away does not come back, whatever upserts, heals,
\* rewrites and replays follow: new rows are those of the batch written last.
NoEvidenceRevived ==
    [][\A r \in db'.evidence :
          \/ \E q \in db.evidence : q.ev = r.ev /\ q.owner = r.owner
          \/ r.ev[1] = writes']_vars

\* A vector that appears is of the text its entry has, whoever wrote the entry,
\* replayed the log or replaced the file since the text was read.
VectorsAreOfTheText ==
    [][\A e \in Entries :
          db'.emb[e] \notin {NoVector, db.emb[e]} => db'.emb[e] = db'.entries[e].text]_vars

=============================================================================
