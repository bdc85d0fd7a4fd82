------------------------- MODULE KbAgreementProofs --------------------------
(***************************************************************************)
(* What the tables hold is what the log says, to the last column, for any  *)
(* log of events and any number of writers, replays, rebuilds and          *)
(* compactions.  Tables that were written through, replayed from a cursor  *)
(* or rebuilt are those that a rebuild of the same events would make, but  *)
(* for the vectors; each column of them is stated of the log, without a    *)
(* replay; no replay fails as long as runs find their tests; and what is   *)
(* stated of a log is stated of its compaction.                            *)
(***************************************************************************)
EXTENDS KbRepositoryProofs

-----------------------------------------------------------------------------
(* Tables that differ in their vectors only: which process applied an event, and
   whether it counted the occurrences of a run in the log or in the table, leaves no
   other trace.                                                             *)

AllTables(d) ==
    d = [entries |-> d.entries, evidence |-> d.evidence, candidates |-> d.candidates,
         verdicts |-> d.verdicts, weights |-> d.weights, tests |-> d.tests,
         runs |-> d.runs, emb |-> d.emb, failed |-> d.failed]

Alike(c, d) ==
    /\ AllTables(c) /\ AllTables(d)
    /\ c.entries = d.entries /\ c.evidence = d.evidence /\ c.candidates = d.candidates
    /\ c.verdicts = d.verdicts /\ c.weights = d.weights /\ c.tests = d.tests
    /\ c.runs = d.runs /\ c.failed = d.failed

LEMMA AlikeTwice ==
    ASSUME NEW a, NEW b, NEW c, Alike(a, b), Alike(b, c)
    PROVE  Alike(a, c)
BY DEF Alike

LEMMA AlikeRows ==
    ASSUME NEW c, NEW d, Alike(c, d), NEW x
    PROVE  /\ Alike([c EXCEPT !.entries = x], [d EXCEPT !.entries = x])
           /\ Alike([c EXCEPT !.evidence = x], [d EXCEPT !.evidence = x])
<1>1. Alike([c EXCEPT !.entries = x], [d EXCEPT !.entries = x])
  BY DEF Alike, AllTables
<1>2. Alike([c EXCEPT !.evidence = x], [d EXCEPT !.evidence = x])
  BY DEF Alike, AllTables
<1> QED BY <1>1, <1>2

LEMMA AlikeVectors ==
    ASSUME NEW c, NEW d, Alike(c, d), NEW v, NEW w
    PROVE  Alike([c EXCEPT !.emb = v], [d EXCEPT !.emb = w])
BY DEF Alike, AllTables

LEMMA AlikeHistory ==
    ASSUME NEW c, NEW d, Alike(c, d), NEW x
    PROVE  /\ Alike([c EXCEPT !.candidates = x], [d EXCEPT !.candidates = x])
           /\ Alike([c EXCEPT !.verdicts = x], [d EXCEPT !.verdicts = x])
           /\ Alike([c EXCEPT !.weights = x], [d EXCEPT !.weights = x])
           /\ Alike([c EXCEPT !.runs = x], [d EXCEPT !.runs = x])
           /\ Alike([c EXCEPT !.tests = x], [d EXCEPT !.tests = x])
           /\ Alike([c EXCEPT !.failed = x], [d EXCEPT !.failed = x])
<1>1. Alike([c EXCEPT !.candidates = x], [d EXCEPT !.candidates = x])
  BY DEF Alike, AllTables
<1>2. Alike([c EXCEPT !.verdicts = x], [d EXCEPT !.verdicts = x])
  BY DEF Alike, AllTables
<1>3. Alike([c EXCEPT !.weights = x], [d EXCEPT !.weights = x])
  BY DEF Alike, AllTables
<1>4. Alike([c EXCEPT !.runs = x], [d EXCEPT !.runs = x])
  BY DEF Alike, AllTables
<1>5. Alike([c EXCEPT !.tests = x], [d EXCEPT !.tests = x])
  BY DEF Alike, AllTables
<1>6. Alike([c EXCEPT !.failed = x], [d EXCEPT !.failed = x])
  BY DEF Alike, AllTables
<1> QED BY <1>1, <1>2, <1>3, <1>4, <1>5, <1>6

LEMMA AlikeStatus ==
    ASSUME NEW c, NEW d, Alike(c, d), NEW e
    PROVE  Alike(WithStatus(c, e), WithStatus(d, e))
<1> DEFINE t == [d.entries EXCEPT ![e].status = EvidenceStatus(d, e)]
<1>1. c.entries = d.entries /\ c.evidence = d.evidence
  BY DEF Alike
<1>2. EvidenceStatus(c, e) = EvidenceStatus(d, e)
  BY <1>1 DEF EvidenceStatus, CitedBy
<1>3. WithStatus(c, e) = [c EXCEPT !.entries = t]
  BY <1>1, <1>2 DEF WithStatus
<1>4. WithStatus(d, e) = [d EXCEPT !.entries = t]
  BY DEF WithStatus
<1> HIDE DEF t
<1> QED BY <1>3, <1>4 DEF Alike, AllTables

LEMMA AlikeTouched ==
    ASSUME NEW c, NEW d, Alike(c, d), NEW e, NEW ts
    PROVE  Alike(Touched(c, e, ts), Touched(d, e, ts))
<1> DEFINE t == [d.entries EXCEPT ![e].updated = ts]
<1>1. Touched(c, e, ts) = [c EXCEPT !.entries = t] /\ Touched(d, e, ts) = [d EXCEPT !.entries = t]
  BY DEF Touched, Alike
<1> HIDE DEF t
<1> QED BY <1>1 DEF Alike, AllTables

LEMMA AlikeUpsert ==
    ASSUME NEW c, NEW d, Alike(c, d), NEW ev, NEW x, NEW y
    PROVE  Alike(ApplyUpsert(c, ev, x), ApplyUpsert(d, ev, y))
<1> DEFINE e == ev.id
           row == [live |-> TRUE, row |-> TRUE, path |-> ev.path,
                   permanent |-> ev.permanent, updated |-> ev.ts, text |-> ev.ts,
                   kind |-> IF ev.kind = "none" THEN "belief" ELSE ev.kind,
                   status |-> IF d.entries[e].row THEN d.entries[e].status ELSE "n/a"]
           t == [d.entries EXCEPT ![e] = row]
           v == [c.emb EXCEPT ![e] = IF x THEN row.text ELSE @]
           w == [d.emb EXCEPT ![e] = IF y THEN row.text ELSE @]
           a == [c EXCEPT !.entries = t]
           b == [d EXCEPT !.entries = t]
           p == [a EXCEPT !.emb = v]
           q == [b EXCEPT !.emb = w]
<1>0. c.entries = d.entries
  BY DEF Alike
<1>1. a.emb = c.emb /\ b.emb = d.emb
  <2> HIDE DEF t
  <2> QED BY DEF Alike, AllTables
<1>2. [c EXCEPT !.entries[e] = row, !.emb[e] = IF x THEN row.text ELSE @] = p
  <2> HIDE DEF row
  <2> QED BY <1>0, <1>1 DEF Alike, AllTables
<1>3. [d EXCEPT !.entries[e] = row, !.emb[e] = IF y THEN row.text ELSE @] = q
  <2> HIDE DEF row
  <2> QED BY <1>1 DEF Alike, AllTables
<1>4. ApplyUpsert(c, ev, x) = IF ev.kind = "none" THEN p ELSE WithStatus(p, e)
  <2> HIDE DEF p
  <2> QED BY <1>0, <1>2 DEF ApplyUpsert
<1>5. ApplyUpsert(d, ev, y) = IF ev.kind = "none" THEN q ELSE WithStatus(q, e)
  <2> HIDE DEF q
  <2> QED BY <1>3 DEF ApplyUpsert
<1> HIDE DEF t, v, w, e
<1>6. Alike(a, b)
  BY AlikeRows
<1> HIDE DEF a, b
<1>7. Alike(p, q)
  BY <1>6, AlikeVectors
<1> HIDE DEF p, q
<1>8. Alike(WithStatus(p, e), WithStatus(q, e))
  BY <1>7, AlikeStatus
<1> QED BY <1>4, <1>5, <1>7, <1>8

LEMMA AlikeExpired ==
    ASSUME NEW c, NEW d, Alike(c, d), NEW ended, NEW ts
    PROVE  Alike(Expired(c, ended, ts), Expired(d, ended, ts))
<1> DEFINE r == {z \in d.evidence : z.owner \notin ended}
           v == [e \in Entries |-> IF e \in ended THEN NoVector ELSE c.emb[e]]
           w == [e \in Entries |-> IF e \in ended THEN NoVector ELSE d.emb[e]]
           t == [e \in Entries |->
                    IF e \in ended /\ d.entries[e].row
                    THEN [d.entries[e] EXCEPT !.live = FALSE, !.status = "n/a", !.updated = ts]
                    ELSE d.entries[e]]
           a1 == [c EXCEPT !.evidence = r]
           a2 == [d EXCEPT !.evidence = r]
           b1 == [a1 EXCEPT !.emb = v]
           b2 == [a2 EXCEPT !.emb = w]
           z1 == [b1 EXCEPT !.entries = t]
           z2 == [b2 EXCEPT !.entries = t]
<1>1. c.entries = d.entries /\ c.evidence = d.evidence
  BY DEF Alike
<1>2. Expired(c, ended, ts) = z1
  BY <1>1 DEF Expired, Alike, AllTables
<1>3. Expired(d, ended, ts) = z2
  BY DEF Expired, Alike, AllTables
<1> HIDE DEF r, v, w, t
<1>4. Alike(a1, a2)
  BY AlikeRows
<1> HIDE DEF a1, a2
<1>5. Alike(b1, b2)
  BY <1>4, AlikeVectors
<1> HIDE DEF b1, b2
<1>6. Alike(z1, z2)
  BY <1>5, AlikeRows
<1> HIDE DEF z1, z2
<1> QED BY <1>2, <1>3, <1>6

LEMMA AlikeEvidence ==
    ASSUME NEW c, NEW d, Alike(c, d), NEW ev
    PROVE  /\ Alike(ApplyEvidenceAdd(c, ev), ApplyEvidenceAdd(d, ev))
           /\ Alike(ApplyEvidenceExpire(c, ev), ApplyEvidenceExpire(d, ev))
           /\ Alike(ApplyHealed(c, ev), ApplyHealed(d, ev))
<1>1. c.entries = d.entries /\ c.evidence = d.evidence
  BY DEF Alike
<1>2. LiveIn(c, ev.id) <=> LiveIn(d, ev.id)
  BY <1>1 DEF LiveIn
<1> DEFINE Put(z, rows) == Touched([z EXCEPT !.evidence = rows], ev.id, ev.ts)
<1>3. ASSUME NEW rows
      PROVE  Alike(WithStatus(Put(c, rows), ev.id), WithStatus(Put(d, rows), ev.id))
  <2> DEFINE a == [c EXCEPT !.evidence = rows]
             b == [d EXCEPT !.evidence = rows]
  <2>1. Alike(a, b)
    BY AlikeRows
  <2> HIDE DEF a, b
  <2>2. Alike(Touched(a, ev.id, ev.ts), Touched(b, ev.id, ev.ts))
    BY <2>1, AlikeTouched
  <2>3. Alike(WithStatus(Touched(a, ev.id, ev.ts), ev.id), WithStatus(Touched(b, ev.id, ev.ts), ev.id))
    BY <2>2, AlikeStatus
  <2> QED BY <2>3 DEF a, b
<1>4. Alike(ApplyEvidenceAdd(c, ev), ApplyEvidenceAdd(d, ev))
  <2> DEFINE rows == d.evidence \cup
                         (IF \E r \in d.evidence : r.ev = ev.ev THEN {}
                          ELSE {[ev |-> ev.ev, owner |-> ev.id, at |-> ev.at]})
  <2>1. ApplyEvidenceAdd(c, ev) = IF LiveIn(d, ev.id) THEN WithStatus(Put(c, rows), ev.id) ELSE c
    BY <1>1, <1>2 DEF ApplyEvidenceAdd, Touched
  <2>2. ApplyEvidenceAdd(d, ev) = IF LiveIn(d, ev.id) THEN WithStatus(Put(d, rows), ev.id) ELSE d
    BY DEF ApplyEvidenceAdd, Touched
  <2> HIDE DEF rows, Put
  <2> QED BY <1>3, <2>1, <2>2
<1>5. Alike(ApplyEvidenceExpire(c, ev), ApplyEvidenceExpire(d, ev))
  <2> DEFINE rows == {r \in d.evidence : ~(r.ev = ev.ev /\ r.owner = ev.id)}
  <2>1. ApplyEvidenceExpire(c, ev) = IF LiveIn(d, ev.id) THEN WithStatus(Put(c, rows), ev.id) ELSE c
    BY <1>1, <1>2 DEF ApplyEvidenceExpire, Touched
  <2>2. ApplyEvidenceExpire(d, ev) = IF LiveIn(d, ev.id) THEN WithStatus(Put(d, rows), ev.id) ELSE d
    BY DEF ApplyEvidenceExpire, Touched
  <2> HIDE DEF rows, Put
  <2> QED BY <1>3, <2>1, <2>2
<1>6. Alike(ApplyHealed(c, ev), ApplyHealed(d, ev))
  <2> DEFINE rows == {IF r.ev = ev.ev /\ r.owner = ev.id THEN [r EXCEPT !.at = ev.at] ELSE r :
                         r \in d.evidence}
  <2>1. ApplyHealed(c, ev) = [c EXCEPT !.evidence = rows] /\ ApplyHealed(d, ev) = [d EXCEPT !.evidence = rows]
    BY <1>1 DEF ApplyHealed
  <2> HIDE DEF rows
  <2> QED BY <2>1 DEF Alike, AllTables
<1> QED BY <1>4, <1>5, <1>6

LEMMA AlikeCandidates ==
    ASSUME NEW c, NEW d, Alike(c, d), NEW ev
    PROVE  Alike(ApplyCandidates(c, ev), ApplyCandidates(d, ev))
<1> DEFINE pairs == {<<ev.run, e, ev.arms[e]>> : e \in DOMAIN ev.arms}
           conflict == \E x \in d.candidates, p \in pairs : x[1] = p[1] /\ x[2] = p[2] /\ x[3] # p[3]
           rows == d.candidates \cup pairs
<1>1. c.candidates = d.candidates
  BY DEF Alike
<1>2. ApplyCandidates(c, ev) = IF conflict THEN [c EXCEPT !.failed = TRUE] ELSE [c EXCEPT !.candidates = rows]
  BY <1>1 DEF ApplyCandidates
<1>3. ApplyCandidates(d, ev) = IF conflict THEN [d EXCEPT !.failed = TRUE] ELSE [d EXCEPT !.candidates = rows]
  BY DEF ApplyCandidates
<1> HIDE DEF conflict, rows
<1> QED BY <1>2, <1>3 DEF Alike, AllTables

LEMMA AlikeVerdicts ==
    ASSUME NEW c, NEW d, Alike(c, d), NEW ev
    PROVE  Alike(ApplyVerdicts(c, ev), ApplyVerdicts(d, ev))
<1> DEFINE judged(z) == {e \in DOMAIN ev.answers : Answered(z, ev.run, e) # {}}
           new(z) == DOMAIN ev.answers \ judged(z)
           bad(z) == \/ \E e \in judged(z) : Answered(z, ev.run, e) # {ev.answers[e]}
                     \/ \E e \in new(z) : ~z.entries[e].row
           Of(z, k, answer) == {e \in new(z) : z.entries[e].kind = k /\ ev.answers[e] = answer}
           verdicts(z) == z.verdicts \cup {<<ev.run, e, ev.answers[e]>> : e \in new(z)}
           weights(z) == [k \in Kinds |->
                          [good |-> z.weights[k].good + Cardinality(Of(z, k, "true")),
                           bad |-> z.weights[k].bad + Cardinality(Of(z, k, "false"))]]
           ended(z) == {e \in new(z) : ev.answers[e] = "false"}
           Counted(z) == [[z EXCEPT !.verdicts = verdicts(z)] EXCEPT !.weights = weights(z)]
<1>1. ASSUME NEW z, AllTables(z)
      PROVE  ApplyVerdicts(z, ev) = IF bad(z) THEN [z EXCEPT !.failed = TRUE]
                                    ELSE Expired(Counted(z), ended(z), ev.ts)
  <2>1. [z EXCEPT !.verdicts = @ \cup {<<ev.run, e, ev.answers[e]>> : e \in new(z)},
                  !.weights = [k \in Kinds |->
                      [good |-> @[k].good + Cardinality(Of(z, k, "true")),
                       bad |-> @[k].bad + Cardinality(Of(z, k, "false"))]]] = Counted(z)
    <3> HIDE DEF new, Of
    <3> QED BY <1>1 DEF AllTables
  <2> HIDE DEF Counted
  <2> QED BY <2>1 DEF ApplyVerdicts
<1>2. /\ c.entries = d.entries /\ c.verdicts = d.verdicts /\ c.weights = d.weights
      /\ \A e : Answered(c, ev.run, e) = Answered(d, ev.run, e)
  BY DEF Alike, Answered
<1>3. judged(c) = judged(d)
  BY <1>2
<1> HIDE DEF judged
<1>4. new(c) = new(d)
  BY <1>3
<1> HIDE DEF new
<1>5. bad(c) <=> bad(d)
  BY <1>2, <1>3, <1>4
<1>6. verdicts(c) = verdicts(d) /\ ended(c) = ended(d)
  BY <1>2, <1>4
<1>7. weights(c) = weights(d)
  <2>1. \A k, answer : Of(c, k, answer) = Of(d, k, answer)
    BY <1>2, <1>4
  <2> HIDE DEF Of
  <2> QED BY <1>2, <2>1
<1> DEFINE v == verdicts(d)
           w == weights(d)
<1>8. /\ Counted(c) = [[c EXCEPT !.verdicts = v] EXCEPT !.weights = w]
      /\ Counted(d) = [[d EXCEPT !.verdicts = v] EXCEPT !.weights = w]
  BY <1>6, <1>7
<1> HIDE DEF v, w, Counted, bad, ended, verdicts, weights
<1>9. Alike([c EXCEPT !.failed = TRUE], [d EXCEPT !.failed = TRUE])
  BY AlikeHistory
<1>10. Alike(Counted(c), Counted(d))
  <2> DEFINE a == [c EXCEPT !.verdicts = v]
             b == [d EXCEPT !.verdicts = v]
  <2>1. Alike(a, b)
    BY AlikeHistory
  <2> HIDE DEF a, b
  <2>2. Alike([a EXCEPT !.weights = w], [b EXCEPT !.weights = w])
    BY <2>1, AlikeHistory
  <2> QED BY <1>8, <2>2 DEF a, b
<1>11. Alike(Expired(Counted(c), ended(c), ev.ts), Expired(Counted(d), ended(d), ev.ts))
  BY <1>6, <1>10, AlikeExpired
<1>12. AllTables(c) /\ AllTables(d)
  BY DEF Alike
<1>13. /\ ApplyVerdicts(c, ev) = IF bad(c) THEN [c EXCEPT !.failed = TRUE]
                                 ELSE Expired(Counted(c), ended(c), ev.ts)
       /\ ApplyVerdicts(d, ev) = IF bad(d) THEN [d EXCEPT !.failed = TRUE]
                                 ELSE Expired(Counted(d), ended(d), ev.ts)
  BY <1>1, <1>12
<1> QED BY <1>5, <1>9, <1>11, <1>13

(* The ordinal of a run is the same, whether it is counted in the log or in the table. *)
LEMMA OrdinalIs ==
    ASSUME NEW L, NEW n \in Nat, NEW d, d.runs = RunRows(L, n), IsLegacyRun(L[n + 1]),
           L[n + 1].id \in Tests
    PROVE  Cardinality(SameContent(d, L[n + 1])) = Occurrence(L, n + 1)
<1> DEFINE ev == L[n + 1]
<1>1. ev.id \in Tests /\ ev.key = 0
  BY DEF IsLegacyRun
<1>2. Occurrence(L, n + 1) = Cardinality(LegacyRuns(L, n, ev.id))
  BY DEF Occurrence, LegacyRuns, IsLegacyRun
<1> HIDE DEF ev
<1>3. Cardinality(SameContent(d, ev)) = Cardinality(LegacyRuns(L, n, ev.id))
  BY <1>1, SameContentCounts
<1> QED BY <1>2, <1>3 DEF ev

LEMMA AlikeRun ==
    ASSUME NEW c, NEW d, Alike(c, d), NEW L, NEW n \in Nat, d.runs = RunRows(L, n),
           L[n + 1].op = "run", L[n + 1].id \in Tests,
           NEW x \in {Unknown, Occurrence(L, n + 1)}, NEW y \in {Unknown, Occurrence(L, n + 1)}
    PROVE  Alike(ApplyRun(c, L[n + 1], x), ApplyRun(d, L[n + 1], y))
<1> DEFINE ev == L[n + 1]
           Ordinal(z, o) == IF ev.key # 0 THEN 0
                            ELSE IF o # Unknown THEN o ELSE Cardinality(SameContent(z, ev))
           Rows(z, o) == z.runs \cup {[key |-> ev.key, ordinal |-> Ordinal(z, o), test |-> ev.id]}
<1>1. c.runs = d.runs /\ c.tests = d.tests
  BY DEF Alike
<1>2. Ordinal(c, x) = Ordinal(d, y)
  <2>1. SameContent(c, ev) = SameContent(d, ev)
    BY <1>1 DEF SameContent
  <2>2. ASSUME ev.key = 0 PROVE Cardinality(SameContent(d, ev)) = Occurrence(L, n + 1)
    BY <2>2, OrdinalIs DEF IsLegacyRun
  <2> QED BY <2>1, <2>2
<1>3. Rows(c, x) = Rows(d, y)
  <2> HIDE DEF Ordinal
  <2> QED BY <1>1, <1>2
<1>4. /\ ApplyRun(c, ev, x) = IF d.tests[ev.id] = 0 THEN [c EXCEPT !.failed = TRUE]
                              ELSE [c EXCEPT !.runs = Rows(c, x)]
      /\ ApplyRun(d, ev, y) = IF d.tests[ev.id] = 0 THEN [d EXCEPT !.failed = TRUE]
                              ELSE [d EXCEPT !.runs = Rows(d, y)]
  BY <1>1 DEF ApplyRun
<1> DEFINE rows == Rows(d, y)
<1>5. Rows(c, x) = rows
  BY <1>3
<1> HIDE DEF Rows, rows
<1>6. Alike([c EXCEPT !.runs = rows], [d EXCEPT !.runs = rows])
  BY AlikeHistory
<1>7. Alike([c EXCEPT !.failed = TRUE], [d EXCEPT !.failed = TRUE])
  BY AlikeHistory
<1>8. Rows(d, y) = rows
  BY DEF rows
<1> QED BY <1>4, <1>5, <1>6, <1>7, <1>8

LEMMA AlikeApply ==
    ASSUME NEW L, NEW n \in Nat, IsEvent(L[n + 1]), NEW c, NEW d, Alike(c, d), Tells(d, L, n),
           NEW x \in {Unknown, Occurrence(L, n + 1)}, NEW y \in {Unknown, Occurrence(L, n + 1)},
           NEW v, NEW w
    PROVE  Alike(Apply(c, L[n + 1], x, v), Apply(d, L[n + 1], y, w))
<1> DEFINE ev == L[n + 1]
<1>1. CASE ev.op = "upsert"
  BY <1>1, AlikeUpsert DEF Apply
<1>2. CASE ev.op = "expire"
  BY <1>2, AlikeExpired DEF Apply, ApplyExpire
<1>3. CASE ev.op \in EvidenceOps
  BY <1>3, AlikeEvidence DEF Apply, EvidenceOps
<1>4. CASE ev.op = "candidates"
  BY <1>4, AlikeCandidates DEF Apply
<1>5. CASE ev.op = "verdicts"
  BY <1>5, AlikeVerdicts DEF Apply
<1>6. CASE ev.op = "test"
  <2> DEFINE t == [d.tests EXCEPT ![ev.id] = ev.ts]
  <2>1. Apply(c, ev, x, v) = [c EXCEPT !.tests = t] /\ Apply(d, ev, y, w) = [d EXCEPT !.tests = t]
    BY <1>6 DEF Apply, ApplyTest, Alike
  <2> HIDE DEF t
  <2> QED BY <2>1 DEF Alike, AllTables
<1>7. CASE ev.op = "run"
  <2>1. ev.id \in Tests
    BY <1>7 DEF IsEvent, EvidenceOps
  <2>2. d.runs = RunRows(L, n)
    BY DEF Tells, Remembers
  <2>3. Alike(ApplyRun(c, ev, x), ApplyRun(d, ev, y))
    BY <1>7, <2>1, <2>2, AlikeRun
  <2>4. Apply(c, ev, x, v) = ApplyRun(c, ev, x) /\ Apply(d, ev, y, w) = ApplyRun(d, ev, y)
    BY <1>7 DEF Apply
  <2> QED BY <2>3, <2>4
<1> QED BY <1>1, <1>2, <1>3, <1>4, <1>5, <1>6, <1>7 DEF IsEvent

LEMMA AlikeBack ==
    ASSUME NEW c, NEW d, Alike(c, d)
    PROVE  Alike(d, c)
BY DEF Alike

LEMMA AlikeSelf ==
    ASSUME NEW d, Shape(d)
    PROVE  Alike(d, d)
BY DEF Alike, AllTables, Shape

LEMMA AlikeBare ==
    ASSUME NEW c, NEW d, Alike(c, d), NEW v
    PROVE  [c EXCEPT !.emb = v] = [d EXCEPT !.emb = v]
<1> DEFINE t == [entries |-> d.entries, evidence |-> d.evidence, candidates |-> d.candidates,
                 verdicts |-> d.verdicts, weights |-> d.weights, tests |-> d.tests,
                 runs |-> d.runs, emb |-> v, failed |-> d.failed]
<1>1. [c EXCEPT !.emb = v] = t
  BY DEF Alike, AllTables
<1>2. [d EXCEPT !.emb = v] = t
  BY DEF Alike, AllTables
<1> QED BY <1>1, <1>2

(* Clients see no difference. *)
LEMMA AlikeViews ==
    ASSUME NEW c, NEW d, Alike(c, d)
    PROVE  View(c) = View(d)
<1> DEFINE Rows(z) == [e \in Entries |->
               IF z.entries[e].live \/ \E x \in z.candidates : x[2] = e THEN z.entries[e] ELSE Absent]
           a == [c EXCEPT !.emb = {}]
           b == [d EXCEPT !.emb = {}]
<1>1. a = b
  BY AlikeBare
<1>2. Rows(c) = Rows(d)
  BY DEF Alike
<1>3. View(c) = [a EXCEPT !.entries = Rows(c)] /\ View(d) = [b EXCEPT !.entries = Rows(d)]
  BY DEF View
<1> HIDE DEF a, b, Rows
<1> QED BY <1>1, <1>2, <1>3

(* Tables that a rebuild makes of the first n events, but for the vectors. *)
Built(d, L, n) == \E f : Replaying(f, Empty, L, 0, n, FALSE, TRUE) /\ Alike(d, f[n])

LEMMA BuiltEmpty ==
    ASSUME NEW L
    PROVE  Built(Empty, L, 0)
<1>0. 0 \in Nat /\ 0 <= 0
  OBVIOUS
<1>1. PICK f : Replaying(f, Empty, L, 0, 0, FALSE, TRUE)
  BY <1>0, ReplayingIs, Zenon
<1>2. f[0] = Empty
  <2>1. 0 \in 0..0
    OBVIOUS
  <2> QED BY <1>1, <2>1 DEF Replaying
<1>3. Shape(Empty)
  BY EmptyTells DEF Tells
<1>4. Alike(Empty, Empty)
  BY <1>3, AlikeSelf
<1> QED BY <1>1, <1>2, <1>4 DEF Built

LEMMA BuiltAlike ==
    ASSUME NEW L, NEW n, NEW d, Built(d, L, n), NEW c, Alike(c, d)
    PROVE  Built(c, L, n)
<1>1. PICK f : Replaying(f, Empty, L, 0, n, FALSE, TRUE) /\ Alike(d, f[n])
  BY DEF Built
<1>2. Alike(c, f[n])
  BY <1>1, AlikeTwice
<1> QED BY <1>1, <1>2 DEF Built

LEMMA BuiltPrefix ==
    ASSUME NEW L, NEW K, NEW n \in Nat, \A i \in 1..n : K[i] = L[i], NEW d, Built(d, L, n)
    PROVE  Built(d, K, n)
<1>1. PICK f : Replaying(f, Empty, L, 0, n, FALSE, TRUE) /\ Alike(d, f[n])
  BY DEF Built
<1>2. /\ f = [i \in 0..n |-> f[i]]
      /\ \A i \in 0..n :
            f[i] = IF i = 0 THEN Empty ELSE Apply(f[i - 1], L[i], Given(L, i, FALSE), TRUE)
  BY <1>1 DEF Replaying
<1>3. ASSUME NEW i \in 0..n
      PROVE  f[i] = IF i = 0 THEN Empty ELSE Apply(f[i - 1], K[i], Given(K, i, FALSE), TRUE)
  <2>1. i # 0 => K[i] = L[i]
    OBVIOUS
  <2>2. Given(K, i, FALSE) = Unknown /\ Given(L, i, FALSE) = Unknown
    BY DEF Given
  <2> QED BY <1>2, <2>1, <2>2
<1>4. Replaying(f, Empty, K, 0, n, FALSE, TRUE)
  BY <1>2, <1>3 DEF Replaying
<1> QED BY <1>1, <1>4 DEF Built

LEMMA BuiltGoesOn ==
    ASSUME NEW L, NEW n \in Nat, IsEvent(L[n + 1]), NEW d, Tells(d, L, n), Built(d, L, n),
           NEW x \in {Unknown, Occurrence(L, n + 1)}, NEW v,
           NEW c, c = Apply(d, L[n + 1], x, v)
    PROVE  Built(c, L, n + 1)
<1>1. PICK f : Replaying(f, Empty, L, 0, n, FALSE, TRUE) /\ Alike(d, f[n])
  BY DEF Built
<1>2. PICK g : /\ Replaying(g, Empty, L, 0, n + 1, FALSE, TRUE)
               /\ g[n + 1] = Apply(f[n], L[n + 1], Given(L, n + 1, FALSE), TRUE)
  <2> DEFINE counts == FALSE
             embeds == TRUE
  <2>0. 0 \in Nat /\ 0 <= n
    OBVIOUS
  <2>1. Replaying(f, Empty, L, 0, n, counts, embeds)
    BY <1>1
  <2> HIDE DEF counts, embeds
  <2>2. \E g : /\ Replaying(g, Empty, L, 0, n + 1, counts, embeds)
               /\ g[n + 1] = Apply(f[n], L[n + 1], Given(L, n + 1, counts), embeds)
    BY <2>0, <2>1, ReplayGoesOn
  <2> QED BY <2>2 DEF counts, embeds
<1>3. Given(L, n + 1, FALSE) = Unknown
  BY DEF Given
<1>4. Alike(f[n], d)
  BY <1>1, AlikeBack
<1>5. Alike(Apply(f[n], L[n + 1], Unknown, TRUE), Apply(d, L[n + 1], x, v))
  BY <1>4, AlikeApply
<1>6. Alike(c, g[n + 1])
  BY <1>2, <1>3, <1>5, AlikeBack
<1> QED BY <1>2, <1>6 DEF Built

LEMMA ReplayingSame ==
    ASSUME NEW d, NEW L, NEW n \in Nat, NEW counts, NEW embeds,
           NEW f, Replaying(f, d, L, 0, n, counts, embeds),
           NEW g, Replaying(g, d, L, 0, n, counts, embeds)
    PROVE  f[n] = g[n]
<1> DEFINE S == {k \in 0..n : f[k] = g[k]}
<1>1. 0 \in S
  <2>1. 0 \in 0..n
    OBVIOUS
  <2> QED BY <2>1 DEF Replaying
<1>2. ASSUME NEW k \in 0..n - 1, k \in S PROVE k + 1 \in S
  <2>1. k + 1 \in 0..n /\ k + 1 # 0 /\ (k + 1) - 1 = k
    OBVIOUS
  <2>2. /\ f[k + 1] = Apply(f[k], L[k + 1], Given(L, k + 1, counts), embeds)
        /\ g[k + 1] = Apply(g[k], L[k + 1], Given(L, k + 1, counts), embeds)
    BY <2>1 DEF Replaying
  <2> QED BY <1>2, <2>1, <2>2
<1>3. n \in 0..n
  OBVIOUS
<1> HIDE DEF S
<1>4. \A k \in 0..n - 1 : k \in S => k + 1 \in S
  BY <1>2
<1>5. \A k \in 0..n : k \in S
  BY <1>1, <1>4, Upwards
<1> QED BY <1>3, <1>5 DEF S

LEMMA BuiltIs ==
    ASSUME NEW L, IsLog(L), NEW n \in 0..Len(L), NEW d, Built(d, L, n)
    PROVE  Alike(d, Materialize(SubSeq(L, 1, n), TRUE))
<1> DEFINE K == SubSeq(L, 1, n)
<1>1. IsLog(K) /\ Len(K) = n /\ \A i \in 1..n : K[i] = L[i]
  BY PrefixIsLog
<1>2. n \in Nat /\ 0 <= n
  BY LogForm
<1> HIDE DEF K
<1>3. Built(d, K, n)
  BY <1>1, <1>2, BuiltPrefix
<1>4. PICK f : Replaying(f, Empty, K, 0, n, FALSE, TRUE) /\ Alike(d, f[n])
  BY <1>3 DEF Built
<1>5. PICK g : /\ Replaying(g, Empty, K, 0, n, FALSE, TRUE)
               /\ Replay(Empty, K, 0, FALSE, TRUE) = g[n]
  <2>1. 0 \in Nat /\ 0 <= Len(K) /\ Len(K) \in Nat
    BY <1>1, <1>2
  <2>2. \E g : /\ Replaying(g, Empty, K, 0, Len(K), FALSE, TRUE)
               /\ Replay(Empty, K, 0, FALSE, TRUE) = g[Len(K)]
    <3> DEFINE counts == FALSE
               embeds == TRUE
    <3> HIDE DEF counts, embeds
    <3>1. \E g : /\ Replaying(g, Empty, K, 0, Len(K), counts, embeds)
                 /\ Replay(Empty, K, 0, counts, embeds) = g[Len(K)]
      BY <2>1, ReplayIs
    <3> QED BY <3>1 DEF counts, embeds
  <2> QED BY <1>1, <2>2
<1>6. f[n] = g[n]
  <2> DEFINE counts == FALSE
             embeds == TRUE
  <2>1. Replaying(f, Empty, K, 0, n, counts, embeds) /\ Replaying(g, Empty, K, 0, n, counts, embeds)
    BY <1>4, <1>5
  <2> HIDE DEF counts, embeds
  <2> QED BY <1>2, <2>1, ReplayingSame
<1>7. Materialize(K, TRUE) = g[n]
  BY <1>5 DEF Materialize
<1>8. Alike(d, Materialize(K, TRUE))
  BY <1>4, <1>6, <1>7
<1> QED BY <1>8 DEF K

(* A replay that does not fail makes of tables a rebuild would have made tables
   it would make. *)
LEMMA ReplayBuilds ==
    ASSUME NEW L, IsLog(L), NEW from \in 0..Len(L), NEW d, Tells(d, L, from),
           Built(d, L, from), NEW counts, NEW embeds,
           NEW c, c = Replay(d, L, from, counts, embeds), ~c.failed
    PROVE  Built(c, L, Len(L))
<1>0. Len(L) \in Nat /\ from <= Len(L) /\ from \in Nat
  BY LogForm
<1>1. PICK f : /\ Replaying(f, d, L, from, Len(L), counts, embeds)
               /\ c = f[Len(L)]
  BY <1>0, ReplayIs
<1> DEFINE Told(i) == Tells(f[i], L, i) /\ Built(f[i], L, i)
           Good(i) == Shape(f[i]) /\ (f[i].failed \/ Told(i))
           S == {k \in 0..Len(L) - from : Good(from + k)}
<1>2. 0 \in S
  <2>0. from + 0 = from /\ 0 \in 0..Len(L) - from /\ from \in from..Len(L)
    BY <1>0
  <2>1. f[from] = d
    BY <1>1, <2>0 DEF Replaying
  <2>2. Good(from)
    BY <2>1 DEF Tells
  <2> HIDE DEF Good
  <2> QED BY <2>0, <2>2
<1>3. ASSUME NEW k \in 0..Len(L) - from - 1, k \in S PROVE k + 1 \in S
  <2> DEFINE i == from + k
             x == Given(L, i + 1, counts)
  <2>1. /\ i \in Nat /\ i + 1 = from + (k + 1) /\ i + 1 \in from..Len(L) /\ i + 1 # from
        /\ (i + 1) - 1 = i /\ i + 1 \in 1..Len(L) /\ k + 1 \in 0..Len(L) - from
    BY <1>0
  <2>2. Good(i)
    BY <1>3
  <2>3. IsEvent(L[i + 1])
    BY <2>1, LogForm
  <2>4. f[i + 1] = Apply(f[i], L[i + 1], x, embeds)
    BY <1>1, <2>1 DEF Replaying
  <2>5. x \in {Unknown, Occurrence(L, i + 1)}
    BY DEF Given
  <2> HIDE DEF i, x
  <2>6. Shape(f[i + 1]) /\ (f[i].failed => f[i + 1].failed)
    BY <2>2, <2>3, <2>4, ApplyForm
  <2>7. f[i + 1].failed \in BOOLEAN
    BY <2>6 DEF Shape
  <2>8. ASSUME ~f[i + 1].failed PROVE Told(i + 1)
    <3>1. Tells(f[i], L, i) /\ Built(f[i], L, i)
      BY <2>2, <2>6, <2>8
    <3>2. Tells(f[i + 1], L, i + 1)
      BY <2>1, <2>3, <2>4, <2>5, <2>8, <3>1, ApplyTells
    <3>3. Built(f[i + 1], L, i + 1)
      BY <2>1, <2>3, <2>4, <2>5, <3>1, BuiltGoesOn
    <3> QED BY <3>2, <3>3
  <2> HIDE DEF Told
  <2>9. Good(i + 1)
    BY <2>6, <2>7, <2>8
  <2> HIDE DEF Good
  <2> QED BY <2>1, <2>9
<1>4. /\ Len(L) - from \in Nat /\ from + (Len(L) - from) = Len(L)
      /\ Len(L) - from \in 0..Len(L) - from
  BY <1>0
<1>5. Good(Len(L))
  <2> HIDE DEF Good
  <2>1. \A k \in 0..(Len(L) - from) - 1 : k \in S => k + 1 \in S
    BY <1>3
  <2> HIDE DEF S
  <2>2. Len(L) - from \in S
    BY <1>2, <1>4, <2>1, Upwards
  <2> QED BY <1>4, <2>2 DEF S
<1> QED BY <1>1, <1>5

LEMMA MaterializeBuilds ==
    ASSUME NEW L, IsLog(L), NEW embeds, NEW c, c = Materialize(L, embeds), ~c.failed
    PROVE  Built(c, L, Len(L))
<1>1. Len(L) \in Nat /\ 0 \in 0..Len(L)
  BY LogForm
<1>2. Tells(Empty, L, 0) /\ Built(Empty, L, 0)
  BY EmptyTells, BuiltEmpty
<1>3. c = Replay(Empty, L, 0, FALSE, embeds)
  BY DEF Materialize
<1> QED BY <1>1, <1>2, <1>3, ReplayBuilds

-----------------------------------------------------------------------------
(* What a rebuild would make.                                              *)

GoodLog(L, w) == IsLog(L) /\ JudgedOnce(L) /\ JudgedAfterSampled(L) /\ OrderlyLog(L, w)

(* The log that d was made of; K is what a compaction may have made of it since. *)
Origin(L, d, K, w) ==
    /\ GoodLog(L, w) /\ Built(d, L, Len(L)) /\ ~d.failed
    /\ K \in {L, Compacted(L)}

(* The tables are what a rebuild would make of the events they hold; if the cursor is
   void, of a log that is the log or that it is the compaction of.               *)
BuiltInv ==
    /\ OrderInv
    /\ applied # Void => Built(db, log, applied)
    /\ applied = Void => \E L : Origin(L, db, log, writes)

LEMMA OrderForm ==
    ASSUME OrderInv
    PROVE  /\ GoodLog(log, writes) /\ IsLog(log) /\ Len(log) \in Nat /\ Shape(db)
           /\ applied # Void => applied \in 0..Len(log) /\ Tells(db, log, applied)
BY LogForm DEF OrderInv, GoodLog, RowsInv, RowsTold, EvidenceInv, HistoryInv, Foretold, Tells

LEMMA WriteBuilds ==
    ASSUME BuiltInv, NEW B, Written(B, db, writes + 1), NEW embeds, WriteAs(B, embeds)
    PROVE  applied' # Void /\ Built(db', log', applied')
<1> DEFINE L == log \o B
           n == Len(log)
           after == Replay(db, L, n, FALSE, embeds)
<1>1. IsLog(B) /\ OrderInv
  BY DEF Written, BuiltInv
<1>2. IsLog(log) /\ n \in Nat /\ applied = n /\ applied # Void
  BY <1>1, OrderForm DEF WriteAs, Converged, Void
<1>3. Tells(db, log, n) /\ Built(db, log, n)
  BY <1>1, <1>2, OrderForm DEF BuiltInv
<1>4. log' = L
  BY DEF WriteAs
<1>5. \/ ~after.failed /\ db' = after /\ applied' = Len(log')
      \/ db' = db /\ applied' = applied
  BY DEF WriteAs
<1>6. IsLog(L) /\ Len(L) = n + Len(B) /\ Len(B) \in Nat /\ \A i \in 1..n : L[i] = log[i]
  BY <1>1, <1>2, LogGrows, TailOf
<1> HIDE DEF L
<1>7. n \in 0..Len(L) /\ Len(L) \in Nat
  BY <1>2, <1>6
<1> HIDE DEF n
<1>8. Tells(db, L, n)
  BY <1>2, <1>3, <1>6, SamePrefixTells
<1>9. Built(db, L, n)
  BY <1>2, <1>3, <1>6, BuiltPrefix
<1>10. CASE ~after.failed /\ db' = after /\ applied' = Len(log')
  <2>1. Built(after, L, Len(L))
    BY <1>6, <1>7, <1>8, <1>9, <1>10, ReplayBuilds
  <2>2. Len(L) # Void
    BY <1>7 DEF Void
  <2> HIDE DEF after
  <2> QED BY <1>4, <1>10, <2>1, <2>2
<1>11. CASE db' = db /\ applied' = applied
  BY <1>2, <1>4, <1>9, <1>11
<1> QED BY <1>5, <1>10, <1>11

LEMMA CompactBuilds ==
    ASSUME BuiltInv, Compact
    PROVE  applied' = Void /\ Origin(log, db', log', writes')
<1>1. OrderInv /\ applied = Len(log)
  BY DEF BuiltInv, Compact, Converged
<1>2. applied # Void
  BY <1>1, OrderForm DEF Void
<1>3. Built(db, log, Len(log)) /\ ~db.failed /\ GoodLog(log, writes)
  BY <1>1, <1>2, OrderForm DEF BuiltInv, Tells
<1>4. db' = db /\ writes' = writes /\ log' \in {log, Compacted(log)} /\ applied' = Void
  BY DEF Compact
<1> QED BY <1>3, <1>4 DEF Origin

LEMMA RecoveryBuilds ==
    ASSUME BuiltInv, CatchUp \/ Rebuild
    PROVE  applied' # Void /\ Built(db', log', applied')
<1>1. OrderInv
  BY DEF BuiltInv
<1>2. IsLog(log) /\ Len(log) \in Nat /\ Len(log) # Void
  BY <1>1, OrderForm DEF Void
<1>3. log' = log /\ applied' = Len(log)
  BY DEF CatchUp, Rebuild
<1>4. ASSUME CatchUp PROVE Built(db', log, Len(log))
  <2>1. applied # Void
    BY <1>2, <1>4 DEF CatchUp, Void
  <2>2. applied \in 0..Len(log) /\ Tells(db, log, applied) /\ Built(db, log, applied)
    BY <1>1, <2>1, OrderForm DEF BuiltInv
  <2>3. PICK embeds : /\ ~ReplayTail(db, log, applied, embeds).failed
                      /\ db' = ReplayTail(db, log, applied, embeds)
    BY <1>4 DEF CatchUp
  <2>4. db' = Replay(db, log, applied, TRUE, embeds) /\ ~db'.failed
    BY <2>3 DEF ReplayTail
  <2> QED BY <1>2, <2>2, <2>4, ReplayBuilds
<1>5. ASSUME Rebuild PROVE Built(db', log, Len(log))
  <2>1. PICK embeds : ~Materialize(log, embeds).failed /\ db' = Materialize(log, embeds)
    BY <1>5 DEF Rebuild
  <2> QED BY <1>2, <2>1, MaterializeBuilds
<1> QED BY <1>2, <1>3, <1>4, <1>5

(* Vectors aside, nothing changes. *)
LEMMA SameBuilds ==
    ASSUME BuiltInv, log' = log, applied' = applied, writes' = writes, Alike(db', db)
    PROVE  /\ applied' # Void => Built(db', log', applied')
           /\ applied' = Void => \E L : Origin(L, db', log', writes')
<1>1. ASSUME applied # Void PROVE Built(db', log, applied)
  BY <1>1, BuiltAlike DEF BuiltInv
<1>2. ASSUME applied = Void PROVE \E L : Origin(L, db', log, writes)
  <2>1. PICK L : Origin(L, db, log, writes)
    BY <1>2 DEF BuiltInv
  <2>2. Built(db, L, Len(L)) /\ ~db.failed /\ db'.failed = db.failed
    BY <2>1 DEF Origin, Alike
  <2>3. Built(db', L, Len(L))
    BY <2>2, BuiltAlike
  <2> QED BY <2>1, <2>2, <2>3 DEF Origin
<1> QED BY <1>1, <1>2

LEMMA ReembedBuilds ==
    ASSUME BuiltInv, Reembed \/ UNCHANGED vars
    PROVE  log' = log /\ applied' = applied /\ writes' = writes /\ Alike(db', db)
<1>1. log' = log /\ applied' = applied /\ writes' = writes
  BY DEF Reembed, ReembedSelect, ReembedEnd, ReembedWrite, vars
<1>2. Alike(db, db)
  BY OrderForm, AlikeSelf DEF BuiltInv
<1>3. Alike(db', db)
  <2>1. ASSUME NEW w, db' = [db EXCEPT !.emb[w.id] = w.text] PROVE Alike(db', db)
    <3> DEFINE v == [db.emb EXCEPT ![w.id] = w.text]
    <3>1. db' = [db EXCEPT !.emb = v]
      BY <2>1
    <3> HIDE DEF v
    <3>2. [db EXCEPT !.emb = db.emb] = db
      BY <1>2 DEF Alike, AllTables
    <3>3. Alike([db EXCEPT !.emb = v], [db EXCEPT !.emb = db.emb])
      BY <1>2, AlikeVectors
    <3> QED BY <3>1, <3>2, <3>3
  <2> QED BY <1>2, <2>1 DEF Reembed, ReembedSelect, ReembedEnd, ReembedWrite, vars
<1> QED BY <1>1, <1>3

LEMMA BuiltStep ==
    ASSUME BuiltInv, [KbNext]_kbVars
    PROVE  BuiltInv'
<1>1. OrderInv' /\ HistoryInv
  BY LogStep DEF BuiltInv, OrderInv, RowsInv, EvidenceInv
<1>2. \/ \E B : Written(B, db, writes + 1) /\ \E embeds : WriteAs(B, embeds)
      \/ CatchUp \/ Compact \/ Rebuild \/ Reembed \/ UNCHANGED vars
  BY <1>1, KbStep
<1>3. ASSUME NEW B, Written(B, db, writes + 1), NEW embeds, WriteAs(B, embeds) PROVE BuiltInv'
  BY <1>1, <1>3, WriteBuilds DEF BuiltInv
<1>4. ASSUME Compact PROVE BuiltInv'
  BY <1>1, <1>4, CompactBuilds DEF BuiltInv
<1>5. ASSUME CatchUp \/ Rebuild PROVE BuiltInv'
  BY <1>1, <1>5, RecoveryBuilds DEF BuiltInv
<1>6. ASSUME Reembed \/ UNCHANGED vars PROVE BuiltInv'
  <2>1. log' = log /\ applied' = applied /\ writes' = writes /\ Alike(db', db)
    BY <1>6, ReembedBuilds
  <2>2. /\ applied' # Void => Built(db', log', applied')
        /\ applied' = Void => \E L : Origin(L, db', log', writes')
    BY <2>1, SameBuilds
  <2> QED BY <1>1, <2>2 DEF BuiltInv
<1> QED BY <1>2, <1>3, <1>4, <1>5, <1>6

LEMMA BuiltInit ==
    ASSUME KbInit
    PROVE  BuiltInv
<1>1. OrderInv
  BY OrderInit
<1>2. IsLog(log) /\ applied \in 0..Len(log) /\ Len(log) \in Nat
  BY <1>1, OrderForm DEF KbInit, Init
<1>3. applied # Void /\ applied \in Nat
  BY <1>2 DEF Void
<1>4. PICK embeds : db = Materialize(SubSeq(log, 1, applied), embeds) /\ ~db.failed
  BY DEF KbInit, Init
<1> DEFINE K == SubSeq(log, 1, applied)
<1>5. IsLog(K) /\ Len(K) = applied /\ \A i \in 1..applied : K[i] = log[i]
  BY <1>2, PrefixIsLog
<1>6. db = Materialize(K, embeds)
  BY <1>4
<1> HIDE DEF K
<1>7. Built(db, K, applied)
  BY <1>4, <1>5, <1>6, MaterializeBuilds
<1>8. \A i \in 1..applied : log[i] = K[i]
  BY <1>5
<1>9. Built(db, log, applied)
  BY <1>3, <1>7, <1>8, BuiltPrefix
<1> QED BY <1>1, <1>3, <1>9 DEF BuiltInv

LEMMA BuiltShows ==
    ASSUME BuiltInv, applied # Void
    PROVE  AgreesWithLog
<1>1. IsLog(log) /\ applied \in 0..Len(log) /\ Built(db, log, applied)
  BY OrderForm DEF BuiltInv
<1>2. Alike(db, Materialize(SubSeq(log, 1, applied), TRUE))
  BY <1>1, BuiltIs
<1>3. Materialized = SubSeq(log, 1, applied)
  BY DEF Materialized
<1> QED BY <1>2, <1>3, AlikeViews DEF AgreesWithLog

-----------------------------------------------------------------------------
(* What an arm leaves of a row, to the last column.                        *)

RowTable(t) == t = [e \in Entries |-> t[e]]

SameText(r, q) ==
    /\ EntryForm(r) /\ r.path = q.path /\ r.permanent = q.permanent
    /\ r.text = q.text /\ r.kind = q.kind

StatusOf(k, held) ==
    IF k \notin Mandated THEN "n/a" ELSE IF held THEN "present" ELSE "missing"

Turned(c, d, e) ==
    /\ AllTables(c) /\ RowTable(c.entries) /\ c.tests = d.tests /\ c.failed = d.failed
    /\ \A x \in Entries : x # e => c.entries[x] = d.entries[x]

LEMMA PutRows ==
    ASSUME NEW d, AllTables(d), NEW x, NEW c, c = [d EXCEPT !.entries = x]
    PROVE  /\ AllTables(c) /\ c.entries = x /\ c.evidence = d.evidence
           /\ c.tests = d.tests /\ c.failed = d.failed
BY DEF AllTables

LEMMA PutEvidence ==
    ASSUME NEW d, AllTables(d), NEW x, NEW c, c = [d EXCEPT !.evidence = x]
    PROVE  /\ AllTables(c) /\ c.entries = d.entries /\ c.evidence = x
           /\ c.tests = d.tests /\ c.failed = d.failed
BY DEF AllTables

LEMMA PutOthers ==
    ASSUME NEW d, AllTables(d), NEW x, NEW c,
           \/ c = [d EXCEPT !.emb = x] \/ c = [d EXCEPT !.candidates = x]
           \/ c = [d EXCEPT !.verdicts = x] \/ c = [d EXCEPT !.weights = x]
           \/ c = [d EXCEPT !.runs = x]
    PROVE  /\ AllTables(c) /\ c.entries = d.entries /\ c.evidence = d.evidence
           /\ c.tests = d.tests /\ c.failed = d.failed
<1>1. CASE c = [d EXCEPT !.emb = x]
  BY <1>1 DEF AllTables
<1>2. CASE c = [d EXCEPT !.candidates = x]
  BY <1>2 DEF AllTables
<1>3. CASE c = [d EXCEPT !.verdicts = x]
  BY <1>3 DEF AllTables
<1>4. CASE c = [d EXCEPT !.weights = x]
  BY <1>4 DEF AllTables
<1>5. CASE c = [d EXCEPT !.runs = x]
  BY <1>5 DEF AllTables
<1> QED BY <1>1, <1>2, <1>3, <1>4, <1>5

LEMMA PutTests ==
    ASSUME NEW d, AllTables(d), NEW x, NEW c, c = [d EXCEPT !.tests = x]
    PROVE  /\ AllTables(c) /\ c.entries = d.entries /\ c.evidence = d.evidence
           /\ c.tests = x /\ c.failed = d.failed
BY DEF AllTables

LEMMA ShapeTables ==
    ASSUME NEW d, Shape(d)
    PROVE  AllTables(d) /\ RowTable(d.entries)
BY DEF Shape, AllTables, RowTable

(* A row that takes the place of another. *)
PutFor(c, d, e, r) == c = [d EXCEPT !.entries = [d.entries EXCEPT ![e] = r]]

LEMMA RowPut ==
    ASSUME NEW d, AllTables(d), RowTable(d.entries), NEW e \in Entries, NEW r,
           NEW c, PutFor(c, d, e, r)
    PROVE  Turned(c, d, e) /\ c.evidence = d.evidence /\ c.entries[e] = r
<1> DEFINE t == [d.entries EXCEPT ![e] = r]
<1>1. t = [x \in Entries |-> IF x = e THEN r ELSE d.entries[x]]
  BY DEF RowTable
<1>2. RowTable(t) /\ t[e] = r /\ \A x \in Entries : x # e => t[x] = d.entries[x]
  <2> HIDE DEF t
  <2> QED BY <1>1 DEF RowTable
<1>3. c = [d EXCEPT !.entries = t]
  BY DEF PutFor
<1> HIDE DEF t
<1>4. /\ AllTables(c) /\ c.entries = t /\ c.evidence = d.evidence
      /\ c.tests = d.tests /\ c.failed = d.failed
  BY <1>3, PutRows
<1> QED BY <1>2, <1>4 DEF Turned

LEMMA StatusTurns ==
    ASSUME NEW d, AllTables(d), RowTable(d.entries), NEW e \in Entries, EntryForm(d.entries[e]),
           NEW c, c = WithStatus(d, e)
    PROVE  /\ Turned(c, d, e) /\ c.evidence = d.evidence
           /\ SameText(c.entries[e], d.entries[e])
           /\ c.entries[e].live = d.entries[e].live
           /\ c.entries[e].updated = d.entries[e].updated
           /\ c.entries[e].status = StatusOf(d.entries[e].kind, CitedBy(d, e) # {})
<1> DEFINE s == EvidenceStatus(d, e)
           q == d.entries[e]
           r == [q EXCEPT !.status = s]
<1>1. PutFor(c, d, e, r)
  BY DEF WithStatus, PutFor
<1>2. s = StatusOf(q.kind, CitedBy(d, e) # {})
  BY DEF EvidenceStatus, StatusOf
<1> HIDE DEF s
<1>3. SameText(r, q) /\ r.live = q.live /\ r.updated = q.updated /\ r.status = s
  <2> HIDE DEF q
  <2> QED BY DEF q, SameText, EntryForm
<1> HIDE DEF r
<1>4. Turned(c, d, e) /\ c.evidence = d.evidence /\ c.entries[e] = r
  BY <1>1, RowPut
<1> QED BY <1>2, <1>3, <1>4

LEMMA TouchTurns ==
    ASSUME NEW d, AllTables(d), RowTable(d.entries), NEW e \in Entries, EntryForm(d.entries[e]),
           NEW ts, NEW c, c = Touched(d, e, ts)
    PROVE  /\ Turned(c, d, e) /\ c.evidence = d.evidence
           /\ SameText(c.entries[e], d.entries[e])
           /\ c.entries[e].live = d.entries[e].live
           /\ c.entries[e].updated = ts
<1> DEFINE q == d.entries[e]
           r == [q EXCEPT !.updated = ts]
<1>1. PutFor(c, d, e, r)
  BY DEF Touched, PutFor
<1>2. SameText(r, q) /\ r.live = q.live /\ r.updated = ts
  <2> HIDE DEF q
  <2> QED BY DEF q, SameText, EntryForm
<1> HIDE DEF r
<1>3. Turned(c, d, e) /\ c.evidence = d.evidence /\ c.entries[e] = r
  BY <1>1, RowPut
<1> QED BY <1>2, <1>3

LEMMA TurnedTwice ==
    ASSUME NEW b, NEW c, NEW d, NEW e, Turned(c, b, e), Turned(b, d, e)
    PROVE  Turned(c, d, e)
BY DEF Turned

(* The row that an upsert makes of q. *)
UpsertMade(r, q, ev, held) ==
    /\ EntryForm(r) /\ r.live = TRUE /\ r.path = ev.path /\ r.permanent = ev.permanent
    /\ r.text = ev.ts /\ r.updated = ev.ts /\ r.kind = KindSaid(ev)
    /\ r.status = IF ev.kind # "none" THEN StatusOf(KindSaid(ev), held)
                  ELSE IF q.row THEN q.status ELSE "n/a"

LEMMA UpsertTurns ==
    ASSUME NEW d, Shape(d), NEW ev, IsEvent(ev), ev.op = "upsert", NEW embeds,
           NEW c, c = ApplyUpsert(d, ev, embeds)
    PROVE  /\ Turned(c, d, ev.id) /\ c.evidence = d.evidence
           /\ UpsertMade(c.entries[ev.id], d.entries[ev.id], ev, CitedBy(d, ev.id) # {})
<1> DEFINE e == ev.id
           q == d.entries[e]
           row == [live |-> TRUE, row |-> TRUE, path |-> ev.path,
                   permanent |-> ev.permanent, updated |-> ev.ts, text |-> ev.ts,
                   kind |-> IF ev.kind = "none" THEN "belief" ELSE ev.kind,
                   status |-> IF q.row THEN q.status ELSE "n/a"]
           t == [d.entries EXCEPT ![e] = row]
           v == [d.emb EXCEPT ![e] = IF embeds THEN row.text ELSE @]
           mid == [d EXCEPT !.entries = t]
           put == [mid EXCEPT !.emb = v]
<1>0. e \in Entries /\ AllTables(d) /\ RowTable(d.entries)
  BY ShapeTables DEF IsEvent, EvidenceOps
<1>1. /\ EntryForm(row) /\ row.live = TRUE /\ row.path = ev.path /\ row.permanent = ev.permanent
      /\ row.text = ev.ts /\ row.updated = ev.ts /\ row.kind = KindSaid(ev)
      /\ row.status = IF q.row THEN q.status ELSE "n/a"
  <2>1. row.kind \in Kinds
    BY DEF IsEvent, Kinds, Mandated, EvidenceOps
  <2> HIDE DEF e, q
  <2> QED BY <2>1 DEF EntryForm, KindSaid
<1>2. mid.emb = d.emb
  <2> HIDE DEF t
  <2> QED BY <1>0 DEF AllTables
<1>3. ApplyUpsert(d, ev, embeds) = IF ev.kind = "none" THEN put ELSE WithStatus(put, e)
  <2>1. [d EXCEPT !.entries[e] = row, !.emb[e] = IF embeds THEN row.text ELSE @]
            = [mid EXCEPT !.emb = [mid.emb EXCEPT ![e] = IF embeds THEN row.text ELSE @]]
    BY DEF t
  <2> HIDE DEF mid, row
  <2>2. [d EXCEPT !.entries[e] = row, !.emb[e] = IF embeds THEN row.text ELSE @] = put
    BY <1>2, <2>1
  <2> HIDE DEF put
  <2> QED BY <2>2 DEF ApplyUpsert, row
<1> HIDE DEF row, v
<1>a. PutFor(mid, d, e, row)
  BY DEF PutFor
<1>4. Turned(mid, d, e) /\ mid.evidence = d.evidence /\ mid.entries[e] = row
  <2> HIDE DEF mid
  <2> QED BY <1>0, <1>a, RowPut
<1> HIDE DEF mid
<1>5. /\ AllTables(put) /\ put.entries = mid.entries /\ put.evidence = mid.evidence
      /\ put.tests = mid.tests /\ put.failed = mid.failed
  BY <1>4, PutOthers DEF Turned
<1> HIDE DEF put
<1>6. Turned(put, d, e) /\ put.evidence = d.evidence /\ put.entries[e] = row
  BY <1>4, <1>5 DEF Turned
<1>7. CitedBy(put, e) = CitedBy(d, e)
  BY <1>6 DEF CitedBy
<1>8. CASE ev.kind = "none"
  <2>1. c = put
    BY <1>3, <1>8
  <2> HIDE DEF e
  <2> QED BY <1>1, <1>6, <1>8, <2>1 DEF UpsertMade, e
<1>9. CASE ev.kind # "none"
  <2>1. c = WithStatus(put, e)
    BY <1>3, <1>9
  <2>2. /\ Turned(c, put, e) /\ c.evidence = put.evidence
        /\ SameText(c.entries[e], put.entries[e])
        /\ c.entries[e].live = put.entries[e].live
        /\ c.entries[e].updated = put.entries[e].updated
        /\ c.entries[e].status = StatusOf(put.entries[e].kind, CitedBy(put, e) # {})
    BY <1>0, <1>1, <1>6, <2>1, StatusTurns DEF Turned
  <2>3. Turned(c, d, e) /\ c.evidence = d.evidence
    BY <1>6, <2>2, TurnedTwice
  <2>4. UpsertMade(c.entries[e], q, ev, CitedBy(d, e) # {})
    BY <1>1, <1>6, <1>7, <1>9, <2>2 DEF UpsertMade, SameText
  <2> QED BY <2>3, <2>4
<1> QED BY <1>8, <1>9

(* The row that a new event about its evidence makes of q. *)
Restamped(r, q, ts, held) ==
    /\ SameText(r, q) /\ r.live = q.live /\ r.updated = ts /\ r.status = StatusOf(q.kind, held)

(* The rows of evidence change, and with them the entry they are about. *)
Remade(c, d, rows, e, ts) == c = WithStatus(Touched([d EXCEPT !.evidence = rows], e, ts), e)

LEMMA EvidenceTurns ==
    ASSUME NEW d, Shape(d), NEW e \in Entries, LiveIn(d, e), NEW rows, NEW ts,
           NEW c, Remade(c, d, rows, e, ts)
    PROVE  /\ Turned(c, d, e) /\ c.evidence = rows
           /\ Restamped(c.entries[e], d.entries[e], ts, CitedBy(c, e) # {})
<1> DEFINE mid == [d EXCEPT !.evidence = rows]
           put == Touched(mid, e, ts)
<1>0. AllTables(d) /\ RowTable(d.entries)
  BY ShapeTables
<1>1. EntryForm(d.entries[e])
  <2>1. d.entries[e].row = TRUE
    BY LiveHasRow
  <2>2. d.entries[e] # Absent
    BY <2>1 DEF Absent
  <2>3. d.entries[e] = Absent \/ EntryForm(d.entries[e])
    BY DEF Shape
  <2> QED BY <2>2, <2>3
<1>2. /\ AllTables(mid) /\ mid.entries = d.entries /\ mid.evidence = rows
      /\ mid.tests = d.tests /\ mid.failed = d.failed
  BY <1>0, PutEvidence
<1> HIDE DEF mid
<1>3. /\ Turned(put, mid, e) /\ put.evidence = mid.evidence
      /\ SameText(put.entries[e], mid.entries[e])
      /\ put.entries[e].live = mid.entries[e].live /\ put.entries[e].updated = ts
  BY <1>0, <1>1, <1>2, TouchTurns
<1>4. c = WithStatus(put, e)
  BY DEF mid, Remade
<1> HIDE DEF put
<1>5. /\ Turned(c, put, e) /\ c.evidence = put.evidence
      /\ SameText(c.entries[e], put.entries[e])
      /\ c.entries[e].live = put.entries[e].live
      /\ c.entries[e].updated = put.entries[e].updated
      /\ c.entries[e].status = StatusOf(put.entries[e].kind, CitedBy(put, e) # {})
  BY <1>3, <1>4, StatusTurns DEF Turned, SameText
<1>6. Turned(c, d, e)
  BY <1>2, <1>3, <1>5 DEF Turned
<1>7. c.evidence = rows /\ CitedBy(c, e) = CitedBy(put, e)
  BY <1>2, <1>3, <1>5 DEF CitedBy
<1> QED BY <1>2, <1>3, <1>5, <1>6, <1>7 DEF Restamped, SameText

Stopped(r, q, ts) ==
    /\ SameText(r, q) /\ r.live = FALSE /\ r.updated = ts /\ r.status = "n/a"

LEMMA ExpiredTurns ==
    ASSUME NEW d, Shape(d), NEW ended, NEW ts, NEW c, c = Expired(d, ended, ts)
    PROVE  /\ AllTables(c) /\ RowTable(c.entries) /\ c.tests = d.tests /\ c.failed = d.failed
           /\ c.evidence = {r \in d.evidence : r.owner \notin ended}
           /\ \A e \in Entries :
                 /\ e \in ended /\ d.entries[e].row => Stopped(c.entries[e], d.entries[e], ts)
                 /\ ~(e \in ended /\ d.entries[e].row) => c.entries[e] = d.entries[e]
<1> DEFINE x == {r \in d.evidence : r.owner \notin ended}
           v == [e \in Entries |-> IF e \in ended THEN NoVector ELSE d.emb[e]]
           t == [e \in Entries |->
                    IF e \in ended /\ d.entries[e].row
                    THEN [d.entries[e] EXCEPT !.live = FALSE, !.status = "n/a", !.updated = ts]
                    ELSE d.entries[e]]
           a == [d EXCEPT !.evidence = x]
           b == [a EXCEPT !.emb = v]
           z == [b EXCEPT !.entries = t]
<1>1. c = z
  BY DEF Expired, Shape
<1>2. RowTable(t)
  BY DEF RowTable
<1>3. ASSUME NEW e \in Entries, e \in ended, d.entries[e].row
      PROVE  Stopped(t[e], d.entries[e], ts)
  <2> DEFINE q == d.entries[e]
  <2>1. EntryForm(q)
    BY <1>3 DEF Shape, Absent
  <2>2. t[e] = [q EXCEPT !.live = FALSE, !.status = "n/a", !.updated = ts]
    BY <1>3
  <2> HIDE DEF t, q
  <2>3. Stopped(t[e], q, ts)
    BY <2>1, <2>2 DEF EntryForm, Stopped, SameText
  <2> QED BY <2>3 DEF q
<1>4. \A e \in Entries : ~(e \in ended /\ d.entries[e].row) => t[e] = d.entries[e]
  OBVIOUS
<1> HIDE DEF x, v, t
<1>5. AllTables(a) /\ a.entries = d.entries /\ a.evidence = x /\ a.tests = d.tests /\ a.failed = d.failed
  BY ShapeTables, PutEvidence
<1> HIDE DEF a
<1>6. AllTables(b) /\ b.evidence = x /\ b.tests = d.tests /\ b.failed = d.failed
  <2>1. /\ AllTables(b) /\ b.entries = a.entries /\ b.evidence = a.evidence
        /\ b.tests = a.tests /\ b.failed = a.failed
    BY <1>5, PutOthers
  <2> HIDE DEF b
  <2> QED BY <1>5, <2>1
<1> HIDE DEF b
<1>7. AllTables(z) /\ z.entries = t /\ z.evidence = x /\ z.tests = d.tests /\ z.failed = d.failed
  <2>1. /\ AllTables(z) /\ z.entries = t /\ z.evidence = b.evidence
        /\ z.tests = b.tests /\ z.failed = b.failed
    BY <1>6, PutRows
  <2> HIDE DEF z
  <2> QED BY <1>6, <2>1
<1> HIDE DEF z
<1> QED BY <1>1, <1>2, <1>3, <1>4, <1>7 DEF x

-----------------------------------------------------------------------------
(* What the first n events say of every column.                            *)

Updates(L, j, e) == Ends(L[j], e) \/ (Dates(L[j], e) /\ Alive(L, e, j))

UpdatedAs(r, L, e, n) ==
    \E j \in 1..n : /\ Updates(L, j, e) /\ r.updated = L[j].ts
                    /\ \A i \in j + 1..n : ~Updates(L, i, e)

Holds(L, e, n) == \E p \in Owners(L)[n] : p[2] = e

(* The status was derived since the entry came to be live. *)
Restated(L, e, n) ==
    \E i \in 1..n : /\ L[i].op \in {"evidence_add", "evidence_expire"} /\ L[i].id = e
                    /\ Alive(L, e, i) /\ \A x \in i + 1..n : ~Ends(L[x], e)

StatusSaid(L, u, e, n) ==
    IF ~Alive(L, e, n) THEN "n/a"
    ELSE IF L[u].kind # "none" \/ Restated(L, e, n)
    THEN StatusOf(KindSaid(L[u]), Holds(L, e, n)) ELSE "n/a"

RowFrom(r, L, u, e, n) ==
    /\ EntryForm(r) /\ r.path = L[u].path /\ r.permanent = L[u].permanent
    /\ r.text = L[u].ts /\ r.kind = KindSaid(L[u])
    /\ r.live \in BOOLEAN /\ (r.live <=> Alive(L, e, n))
    /\ UpdatedAs(r, L, e, n)
    /\ r.status = StatusSaid(L, u, e, n)

NoUpsert(L, e, n) == \A u \in 1..n : ~IsUpsert(L, u, e)

RowTold(r, L, e, n) ==
    \/ r = Absent /\ NoUpsert(L, e, n)
    \/ \E u : Latest(L, u, e, n) /\ RowFrom(r, L, u, e, n)

Points(ev, r) == ev.op \in {"evidence_add", "citation_healed"} /\ ev.ev = r.ev /\ ev.id = r.owner

PointTold(r, L, n) ==
    \E j \in 1..n : Points(L[j], r) /\ r.at = L[j].at /\ \A i \in j + 1..n : ~Points(L[i], r)

Defines(ev, t) == ev.op = "test" /\ ev.id = t

TestSaid(v, L, t, n) ==
    \/ v = 0 /\ \A j \in 1..n : ~Defines(L[j], t)
    \/ \E j \in 1..n : Defines(L[j], t) /\ v = L[j].ts /\ \A i \in j + 1..n : ~Defines(L[i], t)

RowsSaid(d, L, n) == \A e \in Entries : RowTold(d.entries[e], L, e, n)
PointsSaid(d, L, n) == \A r \in d.evidence : PointTold(r, L, n)
TestsSaid(d, L, n) ==
    /\ d.tests = [t \in Tests |-> d.tests[t]]
    /\ \A t \in Tests : TestSaid(d.tests[t], L, t, n)

Pictures(d, L, n) == RowsSaid(d, L, n) /\ PointsSaid(d, L, n) /\ TestsSaid(d, L, n)

LEMMA HoldsIs ==
    ASSUME NEW d, NEW L, NEW n, Says(d, L, n), NEW e
    PROVE  Holds(L, e, n) <=> CitedBy(d, e) # {}
<1>1. ASSUME NEW p \in Owners(L)[n], p[2] = e PROVE CitedBy(d, e) # {}
  <2>1. PICK r \in d.evidence : p = <<r.ev, r.owner>>
    BY <1>1 DEF Says, Cited
  <2> QED BY <1>1, <2>1 DEF CitedBy
<1>2. ASSUME NEW r \in CitedBy(d, e) PROVE Holds(L, e, n)
  <2>1. <<r.ev, r.owner>> \in Owners(L)[n] /\ r.owner = e
    BY <1>2 DEF CitedBy, Says, Cited
  <2> QED BY <2>1 DEF Holds
<1> QED BY <1>1, <1>2 DEF Holds

(* The event tells of the evidence of e and is not void. *)
Restates(L, i, e) ==
    L[i].op \in {"evidence_add", "evidence_expire"} /\ L[i].id = e /\ Alive(L, e, i)

LEMMA HoldsStays ==
    ASSUME NEW L, IsLog(L), NEW n \in Nat, n + 1 \in 1..Len(L), NEW e,
           ~Ends(L[n + 1], e), ~Restates(L, n + 1, e)
    PROVE  Holds(L, e, n + 1) <=> Holds(L, e, n)
<1> DEFINE ev == L[n + 1]
           own == Owners(L)[n]
<1>1. Owners(L)[n + 1] = OwnersNext(L, n + 1, own) /\ n \in 0..Len(L)
  <2>1. (n + 1) - 1 = n /\ Len(L) \in Nat
    BY LogForm
  <2> QED BY <2>1, OwnersIs
<1>2. (n + 1) - 1 = n
  OBVIOUS
<1>3. ASSUME ev.op \in {"evidence_add", "evidence_expire"}, ev.id = e PROVE ~LiveAt(L, e, n)
  <2>1. ~Alive(L, e, n + 1)
    BY <1>3 DEF Restates
  <2>2. ~IsUpsert(L, n + 1, e)
    BY <1>3 DEF IsUpsert
  <2>3. ~Alive(L, e, n)
    BY <2>1, <2>2, AliveNext
  <2> QED BY <1>1, <2>3, LiveAtIs
<1>4. \A p : p[2] = e => (p \in OwnersNext(L, n + 1, own) <=> p \in own)
  <2> SUFFICES ASSUME NEW p, p[2] = e PROVE p \in OwnersNext(L, n + 1, own) <=> p \in own
    OBVIOUS
  <2> HIDE DEF own
  <2>1. CASE ev.op = "evidence_add"
    <3>1. CASE ev.id = e
      BY <1>2, <1>3, <2>1, <3>1 DEF OwnersNext
    <3>2. CASE ev.id # e
      <4>1. p # <<ev.ev, ev.id>>
        BY <3>2
      <4> QED BY <2>1, <4>1 DEF OwnersNext
    <3> QED BY <3>1, <3>2
  <2>2. CASE ev.op = "evidence_expire"
    <3>1. CASE ev.id = e
      BY <1>2, <1>3, <2>2, <3>1 DEF OwnersNext
    <3>2. CASE ev.id # e
      <4>1. p # <<ev.ev, ev.id>>
        BY <3>2
      <4> QED BY <2>2, <4>1 DEF OwnersNext
    <3> QED BY <3>1, <3>2
  <2>3. CASE ev.op \notin {"evidence_add", "evidence_expire"}
    BY <2>3 DEF OwnersNext
  <2> QED BY <2>1, <2>2, <2>3
<1> QED BY <1>1, <1>4 DEF Holds

LEMMA DatedStays ==
    ASSUME NEW L, NEW n \in Nat, NEW e, NEW r, UpdatedAs(r, L, e, n), ~Updates(L, n + 1, e)
    PROVE  UpdatedAs(r, L, e, n + 1)
<1>1. PICK j \in 1..n : /\ Updates(L, j, e) /\ r.updated = L[j].ts
                        /\ \A i \in j + 1..n : ~Updates(L, i, e)
  BY DEF UpdatedAs
<1>2. j \in 1..n + 1 /\ \A i \in j + 1..n + 1 : i \in j + 1..n \/ i = n + 1
  OBVIOUS
<1> QED BY <1>1, <1>2 DEF UpdatedAs

LEMMA DatedNext ==
    ASSUME NEW L, NEW n \in Nat, NEW e, NEW r, r.updated = L[n + 1].ts, Updates(L, n + 1, e)
    PROVE  UpdatedAs(r, L, e, n + 1)
<1>1. n + 1 \in 1..n + 1 /\ (n + 1) + 1..n + 1 = {}
  OBVIOUS
<1> QED BY <1>1 DEF UpdatedAs

LEMMA RestatedNext ==
    ASSUME NEW L, NEW n \in Nat, NEW e
    PROVE  /\ Restates(L, n + 1, e) => Restated(L, e, n + 1)
           /\ ~Restates(L, n + 1, e) /\ ~Ends(L[n + 1], e)
                  => (Restated(L, e, n + 1) <=> Restated(L, e, n))
<1>1. ASSUME Restates(L, n + 1, e) PROVE Restated(L, e, n + 1)
  <2>1. n + 1 \in 1..n + 1 /\ (n + 1) + 1..n + 1 = {}
    OBVIOUS
  <2> QED BY <1>1, <2>1 DEF Restates, Restated
<1>2. ASSUME ~Restates(L, n + 1, e), Restated(L, e, n + 1) PROVE Restated(L, e, n)
  <2>1. PICK i \in 1..n + 1 : Restates(L, i, e) /\ \A x \in i + 1..n + 1 : ~Ends(L[x], e)
    BY <1>2 DEF Restated, Restates
  <2>2. i \in 1..n /\ \A x \in i + 1..n : x \in i + 1..n + 1
    BY <1>2, <2>1
  <2> QED BY <2>1, <2>2 DEF Restated, Restates
<1>3. ASSUME ~Ends(L[n + 1], e), Restated(L, e, n) PROVE Restated(L, e, n + 1)
  <2>1. PICK i \in 1..n : Restates(L, i, e) /\ \A x \in i + 1..n : ~Ends(L[x], e)
    BY <1>3 DEF Restated, Restates
  <2>2. i \in 1..n + 1 /\ \A x \in i + 1..n + 1 : x \in i + 1..n \/ x = n + 1
    OBVIOUS
  <2> QED BY <1>3, <2>1, <2>2 DEF Restated, Restates
<1> QED BY <1>1, <1>2, <1>3

LEMMA LatestStays ==
    ASSUME NEW L, NEW n \in Nat, NEW e, NEW u, Latest(L, u, e, n), ~IsUpsert(L, n + 1, e)
    PROVE  Latest(L, u, e, n + 1)
<1>1. u \in 1..n + 1 /\ \A w \in u + 1..n + 1 : w \in u + 1..n \/ w = n + 1
  BY DEF Latest
<1> QED BY <1>1 DEF Latest

LEMMA AbsentStays ==
    ASSUME NEW L, NEW n \in Nat, NEW e, NEW r, r = Absent, NoUpsert(L, e, n), ~IsUpsert(L, n + 1, e)
    PROVE  RowTold(r, L, e, n + 1)
<1>1. \A u \in 1..n + 1 : u \in 1..n \/ u = n + 1
  OBVIOUS
<1> QED BY <1>1 DEF RowTold, NoUpsert

(* A row that the event is not about. *)
LEMMA RowStands ==
    ASSUME NEW L, IsLog(L), NEW n \in Nat, n + 1 \in 1..Len(L), NEW e, NEW r, RowTold(r, L, e, n),
           ~IsUpsert(L, n + 1, e), ~Ends(L[n + 1], e), ~Restates(L, n + 1, e)
    PROVE  RowTold(r, L, e, n + 1)
<1>1. CASE r = Absent /\ NoUpsert(L, e, n)
  BY <1>1, AbsentStays
<1>2. CASE \E u : Latest(L, u, e, n) /\ RowFrom(r, L, u, e, n)
  <2>1. PICK u : Latest(L, u, e, n) /\ RowFrom(r, L, u, e, n)
    BY <1>2
  <2>2. Latest(L, u, e, n + 1)
    BY <2>1, LatestStays
  <2>3. Alive(L, e, n + 1) <=> Alive(L, e, n)
    BY AliveNext
  <2>4. Holds(L, e, n + 1) <=> Holds(L, e, n)
    BY HoldsStays
  <2>5. Restated(L, e, n + 1) <=> Restated(L, e, n)
    BY RestatedNext
  <2>6. StatusSaid(L, u, e, n + 1) = StatusSaid(L, u, e, n)
    <3>1. StatusOf(KindSaid(L[u]), Holds(L, e, n + 1)) = StatusOf(KindSaid(L[u]), Holds(L, e, n))
      BY <2>4 DEF StatusOf
    <3> QED BY <2>3, <2>5, <3>1 DEF StatusSaid
  <2>7. ~Updates(L, n + 1, e)
    BY DEF Updates, Dates, DatingOps, IsUpsert, Restates
  <2>8. UpdatedAs(r, L, e, n + 1)
    BY <2>1, <2>7, DatedStays DEF RowFrom
  <2>9. RowFrom(r, L, u, e, n + 1)
    BY <2>1, <2>3, <2>6, <2>8 DEF RowFrom
  <2> QED BY <2>2, <2>9 DEF RowTold
<1> QED BY <1>1, <1>2 DEF RowTold

LEMMA RowStops ==
    ASSUME NEW L, NEW n \in Nat, NEW e, NEW q, RowTold(q, L, e, n), Ends(L[n + 1], e),
           NEW r, q.row => Stopped(r, q, L[n + 1].ts), ~q.row => r = q
    PROVE  RowTold(r, L, e, n + 1)
<1>0. ~IsUpsert(L, n + 1, e)
  BY DEF Ends, IsUpsert
<1>1. CASE q = Absent /\ NoUpsert(L, e, n)
  <2>1. r = Absent
    BY <1>1 DEF Absent
  <2> QED BY <1>0, <1>1, <2>1, AbsentStays
<1>2. CASE \E u : Latest(L, u, e, n) /\ RowFrom(q, L, u, e, n)
  <2>1. PICK u : Latest(L, u, e, n) /\ RowFrom(q, L, u, e, n)
    BY <1>2
  <2>2. Stopped(r, q, L[n + 1].ts)
    BY <2>1 DEF RowFrom, EntryForm
  <2>3. Latest(L, u, e, n + 1)
    BY <1>0, <2>1, LatestStays
  <2>4. ~Alive(L, e, n + 1)
    BY AliveNext
  <2>5. UpdatedAs(r, L, e, n + 1)
    BY <2>2, DatedNext DEF Stopped, Updates
  <2>6. r.status = StatusSaid(L, u, e, n + 1)
    BY <2>2, <2>4 DEF Stopped, StatusSaid
  <2>7. RowFrom(r, L, u, e, n + 1)
    BY <2>1, <2>2, <2>4, <2>5, <2>6 DEF RowFrom, Stopped, SameText
  <2> QED BY <2>3, <2>7 DEF RowTold
<1> QED BY <1>1, <1>2 DEF RowTold

LEMMA RowRestamped ==
    ASSUME NEW L, NEW n \in Nat, NEW e, NEW q, RowTold(q, L, e, n), Restates(L, n + 1, e),
           NEW held, held <=> Holds(L, e, n + 1),
           NEW r, Restamped(r, q, L[n + 1].ts, held)
    PROVE  RowTold(r, L, e, n + 1)
<1>0. ~IsUpsert(L, n + 1, e) /\ ~Ends(L[n + 1], e) /\ Alive(L, e, n + 1)
  BY DEF Ends, IsUpsert, Restates
<1>1. Alive(L, e, n)
  BY <1>0, AliveNext
<1>2. ~NoUpsert(L, e, n)
  BY <1>1 DEF Alive, NoUpsert
<1>3. PICK u : Latest(L, u, e, n) /\ RowFrom(q, L, u, e, n)
  BY <1>2 DEF RowTold
<1>4. Latest(L, u, e, n + 1)
  BY <1>0, <1>3, LatestStays
<1>5. UpdatedAs(r, L, e, n + 1)
  BY <1>0, DatedNext DEF Restamped, Updates, Dates, DatingOps, Restates
<1>6. Restated(L, e, n + 1)
  BY RestatedNext
<1>7. r.status = StatusSaid(L, u, e, n + 1)
  <2>1. StatusOf(q.kind, held) = StatusOf(KindSaid(L[u]), Holds(L, e, n + 1))
    BY <1>3 DEF StatusOf, RowFrom
  <2> QED BY <1>0, <1>6, <2>1 DEF StatusSaid, Restamped
<1>8. RowFrom(r, L, u, e, n + 1)
  BY <1>0, <1>1, <1>3, <1>5, <1>7 DEF RowFrom, Restamped, SameText
<1> QED BY <1>4, <1>8 DEF RowTold

(* A dead entry has no evidence and no status. *)
LEMMA DeadHasNone ==
    ASSUME NEW L, IsLog(L), NEW n \in 0..Len(L), NEW e, ~Alive(L, e, n)
    PROVE  ~Holds(L, e, n) /\ ~Restated(L, e, n)
<1>1. ~Holds(L, e, n)
  BY OwnersAlive DEF Holds
<1>2. ASSUME Restated(L, e, n) PROVE FALSE
  <2>1. PICK i \in 1..n : Alive(L, e, i) /\ \A x \in i + 1..n : ~Ends(L[x], e)
    BY <1>2 DEF Restated
  <2>2. PICK u \in 1..i : IsUpsert(L, u, e) /\ \A x \in u + 1..i : ~Ends(L[x], e)
    BY <2>1 DEF Alive
  <2>3. u \in 1..n /\ \A x \in u + 1..n : x \in u + 1..i \/ x \in i + 1..n
    OBVIOUS
  <2> QED BY <2>1, <2>2, <2>3 DEF Alive
<1> QED BY <1>1, <1>2

LEMMA RowUpserted ==
    ASSUME NEW L, IsLog(L), KindsComeLast(L), NEW n \in Nat, n + 1 \in 1..Len(L),
           NEW e \in Entries, NEW q, RowTold(q, L, e, n), IsUpsert(L, n + 1, e),
           NEW held, held <=> Holds(L, e, n + 1),
           NEW r, UpsertMade(r, q, L[n + 1], held)
    PROVE  RowTold(r, L, e, n + 1)
<1>0. ~Ends(L[n + 1], e) /\ ~Restates(L, n + 1, e) /\ n \in 0..Len(L)
  <2>1. n \in 0..Len(L)
    BY LogForm
  <2> QED BY <2>1 DEF Ends, IsUpsert, Restates
<1>1. Latest(L, n + 1, e, n + 1)
  <2>1. n + 1 \in 1..n + 1 /\ (n + 1) + 1..n + 1 = {}
    OBVIOUS
  <2> QED BY <2>1 DEF Latest
<1>2. Alive(L, e, n + 1)
  BY AliveNext
<1>3. Holds(L, e, n + 1) <=> Holds(L, e, n)
  BY <1>0, HoldsStays
<1>4. Restated(L, e, n + 1) <=> Restated(L, e, n)
  BY <1>0, RestatedNext
<1>5. UpdatedAs(r, L, e, n + 1)
  BY <1>2, DatedNext DEF UpsertMade, Updates, Dates, DatingOps, IsUpsert
<1>6. r.status = StatusSaid(L, n + 1, e, n + 1)
  <2>1. CASE L[n + 1].kind # "none"
    <3>1. StatusOf(KindSaid(L[n + 1]), held) = StatusOf(KindSaid(L[n + 1]), Holds(L, e, n + 1))
      BY DEF StatusOf
    <3> QED BY <1>2, <2>1, <3>1 DEF StatusSaid, UpsertMade
  <2>2. CASE L[n + 1].kind = "none"
    <3>0. r.status = IF q.row THEN q.status ELSE "n/a"
      BY <2>2 DEF UpsertMade
    <3>1. CASE q = Absent /\ NoUpsert(L, e, n)
      <4>1. ~Alive(L, e, n)
        BY <3>1 DEF Alive, NoUpsert
      <4>2. ~Restated(L, e, n + 1)
        BY <1>0, <1>4, <4>1, DeadHasNone
      <4> QED BY <2>2, <3>0, <3>1, <4>2 DEF StatusSaid, Absent
    <3>2. CASE \E u : Latest(L, u, e, n) /\ RowFrom(q, L, u, e, n)
      <4>1. PICK u : Latest(L, u, e, n) /\ RowFrom(q, L, u, e, n)
        BY <3>2
      <4>2. r.status = StatusSaid(L, u, e, n)
        BY <3>0, <4>1 DEF RowFrom, EntryForm
      <4>3. L[u].kind = "none"
        <5>1. u \in DOMAIN L /\ n + 1 \in DOMAIN L /\ u < n + 1
          BY <4>1, LogForm DEF Latest
        <5>2. u \in Upserts(L, e) /\ n + 1 \in Upserts(L, e)
          BY <4>1, <5>1 DEF Upserts, IsUpsert, Latest
        <5> QED BY <2>2, <5>1, <5>2 DEF KindsComeLast
      <4>4. CASE Alive(L, e, n)
        <5>1. KindSaid(L[u]) = KindSaid(L[n + 1])
          BY <2>2, <4>3 DEF KindSaid
        <5>2. StatusOf(KindSaid(L[u]), Holds(L, e, n)) = StatusOf(KindSaid(L[n + 1]), Holds(L, e, n + 1))
          BY <1>3, <5>1 DEF StatusOf
        <5> QED BY <1>2, <1>4, <2>2, <4>2, <4>3, <4>4, <5>2 DEF StatusSaid
      <4>5. CASE ~Alive(L, e, n)
        <5>1. ~Restated(L, e, n + 1)
          BY <1>0, <1>4, <4>5, DeadHasNone
        <5> QED BY <2>2, <4>2, <4>5, <5>1 DEF StatusSaid
      <4> QED BY <4>4, <4>5
    <3> QED BY <3>1, <3>2 DEF RowTold
  <2> QED BY <2>1, <2>2
<1>7. RowFrom(r, L, n + 1, e, n + 1)
  BY <1>2, <1>5, <1>6 DEF RowFrom, UpsertMade
<1> QED BY <1>1, <1>7 DEF RowTold

LEMMA PointStays ==
    ASSUME NEW L, NEW n \in Nat, NEW r, PointTold(r, L, n), ~Points(L[n + 1], r)
    PROVE  PointTold(r, L, n + 1)
<1>1. PICK j \in 1..n : Points(L[j], r) /\ r.at = L[j].at /\ \A i \in j + 1..n : ~Points(L[i], r)
  BY DEF PointTold
<1>2. j \in 1..n + 1 /\ \A i \in j + 1..n + 1 : i \in j + 1..n \/ i = n + 1
  OBVIOUS
<1> QED BY <1>1, <1>2 DEF PointTold

LEMMA PointNext ==
    ASSUME NEW L, NEW n \in Nat, NEW r, Points(L[n + 1], r), r.at = L[n + 1].at
    PROVE  PointTold(r, L, n + 1)
<1>1. n + 1 \in 1..n + 1 /\ (n + 1) + 1..n + 1 = {}
  OBVIOUS
<1> QED BY <1>1 DEF PointTold

LEMMA QuietPoints ==
    ASSUME NEW L, NEW n \in Nat, NEW d, PointsSaid(d, L, n), NEW c, c.evidence \subseteq d.evidence,
           L[n + 1].op \notin {"evidence_add", "citation_healed"}
    PROVE  PointsSaid(c, L, n + 1)
BY PointStays DEF PointsSaid, Points

LEMMA QuietTests ==
    ASSUME NEW L, NEW n \in Nat, NEW d, TestsSaid(d, L, n), NEW c, c.tests = d.tests,
           L[n + 1].op # "test"
    PROVE  TestsSaid(c, L, n + 1)
<1> SUFFICES ASSUME NEW t \in Tests PROVE TestSaid(d.tests[t], L, t, n + 1)
  BY DEF TestsSaid
<1>1. ~Defines(L[n + 1], t)
  BY DEF Defines
<1>2. TestSaid(d.tests[t], L, t, n)
  BY DEF TestsSaid
<1>3. CASE d.tests[t] = 0 /\ \A j \in 1..n : ~Defines(L[j], t)
  <2>1. \A j \in 1..n + 1 : j \in 1..n \/ j = n + 1
    OBVIOUS
  <2> QED BY <1>1, <1>3, <2>1 DEF TestSaid
<1>4. CASE \E j \in 1..n : /\ Defines(L[j], t) /\ d.tests[t] = L[j].ts
                           /\ \A i \in j + 1..n : ~Defines(L[i], t)
  <2>1. PICK j \in 1..n : /\ Defines(L[j], t) /\ d.tests[t] = L[j].ts
                          /\ \A i \in j + 1..n : ~Defines(L[i], t)
    BY <1>4
  <2>2. j \in 1..n + 1 /\ \A i \in j + 1..n + 1 : i \in j + 1..n \/ i = n + 1
    OBVIOUS
  <2> QED BY <1>1, <2>1, <2>2 DEF TestSaid
<1> QED BY <1>2, <1>3, <1>4 DEF TestSaid

(* Rows that the event is about, and all the others. *)
LEMMA RowsStay ==
    ASSUME NEW L, IsLog(L), NEW n \in Nat, n + 1 \in 1..Len(L), NEW d, RowsSaid(d, L, n), NEW c,
           c.entries = d.entries, \A e \in Entries : ~IsUpsert(L, n + 1, e),
           \A e \in Entries : ~Ends(L[n + 1], e), \A e \in Entries : ~Restates(L, n + 1, e)
    PROVE  RowsSaid(c, L, n + 1)
BY RowStands DEF RowsSaid

LEMMA UpsertPictures ==
    ASSUME NEW L, IsLog(L), KindsComeLast(L), NEW n \in Nat, n + 1 \in 1..Len(L),
           NEW d, Shape(d), Says(d, L, n), Pictures(d, L, n),
           L[n + 1].op = "upsert", NEW embeds, NEW c, c = ApplyUpsert(d, L[n + 1], embeds)
    PROVE  Pictures(c, L, n + 1)
<1> DEFINE ev == L[n + 1]
<1>1. IsEvent(ev) /\ ev.id \in Entries
  BY LogForm DEF IsEvent, EvidenceOps
<1>2. Says(c, L, n + 1)
  BY UpsertSays
<1>3. /\ Turned(c, d, ev.id) /\ c.evidence = d.evidence
      /\ UpsertMade(c.entries[ev.id], d.entries[ev.id], ev, CitedBy(d, ev.id) # {})
  <2>1. ev.op = "upsert" /\ c = ApplyUpsert(d, ev, embeds)
    OBVIOUS
  <2> HIDE DEF ev
  <2> QED BY <1>1, <2>1, UpsertTurns
<1>4. (CitedBy(d, ev.id) # {}) <=> Holds(L, ev.id, n + 1)
  <2>1. CitedBy(c, ev.id) = CitedBy(d, ev.id)
    BY <1>3 DEF CitedBy
  <2> QED BY <1>2, <2>1, HoldsIs
<1>5. RowsSaid(c, L, n + 1)
  <2> SUFFICES ASSUME NEW e \in Entries PROVE RowTold(c.entries[e], L, e, n + 1)
    BY DEF RowsSaid
  <2>1. RowTold(d.entries[e], L, e, n)
    BY DEF Pictures, RowsSaid
  <2>2. CASE e = ev.id
    <3>1. IsUpsert(L, n + 1, e)
      BY <2>2 DEF IsUpsert
    <3>2. UpsertMade(c.entries[e], d.entries[e], L[n + 1], CitedBy(d, e) # {})
      BY <1>3, <2>2
    <3>3. (CitedBy(d, e) # {}) <=> Holds(L, e, n + 1)
      BY <1>4, <2>2
    <3> HIDE DEF ev
    <3> QED BY <2>1, <3>1, <3>2, <3>3, RowUpserted
  <2>3. CASE e # ev.id
    <3>1. c.entries[e] = d.entries[e]
      BY <1>3, <2>3 DEF Turned
    <3>2. ~IsUpsert(L, n + 1, e) /\ ~Ends(L[n + 1], e) /\ ~Restates(L, n + 1, e)
      BY <2>3 DEF IsUpsert, Ends, Restates
    <3> QED BY <2>1, <3>1, <3>2, RowStands
  <2> QED BY <2>2, <2>3
<1>6. PointsSaid(c, L, n + 1)
  BY <1>3, QuietPoints DEF Pictures
<1>7. TestsSaid(c, L, n + 1)
  BY <1>3, QuietTests DEF Pictures, Turned
<1> QED BY <1>5, <1>6, <1>7 DEF Pictures

LEMMA ExpiredPictures ==
    ASSUME NEW L, IsLog(L), NEW n \in Nat, n + 1 \in 1..Len(L),
           NEW d, Pictures(d, L, n), L[n + 1].op \in {"expire", "verdicts"},
           NEW b, Shape(b), b.entries = d.entries, b.evidence = d.evidence, b.tests = d.tests,
           NEW ended, \A e \in Entries : e \in ended <=> Ends(L[n + 1], e),
           NEW c, c = Expired(b, ended, L[n + 1].ts)
    PROVE  Pictures(c, L, n + 1)
<1> DEFINE ts == L[n + 1].ts
<1>1. /\ c.tests = b.tests /\ c.evidence \subseteq b.evidence
      /\ \A e \in Entries :
            /\ e \in ended /\ b.entries[e].row => Stopped(c.entries[e], b.entries[e], ts)
            /\ ~(e \in ended /\ b.entries[e].row) => c.entries[e] = b.entries[e]
  BY ExpiredTurns
<1>2. \A e \in Entries : ~IsUpsert(L, n + 1, e) /\ ~Restates(L, n + 1, e)
  BY DEF IsUpsert, Restates
<1>3. RowsSaid(c, L, n + 1)
  <2> SUFFICES ASSUME NEW e \in Entries PROVE RowTold(c.entries[e], L, e, n + 1)
    BY DEF RowsSaid
  <2> DEFINE q == d.entries[e]
             r == c.entries[e]
  <2>1. RowTold(q, L, e, n)
    BY DEF Pictures, RowsSaid
  <2>2. CASE Ends(L[n + 1], e)
    <3>1. (q.row => Stopped(r, q, L[n + 1].ts)) /\ (~q.row => r = q)
      BY <1>1, <2>2
    <3> HIDE DEF q, r
    <3>2. RowTold(r, L, e, n + 1)
      BY <2>1, <2>2, <3>1, RowStops
    <3> QED BY <3>2 DEF r
  <2>3. CASE ~Ends(L[n + 1], e)
    <3>1. r = q
      BY <1>1, <2>3
    <3> QED BY <1>2, <2>1, <2>3, <3>1, RowStands
  <2> QED BY <2>2, <2>3
<1>4. PointsSaid(c, L, n + 1)
  BY <1>1, QuietPoints DEF Pictures
<1>5. TestsSaid(c, L, n + 1)
  BY <1>1, QuietTests DEF Pictures
<1> QED BY <1>3, <1>4, <1>5 DEF Pictures

(* Evidence that comes or goes, of a live entry. *)
EvidenceMoves(c, d, L, n, rows) ==
    /\ IsLog(L) /\ n \in Nat /\ n + 1 \in 1..Len(L)
    /\ L[n + 1].op \in {"evidence_add", "evidence_expire"} /\ LiveIn(d, L[n + 1].id)
    /\ Shape(d) /\ Says(d, L, n) /\ RowsSaid(d, L, n)
    /\ Says(c, L, n + 1) /\ Remade(c, d, rows, L[n + 1].id, L[n + 1].ts)

LEMMA EvidenceRows ==
    ASSUME NEW L, NEW n, NEW d, NEW rows, NEW c, EvidenceMoves(c, d, L, n, rows)
    PROVE  /\ RowsSaid(c, L, n + 1) /\ c.evidence = rows /\ c.tests = d.tests
           /\ Restates(L, n + 1, L[n + 1].id)
<1> USE DEF EvidenceMoves
<1> DEFINE x == L[n + 1].id
<1>1. x \in Entries
  BY LogForm DEF IsEvent, EvidenceOps
<1>2. /\ Turned(c, d, x) /\ c.evidence = rows
      /\ Restamped(c.entries[x], d.entries[x], L[n + 1].ts, CitedBy(c, x) # {})
  BY <1>1, EvidenceTurns
<1>3. Restates(L, n + 1, x)
  <2>1. Alive(L, x, n) /\ ~IsUpsert(L, n + 1, x) /\ ~Ends(L[n + 1], x)
    BY <1>1 DEF Says, IsUpsert, Ends
  <2> QED BY <2>1, AliveNext DEF Restates
<1>4. (CitedBy(c, x) # {}) <=> Holds(L, x, n + 1)
  BY HoldsIs
<1>5. RowsSaid(c, L, n + 1)
  <2> SUFFICES ASSUME NEW e \in Entries PROVE RowTold(c.entries[e], L, e, n + 1)
    BY DEF RowsSaid
  <2>1. RowTold(d.entries[e], L, e, n)
    BY DEF RowsSaid
  <2>2. CASE e = x
    <3>1. Restates(L, n + 1, e)
      BY <1>3, <2>2
    <3>2. Restamped(c.entries[e], d.entries[e], L[n + 1].ts, CitedBy(c, e) # {})
      BY <1>2, <2>2
    <3>3. (CitedBy(c, e) # {}) <=> Holds(L, e, n + 1)
      BY <1>4, <2>2
    <3> HIDE DEF x
    <3> QED BY <2>1, <3>1, <3>2, <3>3, RowRestamped
  <2>3. CASE e # x
    <3>1. c.entries[e] = d.entries[e]
      BY <1>2, <2>3 DEF Turned
    <3>2. ~IsUpsert(L, n + 1, e) /\ ~Ends(L[n + 1], e) /\ ~Restates(L, n + 1, e)
      BY <2>3 DEF IsUpsert, Ends, Restates
    <3> QED BY <2>1, <3>1, <3>2, RowStands
  <2> QED BY <2>2, <2>3
<1> QED BY <1>2, <1>3, <1>5 DEF Turned

(* Evidence of an entry that is not live: nothing happens. *)
LEMMA VoidPictures ==
    ASSUME NEW L, IsLog(L), NEW n \in Nat, n + 1 \in 1..Len(L),
           NEW d, Shape(d), Says(d, L, n), Pictures(d, L, n),
           L[n + 1].op \in {"evidence_add", "evidence_expire"}, ~LiveIn(d, L[n + 1].id)
    PROVE  Pictures(d, L, n + 1)
<1> DEFINE x == L[n + 1].id
<1>1. x \in Entries
  BY LogForm DEF IsEvent, EvidenceOps
<1>2. \A e \in Entries : ~IsUpsert(L, n + 1, e) /\ ~Ends(L[n + 1], e)
  BY DEF IsUpsert, Ends
<1>3. ~Alive(L, x, n + 1)
  BY <1>1, <1>2, AliveNext DEF Says
<1>4. \A e \in Entries : ~Restates(L, n + 1, e)
  BY <1>3 DEF Restates
<1>5. RowsSaid(d, L, n + 1)
  BY <1>2, <1>4, RowsStay DEF Pictures
<1>6. PointsSaid(d, L, n + 1)
  <2> SUFFICES ASSUME NEW r \in d.evidence PROVE PointTold(r, L, n + 1)
    BY DEF PointsSaid
  <2>1. <<r.ev, r.owner>> \in Owners(L)[n] /\ PointTold(r, L, n)
    BY DEF Says, Cited, Pictures, PointsSaid
  <2>2. n \in 0..Len(L)
    BY LogForm
  <2> DEFINE p == <<r.ev, r.owner>>
  <2>3. p[2] = r.owner /\ p \in Owners(L)[n]
    BY <2>1
  <2> HIDE DEF p
  <2>4. Alive(L, r.owner, n)
    BY <2>2, <2>3, OwnersAlive
  <2>5. r.owner # x
    BY <1>1, <2>4 DEF Says
  <2>6. ~Points(L[n + 1], r)
    BY <2>5 DEF Points
  <2> QED BY <2>1, <2>6, PointStays
<1>7. TestsSaid(d, L, n + 1)
  BY QuietTests DEF Pictures
<1> QED BY <1>5, <1>6, <1>7 DEF Pictures

LEMMA EvidenceAddPictures ==
    ASSUME NEW L, IsLog(L), IdsAreOwn(L), NEW n \in Nat, n + 1 \in 1..Len(L),
           NEW d, Shape(d), Says(d, L, n), Pictures(d, L, n), L[n + 1].op = "evidence_add",
           NEW c, c = ApplyEvidenceAdd(d, L[n + 1])
    PROVE  Pictures(c, L, n + 1)
<1> DEFINE ev == L[n + 1]
<1>0. IsEvent(ev) /\ ev.id \in Entries
  BY LogForm DEF IsEvent, EvidenceOps
<1>1. CASE ~LiveIn(d, ev.id)
  <2>1. c = d
    BY <1>1 DEF ApplyEvidenceAdd
  <2> QED BY <1>1, <2>1, VoidPictures
<1>2. CASE LiveIn(d, ev.id)
  <2> DEFINE new == [ev |-> ev.ev, owner |-> ev.id, at |-> ev.at]
             rows == d.evidence \cup (IF \E r \in d.evidence : r.ev = ev.ev THEN {} ELSE {new})
  <2>1. Says(c, L, n + 1)
    BY EvidenceAddSays
  <2>2. Remade(c, d, rows, ev.id, ev.ts)
    BY <1>2 DEF ApplyEvidenceAdd, Touched, Remade
  <2>3. RowsSaid(d, L, n)
    BY DEF Pictures
  <2>7. \A r \in rows : r \in d.evidence \/ r = new
    OBVIOUS
  <2> HIDE DEF rows
  <2>4. RowsSaid(c, L, n + 1) /\ c.evidence = rows /\ c.tests = d.tests
    <3>1. EvidenceMoves(c, d, L, n, rows)
      BY <1>2, <2>1, <2>2, <2>3 DEF EvidenceMoves
    <3> QED BY <3>1, EvidenceRows
  <2>5. TestsSaid(c, L, n + 1)
    BY <2>4, QuietTests DEF Pictures
  <2>6. PointsSaid(c, L, n + 1)
    <3> SUFFICES ASSUME NEW r \in rows PROVE PointTold(r, L, n + 1)
      BY <2>4 DEF PointsSaid
    <3>1. CASE r \in d.evidence
      <4> DEFINE p == <<r.ev, r.owner>>
      <4>1. p \in Owners(L)[n] /\ p[1] = r.ev
        BY <3>1 DEF Says, Cited
      <4>2. (n + 1) - 1 = n
        OBVIOUS
      <4> HIDE DEF p
      <4>3. r.ev # ev.ev
        BY <4>1, <4>2, NotTaken
      <4>4. ~Points(L[n + 1], r)
        BY <4>3 DEF Points
      <4> QED BY <3>1, <4>4, PointStays DEF Pictures, PointsSaid
    <3>2. CASE r = new
      <4>1. r.ev = ev.ev /\ r.owner = ev.id /\ r.at = ev.at
        BY <3>2
      <4>2. Points(L[n + 1], r)
        BY <4>1 DEF Points
      <4> QED BY <4>1, <4>2, PointNext
    <3> QED BY <2>7, <3>1, <3>2
  <2> QED BY <2>4, <2>5, <2>6 DEF Pictures
<1> QED BY <1>1, <1>2

LEMMA EvidenceExpirePictures ==
    ASSUME NEW L, IsLog(L), NEW n \in Nat, n + 1 \in 1..Len(L),
           NEW d, Shape(d), Says(d, L, n), Pictures(d, L, n), L[n + 1].op = "evidence_expire",
           NEW c, c = ApplyEvidenceExpire(d, L[n + 1])
    PROVE  Pictures(c, L, n + 1)
<1> DEFINE ev == L[n + 1]
<1>1. CASE ~LiveIn(d, ev.id)
  <2>1. c = d
    BY <1>1 DEF ApplyEvidenceExpire
  <2> QED BY <1>1, <2>1, VoidPictures
<1>2. CASE LiveIn(d, ev.id)
  <2> DEFINE rows == {r \in d.evidence : ~(r.ev = ev.ev /\ r.owner = ev.id)}
  <2>1. Says(c, L, n + 1)
    BY EvidenceExpireSays
  <2>2. Remade(c, d, rows, ev.id, ev.ts)
    BY <1>2 DEF ApplyEvidenceExpire, Touched, Remade
  <2>3. RowsSaid(d, L, n)
    BY DEF Pictures
  <2>4. rows \subseteq d.evidence
    OBVIOUS
  <2> HIDE DEF rows
  <2>5. RowsSaid(c, L, n + 1) /\ c.evidence = rows /\ c.tests = d.tests
    <3>1. EvidenceMoves(c, d, L, n, rows)
      BY <1>2, <2>1, <2>2, <2>3 DEF EvidenceMoves
    <3> QED BY <3>1, EvidenceRows
  <2>6. TestsSaid(c, L, n + 1)
    BY <2>5, QuietTests DEF Pictures
  <2>7. PointsSaid(c, L, n + 1)
    BY <2>4, <2>5, QuietPoints DEF Pictures
  <2> QED BY <2>5, <2>6, <2>7 DEF Pictures
<1> QED BY <1>1, <1>2

LEMMA HealedPictures ==
    ASSUME NEW L, IsLog(L), NEW n \in Nat, n + 1 \in 1..Len(L),
           NEW d, Shape(d), Pictures(d, L, n), L[n + 1].op = "citation_healed",
           NEW c, c = ApplyHealed(d, L[n + 1])
    PROVE  Pictures(c, L, n + 1)
<1> DEFINE ev == L[n + 1]
           Healed(r) == IF r.ev = ev.ev /\ r.owner = ev.id THEN [r EXCEPT !.at = ev.at] ELSE r
           rows == {Healed(r) : r \in d.evidence}
<1>1. c = [d EXCEPT !.evidence = rows]
  BY DEF ApplyHealed
<1>2. \A x \in rows : \E r \in d.evidence : x = Healed(r)
  OBVIOUS
<1> HIDE DEF rows, Healed
<1>3. c.entries = d.entries /\ c.evidence = rows /\ c.tests = d.tests
  BY <1>1, ShapeTables, PutEvidence
<1>4. /\ \A e \in Entries : ~IsUpsert(L, n + 1, e)
      /\ \A e \in Entries : ~Ends(L[n + 1], e)
      /\ \A e \in Entries : ~Restates(L, n + 1, e)
  BY DEF IsUpsert, Ends, Restates
<1>5. RowsSaid(c, L, n + 1)
  BY <1>3, <1>4, RowsStay DEF Pictures
<1>6. TestsSaid(c, L, n + 1)
  BY <1>3, QuietTests DEF Pictures
<1>7. PointsSaid(c, L, n + 1)
  <2> SUFFICES ASSUME NEW x \in rows PROVE PointTold(x, L, n + 1)
    BY <1>3 DEF PointsSaid
  <2>1. PICK r \in d.evidence : x = Healed(r)
    BY <1>2
  <2>2. PointTold(r, L, n) /\ r = [ev |-> r.ev, owner |-> r.owner, at |-> r.at]
    BY DEF Pictures, PointsSaid, Shape
  <2>3. CASE r.ev = ev.ev /\ r.owner = ev.id
    <3>1. x = [r EXCEPT !.at = ev.at]
      BY <2>1, <2>3 DEF Healed
    <3>2. x.ev = r.ev /\ x.owner = r.owner /\ x.at = ev.at
      BY <2>2, <3>1
    <3>3. Points(L[n + 1], x)
      BY <2>3, <3>2 DEF Points
    <3> QED BY <3>2, <3>3, PointNext
  <2>4. CASE ~(r.ev = ev.ev /\ r.owner = ev.id)
    <3>1. x = r
      BY <2>1, <2>4 DEF Healed
    <3>2. ~Points(L[n + 1], r)
      BY <2>4 DEF Points
    <3> QED BY <2>2, <3>1, <3>2, PointStays
  <2> QED BY <2>3, <2>4
<1> QED BY <1>5, <1>6, <1>7 DEF Pictures

LEMMA TestPictures ==
    ASSUME NEW L, IsLog(L), NEW n \in Nat, n + 1 \in 1..Len(L),
           NEW d, Shape(d), Pictures(d, L, n), L[n + 1].op = "test",
           NEW c, c = ApplyTest(d, L[n + 1])
    PROVE  Pictures(c, L, n + 1)
<1> DEFINE ev == L[n + 1]
           x == [d.tests EXCEPT ![ev.id] = ev.ts]
<1>0. ev.id \in Tests
  BY LogForm DEF IsEvent, EvidenceOps
<1>1. c = [d EXCEPT !.tests = x]
  BY DEF ApplyTest
<1>2. x = [t \in Tests |-> IF t = ev.id THEN ev.ts ELSE d.tests[t]]
  BY DEF Pictures, TestsSaid
<1>3. x = [t \in Tests |-> x[t]] /\ \A t \in Tests : x[t] = IF t = ev.id THEN ev.ts ELSE d.tests[t]
  <2> HIDE DEF x
  <2> QED BY <1>2
<1> HIDE DEF x
<1>4. c.entries = d.entries /\ c.evidence = d.evidence /\ c.tests = x
  BY <1>1, ShapeTables, PutTests
<1>5. /\ \A e \in Entries : ~IsUpsert(L, n + 1, e)
      /\ \A e \in Entries : ~Ends(L[n + 1], e)
      /\ \A e \in Entries : ~Restates(L, n + 1, e)
  BY DEF IsUpsert, Ends, Restates
<1>6. RowsSaid(c, L, n + 1)
  BY <1>4, <1>5, RowsStay DEF Pictures
<1>7. PointsSaid(c, L, n + 1)
  BY <1>4, QuietPoints DEF Pictures
<1>8. TestsSaid(c, L, n + 1)
  <2> SUFFICES ASSUME NEW t \in Tests PROVE TestSaid(x[t], L, t, n + 1)
    BY <1>3, <1>4 DEF TestsSaid
  <2>1. CASE t = ev.id
    <3>1. n + 1 \in 1..n + 1 /\ (n + 1) + 1..n + 1 = {} /\ Defines(L[n + 1], t) /\ x[t] = L[n + 1].ts
      BY <1>3, <2>1 DEF Defines
    <3> QED BY <3>1 DEF TestSaid
  <2>2. CASE t # ev.id
    <3>1. ~Defines(L[n + 1], t) /\ x[t] = d.tests[t] /\ TestSaid(d.tests[t], L, t, n)
      BY <1>3, <2>2 DEF Defines, Pictures, TestsSaid
    <3>2. CASE d.tests[t] = 0 /\ \A j \in 1..n : ~Defines(L[j], t)
      <4>1. \A j \in 1..n + 1 : j \in 1..n \/ j = n + 1
        OBVIOUS
      <4> QED BY <3>1, <3>2, <4>1 DEF TestSaid
    <3>3. CASE \E j \in 1..n : /\ Defines(L[j], t) /\ d.tests[t] = L[j].ts
                               /\ \A i \in j + 1..n : ~Defines(L[i], t)
      <4>1. PICK j \in 1..n : /\ Defines(L[j], t) /\ d.tests[t] = L[j].ts
                              /\ \A i \in j + 1..n : ~Defines(L[i], t)
        BY <3>3
      <4>2. j \in 1..n + 1 /\ \A i \in j + 1..n + 1 : i \in j + 1..n \/ i = n + 1
        OBVIOUS
      <4> QED BY <3>1, <4>1, <4>2 DEF TestSaid
    <3> QED BY <3>1, <3>2, <3>3 DEF TestSaid
  <2> QED BY <2>1, <2>2
<1> QED BY <1>6, <1>7, <1>8 DEF Pictures

(* A batch of verdicts is new, and fails only for an entry that has no row. *)
LEMMA VerdictsForm ==
    ASSUME NEW L, IsLog(L), JudgedOnce(L), NEW n \in Nat, n + 1 \in 1..Len(L),
           NEW d, Tells(d, L, n), L[n + 1].op = "verdicts", NEW c, c = ApplyVerdicts(d, L[n + 1])
    PROVE  \/ \E e \in DOMAIN L[n + 1].answers : ~d.entries[e].row
           \/ \E b, ended : /\ Shape(b) /\ b.entries = d.entries /\ b.evidence = d.evidence
                            /\ b.tests = d.tests /\ b.failed = d.failed
                            /\ \A e \in Entries : e \in ended <=> Ends(L[n + 1], e)
                            /\ c = Expired(b, ended, L[n + 1].ts)
<1> DEFINE ev == L[n + 1]
           judged == {e \in DOMAIN ev.answers : Answered(d, ev.run, e) # {}}
           new == DOMAIN ev.answers \ judged
           ended == {e \in new : ev.answers[e] = "false"}
<1>1. Shape(d) /\ d.verdicts = VerdictRows(L, n)
  BY DEF Tells, Remembers
<1>2. judged = {}
  <2> SUFFICES ASSUME NEW e \in DOMAIN ev.answers, NEW v \in d.verdicts, v[1] = ev.run, v[2] = e
               PROVE  FALSE
    BY DEF Answered
  <2>1. PICK i \in 1..n : L[i].op = "verdicts" /\ v \in {<<L[i].run, x, L[i].answers[x]>> : x \in DOMAIN L[i].answers}
    BY <1>1 DEF VerdictRows
  <2>2. L[i].run = ev.run /\ e \in DOMAIN L[i].answers
    BY <2>1
  <2>3. i \in DOMAIN L /\ n + 1 \in DOMAIN L /\ i # n + 1
    BY LogForm
  <2> QED BY <2>1, <2>2, <2>3 DEF JudgedOnce
<1>3. \A e : e \in ended <=> Ends(ev, e)
  <2>1. new = DOMAIN ev.answers
    BY <1>2
  <2> HIDE DEF judged, new
  <2> QED BY <2>1 DEF Ends
<1>4. \/ (\E e \in judged : Answered(d, ev.run, e) # {ev.answers[e]}) \/ \E e \in new : ~d.entries[e].row
      \/ \E x, y : c = Expired([d EXCEPT !.verdicts = x, !.weights = y], ended, ev.ts)
  BY DEF ApplyVerdicts
<1>5. new \subseteq DOMAIN ev.answers
  OBVIOUS
<1> HIDE DEF new, ended
<1>6. ~\E e \in judged : Answered(d, ev.run, e) # {ev.answers[e]}
  <2> HIDE DEF judged
  <2> QED BY <1>2
<1> HIDE DEF judged
<1>7. CASE \E e \in new : ~d.entries[e].row
  BY <1>5, <1>7
<1>8. CASE \E x, y : c = Expired([d EXCEPT !.verdicts = x, !.weights = y], ended, ev.ts)
  <2>1. PICK x, y : c = Expired([d EXCEPT !.verdicts = x, !.weights = y], ended, ev.ts)
    BY <1>8
  <2> DEFINE a == [d EXCEPT !.verdicts = x]
             b == [a EXCEPT !.weights = y]
  <2>2. c = Expired(b, ended, ev.ts)
    BY <2>1
  <2>3. Shape(a) /\ a.failed = d.failed
    BY <1>1, TableForm
  <2>4. AllTables(d)
    BY <1>1, ShapeTables
  <2>5. /\ AllTables(a) /\ a.entries = d.entries /\ a.evidence = d.evidence
        /\ a.tests = d.tests /\ a.failed = d.failed
    BY <2>4, PutOthers
  <2> HIDE DEF a
  <2>6. Shape(b) /\ b.failed = a.failed
    BY <2>3, TableForm
  <2>7. b.entries = a.entries /\ b.evidence = a.evidence /\ b.tests = a.tests
    BY <2>5, PutOthers
  <2> HIDE DEF b
  <2>8. /\ Shape(b) /\ b.entries = d.entries /\ b.evidence = d.evidence
        /\ b.tests = d.tests /\ b.failed = d.failed
    BY <2>5, <2>6, <2>7
  <2> QED BY <1>3, <2>2, <2>8
<1> QED BY <1>4, <1>6, <1>7, <1>8

(* Candidates and runs. *)
Recorded(c, d) == \E x : c = [d EXCEPT !.candidates = x] \/ c = [d EXCEPT !.runs = x]

LEMMA RecordedLeaves ==
    ASSUME NEW d, Shape(d), NEW c, Recorded(c, d)
    PROVE  /\ c.entries = d.entries /\ c.evidence = d.evidence /\ c.tests = d.tests
           /\ c.failed = d.failed
<1>1. PICK x : c = [d EXCEPT !.candidates = x] \/ c = [d EXCEPT !.runs = x]
  BY DEF Recorded
<1>2. AllTables(d)
  BY ShapeTables
<1>3. CASE c = [d EXCEPT !.candidates = x]
  BY <1>2, <1>3 DEF AllTables
<1>4. CASE c = [d EXCEPT !.runs = x]
  BY <1>2, <1>4 DEF AllTables
<1> QED BY <1>1, <1>3, <1>4

LEMMA HistoryPictures ==
    ASSUME NEW L, IsLog(L), NEW n \in Nat, n + 1 \in 1..Len(L),
           NEW d, Shape(d), Pictures(d, L, n), L[n + 1].op \in {"candidates", "run"},
           NEW c, Recorded(c, d)
    PROVE  Pictures(c, L, n + 1)
<1>1. c.entries = d.entries /\ c.evidence = d.evidence /\ c.tests = d.tests
  BY RecordedLeaves
<1>2. /\ \A e \in Entries : ~IsUpsert(L, n + 1, e)
      /\ \A e \in Entries : ~Ends(L[n + 1], e)
      /\ \A e \in Entries : ~Restates(L, n + 1, e)
  BY DEF IsUpsert, Ends, Restates
<1>3. RowsSaid(c, L, n + 1)
  BY <1>1, <1>2, RowsStay DEF Pictures
<1>4. PointsSaid(c, L, n + 1)
  BY <1>1, QuietPoints DEF Pictures
<1>5. TestsSaid(c, L, n + 1)
  BY <1>1, QuietTests DEF Pictures
<1> QED BY <1>3, <1>4, <1>5 DEF Pictures

(* What the writers keep to, as far as a replay depends on it. *)
SoundLog(L) ==
    /\ IsLog(L) /\ JudgedOnce(L) /\ JudgedAfterSampled(L)
    /\ IdsAreOwn(L) /\ KindsComeLast(L) /\ ArmsAgree(L)
    /\ \A i \in DOMAIN L : L[i].op = "test" => L[i].ts # 0

Pictured(d, L, n) == Tells(d, L, n) /\ Says(d, L, n) /\ Pictures(d, L, n)

(* An answer is about an entry with a row. *)
LEMMA AnsweredHasRow ==
    ASSUME NEW L, SoundLog(L), NEW n \in Nat, n + 1 \in 1..Len(L), L[n + 1].op = "verdicts",
           NEW d, Pictured(d, L, n), NEW e \in DOMAIN L[n + 1].answers
    PROVE  d.entries[e].row
<1>1. IsLog(L) /\ DOMAIN L = 1..Len(L) /\ e \in Entries
  <2>1. IsLog(L)
    BY DEF SoundLog
  <2>2. IsEvent(L[n + 1])
    BY <2>1, LogForm
  <2> QED BY <2>1, <2>2, LogForm DEF IsEvent, EvidenceOps
<1>2. n + 1 \in Audited(L, e)
  BY <1>1 DEF Audited
<1>3. PICK i \in Sampled(L, e) : i < n + 1 /\ LiveAt(L, e, i)
  BY <1>1, <1>2 DEF SoundLog, JudgedAfterSampled
<1>4. i \in 0..Len(L) /\ i \in 1..n
  BY <1>1, <1>3 DEF Sampled
<1>5. Alive(L, e, i)
  BY <1>1, <1>3, <1>4, LiveAtIs
<1>6. PICK u \in 1..i : IsUpsert(L, u, e)
  BY <1>5 DEF Alive
<1>7. ~NoUpsert(L, e, n)
  <2>1. u \in 1..n
    BY <1>4
  <2> QED BY <1>6, <2>1 DEF NoUpsert
<1>8. RowTold(d.entries[e], L, e, n)
  BY <1>1 DEF Pictured, Pictures, RowsSaid
<1> QED BY <1>7, <1>8 DEF RowTold, RowFrom, EntryForm

(* No arm of a sampled entry differs from the one that was chosen. *)
LEMMA CandidatesFit ==
    ASSUME NEW L, SoundLog(L), NEW n \in Nat, n + 1 \in 1..Len(L), L[n + 1].op = "candidates",
           NEW d, Tells(d, L, n), NEW c, c = ApplyCandidates(d, L[n + 1])
    PROVE  Recorded(c, d)
<1> DEFINE ev == L[n + 1]
           pairs == {<<ev.run, e, ev.arms[e]>> : e \in DOMAIN ev.arms}
           conflict == \E r \in d.candidates, p \in pairs :
                           r[1] = p[1] /\ r[2] = p[2] /\ r[3] # p[3]
<1>1. ~conflict
  <2> SUFFICES ASSUME NEW r \in d.candidates, NEW p \in pairs, r[1] = p[1], r[2] = p[2], r[3] # p[3]
               PROVE  FALSE
    OBVIOUS
  <2>1. PICK i \in {j \in 1..n : L[j].op = "candidates"} :
            r \in {<<L[i].run, e, L[i].arms[e]>> : e \in DOMAIN L[i].arms}
    BY DEF Tells, Remembers, CandidateRows
  <2>2. PICK e \in DOMAIN L[i].arms : r = <<L[i].run, e, L[i].arms[e]>>
    BY <2>1
  <2>3. PICK x \in DOMAIN ev.arms : p = <<ev.run, x, ev.arms[x]>>
    OBVIOUS
  <2>4. L[i].run = ev.run /\ e = x /\ L[i].arms[e] # ev.arms[e]
    <3> HIDE DEF pairs, ev
    <3> QED BY <2>2, <2>3
  <2>5. i \in DOMAIN L /\ n + 1 \in DOMAIN L
    BY <2>1, LogForm DEF SoundLog
  <2>6. e \in DOMAIN L[i].arms \cap DOMAIN L[n + 1].arms
    BY <2>3, <2>4
  <2> QED BY <2>1, <2>4, <2>5, <2>6 DEF SoundLog, ArmsAgree
<1>2. c = [d EXCEPT !.candidates = d.candidates \cup pairs]
  BY <1>1 DEF ApplyCandidates
<1> QED BY <1>2 DEF Recorded

(* A run finds the definition of its test. *)
LEMMA RunFits ==
    ASSUME NEW L, SoundLog(L), NEW n \in Nat, n + 1 \in 1..Len(L), L[n + 1].op = "run",
           NEW d, Pictured(d, L, n), NEW occurrence, NEW c, c = ApplyRun(d, L[n + 1], occurrence)
    PROVE  \/ ~RunsAreDefined(L) /\ c.failed = TRUE
           \/ Recorded(c, d)
<1> DEFINE ev == L[n + 1]
<1>1. IsLog(L) /\ DOMAIN L = 1..Len(L) /\ ev.id \in Tests
  <2>1. IsLog(L)
    BY DEF SoundLog
  <2>2. IsEvent(ev)
    BY <2>1, LogForm
  <2> QED BY <2>1, <2>2, LogForm DEF IsEvent, EvidenceOps
<1>2. CASE d.tests[ev.id] = 0
  <2>a. c = [d EXCEPT !.failed = TRUE]
    BY <1>2 DEF ApplyRun
  <2>1. c.failed = TRUE
    BY <2>a, ShapeTables DEF Pictured, Tells, AllTables
  <2>2. ASSUME RunsAreDefined(L) PROVE FALSE
    <3>1. PICK j \in 1..(n + 1) - 1 : L[j].op = "test" /\ L[j].id = ev.id
      BY <1>1, <2>2 DEF RunsAreDefined
    <3>2. j \in 1..n /\ Defines(L[j], ev.id)
      BY <3>1 DEF Defines
    <3>3. TestSaid(d.tests[ev.id], L, ev.id, n)
      BY <1>1 DEF Pictured, Pictures, TestsSaid
    <3>4. PICK k \in 1..n : Defines(L[k], ev.id) /\ d.tests[ev.id] = L[k].ts
      BY <3>2, <3>3 DEF TestSaid
    <3>5. k \in DOMAIN L
      BY <1>1
    <3> QED BY <1>2, <3>4, <3>5 DEF SoundLog, Defines
  <2> QED BY <2>1, <2>2
<1>3. CASE d.tests[ev.id] # 0
  <2>1. \E row : c = [d EXCEPT !.runs = d.runs \cup {row}]
    BY <1>3 DEF ApplyRun
  <2> QED BY <2>1 DEF Recorded
<1> QED BY <1>2, <1>3

(* The pictures go on, whatever the event. *)
LEMMA ApplyPictures ==
    ASSUME NEW L, SoundLog(L), NEW n \in Nat, n + 1 \in 1..Len(L), NEW d, Pictured(d, L, n),
           NEW occurrence, NEW embeds, NEW c, c = Apply(d, L[n + 1], occurrence, embeds)
    PROVE  \/ Pictures(c, L, n + 1) /\ c.failed = FALSE
           \/ ~RunsAreDefined(L) /\ c.failed = TRUE
<1> DEFINE ev == L[n + 1]
<1>0. /\ IsLog(L) /\ IdsAreOwn(L) /\ KindsComeLast(L) /\ JudgedOnce(L)
      /\ Shape(d) /\ d.failed = FALSE /\ Tells(d, L, n) /\ Says(d, L, n) /\ Pictures(d, L, n)
  BY DEF SoundLog, Pictured, Tells, Shape
<1>a. IsEvent(ev)
  BY <1>0, LogForm
<1>1. CASE ev.op = "upsert"
  <2>1. c = ApplyUpsert(d, ev, embeds)
    BY <1>1 DEF Apply
  <2>2. c.failed = d.failed
    BY <1>0, <1>a, <1>1, <2>1, UpsertForm
  <2> QED BY <1>0, <1>1, <2>1, <2>2, UpsertPictures
<1>2. CASE ev.op = "expire"
  <2>1. c = Expired(d, {ev.id}, ev.ts)
    BY <1>2 DEF Apply, ApplyExpire
  <2>2. \A e \in Entries : e \in {ev.id} <=> Ends(ev, e)
    BY <1>2 DEF Ends
  <2>3. c.failed = d.failed
    BY <1>0, <2>1, ExpiredLeaves DEF LeavesHistory
  <2>4. ev.op \in {"expire", "verdicts"}
    BY <1>2
  <2> QED BY <1>0, <2>1, <2>2, <2>3, <2>4, ExpiredPictures
<1>3. CASE ev.op = "evidence_add"
  <2>1. c = ApplyEvidenceAdd(d, ev)
    BY <1>3 DEF Apply
  <2>2. ev.id \in Entries
    BY <1>3, <1>a DEF IsEvent, EvidenceOps
  <2>3. c.failed = d.failed
    BY <1>0, <2>1, <2>2, EvidenceAddLeaves DEF LeavesHistory
  <2> QED BY <1>0, <1>3, <2>1, <2>3, EvidenceAddPictures
<1>4. CASE ev.op = "citation_healed"
  <2>1. c = ApplyHealed(d, ev)
    BY <1>4 DEF Apply
  <2>2. c.failed = d.failed
    BY <1>0, <2>1, HealedLeaves DEF LeavesHistory
  <2> QED BY <1>0, <1>4, <2>1, <2>2, HealedPictures
<1>5. CASE ev.op = "evidence_expire"
  <2>1. c = ApplyEvidenceExpire(d, ev)
    BY <1>5 DEF Apply
  <2>2. ev.id \in Entries
    BY <1>5, <1>a DEF IsEvent, EvidenceOps
  <2>3. c.failed = d.failed
    BY <1>0, <2>1, <2>2, EvidenceExpireLeaves DEF LeavesHistory
  <2> QED BY <1>0, <1>5, <2>1, <2>3, EvidenceExpirePictures
<1>6. CASE ev.op = "test"
  <2>1. c = ApplyTest(d, ev)
    BY <1>6 DEF Apply
  <2>2. c.failed = d.failed
    BY <1>0, <2>1, TestLeaves DEF LeavesHistory
  <2> QED BY <1>0, <1>6, <2>1, <2>2, TestPictures
<1>7. CASE ev.op = "candidates"
  <2>1. c = ApplyCandidates(d, ev)
    BY <1>7 DEF Apply
  <2>2. Recorded(c, d)
    BY <1>0, <1>7, <2>1, CandidatesFit
  <2>3. c.failed = d.failed
    BY <1>0, <2>2, RecordedLeaves
  <2>4. ev.op \in {"candidates", "run"}
    BY <1>7
  <2> QED BY <1>0, <2>2, <2>3, <2>4, HistoryPictures
<1>8. CASE ev.op = "run"
  <2>1. c = ApplyRun(d, ev, occurrence)
    BY <1>8 DEF Apply
  <2>2. CASE ~RunsAreDefined(L) /\ c.failed = TRUE
    BY <2>2
  <2>3. CASE Recorded(c, d)
    <3>1. c.failed = d.failed
      BY <1>0, <2>3, RecordedLeaves
    <3>2. ev.op \in {"candidates", "run"}
      BY <1>8
    <3> QED BY <1>0, <2>3, <3>1, <3>2, HistoryPictures
  <2> QED BY <1>8, <2>1, <2>2, <2>3, RunFits
<1>9. CASE ev.op = "verdicts"
  <2>1. c = ApplyVerdicts(d, ev)
    BY <1>9 DEF Apply
  <2>2. \A e \in DOMAIN ev.answers : d.entries[e].row
    BY <1>9, AnsweredHasRow
  <2>3. \E b, ended : /\ Shape(b) /\ b.entries = d.entries /\ b.evidence = d.evidence
                      /\ b.tests = d.tests /\ b.failed = d.failed
                      /\ \A e \in Entries : e \in ended <=> Ends(ev, e)
                      /\ c = Expired(b, ended, ev.ts)
    BY <1>0, <1>9, <2>1, <2>2, VerdictsForm
  <2>4. PICK b, ended : /\ Shape(b) /\ b.entries = d.entries /\ b.evidence = d.evidence
                        /\ b.tests = d.tests /\ b.failed = d.failed
                        /\ \A e \in Entries : e \in ended <=> Ends(ev, e)
                        /\ c = Expired(b, ended, ev.ts)
    BY <2>3
  <2>5. c.failed = b.failed
    BY <2>4, ExpiredLeaves DEF LeavesHistory
  <2>6. ev.op \in {"expire", "verdicts"}
    BY <1>9
  <2>7. Pictures(c, L, n + 1)
    BY <1>0, <2>4, <2>6, ExpiredPictures
  <2> QED BY <1>0, <2>4, <2>5, <2>7
<1> QED BY <1>1, <1>2, <1>3, <1>4, <1>5, <1>6, <1>7, <1>8, <1>9, <1>a DEF IsEvent, EvidenceOps

LEMMA PicturedNext ==
    ASSUME NEW L, SoundLog(L), NEW n \in Nat, n + 1 \in 1..Len(L), NEW d, Pictured(d, L, n),
           NEW occurrence \in {Unknown, Occurrence(L, n + 1)}, NEW embeds,
           NEW c, c = Apply(d, L[n + 1], occurrence, embeds)
    PROVE  \/ Pictured(c, L, n + 1) /\ c.failed = FALSE
           \/ ~RunsAreDefined(L) /\ c.failed = TRUE
<1>1. CASE Pictures(c, L, n + 1) /\ c.failed = FALSE
  <2>1. IsLog(L) /\ JudgedOnce(L) /\ Tells(d, L, n) /\ Says(d, L, n)
    BY DEF SoundLog, Pictured
  <2>2. IsEvent(L[n + 1])
    BY <2>1, LogForm
  <2>3. Tells(c, L, n + 1)
    BY <1>1, <2>1, <2>2, ApplyTells
  <2>4. Says(c, L, n + 1)
    BY <1>1, <2>1, ApplySays
  <2> QED BY <1>1, <2>3, <2>4 DEF Pictured
<1>2. CASE ~RunsAreDefined(L) /\ c.failed = TRUE
  BY <1>2
<1> QED BY <1>1, <1>2, ApplyPictures

LEMMA EmptyPictured ==
    ASSUME NEW L, IsLog(L)
    PROVE  Pictured(Empty, L, 0)
<1>0. 1..0 = {}
  OBVIOUS
<1>1. RowsSaid(Empty, L, 0)
  <2>1. \A e \in Entries : Empty.entries[e] = Absent
    BY DEF Empty
  <2> QED BY <1>0, <2>1 DEF RowsSaid, RowTold, NoUpsert
<1>2. PointsSaid(Empty, L, 0)
  BY DEF PointsSaid, Empty
<1>3. TestsSaid(Empty, L, 0)
  <2>1. Empty.tests = [t \in Tests |-> 0]
    BY DEF Empty
  <2> QED BY <1>0, <2>1 DEF TestsSaid, TestSaid
<1> QED BY <1>1, <1>2, <1>3, EmptyTells, EmptySays DEF Pictured, Pictures

(* A replay goes on to picture the log, or meets a run without its test. *)
Follows(d, L, n) ==
    \/ Pictured(d, L, n) /\ d.failed = FALSE
    \/ ~RunsAreDefined(L) /\ Shape(d) /\ d.failed = TRUE

LEMMA FollowsNext ==
    ASSUME NEW L, SoundLog(L), NEW n \in Nat, n + 1 \in 1..Len(L), NEW d, Follows(d, L, n),
           NEW occurrence \in {Unknown, Occurrence(L, n + 1)}, NEW embeds,
           NEW c, c = Apply(d, L[n + 1], occurrence, embeds)
    PROVE  Follows(c, L, n + 1)
<1>0. IsEvent(L[n + 1]) /\ Shape(d)
  BY LogForm DEF SoundLog, Follows, Pictured, Tells
<1>1. Shape(c) /\ c.failed \in BOOLEAN /\ (d.failed => c.failed)
  <2>1. Shape(c) /\ (d.failed => c.failed)
    BY <1>0, ApplyForm
  <2> QED BY <2>1 DEF Shape
<1>2. CASE Pictured(d, L, n) /\ d.failed = FALSE
  BY <1>1, <1>2, PicturedNext DEF Follows
<1>3. CASE ~RunsAreDefined(L) /\ d.failed = TRUE
  BY <1>1, <1>3 DEF Follows
<1> QED BY <1>2, <1>3 DEF Follows

LEMMA ReplayingFollows ==
    ASSUME NEW L, SoundLog(L), NEW from \in Nat, NEW n \in from..Len(L), NEW d, Follows(d, L, from),
           NEW counts, NEW embeds, NEW f, Replaying(f, d, L, from, n, counts, embeds)
    PROVE  Follows(f[n], L, n)
<1> DEFINE S == {k \in 0..n - from : Follows(f[from + k], L, from + k)}
<1>1. Len(L) \in Nat /\ n \in Nat /\ from <= n /\ n <= Len(L)
  BY LogForm DEF SoundLog
<1>2. 0 \in S
  <2>1. from + 0 = from /\ 0 \in 0..n - from /\ from \in from..n
    BY <1>1
  <2>2. f[from] = d
    BY <2>1 DEF Replaying
  <2> QED BY <2>1, <2>2
<1>3. ASSUME NEW k \in 0..(n - from) - 1, k \in S PROVE k + 1 \in S
  <2> DEFINE i == from + k
             x == Given(L, i + 1, counts)
  <2>1. /\ i \in Nat /\ i + 1 = from + (k + 1) /\ i + 1 \in from..n /\ i + 1 # from
        /\ (i + 1) - 1 = i /\ i + 1 \in 1..Len(L) /\ k + 1 \in 0..n - from
    BY <1>1
  <2>2. Follows(f[i], L, i)
    BY <1>3
  <2>3. f[i + 1] = Apply(f[i], L[i + 1], x, embeds)
    BY <2>1 DEF Replaying
  <2>4. x \in {Unknown, Occurrence(L, i + 1)}
    BY DEF Given
  <2> HIDE DEF i, x
  <2>5. Follows(f[i + 1], L, i + 1)
    BY <2>1, <2>2, <2>3, <2>4, FollowsNext
  <2> QED BY <2>1, <2>5
<1>4. n - from \in Nat /\ from + (n - from) = n /\ n - from \in 0..n - from
  BY <1>1
<1>5. \A k \in 0..(n - from) - 1 : k \in S => k + 1 \in S
  BY <1>3
<1> HIDE DEF S
<1>6. n - from \in S
  BY <1>2, <1>4, <1>5, Upwards
<1> QED BY <1>4, <1>6 DEF S

LEMMA ReplayFollows ==
    ASSUME NEW L, SoundLog(L), NEW from \in 0..Len(L), NEW d, Pictured(d, L, from),
           NEW counts, NEW embeds, NEW c, c = Replay(d, L, from, counts, embeds)
    PROVE  Follows(c, L, Len(L))
<1>0. Len(L) \in Nat /\ from <= Len(L) /\ from \in Nat /\ Len(L) \in from..Len(L)
  BY LogForm DEF SoundLog
<1>1. PICK f : /\ Replaying(f, d, L, from, Len(L), counts, embeds)
               /\ c = f[Len(L)]
  BY <1>0, ReplayIs
<1>2. Follows(d, L, from)
  BY DEF Follows, Pictured, Tells, Shape
<1>3. Follows(f[Len(L)], L, Len(L))
  BY <1>0, <1>1, <1>2, ReplayingFollows
<1> QED BY <1>1, <1>3

LEMMA AlikePictured ==
    ASSUME NEW L, NEW n, NEW d, Pictured(d, L, n), NEW c, Alike(c, d)
    PROVE  Pictured(c, L, n)
<1>1. /\ c.entries = d.entries /\ c.evidence = d.evidence /\ c.candidates = d.candidates
      /\ c.verdicts = d.verdicts /\ c.weights = d.weights /\ c.tests = d.tests
      /\ c.runs = d.runs /\ c.failed = d.failed
  BY DEF Alike
<1>2. Shape(c)
  BY <1>1 DEF Alike, AllTables, Pictured, Tells, Shape
<1>3. Remembers(c, L, n) /\ RowsOf(c, L, n)
  BY <1>1 DEF Pictured, Tells, Remembers, RowsOf
<1>4. Says(c, L, n)
  <2>1. Cited(c) = Cited(d) /\ \A e : LiveIn(c, e) <=> LiveIn(d, e)
    BY <1>1 DEF Cited, LiveIn
  <2> QED BY <2>1 DEF Pictured, Says
<1>5. Pictures(c, L, n)
  BY <1>1 DEF Pictured, Pictures, RowsSaid, PointsSaid, TestsSaid
<1> QED BY <1>1, <1>2, <1>3, <1>4, <1>5 DEF Pictured, Tells

(* Tables that a rebuild made picture the log. *)
LEMMA BuiltPictured ==
    ASSUME NEW L, SoundLog(L), NEW n \in 0..Len(L), NEW d, Built(d, L, n), ~d.failed
    PROVE  Pictured(d, L, n)
<1>1. PICK f : Replaying(f, Empty, L, 0, n, FALSE, TRUE) /\ Alike(d, f[n])
  BY DEF Built
<1>2. Pictured(Empty, L, 0)
  BY EmptyPictured DEF SoundLog
<1>3. Follows(Empty, L, 0)
  BY <1>2 DEF Follows, Pictured, Tells, Shape
<1>4. Follows(f[n], L, n)
  BY <1>1, <1>3, ReplayingFollows
<1>5. f[n].failed = d.failed
  BY <1>1 DEF Alike
<1>6. Pictured(f[n], L, n)
  BY <1>4, <1>5 DEF Follows
<1> QED BY <1>1, <1>6, AlikePictured

LEMMA GoodIsSound ==
    ASSUME NEW L, NEW w, GoodLog(L, w)
    PROVE  SoundLog(L)
BY DEF GoodLog, OrderlyLog, SoundLog

(* A run records that its test is defined, or the replay fails of it. *)
LEMMA DefinedReplays ==
    ASSUME BuiltInv, RunsAreDefined(log)
    PROVE  ReplayNeverFails
<1>1. GoodLog(log, writes) /\ IsLog(log) /\ Len(log) \in Nat
  BY OrderForm DEF BuiltInv
<1>2. SoundLog(log)
  BY <1>1, GoodIsSound
<1>3. ~Materialize(log, TRUE).failed
  <2>1. Pictured(Empty, log, 0) /\ 0 \in 0..Len(log)
    BY <1>1, EmptyPictured
  <2> DEFINE c == Materialize(log, TRUE)
  <2>2. c = Replay(Empty, log, 0, FALSE, TRUE)
    BY DEF Materialize
  <2> HIDE DEF c
  <2>3. Follows(c, log, Len(log))
    BY <1>2, <2>1, <2>2, ReplayFollows
  <2>4. ~c.failed
    BY <2>3 DEF Follows
  <2> QED BY <2>4 DEF c
<1>4. ASSUME applied # Void PROVE ~ReplayTail(db, log, applied, TRUE).failed
  <2>1. applied \in 0..Len(log) /\ Tells(db, log, applied) /\ Built(db, log, applied)
    BY <1>4, OrderForm DEF BuiltInv
  <2>2. ~db.failed
    BY <2>1 DEF Tells
  <2>3. Pictured(db, log, applied)
    BY <1>2, <2>1, <2>2, BuiltPictured
  <2> DEFINE c == ReplayTail(db, log, applied, TRUE)
  <2>4. c = Replay(db, log, applied, TRUE, TRUE)
    BY DEF ReplayTail
  <2> HIDE DEF c
  <2>5. Follows(c, log, Len(log))
    BY <1>2, <2>1, <2>3, <2>4, ReplayFollows
  <2>6. ~c.failed
    BY <2>5 DEF Follows
  <2> QED BY <2>6 DEF c
<1> QED BY <1>3, <1>4 DEF ReplayNeverFails

(* A replay of the whole log, or of what follows the cursor, meets no event that it
   cannot apply (apply_event, replay_tail_locked, rebuild), as long as every run in
   the log comes after a definition of its test. `kb run` of a test that nobody
   defined breaks that, and so does a compaction after a test is defined again. *)
THEOREM ReplaysSucceed == KbSpec => [](RunsAreDefined(log) => ReplayNeverFails)
<1>1. KbInit => BuiltInv
  BY BuiltInit
<1>2. BuiltInv /\ [KbNext]_kbVars => BuiltInv'
  BY BuiltStep
<1>3. BuiltInv => (RunsAreDefined(log) => ReplayNeverFails)
  BY DefinedReplays
<1> QED BY <1>1, <1>2, <1>3, PTL DEF KbSpec

-----------------------------------------------------------------------------
(* What is stated of a log is stated of its compaction: the history.       *)

Recast(L, C, pos) == SoundLog(L) /\ SoundLog(C) /\ Rewrites(C, L, Kept(L), pos)

LEMMA RecastForm ==
    ASSUME NEW L, NEW C, NEW pos, Recast(L, C, pos)
    PROVE  /\ IsLog(L) /\ IsLog(C) /\ IdsAreOwn(L) /\ IdsAreOwn(C) /\ JudgedAfterSampled(L)
           /\ Rewrites(C, L, Kept(L), pos)
           /\ Len(L) \in Nat /\ DOMAIN L = 1..Len(L) /\ \A i \in 1..Len(L) : IsEvent(L[i])
           /\ Len(C) \in Nat /\ DOMAIN C = 1..Len(C) /\ \A m \in 1..Len(C) : IsEvent(C[m])
<1>1. IsLog(L) /\ IsLog(C)
  BY DEF Recast, SoundLog
<1>2. Len(L) \in Nat /\ DOMAIN L = 1..Len(L) /\ \A i \in 1..Len(L) : IsEvent(L[i])
  BY <1>1, LogForm
<1>3. Len(C) \in Nat /\ DOMAIN C = 1..Len(C) /\ \A m \in 1..Len(C) : IsEvent(C[m])
  BY <1>1, LogForm
<1> QED BY <1>1, <1>2, <1>3 DEF Recast, SoundLog

LEMMA StaysIn ==
    ASSUME NEW L, NEW C, NEW pos, Recast(L, C, pos), NEW i \in Kept(L)
    PROVE  i \in 1..Len(L) /\ pos[i] \in 1..Len(C) /\ C[pos[i]] = L[i]
BY DEF Recast, Rewrites

LEMMA CameFrom ==
    ASSUME NEW L, NEW C, NEW pos, Recast(L, C, pos), NEW m \in 1..Len(C)
    PROVE  \E i \in Kept(L) : i \in 1..Len(L) /\ pos[i] = m /\ C[m] = L[i]
BY RewrittenFrom DEF Recast

(* Of two kept events that are not about evidence, the order stays. *)
LEMMA OrderStays ==
    ASSUME NEW L, NEW C, NEW pos, Recast(L, C, pos), NEW i \in Kept(L), NEW j \in Kept(L),
           L[i].op \notin EvidenceOps, L[j].op \notin EvidenceOps, pos[i] <= pos[j]
    PROVE  i <= j
<1>1. i \in 1..Len(L) /\ j \in 1..Len(L) /\ Len(L) \in Nat
  BY StaysIn, RecastForm
<1>2. pos[i] \in 1..Len(C) /\ pos[j] \in 1..Len(C) /\ Len(C) \in Nat
  BY StaysIn, RecastForm
<1>3. j < i => pos[j] < pos[i]
  BY DEF Recast, Rewrites
<1> QED BY <1>1, <1>2, <1>3

LEMMA SameRecords ==
    ASSUME NEW L, NEW C, NEW pos, Recast(L, C, pos)
    PROVE  /\ CandidateRows(L, Len(L)) = CandidateRows(C, Len(C))
           /\ VerdictRows(L, Len(L)) = VerdictRows(C, Len(C))
<1>1. IsLog(L) /\ IsLog(C) /\ Rewrites(C, L, Kept(L), pos)
  BY RecastForm
<1>2. /\ CandidateRows(L, Len(L)) \subseteq CandidateRows(C, Len(C))
      /\ VerdictRows(L, Len(L)) = VerdictRows(C, Len(C))
  BY <1>1, RewriteKeepsRows
<1>3. \A m \in 1..Len(C) : \E i \in 1..Len(L) : C[m] = L[i]
  BY <1>1 DEF Rewrites
<1>4. CandidateRows(C, Len(C)) \subseteq CandidateRows(L, Len(L))
  BY <1>3 DEF CandidateRows
<1> QED BY <1>2, <1>4

LEMMA SameRuns ==
    ASSUME NEW L, NEW C, NEW pos, Recast(L, C, pos)
    PROVE  RunRows(L, Len(L)) = RunRows(C, Len(C))
<1>0. /\ IsLog(L) /\ IsLog(C) /\ Rewrites(C, L, Kept(L), pos)
      /\ Len(L) \in Nat /\ Len(C) \in Nat
  BY RecastForm
<1>1. RunRows(L, Len(L)) \subseteq RunRows(C, Len(C))
  BY <1>0, RewriteKeepsRuns
<1> DEFINE from == [m \in 1..Len(C) |-> CHOOSE i \in Kept(L) : pos[i] = m]
<1>2. \A m \in 1..Len(C) : from[m] \in 1..Len(L) /\ pos[from[m]] = m /\ L[from[m]] = C[m]
  <2> SUFFICES ASSUME NEW m \in 1..Len(C)
               PROVE  from[m] \in 1..Len(L) /\ pos[from[m]] = m /\ L[from[m]] = C[m]
    OBVIOUS
  <2>1. from[m] \in Kept(L) /\ pos[from[m]] = m
    BY CameFrom
  <2> HIDE DEF from
  <2> QED BY <2>1, StaysIn
<1> HIDE DEF from
<1>3. ASSUME NEW t
      PROVE  0..Cardinality(LegacyRuns(C, Len(C), t)) - 1
                 \subseteq 0..Cardinality(LegacyRuns(L, Len(L), t)) - 1
  <2> DEFINE A == LegacyRuns(C, Len(C), t)
             B == LegacyRuns(L, Len(L), t)
             f == [m \in A |-> from[m]]
  <2>1. \A m \in A : m \in 1..Len(C) /\ IsLegacyRun(C[m]) /\ C[m].id = t
    BY DEF LegacyRuns
  <2>2. \A m \in A : from[m] \in B
    BY <1>2, <2>1 DEF LegacyRuns
  <2>3. \A m, k \in A : from[m] = from[k] => m = k
    BY <1>2, <2>1
  <2> HIDE DEF A, B
  <2>4. f \in Injection(A, B)
    BY <2>2, <2>3 DEF Injection, IsInjective
  <2>5. IsFiniteSet(B) /\ Cardinality(A) \in Nat /\ Cardinality(B) \in Nat
    BY <1>0, LegacyRunsFinite DEF A, B
  <2> HIDE DEF f
  <2>6. Cardinality(A) <= Cardinality(B)
    BY <2>4, <2>5, FS_Injection
  <2> QED BY <2>5, <2>6 DEF A, B
<1>4. ASSUME NEW m \in 1..Len(C), C[m].op = "run", C[m].key # 0
      PROVE  \E j \in 1..Len(L) : /\ L[j].op = "run" /\ L[j].key # 0
                                  /\ L[j].key = C[m].key /\ L[j].id = C[m].id
  BY <1>2, <1>4
<1>5. RunRows(C, Len(C)) \subseteq RunRows(L, Len(L))
  BY <1>3, <1>4 DEF RunRows
<1> QED BY <1>1, <1>5

(* A run judges an entry for one kind. *)
LEMMA JudgedAsOne ==
    ASSUME NEW L, NEW n \in Nat, NEW run, NEW e, NEW k, NEW h,
           JudgedAs(L, n, run, e, k), JudgedAs(L, n, run, e, h)
    PROVE  k = h
<1>1. PICK i \in 1..n : /\ Judges(L, i, run, e)
                        /\ \A j \in 1..i - 1 : ~Judges(L, j, run, e)
                        /\ \E u : Latest(L, u, e, i) /\ k = KindSaid(L[u])
  BY DEF JudgedAs
<1>2. PICK p \in 1..n : /\ Judges(L, p, run, e)
                        /\ \A j \in 1..p - 1 : ~Judges(L, j, run, e)
                        /\ \E u : Latest(L, u, e, p) /\ h = KindSaid(L[u])
  BY DEF JudgedAs
<1>3. i = p
  <2>1. ~(i < p)
    BY <1>1, <1>2
  <2>2. ~(p < i)
    BY <1>1, <1>2
  <2> QED BY <2>1, <2>2
<1>4. PICK u : Latest(L, u, e, i) /\ k = KindSaid(L[u])
  BY <1>1
<1>5. PICK w : Latest(L, w, e, i) /\ h = KindSaid(L[w])
  BY <1>2, <1>3
<1>6. i \in Nat
  OBVIOUS
<1>7. u = w
  BY <1>4, <1>5, <1>6, LatestIsOne
<1> QED BY <1>4, <1>5, <1>7

LEMMA SameCounts ==
    ASSUME NEW L, NEW C, NEW pos, Recast(L, C, pos), NEW a, Tells(a, L, Len(L)),
           NEW k, NEW answer
    PROVE  CountedAs(L, Len(L), k, answer) = CountedAs(C, Len(C), k, answer)
<1>1. /\ IsLog(L) /\ IsLog(C) /\ Rewrites(C, L, Kept(L), pos)
      /\ Len(L) \in Nat /\ Len(C) \in Nat
  BY RecastForm
<1>2. VerdictRows(L, Len(L)) = VerdictRows(C, Len(C))
  BY SameRecords
<1>3. ASSUME NEW v \in VerdictRows(L, Len(L))
      PROVE  JudgedAs(L, Len(L), v[1], v[2], k) <=> JudgedAs(C, Len(C), v[1], v[2], k)
  <2>1. v[2] \in Entries
    <3>1. PICK i \in {j \in 1..Len(L) : L[j].op = "verdicts"} :
              v \in {<<L[i].run, e, L[i].answers[e]>> : e \in DOMAIN L[i].answers}
      BY DEF VerdictRows
    <3>2. v[2] \in DOMAIN L[i].answers
      BY <3>1
    <3>3. IsEvent(L[i]) /\ L[i].op = "verdicts"
      BY <3>1, RecastForm
    <3> QED BY <3>2, <3>3 DEF IsEvent, EvidenceOps
  <2>2. PICK h \in Kinds : JudgedAs(L, Len(L), v[1], v[2], h)
    BY DEF Tells, Remembers
  <2>3. JudgedAs(C, Len(C), v[1], v[2], h)
    BY <1>1, <2>1, <2>2, RewriteKeepsJudged
  <2>4. JudgedAs(C, Len(C), v[1], v[2], k) => k = h
    BY <1>1, <2>3, JudgedAsOne
  <2>5. JudgedAs(L, Len(L), v[1], v[2], k) => k = h
    BY <1>1, <2>2, JudgedAsOne
  <2> QED BY <2>2, <2>3, <2>4, <2>5
<1> QED BY <1>2, <1>3 DEF CountedAs

(* The columns of runs and audits. *)
LEMMA SameRecall ==
    ASSUME NEW L, NEW C, NEW pos, Recast(L, C, pos), NEW a, Tells(a, L, Len(L)),
           NEW c, Tells(c, C, Len(C))
    PROVE  /\ a.runs = c.runs /\ a.candidates = c.candidates /\ a.verdicts = c.verdicts
           /\ a.weights = c.weights
<1>1. a.runs = c.runs
  BY SameRuns DEF Tells, Remembers
<1>2. a.candidates = c.candidates /\ a.verdicts = c.verdicts
  BY SameRecords DEF Tells, Remembers
<1>3. a.weights = c.weights
  <2>1. \A k \in Kinds : /\ CountedAs(L, Len(L), k, "true") = CountedAs(C, Len(C), k, "true")
                         /\ CountedAs(L, Len(L), k, "false") = CountedAs(C, Len(C), k, "false")
    BY SameCounts
  <2>2. /\ a.weights = [k \in Kinds |-> [good |-> Cardinality(CountedAs(L, Len(L), k, "true")),
                                         bad |-> Cardinality(CountedAs(L, Len(L), k, "false"))]]
        /\ c.weights = [k \in Kinds |-> [good |-> Cardinality(CountedAs(C, Len(C), k, "true")),
                                         bad |-> Cardinality(CountedAs(C, Len(C), k, "false"))]]
    BY DEF Tells, Remembers
  <2> QED BY <2>1, <2>2
<1> QED BY <1>1, <1>2, <1>3

(* The last definition of a test is kept, and is the last. *)
LEMMA SameTests ==
    ASSUME NEW L, NEW C, NEW pos, Recast(L, C, pos), NEW t,
           NEW v, TestSaid(v, L, t, Len(L)), NEW w, TestSaid(w, C, t, Len(C))
    PROVE  v = w
<1>0. DOMAIN L = 1..Len(L) /\ Len(L) \in Nat /\ Len(C) \in Nat
  BY RecastForm
<1>1. CASE v = 0 /\ \A j \in 1..Len(L) : ~Defines(L[j], t)
  <2>1. \A m \in 1..Len(C) : ~Defines(C[m], t)
    BY <1>1, CameFrom
  <2> QED BY <1>1, <2>1 DEF TestSaid
<1>2. CASE \E j \in 1..Len(L) : /\ Defines(L[j], t) /\ v = L[j].ts
                                /\ \A i \in j + 1..Len(L) : ~Defines(L[i], t)
  <2>1. PICK j \in 1..Len(L) : /\ Defines(L[j], t) /\ v = L[j].ts
                               /\ \A i \in j + 1..Len(L) : ~Defines(L[i], t)
    BY <1>2
  <2>2. j \in Kept(L)
    BY <1>0, <2>1 DEF Kept, LastTests, Defines
  <2>3. pos[j] \in 1..Len(C) /\ C[pos[j]] = L[j]
    BY <2>2, StaysIn
  <2>4. PICK m \in 1..Len(C) : /\ Defines(C[m], t) /\ w = C[m].ts
                               /\ \A i \in m + 1..Len(C) : ~Defines(C[i], t)
    BY <2>1, <2>3 DEF TestSaid
  <2>5. pos[j] <= m
    BY <1>0, <2>1, <2>3, <2>4
  <2>6. PICK i \in Kept(L) : i \in 1..Len(L) /\ pos[i] = m /\ C[m] = L[i]
    BY <2>4, CameFrom
  <2>7. L[i].op \notin EvidenceOps /\ L[j].op \notin EvidenceOps
    BY <2>1, <2>4, <2>6 DEF Defines, EvidenceOps
  <2>8. j <= i
    BY <2>2, <2>5, <2>6, <2>7, OrderStays
  <2>9. i <= j
    BY <1>0, <2>1, <2>4, <2>6
  <2>10. i = j
    BY <2>6, <2>8, <2>9
  <2> QED BY <2>1, <2>4, <2>6, <2>10
<1> QED BY <1>1, <1>2 DEF TestSaid

-----------------------------------------------------------------------------
(* What is stated of a log is stated of its compaction: the evidence.      *)

LEMMA SameLife ==
    ASSUME NEW L, NEW C, NEW pos, Recast(L, C, pos), NEW e \in Entries
    PROVE  Alive(L, e, Len(L)) <=> Alive(C, e, Len(C))
<1>1. IsLog(L) /\ IsLog(C) /\ Rewrites(C, L, Kept(L), pos) /\ JudgedAfterSampled(L)
  BY RecastForm
<1>2. Alive(L, e, Len(L)) => Alive(C, e, Len(C))
  BY <1>1, LiveIsKept
<1>3. ~Alive(L, e, Len(L)) => ~Alive(C, e, Len(C))
  BY <1>1, DeadStaysDead
<1> QED BY <1>2, <1>3

(* Of two kept events about an entry, the order stays. *)
LEMMA ConcernsStay ==
    ASSUME NEW L, NEW C, NEW pos, Recast(L, C, pos), NEW e, NEW i \in Kept(L), NEW j \in Kept(L),
           Concerns(L[i], e), Concerns(L[j], e), pos[i] <= pos[j]
    PROVE  i <= j
<1>1. IsLog(L) /\ IsLog(C) /\ Rewrites(C, L, Kept(L), pos)
  BY RecastForm
<1>2. j < i <=> pos[j] < pos[i]
  BY <1>1, RewriteOrdered
<1>3. /\ i \in 1..Len(L) /\ j \in 1..Len(L) /\ Len(L) \in Nat
      /\ pos[i] \in 1..Len(C) /\ pos[j] \in 1..Len(C) /\ Len(C) \in Nat
  BY StaysIn, RecastForm
<1> QED BY <1>2, <1>3

(* Who held its id since the event i and holds it at the end is not ended after. *)
LEMMA HeldIsLive ==
    ASSUME NEW L, IsLog(L), NEW p, NEW q \in 1..Len(L), \A m \in q..Len(L) : p \in Owners(L)[m]
    PROVE  \A m \in q..Len(L) : Alive(L, p[2], m) /\ \A x \in m + 1..Len(L) : ~Ends(L[x], p[2])
<1>0. Len(L) \in Nat
  BY LogForm
<1>1. ASSUME NEW m \in q..Len(L) PROVE Alive(L, p[2], m)
  <2>1. m \in 0..Len(L)
    BY <1>0
  <2>2. p \in Owners(L)[m]
    OBVIOUS
  <2> QED BY <2>1, <2>2, OwnersAlive
<1>2. ASSUME NEW x \in q..Len(L), Ends(L[x], p[2]) PROVE FALSE
  <2>1. x - 1 \in Nat /\ (x - 1) + 1 = x
    BY <1>0
  <2> DEFINE n == x - 1
  <2>2. n \in Nat /\ n + 1 = x
    BY <2>1
  <2> HIDE DEF n
  <2>3. Ends(L[n + 1], p[2])
    BY <1>2, <2>2
  <2>4. ~Alive(L, p[2], n + 1)
    BY <2>2, <2>3, AliveNext
  <2> QED BY <1>1, <2>2, <2>4
<1>3. \A m \in q..Len(L) : \A x \in m + 1..Len(L) : x \in q..Len(L)
  BY <1>0
<1> QED BY <1>1, <1>2, <1>3

(* The add that gave an id, and all that was said of the evidence since, is kept. *)
LEMMA HeldIsKept ==
    ASSUME NEW L, IsLog(L), IdsAreOwn(L), NEW p \in Owners(L)[Len(L)]
    PROVE  \E q \in KeptEvidence(L) :
              /\ q \in 1..Len(L) /\ Adds(L[q], p) /\ \A m \in q..Len(L) : p \in Owners(L)[m]
              /\ \A j \in q..Len(L) :
                    L[j].op \in EvidenceOps /\ L[j].id = p[2] => j \in KeptEvidence(L) /\ j \in Kept(L)
<1>0. Len(L) \in Nat
  BY LogForm
<1>1. PICK q \in 1..Len(L) : Adds(L[q], p) /\ \A m \in q..Len(L) : p \in Owners(L)[m]
  BY HeldSince
<1>2. \A m \in q..Len(L) : Alive(L, p[2], m) /\ \A x \in m + 1..Len(L) : ~Ends(L[x], p[2])
  BY <1>1, HeldIsLive
<1>3. ASSUME NEW j \in q..Len(L), L[j].op \in EvidenceOps, L[j].id = p[2]
      PROVE  j \in KeptEvidence(L) /\ j \in Kept(L)
  <2> DEFINE e == p[2]
  <2>1. j \in 1..Len(L) /\ e = L[j].id
    BY <1>0, <1>3
  <2>2. Alive(L, e, j) /\ \A x \in j + 1..Len(L) : ~Ends(L[x], e)
    BY <1>2
  <2> HIDE DEF e
  <2> QED BY <1>3, <2>1, <2>2, KeptIfLive
<1>4. q \in q..Len(L) /\ L[q].op \in EvidenceOps /\ L[q].id = p[2]
  BY <1>0, <1>1 DEF Adds, EvidenceOps
<1> QED BY <1>1, <1>3, <1>4

LEMMA SameOwners ==
    ASSUME NEW L, NEW C, NEW pos, Recast(L, C, pos)
    PROVE  Owners(L)[Len(L)] = Owners(C)[Len(C)]
<1>0. /\ IsLog(L) /\ IsLog(C) /\ IdsAreOwn(L) /\ IdsAreOwn(C) /\ Rewrites(C, L, Kept(L), pos)
      /\ Len(L) \in Nat /\ Len(C) \in Nat
  BY RecastForm
<1>1. Owners(C)[Len(C)] \subseteq Owners(L)[Len(L)]
  BY <1>0, RewriteOwns
<1>2. ASSUME NEW p \in Owners(L)[Len(L)], p \notin Owners(C)[Len(C)] PROVE FALSE
  <2>1. PICK q \in KeptEvidence(L) :
            /\ q \in 1..Len(L) /\ Adds(L[q], p) /\ \A m \in q..Len(L) : p \in Owners(L)[m]
            /\ \A j \in q..Len(L) :
                  L[j].op \in EvidenceOps /\ L[j].id = p[2] => j \in KeptEvidence(L) /\ j \in Kept(L)
    BY <1>0, HeldIsKept
  <2>2. /\ L[q].op = "evidence_add" /\ p = <<L[q].ev, L[q].id>> /\ p[2] = L[q].id /\ q \in Kept(L)
    BY <2>1 DEF Adds, Kept
  <2>3. pos[q] \in 1..Len(C) /\ C[pos[q]] = L[q]
    BY <2>2, StaysIn
  <2>4. pos[q] \in KeptEvidence(C) /\ \A x \in pos[q] + 1..Len(C) : ~Ends(C[x], p[2])
    BY <1>0, <2>1, <2>2, EvidenceKeptAgain
  <2>5. LiveAt(C, C[pos[q]].id, pos[q] - 1)
    BY <2>4 DEF KeptEvidence
  <2>6. p \in Owners(C)[pos[q]]
    BY <1>0, <2>2, <2>3, <2>5, AddTakes
  <2>7. PICK m \in pos[q] + 1..Len(C) : p \in Owners(C)[m - 1] /\ p \notin Owners(C)[m]
    <3>1. pos[q] \in 0..Len(C)
      BY <1>0, <2>3
    <3> QED BY <1>0, <1>2, <2>6, <3>1, DroppedAt
  <2>8. m \in 1..Len(C) /\ pos[q] < m
    BY <1>0, <2>3
  <2>9. Owners(C)[m] = OwnersNext(C, m, Owners(C)[m - 1])
    BY <1>0, <2>8, OwnersIs
  <2>10. C[m].op = "evidence_expire" /\ p = <<C[m].ev, C[m].id>>
    <3>1. ~Ends(C[m], p[2])
      BY <2>4
    <3> QED BY <2>7, <2>9, <3>1 DEF OwnersNext
  <2>11. PICK i \in Kept(L) : i \in 1..Len(L) /\ pos[i] = m /\ C[m] = L[i]
    BY <2>8, CameFrom
  <2>12. Concerns(L[q], p[2]) /\ Concerns(L[i], p[2])
    BY <2>2, <2>10, <2>11 DEF Concerns, EvidenceOps
  <2>13. q <= i
    <3>1. pos[q] <= pos[i]
      BY <1>0, <2>3, <2>8, <2>11
    <3> QED BY <2>2, <2>12, <3>1, ConcernsStay
  <2>14. i \in q..Len(L) /\ p \in Owners(L)[i]
    BY <1>0, <2>1, <2>11, <2>13
  <2>15. i \in KeptEvidence(L)
    BY <1>0, <2>10, <2>11, EvidenceIsKept DEF EvidenceOps
  <2>16. LiveAt(L, L[i].id, i - 1)
    BY <2>15 DEF KeptEvidence
  <2>17. Owners(L)[i] = OwnersNext(L, i, Owners(L)[i - 1])
    BY <1>0, <2>11, OwnersIs
  <2>18. OwnersNext(L, i, Owners(L)[i - 1]) = Owners(L)[i - 1] \ {p}
    BY <2>10, <2>11, <2>16 DEF OwnersNext
  <2> QED BY <2>14, <2>17, <2>18
<1> QED BY <1>1, <1>2

LEMMA SameHolds ==
    ASSUME NEW L, NEW C, NEW pos, Recast(L, C, pos), NEW e
    PROVE  Holds(L, e, Len(L)) <=> Holds(C, e, Len(C))
BY SameOwners DEF Holds

(* Where evidence points to is what was said of it last. *)
LEMMA SamePoint ==
    ASSUME NEW L, NEW C, NEW pos, Recast(L, C, pos), NEW r, NEW q, r.ev = q.ev, r.owner = q.owner,
           <<r.ev, r.owner>> \in Owners(L)[Len(L)],
           PointTold(r, L, Len(L)), PointTold(q, C, Len(C))
    PROVE  r.at = q.at
<1> DEFINE p == <<r.ev, r.owner>>
<1>0. /\ IsLog(L) /\ IsLog(C) /\ IdsAreOwn(L) /\ Len(L) \in Nat /\ Len(C) \in Nat
      /\ p \in Owners(L)[Len(L)] /\ p[1] = r.ev /\ p[2] = r.owner
  BY RecastForm
<1> HIDE DEF p
<1>1. PICK a \in KeptEvidence(L) :
          /\ a \in 1..Len(L) /\ Adds(L[a], p) /\ \A m \in a..Len(L) : p \in Owners(L)[m]
          /\ \A j \in a..Len(L) :
                L[j].op \in EvidenceOps /\ L[j].id = p[2] => j \in KeptEvidence(L) /\ j \in Kept(L)
  BY <1>0, HeldIsKept
<1>2. PICK j \in 1..Len(L) : Points(L[j], r) /\ r.at = L[j].at /\ \A i \in j + 1..Len(L) : ~Points(L[i], r)
  BY DEF PointTold
<1>3. PICK m \in 1..Len(C) : Points(C[m], q) /\ q.at = C[m].at /\ \A i \in m + 1..Len(C) : ~Points(C[i], q)
  BY DEF PointTold
<1>4. j \in a..Len(L)
  <2>1. L[a].op = "evidence_add" /\ L[a].ev = p[1] /\ L[a].id = p[2]
    BY <1>1 DEF Adds
  <2>2. Points(L[a], r)
    BY <1>0, <2>1 DEF Points
  <2>3. ~(a \in j + 1..Len(L))
    BY <1>2, <2>2
  <2> QED BY <1>0, <1>1, <1>2, <2>3
<1>5. j \in Kept(L)
  BY <1>0, <1>1, <1>2, <1>4 DEF Points, EvidenceOps
<1>6. pos[j] \in 1..Len(C) /\ C[pos[j]] = L[j]
  BY <1>5, StaysIn
<1>7. pos[j] <= m
  <2>1. Points(C[pos[j]], q)
    BY <1>2, <1>6 DEF Points
  <2> QED BY <1>0, <1>3, <1>6, <2>1
<1>8. PICK i \in Kept(L) : i \in 1..Len(L) /\ pos[i] = m /\ C[m] = L[i]
  BY <1>3, CameFrom
<1>9. Points(L[i], r) /\ Concerns(L[i], r.owner) /\ Concerns(L[j], r.owner)
  BY <1>2, <1>3, <1>8 DEF Points, Concerns, EvidenceOps
<1>10. j <= i
  BY <1>5, <1>7, <1>8, <1>9, ConcernsStay
<1>11. i = j
  BY <1>0, <1>2, <1>8, <1>9, <1>10
<1> QED BY <1>2, <1>3, <1>8, <1>11

LEMMA SameEvidence ==
    ASSUME NEW L, NEW C, NEW pos, Recast(L, C, pos), NEW a, Pictured(a, L, Len(L)),
           NEW c, Pictured(c, C, Len(C))
    PROVE  a.evidence = c.evidence
<1>1. Cited(a) = Owners(L)[Len(L)] /\ Cited(c) = Owners(L)[Len(L)]
  BY SameOwners DEF Pictured, Says
<1>2. ASSUME NEW r \in a.evidence, NEW q \in c.evidence, r.ev = q.ev, r.owner = q.owner
      PROVE  r = q
  <2>1. PointTold(r, L, Len(L)) /\ PointTold(q, C, Len(C))
    BY DEF Pictured, Pictures, PointsSaid
  <2>2. <<r.ev, r.owner>> \in Owners(L)[Len(L)]
    BY <1>1 DEF Cited
  <2>3. r.at = q.at
    BY <1>2, <2>1, <2>2, SamePoint
  <2>4. r = [ev |-> r.ev, owner |-> r.owner, at |-> r.at]
    BY DEF Pictured, Tells, Shape
  <2>5. q = [ev |-> q.ev, owner |-> q.owner, at |-> q.at]
    BY DEF Pictured, Tells, Shape
  <2> QED BY <1>2, <2>3, <2>4, <2>5
<1>3. ASSUME NEW r \in a.evidence PROVE r \in c.evidence
  <2>1. <<r.ev, r.owner>> \in Cited(c)
    BY <1>1 DEF Cited
  <2>2. PICK q \in c.evidence : <<q.ev, q.owner>> = <<r.ev, r.owner>>
    BY <2>1 DEF Cited
  <2>3. r = q
    BY <1>2, <2>2
  <2> QED BY <2>3
<1>4. ASSUME NEW q \in c.evidence PROVE q \in a.evidence
  <2>1. <<q.ev, q.owner>> \in Cited(a)
    BY <1>1 DEF Cited
  <2>2. PICK r \in a.evidence : <<q.ev, q.owner>> = <<r.ev, r.owner>>
    BY <2>1 DEF Cited
  <2>3. r = q
    BY <1>2, <2>2
  <2> QED BY <2>3
<1> QED BY <1>3, <1>4

-----------------------------------------------------------------------------
(* What is stated of a log is stated of its compaction: the entries.       *)

(* Of two events that e lives through, what comes after the second came after it. *)
LEMMA LastUpdateIs ==
    ASSUME NEW L, NEW C, NEW pos, Recast(L, C, pos), NEW e, NEW j \in Kept(L), j \in 1..Len(L),
           Updates(L, j, e), \A i \in j + 1..Len(L) : ~Updates(L, i, e),
           Updates(C, pos[j], e),
           \A i \in Kept(L) : Updates(C, pos[i], e) => i <= j,
           NEW r, r.updated = L[j].ts, NEW q, UpdatedAs(q, C, e, Len(C))
    PROVE  r.updated = q.updated
<1>0. Len(L) \in Nat /\ Len(C) \in Nat
  BY RecastForm
<1>1. PICK m \in 1..Len(C) : /\ Updates(C, m, e) /\ q.updated = C[m].ts
                             /\ \A i \in m + 1..Len(C) : ~Updates(C, i, e)
  BY DEF UpdatedAs
<1>2. PICK i \in Kept(L) : i \in 1..Len(L) /\ pos[i] = m /\ C[m] = L[i]
  BY <1>1, CameFrom
<1>3. i <= j
  BY <1>1, <1>2
<1>4. pos[j] \in 1..Len(C) /\ C[pos[j]] = L[j]
  BY StaysIn
<1>5. pos[j] <= pos[i]
  BY <1>0, <1>1, <1>2, <1>4
<1>6. Concerns(L[i], e) /\ Concerns(L[j], e)
  BY <1>1, <1>2 DEF Updates, Dates, DatingOps, Concerns, EvidenceOps
<1>7. j <= i
  BY <1>5, <1>6, ConcernsStay
<1>8. i = j
  BY <1>0, <1>2, <1>3, <1>7
<1> QED BY <1>1, <1>2, <1>8

(* Of a live entry nothing ends after its latest upsert, which is kept. *)
LEMMA LivesSince ==
    ASSUME NEW L, IsLog(L), NEW e, Alive(L, e, Len(L)), NEW u, Latest(L, u, e, Len(L))
    PROVE  /\ u \in 1..Len(L) /\ IsUpsert(L, u, e) /\ \A x \in u..Len(L) : ~Ends(L[x], e)
           /\ \A i \in u..Len(L) : Alive(L, e, i)
<1>0. Len(L) \in Nat /\ u \in 1..Len(L) /\ IsUpsert(L, u, e)
  BY LogForm DEF Latest
<1>1. PICK w \in 1..Len(L) : IsUpsert(L, w, e) /\ \A x \in w + 1..Len(L) : ~Ends(L[x], e)
  BY DEF Alive
<1>2. w <= u
  BY <1>0, <1>1 DEF Latest
<1>3. ~Ends(L[u], e)
  BY <1>0, UpsertEndsNothing
<1>4. \A x \in u..Len(L) : ~Ends(L[x], e)
  BY <1>0, <1>1, <1>2, <1>3
<1>5. ASSUME NEW i \in u..Len(L) PROVE Alive(L, e, i)
  <2>1. u \in 1..i /\ \A x \in u + 1..i : ~Ends(L[x], e)
    BY <1>0, <1>4
  <2> QED BY <1>0, <2>1 DEF Alive
<1> QED BY <1>0, <1>4, <1>5

LEMMA SameTime ==
    ASSUME NEW L, NEW C, NEW pos, Recast(L, C, pos), NEW e \in Entries, Alive(L, e, Len(L)),
           NEW r, UpdatedAs(r, L, e, Len(L)), NEW q, UpdatedAs(q, C, e, Len(C))
    PROVE  r.updated = q.updated
<1>0. /\ IsLog(L) /\ IsLog(C) /\ IdsAreOwn(L) /\ Rewrites(C, L, Kept(L), pos)
      /\ Len(L) \in Nat /\ Len(C) \in Nat
  BY RecastForm
<1>1. PICK u : Latest(L, u, e, Len(L))
  BY <1>0, AliveHasLatest
<1>2. /\ u \in 1..Len(L) /\ IsUpsert(L, u, e) /\ \A x \in u..Len(L) : ~Ends(L[x], e)
      /\ \A i \in u..Len(L) : Alive(L, e, i)
  BY <1>0, <1>1, LivesSince
<1>3. u \in Kept(L) /\ Latest(C, pos[u], e, Len(C)) /\ Alive(C, e, Len(C))
  BY <1>0, <1>1, LastUpsertKept
<1>4. pos[u] \in 1..Len(C) /\ C[pos[u]] = L[u]
  BY <1>3, StaysIn
<1>5. /\ \A x \in pos[u]..Len(C) : ~Ends(C[x], e)
      /\ \A i \in pos[u]..Len(C) : Alive(C, e, i)
  BY <1>0, <1>3, LivesSince
<1>6. PICK j \in 1..Len(L) : /\ Updates(L, j, e) /\ r.updated = L[j].ts
                             /\ \A i \in j + 1..Len(L) : ~Updates(L, i, e)
  BY DEF UpdatedAs
<1>7. Concerns(L[u], e) /\ Dates(L[u], e) /\ Updates(L, u, e)
  <2>1. Alive(L, e, u)
    BY <1>0, <1>2
  <2> QED BY <1>2, <2>1 DEF Concerns, Updates, Dates, DatingOps, IsUpsert
<1>8. j \in u..Len(L)
  BY <1>0, <1>2, <1>6, <1>7
<1>9. Dates(L[j], e) /\ Concerns(L[j], e)
  BY <1>2, <1>6, <1>8 DEF Updates, Dates, DatingOps, Concerns, EvidenceOps
<1>10. j \in Kept(L)
  <2>1. CASE L[j].op = "upsert"
    <3>1. j = u
      BY <1>0, <1>1, <1>8, <1>9, <2>1 DEF Latest, IsUpsert, Dates
    <3> QED BY <1>3, <3>1
  <2>2. CASE L[j].op # "upsert"
    <3>1. L[j].op \in EvidenceOps /\ e = L[j].id
      BY <1>9, <2>2 DEF Dates, DatingOps, EvidenceOps
    <3>2. Alive(L, e, j) /\ \A x \in j + 1..Len(L) : ~Ends(L[x], e)
      BY <1>0, <1>2, <1>8
    <3> QED BY <1>0, <3>1, <3>2, KeptIfLive
  <2> QED BY <2>1, <2>2
<1>11. pos[j] \in 1..Len(C) /\ C[pos[j]] = L[j]
  BY <1>10, StaysIn
<1>12. pos[u] <= pos[j]
  <2>1. j < u <=> pos[j] < pos[u]
    BY <1>0, <1>3, <1>7, <1>9, <1>10, RewriteOrdered
  <2>2. u \in Int /\ j \in Int /\ u <= j /\ pos[u] \in Int /\ pos[j] \in Int
    BY <1>0, <1>2, <1>4, <1>8, <1>11
  <2> QED BY <2>1, <2>2
<1>13. Updates(C, pos[j], e)
  BY <1>0, <1>4, <1>5, <1>9, <1>11, <1>12 DEF Updates
<1>14. ASSUME NEW i \in Kept(L), Updates(C, pos[i], e) PROVE i <= j
  <2>1. i \in 1..Len(L) /\ pos[i] \in 1..Len(C) /\ C[pos[i]] = L[i]
    BY StaysIn
  <2>2. CASE i < u
    BY <1>0, <1>2, <1>8, <2>1, <2>2
  <2>3. CASE u <= i
    <3>1. Alive(L, e, i) /\ ~Ends(L[i], e)
      BY <1>0, <1>2, <2>1, <2>3
    <3>2. Updates(L, i, e)
      BY <1>14, <2>1, <3>1 DEF Updates
    <3> QED BY <1>0, <1>6, <2>1, <3>2
  <2> QED BY <1>0, <1>2, <2>1, <2>2, <2>3
<1>15. \A i \in Kept(L) : Updates(C, pos[i], e) => i <= j
  BY <1>14
<1> QED BY <1>6, <1>10, <1>13, <1>15, LastUpdateIs

LEMMA SameRestated ==
    ASSUME NEW L, NEW C, NEW pos, Recast(L, C, pos), NEW e
    PROVE  Restated(L, e, Len(L)) <=> Restated(C, e, Len(C))
<1>0. /\ IsLog(L) /\ IsLog(C) /\ IdsAreOwn(L) /\ Rewrites(C, L, Kept(L), pos)
      /\ Len(L) \in Nat /\ Len(C) \in Nat
  BY RecastForm
<1>1. ASSUME Restated(L, e, Len(L)) PROVE Restated(C, e, Len(C))
  <2>1. PICK i \in 1..Len(L) : /\ L[i].op \in {"evidence_add", "evidence_expire"} /\ L[i].id = e
                               /\ Alive(L, e, i) /\ \A x \in i + 1..Len(L) : ~Ends(L[x], e)
    BY <1>1 DEF Restated
  <2>2. L[i].op \in EvidenceOps /\ e = L[i].id
    BY <2>1 DEF EvidenceOps
  <2>3. i \in KeptEvidence(L) /\ i \in Kept(L)
    BY <1>0, <2>1, <2>2, KeptIfLive
  <2>4. pos[i] \in 1..Len(C) /\ C[pos[i]] = L[i]
    BY <2>3, StaysIn
  <2>5. (\A x \in pos[i] + 1..Len(C) : ~Ends(C[x], L[i].id)) /\ Alive(C, L[i].id, pos[i])
    BY <1>0, <2>3, EvidenceKeptAgain
  <2> QED BY <2>1, <2>4, <2>5 DEF Restated
<1>2. ASSUME Restated(C, e, Len(C)) PROVE Restated(L, e, Len(L))
  <2>1. PICK m \in 1..Len(C) : /\ C[m].op \in {"evidence_add", "evidence_expire"} /\ C[m].id = e
                               /\ Alive(C, e, m) /\ \A x \in m + 1..Len(C) : ~Ends(C[x], e)
    BY <1>2 DEF Restated
  <2>2. PICK i \in Kept(L) : i \in 1..Len(L) /\ pos[i] = m /\ C[m] = L[i]
    BY CameFrom
  <2>3. i \in KeptEvidence(L) /\ e = L[i].id
    BY <1>0, <2>1, <2>2, EvidenceIsKept DEF EvidenceOps
  <2>4. /\ Anchor(L, i) \in 1..i - 1 /\ IsUpsert(L, Anchor(L, i), e)
        /\ \A x \in 1..Len(L) : Ends(L[x], e) => x < Anchor(L, i)
    BY <1>0, <2>3, AnchorStands
  <2>5. Alive(L, e, i)
    <3> DEFINE u == Anchor(L, i)
    <3>1. u \in 1..i /\ IsUpsert(L, u, e)
      BY <1>0, <2>2, <2>4
    <3>2. \A x \in u + 1..i : ~Ends(L[x], e)
      BY <1>0, <2>2, <2>4
    <3> QED BY <3>1, <3>2 DEF Alive
  <2>6. \A x \in i + 1..Len(L) : ~Ends(L[x], e)
    BY <1>0, <2>2, <2>4
  <2> QED BY <2>1, <2>2, <2>5, <2>6 DEF Restated
<1> QED BY <1>1, <1>2

(* A row that a rebuild makes of the latest upsert, in either log. *)
MadeOf(r, u, L, q, w, C, e) ==
    /\ C[w] = L[u] /\ r.updated = q.updated
    /\ RowFrom(r, L, u, e, Len(L)) /\ RowFrom(q, C, w, e, Len(C))

LEMMA SameFrom ==
    ASSUME NEW L, NEW C, NEW pos, Recast(L, C, pos), NEW e \in Entries, NEW u, NEW w,
           NEW r, NEW q, MadeOf(r, u, L, q, w, C, e)
    PROVE  r = q
<1>0. /\ C[w] = L[u] /\ r.updated = q.updated
      /\ RowFrom(r, L, u, e, Len(L)) /\ RowFrom(q, C, w, e, Len(C))
  BY DEF MadeOf
<1>1. Alive(L, e, Len(L)) <=> Alive(C, e, Len(C))
  BY SameLife
<1>2. r.live = q.live
  BY <1>0, <1>1 DEF RowFrom
<1>3. r.status = q.status
  <2>1. StatusSaid(L, u, e, Len(L)) = StatusSaid(C, w, e, Len(C))
    <3>1. Restated(L, e, Len(L)) <=> Restated(C, e, Len(C))
      BY SameRestated
    <3>2. Holds(L, e, Len(L)) <=> Holds(C, e, Len(C))
      BY SameHolds
    <3> QED BY <1>0, <1>1, <3>1, <3>2 DEF StatusSaid, StatusOf
  <2> QED BY <1>0, <2>1 DEF RowFrom
<1>4. r.path = q.path /\ r.permanent = q.permanent /\ r.text = q.text /\ r.kind = q.kind
  BY <1>0 DEF RowFrom
<1>5. EntryForm(r) /\ EntryForm(q)
  BY <1>0 DEF RowFrom
<1> QED BY <1>0, <1>2, <1>3, <1>4, <1>5 DEF EntryForm

LEMMA SameLiveRow ==
    ASSUME NEW L, NEW C, NEW pos, Recast(L, C, pos), NEW e \in Entries, Alive(L, e, Len(L)),
           NEW r, RowTold(r, L, e, Len(L)), NEW q, RowTold(q, C, e, Len(C))
    PROVE  r = q
<1>0. /\ IsLog(L) /\ IsLog(C) /\ Rewrites(C, L, Kept(L), pos)
      /\ Len(L) \in Nat /\ Len(C) \in Nat
  BY RecastForm
<1>1. PICK v : Latest(L, v, e, Len(L))
  BY <1>0, AliveHasLatest
<1>2. PICK u : Latest(L, u, e, Len(L)) /\ RowFrom(r, L, u, e, Len(L))
  BY <1>1 DEF RowTold, NoUpsert, Latest
<1>3. u \in Kept(L) /\ Latest(C, pos[u], e, Len(C))
  BY <1>0, <1>2, LastUpsertKept
<1>4. PICK w : Latest(C, w, e, Len(C)) /\ RowFrom(q, C, w, e, Len(C))
  BY <1>3 DEF RowTold, NoUpsert, Latest
<1>5. w = pos[u]
  BY <1>0, <1>3, <1>4, LatestIsOne
<1>6. C[w] = L[u]
  BY <1>3, <1>5, StaysIn
<1>7. r.updated = q.updated
  <2>1. UpdatedAs(r, L, e, Len(L)) /\ UpdatedAs(q, C, e, Len(C))
    BY <1>2, <1>4 DEF RowFrom
  <2> QED BY <2>1, SameTime
<1>8. MadeOf(r, u, L, q, w, C, e)
  BY <1>2, <1>4, <1>6, <1>7 DEF MadeOf
<1> QED BY <1>8, SameFrom


(* The last upsert of an entry that was sampled is kept. *)
LEMMA SampledRowKept ==
    ASSUME NEW L, NEW C, NEW pos, Recast(L, C, pos), NEW e \in Entries, NEW c \in Sampled(L, e),
           NEW u, Latest(L, u, e, Len(L))
    PROVE  u \in Kept(L) /\ Latest(C, pos[u], e, Len(C))
<1>0. /\ IsLog(L) /\ IsLog(C) /\ Rewrites(C, L, Kept(L), pos)
      /\ Len(L) \in Nat /\ Len(C) \in Nat /\ DOMAIN L = 1..Len(L)
  BY RecastForm
<1>1. u \in 1..Len(L) /\ u \in Upserts(L, e) /\ c \in 1..Len(L)
  BY <1>0 DEF Latest, IsUpsert, Upserts, Sampled
<1>2. u \in AuditUpserts(L, e)
  <2>1. CASE c < u
    BY <1>1, <2>1 DEF AuditUpserts
  <2>2. CASE u <= c
    <3>1. Latest(L, u, e, c)
      BY <1>0, <1>1, <2>2 DEF Latest
    <3>2. LatestUpsert(L, e, c) = u
      BY <1>0, <1>1, <3>1, LatestIsUpsert
    <3>3. u # 0
      BY <1>1
    <3> QED BY <3>2, <3>3 DEF AuditUpserts
  <2> QED BY <1>1, <2>1, <2>2
<1>3. u \in Kept(L)
  BY <1>2 DEF Kept, OfEntries
<1>4. pos[u] \in 1..Len(C) /\ Len(C) \in 1..Len(C) /\ pos[u] <= Len(C)
  <2>1. pos[u] \in 1..Len(C)
    BY <1>3, StaysIn
  <2> QED BY <1>0, <2>1
<1>5. Len(L) \in 1..Len(L) /\ \A i \in Kept(L) : i <= Len(L)
  <2>1. \A i \in Kept(L) : i \in 1..Len(L)
    BY StaysIn
  <2> QED BY <1>0, <1>1, <2>1
<1>6. Latest(C, pos[u], e, Len(C))
  BY <1>0, <1>3, <1>4, <1>5, CutLatest
<1> QED BY <1>3, <1>6

(* What updated a stale entry last is its end, after it was sampled, which is kept. *)
LEMMA EndIsKept ==
    ASSUME NEW L, IsLog(L), JudgedAfterSampled(L), NEW e \in Entries, ~Alive(L, e, Len(L)),
           NEW c \in Sampled(L, e), NEW u, Latest(L, u, e, Len(L)), NEW j \in 1..Len(L),
           Updates(L, j, e), \A i \in j + 1..Len(L) : ~Updates(L, i, e)
    PROVE  Ends(L[j], e) /\ j \in Kept(L) /\ \A w \in 1..Len(L) : IsUpsert(L, w, e) => w <= j
<1>0. Len(L) \in Nat /\ DOMAIN L = 1..Len(L) /\ u \in 1..Len(L) /\ IsUpsert(L, u, e)
  BY LogForm DEF Latest
<1>1. \A w \in 1..Len(L) : IsUpsert(L, w, e) => w <= u
  BY <1>0 DEF Latest
<1>2. PICK x \in u + 1..Len(L) : Ends(L[x], e)
  BY <1>0 DEF Alive
<1>3. x \in 1..Len(L) /\ u < x
  BY <1>0
<1>4. x <= j
  <2>1. ~(x \in j + 1..Len(L))
    BY <1>2 DEF Updates
  <2> QED BY <1>0, <1>3, <2>1
<1>5. ASSUME NEW n \in 1..Len(L), Alive(L, e, n) PROVE n < x
  <2>1. PICK w \in 1..n : IsUpsert(L, w, e) /\ \A y \in w + 1..n : ~Ends(L[y], e)
    BY <1>5 DEF Alive
  <2>2. w <= u
    BY <1>0, <1>1, <2>1
  <2>3. ~(x \in w + 1..n)
    BY <1>2, <2>1
  <2> QED BY <1>0, <1>3, <2>1, <2>2, <2>3
<1>6. Ends(L[j], e)
  <2>1. ~Alive(L, e, j)
    BY <1>0, <1>3, <1>4, <1>5
  <2> QED BY <2>1 DEF Updates
<1>7. c \in 1..Len(L) /\ Alive(L, e, c)
  <2>1. c \in 1..Len(L) /\ LiveAt(L, e, c)
    BY <1>0 DEF Sampled, JudgedAfterSampled
  <2>2. c \in 0..Len(L)
    BY <1>0, <2>1
  <2> QED BY <2>1, <2>2, LiveAtIs
<1>8. c < j
  <2>1. c < x
    BY <1>5, <1>7
  <2> QED BY <1>0, <1>3, <1>4, <1>7, <2>1
<1>9. j \in Kept(L)
  <2>1. CASE L[j].op = "expire" /\ L[j].id = e
    <3>1. j \in AuditExpires(L, e)
      BY <1>0, <1>8, <2>1 DEF AuditExpires
    <3> QED BY <3>1 DEF Kept, OfEntries
  <2>2. CASE L[j].op = "verdicts"
    BY <1>0, <2>2, KeepsHistory DEF HistoryOps
  <2> QED BY <1>6, <2>1, <2>2 DEF Ends
<1>10. \A w \in 1..Len(L) : IsUpsert(L, w, e) => w <= j
  BY <1>0, <1>1, <1>3, <1>4
<1> QED BY <1>6, <1>9, <1>10

LEMMA SameEndTime ==
    ASSUME NEW L, NEW C, NEW pos, Recast(L, C, pos), NEW e \in Entries, ~Alive(L, e, Len(L)),
           NEW c \in Sampled(L, e), NEW u, Latest(L, u, e, Len(L)),
           NEW r, UpdatedAs(r, L, e, Len(L)), NEW q, UpdatedAs(q, C, e, Len(C))
    PROVE  r.updated = q.updated
<1>0. /\ IsLog(L) /\ IsLog(C) /\ JudgedAfterSampled(L)
      /\ Len(L) \in Nat /\ Len(C) \in Nat
  BY RecastForm
<1>1. PICK j \in 1..Len(L) : /\ Updates(L, j, e) /\ r.updated = L[j].ts
                             /\ \A i \in j + 1..Len(L) : ~Updates(L, i, e)
  BY DEF UpdatedAs
<1>2. Ends(L[j], e) /\ j \in Kept(L) /\ \A w \in 1..Len(L) : IsUpsert(L, w, e) => w <= j
  BY <1>0, <1>1, EndIsKept
<1>3. C[pos[j]] = L[j]
  BY <1>2, StaysIn
<1>4. Updates(C, pos[j], e)
  BY <1>2, <1>3 DEF Updates
<1>5. ASSUME NEW i \in Kept(L), Updates(C, pos[i], e) PROVE i <= j
  <2>1. i \in 1..Len(L) /\ C[pos[i]] = L[i]
    BY StaysIn
  <2>2. CASE Ends(L[i], e)
    <3>1. Updates(L, i, e)
      BY <2>2 DEF Updates
    <3> QED BY <1>0, <1>1, <2>1, <3>1
  <2>3. CASE IsUpsert(L, i, e)
    BY <1>2, <2>1, <2>3
  <2>4. CASE L[i].op \in EvidenceOps /\ L[i].id = e
    <3>1. i \in KeptEvidence(L)
      BY <1>0, <2>4, EvidenceIsKept
    <3>2. LiveAt(L, e, Len(L))
      BY <2>4, <3>1 DEF KeptEvidence
    <3>3. Len(L) \in 0..Len(L)
      BY <1>0
    <3>4. Alive(L, e, Len(L))
      BY <1>0, <3>2, <3>3, LiveAtIs
    <3> QED BY <3>4
  <2> QED BY <1>5, <2>1, <2>2, <2>3, <2>4 DEF Updates, Dates, DatingOps, EvidenceOps, IsUpsert
<1>6. \A i \in Kept(L) : Updates(C, pos[i], e) => i <= j
  BY <1>5
<1> QED BY <1>1, <1>2, <1>4, <1>6, LastUpdateIs

LEMMA SameStaleRow ==
    ASSUME NEW L, NEW C, NEW pos, Recast(L, C, pos), NEW e \in Entries, ~Alive(L, e, Len(L)),
           NEW c \in Sampled(L, e),
           NEW r, RowTold(r, L, e, Len(L)), NEW q, RowTold(q, C, e, Len(C))
    PROVE  r = q
<1>0. /\ IsLog(L) /\ IsLog(C) /\ JudgedAfterSampled(L)
      /\ Len(L) \in Nat /\ Len(C) \in Nat /\ DOMAIN L = 1..Len(L)
  BY RecastForm
<1>1. ~NoUpsert(L, e, Len(L))
  <2>1. c \in 1..Len(L) /\ LiveAt(L, e, c)
    BY <1>0 DEF Sampled, JudgedAfterSampled
  <2>2. c \in 0..Len(L)
    BY <1>0, <2>1
  <2>3. Alive(L, e, c)
    BY <1>0, <2>1, <2>2, LiveAtIs
  <2> QED BY <1>0, <2>1, <2>3 DEF Alive, NoUpsert
<1>2. PICK u : Latest(L, u, e, Len(L)) /\ RowFrom(r, L, u, e, Len(L))
  BY <1>1 DEF RowTold
<1>3. u \in Kept(L) /\ Latest(C, pos[u], e, Len(C))
  BY <1>2, SampledRowKept
<1>4. PICK w : Latest(C, w, e, Len(C)) /\ RowFrom(q, C, w, e, Len(C))
  BY <1>3 DEF RowTold, NoUpsert, Latest
<1>5. w = pos[u]
  BY <1>0, <1>3, <1>4, LatestIsOne
<1>6. C[w] = L[u]
  BY <1>3, <1>5, StaysIn
<1>7. r.updated = q.updated
  <2>1. UpdatedAs(r, L, e, Len(L)) /\ UpdatedAs(q, C, e, Len(C))
    BY <1>2, <1>4 DEF RowFrom
  <2> QED BY <1>2, <2>1, SameEndTime
<1>8. MadeOf(r, u, L, q, w, C, e)
  BY <1>2, <1>4, <1>6, <1>7 DEF MadeOf
<1> QED BY <1>8, SameFrom


-----------------------------------------------------------------------------
(* What a compaction does not change of what the database shows.           *)

Shown(d, e) ==
    IF d.entries[e].live \/ \E x \in d.candidates : x[2] = e THEN d.entries[e] ELSE Absent

LEMMA SameShown ==
    ASSUME NEW L, NEW C, NEW pos, Recast(L, C, pos), NEW a, Pictured(a, L, Len(L)),
           NEW c, Pictured(c, C, Len(C)), a.candidates = c.candidates, NEW e \in Entries
    PROVE  Shown(a, e) = Shown(c, e)
<1>0. /\ RowTold(a.entries[e], L, e, Len(L)) /\ RowTold(c.entries[e], C, e, Len(C))
      /\ a.entries[e].live <=> Alive(L, e, Len(L))
      /\ c.entries[e].live <=> Alive(C, e, Len(C))
  BY DEF Pictured, Pictures, RowsSaid, Says, LiveIn
<1>1. a.entries[e].live <=> c.entries[e].live
  BY <1>0, SameLife
<1>2. CASE Alive(L, e, Len(L))
  <2>1. a.entries[e] = c.entries[e]
    BY <1>0, <1>2, SameLiveRow
  <2> QED BY <1>0, <1>1, <1>2, <2>1 DEF Shown
<1>3. CASE ~Alive(L, e, Len(L)) /\ \E x \in a.candidates : x[2] = e
  <2>1. \E i \in 1..Len(L) : L[i].op = "candidates" /\ e \in DOMAIN L[i].arms
    BY <1>3 DEF Pictured, Tells, Remembers, CandidateRows
  <2>2. PICK i : i \in Sampled(L, e)
    BY <2>1, RecastForm DEF Sampled
  <2>3. a.entries[e] = c.entries[e]
    BY <1>0, <1>3, <2>2, SameStaleRow
  <2> QED BY <1>3, <2>3 DEF Shown
<1>4. CASE ~Alive(L, e, Len(L)) /\ ~\E x \in a.candidates : x[2] = e
  BY <1>0, <1>1, <1>4 DEF Shown
<1> QED BY <1>2, <1>3, <1>4

(* All the columns that clients can see. *)
Sight(d, rows) ==
    [entries |-> rows, evidence |-> d.evidence, candidates |-> d.candidates,
     verdicts |-> d.verdicts, weights |-> d.weights, tests |-> d.tests,
     runs |-> d.runs, emb |-> {}, failed |-> d.failed]

LEMMA ViewIs ==
    ASSUME NEW d, AllTables(d)
    PROVE  View(d) = Sight(d, [e \in Entries |-> Shown(d, e)])
<1> DEFINE rows == [e \in Entries |-> Shown(d, e)]
           bare == [d EXCEPT !.emb = {}]
<1>1. View(d) = [bare EXCEPT !.entries = rows]
  BY DEF View, Shown
<1> HIDE DEF rows
<1>2. bare = Sight(d, d.entries)
  BY DEF AllTables, Sight
<1>3. [bare EXCEPT !.entries = rows] = Sight(d, rows)
  <2> HIDE DEF bare
  <2> QED BY <1>2 DEF Sight
<1> QED BY <1>1, <1>3 DEF rows

LEMMA SameViews ==
    ASSUME NEW L, NEW C, NEW pos, Recast(L, C, pos), NEW a, Pictured(a, L, Len(L)),
           NEW c, Pictured(c, C, Len(C))
    PROVE  View(a) = View(c)
<1>1. AllTables(a) /\ AllTables(c) /\ a.failed = FALSE /\ c.failed = FALSE
  BY DEF Pictured, Tells, Shape, AllTables
<1>2. Tells(a, L, Len(L)) /\ Tells(c, C, Len(C))
  BY DEF Pictured
<1>3. /\ a.runs = c.runs /\ a.candidates = c.candidates /\ a.verdicts = c.verdicts
      /\ a.weights = c.weights
  BY <1>2, SameRecall
<1>4. a.evidence = c.evidence
  BY SameEvidence
<1>5. a.tests = c.tests
  <2>1. TestsSaid(a, L, Len(L)) /\ TestsSaid(c, C, Len(C))
    BY DEF Pictured, Pictures
  <2>2. ASSUME NEW t \in Tests PROVE a.tests[t] = c.tests[t]
    <3>1. TestSaid(a.tests[t], L, t, Len(L)) /\ TestSaid(c.tests[t], C, t, Len(C))
      BY <2>1 DEF TestsSaid
    <3> QED BY <3>1, SameTests
  <2>3. /\ a.tests = [t \in Tests |-> a.tests[t]]
        /\ c.tests = [t \in Tests |-> c.tests[t]]
    BY <2>1 DEF TestsSaid
  <2> QED BY <2>2, <2>3
<1>6. \A e \in Entries : Shown(a, e) = Shown(c, e)
  BY <1>3, SameShown
<1>7. [e \in Entries |-> Shown(a, e)] = [e \in Entries |-> Shown(c, e)]
  BY <1>6
<1>8. /\ View(a) = Sight(a, [e \in Entries |-> Shown(a, e)])
      /\ View(c) = Sight(c, [e \in Entries |-> Shown(c, e)])
  BY <1>1, ViewIs
<1>9. \A x : Sight(a, x) = Sight(c, x)
  BY <1>1, <1>3, <1>4, <1>5 DEF Sight
<1> QED BY <1>7, <1>8, <1>9

(* A rebuild of a log whose runs are all of defined tests pictures it. *)
LEMMA RebuildPictures ==
    ASSUME NEW L, SoundLog(L), RunsAreDefined(L)
    PROVE  Pictured(Materialize(L, TRUE), L, Len(L))
<1>1. Pictured(Empty, L, 0) /\ 0 \in 0..Len(L)
  BY LogForm, EmptyPictured DEF SoundLog
<1> DEFINE c == Materialize(L, TRUE)
           counts == FALSE
           embeds == TRUE
<1>2. c = Replay(Empty, L, 0, counts, embeds)
  BY DEF Materialize
<1> HIDE DEF c, counts, embeds
<1>3. Follows(c, L, Len(L))
  BY <1>1, <1>2, ReplayFollows
<1>4. Pictured(c, L, Len(L))
  BY <1>3 DEF Follows
<1> QED BY <1>4 DEF c

(* After a compaction has made the cursor void, the database still shows the log. *)
LEMMA VoidShows ==
    ASSUME BuiltInv, applied = Void, RunsAreDefined(log)
    PROVE  AgreesWithLog
<1>1. PICK L : Origin(L, db, log, writes)
  BY DEF BuiltInv
<1>2. SoundLog(L) /\ IsLog(L) /\ Built(db, L, Len(L)) /\ ~db.failed
  BY <1>1, GoodIsSound DEF Origin, SoundLog
<1>3. SoundLog(log)
  BY OrderForm, GoodIsSound DEF BuiltInv
<1>4. Materialized = log
  BY DEF Materialized
<1>5. Len(L) \in Nat /\ Len(L) \in 0..Len(L)
  BY <1>2, LogForm
<1>6. Pictured(db, L, Len(L))
  BY <1>2, <1>5, BuiltPictured
<1>7. Pictured(Materialize(log, TRUE), log, Len(log))
  BY <1>3, RebuildPictures
<1>8. CASE log = L
  <2>1. Alike(db, Materialize(SubSeq(L, 1, Len(L)), TRUE))
    BY <1>2, <1>5, BuiltIs
  <2>2. SubSeq(L, 1, Len(L)) = L
    BY <1>2 DEF IsLog
  <2> QED BY <1>4, <1>8, <2>1, <2>2, AlikeViews DEF AgreesWithLog
<1>9. CASE log = Compacted(L)
  <2>1. PICK pos : Rewrites(log, L, Kept(L), pos)
    BY <1>2, <1>9, CompactedIs
  <2>2. Recast(L, log, pos)
    BY <1>2, <1>3, <2>1 DEF Recast
  <2> DEFINE c == Materialize(log, TRUE)
  <2>3. Pictured(c, log, Len(log))
    BY <1>7
  <2> HIDE DEF c
  <2>4. View(db) = View(c)
    BY <1>6, <2>2, <2>3, SameViews
  <2> QED BY <1>4, <2>4 DEF c, AgreesWithLog
<1> QED BY <1>1, <1>8, <1>9 DEF Origin

(* The database shows what a rebuild would show of its part of the log, whether its events
   were written through, replayed from a cursor or rebuilt, by processes with or without
   an embedder; and of all of the log if the cursor is void, after a compaction that
   rewrote the log and not the tables (compact.rs: D5.2, "materialization-preserving").
   Behind a void cursor that takes a log whose runs are all of tests defined before
   them: of another one the rebuild fails, and there is nothing to agree with. *)
THEOREM DatabaseAgrees == KbSpec => [](applied # Void \/ RunsAreDefined(log) => AgreesWithLog)
<1>1. KbInit => BuiltInv
  BY BuiltInit
<1>2. BuiltInv /\ [KbNext]_kbVars => BuiltInv'
  BY BuiltStep
<1>3. BuiltInv => (applied # Void \/ RunsAreDefined(log) => AgreesWithLog)
  BY BuiltShows, VoidShows
<1> QED BY <1>1, <1>2, <1>3, PTL DEF KbSpec


-----------------------------------------------------------------------------
(* What leaves a run without its test.                                     *)

(* A run is appended of a test that the database does not know (`kb run`). *)
RunsUnknown ==
    \E i \in Len(log) + 1..Len(log') : log'[i].op = "run" /\ db.tests[log'[i].id] = 0

(* A test is defined twice: a compaction keeps the second definition. *)
Redefined(L) ==
    \E i, j \in DOMAIN L :
        i < j /\ L[i].op = "test" /\ L[j].op = "test" /\ L[i].id = L[j].id

LEMMA WriteDefines ==
    ASSUME BuiltInv, RunsAreDefined(log), NEW B, Written(B, db, writes + 1),
           NEW embeds, WriteAs(B, embeds), ~RunsUnknown
    PROVE  RunsAreDefined(log')
<1> DEFINE L == log \o B
           n == Len(log)
<1>1. IsLog(B) /\ IsLog(log) /\ n \in Nat /\ applied = n /\ applied # Void
  BY OrderForm DEF Written, BuiltInv, WriteAs, Converged, Void
<1>2. log' = L
  BY DEF WriteAs
<1>3. IsLog(L) /\ Len(L) = n + Len(B) /\ Len(B) \in Nat /\ \A i \in 1..n : L[i] = log[i]
  BY <1>1, LogGrows, TailOf
<1>4. DOMAIN L = 1..Len(L) /\ DOMAIN log = 1..n /\ \A i \in 1..Len(L) : IsEvent(L[i])
  BY <1>1, <1>3, LogForm
<1> HIDE DEF L
<1>5. Pictured(db, log, n)
  <2>1. SoundLog(log)
    BY OrderForm, GoodIsSound DEF BuiltInv
  <2>2. applied \in 0..n /\ Tells(db, log, applied) /\ Built(db, log, applied)
    BY <1>1, OrderForm DEF BuiltInv
  <2>3. n \in 0..n /\ ~db.failed /\ Built(db, log, n)
    BY <1>1, <2>2 DEF Tells
  <2> HIDE DEF n
  <2> QED BY <2>1, <2>3, BuiltPictured DEF n
<1>6. ASSUME NEW i \in 1..Len(L), L[i].op = "run"
      PROVE  \E j \in 1..i - 1 : L[j].op = "test" /\ L[j].id = L[i].id
  <2>1. CASE i \in 1..n
    <3>1. PICK j \in 1..i - 1 : log[j].op = "test" /\ log[j].id = log[i].id
      BY <1>3, <1>4, <1>6, <2>1 DEF RunsAreDefined
    <3>2. j \in 1..n
      BY <1>1, <2>1
    <3> QED BY <1>3, <2>1, <3>1, <3>2
  <2>2. CASE i \in n + 1..Len(L)
    <3>1. L[i].id \in Tests
      BY <1>4, <1>6 DEF IsEvent, EvidenceOps
    <3>2. db.tests[L[i].id] # 0
      BY <1>2, <1>6, <2>2 DEF RunsUnknown
    <3>3. TestSaid(db.tests[L[i].id], log, L[i].id, n)
      BY <1>5, <3>1 DEF Pictured, Pictures, TestsSaid
    <3>4. PICK j \in 1..n : Defines(log[j], L[i].id)
      BY <3>2, <3>3 DEF TestSaid
    <3>5. j \in 1..i - 1
      BY <1>1, <2>2
    <3> QED BY <1>3, <3>4, <3>5 DEF Defines
  <2> QED BY <1>1, <1>3, <1>6, <2>1, <2>2
<1> QED BY <1>2, <1>4, <1>6 DEF RunsAreDefined

LEMMA CompactDefines ==
    ASSUME NEW L, IsLog(L), RunsAreDefined(L), ~Redefined(L)
    PROVE  RunsAreDefined(Compacted(L))
<1> DEFINE C == Compacted(L)
<1>1. IsLog(C)
  BY CompactedIs
<1>2. PICK pos : Rewrites(C, L, Kept(L), pos)
  BY CompactedIs
<1> HIDE DEF C
<1>3. /\ Len(L) \in Nat /\ DOMAIN L = 1..Len(L) /\ Len(C) \in Nat /\ DOMAIN C = 1..Len(C)
  BY <1>1, LogForm
<1>4. ASSUME NEW m \in 1..Len(C), C[m].op = "run"
      PROVE  \E j \in 1..m - 1 : C[j].op = "test" /\ C[j].id = C[m].id
  <2>1. PICK i \in Kept(L) : pos[i] = m /\ C[m] = L[i] /\ i \in 1..Len(L)
    BY <1>2 DEF Rewrites
  <2>2. PICK j \in 1..i - 1 : L[j].op = "test" /\ L[j].id = L[i].id
    BY <1>3, <1>4, <2>1 DEF RunsAreDefined
  <2>3. j \in 1..Len(L) /\ j < i
    BY <1>3, <2>1, <2>2
  <2>4. \A k \in j + 1..Len(L) : ~(L[k].op = "test" /\ L[k].id = L[j].id)
    BY <1>3, <2>2, <2>3 DEF Redefined
  <2>5. j \in Kept(L)
    BY <1>3, <2>2, <2>3, <2>4 DEF Kept, LastTests
  <2>6. pos[j] \in 1..Len(C) /\ C[pos[j]] = L[j]
    BY <1>2, <2>5 DEF Rewrites
  <2>7. pos[j] < pos[i]
    BY <1>2, <1>4, <2>1, <2>2, <2>3, <2>5 DEF Rewrites, EvidenceOps
  <2>8. pos[j] \in 1..m - 1
    BY <1>3, <2>1, <2>6, <2>7
  <2> QED BY <2>1, <2>2, <2>6, <2>8
<1>5. RunsAreDefined(C)
  BY <1>3, <1>4 DEF RunsAreDefined
<1> QED BY <1>5 DEF C

LEMMA DefinedStays ==
    ASSUME BuiltInv, [KbNext]_kbVars, RunsAreDefined(log), ~Redefined(log), ~RunsUnknown
    PROVE  RunsAreDefined(log')
<1>1. HistoryInv /\ IsLog(log)
  BY OrderForm DEF BuiltInv, OrderInv, RowsInv, EvidenceInv
<1>2. \/ \E B : Written(B, db, writes + 1) /\ \E embeds : WriteAs(B, embeds)
      \/ CatchUp \/ Compact \/ Rebuild \/ Reembed \/ UNCHANGED vars
  BY <1>1, KbStep
<1>3. ASSUME NEW B, Written(B, db, writes + 1), NEW embeds, WriteAs(B, embeds)
      PROVE  RunsAreDefined(log')
  BY <1>3, WriteDefines
<1>4. CASE Compact
  <2>1. log' = log \/ log' = Compacted(log)
    BY <1>4 DEF Compact
  <2>2. RunsAreDefined(Compacted(log))
    BY <1>1, CompactDefines
  <2> QED BY <2>1, <2>2
<1>5. CASE CatchUp \/ Rebuild
  <2>1. log' = log
    BY <1>5 DEF CatchUp, Rebuild
  <2> QED BY <2>1
<1>6. CASE Reembed \/ UNCHANGED vars
  <2>1. log' = log
    BY <1>6, ReembedBuilds
  <2> QED BY <2>1
<1> QED BY <1>2, <1>3, <1>4, <1>5, <1>6

(* As long as nobody runs a test that the database does not know (`kb run` does not ask)
   and the log never holds two definitions of one test, every replay succeeds and the
   database shows what a rebuild would show. A replay that fails takes one of the two:
   no interleaving of writers, replays, rebuilds and compactions is a third way. *)
THEOREM ReplayableStays ==
    KbSpec /\ RunsAreDefined(log) /\ []~Redefined(log) /\ [][~RunsUnknown]_kbVars
        => [](ReplayNeverFails /\ AgreesWithLog)
<1>1. KbInit => BuiltInv
  BY BuiltInit
<1>2. BuiltInv /\ [KbNext]_kbVars => BuiltInv'
  BY BuiltStep
<1>3. BuiltInv /\ RunsAreDefined(log) => ReplayNeverFails /\ AgreesWithLog
  BY DefinedReplays, BuiltShows, VoidShows
<1>4. BuiltInv /\ RunsAreDefined(log) /\ ~Redefined(log) /\ [KbNext]_kbVars /\ [~RunsUnknown]_kbVars
          => RunsAreDefined(log)'
  <2>1. SUFFICES ASSUME BuiltInv, RunsAreDefined(log), ~Redefined(log),
                        [KbNext]_kbVars, [~RunsUnknown]_kbVars
                 PROVE  RunsAreDefined(log')
    OBVIOUS
  <2>2. CASE ~RunsUnknown
    BY <2>1, <2>2, DefinedStays
  <2>3. CASE UNCHANGED kbVars
    <3>1. log' = log
      BY <2>3 DEF kbVars, vars
    <3> QED BY <2>1, <3>1
  <2> QED BY <2>1, <2>2, <2>3
<1> QED BY <1>1, <1>2, <1>3, <1>4, PTL DEF KbSpec

=============================================================================
