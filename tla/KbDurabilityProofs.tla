------------------------- MODULE KbDurabilityProofs -------------------------
(***************************************************************************)
(* Facts about the data of KbStore: what the operators on logs, rows and   *)
(* cursors return.  Then theorems of KbDurability: the type invariant,     *)
(* mutual exclusion under the repository lock, and that what a command     *)
(* reported as done survives.  All of it for every value of the constants. *)
(***************************************************************************)
EXTENDS KbDurability, SequenceTheorems, FiniteSetTheorems, NaturalsInduction,
        WellFoundedInduction, TLAPS

(* A nonempty set of positions has a last one. *)
LEMMA LastExists ==
    ASSUME NEW n \in Nat, NEW S \in SUBSET (1 .. n), S # {}
    PROVE  \E i \in S : IsLast(S, i)
<1> DEFINE T == {n - i : i \in S}
<1>1. T \subseteq Nat /\ T # {}
  <2>1. \A i \in S : n - i \in Nat
    OBVIOUS
  <2>2. PICK i \in S : TRUE
    OBVIOUS
  <2>3. n - i \in T
    OBVIOUS
  <2> QED BY <2>1, <2>3
<1>2. PICK x \in T : \A y \in T : ~(<<y, x>> \in OpToRel(<, Nat))
  BY <1>1, NatLessThanWellFounded, WFMin
<1>3. PICK i \in S : x = n - i
  OBVIOUS
<1>4. \A j \in S : j <= i
  <2> SUFFICES ASSUME NEW j \in S, ~(j <= i) PROVE FALSE
    OBVIOUS
  <2>1. n - j \in T /\ n - j < x
    BY <1>3
  <2>2. <<n - j, x>> \in OpToRel(<, Nat)
    BY <2>1, <1>1 DEF OpToRel
  <2> QED BY <1>2, <2>1, <2>2
<1> QED BY <1>4 DEF IsLast

(* Prefixes and suffixes of a log are logs. *)
LEMMA SubLog ==
    ASSUME NEW s \in Seq(Event), NEW m \in Int, NEW n \in Int, 1 <= m, n <= Len(s)
    PROVE  SubSeq(s, m, n) \in Seq(Event)
<1>1. \A i \in m .. n : s[i] \in Event
  BY LenProperties, ElementOfSeq
<1> QED BY <1>1, SubSeqProperties

(* Materializing events over rows gives rows. *)
LEMMA ApplyAllType ==
    ASSUME NEW rows \in Rows, NEW s \in Seq(Event), NEW skip
    PROVE  ApplyAll(rows, s, skip) \in Rows
<1> SUFFICES ASSUME NEW k \in Keys
             PROVE  ApplyAll(rows, s, skip)[k] \in Nat \cup {Stale}
  BY DEF ApplyAll, Rows
<1> DEFINE touching == Touching(s, k, skip)
           i == CHOOSE i \in touching : IsLast(touching, i)
<1>1. touching \in SUBSET (1 .. Len(s))
  BY LenProperties DEF Touching
<1>2. touching # {} => i \in touching
  BY <1>1, LastExists, LenProperties
<1>3. touching # {} => s[i].id \in Nat
  <2> HAVE touching # {}
  <2>1. i \in 1 .. Len(s)
    BY <1>1, <1>2
  <2>2. s[i] \in Event
    BY <2>1, ElementOfSeq
  <2> QED BY <2>2 DEF Event
<1>4. rows[k] \in Nat \cup {Stale}
  BY DEF Rows
<1> QED BY <1>3, <1>4 DEF ApplyAll, NoRow

LEMMA MaterializeType ==
    ASSUME NEW s \in Seq(Event), NEW skip
    PROVE  Materialize(s, skip) \in Rows
<1>1. EmptyRows \in Rows
  BY DEF EmptyRows, Rows, NoRow
<1> QED BY <1>1, ApplyAllType DEF Materialize

(* A cursor at a position within a log is a cursor. *)
LEMMA CursorAtType ==
    ASSUME NEW g \in Nat, NEW s \in Seq(Event), NEW n \in 0 .. Len(s)
    PROVE  CursorAt(g, s, n) \in Cursor
<1> DEFINE w == IF n <= Window THEN n ELSE Window
           first == SubSeq(s, 1, w)
           last == SubSeq(s, n - w + 1, n)
<1>1. w \in Nat /\ w <= n
  BY StoreAssumption
<1>2. Len(s) \in Nat
  BY LenProperties
<1>3. first \in Seq(Event) /\ last \in Seq(Event)
  BY <1>1, <1>2, SubLog
<1>4. TailSha(s, n) = <<n, first, last>>
  BY DEF TailSha
<1>5. n \in Nat
  BY <1>2
<1> HIDE DEF first, last
<1>6. TailSha(s, n) \in Nat \X Seq(Event) \X Seq(Event)
  BY <1>3, <1>4, <1>5
<1> QED BY <1>5, <1>6 DEF CursorAt, Cursor

(* A new database is a database, and so is what open_rw returns. *)
LEMMA FreshDbType == FreshDb \in Database /\ NoDb \in Database
<1>1. CursorAt(0, <<>>, 0) \in Cursor
  <2>1. <<>> \in Seq(Event) /\ 0 \in 0 .. Len(<<>>)
    BY EmptySeq
  <2> QED BY <2>1, CursorAtType
<1> QED BY <1>1 DEF FreshDb, NoDb, Database, EmptyRows, Rows, NoRow

LEMMA OpenRwType ==
    ASSUME NEW d \in Database
    PROVE  OpenRw(d) \in Database
BY FreshDbType DEF OpenRw

(* A compacted log is a log. *)
LEMMA CompactedType ==
    ASSUME NEW s \in Seq(Event), NEW t \in Compacted(s)
    PROVE  t \in Seq(Event)
<1> DEFINE K == Retained(s)
<1>1. K \in SUBSET (1 .. Len(s))
  BY LenProperties DEF Retained
<1>2. Cardinality(K) \in Nat
  <2>1. IsFiniteSet(1 .. Len(s))
    BY LenProperties, FS_Interval
  <2>2. IsFiniteSet(K)
    BY <1>1, <2>1, FS_Subset
  <2> QED BY <2>2, FS_CardinalityType
<1>3. PICK f \in InOrder(K) : t = [n \in DOMAIN f |-> s[f[n]]]
  BY DEF Compacted
<1>4. f \in [1 .. Cardinality(K) -> K]
  BY DEF InOrder
<1>5. \A n \in 1 .. Cardinality(K) : s[f[n]] \in Event
  BY <1>1, <1>4, ElementOfSeq
<1>6. t \in [1 .. Cardinality(K) -> Event]
  BY <1>3, <1>4, <1>5
<1> QED BY <1>2, <1>6

-----------------------------------------------------------------------------
(* Positions of a log.                                                     *)

(* A nonempty set of naturals has a least element.                         *)
LEMMA LeastExists ==
    ASSUME NEW S \in SUBSET Nat, S # {}
    PROVE  \E x \in S : \A y \in S : x <= y
<1>1. PICK x \in S : \A y \in S : ~(<<y, x>> \in OpToRel(<, Nat))
  BY NatLessThanWellFounded, WFMin
<1>2. \A y \in S : x <= y
  <2> SUFFICES ASSUME NEW y \in S, ~(x <= y) PROVE FALSE
    OBVIOUS
  <2>1. y < x /\ y \in Nat /\ x \in Nat
    OBVIOUS
  <2>2. <<y, x>> \in OpToRel(<, Nat)
    BY <2>1 DEF OpToRel
  <2> QED BY <1>1, <2>2
<1> QED BY <1>2

(* The last position of an entry is the one CHOOSE finds. *)
LEMMA LastIsChosen ==
    ASSUME NEW S \in SUBSET Int, NEW i, IsLast(S, i)
    PROVE  (CHOOSE j \in S : IsLast(S, j)) = i
<1>1. \A j : IsLast(S, j) => j = i
  BY DEF IsLast
<1>2. i \in S
  BY DEF IsLast
<1> QED BY <1>1, <1>2

(* Where an entry is touched, there is a last event about it.              *)
LEMMA LastTouching ==
    ASSUME NEW s \in Seq(Event), NEW k, NEW skip, Touching(s, k, skip) # {}
    PROVE  \E i \in Touching(s, k, skip) : IsLast(Touching(s, k, skip), i)
<1>1. Touching(s, k, skip) \in SUBSET (1 .. Len(s))
  BY LenProperties DEF Touching
<1> QED BY <1>1, LastExists, LenProperties

-----------------------------------------------------------------------------
(* What the rows of an entry are after a log was applied.                  *)

(* An untouched row stays. *)
LEMMA ApplyNone ==
    ASSUME NEW rows, NEW s, NEW skip, NEW k \in Keys, Touching(s, k, skip) = {}
    PROVE  ApplyAll(rows, s, skip)[k] = rows[k]
BY DEF ApplyAll

(* The last event about an entry decides: the row is its id, or stale once *)
(* there was one.                                                          *)
LEMMA ApplyLast ==
    ASSUME NEW rows, NEW s \in Seq(Event), NEW skip, NEW k \in Keys,
           NEW i, IsLast(Touching(s, k, skip), i)
    PROVE  ApplyAll(rows, s, skip)[k] =
             IF s[i].op = "upsert" THEN s[i].id
             ELSE IF rows[k] # NoRow \/ \E j \in Touching(s, k, skip) : s[j].op = "upsert"
                  THEN Stale ELSE NoRow
<1>1. Touching(s, k, skip) \in SUBSET Int
  BY LenProperties DEF Touching
<1>2. (CHOOSE j \in Touching(s, k, skip) : IsLast(Touching(s, k, skip), j)) = i
  BY <1>1, LastIsChosen
<1>3. Touching(s, k, skip) # {}
  BY DEF IsLast
<1> DEFINE touching == Touching(s, k, skip)
           last == s[CHOOSE j \in touching : IsLast(touching, j)]
           row == IF touching = {} THEN rows[k]
                  ELSE IF last.op = "upsert" THEN last.id
                  ELSE IF rows[k] # NoRow \/ \E j \in touching : s[j].op = "upsert" THEN Stale
                  ELSE NoRow
<1>4. ApplyAll(rows, s, skip)[k] = row
  BY DEF ApplyAll
<1>5. last = s[i]
  BY <1>2
<1> QED BY <1>3, <1>4, <1>5

(* An event a touched position holds. *)
LEMMA TouchingEvent ==
    ASSUME NEW s \in Seq(Event), NEW k, NEW skip, NEW i \in Touching(s, k, skip)
    PROVE  /\ i \in 1 .. Len(s) /\ s[i].key = k /\ s[i].id \notin skip
           /\ s[i].id \in Nat \ {0} /\ s[i].op \in {"upsert", "expire"}
<1>1. i \in 1 .. Len(s) /\ s[i].key = k /\ s[i].id \notin skip
  BY LenProperties DEF Touching
<1>2. s[i] \in Event
  BY <1>1, ElementOfSeq
<1> QED BY <1>1, <1>2 DEF Event

(* There is a row once there was one, or an upsert wrote it. *)
LEMMA RowExists ==
    ASSUME NEW rows, NEW s \in Seq(Event), NEW skip, NEW k \in Keys
    PROVE  ApplyAll(rows, s, skip)[k] # NoRow
             <=> rows[k] # NoRow \/ \E j \in Touching(s, k, skip) : s[j].op = "upsert"
<1>1. CASE Touching(s, k, skip) = {}
  BY <1>1, ApplyNone
<1>2. CASE Touching(s, k, skip) # {}
  <2>1. PICK i \in Touching(s, k, skip) : IsLast(Touching(s, k, skip), i)
    BY <1>2, LastTouching
  <2>2. s[i].id \in Nat \ {0} /\ s[i].op \in {"upsert", "expire"}
    BY TouchingEvent
  <2>3. ApplyAll(rows, s, skip)[k] =
          IF s[i].op = "upsert" THEN s[i].id
          ELSE IF rows[k] # NoRow \/ \E j \in Touching(s, k, skip) : s[j].op = "upsert"
               THEN Stale ELSE NoRow
    BY <2>1, ApplyLast
  <2> QED BY <2>2, <2>3 DEF NoRow, Stale
<1> QED BY <1>1, <1>2

(* What a search sees of a touched entry. *)
LEMMA VisibleLast ==
    ASSUME NEW rows, NEW s \in Seq(Event), NEW skip, NEW k \in Keys,
           NEW i, IsLast(Touching(s, k, skip), i)
    PROVE  Visible(ApplyAll(rows, s, skip))[k] = IF s[i].op = "upsert" THEN s[i].id ELSE NoRow
<1>1. i \in Touching(s, k, skip)
  BY DEF IsLast
<1>2. s[i].id \in Nat
  BY <1>1, TouchingEvent
<1>3. s[i].id # Stale
  BY <1>2 DEF Stale
<1> DEFINE row == ApplyAll(rows, s, skip)[k]
<1>4. row = IF s[i].op = "upsert" THEN s[i].id
            ELSE IF rows[k] # NoRow \/ \E j \in Touching(s, k, skip) : s[j].op = "upsert"
                 THEN Stale ELSE NoRow
  BY ApplyLast
<1>5. Visible(ApplyAll(rows, s, skip))[k] = IF row = Stale THEN NoRow ELSE row
  BY DEF Visible
<1> QED BY <1>3, <1>4, <1>5 DEF NoRow, Stale

(* Rows that look the same look the same after the same events. *)
LEMMA LooksStay ==
    ASSUME NEW r1, NEW r2, Visible(r1) = Visible(r2), NEW s \in Seq(Event), NEW skip
    PROVE  Visible(ApplyAll(r1, s, skip)) = Visible(ApplyAll(r2, s, skip))
<1> SUFFICES ASSUME NEW k \in Keys
             PROVE  Visible(ApplyAll(r1, s, skip))[k] = Visible(ApplyAll(r2, s, skip))[k]
  BY DEF Visible
<1>1. CASE Touching(s, k, skip) = {}
  <2>1. ApplyAll(r1, s, skip)[k] = r1[k] /\ ApplyAll(r2, s, skip)[k] = r2[k]
    BY <1>1, ApplyNone
  <2>2. Visible(r1)[k] = Visible(r2)[k]
    OBVIOUS
  <2> QED BY <2>1, <2>2 DEF Visible
<1>2. CASE Touching(s, k, skip) # {}
  <2>1. PICK i \in Touching(s, k, skip) : IsLast(Touching(s, k, skip), i)
    BY <1>2, LastTouching
  <2> QED BY <2>1, VisibleLast
<1> QED BY <1>1, <1>2

(* The positions of an entry in a log with a batch appended, c skipping of *)
(* the log what a skips and of the batch what b skips.                     *)
Merges(s, a, t, b, c) ==
    /\ \A i \in DOMAIN s : s[i].id \in a <=> s[i].id \in c
    /\ \A i \in DOMAIN t : t[i].id \in b <=> t[i].id \in c

LEMMA TouchingConcat ==
    ASSUME NEW s \in Seq(Event), NEW t \in Seq(Event), NEW a, NEW b, NEW c,
           Merges(s, a, t, b, c), NEW k
    PROVE  /\ \A i \in Touching(s, k, a) :
                 i \in Touching(s \o t, k, c) /\ (s \o t)[i] = s[i]
           /\ \A i \in Touching(t, k, b) :
                 Len(s) + i \in Touching(s \o t, k, c) /\ (s \o t)[Len(s) + i] = t[i]
           /\ \A i \in Touching(s \o t, k, c) :
                 i \in Touching(s, k, a) \/ i - Len(s) \in Touching(t, k, b)
<1>1. /\ Len(s) \in Nat /\ DOMAIN s = 1 .. Len(s)
      /\ Len(t) \in Nat /\ DOMAIN t = 1 .. Len(t)
      /\ DOMAIN (s \o t) = 1 .. Len(s) + Len(t)
      /\ \A i \in 1 .. Len(s) : (s \o t)[i] = s[i]
      /\ \A i \in 1 .. Len(t) : (s \o t)[Len(s) + i] = t[i]
  BY LenProperties, ConcatProperties
<1>2. \A i \in Touching(s, k, a) :
         i \in Touching(s \o t, k, c) /\ (s \o t)[i] = s[i]
  BY <1>1 DEF Touching, Merges
<1>3. \A i \in Touching(t, k, b) :
         Len(s) + i \in Touching(s \o t, k, c) /\ (s \o t)[Len(s) + i] = t[i]
  BY <1>1 DEF Touching, Merges
<1>4. ASSUME NEW i \in Touching(s \o t, k, c)
      PROVE  i \in Touching(s, k, a) \/ i - Len(s) \in Touching(t, k, b)
  <2>1. i \in 1 .. Len(s) + Len(t) /\ (s \o t)[i].key = k /\ (s \o t)[i].id \notin c
    BY <1>1 DEF Touching
  <2>2. CASE i <= Len(s)
    BY <1>1, <2>1, <2>2 DEF Touching, Merges
  <2>3. CASE i > Len(s)
    <3>1. i - Len(s) \in 1 .. Len(t) /\ Len(s) + (i - Len(s)) = i
      BY <1>1, <2>1, <2>3
    <3> QED BY <1>1, <2>1, <3>1 DEF Touching, Merges
  <2> QED BY <1>1, <2>1, <2>2, <2>3
<1> QED BY <1>2, <1>3, <1>4

(* Applying a log and then a batch is applying both: materialization can   *)
(* be resumed at any event.                                                *)
LEMMA ConcatApply ==
    ASSUME NEW rows, NEW s \in Seq(Event), NEW t \in Seq(Event), NEW a, NEW b, NEW c,
           Merges(s, a, t, b, c)
    PROVE  ApplyAll(ApplyAll(rows, s, a), t, b) = ApplyAll(rows, s \o t, c)
<1> DEFINE mid == ApplyAll(rows, s, a)
<1> SUFFICES ASSUME NEW k \in Keys
             PROVE  ApplyAll(mid, t, b)[k] = ApplyAll(rows, s \o t, c)[k]
  BY DEF ApplyAll
<1> DEFINE S == Touching(s, k, a)
           T == Touching(t, k, b)
           U == Touching(s \o t, k, c)
<1>1. s \o t \in Seq(Event)
  BY ConcatProperties
<1>2. /\ \A i \in S : i \in U /\ (s \o t)[i] = s[i]
      /\ \A i \in T : Len(s) + i \in U /\ (s \o t)[Len(s) + i] = t[i]
      /\ \A i \in U : i \in S \/ i - Len(s) \in T
  BY TouchingConcat
<1>3. S \subseteq 1 .. Len(s) /\ T \subseteq 1 .. Len(t) /\ Len(s) \in Nat /\ Len(t) \in Nat
  BY LenProperties DEF Touching
<1>4. (\E j \in U : (s \o t)[j].op = "upsert")
        <=> (\E j \in S : s[j].op = "upsert") \/ (\E j \in T : t[j].op = "upsert")
  <2>1. \A j \in U : (s \o t)[j].op = "upsert" =>
           (\E i \in S : s[i].op = "upsert") \/ (\E i \in T : t[i].op = "upsert")
    <3> SUFFICES ASSUME NEW j \in U, (s \o t)[j].op = "upsert"
                 PROVE  (\E i \in S : s[i].op = "upsert") \/ (\E i \in T : t[i].op = "upsert")
      OBVIOUS
    <3>1. CASE j \in S
      BY <1>2, <3>1
    <3>2. CASE j - Len(s) \in T
      <4>1. j \in Int
        BY <1>1, LenProperties DEF Touching
      <4>2. Len(s) + (j - Len(s)) = j
        BY <1>3, <4>1
      <4>3. (s \o t)[Len(s) + (j - Len(s))] = t[j - Len(s)]
        BY <1>2, <3>2
      <4>4. t[j - Len(s)].op = "upsert"
        BY <4>2, <4>3
      <4> QED BY <3>2, <4>4
    <3> QED BY <1>2, <3>1, <3>2
  <2> QED BY <1>2, <2>1
<1>5. mid[k] # NoRow <=> rows[k] # NoRow \/ \E j \in S : s[j].op = "upsert"
  BY RowExists
<1>6. CASE T = {}
  <2>1. ApplyAll(mid, t, b)[k] = mid[k]
    BY <1>6, ApplyNone
  <2>2. CASE S = {}
    <3>1. U = {}
      BY <1>2, <1>6, <2>2
    <3> QED BY <1>1, <2>1, <2>2, <3>1, ApplyNone
  <2>3. CASE S # {}
    <3>1. PICK i \in S : IsLast(S, i)
      BY <2>3, LastTouching
    <3>2. U = S
      BY <1>2, <1>6
    <3>3. IsLast(U, i) /\ (s \o t)[i] = s[i]
      BY <1>2, <3>1, <3>2
    <3>4. mid[k] = IF s[i].op = "upsert" THEN s[i].id
                   ELSE IF rows[k] # NoRow \/ \E j \in S : s[j].op = "upsert"
                        THEN Stale ELSE NoRow
      BY <3>1, ApplyLast
    <3>5. ApplyAll(rows, s \o t, c)[k] =
            IF (s \o t)[i].op = "upsert" THEN (s \o t)[i].id
            ELSE IF rows[k] # NoRow \/ \E j \in U : (s \o t)[j].op = "upsert"
                 THEN Stale ELSE NoRow
      <4> DEFINE w == s \o t
      <4>1. w \in Seq(Event) /\ IsLast(Touching(w, k, c), i)
        BY <1>1, <3>3
      <4> HIDE DEF w
      <4>2. ApplyAll(rows, w, c)[k] =
              IF w[i].op = "upsert" THEN w[i].id
              ELSE IF rows[k] # NoRow \/ \E j \in Touching(w, k, c) : w[j].op = "upsert"
                   THEN Stale ELSE NoRow
        BY <4>1, ApplyLast
      <4> QED BY <4>2 DEF w
    <3> QED BY <1>4, <1>6, <2>1, <3>3, <3>4, <3>5
  <2> QED BY <2>2, <2>3
<1>7. CASE T # {}
  <2>1. PICK i \in T : IsLast(T, i)
    BY <1>7, LastTouching
  <2>2. IsLast(U, Len(s) + i)
    <3>1. \A j \in U : j <= Len(s) + i
      <4> SUFFICES ASSUME NEW j \in U PROVE j <= Len(s) + i
        OBVIOUS
      <4>1. CASE j \in S
        BY <1>3, <2>1, <4>1
      <4>2. CASE j - Len(s) \in T
        <5>1. j - Len(s) <= i
          BY <2>1, <4>2 DEF IsLast
        <5>2. j \in Int
          BY <1>1, LenProperties DEF Touching
        <5> QED BY <1>3, <5>1, <5>2
      <4> QED BY <1>2, <4>1, <4>2
    <3> QED BY <1>2, <3>1 DEF IsLast
  <2>3. ApplyAll(mid, t, b)[k] =
          IF t[i].op = "upsert" THEN t[i].id
          ELSE IF mid[k] # NoRow \/ \E j \in T : t[j].op = "upsert"
               THEN Stale ELSE NoRow
    BY <2>1, ApplyLast
  <2>4. ApplyAll(rows, s \o t, c)[k] =
          IF (s \o t)[Len(s) + i].op = "upsert" THEN (s \o t)[Len(s) + i].id
          ELSE IF rows[k] # NoRow \/ \E j \in U : (s \o t)[j].op = "upsert"
               THEN Stale ELSE NoRow
    BY <1>1, <2>2, ApplyLast
  <2>5. (s \o t)[Len(s) + i] = t[i]
    BY <1>2, <2>1
  <2> QED BY <1>4, <1>5, <2>3, <2>4, <2>5
<1> QED BY <1>6, <1>7

-----------------------------------------------------------------------------
(* The order of a log.                                                     *)

(* Events are numbered in the order they are written. *)
Increasing(s) == \A i, j \in DOMAIN s : i < j => s[i].id < s[j].id

LEMMA EventAt ==
    ASSUME NEW s \in Seq(Event), NEW i \in DOMAIN s
    PROVE  s[i] \in Event /\ s[i].id \in Nat /\ s[i].id # 0
<1>1. s[i] \in Event
  BY LenProperties, ElementOfSeq
<1> QED BY <1>1 DEF Event

(* Positions and ids are in the same order. *)
LEMMA InOrderOfIds ==
    ASSUME NEW s \in Seq(Event), Increasing(s), NEW i \in DOMAIN s, NEW j \in DOMAIN s
    PROVE  /\ i < j <=> s[i].id < s[j].id
           /\ i = j <=> s[i].id = s[j].id
<1>1. i \in Int /\ j \in Int
  BY LenProperties
<1>2. s[i].id \in Int /\ s[j].id \in Int
  BY EventAt
<1>3. (i < j => s[i].id < s[j].id) /\ (j < i => s[j].id < s[i].id)
  BY DEF Increasing
<1> QED BY <1>1, <1>2, <1>3

(* Every event of K that is no newer than L is in L: L may end earlier, and *)
(* K may lack what a compaction dropped.                                    *)
Within(K, L) ==
    \A i \in DOMAIN K : \A j \in DOMAIN L :
        K[i].id <= L[j].id => \E m \in DOMAIN L : L[m] = K[i]

(* A log whose last event stands at the same place in L begins L.          *)
Agrees(K, L) ==
    Len(K) \in 1 .. Len(L) /\ K[Len(K)] = L[Len(K)] => Prefix(L, Len(K)) = K

(* A strictly increasing enumeration of m positions.                       *)
Climbs(f, m) ==
    /\ f \in [1 .. m -> Nat \ {0}]
    /\ \A i, j \in 1 .. m : i < j => f[i] < f[j]

LEMMA ClimbsAhead ==
    ASSUME NEW m \in Nat, NEW f, Climbs(f, m)
    PROVE  \A i \in 1 .. m : f[i] >= i
<1> DEFINE B == {i \in 1 .. m : f[i] < i}
<1> SUFFICES ASSUME B # {} PROVE FALSE
  BY DEF Climbs
<1>1. PICK i \in B : \A j \in B : i <= j
  <2>1. B \in SUBSET Nat
    OBVIOUS
  <2> QED BY <2>1, LeastExists
<1>2. i \in 1 .. m /\ f[i] < i /\ f[i] \in Nat \ {0}
  BY <1>1 DEF Climbs
<1>3. i - 1 \in 1 .. m /\ f[i - 1] < f[i] /\ f[i - 1] \in Nat
  BY <1>2 DEF Climbs
<1>4. i - 1 \in B
  BY <1>2, <1>3
<1> QED BY <1>1, <1>2, <1>4

LEMMA ClimbsTo ==
    ASSUME NEW m \in Nat, NEW f, Climbs(f, m), m > 0 => f[m] = m
    PROVE  \A i \in 1 .. m : f[i] = i
<1> DEFINE B == {i \in 1 .. m : f[i] # i}
<1> SUFFICES ASSUME B # {} PROVE FALSE
  OBVIOUS
<1>1. PICK i \in B : IsLast(B, i)
  <2>1. B \in SUBSET (1 .. m)
    OBVIOUS
  <2> QED BY <2>1, LastExists
<1>2. i \in 1 .. m /\ f[i] # i /\ f[i] >= i /\ f[i] \in Nat
  BY <1>1, ClimbsAhead DEF Climbs
<1>3. i < m
  BY <1>2
<1>4. i + 1 \in 1 .. m /\ i + 1 \notin B
  BY <1>1, <1>2, <1>3 DEF IsLast
<1>5. f[i + 1] = i + 1 /\ f[i] < f[i + 1]
  BY <1>2, <1>4 DEF Climbs
<1> QED BY <1>2, <1>5

(* A log is the beginning of another that agrees with it event by event.   *)
LEMMA IsPrefix ==
    ASSUME NEW K \in Seq(Event), NEW L \in Seq(Event), Len(K) <= Len(L),
           \A i \in 1 .. Len(K) : L[i] = K[i]
    PROVE  Prefix(L, Len(K)) = K
<1>1. Len(K) \in Nat /\ Len(L) \in Nat
  BY LenProperties
<1>2. Prefix(L, Len(K)) = [i \in 1 .. Len(K) |-> K[i]]
  BY <1>1 DEF Prefix
<1> QED BY <1>2, LenProperties

(* What the beginning of a log holds. *)
LEMMA PrefixHolds ==
    ASSUME NEW L \in Seq(Event), NEW n \in 0 .. Len(L)
    PROVE  /\ Prefix(L, n) \in Seq(Event) /\ Len(Prefix(L, n)) = n
           /\ \A i \in 1 .. n : Prefix(L, n)[i] = L[i]
<1>1. Len(L) \in Nat
  BY LenProperties
<1>2. Prefix(L, n) \in Seq(Event)
  BY <1>1, SubLog DEF Prefix
<1>3. Prefix(L, n) = [i \in 1 .. n |-> L[i]]
  BY <1>1 DEF Prefix
<1> QED BY <1>1, <1>2, <1>3, LenProperties

(* A log all of whose events are in another runs through it upwards.       *)
LEMMA RunsThrough ==
    ASSUME NEW K \in Seq(Event), NEW L \in Seq(Event), Increasing(K), Increasing(L),
           \A i \in DOMAIN K : \E m \in DOMAIN L : L[m] = K[i]
    PROVE  \E f : /\ Climbs(f, Len(K))
                  /\ \A i \in 1 .. Len(K) : f[i] \in 1 .. Len(L) /\ L[f[i]] = K[i]
<1>0. /\ Len(K) \in Nat /\ DOMAIN K = 1 .. Len(K)
      /\ Len(L) \in Nat /\ DOMAIN L = 1 .. Len(L)
  BY LenProperties
<1> DEFINE f == [i \in 1 .. Len(K) |-> CHOOSE m \in 1 .. Len(L) : L[m] = K[i]]
<1>1. ASSUME NEW i \in 1 .. Len(K)
      PROVE  f[i] \in 1 .. Len(L) /\ L[f[i]] = K[i]
  BY <1>0
<1>2. f \in [1 .. Len(K) -> Nat \ {0}]
  BY <1>0, <1>1
<1> HIDE DEF f
<1>3. ASSUME NEW i \in 1 .. Len(K), NEW j \in 1 .. Len(K), i < j
      PROVE  f[i] < f[j]
  <2>1. K[i].id < K[j].id
    BY <1>0, <1>3 DEF Increasing
  <2>2. L[f[i]].id < L[f[j]].id
    BY <1>1, <2>1
  <2>3. f[i] \in DOMAIN L /\ f[j] \in DOMAIN L
    BY <1>0, <1>1
  <2> QED BY <2>2, <2>3, InOrderOfIds
<1> QED BY <1>1, <1>2, <1>3 DEF Climbs

(* The fingerprint of a log identifies it: of two logs of one history, of  *)
(* which the first is as complete as the second, equal last events at the  *)
(* same offset mean that everything before is equal, too.                  *)
LEMMA AgreeWithin ==
    ASSUME NEW K \in Seq(Event), NEW L \in Seq(Event), Increasing(K), Increasing(L),
           Within(K, L)
    PROVE  Agrees(K, L)
<1> DEFINE m == Len(K)
<1> SUFFICES ASSUME m \in 1 .. Len(L), K[m] = L[m]
             PROVE  Prefix(L, m) = K
  BY DEF Agrees
<1>0. /\ m \in Nat \ {0} /\ DOMAIN K = 1 .. m
      /\ Len(L) \in Nat /\ DOMAIN L = 1 .. Len(L)
  BY LenProperties
<1>1. \A i \in 1 .. m : K[i].id \in Nat /\ K[i].id <= K[m].id
  <2> SUFFICES ASSUME NEW i \in 1 .. m PROVE K[i].id \in Nat /\ K[i].id <= K[m].id
    OBVIOUS
  <2>1. K[i].id \in Nat /\ K[m].id \in Nat
    BY <1>0, EventAt
  <2>2. i < m => K[i].id < K[m].id
    BY <1>0 DEF Increasing
  <2> QED BY <1>0, <2>1, <2>2
<1>2. \A i \in DOMAIN K : \E n \in DOMAIN L : L[n] = K[i]
  BY <1>0, <1>1 DEF Within
<1>3. PICK f : /\ Climbs(f, m)
               /\ \A i \in 1 .. m : f[i] \in 1 .. Len(L) /\ L[f[i]] = K[i]
  BY <1>2, RunsThrough
<1>4. f[m] = m
  <2>1. f[m] \in 1 .. Len(L) /\ L[f[m]] = L[m] /\ L[m].id \in Nat
    BY <1>0, <1>1, <1>3
  <2>2. f[m] < m => L[f[m]].id < L[m].id
    BY <1>0, <2>1 DEF Increasing
  <2>3. m < f[m] => L[m].id < L[f[m]].id
    BY <1>0, <2>1 DEF Increasing
  <2> QED BY <1>0, <2>1, <2>2, <2>3
<1>5. \A i \in 1 .. m : L[i] = K[i]
  BY <1>0, <1>3, <1>4, ClimbsTo
<1> QED BY <1>0, <1>5, IsPrefix

(* Two logs of which neither lacks what the other has before its end: the  *)
(* shorter begins the longer.                                              *)
LEMMA PrefixWithin ==
    ASSUME NEW K \in Seq(Event), NEW L \in Seq(Event), Increasing(K), Increasing(L),
           \A i \in DOMAIN K : \E m \in DOMAIN L : L[m] = K[i],
           Within(L, K)
    PROVE  Len(K) <= Len(L) /\ Prefix(L, Len(K)) = K
<1>0. /\ Len(K) \in Nat /\ DOMAIN K = 1 .. Len(K)
      /\ Len(L) \in Nat /\ DOMAIN L = 1 .. Len(L)
      /\ \A i \in DOMAIN K : K[i].id \in Nat
      /\ \A i \in DOMAIN L : L[i].id \in Nat
  BY LenProperties, EventAt
<1>1. PICK f : /\ Climbs(f, Len(K))
               /\ \A i \in 1 .. Len(K) : f[i] \in 1 .. Len(L) /\ L[f[i]] = K[i]
  BY RunsThrough
<1>2. \A i \in 1 .. Len(K) : f[i] >= i
  BY <1>0, <1>1, ClimbsAhead
<1> DEFINE B == {i \in 1 .. Len(K) : f[i] # i}
<1>3. B = {}
  <2> SUFFICES ASSUME B # {} PROVE FALSE
    OBVIOUS
  <2>1. PICK i \in B : \A j \in B : i <= j
    <3>1. B \in SUBSET Nat
      OBVIOUS
    <3> QED BY <3>1, LeastExists
  <2>2. i \in 1 .. Len(K) /\ f[i] # i /\ f[i] \in 1 .. Len(L) /\ L[f[i]] = K[i] /\ i < f[i]
    BY <1>0, <1>1, <1>2
  <2>3. i \in DOMAIN L /\ i \in DOMAIN K /\ f[i] \in DOMAIN L
    BY <1>0, <2>2
  <2>4. L[i].id < K[i].id
    BY <2>2, <2>3, InOrderOfIds
  <2>5. L[i].id <= K[i].id
    BY <1>0, <2>3, <2>4
  <2>6. PICK j \in DOMAIN K : K[j] = L[i]
    BY <2>3, <2>5 DEF Within
  <2>7. j < i
    BY <2>3, <2>4, <2>6, InOrderOfIds
  <2>8. f[j] = j
    BY <1>0, <2>1, <2>2, <2>6, <2>7
  <2>9. L[j] = L[i] /\ j \in DOMAIN L
    BY <1>0, <1>1, <2>6, <2>8
  <2>10. j = i
    BY <2>3, <2>9, InOrderOfIds
  <2> QED BY <1>0, <2>3, <2>7, <2>10
<1>4. \A i \in 1 .. Len(K) : f[i] = i
  BY <1>3
<1>5. Len(K) <= Len(L)
  BY <1>0, <1>1, <1>4
<1>6. \A i \in 1 .. Len(K) : L[i] = K[i]
  BY <1>1, <1>4
<1> QED BY <1>5, <1>6, IsPrefix

(* What holds of a log that another one, with what was appended to it       *)
(* since, lacks nothing of.                                                *)
LEMMA WithinSelf ==
    ASSUME NEW s
    PROVE  Within(s, s)
BY DEF Within

LEMMA WithinLess ==
    ASSUME NEW s, NEW t, NEW L, \A i \in DOMAIN t : \E j \in DOMAIN s : t[i] = s[j],
           Within(s, L)
    PROVE  Within(t, L)
BY DEF Within

LEMMA WithinAppended ==
    ASSUME NEW s \in Seq(Event), NEW b \in Seq(Event), NEW L \in Seq(Event), Within(s, L),
           \A i \in DOMAIN b : \A j \in DOMAIN L : L[j].id < b[i].id
    PROVE  Within(s \o b, L)
<1> SUFFICES ASSUME NEW i \in DOMAIN (s \o b), NEW j \in DOMAIN L, (s \o b)[i].id <= L[j].id
             PROVE  \E m \in DOMAIN L : L[m] = (s \o b)[i]
  BY DEF Within
<1>1. /\ Len(s) \in Nat /\ DOMAIN s = 1 .. Len(s) /\ Len(b) \in Nat /\ DOMAIN b = 1 .. Len(b)
      /\ DOMAIN (s \o b) = 1 .. Len(s) + Len(b)
      /\ (s \o b)[i] = IF i <= Len(s) THEN s[i] ELSE b[i - Len(s)]
  BY LenProperties, ConcatProperties
<1>2. CASE i <= Len(s)
  BY <1>1, <1>2 DEF Within
<1>3. CASE i > Len(s)
  <2>1. i - Len(s) \in DOMAIN b /\ (s \o b)[i] = b[i - Len(s)]
    BY <1>1, <1>3
  <2>2. b[i - Len(s)].id \in Nat /\ L[j].id \in Nat
    BY <2>1, EventAt
  <2>3. L[j].id < b[i - Len(s)].id
    BY <2>1
  <2> QED BY <2>1, <2>2, <2>3
<1> QED BY <1>1, <1>2, <1>3

LEMMA IncreasingAppended ==
    ASSUME NEW s \in Seq(Event), NEW b \in Seq(Event), Increasing(s), Increasing(b),
           \A i \in DOMAIN b : \A j \in DOMAIN s : s[j].id < b[i].id
    PROVE  Increasing(s \o b)
<1> SUFFICES ASSUME NEW i \in DOMAIN (s \o b), NEW j \in DOMAIN (s \o b), i < j
             PROVE  (s \o b)[i].id < (s \o b)[j].id
  BY DEF Increasing
<1>1. /\ Len(s) \in Nat /\ DOMAIN s = 1 .. Len(s) /\ Len(b) \in Nat /\ DOMAIN b = 1 .. Len(b)
      /\ DOMAIN (s \o b) = 1 .. Len(s) + Len(b)
      /\ (s \o b)[i] = IF i <= Len(s) THEN s[i] ELSE b[i - Len(s)]
      /\ (s \o b)[j] = IF j <= Len(s) THEN s[j] ELSE b[j - Len(s)]
  BY LenProperties, ConcatProperties
<1>2. CASE j <= Len(s)
  BY <1>1, <1>2 DEF Increasing
<1>3. CASE i <= Len(s) /\ j > Len(s)
  <2>1. i \in DOMAIN s /\ j - Len(s) \in DOMAIN b
    BY <1>1, <1>3
  <2> QED BY <1>1, <1>3, <2>1
<1>4. CASE i > Len(s)
  <2>1. i - Len(s) \in DOMAIN b /\ j - Len(s) \in DOMAIN b /\ i - Len(s) < j - Len(s)
    BY <1>1, <1>4
  <2>2. b[i - Len(s)].id < b[j - Len(s)].id
    BY <2>1 DEF Increasing
  <2> QED BY <1>1, <1>4, <2>2
<1> QED BY <1>1, <1>2, <1>3, <1>4

(* A log is its beginning and the rest.                                    *)
LEMMA CutAt ==
    ASSUME NEW s \in Seq(Event), NEW n \in 0 .. Len(s)
    PROVE  /\ SubSeq(s, n + 1, Len(s)) \in Seq(Event)
           /\ s = Prefix(s, n) \o SubSeq(s, n + 1, Len(s))
<1>1. Len(s) \in Nat
  BY LenProperties
<1> DEFINE a == Prefix(s, n)
           b == SubSeq(s, n + 1, Len(s))
<1>2. a \in Seq(Event) /\ Len(a) = n /\ \A i \in 1 .. n : a[i] = s[i]
  BY PrefixHolds
<1>3. b \in Seq(Event)
  BY <1>1, SubLog
<1>4. Len(b) = Len(s) - n /\ \A i \in 1 .. Len(s) - n : b[i] = s[n + i]
  <2>1. b = [i \in 1 .. Len(s) - n |-> s[n + i]]
    BY <1>1
  <2> QED BY <1>1, <1>3, <2>1, LenProperties
<1> HIDE DEF a, b
<1>5. a \o b \in Seq(Event) /\ Len(a \o b) = Len(s)
  <2>1. a \o b \in Seq(Event) /\ Len(a \o b) = Len(a) + Len(b)
    BY <1>2, <1>3, ConcatProperties
  <2>2. Len(a) + Len(b) = Len(s)
    BY <1>1, <1>2, <1>4
  <2> QED BY <2>1, <2>2
<1>6. \A i \in 1 .. Len(s) : (a \o b)[i] = s[i]
  <2> SUFFICES ASSUME NEW i \in 1 .. Len(s) PROVE (a \o b)[i] = s[i]
    OBVIOUS
  <2>1. (a \o b)[i] = IF i <= Len(a) THEN a[i] ELSE b[i - Len(a)]
    BY <1>1, <1>2, <1>3, <1>4, ConcatProperties
  <2> QED BY <1>1, <1>2, <1>4, <2>1
<1>7. s = a \o b
  BY <1>5, <1>6, SeqEqual
<1> QED BY <1>3, <1>7 DEF a, b

(* What was appended to a log does not change its beginning.               *)
LEMMA PrefixOfConcat ==
    ASSUME NEW s \in Seq(Event), NEW b \in Seq(Event), NEW n \in 0 .. Len(s)
    PROVE  Len(s \o b) = Len(s) + Len(b) /\ Prefix(s \o b, n) = Prefix(s, n)
<1>1. /\ s \o b \in Seq(Event) /\ Len(s \o b) = Len(s) + Len(b)
      /\ Len(s) \in Nat /\ Len(b) \in Nat
      /\ \A i \in 1 .. Len(s) : (s \o b)[i] = s[i]
  BY ConcatProperties, LenProperties
<1>2. n \in 0 .. Len(s \o b)
  BY <1>1
<1>3. /\ Prefix(s, n) \in Seq(Event) /\ Len(Prefix(s, n)) = n
      /\ \A i \in 1 .. n : Prefix(s, n)[i] = s[i]
  BY PrefixHolds
<1>4. /\ Prefix(s \o b, n) \in Seq(Event) /\ Len(Prefix(s \o b, n)) = n
      /\ \A i \in 1 .. n : Prefix(s \o b, n)[i] = (s \o b)[i]
  BY <1>1, <1>2, PrefixHolds
<1>5. \A i \in 1 .. n : Prefix(s \o b, n)[i] = Prefix(s, n)[i]
  BY <1>1, <1>3, <1>4
<1>6. Prefix(s \o b, n) = Prefix(s, n)
  BY <1>3, <1>4, <1>5, SeqEqual
<1> QED BY <1>1, <1>6

-----------------------------------------------------------------------------
(* Compaction.                                                             *)

(* A compacted log lists what is retained, in the order of the log.        *)
LEMMA CompactedLists ==
    ASSUME NEW s \in Seq(Event), NEW t \in Compacted(s)
    PROVE  \E f : /\ Climbs(f, Len(t))
                  /\ \A n \in 1 .. Len(t) : f[n] \in Retained(s) /\ t[n] = s[f[n]]
                  /\ \A i \in Retained(s) : \E n \in 1 .. Len(t) : f[n] = i
<1> DEFINE K == Retained(s)
<1>1. t \in Seq(Event)
  BY CompactedType
<1>2. K \in SUBSET (1 .. Len(s))
  BY LenProperties DEF Retained
<1>3. PICK f \in InOrder(K) : t = [n \in DOMAIN f |-> s[f[n]]]
  BY DEF Compacted
<1>4. /\ f \in [1 .. Cardinality(K) -> K]
      /\ \A m, n \in DOMAIN f : m < n => f[m] < f[n]
      /\ \A i \in K : \E n \in DOMAIN f : f[n] = i
  BY DEF InOrder
<1>5. DOMAIN f = 1 .. Len(t)
  BY <1>1, <1>3, LenProperties
<1>6. \A n \in 1 .. Len(t) : f[n] \in K /\ t[n] = s[f[n]]
  BY <1>3, <1>4, <1>5
<1>7. f \in [1 .. Len(t) -> Nat \ {0}]
  <2>1. \A n \in 1 .. Len(t) : f[n] \in Nat \ {0}
    BY <1>2, <1>6
  <2> QED BY <1>4, <1>5, <2>1
<1>8. Climbs(f, Len(t))
  BY <1>4, <1>5, <1>7 DEF Climbs
<1>9. \A i \in Retained(s) : \E n \in 1 .. Len(t) : f[n] = i
  BY <1>4, <1>5
<1> HIDE DEF K
<1> QED BY <1>6, <1>8, <1>9 DEF K

(* It is no longer than the log, holds nothing else, and is in its order.  *)
LEMMA CompactedShorter ==
    ASSUME NEW s \in Seq(Event), NEW t \in Compacted(s)
    PROVE  /\ Len(t) <= Len(s)
           /\ \A i \in DOMAIN t : \E j \in DOMAIN s : t[i] = s[j]
           /\ Increasing(s) => Increasing(t)
<1>1. t \in Seq(Event)
  BY CompactedType
<1>2. PICK f : /\ Climbs(f, Len(t))
               /\ \A n \in 1 .. Len(t) : f[n] \in Retained(s) /\ t[n] = s[f[n]]
  BY CompactedLists
<1>3. /\ Len(t) \in Nat /\ DOMAIN t = 1 .. Len(t)
      /\ Len(s) \in Nat /\ DOMAIN s = 1 .. Len(s)
  BY <1>1, LenProperties
<1>4. \A n \in 1 .. Len(t) : f[n] \in 1 .. Len(s) /\ f[n] >= n
  BY <1>2, <1>3, ClimbsAhead DEF Retained
<1>5. Len(t) <= Len(s)
  BY <1>3, <1>4
<1>6. \A i \in DOMAIN t : \E j \in DOMAIN s : t[i] = s[j]
  BY <1>2, <1>3, <1>4
<1>7. Increasing(s) => Increasing(t)
  BY <1>2, <1>3, <1>4 DEF Increasing, Climbs
<1> QED BY <1>5, <1>6, <1>7

(* A search sees the same in both. *)
LEMMA CompactedTells ==
    ASSUME NEW s \in Seq(Event), NEW t \in Compacted(s)
    PROVE  Visible(Materialize(t, {})) = Visible(Materialize(s, {}))
<1> SUFFICES ASSUME NEW k \in Keys
             PROVE  Visible(ApplyAll(EmptyRows, t, {}))[k] = Visible(ApplyAll(EmptyRows, s, {}))[k]
  BY DEF Visible, Materialize
<1> DEFINE S == Touching(s, k, {})
           T == Touching(t, k, {})
<1>1. t \in Seq(Event)
  BY CompactedType
<1>2. PICK f : /\ Climbs(f, Len(t))
               /\ \A n \in 1 .. Len(t) : f[n] \in Retained(s) /\ t[n] = s[f[n]]
               /\ \A i \in Retained(s) : \E n \in 1 .. Len(t) : f[n] = i
  BY CompactedLists
<1>3. /\ Len(t) \in Nat /\ DOMAIN t = 1 .. Len(t)
      /\ Len(s) \in Nat /\ DOMAIN s = 1 .. Len(s)
  BY <1>1, LenProperties
<1>4. \A n \in T : n \in 1 .. Len(t) /\ IsLast(S, f[n]) /\ s[f[n]].op = "upsert" /\ t[n] = s[f[n]]
  <2> SUFFICES ASSUME NEW n \in T
               PROVE  n \in 1 .. Len(t) /\ IsLast(S, f[n]) /\ s[f[n]].op = "upsert" /\ t[n] = s[f[n]]
    OBVIOUS
  <2>1. n \in 1 .. Len(t) /\ t[n].key = k
    BY <1>3 DEF Touching
  <2>2. f[n] \in Retained(s) /\ t[n] = s[f[n]]
    BY <1>2, <2>1
  <2>3. s[f[n]].key = k
    BY <2>1, <2>2
  <2>4. s[f[n]].op = "upsert" /\ IsLast(Touching(s, s[f[n]].key, {}), f[n])
    BY <2>2 DEF Retained
  <2> QED BY <2>1, <2>2, <2>3, <2>4
<1>5. CASE T = {}
  <2>1. \A i : IsLast(S, i) => s[i].op # "upsert"
    <3> SUFFICES ASSUME NEW i, IsLast(S, i), s[i].op = "upsert" PROVE FALSE
      OBVIOUS
    <3>1. i \in DOMAIN s /\ s[i].key = k
      BY DEF IsLast, Touching
    <3>2. i \in Retained(s)
      BY <3>1 DEF Retained
    <3>3. PICK n \in 1 .. Len(t) : f[n] = i
      BY <1>2, <3>2
    <3>4. n \in T
      BY <1>2, <1>3, <3>1, <3>3 DEF Touching
    <3> QED BY <1>5, <3>4
  <2>2. Visible(ApplyAll(EmptyRows, t, {}))[k] = NoRow
    BY <1>5, ApplyNone DEF Visible, EmptyRows, NoRow, Stale
  <2>3. CASE S = {}
    BY <2>2, <2>3, ApplyNone DEF Visible, EmptyRows, NoRow, Stale
  <2>4. CASE S # {}
    <3>1. PICK i \in S : IsLast(S, i)
      BY <2>4, LastTouching
    <3> QED BY <2>1, <2>2, <3>1, VisibleLast
  <2> QED BY <2>3, <2>4
<1>6. CASE T # {}
  <2>1. PICK n \in T : IsLast(T, n)
    BY <1>1, <1>6, LastTouching
  <2>2. Visible(ApplyAll(EmptyRows, t, {}))[k] = IF t[n].op = "upsert" THEN t[n].id ELSE NoRow
    BY <1>1, <2>1, VisibleLast
  <2>3. Visible(ApplyAll(EmptyRows, s, {}))[k] = IF s[f[n]].op = "upsert" THEN s[f[n]].id ELSE NoRow
    <3>1. IsLast(Touching(s, k, {}), f[n])
      BY <1>4, <2>1
    <3> DEFINE i == f[n]
    <3> HIDE DEF i
    <3>2. IsLast(Touching(s, k, {}), i)
      BY <3>1 DEF i
    <3>3. Visible(ApplyAll(EmptyRows, s, {}))[k] = IF s[i].op = "upsert" THEN s[i].id ELSE NoRow
      BY <3>2, VisibleLast
    <3> QED BY <3>3 DEF i
  <2> QED BY <1>4, <2>1, <2>2, <2>3
<1> QED BY <1>5, <1>6

-----------------------------------------------------------------------------
(* Resuming a materialization, and recognizing what it was made from.      *)

(* Where events are numbered in order, rows made of a log but for the      *)
(* events a, to which a batch but for the events b is applied, are made of *)
(* both but for events of a and b.                                         *)
LEMMA ResumeApply ==
    ASSUME NEW s \in Seq(Event), NEW t \in Seq(Event), Increasing(s \o t), NEW a, NEW b
    PROVE  \E c \in SUBSET (a \cup b) :
              ApplyAll(Materialize(s, a), t, b) = Materialize(s \o t, c)
<1> DEFINE c == {i \in a : i \in EventIds(s)} \cup {i \in b : i \in EventIds(t)}
<1>1. \A i \in DOMAIN s : \A j \in DOMAIN t : s[i].id # t[j].id
  <2> SUFFICES ASSUME NEW i \in DOMAIN s, NEW j \in DOMAIN t PROVE s[i].id # t[j].id
    OBVIOUS
  <2>1. /\ Len(s) \in Nat /\ DOMAIN s = 1 .. Len(s) /\ Len(t) \in Nat /\ DOMAIN t = 1 .. Len(t)
        /\ s \o t \in Seq(Event) /\ DOMAIN (s \o t) = 1 .. Len(s) + Len(t)
    BY LenProperties, ConcatProperties
  <2>2. (s \o t)[i] = s[i] /\ (s \o t)[Len(s) + j] = t[j]
    BY <2>1
  <2>3. i \in DOMAIN (s \o t) /\ Len(s) + j \in DOMAIN (s \o t) /\ i # Len(s) + j
    BY <2>1
  <2>4. (s \o t)[i].id # (s \o t)[Len(s) + j].id
    BY <2>1, <2>3, InOrderOfIds
  <2> QED BY <2>2, <2>4
<1>2. Merges(s, a, t, b, c)
  BY <1>1 DEF Merges, EventIds
<1>3. c \in SUBSET (a \cup b)
  OBVIOUS
<1> HIDE DEF c
<1>4. ApplyAll(Materialize(s, a), t, b) = Materialize(s \o t, c)
  BY <1>2, ConcatApply DEF Materialize
<1> QED BY <1>3, <1>4

(* Equal fingerprints of two logs at an offset: equal events there.        *)
LEMMA ShaTells ==
    ASSUME NEW K \in Seq(Event), NEW L \in Seq(Event), NEW n \in 1 .. Len(K), n <= Len(L),
           TailSha(K, n) = TailSha(L, n)
    PROVE  K[n] = L[n]
<1> DEFINE w == IF n <= Window THEN n ELSE Window
<1>1. w \in 1 .. n /\ n \in Nat
  BY StoreAssumption, LenProperties
<1> HIDE DEF w
<1>2. SubSeq(K, n - w + 1, n) = SubSeq(L, n - w + 1, n)
  BY DEF TailSha, w
<1>3. SubSeq(K, n - w + 1, n)[w] = K[n] /\ SubSeq(L, n - w + 1, n)[w] = L[n]
  BY <1>1
<1> QED BY <1>2, <1>3

(* A log agrees with more of the same log, as long as what was added is    *)
(* newer than itself.                                                      *)
LEMMA AgreesAppended ==
    ASSUME NEW K \in Seq(Event), NEW L \in Seq(Event), NEW b \in Seq(Event), Agrees(K, L),
           \A i \in DOMAIN b : \A j \in DOMAIN K : K[j].id < b[i].id
    PROVE  Agrees(K, L \o b)
<1> SUFFICES ASSUME Len(K) \in 1 .. Len(L \o b), K[Len(K)] = (L \o b)[Len(K)]
             PROVE  Prefix(L \o b, Len(K)) = K
  BY DEF Agrees
<1>1. /\ Len(L) \in Nat /\ DOMAIN L = 1 .. Len(L) /\ Len(b) \in Nat /\ DOMAIN b = 1 .. Len(b)
      /\ Len(K) \in Nat /\ DOMAIN K = 1 .. Len(K)
      /\ Len(L \o b) = Len(L) + Len(b)
  BY LenProperties, ConcatProperties
<1>2. CASE Len(K) <= Len(L)
  <2>1. (L \o b)[Len(K)] = L[Len(K)]
    BY <1>1, <1>2
  <2>2. Prefix(L \o b, Len(K)) = Prefix(L, Len(K))
    BY <1>1, <1>2, PrefixOfConcat
  <2> QED BY <1>1, <1>2, <2>1, <2>2 DEF Agrees
<1>3. CASE Len(K) > Len(L)
  <2>1. Len(K) - Len(L) \in DOMAIN b /\ (L \o b)[Len(K)] = b[Len(K) - Len(L)]
    BY <1>1, <1>3
  <2>2. K[Len(K)].id < b[Len(K) - Len(L)].id /\ K[Len(K)].id \in Nat
    <3>1. Len(K) \in DOMAIN K
      BY <1>1
    <3>2. K[Len(K)].id \in Nat
      BY <3>1, EventAt
    <3> QED BY <2>1, <3>1, <3>2
  <2>3. b[Len(K) - Len(L)].id = K[Len(K)].id
    BY <2>1
  <2> QED BY <2>2, <2>3
<1> QED BY <1>1, <1>2, <1>3

-----------------------------------------------------------------------------
(* The building blocks of the actions keep the types of what they change.  *)
LEMMA RestingType == Resting \in Local
<1>1. EmptyRows \in Rows
  BY DEF EmptyRows, Rows, NoRow
<1>2. <<>> \in Seq(Event)
  BY EmptySeq
<1> QED BY <1>1, <1>2 DEF Resting, Local, PCs, Commands

LEMMA CommitType ==
    ASSUME TypeOK, NEW d \in Database, Commit(d) \/ Settle(d)
    PROVE  db' \in Database /\ disk' \in Disk /\ pending' \subseteq {"log", "db"}
<1>1. ASSUME DirSynced(d) PROVE disk' \in Disk /\ pending' = {}
  BY <1>1 DEF DirSynced, Disk, TypeOK
<1>2. CASE UNCHANGED <<db, disk, pending>>
  BY <1>2 DEF TypeOK
<1>3. CASE Commit(d)
  BY <1>1, <1>3 DEF Commit
<1> QED BY <1>2, <1>3 DEF Settle

LEMMA SyncDirType ==
    ASSUME TypeOK, SyncDir
    PROVE  pending' = {} /\ disk' \in Disk
BY DEF SyncDir, DirSynced, Disk, TypeOK

LEMMA BecomeType ==
    ASSUME proc \in [Procs -> Local], NEW p \in Procs, NEW local \in Local, Become(p, local)
    PROVE  proc' \in [Procs -> Local]
BY DEF Become

LEMMA GotoType ==
    ASSUME proc \in [Procs -> Local], NEW p \in Procs, NEW l \in PCs, Goto(p, l)
    PROVE  proc' \in [Procs -> Local]
<1>1. [proc[p] EXCEPT !.pc = l] \in Local
  BY DEF Local
<1> QED BY <1>1, BecomeType DEF Goto

LEMMA StopType ==
    ASSUME proc \in [Procs -> Local], NEW p \in Procs, Stop(p)
    PROVE  proc' \in [Procs -> Local]
BY RestingType, BecomeType DEF Stop

LEMMA ProceedType ==
    ASSUME proc \in [Procs -> Local], NEW p \in Procs, Proceed(p)
    PROVE  proc' \in [Procs -> Local]
<1>1. proc[p].cmd \in {"write", "compact"} =>
        [Resting EXCEPT !.pc = proc[p].cmd, !.cmd = proc[p].cmd] \in Local
  BY RestingType DEF Local, PCs, Commands
<1>2. (IF proc[p].cmd \in {"write", "compact"}
       THEN [Resting EXCEPT !.pc = proc[p].cmd, !.cmd = proc[p].cmd]
       ELSE Resting) \in Local
  BY <1>1, RestingType
<1> QED BY <1>2, BecomeType DEF Proceed

LEMMA FaultType ==
    ASSUME faults \in Nat, NEW kind, Fault(kind)
    PROVE  faults' \in Nat
BY DEF Fault

LEMMA LockType ==
    ASSUME TypeOK, NEW p \in Procs
    PROVE  /\ Acquire(p) => lock' \in Procs \cup {NoProc}
           /\ Release(p) => lock' \in Procs \cup {NoProc}
           /\ Locked => lock' \in Procs \cup {NoProc}
           /\ LeaveFlight(p) => flight' \in Procs \cup {NoProc}
BY DEF TypeOK, Acquire, Release, Locked, LeaveFlight

LEMMA AbortType ==
    ASSUME TypeOK, NEW p \in Procs, AbortRebuild(p)
    PROVE  flight' \in Procs \cup {NoProc} /\ proc' \in [Procs -> Local]
BY LockType, StopType, ProceedType DEF TypeOK, AbortRebuild

-----------------------------------------------------------------------------

LEMMA TypeInit == Init => TypeOK
<1> SUFFICES ASSUME Init PROVE TypeOK
  OBVIOUS
<1>1. log \in Seq(Event)
  BY DurabilityAssumption, EmptySeq DEF Init
<1>2. Len(log) \in Nat
  BY <1>1, LenProperties
<1>3. db \in Database
  <2>1. CASE db = NoDb \/ db = FreshDb
    BY <2>1, FreshDbType
  <2>2. ASSUME db = [exists |-> TRUE, rows |-> Materialize(log, BadIds(log)),
                     cur |-> NoCursor, stamp |-> FALSE]
        PROVE  db \in Database
    <3>1. Materialize(log, BadIds(log)) \in Rows
      BY <1>1, MaterializeType
    <3> QED BY <2>2, <3>1 DEF Database
  <2>3. ASSUME db = [exists |-> TRUE, rows |-> Materialize(log, {}),
                     cur |-> CursorAt(0, log, Len(log)), stamp |-> FALSE]
        PROVE  db \in Database
    <3>1. Materialize(log, {}) \in Rows
      BY <1>1, MaterializeType
    <3>2. CursorAt(0, log, Len(log)) \in Cursor
      BY <1>1, <1>2, CursorAtType
    <3> QED BY <2>3, <3>1, <3>2 DEF Database
  <2> QED BY <2>1, <2>2, <2>3 DEF Init
<1>4. disk \in Disk /\ pending \subseteq {"log", "db"}
  BY <1>1, <1>3, EmptySeq DEF Init, Disk
<1>5. proc \in [Procs -> Local]
  BY RestingType DEF Init
<1>6. nextId \in Nat \ {0}
  BY <1>2 DEF Init
<1> QED BY <1>1, <1>3, <1>4, <1>5, <1>6 DEF Init, TypeOK

LEMMA RecoveryType ==
    ASSUME TypeOK, NEW p \in Procs, Recovery(p)
    PROVE  TypeOK'
<1> USE DEF TypeOK, fileVars, ghostVars
<1>0. OpenRw(db) \in Database
  BY OpenRwType
<1>1. CASE InspectCursor(p)
  <2>1. [proc[p] EXCEPT !.pc = "inspectLog", !.seen = db.cur] \in Local
    <3>1. proc[p] \in Local
      OBVIOUS
    <3>2. db.cur \in Cursor \cup {NoCursor}
      BY DEF Database
    <3>3. "inspectLog" \in PCs
      BY DEF PCs
    <3> QED BY <3>1, <3>2, <3>3 DEF Local
  <2>2. proc' \in [Procs -> Local]
    BY <1>1, <2>1, BecomeType, ProceedType DEF InspectCursor
  <2> QED BY <1>1, <2>2 DEF InspectCursor
<1>2. CASE InspectLog(p)
  BY <1>2, ProceedType, GotoType DEF InspectLog, PCs
<1>3. CASE ReplayLock(p)
  BY <1>0, <1>3, CommitType, LockType, GotoType DEF ReplayLock, PCs
<1>4. CASE ReplayNothing(p)
  BY <1>4, LockType, ProceedType DEF ReplayNothing
<1>5. CASE ReplayCommit(p)
  <2>1. db.cur \in Cursor
    BY <1>5 DEF ReplayCommit, Database
  <2>2. Unapplied \in Seq(Event)
    BY <2>1, SubLog, LenProperties DEF Unapplied, Cursor
  <2>3. ApplyAll(db.rows, Unapplied, Quarantined) \in Rows
    BY <2>2, ApplyAllType DEF Database
  <2>4. CursorAt(gen, log, Len(log)) \in Cursor
    BY CursorAtType, LenProperties
  <2>5. [db EXCEPT !.rows = ApplyAll(db.rows, Unapplied, Quarantined),
                   !.cur = CursorAt(gen, log, Len(log))] \in Database
    BY <2>3, <2>4 DEF Database
  <2> QED BY <1>5, <2>5, CommitType, LockType, ProceedType DEF ReplayCommit
<1>6. CASE ReplayFail(p)
  <2>1. PICK i : /\ ledger' = [ledger EXCEPT ![Unapplied[i].id] = @ + 1]
                 /\ faults' = IF Unapplied[i].bad THEN faults ELSE faults + 1
    BY <1>6 DEF ReplayFail
  <2>2. ledger' \in [1 .. MaxEvents -> Nat]
    <3>1. DOMAIN ledger' = 1 .. MaxEvents
      BY <2>1
    <3>2. \A j \in 1 .. MaxEvents : ledger'[j] \in {ledger[j], ledger[j] + 1}
      BY <2>1
    <3>3. \A j \in 1 .. MaxEvents : ledger[j] \in Nat /\ ledger[j] + 1 \in Nat
      OBVIOUS
    <3> QED BY <2>1, <3>1, <3>2, <3>3
  <2>3. faults' \in Nat
    BY <2>1
  <2> QED BY <1>6, <2>2, <2>3, SyncDirType DEF ReplayFail
<1>7. CASE FlightLock(p)
  BY <1>7, GotoType DEF FlightLock, PCs
<1>8. CASE RecheckDone(p)
  <2>1. db' \in Database /\ disk' \in Disk /\ pending' \subseteq {"log", "db"}
    <3>1. CursorAt(gen, log, 0) \in Cursor
      BY CursorAtType, LenProperties
    <3>2. [OpenRw(db) EXCEPT !.stamp = TRUE, !.cur = CursorAt(gen, log, 0)] \in Database
      BY <1>0, <3>1 DEF Database
    <3>3. PICK d \in Database : Settle(d)
      BY <1>0, <1>8, <3>2 DEF RecheckDone
    <3> QED BY <3>3, CommitType
  <2> QED BY <1>8, <2>1, LockType, ProceedType DEF RecheckDone
<1>9. CASE RecheckGoOn(p)
  BY <1>0, <1>9, CommitType, LockType, GotoType DEF RecheckGoOn, PCs
<1>10. CASE CoverageGoOn(p)
  <2>1. [proc[p] EXCEPT !.pc = "snapshot", !.tries = 1] \in Local
    BY DEF Local, PCs
  <2> QED BY <1>10, <2>1, BecomeType DEF CoverageGoOn
<1>11. CASE CoverageDefer(p)
  BY <1>11, LockType, StopType, ProceedType DEF CoverageDefer
<1> QED BY <1>1, <1>2, <1>3, <1>4, <1>5, <1>6, <1>7, <1>8, <1>9, <1>10, <1>11 DEF Recovery

LEMMA RebuildType ==
    ASSUME TypeOK, NEW p \in Procs, RebuildStep(p)
    PROVE  TypeOK'
<1> USE DEF TypeOK, fileVars, ghostVars
<1>0. OpenRw(db) \in Database
  BY OpenRwType
<1>1. proc[p] \in Local /\ Len(proc[p].snap) \in Nat /\ Len(log) \in Nat
  BY LenProperties DEF Local
<1>2. CASE Snapshot(p)
  <2>1. [proc[p] EXCEPT !.pc = "scratch", !.snap = log] \in Local
    BY <1>1 DEF Local, PCs
  <2> QED BY <1>0, <1>2, <2>1, BecomeType, CommitType, LockType DEF Snapshot
<1>3. CASE Scratch(p)
  <2>1. ScratchSource(p) \in Seq(Event)
    BY <1>1, SubLog DEF ScratchSource, Prefix
  <2>2. Materialize(ScratchSource(p), Quarantined) \in Rows
    BY <2>1, MaterializeType
  <2>3. [proc[p] EXCEPT !.pc = "catchup",
                        !.tmp = Materialize(ScratchSource(p), Quarantined)] \in Local
    BY <1>1, <2>2 DEF Local, PCs
  <2> QED BY <1>3, <2>3, BecomeType DEF Scratch
<1>4. CASE ScratchFail(p)
  <2>1. faults' \in Nat
    BY <1>4, FaultType DEF ScratchFail
  <2> QED BY <1>4, <2>1, AbortType DEF ScratchFail
<1>5. CASE Restart(p)
  <2>1. EmptyRows \in Rows /\ <<>> \in Seq(Event)
    BY RestingType DEF Resting, Local
  <2>2. [proc[p] EXCEPT !.pc = "snapshot", !.tries = @ + 1,
                        !.snap = <<>>, !.tmp = EmptyRows] \in Local
    <3>1. proc[p].tries + 1 \in Nat
      BY <1>1 DEF Local
    <3> QED BY <1>1, <2>1, <3>1 DEF Local, PCs
  <2>3. proc' \in [Procs -> Local] /\ flight' \in Procs \cup {NoProc}
    <3>1. CASE proc[p].tries < MaxAttempts
      BY <1>5, <2>2, <3>1, BecomeType DEF Restart
    <3>2. CASE ~(proc[p].tries < MaxAttempts)
      BY <1>5, <3>2, AbortType DEF Restart
    <3> QED BY <3>1, <3>2
  <2> QED BY <1>5, <2>3, LockType DEF Restart
<1>6. CASE Catchup(p)
  <2>1. CatchupEvents(p) \in Seq(Event)
    BY <1>1, SubLog DEF CatchupEvents
  <2>2. ApplyAll(proc[p].tmp, CatchupEvents(p), Quarantined) \in Rows
    BY <1>1, <2>1, ApplyAllType DEF Local
  <2>3. [proc[p] EXCEPT !.pc = "swap",
                        !.tmp = ApplyAll(@, CatchupEvents(p), Quarantined)] \in Local
    BY <1>1, <2>2 DEF Local, PCs
  <2> QED BY <1>6, <2>3, BecomeType, LockType DEF Catchup
<1>7. CASE CatchupFail(p)
  <2>1. faults' \in Nat
    BY <1>7, FaultType DEF CatchupFail
  <2> QED BY <1>7, <2>1, AbortType, LockType DEF CatchupFail
<1>8. CASE SwapBusy(p)
  BY <1>8, AbortType, LockType, FaultType DEF SwapBusy
<1>9. CASE Swap(p)
  <2>1. CursorAt(gen, log, Len(log)) \in Cursor
    BY <1>1, CursorAtType
  <2>2. db' \in Database
    BY <1>1, <1>9, <2>1 DEF Swap, Database, Local
  <2> QED BY <1>9, <2>2, GotoType DEF Swap, PCs
<1>10. CASE SwapSync(p)
  BY <1>10, SyncDirType, LockType, ProceedType DEF SwapSync
<1>11. CASE SwapSyncFail(p)
  BY <1>11, AbortType, LockType, FaultType DEF SwapSyncFail
<1> QED BY <1>2, <1>3, <1>4, <1>5, <1>6, <1>7, <1>8, <1>9, <1>10, <1>11 DEF RebuildStep

LEMMA BatchesType ==
    ASSUME nextId \in Nat \ {0}, NEW batch \in Batches
    PROVE  batch \in Seq(Event) /\ Len(batch) \in Nat
<1>1. PICK n \in 1 .. (IF MaxBatch <= MaxEvents + 1 - nextId
                       THEN MaxBatch ELSE MaxEvents + 1 - nextId) :
        batch \in [1 .. n -> [id : nextId .. nextId + n - 1, key : Keys,
                              op : {"upsert", "expire"}, bad : BadFlags]]
  BY DEF Batches
<1>2. n \in Nat
  BY <1>1, DurabilityAssumption
<1>3. \A i \in 1 .. n : batch[i] \in Event
  <2> SUFFICES ASSUME NEW i \in 1 .. n PROVE batch[i] \in Event
    OBVIOUS
  <2>1. batch[i] \in [id : nextId .. nextId + n - 1, key : Keys,
                      op : {"upsert", "expire"}, bad : BadFlags]
    BY <1>1
  <2>2. nextId .. nextId + n - 1 \subseteq Nat \ {0}
    BY <1>2
  <2> QED BY <2>1, <2>2, DurabilityAssumption DEF Event
<1>4. batch \in [1 .. n -> Event]
  BY <1>1, <1>3
<1>5. batch \in Seq(Event)
  BY <1>2, <1>4
<1> QED BY <1>5, LenProperties

LEMMA WriteType ==
    ASSUME TypeOK, NEW p \in Procs, Write(p)
    PROVE  TypeOK'
<1> USE DEF TypeOK, fileVars, ghostVars
<1>0. OpenRw(db) \in Database
  BY OpenRwType
<1>1. proc[p] \in Local /\ proc[p].batch \in Seq(Event) /\ Len(log) \in Nat
  BY LenProperties DEF Local
<1>2. CASE WriteRefuse(p)
  BY <1>0, <1>2, CommitType, LockType, StopType DEF WriteRefuse
<1>3. CASE WriteNothing(p)
  BY <1>0, <1>3, CommitType, LockType, StopType DEF WriteNothing
<1>4. CASE AppendBatch(p)
  <2>1. PICK batch \in Batches :
          /\ log' = log \o batch
          /\ history' = history \o batch
          /\ nextId' = nextId + Len(batch)
          /\ Become(p, [proc[p] EXCEPT !.pc = "sync", !.batch = batch])
    BY <1>4 DEF AppendBatch
  <2>2. batch \in Seq(Event) /\ Len(batch) \in Nat
    BY BatchesType
  <2>3. log' \in Seq(Event) /\ history' \in Seq(Event)
    BY <2>1, <2>2, ConcatProperties
  <2>4. nextId' \in Nat \ {0}
    BY <2>1, <2>2
  <2>5. [proc[p] EXCEPT !.pc = "sync", !.batch = batch] \in Local
    BY <1>1, <2>2 DEF Local, PCs
  <2>6. proc' \in [Procs -> Local]
    BY <2>1, <2>5, BecomeType
  <2> QED BY <1>0, <1>4, <2>3, <2>4, <2>6, CommitType, LockType DEF AppendBatch
<1>5. CASE SyncLog(p)
  <2>1. disk' \in Disk
    BY <1>5 DEF SyncLog, Disk
  <2> QED BY <1>5, <2>1, GotoType DEF SyncLog, PCs
<1>6. CASE SyncLogFail(p)
  BY <1>6, FaultType, LockType, StopType DEF SyncLogFail
<1>7. CASE ApplyBatch(p)
  <2>1. ApplyAll(db.rows, proc[p].batch, {}) \in Rows
    BY <1>1, ApplyAllType DEF Database
  <2>2. CursorAt(gen, log, Len(log)) \in Cursor
    BY <1>1, CursorAtType
  <2>3. [db EXCEPT !.rows = ApplyAll(db.rows, proc[p].batch, {}),
                   !.cur = CursorAt(gen, log, Len(log))] \in Database
    BY <2>1, <2>2 DEF Database
  <2>4. EventIds(proc[p].batch) \subseteq Nat
    <3>1. \A i \in DOMAIN proc[p].batch : proc[p].batch[i] \in Event
      BY <1>1, LenProperties, ElementOfSeq
    <3> QED BY <3>1 DEF EventIds, Event
  <2>5. acked' \subseteq Nat
    BY <1>7, <2>4 DEF ApplyBatch
  <2> QED BY <1>7, <2>3, <2>5, CommitType, LockType, StopType DEF ApplyBatch
<1>8. CASE ApplyBatchFail(p)
  <2>1. faults' \in Nat
    BY <1>8, FaultType DEF ApplyBatchFail
  <2> QED BY <1>8, <2>1, LockType, StopType DEF ApplyBatchFail
<1> QED BY <1>2, <1>3, <1>4, <1>5, <1>6, <1>7, <1>8 DEF Write

LEMMA CompactType ==
    ASSUME TypeOK, NEW p \in Procs, Compact(p)
    PROVE  TypeOK'
<1> USE DEF TypeOK, fileVars, ghostVars
<1>1. CASE CompactRefuse(p)
  BY <1>1, LockType, StopType DEF CompactRefuse
<1>2. CASE CompactBump(p)
  <2>1. gen' \in Nat
    BY <1>2 DEF CompactBump
  <2> QED BY <1>2, <2>1, SyncDirType, LockType, GotoType DEF CompactBump, PCs
<1>3. CASE CompactRename(p)
  <2>1. log' \in Seq(Event)
    BY <1>3, CompactedType DEF CompactRename
  <2> QED BY <1>3, <2>1, GotoType DEF CompactRename, PCs
<1>4. CASE CompactSync(p)
  BY <1>4, SyncDirType, LockType, StopType DEF CompactSync
<1>5. CASE CompactSyncFail(p)
  BY <1>5, FaultType, LockType, StopType DEF CompactSyncFail
<1> QED BY <1>1, <1>2, <1>3, <1>4, <1>5 DEF Compact

LEMMA TypeStep == TypeOK /\ [Next]_vars => TypeOK'
<1> SUFFICES ASSUME TypeOK, [Next]_vars PROVE TypeOK'
  OBVIOUS
<1>1. ASSUME NEW p \in Procs, NEW c \in {"write", "compact", "recover"}, Begin(p, c)
      PROVE  TypeOK'
  <2>1. [Resting EXCEPT !.pc = "inspectCursor", !.cmd = c] \in Local
    BY RestingType DEF Local, PCs, Commands
  <2>2. proc' \in [Procs -> Local]
    BY <1>1, <2>1, BecomeType DEF Begin, TypeOK
  <2>3. db' \in Database /\ disk' \in Disk /\ pending' \subseteq {"log", "db"}
    BY <1>1, OpenRwType, CommitType DEF Begin, TypeOK
  <2> QED BY <1>1, <2>2, <2>3, LockType DEF Begin, TypeOK, ghostVars
<1>2. ASSUME NEW p \in Procs, BeginRebuild(p)
      PROVE  TypeOK'
  <2>1. [Resting EXCEPT !.pc = "snapshot", !.cmd = "rebuild", !.tries = 1] \in Local
    BY RestingType DEF Local, PCs, Commands
  <2>2. proc' \in [Procs -> Local]
    BY <1>2, <2>1, BecomeType DEF BeginRebuild, TypeOK
  <2> QED BY <1>2, <2>2 DEF BeginRebuild, TypeOK, fileVars, ghostVars
<1>3. ASSUME NEW p \in Procs, Kill(p)
      PROVE  TypeOK'
  <2>1. lock' \in Procs \cup {NoProc} /\ flight' \in Procs \cup {NoProc}
    BY <1>3, LockType DEF Kill, TypeOK
  <2>2. proc' \in [Procs -> Local] /\ faults' \in Nat
    BY <1>3, StopType, FaultType DEF Kill, TypeOK
  <2> QED BY <1>3, <2>1, <2>2 DEF Kill, TypeOK, fileVars, ghostVars
<1>4. ASSUME PowerLoss
      PROVE  TypeOK'
  <2>1. log' \in Seq(Event) /\ history' \in Seq(Event) /\ db' \in Database
    BY <1>4 DEF PowerLoss, TypeOK, Disk
  <2>2. disk' \in Disk
    BY <1>4, <2>1 DEF PowerLoss, Disk
  <2>3. proc' \in [Procs -> Local] /\ faults' \in Nat
    BY <1>4, RestingType, FaultType DEF PowerLoss, TypeOK
  <2> QED BY <1>4, <2>1, <2>2, <2>3 DEF PowerLoss, TypeOK
<1>5. ASSUME RemoveDb
      PROVE  TypeOK'
  <2>1. db' \in Database /\ faults' \in Nat
    BY <1>5, FreshDbType, FaultType DEF RemoveDb, TypeOK
  <2> QED BY <1>5, <2>1 DEF RemoveDb, Locked, TypeOK, ghostVars
<1>6. CASE UNCHANGED vars
  BY <1>6 DEF vars, TypeOK
<1> QED BY <1>1, <1>2, <1>3, <1>4, <1>5, <1>6,
           RecoveryType, RebuildType, WriteType, CompactType DEF Next

(* Every variable keeps its type, for any number of processes, keys,       *)
(* events, generations and faults.                                         *)
THEOREM TypeCorrect == Spec => []TypeOK
<1>1. Init => TypeOK
  BY TypeInit
<1>2. TypeOK /\ [Next]_vars => TypeOK'
  BY TypeStep
<1> QED BY <1>1, <1>2, PTL DEF Spec

-----------------------------------------------------------------------------
(* Mutual exclusion.  The program counters at which a process relies on    *)
(* holding the repository lock.                                            *)

Holding == {"replaying", "swap", "swapSync", "sync", "apply", "rename", "renameSync"}

LockInv == \A p \in Procs : proc[p].pc \in Holding => lock = p

\* p goes to one of the labels L, and no other process moves.
Moves(p, L) == proc'[p].pc \in L /\ \A q \in Procs \ {p} : proc'[q] = proc[q]

\* p enters Holding only with the lock, which it takes when it is free and
\* gives back when it has it.
LockStep(p) ==
    /\ Moves(p, PCs)
    /\ proc'[p].pc \in Holding => lock' = p
    /\ lock' = lock \/ (lock = NoProc /\ lock' = p) \/ (lock = p /\ lock' = NoProc)

LEMMA LockStepKeeps ==
    ASSUME TypeOK, LockInv, NEW p \in Procs, LockStep(p)
    PROVE  LockInv'
BY DurabilityAssumption DEF LockInv, LockStep, Moves

(* Where the building blocks leave a process.                              *)
LEMMA BecomeMoves ==
    ASSUME TypeOK, NEW p \in Procs, NEW local, Become(p, local)
    PROVE  proc'[p] = local /\ \A q \in Procs \ {p} : proc'[q] = proc[q]
BY DEF Become, TypeOK

LEMMA StopMoves ==
    ASSUME TypeOK, NEW p \in Procs, Stop(p)
    PROVE  Moves(p, {"idle"})
BY BecomeMoves DEF Stop, Resting, Moves

LEMMA ProceedMoves ==
    ASSUME TypeOK, NEW p \in Procs, Proceed(p)
    PROVE  Moves(p, {"idle", "write", "compact"})
<1>1. CASE proc[p].cmd \in {"write", "compact"}
  <2>1. proc'[p] = [Resting EXCEPT !.pc = proc[p].cmd, !.cmd = proc[p].cmd]
    BY <1>1, BecomeMoves DEF Proceed
  <2>2. proc'[p].pc = proc[p].cmd
    BY <2>1 DEF Resting
  <2> QED BY <1>1, <2>2, BecomeMoves DEF Proceed, Moves
<1>2. CASE proc[p].cmd \notin {"write", "compact"}
  BY <1>2, BecomeMoves DEF Proceed, Resting, Moves
<1> QED BY <1>1, <1>2

LEMMA GotoMoves ==
    ASSUME TypeOK, NEW p \in Procs, NEW l, Goto(p, l)
    PROVE  Moves(p, {l}) /\ proc'[p].batch = proc[p].batch
<1>1. [proc[p] EXCEPT !.pc = l].pc = l /\ [proc[p] EXCEPT !.pc = l].batch = proc[p].batch
  BY DEF TypeOK, Local
<1> QED BY <1>1, BecomeMoves DEF Goto, Moves

(* A step of p that ends its hold on the lock, if it had one.              *)
Leaves(p) ==
    /\ Moves(p, PCs \ Holding)
    /\ lock' = lock \/ (lock = p /\ lock' = NoProc)

LEMMA LeavesStep ==
    ASSUME NEW p \in Procs, Leaves(p)
    PROVE  LockStep(p)
BY DEF Leaves, LockStep, Moves

LEMMA RecoveryLock ==
    ASSUME TypeOK, LockInv, NEW p \in Procs, Recovery(p)
    PROVE  LockInv'
<1> USE DEF At, Moves, PCs, Holding
<1>1. CASE InspectCursor(p)
  <2>1. CASE Become(p, [proc[p] EXCEPT !.pc = "inspectLog", !.seen = db.cur])
    <3>1. [proc[p] EXCEPT !.pc = "inspectLog", !.seen = db.cur].pc = "inspectLog"
      BY DEF TypeOK, Local
    <3> QED BY <1>1, <2>1, <3>1, BecomeMoves, LeavesStep, LockStepKeeps DEF InspectCursor, Leaves
  <2> QED BY <1>1, <2>1, ProceedMoves, LeavesStep, LockStepKeeps DEF InspectCursor, Leaves
<1>2. CASE InspectLog(p)
  BY <1>2, ProceedMoves, GotoMoves, LeavesStep, LockStepKeeps DEF InspectLog, Leaves
<1>3. CASE ReplayLock(p)
  BY <1>3, GotoMoves, LockStepKeeps DEF ReplayLock, Acquire, LockStep
<1>4. CASE ReplayNothing(p) \/ ReplayCommit(p)
  BY <1>4, ProceedMoves, LeavesStep, LockStepKeeps DEF ReplayNothing, ReplayCommit, Release, Leaves
<1>5. CASE ReplayFail(p)
  BY <1>5 DEF ReplayFail, LockInv
<1>6. CASE FlightLock(p) \/ RecheckGoOn(p)
  BY <1>6, GotoMoves, LeavesStep, LockStepKeeps DEF FlightLock, RecheckGoOn, Locked, Leaves
<1>7. CASE RecheckDone(p)
  BY <1>7, ProceedMoves, LeavesStep, LockStepKeeps DEF RecheckDone, Locked, Leaves
<1>8. CASE CoverageGoOn(p)
  <2>1. [proc[p] EXCEPT !.pc = "snapshot", !.tries = 1].pc = "snapshot"
    BY DEF TypeOK, Local
  <2> QED BY <1>8, <2>1, BecomeMoves, LeavesStep, LockStepKeeps DEF CoverageGoOn, Leaves
<1>9. CASE CoverageDefer(p)
  BY <1>9, StopMoves, ProceedMoves, LeavesStep, LockStepKeeps DEF CoverageDefer, Leaves
<1> QED BY <1>1, <1>2, <1>3, <1>4, <1>5, <1>6, <1>7, <1>8, <1>9 DEF Recovery

LEMMA RebuildLock ==
    ASSUME TypeOK, LockInv, NEW p \in Procs, RebuildStep(p)
    PROVE  LockInv'
<1> USE DEF At, Moves, PCs, Holding
<1>0. AbortRebuild(p) => Moves(p, {"idle", "write", "compact"})
  BY StopMoves, ProceedMoves DEF AbortRebuild
<1>1. CASE Snapshot(p)
  <2>1. [proc[p] EXCEPT !.pc = "scratch", !.snap = log].pc = "scratch"
    BY DEF TypeOK, Local
  <2> QED BY <1>1, <2>1, BecomeMoves, LeavesStep, LockStepKeeps DEF Snapshot, Locked, Leaves
<1>2. CASE Scratch(p)
  <2> DEFINE made == Materialize(ScratchSource(p), Quarantined)
  <2> HIDE DEF made
  <2>1. [proc[p] EXCEPT !.pc = "catchup", !.tmp = made].pc = "catchup"
    BY DEF TypeOK, Local
  <2>2. Become(p, [proc[p] EXCEPT !.pc = "catchup", !.tmp = made])
    BY <1>2 DEF Scratch, made
  <2>3. UNCHANGED lock
    BY <1>2 DEF Scratch
  <2> QED BY <2>1, <2>2, <2>3, BecomeMoves, LeavesStep, LockStepKeeps DEF Leaves
<1>3. CASE ScratchFail(p) \/ CatchupFail(p)
  BY <1>0, <1>3, LeavesStep, LockStepKeeps DEF ScratchFail, CatchupFail, Locked, Leaves
<1>4. CASE Restart(p)
  <2> DEFINE again == [proc[p] EXCEPT !.pc = "snapshot", !.tries = @ + 1,
                                      !.snap = <<>>, !.tmp = EmptyRows]
  <2>1. again.pc = "snapshot"
    BY DEF TypeOK, Local
  <2>2. Become(p, again) \/ AbortRebuild(p)
    BY <1>4 DEF Restart
  <2>3. UNCHANGED lock
    BY <1>4 DEF Restart, Locked
  <2> HIDE DEF again
  <2> QED BY <1>0, <2>1, <2>2, <2>3, BecomeMoves, LeavesStep, LockStepKeeps DEF Leaves
<1>5. CASE Catchup(p)
  <2> DEFINE rows == ApplyAll(proc[p].tmp, CatchupEvents(p), Quarantined)
  <2>1. Become(p, [proc[p] EXCEPT !.pc = "swap", !.tmp = rows])
    BY <1>5 DEF Catchup, TypeOK, Local
  <2>2. Acquire(p)
    BY <1>5 DEF Catchup
  <2> HIDE DEF rows
  <2>3. [proc[p] EXCEPT !.pc = "swap", !.tmp = rows].pc = "swap"
    BY DEF TypeOK, Local
  <2> QED BY <2>1, <2>2, <2>3, BecomeMoves, LockStepKeeps DEF Acquire, LockStep
<1>6. CASE SwapBusy(p) \/ SwapSyncFail(p)
  BY <1>0, <1>6, LeavesStep, LockStepKeeps DEF SwapBusy, SwapSyncFail, Release, Leaves
<1>7. CASE Swap(p)
  BY <1>7, GotoMoves, LockStepKeeps DEF Swap, LockStep, LockInv
<1>8. CASE SwapSync(p)
  BY <1>8, ProceedMoves, LeavesStep, LockStepKeeps DEF SwapSync, Release, Leaves
<1> QED BY <1>1, <1>2, <1>3, <1>4, <1>5, <1>6, <1>7, <1>8 DEF RebuildStep

LEMMA WriteLock ==
    ASSUME TypeOK, LockInv, NEW p \in Procs, Write(p) \/ Compact(p)
    PROVE  LockInv'
<1> USE DEF At, Moves, PCs, Holding
<1>1. CASE WriteRefuse(p) \/ WriteNothing(p) \/ CompactRefuse(p)
  <2>1. Stop(p) /\ UNCHANGED lock
    BY <1>1 DEF WriteRefuse, WriteNothing, CompactRefuse, Locked
  <2> QED BY <2>1, StopMoves, LeavesStep, LockStepKeeps DEF Leaves
<1>2. CASE AppendBatch(p)
  <2>1. PICK batch \in Batches : Become(p, [proc[p] EXCEPT !.pc = "sync", !.batch = batch])
    BY <1>2 DEF AppendBatch
  <2>2. [proc[p] EXCEPT !.pc = "sync", !.batch = batch].pc = "sync"
    BY DEF TypeOK, Local
  <2>3. Acquire(p)
    BY <1>2 DEF AppendBatch
  <2> QED BY <2>1, <2>2, <2>3, BecomeMoves, LockStepKeeps DEF Acquire, LockStep
<1>3. CASE SyncLog(p) \/ CompactRename(p)
  BY <1>3, GotoMoves, LockStepKeeps DEF SyncLog, CompactRename, LockStep, LockInv
<1>4. CASE CompactBump(p)
  BY <1>4, GotoMoves, LockStepKeeps DEF CompactBump, Acquire, LockStep
<1>5. CASE SyncLogFail(p) \/ ApplyBatch(p) \/ ApplyBatchFail(p) \/ CompactSync(p)
           \/ CompactSyncFail(p)
  BY <1>5, StopMoves, LeavesStep, LockStepKeeps
     DEF SyncLogFail, ApplyBatch, ApplyBatchFail, CompactSync, CompactSyncFail, Release, Leaves
<1> QED BY <1>1, <1>2, <1>3, <1>4, <1>5 DEF Write, Compact

LEMMA LockStays == TypeOK /\ LockInv /\ [Next]_vars => LockInv'
<1> SUFFICES ASSUME TypeOK, LockInv, [Next]_vars PROVE LockInv'
  OBVIOUS
<1>1. ASSUME NEW p \in Procs, NEW c \in {"write", "compact", "recover"}, Begin(p, c)
      PROVE  LockInv'
  <2>1. [Resting EXCEPT !.pc = "inspectCursor", !.cmd = c].pc = "inspectCursor"
    BY DEF Resting
  <2> QED BY <1>1, <2>1, BecomeMoves, LeavesStep, LockStepKeeps
          DEF Begin, Locked, Leaves, Moves, PCs, Holding
<1>2. ASSUME NEW p \in Procs, BeginRebuild(p)
      PROVE  LockInv'
  <2>1. [Resting EXCEPT !.pc = "snapshot", !.cmd = "rebuild", !.tries = 1].pc = "snapshot"
    BY DEF Resting
  <2> QED BY <1>2, <2>1, BecomeMoves, LeavesStep, LockStepKeeps
          DEF BeginRebuild, Leaves, Moves, PCs, Holding
<1>3. ASSUME NEW p \in Procs, Recovery(p) \/ RebuildStep(p) \/ Write(p) \/ Compact(p)
      PROVE  LockInv'
  BY <1>3, RecoveryLock, RebuildLock, WriteLock
<1>4. ASSUME NEW p \in Procs, Kill(p)
      PROVE  LockInv'
  BY <1>4, StopMoves, LeavesStep, LockStepKeeps DEF Kill, Leaves, Moves, PCs, Holding
<1>5. CASE PowerLoss
  BY <1>5 DEF PowerLoss, LockInv, Resting, Holding
<1>6. CASE RemoveDb
  BY <1>6 DEF RemoveDb, Locked, LockInv
<1>7. CASE UNCHANGED vars
  BY <1>7 DEF vars, LockInv
<1> QED BY <1>1, <1>2, <1>3, <1>4, <1>5, <1>6, <1>7 DEF Next

(* At most one process is inside the regions the repository lock protects, *)
(* whatever is killed and wherever power is lost: a replay, a swap, an     *)
(* append with its apply and a compaction never overlap.                   *)
THEOREM MutualExclusion == Spec => []LockInv
<1>1. Init => LockInv
  BY DEF Init, LockInv, Resting, Holding
<1>2. LockInv /\ TypeOK /\ [Next]_vars => LockInv'
  BY LockStays
<1> QED BY <1>1, <1>2, TypeCorrect, PTL DEF Spec

-----------------------------------------------------------------------------
(* Durability.  Why no acknowledged event is ever lost.  The history on    *)
(* disk is part of the history in the page cache.  A batch whose log was   *)
(* synced is on disk, unless a compaction left the name of that log        *)
(* unsynced; then whoever syncs the directory next brings all of it to     *)
(* disk, and at the latest that is the commit which applies the batch.     *)

DiskWithinHistory == EventIds(disk.history) \subseteq EventIds(history)

AckedOnDisk == acked \subseteq EventIds(disk.history)

BatchLogged(p) ==
    /\ proc[p].pc \in {"sync", "apply"} => EventIds(proc[p].batch) \subseteq EventIds(history)
    /\ proc[p].pc = "apply" /\ "log" \notin pending =>
          EventIds(proc[p].batch) \subseteq EventIds(disk.history)

AckedInv ==
    /\ DiskWithinHistory
    /\ AckedOnDisk
    /\ \A p \in Procs : BatchLogged(p)

LEMMA EventIdsConcat ==
    ASSUME NEW s \in Seq(Event), NEW t \in Seq(Event)
    PROVE  EventIds(s) \subseteq EventIds(s \o t) /\ EventIds(t) \subseteq EventIds(s \o t)
<1>1. Len(s) \in Nat /\ Len(t) \in Nat
  BY LenProperties
<1>2. \A i \in DOMAIN s : i \in DOMAIN (s \o t) /\ (s \o t)[i] = s[i]
  BY <1>1
<1>3. \A i \in DOMAIN t : Len(s) + i \in DOMAIN (s \o t) /\ (s \o t)[Len(s) + i] = t[i]
  BY <1>1
<1>4. EventIds(s) \subseteq EventIds(s \o t)
  BY <1>2 DEF EventIds
<1>5. EventIds(t) \subseteq EventIds(s \o t)
  BY <1>3 DEF EventIds
<1> QED BY <1>4, <1>5

(* What a step leaves on disk of the history: what was there, or, when the *)
(* directory is synced under a renamed log, all of it.                     *)
HistoryKept ==
    \/ disk'.history = disk.history /\ ("log" \in pending => "log" \in pending')
    \/ disk'.history = history /\ "log" \in pending

LEMMA CommitDisk ==
    ASSUME TypeOK, NEW d, Commit(d) \/ Settle(d)
    PROVE  HistoryKept
BY DEF Commit, Settle, DirSynced, Disk, TypeOK, HistoryKept

LEMMA SyncDirDisk ==
    ASSUME SyncDir
    PROVE  HistoryKept
BY DEF SyncDir, DirSynced, HistoryKept

LEMMA DiskGrows ==
    ASSUME AckedInv, HistoryKept
    PROVE  EventIds(disk.history) \subseteq EventIds(disk'.history)
BY DEF HistoryKept, AckedInv, DiskWithinHistory

(* A step of p that brings no batch into play, and at most moves the       *)
(* history to disk.                                                        *)
QuietStep(p) ==
    /\ Moves(p, PCs \ {"sync", "apply"})
    /\ UNCHANGED <<acked, history>>
    /\ HistoryKept

LEMMA QuietKeeps ==
    ASSUME TypeOK, AckedInv, NEW p \in Procs, QuietStep(p)
    PROVE  AckedInv'
<1>1. EventIds(disk.history) \subseteq EventIds(disk'.history)
  BY DiskGrows DEF QuietStep
<1>2. DiskWithinHistory'
  BY DEF QuietStep, HistoryKept, AckedInv, DiskWithinHistory
<1>3. AckedOnDisk'
  BY <1>1 DEF QuietStep, AckedInv, AckedOnDisk
<1>4. ASSUME NEW q \in Procs PROVE BatchLogged(q)'
  <2>1. CASE q = p
    BY <2>1 DEF QuietStep, Moves, BatchLogged
  <2>2. CASE q # p
    BY <2>2 DEF QuietStep, HistoryKept, Moves, AckedInv, BatchLogged
  <2> QED BY <2>1, <2>2
<1> QED BY <1>2, <1>3, <1>4 DEF AckedInv

LEMMA RecoveryAcked ==
    ASSUME TypeOK, AckedInv, NEW p \in Procs, Recovery(p)
    PROVE  AckedInv'
<1> USE DEF At, Moves, PCs, fileVars, ghostVars, QuietStep, HistoryKept
<1>0. disk \in Disk
  BY DEF TypeOK
<1>1. CASE InspectCursor(p)
  <2>1. CASE Become(p, [proc[p] EXCEPT !.pc = "inspectLog", !.seen = db.cur])
    <3>1. [proc[p] EXCEPT !.pc = "inspectLog", !.seen = db.cur].pc = "inspectLog"
      BY DEF TypeOK, Local
    <3> QED BY <1>1, <2>1, <3>1, BecomeMoves, QuietKeeps DEF InspectCursor
  <2>2. CASE Proceed(p)
    BY <1>1, <2>2, ProceedMoves, QuietKeeps DEF InspectCursor
  <2> QED BY <1>1, <2>1, <2>2 DEF InspectCursor
<1>2. CASE InspectLog(p)
  BY <1>2, ProceedMoves, GotoMoves, QuietKeeps DEF InspectLog
<1>3. CASE ReplayLock(p)
  BY <1>0, <1>3, CommitDisk, GotoMoves, QuietKeeps DEF ReplayLock
<1>4. CASE ReplayNothing(p)
  BY <1>4, ProceedMoves, QuietKeeps DEF ReplayNothing
<1>5. CASE ReplayCommit(p)
  BY <1>0, <1>5, CommitDisk, ProceedMoves, QuietKeeps DEF ReplayCommit
<1>6. CASE ReplayFail(p)
  BY <1>6, SyncDirDisk, QuietKeeps DEF ReplayFail
<1>7. CASE FlightLock(p)
  BY <1>7, GotoMoves, QuietKeeps DEF FlightLock
<1>8. CASE RecheckDone(p)
  <2>1. PICK d : Settle(d)
    BY <1>8 DEF RecheckDone
  <2>2. Proceed(p) /\ UNCHANGED <<acked, history>>
    BY <1>8 DEF RecheckDone
  <2> QED BY <1>0, <2>1, <2>2, CommitDisk, ProceedMoves, QuietKeeps
<1>9. CASE RecheckGoOn(p)
  BY <1>0, <1>9, CommitDisk, GotoMoves, QuietKeeps DEF RecheckGoOn
<1>10. CASE CoverageGoOn(p)
  <2>1. [proc[p] EXCEPT !.pc = "snapshot", !.tries = 1].pc = "snapshot"
    BY DEF TypeOK, Local
  <2> QED BY <1>10, <2>1, BecomeMoves, QuietKeeps DEF CoverageGoOn
<1>11. CASE CoverageDefer(p)
  BY <1>11, StopMoves, ProceedMoves, QuietKeeps DEF CoverageDefer
<1> QED BY <1>1, <1>2, <1>3, <1>4, <1>5, <1>6, <1>7, <1>8, <1>9, <1>10, <1>11 DEF Recovery

LEMMA RebuildAcked ==
    ASSUME TypeOK, AckedInv, NEW p \in Procs, RebuildStep(p)
    PROVE  AckedInv'
<1> USE DEF At, Moves, PCs, fileVars, ghostVars, QuietStep, HistoryKept
<1>0. AbortRebuild(p) => Moves(p, {"idle", "write", "compact"})
  BY StopMoves, ProceedMoves DEF AbortRebuild
<1>1. CASE Snapshot(p)
  <2>1. [proc[p] EXCEPT !.pc = "scratch", !.snap = log].pc = "scratch"
    BY DEF TypeOK, Local
  <2>2. HistoryKept
    BY <1>1, CommitDisk DEF Snapshot
  <2> QED BY <1>1, <2>1, <2>2, BecomeMoves, QuietKeeps DEF Snapshot
<1>2. CASE Scratch(p)
  <2> DEFINE made == Materialize(ScratchSource(p), Quarantined)
  <2>1. Become(p, [proc[p] EXCEPT !.pc = "catchup", !.tmp = made]) /\ proc[p].pc = "scratch"
    BY <1>2 DEF Scratch
  <2>2. UNCHANGED <<disk, pending, acked, history>>
    BY <1>2 DEF Scratch
  <2> HIDE DEF made
  <2>3. [proc[p] EXCEPT !.pc = "catchup", !.tmp = made].pc = "catchup"
    BY DEF TypeOK, Local
  <2> QED BY <2>1, <2>2, <2>3, BecomeMoves, QuietKeeps
<1>3. CASE ScratchFail(p) \/ CatchupFail(p)
  <2>1. AbortRebuild(p) /\ HistoryKept /\ UNCHANGED <<acked, history>>
    BY <1>3 DEF ScratchFail, CatchupFail, HistoryKept
  <2> QED BY <1>0, <2>1, QuietKeeps
<1>4. CASE Restart(p)
  <2> DEFINE again == [proc[p] EXCEPT !.pc = "snapshot", !.tries = @ + 1,
                                      !.snap = <<>>, !.tmp = EmptyRows]
  <2>1. again.pc = "snapshot"
    BY DEF TypeOK, Local
  <2>2. Become(p, again) \/ AbortRebuild(p)
    BY <1>4 DEF Restart
  <2>3. proc[p].pc = "catchup" /\ UNCHANGED <<disk, pending, acked, history>>
    BY <1>4 DEF Restart
  <2> HIDE DEF again
  <2> QED BY <1>0, <2>1, <2>2, <2>3, BecomeMoves, QuietKeeps
<1>5. CASE Catchup(p)
  <2> DEFINE rows == ApplyAll(proc[p].tmp, CatchupEvents(p), Quarantined)
  <2>1. Become(p, [proc[p] EXCEPT !.pc = "swap", !.tmp = rows])
    BY <1>5 DEF Catchup, TypeOK, Local
  <2>2. proc[p].pc = "catchup" /\ UNCHANGED <<disk, pending, acked, history>>
    BY <1>5 DEF Catchup
  <2> HIDE DEF rows
  <2>3. [proc[p] EXCEPT !.pc = "swap", !.tmp = rows].pc = "swap"
    BY DEF TypeOK, Local
  <2> QED BY <2>1, <2>2, <2>3, BecomeMoves, QuietKeeps
<1>6. CASE SwapBusy(p) \/ SwapSyncFail(p)
  <2>1. AbortRebuild(p) /\ HistoryKept /\ UNCHANGED <<acked, history>>
    BY <1>6 DEF SwapBusy, SwapSyncFail, HistoryKept
  <2> QED BY <1>0, <2>1, QuietKeeps
<1>7. CASE Swap(p)
  BY <1>7, GotoMoves, QuietKeeps DEF Swap
<1>8. CASE SwapSync(p)
  BY <1>8, SyncDirDisk, ProceedMoves, QuietKeeps DEF SwapSync
<1> QED BY <1>1, <1>2, <1>3, <1>4, <1>5, <1>6, <1>7, <1>8 DEF RebuildStep

LEMMA AppendAcked ==
    ASSUME TypeOK, AckedInv, NEW p \in Procs, AppendBatch(p)
    PROVE  AckedInv'
<1>1. PICK batch \in Batches :
        /\ log' = log \o batch
        /\ history' = history \o batch
        /\ nextId' = nextId + Len(batch)
        /\ Become(p, [proc[p] EXCEPT !.pc = "sync", !.batch = batch])
  BY DEF AppendBatch
<1>2. EventIds(history) \subseteq EventIds(history') /\ EventIds(batch) \subseteq EventIds(history')
  BY <1>1, BatchesType, EventIdsConcat DEF TypeOK
<1>3. HistoryKept /\ UNCHANGED acked
  BY CommitDisk DEF AppendBatch
<1>4. /\ [proc[p] EXCEPT !.pc = "sync", !.batch = batch].pc = "sync"
      /\ [proc[p] EXCEPT !.pc = "sync", !.batch = batch].batch = batch
  BY DEF TypeOK, Local
<1>5. /\ proc'[p].pc = "sync" /\ proc'[p].batch = batch
      /\ \A q \in Procs \ {p} : proc'[q] = proc[q]
  BY <1>1, <1>4, BecomeMoves
<1>6. DiskWithinHistory'
  BY <1>2, <1>3 DEF HistoryKept, AckedInv, DiskWithinHistory
<1>7. AckedOnDisk'
  BY <1>3, DiskGrows DEF AckedInv, AckedOnDisk
<1>8. ASSUME NEW q \in Procs PROVE BatchLogged(q)'
  <2>1. CASE q = p
    BY <1>2, <1>5, <2>1 DEF BatchLogged
  <2>2. CASE q # p
    BY <1>2, <1>3, <1>5, <2>2 DEF HistoryKept, AckedInv, BatchLogged
  <2> QED BY <2>1, <2>2
<1> QED BY <1>6, <1>7, <1>8 DEF AckedInv

LEMMA SyncLogAcked ==
    ASSUME TypeOK, AckedInv, NEW p \in Procs, SyncLog(p)
    PROVE  AckedInv'
<1>1. proc[p].pc = "sync" /\ UNCHANGED <<pending, acked, history>>
  BY DEF SyncLog, At, ghostVars
<1>2. disk'.history = IF "log" \in pending THEN disk.history ELSE history
  BY DEF SyncLog, TypeOK, Disk
<1>3. EventIds(disk.history) \subseteq EventIds(disk'.history)
  BY <1>2 DEF AckedInv, DiskWithinHistory
<1>4. Moves(p, {"apply"}) /\ proc'[p].batch = proc[p].batch
  BY GotoMoves DEF SyncLog
<1>5. DiskWithinHistory' /\ AckedOnDisk'
  BY <1>1, <1>2, <1>3 DEF AckedInv, DiskWithinHistory, AckedOnDisk
<1>6. ASSUME NEW q \in Procs PROVE BatchLogged(q)'
  BY <1>1, <1>2, <1>4 DEF AckedInv, BatchLogged, Moves
<1> QED BY <1>5, <1>6 DEF AckedInv

(* The commit that applies the batch syncs the directory: from then on the *)
(* batch is on disk whatever a compaction left behind.                     *)
LEMMA ApplyAcked ==
    ASSUME TypeOK, AckedInv, NEW p \in Procs, ApplyBatch(p)
    PROVE  AckedInv'
<1>1. /\ proc[p].pc = "apply" /\ UNCHANGED history
      /\ acked' = acked \cup EventIds(proc[p].batch)
  BY DEF ApplyBatch, At
<1>2. /\ pending' = {}
      /\ disk'.history = IF "log" \in pending THEN history ELSE disk.history
  BY DEF ApplyBatch, Commit, DirSynced
<1>3. Moves(p, {"idle"})
  BY StopMoves DEF ApplyBatch
<1>4. EventIds(disk.history) \subseteq EventIds(disk'.history)
  BY <1>2 DEF AckedInv, DiskWithinHistory
<1>5. DiskWithinHistory'
  BY <1>1, <1>2 DEF AckedInv, DiskWithinHistory
<1>6. AckedOnDisk'
  <2>1. EventIds(proc[p].batch) \subseteq EventIds(disk'.history)
    BY <1>1, <1>2 DEF AckedInv, BatchLogged
  <2> QED BY <1>1, <1>4, <2>1 DEF AckedInv, AckedOnDisk
<1>7. ASSUME NEW q \in Procs PROVE BatchLogged(q)'
  BY <1>1, <1>2, <1>3, <1>4 DEF AckedInv, BatchLogged, Moves
<1> QED BY <1>5, <1>6, <1>7 DEF AckedInv

LEMMA WriteAcked ==
    ASSUME TypeOK, AckedInv, NEW p \in Procs, Write(p) \/ Compact(p)
    PROVE  AckedInv'
<1> USE DEF At, Moves, PCs, fileVars, ghostVars, QuietStep, HistoryKept
<1>1. CASE WriteRefuse(p) \/ WriteNothing(p)
  <2>1. PICK d : Settle(d)
    BY <1>1 DEF WriteRefuse, WriteNothing
  <2>2. Stop(p) /\ UNCHANGED <<acked, history>>
    BY <1>1 DEF WriteRefuse, WriteNothing
  <2> QED BY <2>1, <2>2, CommitDisk, StopMoves, QuietKeeps
<1>2. CASE SyncLogFail(p) \/ ApplyBatchFail(p) \/ CompactRefuse(p) \/ CompactSyncFail(p)
  <2>1. Stop(p) /\ HistoryKept /\ UNCHANGED <<acked, history>>
    BY <1>2 DEF SyncLogFail, ApplyBatchFail, CompactRefuse, CompactSyncFail, HistoryKept
  <2> QED BY <2>1, StopMoves, QuietKeeps
<1>3. CASE CompactBump(p)
  BY <1>3, SyncDirDisk, GotoMoves, QuietKeeps DEF CompactBump
<1>4. CASE CompactRename(p)
  BY <1>4, GotoMoves, QuietKeeps DEF CompactRename, HistoryKept
<1>5. CASE CompactSync(p)
  BY <1>5, SyncDirDisk, StopMoves, QuietKeeps DEF CompactSync
<1> QED BY <1>1, <1>2, <1>3, <1>4, <1>5, AppendAcked, SyncLogAcked, ApplyAcked
        DEF Write, Compact

LEMMA AckedStays ==
    ASSUME TypeOK, AckedInv, [Next]_vars
    PROVE  AckedInv'
<1> USE DEF At, Moves, PCs, fileVars, ghostVars, QuietStep, HistoryKept
<1>1. ASSUME NEW p \in Procs, NEW c \in {"write", "compact", "recover"}, Begin(p, c)
      PROVE  AckedInv'
  <2>1. [Resting EXCEPT !.pc = "inspectCursor", !.cmd = c].pc = "inspectCursor"
    BY DEF Resting
  <2>2. HistoryKept
    BY <1>1, CommitDisk DEF Begin
  <2> QED BY <1>1, <2>1, <2>2, BecomeMoves, QuietKeeps DEF Begin
<1>2. ASSUME NEW p \in Procs, BeginRebuild(p)
      PROVE  AckedInv'
  <2>1. [Resting EXCEPT !.pc = "snapshot", !.cmd = "rebuild", !.tries = 1].pc = "snapshot"
    BY DEF Resting
  <2> QED BY <1>2, <2>1, BecomeMoves, QuietKeeps DEF BeginRebuild
<1>3. ASSUME NEW p \in Procs, Recovery(p) \/ RebuildStep(p) \/ Write(p) \/ Compact(p)
      PROVE  AckedInv'
  BY <1>3, RecoveryAcked, RebuildAcked, WriteAcked
<1>4. ASSUME NEW p \in Procs, Kill(p)
      PROVE  AckedInv'
  BY <1>4, StopMoves, QuietKeeps DEF Kill, HistoryKept
<1>5. CASE PowerLoss
  <2>1. /\ history' \in {history, disk.history} /\ disk'.history = history'
        /\ pending' = {} /\ acked' = acked
        /\ \A q \in Procs : proc'[q].pc = "idle"
    BY <1>5 DEF PowerLoss, Resting
  <2>2. acked \subseteq EventIds(history')
    BY <2>1 DEF AckedInv, AckedOnDisk, DiskWithinHistory
  <2> QED BY <2>1, <2>2
          DEF AckedInv, DiskWithinHistory, AckedOnDisk, BatchLogged
<1>6. CASE RemoveDb
  BY <1>6 DEF RemoveDb, AckedInv, DiskWithinHistory, AckedOnDisk, BatchLogged
<1>7. CASE UNCHANGED vars
  BY <1>7 DEF vars, AckedInv, DiskWithinHistory, AckedOnDisk, BatchLogged
<1> QED BY <1>1, <1>2, <1>3, <1>4, <1>5, <1>6, <1>7 DEF Next

LEMMA AckedInit == Init => AckedInv
<1> SUFFICES ASSUME Init PROVE AckedInv
  OBVIOUS
<1>1. disk.history = history \/ disk.history = <<>>
  BY DEF Init
<1>2. EventIds(disk.history) \subseteq EventIds(history)
  BY <1>1 DEF EventIds
<1>3. acked = {} /\ \A p \in Procs : proc[p].pc = "idle"
  BY DEF Init, Resting
<1> QED BY <1>2, <1>3 DEF AckedInv, DiskWithinHistory, AckedOnDisk, BatchLogged

(* What a command reported as done is in the history, through any number   *)
(* of kills, failed syncs, failed applies, deleted databases and power     *)
(* losses, in any number of processes.                                     *)
THEOREM AckedSafe == Spec => []AckedSurvives
<1>1. Init => AckedInv
  BY AckedInit
<1>2. AckedInv /\ TypeOK /\ [Next]_vars => AckedInv'
  BY AckedStays
<1>3. AckedInv => AckedSurvives
  BY DEF AckedInv, AckedOnDisk, DiskWithinHistory, AckedSurvives
<1> QED BY <1>1, <1>2, <1>3, TypeCorrect, PTL DEF Spec

(***************************************************************************)
(* Why a cursor can be believed although its fingerprint covers only two   *)
(* windows of the log and nobody re-reads the middle; why compaction and   *)
(* crashes leave what the log tells unchanged; and why the whole implements *)
(* DurableKb.                                                              *)
(***************************************************************************)

-----------------------------------------------------------------------------
(* What the log tells.  Compaction, and a power loss around it, may change *)
(* the log but not what it says of any entry.                              *)

Tells(s, h) == Visible(Materialize(s, {})) = Visible(Materialize(h, {}))

TellInv == Tells(log, history) /\ Tells(disk.log, disk.history)

(* The same batch appended to logs that tell the same. *)
LEMMA TellsAppended ==
    ASSUME NEW s \in Seq(Event), NEW h \in Seq(Event), NEW b \in Seq(Event), Tells(s, h)
    PROVE  Tells(s \o b, h \o b)
<1>1. Merges(s, {}, b, {}, {}) /\ Merges(h, {}, b, {}, {})
  BY DEF Merges
<1>2. /\ Materialize(s \o b, {}) = ApplyAll(Materialize(s, {}), b, {})
      /\ Materialize(h \o b, {}) = ApplyAll(Materialize(h, {}), b, {})
  BY <1>1, ConcatApply DEF Materialize
<1> QED BY <1>2, LooksStay DEF Tells

(* The log on disk, and the history that goes with it, are those of before *)
(* or those of the page cache.                                             *)
LogMoves ==
    \/ disk'.log = disk.log /\ disk'.history = disk.history
    \/ disk'.log = log /\ disk'.history = history

LEMMA CommitLog ==
    ASSUME TypeOK, NEW d, Commit(d) \/ Settle(d) \/ SyncDir
    PROVE  LogMoves
BY DEF Commit, Settle, SyncDir, DirSynced, Disk, TypeOK, LogMoves

LEMMA TellQuiet ==
    ASSUME TellInv, UNCHANGED <<log, history>>, LogMoves
    PROVE  TellInv'
BY DEF TellInv, LogMoves, Tells

(* Every step but an append, a compaction and a power loss leaves log and  *)
(* history alone, or brings them to disk.                                  *)
LEMMA RecoveryLog ==
    ASSUME TypeOK, NEW p \in Procs, Recovery(p) \/ RebuildStep(p)
    PROVE  UNCHANGED <<log, history>> /\ LogMoves
<1>0. UNCHANGED disk => LogMoves
  BY DEF LogMoves
<1>1. CASE InspectCursor(p) \/ InspectLog(p) \/ ReplayNothing(p) \/ FlightLock(p)
           \/ CoverageGoOn(p) \/ CoverageDefer(p)
  BY <1>0, <1>1 DEF InspectCursor, InspectLog, ReplayNothing, FlightLock, CoverageGoOn,
                    CoverageDefer, fileVars, ghostVars
<1>2. CASE ReplayLock(p)
  BY <1>2, CommitLog DEF ReplayLock, ghostVars
<1>3. CASE ReplayCommit(p)
  BY <1>3, CommitLog DEF ReplayCommit, ghostVars
<1>4. CASE ReplayFail(p)
  BY <1>4, CommitLog DEF ReplayFail, ghostVars
<1>5. CASE RecheckDone(p)
  BY <1>5, CommitLog DEF RecheckDone, ghostVars
<1>6. CASE RecheckGoOn(p)
  BY <1>6, CommitLog DEF RecheckGoOn, ghostVars
<1>7. CASE Snapshot(p)
  BY <1>7, CommitLog DEF Snapshot, ghostVars
<1>8. CASE Scratch(p) \/ ScratchFail(p) \/ Restart(p) \/ Catchup(p) \/ CatchupFail(p)
           \/ SwapBusy(p) \/ Swap(p) \/ SwapSyncFail(p)
  BY <1>0, <1>8 DEF Scratch, ScratchFail, Restart, Catchup, CatchupFail, SwapBusy, Swap,
                    SwapSyncFail, fileVars, ghostVars
<1>9. CASE SwapSync(p)
  BY <1>9, CommitLog DEF SwapSync, ghostVars
<1> QED BY <1>1, <1>2, <1>3, <1>4, <1>5, <1>6, <1>7, <1>8, <1>9 DEF Recovery, RebuildStep

LEMMA WriteLog ==
    ASSUME TypeOK, NEW p \in Procs, Write(p) \/ Compact(p), ~AppendBatch(p), ~CompactRename(p)
    PROVE  UNCHANGED <<log, history>> /\ LogMoves
<1>0. UNCHANGED disk => LogMoves
  BY DEF LogMoves
<1>1. CASE WriteRefuse(p)
  BY <1>1, CommitLog DEF WriteRefuse, ghostVars
<1>2. CASE WriteNothing(p)
  BY <1>2, CommitLog DEF WriteNothing, ghostVars
<1>3. CASE SyncLog(p)
  BY <1>3 DEF SyncLog, ghostVars, LogMoves, TypeOK, Disk
<1>4. CASE ApplyBatch(p)
  BY <1>4, CommitLog DEF ApplyBatch
<1>5. CASE SyncLogFail(p) \/ ApplyBatchFail(p) \/ CompactRefuse(p) \/ CompactSyncFail(p)
  BY <1>0, <1>5 DEF SyncLogFail, ApplyBatchFail, CompactRefuse, CompactSyncFail,
                    fileVars, ghostVars
<1>6. CASE CompactBump(p)
  BY <1>6, CommitLog DEF CompactBump, ghostVars
<1>7. CASE CompactSync(p)
  BY <1>7, CommitLog DEF CompactSync, ghostVars
<1> QED BY <1>1, <1>2, <1>3, <1>4, <1>5, <1>6, <1>7 DEF Write, Compact

LEMMA TellStays == TypeOK /\ TellInv /\ [Next]_vars => TellInv'
<1> SUFFICES ASSUME TypeOK, TellInv, [Next]_vars PROVE TellInv'
  OBVIOUS
<1>1. ASSUME NEW p \in Procs, NEW c \in {"write", "compact", "recover"}, Begin(p, c)
      PROVE  TellInv'
  BY <1>1, CommitLog, TellQuiet DEF Begin, ghostVars
<1>2. ASSUME NEW p \in Procs, BeginRebuild(p) \/ Kill(p) PROVE TellInv'
  BY <1>2, TellQuiet DEF BeginRebuild, Kill, fileVars, ghostVars, LogMoves
<1>3. ASSUME NEW p \in Procs, Recovery(p) \/ RebuildStep(p) PROVE TellInv'
  BY <1>3, RecoveryLog, TellQuiet
<1>4. ASSUME NEW p \in Procs, AppendBatch(p) PROVE TellInv'
  <2>1. PICK batch \in Batches : log' = log \o batch /\ history' = history \o batch
    BY <1>4 DEF AppendBatch
  <2>2. batch \in Seq(Event)
    BY BatchesType DEF TypeOK
  <2>3. Tells(log', history')
    BY <2>1, <2>2, TellsAppended DEF TellInv, TypeOK
  <2>4. LogMoves
    BY <1>4, CommitLog DEF AppendBatch
  <2>5. Tells(disk'.log, disk'.history)
    BY <2>4 DEF TellInv, LogMoves
  <2> QED BY <2>3, <2>5 DEF TellInv, Tells
<1>5. ASSUME NEW p \in Procs, CompactRename(p) PROVE TellInv'
  <2>1. log' \in Compacted(log) /\ UNCHANGED <<disk, history>>
    BY <1>5 DEF CompactRename, ghostVars
  <2>2. Tells(log', log)
    BY <2>1, CompactedTells DEF TypeOK, Tells
  <2> QED BY <2>1, <2>2 DEF TellInv, Tells
<1>6. ASSUME NEW p \in Procs, Write(p) \/ Compact(p), ~AppendBatch(p), ~CompactRename(p)
      PROVE  TellInv'
  BY <1>6, WriteLog, TellQuiet
<1>7. CASE PowerLoss
  <2>1. \/ log' = log /\ history' = history
        \/ log' = disk.log /\ history' = disk.history
    BY <1>7 DEF PowerLoss
  <2>2. disk'.log = log' /\ disk'.history = history'
    BY <1>7 DEF PowerLoss
  <2> QED BY <2>1, <2>2 DEF TellInv, Tells
<1>8. CASE RemoveDb
  BY <1>8, TellQuiet DEF RemoveDb, ghostVars, LogMoves
<1>9. CASE UNCHANGED vars
  BY <1>9, TellQuiet DEF vars, LogMoves
<1> QED BY <1>1, <1>2, <1>3, <1>4, <1>5, <1>6, <1>7, <1>8, <1>9 DEF Next

(***************************************************************************)
(* The log says of every entry what the history says, however often it was *)
(* compacted, and wherever a compaction was killed or lost power           *)
(* (compact.rs: generation bump, rename, directory sync).                  *)
(***************************************************************************)
THEOREM LogTells == Spec => []LogTellsHistory
<1>1. Init => TellInv
  BY DEF Init, TellInv, Tells
<1>2. TypeOK /\ TellInv /\ [Next]_vars => TellInv'
  BY TellStays
<1>3. TellInv => LogTellsHistory
  BY DEF TellInv, Tells, LogTellsHistory
<1> QED BY <1>1, <1>2, <1>3, TypeCorrect, PTL DEF Spec

-----------------------------------------------------------------------------
(* The cursor.  Everything rests on events being numbered in the order they *)
(* are written, by all processes together: n is the next number, Q the      *)
(* events recovery has given up on, L the log and D the log on disk.       *)

Ordered(s, n) == Increasing(s) /\ \A i \in DOMAIN s : s[i].id < n

(* Rows are those of the events s, but for events recovery has given up on. *)
MadeOf(rows, s, Q) == \E given \in SUBSET Q : rows = Materialize(s, given)

(* Cursor and rows of the database file d were made from the log K.        *)
MadeFrom(d, K, Q, n) ==
    /\ Ordered(K, n)
    /\ d.cur = CursorAt(d.cur.gen, K, Len(K))
    /\ MadeOf(d.rows, K, Q)

(* Whatever log of generation g the cursor of d was made from, it is told  *)
(* by its fingerprint from the log, and from the log a power loss would    *)
(* leave.  A cursor of another generation is accepted by nobody.           *)
StampOk(d, g, L, D, Q, n) ==
    /\ ~d.exists => d = NoDb
    /\ d.cur # NoCursor =>
         /\ d.cur.gen <= g
         /\ d.cur.gen = g =>
              \E K \in Seq(Event) : MadeFrom(d, K, Q, n) /\ Agrees(K, L) /\ Agrees(K, D)

(* A tail replay from the cursor of d would be right: also when the log was *)
(* compacted since the cursor was accepted, as nothing is past it then.    *)
Good(d, L, Q) ==
    \/ d.cur = NoCursor
    \/ d.cur.off >= Len(L)
    \/ MadeOf(d.rows, Prefix(L, d.cur.off), Q)

(* The log on disk may lack what was appended last, and hold what a         *)
(* compaction dropped whose rename is not synced; nothing else.            *)
LogInv == Ordered(log, nextId) /\ Ordered(disk.log, nextId) /\ Within(log, disk.log)

StampInv ==
    /\ StampOk(db, gen, log, disk.log, Quarantined, nextId)
    /\ StampOk(disk.db, gen, log, disk.log, Quarantined, nextId)

(* What a process knows at each of its program counters.                   *)
SeenInv(p) ==
    /\ At(p, "inspectLog") => proc[p].seen = db.cur \/ Good(db, log, Quarantined)
    /\ At(p, "replay") \/ At(p, "replaying") => Good(db, log, Quarantined)
    /\ At(p, "replaying") => db.exists

SnapInv(p) ==
    /\ At(p, "scratch") \/ At(p, "catchup") =>
         Ordered(proc[p].snap, nextId) /\ Within(log, proc[p].snap)
    /\ At(p, "catchup") /\ PrefixMatches(p) => MadeOf(proc[p].tmp, proc[p].snap, Quarantined)
    /\ At(p, "swap") => MadeOf(proc[p].tmp, log, Quarantined)

BatchInv(p) ==
    At(p, "sync") \/ At(p, "apply") =>
        /\ db.exists
        /\ \E s \in Seq(Event) : log = s \o proc[p].batch /\ MadeOf(db.rows, s, Quarantined)

(* Between the bump of the generation and the rename of the log no cursor  *)
(* is accepted, and there is nothing to replay.                            *)
Older(d, g) == d.cur # NoCursor => d.cur.gen < g

RenameInv(p) ==
    At(p, "rename") =>
        /\ db = NoDb \/ (db.cur # NoCursor /\ db.cur.off >= Len(log))
        /\ Older(db, gen) /\ Older(disk.db, gen)

LocalInv(p) == SeenInv(p) /\ SnapInv(p) /\ BatchInv(p) /\ RenameInv(p)

CursorInv == LogInv /\ StampInv /\ \A p \in Procs : LocalInv(p)

-----------------------------------------------------------------------------
(* Facts about database files.                                             *)

(* A cursor that inspect accepts is the truth.                             *)
LEMMA AcceptedTruth ==
    ASSUME NEW d, NEW g, NEW L \in Seq(Event), NEW D, NEW Q, NEW n,
           StampOk(d, g, L, D, Q, n), Accepts(Inspect(d.cur, d.stamp, L, g))
    PROVE  /\ d.cur # NoCursor /\ d.cur.gen = g /\ d.cur.off \in 0 .. Len(L)
           /\ MadeOf(d.rows, Prefix(L, d.cur.off), Q)
<1>1. /\ d.cur # NoCursor /\ d.cur.gen = g
      /\ ~(d.cur.off > Len(L)) /\ d.cur.sha = TailSha(L, d.cur.off)
  BY DEF Accepts, Inspect
<1>2. PICK K \in Seq(Event) : MadeFrom(d, K, Q, n) /\ Agrees(K, L)
  BY <1>1 DEF StampOk
<1>3. d.cur.off = Len(K) /\ d.cur.sha = TailSha(K, Len(K))
  BY <1>2 DEF MadeFrom, CursorAt
<1>4. Len(K) \in Nat /\ Len(L) \in Nat
  BY LenProperties
<1>5. Len(K) <= Len(L)
  BY <1>1, <1>3, <1>4
<1>6. Prefix(L, Len(K)) = K
  <2>1. CASE Len(K) = 0
    <3>1. \A i \in 1 .. Len(K) : L[i] = K[i]
      BY <2>1
    <3> QED BY <1>5, <3>1, IsPrefix
  <2>2. CASE Len(K) # 0
    <3>1. K[Len(K)] = L[Len(K)]
      BY <1>1, <1>3, <1>4, <1>5, <2>2, ShaTells
    <3> QED BY <1>2, <1>4, <1>5, <2>2, <3>1 DEF Agrees
  <2> QED BY <2>1, <2>2
<1> QED BY <1>1, <1>2, <1>3, <1>4, <1>5, <1>6 DEF MadeFrom

(* Rows of which recovery gives up on more events.                         *)
LEMMA MadeStays ==
    ASSUME NEW rows, NEW s, NEW Q, NEW R, Q \subseteq R, MadeOf(rows, s, Q)
    PROVE  MadeOf(rows, s, R)
BY DEF MadeOf

LEMMA GoodStays ==
    ASSUME NEW d, NEW L, NEW Q, NEW R, Q \subseteq R, Good(d, L, Q)
    PROVE  Good(d, L, R)
BY MadeStays DEF Good

(* Rows to which what follows in the log was applied. *)
LEMMA MadeOn ==
    ASSUME NEW Q, NEW s \in Seq(Event), NEW t \in Seq(Event), Increasing(s \o t),
           NEW rows, MadeOf(rows, s, Q), NEW skip, skip \subseteq Q
    PROVE  MadeOf(ApplyAll(rows, t, skip), s \o t, Q)
<1>1. PICK a \in SUBSET Q : rows = Materialize(s, a)
  BY DEF MadeOf
<1>2. PICK c \in SUBSET (a \cup skip) : ApplyAll(Materialize(s, a), t, skip) = Materialize(s \o t, c)
  BY ResumeApply
<1> QED BY <1>1, <1>2 DEF MadeOf

(* A file is as right when the log is brought to disk.                     *)
LEMMA StampStays ==
    ASSUME NEW d, NEW g, NEW L, NEW D, NEW Q, NEW R, NEW n, Q \subseteq R,
           StampOk(d, g, L, D, Q, n), NEW E \in {D, L}
    PROVE  StampOk(d, g, L, E, R, n)
BY MadeStays DEF StampOk, MadeFrom

(* No events, no rows. *)
LEMMA EmptyMade ==
    /\ EmptyRows = Materialize(<<>>, {})
    /\ FreshDb.rows = EmptyRows /\ NoDb.rows = EmptyRows
    /\ FreshDb.cur = CursorAt(0, <<>>, 0) /\ NoDb.cur = CursorAt(0, <<>>, 0)
    /\ FreshDb.exists /\ ~NoDb.exists
<1>1. EmptyRows = Materialize(<<>>, {})
  <2>1. \A k \in Keys : Materialize(<<>>, {})[k] = EmptyRows[k]
    BY ApplyNone DEF Materialize, Touching
  <2> QED BY <2>1 DEF Materialize, ApplyAll, EmptyRows
<1>2. /\ FreshDb.rows = EmptyRows
      /\ FreshDb.cur = CursorAt(0, <<>>, 0)
      /\ FreshDb.exists
  BY DEF FreshDb
<1>3. /\ NoDb.rows = FreshDb.rows
      /\ NoDb.cur = FreshDb.cur
      /\ ~NoDb.exists
  BY DEF NoDb, FreshDb
<1> QED BY <1>1, <1>2, <1>3

(* A file just written from the log with nothing left out, or made anew.   *)
StampedNow(d, g, L, Q) ==
    d.exists /\ d.cur = CursorAt(g, L, Len(L)) /\ MadeOf(d.rows, L, Q)

Made(d, g, L, Q) == d = FreshDb \/ d = NoDb \/ StampedNow(d, g, L, Q)

LEMMA MadeGood ==
    ASSUME NEW d, NEW g \in Nat, NEW L \in Seq(Event), NEW D \in Seq(Event), NEW Q, NEW n \in Nat,
           Ordered(L, n), Ordered(D, n), Within(L, D), Made(d, g, L, Q)
    PROVE  StampOk(d, g, L, D, Q, n) /\ Good(d, L, Q)
<1>1. CASE d = FreshDb \/ d = NoDb
  <2>1. d.rows = Materialize(<<>>, {}) /\ d.cur = CursorAt(0, <<>>, 0) /\ (~d.exists => d = NoDb)
    BY <1>1, EmptyMade
  <2>2. <<>> \in Seq(Event) /\ Len(<<>>) = 0 /\ DOMAIN <<>> = 1 .. 0
    BY EmptySeq
  <2>3. Ordered(<<>>, n) /\ Agrees(<<>>, L) /\ Agrees(<<>>, D)
    BY <2>2 DEF Ordered, Increasing, Agrees
  <2>4. MadeOf(d.rows, <<>>, Q)
    BY <2>1 DEF MadeOf
  <2>5. d.cur.gen = 0 /\ d.cur.off = 0
    BY <2>1 DEF CursorAt
  <2>6. MadeFrom(d, <<>>, Q, n)
    BY <2>1, <2>2, <2>3, <2>4, <2>5 DEF MadeFrom
  <2>7. Prefix(L, 0) = <<>>
    BY DEF Prefix
  <2>8. Good(d, L, Q)
    BY <2>4, <2>5, <2>7 DEF Good
  <2>9. d.cur.gen <= g
    BY <2>5
  <2>10. StampOk(d, g, L, D, Q, n)
    BY <2>1, <2>2, <2>3, <2>6, <2>9 DEF StampOk
  <2> QED BY <2>8, <2>10
<1>2. CASE StampedNow(d, g, L, Q)
  <2>1. d.cur.gen = g /\ d.cur.off = Len(L) /\ d.cur = CursorAt(d.cur.gen, L, Len(L))
    BY <1>2 DEF StampedNow, CursorAt
  <2>2. Good(d, L, Q)
    BY <2>1, LenProperties DEF Good
  <2>3. Agrees(L, L) /\ Agrees(L, D)
    BY AgreeWithin, WithinSelf DEF Ordered
  <2>4. MadeFrom(d, L, Q, n)
    BY <1>2, <2>1 DEF MadeFrom, StampedNow
  <2>5. d.cur.gen <= g
    BY <2>1
  <2>6. StampOk(d, g, L, D, Q, n)
    BY <1>2, <2>3, <2>4, <2>5 DEF StampOk, StampedNow
  <2> QED BY <2>2, <2>6
<1> QED BY <1>1, <1>2 DEF Made

-----------------------------------------------------------------------------
(* Steps that leave log, generation and numbering alone.                   *)

FilesKept ==
    /\ UNCHANGED <<log, gen, nextId>>
    /\ Quarantined \subseteq Quarantined'
    /\ disk'.log \in {disk.log, log}
    /\ disk'.db \in {disk.db, db'}

(* The database file stays; or a step no other process is in the middle of *)
(* deletes it, makes it anew or writes into it all the log holds.          *)
DbKept == db' = db

DbMade ==
    \/ db' = NoDb
    \/ db' = FreshDb /\ ~db.exists
    \/ StampedNow(db', gen, log, Quarantined)

LEMMA DbMadeIsMade == DbMade => Made(db', gen, log, Quarantined)
BY DEF DbMade, Made

LEMMA FilesKeep ==
    ASSUME TypeOK, CursorInv, FilesKept, DbKept \/ DbMade
    PROVE  LogInv' /\ StampInv'
<1>1. log \in Seq(Event) /\ disk.log \in Seq(Event) /\ gen \in Nat /\ nextId \in Nat
  BY DEF TypeOK, Disk
<1>2. LogInv'
  BY WithinSelf DEF CursorInv, LogInv, FilesKept
<1>3. StampOk(db', gen, log, disk.log, Quarantined, nextId)
  <2>1. CASE DbKept
    BY <2>1 DEF DbKept, CursorInv, StampInv
  <2>2. CASE DbMade
    BY <1>1, <2>2, DbMadeIsMade, MadeGood DEF CursorInv, LogInv
  <2> QED BY <2>1, <2>2
<1>4. \A d : StampOk(d, gen, log, disk.log, Quarantined, nextId)
              => StampOk(d, gen', log', disk'.log, Quarantined', nextId')
  BY StampStays DEF FilesKept
<1>5. StampInv'
  BY <1>3, <1>4 DEF CursorInv, StampInv, FilesKept
<1> QED BY <1>2, <1>5

(* What another process knows stays true. *)
LEMMA OthersKeep ==
    ASSUME TypeOK, CursorInv, FilesKept, NEW q \in Procs, proc'[q] = proc[q],
           DbKept \/ (DbMade /\ proc[q].pc \notin Holding)
    PROVE  LocalInv(q)'
<1>1. LocalInv(q)
  BY DEF CursorInv
<1>2. log \in Seq(Event) /\ disk.log \in Seq(Event) /\ gen \in Nat /\ nextId \in Nat
  BY DEF TypeOK, Disk
<1>3. log' = log /\ gen' = gen /\ nextId' = nextId /\ Quarantined \subseteq Quarantined'
  BY DEF FilesKept
<1>4. Good(db, log, Quarantined) => Good(db', log', Quarantined')
  <2>1. CASE DbKept
    BY <1>3, <2>1, GoodStays DEF DbKept
  <2>2. CASE DbMade
    <3>1. Good(db', log, Quarantined)
      BY <1>2, <2>2, DbMadeIsMade, MadeGood DEF CursorInv, LogInv
    <3> QED BY <1>3, <3>1, GoodStays
  <2> QED BY <2>1, <2>2
<1>5. DbMade => Good(db', log', Quarantined')
  <2>1. DbMade => Good(db', log, Quarantined)
    BY <1>2, DbMadeIsMade, MadeGood DEF CursorInv, LogInv
  <2> QED BY <1>3, <2>1, GoodStays
<1>6. SeenInv(q)'
  BY <1>1, <1>3, <1>4, <1>5 DEF LocalInv, SeenInv, At, DbKept, Holding
<1>7. SnapInv(q)'
  <2>1. PrefixMatches(q)' <=> PrefixMatches(q)
    BY <1>3 DEF PrefixMatches
  <2> QED BY <1>1, <1>3, <2>1, MadeStays DEF LocalInv, SnapInv, At
<1>8. BatchInv(q)'
  BY <1>1, <1>3, MadeStays DEF LocalInv, BatchInv, At, DbKept, Holding
<1>9. RenameInv(q)'
  BY <1>1, <1>3 DEF LocalInv, RenameInv, At, DbKept, Holding, FilesKept
<1> QED BY <1>6, <1>7, <1>8, <1>9 DEF LocalInv

(* A process at any other program counter knows nothing that could become   *)
(* wrong.                                                                  *)
Knowing == {"inspectLog", "replay", "replaying", "scratch", "catchup", "swap",
            "sync", "apply", "rename"}

LEMMA QuietLocal ==
    ASSUME NEW p \in Procs, proc'[p].pc \notin Knowing
    PROVE  LocalInv(p)'
BY DEF LocalInv, SeenInv, SnapInv, BatchInv, RenameInv, At, Knowing

(* A step of p is right if what p then knows is right.                     *)
LEMMA StepKeeps ==
    ASSUME TypeOK, LockInv, CursorInv, FilesKept, NEW p \in Procs,
           DbKept \/ (DbMade /\ lock \in {NoProc, p}),
           Moves(p, PCs), LocalInv(p)'
    PROVE  CursorInv'
<1>1. LogInv' /\ StampInv'
  BY FilesKeep
<1>2. ASSUME NEW q \in Procs PROVE LocalInv(q)'
  <2>1. CASE q = p
    BY <2>1
  <2>2. CASE q # p
    <3>1. proc'[q] = proc[q]
      BY <2>2 DEF Moves
    <3>2. DbKept \/ (DbMade /\ proc[q].pc \notin Holding)
      BY <2>2, DurabilityAssumption DEF LockInv
    <3> QED BY <3>1, <3>2, OthersKeep
  <2> QED BY <2>1, <2>2
<1> QED BY <1>1, <1>2 DEF CursorInv

LEMMA QuietStepKeeps ==
    ASSUME TypeOK, LockInv, CursorInv, FilesKept, NEW p \in Procs,
           DbKept \/ (DbMade /\ lock \in {NoProc, p}),
           Moves(p, PCs \ Knowing)
    PROVE  CursorInv'
<1>1. Moves(p, PCs) /\ proc'[p].pc \notin Knowing
  BY DEF Moves
<1> QED BY <1>1, QuietLocal, StepKeeps

(* A step that leaves every process where it is.                           *)
LEMMA StandstillKeeps ==
    ASSUME TypeOK, LockInv, CursorInv, FilesKept, UNCHANGED proc,
           DbKept \/ (DbMade /\ lock = NoProc)
    PROVE  CursorInv'
<1>1. LogInv' /\ StampInv'
  BY FilesKeep
<1>2. ASSUME NEW q \in Procs PROVE LocalInv(q)'
  <2>1. DbKept \/ (DbMade /\ proc[q].pc \notin Holding)
    BY DurabilityAssumption DEF LockInv
  <2> QED BY <2>1, OthersKeep
<1> QED BY <1>1, <1>2 DEF CursorInv

(* What the building blocks do to the files. *)
LEMMA CommitKept ==
    ASSUME TypeOK, UNCHANGED <<log, gen, ledger, nextId>>,
           (\E d : Commit(d) \/ Settle(d)) \/ (SyncDir /\ UNCHANGED db)
    PROVE  FilesKept
<1>1. Quarantined' = Quarantined
  BY DEF Quarantined
<1> QED BY <1>1 DEF Commit, Settle, SyncDir, DirSynced, Disk, TypeOK, FilesKept

LEMMA UnchangedKept ==
    ASSUME UNCHANGED <<log, gen, ledger, nextId, disk>>
    PROVE  FilesKept
<1>1. Quarantined' = Quarantined
  BY DEF Quarantined
<1> QED BY <1>1 DEF FilesKept

LEMMA OpenKept ==
    ASSUME Settle(OpenRw(db))
    PROVE  DbKept \/ DbMade
BY DEF Settle, Commit, OpenRw, DbKept, DbMade

LEMMA CommitMade ==
    ASSUME NEW d, StampedNow(d, gen, log, Quarantined), Commit(d) \/ Settle(d)
    PROVE  DbKept \/ DbMade
BY DEF Settle, Commit, DbKept, DbMade

(* The file a connection opens. *)
LEMMA OpenOk ==
    ASSUME TypeOK, CursorInv
    PROVE  StampOk(OpenRw(db), gen, log, disk.log, Quarantined, nextId)
<1>1. Made(FreshDb, gen, log, Quarantined)
  BY DEF Made
<1>2. StampOk(FreshDb, gen, log, disk.log, Quarantined, nextId)
  BY <1>1, MadeGood DEF CursorInv, LogInv, TypeOK, Disk
<1> QED BY <1>2 DEF OpenRw, CursorInv, StampInv

(* A write or a compaction that passes the gate finds all of the log in    *)
(* the database.                                                           *)
LEMMA GatePassed ==
    ASSUME TypeOK, NEW d, StampOk(d, gen, log, disk.log, Quarantined, nextId),
           ~BlocksWrites(Decision(d))
    PROVE  /\ d.cur # NoCursor /\ d.cur.gen = gen /\ d.cur.off = Len(log)
           /\ MadeOf(d.rows, log, Quarantined)
<1>1. log \in Seq(Event) /\ Len(log) \in Nat
  BY LenProperties DEF TypeOK
<1>2. Accepts(Inspect(d.cur, d.stamp, log, gen))
  BY DEF BlocksWrites, Decision, Accepts
<1>3. /\ d.cur # NoCursor /\ d.cur.gen = gen /\ d.cur.off \in 0 .. Len(log)
      /\ MadeOf(d.rows, Prefix(log, d.cur.off), Quarantined)
  BY <1>1, <1>2, AcceptedTruth
<1>4. ~(d.cur.off < Len(log))
  BY <1>3 DEF BlocksWrites, Decision, Inspect
<1>5. d.cur.off = Len(log)
  BY <1>1, <1>3, <1>4
<1>6. Prefix(log, Len(log)) = log
  BY <1>1, SubSeqFull DEF Prefix
<1> QED BY <1>3, <1>5, <1>6

-----------------------------------------------------------------------------
(* Recovery.                                                               *)

LEMMA InspectCursorKeeps ==
    ASSUME TypeOK, LockInv, CursorInv, NEW p \in Procs, InspectCursor(p)
    PROVE  CursorInv'
<1>1. FilesKept /\ DbKept
  BY UnchangedKept DEF InspectCursor, fileVars, DbKept
<1>2. CASE Proceed(p)
  <2>1. Moves(p, PCs \ Knowing)
    BY <1>2, ProceedMoves DEF Moves, PCs, Knowing
  <2> QED BY <1>1, <2>1, QuietStepKeeps
<1>3. CASE Become(p, [proc[p] EXCEPT !.pc = "inspectLog", !.seen = db.cur])
  <2>1. proc'[p] = [proc[p] EXCEPT !.pc = "inspectLog", !.seen = db.cur]
        /\ \A q \in Procs \ {p} : proc'[q] = proc[q]
    BY <1>3, BecomeMoves
  <2>2. proc'[p].pc = "inspectLog" /\ proc'[p].seen = db.cur
    BY <2>1 DEF TypeOK, Local
  <2>3. LocalInv(p)'
    BY <1>1, <2>2 DEF LocalInv, SeenInv, SnapInv, BatchInv, RenameInv, At, DbKept
  <2>4. Moves(p, PCs)
    BY <2>1, <2>2 DEF Moves, PCs
  <2> QED BY <1>1, <2>3, <2>4, StepKeeps
<1> QED BY <1>2, <1>3 DEF InspectCursor

(* The inspection acts on what it read of the cursor; if the file is       *)
(* another one by then, it is one that can be replayed.                    *)
LEMMA InspectLogKeeps ==
    ASSUME TypeOK, LockInv, CursorInv, NEW p \in Procs, InspectLog(p)
    PROVE  CursorInv'
<1>1. FilesKept /\ DbKept
  BY UnchangedKept DEF InspectLog, fileVars, DbKept
<1>2. CASE Proceed(p) \/ Goto(p, "flight")
  <2>1. Moves(p, PCs \ Knowing)
    BY <1>2, ProceedMoves, GotoMoves DEF Moves, PCs, Knowing
  <2> QED BY <1>1, <2>1, QuietStepKeeps
<1>3. CASE /\ Inspect(proc[p].seen, db.stamp, log, gen) = "ReplayTail"
           /\ Goto(p, "replay")
  <2>1. Good(db, log, Quarantined)
    <3>1. proc[p].seen = db.cur \/ Good(db, log, Quarantined)
      BY DEF CursorInv, LocalInv, SeenInv, InspectLog
    <3>2. CASE proc[p].seen = db.cur
      <4>1. Accepts(Inspect(db.cur, db.stamp, log, gen))
        BY <1>3, <3>2 DEF Accepts
      <4>2. MadeOf(db.rows, Prefix(log, db.cur.off), Quarantined)
        BY <4>1, AcceptedTruth DEF CursorInv, StampInv, TypeOK
      <4> QED BY <4>2 DEF Good
    <3> QED BY <3>1, <3>2
  <2>2. Moves(p, {"replay"})
    BY <1>3, GotoMoves
  <2>3. Good(db', log', Quarantined')
    BY <1>1, <2>1, GoodStays DEF FilesKept, DbKept
  <2>4. LocalInv(p)'
    BY <2>2, <2>3 DEF Moves, LocalInv, SeenInv, SnapInv, BatchInv, RenameInv, At
  <2>5. Moves(p, PCs)
    BY <2>2 DEF Moves, PCs
  <2> QED BY <1>1, <2>4, <2>5, StepKeeps
<1> QED BY <1>2, <1>3 DEF InspectLog

LEMMA ReplayLockKeeps ==
    ASSUME TypeOK, LockInv, CursorInv, NEW p \in Procs, ReplayLock(p)
    PROVE  CursorInv'
<1>1. FilesKept
  BY CommitKept DEF ReplayLock
<1>2. DbKept \/ DbMade
  BY OpenKept DEF ReplayLock
<1>3. lock = NoProc
  BY DEF ReplayLock, Acquire
<1>4. Good(db', log', Quarantined')
  <2>1. CASE DbKept
    <3>1. Good(db, log, Quarantined)
      BY DEF CursorInv, LocalInv, SeenInv, ReplayLock
    <3> QED BY <1>1, <2>1, <3>1, GoodStays DEF FilesKept, DbKept
  <2>2. CASE DbMade
    <3>1. Good(db', log, Quarantined)
      BY <2>2, DbMadeIsMade, MadeGood DEF CursorInv, LogInv, TypeOK, Disk
    <3> QED BY <1>1, <3>1, GoodStays DEF FilesKept
  <2> QED BY <1>2, <2>1, <2>2
<1>5. Moves(p, {"replaying"}) /\ db'.exists
  BY GotoMoves, EmptyMade DEF ReplayLock, PCs, Settle, Commit, OpenRw
<1>6. LocalInv(p)'
  BY <1>4, <1>5 DEF Moves, LocalInv, SeenInv, SnapInv, BatchInv, RenameInv, At
<1>7. Moves(p, PCs)
  BY <1>5 DEF Moves, PCs
<1> QED BY <1>1, <1>2, <1>3, <1>6, <1>7, StepKeeps

(* A tail replay makes the rows of the whole log.                          *)
LEMMA ReplayMade ==
    ASSUME TypeOK, LockInv, CursorInv, NEW p \in Procs, ReplayCommit(p)
    PROVE  FilesKept /\ (DbKept \/ DbMade)
<1> DEFINE off == db.cur.off
           d == [db EXCEPT !.rows = ApplyAll(db.rows, Unapplied, Quarantined),
                           !.cur = CursorAt(gen, log, Len(log))]
<1>1. FilesKept
  BY CommitKept DEF ReplayCommit
<1>3. log \in Seq(Event) /\ Len(log) \in Nat
  BY LenProperties DEF TypeOK
<1>4. off \in Nat /\ off < Len(log)
  <2>1. off \in Nat
    BY DEF ReplayCommit, TypeOK, Database, Cursor
  <2>2. ~(off >= Len(log))
    <3> SUFFICES ASSUME off >= Len(log) PROVE FALSE
      OBVIOUS
    <3>1. Len(log) < off + 1
      BY <1>3, <2>1
    <3>2. SubSeq(log, off + 1, Len(log)) = <<>>
      BY <1>3, <2>1, <3>1, SubSeqEmpty
    <3> QED BY <3>2 DEF ReplayCommit, Unapplied
  <2> QED BY <1>3, <2>1, <2>2
<1>5. MadeOf(db.rows, Prefix(log, off), Quarantined)
  <2>1. Good(db, log, Quarantined)
    BY DEF CursorInv, LocalInv, SeenInv, ReplayCommit
  <2>2. db.cur # NoCursor
    BY DEF ReplayCommit
  <2> QED BY <1>3, <1>4, <2>1, <2>2 DEF Good
<1>6. PICK start \in Seq(Event), rest \in Seq(Event) :
         start = Prefix(log, off) /\ rest = Unapplied /\ log = start \o rest
  <2>1. off \in 0 .. Len(log)
    BY <1>3, <1>4
  <2> QED BY <1>3, <2>1, PrefixHolds, CutAt DEF Unapplied
<1>7. MadeOf(ApplyAll(db.rows, rest, Quarantined), log, Quarantined)
  <2>1. Increasing(start \o rest)
    BY <1>6 DEF CursorInv, LogInv, Ordered
  <2>2. MadeOf(ApplyAll(db.rows, rest, Quarantined), start \o rest, Quarantined)
    BY <1>5, <1>6, <2>1, MadeOn
  <2> QED BY <1>6, <2>2
<1>8. StampedNow(d, gen, log, Quarantined)
  <2>1. /\ d.rows = ApplyAll(db.rows, Unapplied, Quarantined)
        /\ d.cur = CursorAt(gen, log, Len(log)) /\ d.exists = db.exists
    BY DEF TypeOK, Database
  <2>2. MadeOf(d.rows, log, Quarantined)
    BY <1>6, <1>7, <2>1
  <2>3. db.exists
    BY DEF CursorInv, LocalInv, SeenInv, ReplayCommit
  <2> QED BY <2>1, <2>2, <2>3 DEF StampedNow
<1>9. Commit(d)
  BY DEF ReplayCommit
<1> HIDE DEF d
<1> QED BY <1>1, <1>8, <1>9, CommitMade

LEMMA ReplayCommitKeeps ==
    ASSUME TypeOK, LockInv, CursorInv, NEW p \in Procs, ReplayCommit(p)
    PROVE  CursorInv'
<1>1. FilesKept /\ (DbKept \/ DbMade) /\ lock = p
  BY ReplayMade DEF ReplayCommit, Release
<1>2. Moves(p, PCs \ Knowing)
  BY ProceedMoves DEF ReplayCommit, Moves, PCs, Knowing
<1> QED BY <1>1, <1>2, QuietStepKeeps

LEMMA ReplayFailFiles ==
    ASSUME TypeOK, NEW p \in Procs, ReplayFail(p)
    PROVE  FilesKept /\ DbKept
<1>1. PICK i \in Failing(Unapplied, Quarantined, TransientPossible) :
         ledger' = [ledger EXCEPT ![Unapplied[i].id] = @ + 1]
  BY DEF ReplayFail
<1>2. Quarantined \subseteq Quarantined'
  <2>1. ledger \in [1 .. MaxEvents -> Nat]
    BY DEF TypeOK
  <2>2. DOMAIN ledger' = DOMAIN ledger /\ \A e \in DOMAIN ledger : ledger'[e] >= ledger[e]
    BY <1>1, <2>1
  <2>3. \A e \in DOMAIN ledger : ledger[e] >= PoisonAttempts => ledger'[e] >= PoisonAttempts
    <3> SUFFICES ASSUME NEW e \in DOMAIN ledger, ledger[e] >= PoisonAttempts
                 PROVE  ledger'[e] >= PoisonAttempts
      OBVIOUS
    <3>1. ledger[e] \in Nat /\ (ledger'[e] = ledger[e] \/ ledger'[e] = ledger[e] + 1)
      BY <1>1, <2>1
    <3> QED BY <3>1, StoreAssumption
  <2> QED BY <2>2, <2>3 DEF Quarantined
<1> QED BY <1>2 DEF ReplayFail, SyncDir, DirSynced, FilesKept, DbKept

LEMMA ReplayFailKeeps ==
    ASSUME TypeOK, LockInv, CursorInv, NEW p \in Procs, ReplayFail(p)
    PROVE  CursorInv'
<1>1. FilesKept /\ DbKept /\ UNCHANGED proc
  BY ReplayFailFiles DEF ReplayFail
<1> QED BY <1>1, StandstillKeeps

LEMMA RecheckMade ==
    ASSUME TypeOK, NEW p \in Procs, RecheckDone(p) \/ RecheckGoOn(p)
    PROVE  FilesKept /\ (DbKept \/ DbMade)
<1>1. FilesKept
  <2>1. \E d : Settle(d)
    BY DEF RecheckDone, RecheckGoOn
  <2> QED BY <2>1, CommitKept DEF RecheckDone, RecheckGoOn
<1>2. DbKept \/ DbMade
  <2> DEFINE d == OpenRw(db)
             stamped == [d EXCEPT !.stamp = TRUE, !.cur = CursorAt(gen, log, 0)]
  <2>1. CASE Settle(d)
    BY <2>1, OpenKept
  <2>2. CASE log = <<>> /\ d.rows = EmptyRows /\ Settle(stamped)
    <3>1. d \in Database
      BY OpenRwType DEF TypeOK
    <3>2. d.exists
      BY EmptyMade DEF OpenRw
    <3>3. stamped.exists /\ stamped.rows = EmptyRows /\ stamped.cur = CursorAt(gen, log, 0)
      BY <2>2, <3>1, <3>2 DEF Database
    <3>4. Len(log) = 0
      BY <2>2, EmptySeq
    <3>5. MadeOf(EmptyRows, log, Quarantined)
      BY <2>2, EmptyMade DEF MadeOf
    <3>6. StampedNow(stamped, gen, log, Quarantined)
      BY <3>3, <3>4, <3>5 DEF StampedNow
    <3> HIDE DEF stamped
    <3> QED BY <2>2, <3>6, CommitMade
  <2> QED BY <2>1, <2>2 DEF RecheckDone, RecheckGoOn
<1> QED BY <1>1, <1>2

LEMMA RecheckKeeps ==
    ASSUME TypeOK, LockInv, CursorInv, NEW p \in Procs, RecheckDone(p) \/ RecheckGoOn(p)
    PROVE  CursorInv'
<1>1. FilesKept /\ (DbKept \/ DbMade) /\ lock = NoProc
  BY RecheckMade DEF RecheckDone, RecheckGoOn, Locked
<1>2. Moves(p, PCs \ Knowing)
  BY ProceedMoves, GotoMoves DEF RecheckDone, RecheckGoOn, Moves, PCs, Knowing
<1> QED BY <1>1, <1>2, QuietStepKeeps

LEMMA RecoveryKeeps ==
    ASSUME TypeOK, LockInv, CursorInv, NEW p \in Procs, Recovery(p)
    PROVE  CursorInv'
<1>1. CASE ReplayNothing(p) \/ FlightLock(p) \/ CoverageDefer(p)
  <2>1. FilesKept /\ DbKept
    BY <1>1, UnchangedKept DEF ReplayNothing, FlightLock, CoverageDefer, fileVars, DbKept
  <2>2. Moves(p, PCs \ Knowing)
    BY <1>1, StopMoves, ProceedMoves, GotoMoves
       DEF ReplayNothing, FlightLock, CoverageDefer, Moves, PCs, Knowing
  <2> QED BY <2>1, <2>2, QuietStepKeeps
<1>2. CASE CoverageGoOn(p)
  <2>1. FilesKept /\ DbKept
    BY <1>2, UnchangedKept DEF CoverageGoOn, fileVars, DbKept
  <2>2. [proc[p] EXCEPT !.pc = "snapshot", !.tries = 1].pc = "snapshot"
    BY DEF TypeOK, Local
  <2>3. Moves(p, PCs \ Knowing)
    BY <1>2, <2>2, BecomeMoves DEF CoverageGoOn, Moves, PCs, Knowing
  <2> QED BY <2>1, <2>3, QuietStepKeeps
<1> QED BY <1>1, <1>2, InspectCursorKeeps, InspectLogKeeps, ReplayLockKeeps, ReplayCommitKeeps,
           ReplayFailKeeps, RecheckKeeps DEF Recovery

-----------------------------------------------------------------------------
(* Rebuild.                                                                *)

LEMMA SnapshotKeeps ==
    ASSUME TypeOK, LockInv, CursorInv, NEW p \in Procs, Snapshot(p)
    PROVE  CursorInv'
<1>1. FilesKept /\ (DbKept \/ DbMade) /\ lock = NoProc
  BY CommitKept, OpenKept DEF Snapshot, Locked
<1>2. /\ proc'[p] = [proc[p] EXCEPT !.pc = "scratch", !.snap = log]
      /\ \A q \in Procs \ {p} : proc'[q] = proc[q]
  BY BecomeMoves DEF Snapshot
<1>3. proc'[p].pc = "scratch" /\ proc'[p].snap = log
  BY <1>2 DEF TypeOK, Local
<1>4. Ordered(log', nextId') /\ Within(log', log)
  BY <1>1, WithinSelf DEF FilesKept, CursorInv, LogInv
<1>5. LocalInv(p)'
  BY <1>1, <1>3, <1>4 DEF LocalInv, SeenInv, SnapInv, BatchInv, RenameInv, At, FilesKept
<1>6. Moves(p, PCs)
  BY <1>2, <1>3 DEF Moves, PCs
<1> QED BY <1>1, <1>5, <1>6, StepKeeps

(* The replay without the lock made the rows of the snapshot, if what it    *)
(* read was the snapshot.                                                  *)
LEMMA ScratchKeeps ==
    ASSUME TypeOK, LockInv, CursorInv, NEW p \in Procs, Scratch(p)
    PROVE  CursorInv'
<1> DEFINE made == Materialize(ScratchSource(p), Quarantined)
<1>1. FilesKept /\ DbKept /\ Quarantined' = Quarantined
  BY UnchangedKept DEF Scratch, fileVars, DbKept, Quarantined
<1>2. Become(p, [proc[p] EXCEPT !.pc = "catchup", !.tmp = made])
  BY DEF Scratch
<1>3. MadeOf(made, ScratchSource(p), Quarantined)
  BY DEF MadeOf
<1> HIDE DEF made
<1>4. /\ proc'[p] = [proc[p] EXCEPT !.pc = "catchup", !.tmp = made]
      /\ \A q \in Procs \ {p} : proc'[q] = proc[q]
  BY <1>2, BecomeMoves
<1>5. proc'[p].pc = "catchup" /\ proc'[p].tmp = made /\ proc'[p].snap = proc[p].snap
  BY <1>4 DEF TypeOK, Local
<1>6. Ordered(proc[p].snap, nextId) /\ Within(log, proc[p].snap)
  BY DEF CursorInv, LocalInv, SnapInv, Scratch
<1>7. PrefixMatches(p)' => ScratchSource(p) = proc[p].snap
  BY <1>1, <1>5 DEF FilesKept, PrefixMatches, ScratchSource
<1>8. SnapInv(p)'
  BY <1>1, <1>3, <1>5, <1>6, <1>7 DEF SnapInv, At, FilesKept
<1>9. LocalInv(p)'
  BY <1>5, <1>8 DEF LocalInv, SeenInv, BatchInv, RenameInv, At
<1>10. Moves(p, PCs)
  BY <1>4, <1>5 DEF Moves, PCs
<1> QED BY <1>1, <1>9, <1>10, StepKeeps

(* Under the lock, what was appended since is applied to it.               *)
LEMMA CatchupKeeps ==
    ASSUME TypeOK, LockInv, CursorInv, NEW p \in Procs, Catchup(p)
    PROVE  CursorInv'
<1> DEFINE rows == ApplyAll(proc[p].tmp, CatchupEvents(p), Quarantined)
<1>1. FilesKept /\ DbKept /\ Quarantined' = Quarantined
  BY UnchangedKept DEF Catchup, fileVars, DbKept, Quarantined
<1>2. Become(p, [proc[p] EXCEPT !.pc = "swap", !.tmp = rows])
  BY DEF Catchup, TypeOK, Local
<1>3. log \in Seq(Event) /\ Len(log) \in Nat /\ proc[p].snap \in Seq(Event)
      /\ Len(proc[p].snap) \in 0 .. Len(log) /\ Prefix(log, Len(proc[p].snap)) = proc[p].snap
  BY LenProperties DEF TypeOK, Local, Catchup, PrefixMatches
<1>4. PICK start \in Seq(Event), rest \in Seq(Event) :
         start = proc[p].snap /\ rest = CatchupEvents(p) /\ log = start \o rest
  BY <1>3, CutAt DEF CatchupEvents
<1>5. MadeOf(proc[p].tmp, start, Quarantined)
  BY <1>4 DEF CursorInv, LocalInv, SnapInv, Catchup
<1>6. MadeOf(rows, log, Quarantined)
  <2>1. Increasing(start \o rest)
    BY <1>4 DEF CursorInv, LogInv, Ordered
  <2>2. MadeOf(ApplyAll(proc[p].tmp, rest, Quarantined), start \o rest, Quarantined)
    BY <1>5, <2>1, MadeOn
  <2> QED BY <1>4, <2>2
<1> HIDE DEF rows
<1>7. /\ proc'[p] = [proc[p] EXCEPT !.pc = "swap", !.tmp = rows]
      /\ \A q \in Procs \ {p} : proc'[q] = proc[q]
  BY <1>2, BecomeMoves
<1>8. proc'[p].pc = "swap" /\ proc'[p].tmp = rows
  BY <1>7 DEF TypeOK, Local
<1>9. LocalInv(p)'
  BY <1>1, <1>6, <1>8 DEF LocalInv, SeenInv, SnapInv, BatchInv, RenameInv, At, FilesKept
<1>10. Moves(p, PCs)
  BY <1>7, <1>8 DEF Moves, PCs
<1> QED BY <1>1, <1>9, <1>10, StepKeeps

(* What is swapped in is made of the whole log. *)
LEMMA SwapMade ==
    ASSUME TypeOK, LockInv, CursorInv, NEW p \in Procs, Swap(p)
    PROVE  FilesKept /\ DbMade
<1>1. FilesKept
  BY UnchangedKept DEF Swap
<1>2. MadeOf(proc[p].tmp, log, Quarantined)
  BY DEF CursorInv, LocalInv, SnapInv, Swap
<1> QED BY <1>1, <1>2 DEF Swap, DbMade, StampedNow

LEMMA SwapKeeps ==
    ASSUME TypeOK, LockInv, CursorInv, NEW p \in Procs, Swap(p)
    PROVE  CursorInv'
<1>1. lock = p
  BY DEF LockInv, Holding, Swap, At
<1>2. Moves(p, PCs \ Knowing)
  BY GotoMoves DEF Swap, Moves, PCs, Knowing
<1> QED BY <1>1, <1>2, SwapMade, QuietStepKeeps

LEMMA RebuildKeeps ==
    ASSUME TypeOK, LockInv, CursorInv, NEW p \in Procs, RebuildStep(p)
    PROVE  CursorInv'
<1>0. AbortRebuild(p) => Moves(p, PCs \ Knowing)
  BY StopMoves, ProceedMoves DEF AbortRebuild, Moves, PCs, Knowing
<1>1. CASE ScratchFail(p) \/ CatchupFail(p) \/ SwapBusy(p) \/ SwapSyncFail(p)
  <2>1. FilesKept /\ DbKept /\ AbortRebuild(p)
    BY <1>1, UnchangedKept DEF ScratchFail, CatchupFail, SwapBusy, SwapSyncFail, fileVars, DbKept
  <2> QED BY <1>0, <2>1, QuietStepKeeps
<1>2. CASE Restart(p)
  <2> DEFINE again == [proc[p] EXCEPT !.pc = "snapshot", !.tries = @ + 1,
                                      !.snap = <<>>, !.tmp = EmptyRows]
  <2>1. FilesKept /\ DbKept
    BY <1>2, UnchangedKept DEF Restart, fileVars, DbKept
  <2>2. again.pc = "snapshot"
    BY DEF TypeOK, Local
  <2>3. Become(p, again) \/ AbortRebuild(p)
    BY <1>2 DEF Restart
  <2> HIDE DEF again
  <2>4. Moves(p, PCs \ Knowing)
    BY <1>0, <2>2, <2>3, BecomeMoves DEF Moves, PCs, Knowing
  <2> QED BY <2>1, <2>4, QuietStepKeeps
<1>3. CASE SwapSync(p)
  <2>1. FilesKept /\ DbKept
    BY <1>3, CommitKept DEF SwapSync, DbKept
  <2>2. Moves(p, PCs \ Knowing)
    BY <1>3, ProceedMoves DEF SwapSync, Moves, PCs, Knowing
  <2> QED BY <2>1, <2>2, QuietStepKeeps
<1> QED BY <1>1, <1>2, <1>3, SnapshotKeeps, ScratchKeeps, CatchupKeeps, SwapKeeps DEF RebuildStep

-----------------------------------------------------------------------------
(* Writes and compaction.                                                  *)

(* The events of a batch are numbered on from the last ever written.       *)
LEMMA BatchNumbers ==
    ASSUME nextId \in Nat \ {0}, NEW batch \in Batches
    PROVE  /\ batch \in Seq(Event) /\ Len(batch) \in Nat \ {0}
           /\ \A i \in DOMAIN batch : batch[i].id = nextId + i - 1
           /\ Ordered(batch, nextId + Len(batch))
<1>1. PICK n \in 1 .. (IF MaxBatch <= MaxEvents + 1 - nextId
                       THEN MaxBatch ELSE MaxEvents + 1 - nextId) :
        /\ batch \in [1 .. n -> [id : nextId .. nextId + n - 1, key : Keys,
                                 op : {"upsert", "expire"}, bad : BadFlags]]
        /\ \A i \in 1 .. n : batch[i].id = nextId + i - 1
  BY DEF Batches
<1>2. batch \in Seq(Event) /\ Len(batch) \in Nat
  BY BatchesType
<1>3. n \in Nat \ {0}
  BY <1>1, DurabilityAssumption
<1>4. Len(batch) = n /\ DOMAIN batch = 1 .. n
  BY <1>1, <1>2, <1>3, LenProperties
<1>5. Increasing(batch)
  BY <1>1, <1>3, <1>4 DEF Increasing
<1>6. \A i \in DOMAIN batch : batch[i].id < nextId + Len(batch)
  BY <1>1, <1>3, <1>4
<1> QED BY <1>1, <1>2, <1>3, <1>4, <1>5, <1>6 DEF Ordered

(* All events of an ordered log come before those of a batch, and the log  *)
(* stays ordered with it.                                                  *)
LEMMA OrderedAppended ==
    ASSUME nextId \in Nat \ {0}, NEW batch \in Batches, NEW s \in Seq(Event), Ordered(s, nextId)
    PROVE  /\ \A i \in DOMAIN batch : \A j \in DOMAIN s : s[j].id < batch[i].id
           /\ Ordered(s, nextId + Len(batch))
           /\ Ordered(s \o batch, nextId + Len(batch))
<1>1. /\ batch \in Seq(Event) /\ Len(batch) \in Nat \ {0}
      /\ \A i \in DOMAIN batch : batch[i].id = nextId + i - 1
      /\ Ordered(batch, nextId + Len(batch))
  BY BatchNumbers
<1>2. /\ Len(s) \in Nat /\ DOMAIN s = 1 .. Len(s)
      /\ DOMAIN batch = 1 .. Len(batch)
      /\ s \o batch \in Seq(Event) /\ DOMAIN (s \o batch) = 1 .. Len(s) + Len(batch)
  BY <1>1, LenProperties, ConcatProperties
<1>3. \A j \in DOMAIN s : s[j].id \in Nat /\ s[j].id < nextId
  BY EventAt DEF Ordered
<1>4. \A i \in DOMAIN batch : \A j \in DOMAIN s : s[j].id < batch[i].id
  BY <1>1, <1>2, <1>3
<1>5. Ordered(s, nextId + Len(batch))
  BY <1>1, <1>3 DEF Ordered
<1>6. Increasing(s \o batch)
  BY <1>1, <1>4, IncreasingAppended DEF Ordered
<1>7. \A i \in DOMAIN (s \o batch) : (s \o batch)[i].id < nextId + Len(batch)
  <2> SUFFICES ASSUME NEW i \in DOMAIN (s \o batch)
               PROVE  (s \o batch)[i].id < nextId + Len(batch)
    OBVIOUS
  <2>1. (s \o batch)[i] = IF i <= Len(s) THEN s[i] ELSE batch[i - Len(s)]
    BY <1>1, <1>2, ConcatProperties
  <2>2. CASE i <= Len(s)
    BY <1>2, <1>5, <2>1, <2>2 DEF Ordered
  <2>3. CASE i > Len(s)
    <3>1. i - Len(s) \in DOMAIN batch
      BY <1>1, <1>2, <2>3
    <3> QED BY <1>1, <1>2, <2>1, <2>3, <3>1 DEF Ordered
  <2> QED BY <1>2, <2>2, <2>3
<1> QED BY <1>4, <1>5, <1>6, <1>7 DEF Ordered

(* What a database file of the old log is for the log with a batch.        *)
LEMMA StampAppended ==
    ASSUME nextId \in Nat \ {0}, NEW batch \in Batches, NEW L \in Seq(Event), NEW D,
           NEW d, NEW g, NEW Q, StampOk(d, g, L, D, Q, nextId), NEW E \in {D, L}
    PROVE  StampOk(d, g, L \o batch, E, Q, nextId + Len(batch))
<1> SUFFICES ASSUME d.cur # NoCursor, d.cur.gen = g
             PROVE  \E K \in Seq(Event) : /\ MadeFrom(d, K, Q, nextId + Len(batch))
                                          /\ Agrees(K, L \o batch) /\ Agrees(K, E)
  BY DEF StampOk
<1>1. PICK K \in Seq(Event) : MadeFrom(d, K, Q, nextId) /\ Agrees(K, L) /\ Agrees(K, D)
  BY DEF StampOk
<1>2. /\ \A i \in DOMAIN batch : \A j \in DOMAIN K : K[j].id < batch[i].id
      /\ Ordered(K, nextId + Len(batch))
  BY <1>1, OrderedAppended DEF MadeFrom
<1>3. batch \in Seq(Event)
  BY BatchNumbers
<1>4. Agrees(K, L \o batch)
  BY <1>1, <1>2, <1>3, AgreesAppended
<1>5. MadeFrom(d, K, Q, nextId + Len(batch))
  BY <1>1, <1>2 DEF MadeFrom
<1> QED BY <1>1, <1>4, <1>5

(* A snapshot taken before an append is as good after it.                  *)
LEMMA SnapAppended ==
    ASSUME TypeOK, NEW batch \in Batches, NEW snap \in Seq(Event),
           Ordered(snap, nextId), Within(log, snap)
    PROVE  /\ Ordered(snap, nextId + Len(batch)) /\ Within(log \o batch, snap)
           /\ Len(snap) <= Len(log \o batch) /\ Prefix(log \o batch, Len(snap)) = snap
                => Len(snap) <= Len(log) /\ Prefix(log, Len(snap)) = snap
<1>1. /\ log \in Seq(Event) /\ Len(log) \in Nat /\ Len(snap) \in Nat /\ DOMAIN snap = 1 .. Len(snap)
      /\ nextId \in Nat \ {0}
  BY LenProperties DEF TypeOK
<1>2. /\ batch \in Seq(Event) /\ Len(batch) \in Nat \ {0} /\ DOMAIN batch = 1 .. Len(batch)
  BY <1>1, BatchNumbers, LenProperties
<1>3. /\ \A i \in DOMAIN batch : \A j \in DOMAIN snap : snap[j].id < batch[i].id
      /\ Ordered(snap, nextId + Len(batch))
  BY <1>1, OrderedAppended
<1>4. Within(log \o batch, snap)
  BY <1>1, <1>2, <1>3, WithinAppended
<1>5. ASSUME Len(snap) <= Len(log \o batch), Prefix(log \o batch, Len(snap)) = snap
      PROVE  Len(snap) <= Len(log) /\ Prefix(log, Len(snap)) = snap
  <2>1. log \o batch \in Seq(Event) /\ Len(log \o batch) = Len(log) + Len(batch)
    BY <1>1, <1>2, ConcatProperties
  <2>2. Len(snap) <= Len(log)
    <3> SUFFICES ASSUME Len(snap) > Len(log) PROVE FALSE
      BY <1>1
    <3> DEFINE i == Len(log) + 1
    <3>1. i \in DOMAIN snap /\ i \in 1 .. Len(log) + Len(batch) /\ 1 \in DOMAIN batch
      BY <1>1, <1>2
    <3>2. Len(snap) \in 0 .. Len(log \o batch)
      BY <1>1, <1>5, <2>1
    <3>3. snap[i] = (log \o batch)[i]
      <4>1. \A j \in 1 .. Len(snap) : Prefix(log \o batch, Len(snap))[j] = (log \o batch)[j]
        BY <2>1, <3>2, PrefixHolds
      <4> QED BY <1>1, <1>5, <3>1, <4>1
    <3>4. (log \o batch)[i] = batch[1]
      BY <1>1, <1>2, <3>1, ConcatProperties
    <3>5. snap[i].id < batch[1].id /\ snap[i].id \in Nat
      BY <1>3, <3>1, EventAt
    <3> QED BY <3>3, <3>4, <3>5
  <2>3. Prefix(log \o batch, Len(snap)) = Prefix(log, Len(snap))
    BY <1>1, <1>2, <2>2, PrefixOfConcat
  <2> QED BY <1>5, <2>2, <2>3
<1> QED BY <1>3, <1>4, <1>5

LEMMA AppendKeeps ==
    ASSUME TypeOK, LockInv, CursorInv, NEW p \in Procs, AppendBatch(p)
    PROVE  CursorInv'
<1>1. PICK batch \in Batches :
        /\ log' = log \o batch
        /\ nextId' = nextId + Len(batch)
        /\ Become(p, [proc[p] EXCEPT !.pc = "sync", !.batch = batch])
  BY DEF AppendBatch
<1>2. /\ nextId \in Nat \ {0} /\ log \in Seq(Event) /\ disk.log \in Seq(Event)
      /\ gen \in Nat /\ batch \in Seq(Event)
  BY BatchNumbers DEF TypeOK, Disk
<1>3. /\ UNCHANGED <<gen, ledger>> /\ lock = NoProc
      /\ Settle(OpenRw(db)) /\ ~BlocksWrites(Decision(OpenRw(db)))
  BY DEF AppendBatch, Acquire
<1>4. Quarantined' = Quarantined
  BY <1>3 DEF Quarantined
<1>5. disk'.log \in {disk.log, log} /\ disk'.db \in {disk.db, db'} /\ db' = OpenRw(db)
  BY <1>3 DEF Settle, Commit, DirSynced, Disk, TypeOK
<1>6. Ordered(log, nextId) /\ Ordered(disk.log, nextId) /\ Within(log, disk.log)
  BY DEF CursorInv, LogInv
<1>7. LogInv'
  <2>1. disk'.log \in Seq(Event) /\ Ordered(disk'.log, nextId) /\ Within(log, disk'.log)
    BY <1>2, <1>5, <1>6, WithinSelf
  <2>2. Ordered(disk'.log, nextId') /\ Ordered(log', nextId')
    BY <1>1, <1>2, <1>6, <2>1, OrderedAppended
  <2>3. \A i \in DOMAIN batch : \A j \in DOMAIN disk'.log : disk'.log[j].id < batch[i].id
    BY <1>2, <2>1, OrderedAppended
  <2>4. Within(log', disk'.log)
    BY <1>1, <1>2, <2>1, <2>3, WithinAppended
  <2> QED BY <2>2, <2>4 DEF LogInv
<1>8. StampOk(db', gen, log, disk.log, Quarantined, nextId)
      /\ StampOk(disk.db, gen, log, disk.log, Quarantined, nextId)
  BY <1>5, OpenOk DEF CursorInv, StampInv
<1>9. StampInv'
  <2>1. ASSUME NEW d, StampOk(d, gen, log, disk.log, Quarantined, nextId)
        PROVE  StampOk(d, gen, log \o batch, disk'.log, Quarantined, nextId + Len(batch))
    BY <1>2, <1>5, <2>1, StampAppended
  <2> QED BY <1>1, <1>3, <1>4, <1>5, <1>8, <2>1 DEF StampInv
<1>10. /\ db'.cur # NoCursor /\ db'.cur.off = Len(log)
       /\ MadeOf(db'.rows, log, Quarantined) /\ db'.exists
  <2>1. OpenRw(db).exists
    BY EmptyMade DEF OpenRw
  <2> QED BY <1>3, <1>5, <1>8, <2>1, GatePassed
<1>11. Good(db', log', Quarantined')
  <2>1. Len(log) \in 0 .. Len(log)
    BY <1>2, LenProperties
  <2>2. Prefix(log \o batch, Len(log)) = Prefix(log, Len(log))
    BY <1>2, <2>1, PrefixOfConcat
  <2>3. Prefix(log, Len(log)) = log
    BY <1>2, SubSeqFull DEF Prefix
  <2> QED BY <1>1, <1>4, <1>10, <2>2, <2>3 DEF Good
<1>12. /\ proc'[p] = [proc[p] EXCEPT !.pc = "sync", !.batch = batch]
       /\ \A q \in Procs \ {p} : proc'[q] = proc[q]
  BY <1>1, BecomeMoves
<1>13. proc'[p].pc = "sync" /\ proc'[p].batch = batch
  BY <1>12 DEF TypeOK, Local
<1>14. LocalInv(p)'
  <2>1. BatchInv(p)'
    BY <1>1, <1>2, <1>4, <1>10, <1>13 DEF BatchInv
  <2> QED BY <1>13, <2>1 DEF LocalInv, SeenInv, SnapInv, RenameInv, At
<1>15. ASSUME NEW q \in Procs, q # p PROVE LocalInv(q)'
  <2>1. proc'[q] = proc[q] /\ proc[q].pc \notin Holding
    BY <1>3, <1>12, <1>15, DurabilityAssumption DEF LockInv
  <2>2. SnapInv(q)
    BY DEF CursorInv, LocalInv
  <2>3. SnapInv(q)'
    <3>1. proc[q].snap \in Seq(Event)
      BY DEF TypeOK, Local
    <3>2. At(q, "scratch") \/ At(q, "catchup") =>
            /\ Ordered(proc[q].snap, nextId') /\ Within(log', proc[q].snap)
            /\ PrefixMatches(q)' => PrefixMatches(q)
      BY <1>1, <2>1, <2>2, <3>1, SnapAppended DEF SnapInv, PrefixMatches
    <3> QED BY <1>4, <2>1, <2>2, <3>2 DEF SnapInv, At, Holding
  <2> QED BY <1>11, <2>1, <2>3 DEF LocalInv, SeenInv, BatchInv, RenameInv, At, Holding
<1> QED BY <1>7, <1>9, <1>14, <1>15 DEF CursorInv

(* The commit of the batch makes the rows of the whole log. *)
LEMMA ApplyMade ==
    ASSUME TypeOK, LockInv, CursorInv, NEW p \in Procs, ApplyBatch(p)
    PROVE  FilesKept /\ StampedNow(db', gen, log, Quarantined) /\ disk'.db = db'
<1> DEFINE d == [db EXCEPT !.rows = ApplyAll(db.rows, proc[p].batch, {}),
                           !.cur = CursorAt(gen, log, Len(log))]
<1>1. FilesKept
  BY CommitKept DEF ApplyBatch
<1>2. PICK s \in Seq(Event) : log = s \o proc[p].batch /\ MadeOf(db.rows, s, Quarantined)
  BY DEF CursorInv, LocalInv, BatchInv, ApplyBatch
<1>3. db.exists
  BY DEF CursorInv, LocalInv, BatchInv, ApplyBatch
<1>4. PICK batch \in Seq(Event) : batch = proc[p].batch
  BY DEF TypeOK, Local
<1>5. MadeOf(ApplyAll(db.rows, batch, {}), log, Quarantined)
  <2>1. Increasing(s \o batch)
    BY <1>2, <1>4 DEF CursorInv, LogInv, Ordered
  <2>2. MadeOf(ApplyAll(db.rows, batch, {}), s \o batch, Quarantined)
    BY <1>2, <2>1, MadeOn
  <2> QED BY <1>2, <1>4, <2>2
<1>6. StampedNow(d, gen, log, Quarantined)
  <2>1. /\ d.rows = ApplyAll(db.rows, proc[p].batch, {})
        /\ d.cur = CursorAt(gen, log, Len(log)) /\ d.exists = db.exists
    BY DEF TypeOK, Database
  <2> QED BY <1>3, <1>4, <1>5, <2>1 DEF StampedNow
<1>7. Commit(d)
  BY DEF ApplyBatch
<1> HIDE DEF d
<1> QED BY <1>1, <1>6, <1>7 DEF Commit, DirSynced

LEMMA ApplyKeeps ==
    ASSUME TypeOK, LockInv, CursorInv, NEW p \in Procs, ApplyBatch(p)
    PROVE  CursorInv'
<1>1. FilesKept /\ DbMade /\ lock = p
  BY ApplyMade DEF DbMade, ApplyBatch, Release
<1>2. Moves(p, PCs \ Knowing)
  BY StopMoves DEF ApplyBatch, Moves, PCs, Knowing
<1> QED BY <1>1, <1>2, QuietStepKeeps

LEMMA WriteKeeps ==
    ASSUME TypeOK, LockInv, CursorInv, NEW p \in Procs, Write(p)
    PROVE  CursorInv'
<1>1. CASE WriteRefuse(p) \/ WriteNothing(p)
  <2>1. FilesKept /\ (DbKept \/ DbMade) /\ lock = NoProc
    BY <1>1, CommitKept, OpenKept DEF WriteRefuse, WriteNothing, Locked
  <2>2. Moves(p, PCs \ Knowing)
    BY <1>1, StopMoves DEF WriteRefuse, WriteNothing, Moves, PCs, Knowing
  <2> QED BY <2>1, <2>2, QuietStepKeeps
<1>2. CASE SyncLogFail(p) \/ ApplyBatchFail(p)
  <2>1. FilesKept /\ DbKept
    BY <1>2, UnchangedKept DEF SyncLogFail, ApplyBatchFail, fileVars, DbKept
  <2>2. Moves(p, PCs \ Knowing)
    BY <1>2, StopMoves DEF SyncLogFail, ApplyBatchFail, Moves, PCs, Knowing
  <2> QED BY <2>1, <2>2, QuietStepKeeps
<1>3. CASE SyncLog(p)
  <2>1. Quarantined' = Quarantined
    BY <1>3 DEF SyncLog, Quarantined
  <2>2. disk'.log \in {disk.log, log} /\ disk'.db = disk.db
    BY <1>3 DEF SyncLog, TypeOK, Disk
  <2>3. FilesKept /\ DbKept
    BY <1>3, <2>1, <2>2 DEF SyncLog, FilesKept, DbKept
  <2>4. Moves(p, {"apply"}) /\ proc'[p].batch = proc[p].batch
    BY <1>3, GotoMoves DEF SyncLog
  <2>5. BatchInv(p)
    BY DEF CursorInv, LocalInv
  <2>6. BatchInv(p)'
    BY <1>3, <2>1, <2>3, <2>4, <2>5 DEF BatchInv, SyncLog, At, FilesKept, DbKept
  <2>7. LocalInv(p)'
    BY <2>4, <2>6 DEF Moves, LocalInv, SeenInv, SnapInv, RenameInv, At
  <2>8. Moves(p, PCs)
    BY <2>4 DEF Moves, PCs
  <2> QED BY <2>3, <2>7, <2>8, StepKeeps
<1> QED BY <1>1, <1>2, <1>3, AppendKeeps, ApplyKeeps DEF Write

(* Once the generation is bumped, no cursor is of the log's generation.    *)
LEMMA OlderStamp ==
    ASSUME NEW d, NEW g \in Nat, NEW h \in Nat, NEW L, NEW D, NEW K, NEW E, NEW Q, NEW n,
           d.cur # NoCursor => d.cur.gen \in Nat,
           StampOk(d, h, L, D, Q, n), Older(d, g)
    PROVE  StampOk(d, g, K, E, Q, n)
BY DEF StampOk, Older

LEMMA BumpKeeps ==
    ASSUME TypeOK, LockInv, CursorInv, NEW p \in Procs, CompactBump(p)
    PROVE  CursorInv'
<1>1. /\ UNCHANGED <<log, ledger, db, nextId>> /\ gen' = gen + 1 /\ lock = NoProc
      /\ db.exists => ~BlocksWrites(Decision(db))
  BY DEF CompactBump, Acquire
<1>2. Quarantined' = Quarantined
  BY <1>1 DEF Quarantined
<1>3. disk'.log \in {disk.log, log} /\ disk'.db \in {disk.db, db}
  BY DEF CompactBump, SyncDir, DirSynced, Disk, TypeOK
<1>4. gen \in Nat /\ gen' \in Nat
  BY <1>1 DEF TypeOK
<1>5. ASSUME NEW d \in {db, disk.db} PROVE Older(d, gen') /\ (d.cur # NoCursor => d.cur.gen \in Nat)
  <2>1. d \in Database /\ StampOk(d, gen, log, disk.log, Quarantined, nextId)
    BY DEF TypeOK, Disk, CursorInv, StampInv
  <2>2. d.cur # NoCursor => d.cur.gen \in Nat /\ d.cur.gen <= gen
    BY <2>1 DEF Database, Cursor, StampOk
  <2> QED BY <1>1, <1>4, <2>2 DEF Older
<1>6. LogInv'
  BY <1>1, <1>3, WithinSelf DEF CursorInv, LogInv
<1>7. ASSUME NEW d \in {db, disk.db} PROVE StampOk(d, gen', log, disk'.log, Quarantined, nextId)
  <2>1. StampOk(d, gen, log, disk.log, Quarantined, nextId)
    BY DEF CursorInv, StampInv
  <2> QED BY <1>4, <1>5, <2>1, OlderStamp
<1>8. StampInv'
  BY <1>1, <1>2, <1>3, <1>7 DEF StampInv
<1>9. Moves(p, {"rename"})
  BY GotoMoves DEF CompactBump
<1>10. RenameInv(p)'
  <2>1. db = NoDb \/ (db.cur # NoCursor /\ db.cur.off >= Len(log))
    <3>1. CASE db.exists
      <4>1. db.cur # NoCursor /\ db.cur.off = Len(log) /\ Len(log) \in Nat
        BY <1>1, <3>1, GatePassed, LenProperties DEF CursorInv, StampInv, TypeOK
      <4> QED BY <4>1
    <3>2. CASE ~db.exists
      BY <3>2 DEF CursorInv, StampInv, StampOk
    <3> QED BY <3>1, <3>2
  <2>2. Older(db, gen') /\ Older(disk'.db, gen')
    BY <1>3, <1>5
  <2> QED BY <1>1, <2>1, <2>2 DEF RenameInv
<1>11. LocalInv(p)'
  BY <1>9, <1>10 DEF Moves, LocalInv, SeenInv, SnapInv, BatchInv, At
<1>12. ASSUME NEW q \in Procs, q # p PROVE LocalInv(q)'
  <2>1. proc'[q] = proc[q] /\ proc[q].pc \notin Holding
    BY <1>1, <1>9, <1>12, DurabilityAssumption DEF LockInv, Moves
  <2>2. LocalInv(q)
    BY DEF CursorInv
  <2>3. SeenInv(q)'
    BY <1>1, <1>2, <2>1, <2>2 DEF LocalInv, SeenInv, At
  <2>4. SnapInv(q)'
    <3>1. PrefixMatches(q)' <=> PrefixMatches(q)
      BY <1>1, <2>1 DEF PrefixMatches
    <3> QED BY <1>1, <1>2, <2>1, <2>2, <3>1 DEF LocalInv, SnapInv, At
  <2> QED BY <2>1, <2>3, <2>4 DEF LocalInv, BatchInv, RenameInv, At, Holding
<1> QED BY <1>6, <1>8, <1>11, <1>12 DEF CursorInv

(* The log is replaced by a shorter one while nothing is left to replay.   *)
LEMMA RenameKeeps ==
    ASSUME TypeOK, LockInv, CursorInv, NEW p \in Procs, CompactRename(p)
    PROVE  CursorInv'
<1>1. /\ UNCHANGED <<gen, ledger, db, disk, nextId>> /\ log' \in Compacted(log) /\ lock = p
      /\ At(p, "rename")
  BY DEF CompactRename, LockInv, Holding, At
<1>2. Quarantined' = Quarantined
  BY <1>1 DEF Quarantined
<1>3. PICK t \in Seq(Event) : t = log' /\ t \in Compacted(log)
  BY <1>1, CompactedType DEF TypeOK
<1>4. log \in Seq(Event) /\ Len(log) \in Nat /\ Len(t) \in Nat /\ gen \in Nat /\ nextId \in Nat
      /\ disk.log \in Seq(Event) /\ db \in Database /\ disk.db \in Database
  BY LenProperties DEF TypeOK, Disk
<1>5. /\ Len(t) <= Len(log)
      /\ \A i \in DOMAIN t : \E j \in DOMAIN log : t[i] = log[j]
      /\ Increasing(log) => Increasing(t)
  BY <1>3, <1>4, CompactedShorter
<1>6. Ordered(t, nextId) /\ Within(t, disk.log)
  <2>1. Ordered(log, nextId) /\ Within(log, disk.log)
    BY DEF CursorInv, LogInv
  <2>2. Within(t, disk.log)
    BY <1>5, <2>1, WithinLess
  <2>3. \A i \in DOMAIN t : t[i].id < nextId
    BY <1>5, <2>1 DEF Ordered
  <2> QED BY <1>5, <2>1, <2>2, <2>3 DEF Ordered
<1>7. LogInv'
  BY <1>1, <1>3, <1>6 DEF CursorInv, LogInv
<1>8. RenameInv(p)
  BY DEF CursorInv, LocalInv
<1>9. StampInv'
  <2>1. ASSUME NEW d \in {db, disk.db} PROVE StampOk(d, gen, t, disk.log, Quarantined, nextId)
    <3>1. Older(d, gen) /\ StampOk(d, gen, log, disk.log, Quarantined, nextId)
      BY <1>1, <1>8 DEF RenameInv, CursorInv, StampInv
    <3>2. d.cur # NoCursor => d.cur.gen \in Nat
      BY <1>4 DEF Database, Cursor
    <3> QED BY <1>4, <3>1, <3>2, OlderStamp
  <2> QED BY <1>1, <1>2, <1>3, <2>1 DEF StampInv
<1>10. Good(db, t, Quarantined)
  <2>1. CASE db = NoDb
    <3>1. Made(db, gen, t, Quarantined)
      BY <2>1 DEF Made
    <3> QED BY <1>4, <1>6, <3>1, WithinSelf, MadeGood
  <2>2. CASE db.cur # NoCursor /\ db.cur.off >= Len(log)
    <3>1. db.cur.off \in Nat
      BY <1>4, <2>2 DEF Database, Cursor
    <3>2. db.cur.off >= Len(t)
      BY <1>4, <1>5, <2>2, <3>1
    <3> QED BY <3>2 DEF Good
  <2> QED BY <1>1, <1>8, <2>1, <2>2 DEF RenameInv
<1>11. Moves(p, {"renameSync"})
  BY GotoMoves DEF CompactRename
<1>12. LocalInv(p)'
  BY <1>11, QuietLocal DEF Moves, Knowing
<1>13. ASSUME NEW q \in Procs, q # p PROVE LocalInv(q)'
  <2>1. proc'[q] = proc[q] /\ proc[q].pc \notin Holding
    BY <1>1, <1>11, <1>13, DurabilityAssumption DEF LockInv, Moves
  <2>2. SnapInv(q) /\ proc[q].snap \in Seq(Event)
    BY DEF CursorInv, LocalInv, TypeOK, Local
  <2>3. SnapInv(q)'
    <3>1. CASE At(q, "scratch") \/ At(q, "catchup")
      <4> DEFINE s == proc[q].snap
      <4>1. Ordered(s, nextId) /\ Within(log, s)
        BY <2>2, <3>1 DEF SnapInv
      <4>2. Within(t, s)
        BY <1>5, <4>1, WithinLess
      <4>3. ASSUME Len(s) <= Len(t), Prefix(t, Len(s)) = s
            PROVE  Len(s) <= Len(log) /\ Prefix(log, Len(s)) = s
        <5>1. Len(s) \in Nat /\ DOMAIN s = 1 .. Len(s) /\ DOMAIN t = 1 .. Len(t)
          BY <2>2, LenProperties
        <5>2. Len(s) \in 0 .. Len(t)
          BY <1>4, <4>3, <5>1
        <5>3. \A i \in 1 .. Len(s) : Prefix(t, Len(s))[i] = t[i]
          BY <1>3, <5>2, PrefixHolds
        <5>4. \A i \in DOMAIN s : i \in DOMAIN t /\ s[i] = t[i]
          BY <1>4, <4>3, <5>1, <5>3
        <5>5. \A i \in DOMAIN s : \E m \in DOMAIN log : log[m] = s[i]
          BY <1>5, <5>4
        <5>6. Increasing(s) /\ Increasing(log)
          BY <4>1 DEF Ordered, CursorInv, LogInv
        <5> QED BY <1>4, <2>2, <4>1, <5>5, <5>6, PrefixWithin
      <4>4. PrefixMatches(q)' => PrefixMatches(q)
        BY <1>3, <2>1, <4>3 DEF PrefixMatches
      <4>5. proc[q].pc # "swap"
        BY <2>1 DEF Holding
      <4> QED BY <1>1, <1>2, <1>3, <2>1, <2>2, <4>1, <4>2, <4>4, <4>5 DEF SnapInv, At
    <3>2. CASE ~(At(q, "scratch") \/ At(q, "catchup"))
      BY <2>1, <3>2 DEF SnapInv, At, Holding
    <3> QED BY <3>1, <3>2
  <2>4. Good(db', log', Quarantined')
    BY <1>1, <1>2, <1>3, <1>10
  <2> QED BY <2>1, <2>3, <2>4 DEF LocalInv, SeenInv, BatchInv, RenameInv, At, Holding
<1> QED BY <1>7, <1>9, <1>12, <1>13 DEF CursorInv

LEMMA CompactKeeps ==
    ASSUME TypeOK, LockInv, CursorInv, NEW p \in Procs, Compact(p)
    PROVE  CursorInv'
<1>1. CASE CompactRefuse(p) \/ CompactSyncFail(p)
  <2>1. FilesKept /\ DbKept
    BY <1>1, UnchangedKept DEF CompactRefuse, CompactSyncFail, fileVars, DbKept
  <2>2. Moves(p, PCs \ Knowing)
    BY <1>1, StopMoves DEF CompactRefuse, CompactSyncFail, Moves, PCs, Knowing
  <2> QED BY <2>1, <2>2, QuietStepKeeps
<1>2. CASE CompactSync(p)
  <2>1. FilesKept /\ DbKept
    BY <1>2, CommitKept DEF CompactSync, DbKept
  <2>2. Moves(p, PCs \ Knowing)
    BY <1>2, StopMoves DEF CompactSync, Moves, PCs, Knowing
  <2> QED BY <2>1, <2>2, QuietStepKeeps
<1> QED BY <1>1, <1>2, BumpKeeps, RenameKeeps DEF Compact

-----------------------------------------------------------------------------
(* The environment, and all steps together.                                *)

(* A power loss leaves any of the files a process may have shown or the    *)
(* disk may have kept; both were made from what any of the logs holds.     *)
LEMMA PowerLossKeeps ==
    ASSUME TypeOK, LockInv, CursorInv, PowerLoss
    PROVE  CursorInv'
<1>1. /\ UNCHANGED <<gen, ledger, nextId>> /\ db' \in {db, disk.db} /\ log' \in {log, disk.log}
      /\ disk'.log = log' /\ disk'.db = db'
      /\ proc' = [p \in Procs |-> Resting]
  BY DEF PowerLoss
<1>2. Quarantined' = Quarantined
  BY <1>1 DEF Quarantined
<1>3. LogInv'
  BY <1>1, WithinSelf DEF CursorInv, LogInv
<1>4. StampOk(db, gen, log, disk.log, Quarantined, nextId)
      /\ StampOk(disk.db, gen, log, disk.log, Quarantined, nextId)
  BY DEF CursorInv, StampInv
<1>5. ASSUME NEW d, StampOk(d, gen, log, disk.log, Quarantined, nextId), NEW L \in {log, disk.log}
      PROVE  StampOk(d, gen, L, L, Quarantined, nextId)
  BY <1>5 DEF StampOk
<1>6. StampInv'
  BY <1>1, <1>2, <1>4, <1>5 DEF StampInv
<1>7. ASSUME NEW p \in Procs PROVE LocalInv(p)'
  <2>1. proc'[p].pc = "idle"
    BY <1>1 DEF Resting
  <2> QED BY <2>1, QuietLocal DEF Knowing
<1> QED BY <1>3, <1>6, <1>7 DEF CursorInv

LEMMA CursorStays == TypeOK /\ LockInv /\ CursorInv /\ [Next]_vars => CursorInv'
<1> SUFFICES ASSUME TypeOK, LockInv, CursorInv, [Next]_vars PROVE CursorInv'
  OBVIOUS
<1>1. ASSUME NEW p \in Procs, NEW c \in {"write", "compact", "recover"}, Begin(p, c)
      PROVE  CursorInv'
  <2>1. FilesKept /\ (DbKept \/ DbMade) /\ lock = NoProc
    BY <1>1, CommitKept, OpenKept DEF Begin, Locked
  <2>2. [Resting EXCEPT !.pc = "inspectCursor", !.cmd = c].pc = "inspectCursor"
    BY DEF Resting
  <2>3. Moves(p, PCs \ Knowing)
    BY <1>1, <2>2, BecomeMoves DEF Begin, Moves, PCs, Knowing
  <2> QED BY <2>1, <2>3, QuietStepKeeps
<1>2. ASSUME NEW p \in Procs, BeginRebuild(p) PROVE CursorInv'
  <2>1. FilesKept /\ DbKept
    BY <1>2, UnchangedKept DEF BeginRebuild, fileVars, DbKept
  <2>2. [Resting EXCEPT !.pc = "snapshot", !.cmd = "rebuild", !.tries = 1].pc = "snapshot"
    BY DEF Resting
  <2>3. Moves(p, PCs \ Knowing)
    BY <1>2, <2>2, BecomeMoves DEF BeginRebuild, Moves, PCs, Knowing
  <2> QED BY <2>1, <2>3, QuietStepKeeps
<1>3. ASSUME NEW p \in Procs, Kill(p) PROVE CursorInv'
  <2>1. FilesKept /\ DbKept
    BY <1>3, UnchangedKept DEF Kill, fileVars, DbKept
  <2>2. Moves(p, PCs \ Knowing)
    BY <1>3, StopMoves DEF Kill, Moves, PCs, Knowing
  <2> QED BY <2>1, <2>2, QuietStepKeeps
<1>4. CASE RemoveDb
  <2>1. FilesKept /\ DbMade /\ lock = NoProc /\ UNCHANGED proc
    BY <1>4, UnchangedKept DEF RemoveDb, Locked, DbMade
  <2> QED BY <2>1, StandstillKeeps
<1>5. CASE UNCHANGED vars
  <2>1. FilesKept /\ DbKept /\ UNCHANGED proc
    BY <1>5, UnchangedKept DEF vars, DbKept
  <2> QED BY <2>1, StandstillKeeps
<1> QED BY <1>1, <1>2, <1>3, <1>4, <1>5, RecoveryKeeps, RebuildKeeps, WriteKeeps, CompactKeeps,
           PowerLossKeeps DEF Next

(* An initial database has a cursor only for the log it was made from.     *)
LEMMA CursorInit == Init => CursorInv
<1> SUFFICES ASSUME Init PROVE CursorInv
  OBVIOUS
<1>1. TypeOK
  BY TypeInit
<1>2. log \in Seq(Event) /\ disk.log \in Seq(Event) /\ gen = 0 /\ nextId = Len(log) + 1
      /\ Len(log) \in Nat /\ DOMAIN log = 1 .. Len(log)
  BY <1>1, LenProperties DEF TypeOK, Disk, Init
<1>3. \A i \in DOMAIN log : log[i].id = i
  BY DurabilityAssumption, EmptySeq DEF Init
<1>4. Ordered(log, nextId)
  BY <1>2, <1>3 DEF Ordered, Increasing
<1>5. disk.log = log \/ disk.log = <<>>
  BY DEF Init
<1>6. Ordered(disk.log, nextId) /\ Within(log, disk.log)
  <2>1. CASE disk.log = log
    BY <1>4, <2>1, WithinSelf
  <2>2. CASE disk.log = <<>>
    <3>1. DOMAIN disk.log = {}
      BY <2>2
    <3> QED BY <3>1 DEF Ordered, Increasing, Within
  <2> QED BY <1>5, <2>1, <2>2
<1>7. LogInv
  BY <1>4, <1>6 DEF LogInv
<1>8. StampOk(db, gen, log, disk.log, Quarantined, nextId)
  <2>1. CASE db.cur = NoCursor /\ db.exists
    BY <2>1 DEF StampOk
  <2>2. CASE Made(db, gen, log, Quarantined)
    BY <1>2, <1>4, <1>6, <2>2, MadeGood
  <2>3. (db.cur = NoCursor /\ db.exists) \/ Made(db, gen, log, Quarantined)
    <3>1. ASSUME db = [exists |-> TRUE, rows |-> Materialize(log, {}),
                       cur |-> CursorAt(0, log, Len(log)), stamp |-> FALSE]
          PROVE  Made(db, gen, log, Quarantined)
      <4>1. MadeOf(db.rows, log, Quarantined)
        BY <3>1 DEF MadeOf
      <4> QED BY <1>2, <3>1, <4>1 DEF Made, StampedNow
    <3> QED BY <3>1 DEF Init, Made
  <2> QED BY <2>1, <2>2, <2>3
<1>9. StampInv
  BY <1>8 DEF StampInv, Init
<1>10. ASSUME NEW p \in Procs PROVE LocalInv(p)
  <2>1. proc[p].pc = "idle"
    BY DEF Init, Resting
  <2> QED BY <2>1 DEF LocalInv, SeenInv, SnapInv, BatchInv, RenameInv, At
<1> QED BY <1>7, <1>9, <1>10 DEF CursorInv

(***************************************************************************)
(* Whenever inspect accepts the cursor of the database, the rows are those *)
(* of the log up to the cursor, but for events recovery has given up on:   *)
(* in spite of the fingerprint that covers two windows only, of lock-free  *)
(* inspections, rebuilds that replay without the lock, compactions, kills, *)
(* failed syncs and power loss (cursor.rs).                                *)
(***************************************************************************)
THEOREM CursorTrue == Spec => []CursorIsTruth
<1>1. Init => CursorInv
  BY CursorInit
<1>2. Init => LockInv
  BY DEF Init, LockInv, Resting, Holding
<1>3. TypeOK /\ LockInv /\ CursorInv /\ [Next]_vars => CursorInv'
  BY CursorStays
<1>4. TypeOK /\ LockInv /\ [Next]_vars => LockInv'
  BY LockStays
<1>5. TypeOK /\ CursorInv => CursorIsTruth
  <2> SUFFICES ASSUME TypeOK, CursorInv, db.exists, Accepts(Decision(db))
               PROVE  \E given \in SUBSET Quarantined :
                         db.rows = Materialize(Prefix(log, db.cur.off), given)
    BY DEF CursorIsTruth
  <2>1. MadeOf(db.rows, Prefix(log, db.cur.off), Quarantined)
    BY AcceptedTruth DEF TypeOK, CursorInv, StampInv, Decision
  <2> QED BY <2>1 DEF MadeOf
<1> QED BY <1>1, <1>2, <1>3, <1>4, <1>5, TypeCorrect, PTL DEF Spec

-----------------------------------------------------------------------------
(* What a search sees.  As long as every event can be applied, recovery    *)
(* gives up on none, and every file made from the log shows all of it.     *)

NoPoison ==
    /\ BadFlags \subseteq {FALSE}
    /\ \A s \in InitialLogs : \A i \in DOMAIN s : ~s[i].bad
    /\ "transient" \notin Faults

Clean(s) == \A i \in DOMAIN s : ~s[i].bad

(* The history d is the history h or the beginning of it.                  *)
Begins(d, h) == Len(d) <= Len(h) /\ Prefix(h, Len(d)) = d

PlainInv ==
    /\ Clean(log) /\ Clean(disk.log)
    /\ \A e \in DOMAIN ledger : ledger[e] = 0
    /\ Ordered(history, nextId)
    /\ Begins(disk.history, history)

LEMMA NothingGivenUp ==
    ASSUME PlainInv
    PROVE  Quarantined = {}
BY StoreAssumption DEF PlainInv, Quarantined

LEMMA BeginsSelf ==
    ASSUME NEW h \in Seq(Event)
    PROVE  Begins(h, h)
<1>1. Len(h) \in Nat /\ SubSeq(h, 1, Len(h)) = h
  BY LenProperties, SubSeqFull
<1> QED BY <1>1 DEF Begins, Prefix

(* A tail replay of clean events does not fail.                            *)
LEMMA ReplayGoesThrough ==
    ASSUME TypeOK, NoPoison, PlainInv, NEW p \in Procs
    PROVE  ~ReplayFail(p)
<1> SUFFICES ASSUME ReplayFail(p) PROVE FALSE
  OBVIOUS
<1>1. log \in Seq(Event) /\ Len(log) \in Nat /\ db.cur.off \in Nat
  BY LenProperties DEF ReplayFail, TypeOK, Database, Cursor
<1>2. PICK i \in DOMAIN Unapplied : Unapplied[i].bad \/ TransientPossible
  BY DEF ReplayFail, Failing
<1>3. Unapplied[i].bad
  BY <1>2 DEF NoPoison, TransientPossible
<1>4. db.cur.off < Len(log)
  <2> SUFFICES ASSUME Len(log) < db.cur.off + 1 PROVE FALSE
    BY <1>1
  <2>1. Unapplied = <<>>
    BY <1>1, SubSeqEmpty DEF Unapplied
  <2>2. DOMAIN Unapplied = {}
    BY <2>1
  <2> QED BY <1>2, <2>2
<1>5. PICK start \in Seq(Event), rest \in Seq(Event) : rest = Unapplied /\ log = start \o rest
  <2>1. db.cur.off \in 0 .. Len(log)
    BY <1>1, <1>4
  <2> QED BY <1>1, <2>1, PrefixHolds, CutAt DEF Unapplied
<1>6. Len(start) + i \in DOMAIN log /\ log[Len(start) + i] = rest[i]
  BY <1>2, <1>5
<1> QED BY <1>3, <1>5, <1>6 DEF PlainInv, Clean

LEMMA PlainQuiet ==
    ASSUME TypeOK, PlainInv, UNCHANGED <<log, ledger, history, nextId>>, LogMoves
    PROVE  PlainInv'
<1>1. Begins(history, history)
  BY BeginsSelf DEF TypeOK
<1> QED BY <1>1 DEF PlainInv, LogMoves

LEMMA BatchClean ==
    ASSUME NoPoison, nextId \in Nat \ {0}, NEW batch \in Batches
    PROVE  Clean(batch)
<1>1. PICK n \in 1 .. (IF MaxBatch <= MaxEvents + 1 - nextId
                       THEN MaxBatch ELSE MaxEvents + 1 - nextId) :
        batch \in [1 .. n -> [id : nextId .. nextId + n - 1, key : Keys,
                              op : {"upsert", "expire"}, bad : BadFlags]]
  BY DEF Batches
<1> QED BY <1>1 DEF Clean, NoPoison

LEMMA PlainAppend ==
    ASSUME TypeOK, NoPoison, CursorInv, PlainInv, NEW p \in Procs, AppendBatch(p)
    PROVE  PlainInv'
<1>1. PICK batch \in Batches :
        log' = log \o batch /\ history' = history \o batch /\ nextId' = nextId + Len(batch)
  BY DEF AppendBatch
<1>2. /\ batch \in Seq(Event) /\ Clean(batch) /\ Len(batch) \in Nat
      /\ log \in Seq(Event) /\ history \in Seq(Event) /\ disk.history \in Seq(Event)
      /\ nextId \in Nat \ {0} /\ UNCHANGED ledger
  BY BatchNumbers, BatchClean DEF TypeOK, Disk, AppendBatch
<1>3. Clean(log')
  <2>1. \A i \in DOMAIN (log \o batch) :
           \/ i \in DOMAIN log /\ (log \o batch)[i] = log[i]
           \/ i - Len(log) \in DOMAIN batch /\ (log \o batch)[i] = batch[i - Len(log)]
    BY <1>2
  <2> QED BY <1>1, <1>2, <2>1 DEF PlainInv, Clean
<1>4. LogMoves
  BY CommitLog DEF AppendBatch
<1>5. Clean(disk'.log)
  BY <1>4 DEF LogMoves, PlainInv
<1>6. Ordered(history', nextId')
  BY <1>1, <1>2, OrderedAppended DEF PlainInv
<1>7. Begins(disk'.history, history')
  <2>1. disk'.history \in Seq(Event) /\ Begins(disk'.history, history)
    BY <1>2, <1>4, BeginsSelf DEF LogMoves, PlainInv
  <2>2. Len(disk'.history) \in 0 .. Len(history) /\ Len(history) \in Nat
    BY <1>2, <2>1, LenProperties DEF Begins
  <2>3. /\ Len(history \o batch) = Len(history) + Len(batch)
        /\ Prefix(history \o batch, Len(disk'.history)) = Prefix(history, Len(disk'.history))
    BY <1>2, <2>2, PrefixOfConcat
  <2> QED BY <1>1, <1>2, <2>1, <2>2, <2>3 DEF Begins
<1> QED BY <1>2, <1>3, <1>5, <1>6, <1>7 DEF PlainInv

(* A beginning of the history is in order as well.                         *)
LEMMA OrderedPrefix ==
    ASSUME NEW h \in Seq(Event), NEW d \in Seq(Event), NEW n, Ordered(h, n), Begins(d, h)
    PROVE  Ordered(d, n)
<1>1. Len(d) \in 0 .. Len(h) /\ Len(h) \in Nat /\ DOMAIN d = 1 .. Len(d) /\ DOMAIN h = 1 .. Len(h)
  BY LenProperties DEF Begins
<1>2. \A i \in 1 .. Len(d) : Prefix(h, Len(d))[i] = h[i]
  BY <1>1, PrefixHolds
<1>3. \A i \in DOMAIN d : i \in DOMAIN h /\ d[i] = h[i]
  BY <1>1, <1>2 DEF Begins
<1> QED BY <1>3 DEF Ordered, Increasing

(* The ledger counts failures of a tail replay only; numbers are given out  *)
(* by appends only.                                                        *)
LEMMA CountersKept ==
    ASSUME NEW p \in Procs,
           \/ \E c \in {"write", "compact", "recover"} : Begin(p, c)
           \/ BeginRebuild(p) \/ Recovery(p) \/ RebuildStep(p) \/ Write(p) \/ Compact(p) \/ Kill(p),
           ~ReplayFail(p), ~AppendBatch(p)
    PROVE  UNCHANGED <<ledger, nextId>>
<1>1. Recovery(p) => UNCHANGED <<ledger, nextId>>
  BY DEF Recovery, InspectCursor, InspectLog, ReplayLock, ReplayNothing, ReplayCommit,
         FlightLock, RecheckDone, RecheckGoOn, CoverageGoOn, CoverageDefer, fileVars
<1>2. RebuildStep(p) => UNCHANGED <<ledger, nextId>>
  BY DEF RebuildStep, Snapshot, Scratch, ScratchFail, Restart, Catchup, CatchupFail,
         SwapBusy, Swap, SwapSync, SwapSyncFail, fileVars
<1>3. Write(p) \/ Compact(p) => UNCHANGED <<ledger, nextId>>
  BY DEF Write, WriteRefuse, WriteNothing, SyncLog, SyncLogFail, ApplyBatch, ApplyBatchFail,
         Compact, CompactRefuse, CompactBump, CompactRename, CompactSync, CompactSyncFail, fileVars
<1> QED BY <1>1, <1>2, <1>3 DEF Begin, BeginRebuild, Kill, fileVars

LEMMA PlainStays ==
    ASSUME TypeOK, NoPoison, CursorInv, PlainInv, [Next]_vars
    PROVE  PlainInv'
<1>1. ASSUME NEW p \in Procs, NEW c \in {"write", "compact", "recover"}, Begin(p, c)
      PROVE  PlainInv'
  BY <1>1, CommitLog, PlainQuiet DEF Begin, ghostVars
<1>2. ASSUME NEW p \in Procs, BeginRebuild(p) \/ Kill(p) PROVE PlainInv'
  BY <1>2, PlainQuiet DEF BeginRebuild, Kill, fileVars, ghostVars, LogMoves
<1>3. ASSUME NEW p \in Procs, Recovery(p) \/ RebuildStep(p) PROVE PlainInv'
  <2>1. ~ReplayFail(p)
    BY ReplayGoesThrough
  <2>2. CASE AppendBatch(p)
    BY <2>2, PlainAppend
  <2>3. CASE ~AppendBatch(p)
    <3>1. UNCHANGED <<ledger, nextId>>
      BY <1>3, <2>1, <2>3, CountersKept
    <3> QED BY <1>3, <3>1, RecoveryLog, PlainQuiet
  <2> QED BY <2>2, <2>3
<1>4. ASSUME NEW p \in Procs, CompactRename(p) PROVE PlainInv'
  <2>1. log' \in Compacted(log) /\ UNCHANGED <<ledger, nextId, disk, history>>
    BY <1>4 DEF CompactRename, ghostVars
  <2>2. \A i \in DOMAIN log' : \E j \in DOMAIN log : log'[i] = log[j]
    BY <2>1, CompactedShorter DEF TypeOK
  <2> QED BY <2>1, <2>2 DEF PlainInv, Clean
<1>5. ASSUME NEW p \in Procs, Write(p) \/ Compact(p), ~AppendBatch(p), ~CompactRename(p)
      PROVE  PlainInv'
  <2>1. UNCHANGED <<ledger, nextId>>
    BY <1>5, ReplayGoesThrough, CountersKept
  <2> QED BY <1>5, <2>1, WriteLog, PlainQuiet
<1>6. CASE PowerLoss
  <2>1. /\ \/ log' = log /\ history' = history
           \/ log' = disk.log /\ history' = disk.history
        /\ disk'.log = log' /\ disk'.history = history' /\ UNCHANGED <<ledger, nextId>>
    BY <1>6 DEF PowerLoss
  <2>2. history \in Seq(Event) /\ disk.history \in Seq(Event)
    BY DEF TypeOK, Disk
  <2>3. Begins(disk'.history, history')
    BY <2>1, <2>2, BeginsSelf
  <2>4. Ordered(history', nextId')
    BY <2>1, <2>2, OrderedPrefix DEF PlainInv
  <2> QED BY <2>1, <2>3, <2>4 DEF PlainInv
<1>7. CASE RemoveDb
  BY <1>7, PlainQuiet DEF RemoveDb, ghostVars, LogMoves
<1>8. CASE UNCHANGED vars
  BY <1>8, PlainQuiet DEF vars, LogMoves
<1> QED BY <1>1, <1>2, <1>3, <1>4, <1>5, <1>6, <1>7, <1>8, PlainAppend DEF Next

LEMMA PlainInit ==
    ASSUME NoPoison, Init
    PROVE  PlainInv
<1>1. TypeOK
  BY TypeInit
<1>2. log \in Seq(Event) /\ Clean(log) /\ history = log
  BY <1>1 DEF TypeOK, Init, NoPoison, Clean
<1>3. \/ disk.log = log /\ disk.history = history
      \/ disk.log = <<>> /\ disk.history = <<>>
  BY DEF Init
<1>4. Ordered(history, nextId)
  BY <1>2, CursorInit DEF CursorInv, LogInv
<1>5. Clean(disk.log) /\ Begins(disk.history, history)
  <2>1. CASE disk.log = log /\ disk.history = history
    BY <1>2, <2>1, BeginsSelf
  <2>2. CASE disk.log = <<>> /\ disk.history = <<>>
    <3>1. Len(<<>>) = 0 /\ DOMAIN <<>> = {} /\ Len(history) \in Nat
      BY <1>2, LenProperties
    <3> QED BY <2>2, <3>1 DEF Clean, Begins, Prefix
  <2> QED BY <1>3, <2>1, <2>2
<1> QED BY <1>2, <1>4, <1>5 DEF PlainInv, Init

(* What every step does to the database file, but for the append, the      *)
(* steps that change log or generation, and those of the environment.      *)
Plainly(p) ==
    \/ \E c \in {"write", "compact", "recover"} : Begin(p, c)
    \/ BeginRebuild(p) \/ Kill(p) \/ Recovery(p) \/ RebuildStep(p)
    \/ (Write(p) \/ Compact(p)) /\ ~AppendBatch(p) /\ ~CompactBump(p) /\ ~CompactRename(p)

LEMMA StepFiles ==
    ASSUME TypeOK, LockInv, CursorInv, NEW p \in Procs, Plainly(p)
    PROVE  FilesKept /\ (DbKept \/ DbMade)
<1>1. ASSUME NEW c \in {"write", "compact", "recover"}, Begin(p, c)
      PROVE  FilesKept /\ (DbKept \/ DbMade)
  BY <1>1, CommitKept, OpenKept DEF Begin
<1>2. CASE BeginRebuild(p) \/ Kill(p)
  BY <1>2, UnchangedKept DEF BeginRebuild, Kill, fileVars, DbKept
<1>3. CASE Recovery(p)
  <2>1. CASE InspectCursor(p) \/ InspectLog(p) \/ ReplayNothing(p) \/ FlightLock(p)
             \/ CoverageGoOn(p) \/ CoverageDefer(p)
    BY <2>1, UnchangedKept DEF InspectCursor, InspectLog, ReplayNothing, FlightLock,
                               CoverageGoOn, CoverageDefer, fileVars, DbKept
  <2>2. CASE ReplayLock(p)
    BY <2>2, CommitKept, OpenKept DEF ReplayLock
  <2> QED BY <1>3, <2>1, <2>2, ReplayMade, ReplayFailFiles, RecheckMade DEF Recovery
<1>4. CASE RebuildStep(p)
  <2>1. CASE Snapshot(p)
    BY <2>1, CommitKept, OpenKept DEF Snapshot
  <2>2. CASE Scratch(p) \/ ScratchFail(p) \/ Restart(p) \/ Catchup(p) \/ CatchupFail(p)
             \/ SwapBusy(p) \/ SwapSyncFail(p)
    BY <2>2, UnchangedKept DEF Scratch, ScratchFail, Restart, Catchup, CatchupFail, SwapBusy,
                               SwapSyncFail, fileVars, DbKept
  <2>3. CASE SwapSync(p)
    BY <2>3, CommitKept DEF SwapSync, DbKept
  <2> QED BY <1>4, <2>1, <2>2, <2>3, SwapMade DEF RebuildStep
<1>5. CASE Write(p) /\ ~AppendBatch(p)
  <2>1. CASE WriteRefuse(p) \/ WriteNothing(p)
    BY <2>1, CommitKept, OpenKept DEF WriteRefuse, WriteNothing
  <2>2. CASE SyncLog(p)
    <3>1. Quarantined' = Quarantined /\ disk'.log \in {disk.log, log} /\ disk'.db = disk.db
      BY <2>2 DEF SyncLog, Quarantined, TypeOK, Disk
    <3> QED BY <2>2, <3>1 DEF SyncLog, FilesKept, DbKept
  <2>3. CASE SyncLogFail(p) \/ ApplyBatchFail(p)
    BY <2>3, UnchangedKept DEF SyncLogFail, ApplyBatchFail, fileVars, DbKept
  <2>4. CASE ApplyBatch(p)
    BY <2>4, ApplyMade DEF DbMade
  <2> QED BY <1>5, <2>1, <2>2, <2>3, <2>4 DEF Write
<1>6. CASE Compact(p) /\ ~CompactBump(p) /\ ~CompactRename(p)
  <2>1. CASE CompactRefuse(p) \/ CompactSyncFail(p)
    BY <2>1, UnchangedKept DEF CompactRefuse, CompactSyncFail, fileVars, DbKept
  <2>2. CASE CompactSync(p)
    BY <2>2, CommitKept DEF CompactSync, DbKept
  <2> QED BY <1>6, <2>1, <2>2 DEF Compact
<1> QED BY <1>1, <1>2, <1>3, <1>4, <1>5, <1>6 DEF Plainly

LEMMA HistoryStays ==
    ASSUME TypeOK, NEW p \in Procs, Plainly(p)
    PROVE  UNCHANGED history /\ (~ApplyBatch(p) => UNCHANGED acked)
<1>1. Recovery(p) => UNCHANGED ghostVars
  BY DEF Recovery, InspectCursor, InspectLog, ReplayLock, ReplayNothing, ReplayCommit, ReplayFail,
         FlightLock, RecheckDone, RecheckGoOn, CoverageGoOn, CoverageDefer
<1>2. RebuildStep(p) => UNCHANGED ghostVars
  BY DEF RebuildStep, Snapshot, Scratch, ScratchFail, Restart, Catchup, CatchupFail,
         SwapBusy, Swap, SwapSync, SwapSyncFail
<1>3. Write(p) /\ ~AppendBatch(p) /\ ~ApplyBatch(p) => UNCHANGED ghostVars
  BY DEF Write, WriteRefuse, WriteNothing, SyncLog, SyncLogFail, ApplyBatchFail
<1>4. Compact(p) /\ ~CompactBump(p) /\ ~CompactRename(p) => UNCHANGED ghostVars
  BY DEF Compact, CompactRefuse, CompactSync, CompactSyncFail
<1>5. ApplyBatch(p) => UNCHANGED history
  BY DEF ApplyBatch
<1> QED BY <1>1, <1>2, <1>3, <1>4, <1>5 DEF Plainly, Begin, BeginRebuild, Kill, ghostVars

-----------------------------------------------------------------------------
(* Each step is one the abstract store may take, or none.                  *)

(* The view of a prefix of the history, as DurableKb defines it.           *)
LEMMA ViewIs ==
    ASSUME NEW n
    PROVE  Promise!View(n) = Visible(Materialize(Prefix(history, n), {}))
BY DEF Promise!View, Promise!Visible, Promise!Materialize, Promise!Prefix, Promise!ApplyAll,
       Promise!EmptyRows, Promise!Touching, Promise!IsLast, Promise!NoRow, Promise!Stale,
       Visible, Materialize, Prefix, ApplyAll, EmptyRows, Touching, IsLast, NoRow, Stale

LEMMA EmptyView ==
    /\ Visible(NoDb.rows) = Promise!View(0)
    /\ Visible(FreshDb.rows) = Promise!View(0)
<1>1. Prefix(history, 0) = <<>>
  BY DEF Prefix
<1> QED BY <1>1, EmptyMade, ViewIs

(* A file made from all the log shows all the history. *)
LEMMA FullView ==
    ASSUME TypeOK, TellInv, PlainInv, NEW d, StampedNow(d, gen, log, Quarantined)
    PROVE  Visible(d.rows) = Promise!View(Len(history))
<1>1. d.rows = Materialize(log, {})
  BY NothingGivenUp DEF StampedNow, MadeOf
<1>2. Prefix(history, Len(history)) = history
  BY SubSeqFull DEF Prefix, TypeOK
<1> QED BY <1>1, <1>2, ViewIs DEF TellInv, Tells

LEMMA ShowsOrKeeps ==
    ASSUME TypeOK, TellInv, PlainInv, UNCHANGED <<history, acked>>,
           disk'.db \in {disk.db, db'}, DbKept \/ DbMade
    PROVE  [Promise!Next]_(Promise!vars)
<1>1. Visible(disk'.db.rows) \in {Visible(disk.db.rows), Visible(db'.rows)}
  OBVIOUS
<1>2. CASE DbKept
  <2>1. Visible(db'.rows) = Visible(db.rows)
    BY <1>2 DEF DbKept
  <2>2. Promise!Keep \/ UNCHANGED Promise!vars
    BY <1>1, <2>1 DEF Promise!Keep, Promise!vars
  <2> QED BY <2>2 DEF Promise!Next
<1>3. CASE DbMade
  <2>1. 0 \in 0 .. Len(history) /\ Len(history) \in 0 .. Len(history)
    BY LenProperties DEF TypeOK
  <2>2. \E n \in 0 .. Len(history) : Visible(db'.rows) = Promise!View(n)
    BY <1>3, <2>1, EmptyView, FullView DEF DbMade
  <2>3. Promise!Show
    BY <1>1, <2>2 DEF Promise!Show, Promise!KeptOrNot
  <2> QED BY <2>3 DEF Promise!Next
<1> QED BY <1>2, <1>3

LEMMA IdsAre ==
    ASSUME NEW s
    PROVE  Promise!EventIds(s) = EventIds(s)
BY DEF Promise!EventIds, EventIds

(* An append is a commit of the batch; the database it may have to create  *)
(* first looks like the one that was missing.                              *)
LEMMA AppendCommits ==
    ASSUME TypeOK, CursorInv, PlainInv, NEW p \in Procs, AppendBatch(p)
    PROVE  Promise!Commit
<1>1. PICK batch \in Batches : history' = history \o batch
  BY DEF AppendBatch
<1>2. /\ batch \in Seq(Event) /\ Len(batch) \in Nat \ {0} /\ history \in Seq(Event)
      /\ Len(history) \in Nat /\ nextId \in Nat \ {0}
  BY BatchNumbers, LenProperties DEF TypeOK
<1>3. Settle(OpenRw(db)) /\ UNCHANGED acked
  BY DEF AppendBatch
<1>4. disk'.db \in {disk.db, db'} /\ db' = OpenRw(db)
  BY <1>3 DEF Settle, Commit, DirSynced, Disk, TypeOK
<1>5. Visible(db'.rows) = Visible(db.rows)
  <2>1. ~db.exists => db = NoDb
    BY DEF CursorInv, StampInv, StampOk
  <2> QED BY <1>4, <2>1, EmptyMade DEF OpenRw
<1>6. /\ history' \in Seq(Event) /\ Len(history') > Len(history)
      /\ Prefix(history', Len(history)) = history
  <2>1. Len(history) \in 0 .. Len(history)
    BY <1>2
  <2>2. /\ Len(history \o batch) = Len(history) + Len(batch)
        /\ Prefix(history \o batch, Len(history)) = Prefix(history, Len(history))
    BY <1>2, <2>1, PrefixOfConcat
  <2>3. Prefix(history, Len(history)) = history
    BY <1>2, SubSeqFull DEF Prefix
  <2>4. history \o batch \in Seq(Event)
    BY <1>2, ConcatProperties
  <2> QED BY <1>1, <1>2, <2>2, <2>3, <2>4
<1>7. ASSUME NEW i \in Len(history) + 1 .. Len(history'), NEW e \in EventIds(history)
      PROVE  e < history'[i].id
  <2>1. \A m \in DOMAIN batch : \A j \in DOMAIN history : history[j].id < batch[m].id
    BY <1>2, OrderedAppended DEF PlainInv
  <2>2. PICK j \in DOMAIN history : e = history[j].id
    BY DEF EventIds
  <2>3. Len(history') = Len(history) + Len(batch)
    BY <1>1, <1>2, ConcatProperties
  <2>4. i - Len(history) \in 1 .. Len(batch) /\ DOMAIN batch = 1 .. Len(batch)
    BY <1>2, <2>3, LenProperties
  <2>5. history'[i] = batch[i - Len(history)]
    BY <1>1, <1>2, <2>3, ConcatProperties
  <2> QED BY <2>1, <2>2, <2>4, <2>5
<1>8. Prefix(history', Len(history)) = Promise!Prefix(history', Len(history))
  BY DEF Prefix, Promise!Prefix
<1>9. history' \in Seq(Promise!Event)
  BY <1>6 DEF Event, Promise!Event
<1>10. Promise!KeptOrNot
  BY <1>4, <1>5 DEF Promise!KeptOrNot
<1> QED BY <1>3, <1>5, <1>6, <1>7, <1>8, <1>9, <1>10, IdsAre DEF Promise!Commit

(* A command reports success when all of the history can be searched.      *)
LEMMA ApplyAcknowledges ==
    ASSUME TypeOK, LockInv, CursorInv, TellInv, PlainInv, AckedInv, NEW p \in Procs, ApplyBatch(p),
           AckedInv'
    PROVE  Promise!Acknowledge
<1>1. Visible(db'.rows) = Promise!View(Len(history)) /\ disk'.db = db'
  BY ApplyMade, FullView
<1>2. UNCHANGED history /\ acked' = acked \cup EventIds(proc[p].batch)
  BY DEF ApplyBatch
<1>3. acked' \subseteq EventIds(history)
  BY <1>2 DEF AckedInv, AckedOnDisk, DiskWithinHistory
<1> QED BY <1>1, <1>2, <1>3, IdsAre DEF Promise!Acknowledge

LEMMA PowerLossLoses ==
    ASSUME TypeOK, PlainInv, PowerLoss, AckedInv'
    PROVE  Promise!Lose
<1>1. /\ history' \in {history, disk.history} /\ db' \in {db, disk.db} /\ disk'.db = db'
      /\ UNCHANGED acked
  BY DEF PowerLoss
<1>2. /\ Len(history) \in 0 .. Len(history) /\ Prefix(history, Len(history)) = history
      /\ Len(disk.history) \in 0 .. Len(history)
      /\ Prefix(history, Len(disk.history)) = disk.history
  BY LenProperties, SubSeqFull DEF PlainInv, Begins, Prefix, TypeOK, Disk
<1>3. \E n \in 0 .. Len(history) : history' = Promise!Prefix(history, n)
  BY <1>1, <1>2 DEF Prefix, Promise!Prefix
<1>4. acked \subseteq EventIds(history')
  BY <1>1 DEF AckedInv, AckedOnDisk, DiskWithinHistory
<1>5. Visible(db'.rows) \in {Visible(db.rows), Visible(disk.db.rows)}
  BY <1>1
<1> QED BY <1>1, <1>3, <1>4, <1>5, IdsAre DEF Promise!Lose

LEMMA Implements ==
    ASSUME TypeOK, LockInv, CursorInv, TellInv, PlainInv, AckedInv, [Next]_vars, AckedInv'
    PROVE  [Promise!Next]_(Promise!vars)
<1>1. ASSUME NEW p \in Procs, Plainly(p), ~ApplyBatch(p) PROVE [Promise!Next]_(Promise!vars)
  BY <1>1, StepFiles, HistoryStays, ShowsOrKeeps DEF FilesKept
<1>2. ASSUME NEW p \in Procs, ApplyBatch(p) PROVE [Promise!Next]_(Promise!vars)
  BY <1>2, ApplyAcknowledges DEF Promise!Next
<1>3. ASSUME NEW p \in Procs, AppendBatch(p) PROVE [Promise!Next]_(Promise!vars)
  BY <1>3, AppendCommits DEF Promise!Next
<1>4. ASSUME NEW p \in Procs, CompactBump(p) \/ CompactRename(p)
      PROVE  [Promise!Next]_(Promise!vars)
  <2>1. /\ UNCHANGED <<history, acked>> /\ DbKept /\ disk'.db \in {disk.db, db'}
    BY <1>4 DEF CompactBump, CompactRename, SyncDir, DirSynced, Disk, TypeOK, ghostVars, DbKept
  <2> QED BY <2>1, ShowsOrKeeps
<1>5. CASE PowerLoss
  BY <1>5, PowerLossLoses DEF Promise!Next
<1>6. CASE RemoveDb
  <2>1. UNCHANGED <<history, acked, disk>> /\ DbMade
    BY <1>6 DEF RemoveDb, ghostVars, DbMade
  <2> QED BY <2>1, ShowsOrKeeps
<1>7. CASE UNCHANGED vars
  BY <1>7 DEF vars, Promise!vars
<1> QED BY <1>1, <1>2, <1>3, <1>4, <1>5, <1>6, <1>7 DEF Next, Plainly

LEMMA StartsAs ==
    ASSUME NoPoison, Init
    PROVE  Promise!Init
<1>1. TypeOK
  BY TypeInit
<1>2. history = log /\ log \in Seq(Event) /\ acked = {} /\ disk.db = db
  BY <1>1 DEF Init, TypeOK
<1>3. Prefix(history, Len(history)) = history
  BY <1>2, SubSeqFull DEF Prefix
<1>4. BadIds(log) = {}
  BY DEF Init, BadIds, NoPoison
<1>5. Visible(db.rows) \in {Promise!View(0), Promise!View(Len(history))}
  <2>1. CASE db = NoDb \/ db = FreshDb
    BY <2>1, EmptyView
  <2>2. CASE db.rows = Materialize(log, {})
    BY <1>2, <1>3, <2>2, ViewIs
  <2> QED BY <1>4, <2>1, <2>2 DEF Init
<1>6. history \in Seq(Promise!Event)
  BY <1>2 DEF Event, Promise!Event
<1> QED BY <1>2, <1>5, <1>6 DEF Promise!Init

(***************************************************************************)
(* As long as every event can be applied, the whole of log, database,      *)
(* cursor, recovery, rebuild, compaction and faults is a DurableKb: what   *)
(* searches see is one complete prefix of the history whenever a step      *)
(* changes it, success is reported once all of the history is in it and    *)
(* durable, and a power loss takes back nothing acknowledged.              *)
(***************************************************************************)
THEOREM PromiseKept ==
    ASSUME NoPoison
    PROVE  Spec => KeepsPromise
<1>1. Init => LockInv /\ CursorInv /\ TellInv /\ AckedInv /\ PlainInv /\ Promise!Init
  <2>1. Init => LockInv
    BY DEF Init, LockInv, Resting, Holding
  <2>2. Init => TellInv
    BY DEF Init, TellInv, Tells
  <2> QED BY <2>1, <2>2, CursorInit, AckedInit, PlainInit, StartsAs
<1>2. TypeOK /\ LockInv /\ CursorInv /\ TellInv /\ AckedInv /\ PlainInv /\ [Next]_vars
        => /\ LockInv' /\ CursorInv' /\ TellInv' /\ AckedInv' /\ PlainInv'
           /\ [Promise!Next]_(Promise!vars)
  BY LockStays, CursorStays, TellStays, AckedStays, PlainStays, Implements
<1> QED BY <1>1, <1>2, TypeCorrect, PTL DEF Spec, KeepsPromise, Promise!Spec

-----------------------------------------------------------------------------
(* What the database showed of an acknowledged write.                      *)

(* A file made from all the log reflects every event about an entry.       *)
LEMMA FullReflects ==
    ASSUME TypeOK, TellInv, PlainInv, NEW d \in Database, StampedNow(d, gen, log, Quarantined),
           NEW k \in Keys, NEW n \in AckedOn(k)
    PROVE  Reflects(d.rows[k], k, n)
<1>1. PICK j \in DOMAIN history : history[j].id = n /\ history[j].key = k
  BY DEF AckedOn
<1>2. history \in Seq(Event) /\ Increasing(history)
  BY DEF TypeOK, PlainInv, Ordered
<1>3. j \in Touching(history, k, {})
  BY <1>1 DEF Touching
<1>4. PICK i \in Touching(history, k, {}) : IsLast(Touching(history, k, {}), i)
  BY <1>2, <1>3, LastTouching
<1>5. /\ i \in DOMAIN history /\ history[i].key = k /\ history[i].id \in Nat \ {0}
      /\ history[i].op \in {"upsert", "expire"}
  BY <1>2, TouchingEvent DEF Touching
<1>6. history[i].id >= n
  <2>1. j <= i
    BY <1>3, <1>4 DEF IsLast
  <2>2. history[j].id \in Nat /\ i \in Int /\ j \in Int
    BY <1>2, <1>4, <1>3, EventAt, TouchingEvent DEF Touching
  <2>3. j < i => history[j].id < history[i].id
    BY <1>2, <1>5 DEF Increasing
  <2> QED BY <1>1, <1>5, <2>1, <2>2, <2>3
<1>7. Visible(d.rows)[k] = IF history[i].op = "upsert" THEN history[i].id ELSE NoRow
  <2>1. d.rows = Materialize(log, {})
    BY NothingGivenUp DEF StampedNow, MadeOf
  <2>2. Visible(d.rows) = Visible(Materialize(history, {}))
    BY <2>1 DEF TellInv, Tells
  <2>3. Visible(ApplyAll(EmptyRows, history, {}))[k]
          = IF history[i].op = "upsert" THEN history[i].id ELSE NoRow
    BY <1>2, <1>4, VisibleLast
  <2> QED BY <2>2, <2>3 DEF Materialize
<1>8. Visible(d.rows)[k] = IF d.rows[k] = Stale THEN NoRow ELSE d.rows[k]
  BY DEF Visible
<1>9. IF history[i].op = "upsert" THEN d.rows[k] = history[i].id ELSE d.rows[k] \in {NoRow, Stale}
  BY <1>5, <1>7, <1>8 DEF NoRow, Stale
<1> QED BY <1>5, <1>6, <1>9 DEF Reflects

LEMMA TakesNothingBack ==
    ASSUME TypeOK, TypeOK', LockInv, CursorInv, TellInv, PlainInv, [Next]_vars,
           faults' = faults, db.exists, db'.exists,
           NEW k \in Keys, NEW n \in AckedOn(k), Reflects(db.rows[k], k, n)
    PROVE  Reflects(db'.rows[k], k, n)
<1>1. ASSUME DbKept \/ DbMade PROVE Reflects(db'.rows[k], k, n)
  <2>1. db' = db \/ StampedNow(db', gen, log, Quarantined)
    BY <1>1, EmptyMade DEF DbKept, DbMade
  <2>2. db' \in Database
    BY DEF TypeOK
  <2> QED BY <2>1, <2>2, FullReflects
<1>2. ASSUME NEW p \in Procs, Plainly(p) PROVE DbKept \/ DbMade
  BY <1>2, StepFiles
<1>3. ASSUME NEW p \in Procs, AppendBatch(p) PROVE DbKept
  BY <1>3 DEF AppendBatch, Settle, OpenRw, DbKept, Commit
<1>4. ASSUME NEW p \in Procs, CompactBump(p) \/ CompactRename(p) PROVE DbKept
  BY <1>4 DEF CompactBump, CompactRename, DbKept
<1>5. ~PowerLoss /\ ~RemoveDb
  BY DEF PowerLoss, RemoveDb, Fault, TypeOK
<1>6. UNCHANGED vars => DbKept
  BY DEF vars, DbKept
<1> QED BY <1>1, <1>2, <1>3, <1>4, <1>5, <1>6 DEF Next, Plainly

(***************************************************************************)
(* As long as every event can be applied, no step of the program takes     *)
(* back an acknowledged write the database showed: neither the swap of a   *)
(* rebuild that replayed without the lock, nor a tail replay from a cursor *)
(* read before it had the lock, nor what follows a compaction.             *)
(***************************************************************************)
THEOREM NothingTakenBack ==
    ASSUME NoPoison
    PROVE  Spec => NoAckedRowTakenBack
<1>1. Init => LockInv /\ CursorInv /\ TellInv /\ PlainInv
  <2>1. Init => LockInv
    BY DEF Init, LockInv, Resting, Holding
  <2>2. Init => TellInv
    BY DEF Init, TellInv, Tells
  <2> QED BY <2>1, <2>2, CursorInit, PlainInit
<1>2. TypeOK /\ LockInv /\ CursorInv /\ TellInv /\ PlainInv /\ [Next]_vars
        => LockInv' /\ CursorInv' /\ TellInv' /\ PlainInv'
  BY LockStays, CursorStays, TellStays, PlainStays
<1>3. TypeOK /\ TypeOK' /\ LockInv /\ CursorInv /\ TellInv /\ PlainInv /\ [Next]_vars
        => [faults' = faults /\ db.exists /\ db'.exists =>
              \A k \in Keys : \A n \in AckedOn(k) :
                  Reflects(db.rows[k], k, n) => Reflects(db'.rows[k], k, n)]_vars
  BY TakesNothingBack
<1> QED BY <1>1, <1>2, <1>3, TypeCorrect, PTL DEF Spec, NoAckedRowTakenBack
=============================================================================
