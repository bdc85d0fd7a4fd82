------------------------- MODULE DatabaseSwapProofs -------------------------
(***************************************************************************)
(* What DatabaseSwap guarantees for every number of readers, versions and  *)
(* faults: whoever opens the database finds the last committed state, and  *)
(* a query sees one state.                                                 *)
(***************************************************************************)
EXTENDS DatabaseSwap, FiniteSetTheorems, NaturalsInduction, WellFoundedInduction, TLAPS

Values == [at : Nat, legacy : BOOLEAN]
Contents == [Pages -> Values]
Frames == UNION {[P -> Values] : P \in SUBSET Pages}

Disks == [name : Inodes, side : Sides \cup {NoSide},
          file : [Inodes -> Contents], wal : [Sides -> Seq(Frames)]]

Connections == [at : {"closed", "opened", "reading", "idle"}, file : Inodes,
                side : Sides \cup {NoSide}, mark : Nat, rows : Values, stray : BOOLEAN]

Jobs == [role : {"none", "writer", "rebuild", "migration"},
         pc : {"none", "written", "checkpoint", "verify", "rename", "unlink", "sync",
               "stage", "resume", "publish", "ready"},
         side : Sides \cup {NoSide}, tries : Nat,
         aim : {"none", "stage", "resume", "publish"}, content : Contents \cup {None}]

TypeOK ==
    /\ disk \in Disks
    /\ reader \in [Readers -> Connections]
    /\ job \in Jobs
    /\ staged \in [copy : Contents \cup {None}, source : Contents \cup {None}]
    /\ undurable \in [name : Inodes, truth : Contents, copy : Contents \cup {None}] \cup {None}
    /\ version \in 0 .. MaxVersions
    /\ truth \in Contents
    /\ past \subseteq Contents
    /\ split \in BOOLEAN
    /\ faults \in Nat

\* The named sidecar has no frames.
LogEmpty(d) == d.side # NoSide => d.wal[d.side] = <<>>

\* Some prefix of the log is checkpointed, no further than any reader's mark; from
\* there on, the states the frames lead to have been committed.
Checkpointed(d, k, R) ==
    /\ k \in 0 .. Len(d.wal[d.side])
    /\ d.file[d.name] = View(d, d.name, d.side, k)
    /\ \A n \in k .. Len(d.wal[d.side]) : View(d, d.name, d.side, n) \in past
    /\ \A r \in Reading(d.side) \cap R : reader[r].mark >= k

\* A connection to the named file is connected to the named sidecar, unless that was
\* unlinked under it, with nothing in it.
OnNamed(d, r) ==
    reader[r].file = d.name =>
        \/ reader[r].side = d.side
        \/ reader[r].stray /\ split /\ d.wal[reader[r].side] = <<>>

\* One that is not astray sees a state that was committed, and goes on to see it.
SeesPast(d, r) ==
    ~reader[r].stray =>
        /\ Whole(d, reader[r].file, reader[r].side) \in past
        /\ reader[r].file # d.name /\ reader[r].side = d.side => d.wal[d.side] = <<>>
        /\ reader[r].at = "reading" =>
              /\ View(d, reader[r].file, reader[r].side, reader[r].mark) \in past
              /\ View(d, reader[r].file, reader[r].side, reader[r].mark)["rows"] = reader[r].rows

\* Until the directory is synced nothing was written to what a rename installed, and
\* what it replaced is as it was.
Replaced(d) ==
    undurable # None =>
        /\ LogEmpty(d)
        /\ ~d.file[d.name]["vectors"].legacy
        /\ undurable.name # d.name
        /\ d.file[undurable.name] \in past
        /\ ~split => d.file[undurable.name] = undurable.truth

\* A connection to the database is where it should be, and has read what is there.
Sound(d, r) ==
    /\ OnNamed(d, r)
    /\ SeesPast(d, r)
    /\ reader[r].at = "reading" => reader[r].mark <= Len(d.wal[reader[r].side])

\* The files, as long as the connections of R are those there are.
FilesInv(d, R) ==
    /\ d \in Disks
    /\ d.file[d.name] \in past
    /\ d.side # NoSide => \E k \in Nat : Checkpointed(d, k, R)
    /\ ~split => FreshView(d) = truth
    /\ \A r \in R : Connected(r) => Sound(d, r)
    /\ Replaced(d)

ReaderInv ==
    \A r \in Readers : reader[r].at \in {"idle", "reading"} <=> Connected(r)

\* A file that nobody has opened and no name stands for.
Unused(i) ==
    /\ i \in Inodes /\ i <= version /\ i # disk.name
    /\ \A r \in Readers : reader[r].at # "closed" => reader[r].file # i
    /\ undurable # None => undurable.name # i

VersionInv ==
    /\ \A v \in past : v["vectors"].at <= version
    /\ disk.name <= version
    /\ \A r \in Readers : reader[r].at # "closed" => reader[r].file <= version
    /\ undurable # None => undurable.name <= version

\* The copy was made of the source.
Fits(copy, source) ==
    copy["rows"] = source["rows"] /\ source["vectors"].at < copy["vectors"].at

\* Phases in which the log is drained and nobody else writes.
Drains == \/ job.role = "rebuild" /\ job.pc \in {"verify", "rename", "unlink"}
          \/ job.role = "migration" /\ job.pc \in {"unlink", "stage", "resume", "publish", "ready"}

\* The process with the lock uses the named sidecar, or none.
Placed == job.side # NoSide => job.side = disk.side

LockInv ==
    /\ Placed
    /\ job.role = "writer" => job.side # NoSide
    /\ job.role = "rebuild" => (job.side # NoSide <=> job.pc \in {"checkpoint", "verify"})
    /\ job.role = "migration" => job.side = NoSide
    /\ Drains => LogEmpty(disk)

\* What the rebuild will install is nobody's yet.
RebuildInv ==
    job.role = "rebuild" /\ job.pc \in {"checkpoint", "verify", "rename"} =>
        /\ job.content # None /\ ~job.content["vectors"].legacy
        /\ job.content["vectors"].at <= version
        /\ Unused(job.content["rows"].at)
        /\ staged.copy # None => staged.copy["vectors"].at # job.content["rows"].at

\* So is the staged copy.
StagedInv ==
    staged.copy # None =>
        /\ ~staged.copy["vectors"].legacy
        /\ Unused(staged.copy["vectors"].at)
        /\ staged.source # None => Fits(staged.copy, staged.source)

\* The migration publishes a copy that it has.
MigrationInv ==
    /\ Holds("migration", "ready") =>
          /\ undurable = None
          /\ staged.copy # None /\ job.content # None /\ Fits(staged.copy, job.content)
    /\ job.role = "migration" /\ (job.pc \in {"publish", "resume"}
                                    \/ (job.pc \in {"checkpoint", "unlink"}
                                        /\ job.aim \in {"publish", "resume"})) =>
          staged.copy # None /\ staged.source # None

\* A copy whose rename is lost is the staged copy again.
CopyInv ==
    undurable # None /\ undurable.copy # None =>
        /\ ~undurable.copy["vectors"].legacy
        /\ undurable.copy["vectors"].at \in Inodes
        /\ undurable.copy["vectors"].at <= version
        /\ undurable.copy["vectors"].at # undurable.name
        /\ staged.source # None => Fits(undurable.copy, staged.source)

Inv ==
    /\ FilesInv(disk, Readers) /\ ReaderInv /\ VersionInv
    /\ LockInv /\ RebuildInv /\ StagedInv /\ MigrationInv /\ CopyInv

-----------------------------------------------------------------------------
(* Positions and frames.                                                   *)

(* A sequence's length is a natural, and its domain the positions up to it. *)
LEMMA LengthOf ==
    ASSUME NEW S, NEW w \in Seq(S)
    PROVE  Len(w) \in Nat /\ DOMAIN w = 1 .. Len(w) /\ \A k \in DOMAIN w : w[k] \in S
OBVIOUS

(* A nonempty set of naturals has a least element, and Min finds it. *)
LEMMA MinIsLeast ==
    ASSUME NEW S \in SUBSET Nat, S # {}
    PROVE  Min(S) \in S /\ \A y \in S : Min(S) <= y
<1>1. PICK x \in S : \A y \in S : ~(<<y, x>> \in OpToRel(<, Nat))
  BY NatLessThanWellFounded, WFMin
<1>2. \A y \in S : x <= y
  <2> SUFFICES ASSUME NEW y \in S, ~(x <= y) PROVE FALSE
    OBVIOUS
  <2>1. y < x /\ y \in Nat /\ x \in Nat
    OBVIOUS
  <2>2. <<y, x>> \in OpToRel(<, Nat)
    BY <2>1 DEF OpToRel
  <2> QED BY <1>1, <2>2
<1>3. \E z \in S : \A y \in S : z =< y
  BY <1>2
<1> QED BY <1>3 DEF Min

(* A nonempty set of positions of a log has a last one, and Max finds it. *)
LEMMA MaxIsLast ==
    ASSUME NEW n \in Nat, NEW S \in SUBSET (1 .. n), S # {}
    PROVE  Max(S) \in S /\ \A y \in S : y <= Max(S)
<1> DEFINE T == {n - i : i \in S}
<1>1. T \subseteq Nat /\ T # {}
  <2>1. \A i \in S : n - i \in Nat
    OBVIOUS
  <2>2. PICK i \in S : TRUE
    OBVIOUS
  <2>3. n - i \in T
    OBVIOUS
  <2> QED BY <2>1, <2>3
<1>2. Min(T) \in T /\ \A y \in T : Min(T) <= y
  BY <1>1, MinIsLeast
<1>3. PICK i \in S : Min(T) = n - i
  BY <1>2
<1>4. \A j \in S : i >= j
  <2> TAKE j \in S
  <2>1. n - j \in T
    OBVIOUS
  <2>2. n - i <= n - j
    BY <1>2, <1>3, <2>1
  <2> QED BY <2>2
<1>5. \E z \in S : \A y \in S : z >= y
  BY <1>4
<1>6. Max(S) \in S /\ \A y \in S : Max(S) >= y
  BY <1>5 DEF Max
<1> QED BY <1>6

\* The newest of the first n frames of log w that has page p.
Newest(w, n, p, k) ==
    /\ k \in DOMAIN w /\ k <= n /\ p \in DOMAIN w[k]
    /\ \A j \in DOMAIN w : j <= n /\ p \in DOMAIN w[j] => j <= k

\* Page p of frame k of log w.
PageOf(w, k, p) == w[k][p]

\* The first n frames of log w lack page p.
Lacks(w, n, p) == \A k \in DOMAIN w : ~(k <= n /\ p \in DOMAIN w[k])

\* What file f and the first n frames of log w hold together.
Seen(f, w, n) ==
    [p \in Pages |->
        LET frames == {k \in DOMAIN w : k <= n /\ p \in DOMAIN w[k]}
        IN IF frames = {} THEN f[p] ELSE w[Max(frames)][p]]

\* A write-ahead log.
Log(w) == w \in Seq(Frames)

(* A page comes from the file, ... *)
LEMMA SeenFile ==
    ASSUME NEW f, NEW w, Log(w), NEW n \in Nat, NEW p \in Pages, Lacks(w, n, p)
    PROVE  Seen(f, w, n)[p] = f[p]
BY DEF Seen, Lacks

\* The frames among the first n of log w that have page p.
Having(w, n, p) == {k \in DOMAIN w : k <= n /\ p \in DOMAIN w[k]}

(* ... or from the newest frame that has it. *)
LEMMA HasNewest ==
    ASSUME NEW w, Log(w), NEW n \in Nat, NEW p \in Pages, ~Lacks(w, n, p)
    PROVE  Newest(w, n, p, Max(Having(w, n, p)))
<1>1. Having(w, n, p) # {}
  BY DEF Lacks, Having
<1>2. Len(w) \in Nat /\ Having(w, n, p) \in SUBSET (1 .. Len(w))
  BY LengthOf DEF Having, Log
<1>3. /\ Max(Having(w, n, p)) \in Having(w, n, p)
      /\ \A y \in Having(w, n, p) : y <= Max(Having(w, n, p))
  BY <1>1, <1>2, MaxIsLast
<1>4. \A j \in DOMAIN w : j <= n /\ p \in DOMAIN w[j] => j \in Having(w, n, p)
  BY DEF Having
<1>5. /\ Max(Having(w, n, p)) \in DOMAIN w /\ Max(Having(w, n, p)) <= n
      /\ p \in DOMAIN w[Max(Having(w, n, p))]
  BY <1>3 DEF Having
<1> QED BY <1>3, <1>4, <1>5 DEF Newest

LEMMA SeenNewest ==
    ASSUME NEW f, NEW w, Log(w), NEW n \in Nat, NEW p \in Pages,
           NEW k, Newest(w, n, p, k)
    PROVE  Seen(f, w, n)[p] = PageOf(w, k, p)
<1>1. ~Lacks(w, n, p) /\ Having(w, n, p) # {}
  BY DEF Newest, Lacks, Having
<1>2. Seen(f, w, n)[p] = w[Max(Having(w, n, p))][p]
  BY <1>1 DEF Seen, Having
<1>3. Newest(w, n, p, Max(Having(w, n, p)))
  BY <1>1, HasNewest
<1>4. Max(Having(w, n, p)) \in Nat /\ k \in Nat
  BY <1>3, LengthOf DEF Newest, Log
<1>5. Max(Having(w, n, p)) = k
  <2>1. Max(Having(w, n, p)) <= k
    BY <1>3 DEF Newest
  <2>2. k <= Max(Having(w, n, p))
    BY <1>3 DEF Newest
  <2> QED BY <1>4, <2>1, <2>2
<1> QED BY <1>2, <1>5 DEF PageOf

-----------------------------------------------------------------------------
(* What a file and the frames of a log hold together.                      *)

(* A frame of a log has values for some of the pages. *)
LEMMA FrameValue ==
    ASSUME NEW w, Log(w), NEW k \in DOMAIN w, NEW p \in DOMAIN w[k]
    PROVE  p \in Pages /\ w[k][p] \in Values
<1>1. w[k] \in Frames
  BY LengthOf DEF Log
<1>2. PICK P \in SUBSET Pages : w[k] \in [P -> Values]
  BY <1>1 DEF Frames
<1> QED BY <1>2

LEMMA SeenType ==
    ASSUME NEW f \in Contents, NEW w, Log(w), NEW n \in Nat
    PROVE  Seen(f, w, n) \in Contents
<1>1. \A p \in Pages : Seen(f, w, n)[p] \in Values
  <2> TAKE p \in Pages
  <2>1. CASE Lacks(w, n, p)
    BY <2>1, SeenFile DEF Contents
  <2>2. CASE ~Lacks(w, n, p)
    <3>1. PICK k : Newest(w, n, p, k)
      BY <2>2, HasNewest
    <3>2. Seen(f, w, n)[p] = PageOf(w, k, p)
      BY <3>1, SeenNewest
    <3>3. k \in DOMAIN w /\ p \in DOMAIN w[k]
      BY <3>1 DEF Newest
    <3> QED BY <3>2, <3>3, FrameValue DEF PageOf
  <2> QED BY <2>1, <2>2
<1>2. Seen(f, w, n) = [p \in Pages |-> Seen(f, w, n)[p]]
  BY DEF Seen
<1> QED BY <1>1, <1>2 DEF Contents

(* Two contents are the same if their pages are. *)
LEMMA SamePages ==
    ASSUME NEW f \in Contents, NEW g \in Contents, \A p \in Pages : f[p] = g[p]
    PROVE  f = g
BY DEF Contents

(* Without frames there is only the file. *)
LEMMA SeenNone ==
    ASSUME NEW f \in Contents, NEW n \in Nat
    PROVE  Seen(f, <<>>, n) = f
<1>1. Log(<<>>) /\ DOMAIN <<>> = {}
  BY DEF Log
<1>2. \A p \in Pages : Lacks(<<>>, n, p)
  BY <1>1 DEF Lacks
<1>3. \A p \in Pages : Seen(f, <<>>, n)[p] = f[p]
  BY <1>1, <1>2, SeenFile
<1> QED BY <1>1, <1>3, SeenType, SamePages

(* A checkpoint of the first m frames changes nothing for who sees those and more. *)
LEMMA SeenTwice ==
    ASSUME NEW f \in Contents, NEW w, Log(w), NEW m \in Nat, NEW n \in Nat, m <= n
    PROVE  Seen(Seen(f, w, m), w, n) = Seen(f, w, n)
<1>1. Seen(f, w, m) \in Contents
  BY SeenType
<1>2. \A p \in Pages : Seen(Seen(f, w, m), w, n)[p] = Seen(f, w, n)[p]
  <2> TAKE p \in Pages
  <2>1. CASE Lacks(w, n, p)
    <3>1. Lacks(w, m, p)
      <4>1. \A k \in DOMAIN w : k \in Nat
        BY LengthOf DEF Log
      <4> QED BY <2>1, <4>1 DEF Lacks
    <3>2. Seen(Seen(f, w, m), w, n)[p] = Seen(f, w, m)[p]
      BY <2>1, SeenFile
    <3>3. Seen(f, w, m)[p] = f[p] /\ Seen(f, w, n)[p] = f[p]
      BY <2>1, <3>1, SeenFile
    <3> QED BY <3>2, <3>3
  <2>2. CASE ~Lacks(w, n, p)
    <3>1. PICK k : Newest(w, n, p, k)
      BY <2>2, HasNewest
    <3>2. Seen(Seen(f, w, m), w, n)[p] = PageOf(w, k, p)
      BY <3>1, SeenNewest
    <3>3. Seen(f, w, n)[p] = PageOf(w, k, p)
      BY <3>1, SeenNewest
    <3> QED BY <3>2, <3>3
  <2> QED BY <2>1, <2>2
<1> QED BY <1>1, <1>2, SeenType, SamePages

(* A frame more is not seen by who looks no further than the frames before it. *)
LEMMA SeenBefore ==
    ASSUME NEW f \in Contents, NEW w, Log(w), NEW frame \in Frames,
           NEW n \in 0 .. Len(w)
    PROVE  Seen(f, Append(w, frame), n) = Seen(f, w, n)
<1> DEFINE v == Append(w, frame)
<1>1. /\ v \in Seq(Frames) /\ n \in Nat /\ Len(w) \in Nat /\ n <= Len(w)
      /\ DOMAIN w = 1 .. Len(w) /\ DOMAIN v = 1 .. Len(w) + 1
      /\ \A k \in DOMAIN w : v[k] = w[k]
  BY DEF Log
<1>t. Log(v) /\ n \in Nat
  BY <1>1 DEF Log
<1>2. ASSUME NEW k, NEW p, k <= n
      PROVE  k \in DOMAIN v /\ p \in DOMAIN v[k] <=> k \in DOMAIN w /\ p \in DOMAIN w[k]
  <2>1. k \in DOMAIN v <=> k \in DOMAIN w
    BY <1>1, <1>2
  <2> QED BY <1>1, <2>1
<1> HIDE DEF v
<1>3. \A p \in Pages : Seen(f, v, n)[p] = Seen(f, w, n)[p]
  <2> TAKE p \in Pages
  <2>1. CASE Lacks(w, n, p)
    <3>1. Lacks(v, n, p)
      BY <1>2, <2>1 DEF Lacks
    <3>2. Seen(f, w, n)[p] = f[p]
      BY <1>t, <2>1, SeenFile
    <3>3. Seen(f, v, n)[p] = f[p]
      BY <1>t, <3>1, SeenFile
    <3> QED BY <3>2, <3>3
  <2>2. CASE ~Lacks(w, n, p)
    <3>1. PICK k : Newest(w, n, p, k)
      BY <1>t, <2>2, HasNewest
    <3>2. Newest(v, n, p, k)
      BY <1>2, <3>1 DEF Newest
    <3>3. v[k] = w[k]
      BY <1>1, <3>1 DEF Newest
    <3>4. Seen(f, w, n)[p] = PageOf(w, k, p)
      BY <1>t, <3>1, SeenNewest, ZenonT(20)
    <3>5. Seen(f, v, n)[p] = PageOf(v, k, p)
      BY <1>t, <3>2, SeenNewest, ZenonT(20)
    <3> QED BY <3>3, <3>4, <3>5 DEF PageOf
  <2> QED BY <2>1, <2>2
<1>4. Seen(f, v, n) \in Contents /\ Seen(f, w, n) \in Contents
  BY <1>t, SeenType
<1>5. Seen(f, v, n) = Seen(f, w, n)
  BY <1>3, <1>4, SamePages
<1> QED BY <1>5 DEF v

\* Log v has one frame more than the n of log w.
Longer(v, m, w, n) ==
    /\ DOMAIN w = 1 .. n /\ DOMAIN v = 1 .. m /\ m = n + 1
    /\ \A k \in DOMAIN w : v[k] = w[k]

(* Who looks at it too sees its pages, and of the others what there was. *)
LEMMA SeenLonger ==
    ASSUME NEW f \in Contents, NEW w, Log(w), NEW v, Log(v),
           NEW n \in Nat, NEW m \in Nat, NEW p \in Pages,
           Longer(v, m, w, n)
    PROVE  Seen(f, v, m)[p] = IF p \in DOMAIN v[m] THEN v[m][p] ELSE Seen(f, w, n)[p]
<1>1. CASE p \in DOMAIN v[m]
  <2>1. Newest(v, m, p, m)
    BY <1>1 DEF Newest, Longer
  <2>2. Seen(f, v, m)[p] = PageOf(v, m, p)
    BY <2>1, SeenNewest
  <2> QED BY <1>1, <2>2 DEF PageOf
<1>2. CASE p \notin DOMAIN v[m]
  <2>1. ASSUME NEW k, k <= m
        PROVE  k \in DOMAIN v /\ p \in DOMAIN v[k]
                 <=> k \in DOMAIN w /\ k <= n /\ p \in DOMAIN w[k]
    <3>1. CASE k = m
      BY <1>2, <3>1 DEF Longer
    <3>2. CASE k # m
      <4>1. k \in DOMAIN v <=> k \in DOMAIN w /\ k <= n
        BY <2>1, <3>2 DEF Longer
      <4> QED BY <4>1 DEF Longer
    <3> QED BY <3>1, <3>2
  <2>2. CASE Lacks(w, n, p)
    <3>1. Lacks(v, m, p)
      BY <2>1, <2>2 DEF Lacks
    <3>2. Seen(f, v, m)[p] = f[p]
      BY <3>1, SeenFile
    <3>3. Seen(f, w, n)[p] = f[p]
      BY <2>2, SeenFile
    <3> QED BY <1>2, <3>2, <3>3
  <2>3. CASE ~Lacks(w, n, p)
    <3>1. PICK k : Newest(w, n, p, k)
      BY <2>3, HasNewest
    <3>2. k \in DOMAIN w /\ k <= m
      BY <3>1 DEF Newest, Longer
    <3>3. Newest(v, m, p, k)
      BY <2>1, <3>1, <3>2 DEF Newest
    <3>4. Seen(f, v, m)[p] = PageOf(v, k, p)
      BY <3>3, SeenNewest
    <3>5. Seen(f, w, n)[p] = PageOf(w, k, p)
      BY <3>1, SeenNewest
    <3>6. PageOf(v, k, p) = PageOf(w, k, p)
      BY <3>2 DEF PageOf, Longer
    <3> QED BY <1>2, <3>4, <3>5, <3>6
  <2> QED BY <2>2, <2>3
<1> QED BY <1>1, <1>2

LEMMA SeenWith ==
    ASSUME NEW f \in Contents, NEW w, Log(w), NEW frame \in Frames, NEW p \in Pages
    PROVE  Seen(f, Append(w, frame), Len(w) + 1)[p] =
             IF p \in DOMAIN frame THEN frame[p] ELSE Seen(f, w, Len(w))[p]
<1>0. Append(w, frame) \in Seq(Frames)
  BY DEF Log
<1>1. PICK v : Log(v) /\ v = Append(w, frame)
  BY <1>0 DEF Log
<1>2. PICK n \in Nat : n = Len(w)
  BY DEF Log
<1>3. PICK m \in Nat : m = n + 1
  OBVIOUS
<1>4. DOMAIN w = 1 .. n /\ DOMAIN v = 1 .. m /\ v[m] = frame /\ \A k \in DOMAIN w : v[k] = w[k]
  BY <1>1, <1>2, <1>3 DEF Log
<1>5. Seen(f, v, m)[p] = IF p \in DOMAIN v[m] THEN v[m][p] ELSE Seen(f, w, n)[p]
  <2>1. Longer(v, m, w, n)
    BY <1>3, <1>4 DEF Longer
  <2>2. Log(v) /\ Log(w) /\ n \in Nat /\ m \in Nat
    BY <1>1, <1>2, <1>3
  <2> QED BY <2>1, <2>2, SeenLonger
<1>6. Seen(f, v, m)[p] = IF p \in DOMAIN frame THEN frame[p] ELSE Seen(f, w, n)[p]
  BY <1>4, <1>5
<1> QED BY <1>1, <1>2, <1>3, <1>6

-----------------------------------------------------------------------------
(* Disks and connections.                                                  *)

\* The parts of TypeOK that the files need.
Typed ==
    /\ reader \in [Readers -> Connections]
    /\ job \in Jobs
    /\ past \subseteq Contents
    /\ truth \in Contents
    /\ undurable # None =>
          undurable.name \in Inodes /\ undurable.truth \in Contents
          /\ undurable.copy \in Contents \cup {None}

LEMMA SidesAre ==
    \A s \in Sides : s # NoSide /\ s \in Nat
<1>1. Cardinality(Readers) \in Nat
  BY SwapAssumption, FS_CardinalityType
<1> QED BY <1>1 DEF Sides, NoSide

LEMMA DiskParts ==
    ASSUME NEW d \in Disks
    PROVE  /\ d.name \in Inodes
           /\ d.side \in Sides \/ d.side = NoSide
           /\ \A i \in Inodes : d.file[i] \in Contents
           /\ \A s \in Sides : Log(d.wal[s])
BY DEF Disks, Log

LEMMA ConnectionParts ==
    ASSUME Typed, NEW r \in Readers
    PROVE  /\ reader[r].file \in Inodes
           /\ reader[r].side \in Sides \/ reader[r].side = NoSide
           /\ reader[r].mark \in Nat
           /\ Connected(r) => reader[r].side \in Sides
BY DEF Typed, Connections, Connected

LEMMA LengthIsNat ==
    ASSUME NEW w, Log(w)
    PROVE  Len(w) \in Nat
BY DEF Log

(* What a connection sees is the file and the first frames of the log. *)
LEMMA ViewSeen ==
    ASSUME NEW d \in Disks, NEW i \in Inodes, NEW s \in Sides, NEW n \in Nat
    PROVE  View(d, i, s, n) = Seen(d.file[i], d.wal[s], n)
BY SidesAre DEF View, Seen

LEMMA ViewFile ==
    ASSUME NEW d \in Disks, NEW i \in Inodes, NEW n
    PROVE  View(d, i, NoSide, n) = d.file[i]
<1>1. View(d, i, NoSide, n) = [p \in Pages |-> d.file[i][p]]
  BY DEF View
<1>2. d.file[i] \in Contents
  BY DiskParts
<1> QED BY <1>1, <1>2 DEF Contents

LEMMA WholeSeen ==
    ASSUME NEW d \in Disks, NEW i \in Inodes, NEW s \in Sides
    PROVE  /\ Whole(d, i, s) = Seen(d.file[i], d.wal[s], Len(d.wal[s]))
           /\ Whole(d, i, s) \in Contents
<1>1. Log(d.wal[s]) /\ Len(d.wal[s]) \in Nat /\ d.file[i] \in Contents
  BY DiskParts, LengthIsNat
<1>2. Whole(d, i, s) = View(d, i, s, Len(d.wal[s]))
  BY SidesAre DEF Whole
<1>3. View(d, i, s, Len(d.wal[s])) = Seen(d.file[i], d.wal[s], Len(d.wal[s]))
  BY <1>1, ViewSeen
<1>4. Seen(d.file[i], d.wal[s], Len(d.wal[s])) \in Contents
  BY <1>1, SeenType
<1> QED BY <1>2, <1>3, <1>4

(* With an empty log there is only the file. *)
LEMMA WholeEmpty ==
    ASSUME NEW d \in Disks, NEW i \in Inodes, NEW s \in Sides \cup {NoSide},
           s # NoSide => d.wal[s] = <<>>
    PROVE  Whole(d, i, s) = d.file[i]
<1>1. d.file[i] \in Contents
  BY DiskParts
<1>2. CASE s = NoSide
  BY <1>2, ViewFile DEF Whole
<1>3. CASE s # NoSide
  <2>1. s \in Sides /\ d.wal[s] = <<>> /\ Len(<<>>) \in Nat
    BY <1>3
  <2>2. Whole(d, i, s) = Seen(d.file[i], <<>>, Len(<<>>))
    BY <2>1, WholeSeen
  <2> QED BY <1>1, <2>1, <2>2, SeenNone
<1> QED BY <1>2, <1>3

(* Two disks on which a file and a log are the same give the same view. *)
LEMMA SameView ==
    ASSUME NEW d, NEW e, NEW i, NEW s,
           e.file[i] = d.file[i], s = NoSide \/ e.wal[s] = d.wal[s]
    PROVE  /\ \A n : View(e, i, s, n) = View(d, i, s, n)
           /\ Whole(e, i, s) = Whole(d, i, s)
<1>1. \A n : View(e, i, s, n) = View(d, i, s, n)
  BY DEF View
<1> QED BY <1>1 DEF Whole

\* Nothing that connection r depends on differs between disks d and e.
SameFor(d, e, r) ==
    /\ e.name = d.name
    /\ e.file[reader[r].file] = d.file[reader[r].file]
    /\ e.wal[reader[r].side] = d.wal[reader[r].side]
    /\ \/ e.side = d.side
       \/ /\ reader[r].side # e.side
          /\ reader[r].file = d.name => reader[r].side # d.side

LEMMA SoundElsewhere ==
    ASSUME NEW d, NEW e, NEW r, Sound(d, r), SameFor(d, e, r)
    PROVE  Sound(e, r)
<1>1. /\ \A n : View(e, reader[r].file, reader[r].side, n)
                  = View(d, reader[r].file, reader[r].side, n)
      /\ Whole(e, reader[r].file, reader[r].side) = Whole(d, reader[r].file, reader[r].side)
  BY SameView DEF SameFor
<1>2. OnNamed(e, r)
  BY DEF Sound, OnNamed, SameFor
<1>3. SeesPast(e, r)
  BY <1>1 DEF Sound, SeesPast, SameFor
<1> QED BY <1>2, <1>3 DEF Sound, SameFor

(* There is always a sidecar that nobody uses. *)
LEMMA FreshSidecar ==
    ASSUME NEW d
    PROVE  /\ Min(Sides \ InUse(d)) \in Sides
           /\ Min(Sides \ InUse(d)) \notin InUse(d)
<1> DEFINE T == {reader[r].side : r \in Readers}
           g == [r \in Readers |-> reader[r].side]
<1>1. IsFiniteSet(Readers) /\ Cardinality(Readers) \in Nat
  BY SwapAssumption, FS_CardinalityType
<1>2. g \in Surjection(Readers, T)
  BY DEF Surjection
<1>3. IsFiniteSet(T) /\ Cardinality(T) <= Cardinality(Readers)
  BY <1>1, <1>2, FS_Surjection
<1>4. Cardinality(T) \in Nat
  BY <1>3, FS_CardinalityType
<1>5. /\ IsFiniteSet(T \cup {d.side}) /\ Cardinality(T \cup {d.side}) \in Nat
      /\ Cardinality(T \cup {d.side}) <= Cardinality(Readers) + 1
  <2> HIDE DEF T
  <2>1. /\ IsFiniteSet(T \cup {d.side})
        /\ Cardinality(T \cup {d.side})
             = IF d.side \in T THEN Cardinality(T) ELSE Cardinality(T) + 1
    BY <1>3, FS_AddElement
  <2> QED BY <1>1, <1>3, <1>4, <2>1
<1>6. /\ IsFiniteSet((T \cup {d.side}) \cup {job.side})
      /\ Cardinality((T \cup {d.side}) \cup {job.side}) <= Cardinality(Readers) + 2
  <2> DEFINE U == T \cup {d.side}
  <2> HIDE DEF T, U
  <2>0. IsFiniteSet(U) /\ Cardinality(U) \in Nat /\ Cardinality(U) <= Cardinality(Readers) + 1
    BY <1>5 DEF U
  <2>1. /\ IsFiniteSet(U \cup {job.side})
        /\ Cardinality(U \cup {job.side})
             = IF job.side \in U THEN Cardinality(U) ELSE Cardinality(U) + 1
    BY <2>0, FS_AddElement
  <2>2. Cardinality(U \cup {job.side}) <= Cardinality(Readers) + 2
    BY <1>1, <2>0, <2>1
  <2> QED BY <2>1, <2>2 DEF U
<1>7. InUse(d) = (T \cup {d.side}) \cup {job.side}
  BY DEF InUse
<1>8. IsFiniteSet(InUse(d)) /\ Cardinality(InUse(d)) <= Cardinality(Readers) + 2
  BY <1>6, <1>7
<1>9. Cardinality(Sides) = Cardinality(Readers) + 3
  BY <1>1, FS_Interval DEF Sides
<1>10. Sides \ InUse(d) # {}
  <2> SUFFICES ASSUME Sides \subseteq InUse(d) PROVE FALSE
    OBVIOUS
  <2>1. Cardinality(Sides) <= Cardinality(InUse(d))
    BY <1>8, FS_Subset
  <2>2. Cardinality(InUse(d)) \in Nat
    BY <1>8, FS_CardinalityType
  <2> QED BY <1>1, <1>8, <1>9, <2>1, <2>2
<1>11. Sides \ InUse(d) \subseteq Nat
  BY SidesAre
<1> QED BY <1>10, <1>11, MinIsLeast

-----------------------------------------------------------------------------
(* What SQLite does to the files keeps what is said of them.               *)

LEMMA CheckpointedSeen ==
    ASSUME NEW d \in Disks, d.side \in Sides, NEW k \in Nat, NEW R
    PROVE  Checkpointed(d, k, R) <=>
             /\ k <= Len(d.wal[d.side])
             /\ d.file[d.name] = Seen(d.file[d.name], d.wal[d.side], k)
             /\ \A n \in k .. Len(d.wal[d.side]) :
                   Seen(d.file[d.name], d.wal[d.side], n) \in past
             /\ \A r \in Reading(d.side) \cap R : reader[r].mark >= k
<1>1. d.name \in Inodes /\ Len(d.wal[d.side]) \in Nat
  BY DiskParts, LengthIsNat
<1>2. \A n \in Nat : View(d, d.name, d.side, n) = Seen(d.file[d.name], d.wal[d.side], n)
  BY <1>1, ViewSeen
<1>3. \A n \in k .. Len(d.wal[d.side]) : n \in Nat
  BY <1>1
<1> QED BY <1>1, <1>2, <1>3 DEF Checkpointed

(* With an empty log everything is checkpointed. *)
LEMMA CheckpointedEmpty ==
    ASSUME Typed, NEW d \in Disks, d.side \in Sides, d.wal[d.side] = <<>>,
           d.file[d.name] \in past, NEW R
    PROVE  Checkpointed(d, 0, R)
<1>1. d.name \in Inodes /\ d.file[d.name] \in Contents
  BY DiskParts
<1>2. Len(d.wal[d.side]) = 0
  OBVIOUS
<1>3. Seen(d.file[d.name], d.wal[d.side], 0) = d.file[d.name]
  BY <1>1, SeenNone
<1>4. \A n \in 0 .. 0 : n = 0
  OBVIOUS
<1>5. \A r \in Reading(d.side) \cap R : reader[r].mark >= 0
  BY ConnectionParts DEF Reading
<1> QED BY <1>2, <1>3, <1>4, <1>5, CheckpointedSeen

LEMMA ConnectIs ==
    ASSUME NEW d \in Disks, NEW e, e = Connect(d)
    PROVE  /\ e \in Disks /\ e.name = d.name /\ e.file = d.file /\ e.side \in Sides
           /\ d.side # NoSide => e = d
           /\ d.side = NoSide =>
                 /\ e.side \notin InUse(d) /\ e.wal[e.side] = <<>>
                 /\ \A s \in Sides : s # e.side => e.wal[s] = d.wal[s]
<1>1. CASE d.side # NoSide
  BY <1>1, DiskParts DEF Connect
<1>2. CASE d.side = NoSide
  <2>1. PICK s \in Sides : s = Min(Sides \ InUse(d)) /\ s \notin InUse(d)
    BY FreshSidecar
  <2>2. e = [d EXCEPT !.side = s, !.wal[s] = <<>>]
    BY <1>2, <2>1 DEF Connect
  <2>3. <<>> \in Seq(Frames)
    OBVIOUS
  <2>4. d.wal \in [Sides -> Seq(Frames)]
    BY DEF Disks
  <2>5. [d.wal EXCEPT ![s] = <<>>] \in [Sides -> Seq(Frames)]
    BY <2>3, <2>4
  <2>6. e = [d EXCEPT !.side = s, !.wal = [d.wal EXCEPT ![s] = <<>>]]
    BY <2>2 DEF Disks
  <2>7. /\ e \in Disks /\ e.name = d.name /\ e.file = d.file /\ e.side = s
        /\ e.wal = [d.wal EXCEPT ![s] = <<>>]
    BY <2>5, <2>6 DEF Disks
  <2>8. e.wal[s] = <<>> /\ \A q \in Sides : q # s => e.wal[q] = d.wal[q]
    BY <2>4, <2>7
  <2> QED BY <1>2, <2>1, <2>7, <2>8
<1> QED BY <1>1, <1>2

(* To connect changes nothing for anybody. *)
LEMMA ConnectKeeps ==
    ASSUME Typed, NEW d, NEW R \in SUBSET Readers, FilesInv(d, R), NEW e, e = Connect(d)
    PROVE  /\ FilesInv(e, R) /\ FreshView(e) = FreshView(d)
           /\ LogEmpty(d) => LogEmpty(e)
           /\ e \in Disks /\ e.name = d.name /\ e.file = d.file /\ e.side \in Sides
           /\ d.side # NoSide => e = d
<1>0. d \in Disks
  BY DEF FilesInv
<1>1. /\ e \in Disks /\ e.name = d.name /\ e.file = d.file /\ e.side \in Sides
      /\ d.side # NoSide => e = d
      /\ d.side = NoSide =>
            /\ e.side \notin InUse(d) /\ e.wal[e.side] = <<>>
            /\ \A s \in Sides : s # e.side => e.wal[s] = d.wal[s]
  BY <1>0, ConnectIs
<1>2. CASE d.side # NoSide
  BY <1>1, <1>2
<1>3. CASE d.side = NoSide
  <2>1. e.wal[e.side] = <<>> /\ e.file[e.name] = d.file[d.name] /\ d.name \in Inodes
    BY <1>0, <1>1, <1>3, DiskParts
  <2>2. FreshView(e) = d.file[d.name] /\ FreshView(d) = d.file[d.name]
    BY <1>0, <1>1, <1>3, <2>1, WholeEmpty DEF FreshView
  <2>3. d.file[d.name] \in past
    BY DEF FilesInv
  <2>4. Checkpointed(e, 0, R)
    BY <1>1, <2>1, <2>3, CheckpointedEmpty
  <2>5. \A r \in R : Connected(r) => Sound(e, r)
    <3> TAKE r \in R
    <3> HAVE Connected(r)
    <3>1. Sound(d, r) /\ r \in Readers
      BY DEF FilesInv
    <3>2. reader[r].side \in Sides /\ reader[r].side # e.side /\ reader[r].side # d.side
      BY <1>1, <1>3, <3>1, ConnectionParts DEF InUse, Connected
    <3>3. SameFor(d, e, r)
      BY <1>1, <1>3, <3>2 DEF SameFor
    <3> QED BY <3>1, <3>3, SoundElsewhere
  <2>6. LogEmpty(e)
    BY <2>1 DEF LogEmpty
  <2>7. Replaced(e)
    <3>1. Replaced(d)
      BY DEF FilesInv
    <3> QED BY <1>1, <2>6, <3>1 DEF Replaced
  <2>8. ~split => FreshView(e) = truth
    BY <2>2 DEF FilesInv
  <2>9. \E k \in Nat : Checkpointed(e, k, R)
    BY <2>4
  <2>10. FilesInv(e, R)
    BY <1>1, <2>1, <2>3, <2>5, <2>7, <2>8, <2>9 DEF FilesInv
  <2> QED BY <1>1, <1>3, <2>2, <2>6, <2>10
<1> QED BY <1>2, <1>3

\* File d.name of disk e is what the first m frames of its log make of it on disk d.
Backfilled(d, e, m) ==
    /\ e \in Disks /\ e.name = d.name /\ e.side = d.side /\ e.wal = d.wal
    /\ e.file[d.name] = Seen(d.file[d.name], d.wal[d.side], m)
    /\ \A i \in Inodes : i # d.name => e.file[i] = d.file[i]

(* Who sees m frames or more does not notice that they are in the file now. *)
LEMMA BackfilledView ==
    ASSUME NEW d \in Disks, d.side \in Sides, NEW m \in Nat, NEW e, Backfilled(d, e, m),
           NEW n \in Nat, m <= n
    PROVE  View(e, d.name, d.side, n) = View(d, d.name, d.side, n)
<1>1. d.name \in Inodes /\ d.file[d.name] \in Contents /\ Log(d.wal[d.side])
  BY DiskParts
<1>2. View(d, d.name, d.side, n) = Seen(d.file[d.name], d.wal[d.side], n)
  BY <1>1, ViewSeen
<1>3. View(e, d.name, d.side, n)
        = Seen(Seen(d.file[d.name], d.wal[d.side], m), d.wal[d.side], n)
  <2>1. e \in Disks
    BY DEF Backfilled
  <2>2. View(e, d.name, d.side, n) = Seen(e.file[d.name], e.wal[d.side], n)
    BY <1>1, <2>1, ViewSeen
  <2> QED BY <2>2 DEF Backfilled
<1> QED BY <1>1, <1>2, <1>3, SeenTwice

(* A checkpoint keeps what is said of the files if no reader still needs what it
   writes over, and what it writes has been committed. *)
LEMMA BackfillKeeps ==
    ASSUME Typed, NEW d, NEW R \in SUBSET Readers, FilesInv(d, R), d.side \in Sides,
           NEW m \in Nat, m <= Len(d.wal[d.side]),
           NEW k \in Nat, Checkpointed(d, k, R), k <= m,
           \A r \in Reading(d.side) \cap R : reader[r].mark >= m,
           NEW e, Backfilled(d, e, m)
    PROVE  /\ FilesInv(e, R) /\ FreshView(e) = FreshView(d)
           /\ LogEmpty(d) => LogEmpty(e)
<1> DEFINE f == d.file[d.name]
           w == d.wal[d.side]
<1>0. d \in Disks /\ e \in Disks
  BY DEF FilesInv, Backfilled
<1>1. /\ d.name \in Inodes /\ f \in Contents /\ Log(w) /\ Len(w) \in Nat
      /\ e.name = d.name /\ e.side = d.side /\ e.wal = d.wal /\ e.file[d.name] = Seen(f, w, m)
  BY <1>0, DiskParts, LengthIsNat DEF Backfilled
<1>2. \A n \in Nat : m <= n => View(e, d.name, d.side, n) = View(d, d.name, d.side, n)
  BY <1>0, BackfilledView
<1>3. \A n \in k .. Len(w) : View(d, d.name, d.side, n) \in past
  BY DEF Checkpointed
<1>4. Whole(d, d.name, d.side) = View(d, d.name, d.side, Len(w))
      /\ Whole(e, d.name, d.side) = View(e, d.name, d.side, Len(w))
  BY <1>1, SidesAre DEF Whole
<1>5. Whole(e, d.name, d.side) = Whole(d, d.name, d.side)
  BY <1>1, <1>2, <1>4
<1>6. FreshView(e) = FreshView(d)
  BY <1>1, <1>5 DEF FreshView
<1>7. View(d, d.name, d.side, m) = Seen(f, w, m) /\ View(e, d.name, d.side, m) = Seen(f, w, m)
  BY <1>0, <1>1, <1>2, ViewSeen
<1>8. Seen(f, w, m) \in past
  <2>1. m \in k .. Len(w)
    BY <1>1
  <2> QED BY <1>3, <1>7, <2>1
<1>9. Checkpointed(e, m, R)
  <2>1. m \in 0 .. Len(e.wal[e.side])
    BY <1>1
  <2>2. e.file[e.name] = View(e, e.name, e.side, m)
    BY <1>1, <1>7
  <2>3. \A n \in m .. Len(w) : View(e, d.name, d.side, n) \in past
    <3> TAKE n \in m .. Len(w)
    <3>1. n \in Nat /\ n \in k .. Len(w) /\ m <= n
      BY <1>1
    <3> QED BY <1>2, <1>3, <3>1
  <2> QED BY <1>1, <2>1, <2>2, <2>3 DEF Checkpointed
<1>10. \A r \in R : Connected(r) => Sound(e, r)
  <2> TAKE r \in R
  <2> HAVE Connected(r)
  <2>1. Sound(d, r) /\ r \in Readers
    BY DEF FilesInv
  <2>2. reader[r].side \in Sides /\ reader[r].file \in Inodes /\ reader[r].mark \in Nat
    BY <2>1, ConnectionParts
  <2>3. CASE reader[r].file # d.name
    <3>1. SameFor(d, e, r)
      BY <1>1, <2>2, <2>3 DEF SameFor, Backfilled
    <3> QED BY <2>1, <3>1, SoundElsewhere
  <2>4. CASE reader[r].file = d.name /\ reader[r].side = d.side
    <3>1. OnNamed(e, r)
      BY <1>1, <2>4 DEF OnNamed
    <3>2. reader[r].at = "reading" =>
             View(e, d.name, d.side, reader[r].mark) = View(d, d.name, d.side, reader[r].mark)
      <4> HAVE reader[r].at = "reading"
      <4>1. r \in Reading(d.side) \cap R
        BY <2>1, <2>4 DEF Reading
      <4>2. m <= reader[r].mark
        BY <2>2, <4>1
      <4> QED BY <1>2, <2>2, <4>2
    <3>3. SeesPast(e, r)
      BY <1>1, <1>5, <2>1, <2>4, <3>2 DEF Sound, SeesPast
    <3> QED BY <1>1, <2>1, <3>1, <3>3 DEF Sound
  <2>5. CASE reader[r].file = d.name /\ reader[r].side # d.side
    <3>1. reader[r].stray
      BY <2>1, <2>5 DEF Sound, OnNamed
    <3>2. OnNamed(e, r)
      BY <1>1, <2>1 DEF Sound, OnNamed
    <3> QED BY <1>1, <2>1, <3>1, <3>2 DEF Sound, SeesPast
  <2> QED BY <2>3, <2>4, <2>5
<1>11. LogEmpty(d) => LogEmpty(e)
  BY <1>1 DEF LogEmpty
<1>12. Replaced(e)
  <2> SUFFICES ASSUME undurable # None
               PROVE  Replaced(e)
    BY DEF Replaced
  <2>1. Replaced(d)
    BY DEF FilesInv
  <2>2. d.wal[d.side] = <<>>
    BY <2>1, SidesAre DEF Replaced, LogEmpty
  <2>3. e.file[d.name] = d.file[d.name]
    BY <1>1, <2>2, SeenNone
  <2>4. e.file[undurable.name] = d.file[undurable.name]
    BY <2>1 DEF Replaced, Backfilled, Typed
  <2> QED BY <1>1, <1>11, <2>1, <2>3, <2>4 DEF Replaced
<1>13. ~split => FreshView(e) = truth
  BY <1>6 DEF FilesInv
<1> QED BY <1>0, <1>1, <1>6, <1>8, <1>9, <1>10, <1>11, <1>12, <1>13 DEF FilesInv

(* wal_checkpoint(PASSIVE) keeps what is said of the files. *)
LEMMA PassiveKeeps ==
    ASSUME Typed, NEW d, FilesInv(d, Readers), d.side \in Sides, NEW e, e = Passive(d, d.side)
    PROVE  /\ FilesInv(e, Readers) /\ e.name = d.name /\ e.side = d.side
           /\ LogEmpty(d) => LogEmpty(e)
<1> DEFINE marks == {Len(d.wal[d.side])} \cup {reader[r].mark : r \in Reading(d.side)}
           m == Min(marks)
<1>1. d \in Disks /\ d.name \in Inodes /\ Len(d.wal[d.side]) \in Nat
      /\ d.file[d.name] \in Contents /\ Log(d.wal[d.side])
  BY DiskParts, LengthIsNat DEF FilesInv
<1>2. marks \subseteq Nat /\ marks # {}
  BY <1>1, ConnectionParts DEF Reading
<1>3. m \in marks /\ \A n \in marks : m <= n
  BY <1>2, MinIsLeast
<1>4. m \in Nat /\ m <= Len(d.wal[d.side]) /\ \A r \in Reading(d.side) : m <= reader[r].mark
  <2>1. Len(d.wal[d.side]) \in marks /\ \A r \in Reading(d.side) : reader[r].mark \in marks
    OBVIOUS
  <2> HIDE DEF marks, m
  <2> QED BY <1>2, <1>3, <2>1
<1>5. PICK k \in Nat : Checkpointed(d, k, Readers)
  BY SidesAre DEF FilesInv
<1>6. k <= m
  <2>1. k <= Len(d.wal[d.side]) /\ \A r \in Reading(d.side) : k <= reader[r].mark
    BY <1>1, <1>5, ConnectionParts DEF Checkpointed, Reading
  <2>2. \A n \in marks : k <= n
    BY <2>1
  <2> QED BY <1>3, <2>2
<1>7. View(d, d.name, d.side, m) = Seen(d.file[d.name], d.wal[d.side], m)
  BY <1>1, <1>4, ViewSeen
<1>8. Seen(d.file[d.name], d.wal[d.side], m) \in Contents
  BY <1>1, <1>4, SeenType
<1>9. e = [d EXCEPT !.file[d.name] = Seen(d.file[d.name], d.wal[d.side], m)]
  BY <1>7 DEF Passive
<1> HIDE DEF m, marks
<1>10. Backfilled(d, e, m)
  BY <1>1, <1>8, <1>9 DEF Backfilled, Disks
<1>11. \A r \in Reading(d.side) \cap Readers : reader[r].mark >= m
  BY <1>4, ConnectionParts DEF Reading
<1>12. FilesInv(e, Readers) /\ (LogEmpty(d) => LogEmpty(e))
  BY <1>4, <1>5, <1>6, <1>10, <1>11, BackfillKeeps
<1> QED BY <1>10, <1>12 DEF Backfilled

(* A log that is all checkpointed, and that no reader has a mark in, can be emptied. *)
LEMMA EmptyKeeps ==
    ASSUME Typed, NEW d, FilesInv(d, Readers), d.side \in Sides,
           d.file[d.name] = FreshView(d), Reading(d.side) = {},
           NEW e \in Disks, e.name = d.name, e.side = d.side, e.file = d.file,
           e.wal[d.side] = <<>>, \A s \in Sides : s # d.side => e.wal[s] = d.wal[s]
    PROVE  FilesInv(e, Readers)
<1>1. d \in Disks /\ d.name \in Inodes /\ d.file[d.name] \in past
  BY DiskParts DEF FilesInv
<1>2. Checkpointed(e, 0, Readers)
  BY <1>1, CheckpointedEmpty
<1>3. FreshView(e) = d.file[d.name]
  BY <1>1, WholeEmpty DEF FreshView
<1>4. \A r \in Readers : Connected(r) => Sound(e, r)
  <2> TAKE r \in Readers
  <2> HAVE Connected(r)
  <2>1. Sound(d, r) /\ reader[r].side \in Sides /\ reader[r].file \in Inodes
    BY ConnectionParts DEF FilesInv
  <2>2. CASE reader[r].side # d.side \/ d.wal[d.side] = <<>>
    <3>1. SameFor(d, e, r)
      BY <2>1, <2>2 DEF SameFor
    <3> QED BY <2>1, <3>1, SoundElsewhere
  <2>3. CASE reader[r].side = d.side /\ d.wal[d.side] # <<>>
    <3>1. reader[r].at # "reading"
      BY <2>3 DEF Reading
    <3>2. ~reader[r].stray => reader[r].file = d.name
      BY <2>1, <2>3 DEF Sound, SeesPast
    <3>3. reader[r].file = d.name => Whole(e, reader[r].file, reader[r].side) \in past
      BY <1>1, <1>3, <2>3 DEF FreshView
    <3>4. SeesPast(e, r)
      BY <3>1, <3>2, <3>3 DEF SeesPast
    <3> QED BY <2>3, <3>1, <3>4 DEF Sound, OnNamed
  <2> QED BY <2>2, <2>3
<1>5. Replaced(e)
  <2>1. Replaced(d)
    BY DEF FilesInv
  <2> QED BY <2>1 DEF Replaced, LogEmpty
<1>6. ~split => FreshView(e) = truth
  BY <1>3 DEF FilesInv
<1>7. \E k \in Nat : Checkpointed(e, k, Readers)
  BY <1>2
<1> QED BY <1>1, <1>4, <1>5, <1>6, <1>7 DEF FilesInv

(* wal_checkpoint(TRUNCATE) keeps what is said of the files if it is not busy. *)
LEMMA TruncateKeeps ==
    ASSUME Typed, NEW d, FilesInv(d, Readers), d.side \in Sides, ~Busy(d, d.side),
           NEW e, e = Truncate(d, d.side)
    PROVE  /\ FilesInv(e, Readers) /\ e.name = d.name /\ e.side = d.side /\ LogEmpty(e)
           /\ FreshView(e) = FreshView(d) /\ e.file[e.name] = FreshView(d)
<1> DEFINE f == d.file[d.name]
           w == d.wal[d.side]
           g == FreshView(d)
<1>1. d \in Disks /\ d.name \in Inodes /\ Len(w) \in Nat /\ f \in Contents /\ Log(w)
  BY DiskParts, LengthIsNat DEF FilesInv
<1>2. g = Seen(f, w, Len(w)) /\ g \in Contents
  BY <1>1, WholeSeen DEF FreshView
<1>3. e = [d EXCEPT !.file = [d.file EXCEPT ![d.name] = g],
                    !.wal = [d.wal EXCEPT ![d.side] = <<>>]]
  BY <1>1 DEF Truncate, Disks, FreshView
<1> HIDE DEF g
<1>4. d.wal \in [Sides -> Seq(Frames)] /\ d.file \in [Inodes -> Contents]
  BY <1>1 DEF Disks
<1>5. [d.wal EXCEPT ![d.side] = <<>>] \in [Sides -> Seq(Frames)]
  BY <1>4
<1>6. [d.file EXCEPT ![d.name] = g] \in [Inodes -> Contents]
  BY <1>2, <1>4
<1>7. /\ e \in Disks /\ e.name = d.name /\ e.side = d.side
      /\ e.file = [d.file EXCEPT ![d.name] = g] /\ e.wal = [d.wal EXCEPT ![d.side] = <<>>]
  BY <1>1, <1>3, <1>5, <1>6 DEF Disks
<1>8. /\ e.file[d.name] = g /\ e.wal[d.side] = <<>>
      /\ \A s \in Sides : s # d.side => e.wal[s] = d.wal[s]
  BY <1>1, <1>4, <1>7
<1>9. FreshView(e) = g
  <2>0. e \in Disks /\ d.side \in Sides \cup {NoSide} /\ e.wal[d.side] = <<>> /\ d.name \in Inodes
    BY <1>1, <1>7, <1>8
  <2>1. Whole(e, d.name, d.side) = e.file[d.name]
    BY <2>0, WholeEmpty
  <2> QED BY <1>7, <1>8, <2>1 DEF FreshView
<1>10. CASE w = <<>>
  <2>1. g = f
    BY <1>1, <1>2, <1>10, SeenNone
  <2>2. [d.file EXCEPT ![d.name] = g] = d.file
    BY <1>4, <2>1
  <2>3. [d.wal EXCEPT ![d.side] = <<>>] = d.wal
    BY <1>4, <1>10
  <2>4. [d EXCEPT !.file = d.file, !.wal = d.wal] = d
    BY <1>1 DEF Disks
  <2>5. e = d
    BY <1>3, <2>2, <2>3, <2>4
  <2> QED BY <1>7, <1>8, <1>9, <2>5 DEF LogEmpty, g
<1>11. CASE w # <<>>
  <2> DEFINE b == [d EXCEPT !.file = [d.file EXCEPT ![d.name] = g]]
  <2>1. Reading(d.side) = {}
    BY <1>11 DEF Busy
  <2>2. /\ b \in Disks /\ b.name = d.name /\ b.side = d.side /\ b.wal = d.wal
        /\ b.file = [d.file EXCEPT ![d.name] = g]
    BY <1>1, <1>6 DEF Disks
  <2> HIDE DEF b
  <2>3. Backfilled(d, b, Len(w))
    BY <1>1, <1>2, <1>4, <2>2 DEF Backfilled
  <2>4. PICK k \in Nat : Checkpointed(d, k, Readers)
    BY SidesAre DEF FilesInv
  <2>5. k <= Len(w) /\ Len(w) <= Len(w)
    BY <1>1, <2>4 DEF Checkpointed
  <2>6. FilesInv(b, Readers) /\ FreshView(b) = g
    BY <1>1, <2>1, <2>3, <2>4, <2>5, BackfillKeeps DEF g
  <2>7. b.file[b.name] = FreshView(b)
    BY <1>1, <1>4, <2>2, <2>6
  <2>8. /\ b.side \in Sides /\ Reading(b.side) = {}
        /\ e.name = b.name /\ e.side = b.side /\ e.file = b.file /\ e.wal[b.side] = <<>>
    BY <1>7, <1>8, <2>1, <2>2
  <2>9. \A s \in Sides : s # b.side => e.wal[s] = b.wal[s]
    BY <1>8, <2>2
  <2>10. FilesInv(e, Readers)
    BY <1>7, <2>6, <2>7, <2>8, <2>9, EmptyKeeps
  <2> QED BY <1>7, <1>8, <1>9, <2>10 DEF LogEmpty, g
<1> QED BY <1>10, <1>11

\* A connection with sidecar s that closes as the last of R on the named file.
LastOnNamed(d, s, R) ==
    /\ s \in Sides
    /\ s = d.side \/ (split /\ d.wal[s] = <<>>)
    /\ \A r \in R : Connected(r) => reader[r].file # d.name

(* A close keeps what is said of the files for the connections that remain. *)
LEMMA CloseKeeps ==
    ASSUME Typed, NEW d, NEW R \in SUBSET Readers, FilesInv(d, R), NEW i, NEW s, NEW others,
           s # NoSide /\ i = d.name /\ i \notin others => LastOnNamed(d, s, R),
           NEW e, e = Close(d, i, s, others)
    PROVE  /\ FilesInv(e, R) /\ e.name = d.name
           /\ LogEmpty(d) => LogEmpty(e)
           /\ e = d \/ e.side = NoSide
<1>0. d \in Disks
  BY DEF FilesInv
<1>1. CASE ~(s # NoSide /\ i = d.name /\ i \notin others)
  BY <1>1 DEF Close
<1>2. CASE s # NoSide /\ i = d.name /\ i \notin others
  <2> DEFINE f == d.file[d.name]
             g == Whole(d, d.name, s)
  <2>1. /\ d.name \in Inodes /\ f \in Contents /\ f \in past /\ LastOnNamed(d, s, R)
        /\ s \in Sides
    BY <1>0, <1>2, DiskParts DEF FilesInv, LastOnNamed
  <2>2. g \in Contents
    BY <1>0, <2>1, WholeSeen
  <2>3. d.file \in [Inodes -> Contents]
    BY <1>0 DEF Disks
  <2>4. e = [d EXCEPT !.side = NoSide, !.file = [d.file EXCEPT ![d.name] = g]]
    BY <1>0, <1>2 DEF Close, Disks
  <2> HIDE DEF g
  <2>5. [d.file EXCEPT ![d.name] = g] \in [Inodes -> Contents]
    BY <2>2, <2>3
  <2>6. /\ e \in Disks /\ e.name = d.name /\ e.side = NoSide /\ e.wal = d.wal
        /\ e.file = [d.file EXCEPT ![d.name] = g]
    BY <1>0, <2>4, <2>5 DEF Disks
  <2>7. e.file[d.name] = g /\ \A j \in Inodes : j # d.name => e.file[j] = d.file[j]
    BY <2>1, <2>3, <2>6
  <2>8. FreshView(e) = g
    <3>1. e \in Disks /\ d.name \in Inodes
      BY <2>1, <2>6
    <3>2. View(e, d.name, NoSide, 0) = e.file[d.name]
      BY <3>1, ViewFile
    <3>3. Whole(e, d.name, NoSide) = View(e, d.name, NoSide, 0)
      BY DEF Whole
    <3>4. FreshView(e) = Whole(e, d.name, NoSide)
      BY <2>6 DEF FreshView
    <3> QED BY <2>7, <3>2, <3>3, <3>4
  <2>9. d.wal[s] = <<>> => g = f
    BY <1>0, <2>1, WholeEmpty DEF g
  <2>10. s = d.side => g = FreshView(d)
    BY DEF FreshView, g
  <2>11. g \in past
    <3>1. CASE d.wal[s] = <<>>
      BY <2>1, <2>9, <3>1
    <3>2. CASE d.wal[s] # <<>>
      <4>1. s = d.side
        BY <2>1, <3>2 DEF LastOnNamed
      <4>2. PICK k \in Nat : Checkpointed(d, k, R)
        BY <1>2, <4>1 DEF FilesInv
      <4>3. Len(d.wal[s]) \in Nat
        BY <1>0, <2>1, DiskParts, LengthIsNat
      <4>4. Len(d.wal[s]) \in k .. Len(d.wal[s])
        BY <4>1, <4>2, <4>3 DEF Checkpointed
      <4>5. View(d, d.name, s, Len(d.wal[s])) \in past
        BY <4>1, <4>2, <4>4 DEF Checkpointed
      <4> QED BY <1>2, <4>5 DEF g, Whole
    <3> QED BY <3>1, <3>2
  <2>12. \A r \in R : Connected(r) => Sound(e, r)
    <3> TAKE r \in R
    <3> HAVE Connected(r)
    <3>1. Sound(d, r) /\ reader[r].file # d.name /\ reader[r].side # NoSide
          /\ reader[r].file \in Inodes
      BY <2>1, ConnectionParts DEF FilesInv, LastOnNamed, Connected
    <3>2. SameFor(d, e, r)
      BY <2>6, <2>7, <3>1 DEF SameFor
    <3> QED BY <3>1, <3>2, SoundElsewhere
  <2>13. ~split => FreshView(e) = truth
    BY <2>1, <2>8, <2>10 DEF FilesInv, LastOnNamed
  <2>14. Replaced(e)
    <3> SUFFICES ASSUME undurable # None
                 PROVE  Replaced(e)
      BY DEF Replaced
    <3>1. Replaced(d)
      BY DEF FilesInv
    <3>2. d.wal[s] = <<>>
      BY <1>2, <2>1, <3>1 DEF Replaced, LogEmpty, LastOnNamed
    <3>3. e.file[d.name] = f
      BY <2>7, <2>9, <3>2
    <3>4. e.file[undurable.name] = d.file[undurable.name]
      BY <2>7, <3>1 DEF Replaced, Typed
    <3> QED BY <2>6, <3>1, <3>3, <3>4 DEF Replaced, LogEmpty
  <2>15. FilesInv(e, R)
    BY <2>6, <2>7, <2>11, <2>12, <2>13, <2>14 DEF FilesInv
  <2> QED BY <2>6, <2>15 DEF LogEmpty
<1> QED BY <1>1, <1>2

-----------------------------------------------------------------------------
(* The steps that change the files.                                        *)

\* The connection of q is gone, or goes on as it was, reading or at rest.
GoesOn(q, R) ==
    \/ reader'[q].side = NoSide
    \/ /\ q \in R
       /\ reader'[q].side = reader[q].side /\ reader'[q].file = reader[q].file
       /\ reader'[q].stray = reader[q].stray
       /\ reader'[q].at = "reading" => reader'[q] = reader[q]

(* What is said of the files for some connections holds for those that go on. *)
LEMMA Remaining ==
    ASSUME NEW R \in SUBSET Readers, FilesInv(disk', R), past \subseteq past',
           truth' = truth, split' = split, undurable' = undurable \/ undurable' = None,
           \A q \in Readers : GoesOn(q, R)
    PROVE  FilesInv(disk, Readers)'
<1>1. disk' \in Disks /\ disk'.file[disk'.name] \in past'
  BY DEF FilesInv
<1>2. ASSUME disk'.side # NoSide
      PROVE  \E k \in Nat : Checkpointed(disk, k, Readers)'
  <2>1. PICK k \in Nat : Checkpointed(disk', k, R)
    BY <1>2 DEF FilesInv
  <2>2. \A n \in k .. Len(disk'.wal[disk'.side]) : View(disk', disk'.name, disk'.side, n) \in past'
    BY <2>1 DEF Checkpointed
  <2>3. \A q \in Readers : reader'[q].at = "reading" /\ reader'[q].side = disk'.side
                             => reader'[q].mark >= k
    <3> TAKE q \in Readers
    <3> HAVE reader'[q].at = "reading" /\ reader'[q].side = disk'.side
    <3>1. q \in R /\ reader'[q] = reader[q]
      BY <1>2 DEF GoesOn
    <3>2. q \in Reading(disk'.side) \cap R
      BY <3>1 DEF Reading
    <3>3. reader[q].mark >= k
      BY <2>1, <3>2 DEF Checkpointed
    <3> QED BY <3>1, <3>3
  <2>4. \A q \in Reading(disk.side)' \cap Readers : reader'[q].mark >= k
    BY <2>3 DEF Reading
  <2>5. Checkpointed(disk, k, Readers)'
    BY <2>1, <2>2, <2>4 DEF Checkpointed
  <2> QED BY <2>5
<1>3. ~split' => FreshView(disk') = truth'
  BY DEF FilesInv
<1>4. ASSUME NEW q \in Readers, Connected(q)'
      PROVE  Sound(disk, q)'
  <2>1. /\ q \in R /\ reader'[q].side = reader[q].side /\ reader'[q].file = reader[q].file
        /\ reader'[q].stray = reader[q].stray
        /\ reader'[q].at = "reading" => reader'[q] = reader[q]
    BY <1>4 DEF GoesOn, Connected
  <2>2. Connected(q)
    BY <1>4, <2>1 DEF Connected
  <2>3. Sound(disk', q)
    BY <2>1, <2>2 DEF FilesInv
  <2>4. OnNamed(disk, q)'
    BY <2>1, <2>3 DEF Sound, OnNamed
  <2>5. SeesPast(disk, q)'
    <3> SUFFICES ASSUME ~reader'[q].stray
                 PROVE  SeesPast(disk, q)'
      BY DEF SeesPast
    <3>1. /\ Whole(disk', reader[q].file, reader[q].side) \in past
          /\ reader[q].file # disk'.name /\ reader[q].side = disk'.side
                => disk'.wal[disk'.side] = <<>>
          /\ reader[q].at = "reading" =>
                /\ View(disk', reader[q].file, reader[q].side, reader[q].mark) \in past
                /\ View(disk', reader[q].file, reader[q].side, reader[q].mark)["rows"]
                     = reader[q].rows
      BY <2>1, <2>3 DEF Sound, SeesPast
    <3> QED BY <2>1, <3>1 DEF SeesPast
  <2>6. reader'[q].at = "reading" => reader'[q].mark <= Len(disk'.wal[reader'[q].side])
    BY <2>1, <2>3 DEF Sound
  <2> QED BY <2>4, <2>5, <2>6 DEF Sound
<1>5. Replaced(disk)'
  <2>1. Replaced(disk')
    BY DEF FilesInv
  <2> QED BY <2>1 DEF Replaced, LogEmpty
<1> QED BY <1>1, <1>2, <1>3, <1>4, <1>5 DEF FilesInv

LEMMA FewerReaders ==
    ASSUME NEW d, NEW S, NEW R \in SUBSET S, FilesInv(d, S)
    PROVE  FilesInv(d, R)
<1>1. \A k : Checkpointed(d, k, S) => Checkpointed(d, k, R)
  BY DEF Checkpointed
<1> QED BY <1>1 DEF FilesInv

LEMMA CloseJobKeeps ==
    ASSUME Typed, NEW d, FilesInv(d, Readers), NEW s, s = NoSide \/ s = d.side,
           NEW e, e = CloseJob(d, s)
    PROVE  /\ FilesInv(e, Readers) /\ e.name = d.name
           /\ LogEmpty(d) => LogEmpty(e)
<1>1. ASSUME s # NoSide, d.name \notin FilesOf(Readers)
      PROVE  LastOnNamed(d, s, Readers)
  <2>1. s \in Sides /\ s = d.side
    BY <1>1, DiskParts DEF FilesInv
  <2>2. \A r \in Readers : Connected(r) => reader[r].file # d.name
    BY <1>1 DEF FilesOf
  <2> QED BY <2>1, <2>2 DEF LastOnNamed
<1>2. e = Close(d, d.name, s, FilesOf(Readers))
  BY DEF CloseJob
<1>3. s # NoSide /\ d.name = d.name /\ d.name \notin FilesOf(Readers)
         => LastOnNamed(d, s, Readers)
  BY <1>1
<1> QED BY <1>2, <1>3, CloseKeeps

(* The live connection opened, and closed again. *)
LEMMA OpenAndClose ==
    ASSUME Typed, NEW d, FilesInv(d, Readers), NEW c, c = Connect(d),
           NEW e, e = CloseJob(c, c.side)
    PROVE  /\ FilesInv(e, Readers) /\ e.name = d.name
           /\ LogEmpty(d) => LogEmpty(e)
<1>1. FilesInv(c, Readers) /\ c.name = d.name /\ (LogEmpty(d) => LogEmpty(c))
  BY ConnectKeeps
<1> QED BY <1>1, CloseJobKeeps

\* What a step that renames nothing does to the files.
Kept ==
    /\ FilesInv(disk, Readers)'
    /\ disk'.name = disk.name
    /\ LogEmpty(disk) => LogEmpty(disk)'
    /\ job'.side # NoSide => job'.side = disk'.side

(* A step of the process with the lock, or of nobody, that commits nothing. *)
LEMMA QuietStep ==
    ASSUME FilesInv(disk', Readers), disk'.name = disk.name, LogEmpty(disk) => LogEmpty(disk'),
           job'.side # NoSide => job'.side = disk'.side,
           reader' = reader, past' = past, truth' = truth, split' = split,
           undurable' = undurable \/ undurable' = None
    PROVE  Kept
<1>1. \A q \in Readers : GoesOn(q, Readers)
  BY DEF GoesOn
<1>2. FilesInv(disk, Readers)'
  BY <1>1, Remaining
<1>3. LogEmpty(disk)' <=> LogEmpty(disk')
  BY DEF LogEmpty
<1> QED BY <1>2, <1>3 DEF Kept

LEMMA ReaderStepsKeep ==
    ASSUME Typed, FilesInv(disk, Readers), Placed, NEW r \in Readers,
           ReaderOpen(r) \/ ReaderEnd(r) \/ ReaderClose(r) \/ KillReader(r)
    PROVE  Kept
<1>0. reader \in [Readers -> Connections] /\ past' = past
  BY DEF Typed, ReaderOpen, ReaderEnd, ReaderClose, KillReader, Untouched
<1>1. CASE ReaderOpen(r)
  <2>1. \A q \in Readers : GoesOn(q, Readers)
    BY <1>0, <1>1 DEF ReaderOpen, GoesOn, Closed
  <2>2. FilesInv(disk', Readers)
    BY <1>1 DEF ReaderOpen
  <2>3. FilesInv(disk, Readers)'
    BY <1>1, <2>1, <2>2, Remaining DEF ReaderOpen, Untouched
  <2> QED BY <1>1, <2>3 DEF Kept, ReaderOpen, LogEmpty, Placed
<1>2. CASE ReaderEnd(r)
  <2>1. \A q \in Readers : GoesOn(q, Readers)
    BY <1>0, <1>2 DEF ReaderEnd, GoesOn, Connections
  <2>2. FilesInv(disk', Readers)
    BY <1>2 DEF ReaderEnd
  <2>3. FilesInv(disk, Readers)'
    BY <1>2, <2>1, <2>2, Remaining DEF ReaderEnd, Untouched
  <2> QED BY <1>2, <2>3 DEF Kept, ReaderEnd, LogEmpty, Placed
<1>3. CASE KillReader(r)
  <2>1. \A q \in Readers : GoesOn(q, Readers)
    BY <1>0, <1>3 DEF KillReader, GoesOn, Closed
  <2>2. FilesInv(disk', Readers)
    BY <1>3 DEF KillReader
  <2>3. FilesInv(disk, Readers)'
    BY <1>3, <2>1, <2>2, Remaining DEF KillReader
  <2> QED BY <1>3, <2>3 DEF Kept, KillReader, LogEmpty, Placed
<1>4. CASE ReaderClose(r)
  <2> DEFINE R == Readers \ {r}
             s == reader[r].side
             others == FilesOf(R) \cup (IF job.side # NoSide THEN {disk.name} ELSE {})
  <2>1. disk' = Close(disk, reader[r].file, s, others) /\ reader' = [reader EXCEPT ![r] = Closed]
        /\ reader[r].at \in {"opened", "idle"}
    BY <1>4 DEF ReaderClose
  <2>2. FilesInv(disk, R)
    BY FewerReaders
  <2>3. ASSUME s # NoSide, reader[r].file = disk.name, reader[r].file \notin others
        PROVE  LastOnNamed(disk, s, R)
    <3>1. s \in Sides /\ Connected(r)
      BY <2>3, ConnectionParts DEF Connected
    <3>2. Sound(disk, r)
      BY <3>1 DEF FilesInv
    <3>3. s = disk.side \/ (split /\ disk.wal[s] = <<>>)
      BY <2>3, <3>2 DEF Sound, OnNamed
    <3>4. \A q \in R : Connected(q) => reader[q].file # disk.name
      BY <2>3 DEF FilesOf
    <3> QED BY <3>1, <3>3, <3>4 DEF LastOnNamed
  <2>4. /\ FilesInv(disk', R) /\ disk'.name = disk.name
        /\ LogEmpty(disk) => LogEmpty(disk')
        /\ disk' = disk \/ disk'.side = NoSide
    <3> HIDE DEF others, R, s
    <3>0. R \in SUBSET Readers
      BY DEF R
    <3> QED BY <2>1, <2>2, <2>3, <3>0, CloseKeeps
  <2>5. \A q \in Readers : GoesOn(q, R)
    BY <1>0, <2>1 DEF GoesOn, Closed
  <2>6. truth' = truth /\ split' = split /\ undurable' = undurable /\ job' = job
    BY <1>4 DEF ReaderClose, Untouched
  <2>7. FilesInv(disk, Readers)'
    <3> HIDE DEF R
    <3>0. R \in SUBSET Readers
      BY DEF R
    <3> QED BY <1>0, <2>4, <2>5, <2>6, <3>0, Remaining
  <2>8. job.side # NoSide => disk' = disk
    BY <2>1 DEF Close
  <2> QED BY <2>4, <2>6, <2>7, <2>8 DEF Kept, LogEmpty, Placed
<1> QED BY <1>1, <1>2, <1>3, <1>4

(* A read transaction sees what is committed, or what its connection saw before. *)
LEMMA BeginKeeps ==
    ASSUME Typed, FilesInv(disk, Readers), Placed, NEW r \in Readers, ReaderBegin(r)
    PROVE  Kept /\ reader' \in [Readers -> Connections] /\ Connected(r)'
<1> DEFINE d == IF Connected(r) THEN disk ELSE Connect(disk)
           s == IF Connected(r) THEN reader[r].side ELSE d.side
           n == Len(d.wal[s])
           i == reader[r].file
<1>1. /\ disk' = d /\ job' = job /\ split' = split /\ undurable' = undurable
      /\ truth' = truth /\ past' = past
      /\ reader' = [reader EXCEPT
             ![r].at = "reading", ![r].side = s, ![r].mark = n,
             ![r].rows = Whole(d, i, s)["rows"],
             ![r].stray = @ \/ (~Connected(r) /\ i # disk.name)]
  BY DEF ReaderBegin, Untouched
<1>2. /\ FilesInv(d, Readers) /\ (LogEmpty(disk) => LogEmpty(d))
      /\ d \in Disks /\ d.name = disk.name /\ (disk.side # NoSide => d = disk)
  <2>1. CASE Connected(r)
    BY <2>1 DEF FilesInv
  <2>2. CASE ~Connected(r)
    BY <2>2, ConnectKeeps
  <2> QED BY <2>1, <2>2
<1>3. s \in Sides
  <2>1. CASE Connected(r)
    BY <2>1, ConnectionParts
  <2>2. CASE ~Connected(r)
    BY <2>2, ConnectKeeps
  <2> QED BY <2>1, <2>2
<1>4. ~Connected(r) => s = d.side
  OBVIOUS
<1>5. /\ i \in Inodes /\ Log(d.wal[s]) /\ n \in Nat
  BY <1>2, <1>3, DiskParts, ConnectionParts, LengthIsNat
<1> DEFINE astray == reader[r].stray \/ (~Connected(r) /\ i # disk.name)
<1>6. /\ reader'[r].at = "reading" /\ reader'[r].side = s /\ reader'[r].mark = n
      /\ reader'[r].rows = Whole(d, i, s)["rows"]
      /\ reader'[r].file = i
      /\ reader'[r].stray = astray
      /\ \A q \in Readers : q # r => reader'[q] = reader[q]
  BY <1>1 DEF Typed, Connections
<1> HIDE DEF d, s, n
<1>7. View(d, i, s, n) = Whole(d, i, s)
  BY <1>3, SidesAre DEF Whole, n
<1>8. d.side # NoSide => Whole(d, d.name, d.side) \in past
  <2> HAVE d.side # NoSide
  <2>0. d.side \in Sides
    BY <1>2, DiskParts
  <2>1. PICK k \in Nat : Checkpointed(d, k, Readers)
    BY <1>2 DEF FilesInv
  <2>2. Len(d.wal[d.side]) \in Nat
    BY <1>2, <2>0, DiskParts, LengthIsNat
  <2>3. Len(d.wal[d.side]) \in k .. Len(d.wal[d.side])
    BY <2>1, <2>2 DEF Checkpointed
  <2> QED BY <2>1, <2>3 DEF Checkpointed, Whole
<1>9. Connected(r) => Sound(d, r) /\ s = reader[r].side
  BY <1>2 DEF FilesInv, s
<1>10. OnNamed(disk, r)'
  BY <1>1, <1>4, <1>6, <1>9 DEF Sound, OnNamed
<1>11. SeesPast(disk, r)'
  <2> SUFFICES ASSUME ~astray
               PROVE  /\ Whole(d, i, s) \in past
                      /\ i # d.name /\ s = d.side => d.wal[d.side] = <<>>
    <3>1. /\ Whole(disk', reader'[r].file, reader'[r].side) = Whole(d, i, s)
          /\ View(disk', reader'[r].file, reader'[r].side, reader'[r].mark) = Whole(d, i, s)
      BY <1>1, <1>6, <1>7
    <3>2. disk' = d /\ past' = past
      BY <1>1
    <3> HIDE DEF astray
    <3> QED BY <1>6, <3>1, <3>2 DEF SeesPast
  <2>1. CASE Connected(r)
    BY <1>9, <2>1 DEF Sound, SeesPast
  <2>2. CASE ~Connected(r)
    BY <1>2, <1>3, <1>4, <1>8, <2>2, SidesAre
  <2> QED BY <2>1, <2>2
<1>12. Sound(disk, r)'
  <2>1. n <= Len(d.wal[s])
    BY <1>5 DEF n
  <2> QED BY <1>1, <1>6, <1>10, <1>11, <2>1 DEF Sound
<1>13. \A q \in Readers : Connected(q)' => Sound(disk, q)'
  <2> TAKE q \in Readers
  <2> HAVE Connected(q)'
  <2>1. CASE q = r
    BY <1>12, <2>1
  <2>2. CASE q # r
    <3>1. reader'[q] = reader[q]
      BY <1>6, <2>2
    <3>2. Sound(d, q)
      BY <1>2, <3>1 DEF FilesInv, Connected
    <3>3. disk' = d /\ past' = past /\ split' = split
      BY <1>1
    <3>4. OnNamed(disk, q)'
      BY <3>1, <3>2, <3>3 DEF Sound, OnNamed
    <3>5. SeesPast(disk, q)'
      BY <3>1, <3>2, <3>3 DEF Sound, SeesPast
    <3> QED BY <3>1, <3>2, <3>3, <3>4, <3>5 DEF Sound
  <2> QED BY <2>1, <2>2
<1>14. disk'.side # NoSide => \E k \in Nat : Checkpointed(disk, k, Readers)'
  <2> HAVE disk'.side # NoSide
  <2>1. PICK k \in Nat : Checkpointed(d, k, Readers)
    BY <1>1, <1>2 DEF FilesInv
  <2>2. \A q \in Readers : reader'[q].at = "reading" /\ reader'[q].side = d.side
                             => reader'[q].mark >= k
    <3> TAKE q \in Readers
    <3> HAVE reader'[q].at = "reading" /\ reader'[q].side = d.side
    <3>1. CASE q = r
      <4>1. s = d.side /\ reader'[q].mark = Len(d.wal[d.side])
        BY <1>6, <3>1 DEF n
      <4>2. Len(d.wal[d.side]) \in Nat
        BY <1>2, <1>3, <4>1, DiskParts, LengthIsNat
      <4> QED BY <2>1, <4>1, <4>2 DEF Checkpointed
    <3>2. CASE q # r
      <4>1. reader'[q] = reader[q]
        BY <1>6, <3>2
      <4>2. q \in Reading(d.side) \cap Readers
        BY <4>1 DEF Reading
      <4> QED BY <2>1, <4>1, <4>2 DEF Checkpointed
    <3> QED BY <3>1, <3>2
  <2>3. \A q \in Reading(disk.side)' \cap Readers : reader'[q].mark >= k
    BY <1>1, <2>2 DEF Reading
  <2>4. Checkpointed(disk, k, Readers)'
    BY <1>1, <2>1, <2>3 DEF Checkpointed
  <2> QED BY <2>4
<1>15. Replaced(disk)'
  <2>1. Replaced(d)
    BY <1>2 DEF FilesInv
  <2> QED BY <1>1, <2>1 DEF Replaced, LogEmpty
<1>16. /\ disk' \in Disks /\ disk'.file[disk'.name] \in past'
       /\ ~split' => FreshView(disk') = truth'
  BY <1>1, <1>2 DEF FilesInv
<1>17. FilesInv(disk, Readers)'
  BY <1>13, <1>14, <1>15, <1>16 DEF FilesInv
<1>18. LogEmpty(disk) => LogEmpty(disk)'
  BY <1>1, <1>2 DEF LogEmpty
<1>19. job'.side # NoSide => job'.side = disk'.side
  BY <1>1, <1>2 DEF Placed
<1>20. Kept
  BY <1>1, <1>2, <1>17, <1>18, <1>19 DEF Kept
<1>21. \A q \in Readers : reader'[q] \in Connections
  <2> TAKE q \in Readers
  <2>1. CASE q # r
    BY <1>6, <2>1 DEF Typed
  <2>2. CASE q = r
    <3>1. Whole(d, i, s) \in Contents
      BY <1>2, <1>3, <1>5, WholeSeen
    <3>2. Whole(d, i, s)["rows"] \in Values
      BY <3>1 DEF Contents, Pages
    <3>3. [at |-> "reading", file |-> i, side |-> s, mark |-> n,
           rows |-> Whole(d, i, s)["rows"], stray |-> astray] \in Connections
      BY <1>3, <1>5, <3>2 DEF Connections, Typed
    <3>4. reader'[r] = [at |-> "reading", file |-> i, side |-> s, mark |-> n,
                        rows |-> Whole(d, i, s)["rows"], stray |-> astray]
      <4>1. reader[r] \in Connections
        BY DEF Typed
      <4>2. reader'[r] = [reader[r] EXCEPT !.at = "reading", !.side = s, !.mark = n,
                              !.rows = Whole(d, i, s)["rows"], !.stray = astray]
        BY <1>1 DEF Typed, d, s, n
      <4> HIDE DEF astray
      <4> QED BY <4>1, <4>2 DEF Connections
    <3> QED BY <2>2, <3>3, <3>4
  <2> QED BY <2>1, <2>2
<1>22. reader' \in [Readers -> Connections]
  <2>1. reader' = [q \in Readers |-> reader'[q]]
    BY <1>1 DEF Typed
  <2> QED BY <1>21, <2>1
<1>23. Connected(r)'
  BY <1>3, <1>6, SidesAre DEF Connected
<1> QED BY <1>20, <1>22, <1>23

(* Unlinking an empty log by its name leaves those that use it astray. *)
LEMMA UnlinkKeeps ==
    ASSUME Typed, FilesInv(disk, Readers), LogEmpty(disk), UnlinkSidecars,
           past' = past, truth' = truth, undurable' = undurable, job'.side = NoSide
    PROVE  Kept
<1> DEFINE users == {r \in Readers : disk.side # NoSide /\ reader[r].side = disk.side
                                       /\ reader[r].file = disk.name}
<1>1. disk' = [disk EXCEPT !.side = NoSide] /\ split' = (split \/ users # {})
  BY DEF UnlinkSidecars
<1>2. disk \in Disks /\ disk.name \in Inodes /\ disk.file[disk.name] \in past
  BY DiskParts DEF FilesInv
<1>3. /\ disk' \in Disks /\ disk'.name = disk.name /\ disk'.side = NoSide
      /\ disk'.file = disk.file /\ disk'.wal = disk.wal
  BY <1>1, <1>2 DEF Disks
<1>4. \A r \in Readers : /\ reader'[r].at = reader[r].at /\ reader'[r].side = reader[r].side
                         /\ reader'[r].file = reader[r].file /\ reader'[r].mark = reader[r].mark
                         /\ reader'[r].rows = reader[r].rows
                         /\ reader'[r].stray = (reader[r].stray \/ r \in users)
  BY DEF UnlinkSidecars, Typed, Connections
<1>5. FreshView(disk) = disk.file[disk.name] /\ FreshView(disk') = disk.file[disk.name]
  <2>1. /\ disk.side \in Sides \cup {NoSide} /\ (disk.side # NoSide => disk.wal[disk.side] = <<>>)
    BY <1>2, DiskParts DEF LogEmpty
  <2>2. Whole(disk, disk.name, disk.side) = disk.file[disk.name]
    BY <1>2, <2>1, WholeEmpty
  <2>3. Whole(disk', disk.name, NoSide) = disk'.file[disk.name]
    BY <1>2, <1>3, WholeEmpty
  <2> QED BY <1>3, <2>2, <2>3 DEF FreshView
<1>6. \A r \in Readers : Connected(r)' => Sound(disk, r)'
  <2> TAKE r \in Readers
  <2> HAVE Connected(r)'
  <2>1. Connected(r) /\ Sound(disk, r)
    BY <1>4 DEF Connected, FilesInv
  <2>2. /\ \A n : View(disk', reader[r].file, reader[r].side, n)
                    = View(disk, reader[r].file, reader[r].side, n)
        /\ Whole(disk', reader[r].file, reader[r].side)
             = Whole(disk, reader[r].file, reader[r].side)
    BY <1>3, SameView
  <2>3. OnNamed(disk, r)'
    <3> SUFFICES ASSUME reader[r].file = disk.name
                 PROVE  reader'[r].stray /\ split' /\ disk.wal[reader[r].side] = <<>>
      BY <1>3, <1>4 DEF OnNamed
    <3>1. CASE reader[r].side = disk.side
      <4>1. r \in users /\ disk.wal[disk.side] = <<>>
        BY <2>1, <3>1 DEF LogEmpty, Connected
      <4> QED BY <1>1, <1>4, <3>1, <4>1
    <3>2. CASE reader[r].side # disk.side
      BY <1>1, <1>4, <2>1, <3>2 DEF Sound, OnNamed
    <3> QED BY <3>1, <3>2
  <2>4. SeesPast(disk, r)'
    <3> SUFFICES ASSUME ~reader'[r].stray
                 PROVE  SeesPast(disk, r)'
      BY DEF SeesPast
    <3>1. ~reader[r].stray /\ SeesPast(disk, r) /\ reader[r].side # NoSide
      BY <1>4, <2>1 DEF Sound, Connected
    <3> QED BY <1>3, <1>4, <2>2, <3>1 DEF SeesPast
  <2> QED BY <1>3, <1>4, <2>1, <2>3, <2>4 DEF Sound
<1>7. ~split' => FreshView(disk') = truth'
  BY <1>1, <1>5 DEF FilesInv
<1>8. Replaced(disk)'
  <2>1. Replaced(disk)
    BY DEF FilesInv
  <2>2. ~split' => ~split
    BY <1>1
  <2> QED BY <1>3, <2>1, <2>2 DEF Replaced, LogEmpty
<1>9. FilesInv(disk, Readers)'
  BY <1>2, <1>3, <1>6, <1>7, <1>8 DEF FilesInv
<1> QED BY <1>3, <1>9 DEF Kept, LogEmpty

\* A file that no connection is to and no name stands for.
Spare(i) ==
    /\ i \in Inodes /\ i # disk.name
    /\ \A r \in Readers : Connected(r) => reader[r].file # i

(* A rename installs what is meant, beside an empty log. *)
LEMMA InstallKeeps ==
    ASSUME Typed, FilesInv(disk, Readers), LogEmpty(disk), NEW i, Spare(i),
           NEW content \in Contents, ~content["vectors"].legacy,
           NEW meant, ~split => content = meant,
           Install(content, i, meant), reader' = reader, split' = split
    PROVE  /\ FilesInv(disk, Readers)' /\ LogEmpty(disk)'
           /\ disk'.side = disk.side /\ disk'.name = i
<1>1. /\ disk' = [disk EXCEPT !.name = i, !.file[i] = content]
      /\ undurable' = [name |-> disk.name, truth |-> truth, copy |-> staged.copy]
      /\ truth' = meant /\ past' = past \cup {content}
  BY DEF Install
<1>2. /\ disk \in Disks /\ disk.name \in Inodes /\ disk.file[disk.name] \in past
      /\ i \in Inodes /\ i # disk.name
  BY DiskParts DEF FilesInv, Spare
<1>3. disk.file \in [Inodes -> Contents]
  BY <1>2 DEF Disks
<1>4. [disk.file EXCEPT ![i] = content] \in [Inodes -> Contents]
  BY <1>3
<1>5. disk' = [disk EXCEPT !.name = i, !.file = [disk.file EXCEPT ![i] = content]]
  BY <1>1, <1>2 DEF Disks
<1>6. /\ disk' \in Disks /\ disk'.name = i /\ disk'.side = disk.side /\ disk'.wal = disk.wal
      /\ disk'.file = [disk.file EXCEPT ![i] = content]
  BY <1>2, <1>4, <1>5 DEF Disks
<1>7. disk'.file[i] = content /\ \A j \in Inodes : j # i => disk'.file[j] = disk.file[j]
  BY <1>2, <1>3, <1>6
<1>8. disk.side # NoSide => disk.side \in Sides /\ disk.wal[disk.side] = <<>>
  BY <1>2, DiskParts DEF LogEmpty
<1>9. /\ FreshView(disk) = disk.file[disk.name] /\ FreshView(disk') = content
  <2>1. disk.side \in Sides \cup {NoSide}
    BY <1>2, DiskParts
  <2>2. Whole(disk, disk.name, disk.side) = disk.file[disk.name]
    BY <1>2, <1>8, <2>1, WholeEmpty
  <2>3. disk.side # NoSide => disk'.wal[disk.side] = <<>>
    BY <1>6, <1>8
  <2>4. Whole(disk', i, disk.side) = disk'.file[i]
    <3>1. disk' \in Disks /\ i \in Inodes
      BY <1>2, <1>6
    <3> QED BY <2>1, <2>3, <3>1, WholeEmpty
  <2> QED BY <1>6, <1>7, <2>2, <2>4 DEF FreshView
<1>10. disk'.side # NoSide => \E k \in Nat : Checkpointed(disk, k, Readers)'
  <2> HAVE disk'.side # NoSide
  <2>1. disk.side \in Sides /\ disk'.wal[disk'.side] = <<>>
    BY <1>6, <1>8
  <2>2. Len(disk'.wal[disk'.side]) = 0
    BY <2>1
  <2>3. View(disk', i, disk.side, 0) = content
    <3>1. disk' \in Disks /\ i \in Inodes /\ 0 \in Nat
      BY <1>2, <1>6
    <3>2. View(disk', i, disk.side, 0) = Seen(disk'.file[i], disk'.wal[disk.side], 0)
      BY <2>1, <3>1, ViewSeen
    <3>3. View(disk', i, disk.side, 0) = Seen(content, <<>>, 0)
      BY <1>6, <1>7, <2>1, <3>2
    <3> QED BY <3>1, <3>3, SeenNone
  <2>4. \A r \in Reading(disk.side)' \cap Readers : reader'[r].mark >= 0
    BY ConnectionParts DEF Reading
  <2>5. \A n \in 0 .. 0 : n = 0
    OBVIOUS
  <2>6. Checkpointed(disk, 0, Readers)'
    BY <1>1, <1>6, <1>7, <2>2, <2>3, <2>4, <2>5 DEF Checkpointed
  <2> QED BY <2>6
<1>11. \A r \in Readers : Connected(r)' => Sound(disk, r)'
  <2> TAKE r \in Readers
  <2> HAVE Connected(r)'
  <2>1. Connected(r) /\ Sound(disk, r)
    BY DEF Connected, FilesInv
  <2>2. reader[r].file \in Inodes /\ reader[r].file # i
    BY <2>1, ConnectionParts DEF Spare
  <2>3. /\ \A n : View(disk', reader[r].file, reader[r].side, n)
                    = View(disk, reader[r].file, reader[r].side, n)
        /\ Whole(disk', reader[r].file, reader[r].side)
             = Whole(disk, reader[r].file, reader[r].side)
    <3>1. /\ disk'.file[reader[r].file] = disk.file[reader[r].file]
          /\ disk'.wal[reader[r].side] = disk.wal[reader[r].side]
      BY <1>6, <1>7, <2>2
    <3> QED BY <3>1, SameView
  <2>4. OnNamed(disk, r)'
    BY <1>6, <2>2 DEF OnNamed
  <2>5. SeesPast(disk, r)'
    <3> SUFFICES ASSUME ~reader[r].stray
                 PROVE  SeesPast(disk, r)'
      BY DEF SeesPast
    <3>1. SeesPast(disk, r) /\ reader[r].side # NoSide
      BY <2>1 DEF Sound, Connected
    <3> QED BY <1>1, <1>6, <1>8, <2>3, <3>1 DEF SeesPast
  <2> QED BY <1>6, <2>1, <2>4, <2>5 DEF Sound
<1>12. Replaced(disk)'
  <2>1. LogEmpty(disk)'
    BY <1>6, <1>8 DEF LogEmpty
  <2>2. disk'.file[disk.name] \in past' /\ (~split' => disk'.file[disk.name] = truth)
    BY <1>1, <1>2, <1>7, <1>9 DEF FilesInv
  <2> QED BY <1>1, <1>2, <1>6, <1>7, <2>1, <2>2 DEF Replaced
<1>13. disk'.file[disk'.name] \in past' /\ (~split' => FreshView(disk') = truth')
  BY <1>1, <1>6, <1>7, <1>9
<1>14. FilesInv(disk, Readers)'
  BY <1>6, <1>10, <1>11, <1>12, <1>13 DEF FilesInv
<1> QED BY <1>6, <1>8, <1>14 DEF LogEmpty

(* Whoever opens the database by its name finds a state that was committed. *)
LEMMA FreshIsPast ==
    ASSUME NEW d, NEW R, FilesInv(d, R)
    PROVE  FreshView(d) \in past
<1>0. d \in Disks
  BY DEF FilesInv
<1>1. d.name \in Inodes /\ (d.side \in Sides \/ d.side = NoSide)
  BY <1>0, DiskParts
<1>2. CASE d.side = NoSide
  <2>1. Whole(d, d.name, NoSide) = d.file[d.name]
    BY <1>0, <1>1, WholeEmpty
  <2> QED BY <1>2, <2>1 DEF FreshView, FilesInv
<1>3. CASE d.side # NoSide
  <2>1. PICK k \in Nat : Checkpointed(d, k, R)
    BY <1>3 DEF FilesInv
  <2>2. Len(d.wal[d.side]) \in Nat
    BY <1>0, <1>1, <1>3, DiskParts, LengthIsNat
  <2>3. Len(d.wal[d.side]) \in k .. Len(d.wal[d.side])
    BY <2>1, <2>2 DEF Checkpointed
  <2> QED BY <1>3, <2>1, <2>3 DEF Checkpointed, Whole, FreshView
<1> QED BY <1>2, <1>3

\* A commit appends a frame to the log of disk d.
Appended(d, e, frame) ==
    /\ e \in Disks /\ e.name = d.name /\ e.side = d.side /\ e.file = d.file
    /\ e.wal[d.side] = Append(d.wal[d.side], frame)
    /\ \A s \in Sides : s # d.side => e.wal[s] = d.wal[s]

(* Who opens the database then finds the pages of the frame, and the others as before;
   who looks at the frames before it sees what was there before. *)
LEMMA AppendedView ==
    ASSUME NEW d \in Disks, d.side \in Sides, NEW frame \in Frames, NEW e, Appended(d, e, frame)
    PROVE  /\ Len(e.wal[d.side]) = Len(d.wal[d.side]) + 1
           /\ FreshView(e) = View(e, d.name, d.side, Len(d.wal[d.side]) + 1)
           /\ FreshView(e) = Whole(e, d.name, d.side)
           /\ FreshView(e) \in Contents
           /\ \A p \in Pages : FreshView(e)[p] = IF p \in DOMAIN frame THEN frame[p]
                                                 ELSE FreshView(d)[p]
           /\ \A n \in 0 .. Len(d.wal[d.side]) :
                 View(e, d.name, d.side, n) = View(d, d.name, d.side, n)
<1> DEFINE f == d.file[d.name]
           w == d.wal[d.side]
           v == Append(w, frame)
<1>1. /\ d.name \in Inodes /\ f \in Contents /\ Log(w) /\ Len(w) \in Nat
      /\ e \in Disks /\ e.name = d.name /\ e.side = d.side /\ e.file[d.name] = f
      /\ e.wal[d.side] = v
  BY DiskParts, LengthIsNat DEF Appended
<1>2. Log(v) /\ Len(v) = Len(w) + 1
  BY <1>1 DEF Log
<1> HIDE DEF v
<1>3. Whole(e, d.name, d.side) = Seen(f, v, Len(w) + 1)
      /\ Whole(e, d.name, d.side) \in Contents
  <2>1. /\ Whole(e, d.name, d.side) = Seen(e.file[d.name], e.wal[d.side], Len(e.wal[d.side]))
        /\ Whole(e, d.name, d.side) \in Contents
    BY <1>1, WholeSeen
  <2> QED BY <1>1, <1>2, <2>1
<1>4. FreshView(e) = Whole(e, d.name, d.side)
  BY <1>1 DEF FreshView
<1>5. FreshView(d) = Seen(f, w, Len(w))
  BY <1>1, WholeSeen DEF FreshView
<1>6. \A p \in Pages : FreshView(e)[p] = IF p \in DOMAIN frame THEN frame[p]
                                         ELSE FreshView(d)[p]
  BY <1>1, <1>3, <1>4, <1>5, SeenWith, SMTT(30) DEF v
<1>7. View(e, d.name, d.side, Len(w) + 1) = Seen(f, v, Len(w) + 1)
  <2>1. Len(w) + 1 \in Nat
    BY <1>1
  <2>2. View(e, d.name, d.side, Len(w) + 1) = Seen(e.file[d.name], e.wal[d.side], Len(w) + 1)
    BY <1>1, <2>1, ViewSeen
  <2> QED BY <1>1, <2>2
<1>8. ASSUME NEW n \in 0 .. Len(w)
      PROVE  View(e, d.name, d.side, n) = View(d, d.name, d.side, n)
  <2>1. n \in Nat
    BY <1>1
  <2>2. View(e, d.name, d.side, n) = Seen(e.file[d.name], e.wal[d.side], n)
    BY <1>1, <2>1, ViewSeen
  <2>3. View(d, d.name, d.side, n) = Seen(f, w, n)
    BY <1>1, <2>1, ViewSeen
  <2>4. Seen(f, v, n) = Seen(f, w, n)
    BY <1>1, SeenBefore DEF v
  <2> QED BY <1>1, <2>2, <2>3, <2>4
<1> QED BY <1>1, <1>2, <1>3, <1>4, <1>6, <1>7, <1>8

\* A commit to disk d.
Committed(d, frame) ==
    /\ Appended(d, disk', frame)
    /\ past' = past \cup {FreshView(disk')}
    /\ truth' = [p \in Pages |-> IF p \in DOMAIN frame THEN frame[p] ELSE truth[p]]
    /\ reader' = [r \in Readers |-> [reader[r] EXCEPT !.stray = @ \/ r \in Strays(d.side)]]
    /\ split' = split /\ undurable' = None

(* A commit leaves what was there, for who does not look at it, and its pages in
   what is there now; who takes its frames for those of another file is astray. *)
LEMMA AppendKeeps ==
    ASSUME Typed, NEW d, FilesInv(d, Readers), d.side \in Sides, d.name = disk.name,
           NEW frame \in Frames, Committed(d, frame)
    PROVE  FilesInv(disk, Readers)'
<1> DEFINE w == d.wal[d.side]
<1>0. d \in Disks
  BY DEF FilesInv
<1>1. /\ disk' \in Disks /\ disk'.name = d.name /\ disk'.side = d.side
      /\ disk'.file = d.file /\ \A s \in Sides : s # d.side => disk'.wal[s] = d.wal[s]
      /\ d.name \in Inodes /\ Len(w) \in Nat
  BY <1>0, DiskParts, LengthIsNat DEF Appended, Committed
<1>2. /\ Len(disk'.wal[d.side]) = Len(w) + 1
      /\ FreshView(disk') = View(disk', d.name, d.side, Len(w) + 1)
      /\ FreshView(disk') = Whole(disk', d.name, d.side)
      /\ FreshView(disk') \in Contents
      /\ \A p \in Pages : FreshView(disk')[p] = IF p \in DOMAIN frame THEN frame[p]
                                                ELSE FreshView(d)[p]
      /\ \A n \in 0 .. Len(w) : View(disk', d.name, d.side, n) = View(d, d.name, d.side, n)
  BY <1>0, AppendedView DEF Committed
<1>3. \A r \in Readers : /\ reader'[r].at = reader[r].at /\ reader'[r].side = reader[r].side
                         /\ reader'[r].file = reader[r].file /\ reader'[r].mark = reader[r].mark
                         /\ reader'[r].rows = reader[r].rows
                         /\ reader'[r].stray = (reader[r].stray \/ r \in Strays(d.side))
  BY DEF Typed, Connections, Committed
<1>4. past \subseteq past' /\ FreshView(disk') \in past' /\ split' = split
  BY DEF Committed
<1>5. \E k \in Nat : Checkpointed(disk, k, Readers)'
  <2>1. PICK k \in Nat : Checkpointed(d, k, Readers)
    BY SidesAre DEF FilesInv
  <2>2. k <= Len(w)
    BY <2>1 DEF Checkpointed
  <2>3. k \in 0 .. Len(w) /\ k \in 0 .. Len(disk'.wal[disk'.side])
    BY <1>1, <1>2, <2>2
  <2>4. disk'.file[disk'.name] = View(disk', disk'.name, disk'.side, k)
    BY <1>1, <1>2, <2>1, <2>3 DEF Checkpointed
  <2>5. \A n \in k .. Len(w) + 1 : View(disk', d.name, d.side, n) \in past'
    <3> TAKE n \in k .. Len(w) + 1
    <3>1. CASE n = Len(w) + 1
      BY <1>2, <1>4, <3>1
    <3>2. CASE n # Len(w) + 1
      <4>1. n \in k .. Len(w) /\ n \in 0 .. Len(w)
        BY <1>1, <3>2
      <4> QED BY <1>2, <1>4, <2>1, <4>1 DEF Checkpointed
    <3> QED BY <3>1, <3>2
  <2>6. \A r \in Reading(disk.side)' \cap Readers : reader'[r].mark >= k
    BY <1>1, <1>3, <2>1 DEF Checkpointed, Reading
  <2>7. Checkpointed(disk, k, Readers)'
    BY <1>1, <1>2, <2>3, <2>4, <2>5, <2>6 DEF Checkpointed
  <2> QED BY <2>7
<1>6. \A r \in Readers : Connected(r)' => Sound(disk, r)'
  <2> TAKE r \in Readers
  <2> HAVE Connected(r)'
  <2>1. Sound(d, r) /\ reader[r].side \in Sides /\ reader[r].mark \in Nat
    BY <1>3, ConnectionParts DEF FilesInv, Connected
  <2>2. CASE reader[r].side # d.side
    <3>1. /\ disk'.file[reader[r].file] = d.file[reader[r].file]
          /\ disk'.wal[reader[r].side] = d.wal[reader[r].side]
      BY <1>1, <2>1, <2>2
    <3>2. /\ \A n : View(disk', reader[r].file, reader[r].side, n)
                      = View(d, reader[r].file, reader[r].side, n)
          /\ Whole(disk', reader[r].file, reader[r].side)
               = Whole(d, reader[r].file, reader[r].side)
      BY <3>1, SameView
    <3>3. reader'[r].stray = reader[r].stray
      BY <1>3, <2>2 DEF Strays, Typed, Connections
    <3>4. OnNamed(disk, r)'
      BY <1>1, <1>3, <1>4, <2>1, <2>2, <3>1, <3>3 DEF Sound, OnNamed
    <3>5. SeesPast(disk, r)'
      <4> SUFFICES ASSUME ~reader[r].stray
                   PROVE  SeesPast(disk, r)'
        BY <3>3 DEF SeesPast
      <4>1. SeesPast(d, r)
        BY <2>1 DEF Sound
      <4> QED BY <1>1, <1>3, <1>4, <2>2, <3>2, <4>1 DEF SeesPast
    <3> QED BY <1>3, <2>1, <3>1, <3>4, <3>5 DEF Sound
  <2>3. CASE reader[r].side = d.side
    <3>1. reader[r].at = "reading" => reader[r].mark \in 0 .. Len(w)
      BY <1>1, <2>1, <2>3 DEF Sound
    <3>2. OnNamed(disk, r)'
      BY <1>1, <1>3, <2>3 DEF OnNamed
    <3>3. SeesPast(disk, r)'
      <4> SUFFICES ASSUME ~reader'[r].stray
                   PROVE  SeesPast(disk, r)'
        BY DEF SeesPast
      <4>1. reader[r].file = d.name /\ ~reader[r].stray
        BY <1>3, <2>3 DEF Strays
      <4>2. reader[r].at = "reading" =>
              /\ View(d, d.name, d.side, reader[r].mark) \in past
              /\ View(d, d.name, d.side, reader[r].mark)["rows"] = reader[r].rows
        BY <2>1, <2>3, <4>1 DEF Sound, SeesPast
      <4>3. reader[r].at = "reading" =>
              View(disk', d.name, d.side, reader[r].mark) = View(d, d.name, d.side, reader[r].mark)
        BY <1>2, <3>1
      <4> QED BY <1>1, <1>2, <1>3, <1>4, <2>3, <4>1, <4>2, <4>3 DEF SeesPast
    <3>4. reader'[r].at = "reading" => reader'[r].mark <= Len(disk'.wal[reader'[r].side])
      BY <1>1, <1>2, <1>3, <2>3, <3>1, SMTT(30)
    <3> QED BY <3>2, <3>3, <3>4 DEF Sound
  <2> QED BY <2>2, <2>3
<1>7. ~split' => FreshView(disk') = truth'
  <2> SUFFICES ASSUME ~split
               PROVE  FreshView(disk') = truth'
    BY <1>4
  <2>1. FreshView(d) = truth
    BY DEF FilesInv
  <2>2. \A p \in Pages : FreshView(disk')[p] = truth'[p]
    BY <1>2, <2>1 DEF Committed
  <2>3. DOMAIN FreshView(disk') = Pages /\ FreshView(disk') = [p \in Pages |-> FreshView(disk')[p]]
    BY <1>2 DEF Contents
  <2>4. truth' = [p \in Pages |-> truth'[p]]
    BY DEF Committed
  <2> QED BY <2>2, <2>3, <2>4
<1>8. disk'.file[disk'.name] \in past'
  BY <1>1, <1>4 DEF FilesInv
<1>9. Replaced(disk)'
  BY DEF Replaced, Committed
<1> QED BY <1>1, <1>5, <1>6, <1>7, <1>8, <1>9 DEF FilesInv

LEMMA CommitKeeps ==
    ASSUME Typed, version \in Nat, FilesInv(disk, Readers),
           NEW pages \in SUBSET Pages, WriterCommit(pages)
    PROVE  /\ FilesInv(disk, Readers)' /\ disk'.name = disk.name
           /\ job'.side \in Sides /\ job'.side = disk'.side
           /\ FreshView(disk') \in Contents
           /\ \A p \in Pages : FreshView(disk')[p].at = version' \/ FreshView(disk')[p] = FreshView(disk)[p]
<1> DEFINE d == Connect(disk)
           old == FreshView(d)
           frame == [p \in pages |-> Value(version + 1, old[p].legacy)]
<1>1. /\ FilesInv(d, Readers) /\ old = FreshView(disk)
      /\ d \in Disks /\ d.name = disk.name /\ d.side \in Sides
  BY ConnectKeeps
<1>2. old \in Contents
  BY <1>1, DiskParts, WholeSeen DEF FreshView
<1>3. job' = [Idle EXCEPT !.role = "writer", !.pc = "written", !.side = d.side]
  BY DEF WriterCommit
<1>4. job'.side = d.side
  BY <1>3 DEF Idle
<1>5. CASE pages = {}
  <2>1. /\ disk' = d /\ past' = past \cup {old} /\ reader' = reader /\ split' = split
        /\ undurable' = undurable /\ truth' = [p \in Pages |-> truth[p]]
    BY <1>5 DEF WriterCommit
  <2>2. truth' = truth
    BY <2>1 DEF Typed, Contents
  <2>3. \A q \in Readers : GoesOn(q, Readers)
    BY <2>1 DEF GoesOn
  <2> HIDE DEF d, old
  <2>4. FilesInv(disk', Readers)
    BY <1>1, <2>1
  <2>5. FilesInv(disk, Readers)'
    BY <2>1, <2>2, <2>3, <2>4, Remaining
  <2> QED BY <1>1, <1>2, <1>4, <2>1, <2>5 DEF old
<1>6. CASE pages # {}
  <2>1. /\ disk' = [d EXCEPT !.wal[d.side] = Append(@, frame)]
        /\ past' = past \cup {FreshView(disk')} /\ split' = split /\ undurable' = None
        /\ truth' = [p \in Pages |-> IF p \in pages THEN frame[p] ELSE truth[p]]
        /\ reader' = [r \in Readers |-> [reader[r] EXCEPT !.stray = @ \/ r \in Strays(d.side)]]
        /\ version' = version + 1
    BY <1>6 DEF WriterCommit
  <2>2. \A p \in pages : Value(version + 1, old[p].legacy) \in Values
    BY <1>2 DEF Value, Values, Contents
  <2>3. frame \in [pages -> Values] /\ DOMAIN frame = pages
    BY <2>2
  <2>4. frame \in Frames
    BY <2>3 DEF Frames
  <2>5. \A p \in pages : frame[p].at = version + 1
    BY DEF Value
  <2> HIDE DEF d, frame, old
  <2>6. Appended(d, disk', frame)
    <3>1. d.wal \in [Sides -> Seq(Frames)]
      BY <1>1 DEF Disks
    <3>2. Append(d.wal[d.side], frame) \in Seq(Frames)
      BY <1>1, <2>4, <3>1
    <3>3. disk' = [d EXCEPT !.wal = [d.wal EXCEPT ![d.side] = Append(d.wal[d.side], frame)]]
      BY <1>1, <2>1 DEF Disks
    <3>4. [d.wal EXCEPT ![d.side] = Append(d.wal[d.side], frame)] \in [Sides -> Seq(Frames)]
      BY <3>1, <3>2
    <3>5. /\ disk' \in Disks /\ disk'.name = d.name /\ disk'.side = d.side /\ disk'.file = d.file
          /\ disk'.wal = [d.wal EXCEPT ![d.side] = Append(d.wal[d.side], frame)]
      BY <1>1, <3>3, <3>4 DEF Disks
    <3>6. /\ disk'.wal[d.side] = Append(d.wal[d.side], frame)
          /\ \A s \in Sides : s # d.side => disk'.wal[s] = d.wal[s]
      BY <1>1, <3>1, <3>5
    <3> QED BY <3>5, <3>6 DEF Appended
  <2>7. truth' = [p \in Pages |-> IF p \in DOMAIN frame THEN frame[p] ELSE truth[p]]
    BY <2>1, <2>3
  <2>8. FilesInv(disk, Readers)'
    BY <1>1, <2>1, <2>4, <2>6, <2>7, AppendKeeps DEF Committed
  <2>9. /\ FreshView(disk') \in Contents
        /\ \A p \in Pages : FreshView(disk')[p] = IF p \in DOMAIN frame THEN frame[p]
                                                  ELSE FreshView(d)[p]
    BY <1>1, <2>4, <2>6, AppendedView
  <2>10. disk'.name = d.name /\ disk'.side = d.side
    BY <2>6 DEF Appended
  <2> QED BY <1>1, <1>4, <2>1, <2>3, <2>5, <2>8, <2>9, <2>10 DEF old
<1> QED BY <1>5, <1>6

(* What a power loss may bring back is what was there when it was replaced. *)
LEMMA PowerLossKeeps ==
    ASSUME Typed, FilesInv(disk, Readers), PowerLoss
    PROVE  /\ FilesInv(disk, Readers)'
           /\ LogEmpty(disk) => LogEmpty(disk)'
           /\ \/ disk' = disk /\ staged' = staged
              \/ /\ undurable # None /\ disk'.name = undurable.name
                 /\ disk'.side = disk.side
                 /\ staged' = [staged EXCEPT !.copy = undurable.copy]
<1>1. /\ reader' = [r \in Readers |-> Closed] /\ undurable' = None /\ past' = past
      /\ split' = split
  BY DEF PowerLoss
<1>2. \A r \in Readers : reader'[r].side = NoSide
  BY <1>1 DEF Closed
<1>3. CASE UNCHANGED <<disk, staged, truth>>
  <2>1. \A q \in Readers : GoesOn(q, Readers)
    BY <1>2 DEF GoesOn
  <2>2. FilesInv(disk', Readers) /\ truth' = truth /\ disk' = disk /\ staged' = staged
    BY <1>3
  <2>3. FilesInv(disk, Readers)'
    BY <1>1, <2>1, <2>2, Remaining
  <2> QED BY <2>2, <2>3 DEF LogEmpty
<1>4. CASE /\ undurable # None
           /\ disk' = [disk EXCEPT !.name = undurable.name]
           /\ staged' = [staged EXCEPT !.copy = undurable.copy]
           /\ truth' = undurable.truth
  <2>1. /\ LogEmpty(disk) /\ undurable.name \in Inodes
        /\ disk.file[undurable.name] \in past
        /\ ~split => disk.file[undurable.name] = undurable.truth
    BY <1>4 DEF FilesInv, Replaced, Typed
  <2>2. /\ disk' \in Disks /\ disk'.name = undurable.name /\ disk'.side = disk.side
        /\ disk'.wal = disk.wal /\ disk'.file = disk.file
    BY <1>4, <2>1 DEF FilesInv, Disks
  <2>3. disk.side # NoSide => disk'.wal[disk'.side] = <<>>
    BY <2>1, <2>2 DEF LogEmpty
  <2>4. disk'.side \in Sides \cup {NoSide}
    BY <2>2, DiskParts
  <2>5. FreshView(disk') = disk'.file[disk'.name]
    <3>1. disk' \in Disks /\ disk'.name \in Inodes
      BY <2>1, <2>2
    <3>2. disk'.side # NoSide => disk'.wal[disk'.side] = <<>>
      BY <2>2, <2>3
    <3> QED BY <2>4, <3>1, <3>2, WholeEmpty DEF FreshView
  <2>6. disk'.side # NoSide => \E k \in Nat : Checkpointed(disk, k, Readers)'
    <3> HAVE disk'.side # NoSide
    <3>1. /\ disk' \in Disks /\ disk'.side \in Sides /\ disk'.wal[disk'.side] = <<>>
          /\ disk'.file[disk'.name] \in past
      BY <2>1, <2>2, <2>3, <2>4
    <3>2. Checkpointed(disk', 0, Readers)
      BY <3>1, CheckpointedEmpty
    <3>3. Reading(disk.side)' = {}
      BY <1>1 DEF Reading, Closed
    <3>4. Checkpointed(disk, 0, Readers)'
      BY <1>1, <3>2, <3>3 DEF Checkpointed
    <3> QED BY <3>4
  <2>7. \A r \in Readers : ~Connected(r)'
    BY <1>2 DEF Connected
  <2>8. Replaced(disk)'
    BY <1>1 DEF Replaced
  <2>9. disk'.file[disk'.name] \in past' /\ (~split' => FreshView(disk') = truth')
    BY <1>1, <1>4, <2>1, <2>2, <2>5
  <2>10. FilesInv(disk, Readers)'
    BY <2>2, <2>6, <2>7, <2>8, <2>9 DEF FilesInv
  <2> QED BY <1>4, <2>2, <2>3, <2>10 DEF LogEmpty
<1> QED BY <1>3, <1>4 DEF PowerLoss

-----------------------------------------------------------------------------
(* The steps that rename nothing.                                          *)

LEMMA TypeIsTyped ==
    ASSUME TypeOK
    PROVE  /\ Typed /\ version \in Nat /\ MaxVersions \in Nat
           /\ staged.copy \in Contents \cup {None} /\ staged.source \in Contents \cup {None}
BY SwapAssumption DEF TypeOK, Typed, None

\* A connection that is open is to a file that it was to before, or to the named one.
Followed ==
    \A r \in Readers : reader'[r].at # "closed" =>
        \/ reader[r].at # "closed" /\ reader'[r].file = reader[r].file
        \/ reader'[r].file = disk.name

\* What a step does that commits and renames nothing.
Uneventful ==
    /\ Kept
    /\ past' = past /\ truth' = truth /\ split' \in BOOLEAN /\ faults' \in Nat
    /\ version' \in 0 .. MaxVersions /\ version <= version'
    /\ undurable' = undurable \/ undurable' = None
    /\ reader' \in [Readers -> Connections] /\ Followed /\ ReaderInv'
    /\ job' \in Jobs
    /\ staged' \in [copy : Contents \cup {None}, source : Contents \cup {None}]

LEMMA UnusedStays ==
    ASSUME TypeOK, Uneventful, NEW i, Unused(i)
    PROVE  Unused(i)'
<1>1. i \in Nat /\ version \in Nat /\ version' \in Nat
  BY SwapAssumption DEF TypeOK, Unused, Inodes, Uneventful
<1>2. i <= version'
  BY <1>1 DEF Unused, Uneventful
<1>3. i # disk'.name
  BY DEF Unused, Uneventful, Kept
<1>4. \A r \in Readers : reader'[r].at # "closed" => reader'[r].file # i
  BY DEF Unused, Uneventful, Followed
<1>5. undurable' # None => undurable'.name # i
  BY DEF Unused, Uneventful
<1> QED BY <1>2, <1>3, <1>4, <1>5 DEF Unused

LEMMA UneventfulKeeps ==
    ASSUME TypeOK, Inv, Uneventful
    PROVE  /\ TypeOK' /\ FilesInv(disk, Readers)' /\ ReaderInv' /\ VersionInv'
           /\ staged' = staged \/ staged' = NoStage => StagedInv' /\ CopyInv'
<1>1. /\ version \in Nat /\ version' \in Nat /\ version <= version'
      /\ MaxVersions \in Nat
  BY SwapAssumption DEF TypeOK, Uneventful
<1>2. TypeOK'
  <2>1. disk' \in Disks
    BY DEF Uneventful, Kept, FilesInv
  <2>2. undurable' \in [name : Inodes, truth : Contents, copy : Contents \cup {None}] \cup {None}
    BY DEF TypeOK, Uneventful
  <2>3. truth' \in Contents /\ past' \subseteq Contents
    BY DEF TypeOK, Uneventful
  <2> QED BY <2>1, <2>2, <2>3 DEF TypeOK, Uneventful
<1>3. VersionInv'
  <2>1. \A v \in past' : v["vectors"].at <= version'
    <3> TAKE v \in past'
    <3>1. v["vectors"].at <= version /\ v["vectors"].at \in Nat
      BY DEF Inv, VersionInv, TypeOK, Uneventful, Contents, Pages, Values
    <3> QED BY <1>1, <3>1
  <2>2. disk'.name <= version'
    <3>1. disk.name \in Nat /\ disk.name <= version
      BY DEF Inv, VersionInv, TypeOK, Disks, Inodes
    <3> QED BY <1>1, <3>1 DEF Uneventful, Kept
  <2>3. \A r \in Readers : reader'[r].at # "closed" => reader'[r].file <= version'
    <3> TAKE r \in Readers
    <3> HAVE reader'[r].at # "closed"
    <3>1. reader'[r].file \in Nat
      BY DEF Uneventful, Connections, Inodes
    <3>2. reader'[r].file <= version
      BY DEF Inv, VersionInv, Uneventful, Followed
    <3> QED BY <1>1, <3>1, <3>2
  <2>4. undurable' # None => undurable'.name <= version'
    <3> HAVE undurable' # None
    <3>1. undurable' = undurable /\ undurable.name \in Nat /\ undurable.name <= version
      BY DEF Inv, VersionInv, Uneventful, TypeOK, Inodes
    <3> QED BY <1>1, <3>1
  <2> QED BY <2>1, <2>2, <2>3, <2>4 DEF VersionInv
<1>4. ASSUME staged' = staged \/ staged' = NoStage
      PROVE  StagedInv'
  <2> SUFFICES ASSUME staged'.copy # None
               PROVE  StagedInv'
    BY DEF StagedInv
  <2>1. staged' = staged
    BY <1>4 DEF NoStage
  <2>2. PICK i : i = staged.copy["vectors"].at
    OBVIOUS
  <2>3. StagedInv /\ Unused(i)
    BY <2>1, <2>2 DEF Inv, StagedInv
  <2>4. Unused(i)'
    BY <2>3, UnusedStays
  <2> QED BY <2>1, <2>2, <2>3, <2>4 DEF StagedInv
<1>5. ASSUME staged' = staged \/ staged' = NoStage
      PROVE  CopyInv'
  <2> SUFFICES ASSUME undurable' # None, undurable'.copy # None
               PROVE  CopyInv'
    BY DEF CopyInv
  <2>1. undurable' = undurable
    BY DEF Uneventful
  <2>2. CopyInv
    BY DEF Inv
  <2>3. undurable.copy["vectors"].at \in Nat
    BY <2>1, <2>2 DEF CopyInv, Inodes
  <2>4. undurable.copy["vectors"].at <= version'
    BY <1>1, <2>1, <2>2, <2>3 DEF CopyInv
  <2>5. staged'.source # None => staged' = staged
    BY <1>5 DEF NoStage
  <2> QED BY <2>1, <2>2, <2>4, <2>5 DEF CopyInv
<1> QED BY <1>2, <1>3, <1>4, <1>5 DEF Uneventful, Kept

(* A process that goes on, or that gives up the lock. *)
LEMMA SameJob ==
    ASSUME TypeOK, Inv, Uneventful, job' = job, staged' = staged
    PROVE  TypeOK' /\ Inv'
<1>1. /\ TypeOK' /\ FilesInv(disk, Readers)' /\ ReaderInv' /\ VersionInv'
      /\ StagedInv' /\ CopyInv'
  BY UneventfulKeeps
<1>2. LockInv'
  <2>1. Placed'
    BY DEF Uneventful, Kept, Placed
  <2>2. Drains' => LogEmpty(disk)'
    BY DEF Inv, LockInv, Drains, Uneventful, Kept
  <2> QED BY <2>1, <2>2 DEF Inv, LockInv
<1>3. RebuildInv'
  <2> SUFFICES ASSUME job.role = "rebuild", job.pc \in {"checkpoint", "verify", "rename"}
               PROVE  RebuildInv'
    BY DEF RebuildInv
  <2>1. RebuildInv /\ Unused(job.content["rows"].at)
    BY DEF Inv, RebuildInv
  <2>2. Unused(job.content["rows"].at)'
    BY <2>1, UnusedStays
  <2>3. job.content["vectors"].at <= version'
    <3>1. job.content \in Contents
      BY <2>1 DEF TypeOK, Jobs, RebuildInv
    <3>2. job.content["vectors"].at \in Nat /\ version \in Nat /\ version' \in Nat
      BY <3>1, SwapAssumption DEF Contents, Pages, Values, TypeOK, Uneventful
    <3> QED BY <2>1, <3>2 DEF RebuildInv, Uneventful
  <2> QED BY <2>1, <2>2, <2>3 DEF RebuildInv
<1>4. MigrationInv'
  BY DEF Inv, MigrationInv, Holds, Uneventful
<1> QED BY <1>1, <1>2, <1>3, <1>4 DEF Inv

LEMMA IdleHolds ==
    ASSUME job' = Idle
    PROVE  LockInv' /\ RebuildInv' /\ MigrationInv'
<1>1. job'.role = "none" /\ job'.side = NoSide
  BY DEF Idle
<1> QED BY <1>1 DEF LockInv, Placed, Drains, RebuildInv, MigrationInv, Holds

LEMMA IdleJob ==
    ASSUME TypeOK, Inv, Uneventful, job' = Idle, staged' = staged \/ staged' = NoStage
    PROVE  TypeOK' /\ Inv'
BY UneventfulKeeps, IdleHolds DEF Inv

LEMMA IdleType == Idle \in Jobs
BY DEF Idle, Jobs

\* What the steps of the process with the lock leave alone, when they commit nothing.
OnlyFiles ==
    /\ reader' = reader /\ split' = split /\ past' = past /\ truth' = truth
    /\ undurable' = undurable \/ undurable' = None
    /\ version' = version \/ (version < MaxVersions /\ version' = version + 1)
    /\ faults' \in Nat

LEMMA OnlyFilesIsUneventful ==
    ASSUME TypeOK, Inv, OnlyFiles, FilesInv(disk', Readers), disk'.name = disk.name,
           LogEmpty(disk) => LogEmpty(disk'), job'.side # NoSide => job'.side = disk'.side,
           job' \in Jobs, staged' \in [copy : Contents \cup {None}, source : Contents \cup {None}]
    PROVE  Uneventful
<1>1. Kept
  BY QuietStep DEF OnlyFiles
<1>2. version' \in 0 .. MaxVersions /\ version <= version'
  BY SwapAssumption DEF OnlyFiles, TypeOK
<1>3. Followed
  BY DEF Followed, OnlyFiles
<1>4. ReaderInv'
  BY DEF Inv, ReaderInv, OnlyFiles, Connected
<1> QED BY <1>1, <1>2, <1>3, <1>4 DEF Uneventful, OnlyFiles, TypeOK

-----------------------------------------------------------------------------
(* The steps of readers and writers.                                       *)

LEMMA ReaderSteps ==
    ASSUME TypeOK, Inv, NEW r \in Readers,
           ReaderOpen(r) \/ ReaderBegin(r) \/ ReaderEnd(r) \/ ReaderClose(r) \/ KillReader(r)
    PROVE  TypeOK' /\ Inv'
<1>1. /\ Typed /\ FilesInv(disk, Readers) /\ Placed /\ ReaderInv
      /\ reader \in [Readers -> Connections] /\ disk.name \in Inodes /\ version \in Nat
  <2>1. disk \in Disks
    BY DEF TypeOK
  <2> QED BY <2>1, TypeIsTyped, DiskParts DEF Inv, LockInv, TypeOK
<1>2. /\ job' = job /\ staged' = staged /\ undurable' = undurable /\ version' = version
      /\ past' = past /\ truth' = truth /\ split' = split /\ faults' \in Nat
  <2>0. faults \in Nat
    BY DEF TypeOK
  <2>1. CASE ReaderOpen(r) \/ ReaderEnd(r)
    BY <2>0, <2>1 DEF ReaderOpen, ReaderEnd, Untouched
  <2>2. CASE ReaderBegin(r)
    BY <2>0, <2>2 DEF ReaderBegin, Untouched
  <2>3. CASE ReaderClose(r)
    BY <2>0, <2>3 DEF ReaderClose, Untouched
  <2>4. CASE KillReader(r)
    BY <2>0, <2>4 DEF KillReader
  <2> QED BY <2>1, <2>2, <2>3, <2>4
<1>3. Closed \in Connections /\ Closed.at = "closed" /\ Closed.side = NoSide
  BY SwapAssumption DEF Closed, Connections, Value, Values, Inodes, NoSide
<1>4. Kept
  <2>1. CASE ReaderBegin(r)
    BY <1>1, <2>1, BeginKeeps
  <2>2. CASE ReaderOpen(r) \/ ReaderEnd(r) \/ ReaderClose(r) \/ KillReader(r)
    BY <1>1, <2>2, ReaderStepsKeep
  <2> QED BY <2>1, <2>2
<1>5. reader' \in [Readers -> Connections] /\ Followed /\ ReaderInv'
  <2>1. CASE ReaderOpen(r)
    <3>1. reader' = [reader EXCEPT ![r] = [Closed EXCEPT !.at = "opened", !.file = disk.name]]
      BY <2>1 DEF ReaderOpen
    <3>2. [Closed EXCEPT !.at = "opened", !.file = disk.name] \in Connections
      BY <1>1, <1>3 DEF Connections
    <3>3. reader'[r].at = "opened" /\ reader'[r].side = NoSide /\ reader'[r].file = disk.name
      BY <1>1, <1>3, <3>1 DEF Closed
    <3>4. \A q \in Readers : q # r => reader'[q] = reader[q]
      BY <1>1, <3>1
    <3>5. reader' \in [Readers -> Connections]
      BY <1>1, <3>1, <3>2
    <3> QED BY <1>1, <3>3, <3>4, <3>5 DEF Followed, ReaderInv, Connected
  <2>2. CASE ReaderBegin(r)
    <3>1. reader' \in [Readers -> Connections] /\ Connected(r)'
      BY <1>1, <2>2, BeginKeeps
    <3>2. /\ reader'[r].at = "reading" /\ reader'[r].file = reader[r].file
          /\ reader[r].at # "closed"
          /\ \A q \in Readers : q # r => reader'[q] = reader[q]
      BY <1>1, <2>2 DEF ReaderBegin, Connections
    <3> QED BY <1>1, <3>1, <3>2 DEF Followed, ReaderInv, Connected
  <2>3. CASE ReaderEnd(r)
    <3>1. reader' = [reader EXCEPT ![r].at = "idle", ![r].mark = 0,
                                   ![r].rows = Value(0, FALSE)]
          /\ reader[r].at = "reading"
      BY <2>3 DEF ReaderEnd
    <3>2. Value(0, FALSE) \in Values
      BY DEF Value, Values
    <3>3. /\ reader'[r].at = "idle" /\ reader'[r].side = reader[r].side
          /\ reader'[r].file = reader[r].file
          /\ \A q \in Readers : q # r => reader'[q] = reader[q]
      BY <1>1, <3>1 DEF Connections
    <3>4. reader' \in [Readers -> Connections]
      <4>1. reader' = [reader EXCEPT ![r] = [reader[r] EXCEPT !.at = "idle", !.mark = 0,
                                                              !.rows = Value(0, FALSE)]]
        BY <1>1, <3>1 DEF Connections
      <4>2. reader[r] \in Connections
        BY <1>1
      <4>3. [reader[r] EXCEPT !.at = "idle", !.mark = 0, !.rows = Value(0, FALSE)] \in Connections
        BY <3>2, <4>2 DEF Connections
      <4> QED BY <1>1, <4>1, <4>3
    <3> QED BY <1>1, <3>1, <3>3, <3>4 DEF Followed, ReaderInv, Connected
  <2>4. CASE ReaderClose(r) \/ KillReader(r)
    <3>1. reader' = [reader EXCEPT ![r] = Closed]
      BY <2>4 DEF ReaderClose, KillReader
    <3>2. reader' \in [Readers -> Connections]
      BY <1>1, <1>3, <3>1
    <3>3. /\ reader'[r].at = "closed" /\ reader'[r].side = NoSide
          /\ \A q \in Readers : q # r => reader'[q] = reader[q]
      BY <1>1, <1>3, <3>1
    <3> QED BY <1>1, <3>2, <3>3 DEF Followed, ReaderInv, Connected
  <2> QED BY <2>1, <2>2, <2>3, <2>4
<1>6. Uneventful
  BY <1>1, <1>2, <1>4, <1>5 DEF Uneventful, TypeOK
<1> QED BY <1>2, <1>6, SameJob

LEMMA CommitSteps ==
    ASSUME TypeOK, Inv, NEW pages \in SUBSET Pages, WriterCommit(pages)
    PROVE  TypeOK' /\ Inv'
<1> DEFINE d == Connect(disk)
<1>1. /\ Typed /\ FilesInv(disk, Readers) /\ version \in Nat /\ MaxVersions \in Nat
      /\ reader \in [Readers -> Connections]
  BY TypeIsTyped DEF Inv, TypeOK
<1>2. /\ FilesInv(disk, Readers)' /\ disk'.name = disk.name
      /\ job'.side \in Sides /\ job'.side = disk'.side
      /\ FreshView(disk') \in Contents
      /\ \A p \in Pages : FreshView(disk')[p].at = version'
                          \/ FreshView(disk')[p] = FreshView(disk)[p]
  BY <1>1, CommitKeeps
<1>3. /\ staged' = staged /\ split' = split /\ faults' = faults
      /\ undurable' = undurable \/ undurable' = None
      /\ version' = version \/ (version < MaxVersions /\ version' = version + 1)
      /\ past' = past \cup {FreshView(disk')}
  BY DEF WriterCommit
<1>4. /\ job' = [Idle EXCEPT !.role = "writer", !.pc = "written", !.side = d.side]
      /\ job'.role = "writer"
  BY DEF WriterCommit, Idle
<1>5. version' \in 0 .. MaxVersions /\ version <= version' /\ version' \in Nat
  BY <1>1, <1>3 DEF TypeOK
<1>6. /\ reader' \in [Readers -> Connections]
      /\ \A r \in Readers : /\ reader'[r].at = reader[r].at /\ reader'[r].side = reader[r].side
                            /\ reader'[r].file = reader[r].file
  <2>1. CASE reader' = reader
    BY <1>1, <2>1
  <2>2. CASE reader' = [r \in Readers |-> [reader[r] EXCEPT !.stray = @ \/ r \in Strays(d.side)]]
    <3>1. \A r \in Readers : (reader[r].stray \/ r \in Strays(d.side)) \in BOOLEAN
      OBVIOUS
    <3>2. \A r \in Readers :
             [reader[r] EXCEPT !.stray = (reader[r].stray \/ r \in Strays(d.side))] \in Connections
      BY <1>1, <3>1 DEF Connections
    <3> QED BY <1>1, <2>2, <3>2 DEF Connections
  <2> QED BY <2>1, <2>2 DEF WriterCommit
<1>7. TypeOK'
  <2>1. disk' \in Disks
    BY <1>2 DEF FilesInv
  <2>2. job' \in Jobs
    <3>1. d.side \in Sides
      BY <1>1, ConnectKeeps
    <3>2. Idle \in Jobs
      BY IdleType
    <3> HIDE DEF d
    <3> QED BY <1>4, <3>1, <3>2 DEF Jobs
  <2>3. undurable' \in [name : Inodes, truth : Contents, copy : Contents \cup {None}] \cup {None}
    BY <1>3 DEF TypeOK
  <2>4. truth' \in Contents
    <3>1. ASSUME NEW p \in Pages
          PROVE  truth'[p] \in Values
      <4>1. FreshView(d) = FreshView(disk) /\ FilesInv(d, Readers)
        BY <1>1, ConnectKeeps
      <4>2. FreshView(disk) \in past
        BY <1>1, FreshIsPast
      <4>3. FreshView(d)[p].legacy \in BOOLEAN
        BY <4>1, <4>2 DEF TypeOK, Contents, Values
      <4>4. Value(version + 1, FreshView(d)[p].legacy) \in Values
        BY <1>1, <4>3 DEF Value, Values
      <4>5. truth[p] \in Values
        BY DEF TypeOK, Contents
      <4>6. truth' = [q \in Pages |-> IF q \in pages
                                      THEN [o \in pages |-> Value(version + 1, FreshView(d)[o].legacy)][q]
                                      ELSE truth[q]]
        BY DEF WriterCommit
      <4> HIDE DEF d
      <4> QED BY <4>4, <4>5, <4>6
    <3>2. truth' = [p \in Pages |-> truth'[p]]
      BY DEF WriterCommit
    <3> QED BY <3>1, <3>2 DEF Contents
  <2>5. past' \subseteq Contents
    BY <1>2, <1>3 DEF TypeOK
  <2> QED BY <1>3, <1>5, <1>6, <2>1, <2>2, <2>3, <2>4, <2>5 DEF TypeOK
<1>8. ReaderInv'
  BY <1>6 DEF Inv, ReaderInv, Connected
<1>9. ASSUME NEW i, Unused(i)
      PROVE  Unused(i)'
  <2>1. i \in Nat /\ i <= version'
    BY <1>1, <1>5, <1>9 DEF Unused, Inodes
  <2> QED BY <1>2, <1>3, <1>6, <1>9, <2>1 DEF Unused
<1>10. VersionInv'
  <2>1. \A v \in past' : v["vectors"].at <= version'
    <3> TAKE v \in past'
    <3>1. ASSUME NEW u \in past
          PROVE  u["vectors"].at <= version'
      <4>1. u["vectors"].at <= version /\ u["vectors"].at \in Nat
        BY DEF Inv, VersionInv, TypeOK, Contents, Pages, Values
      <4> QED BY <1>1, <1>5, <4>1
    <3>2. FreshView(disk)["vectors"].at <= version'
      BY <1>1, <3>1, FreshIsPast
    <3>3. "vectors" \in Pages
      BY DEF Pages
    <3>4. FreshView(disk')["vectors"].at <= version'
      BY <1>2, <1>5, <3>2, <3>3
    <3> QED BY <1>3, <3>1, <3>4
  <2>2. disk'.name <= version'
    <3>1. disk.name \in Nat /\ disk.name <= version
      BY DEF Inv, VersionInv, TypeOK, Disks, Inodes
    <3> QED BY <1>1, <1>2, <1>5, <3>1
  <2>3. \A r \in Readers : reader'[r].at # "closed" => reader'[r].file <= version'
    <3> TAKE r \in Readers
    <3> HAVE reader'[r].at # "closed"
    <3>1. reader[r].file \in Nat /\ reader[r].file <= version
      BY <1>1, <1>6 DEF Inv, VersionInv, Connections, Inodes
    <3> QED BY <1>1, <1>5, <1>6, <3>1
  <2>4. undurable' # None => undurable'.name <= version'
    <3> HAVE undurable' # None
    <3>1. undurable' = undurable /\ undurable.name \in Nat /\ undurable.name <= version
      BY <1>3 DEF Inv, VersionInv, TypeOK, Inodes
    <3> QED BY <1>1, <1>5, <3>1
  <2> QED BY <2>1, <2>2, <2>3, <2>4 DEF VersionInv
<1>11. LockInv' /\ RebuildInv' /\ MigrationInv'
  BY <1>2, <1>4, SidesAre DEF LockInv, Placed, Drains, RebuildInv, MigrationInv, Holds
<1>12. StagedInv'
  <2>1. staged.copy # None => Unused(staged.copy["vectors"].at)'
    BY <1>3, <1>9 DEF Inv, StagedInv
  <2> QED BY <1>3, <2>1 DEF Inv, StagedInv
<1>13. CopyInv'
  <2> SUFFICES ASSUME undurable' # None, undurable'.copy # None
               PROVE  CopyInv'
    BY DEF CopyInv
  <2>1. undurable' = undurable /\ CopyInv
    BY <1>3 DEF Inv
  <2>2. undurable.copy["vectors"].at \in Nat
    BY <2>1 DEF CopyInv, Inodes
  <2>3. undurable.copy["vectors"].at <= version'
    BY <1>1, <1>5, <2>1, <2>2 DEF CopyInv
  <2> QED BY <1>3, <2>1, <2>3 DEF CopyInv
<1> QED BY <1>2, <1>7, <1>8, <1>10, <1>11, <1>12, <1>13 DEF Inv

LEMMA WriterSteps ==
    ASSUME TypeOK, Inv,
           AutoCheckpoint \/ WriterClose \/ WriterCloseDeferred
              \/ \E passive \in BOOLEAN : DrainWal(passive)
    PROVE  TypeOK' /\ Inv'
<1>1. /\ Typed /\ FilesInv(disk, Readers) /\ LockInv
      /\ job \in Jobs /\ staged \in [copy : Contents \cup {None}, source : Contents \cup {None}]
  BY TypeIsTyped DEF Inv, TypeOK
<1>2. OnlyFiles /\ staged' = staged
  BY DEF OnlyFiles, AutoCheckpoint, WriterClose, WriterCloseDeferred, DrainWal, Untouched, TypeOK
<1>3. Idle \in Jobs /\ Idle.side = NoSide
  BY IdleType DEF Idle
<1>4. CASE AutoCheckpoint
  <2>1. /\ disk' = Passive(disk, disk.side) /\ disk.side \in Sides /\ job' = job
        /\ job.side = disk.side
    <3>1. job.side # NoSide /\ job.side = disk.side
      BY <1>1, <1>4 DEF AutoCheckpoint, Holds, LockInv, Placed
    <3>2. disk \in Disks
      BY DEF TypeOK
    <3> QED BY <1>4, <3>1, <3>2, DiskParts DEF AutoCheckpoint
  <2>2. /\ FilesInv(disk', Readers) /\ disk'.name = disk.name /\ disk'.side = disk.side
        /\ LogEmpty(disk) => LogEmpty(disk')
    BY <1>1, <2>1, PassiveKeeps
  <2>3. Uneventful
    BY <1>1, <1>2, <2>1, <2>2, OnlyFilesIsUneventful
  <2> QED BY <1>2, <2>1, <2>3, SameJob
<1>5. CASE WriterClose
  <2>1. disk' = CloseJob(disk, job.side) /\ job' = Idle /\ (job.side = NoSide \/ job.side = disk.side)
    BY <1>1, <1>5 DEF WriterClose, LockInv, Placed
  <2>2. /\ FilesInv(disk', Readers) /\ disk'.name = disk.name
        /\ LogEmpty(disk) => LogEmpty(disk')
    BY <1>1, <2>1, CloseJobKeeps
  <2>3. Uneventful
    BY <1>1, <1>2, <1>3, <2>1, <2>2, OnlyFilesIsUneventful
  <2> QED BY <1>2, <2>1, <2>3, IdleJob
<1>6. CASE WriterCloseDeferred
  <2>1. disk' = disk /\ job' = Idle
    BY <1>6 DEF WriterCloseDeferred
  <2>2. Uneventful
    BY <1>1, <1>2, <1>3, <2>1, OnlyFilesIsUneventful
  <2> QED BY <1>2, <2>1, <2>2, IdleJob
<1>7. ASSUME NEW passive \in BOOLEAN, DrainWal(passive)
      PROVE  TypeOK' /\ Inv'
  <2>1. PICK d : d = Connect(disk)
    OBVIOUS
  <2>2. /\ job' = Idle /\ job = Idle
        /\ disk' = IF passive THEN Passive(d, d.side)
                   ELSE IF Busy(d, d.side) THEN d ELSE Truncate(d, d.side)
    BY <1>7, <2>1 DEF DrainWal
  <2>3. /\ FilesInv(d, Readers) /\ d.name = disk.name /\ d.side \in Sides
        /\ LogEmpty(disk) => LogEmpty(d)
    BY <1>1, <2>1, ConnectKeeps
  <2>4. /\ FilesInv(disk', Readers) /\ disk'.name = d.name
        /\ LogEmpty(d) => LogEmpty(disk')
    <3>1. CASE passive
      <4>1. disk' = Passive(d, d.side)
        BY <2>2, <3>1
      <4> QED BY <1>1, <2>3, <4>1, PassiveKeeps
    <3>2. CASE ~passive /\ ~Busy(d, d.side)
      <4>1. disk' = Truncate(d, d.side)
        BY <2>2, <3>2
      <4> QED BY <1>1, <2>3, <3>2, <4>1, TruncateKeeps
    <3>3. CASE ~passive /\ Busy(d, d.side)
      BY <2>2, <2>3, <3>3
    <3> QED BY <3>1, <3>2, <3>3
  <2>5. Uneventful
    BY <1>1, <1>2, <1>3, <2>2, <2>3, <2>4, OnlyFilesIsUneventful
  <2> QED BY <1>2, <2>2, <2>5, IdleJob
<1> QED BY <1>4, <1>5, <1>6, <1>7

-----------------------------------------------------------------------------
(* The steps of the rebuild and of the migration.                          *)

(* Nobody is connected to a file that nobody has opened. *)
LEMMA UnusedIsSpare ==
    ASSUME Inv, NEW i, Unused(i)
    PROVE  Spare(i)
BY DEF Inv, ReaderInv, Unused, Spare

\* What a step does that renames a file over the database.
Installs(content, i, meant) ==
    /\ Install(content, i, meant)
    /\ reader' = reader /\ split' = split /\ version' = version /\ faults' = faults
    /\ job' \in Jobs
    /\ staged' = staged \/ staged' = [staged EXCEPT !.copy = None]
    /\ staged' = staged /\ staged.copy # None => staged.copy["vectors"].at # i

LEMMA InstallStep ==
    ASSUME TypeOK, Inv, LogEmpty(disk), NEW i, Unused(i),
           NEW content \in Contents, ~content["vectors"].legacy, content["vectors"].at <= version,
           NEW meant \in Contents, ~split => content = meant, Installs(content, i, meant)
    PROVE  /\ TypeOK' /\ FilesInv(disk, Readers)' /\ LogEmpty(disk)' /\ ReaderInv'
           /\ VersionInv' /\ StagedInv' /\ CopyInv' /\ disk'.side = disk.side
<1>1. /\ Typed /\ FilesInv(disk, Readers) /\ Spare(i) /\ i \in Inodes /\ i <= version
      /\ disk \in Disks /\ disk.name \in Inodes /\ staged.copy \in Contents \cup {None}
  <2>1. disk \in Disks
    BY DEF TypeOK
  <2> QED BY <2>1, TypeIsTyped, UnusedIsSpare, DiskParts DEF Inv, Unused
<1>2. /\ undurable' = [name |-> disk.name, truth |-> truth, copy |-> staged.copy]
      /\ truth' = meant /\ past' = past \cup {content}
      /\ reader' = reader /\ split' = split /\ version' = version
  BY DEF Installs, Install
<1>3. /\ FilesInv(disk, Readers)' /\ LogEmpty(disk)'
      /\ disk'.side = disk.side /\ disk'.name = i
  BY <1>1, InstallKeeps DEF Installs
<1>4. TypeOK'
  <2>1. disk' \in Disks
    BY <1>3 DEF FilesInv
  <2>2. staged' \in [copy : Contents \cup {None}, source : Contents \cup {None}]
    BY DEF TypeOK, Installs
  <2>3. undurable' \in [name : Inodes, truth : Contents, copy : Contents \cup {None}]
    BY <1>1, <1>2 DEF TypeOK
  <2>4. past' \subseteq Contents /\ truth' \in Contents
    BY <1>2 DEF TypeOK
  <2> QED BY <1>2, <2>1, <2>2, <2>3, <2>4 DEF TypeOK, Installs
<1>5. ReaderInv'
  BY <1>2 DEF Inv, ReaderInv, Connected
<1>6. undurable' # None /\ undurable'.name = disk.name /\ undurable'.copy = staged.copy
  BY <1>2 DEF None
<1>7. VersionInv'
  <2>1. \A v \in past' : v["vectors"].at <= version'
    BY <1>2 DEF Inv, VersionInv
  <2> QED BY <1>1, <1>2, <1>3, <1>6, <2>1 DEF Inv, VersionInv
<1>8. StagedInv'
  <2> SUFFICES ASSUME staged'.copy # None
               PROVE  StagedInv'
    BY DEF StagedInv
  <2>1. staged' = staged
    BY DEF Installs, TypeOK
  <2>2. PICK j : j = staged.copy["vectors"].at
    OBVIOUS
  <2>3. j # i /\ StagedInv /\ Unused(j)
    BY <2>1, <2>2 DEF Installs, Inv, StagedInv
  <2>4. Unused(j)'
    BY <1>2, <1>3, <1>6, <2>3 DEF Unused
  <2> QED BY <2>1, <2>2, <2>3, <2>4 DEF StagedInv
<1>9. CopyInv'
  <2> SUFFICES ASSUME staged.copy # None
               PROVE  CopyInv'
    BY <1>6 DEF CopyInv
  <2>1. StagedInv /\ Unused(staged.copy["vectors"].at)
    BY DEF Inv, StagedInv
  <2>2. staged'.source = staged.source
    BY DEF Installs, TypeOK
  <2> QED BY <1>2, <1>6, <2>1, <2>2 DEF CopyInv, StagedInv, Unused
<1> QED BY <1>3, <1>4, <1>5, <1>7, <1>8, <1>9

LEMMA UnlinkIsUneventful ==
    ASSUME TypeOK, Inv, LogEmpty(disk), UnlinkSidecars, Untouched,
           job' \in Jobs, job'.side = NoSide
    PROVE  Uneventful /\ staged' = staged
<1>1. Typed /\ FilesInv(disk, Readers) /\ reader \in [Readers -> Connections]
  BY TypeIsTyped DEF Inv, TypeOK
<1>2. /\ past' = past /\ truth' = truth /\ undurable' = undurable /\ staged' = staged
      /\ version' = version /\ faults' = faults
  BY DEF Untouched
<1>3. Kept
  BY <1>1, <1>2, UnlinkKeeps
<1>4. /\ split' \in BOOLEAN /\ reader' \in [Readers -> Connections]
      /\ \A r \in Readers : /\ reader'[r].at = reader[r].at /\ reader'[r].side = reader[r].side
                            /\ reader'[r].file = reader[r].file
  <2> DEFINE users == {r \in Readers : disk.side # NoSide /\ reader[r].side = disk.side
                                         /\ reader[r].file = disk.name}
  <2>1. /\ split' = (split \/ users # {})
        /\ reader' = [r \in Readers |-> [reader[r] EXCEPT !.stray = @ \/ r \in users]]
    BY DEF UnlinkSidecars
  <2> HIDE DEF users
  <2>2. \A r \in Readers : (reader[r].stray \/ r \in users) \in BOOLEAN
    OBVIOUS
  <2>3. \A r \in Readers : [reader[r] EXCEPT !.stray = (reader[r].stray \/ r \in users)] \in Connections
    BY <1>1, <2>2 DEF Connections
  <2>4. reader' \in [Readers -> Connections]
    BY <2>1, <2>3
  <2>5. \A r \in Readers : /\ reader'[r].at = reader[r].at /\ reader'[r].side = reader[r].side
                           /\ reader'[r].file = reader[r].file
    BY <1>1, <2>1 DEF Connections
  <2> QED BY <2>1, <2>4, <2>5
<1>5. ReaderInv' /\ Followed
  BY <1>4 DEF Inv, ReaderInv, Connected, Followed
<1> QED BY <1>2, <1>3, <1>4, <1>5, SwapAssumption DEF Uneventful, TypeOK

LEMMA CatchUpStep ==
    ASSUME TypeOK, Inv, RebuildCatchUp
    PROVE  TypeOK' /\ Inv'
<1>0. PICK v : v = version + 1
  OBVIOUS
<1> DEFINE content == [p \in Pages |-> Value(v, FALSE)]
<1>1. /\ Typed /\ FilesInv(disk, Readers) /\ version \in Nat /\ MaxVersions \in Nat
      /\ staged \in [copy : Contents \cup {None}, source : Contents \cup {None}]
  BY TypeIsTyped DEF Inv, TypeOK
<1>2. PICK d : d = Connect(disk)
  OBVIOUS
<1>3. /\ version < MaxVersions /\ version' = v /\ disk' = d
      /\ job' = [Idle EXCEPT !.role = "rebuild", !.pc = "checkpoint", !.side = d.side,
                             !.content = content]
      /\ OnlyFiles /\ staged' = staged /\ undurable' = undurable
  BY <1>0, <1>2 DEF RebuildCatchUp, OnlyFiles, TypeOK
<1>4. /\ FilesInv(d, Readers) /\ d.name = disk.name /\ d.side \in Sides
      /\ LogEmpty(disk) => LogEmpty(d)
  BY <1>1, <1>2, ConnectKeeps
<1>5. /\ content \in Contents /\ content["vectors"].at = v /\ content["rows"].at = v
      /\ ~content["vectors"].legacy
  <2>1. Value(v, FALSE) \in Values /\ Value(v, FALSE).at = v /\ ~Value(v, FALSE).legacy
    BY <1>0, <1>1 DEF Value, Values
  <2> QED BY <2>1 DEF Contents, Pages
<1>6. content # None
  <2>1. DOMAIN content = Pages /\ DOMAIN None = {"none"}
    BY DEF None
  <2>2. "rows" \in Pages /\ "rows" \notin {"none"}
    BY DEF Pages
  <2> QED BY <2>1, <2>2
<1> HIDE DEF content
<1>7. /\ job' \in Jobs /\ job'.side = d.side /\ job'.role = "rebuild"
      /\ job'.pc = "checkpoint" /\ job'.content = content
  BY <1>3, <1>4, <1>5, IdleType DEF Jobs, Idle
<1>8. Uneventful
  BY <1>1, <1>3, <1>4, <1>7, OnlyFilesIsUneventful
<1>9. /\ TypeOK' /\ FilesInv(disk, Readers)' /\ ReaderInv' /\ VersionInv'
      /\ StagedInv' /\ CopyInv'
  BY <1>3, <1>8, UneventfulKeeps
<1>10. LockInv'
  BY <1>3, <1>4, <1>7, SidesAre DEF LockInv, Placed, Drains
<1>11. Unused(v)'
  <2>1. v \in Inodes /\ v <= version' /\ v # disk.name
    BY <1>0, <1>1, <1>3 DEF Inodes, Inv, VersionInv
  <2>2. \A r \in Readers : reader'[r].at # "closed" => reader'[r].file # v
    BY <1>0, <1>1, <1>3 DEF OnlyFiles, Inv, VersionInv
  <2>3. undurable' # None => undurable'.name # v
    BY <1>0, <1>1, <1>3 DEF Inv, VersionInv
  <2> QED BY <1>3, <1>4, <2>1, <2>2, <2>3 DEF Unused
<1>12. staged.copy # None => staged.copy["vectors"].at # v
  BY <1>0, <1>1 DEF Inv, StagedInv, Unused
<1>13. RebuildInv'
  <2>1. v <= version'
    BY <1>0, <1>1, <1>3
  <2> QED BY <1>3, <1>5, <1>6, <1>7, <1>11, <1>12, <2>1 DEF RebuildInv
<1>14. MigrationInv'
  BY <1>7 DEF MigrationInv, Holds
<1> QED BY <1>9, <1>10, <1>13, <1>14 DEF Inv

(* The rebuild goes on to its next phase. *)
LEMMA RebuildGoesOn ==
    ASSUME TypeOK, Inv, Uneventful, staged' = staged, version' = version, job.role = "rebuild",
           job.pc \in {"checkpoint", "verify", "rename"}, job'.role = "rebuild",
           job'.content = job.content, LockInv'
    PROVE  TypeOK' /\ Inv'
<1>1. /\ TypeOK' /\ FilesInv(disk, Readers)' /\ ReaderInv' /\ VersionInv'
      /\ StagedInv' /\ CopyInv'
  BY UneventfulKeeps
<1>2. RebuildInv /\ Unused(job.content["rows"].at)
  BY DEF Inv, RebuildInv
<1>3. PICK i : i = job.content["rows"].at
  OBVIOUS
<1>4. Unused(i)'
  BY <1>2, <1>3, UnusedStays
<1>5. RebuildInv'
  BY <1>2, <1>3, <1>4 DEF RebuildInv
<1>6. MigrationInv'
  BY DEF MigrationInv, Holds
<1> QED BY <1>1, <1>5, <1>6 DEF Inv

LEMMA RebuildSteps ==
    ASSUME TypeOK, Inv, RebuildCheckpoint \/ RebuildBusy \/ RebuildVerify
    PROVE  TypeOK' /\ Inv'
<1>1. /\ Typed /\ FilesInv(disk, Readers) /\ LockInv /\ job \in Jobs /\ disk \in Disks
      /\ staged \in [copy : Contents \cup {None}, source : Contents \cup {None}]
  BY TypeIsTyped DEF Inv, TypeOK
<1>2. OnlyFiles /\ staged' = staged /\ version' = version
  BY DEF OnlyFiles, RebuildCheckpoint, RebuildBusy, RebuildVerify, Untouched, TypeOK
<1>3. Idle \in Jobs /\ Idle.side = NoSide
  BY IdleType DEF Idle
<1>4. job.role = "rebuild" /\ job.pc \in {"checkpoint", "verify"}
  BY DEF RebuildCheckpoint, RebuildBusy, RebuildVerify, Holds
<1>5. job.side # NoSide /\ job.side = disk.side /\ disk.side \in Sides
  BY <1>1, <1>4, DiskParts DEF LockInv, Placed
<1>6. CASE RebuildCheckpoint
  <2>1. disk' = Truncate(disk, disk.side) /\ ~Busy(disk, disk.side) /\ job' = [job EXCEPT !.pc = "verify"]
    BY <1>5, <1>6 DEF RebuildCheckpoint
  <2>2. /\ FilesInv(disk', Readers) /\ disk'.name = disk.name /\ disk'.side = disk.side
        /\ LogEmpty(disk')
    BY <1>1, <1>5, <2>1, TruncateKeeps
  <2>3. /\ job' \in Jobs /\ job'.side = job.side /\ job'.role = "rebuild" /\ job'.pc = "verify"
        /\ job'.content = job.content
    BY <1>1, <1>4, <2>1 DEF Jobs
  <2>4. Uneventful
    BY <1>1, <1>2, <1>5, <2>2, <2>3, OnlyFilesIsUneventful
  <2>5. LockInv'
    BY <1>5, <2>2, <2>3 DEF LockInv, Placed, Drains, LogEmpty
  <2> QED BY <1>2, <1>4, <2>3, <2>4, <2>5, RebuildGoesOn
<1>7. CASE RebuildBusy
  <2>1. CASE job' = [job EXCEPT !.tries = @ + 1] /\ disk' = disk
    <3>1. /\ job' \in Jobs /\ job'.side = job.side /\ job'.role = "rebuild" /\ job'.pc = job.pc
          /\ job'.content = job.content
      BY <1>1, <1>4, <2>1 DEF Jobs
    <3>2. Uneventful
      BY <1>1, <1>2, <1>5, <2>1, <3>1, OnlyFilesIsUneventful
    <3>3. LockInv'
      BY <1>1, <1>4, <1>5, <2>1, <3>1 DEF LockInv, Placed, Drains, LogEmpty
    <3> QED BY <1>2, <1>4, <3>1, <3>2, <3>3, RebuildGoesOn
  <2>2. CASE job' = Idle /\ disk' = CloseJob(disk, job.side)
    <3>1. /\ FilesInv(disk', Readers) /\ disk'.name = disk.name
          /\ LogEmpty(disk) => LogEmpty(disk')
      BY <1>1, <1>5, <2>2, CloseJobKeeps
    <3>2. Uneventful
      BY <1>1, <1>2, <1>3, <2>2, <3>1, OnlyFilesIsUneventful
    <3> QED BY <1>2, <2>2, <3>2, IdleJob
  <2> QED BY <1>7, <2>1, <2>2 DEF RebuildBusy
<1>8. CASE RebuildVerify
  <2>1. disk' = CloseJob(disk, job.side)
        /\ job' = IF Drained(disk) THEN [job EXCEPT !.pc = "rename", !.side = NoSide] ELSE Idle
    BY <1>8 DEF RebuildVerify
  <2>2. /\ FilesInv(disk', Readers) /\ disk'.name = disk.name
        /\ LogEmpty(disk) => LogEmpty(disk')
    BY <1>1, <1>5, <2>1, CloseJobKeeps
  <2>3. CASE Drained(disk)
    <3>1. job' = [job EXCEPT !.pc = "rename", !.side = NoSide]
      BY <2>1, <2>3
    <3>2. /\ job' \in Jobs /\ job'.side = NoSide /\ job'.role = "rebuild" /\ job'.pc = "rename"
          /\ job'.content = job.content
      BY <1>1, <1>4, <3>1 DEF Jobs
    <3>3. LogEmpty(disk')
      BY <2>2, <2>3 DEF LogEmpty, Drained
    <3>4. Uneventful
      BY <1>1, <1>2, <2>2, <3>2, OnlyFilesIsUneventful
    <3>5. LockInv'
      BY <3>2, <3>3 DEF LockInv, Placed, Drains, LogEmpty
    <3> QED BY <1>2, <1>4, <3>2, <3>4, <3>5, RebuildGoesOn
  <2>4. CASE ~Drained(disk)
    <3>1. job' = Idle
      BY <2>1, <2>4
    <3>2. Uneventful
      BY <1>1, <1>2, <1>3, <2>2, <3>1, OnlyFilesIsUneventful
    <3> QED BY <1>2, <3>1, <3>2, IdleJob
  <2> QED BY <2>3, <2>4
<1> QED BY <1>6, <1>7, <1>8

LEMMA SwapSteps ==
    ASSUME TypeOK, Inv, RebuildRename \/ RebuildUnlink \/ RebuildSync
    PROVE  TypeOK' /\ Inv'
<1>1. /\ Typed /\ FilesInv(disk, Readers) /\ LockInv /\ job \in Jobs
      /\ staged \in [copy : Contents \cup {None}, source : Contents \cup {None}]
      /\ version \in Nat
  BY TypeIsTyped DEF Inv, TypeOK
<1>2. CASE RebuildRename
  <2>1. job.role = "rebuild" /\ job.pc = "rename"
    BY <1>2 DEF RebuildRename, Holds
  <2>2. /\ LogEmpty(disk) /\ job.side = NoSide
        /\ RebuildInv /\ Unused(job.content["rows"].at) /\ job.content # None
    BY <1>1, <2>1 DEF Inv, LockInv, Drains, RebuildInv
  <2>3. job.content \in Contents /\ ~job.content["vectors"].legacy
        /\ job.content["vectors"].at <= version
    BY <1>1, <2>1, <2>2 DEF Jobs, RebuildInv
  <2>4. /\ Install(job.content, job.content["rows"].at, job.content)
        /\ job' = [job EXCEPT !.pc = "unlink"] /\ reader' = reader /\ staged' = staged
        /\ version' = version /\ split' = split /\ faults' = faults
    BY <1>2 DEF RebuildRename
  <2>5. job' \in Jobs /\ job'.role = "rebuild" /\ job'.pc = "unlink" /\ job'.side = NoSide
    BY <1>1, <2>1, <2>2, <2>4 DEF Jobs
  <2>6. staged.copy # None => staged.copy["vectors"].at # job.content["rows"].at
    BY <2>1, <2>2 DEF RebuildInv
  <2>7. Installs(job.content, job.content["rows"].at, job.content)
    BY <2>4, <2>5, <2>6 DEF Installs
  <2>8. /\ TypeOK' /\ FilesInv(disk, Readers)' /\ LogEmpty(disk)' /\ ReaderInv'
        /\ VersionInv' /\ StagedInv' /\ CopyInv'
    BY <2>2, <2>3, <2>7, InstallStep
  <2>9. LockInv' /\ RebuildInv' /\ MigrationInv'
    BY <2>5, <2>8 DEF LockInv, Placed, Drains, RebuildInv, MigrationInv, Holds
  <2> QED BY <2>8, <2>9 DEF Inv
<1>3. CASE RebuildUnlink
  <2>1. job.role = "rebuild" /\ job.pc = "unlink" /\ LogEmpty(disk) /\ job.side = NoSide
    BY <1>1, <1>3 DEF RebuildUnlink, Holds, LockInv, Drains
  <2>2. UnlinkSidecars /\ Untouched /\ job' = [job EXCEPT !.pc = "sync"]
    BY <1>3 DEF RebuildUnlink
  <2>3. job' \in Jobs /\ job'.role = "rebuild" /\ job'.pc = "sync" /\ job'.side = NoSide
    BY <1>1, <2>1, <2>2 DEF Jobs
  <2>4. Uneventful /\ staged' = staged
    BY <2>1, <2>2, <2>3, UnlinkIsUneventful
  <2>5. LockInv' /\ RebuildInv' /\ MigrationInv'
    BY <2>3 DEF LockInv, Placed, Drains, RebuildInv, MigrationInv, Holds
  <2> QED BY <2>4, <2>5, UneventfulKeeps DEF Inv
<1>4. CASE RebuildSync
  <2>1. job' = Idle /\ disk' = disk /\ staged' = staged /\ OnlyFiles
    BY <1>4 DEF RebuildSync, OnlyFiles, TypeOK
  <2>2. Idle \in Jobs /\ Idle.side = NoSide
    BY IdleType DEF Idle
  <2>3. Uneventful
    BY <1>1, <2>1, <2>2, OnlyFilesIsUneventful
  <2> QED BY <2>1, <2>3, IdleJob
<1> QED BY <1>2, <1>3, <1>4

(* The migration goes on to another phase, with its stage or without. *)
LEMMA MigrationGoesOn ==
    ASSUME TypeOK, Inv, Uneventful, staged' = staged \/ staged' = NoStage,
           job'.role = "migration", job'.side = NoSide, Drains' => LogEmpty(disk)', MigrationInv'
    PROVE  TypeOK' /\ Inv'
<1>1. /\ TypeOK' /\ FilesInv(disk, Readers)' /\ ReaderInv' /\ VersionInv'
      /\ StagedInv' /\ CopyInv'
  BY UneventfulKeeps
<1>2. LockInv' /\ RebuildInv'
  BY DEF LockInv, Placed, RebuildInv
<1> QED BY <1>1, <1>2 DEF Inv

LEMMA MigratingType ==
    ASSUME NEW pc \in {"checkpoint", "ready"}, NEW aim \in {"stage", "resume", "publish"}
    PROVE  /\ Migrating(pc, aim) \in Jobs
           /\ Migrating(pc, aim).role = "migration" /\ Migrating(pc, aim).side = NoSide
           /\ Migrating(pc, aim).pc = pc /\ Migrating(pc, aim).aim = aim
BY DEF Migrating, Idle, Jobs

LEMMA MigrateSteps ==
    ASSUME TypeOK, Inv,
           MigrateStart \/ MigrateCheckpoint \/ MigrateUnlink \/ MigrateResume
              \/ MigrateFails \/ MigrateSync
    PROVE  TypeOK' /\ Inv'
<1>1. /\ Typed /\ FilesInv(disk, Readers) /\ LockInv /\ MigrationInv /\ job \in Jobs
      /\ staged \in [copy : Contents \cup {None}, source : Contents \cup {None}]
  BY TypeIsTyped DEF Inv, TypeOK
<1>2. Idle \in Jobs /\ Idle.side = NoSide
  BY IdleType DEF Idle
<1>3. NoStage \in [copy : Contents \cup {None}, source : Contents \cup {None}]
      /\ NoStage.copy = None /\ NoStage.source = None
  BY DEF NoStage
<1>4. PICK d : d = Connect(disk)
  OBVIOUS
<1>5. /\ FilesInv(d, Readers) /\ d.name = disk.name /\ d.side \in Sides
      /\ LogEmpty(disk) => LogEmpty(d)
  BY <1>1, <1>4, ConnectKeeps
<1>6. ASSUME NEW e, e = CloseJob(d, d.side)
      PROVE  /\ FilesInv(e, Readers) /\ e.name = disk.name
             /\ LogEmpty(disk) => LogEmpty(e)
  BY <1>1, <1>4, <1>6, OpenAndClose
<1>7. CASE MigrateStart
  <2>1. OnlyFiles /\ (staged' = staged \/ staged' = NoStage)
    BY <1>7 DEF MigrateStart, OnlyFiles, TypeOK
  <2>2. disk' = CloseJob(d, d.side) \/ disk' = disk
    BY <1>4, <1>7 DEF MigrateStart
  <2>3. /\ FilesInv(disk', Readers) /\ disk'.name = disk.name
        /\ LogEmpty(disk) => LogEmpty(disk')
    BY <1>1, <1>6, <2>2
  <2>4. job' = Idle \/ job' = Migrating("checkpoint", IF staged' = NoStage THEN "stage" ELSE "resume")
    BY <1>7 DEF MigrateStart
  <2>5. CASE job' = Idle
    <3>1. Uneventful
      BY <1>1, <1>2, <1>3, <2>1, <2>3, <2>5, OnlyFilesIsUneventful
    <3> QED BY <2>1, <2>5, <3>1, IdleJob
  <2>6. CASE job' = Migrating("checkpoint", IF staged' = NoStage THEN "stage" ELSE "resume")
    <3>1. /\ job' \in Jobs /\ job'.role = "migration" /\ job'.side = NoSide
          /\ job'.pc = "checkpoint" /\ job'.aim = IF staged' = NoStage THEN "stage" ELSE "resume"
      <4>1. (IF staged' = NoStage THEN "stage" ELSE "resume") \in {"stage", "resume", "publish"}
        OBVIOUS
      <4> QED BY <2>6, <4>1, MigratingType
    <3>2. Uneventful
      BY <1>1, <1>3, <2>1, <2>3, <3>1, OnlyFilesIsUneventful
    <3>3. staged' # NoStage => staged'.copy # None /\ staged'.source # None
      BY <1>7 DEF MigrateStart
    <3>4. MigrationInv'
      BY <3>1, <3>3 DEF MigrationInv, Holds
    <3>5. ~Drains'
      BY <3>1 DEF Drains
    <3> QED BY <2>1, <3>1, <3>2, <3>4, <3>5, MigrationGoesOn
  <2> QED BY <2>4, <2>5, <2>6
<1>8. CASE MigrateCheckpoint
  <2>1. OnlyFiles /\ staged' = staged /\ job.role = "migration" /\ job.pc = "checkpoint"
    BY <1>8 DEF MigrateCheckpoint, OnlyFiles, Untouched, TypeOK, Holds
  <2>2. CASE Busy(d, d.side)
    <3>1. disk' = CloseJob(d, d.side) /\ job' = Idle
      BY <1>4, <1>8, <2>2 DEF MigrateCheckpoint
    <3>2. Uneventful
      BY <1>1, <1>2, <1>6, <2>1, <3>1, OnlyFilesIsUneventful
    <3> QED BY <2>1, <3>1, <3>2, IdleJob
  <2>3. CASE ~Busy(d, d.side)
    <3>1. disk' = CloseJob(Truncate(d, d.side), d.side) /\ job' = [job EXCEPT !.pc = "unlink"]
      BY <1>4, <1>8, <2>3 DEF MigrateCheckpoint
    <3>2. PICK e : e = Truncate(d, d.side)
      OBVIOUS
    <3>3. FilesInv(e, Readers) /\ e.name = d.name /\ e.side = d.side /\ LogEmpty(e)
      BY <1>1, <1>5, <2>3, <3>2, TruncateKeeps
    <3>4. disk' = CloseJob(e, e.side)
      BY <3>1, <3>2, <3>3
    <3>5. FilesInv(disk', Readers) /\ disk'.name = disk.name /\ LogEmpty(disk')
      BY <1>1, <1>5, <3>3, <3>4, CloseJobKeeps
    <3>6. job.side = NoSide
      BY <1>1, <2>1 DEF LockInv
    <3>7. /\ job' \in Jobs /\ job'.role = "migration" /\ job'.side = NoSide
          /\ job'.pc = "unlink" /\ job'.aim = job.aim
      BY <1>1, <2>1, <3>1, <3>6 DEF Jobs
    <3>8. Uneventful
      BY <1>1, <2>1, <3>5, <3>7, OnlyFilesIsUneventful
    <3>9. MigrationInv'
      BY <1>1, <2>1, <3>7 DEF MigrationInv, Holds
    <3>10. LogEmpty(disk)'
      BY <3>5 DEF LogEmpty
    <3> QED BY <2>1, <3>7, <3>8, <3>9, <3>10, MigrationGoesOn
  <2> QED BY <2>2, <2>3
<1>9. CASE MigrateUnlink
  <2>1. /\ UnlinkSidecars /\ Untouched /\ job' = [job EXCEPT !.pc = job.aim]
        /\ job.role = "migration" /\ job.pc = "unlink"
    BY <1>9 DEF MigrateUnlink, Holds
  <2>2. LogEmpty(disk) /\ job.side = NoSide
    BY <1>1, <2>1 DEF LockInv, Drains
  <2>3. /\ job' \in Jobs /\ job'.role = "migration" /\ job'.side = NoSide
        /\ job'.pc = job.aim /\ job'.aim = job.aim
        /\ job.aim \in {"none", "stage", "resume", "publish"}
    BY <1>1, <2>1, <2>2 DEF Jobs
  <2>4. Uneventful /\ staged' = staged
    BY <2>1, <2>2, <2>3, UnlinkIsUneventful
  <2>5. MigrationInv'
    BY <1>1, <2>1, <2>3, <2>4 DEF MigrationInv, Holds
  <2>6. LogEmpty(disk)'
    BY <2>2, <2>4 DEF Uneventful, Kept
  <2> QED BY <2>3, <2>4, <2>5, <2>6, MigrationGoesOn
<1>10. CASE MigrateResume
  <2>1. OnlyFiles /\ disk' = disk /\ job.role = "migration" /\ job.pc = "resume"
    BY <1>10 DEF MigrateResume, OnlyFiles, TypeOK, Holds
  <2>2. PICK same \in BOOLEAN : same = Unchanged(staged.source)
    BY DEF Unchanged
  <2>3. /\ staged' = IF same THEN staged ELSE NoStage
        /\ job' = Migrating("checkpoint", IF same THEN "publish" ELSE "stage")
    BY <1>10, <2>2 DEF MigrateResume
  <2>4. /\ job' \in Jobs /\ job'.role = "migration" /\ job'.side = NoSide
        /\ job'.pc = "checkpoint" /\ job'.aim = IF same THEN "publish" ELSE "stage"
    <3>1. (IF same THEN "publish" ELSE "stage") \in {"stage", "resume", "publish"}
      OBVIOUS
    <3> QED BY <2>3, <3>1, MigratingType
  <2>5. staged' = staged \/ staged' = NoStage
    BY <2>3
  <2>6. Uneventful
    BY <1>1, <1>3, <2>1, <2>4, <2>5, OnlyFilesIsUneventful
  <2>7. staged.copy # None /\ staged.source # None
    BY <1>1, <2>1 DEF MigrationInv
  <2>8. MigrationInv'
    BY <2>3, <2>4, <2>7 DEF MigrationInv, Holds
  <2>9. ~Drains'
    BY <2>4 DEF Drains
  <2> QED BY <2>4, <2>5, <2>6, <2>8, <2>9, MigrationGoesOn
<1>11. CASE MigrateFails
  <2>1. OnlyFiles /\ staged' = staged /\ job' = Idle /\ disk' = CloseJob(d, d.side)
    BY <1>4, <1>11 DEF MigrateFails, OnlyFiles, Untouched, TypeOK
  <2>2. Uneventful
    BY <1>1, <1>2, <1>6, <2>1, OnlyFilesIsUneventful
  <2> QED BY <2>1, <2>2, IdleJob
<1>12. CASE MigrateSync
  <2>1. OnlyFiles /\ staged' = NoStage /\ job' = Idle /\ disk' = disk
    BY <1>12 DEF MigrateSync, OnlyFiles, TypeOK
  <2>2. Uneventful
    BY <1>1, <1>2, <1>3, <2>1, OnlyFilesIsUneventful
  <2> QED BY <2>1, <2>2, IdleJob
<1> QED BY <1>7, <1>8, <1>9, <1>10, <1>11, <1>12

LEMMA StageStep ==
    ASSUME TypeOK, Inv, MigrateStage
    PROVE  TypeOK' /\ Inv'
<1>1. /\ Typed /\ FilesInv(disk, Readers) /\ LockInv /\ job \in Jobs /\ disk \in Disks
      /\ staged \in [copy : Contents \cup {None}, source : Contents \cup {None}]
      /\ version \in Nat /\ MaxVersions \in Nat
  BY TypeIsTyped DEF Inv, TypeOK
<1>2. PICK d : d = Connect(disk)
  OBVIOUS
<1>3. /\ job.role = "migration" /\ job.pc = "stage" /\ disk' = CloseJob(d, d.side)
      /\ reader' = reader /\ undurable' = undurable /\ truth' = truth /\ past' = past
      /\ split' = split /\ faults' = faults
  BY <1>2 DEF MigrateStage, Holds
<1>4. LogEmpty(disk)
  BY <1>1, <1>3 DEF LockInv, Drains
<1>5. PICK digest : digest = Digest
  OBVIOUS
<1>6. FreshView(d) = digest /\ digest \in Contents /\ digest \in past
  <2>1. FreshView(d) = FreshView(disk)
    BY <1>1, <1>2, ConnectKeeps
  <2>2. disk.name \in Inodes /\ disk.side \in Sides \cup {NoSide}
        /\ (disk.side # NoSide => disk.wal[disk.side] = <<>>)
    BY <1>1, <1>4, DiskParts DEF LogEmpty
  <2>3. FreshView(disk) = disk.file[disk.name]
    BY <1>1, <2>2, WholeEmpty DEF FreshView
  <2> QED BY <1>1, <1>5, <2>1, <2>2, <2>3, DiskParts DEF Digest, FilesInv
<1>7. FilesInv(disk', Readers) /\ disk'.name = disk.name /\ (LogEmpty(disk) => LogEmpty(disk'))
  BY <1>1, <1>2, <1>3, OpenAndClose
<1>8. CASE ~Pending(digest)
  <2>1. job' = Idle /\ version' = version /\ staged' = staged
    BY <1>2, <1>6, <1>8 DEF MigrateStage
  <2>2. Idle \in Jobs /\ Idle.side = NoSide
    BY IdleType DEF Idle
  <2>3. OnlyFiles
    BY <1>3, <2>1 DEF OnlyFiles, TypeOK
  <2>4. Uneventful
    BY <1>1, <1>7, <2>1, <2>2, <2>3, OnlyFilesIsUneventful
  <2> QED BY <2>1, <2>4, IdleJob
<1>9. CASE Pending(digest)
  <2>0. PICK v : v = version + 1
    OBVIOUS
  <2> DEFINE copy == [digest EXCEPT !["vectors"] = Value(v, FALSE)]
  <2>1. /\ version < MaxVersions /\ version' = v
        /\ staged' = [NoStage EXCEPT !.copy = copy]
        /\ job' = [Migrating("ready", "publish") EXCEPT !.content = digest]
    BY <1>2, <1>5, <1>6, <1>9, <2>0 DEF MigrateStage
  <2>2. /\ copy \in Contents /\ copy["vectors"].at = v /\ ~copy["vectors"].legacy
        /\ copy["rows"] = digest["rows"]
    <3>1. Value(v, FALSE) \in Values /\ Value(v, FALSE).at = v /\ ~Value(v, FALSE).legacy
      BY <1>1, <2>0 DEF Value, Values
    <3> QED BY <1>6, <3>1 DEF Contents, Pages
  <2>3. ASSUME NEW content \in Contents
        PROVE  content # None
    <3>1. DOMAIN content = Pages /\ DOMAIN None = {"none"}
      BY DEF None, Contents
    <3>2. "rows" \in Pages /\ "rows" \notin {"none"}
      BY DEF Pages
    <3> QED BY <3>1, <3>2
  <2>4. copy # None /\ digest # None
    BY <1>6, <2>2, <2>3
  <2>5. Fits(copy, digest)
    <3>1. digest["vectors"].at <= version /\ digest["vectors"].at \in Nat
      BY <1>6 DEF Inv, VersionInv, Contents, Pages, Values
    <3>2. version \in Nat
      BY <1>1, SwapAssumption DEF TypeOK
    <3>3. digest["vectors"].at < v
      BY <2>0, <3>1, <3>2
    <3> HIDE DEF copy
    <3> QED BY <2>2, <3>3 DEF Fits
  <2> HIDE DEF copy
  <2>6. staged'.copy = copy /\ staged'.source = None
        /\ staged' \in [copy : Contents \cup {None}, source : Contents \cup {None}]
    BY <2>1, <2>2 DEF NoStage
  <2>7. /\ job' \in Jobs /\ job'.role = "migration" /\ job'.side = NoSide
        /\ job'.pc = "ready" /\ job'.content = digest
    <3>1. /\ Migrating("ready", "publish") \in Jobs
          /\ Migrating("ready", "publish").role = "migration"
          /\ Migrating("ready", "publish").side = NoSide
          /\ Migrating("ready", "publish").pc = "ready"
      BY MigratingType
    <3> HIDE DEF Migrating
    <3> QED BY <1>6, <2>1, <3>1 DEF Jobs
  <2>8. OnlyFiles
    BY <1>3, <2>0, <2>1 DEF OnlyFiles, TypeOK
  <2>9. Uneventful
    BY <1>1, <1>7, <2>6, <2>7, <2>8, OnlyFilesIsUneventful
  <2>10. TypeOK' /\ FilesInv(disk, Readers)' /\ ReaderInv' /\ VersionInv'
    BY <2>9, UneventfulKeeps
  <2>11. undurable = None
    <3> SUFFICES ASSUME undurable # None PROVE FALSE
      OBVIOUS
    <3>1. ~disk.file[disk.name]["vectors"].legacy
      BY <1>1 DEF FilesInv, Replaced
    <3> QED BY <1>5, <1>9, <3>1 DEF Digest, Pending
  <2>12. Unused(v)'
    <3>1. v \in Inodes /\ v <= version' /\ v # disk'.name
      BY <1>1, <1>7, <2>0, <2>1 DEF Inodes, Inv, VersionInv
    <3>2. \A r \in Readers : reader'[r].at # "closed" => reader'[r].file # v
      BY <1>1, <1>3, <2>0 DEF Inv, VersionInv
    <3> QED BY <1>3, <2>11, <3>1, <3>2 DEF Unused
  <2>13. StagedInv' /\ CopyInv'
    BY <1>3, <2>2, <2>6, <2>11, <2>12 DEF StagedInv, CopyInv
  <2>14. MigrationInv'
    BY <1>3, <2>4, <2>5, <2>6, <2>7, <2>11 DEF MigrationInv, Holds
  <2>15. LockInv' /\ RebuildInv'
    BY <1>4, <1>7, <2>7 DEF LockInv, Placed, RebuildInv, LogEmpty
  <2> QED BY <2>10, <2>13, <2>14, <2>15 DEF Inv
<1> QED BY <1>8, <1>9

LEMMA ReadyStep ==
    ASSUME TypeOK, Inv, MigrateReady
    PROVE  TypeOK' /\ Inv'
<1>1. /\ Typed /\ FilesInv(disk, Readers) /\ job \in Jobs
      /\ staged \in [copy : Contents \cup {None}, source : Contents \cup {None}]
  BY TypeIsTyped DEF Inv, TypeOK
<1>2. /\ Holds("migration", "ready") /\ disk' = disk /\ undurable' = undurable
      /\ staged' = [staged EXCEPT !.source = job.content]
      /\ job' = Migrating("checkpoint", "publish") /\ OnlyFiles
  BY DEF MigrateReady, OnlyFiles, TypeOK
<1>3. undurable = None /\ staged.copy # None /\ job.content # None /\ Fits(staged.copy, job.content)
  BY <1>2 DEF Inv, MigrationInv
<1>4. /\ staged'.copy = staged.copy /\ staged'.source = job.content
      /\ staged' \in [copy : Contents \cup {None}, source : Contents \cup {None}]
  BY <1>1, <1>2 DEF Jobs
<1>5. /\ job' \in Jobs /\ job'.role = "migration" /\ job'.side = NoSide
      /\ job'.pc = "checkpoint"
  BY <1>2, MigratingType
<1>6. Uneventful
  BY <1>1, <1>2, <1>4, <1>5, OnlyFilesIsUneventful
<1>7. TypeOK' /\ FilesInv(disk, Readers)' /\ ReaderInv' /\ VersionInv'
  BY <1>6, UneventfulKeeps
<1>8. StagedInv'
  <2>1. PICK i : i = staged.copy["vectors"].at
    OBVIOUS
  <2>2. Unused(i)' /\ ~staged.copy["vectors"].legacy
    BY <1>3, <1>6, <2>1, UnusedStays DEF Inv, StagedInv
  <2> QED BY <1>3, <1>4, <2>1, <2>2 DEF StagedInv
<1>9. CopyInv'
  BY <1>2, <1>3 DEF CopyInv
<1>10. MigrationInv'
  BY <1>3, <1>4, <1>5 DEF MigrationInv, Holds
<1>11. LockInv' /\ RebuildInv'
  BY <1>5 DEF LockInv, Placed, RebuildInv, Drains
<1> QED BY <1>7, <1>8, <1>9, <1>10, <1>11 DEF Inv

LEMMA PublishStep ==
    ASSUME TypeOK, Inv, MigratePublish
    PROVE  TypeOK' /\ Inv'
<1> DEFINE copy == staged.copy
           meant == [truth EXCEPT !["vectors"] =
                       IF @.at < copy["vectors"].at THEN copy["vectors"] ELSE @]
<1>1. /\ Typed /\ FilesInv(disk, Readers) /\ LockInv /\ job \in Jobs /\ disk \in Disks
      /\ staged \in [copy : Contents \cup {None}, source : Contents \cup {None}]
      /\ truth \in Contents
  BY TypeIsTyped DEF Inv, TypeOK
<1>2. /\ job.role = "migration" /\ job.pc = "publish" /\ Unchanged(staged.source)
      /\ Install(copy, copy["vectors"].at, meant)
      /\ staged' = [staged EXCEPT !.copy = None] /\ job' = [job EXCEPT !.pc = "sync"]
      /\ reader' = reader /\ version' = version /\ split' = split /\ faults' = faults
  BY DEF MigratePublish, Holds
<1>3. LogEmpty(disk) /\ job.side = NoSide /\ copy # None /\ staged.source # None
  BY <1>1, <1>2 DEF LockInv, Drains, Inv, MigrationInv
<1>4. /\ copy \in Contents /\ ~copy["vectors"].legacy /\ Unused(copy["vectors"].at)
      /\ Fits(copy, staged.source) /\ staged.source \in Contents
  BY <1>1, <1>3 DEF Inv, StagedInv
<1>5. copy["vectors"].at <= version
  BY <1>4 DEF Unused
<1>6. meant \in Contents
  <2>1. truth["vectors"] \in Values /\ copy["vectors"] \in Values
    BY <1>1, <1>4 DEF Contents, Pages
  <2>2. (IF truth["vectors"].at < copy["vectors"].at THEN copy["vectors"] ELSE truth["vectors"])
          \in Values
    BY <2>1
  <2> QED BY <1>1, <2>2 DEF Contents
<1>7. ~split => copy = meant
  <2> HAVE ~split
  <2>1. disk.name \in Inodes /\ disk.side \in Sides \cup {NoSide}
        /\ (disk.side # NoSide => disk.wal[disk.side] = <<>>)
    BY <1>1, <1>3, DiskParts DEF LogEmpty
  <2>2. FreshView(disk) = disk.file[disk.name]
    BY <1>1, <2>1, WholeEmpty DEF FreshView
  <2>3. truth = staged.source
    BY <1>1, <1>2, <2>2 DEF FilesInv, Unchanged, Digest
  <2>4. truth["rows"] = copy["rows"] /\ truth["vectors"].at < copy["vectors"].at
    BY <1>4, <2>3 DEF Fits
  <2>5. meant["vectors"] = copy["vectors"] /\ meant["rows"] = copy["rows"]
    BY <1>1, <2>4 DEF Contents, Pages
  <2>6. \A p \in Pages : copy[p] = meant[p]
    BY <2>5 DEF Pages
  <2> HIDE DEF copy, meant
  <2> QED BY <1>4, <1>6, <2>6, SamePages
<1>8. /\ job' \in Jobs /\ job'.role = "migration" /\ job'.pc = "sync" /\ job'.side = NoSide
  BY <1>1, <1>2, <1>3 DEF Jobs
<1>9. Installs(copy, copy["vectors"].at, meant)
  <2>1. staged'.copy = None
    BY <1>1, <1>2
  <2>2. staged' # staged
    BY <1>3, <2>1
  <2> HIDE DEF meant
  <2> QED BY <1>2, <1>8, <2>2 DEF Installs
<1> HIDE DEF copy, meant
<1>10. /\ TypeOK' /\ FilesInv(disk, Readers)' /\ LogEmpty(disk)' /\ ReaderInv'
       /\ VersionInv' /\ StagedInv' /\ CopyInv'
  BY <1>3, <1>4, <1>5, <1>6, <1>7, <1>9, InstallStep
<1>11. LockInv' /\ RebuildInv' /\ MigrationInv'
  BY <1>8 DEF LockInv, Placed, Drains, RebuildInv, MigrationInv, Holds
<1> QED BY <1>10, <1>11 DEF Inv

-----------------------------------------------------------------------------
(* Faults.                                                                 *)

LEMMA KillStep ==
    ASSUME TypeOK, Inv, KillJob
    PROVE  TypeOK' /\ Inv'
<1>1. /\ FilesInv(disk, Readers)
      /\ staged \in [copy : Contents \cup {None}, source : Contents \cup {None}]
      /\ Idle \in Jobs /\ Idle.side = NoSide
  BY IdleType DEF Inv, TypeOK, Idle
<1>2. disk' = disk /\ job' = Idle /\ staged' = staged /\ OnlyFiles
  BY DEF KillJob, OnlyFiles, TypeOK
<1>3. Uneventful
  BY <1>1, <1>2, OnlyFilesIsUneventful
<1> QED BY <1>2, <1>3, IdleJob

LEMMA PowerLossStep ==
    ASSUME TypeOK, Inv, PowerLoss
    PROVE  TypeOK' /\ Inv'
<1>1. /\ Typed /\ FilesInv(disk, Readers) /\ version \in Nat
      /\ staged \in [copy : Contents \cup {None}, source : Contents \cup {None}]
      /\ Idle \in Jobs /\ Idle.side = NoSide
  BY TypeIsTyped, IdleType DEF Inv, TypeOK, Idle
<1>2. /\ job' = Idle /\ reader' = [r \in Readers |-> Closed] /\ undurable' = None
      /\ version' = version /\ past' = past /\ split' = split /\ faults' \in Nat
  BY DEF PowerLoss, TypeOK
<1>3. /\ FilesInv(disk, Readers)'
      /\ LogEmpty(disk) => LogEmpty(disk)'
      /\ \/ disk' = disk /\ staged' = staged
         \/ /\ undurable # None /\ disk'.name = undurable.name
            /\ staged' = [staged EXCEPT !.copy = undurable.copy]
  BY <1>1, PowerLossKeeps
<1>4. /\ reader' \in [Readers -> Connections] /\ \A r \in Readers : reader'[r].at = "closed"
      /\ ReaderInv'
  <2>1. Closed \in Connections /\ Closed.at = "closed" /\ Closed.side = NoSide
    BY SwapAssumption DEF Closed, Connections, Value, Values, Inodes, NoSide
  <2> QED BY <1>2, <2>1 DEF ReaderInv, Connected
<1>5. LockInv' /\ RebuildInv' /\ MigrationInv'
  BY <1>2, IdleHolds
<1>6. undurable # None => /\ undurable.name \in Inodes /\ undurable.truth \in Contents
                          /\ undurable.copy \in Contents \cup {None}
  BY <1>1 DEF Typed
<1>7. TypeOK'
  <2>1. disk' \in Disks
    BY <1>3 DEF FilesInv
  <2>2. staged' \in [copy : Contents \cup {None}, source : Contents \cup {None}]
    BY <1>1, <1>3, <1>6
  <2>3. truth' \in Contents
    BY <1>6 DEF PowerLoss, TypeOK
  <2> QED BY <1>1, <1>2, <1>4, <2>1, <2>2, <2>3 DEF TypeOK
<1>8. VersionInv'
  <2>1. disk'.name <= version
    BY <1>3 DEF Inv, VersionInv
  <2> QED BY <1>2, <1>4, <2>1 DEF Inv, VersionInv
<1>9. CopyInv'
  BY <1>2 DEF CopyInv
<1>10. StagedInv'
  <2>1. CASE disk' = disk /\ staged' = staged
    <3> SUFFICES ASSUME staged.copy # None
                 PROVE  StagedInv'
      BY <2>1 DEF StagedInv
    <3>1. PICK i : i = staged.copy["vectors"].at
      OBVIOUS
    <3>2. StagedInv /\ Unused(i)
      BY <3>1 DEF Inv, StagedInv
    <3>3. Unused(i)'
      BY <1>2, <1>4, <2>1, <3>2 DEF Unused
    <3> QED BY <2>1, <3>1, <3>2, <3>3 DEF StagedInv
  <2>2. CASE /\ undurable # None /\ disk'.name = undurable.name
             /\ staged' = [staged EXCEPT !.copy = undurable.copy]
    <3>1. staged'.copy = undurable.copy /\ staged'.source = staged.source
      BY <1>1, <2>2
    <3> SUFFICES ASSUME undurable.copy # None
                 PROVE  StagedInv'
      BY <3>1 DEF StagedInv
    <3>2. /\ ~undurable.copy["vectors"].legacy
          /\ undurable.copy["vectors"].at \in Inodes
          /\ undurable.copy["vectors"].at <= version
          /\ undurable.copy["vectors"].at # undurable.name
          /\ staged.source # None => Fits(undurable.copy, staged.source)
      BY <2>2 DEF Inv, CopyInv
    <3>3. PICK i : i = undurable.copy["vectors"].at
      OBVIOUS
    <3>4. Unused(i)'
      BY <1>2, <1>4, <2>2, <3>2, <3>3 DEF Unused
    <3> QED BY <3>1, <3>2, <3>3, <3>4 DEF StagedInv
  <2> QED BY <1>3, <2>1, <2>2
<1> QED BY <1>3, <1>4, <1>5, <1>7, <1>8, <1>9, <1>10 DEF Inv

-----------------------------------------------------------------------------
(* The theorems.                                                           *)

LEMMA InitHolds ==
    ASSUME Init
    PROVE  TypeOK /\ Inv
<1>1. PICK legacy \in BOOLEAN :
        disk = [name |-> 0, side |-> NoSide,
                file |-> [i \in Inodes |-> [p \in Pages |-> Value(0, legacy /\ p = "vectors")]],
                wal |-> [s \in Sides |-> <<>>]]
  BY DEF Init
<1>2. /\ reader = [r \in Readers |-> Closed] /\ job = Idle /\ staged = NoStage
      /\ undurable = None /\ version = 0 /\ truth = FreshView(disk) /\ past = {truth}
      /\ split = FALSE /\ faults = 0
  BY DEF Init
<1>3. MaxVersions \in Nat /\ 0 \in Inodes
  BY SwapAssumption DEF Inodes
<1>4. \A p \in Pages : Value(0, legacy /\ p = "vectors") \in Values
  BY DEF Value, Values
<1>5. /\ disk \in Disks /\ disk.name = 0 /\ disk.side = NoSide
      /\ disk.file[0] = [p \in Pages |-> Value(0, legacy /\ p = "vectors")]
      /\ disk.file[0] \in Contents
  <2>1. [p \in Pages |-> Value(0, legacy /\ p = "vectors")] \in Contents
    BY <1>4 DEF Contents
  <2>2. [i \in Inodes |-> [p \in Pages |-> Value(0, legacy /\ p = "vectors")]]
          \in [Inodes -> Contents]
    BY <2>1
  <2>3. <<>> \in Seq(Frames)
    OBVIOUS
  <2>4. [s \in Sides |-> <<>>] \in [Sides -> Seq(Frames)]
    BY <2>3
  <2> QED BY <1>1, <1>3, <2>1, <2>2, <2>4 DEF Disks
<1>6. FreshView(disk) = disk.file[0]
  <2>1. NoSide \in Sides \cup {NoSide}
    OBVIOUS
  <2>2. Whole(disk, 0, NoSide) = disk.file[0]
    BY <1>3, <1>5, <2>1, WholeEmpty
  <2> QED BY <1>5, <2>2 DEF FreshView
<1>7. Closed \in Connections /\ Closed.at = "closed" /\ Closed.side = NoSide
  BY <1>3 DEF Closed, Connections, Value, Values, NoSide
<1>8. Idle \in Jobs /\ Idle.role = "none" /\ Idle.side = NoSide
  BY IdleType DEF Idle
<1>9. TypeOK
  <2>1. staged \in [copy : Contents \cup {None}, source : Contents \cup {None}]
    BY <1>2 DEF NoStage
  <2>2. truth \in Contents /\ past \subseteq Contents
    BY <1>2, <1>5, <1>6
  <2>3. reader \in [Readers -> Connections]
    BY <1>2, <1>7
  <2>4. job \in Jobs /\ disk \in Disks
    BY <1>2, <1>5, <1>8
  <2>5. undurable \in [name : Inodes, truth : Contents, copy : Contents \cup {None}] \cup {None}
    <3> DEFINE S == [name : Inodes, truth : Contents, copy : Contents \cup {None}]
    <3>1. undurable = None
      BY <1>2
    <3> HIDE DEF S
    <3>2. undurable \in S \cup {None}
      BY <3>1
    <3> QED BY <3>2 DEF S
  <2>6. version \in 0 .. MaxVersions /\ faults \in Nat
    BY <1>2, <1>3
  <2>7. split \in BOOLEAN
    BY <1>2
  <2> QED BY <2>1, <2>2, <2>3, <2>4, <2>5, <2>6, <2>7, Zenon DEF TypeOK
<1>10. FilesInv(disk, Readers)
  <2>1. \A r \in Readers : ~Connected(r)
    BY <1>2, <1>7 DEF Connected
  <2> QED BY <1>2, <1>5, <1>6, <2>1 DEF FilesInv, Replaced
<1>11. ReaderInv
  BY <1>2, <1>7 DEF ReaderInv, Connected
<1>12. VersionInv
  <2>1. disk.file[0]["vectors"].at = 0
    BY <1>5 DEF Pages, Value
  <2> QED BY <1>2, <1>5, <1>6, <1>7, <2>1 DEF VersionInv
<1>13. LockInv /\ RebuildInv /\ MigrationInv
  BY <1>2, <1>8 DEF LockInv, Placed, Drains, RebuildInv, MigrationInv, Holds
<1>14. StagedInv /\ CopyInv
  BY <1>2 DEF StagedInv, CopyInv, NoStage
<1> QED BY <1>9, <1>10, <1>11, <1>12, <1>13, <1>14 DEF Inv

LEMMA StutterHolds ==
    ASSUME TypeOK, Inv, UNCHANGED vars
    PROVE  TypeOK' /\ Inv'
<1>1. /\ disk' = disk /\ job' = job /\ staged' = staged /\ OnlyFiles
      /\ job \in Jobs /\ FilesInv(disk, Readers) /\ Placed
      /\ staged \in [copy : Contents \cup {None}, source : Contents \cup {None}]
  BY DEF vars, OnlyFiles, TypeOK, Inv, LockInv
<1>2. Uneventful
  BY <1>1, OnlyFilesIsUneventful DEF Placed
<1> QED BY <1>1, <1>2, SameJob

(* The types, and what the files, the connections, the process with the lock and the
   staged copy have to do with each other, are kept by every step. *)
THEOREM SwapInvariant == Spec => [](TypeOK /\ Inv)
<1>1. Init => TypeOK /\ Inv
  BY InitHolds
<1>2. TypeOK /\ Inv /\ [Next]_vars => TypeOK' /\ Inv'
  <2> SUFFICES ASSUME TypeOK, Inv, [Next]_vars
               PROVE  TypeOK' /\ Inv'
    OBVIOUS
  <2>1. CASE UNCHANGED vars
    BY <2>1, StutterHolds
  <2>2. ASSUME NEW r \in Readers,
               ReaderOpen(r) \/ ReaderBegin(r) \/ ReaderEnd(r) \/ ReaderClose(r) \/ KillReader(r)
        PROVE  TypeOK' /\ Inv'
    BY <2>2, ReaderSteps
  <2>3. ASSUME NEW pages \in SUBSET Pages, WriterCommit(pages)
        PROVE  TypeOK' /\ Inv'
    BY <2>3, CommitSteps
  <2>4. CASE AutoCheckpoint \/ WriterClose \/ WriterCloseDeferred
             \/ \E passive \in BOOLEAN : DrainWal(passive)
    BY <2>4, WriterSteps
  <2>5. CASE RebuildCatchUp
    BY <2>5, CatchUpStep
  <2>6. CASE RebuildCheckpoint \/ RebuildBusy \/ RebuildVerify
    BY <2>6, RebuildSteps
  <2>7. CASE RebuildRename \/ RebuildUnlink \/ RebuildSync
    BY <2>7, SwapSteps
  <2>8. CASE MigrateStart \/ MigrateCheckpoint \/ MigrateUnlink \/ MigrateResume
             \/ MigrateFails \/ MigrateSync
    BY <2>8, MigrateSteps
  <2>9. CASE MigrateStage
    BY <2>9, StageStep
  <2>10. CASE MigrateReady
    BY <2>10, ReadyStep
  <2>11. CASE MigratePublish
    BY <2>11, PublishStep
  <2>12. CASE KillJob
    BY <2>12, KillStep
  <2>13. CASE PowerLoss
    BY <2>13, PowerLossStep
  <2> QED BY <2>1, <2>2, <2>3, <2>4, <2>5, <2>6, <2>7, <2>8, <2>9, <2>10, <2>11, <2>12, <2>13
          DEF Next
<1> QED BY <1>1, <1>2, PTL DEF Spec

(* Whoever opens the database by its name, after whatever kills and power losses, finds
   a state that was committed, and the last one if no sidecars were unlinked under a
   connection to a file that stays (commands/rebuild.rs and commands/migrate_embeddings.rs). *)
THEOREM FindsCommitted == Spec => []CommittedStays
<1>1. TypeOK /\ Inv => CommittedStays
  <2> SUFFICES ASSUME TypeOK, Inv
               PROVE  CommittedStays
    OBVIOUS
  <2>1. FilesInv(disk, Readers)
    BY DEF Inv
  <2> QED BY <2>1, FreshIsPast DEF CommittedStays, FilesInv
<1> QED BY <1>1, SwapInvariant, PTL

(* A query sees one committed state, whatever is swapped, checkpointed or unlinked
   while it runs, unless its connection is astray. *)
THEOREM QueriesReadOneState == Spec => []ReadsOneState
<1>1. TypeOK /\ Inv => ReadsOneState
  <2> SUFFICES ASSUME TypeOK, Inv, NEW r \in Readers, reader[r].at = "reading", ~reader[r].stray
               PROVE  [View(disk, reader[r].file, reader[r].side, reader[r].mark)
                         EXCEPT !["rows"] = reader[r].rows] \in past
    BY DEF ReadsOneState
  <2> DEFINE seen == View(disk, reader[r].file, reader[r].side, reader[r].mark)
  <2>1. Sound(disk, r)
    BY DEF Inv, ReaderInv, FilesInv
  <2>2. seen \in past /\ seen["rows"] = reader[r].rows
    BY <2>1 DEF Sound, SeesPast
  <2>3. seen \in Contents
    BY <2>2 DEF TypeOK
  <2> HIDE DEF seen
  <2>4. [seen EXCEPT !["rows"] = reader[r].rows] = seen
    BY <2>2, <2>3 DEF Contents, Pages
  <2>5. [seen EXCEPT !["rows"] = reader[r].rows] \in past
    BY <2>2, <2>4
  <2> QED BY <2>5 DEF seen
<1> QED BY <1>1, SwapInvariant, PTL
=============================================================================
