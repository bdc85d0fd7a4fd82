--------------------------- MODULE CitationsProofs ---------------------------
(***************************************************************************)
(* Theorems of Citations for all files, texts and setups: what an add      *)
(* records held together at one moment, and what a heal or a migration     *)
(* rewrites was confirmed under the lock.                                  *)
(***************************************************************************)
EXTENDS Citations, SequenceTheorems, TLAPS

-----------------------------------------------------------------------------
(* Slices of texts.                                                        *)

(* A slice of a text is a text, of the length asked for. *)
LEMMA SliceIsSeq ==
    ASSUME NEW S, NEW s \in Seq(S), NEW a \in Nat, NEW b \in Nat, a < b, b <= Len(s)
    PROVE  /\ SubSeq(s, a + 1, b) \in Seq(S)
           /\ Len(SubSeq(s, a + 1, b)) = b - a
           /\ \A i \in 1..b - a : SubSeq(s, a + 1, b)[i] = s[a + i]
<1>1. \A i \in a + 1..b : s[i] \in S
  BY ElementOfSeq
<1> QED BY <1>1, SubSeqProperties

(* Two slices are the same if they are at every place. *)
LEMMA SameSlice ==
    ASSUME NEW S, NEW s \in Seq(S), NEW t \in Seq(S), NEW a \in Nat, NEW b \in Nat,
           a < b, b <= Len(s), b <= Len(t)
    PROVE  SubSeq(s, a + 1, b) = SubSeq(t, a + 1, b) <=> \A i \in a + 1..b : s[i] = t[i]
<1> DEFINE u == SubSeq(s, a + 1, b)
           v == SubSeq(t, a + 1, b)
<1>1. ASSUME u = v, NEW i \in a + 1..b PROVE s[i] = t[i]
  <2>1. i - a \in 1..b - a /\ i = a + (i - a)
    OBVIOUS
  <2>2. u[i - a] = s[i] /\ v[i - a] = t[i]
    BY <2>1, SliceIsSeq
  <2> QED BY <1>1, <2>2
<1>2. ASSUME \A i \in a + 1..b : s[i] = t[i] PROVE u = v
  <2>1. \A i \in 1..b - a : u[i] = v[i]
    BY <1>2, SliceIsSeq
  <2>2. u \in Seq(S) /\ v \in Seq(S) /\ Len(u) = b - a /\ Len(v) = b - a
    BY SliceIsSeq
  <2>3. Len(u) = Len(v) /\ \A i \in 1..Len(u) : u[i] = v[i]
    BY <2>1, <2>2
  <2> HIDE DEF u, v
  <2> QED BY <2>2, <2>3, SeqEqual
<1> QED BY <1>1, <1>2

-----------------------------------------------------------------------------
(* The types of all variables, and what a reading gives.                   *)

Trees == [Files -> FileStates]
Spots == [file : Files, range : Ranges]
Named == Nat \X Nat
Moves == [row : Named, from : Spots, to : Spots]
Seen == [ino : Files \X Nat, hash : Seq(Blocks)]
Adds == [phase : {"idle", "compress", "ready", "add"}, draft : Seq(Citations),
         from : Nat, replace : BOOLEAN, resolved : Seq(Seen), verified : Nat]
Heals == [policy : Policies \cup {"Never"}, plan : SUBSET Moves, decayed : SUBSET Moves]
Migrations == [plan : SUBSET Named, next : {<<>>} \cup Named \X (Files \X Nat)]

TypeInv ==
    /\ setup \in Setups /\ edits \in 0..setup.edits
    /\ tree \in Trees /\ seen \subseteq Trees
    /\ entries \in Seq(EntryStates)
    /\ add \in Adds /\ (add.phase = "compress" => add.from \in DOMAIN entries)
    /\ heal \in Heals
    /\ migrate \in Migrations

(* The rows that the commands work on exist, whatever they point to. *)
RowsInv ==
    /\ \A p \in heal.plan \cup heal.decayed : p.row \in Rows
    /\ migrate.plan \subseteq Rows
    /\ migrate.next # <<>> => migrate.next[1] \in Rows

LEMMA SetupType ==
    ASSUME TypeInv
    PROVE  /\ setup.edits \in Nat /\ edits \in Nat
           /\ setup.texts \subseteq Seq(Blocks) \ {<<>>}
           /\ setup.cites \subseteq [file : Files, range : Ranges, excerpt : Seq(Blocks)]
BY CitationAssumption DEF TypeInv

LEMMA PresentType ==
    ASSUME NEW t \in Trees, NEW f \in Files, Present(t, f)
    PROVE  /\ t[f].ino \in Files \X Nat
           /\ t[f].text \in Seq(Blocks) \ {<<>>}
BY DEF Trees, FileStates, Present

LEMMA HashType ==
    ASSUME NEW t \in Trees, NEW f \in Files, NEW range \in Ranges, Readable(t, f, range)
    PROVE  HashOf(t, f, range) \in Seq(Blocks)
<1>1. CASE range = Whole
  BY <1>1, PresentType DEF Readable, HashOf
<1>2. CASE range # Whole
  <2>1. /\ range[1] \in Nat /\ range[2] \in Nat /\ range[1] < range[2]
        /\ range[2] <= Len(t[f].text)
    BY <1>2 DEF Ranges, Readable
  <2>2. t[f].text \in Seq(Blocks)
    BY PresentType DEF Readable
  <2> QED BY <1>2, <2>1, <2>2, SliceIsSeq DEF HashOf
<1> QED BY <1>1, <1>2

LEMMA RowType ==
    ASSUME TypeInv, NEW r \in Rows, Stands(r)
    PROVE  Row(r) \in Citations
<1>1. entries[r[1]] \in EntryStates
  BY ElementOfSeq, LenProperties DEF TypeInv, Rows
<1>2. entries[r[1]].rows \in Seq(Citations)
  BY <1>1 DEF EntryStates
<1> QED BY <1>2, ElementOfSeq, LenProperties DEF Stands, Row

LEMMA NamedType == ASSUME TypeInv PROVE Rows \subseteq Named
BY LenProperties, CitationAssumption DEF TypeInv, Rows, Named

LEMMA RelocationType ==
    ASSUME NEW t \in Trees, NEW row \in Citations, NEW policy,
           NEW spot \in Relocations(t, row, policy)
    PROVE  spot \in Spots
<1>1. PICK place \in Places(t, row, policy) : spot = SpotAt(place, row.range)
  BY DEF Relocations
<1>2. place[1] \in Files /\ place[2] \in Nat
  BY <1>1 DEF Places, PlacesIn, Offsets, Citations
<1>3. row.range \in Ranges
  BY DEF Citations
<1>4. CASE row.range = Whole
  BY <1>1, <1>2, <1>4 DEF SpotAt, Spots, Ranges
<1>5. CASE row.range # Whole
  <2>1. /\ row.range[1] \in Nat /\ row.range[2] \in Nat /\ row.range[1] < row.range[2]
    BY <1>3, <1>5 DEF Ranges
  <2>2. <<place[2], place[2] + row.range[2] - row.range[1]>> \in Ranges
    BY <1>2, <2>1 DEF Ranges
  <2> QED BY <1>1, <1>2, <1>5, <2>2 DEF SpotAt, Spots
<1> QED BY <1>4, <1>5

(* Repointing a row keeps the entries what they are. *)
LEMMA RepointType ==
    ASSUME TypeInv, NEW r \in Named, NEW spot \in Spots, Repoint(r, spot)
    PROVE  /\ entries' \in Seq(EntryStates)
           /\ Len(entries') = Len(entries)
           /\ \A e \in DOMAIN entries : DOMAIN entries'[e].rows = DOMAIN entries[e].rows
<1> DEFINE e == r[1]
           k == r[2]
<1>1. CASE e \notin DOMAIN entries
  <2>1. entries' = entries
    BY <1>1, LenProperties DEF TypeInv, Repoint
  <2> QED BY <2>1 DEF TypeInv
<1>2. CASE e \in DOMAIN entries
  <2> DEFINE old == entries[e]
             new == [old EXCEPT !.rows[k] = Moved(@, spot)]
  <2>1. e \in 1..Len(entries) /\ old \in EntryStates
    BY <1>2, ElementOfSeq, LenProperties DEF TypeInv
  <2>2. old.live \in BOOLEAN /\ old.rows \in Seq(Citations) /\ (old.rows # <<>> => old.live)
    BY <2>1 DEF EntryStates
  <2>3. /\ [old.rows EXCEPT ![k] = Moved(@, spot)] \in Seq(Citations)
        /\ DOMAIN [old.rows EXCEPT ![k] = Moved(@, spot)] = DOMAIN old.rows
    <3>1. CASE k \in DOMAIN old.rows
      <4>1. old.rows[k] \in Citations /\ k \in 1..Len(old.rows)
        BY <2>2, <3>1, ElementOfSeq, LenProperties
      <4>2. Moved(old.rows[k], spot) \in Citations
        BY <4>1 DEF Moved, Citations, Spots
      <4> QED BY <2>2, <4>1, <4>2, ExceptSeq
    <3>2. CASE k \notin DOMAIN old.rows
      <4>1. [old.rows EXCEPT ![k] = Moved(@, spot)] = old.rows
        BY <2>2, <3>2, LenProperties
      <4> QED BY <2>2, <4>1
    <3> QED BY <3>1, <3>2
  <2>4. new = [live |-> old.live, rows |-> [old.rows EXCEPT ![k] = Moved(@, spot)]]
    BY <2>1 DEF EntryStates
  <2>5. new \in EntryStates /\ DOMAIN new.rows = DOMAIN old.rows
    <3>1. old.rows = <<>> => new.rows = <<>>
      BY <2>2, <2>3, <2>4, LenProperties, EmptySeq
    <3> QED BY <2>2, <2>3, <2>4, <3>1 DEF EntryStates
  <2>6. entries' = [entries EXCEPT ![e] = new]
    BY DEF Repoint
  <2> HIDE DEF new
  <2>7. /\ entries' \in Seq(EntryStates) /\ Len(entries') = Len(entries)
        /\ \A j \in 1..Len(entries) : entries'[j] = IF j = e THEN new ELSE entries[j]
    BY <2>1, <2>5, <2>6, ExceptSeq DEF TypeInv
  <2> QED BY <2>5, <2>7, LenProperties DEF TypeInv
<1> QED BY <1>1, <1>2

-----------------------------------------------------------------------------
(* Every action keeps the types.                                           *)

LEMMA TypeInit == ASSUME Init PROVE TypeInv
<1>1. /\ setup.tree \in Trees /\ setup.entries \in Seq(EntryStates) /\ setup.edits \in Nat
  BY CitationAssumption DEF Init, Trees
<1>2. NoAdd \in Adds /\ NoAdd.phase # "compress"
  BY EmptySeq DEF NoAdd, Adds
<1>3. NoHeal \in Heals /\ NoMigration \in Migrations
  BY DEF NoHeal, Heals, NoMigration, Migrations
<1> QED BY <1>1, <1>2, <1>3 DEF Init, TypeInv

(* What an edit leaves in the file. *)
LEMMA EditType ==
    ASSUME TypeInv, NEW f \in Files, NEW file \in FileStates, Edit(f, file)
    PROVE  TypeInv'
<1>1. tree' \in Trees
  BY DEF TypeInv, Trees, Edit
<1>2. seen' \subseteq Trees
  BY <1>1 DEF TypeInv, Edit
<1>3. edits' \in 0..setup.edits
  BY SetupType DEF TypeInv, Edit
<1> QED BY <1>1, <1>2, <1>3 DEF TypeInv, Edit

LEMMA UserType ==
    ASSUME TypeInv, NEW f \in Files,
           \/ \E text \in setup.texts : EditInPlace(f, text) \/ Replace(f, text)
           \/ Remove(f)
    PROVE  \E file \in FileStates : Edit(f, file)
<1>1. ASSUME NEW text \in setup.texts, EditInPlace(f, text)
      PROVE  \E file \in FileStates : Edit(f, file)
  <2>1. text \in Seq(Blocks) \ {<<>>} /\ tree[f].ino \in Files \X Nat
    BY <1>1, SetupType, PresentType DEF EditInPlace, TypeInv
  <2>2. [ino |-> tree[f].ino, text |-> text] \in FileStates
    BY <2>1 DEF FileStates
  <2> QED BY <1>1, <2>2 DEF EditInPlace
<1>2. ASSUME NEW text \in setup.texts, Replace(f, text)
      PROVE  \E file \in FileStates : Edit(f, file)
  <2>1. text \in Seq(Blocks) \ {<<>>} /\ <<f, edits + 1>> \in Files \X Nat
    BY SetupType
  <2>2. [ino |-> <<f, edits + 1>>, text |-> text] \in FileStates
    BY <2>1 DEF FileStates
  <2> QED BY <1>2, <2>2 DEF Replace
<1>3. ASSUME Remove(f) PROVE \E file \in FileStates : Edit(f, file)
  BY <1>3 DEF Remove, FileStates
<1> QED BY <1>1, <1>2, <1>3

LEMMA ExpireType ==
    ASSUME TypeInv, NEW e \in DOMAIN entries, Expire(e)
    PROVE  TypeInv' /\ Len(entries') = Len(entries)
<1>1. Stale \in EntryStates
  BY EmptySeq DEF Stale, EntryStates
<1>2. e \in 1..Len(entries)
  BY LenProperties DEF TypeInv
<1>3. entries' \in Seq(EntryStates) /\ Len(entries') = Len(entries)
  BY <1>1, <1>2, ExceptSeq DEF Expire, TypeInv
<1>4. DOMAIN entries' = DOMAIN entries
  BY <1>3, LenProperties DEF TypeInv
<1> QED BY <1>3, <1>4 DEF Expire, TypeInv

(* A step of add, which leaves everything else alone but the lock. *)
LEMMA AddStepType ==
    ASSUME TypeInv, UNCHANGED entries, AddOnly, add' \in Adds,
           add'.phase = "compress" => add'.from \in DOMAIN entries,
           Hold \/ Release \/ Take("add")
    PROVE  TypeInv'
<1>1. seen' \subseteq Trees
  BY DEF TypeInv, Hold, Release, Take
<1> QED BY <1>1 DEF TypeInv, AddOnly

LEMMA RefusedType == ASSUME TypeInv, AddRefused PROVE TypeInv'
<1>1. NoAdd \in Adds /\ NoAdd.phase # "compress"
  BY EmptySeq DEF NoAdd, Adds
<1> QED BY <1>1, AddStepType DEF AddRefused

LEMMA CiteType ==
    ASSUME TypeInv, NEW c \in setup.cites, NEW hashed \in BOOLEAN,
           Cite(c.file, c.range, c.excerpt, hashed)
    PROVE  TypeInv'
<1> DEFINE hash == IF hashed THEN HashOf(tree, c.file, c.range) ELSE NoHash
           row == [file |-> c.file, range |-> c.range, excerpt |-> c.excerpt, hash |-> hash]
<1>1. c.file \in Files /\ c.range \in Ranges /\ c.excerpt \in Seq(Blocks)
  BY SetupType
<1>2. hash \in Seq(Blocks)
  BY <1>1, HashType, EmptySeq DEF Cite, NoHash, TypeInv
<1> HIDE DEF hash
<1>3. row \in Citations
  BY <1>1, <1>2 DEF Citations
<1>4. add' = [add EXCEPT !.draft = Append(@, row)]
  BY DEF Cite, hash
<1> HIDE DEF row
<1>5. Append(add.draft, row) \in Seq(Citations)
  BY <1>3 DEF TypeInv, Adds
<1>6. add' \in Adds /\ add'.phase = add.phase
  BY <1>4, <1>5 DEF TypeInv, Adds
<1> QED BY <1>6, AddStepType DEF Cite

LEMMA CompressType == ASSUME TypeInv, CompressRead \/ CompressEvidence PROVE TypeInv'
<1>1. CASE CompressRead
  <2>1. PICK e \in LiveEntries :
           add' = [NoAdd EXCEPT !.phase = "compress", !.from = e, !.replace = TRUE]
    BY <1>1 DEF CompressRead
  <2>2. e \in DOMAIN entries /\ e \in Nat
    BY LenProperties DEF LiveEntries, TypeInv
  <2>3. add' \in Adds /\ add'.from = e
    BY <2>1, <2>2, EmptySeq DEF NoAdd, Adds
  <2> QED BY <1>1, <2>2, <2>3, AddStepType DEF CompressRead
<1>2. CASE CompressEvidence
  <2>1. entries[add.from] \in EntryStates
    BY <1>2, ElementOfSeq, LenProperties DEF CompressEvidence, TypeInv
  <2>2. add' \in Adds /\ add'.phase = "ready"
    BY <1>2, <2>1 DEF CompressEvidence, TypeInv, Adds, EntryStates
  <2> QED BY <1>2, <2>2, AddStepType DEF CompressEvidence
<1> QED BY <1>1, <1>2

LEMMA AddBeginType ==
    ASSUME TypeInv, NEW replace \in BOOLEAN, AddBegin(replace)
    PROVE  TypeInv'
<1>1. add' \in Adds /\ add'.phase = "add"
  BY DEF AddBegin, TypeInv, Adds
<1> QED BY <1>1, AddStepType DEF AddBegin

(* The hash of a former is the hash of one of them. *)
LEMMA FormerIsSame ==
    ASSUME NEW k, NEW ino, Same(k, ino) # {}
    PROVE  \E j \in Same(k, ino) : Former(k, ino) = add.resolved[j].hash
BY DEF Former

LEMMA ResolveType ==
    ASSUME TypeInv, Resolve
    PROVE  TypeInv'
<1> DEFINE k == Len(add.resolved) + 1
           c == add.draft[k]
           ino == tree[c.file].ino
           hash == IF Same(k, ino) # {} THEN Former(k, ino) ELSE HashOf(tree, c.file, c.range)
<1>1. k \in Nat /\ k >= 1 /\ k <= Len(add.draft) /\ add.resolved \in Seq(Seen)
      /\ add.draft \in Seq(Citations)
  BY LenProperties DEF Resolve, TypeInv, Adds
<1>2. c \in Citations
  BY <1>1, ElementOfSeq, LenProperties
<1>3. CASE /\ Present(tree, c.file)
           /\ Same(k, ino) # {} \/ Readable(tree, c.file, c.range)
           /\ add' = [add EXCEPT !.resolved = Append(@, [ino |-> ino, hash |-> hash])]
           /\ UNCHANGED entries /\ Hold /\ AddOnly
  <2>1. ino \in Files \X Nat
    BY <1>2, <1>3, PresentType DEF Citations, TypeInv
  <2>2. hash \in Seq(Blocks)
    <3>1. CASE Same(k, ino) # {}
      <4>1. PICK j \in Same(k, ino) : Former(k, ino) = add.resolved[j].hash
        BY <3>1, FormerIsSame
      <4>2. add.resolved[j] \in Seen
        BY <1>1, <4>1, ElementOfSeq, LenProperties DEF Same
      <4> QED BY <3>1, <4>1, <4>2 DEF Seen
    <3>2. CASE Same(k, ino) = {}
      BY <1>2, <1>3, <3>2, HashType DEF Citations, TypeInv
    <3> QED BY <3>1, <3>2
  <2> HIDE DEF hash, ino
  <2>3. Append(add.resolved, [ino |-> ino, hash |-> hash]) \in Seq(Seen)
    BY <1>1, <2>1, <2>2 DEF Seen
  <2>4. add' \in Adds /\ add'.phase = add.phase
    BY <1>3, <2>3 DEF TypeInv, Adds
  <2> QED BY <1>3, <2>4, AddStepType DEF TypeInv, Resolve
<1>4. CASE AddRefused
  BY <1>4, RefusedType
<1> QED BY <1>3, <1>4 DEF Resolve

LEMMA ReverifyType == ASSUME TypeInv, Reverify PROVE TypeInv'
<1>1. CASE add' = [add EXCEPT !.verified = @ + 1] /\ UNCHANGED entries /\ Hold /\ AddOnly
  <2>1. add.verified + 1 \in Nat
    BY DEF TypeInv, Adds
  <2>2. add' \in Adds /\ add'.phase = add.phase
    BY <1>1, <2>1, Zenon DEF TypeInv, Adds
  <2> QED BY <1>1, <2>2, AddStepType DEF TypeInv
<1>2. CASE AddRefused
  BY <1>2, RefusedType
<1> QED BY <1>1, <1>2 DEF Reverify

(* The entry that an add appends, and what becomes of the others. *)
LEMMA AppendType ==
    ASSUME TypeInv, AddAppend
    PROVE  /\ TypeInv'
           /\ Len(entries') = Len(entries) + 1
           /\ entries'[Len(entries')].rows =
                 [k \in DOMAIN add.draft |->
                     [add.draft[k] EXCEPT !.hash = add.resolved[k].hash]]
<1> DEFINE rows == [k \in DOMAIN add.draft |->
                       [add.draft[k] EXCEPT !.hash = add.resolved[k].hash]]
           new == [live |-> TRUE, rows |-> rows]
           kept == [e \in DOMAIN entries |-> IF add.replace THEN Stale ELSE entries[e]]
<1>1. /\ add.draft \in Seq(Citations) /\ add.resolved \in Seq(Seen)
      /\ Len(add.resolved) = Len(add.draft)
  BY DEF AddAppend, Resolved, TypeInv, Adds
<1>2. rows \in Seq(Citations)
  <2>1. ASSUME NEW k \in 1..Len(add.draft)
        PROVE  [add.draft[k] EXCEPT !.hash = add.resolved[k].hash] \in Citations
    <3>1. add.draft[k] \in Citations /\ add.resolved[k] \in Seen
      BY <1>1, ElementOfSeq
    <3> QED BY <3>1 DEF Citations, Seen
  <2>2. Len(add.draft) \in Nat /\ DOMAIN add.draft = 1..Len(add.draft)
    BY <1>1, LenProperties
  <2> QED BY <2>1, <2>2
<1>3. new \in EntryStates
  BY <1>2 DEF EntryStates
<1>4. kept \in Seq(EntryStates) /\ Len(kept) = Len(entries)
  <2>1. Stale \in EntryStates
    BY EmptySeq DEF Stale, EntryStates
  <2>2. \A e \in 1..Len(entries) : entries[e] \in EntryStates
    BY ElementOfSeq DEF TypeInv
  <2>3. Len(entries) \in Nat /\ DOMAIN entries = 1..Len(entries)
    BY LenProperties DEF TypeInv
  <2> QED BY <2>1, <2>2, <2>3
<1>5. entries' = Append(kept, new)
  BY DEF AddAppend
<1> HIDE DEF new, kept
<1>6. /\ entries' \in Seq(EntryStates) /\ Len(entries') = Len(entries) + 1
      /\ entries'[Len(entries')] = new
  BY <1>3, <1>4, <1>5, AppendProperties
<1>7. add' \in Adds /\ add'.phase # "compress"
  BY EmptySeq DEF AddAppend, NoAdd, Adds
<1> QED BY <1>6, <1>7 DEF AddAppend, AddOnly, Release, TypeInv, new

(* A step of heal that leaves entries as long as they are. *)
LEMMA HealStepType ==
    ASSUME TypeInv, HealOnly, heal' \in Heals,
           entries' \in Seq(EntryStates), Len(entries') = Len(entries),
           Hold \/ Release \/ Take("heal")
    PROVE  TypeInv'
<1>1. seen' \subseteq Trees
  BY DEF TypeInv, Hold, Release, Take
<1>2. DOMAIN entries' = DOMAIN entries
  BY LenProperties DEF TypeInv
<1> QED BY <1>1, <1>2 DEF TypeInv, HealOnly

LEMMA HealPlanType ==
    ASSUME TypeInv, NEW policy \in Policies, HealPlan(policy)
    PROVE  TypeInv'
<1> DEFINE lost == {r \in Rows : Stands(r) /\ Decayed(tree, Row(r))}
           plan == UNION {{[row |-> r, from |-> Spot(Row(r)), to |-> spot] :
                              spot \in Relocations(tree, Row(r), policy)} : r \in lost}
<1>1. plan \subseteq Moves
  <2>1. SUFFICES ASSUME NEW r \in lost, NEW spot \in Relocations(tree, Row(r), policy)
                 PROVE  [row |-> r, from |-> Spot(Row(r)), to |-> spot] \in Moves
    OBVIOUS
  <2>2. r \in Named /\ Row(r) \in Citations
    BY NamedType, RowType
  <2>3. spot \in Spots /\ Spot(Row(r)) \in Spots
    BY <2>2, RelocationType DEF Spot, Spots, Citations, TypeInv
  <2> QED BY <2>2, <2>3 DEF Moves
<1>2. heal' = [NoHeal EXCEPT !.policy = policy, !.plan = plan]
  BY DEF HealPlan
<1> HIDE DEF plan
<1>3. heal' \in Heals
  BY <1>1, <1>2 DEF NoHeal, Heals
<1> QED BY <1>3, HealStepType DEF HealPlan, TypeInv

LEMMA HealCheckType ==
    ASSUME TypeInv, NEW p \in heal.plan, HealCheck(p)
    PROVE  TypeInv'
<1>1. heal' \in Heals
  BY DEF HealCheck, TypeInv, Heals
<1> QED BY <1>1, HealStepType DEF HealCheck, TypeInv

LEMMA HealSearchType ==
    ASSUME TypeInv, NEW p \in heal.decayed, HealSearch(p)
    PROVE  TypeInv' /\ Len(entries') = Len(entries)
<1>1. p.row \in Named /\ p.to \in Spots
  BY DEF TypeInv, Heals, Moves
<1>2. entries' \in Seq(EntryStates) /\ Len(entries') = Len(entries)
  BY <1>1, RepointType DEF HealSearch, TypeInv
<1>3. heal' \in Heals
  BY DEF HealSearch, TypeInv, Heals
<1> QED BY <1>2, <1>3, HealStepType DEF HealSearch

LEMMA HealEndsType == ASSUME TypeInv, HealBegin \/ HealEnd PROVE TypeInv'
<1>1. heal' \in Heals
  BY DEF HealBegin, HealEnd, NoHeal, TypeInv, Heals
<1> QED BY <1>1, HealStepType DEF HealBegin, HealEnd, TypeInv

LEMMA MigrateStepType ==
    ASSUME TypeInv, MigrateOnly, migrate' \in Migrations,
           entries' \in Seq(EntryStates), Len(entries') = Len(entries),
           Hold \/ Release \/ Take("migrate")
    PROVE  TypeInv'
<1>1. seen' \subseteq Trees
  BY DEF TypeInv, Hold, Release, Take
<1>2. DOMAIN entries' = DOMAIN entries
  BY LenProperties DEF TypeInv
<1> QED BY <1>1, <1>2 DEF TypeInv, MigrateOnly

LEMMA AbortType == ASSUME TypeInv, MigrateAbort PROVE TypeInv'
<1>1. migrate' \in Migrations
  BY DEF MigrateAbort, NoMigration, Migrations
<1> QED BY <1>1, MigrateStepType DEF MigrateAbort, TypeInv

LEMMA MigrateEndsType ==
    ASSUME TypeInv, MigratePlan \/ MigrateBegin \/ MigrateEnd
    PROVE  TypeInv'
<1>1. CASE MigratePlan
  <2>1. migrate' \in Migrations
    BY <1>1, NamedType DEF MigratePlan, NoMigration, Migrations
  <2> QED BY <1>1, <2>1, MigrateStepType DEF MigratePlan, TypeInv
<1>2. CASE MigrateBegin
  BY <1>2, MigrateStepType DEF MigrateBegin, TypeInv
<1>3. CASE MigrateEnd
  BY <1>3, AbortType DEF MigrateEnd
<1> QED BY <1>1, <1>2, <1>3

LEMMA MigrateClassifyType ==
    ASSUME TypeInv, RowsInv, NEW r \in migrate.plan, MigrateClassify(r)
    PROVE  TypeInv'
<1> DEFINE next == IF Stands(r) /\ Migratable(tree, Row(r))
                   THEN <<r, tree[Row(r).file].ino>> ELSE <<>>
<1>1. CASE MigrateAbort
  BY <1>1, AbortType
<1>2. CASE /\ migrate' = [plan |-> migrate.plan \ {r}, next |-> next]
           /\ UNCHANGED entries /\ Hold /\ MigrateOnly
  <2>1. migrate.plan \subseteq Named /\ r \in Named /\ r \in Rows
    BY DEF TypeInv, RowsInv, Migrations
  <2>2. next \in {<<>>} \cup Named \X (Files \X Nat)
    <3>1. CASE Stands(r) /\ Migratable(tree, Row(r))
      <4>1. tree \in Trees /\ Row(r).file \in Files /\ Present(tree, Row(r).file)
        BY <2>1, <3>1, RowType DEF Citations, Migratable, TypeInv
      <4>2. tree[Row(r).file].ino \in Files \X Nat
        BY <4>1, PresentType
      <4> QED BY <2>1, <3>1, <4>2
    <3>2. CASE ~(Stands(r) /\ Migratable(tree, Row(r)))
      BY <3>2
    <3> QED BY <3>1, <3>2
  <2> HIDE DEF next
  <2>3. migrate' \in Migrations
    BY <1>2, <2>1, <2>2 DEF Migrations
  <2> QED BY <1>2, <2>3, MigrateStepType DEF TypeInv
<1> QED BY <1>1, <1>2 DEF MigrateClassify

LEMMA MigrateAppendType ==
    ASSUME TypeInv, RowsInv, Stands(migrate.next[1]), MigrateAppend
    PROVE  TypeInv' /\ Len(entries') = Len(entries)
<1> DEFINE r == migrate.next[1]
<1>1. r \in Named /\ r \in Rows
  BY NamedType DEF MigrateAppend, TypeInv, RowsInv
<1>2. CASE MigrateAbort
  BY <1>2, AbortType DEF MigrateAbort
<1>3. CASE /\ Repoint(r, Bare(Row(r))) \/ UNCHANGED entries
           /\ migrate' = [migrate EXCEPT !.next = <<>>]
           /\ Hold /\ MigrateOnly
  <2>1. Bare(Row(r)) \in Spots
    BY <1>1, RowType DEF Bare, Spots, Citations, Ranges
  <2>2. entries' \in Seq(EntryStates) /\ Len(entries') = Len(entries)
    BY <1>1, <1>3, <2>1, RepointType DEF TypeInv
  <2>3. migrate' \in Migrations
    BY <1>3 DEF TypeInv, Migrations
  <2> QED BY <1>3, <2>2, <2>3, MigrateStepType
<1> QED BY <1>2, <1>3 DEF MigrateAppend

-----------------------------------------------------------------------------
(* The lock, and the rows that are worked on while it is held.             *)

LockInv ==
    /\ holder = Nobody <=> seen = {}
    /\ holder # Nobody => tree \in seen
    /\ holder = "add" <=> add.phase = "add"
    /\ migrate.next # <<>> => holder = "migrate" /\ Stands(migrate.next[1])
    /\ \A p \in heal.decayed : holder = "heal" /\ Stands(p.row)

Inv1 == TypeInv /\ RowsInv /\ LockInv

(* Rows stay where they are as long as entries are not taken away. *)
LEMMA RowsGrow ==
    ASSUME TypeInv, TypeInv', Len(entries') >= Len(entries)
    PROVE  Rows \subseteq Rows'
<1>1. DOMAIN entries \subseteq DOMAIN entries'
  BY LenProperties DEF TypeInv
<1> QED BY <1>1 DEF Rows

LEMMA RowsSame == ASSUME UNCHANGED entries PROVE Rows' = Rows
BY DEF Rows

LEMMA Init1 == ASSUME Init PROVE Inv1
<1>1. TypeInv
  BY TypeInit
<1>2. RowsInv /\ LockInv
  BY DEF Init, RowsInv, LockInv, NoAdd, NoHeal, NoMigration, Nobody
<1> QED BY <1>1, <1>2 DEF Inv1

LEMMA User1 ==
    ASSUME Inv1, NEW f \in Files,
           \/ \E text \in setup.texts : EditInPlace(f, text) \/ Replace(f, text)
           \/ Remove(f)
    PROVE  Inv1'
<1>1. PICK file \in FileStates : Edit(f, file)
  BY UserType DEF Inv1
<1>2. TypeInv'
  BY <1>1, EditType DEF Inv1
<1>3. RowsInv'
  BY <1>1 DEF Inv1, RowsInv, Edit, Rows
<1>4. LockInv'
  BY <1>1 DEF Inv1, LockInv, Edit, Stands
<1> QED BY <1>2, <1>3, <1>4 DEF Inv1

LEMMA Expire1 == ASSUME Inv1, NEW e \in DOMAIN entries, Expire(e) PROVE Inv1'
<1>1. TypeInv' /\ Len(entries') = Len(entries)
  BY ExpireType DEF Inv1
<1>2. Rows \subseteq Rows'
  BY <1>1, RowsGrow, LenProperties DEF Inv1, TypeInv
<1>3. RowsInv'
  BY <1>2 DEF Inv1, RowsInv, Expire
<1>4. LockInv'
  BY DEF Inv1, LockInv, Expire, Nobody
<1> QED BY <1>1, <1>3, <1>4 DEF Inv1

(* A step of add that leaves the entries alone. *)
LEMMA AddStep1 ==
    ASSUME Inv1, TypeInv', UNCHANGED entries, AddOnly,
           \/ Hold /\ add'.phase = "add" /\ add.phase = "add"
           \/ Hold /\ add'.phase # "add" /\ add.phase # "add"
           \/ Release /\ add'.phase # "add" /\ add.phase = "add"
           \/ Take("add") /\ add'.phase = "add"
    PROVE  Inv1'
<1>1. RowsInv'
  BY DEF Inv1, RowsInv, AddOnly, Rows
<1>2. LockInv'
  BY DEF Inv1, LockInv, AddOnly, Hold, Release, Take, Stands, Nobody
<1> QED BY <1>1, <1>2 DEF Inv1

LEMMA Add1 ==
    ASSUME Inv1,
           \/ \E c \in setup.cites, hashed \in BOOLEAN :
                 Cite(c.file, c.range, c.excerpt, hashed)
           \/ CompressRead \/ CompressEvidence
           \/ \E replace \in BOOLEAN : AddBegin(replace)
           \/ Resolve \/ Reverify
    PROVE  Inv1'
<1> USE DEF Inv1
<1>1. ASSUME NEW c \in setup.cites, NEW hashed \in BOOLEAN,
             Cite(c.file, c.range, c.excerpt, hashed)
      PROVE  Inv1'
  <2>1. add'.phase # "add" /\ add.phase # "add"
    BY <1>1 DEF Cite, TypeInv, Adds
  <2> QED BY <1>1, <2>1, CiteType, AddStep1 DEF Cite
<1>2. CASE CompressRead
  <2>1. add'.phase # "add" /\ add.phase # "add"
    BY <1>2 DEF CompressRead, NoAdd
  <2> QED BY <1>2, <2>1, CompressType, AddStep1 DEF CompressRead
<1>3. CASE CompressEvidence
  <2>1. add'.phase # "add" /\ add.phase # "add"
    BY <1>3 DEF CompressEvidence, TypeInv, Adds
  <2> QED BY <1>3, <2>1, CompressType, AddStep1 DEF CompressEvidence
<1>4. ASSUME NEW replace \in BOOLEAN, AddBegin(replace) PROVE Inv1'
  <2>1. add'.phase = "add"
    BY <1>4 DEF AddBegin, TypeInv, Adds
  <2> QED BY <1>4, <2>1, AddBeginType, AddStep1 DEF AddBegin
<1>5. CASE Resolve
  <2>1. TypeInv' /\ add.phase = "add" /\ add \in Adds
    BY <1>5, ResolveType DEF Resolve, TypeInv
  <2>2. CASE AddRefused
    <3>1. add'.phase # "add"
      BY <2>2 DEF AddRefused, NoAdd
    <3> QED BY <2>1, <2>2, <3>1, AddStep1 DEF AddRefused
  <2>3. CASE UNCHANGED entries /\ Hold /\ AddOnly /\ add'.phase = add.phase
    BY <2>1, <2>3, AddStep1
  <2> QED BY <1>5, <2>1, <2>2, <2>3 DEF Resolve, Adds
<1>6. CASE Reverify
  <2>1. TypeInv' /\ add.phase = "add" /\ add \in Adds
    BY <1>6, ReverifyType DEF Reverify, TypeInv
  <2>2. CASE AddRefused
    <3>1. add'.phase # "add"
      BY <2>2 DEF AddRefused, NoAdd
    <3> QED BY <2>1, <2>2, <3>1, AddStep1 DEF AddRefused
  <2>3. CASE UNCHANGED entries /\ Hold /\ AddOnly /\ add'.phase = add.phase
    BY <2>1, <2>3, AddStep1
  <2> QED BY <1>6, <2>1, <2>2, <2>3 DEF Reverify, Adds
<1> QED BY <1>1, <1>2, <1>3, <1>4, <1>5, <1>6

LEMMA Append1 == ASSUME Inv1, AddAppend PROVE Inv1'
<1>1. TypeInv' /\ Len(entries') >= Len(entries)
  BY AppendType, LenProperties DEF Inv1, TypeInv
<1>2. RowsInv'
  BY <1>1, RowsGrow DEF Inv1, RowsInv, AddAppend, AddOnly
<1>3. LockInv'
  BY DEF Inv1, LockInv, AddAppend, AddOnly, Release, NoAdd, Nobody
<1> QED BY <1>1, <1>2, <1>3 DEF Inv1

LEMMA Heal1 ==
    ASSUME Inv1,
           \/ \E policy \in Policies : HealPlan(policy)
           \/ HealBegin \/ HealEnd
           \/ \E p \in heal.plan : HealCheck(p)
           \/ \E p \in heal.decayed : HealSearch(p)
    PROVE  Inv1'
<1> USE DEF Inv1
<1>1. ASSUME NEW policy \in Policies, HealPlan(policy) PROVE Inv1'
  <2> DEFINE lost == {r \in Rows : Stands(r) /\ Decayed(tree, Row(r))}
             plan == UNION {{[row |-> r, from |-> Spot(Row(r)), to |-> spot] :
                                spot \in Relocations(tree, Row(r), policy)} : r \in lost}
  <2>1. heal' = [NoHeal EXCEPT !.policy = policy, !.plan = plan]
    BY <1>1 DEF HealPlan
  <2>2. \A p \in plan : p.row \in Rows
    OBVIOUS
  <2> HIDE DEF plan
  <2>3. heal'.plan = plan /\ heal'.decayed = {}
    BY <2>1 DEF NoHeal
  <2>5. RowsInv'
    BY <1>1, <2>2, <2>3, RowsSame DEF RowsInv, HealPlan, HealOnly
  <2>4. LockInv'
    BY <1>1, <2>3 DEF LockInv, HealPlan, HealOnly, Hold, Stands
  <2> QED BY <1>1, <2>4, <2>5, HealPlanType
<1>2. CASE HealBegin \/ HealEnd
  <2>1. RowsInv'
    BY <1>2 DEF RowsInv, HealBegin, HealEnd, NoHeal, HealOnly, Rows
  <2>2. LockInv'
    BY <1>2 DEF LockInv, HealBegin, HealEnd, NoHeal, HealOnly, Take, Release, Stands, Nobody
  <2> QED BY <1>2, <2>1, <2>2, HealEndsType
<1>3. ASSUME NEW p \in heal.plan, HealCheck(p) PROVE Inv1'
  <2>1. heal'.plan \subseteq heal.plan /\ heal'.decayed \subseteq {p}
        /\ (heal'.decayed # {} => Confirmed(p))
    BY <1>3 DEF HealCheck, TypeInv, Heals
  <2>2. RowsInv'
    <3>1. Rows' = Rows /\ UNCHANGED migrate
      BY <1>3, RowsSame DEF HealCheck, HealOnly
    <3>2. \A q \in heal'.plan \cup heal'.decayed : q \in heal.plan
      BY <2>1
    <3> QED BY <3>1, <3>2 DEF RowsInv
  <2>3. LockInv'
    BY <1>3, <2>1 DEF LockInv, HealCheck, HealOnly, Hold, Confirmed, Stands
  <2> QED BY <1>3, <2>2, <2>3, HealCheckType
<1>4. ASSUME NEW p \in heal.decayed, HealSearch(p) PROVE Inv1'
  <2>1. TypeInv' /\ Len(entries') = Len(entries)
    BY <1>4, HealSearchType
  <2>2. Rows \subseteq Rows'
    BY <2>1, RowsGrow, LenProperties DEF TypeInv
  <2>3. heal'.decayed = {} /\ heal'.plan = heal.plan
    BY <1>4 DEF HealSearch, TypeInv, Heals
  <2>4. RowsInv'
    BY <1>4, <2>2, <2>3 DEF RowsInv, HealSearch, HealOnly
  <2>5. LockInv'
    BY <1>4, <2>3 DEF LockInv, HealSearch, HealOnly, Hold
  <2> QED BY <2>1, <2>4, <2>5
<1> QED BY <1>1, <1>2, <1>3, <1>4

LEMMA Migrate1 ==
    ASSUME Inv1,
           \/ MigratePlan \/ MigrateBegin \/ MigrateEnd \/ MigrateAppend
           \/ \E r \in migrate.plan : MigrateClassify(r)
    PROVE  Inv1'
<1> USE DEF Inv1
<1>1. ASSUME MigrateAbort, holder = "migrate" PROVE RowsInv' /\ LockInv'
  BY <1>1 DEF RowsInv, LockInv, MigrateAbort, NoMigration, MigrateOnly, Release, Stands,
              Rows, Nobody
<1>2. CASE MigratePlan
  <2>1. migrate'.plan \subseteq Rows /\ migrate'.next = <<>>
    BY <1>2 DEF MigratePlan, NoMigration
  <2>2. RowsInv'
    BY <1>2, <2>1 DEF RowsInv, MigratePlan, MigrateOnly, Rows
  <2>3. LockInv'
    BY <1>2, <2>1 DEF LockInv, MigratePlan, MigrateOnly, Hold, Stands
  <2> QED BY <1>2, <2>2, <2>3, MigrateEndsType
<1>3. CASE MigrateBegin
  <2>1. RowsInv'
    BY <1>3 DEF RowsInv, MigrateBegin, MigrateOnly, Rows
  <2>2. LockInv'
    BY <1>3 DEF LockInv, MigrateBegin, MigrateOnly, Take, Stands, Nobody
  <2> QED BY <1>3, <2>1, <2>2, MigrateEndsType
<1>4. CASE MigrateEnd
  BY <1>1, <1>4, MigrateEndsType DEF MigrateEnd
<1>5. CASE MigrateAppend
  <2>1. holder = "migrate" /\ Stands(migrate.next[1])
    BY <1>5 DEF MigrateAppend, LockInv
  <2>2. TypeInv' /\ Len(entries') = Len(entries)
    BY <1>5, <2>1, MigrateAppendType
  <2>3. CASE MigrateAbort
    BY <1>1, <2>1, <2>2, <2>3
  <2>4. CASE migrate' = [migrate EXCEPT !.next = <<>>] /\ Hold /\ MigrateOnly
    <3>1. migrate'.plan = migrate.plan /\ migrate'.next = <<>>
      BY <2>4 DEF TypeInv, Migrations
    <3>2. Rows \subseteq Rows'
      BY <2>2, RowsGrow, LenProperties DEF TypeInv
    <3>3. RowsInv'
      BY <2>4, <3>1, <3>2 DEF RowsInv, MigrateOnly
    <3>4. heal.decayed = {}
      BY <2>1 DEF LockInv
    <3>5. LockInv'
      BY <2>4, <3>1, <3>4 DEF LockInv, MigrateOnly, Hold
    <3> QED BY <2>2, <3>3, <3>5
  <2> QED BY <1>5, <2>3, <2>4 DEF MigrateAppend
<1>6. ASSUME NEW r \in migrate.plan, MigrateClassify(r) PROVE Inv1'
  <2>1. TypeInv' /\ holder = "migrate"
    BY <1>6, MigrateClassifyType DEF MigrateClassify
  <2>2. CASE MigrateAbort
    BY <1>1, <2>1, <2>2
  <2>3. CASE /\ migrate'.plan = migrate.plan \ {r}
             /\ migrate'.next # <<>> => migrate'.next[1] = r /\ Stands(r)
             /\ UNCHANGED entries /\ Hold /\ MigrateOnly
    <3>1. RowsInv'
      BY <2>3 DEF RowsInv, MigrateOnly, Rows
    <3>2. LockInv'
      BY <2>1, <2>3 DEF LockInv, MigrateOnly, Hold, Stands
    <3> QED BY <2>1, <3>1, <3>2
  <2> QED BY <1>6, <2>2, <2>3 DEF MigrateClassify
<1> QED BY <1>2, <1>3, <1>4, <1>5, <1>6

LEMMA Next1 == ASSUME Inv1, [Next]_vars PROVE Inv1'
<1>1. ASSUME UNCHANGED vars PROVE Inv1'
  BY <1>1 DEF vars, Inv1, TypeInv, RowsInv, LockInv, Rows, Stands
<1>2. ASSUME Next PROVE Inv1'
  BY <1>2, User1, Expire1, Add1, Append1, Heal1, Migrate1 DEF Next
<1> QED BY <1>1, <1>2

(* The types, the lock and the rows of those who work under it, in every state that *)
(* the commands and the user can reach. *)
THEOREM CitationTypes == Spec => []TypeOK
<1>1. Init => Inv1
  BY Init1
<1>2. Inv1 /\ [Next]_vars => Inv1'
  BY Next1
<1>3. Inv1 => TypeOK
  BY DEF Inv1, TypeInv, LockInv, TypeOK, Trees
<1> QED BY <1>1, <1>2, <1>3, PTL DEF Spec

-----------------------------------------------------------------------------
(* What a heal and a migration rewrite.                                    *)

HealInv == \A p \in heal.decayed : \E t \in seen : Decayed(t, Row(p.row))

MigrateInv ==
    migrate.next # <<>> => \E t \in seen : Migratable(t, Row(migrate.next[1]))

Inv2 == Inv1 /\ HealInv /\ MigrateInv

(* Rows change at one place only. *)
LEMMA RepointsOne ==
    ASSUME TypeInv, NEW r \in Rows, Stands(r), NEW spot, Repoint(r, spot), NEW q \in Repointed
    PROVE  q = r /\ entries'[q[1]].rows[q[2]] = Moved(Row(r), spot)
<1> DEFINE e == r[1]
           k == r[2]
<1>1. /\ r = <<e, k>> /\ e \in DOMAIN entries /\ k \in DOMAIN entries[e].rows
      /\ q = <<q[1], q[2]>> /\ q[1] \in DOMAIN entries
      /\ entries'[q[1]].rows[q[2]] # entries[q[1]].rows[q[2]]
  BY DEF Rows, Stands, Repointed, Row
<1>2. entries[e] \in EntryStates
  BY <1>1, ElementOfSeq, LenProperties DEF TypeInv
<1> DEFINE new == [entries[e] EXCEPT !.rows[k] = Moved(@, spot)]
<1>3. entries' = [entries EXCEPT ![e] = new]
  BY DEF Repoint
<1>4. q[1] = e
  BY <1>1, <1>3, LenProperties DEF TypeInv
<1>5. entries'[e].rows = [entries[e].rows EXCEPT ![k] = Moved(@, spot)]
  <2>1. new.rows = [entries[e].rows EXCEPT ![k] = Moved(@, spot)]
    BY <1>2 DEF EntryStates
  <2> HIDE DEF new
  <2>2. entries'[e] = new
    BY <1>1, <1>3, LenProperties DEF TypeInv
  <2> QED BY <2>1, <2>2
<1>6. entries[e].rows \in Seq(Citations)
  BY <1>2 DEF EntryStates
<1>7. q[2] = k
  BY <1>1, <1>4, <1>5, <1>6, LenProperties
<1>8. entries'[e].rows[k] = Moved(entries[e].rows[k], spot)
  BY <1>1, <1>5, <1>6, LenProperties
<1> QED BY <1>1, <1>4, <1>7, <1>8 DEF Row

(* Nobody else repoints rows while heal or migrate holds the lock. *)
LEMMA HealRepoints ==
    ASSUME Inv1, Next, holder = "heal", Repointed # {}
    PROVE  \E p \in heal.decayed : HealSearch(p)
<1>1. entries' # entries
  BY DEF Repointed, Row
<1> QED BY <1>1 DEF Next, Inv1, LockInv, Nobody, Edit, EditInPlace, Replace, Remove, Expire,
                   Cite, CompressRead, CompressEvidence, AddBegin, Resolve, Reverify,
                   AddAppend, AddRefused, HealPlan, HealBegin, HealCheck, HealEnd,
                   MigratePlan, MigrateBegin, MigrateClassify, MigrateAppend, MigrateEnd,
                   MigrateAbort

LEMMA MigrateRepoints ==
    ASSUME Inv1, Next, holder = "migrate", Repointed # {}
    PROVE  MigrateAppend
<1>1. entries' # entries
  BY DEF Repointed, Row
<1> QED BY <1>1 DEF Next, Inv1, LockInv, Nobody, Edit, EditInPlace, Replace, Remove, Expire,
                   Cite, CompressRead, CompressEvidence, AddBegin, Resolve, Reverify,
                   AddAppend, AddRefused, HealPlan, HealBegin, HealCheck, HealSearch, HealEnd,
                   MigratePlan, MigrateBegin, MigrateClassify, MigrateEnd, MigrateAbort

(* What was seen stays seen while the lock is held. *)
LEMMA SeenGrows ==
    ASSUME Inv2, UNCHANGED <<entries, heal, migrate>>, seen \subseteq seen'
    PROVE  HealInv' /\ MigrateInv'
BY DEF Inv2, HealInv, MigrateInv, Row

(* Nothing is in progress without the lock. *)
LEMMA Unlocked2 ==
    ASSUME Inv1', holder' \notin {"heal", "migrate"}
    PROVE  HealInv' /\ MigrateInv'
BY DEF Inv1, LockInv, HealInv, MigrateInv

LEMMA User2 ==
    ASSUME Inv2, NEW f \in Files,
           \/ \E text \in setup.texts : EditInPlace(f, text) \/ Replace(f, text)
           \/ Remove(f)
    PROVE  HealInv' /\ MigrateInv'
<1>1. PICK file : Edit(f, file)
  BY DEF EditInPlace, Replace, Remove
<1>2. seen \subseteq seen'
  BY <1>1 DEF Edit, Inv2, Inv1, LockInv
<1> QED BY <1>1, <1>2, SeenGrows DEF Edit

LEMMA Add2 ==
    ASSUME Inv2, Inv1',
           \/ \E c \in setup.cites, hashed \in BOOLEAN :
                 Cite(c.file, c.range, c.excerpt, hashed)
           \/ CompressRead \/ CompressEvidence
           \/ \E replace \in BOOLEAN : AddBegin(replace)
           \/ Resolve \/ Reverify \/ AddAppend
           \/ \E e \in DOMAIN entries : Expire(e)
    PROVE  HealInv' /\ MigrateInv'
<1>1. \/ UNCHANGED entries /\ AddOnly /\ Hold
      \/ holder' \notin {"heal", "migrate"}
  BY DEF Cite, CompressRead, CompressEvidence, AddBegin, Resolve, Reverify, AddRefused,
         AddAppend, Expire, Take, Release, Nobody
<1> QED BY <1>1, SeenGrows, Unlocked2 DEF AddOnly, Hold

LEMMA Heal2 ==
    ASSUME Inv2, Inv1',
           \/ \E policy \in Policies : HealPlan(policy)
           \/ HealBegin \/ HealEnd
           \/ \E p \in heal.plan : HealCheck(p)
           \/ \E p \in heal.decayed : HealSearch(p)
    PROVE  HealInv' /\ MigrateInv'
<1> USE DEF Inv2, Inv1
<1>1. CASE holder' = Nobody
  BY <1>1, Unlocked2 DEF Nobody
<1>2. CASE HealBegin
  BY <1>2 DEF HealBegin, HealOnly, Take, LockInv, HealInv, MigrateInv, Nobody
<1>3. CASE HealEnd
  BY <1>1, <1>3 DEF HealEnd, Release
<1>4. ASSUME NEW policy \in Policies, HealPlan(policy) PROVE HealInv' /\ MigrateInv'
  <2>1. heal'.decayed = {}
    BY <1>4 DEF HealPlan, NoHeal
  <2> QED BY <1>4, <2>1 DEF HealPlan, HealOnly, Hold, HealInv, MigrateInv, Row
<1>5. ASSUME NEW p \in heal.plan, HealCheck(p) PROVE HealInv' /\ MigrateInv'
  <2>1. heal'.decayed # {} => heal'.decayed = {p} /\ Decayed(tree, Row(p.row))
    BY <1>5 DEF HealCheck, Confirmed, TypeInv, Heals
  <2>2. tree \in seen /\ migrate.next = <<>>
    BY <1>5 DEF HealCheck, LockInv, Nobody
  <2> QED BY <1>5, <2>1, <2>2 DEF HealCheck, HealOnly, Hold, HealInv, MigrateInv, Row
<1>6. ASSUME NEW p \in heal.decayed, HealSearch(p) PROVE HealInv' /\ MigrateInv'
  <2>1. heal'.decayed = {}
    BY <1>6 DEF HealSearch, TypeInv, Heals
  <2>2. migrate.next = <<>>
    BY <1>6 DEF LockInv
  <2> QED BY <1>6, <2>1, <2>2 DEF HealSearch, HealOnly, HealInv, MigrateInv
<1> QED BY <1>2, <1>3, <1>4, <1>5, <1>6

LEMMA Migrate2 ==
    ASSUME Inv2, Inv1',
           \/ MigratePlan \/ MigrateBegin \/ MigrateEnd \/ MigrateAppend
           \/ \E r \in migrate.plan : MigrateClassify(r)
    PROVE  HealInv' /\ MigrateInv'
<1> USE DEF Inv2, Inv1
<1>1. CASE MigrateAbort
  BY <1>1, Unlocked2 DEF MigrateAbort, Release, Nobody
<1>2. CASE MigratePlan
  <2>1. migrate'.next = <<>>
    BY <1>2 DEF MigratePlan, NoMigration
  <2> QED BY <1>2, <2>1 DEF MigratePlan, MigrateOnly, Hold, HealInv, MigrateInv, Row
<1>3. CASE MigrateBegin
  BY <1>3 DEF MigrateBegin, MigrateOnly, Take, LockInv, HealInv, MigrateInv, Nobody
<1>4. CASE MigrateEnd
  BY <1>1, <1>4 DEF MigrateEnd
<1>5. CASE MigrateAppend
  <2>1. CASE migrate' = [migrate EXCEPT !.next = <<>>] /\ MigrateOnly
    <3>1. migrate'.next = <<>> /\ heal'.decayed = {}
      BY <1>5, <2>1 DEF MigrateAppend, MigrateOnly, LockInv, TypeInv, Migrations
    <3> QED BY <3>1 DEF HealInv, MigrateInv
  <2> QED BY <1>1, <1>5, <2>1 DEF MigrateAppend
<1>6. ASSUME NEW r \in migrate.plan, MigrateClassify(r) PROVE HealInv' /\ MigrateInv'
  <2>1. tree \in seen /\ heal.decayed = {}
    BY <1>6 DEF MigrateClassify, LockInv, Nobody
  <2>2. CASE /\ migrate'.next # <<>> => migrate'.next[1] = r /\ Migratable(tree, Row(r))
             /\ UNCHANGED entries /\ Hold /\ MigrateOnly
    BY <2>1, <2>2 DEF MigrateOnly, Hold, HealInv, MigrateInv, Row
  <2> QED BY <1>1, <1>6, <2>2 DEF MigrateClassify
<1> QED BY <1>2, <1>3, <1>4, <1>5, <1>6

LEMMA Next2 == ASSUME Inv2, [Next]_vars PROVE Inv2'
<1>1. Inv1'
  BY Next1 DEF Inv2
<1>2. CASE UNCHANGED vars
  BY <1>1, <1>2, SeenGrows DEF vars, Inv2
<1>3. CASE Next
  BY <1>1, <1>3, User2, Add2, Heal2, Migrate2 DEF Next, Inv2
<1> QED BY <1>2, <1>3

LEMMA Always2 == Spec => []Inv2
<1>1. Init => Inv2
  BY Init1 DEF Init, Inv2, HealInv, MigrateInv, NoHeal, NoMigration
<1>2. Inv2 /\ [Next]_vars => Inv2'
  BY Next2
<1> QED BY <1>1, <1>2, PTL DEF Spec

(* What a step of heal does to a row that it repoints. *)
LEMMA HealMoves ==
    ASSUME Inv2, [Next]_vars, holder = "heal", NEW r \in Repointed
    PROVE  \E spot \in Spots :
              /\ Row(r) \in Citations /\ \E t \in seen : Decayed(t, Row(r))
              /\ Relocations(tree, Row(r), heal.policy) = {spot}
              /\ entries'[r[1]].rows[r[2]] = Moved(Row(r), spot)
<1> USE DEF Inv2, Inv1
<1>1. Next
  BY DEF vars, Repointed, Row
<1>2. PICK p \in heal.decayed : HealSearch(p)
  BY <1>1, HealRepoints
<1>3. /\ Relocations(tree, Row(p.row), heal.policy) = {p.to} /\ Repoint(p.row, p.to)
      /\ p.to \in Spots /\ p.row \in Rows /\ Stands(p.row)
  BY <1>2 DEF HealSearch, Repointed, Row, TypeInv, Heals, Moves, RowsInv, LockInv
<1>4. r = p.row /\ entries'[r[1]].rows[r[2]] = Moved(Row(r), p.to)
  BY <1>3, RepointsOne
<1> QED BY <1>3, <1>4, RowType DEF HealInv

LEMMA MovedThere ==
    ASSUME NEW row \in Citations, NEW spot \in Spots
    PROVE  /\ Spot(Moved(row, spot)) = spot
           /\ Moved(row, spot).file = spot.file /\ Moved(row, spot).range = spot.range
           /\ Moved(row, spot).hash = row.hash /\ Moved(row, spot).excerpt = row.excerpt
BY DEF Citations, Spots, Moved, Spot

(* The relocation is idempotent: what was moved to the one place of its excerpt is *)
(* there, and goes nowhere. *)
LEMMA RelocatedStays ==
    ASSUME NEW t \in Trees, NEW row \in Citations, NEW policy, NEW spot \in Spots,
           Relocations(t, row, policy) = {spot}
    PROVE  Relocations(t, Moved(row, spot), policy) = {}
<1> DEFINE moved == Moved(row, spot)
<1>1. PICK place \in Places(t, row, policy) : spot = SpotAt(place, row.range)
  BY DEF Relocations
<1>2. \A p \in Places(t, row, policy) : p = place
  BY <1>1 DEF Relocations
<1>3. place[2] \in Nat /\ (policy = "FileOnly" => place[1] = row.file)
  <2>1. PICK f \in IF policy = "FileOnly" THEN {row.file} ELSE Files :
           place \in {f} \X Offsets(t[f].text, row.excerpt)
    BY <1>1 DEF Places, PlacesIn
  <2>2. place[1] = f /\ place[2] \in Offsets(t[f].text, row.excerpt)
    BY <2>1
  <2> QED BY <2>1, <2>2 DEF Offsets
<1>4. spot.file = place[1]
  BY <1>1 DEF SpotAt
<1>5. Places(t, moved, policy) = Places(t, row, policy)
  BY <1>3, <1>4, MovedThere DEF Places, PlacesIn
<1>6. SpotAt(place, spot.range) = spot
  <2>1. CASE row.range = Whole
    BY <1>1, <2>1 DEF SpotAt
  <2>2. CASE row.range # Whole
    <3>1. row.range[1] \in Nat /\ row.range[2] \in Nat
      BY <2>2 DEF Citations, Ranges
    <3>2. spot = [file |-> place[1],
                  range |-> <<place[2], place[2] + row.range[2] - row.range[1]>>]
      BY <1>1, <2>2 DEF SpotAt
    <3>3. /\ spot.range # Whole
          /\ spot.range[1] = place[2]
          /\ spot.range[2] = place[2] + row.range[2] - row.range[1]
      BY <3>2 DEF Whole
    <3>4. place[2] + spot.range[2] - spot.range[1] = spot.range[2]
      BY <1>3, <3>1, <3>3
    <3>5. SpotAt(place, spot.range) = [file |-> place[1], range |-> <<place[2], spot.range[2]>>]
      BY <3>3, <3>4 DEF SpotAt
    <3> QED BY <3>2, <3>3, <3>5
  <2> QED BY <2>1, <2>2
<1>7. SUFFICES ASSUME NEW other \in Relocations(t, moved, policy) PROVE FALSE
  OBVIOUS
<1>8. PICK p \in Places(t, moved, policy) : other = SpotAt(p, moved.range)
  BY <1>7 DEF Relocations
<1>9. other = spot
  BY <1>2, <1>5, <1>6, <1>8, MovedThere
<1>10. other # Spot(moved)
  BY <1>7 DEF Relocations
<1> QED BY <1>9, <1>10, MovedThere

(* A heal moves only what was found decayed under the lock, to the one place the   *)
(* search has for it then, whoever wrote the row or the file since the report. *)
THEOREM HealsAreConfirmed == Spec => HealIsConfirmed
<1> DEFINE A == holder = "heal" => \A r \in Repointed :
                   /\ \E t \in seen : Decayed(t, Row(r))
                   /\ Relocations(tree, Row(r), heal.policy) = {Spot(entries'[r[1]].rows[r[2]])}
<1>1. ASSUME Inv2, [Next]_vars PROVE A
  BY <1>1, HealMoves, MovedThere
<1> QED BY <1>1, Always2, PTL DEF Spec, HealIsConfirmed

(* After a heal the row is verified, or decayed and not to be moved again. *)
THEOREM HealsSettle == Spec => HealSettles
<1> DEFINE A == holder = "heal" => \A r \in Repointed :
                   LET row == entries'[r[1]].rows[r[2]]
                   IN ~Decayed(tree, row) \/ Relocations(tree, row, heal.policy) = {}
<1>1. ASSUME Inv2, [Next]_vars PROVE A
  BY <1>1, HealMoves, RelocatedStays DEF Inv2, Inv1, TypeInv
<1> QED BY <1>1, Always2, PTL DEF Spec, HealSettles

(* A range that is migrated held as a range and holds as a whole file. *)
LEMMA RespelledHolds ==
    ASSUME NEW t \in Trees, NEW row \in Citations, Migratable(t, row)
    PROVE  Holds(t, row) /\ Holds(t, Moved(row, Bare(row)))
<1>1. /\ row.file \in Files /\ Present(t, row.file) /\ t[row.file].text \in Seq(Blocks)
      /\ row.range # Whole /\ row.range[1] = 0 /\ row.range[1] < row.range[2]
      /\ row.range[2] = Len(t[row.file].text) /\ row.hash = t[row.file].text
  BY PresentType DEF Migratable, Citations, Ranges
<1>2. SubSeq(t[row.file].text, 1, Len(t[row.file].text)) = t[row.file].text
  BY <1>1, SubSeqFull
<1>3. Holds(t, row)
  BY <1>1, <1>2 DEF Holds, Readable, HashOf
<1>4. Bare(row) \in Spots
  BY <1>1 DEF Bare, Spots, Ranges
<1>5. Bare(row).file = row.file /\ Bare(row).range = Whole
  BY DEF Bare
<1>6. Holds(t, Moved(row, Bare(row)))
  BY <1>1, <1>4, <1>5, MovedThere DEF Holds, Readable, HashOf
<1> QED BY <1>3, <1>6

(* A migration only spells differently what held while the lock was held. *)
THEOREM MigrationsRespell == Spec => MigrationRespells
<1> DEFINE A == holder = "migrate" => \A r \in Repointed :
                   \E t \in seen : Holds(t, Row(r)) /\ Holds(t, entries'[r[1]].rows[r[2]])
<1>1. ASSUME Inv2, [Next]_vars PROVE A
  <2> SUFFICES ASSUME holder = "migrate", NEW r \in Repointed
               PROVE  \E t \in seen : Holds(t, Row(r)) /\ Holds(t, entries'[r[1]].rows[r[2]])
    OBVIOUS
  <2> USE DEF Inv2, Inv1
  <2>1. Next
    BY <1>1 DEF vars, Repointed, Row
  <2>2. MigrateAppend
    BY <1>1, <2>1, MigrateRepoints
  <2> DEFINE m == migrate.next[1]
  <2>3. m \in Rows /\ Stands(m) /\ Repoint(m, Bare(Row(m)))
    BY <1>1, <2>2 DEF MigrateAppend, MigrateAbort, RowsInv, LockInv, Repointed, Row
  <2>4. r = m /\ entries'[r[1]].rows[r[2]] = Moved(Row(r), Bare(Row(r)))
    BY <1>1, <2>3, RepointsOne
  <2>5. PICK t \in seen : Migratable(t, Row(r))
    BY <1>1, <2>2, <2>4 DEF MigrateAppend, MigrateInv
  <2>6. t \in Trees /\ Row(r) \in Citations
    BY <1>1, <2>3, <2>4, RowType DEF TypeInv
  <2> QED BY <2>4, <2>5, <2>6, RespelledHolds
<1> QED BY <1>1, Always2, PTL DEF Spec, MigrationRespells

-----------------------------------------------------------------------------
(* The two readings of an add.                                             *)

(* The citation c held in t, in the file and with the text that r tells of. *)
HeldIn(t, c, r) ==
    /\ Readable(t, c.file, c.range)
    /\ t[c.file].ino = r.ino
    /\ HashOf(t, c.file, c.range) = r.hash

Held(t, k) == HeldIn(t, add.draft[k], add.resolved[k])

(* An inode belongs to one file, and one yet to be made to none. *)
InodeInv ==
    \A t \in seen \cup {tree}, f \in Files :
        Present(t, f) => t[f].ino[1] = f /\ t[f].ino[2] <= edits

(* Every citation was read under the lock; and there was a moment at which held all *)
(* those that the second pass has found again or that hold now. *)
AddInv ==
    /\ add.phase # "add" => add.resolved = <<>> /\ add.verified = 0
    /\ Len(add.resolved) <= Len(add.draft)
    /\ add.verified > 0 => Resolved
    /\ \A k \in DOMAIN add.resolved :
          /\ add.resolved[k].ino[1] = add.draft[k].file
          /\ \E t \in seen : Held(t, k)
    /\ add.phase = "add" /\ Resolved =>
          \E t \in seen : \A k \in DOMAIN add.draft :
              k <= add.verified \/ Held(tree, k) => Held(t, k)

Inv3 == Inv1 /\ InodeInv /\ AddInv

(* An edit brings nothing back: a citation that held when it was read and does not *)
(* hold now does not hold again. *)
LEMMA NoReturn ==
    ASSUME Inv1, InodeInv, NEW c \in Citations, NEW r, NEW t \in seen, HeldIn(t, c, r),
           NEW f \in Files,
           \/ \E text \in setup.texts : EditInPlace(f, text) \/ Replace(f, text)
           \/ Remove(f),
           HeldIn(tree', c, r)
    PROVE  HeldIn(tree, c, r)
<1> USE DEF Inv1
<1>1. /\ t \in Trees /\ tree \in Trees /\ c.file \in Files /\ c.range \in Ranges
      /\ setup.texts \subseteq Seq(Blocks) /\ edits \in Nat
  BY SetupType DEF TypeInv, Citations
<1>2. CASE c.file # f
  <2>1. tree'[c.file] = tree[c.file]
    BY <1>1, <1>2 DEF EditInPlace, Replace, Remove, Edit, Trees
  <2> QED BY <2>1 DEF HeldIn, Readable, HashOf, Present
<1>3. CASE c.file = f /\ Remove(f)
  <2>1. tree'[f] = Gone
    BY <1>1, <1>3 DEF Remove, Edit, Trees
  <2> QED BY <1>3, <2>1 DEF HeldIn, Readable, Present
<1>4. ASSUME c.file = f, NEW text \in setup.texts, Replace(f, text)
      PROVE  HeldIn(tree, c, r)
  <2>1. tree'[f].ino = <<f, edits + 1>>
    BY <1>1, <1>4 DEF Replace, Edit, Trees
  <2>2. t[f].ino[2] = edits + 1
    BY <1>4, <2>1 DEF HeldIn
  <2>3. t[f].ino[2] <= edits
    BY <1>4 DEF HeldIn, Readable, InodeInv
  <2> QED BY <1>1, <2>2, <2>3
<1>5. ASSUME c.file = f, NEW text \in setup.texts, EditInPlace(f, text)
      PROVE  HeldIn(tree, c, r)
  <2>1. tree'[f] = [ino |-> tree[f].ino, text |-> text]
    BY <1>1, <1>5 DEF EditInPlace, Edit, Trees
  <2>2. /\ Present(t, f) /\ Present(tree, f) /\ t[f].ino = tree[f].ino /\ tree[f].ino = r.ino
        /\ t[f].text \in Seq(Blocks) /\ tree[f].text \in Seq(Blocks)
    BY <1>1, <1>5, <2>1, PresentType DEF HeldIn, Readable, EditInPlace
  <2>3. /\ t[f].text # text
        /\ \A i \in DOMAIN text \cap DOMAIN t[f].text :
              t[f].text[i] = text[i] => i \in DOMAIN tree[f].text /\ tree[f].text[i] = text[i]
    BY <1>5, <2>2 DEF EditInPlace, BringsBack
  <2>4. c.range # Whole
    BY <1>5, <2>1, <2>3 DEF HeldIn, HashOf
  <2> DEFINE a == c.range[1]
             b == c.range[2]
  <2>5. a \in Nat /\ b \in Nat /\ a < b
    BY <1>1, <2>4 DEF Ranges
  <2>6. b <= Len(text) /\ b <= Len(t[f].text)
    BY <1>5, <2>1, <2>4 DEF HeldIn, Readable
  <2>7. SubSeq(text, a + 1, b) = r.hash /\ SubSeq(t[f].text, a + 1, b) = r.hash
    BY <1>5, <2>1, <2>4 DEF HeldIn, HashOf
  <2> HIDE DEF a, b
  <2>8. \A i \in a + 1..b : t[f].text[i] = text[i]
    BY <1>1, <2>2, <2>5, <2>6, <2>7, SameSlice
  <2>9. \A i \in a + 1..b : i \in DOMAIN tree[f].text /\ tree[f].text[i] = text[i]
    <3>1. \A i \in a + 1..b : i \in DOMAIN text /\ i \in DOMAIN t[f].text
      BY <1>1, <2>2, <2>5, <2>6, LenProperties
    <3> QED BY <2>3, <2>8, <3>1
  <2>10. b <= Len(tree[f].text)
    <3>1. b \in DOMAIN tree[f].text
      BY <2>5, <2>9
    <3> QED BY <2>2, <3>1, LenProperties
  <2>11. SubSeq(tree[f].text, a + 1, b) = r.hash
    BY <1>1, <2>2, <2>5, <2>6, <2>7, <2>9, <2>10, SameSlice
  <2> QED BY <1>5, <2>2, <2>4, <2>5, <2>10, <2>11 DEF HeldIn, Readable, HashOf, a, b
<1> QED BY <1>2, <1>3, <1>4, <1>5

LEMMA InodeEdit ==
    ASSUME Inv1, InodeInv, NEW f \in Files,
           \/ \E text \in setup.texts : EditInPlace(f, text) \/ Replace(f, text)
           \/ Remove(f)
    PROVE  InodeInv'
<1>1. PICK file \in FileStates : Edit(f, file)
  BY UserType DEF Inv1
<1>2. edits \in Nat /\ tree \in Trees
  BY SetupType DEF Inv1, TypeInv
<1>3. /\ seen' \cup {tree'} \subseteq seen \cup {tree'} /\ edits' = edits + 1
      /\ \A g \in Files : g # f => tree'[g] = tree[g]
  BY <1>1, <1>2 DEF Edit, Trees
<1>4. ASSUME Present(tree', f) PROVE tree'[f].ino[1] = f /\ tree'[f].ino[2] <= edits'
  <2>1. ASSUME NEW text \in setup.texts, EditInPlace(f, text)
        PROVE  tree'[f].ino[1] = f /\ tree'[f].ino[2] <= edits'
    <3>1. tree'[f].ino = tree[f].ino /\ Present(tree, f) /\ tree[f].ino \in Files \X Nat
      BY <1>2, <2>1, PresentType DEF EditInPlace, Edit, Trees
    <3>2. tree[f].ino[1] = f /\ tree[f].ino[2] <= edits
      BY <3>1 DEF InodeInv
    <3> QED BY <1>2, <1>3, <3>1, <3>2
  <2>2. ASSUME NEW text \in setup.texts, Replace(f, text)
        PROVE  tree'[f].ino[1] = f /\ tree'[f].ino[2] <= edits'
    <3>1. tree'[f].ino = <<f, edits + 1>>
      BY <1>2, <2>2 DEF Replace, Edit, Trees
    <3> QED BY <1>2, <1>3, <3>1
  <2>3. ~Remove(f)
    BY <1>2, <1>4 DEF Remove, Edit, Trees, Present
  <2> QED BY <2>1, <2>2, <2>3
<1>5. ASSUME NEW t \in seen \cup {tree}, NEW g \in Files, Present(t, g)
      PROVE  t[g].ino[1] = g /\ t[g].ino[2] <= edits'
  <2>1. t[g].ino[1] = g /\ t[g].ino[2] <= edits /\ t[g].ino \in Files \X Nat
    BY <1>5, PresentType DEF InodeInv, Inv1, TypeInv
  <2> QED BY <1>2, <1>3, <2>1
<1>6. ASSUME NEW g \in Files, Present(tree', g)
      PROVE  tree'[g].ino[1] = g /\ tree'[g].ino[2] <= edits'
  BY <1>3, <1>4, <1>5, <1>6 DEF Present
<1>7. ASSUME NEW t \in seen' \cup {tree'}, NEW g \in Files, Present(t, g)
      PROVE  t[g].ino[1] = g /\ t[g].ino[2] <= edits'
  BY <1>3, <1>5, <1>6, <1>7
<1> QED BY <1>7 DEF InodeInv, Present

(* The others leave the files alone. *)
LEMMA InodeSame ==
    ASSUME InodeInv, UNCHANGED <<tree, edits>>, seen' \subseteq seen \cup {tree}
    PROVE  InodeInv'
BY DEF InodeInv, Present

LEMMA AddSame ==
    ASSUME AddInv, UNCHANGED <<tree, add>>, add.phase = "add" => seen \subseteq seen'
    PROVE  AddInv'
BY DEF AddInv, Held, Resolved

(* The second pass may go on after an edit: what it has yet to find again either   *)
(* held before the edit or does not hold now. *)
LEMMA AddUser ==
    ASSUME Inv3, NEW f \in Files,
           \/ \E text \in setup.texts : EditInPlace(f, text) \/ Replace(f, text)
           \/ Remove(f)
    PROVE  AddInv'
<1>1. PICK file : Edit(f, file)
  BY DEF EditInPlace, Replace, Remove
<1>2. UNCHANGED add /\ (add.phase = "add" => seen \subseteq seen')
  BY <1>1 DEF Edit, Inv3, Inv1, LockInv, Nobody
<1>3. ASSUME add.phase = "add", Resolved
      PROVE  \E t \in seen : \A k \in DOMAIN add.draft :
                 k <= add.verified \/ Held(tree', k) => Held(t, k)
  <2>1. PICK t \in seen : \A k \in DOMAIN add.draft :
           k <= add.verified \/ Held(tree, k) => Held(t, k)
    BY <1>3 DEF Inv3, AddInv
  <2>2. ASSUME NEW k \in DOMAIN add.draft, Held(tree', k) PROVE Held(tree, k)
    <3>1. add.draft \in Seq(Citations) /\ add.resolved \in Seq(Seen)
      BY DEF Inv3, Inv1, TypeInv, Adds
    <3>2. add.draft[k] \in Citations /\ k \in DOMAIN add.resolved
      BY <1>3, <3>1, ElementOfSeq, LenProperties DEF Resolved
    <3>3. PICK u \in seen : Held(u, k)
      BY <3>2 DEF Inv3, AddInv
    <3> QED BY <2>2, <3>2, <3>3, NoReturn DEF Held, Inv3
  <2> QED BY <2>1, <2>2
<1>4. /\ add'.phase = add.phase /\ Resolved' = Resolved
      /\ \A t : \A k : Held(t, k)' = Held(t, k)'
  BY <1>2 DEF Resolved
<1> QED BY <1>2, <1>3 DEF Inv3, AddInv, Held, Resolved

(* Before add takes the lock, and when it gives up or is done. *)
LEMMA AddIdle ==
    ASSUME Inv1, AddInv, add'.phase # "add", add' \in Adds,
           add'.resolved = <<>>, add'.verified = 0
    PROVE  AddInv'
<1>1. Len(add'.resolved) = 0 /\ DOMAIN add'.resolved = {} /\ Len(add'.draft) \in Nat
  BY EmptySeq, LenProperties DEF Adds
<1> QED BY <1>1 DEF AddInv

LEMMA AddBefore ==
    ASSUME Inv3, Inv1',
           \/ \E c \in setup.cites, hashed \in BOOLEAN :
                 Cite(c.file, c.range, c.excerpt, hashed)
           \/ CompressRead \/ CompressEvidence \/ AddRefused \/ AddAppend
    PROVE  AddInv'
<1>1. add \in Adds /\ add' \in Adds
  BY DEF Inv3, Inv1, TypeInv
<1>2. CASE AddRefused \/ AddAppend \/ CompressRead
  <2>1. add'.phase # "add" /\ add'.resolved = <<>> /\ add'.verified = 0
    <3>1. CASE AddRefused \/ AddAppend
      BY <3>1 DEF AddRefused, AddAppend, NoAdd
    <3>2. CASE CompressRead
      <4>1. PICK e : add' = [NoAdd EXCEPT !.phase = "compress", !.from = e, !.replace = TRUE]
        BY <3>2 DEF CompressRead
      <4> QED BY <4>1 DEF NoAdd
    <3> QED BY <1>2, <3>1, <3>2
  <2> QED BY <1>1, <2>1, AddIdle DEF Inv3
<1>3. CASE CompressEvidence
  <2>1. add.resolved = <<>> /\ add.verified = 0
    BY <1>3 DEF CompressEvidence, Inv3, AddInv
  <2>2. add'.phase = "ready" /\ add'.resolved = <<>> /\ add'.verified = 0
    BY <1>1, <1>3, <2>1 DEF CompressEvidence, Adds
  <2> QED BY <1>1, <2>2, AddIdle DEF Inv3
<1>4. ASSUME NEW c \in setup.cites, NEW hashed \in BOOLEAN,
             Cite(c.file, c.range, c.excerpt, hashed)
      PROVE  AddInv'
  <2>1. add.phase = "idle" /\ add.resolved = <<>> /\ add.verified = 0
    BY <1>4 DEF Cite, Inv3, AddInv
  <2>2. add'.phase = "idle" /\ add'.resolved = <<>> /\ add'.verified = 0
    BY <1>1, <1>4, <2>1 DEF Cite, Adds
  <2> QED BY <1>1, <2>2, AddIdle DEF Inv3
<1> QED BY <1>2, <1>3, <1>4

LEMMA AddTakes ==
    ASSUME Inv3, Inv1', NEW replace \in BOOLEAN, AddBegin(replace)
    PROVE  AddInv'
<1>1. add \in Adds /\ add.resolved = <<>> /\ add.verified = 0
  BY DEF AddBegin, Inv3, Inv1, TypeInv, AddInv
<1>2. add'.resolved = <<>> /\ add'.verified = 0 /\ add'.draft = add.draft
  BY <1>1 DEF AddBegin, Adds
<1>3. tree \in seen' /\ tree' = tree
  BY DEF AddBegin, Take, AddOnly
<1>4. /\ Len(add'.resolved) = 0 /\ DOMAIN add'.resolved = {} /\ Len(add'.draft) \in Nat
      /\ \A k \in DOMAIN add'.draft : k > 0
  BY <1>1, <1>2, EmptySeq, LenProperties DEF Adds
<1> QED BY <1>2, <1>3, <1>4 DEF AddInv, Held

(* What is read now holds now; what was read of the same inode and range held then. *)
LEMMA AddResolves == ASSUME Inv3, Inv1', Resolve PROVE AddInv'
<1> USE DEF Inv3, Inv1
<1> DEFINE k == Len(add.resolved) + 1
           c == add.draft[k]
           ino == tree[c.file].ino
           hash == IF Same(k, ino) # {} THEN Former(k, ino) ELSE HashOf(tree, c.file, c.range)
<1>1. CASE AddRefused
  BY <1>1, AddBefore
<1>2. CASE /\ Present(tree, c.file)
           /\ Same(k, ino) # {} \/ Readable(tree, c.file, c.range)
           /\ add' = [add EXCEPT !.resolved = Append(@, [ino |-> ino, hash |-> hash])]
           /\ Hold /\ AddOnly
  <2>1. /\ add.phase = "add" /\ tree \in seen /\ add \in Adds /\ k \in 1..Len(add.draft)
        /\ add.resolved \in Seq(Seen) /\ add.draft \in Seq(Citations)
    BY LenProperties DEF Resolve, LockInv, Nobody, TypeInv, Adds
  <2>2. c \in Citations
    BY <2>1, ElementOfSeq
  <2>3. Present(tree, c.file) /\ c.file \in Files /\ ino[1] = c.file
    BY <1>2, <2>2 DEF InodeInv, Citations
  <2>4. add.verified = 0
    BY <2>1 DEF AddInv, Resolved, TypeInv, Adds
  <2>5. \E t \in seen : HeldIn(t, c, [ino |-> ino, hash |-> hash])
    <3>1. CASE Same(k, ino) = {}
      BY <1>2, <2>1, <3>1 DEF HeldIn
    <3>2. CASE Same(k, ino) # {}
      <4>1. PICK j \in Same(k, ino) : hash = add.resolved[j].hash
        BY <3>2, FormerIsSame
      <4>2. /\ j \in DOMAIN add.resolved /\ add.resolved[j].ino = ino
            /\ add.draft[j].range = c.range
        BY <2>1, <4>1, LenProperties DEF Same
      <4>3. add.draft[j].file = c.file
        BY <2>3, <4>2 DEF AddInv
      <4>4. PICK t \in seen : Held(t, j)
        BY <4>2 DEF AddInv
      <4> QED BY <4>1, <4>2, <4>3, <4>4 DEF Held, HeldIn
    <3> QED BY <3>1, <3>2
  <2> DEFINE new == [ino |-> ino, hash |-> hash]
  <2>6. /\ add'.resolved = Append(add.resolved, new) /\ add'.phase = add.phase
        /\ add'.draft = add.draft /\ add'.verified = add.verified
    BY <1>2, <2>1 DEF Adds
  <2>7. new.ino[1] = c.file /\ \E t \in seen : HeldIn(t, c, new)
    BY <2>3, <2>5
  <2> HIDE DEF new
  <2>8. /\ Len(add'.resolved) = k /\ DOMAIN add'.resolved = 1..k /\ add'.resolved[k] = new
        /\ \A j \in 1..k - 1 : add'.resolved[j] = add.resolved[j] /\ j \in DOMAIN add.resolved
    <3>1. Len(add.resolved) \in Nat /\ DOMAIN add.resolved = 1..Len(add.resolved)
      BY <2>1, LenProperties
    <3> HIDE DEF c, ino, hash
    <3>2. add'.resolved \in Seq(Seen)
      BY DEF TypeInv, Adds
    <3> QED BY <2>1, <2>6, <3>1, <3>2, LenProperties
  <2>9. UNCHANGED <<tree, seen>>
    BY <1>2 DEF Hold, AddOnly
  <2>10. \A j \in DOMAIN add'.resolved :
            /\ add'.resolved[j].ino[1] = add'.draft[j].file
            /\ \E t \in seen : HeldIn(t, add'.draft[j], add'.resolved[j])
    <3>1. \A j \in 1..k - 1 :
            /\ add.resolved[j].ino[1] = add.draft[j].file
            /\ \E t \in seen : HeldIn(t, add.draft[j], add.resolved[j])
      BY <2>8 DEF AddInv, Held
    <3>2. \A j \in 1..k : j = k \/ j \in 1..k - 1
      BY <2>1
    <3> HIDE DEF k
    <3> QED BY <2>6, <2>7, <2>8, <3>1, <3>2 DEF k
  <2>11. \A j \in DOMAIN add'.draft : j \in Nat /\ j > 0
    BY <2>1, <2>6, LenProperties
  <2>12. tree \in seen' /\ \A j \in DOMAIN add'.draft :
            j <= add'.verified \/ Held(tree, j)' => HeldIn(tree, add'.draft[j], add'.resolved[j])
    <3>1. \A j \in DOMAIN add'.draft : ~(j <= add'.verified)
      BY <2>4, <2>6, <2>11
    <3>2. tree' = tree /\ tree \in seen'
      BY <2>1, <2>9
    <3> HIDE DEF c, ino, hash, k
    <3> QED BY <3>1, <3>2 DEF Held
  <2>13. Len(add'.resolved) <= Len(add'.draft) /\ add'.verified = 0 /\ add'.phase = "add"
    BY <2>1, <2>4, <2>6, <2>8
  <2> HIDE DEF c, ino, hash, k
  <2> QED BY <2>9, <2>10, <2>12, <2>13 DEF AddInv, Held
<1> QED BY <1>1, <1>2 DEF Resolve

(* A citation found again held at the moment that the pass has in mind, and so does *)
(* one of the same inode and range as a former, which held then. *)
LEMMA AddReverifies == ASSUME Inv3, Inv1', Reverify PROVE AddInv'
<1> USE DEF Inv3, Inv1
<1> DEFINE k == add.verified + 1
           c == add.draft[k]
           was == add.resolved[k]
<1>1. CASE AddRefused
  BY <1>1, AddBefore
<1>2. CASE /\ StillResolved(k)
           /\ add' = [add EXCEPT !.verified = @ + 1]
           /\ Hold /\ AddOnly
  <2>1. /\ add.phase = "add" /\ Resolved /\ add \in Adds /\ k \in 1..Len(add.draft)
        /\ add.resolved \in Seq(Seen) /\ add.draft \in Seq(Citations)
        /\ DOMAIN add.resolved = 1..Len(add.draft) /\ DOMAIN add.draft = 1..Len(add.draft)
        /\ add.verified \in Nat
    BY LenProperties DEF Reverify, Resolved, TypeInv, Adds
  <2>2. PICK t \in seen : \A j \in DOMAIN add.draft :
           j <= add.verified \/ Held(tree, j) => Held(t, j)
    BY <2>1 DEF AddInv
  <2>3. Held(t, k)
    <3>1. CASE Same(k, was.ino) = {}
      <4>1. Held(tree, k)
        BY <1>2, <3>1 DEF StillResolved, Held, HeldIn
      <4> QED BY <2>1, <2>2, <4>1
    <3>2. CASE Same(k, was.ino) # {}
      <4>1. PICK j \in Same(k, was.ino) : add.resolved[j].hash = was.hash
        BY <1>2, <3>2, FormerIsSame DEF StillResolved
      <4>2. /\ j \in DOMAIN add.draft /\ j <= add.verified /\ j \in DOMAIN add.resolved
            /\ k \in DOMAIN add.resolved /\ add.resolved[j].ino = was.ino
            /\ add.draft[j].range = c.range
        BY <2>1, <4>1 DEF Same
      <4>3. add.draft[j].file = c.file
        BY <4>2 DEF AddInv
      <4>4. Held(t, j)
        BY <2>2, <4>2
      <4> QED BY <4>1, <4>2, <4>3, <4>4 DEF Held, HeldIn
    <3> QED BY <3>1, <3>2
  <2>4. /\ add'.resolved = add.resolved /\ add'.phase = "add" /\ add'.draft = add.draft
        /\ add'.verified = k
    BY <1>2, <2>1 DEF Adds
  <2>5. UNCHANGED <<tree, seen>>
    BY <1>2 DEF Hold, AddOnly
  <2>6. \A j \in DOMAIN add.draft : j <= k \/ Held(tree, j) => Held(t, j)
    <3>1. \A j \in DOMAIN add.draft : j <= k => j = k \/ j <= add.verified
      BY <2>1
    <3> QED BY <2>2, <2>3, <3>1
  <2> HIDE DEF k, c, was
  <2> QED BY <2>1, <2>4, <2>5, <2>6 DEF AddInv, Held, Resolved
<1> QED BY <1>1, <1>2 DEF Reverify

LEMMA Next3 == ASSUME Inv3, [Next]_vars PROVE Inv3'
<1> USE DEF Inv3
<1>1. Inv1'
  BY Next1
<1>2. CASE UNCHANGED vars
  BY <1>1, <1>2, InodeSame, AddSame DEF vars
<1>3. ASSUME NEW f \in Files,
             \/ \E text \in setup.texts : EditInPlace(f, text) \/ Replace(f, text)
             \/ Remove(f)
      PROVE  Inv3'
  BY <1>1, <1>3, InodeEdit, AddUser
<1>4. ASSUME UNCHANGED <<tree, edits>>, seen' \subseteq seen \cup {tree}, AddInv' PROVE Inv3'
  BY <1>1, <1>4, InodeSame
<1>5. CASE \/ \E c \in setup.cites, hashed \in BOOLEAN :
                 Cite(c.file, c.range, c.excerpt, hashed)
           \/ CompressRead \/ CompressEvidence \/ AddAppend
  BY <1>1, <1>4, <1>5, AddBefore
     DEF Cite, CompressRead, CompressEvidence, AddAppend, AddOnly, Hold, Release
<1>6. ASSUME NEW replace \in BOOLEAN, AddBegin(replace) PROVE Inv3'
  BY <1>1, <1>4, <1>6, AddTakes DEF AddBegin, AddOnly, Take
<1>7. CASE Resolve
  BY <1>1, <1>4, <1>7, AddResolves DEF Resolve, AddRefused, AddOnly, Hold, Release
<1>8. CASE Reverify
  BY <1>1, <1>4, <1>8, AddReverifies DEF Reverify, AddRefused, AddOnly, Hold, Release
<1>9. ASSUME UNCHANGED <<tree, edits, add>>, seen' \subseteq seen \cup {tree},
             seen' = seen \/ holder # "add"
      PROVE  Inv3'
  <2>1. add.phase = "add" => seen \subseteq seen'
    BY <1>9 DEF Inv1, LockInv
  <2> QED BY <1>4, <1>9, <2>1, AddSame
<1>10. ASSUME NEW e \in DOMAIN entries, Expire(e) PROVE Inv3'
  BY <1>9, <1>10 DEF Expire
<1>11. CASE \/ \E policy \in Policies : HealPlan(policy)
            \/ HealBegin \/ HealEnd
            \/ \E p \in heal.plan : HealCheck(p)
            \/ \E p \in heal.decayed : HealSearch(p)
  <2>1. /\ HealOnly /\ seen' \subseteq seen \cup {tree}
        /\ seen' = seen \/ holder # "add"
    BY <1>11 DEF HealPlan, HealBegin, HealEnd, HealCheck, HealSearch, Hold, Take, Release,
                 Nobody
  <2> QED BY <1>9, <2>1 DEF HealOnly
<1>12. CASE \/ MigratePlan \/ MigrateBegin \/ MigrateEnd \/ MigrateAppend
            \/ \E r \in migrate.plan : MigrateClassify(r)
  <2>1. /\ MigrateOnly /\ seen' \subseteq seen \cup {tree}
        /\ seen' = seen \/ holder # "add"
    BY <1>12 DEF MigratePlan, MigrateBegin, MigrateEnd, MigrateAppend, MigrateClassify,
                 MigrateAbort, Hold, Take, Release, Nobody, Inv1, LockInv
  <2> QED BY <1>9, <2>1 DEF MigrateOnly
<1> QED BY <1>2, <1>3, <1>5, <1>6, <1>7, <1>8, <1>10, <1>11, <1>12 DEF Next

LEMMA Init3 == ASSUME Init PROVE Inv3
<1>1. InodeInv
  BY CitationAssumption DEF Init, InodeInv, Present
<1>2. Len(<<>>) = 0 /\ DOMAIN <<>> = {}
  BY EmptySeq
<1>3. AddInv
  BY <1>2 DEF Init, NoAdd, AddInv
<1> QED BY <1>1, <1>3, Init1 DEF Inv3

(* Only the append of an add makes entries longer. *)
LEMMA OnlyAddAppends ==
    ASSUME Inv1, Next, Len(entries') > Len(entries)
    PROVE  AddAppend
<1> USE DEF Inv1
<1>1. Len(entries) \in Nat
  BY LenProperties DEF TypeInv
<1>2. ~UNCHANGED entries
  BY <1>1
<1>3. \A e \in DOMAIN entries : ~Expire(e)
  BY <1>1, ExpireType
<1>4. \A p \in heal.decayed : ~HealSearch(p)
  BY <1>1, HealSearchType
<1>5. ~MigrateAppend
  <2>1. MigrateAppend => Stands(migrate.next[1])
    BY DEF MigrateAppend, LockInv
  <2> QED BY <1>1, <2>1, MigrateAppendType
<1> QED BY <1>2, <1>3, <1>4, <1>5
        DEF Next, Edit, EditInPlace, Replace, Remove, Cite, CompressRead, CompressEvidence,
            AddBegin, Resolve, Reverify, AddRefused, HealPlan, HealBegin, HealCheck, HealEnd,
            MigratePlan, MigrateBegin, MigrateClassify, MigrateEnd, MigrateAbort

(* The citations that an add records, read one after the other in files that nobody *)
(* locks, held all together at one moment since it took the lock. *)
THEOREM AddsAreSnapshots == Spec => AddIsSnapshot
<1> DEFINE A == Len(entries') > Len(entries) =>
                   \E t \in seen : \A k \in DOMAIN entries'[Len(entries')].rows :
                       Holds(t, entries'[Len(entries')].rows[k])
<1>1. ASSUME Inv3, [Next]_vars PROVE A
  <2> SUFFICES ASSUME Len(entries') > Len(entries)
               PROVE  \E t \in seen : \A k \in DOMAIN entries'[Len(entries')].rows :
                          Holds(t, entries'[Len(entries')].rows[k])
    OBVIOUS
  <2> USE DEF Inv3
  <2>1. AddAppend
    <3>1. Len(entries) \in Nat
      BY <1>1, LenProperties DEF Inv1, TypeInv
    <3>2. Next
      BY <1>1, <3>1 DEF vars
    <3> QED BY <1>1, <3>2, OnlyAddAppends
  <2>2. /\ add.draft \in Seq(Citations) /\ add.verified = Len(add.draft) /\ Resolved
        /\ add.phase = "add"
    BY <1>1, <2>1 DEF AddAppend, Inv1, TypeInv, Adds
  <2>3. PICK t \in seen : \A k \in DOMAIN add.draft :
           k <= add.verified \/ Held(tree, k) => Held(t, k)
    BY <1>1, <2>2 DEF AddInv
  <2> DEFINE rows == [k \in DOMAIN add.draft |->
                         [add.draft[k] EXCEPT !.hash = add.resolved[k].hash]]
  <2>4. entries'[Len(entries')].rows = rows
    BY <1>1, <2>1, AppendType DEF Inv1
  <2>5. ASSUME NEW k \in DOMAIN add.draft PROVE Holds(t, rows[k])
    <3>1. add.draft[k] \in Citations /\ k <= add.verified
      BY <2>2, ElementOfSeq, LenProperties
    <3>2. Held(t, k)
      BY <2>3, <3>1
    <3>3. /\ rows[k].file = add.draft[k].file /\ rows[k].range = add.draft[k].range
          /\ rows[k].hash = add.resolved[k].hash
      BY <3>1 DEF Citations
    <3> QED BY <3>2, <3>3 DEF Held, HeldIn, Holds
  <2> HIDE DEF rows
  <2>6. DOMAIN rows = DOMAIN add.draft
    BY DEF rows
  <2> QED BY <2>4, <2>5, <2>6
<1>2. Spec => []Inv3
  <2>1. Init => Inv3
    BY Init3
  <2>2. Inv3 /\ [Next]_vars => Inv3'
    BY Next3
  <2> QED BY <2>1, <2>2, PTL DEF Spec
<1> QED BY <1>1, <1>2, PTL DEF Spec, AddIsSnapshot

=============================================================================
