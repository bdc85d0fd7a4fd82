------------------------- MODULE KbRepositoryProofs -------------------------
(***************************************************************************)
(* Theorems of KbRepository, for any number of hooks, importers, ingests   *)
(* and other writers. Of the session hook, for sessions of any length: no  *)
(* turn is passed without a digest, and the offset is the highest ever     *)
(* written as long as nobody locks a replaced state file. Of the peer      *)
(* graph, for any seed files: no relation is imported twice, and what has  *)
(* its stamp is there. Of the content, for any log of events: no step      *)
(* loses what the tables held of runs and audits, no evidence comes back,  *)
(* a vector is of the text of its entry, and a command of several adds     *)
(* that nobody disturbed has left its work whole.                          *)
(***************************************************************************)
EXTENDS KbRepository, FiniteSetTheorems, SequenceTheorems, NaturalsInduction,
        WellFoundedInduction, TLAPS

-----------------------------------------------------------------------------
(* The invariants.                                                         *)

Adding == {"adding", "done"}
Reading == {"looking", "digesting"}
Moving == {"opening", "locking", "advancing"}
Held == {"locking", "advancing"}

(* What a process keeps at each step of its command. *)
BulkForms ==
    /\ bulk = [p \in Bulk |-> bulk[p]]
    /\ \A p \in Bulk :
          \/ bulk[p] = Idle
          \/ /\ bulk[p].pc \in Adding
             /\ bulk[p] = [pc |-> bulk[p].pc, job |-> bulk[p].job, k |-> bulk[p].k,
                           ids |-> bulk[p].ids, alone |-> bulk[p].alone]
          \/ /\ bulk[p].pc \in Reading \cup {"opening"}
             /\ bulk[p].from \in Nat /\ bulk[p].to \in Nat
             /\ bulk[p] = [pc |-> bulk[p].pc, from |-> bulk[p].from, to |-> bulk[p].to]
          \/ /\ bulk[p].pc \in Held
             /\ bulk[p].to \in Nat
             /\ bulk[p] = [pc |-> bulk[p].pc, to |-> bulk[p].to, file |-> bulk[p].file]

DigestedTo(n) == \A t \in 1..n : \E d \in digests : d.from < t /\ t <= d.to

(* Where a hook read from is digested already; where it will move the offset to is
   digested once it opens the state file. *)
HookInv ==
    /\ BulkForms
    /\ offset.at \in Nat
    /\ DigestedTo(offset.at)
    /\ \A p \in Bulk : /\ bulk[p].pc \in Reading => DigestedTo(bulk[p].from)
                       /\ bulk[p].pc \in Moving => DigestedTo(bulk[p].to)

(* Unless somebody strayed, the one hook that may advance has the lock of the state
   file that is there, and moves its offset up. *)
PeakInv ==
    /\ peak \in Nat
    /\ ~stray =>
          /\ offset.at = peak
          /\ \A p \in Bulk : bulk[p].pc = "advancing" =>
                /\ bulk[p].file = offset.file /\ bulk[p].to > offset.at
                /\ \A q \in Bulk : bulk[q].pc = "advancing" => q = p

-----------------------------------------------------------------------------
(* Steps that are not the hook's.                                          *)

(* A command's step leaves the hooks where they are, or ends one. *)
OthersStep ==
    /\ UNCHANGED hookVars
    /\ bulk' = [p \in Bulk |-> bulk'[p]]
    /\ \A p \in Bulk :
          \/ bulk'[p] = bulk[p]
          \/ bulk'[p] = Idle
          \/ /\ bulk'[p].pc \in Adding
             /\ bulk'[p] = [pc |-> bulk'[p].pc, job |-> bulk'[p].job, k |-> bulk'[p].k,
                            ids |-> bulk'[p].ids, alone |-> bulk'[p].alone]

LEMMA OthersKeep ==
    ASSUME HookInv, PeakInv, OthersStep
    PROVE  HookInv' /\ PeakInv'
<1> USE DEF OthersStep, hookVars, Adding, Reading, Moving, Held, Idle
<1>1. BulkForms'
  BY DEF HookInv, BulkForms
<1>2. \A p \in Bulk : bulk'[p].pc \in Reading \cup Moving => bulk'[p] = bulk[p]
  OBVIOUS
<1>3. HookInv'
  BY <1>1, <1>2 DEF HookInv, DigestedTo
<1>4. PeakInv'
  BY <1>2 DEF PeakInv
<1> QED BY <1>3, <1>4

(* What another's write does to the processes. *)
LEMMA DisturbedForm ==
    ASSUME BulkForms, NEW p \in Bulk
    PROVE  \/ Disturbed[p] = bulk[p]
           \/ /\ Disturbed[p].pc \in Adding
              /\ Disturbed[p] = [pc |-> Disturbed[p].pc, job |-> Disturbed[p].job,
                                 k |-> Disturbed[p].k, ids |-> Disturbed[p].ids,
                                 alone |-> Disturbed[p].alone]
<1>1. CASE bulk[p].pc \in Adding
  <2>1. bulk[p] = [pc |-> bulk[p].pc, job |-> bulk[p].job, k |-> bulk[p].k,
                   ids |-> bulk[p].ids, alone |-> bulk[p].alone]
    BY <1>1 DEF BulkForms, Adding, Reading, Held, Idle
  <2>2. Disturbed[p] = [pc |-> bulk[p].pc, job |-> bulk[p].job, k |-> bulk[p].k,
                        ids |-> bulk[p].ids, alone |-> FALSE]
    BY <1>1, <2>1 DEF Disturbed, Adding
  <2> QED BY <1>1, <2>2
<1>2. CASE bulk[p].pc \notin Adding
  BY <1>2 DEF Disturbed, Adding
<1> QED BY <1>1, <1>2

LEMMA WritesAreOthers ==
    ASSUME BulkForms, bulk' = Disturbed, UNCHANGED hookVars
    PROVE  OthersStep
<1>1. bulk' = [p \in Bulk |-> bulk'[p]]
  BY DEF Disturbed
<1>2. \A p \in Bulk : bulk'[p] = Disturbed[p]
  OBVIOUS
<1> QED BY <1>1, <1>2, DisturbedForm DEF OthersStep

LEMMA JobsAreOthers ==
    ASSUME BulkForms, NEW p \in Bulk,
           \/ \E job \in Jobs : JobBegins(p, job)
           \/ AddItem(p) \/ SkipItem(p) \/ JobEnds(p) \/ Dies(p)
    PROVE  OthersStep
<1> USE DEF BulkForms, Adding
<1>1. ASSUME NEW job \in Jobs, JobBegins(p, job) PROVE OthersStep
  BY <1>1 DEF JobBegins, OthersStep
<1>2. ASSUME bulk[p].pc = "adding"
      PROVE  bulk[p] = [pc |-> "adding", job |-> bulk[p].job, k |-> bulk[p].k,
                        ids |-> bulk[p].ids, alone |-> bulk[p].alone]
  BY <1>2 DEF Idle, Reading, Held
<1>3. CASE AddItem(p)
  <2>1. PICK e, ids :
            Goes(p, [NextItem(p) EXCEPT !.ids = ids \cup {e}])
    BY <1>3 DEF AddItem
  <2> DEFINE next == [NextItem(p) EXCEPT !.ids = ids \cup {e}]
  <2>2. /\ next.pc = "adding"
        /\ next = [pc |-> next.pc, job |-> next.job, k |-> next.k, ids |-> next.ids,
                   alone |-> next.alone]
    <3> DEFINE item == [pc |-> "adding", job |-> bulk[p].job, k |-> bulk[p].k + 1,
                        ids |-> bulk[p].ids, alone |-> bulk[p].alone]
    <3>0. bulk[p].pc = "adding"
      BY <1>3 DEF AddItem
    <3>1. NextItem(p) = item
      BY <1>2, <3>0 DEF NextItem
    <3>2. next = [pc |-> "adding", job |-> bulk[p].job, k |-> bulk[p].k + 1,
                  ids |-> ids \cup {e}, alone |-> bulk[p].alone]
      <4>1. next = [item EXCEPT !.ids = ids \cup {e}]
        BY <3>1
      <4> HIDE DEF next
      <4> QED BY <4>1
    <3> HIDE DEF next, item
    <3> QED BY <3>2
  <2>3. \/ bulk' = [Disturbed EXCEPT ![p] = next]
        \/ bulk' = [Disturbed EXCEPT ![p] = Idle]
    BY <2>1 DEF Goes
  <2> HIDE DEF next
  <2>4. /\ bulk' = [q \in Bulk |-> bulk'[q]]
        /\ bulk'[p] = next \/ bulk'[p] = Idle
        /\ \A q \in Bulk \ {p} : bulk'[q] = Disturbed[q]
    BY <2>3 DEF Disturbed
  <2>5. UNCHANGED hookVars
    BY <1>3 DEF AddItem
  <2>6. ASSUME NEW q \in Bulk
        PROVE  \/ bulk'[q] = bulk[q]
               \/ bulk'[q] = Idle
               \/ /\ bulk'[q].pc \in Adding
                  /\ bulk'[q] = [pc |-> bulk'[q].pc, job |-> bulk'[q].job, k |-> bulk'[q].k,
                                 ids |-> bulk'[q].ids, alone |-> bulk'[q].alone]
    <3>1. CASE q = p
      BY <2>2, <2>4, <3>1
    <3>2. CASE q # p
      BY <2>4, <3>2, DisturbedForm
    <3> QED BY <3>1, <3>2
  <2> QED BY <2>4, <2>5, <2>6 DEF OthersStep
<1>4. CASE SkipItem(p)
  <2> DEFINE alone == bulk[p].alone /\ Converged
             item == [pc |-> "adding", job |-> bulk[p].job, k |-> bulk[p].k + 1,
                      ids |-> bulk[p].ids, alone |-> bulk[p].alone]
  <2>1. NextItem(p) = item
    BY <1>2, <1>4 DEF SkipItem, NextItem
  <2>2. bulk'[p] = [item EXCEPT !.alone = item.alone /\ Converged]
    BY <1>4, <2>1 DEF SkipItem
  <2>3. bulk'[p] = [pc |-> "adding", job |-> bulk[p].job, k |-> bulk[p].k + 1,
                    ids |-> bulk[p].ids, alone |-> alone]
    BY <2>2
  <2> HIDE DEF alone, item
  <2> QED BY <1>4, <2>3 DEF SkipItem, OthersStep
<1>5. CASE JobEnds(p)
  <2>1. bulk'[p] = [pc |-> "done", job |-> bulk[p].job, k |-> bulk[p].k,
                    ids |-> bulk[p].ids, alone |-> bulk[p].alone]
    BY <1>2, <1>5 DEF JobEnds
  <2> QED BY <1>5, <2>1 DEF JobEnds, OthersStep
<1>6. CASE Dies(p)
  BY <1>6 DEF Dies, OthersStep
<1> QED BY <1>1, <1>3, <1>4, <1>5, <1>6

-----------------------------------------------------------------------------
(* The hook's steps.                                                       *)

(* It reads from an offset behind which all is digested. *)
LEMMA BeginsKeeps ==
    ASSUME HookInv, PeakInv, NEW p \in Bulk, DigestBegins(p)
    PROVE  HookInv' /\ PeakInv'
<1> USE DEF HookInv, BulkForms, hookVars, Adding, Reading, Moving, Held, Idle
<1>1. PICK read \in offset.at + 1..transcript :
          bulk' = [bulk EXCEPT ![p] = [pc |-> "looking", from |-> offset.at, to |-> read]]
  BY DEF DigestBegins
<1>2. /\ bulk'[p] = [pc |-> "looking", from |-> offset.at, to |-> read]
      /\ \A q \in Bulk \ {p} : bulk'[q] = bulk[q]
      /\ read \in Nat
  BY <1>1
<1>3. UNCHANGED hookVars
  BY DEF DigestBegins
<1>4. BulkForms'
  BY <1>1, <1>2
<1>5. HookInv'
  BY <1>2, <1>3, <1>4 DEF DigestedTo
<1>6. PeakInv'
  BY <1>2, <1>3 DEF PeakInv
<1> QED BY <1>5, <1>6

(* A digest of the turns from n on, put to those before, makes them all digested. *)
LEMMA DigestReaches ==
    ASSUME NEW n \in Nat, NEW m \in Nat, DigestedTo(n),
           NEW d \in digests, d.from = n, d.to = m
    PROVE  DigestedTo(m)
BY DEF DigestedTo

(* It goes on without a digest only if there is one of the same turns. *)
LEMMA LooksKeeps ==
    ASSUME HookInv, PeakInv, NEW p \in Bulk, DigestLooks(p)
    PROVE  HookInv' /\ PeakInv'
<1> USE DEF HookInv, BulkForms, hookVars, Adding, Reading, Moving, Held, Idle
<1> DEFINE found == AlreadyDigested(bulk[p].from, bulk[p].to)
<1>1. /\ bulk[p].from \in Nat /\ bulk[p].to \in Nat
      /\ bulk[p] = [pc |-> "looking", from |-> bulk[p].from, to |-> bulk[p].to]
      /\ DigestedTo(bulk[p].from)
  BY DEF DigestLooks
<1>2. /\ bulk'[p] = [pc |-> IF found THEN "opening" ELSE "digesting",
                     from |-> bulk[p].from, to |-> bulk[p].to]
      /\ bulk' = [q \in Bulk |-> bulk'[q]]
      /\ \A q \in Bulk \ {p} : bulk'[q] = bulk[q]
  BY <1>1 DEF DigestLooks
<1>3. UNCHANGED hookVars
  BY DEF DigestLooks
<1>4. found => DigestedTo(bulk[p].to)
  BY <1>1, DigestReaches DEF AlreadyDigested
<1> HIDE DEF found
<1>5. BulkForms'
  BY <1>1, <1>2
<1>6. HookInv'
  BY <1>1, <1>2, <1>3, <1>4, <1>5 DEF DigestedTo
<1>7. PeakInv'
  BY <1>2, <1>3 DEF PeakInv
<1> QED BY <1>6, <1>7

(* Its digest is of the turns behind those that were digested. *)
LEMMA AddsKeeps ==
    ASSUME HookInv, PeakInv, NEW p \in Bulk, DigestAdds(p)
    PROVE  HookInv' /\ PeakInv'
<1> USE DEF Adding, Reading, Moving, Held, Idle
<1> DEFINE next == [pc |-> "opening", from |-> bulk[p].from, to |-> bulk[p].to]
<1>1. /\ bulk[p].from \in Nat /\ bulk[p].to \in Nat
      /\ bulk[p] = [pc |-> "digesting", from |-> bulk[p].from, to |-> bulk[p].to]
      /\ DigestedTo(bulk[p].from)
  BY DEF DigestAdds, HookInv, BulkForms
<1>2. [bulk[p] EXCEPT !.pc = "opening"] = next
  BY <1>1
<1>3. \/ bulk' = [Disturbed EXCEPT ![p] = next]
      \/ bulk' = [Disturbed EXCEPT ![p] = Idle]
  BY <1>2 DEF DigestAdds, Goes
<1>4. /\ bulk' = [q \in Bulk |-> bulk'[q]]
      /\ bulk'[p] = next \/ bulk'[p] = Idle
      /\ \A q \in Bulk \ {p} : bulk'[q] = Disturbed[q]
  BY <1>3 DEF Disturbed
<1>5. PICK now : digests' = digests \cup {[ts |-> now, from |-> bulk[p].from, to |-> bulk[p].to]}
  BY DEF DigestAdds
<1>6. UNCHANGED <<offset, peak, stray>>
  BY DEF DigestAdds
<1>7. \A n : DigestedTo(n) => DigestedTo(n)'
  BY <1>5 DEF DigestedTo
<1>8. ASSUME NEW t \in 1..bulk[p].to PROVE \E d \in digests' : d.from < t /\ t <= d.to
  <2> DEFINE d == [ts |-> now, from |-> bulk[p].from, to |-> bulk[p].to]
  <2>1. CASE t <= bulk[p].from
    BY <1>1, <1>5, <2>1 DEF DigestedTo
  <2>2. CASE t > bulk[p].from
    <3>1. d \in digests' /\ d.from = bulk[p].from /\ d.to = bulk[p].to
      BY <1>5
    <3> HIDE DEF d
    <3> QED BY <2>2, <3>1
  <2> QED BY <1>1, <2>1, <2>2
<1>9. \A q \in Bulk \ {p} :
          \/ bulk'[q] = bulk[q]
          \/ /\ bulk'[q].pc \in Adding
             /\ bulk'[q] = [pc |-> bulk'[q].pc, job |-> bulk'[q].job, k |-> bulk'[q].k,
                            ids |-> bulk'[q].ids, alone |-> bulk'[q].alone]
  BY <1>4, DisturbedForm DEF HookInv
<1>10. BulkForms'
  BY <1>1, <1>4, <1>9 DEF HookInv, BulkForms
<1>11. \A q \in Bulk \ {p} : bulk'[q].pc \in Reading \cup Moving => bulk'[q] = bulk[q]
  BY <1>9
<1>12. HookInv'
  <2>1. DigestedTo(offset.at)' /\ offset'.at \in Nat
    BY <1>6, <1>7 DEF HookInv, DigestedTo
  <2>2. ASSUME NEW q \in Bulk
        PROVE  /\ bulk'[q].pc \in Reading => DigestedTo(bulk[q].from)'
               /\ bulk'[q].pc \in Moving => DigestedTo(bulk[q].to)'
    <3>1. CASE q = p
      BY <1>4, <1>8, <3>1 DEF DigestedTo
    <3>2. CASE q # p
      BY <1>7, <1>11, <3>2 DEF HookInv, DigestedTo
    <3> QED BY <3>1, <3>2
  <2> QED BY <1>10, <2>1, <2>2 DEF HookInv
<1>13. PeakInv'
  BY <1>4, <1>6, <1>11 DEF PeakInv
<1> QED BY <1>12, <1>13

LEMMA OpensKeeps ==
    ASSUME HookInv, PeakInv, NEW p \in Bulk, OpensState(p)
    PROVE  HookInv' /\ PeakInv'
<1> USE DEF Adding, Reading, Moving, Held, Idle
<1>1. /\ bulk'[p] = [pc |-> "locking", to |-> bulk[p].to, file |-> offset.file]
      /\ bulk' = [q \in Bulk |-> bulk'[q]]
      /\ \A q \in Bulk \ {p} : bulk'[q] = bulk[q]
      /\ UNCHANGED <<offset, digests, peak, stray>>
  BY DEF OpensState, hookVars, HookInv, BulkForms
<1>2. bulk[p].to \in Nat /\ DigestedTo(bulk[p].to)
  BY DEF OpensState, HookInv, BulkForms
<1>3. BulkForms'
  BY <1>1, <1>2 DEF HookInv, BulkForms
<1>4. HookInv'
  BY <1>1, <1>2, <1>3 DEF HookInv, DigestedTo
<1>5. PeakInv'
  BY <1>1 DEF PeakInv
<1> QED BY <1>4, <1>5

(* Who locks the state file that is there, while all who may advance hold that lock,
   is alone. *)
LEMMA LocksKeeps ==
    ASSUME HookInv, PeakInv, NEW p \in Bulk, LocksState(p)
    PROVE  HookInv' /\ PeakInv'
<1> USE DEF Adding, Reading, Moving, Held, Idle
<1>1. /\ bulk[p] = [pc |-> "locking", to |-> bulk[p].to, file |-> bulk[p].file]
      /\ bulk[p].to \in Nat /\ DigestedTo(bulk[p].to)
  BY DEF LocksState, HookInv, BulkForms
<1>2. /\ \/ /\ bulk[p].to > offset.at
            /\ bulk'[p] = [pc |-> "advancing", to |-> bulk[p].to, file |-> bulk[p].file]
         \/ bulk'[p] = Idle
      /\ bulk' = [q \in Bulk |-> bulk'[q]]
      /\ \A q \in Bulk \ {p} : bulk'[q] = bulk[q]
      /\ UNCHANGED <<offset, digests, peak>>
  BY <1>1 DEF LocksState, HookInv, BulkForms
<1>3. BulkForms'
  BY <1>1, <1>2 DEF HookInv, BulkForms
<1>4. HookInv'
  BY <1>1, <1>2, <1>3 DEF HookInv, DigestedTo
<1>5. PeakInv'
  <2>1. \A q \in Bulk : bulk[q].pc = "advancing" => bulk[q].file # bulk[p].file
    BY DEF LocksState, Holders
  <2>2. ~stray' => ~stray /\ bulk[p].file = offset.file
    BY DEF LocksState
  <2>3. ~stray' => \A q \in Bulk : bulk[q].pc # "advancing"
    BY <2>1, <2>2 DEF PeakInv
  <2> QED BY <1>2, <2>2, <2>3 DEF PeakInv
<1> QED BY <1>4, <1>5

LEMMA MaxOfTwo ==
    ASSUME NEW a \in Nat, NEW b \in Nat
    PROVE  /\ Max({a, b}) \in Nat
           /\ a <= b => Max({a, b}) = b
<1>1. \E x \in {a, b} : \A y \in {a, b} : x >= y
  OBVIOUS
<1>2. Max({a, b}) \in {a, b} /\ \A y \in {a, b} : Max({a, b}) >= y
  BY <1>1 DEF Max
<1> QED BY <1>2

LEMMA AdvancesKeeps ==
    ASSUME HookInv, PeakInv, NEW p \in Bulk, AdvancesState(p)
    PROVE  HookInv' /\ PeakInv'
<1> USE DEF Adding, Reading, Moving, Held, Idle
<1>1. bulk[p].pc = "advancing" /\ bulk[p].to \in Nat /\ DigestedTo(bulk[p].to)
  BY DEF AdvancesState, HookInv, BulkForms
<1>2. /\ offset'.at = bulk[p].to
      /\ peak' = Max({peak, bulk[p].to})
      /\ bulk'[p] = Idle
      /\ bulk' = [q \in Bulk |-> bulk'[q]]
      /\ \A q \in Bulk \ {p} : bulk'[q] = bulk[q]
      /\ UNCHANGED <<digests, stray>>
  BY DEF AdvancesState, HookInv, BulkForms
<1>3. BulkForms'
  BY <1>2 DEF HookInv, BulkForms
<1>4. HookInv'
  BY <1>1, <1>2, <1>3 DEF HookInv, DigestedTo
<1>5. PeakInv'
  BY <1>1, <1>2, MaxOfTwo DEF PeakInv, HookInv
<1> QED BY <1>4, <1>5

-----------------------------------------------------------------------------
(* The peer graph.                                                         *)

Tables(d) == d = [edges |-> d.edges, graphs |-> d.graphs]

(* Imported edges are members, one for each relation. *)
OnceIn(d) ==
    /\ \A e \in d.edges : e.imported => e.kind = Member
    /\ \A e, f \in d.edges :
          e.imported /\ f.imported /\ Relation(e) = Relation(f) => e = f

PeersInv ==
    /\ Tables(peers)
    /\ OnceIn(peers)
    /\ time \in Nat
    /\ stamps \subseteq SeedFiles
    /\ \A p \in Importers : asked[p] \in SeedFiles \cup {Nothing}
    /\ DOMAIN asked = Importers
    /\ ImportedStays

(* Induction, over a set. *)
LEMMA Upwards ==
    ASSUME NEW n \in Nat, NEW S, 0 \in S, \A k \in 0..n - 1 : k \in S => k + 1 \in S
    PROVE  \A k \in 0..n : k \in S
<1> DEFINE T == (0..n) \ S
<1> SUFFICES ASSUME T # {} PROVE FALSE
  OBVIOUS
<1>1. T \subseteq Nat
  OBVIOUS
<1>2. PICK m \in T : \A x \in T : ~(<<x, m>> \in OpToRel(<, Nat))
  BY <1>1, NatLessThanWellFounded, WFMin
<1>3. m \in 0..n /\ m \notin S /\ m # 0
  OBVIOUS
<1>4. m - 1 \in 0..n - 1 /\ m - 1 < m /\ (m - 1) + 1 = m
  BY <1>3
<1>5. m - 1 \notin S
  BY <1>3, <1>4
<1>6. m - 1 \in T /\ m - 1 \in Nat /\ m \in Nat
  BY <1>4, <1>5
<1>7. <<m - 1, m>> \in OpToRel(<, Nat)
  BY <1>4, <1>6 DEF OpToRel
<1> QED BY <1>2, <1>6, <1>7

(* Finding or creating a graph leaves the edges alone. *)
LEMMA GraphForm ==
    ASSUME NEW d, Tables(d), NEW s
    PROVE  Tables(WithGraph(d, s)) /\ WithGraph(d, s).edges = d.edges
BY DEF Tables, WithGraph

IsLink(e, s, kind, imported) ==
    Relation(e) = Relation(s) /\ e.kind = kind /\ e.imported = imported /\ e.until = Until(s)

(* A link is one more edge. *)
LEMMA LinkForm ==
    ASSUME NEW d, Tables(d), NEW s, NEW kind, NEW imported
    PROVE  /\ Tables(Linked(d, s, kind, imported))
           /\ \E e : /\ Linked(d, s, kind, imported).edges = d.edges \cup {e}
                     /\ IsLink(e, s, kind, imported)
<1> DEFINE g == WithGraph(d, s)
           h == CHOOSE x \in GraphsFor(g, s) : TRUE
           e == [id |-> Fresh(g), graph |-> h.id, from |-> s.from, to |-> s.to,
                 slug |-> s.slug, kind |-> kind, until |-> Until(s), imported |-> imported]
<1>1. Tables(g) /\ g.edges = d.edges
  BY GraphForm
<1>2. Linked(d, s, kind, imported) = [g EXCEPT !.edges = @ \cup {e}]
  BY DEF Linked, WithEdge
<1>3. IsLink(e, s, kind, imported)
  BY DEF Relation, IsLink
<1> HIDE DEF g, e
<1>4. /\ Tables(Linked(d, s, kind, imported))
      /\ Linked(d, s, kind, imported).edges = d.edges \cup {e}
  BY <1>1, <1>2 DEF Tables
<1> QED BY <1>3, <1>4

(* What sweeping leaves is among what there was, and all that has not expired. *)
LEMMA SweptForm ==
    ASSUME NEW d, Tables(d)
    PROVE  /\ Tables(Unexpired(d)) /\ Unexpired(d).edges = {e \in d.edges : ~Ended(e)}
           /\ Tables(WithoutOrphans(d)) /\ WithoutOrphans(d).edges = d.edges
           /\ Tables(Swept(d)) /\ Swept(d).edges = {e \in d.edges : ~Ended(e)}
<1>1. Tables(Unexpired(d)) /\ Unexpired(d).edges = {e \in d.edges : ~Ended(e)}
  BY DEF Tables, Unexpired
<1>2. ASSUME NEW c, Tables(c)
      PROVE  Tables(WithoutOrphans(c)) /\ WithoutOrphans(c).edges = c.edges
  <2> DEFINE linked == {g \in c.graphs : \E e \in c.edges : e.graph = g.id}
  <2>1. WithoutOrphans(c) = [c EXCEPT !.graphs = linked]
    BY DEF WithoutOrphans
  <2> HIDE DEF linked
  <2> QED BY <1>2, <2>1 DEF Tables
<1> QED BY <1>1, <1>2 DEF Swept

(* Fewer edges are as single as they were. *)
LEMMA FewerOnce ==
    ASSUME NEW d, OnceIn(d), NEW c, c.edges \subseteq d.edges
    PROVE  OnceIn(c)
BY DEF OnceIn

(* So is an edge more, unless it is imported beside another of the relation. *)
LEMMA OneMoreOnce ==
    ASSUME NEW d, OnceIn(d), NEW s, NEW c, NEW e, c.edges = d.edges \cup {e},
           Relation(e) = Relation(s),
           e.imported => e.kind = Member /\ Related(d, s) = {}
    PROVE  OnceIn(c)
BY DEF OnceIn, Related

-----------------------------------------------------------------------------
(* The seeds of a file, one after the other.                               *)

Step(d, s) == IF Related(d, s) # {} THEN d ELSE Linked(d, s, Member, TRUE)

(* The tables after each of the first n seeds. *)
Stepwise(f, n, d, file) ==
    f = [k \in 0..n |-> IF k = 0 THEN d ELSE Step(f[k - 1], file[k])]

LEMMA StepwiseGoesOn ==
    ASSUME NEW n \in Nat, NEW d, NEW file, NEW f, Stepwise(f, n, d, file)
    PROVE  \E g : Stepwise(g, n + 1, d, file)
<1> DEFINE last == Step(f[n], file[n + 1])
           g == [k \in 0..n + 1 |-> IF k <= n THEN f[k] ELSE last]
<1>1. \A k \in 0..n : f[k] = IF k = 0 THEN d ELSE Step(f[k - 1], file[k])
  BY DEF Stepwise
<1>2. \A k \in 0..n : g[k] = f[k]
  OBVIOUS
<1>3. g[n + 1] = last
  OBVIOUS
<1>4. DOMAIN g = 0..n + 1 /\ g = [k \in 0..n + 1 |-> g[k]]
  OBVIOUS
<1> HIDE DEF g
<1>5. ASSUME NEW k \in 0..n + 1
      PROVE  g[k] = IF k = 0 THEN d ELSE Step(g[k - 1], file[k])
  <2>1. CASE k = 0
    <3>1. 0 \in 0..n
      OBVIOUS
    <3> QED BY <1>1, <1>2, <2>1, <3>1
  <2>2. CASE k # 0 /\ k <= n
    <3>1. k \in 0..n /\ k - 1 \in 0..n
      BY <2>2
    <3>2. f[k] = Step(f[k - 1], file[k])
      BY <1>1, <2>2, <3>1
    <3> QED BY <1>2, <2>2, <3>1, <3>2
  <2>3. CASE k = n + 1
    <3>1. k # 0 /\ k - 1 = n /\ n \in 0..n
      BY <2>3
    <3> QED BY <1>2, <1>3, <2>3, <3>1
  <2> QED BY <2>1, <2>2, <2>3
<1>6. Stepwise(g, n + 1, d, file)
  BY <1>4, <1>5 DEF Stepwise
<1> QED BY <1>6

LEMMA StepwiseIs ==
    ASSUME NEW n \in Nat, NEW d, NEW file
    PROVE  \E f : Stepwise(f, n, d, file)
<1> DEFINE S == {k \in 0..n : \E f : Stepwise(f, k, d, file)}
<1>1. 0 \in S
  <2>1. \A k \in 0..0 : k = 0
    OBVIOUS
  <2>2. Stepwise([k \in 0..0 |-> d], 0, d, file)
    BY <2>1 DEF Stepwise
  <2> QED BY <2>2
<1>2. \A k \in 0..n - 1 : k \in S => k + 1 \in S
  BY StepwiseGoesOn
<1> HIDE DEF S
<1>3. n \in S
  BY <1>1, <1>2, Upwards
<1> QED BY <1>3 DEF S

LEMMA ImportedIs ==
    ASSUME NEW d, NEW file \in SeedFiles
    PROVE  /\ Len(file) \in Nat /\ DOMAIN file = 1..Len(file)
           /\ Imported(d, file)[0] = d
           /\ \A k \in 0..Len(file) - 1 :
                 Imported(d, file)[k + 1] = Step(Imported(d, file)[k], file[k + 1])
<1>1. file \in Seq({file[k] : k \in DOMAIN file})
  BY PeerAssumption
<1>2. Len(file) \in Nat /\ DOMAIN file = 1..Len(file)
  BY <1>1
<1> DEFINE n == Len(file)
           f == Imported(d, file)
<1>3. Stepwise(f, n, d, file)
  <2>1. f = CHOOSE g : Stepwise(g, n, d, file)
    BY DEF Imported, Stepwise, Step
  <2> HIDE DEF f, n
  <2>2. n \in Nat
    BY <1>2 DEF n
  <2> QED BY <2>1, <2>2, StepwiseIs
<1> HIDE DEF f
<1>4. \A k \in 0..n : f[k] = IF k = 0 THEN d ELSE Step(f[k - 1], file[k])
  BY <1>3 DEF Stepwise
<1>5. f[0] = d
  BY <1>2, <1>4
<1>6. ASSUME NEW k \in 0..n - 1 PROVE f[k + 1] = Step(f[k], file[k + 1])
  <2>1. k + 1 \in 0..n /\ k + 1 # 0 /\ (k + 1) - 1 = k
    BY <1>2
  <2> QED BY <1>4, <2>1
<1> QED BY <1>2, <1>5, <1>6 DEF f

(* The first k seeds of a file are in d, and whatever is new beside d0 is not expired. *)
Growing(d0, d, file, k) ==
    /\ Tables(d) /\ OnceIn(d)
    /\ d0.edges \subseteq d.edges
    /\ \A e \in d.edges : e \in d0.edges \/ ~Ended(e)
    /\ \A j \in 1..k : Related(d, file[j]) # {}

LEMMA StepGrows ==
    ASSUME NEW d0, NEW d, NEW file \in SeedFiles, NEW k \in 0..Len(file) - 1,
           time \in Nat, Growing(d0, d, file, k)
    PROVE  Growing(d0, Step(d, file[k + 1]), file, k + 1)
<1> DEFINE s == file[k + 1]
<1>1. Len(file) \in Nat /\ k + 1 \in DOMAIN file /\ \A j \in 1..k + 1 : j \in 1..k \/ j = k + 1
  BY ImportedIs
<1>2. s.ttl \in {NoEnd} \cup Nat
  BY <1>1, PeerAssumption
<1>3. CASE Related(d, s) # {}
  BY <1>1, <1>3 DEF Step, Growing
<1>4. CASE Related(d, s) = {}
  <2> DEFINE c == Linked(d, s, Member, TRUE)
  <2>0. PICK e : c.edges = d.edges \cup {e} /\ IsLink(e, s, Member, TRUE)
    BY LinkForm DEF Growing
  <2>1. /\ c.edges = d.edges \cup {e} /\ Relation(e) = Relation(s)
        /\ e.kind = Member /\ e.imported /\ e.until = Until(s)
    BY <2>0 DEF IsLink
  <2>2. Tables(c)
    BY LinkForm DEF Growing
  <2>3. Step(d, s) = c
    BY <1>4 DEF Step
  <2> HIDE DEF c, s
  <2>4. OnceIn(c)
    BY <1>4, <2>1, OneMoreOnce DEF Growing
  <2>5. ~Ended(e)
    BY <1>2, <2>1 DEF Ended, Until, NoEnd
  <2>6. \A j \in 1..k + 1 : Related(c, file[j]) # {}
    <3> TAKE j \in 1..k + 1
    <3>1. CASE j \in 1..k
      BY <2>1, <3>1 DEF Growing, Related
    <3>2. CASE j = k + 1
      BY <2>1, <3>2 DEF Related, s
    <3> QED BY <1>1, <3>1, <3>2
  <2>7. d0.edges \subseteq c.edges /\ \A x \in c.edges : x \in d0.edges \/ ~Ended(x)
    BY <2>1, <2>5 DEF Growing
  <2>8. Growing(d0, c, file, k + 1)
    BY <2>2, <2>4, <2>6, <2>7 DEF Growing
  <2> QED BY <2>3, <2>8 DEF s
<1> QED BY <1>3, <1>4

LEMMA ImportGrows ==
    ASSUME PeersInv, NEW file \in SeedFiles
    PROVE  \A k \in 0..Len(file) : Growing(peers, Imported(peers, file)[k], file, k)
<1> DEFINE f == Imported(peers, file)
           n == Len(file)
           S == {k \in 0..n : Growing(peers, f[k], file, k)}
<1>1. n \in Nat /\ f[0] = peers /\ \A k \in 0..n - 1 : f[k + 1] = Step(f[k], file[k + 1])
  BY ImportedIs
<1>2. 0 \in S
  <2>1. Growing(peers, peers, file, 0)
    BY DEF Growing, PeersInv
  <2> QED BY <1>1, <2>1
<1>3. \A k \in 0..n - 1 : k \in S => k + 1 \in S
  <2> TAKE k \in 0..n - 1
  <2> SUFFICES ASSUME k \in S PROVE k + 1 \in S
    OBVIOUS
  <2>1. Growing(peers, f[k], file, k) /\ time \in Nat
    BY DEF PeersInv
  <2> HIDE DEF f
  <2>2. Growing(peers, Step(f[k], file[k + 1]), file, k + 1)
    BY <2>1, StepGrows
  <2>3. k + 1 \in 0..n
    BY <1>1
  <2> QED BY <1>1, <2>2, <2>3
<1> HIDE DEF S, n
<1>4. \A k \in 0..n : k \in S
  BY <1>1, <1>2, <1>3, Upwards
<1> QED BY <1>4 DEF S, n

-----------------------------------------------------------------------------
(* Commands on the peer graph.                                             *)

(* A table that a command may leave: what it lacks has expired or was taken. *)
Leaves(d, taken) ==
    /\ Tables(d) /\ OnceIn(d)
    /\ \A e \in peers.edges : e \in d.edges \/ Ended(e) \/ e \in taken

(* A relation stays told of. *)
LEMMA RelationStays ==
    ASSUME NEW taken, Loses(taken), Leaves(peers', taken), NEW s,
           Related(peers, s) # {} \/ Relation(s) \in gone
    PROVE  Related(peers', s) # {} \/ Relation(s) \in gone'
<1>1. Relation(s) \in RelationsOf(peers'.edges) => Related(peers', s) # {}
  BY DEF RelationsOf, Related
<1>2. CASE Relation(s) \in gone
  BY <1>1, <1>2 DEF Loses
<1>3. CASE Related(peers, s) # {}
  <2>1. PICK e \in peers.edges : e.kind = Member /\ Relation(e) = Relation(s)
    BY <1>3 DEF Related
  <2>2. CASE e \in peers'.edges
    BY <2>1, <2>2 DEF Related
  <2>3. CASE Ended(e) \/ e \in taken
    <3>1. Relation(s) \in RelationsOf(taken \cup {x \in peers.edges : Ended(x)})
      BY <2>1, <2>3 DEF RelationsOf
    <3> QED BY <1>1, <3>1 DEF Loses
  <2> QED BY <2>2, <2>3 DEF Leaves
<1> QED BY <1>2, <1>3

(* What leaves an allowed table and writes no stamp keeps the invariant. *)
LEMMA LeavesKeeps ==
    ASSUME PeersInv, NEW taken, Loses(taken), Leaves(peers', taken),
           UNCHANGED <<stamps, time>>,
           DOMAIN asked' = Importers /\ \A p \in Importers : asked'[p] \in SeedFiles \cup {Nothing}
    PROVE  PeersInv'
<1>1. ImportedStays'
  BY RelationStays DEF PeersInv, ImportedStays
<1>2. Tables(peers') /\ OnceIn(peers')
  BY DEF Leaves
<1> QED BY <1>1, <1>2 DEF PeersInv, Tables, OnceIn

(* To sweep is allowed. *)
LEMMA SweepLeaves ==
    ASSUME PeersInv, NEW d, NEW taken, Leaves(d, taken)
    PROVE  \A c \in {Unexpired(d), Swept(d)} : Leaves(c, taken)
<1>1. ASSUME NEW c, Tables(c), c.edges = {e \in d.edges : ~Ended(e)}
      PROVE  Leaves(c, taken)
  BY <1>1, FewerOnce DEF Leaves
<1> QED BY <1>1, SweptForm DEF Leaves

LEMMA AddLinkKeeps ==
    ASSUME PeersInv, NEW s, AddLink(s)
    PROVE  PeersInv'
<1> DEFINE linked == Linked(peers, s, s.kind, FALSE)
<1>1. Tables(peers) /\ OnceIn(peers)
  BY DEF PeersInv
<1>2. Leaves(WithGraph(peers, s), {})
  BY <1>1, GraphForm, FewerOnce DEF Leaves
<1>3. Leaves(linked, {})
  <2>0. PICK e : linked.edges = peers.edges \cup {e} /\ IsLink(e, s, s.kind, FALSE)
    BY <1>1, LinkForm
  <2>1. linked.edges = peers.edges \cup {e} /\ Relation(e) = Relation(s) /\ ~e.imported
    BY <2>0 DEF IsLink
  <2>2. Tables(linked)
    BY <1>1, LinkForm
  <2> HIDE DEF linked
  <2>3. OnceIn(linked)
    BY <1>1, <2>1, OneMoreOnce
  <2> QED BY <2>1, <2>2, <2>3 DEF Leaves
<1>4. /\ peers' \in {WithGraph(peers, s), linked} \cup Sweeping(linked)
      /\ Loses({}) /\ UNCHANGED <<stamps, asked, time>>
  BY DEF AddLink, Becomes
<1> HIDE DEF linked
<1>5. Leaves(peers', {})
  BY <1>2, <1>3, <1>4, SweepLeaves DEF Sweeping
<1> QED BY <1>4, <1>5, LeavesKeeps DEF PeersInv

LEMMA RemoveKeeps ==
    ASSUME PeersInv, NEW edges, RemoveLinks(edges)
    PROVE  PeersInv'
<1> DEFINE rest == [peers EXCEPT !.edges = @ \ edges]
<1>1. Tables(rest) /\ rest.edges = peers.edges \ edges
  BY DEF PeersInv, Tables
<1>2. /\ peers' \in {rest, WithoutOrphans(rest)} \cup Sweeping(WithoutOrphans(rest))
      /\ Loses(edges) /\ UNCHANGED <<stamps, asked, time>>
  BY DEF RemoveLinks, Becomes
<1> HIDE DEF rest
<1>3. Leaves(rest, edges)
  BY <1>1, FewerOnce DEF Leaves, PeersInv
<1>4. Leaves(WithoutOrphans(rest), edges)
  <2>1. Tables(WithoutOrphans(rest)) /\ WithoutOrphans(rest).edges = rest.edges
    BY <1>1, SweptForm
  <2>2. OnceIn(WithoutOrphans(rest))
    BY <1>3, <2>1, FewerOnce DEF Leaves
  <2> QED BY <1>3, <2>1, <2>2 DEF Leaves
<1>5. Leaves(peers', edges)
  BY <1>2, <1>3, <1>4, SweepLeaves DEF Sweeping
<1> QED BY <1>2, <1>5, LeavesKeeps DEF PeersInv

(* The tables after some of the seeds are allowed. *)
LEMMA GrowingLeaves ==
    ASSUME PeersInv, NEW d, NEW file, NEW k, Growing(peers, d, file, k)
    PROVE  Leaves(d, {})
BY DEF Growing, Leaves

LEMMA ImportKeeps ==
    ASSUME PeersInv, NEW p \in Importers, Import(p)
    PROVE  PeersInv'
<1> DEFINE file == asked[p]
           rows == Imported(peers, file)[Len(file)]
<1>1. /\ file # Nothing
      /\ peers' = IF rows # peers THEN Swept(rows) ELSE rows
      /\ Loses({})
      /\ stamps' = stamps \cup {file}
      /\ asked' = [asked EXCEPT ![p] = Nothing]
      /\ time' = time
  BY DEF Import, Becomes
<1>2. file \in SeedFiles
  BY <1>1 DEF PeersInv
<1>3. Len(file) \in Nat /\ DOMAIN file = 1..Len(file)
  BY <1>2, ImportedIs
<1>4. Growing(peers, rows, file, Len(file))
  BY <1>2, <1>3, ImportGrows
<1> HIDE DEF file, rows
<1>5. Leaves(peers', {})
  BY <1>1, <1>4, GrowingLeaves, SweepLeaves
<1>6. \A k \in DOMAIN file : Related(peers', file[k]) # {} \/ Relation(file[k]) \in gone'
  <2> TAKE k \in DOMAIN file
  <2>1. PICK e \in rows.edges : e.kind = Member /\ Relation(e) = Relation(file[k])
    BY <1>3, <1>4 DEF Growing, Related
  <2>2. CASE e \in peers'.edges
    BY <2>1, <2>2 DEF Related
  <2>3. CASE e \notin peers'.edges
    <3>1. Ended(e)
      BY <1>1, <1>4, <2>3, SweptForm DEF Growing
    <3>2. e \in peers.edges
      BY <1>4, <3>1 DEF Growing
    <3>3. Related(peers, file[k]) # {}
      BY <2>1, <3>2 DEF Related
    <3> QED BY <1>1, <1>5, <3>3, RelationStays
  <2> QED BY <2>2, <2>3
<1>7. ImportedStays'
  <2>1. \A g \in stamps : \A k \in DOMAIN g :
            Related(peers', g[k]) # {} \/ Relation(g[k]) \in gone'
    BY <1>1, <1>5, RelationStays DEF PeersInv, ImportedStays
  <2> QED BY <1>1, <1>6, <2>1 DEF ImportedStays
<1>8. /\ DOMAIN asked' = Importers
      /\ \A q \in Importers : asked'[q] \in SeedFiles \cup {Nothing}
      /\ time' \in Nat /\ stamps' \subseteq SeedFiles
  BY <1>1, <1>2 DEF PeersInv
<1>9. Tables(peers') /\ OnceIn(peers')
  BY <1>5 DEF Leaves
<1> QED BY <1>7, <1>8, <1>9 DEF PeersInv, Tables, OnceIn

LEMMA ImportStopsKeeps ==
    ASSUME PeersInv, NEW p \in Importers, ImportStops(p)
    PROVE  PeersInv'
<1> DEFINE file == asked[p]
           rows == Imported(peers, file)
<1>1. /\ file # Nothing /\ peers' \in PartlyImported(file) /\ Loses({})
      /\ asked' = [asked EXCEPT ![p] = Nothing]
      /\ UNCHANGED <<stamps, time>>
  BY DEF ImportStops, Becomes
<1>2. file \in SeedFiles
  BY <1>1 DEF PeersInv
<1>3. Len(file) \in Nat
  BY <1>2, ImportedIs
<1>4. \A k \in 0..Len(file) : Growing(peers, rows[k], file, k)
  BY <1>2, ImportGrows
<1>5. \/ \E k \in 0..Len(file) : peers' = rows[k]
      \/ \E k \in 0..Len(file) : peers' = WithGraph(rows[k], file[k + 1])
      \/ peers' \in Sweeping(rows[Len(file)])
  BY <1>1 DEF PartlyImported, Accepted
<1> HIDE DEF file, rows
<1>6. ASSUME NEW k \in 0..Len(file)
      PROVE  Leaves(rows[k], {}) /\ Leaves(WithGraph(rows[k], file[k + 1]), {})
  <2>1. Growing(peers, rows[k], file, k)
    BY <1>4
  <2>2. Leaves(rows[k], {})
    BY <2>1, GrowingLeaves
  <2>3. /\ Tables(WithGraph(rows[k], file[k + 1]))
        /\ WithGraph(rows[k], file[k + 1]).edges = rows[k].edges
    BY <2>2, GraphForm DEF Leaves
  <2> QED BY <2>2, <2>3, FewerOnce DEF Leaves
<1>7. Leaves(peers', {})
  <2>1. Len(file) \in 0..Len(file)
    BY <1>3
  <2>2. \A c \in Sweeping(rows[Len(file)]) : Leaves(c, {})
    BY <1>6, <2>1, SweepLeaves DEF Sweeping
  <2> QED BY <1>5, <1>6, <2>2
<1>8. /\ DOMAIN asked' = Importers
      /\ \A q \in Importers : asked'[q] \in SeedFiles \cup {Nothing}
  BY <1>1 DEF PeersInv
<1> QED BY <1>1, <1>7, <1>8, LeavesKeeps

LEMMA PeerStepKeeps ==
    ASSUME PeersInv, PeerNext
    PROVE  PeersInv'
<1>1. CASE SweepStops
  <2>1. peers' \in Sweeping(peers) /\ Loses({}) /\ UNCHANGED <<stamps, asked, time>>
    BY <1>1 DEF SweepStops, Becomes
  <2>2. Leaves(peers, {})
    BY DEF PeersInv, Leaves
  <2>3. Leaves(peers', {})
    BY <2>1, <2>2, SweepLeaves DEF Sweeping
  <2> QED BY <2>1, <2>3, LeavesKeeps DEF PeersInv
<1>2. ASSUME NEW p \in Importers, NEW file \in SeedFiles, ImportAsks(p, file)
      PROVE  PeersInv'
  <2>1. /\ asked' = [asked EXCEPT ![p] = file]
        /\ UNCHANGED <<peers, stamps, time, gone>>
    BY <1>2 DEF ImportAsks
  <2>2. /\ DOMAIN asked' = Importers
        /\ \A q \in Importers : asked'[q] \in SeedFiles \cup {Nothing}
    BY <2>1 DEF PeersInv
  <2>3. ImportedStays'
    BY <2>1 DEF PeersInv, ImportedStays
  <2> QED BY <2>1, <2>2, <2>3 DEF PeersInv
<1>3. CASE TimePasses
  BY <1>3 DEF TimePasses, PeersInv, ImportedStays
<1> QED BY <1>1, <1>2, <1>3, AddLinkKeeps, RemoveKeeps, ImportKeeps, ImportStopsKeeps
        DEF PeerNext

LEMMA PeersHold ==
    ASSUME PeersInv, [KbNext]_kbVars
    PROVE  PeersInv'
<1>1. CASE UNCHANGED peerVars
  BY <1>1 DEF peerVars, PeersInv, ImportedStays
<1>2. CASE SweepPeers
  <2>1. peers' = Swept(peers) /\ Loses({}) /\ UNCHANGED <<stamps, asked, time>>
    BY <1>2 DEF SweepPeers, Becomes
  <2>2. Leaves(peers, {})
    BY DEF PeersInv, Leaves
  <2>3. Leaves(peers', {})
    BY <2>1, <2>2, SweepLeaves
  <2> QED BY <2>1, <2>3, LeavesKeeps DEF PeersInv
<1>3. CASE LosePeers
  <2>1. Leaves(peers', peers.edges)
    BY <1>3 DEF LosePeers, Leaves, NoPeers, Tables, OnceIn
  <2> QED BY <1>3, <2>1, LeavesKeeps DEF LosePeers, PeersInv
<1> QED BY <1>1, <1>2, <1>3, PeerStepKeeps
        DEF KbNext, kbVars, WritesBetween, Recovers, CompactAndSweep, RebuildWithoutPeers

LEMMA PeersInit == KbInit => PeersInv
BY DEF KbInit, PeerInit, PeersInv, NoPeers, Tables, OnceIn, ImportedStays

-----------------------------------------------------------------------------
(* The theorems.                                                           *)

LEMMA HookInit == KbInit => HookInv /\ PeakInv
BY DEF KbInit, BulkInit, HookInv, PeakInv, BulkForms, DigestedTo, Idle, Adding, Reading,
       Moving, Held

LEMMA HookNext ==
    ASSUME HookInv, PeakInv, [KbNext]_kbVars
    PROVE  HookInv' /\ PeakInv'
<1> USE DEF bulkVars
<1>0. BulkForms
  BY DEF HookInv
<1>1. UNCHANGED bulkVars => OthersStep
  BY <1>0 DEF OthersStep, hookVars, BulkForms
<1>2. CASE WritesBetween
  BY <1>0, <1>2, WritesAreOthers, OthersKeep DEF WritesBetween
<1>3. CASE Recovers \/ CompactAndSweep \/ RebuildWithoutPeers
  BY <1>1, <1>3, OthersKeep DEF Recovers, CompactAndSweep, RebuildWithoutPeers
<1>4. CASE BulkNext
  <2>1. ASSUME NEW p \in Bulk,
               \/ \E job \in Jobs : JobBegins(p, job)
               \/ AddItem(p) \/ SkipItem(p) \/ JobEnds(p) \/ Dies(p)
        PROVE  HookInv' /\ PeakInv'
    BY <1>0, <2>1, JobsAreOthers, OthersKeep
  <2>2. ASSUME NEW p \in Bulk,
               \/ DigestBegins(p) \/ DigestLooks(p) \/ DigestAdds(p)
               \/ OpensState(p) \/ LocksState(p) \/ AdvancesState(p)
        PROVE  HookInv' /\ PeakInv'
    BY <2>2, BeginsKeeps, LooksKeeps, AddsKeeps, OpensKeeps, LocksKeeps, AdvancesKeeps
  <2>3. CASE SessionGoesOn
    <3>1. UNCHANGED <<bulk, offset, digests, peak, stray>>
      BY <2>3 DEF SessionGoesOn
    <3> QED BY <3>1 DEF HookInv, PeakInv, BulkForms, DigestedTo
  <2> QED BY <1>4, <2>1, <2>2, <2>3 DEF BulkNext
<1>5. CASE UNCHANGED <<vars, bulkVars>> \/ UNCHANGED kbVars
  BY <1>1, <1>5, OthersKeep DEF kbVars
<1> QED BY <1>2, <1>3, <1>4, <1>5 DEF KbNext

(* Of every turn the offset of a session has passed, a digest was written, however
   many hooks, ingests, imports and other writers there are, wherever any of them dies,
   and whether or not the offset went back (session_digest, transcript_state.rs). *)
THEOREM NoTurnIsSkipped == KbSpec => []TurnsDigested
<1>1. HookInv => TurnsDigested
  BY DEF HookInv, DigestedTo, TurnsDigested
<1> QED BY <1>1, HookInit, HookNext, PTL DEF KbSpec

(* The offset is the highest that any hook wrote unless some hook had the lock of a
   state file that was replaced, for any number of hooks (transcript_state.rs). *)
THEOREM OffsetKeepsPeak == KbSpec => []OffsetIsPeak
<1>1. PeakInv => OffsetIsPeak
  BY DEF PeakInv, OffsetIsPeak
<1> QED BY <1>1, HookInit, HookNext, PTL DEF KbSpec

(* Imports never leave two edges of one relation, for any number of importers, seed
   files and links, wherever an import dies (peers.rs: no constraint stands behind its
   lookups). *)
THEOREM NoRelationTwice == KbSpec => []ImportsOnce
<1>1. PeersInv => ImportsOnce
  BY DEF PeersInv, OnceIn, ImportsOnce
<1> QED BY <1>1, PeersInit, PeersHold, PTL DEF KbSpec

(* A relation of a file that has its stamp is there, unless it was removed, expired, or
   lost in a rebuild since (peers.rs: the stamp comes last). *)
THEOREM StampedIsThere == KbSpec => []ImportedStays
<1>1. PeersInv => ImportedStays
  BY DEF PeersInv
<1> QED BY <1>1, PeersInit, PeersHold, PTL DEF KbSpec

-----------------------------------------------------------------------------
(* The tables, and what an event leaves of them.                           *)

EntryForm(r) ==
    /\ r.row = TRUE /\ r.kind \in Kinds
    /\ r = [live |-> r.live, row |-> r.row, path |-> r.path, permanent |-> r.permanent,
            updated |-> r.updated, text |-> r.text, kind |-> r.kind, status |-> r.status]

Shape(d) ==
    /\ d = [entries |-> d.entries, evidence |-> d.evidence, candidates |-> d.candidates,
            verdicts |-> d.verdicts, weights |-> d.weights, tests |-> d.tests,
            runs |-> d.runs, emb |-> d.emb, failed |-> d.failed]
    /\ d.failed \in BOOLEAN
    /\ d.entries = [e \in Entries |-> d.entries[e]]
    /\ \A e \in Entries : d.entries[e] = Absent \/ EntryForm(d.entries[e])
    /\ \A r \in d.evidence : /\ r.owner \in Entries
                             /\ r = [ev |-> r.ev, owner |-> r.owner, at |-> r.at]

(* Of c the history is that of d. *)
SameHistory(c, d) ==
    /\ c.runs = d.runs /\ c.candidates = d.candidates /\ c.verdicts = d.verdicts
    /\ c.weights = d.weights

SameKinds(c, d) ==
    \A e \in Entries : /\ c.entries[e].row = d.entries[e].row
                       /\ d.entries[e].row => c.entries[e].kind = d.entries[e].kind

LeavesHistory(c, d) ==
    /\ Shape(c) /\ c.failed = d.failed
    /\ SameHistory(c, d) /\ SameKinds(c, d)

LEMMA LeavesTwice ==
    ASSUME NEW a, NEW b, NEW c, LeavesHistory(b, a), LeavesHistory(c, b)
    PROVE  LeavesHistory(c, a)
BY DEF LeavesHistory, SameHistory, SameKinds

(* Another table of entries, with the rows and the kinds it had. *)
LEMMA EntriesForm ==
    ASSUME NEW d, Shape(d), NEW t, t = [e \in Entries |-> t[e]],
           \A e \in Entries : \/ t[e] = d.entries[e]
                              \/ /\ d.entries[e].row = TRUE /\ EntryForm(t[e])
                                 /\ t[e].kind = d.entries[e].kind
    PROVE  LeavesHistory([d EXCEPT !.entries = t], d)
<1> DEFINE c == [entries |-> t, evidence |-> d.evidence, candidates |-> d.candidates,
                 verdicts |-> d.verdicts, weights |-> d.weights, tests |-> d.tests,
                 runs |-> d.runs, emb |-> d.emb, failed |-> d.failed]
<1>1. [d EXCEPT !.entries = t] = c
  BY DEF Shape
<1>2. /\ c.entries = t /\ c.evidence = d.evidence /\ c.candidates = d.candidates
      /\ c.verdicts = d.verdicts /\ c.weights = d.weights /\ c.tests = d.tests
      /\ c.runs = d.runs /\ c.emb = d.emb /\ c.failed = d.failed
  OBVIOUS
<1>3. c = [entries |-> c.entries, evidence |-> c.evidence, candidates |-> c.candidates,
           verdicts |-> c.verdicts, weights |-> c.weights, tests |-> c.tests,
           runs |-> c.runs, emb |-> c.emb, failed |-> c.failed]
  OBVIOUS
<1> HIDE DEF c
<1>4. Shape(c)
  BY <1>2, <1>3 DEF Shape
<1>5. SameKinds(c, d)
  BY <1>2 DEF SameKinds, EntryForm
<1>6. SameHistory(c, d)
  BY <1>2 DEF SameHistory
<1> QED BY <1>1, <1>2, <1>4, <1>5, <1>6 DEF LeavesHistory

LEMMA EvidenceForm ==
    ASSUME NEW d, Shape(d), NEW x,
           \A r \in x : /\ r.owner \in Entries
                        /\ r = [ev |-> r.ev, owner |-> r.owner, at |-> r.at]
    PROVE  /\ LeavesHistory([d EXCEPT !.evidence = x], d)
           /\ [d EXCEPT !.evidence = x].entries = d.entries
<1> DEFINE c == [entries |-> d.entries, evidence |-> x, candidates |-> d.candidates,
                 verdicts |-> d.verdicts, weights |-> d.weights, tests |-> d.tests,
                 runs |-> d.runs, emb |-> d.emb, failed |-> d.failed]
<1>1. [d EXCEPT !.evidence = x] = c
  BY DEF Shape
<1>2. /\ c.entries = d.entries /\ c.evidence = x /\ c.candidates = d.candidates
      /\ c.verdicts = d.verdicts /\ c.weights = d.weights /\ c.tests = d.tests
      /\ c.runs = d.runs /\ c.emb = d.emb /\ c.failed = d.failed
  OBVIOUS
<1>3. c = [entries |-> c.entries, evidence |-> c.evidence, candidates |-> c.candidates,
           verdicts |-> c.verdicts, weights |-> c.weights, tests |-> c.tests,
           runs |-> c.runs, emb |-> c.emb, failed |-> c.failed]
  OBVIOUS
<1> HIDE DEF c
<1> QED BY <1>1, <1>2, <1>3 DEF Shape, LeavesHistory, SameHistory, SameKinds

(* Vectors and test cases are no part of the history. *)
LEMMA OthersForm ==
    ASSUME NEW d, Shape(d), NEW v, NEW t
    PROVE  /\ LeavesHistory([d EXCEPT !.emb = v], d) /\ [d EXCEPT !.emb = v].entries = d.entries
           /\ LeavesHistory([d EXCEPT !.tests = t], d)
<1> DEFINE b == [entries |-> d.entries, evidence |-> d.evidence, candidates |-> d.candidates,
                 verdicts |-> d.verdicts, weights |-> d.weights, tests |-> d.tests,
                 runs |-> d.runs, emb |-> v, failed |-> d.failed]
           c == [entries |-> d.entries, evidence |-> d.evidence, candidates |-> d.candidates,
                 verdicts |-> d.verdicts, weights |-> d.weights, tests |-> t,
                 runs |-> d.runs, emb |-> d.emb, failed |-> d.failed]
<1>1. [d EXCEPT !.emb = v] = b /\ [d EXCEPT !.tests = t] = c
  BY DEF Shape
<1>2. LeavesHistory(b, d) /\ b.entries = d.entries
  BY DEF Shape, LeavesHistory, SameHistory, SameKinds
<1>3. LeavesHistory(c, d)
  BY DEF Shape, LeavesHistory, SameHistory, SameKinds
<1> QED BY <1>1, <1>2, <1>3

LEMMA StatusLeaves ==
    ASSUME NEW d, Shape(d), NEW e \in Entries, d.entries[e].row = TRUE
    PROVE  LeavesHistory(WithStatus(d, e), d)
<1> DEFINE s == EvidenceStatus(d, e)
           t == [d.entries EXCEPT ![e].status = s]
<1>1. WithStatus(d, e) = [d EXCEPT !.entries = t]
  BY DEF WithStatus
<1>2. EntryForm(d.entries[e])
  BY DEF Shape, Absent
<1> HIDE DEF s
<1>3. /\ t = [x \in Entries |-> t[x]]
      /\ \A x \in Entries : x # e => t[x] = d.entries[x]
      /\ t[e] = [d.entries[e] EXCEPT !.status = s]
  BY DEF Shape
<1> HIDE DEF t
<1>4. EntryForm(t[e]) /\ t[e].kind = d.entries[e].kind
  BY <1>2, <1>3 DEF EntryForm
<1>5. \A x \in Entries : \/ t[x] = d.entries[x]
                         \/ /\ d.entries[x].row = TRUE /\ EntryForm(t[x])
                            /\ t[x].kind = d.entries[x].kind
  BY <1>3, <1>4
<1>6. LeavesHistory([d EXCEPT !.entries = t], d)
  BY <1>3, <1>5, EntriesForm
<1> QED BY <1>1, <1>6

LEMMA TouchLeaves ==
    ASSUME NEW d, Shape(d), NEW e \in Entries, d.entries[e].row = TRUE, NEW ts
    PROVE  LeavesHistory([d EXCEPT !.entries[e].updated = ts], d)
<1> DEFINE t == [d.entries EXCEPT ![e].updated = ts]
<1>1. [d EXCEPT !.entries[e].updated = ts] = [d EXCEPT !.entries = t]
  OBVIOUS
<1>2. EntryForm(d.entries[e])
  BY DEF Shape, Absent
<1>3. /\ t = [x \in Entries |-> t[x]]
      /\ \A x \in Entries : x # e => t[x] = d.entries[x]
      /\ t[e] = [d.entries[e] EXCEPT !.updated = ts]
  BY DEF Shape
<1> HIDE DEF t
<1>4. EntryForm(t[e]) /\ t[e].kind = d.entries[e].kind
  BY <1>2, <1>3 DEF EntryForm
<1>5. \A x \in Entries : \/ t[x] = d.entries[x]
                         \/ /\ d.entries[x].row = TRUE /\ EntryForm(t[x])
                            /\ t[x].kind = d.entries[x].kind
  BY <1>3, <1>4
<1>6. LeavesHistory([d EXCEPT !.entries = t], d)
  BY <1>3, <1>5, EntriesForm
<1> QED BY <1>1, <1>6

LEMMA ExpiredLeaves ==
    ASSUME NEW d, Shape(d), NEW ended, NEW ts
    PROVE  LeavesHistory(Expired(d, ended, ts), d)
<1> DEFINE x == {r \in d.evidence : r.owner \notin ended}
           v == [e \in Entries |-> IF e \in ended THEN NoVector ELSE d.emb[e]]
           t == [e \in Entries |->
                    IF e \in ended /\ d.entries[e].row
                    THEN [d.entries[e] EXCEPT !.live = FALSE, !.status = "n/a", !.updated = ts]
                    ELSE d.entries[e]]
           a == [d EXCEPT !.evidence = x]
           b == [a EXCEPT !.emb = v]
<1>1. LeavesHistory(a, d) /\ a.entries = d.entries
  BY EvidenceForm DEF Shape
<1>2. LeavesHistory(b, a) /\ b.entries = a.entries
  <2> HIDE DEF a
  <2> QED BY <1>1, OthersForm DEF LeavesHistory
<1>3. Expired(d, ended, ts) = [b EXCEPT !.entries = t]
  BY DEF Expired, Shape
<1>4. ASSUME NEW e \in Entries
      PROVE  \/ t[e] = d.entries[e]
             \/ /\ d.entries[e].row = TRUE /\ EntryForm(t[e])
                /\ t[e].kind = d.entries[e].kind
  <2>1. CASE e \in ended /\ d.entries[e].row
    <3>1. EntryForm(d.entries[e])
      BY <2>1 DEF Shape, Absent
    <3>2. t[e] = [d.entries[e] EXCEPT !.live = FALSE, !.status = "n/a", !.updated = ts]
      BY <2>1
    <3> HIDE DEF t
    <3> QED BY <3>1, <3>2 DEF EntryForm
  <2> QED BY <2>1
<1>5. t = [e \in Entries |-> t[e]]
  OBVIOUS
<1> HIDE DEF a, b, t
<1>6. LeavesHistory([b EXCEPT !.entries = t], b)
  BY <1>1, <1>2, <1>4, <1>5, EntriesForm DEF LeavesHistory
<1> QED BY <1>1, <1>2, <1>3, <1>6, LeavesTwice

-----------------------------------------------------------------------------
(* What the first n events of a log say of the history.                    *)

IsUpsert(L, u, e) == L[u].op = "upsert" /\ L[u].id = e

Latest(L, u, e, n) ==
    /\ u \in 1..n /\ IsUpsert(L, u, e)
    /\ \A w \in u + 1..n : ~IsUpsert(L, w, e)

KindSaid(ev) == IF ev.kind = "none" THEN "belief" ELSE ev.kind

Judges(L, i, run, e) ==
    L[i].op = "verdicts" /\ L[i].run = run /\ e \in DOMAIN L[i].answers

(* The first verdict of a run on an entry counts, for the kind it then had. *)
JudgedAs(L, n, run, e, k) ==
    \E i \in 1..n : /\ Judges(L, i, run, e)
                    /\ \A j \in 1..i - 1 : ~Judges(L, j, run, e)
                    /\ \E u : Latest(L, u, e, i) /\ k = KindSaid(L[u])

LegacyRuns(L, n, t) == {j \in 1..n : IsLegacyRun(L[j]) /\ L[j].id = t}

RunRow(key, ordinal, t) == [key |-> key, ordinal |-> ordinal, test |-> t]

RunRows(L, n) ==
    {RunRow(L[i].key, 0, L[i].id) : i \in {j \in 1..n : L[j].op = "run" /\ L[j].key # 0}}
    \cup UNION {{RunRow(0, o, t) : o \in 0..Cardinality(LegacyRuns(L, n, t)) - 1} : t \in Tests}

CandidateRows(L, n) ==
    UNION {{<<L[i].run, e, L[i].arms[e]>> : e \in DOMAIN L[i].arms} :
               i \in {j \in 1..n : L[j].op = "candidates"}}

VerdictRows(L, n) ==
    UNION {{<<L[i].run, e, L[i].answers[e]>> : e \in DOMAIN L[i].answers} :
               i \in {j \in 1..n : L[j].op = "verdicts"}}

CountedAs(L, n, k, answer) ==
    {v \in VerdictRows(L, n) : v[3] = answer /\ JudgedAs(L, n, v[1], v[2], k)}

Remembers(d, L, n) ==
    /\ d.runs = RunRows(L, n)
    /\ d.candidates = CandidateRows(L, n)
    /\ d.verdicts = VerdictRows(L, n)
    /\ IsFiniteSet(d.verdicts)
    /\ d.weights = [k \in Kinds |-> [good |-> Cardinality(CountedAs(L, n, k, "true")),
                                    bad |-> Cardinality(CountedAs(L, n, k, "false"))]]
    /\ \A v \in d.verdicts : \E k \in Kinds : JudgedAs(L, n, v[1], v[2], k)

RowsOf(d, L, n) ==
    \A e \in Entries : d.entries[e].row =>
        \E u : Latest(L, u, e, n) /\ d.entries[e].kind = KindSaid(L[u])

Tells(d, L, n) == Shape(d) /\ ~d.failed /\ Remembers(d, L, n) /\ RowsOf(d, L, n)

-----------------------------------------------------------------------------
(* One event more.                                                         *)

HistoryOps == {"run", "candidates", "verdicts"}

LEMMA UpToNext ==
    ASSUME NEW n \in Nat
    PROVE  \A i : i \in 1..n + 1 <=> i \in 1..n \/ i = n + 1
OBVIOUS

LEMMA JudgedStays ==
    ASSUME NEW L, NEW n \in Nat, NEW m \in Nat, n <= m, NEW v \in VerdictRows(L, n), NEW k
    PROVE  JudgedAs(L, m, v[1], v[2], k) <=> JudgedAs(L, n, v[1], v[2], k)
<1>1. PICK i \in 1..n : Judges(L, i, v[1], v[2])
  BY DEF VerdictRows, Judges
<1>2. ASSUME NEW j \in 1..m, \A h \in 1..j - 1 : ~Judges(L, h, v[1], v[2])
      PROVE  j \in 1..n
  BY <1>1, <1>2
<1>3. 1..n \subseteq 1..m
  OBVIOUS
<1> QED BY <1>2, <1>3 DEF JudgedAs

LEMMA VerdictRowsGrow ==
    ASSUME NEW L, NEW n \in Nat, NEW m \in Nat, n <= m
    PROVE  VerdictRows(L, n) \subseteq VerdictRows(L, m)
<1>1. 1..n \subseteq 1..m
  OBVIOUS
<1> QED BY <1>1 DEF VerdictRows

(* An event that is no run, no candidate and no verdict says nothing of the history. *)
LEMMA QuietRows ==
    ASSUME NEW L, NEW n \in Nat, L[n + 1].op \notin HistoryOps
    PROVE  /\ RunRows(L, n + 1) = RunRows(L, n)
           /\ CandidateRows(L, n + 1) = CandidateRows(L, n)
           /\ VerdictRows(L, n + 1) = VerdictRows(L, n)
           /\ \A k, a : CountedAs(L, n + 1, k, a) = CountedAs(L, n, k, a)
<1>1. \A t : LegacyRuns(L, n + 1, t) = LegacyRuns(L, n, t)
  BY UpToNext DEF LegacyRuns, IsLegacyRun, HistoryOps
<1>2. {j \in 1..n + 1 : L[j].op = "run" /\ L[j].key # 0} = {j \in 1..n : L[j].op = "run" /\ L[j].key # 0}
  BY UpToNext DEF HistoryOps
<1>3. {j \in 1..n + 1 : L[j].op = "candidates"} = {j \in 1..n : L[j].op = "candidates"}
  BY UpToNext DEF HistoryOps
<1>4. {j \in 1..n + 1 : L[j].op = "verdicts"} = {j \in 1..n : L[j].op = "verdicts"}
  BY UpToNext DEF HistoryOps
<1>5. VerdictRows(L, n + 1) = VerdictRows(L, n)
  BY <1>4 DEF VerdictRows
<1>6. ASSUME NEW k, NEW a PROVE CountedAs(L, n + 1, k, a) = CountedAs(L, n, k, a)
  <2>1. \A v \in VerdictRows(L, n) :
            JudgedAs(L, n + 1, v[1], v[2], k) <=> JudgedAs(L, n, v[1], v[2], k)
    BY JudgedStays
  <2> QED BY <1>5, <2>1 DEF CountedAs
<1>7. RunRows(L, n + 1) = RunRows(L, n)
  BY <1>1, <1>2 DEF RunRows
<1>8. CandidateRows(L, n + 1) = CandidateRows(L, n)
  BY <1>3 DEF CandidateRows
<1> QED BY <1>5, <1>6, <1>7, <1>8

LEMMA QuietRemembers ==
    ASSUME NEW L, NEW n \in Nat, L[n + 1].op \notin HistoryOps,
           NEW d, Remembers(d, L, n), NEW c, SameHistory(c, d)
    PROVE  Remembers(c, L, n + 1)
<1>1. /\ RunRows(L, n + 1) = RunRows(L, n)
      /\ CandidateRows(L, n + 1) = CandidateRows(L, n)
      /\ VerdictRows(L, n + 1) = VerdictRows(L, n)
      /\ \A k, a : CountedAs(L, n + 1, k, a) = CountedAs(L, n, k, a)
  BY QuietRows
<1>2. ASSUME NEW v \in d.verdicts PROVE \E k \in Kinds : JudgedAs(L, n + 1, v[1], v[2], k)
  <2>1. PICK k \in Kinds : JudgedAs(L, n, v[1], v[2], k)
    BY DEF Remembers
  <2>2. v \in VerdictRows(L, n)
    BY DEF Remembers
  <2> QED BY <2>1, <2>2, JudgedStays
<1> QED BY <1>1, <1>2 DEF Remembers, SameHistory

LEMMA RowsGoOn ==
    ASSUME NEW L, NEW n \in Nat, L[n + 1].op # "upsert",
           NEW d, RowsOf(d, L, n), NEW c, SameKinds(c, d)
    PROVE  RowsOf(c, L, n + 1)
<1> SUFFICES ASSUME NEW e \in Entries, c.entries[e].row
             PROVE  \E u : Latest(L, u, e, n + 1) /\ c.entries[e].kind = KindSaid(L[u])
  BY DEF RowsOf
<1>1. PICK u : Latest(L, u, e, n) /\ d.entries[e].kind = KindSaid(L[u])
  BY DEF RowsOf, SameKinds
<1>2. Latest(L, u, e, n + 1)
  <2>1. \A w \in u + 1..n + 1 : w \in u + 1..n \/ w = n + 1
    BY <1>1 DEF Latest
  <2> QED BY <1>1, <2>1 DEF Latest, IsUpsert
<1> QED BY <1>1, <1>2 DEF SameKinds

LEMMA QuietTells ==
    ASSUME NEW L, NEW n \in Nat, L[n + 1].op \notin HistoryOps, L[n + 1].op # "upsert",
           NEW d, Tells(d, L, n), NEW c, LeavesHistory(c, d)
    PROVE  Tells(c, L, n + 1)
BY QuietRemembers, RowsGoOn DEF Tells, LeavesHistory

(* The tables with another history. *)
Retold(d, runs, candidates, verdicts, weights) ==
    [entries |-> d.entries, evidence |-> d.evidence, candidates |-> candidates,
     verdicts |-> verdicts, weights |-> weights, tests |-> d.tests,
     runs |-> runs, emb |-> d.emb, failed |-> d.failed]

LEMMA RetoldIs ==
    ASSUME NEW d, Shape(d), NEW x
    PROVE  /\ [d EXCEPT !.runs = x] = Retold(d, x, d.candidates, d.verdicts, d.weights)
           /\ [d EXCEPT !.candidates = x] = Retold(d, d.runs, x, d.verdicts, d.weights)
           /\ [d EXCEPT !.verdicts = x] = Retold(d, d.runs, d.candidates, x, d.weights)
           /\ [d EXCEPT !.weights = x] = Retold(d, d.runs, d.candidates, d.verdicts, x)
<1>1. [d EXCEPT !.runs = x] = Retold(d, x, d.candidates, d.verdicts, d.weights)
  BY DEF Shape, Retold
<1>2. [d EXCEPT !.candidates = x] = Retold(d, d.runs, x, d.verdicts, d.weights)
  BY DEF Shape, Retold
<1>3. [d EXCEPT !.verdicts = x] = Retold(d, d.runs, d.candidates, x, d.weights)
  BY DEF Shape, Retold
<1>4. [d EXCEPT !.weights = x] = Retold(d, d.runs, d.candidates, d.verdicts, x)
  BY DEF Shape, Retold
<1> QED BY <1>1, <1>2, <1>3, <1>4

LEMMA RetoldForm ==
    ASSUME NEW d, Shape(d), NEW x, NEW y, NEW z, NEW w,
           NEW c, c = Retold(d, x, y, z, w)
    PROVE  /\ Shape(c) /\ c.entries = d.entries /\ c.failed = d.failed
           /\ c.runs = x /\ c.candidates = y /\ c.verdicts = z /\ c.weights = w
<1>1. /\ c.entries = d.entries /\ c.evidence = d.evidence /\ c.tests = d.tests
      /\ c.emb = d.emb /\ c.failed = d.failed
      /\ c.runs = x /\ c.candidates = y /\ c.verdicts = z /\ c.weights = w
      /\ c = [entries |-> c.entries, evidence |-> c.evidence, candidates |-> c.candidates,
              verdicts |-> c.verdicts, weights |-> c.weights, tests |-> c.tests,
              runs |-> c.runs, emb |-> c.emb, failed |-> c.failed]
  BY DEF Retold
<1> QED BY <1>1 DEF Shape

LEMMA TableForm ==
    ASSUME NEW d, Shape(d), NEW x, NEW c,
           \/ c = [d EXCEPT !.runs = x] \/ c = [d EXCEPT !.candidates = x]
           \/ c = [d EXCEPT !.verdicts = x] \/ c = [d EXCEPT !.weights = x]
    PROVE  Shape(c) /\ c.failed = d.failed
<1>1. CASE c = [d EXCEPT !.runs = x]
  <2>1. c = Retold(d, x, d.candidates, d.verdicts, d.weights)
    BY <1>1, RetoldIs
  <2> QED BY <2>1, RetoldForm
<1>2. CASE c = [d EXCEPT !.candidates = x]
  <2>1. c = Retold(d, d.runs, x, d.verdicts, d.weights)
    BY <1>2, RetoldIs
  <2> QED BY <2>1, RetoldForm
<1>3. CASE c = [d EXCEPT !.verdicts = x]
  <2>1. c = Retold(d, d.runs, d.candidates, x, d.weights)
    BY <1>3, RetoldIs
  <2> QED BY <2>1, RetoldForm
<1>4. CASE c = [d EXCEPT !.weights = x]
  <2>1. c = Retold(d, d.runs, d.candidates, d.verdicts, x)
    BY <1>4, RetoldIs
  <2> QED BY <2>1, RetoldForm
<1> QED BY <1>1, <1>2, <1>3, <1>4

LEMMA FailedForm ==
    ASSUME NEW d, Shape(d), NEW b \in BOOLEAN
    PROVE  Shape([d EXCEPT !.failed = b]) /\ [d EXCEPT !.failed = b].failed = b
<1> DEFINE c == [entries |-> d.entries, evidence |-> d.evidence, candidates |-> d.candidates,
                 verdicts |-> d.verdicts, weights |-> d.weights, tests |-> d.tests,
                 runs |-> d.runs, emb |-> d.emb, failed |-> b]
<1>1. [d EXCEPT !.failed = b] = c
  BY DEF Shape
<1>2. /\ c.entries = d.entries /\ c.evidence = d.evidence /\ c.tests = d.tests
      /\ c.emb = d.emb /\ c.failed = b
      /\ c = [entries |-> c.entries, evidence |-> c.evidence, candidates |-> c.candidates,
              verdicts |-> c.verdicts, weights |-> c.weights, tests |-> c.tests,
              runs |-> c.runs, emb |-> c.emb, failed |-> c.failed]
  OBVIOUS
<1> HIDE DEF c
<1>3. Shape(c)
  BY <1>2 DEF Shape
<1> QED BY <1>1, <1>2, <1>3

LEMMA FailForm ==
    ASSUME NEW d, Shape(d)
    PROVE  Shape([d EXCEPT !.failed = TRUE]) /\ [d EXCEPT !.failed = TRUE].failed = TRUE
BY FailedForm

(* An upsert. *)
LEMMA UpsertForm ==
    ASSUME NEW d, Shape(d), NEW ev, IsEvent(ev), ev.op = "upsert", NEW embeds
    PROVE  LET c == ApplyUpsert(d, ev, embeds)
           IN  /\ Shape(c) /\ c.failed = d.failed /\ SameHistory(c, d)
               /\ c.entries[ev.id].kind = KindSaid(ev)
               /\ \A x \in Entries : x # ev.id => c.entries[x] = d.entries[x]
<1> DEFINE e == ev.id
           old == d.entries[e]
           row == [live |-> TRUE, row |-> TRUE, path |-> ev.path,
                   permanent |-> ev.permanent, updated |-> ev.ts, text |-> ev.ts,
                   kind |-> IF ev.kind = "none" THEN "belief" ELSE ev.kind,
                   status |-> IF old.row THEN old.status ELSE "n/a"]
           v == [d.emb EXCEPT ![e] = IF embeds THEN row.text ELSE @]
           t == [d.entries EXCEPT ![e] = row]
           put == [entries |-> t, evidence |-> d.evidence, candidates |-> d.candidates,
                   verdicts |-> d.verdicts, weights |-> d.weights, tests |-> d.tests,
                   runs |-> d.runs, emb |-> v, failed |-> d.failed]
<1>1. e \in Entries /\ row.kind = KindSaid(ev) /\ row.kind \in Kinds
  BY DEF IsEvent, KindSaid, Kinds, Mandated, EvidenceOps
<1>2. EntryForm(row)
  BY <1>1 DEF EntryForm
<1> HIDE DEF row, v
<1>3. /\ t = [x \in Entries |-> t[x]] /\ t[e] = row
      /\ \A x \in Entries : x # e => t[x] = d.entries[x]
  BY <1>1 DEF Shape
<1> HIDE DEF t
<1>4. Shape(put)
  BY <1>2, <1>3 DEF Shape
<1>5. ApplyUpsert(d, ev, embeds) = IF ev.kind = "none" THEN put ELSE WithStatus(put, e)
  <2>0. d = [entries |-> d.entries, evidence |-> d.evidence, candidates |-> d.candidates,
              verdicts |-> d.verdicts, weights |-> d.weights, tests |-> d.tests,
              runs |-> d.runs, emb |-> d.emb, failed |-> d.failed]
    BY DEF Shape
  <2> DEFINE mid == [d EXCEPT !.entries = t]
  <2>a. mid = [entries |-> t, evidence |-> d.evidence, candidates |-> d.candidates,
                   verdicts |-> d.verdicts, weights |-> d.weights, tests |-> d.tests,
                   runs |-> d.runs, emb |-> d.emb, failed |-> d.failed]
    BY <2>0
  <2>1. [d EXCEPT !.entries = t, !.emb = v] = put
    <3>1. [d EXCEPT !.entries = t, !.emb = v] = [mid EXCEPT !.emb = v]
      OBVIOUS
    <3> HIDE DEF mid
    <3> QED BY <2>a, <3>1
  <2>2. [d EXCEPT !.entries[e] = row, !.emb[e] = IF embeds THEN row.text ELSE @]
            = [mid EXCEPT !.emb = [mid.emb EXCEPT ![e] = IF embeds THEN row.text ELSE @]]
    BY DEF t
  <2>3. mid.emb = d.emb
    BY DEF Shape
  <2>4. [mid EXCEPT !.emb = v] = [d EXCEPT !.entries = t, !.emb = v]
    OBVIOUS
  <2>5. [d EXCEPT !.entries[e] = row, !.emb[e] = IF embeds THEN row.text ELSE @] = put
    BY <2>1, <2>2, <2>3, <2>4 DEF v
  <2> HIDE DEF put, mid
  <2> QED BY <2>5 DEF ApplyUpsert, row
<1>6. /\ put.failed = d.failed /\ SameHistory(put, d)
      /\ put.entries = t
  BY DEF SameHistory
<1> HIDE DEF put, e
<1>7. \A x \in Entries : x # e => WithStatus(put, e).entries[x] = t[x]
  BY <1>1, <1>3, <1>4, <1>6 DEF WithStatus, Shape
<1>8. put.entries[e].row = TRUE
  BY <1>2, <1>3, <1>6 DEF EntryForm
<1>9. LeavesHistory(WithStatus(put, e), put)
  BY <1>1, <1>4, <1>8, StatusLeaves
<1>10. CASE ev.kind = "none"
  BY <1>1, <1>3, <1>4, <1>5, <1>6, <1>10 DEF e
<1>11. CASE ev.kind # "none"
  <2>1. ApplyUpsert(d, ev, embeds) = WithStatus(put, e)
    BY <1>5, <1>11
  <2>2. WithStatus(put, e).entries[e].kind = KindSaid(ev)
    BY <1>1, <1>3, <1>6, <1>8, <1>9 DEF LeavesHistory, SameKinds
  <2>3. SameHistory(WithStatus(put, e), d)
    BY <1>6, <1>9 DEF LeavesHistory, SameHistory
  <2> QED BY <1>3, <1>6, <1>7, <1>9, <2>1, <2>2, <2>3 DEF LeavesHistory, e
<1> QED BY <1>10, <1>11

LEMMA UpsertTells ==
    ASSUME NEW L, NEW n \in Nat, IsEvent(L[n + 1]), L[n + 1].op = "upsert",
           NEW d, Tells(d, L, n), NEW embeds
    PROVE  Tells(ApplyUpsert(d, L[n + 1], embeds), L, n + 1)
<1> DEFINE c == ApplyUpsert(d, L[n + 1], embeds)
<1>1. /\ Shape(c) /\ c.failed = d.failed /\ SameHistory(c, d)
      /\ c.entries[L[n + 1].id].kind = KindSaid(L[n + 1])
      /\ \A x \in Entries : x # L[n + 1].id => c.entries[x] = d.entries[x]
  BY UpsertForm DEF Tells
<1> HIDE DEF c
<1>2. Remembers(c, L, n + 1)
  BY <1>1, QuietRemembers DEF Tells, HistoryOps
<1>3. ASSUME NEW e \in Entries, c.entries[e].row
      PROVE  \E u : Latest(L, u, e, n + 1) /\ c.entries[e].kind = KindSaid(L[u])
  <2>1. CASE e = L[n + 1].id
    <3>1. Latest(L, n + 1, e, n + 1)
      BY <2>1 DEF Latest, IsUpsert
    <3> QED BY <1>1, <2>1, <3>1
  <2>2. CASE e # L[n + 1].id
    <3>1. PICK u : Latest(L, u, e, n) /\ d.entries[e].kind = KindSaid(L[u])
      BY <1>1, <1>3, <2>2 DEF RowsOf, Tells
    <3>2. \A w \in u + 1..n + 1 : w \in u + 1..n \/ w = n + 1
      BY <3>1 DEF Latest
    <3>3. Latest(L, u, e, n + 1)
      BY <2>2, <3>1, <3>2 DEF Latest, IsUpsert
    <3> QED BY <1>1, <2>2, <3>1, <3>3
  <2> QED BY <2>1, <2>2
<1> QED BY <1>1, <1>2, <1>3 DEF Tells, RowsOf, c

-----------------------------------------------------------------------------
(* A run.                                                                  *)

LEMMA LegacyRunsFinite ==
    ASSUME NEW L, NEW n \in Nat, NEW t
    PROVE  /\ IsFiniteSet(LegacyRuns(L, n, t))
           /\ Cardinality(LegacyRuns(L, n, t)) \in Nat
<1>1. IsFiniteSet(1..n)
  BY FS_Interval
<1>2. LegacyRuns(L, n, t) \in SUBSET (1..n)
  BY DEF LegacyRuns
<1> HIDE DEF LegacyRuns
<1>3. IsFiniteSet(LegacyRuns(L, n, t))
  BY <1>1, <1>2, FS_Subset
<1> QED BY <1>3, FS_CardinalityType

(* The rows of the same content are as many as its runs were. *)
LEMMA SameContentCounts ==
    ASSUME NEW L, NEW n \in Nat, NEW d, d.runs = RunRows(L, n),
           NEW ev, ev.id \in Tests, ev.key = 0
    PROVE  Cardinality(SameContent(d, ev)) = Cardinality(LegacyRuns(L, n, ev.id))
<1> DEFINE N == Cardinality(LegacyRuns(L, n, ev.id))
           f == [o \in 0..N - 1 |-> RunRow(0, o, ev.id)]
           S == SameContent(d, ev)
<1>1. N \in Nat
  BY LegacyRunsFinite
<1>2. S = {RunRow(0, o, ev.id) : o \in 0..N - 1}
  BY DEF SameContent, RunRows, RunRow
<1>3. f \in Bijection(0..N - 1, S)
  <2> HIDE DEF N, S
  <2>1. f \in Surjection(0..N - 1, S)
    BY <1>2 DEF Surjection
  <2>2. f \in Injection(0..N - 1, S)
    BY <1>2 DEF Injection, IsInjective, RunRow
  <2> QED BY <2>1, <2>2 DEF Bijection
<1>4. IsFiniteSet(0..N - 1) /\ Cardinality(0..N - 1) = N
  <2> HIDE DEF N
  <2>1. /\ IsFiniteSet(0..N - 1)
        /\ Cardinality(0..N - 1) = IF 0 > N - 1 THEN 0 ELSE (N - 1) - 0 + 1
    BY <1>1, FS_Interval
  <2> QED BY <1>1, <2>1
<1> HIDE DEF N, f, S
<1>5. ExistsBijection(0..N - 1, S)
  BY <1>3 DEF ExistsBijection
<1>6. Cardinality(S) = N
  BY <1>4, <1>5, FS_Bijection
<1> QED BY <1>6 DEF S, N

LEMMA RunRowsGoOn ==
    ASSUME NEW L, NEW n \in Nat, L[n + 1].op = "run", L[n + 1].id \in Tests
    PROVE  RunRows(L, n + 1) = RunRows(L, n) \cup
               {RunRow(L[n + 1].key,
                       IF L[n + 1].key # 0 THEN 0 ELSE Cardinality(LegacyRuns(L, n, L[n + 1].id)),
                       L[n + 1].id)}
<1> DEFINE ev == L[n + 1]
           N(t) == Cardinality(LegacyRuns(L, n, t))
<1>1. {j \in 1..n + 1 : L[j].op = "run" /\ L[j].key # 0}
          = {j \in 1..n : L[j].op = "run" /\ L[j].key # 0}
                \cup (IF ev.key # 0 THEN {n + 1} ELSE {})
  BY UpToNext
<1>2. ASSUME NEW t
      PROVE  LegacyRuns(L, n + 1, t) = IF ev.key = 0 /\ t = ev.id
                                       THEN LegacyRuns(L, n, t) \cup {n + 1}
                                       ELSE LegacyRuns(L, n, t)
  BY UpToNext DEF LegacyRuns, IsLegacyRun
<1>3. ASSUME NEW t
      PROVE  /\ N(t) \in Nat
             /\ Cardinality(LegacyRuns(L, n + 1, t)) = IF ev.key = 0 /\ t = ev.id
                                                        THEN N(t) + 1 ELSE N(t)
  <2>1. n + 1 \notin LegacyRuns(L, n, t)
    BY DEF LegacyRuns
  <2> QED BY <1>2, <2>1, LegacyRunsFinite, FS_AddElement
<1>4. CASE ev.key # 0
  <2>1. \A t : Cardinality(LegacyRuns(L, n + 1, t)) = N(t)
    BY <1>3, <1>4
  <2>2. {j \in 1..n + 1 : L[j].op = "run" /\ L[j].key # 0}
            = {j \in 1..n : L[j].op = "run" /\ L[j].key # 0} \cup {n + 1}
    BY <1>1, <1>4
  <2> QED BY <1>4, <2>1, <2>2 DEF RunRows
<1>5. CASE ev.key = 0
  <2>1. {j \in 1..n + 1 : L[j].op = "run" /\ L[j].key # 0}
            = {j \in 1..n : L[j].op = "run" /\ L[j].key # 0}
    BY <1>1, <1>5
  <2>2. \A t : t # ev.id => Cardinality(LegacyRuns(L, n + 1, t)) = N(t)
    BY <1>3
  <2>3. Cardinality(LegacyRuns(L, n + 1, ev.id)) = N(ev.id) + 1 /\ N(ev.id) \in Nat
    BY <1>3, <1>5
  <2>4. 0..(N(ev.id) + 1) - 1 = (0..N(ev.id) - 1) \cup {N(ev.id)}
    BY <2>3
  <2> DEFINE Rows(t, m) == {RunRow(0, o, t) : o \in 0..m - 1}
             keyed == {RunRow(L[i].key, 0, L[i].id) :
                          i \in {j \in 1..n : L[j].op = "run" /\ L[j].key # 0}}
  <2>5. Rows(ev.id, N(ev.id) + 1) = Rows(ev.id, N(ev.id)) \cup {RunRow(0, N(ev.id), ev.id)}
    BY <2>4
  <2>6. RunRows(L, n + 1) = keyed \cup UNION {Rows(t, Cardinality(LegacyRuns(L, n + 1, t))) : t \in Tests}
    BY <2>1 DEF RunRows
  <2>7. RunRows(L, n) = keyed \cup UNION {Rows(t, N(t)) : t \in Tests}
    BY DEF RunRows
  <2> HIDE DEF Rows, keyed
  <2> QED BY <1>5, <2>2, <2>3, <2>5, <2>6, <2>7
<1> QED BY <1>4, <1>5

LEMMA RunTells ==
    ASSUME NEW L, NEW n \in Nat, IsEvent(L[n + 1]), L[n + 1].op = "run",
           NEW d, Tells(d, L, n), NEW occurrence \in {Unknown, Occurrence(L, n + 1)},
           NEW c, c = ApplyRun(d, L[n + 1], occurrence), ~c.failed
    PROVE  Tells(c, L, n + 1)
<1> DEFINE ev == L[n + 1]
           N == Cardinality(LegacyRuns(L, n, ev.id))
           ordinal == IF ev.key # 0 THEN 0
                      ELSE IF occurrence # Unknown THEN occurrence
                      ELSE Cardinality(SameContent(d, ev))
           row == [key |-> ev.key, ordinal |-> ordinal, test |-> ev.id]
<1>1. ev.id \in Tests /\ ev.key \in Nat
  BY DEF IsEvent, EvidenceOps
<1>2. c = [d EXCEPT !.runs = @ \cup {row}]
  BY FailForm DEF ApplyRun, Tells
<1>3. ordinal = IF ev.key # 0 THEN 0 ELSE N
  <2>1. SUFFICES ASSUME ev.key = 0 PROVE ordinal = N
    OBVIOUS
  <2>2. Cardinality(SameContent(d, ev)) = N
    BY <1>1, <2>1, SameContentCounts DEF Tells, Remembers
  <2>3. Occurrence(L, n + 1) = N
    BY <2>1 DEF Occurrence, LegacyRuns, IsLegacyRun
  <2> QED BY <2>1, <2>2, <2>3
<1> HIDE DEF N, ordinal
<1>4. row = RunRow(ev.key, IF ev.key # 0 THEN 0 ELSE N, ev.id)
  BY <1>3 DEF RunRow
<1>5. RunRows(L, n + 1) = d.runs \cup {row}
  <2>1. RunRows(L, n) = d.runs
    BY DEF Tells, Remembers
  <2>2. RunRows(L, n + 1) = RunRows(L, n) \cup {RunRow(ev.key, IF ev.key # 0 THEN 0 ELSE N, ev.id)}
    BY <1>1, RunRowsGoOn DEF N
  <2> HIDE DEF row, ev
  <2> QED BY <1>4, <2>1, <2>2
<1> HIDE DEF row
<1>6. /\ Shape(c) /\ c.runs = d.runs \cup {row} /\ c.candidates = d.candidates
      /\ c.verdicts = d.verdicts /\ c.weights = d.weights /\ c.entries = d.entries
  <2> DEFINE rows == d.runs \cup {row}
  <2>1. c = [d EXCEPT !.runs = rows]
    BY <1>2
  <2> HIDE DEF rows
  <2>a. c = Retold(d, rows, d.candidates, d.verdicts, d.weights)
    BY <2>1, RetoldIs DEF Tells
  <2>2. /\ Shape(c) /\ c.runs = rows /\ c.candidates = d.candidates
        /\ c.verdicts = d.verdicts /\ c.weights = d.weights /\ c.entries = d.entries
    BY <2>a, RetoldForm DEF Tells
  <2> QED BY <2>2 DEF rows
<1>7. /\ CandidateRows(L, n + 1) = CandidateRows(L, n)
      /\ VerdictRows(L, n + 1) = VerdictRows(L, n)
  BY UpToNext DEF CandidateRows, VerdictRows
<1>8. ASSUME NEW v \in VerdictRows(L, n), NEW k
      PROVE  JudgedAs(L, n + 1, v[1], v[2], k) <=> JudgedAs(L, n, v[1], v[2], k)
  BY JudgedStays
<1>9. \A k, a : CountedAs(L, n + 1, k, a) = CountedAs(L, n, k, a)
  BY <1>7, <1>8 DEF CountedAs
<1>10. Remembers(c, L, n + 1)
  BY <1>5, <1>6, <1>7, <1>8, <1>9 DEF Tells, Remembers
<1>11. RowsOf(c, L, n + 1)
  BY <1>6, RowsGoOn DEF Tells, SameKinds
<1> QED BY <1>6, <1>10, <1>11 DEF Tells

-----------------------------------------------------------------------------
(* A sample of candidates.                                                 *)

LEMMA CandidatesTell ==
    ASSUME NEW L, NEW n \in Nat, L[n + 1].op = "candidates",
           NEW d, Tells(d, L, n), NEW c, c = ApplyCandidates(d, L[n + 1]), ~c.failed
    PROVE  Tells(c, L, n + 1)
<1> DEFINE ev == L[n + 1]
           pairs == {<<ev.run, e, ev.arms[e]>> : e \in DOMAIN ev.arms}
           rows == d.candidates \cup pairs
<1>1. c = [d EXCEPT !.candidates = rows]
  BY FailForm DEF ApplyCandidates, Tells
<1>2. CandidateRows(L, n + 1) = rows
  BY UpToNext DEF CandidateRows, Tells, Remembers
<1> HIDE DEF rows
<1>3. c = Retold(d, d.runs, rows, d.verdicts, d.weights)
  BY <1>1, RetoldIs DEF Tells
<1>4. /\ Shape(c) /\ c.runs = d.runs /\ c.candidates = rows
      /\ c.verdicts = d.verdicts /\ c.weights = d.weights /\ c.entries = d.entries
  BY <1>3, RetoldForm DEF Tells
<1>5. /\ \A t : LegacyRuns(L, n + 1, t) = LegacyRuns(L, n, t)
      /\ {j \in 1..n + 1 : L[j].op = "run" /\ L[j].key # 0}
            = {j \in 1..n : L[j].op = "run" /\ L[j].key # 0}
  BY UpToNext DEF LegacyRuns, IsLegacyRun
<1>6. RunRows(L, n + 1) = RunRows(L, n)
  BY <1>5 DEF RunRows
<1>7. VerdictRows(L, n + 1) = VerdictRows(L, n)
  BY UpToNext DEF VerdictRows
<1>8. ASSUME NEW v \in VerdictRows(L, n), NEW k
      PROVE  JudgedAs(L, n + 1, v[1], v[2], k) <=> JudgedAs(L, n, v[1], v[2], k)
  BY JudgedStays
<1>9. \A k, a : CountedAs(L, n + 1, k, a) = CountedAs(L, n, k, a)
  BY <1>7, <1>8 DEF CountedAs
<1>10. Remembers(c, L, n + 1)
  BY <1>2, <1>4, <1>6, <1>7, <1>8, <1>9 DEF Tells, Remembers
<1>11. RowsOf(c, L, n + 1)
  BY <1>4, RowsGoOn DEF Tells, SameKinds
<1> QED BY <1>4, <1>10, <1>11 DEF Tells

-----------------------------------------------------------------------------
(* A batch of verdicts.                                                    *)

RowsFor(S, run, answers) == {<<run, e, answers[e]>> : e \in S}

LEMMA AsManyRows ==
    ASSUME NEW S, IsFiniteSet(S), NEW run, NEW answers
    PROVE  /\ IsFiniteSet(RowsFor(S, run, answers))
           /\ Cardinality(RowsFor(S, run, answers)) = Cardinality(S)
<1> DEFINE T == {<<run, e, answers[e]>> : e \in S}
           f == [e \in S |-> <<run, e, answers[e]>>]
<1>1. f \in Surjection(S, T)
  BY DEF Surjection
<1>2. f \in Injection(S, T)
  BY DEF Injection, IsInjective
<1> HIDE DEF T, f
<1>3. ExistsBijection(S, T)
  BY <1>1, <1>2 DEF Bijection, ExistsBijection
<1> QED BY <1>3, FS_Bijection DEF T, RowsFor

LEMMA LatestIsOne ==
    ASSUME NEW L, NEW n \in Nat, NEW e, NEW u, NEW w, Latest(L, u, e, n), Latest(L, w, e, n)
    PROVE  u = w
<1>1. u \in 1..n /\ w \in 1..n
  BY DEF Latest
<1>2. CASE u < w
  <2>1. w \in u + 1..n
    BY <1>1, <1>2
  <2> QED BY <2>1 DEF Latest
<1>3. CASE w < u
  <2>1. u \in w + 1..n
    BY <1>1, <1>3
  <2> QED BY <2>1 DEF Latest
<1> QED BY <1>1, <1>2, <1>3

(* The kind for which a verdict counts that is the first of its run on its entry. *)
LEMMA FirstVerdict ==
    ASSUME NEW L, NEW n \in Nat, L[n + 1].op = "verdicts", NEW d, RowsOf(d, L, n),
           NEW run, NEW e \in Entries, Judges(L, n + 1, run, e),
           \A j \in 1..n : ~Judges(L, j, run, e), d.entries[e].row, NEW k
    PROVE  JudgedAs(L, n + 1, run, e, k) <=> k = d.entries[e].kind
<1>1. PICK u : Latest(L, u, e, n) /\ d.entries[e].kind = KindSaid(L[u])
  BY DEF RowsOf
<1>2. Latest(L, u, e, n + 1)
  <2>1. \A w \in u + 1..n + 1 : w \in u + 1..n \/ w = n + 1
    BY <1>1 DEF Latest
  <2> QED BY <1>1, <2>1 DEF Latest, IsUpsert
<1>3. JudgedAs(L, n + 1, run, e, d.entries[e].kind)
  <2>1. n + 1 \in 1..n + 1 /\ 1..(n + 1) - 1 = 1..n
    OBVIOUS
  <2> QED BY <1>1, <1>2, <2>1 DEF JudgedAs
<1>4. ASSUME JudgedAs(L, n + 1, run, e, k) PROVE k = d.entries[e].kind
  <2>1. PICK i \in 1..n + 1 : /\ Judges(L, i, run, e)
                              /\ \E w : Latest(L, w, e, i) /\ k = KindSaid(L[w])
    BY <1>4 DEF JudgedAs
  <2>2. i = n + 1
    BY <2>1, UpToNext
  <2> QED BY <1>1, <1>2, <2>1, <2>2, LatestIsOne
<1> QED BY <1>3, <1>4

LEMMA VerdictsTell ==
    ASSUME NEW L, NEW n \in Nat, IsEvent(L[n + 1]), L[n + 1].op = "verdicts",
           NEW d, Tells(d, L, n), NEW c, c = ApplyVerdicts(d, L[n + 1]), ~c.failed
    PROVE  Tells(c, L, n + 1)
<1> DEFINE ev == L[n + 1]
           judged == {e \in DOMAIN ev.answers : Answered(d, ev.run, e) # {}}
           new == DOMAIN ev.answers \ judged
           bad == \/ \E e \in judged : Answered(d, ev.run, e) # {ev.answers[e]}
                  \/ \E e \in new : ~d.entries[e].row
           Of(k, answer) == {e \in new : d.entries[e].kind = k /\ ev.answers[e] = answer}
           verdicts == d.verdicts \cup {<<ev.run, e, ev.answers[e]>> : e \in new}
           weights == [k \in Kinds |->
                          [good |-> d.weights[k].good + Cardinality(Of(k, "true")),
                           bad |-> d.weights[k].bad + Cardinality(Of(k, "false"))]]
           counted == [[d EXCEPT !.verdicts = verdicts] EXCEPT !.weights = weights]
           wrong == {e \in new : ev.answers[e] = "false"}
<1>1. c = IF bad THEN [d EXCEPT !.failed = TRUE] ELSE Expired(counted, wrong, ev.ts)
  <2>1. [d EXCEPT !.verdicts = @ \cup {<<ev.run, e, ev.answers[e]>> : e \in new},
                  !.weights = [k \in Kinds |->
                      [good |-> @[k].good + Cardinality(Of(k, "true")),
                       bad |-> @[k].bad + Cardinality(Of(k, "false"))]]] = counted
    <3> HIDE DEF new, Of
    <3> QED BY DEF Tells, Shape
  <2> HIDE DEF counted
  <2> QED BY <2>1 DEF ApplyVerdicts
<1>2. ~bad /\ c = Expired(counted, wrong, ev.ts)
  <2> HIDE DEF bad, counted, wrong
  <2> QED BY <1>1, FailForm DEF Tells
<1> DEFINE mid == [d EXCEPT !.verdicts = verdicts]
<1>3. /\ Shape(counted) /\ counted.runs = d.runs /\ counted.candidates = d.candidates
      /\ counted.verdicts = verdicts /\ counted.weights = weights
      /\ counted.entries = d.entries /\ counted.failed = d.failed
  <2> HIDE DEF verdicts, weights
  <2>1. mid = Retold(d, d.runs, d.candidates, verdicts, d.weights)
    BY RetoldIs DEF Tells
  <2>2. counted = [mid EXCEPT !.weights = weights]
    OBVIOUS
  <2> HIDE DEF mid, counted
  <2>3. /\ Shape(mid) /\ mid.runs = d.runs /\ mid.candidates = d.candidates
        /\ mid.verdicts = verdicts /\ mid.entries = d.entries /\ mid.failed = d.failed
    BY <2>1, RetoldForm DEF Tells
  <2>4. counted = Retold(mid, mid.runs, mid.candidates, mid.verdicts, weights)
    BY <2>2, <2>3, RetoldIs
  <2> QED BY <2>3, <2>4, RetoldForm
<1> HIDE DEF counted
<1>4. LeavesHistory(c, counted)
  BY <1>2, <1>3, ExpiredLeaves
<1>5. new \subseteq Entries /\ IsFiniteSet(new)
  <2>1. DOMAIN ev.answers \subseteq Entries
    BY DEF IsEvent, EvidenceOps
  <2>2. new \in SUBSET Entries
    BY <2>1
  <2> HIDE DEF new
  <2> QED BY <2>2, ContentAssumption, FS_Subset
<1>6. d.verdicts = VerdictRows(L, n)
  BY DEF Tells, Remembers
<1>7. VerdictRows(L, n + 1) = verdicts
  <2>1. VerdictRows(L, n + 1)
            = VerdictRows(L, n) \cup {<<ev.run, e, ev.answers[e]>> : e \in DOMAIN ev.answers}
    BY UpToNext DEF VerdictRows
  <2>2. ASSUME NEW e \in judged PROVE <<ev.run, e, ev.answers[e]>> \in d.verdicts
    <3>1. Answered(d, ev.run, e) = {ev.answers[e]}
      BY <1>2
    <3>2. PICK v \in d.verdicts : v[1] = ev.run /\ v[2] = e /\ v[3] = ev.answers[e]
      BY <3>1 DEF Answered
    <3>3. v = <<v[1], v[2], v[3]>>
      BY <1>6 DEF VerdictRows
    <3> QED BY <3>2, <3>3
  <2>3. DOMAIN ev.answers = judged \cup new
    OBVIOUS
  <2> HIDE DEF judged, new
  <2> QED BY <1>6, <2>1, <2>2, <2>3
<1>8. ASSUME NEW e \in new
      PROVE  /\ Judges(L, n + 1, ev.run, e) /\ d.entries[e].row
             /\ \A j \in 1..n : ~Judges(L, j, ev.run, e)
             /\ \A v \in d.verdicts : ~(v[1] = ev.run /\ v[2] = e)
  <2>1. Judges(L, n + 1, ev.run, e) /\ d.entries[e].row
    BY <1>2 DEF Judges
  <2>2. \A v \in d.verdicts : ~(v[1] = ev.run /\ v[2] = e)
    BY DEF Answered
  <2>3. ASSUME NEW j \in 1..n, Judges(L, j, ev.run, e) PROVE FALSE
    <3>1. <<ev.run, e, L[j].answers[e]>> \in d.verdicts
      BY <1>6, <2>3 DEF VerdictRows, Judges
    <3> QED BY <2>2, <3>1
  <2> QED BY <2>1, <2>2, <2>3
<1>9. ASSUME NEW e \in new, NEW k
      PROVE  JudgedAs(L, n + 1, ev.run, e, k) <=> k = d.entries[e].kind
  <2> DEFINE run == ev.run
  <2>1. e \in Entries /\ RowsOf(d, L, n)
    BY <1>5 DEF Tells
  <2>2. /\ Judges(L, n + 1, run, e) /\ d.entries[e].row
        /\ \A j \in 1..n : ~Judges(L, j, run, e)
    BY <1>8
  <2> HIDE DEF new, run
  <2>3. JudgedAs(L, n + 1, run, e, k) <=> k = d.entries[e].kind
    BY <2>1, <2>2, FirstVerdict
  <2> QED BY <2>3 DEF run
<1>10. ASSUME NEW v \in VerdictRows(L, n), NEW k
       PROVE  JudgedAs(L, n + 1, v[1], v[2], k) <=> JudgedAs(L, n, v[1], v[2], k)
  BY JudgedStays
<1> DEFINE Rows(S) == {<<ev.run, e, ev.answers[e]>> : e \in S}
<1>11. ASSUME NEW k, NEW a
       PROVE  /\ CountedAs(L, n + 1, k, a) = CountedAs(L, n, k, a) \cup Rows(Of(k, a))
              /\ CountedAs(L, n, k, a) \cap Rows(Of(k, a)) = {}
  <2>1. ASSUME NEW v \in Rows(new)
        PROVE  /\ v \in CountedAs(L, n + 1, k, a) <=> v \in Rows(Of(k, a))
               /\ v \notin VerdictRows(L, n)
    <3>1. PICK e \in new : v = <<ev.run, e, ev.answers[e]>>
      OBVIOUS
    <3>2. v[1] = ev.run /\ v[2] = e /\ v[3] = ev.answers[e]
      BY <3>1
    <3>3. v \notin VerdictRows(L, n)
      BY <1>6, <1>8, <3>2
    <3>4. v \in VerdictRows(L, n + 1)
      BY <1>7
    <3>5. v \in Rows(Of(k, a)) <=> e \in Of(k, a)
      <4>1. ASSUME v \in Rows(Of(k, a)) PROVE e \in Of(k, a)
        <5>1. PICK x \in Of(k, a) : v = <<ev.run, x, ev.answers[x]>>
          BY <4>1
        <5>2. x = e
          BY <3>2, <5>1
        <5> QED BY <5>1, <5>2
      <4> HIDE DEF Of
      <4> QED BY <3>1, <4>1
    <3>6. v \in CountedAs(L, n + 1, k, a) <=> ev.answers[e] = a /\ k = d.entries[e].kind
      BY <1>9, <3>2, <3>4 DEF CountedAs
    <3> HIDE DEF Rows
    <3> QED BY <3>3, <3>5, <3>6
  <2>2. Rows(Of(k, a)) \subseteq Rows(new)
    OBVIOUS
  <2>3. VerdictRows(L, n + 1) = VerdictRows(L, n) \cup Rows(new)
    BY <1>6, <1>7
  <2>4. ASSUME NEW v \in VerdictRows(L, n)
        PROVE  v \in CountedAs(L, n + 1, k, a) <=> v \in CountedAs(L, n, k, a)
    BY <1>10, <2>3 DEF CountedAs
  <2>5. CountedAs(L, n, k, a) \subseteq VerdictRows(L, n)
    BY DEF CountedAs
  <2>6. CountedAs(L, n + 1, k, a) \subseteq VerdictRows(L, n + 1)
    BY DEF CountedAs
  <2> HIDE DEF Rows, Of, new
  <2> QED BY <2>1, <2>2, <2>3, <2>4, <2>5, <2>6
<1>12. ASSUME NEW S \in SUBSET new
       PROVE  IsFiniteSet(Rows(S)) /\ Cardinality(Rows(S)) = Cardinality(S)
  <2>1. IsFiniteSet(S)
    BY <1>5, FS_Subset
  <2> DEFINE run == ev.run
             answers == ev.answers
  <2>2. Rows(S) = RowsFor(S, run, answers)
    BY DEF RowsFor
  <2> HIDE DEF run, answers, Rows
  <2>3. /\ IsFiniteSet(RowsFor(S, run, answers))
        /\ Cardinality(RowsFor(S, run, answers)) = Cardinality(S)
    BY <2>1, AsManyRows
  <2> QED BY <2>2, <2>3
<1>13. IsFiniteSet(verdicts)
  <2>1. IsFiniteSet(Rows(new)) /\ IsFiniteSet(d.verdicts)
    BY <1>12 DEF Tells, Remembers
  <2>2. verdicts = d.verdicts \cup Rows(new)
    OBVIOUS
  <2> HIDE DEF verdicts, Rows
  <2> QED BY <2>1, <2>2, FS_Union
<1>14. ASSUME NEW k, NEW a
       PROVE  Cardinality(CountedAs(L, n + 1, k, a))
                  = Cardinality(CountedAs(L, n, k, a)) + Cardinality(Of(k, a))
  <2>1. Of(k, a) \in SUBSET new
    OBVIOUS
  <2>2. CountedAs(L, n, k, a) \in SUBSET d.verdicts
    BY <1>6 DEF CountedAs
  <2>3. IsFiniteSet(CountedAs(L, n, k, a))
    BY <2>2, FS_Subset DEF Tells, Remembers
  <2> DEFINE A == CountedAs(L, n, k, a)
             B == Rows(Of(k, a))
  <2>4. IsFiniteSet(B) /\ Cardinality(B) = Cardinality(Of(k, a))
    BY <1>12, <2>1
  <2>5. CountedAs(L, n + 1, k, a) = A \cup B /\ A \cap B = {}
    BY <1>11
  <2> HIDE DEF A, B
  <2>6. Cardinality(A \cup B) = Cardinality(A) + Cardinality(B) - Cardinality(A \cap B)
    BY <2>3, <2>4, FS_Union DEF A
  <2>7. Cardinality(A) \in Nat /\ Cardinality(B) \in Nat /\ Cardinality(A \cap B) = 0
    BY <2>3, <2>4, <2>5, FS_CardinalityType, FS_EmptySet DEF A
  <2>8. Cardinality(A \cup B) = Cardinality(A) + Cardinality(B)
    BY <2>6, <2>7
  <2> HIDE DEF Of
  <2> QED BY <2>4, <2>5, <2>8 DEF A
<1>15. weights = [k \in Kinds |-> [good |-> Cardinality(CountedAs(L, n + 1, k, "true")),
                                  bad |-> Cardinality(CountedAs(L, n + 1, k, "false"))]]
  <2>1. \A k \in Kinds : /\ d.weights[k].good = Cardinality(CountedAs(L, n, k, "true"))
                          /\ d.weights[k].bad = Cardinality(CountedAs(L, n, k, "false"))
    BY DEF Tells, Remembers
  <2> HIDE DEF Of
  <2> QED BY <1>14, <2>1
<1>16. ASSUME NEW v \in verdicts PROVE \E k \in Kinds : JudgedAs(L, n + 1, v[1], v[2], k)
  <2>1. CASE v \in d.verdicts
    BY <1>6, <1>10, <2>1 DEF Tells, Remembers
  <2>2. CASE v \notin d.verdicts
    <3>1. PICK e \in new : v = <<ev.run, e, ev.answers[e]>>
      BY <2>2
    <3>2. d.entries[e].kind \in Kinds
      <4>1. e \in Entries /\ d.entries[e].row
        BY <1>5, <1>8
      <4>2. d.entries[e] # Absent
        BY <4>1 DEF Absent
      <4> HIDE DEF new
      <4> QED BY <4>1, <4>2 DEF Tells, Shape, EntryForm
    <3>3. v[1] = ev.run /\ v[2] = e
      BY <3>1
    <3> HIDE DEF new
    <3> QED BY <1>9, <3>2, <3>3
  <2> QED BY <2>1, <2>2
<1>17. /\ CandidateRows(L, n + 1) = CandidateRows(L, n)
       /\ RunRows(L, n + 1) = RunRows(L, n)
  <2>1. /\ \A t : LegacyRuns(L, n + 1, t) = LegacyRuns(L, n, t)
        /\ {j \in 1..n + 1 : L[j].op = "run" /\ L[j].key # 0}
              = {j \in 1..n : L[j].op = "run" /\ L[j].key # 0}
    BY UpToNext DEF LegacyRuns, IsLegacyRun
  <2>2. RunRows(L, n + 1) = RunRows(L, n)
    BY <2>1 DEF RunRows
  <2>3. CandidateRows(L, n + 1) = CandidateRows(L, n)
    BY UpToNext DEF CandidateRows
  <2> QED BY <2>2, <2>3
<1> HIDE DEF verdicts, weights
<1>18. Remembers(c, L, n + 1)
  <2>1. /\ c.runs = d.runs /\ c.candidates = d.candidates /\ c.verdicts = verdicts
        /\ c.weights = weights
    BY <1>3, <1>4 DEF LeavesHistory, SameHistory
  <2> QED BY <1>7, <1>13, <1>15, <1>16, <1>17, <2>1 DEF Tells, Remembers
<1>19. SameKinds(c, d)
  BY <1>3, <1>4 DEF LeavesHistory, SameKinds
<1>20. RowsOf(c, L, n + 1)
  BY <1>19, RowsGoOn DEF Tells
<1> QED BY <1>4, <1>18, <1>20 DEF Tells, LeavesHistory

-----------------------------------------------------------------------------
(* A replay.                                                               *)

LEMMA LiveHasRow ==
    ASSUME NEW d, Shape(d), NEW e \in Entries, LiveIn(d, e)
    PROVE  d.entries[e].row = TRUE
<1>1. d.entries[e] # Absent
  BY DEF LiveIn, Absent
<1> QED BY <1>1 DEF Shape, EntryForm

LEMMA EvidenceAddLeaves ==
    ASSUME NEW d, Shape(d), NEW ev, ev.id \in Entries
    PROVE  LeavesHistory(ApplyEvidenceAdd(d, ev), d)
<1> DEFINE taken == \E r \in d.evidence : r.ev = ev.ev
           new == IF taken THEN {} ELSE {[ev |-> ev.ev, owner |-> ev.id, at |-> ev.at]}
           rows == d.evidence \cup new
           mid == [d EXCEPT !.evidence = rows]
           put == [mid EXCEPT !.entries[ev.id].updated = ev.ts]
<1>1. CASE ~LiveIn(d, ev.id)
  BY <1>1 DEF ApplyEvidenceAdd, LeavesHistory, SameHistory, SameKinds
<1>2. CASE LiveIn(d, ev.id)
  <2>1. d.entries[ev.id].row = TRUE
    BY <1>2, LiveHasRow
  <2>2. ApplyEvidenceAdd(d, ev) = WithStatus(put, ev.id)
    BY <1>2 DEF ApplyEvidenceAdd
  <2>3. \A r \in rows : /\ r.owner \in Entries
                         /\ r = [ev |-> r.ev, owner |-> r.owner, at |-> r.at]
    BY DEF Shape
  <2> HIDE DEF rows
  <2>4. LeavesHistory(mid, d) /\ mid.entries = d.entries
    BY <2>3, EvidenceForm
  <2> HIDE DEF mid
  <2>5. LeavesHistory(put, mid)
    BY <2>1, <2>4, TouchLeaves DEF LeavesHistory
  <2> HIDE DEF put
  <2>6. put.entries[ev.id].row = TRUE
    BY <2>1, <2>4, <2>5 DEF LeavesHistory, SameKinds
  <2>7. LeavesHistory(WithStatus(put, ev.id), put)
    BY <2>5, <2>6, StatusLeaves DEF LeavesHistory
  <2> QED BY <2>2, <2>4, <2>5, <2>7, LeavesTwice
<1> QED BY <1>1, <1>2

LEMMA EvidenceExpireLeaves ==
    ASSUME NEW d, Shape(d), NEW ev, ev.id \in Entries
    PROVE  LeavesHistory(ApplyEvidenceExpire(d, ev), d)
<1> DEFINE rows == {r \in d.evidence : ~(r.ev = ev.ev /\ r.owner = ev.id)}
           mid == [d EXCEPT !.evidence = rows]
           put == [mid EXCEPT !.entries[ev.id].updated = ev.ts]
<1>1. CASE ~LiveIn(d, ev.id)
  BY <1>1 DEF ApplyEvidenceExpire, LeavesHistory, SameHistory, SameKinds
<1>2. CASE LiveIn(d, ev.id)
  <2>1. d.entries[ev.id].row = TRUE
    BY <1>2, LiveHasRow
  <2>2. ApplyEvidenceExpire(d, ev) = WithStatus(put, ev.id)
    BY <1>2 DEF ApplyEvidenceExpire
  <2>3. \A r \in rows : /\ r.owner \in Entries
                         /\ r = [ev |-> r.ev, owner |-> r.owner, at |-> r.at]
    BY DEF Shape
  <2> HIDE DEF rows
  <2>4. LeavesHistory(mid, d) /\ mid.entries = d.entries
    BY <2>3, EvidenceForm
  <2> HIDE DEF mid
  <2>5. LeavesHistory(put, mid)
    BY <2>1, <2>4, TouchLeaves DEF LeavesHistory
  <2> HIDE DEF put
  <2>6. put.entries[ev.id].row = TRUE
    BY <2>1, <2>4, <2>5 DEF LeavesHistory, SameKinds
  <2>7. LeavesHistory(WithStatus(put, ev.id), put)
    BY <2>5, <2>6, StatusLeaves DEF LeavesHistory
  <2> QED BY <2>2, <2>4, <2>5, <2>7, LeavesTwice
<1> QED BY <1>1, <1>2

LEMMA HealedLeaves ==
    ASSUME NEW d, Shape(d), NEW ev
    PROVE  LeavesHistory(ApplyHealed(d, ev), d)
<1> DEFINE healed(r) == IF r.ev = ev.ev /\ r.owner = ev.id THEN [r EXCEPT !.at = ev.at] ELSE r
           rows == {healed(r) : r \in d.evidence}
<1>1. ApplyHealed(d, ev) = [d EXCEPT !.evidence = rows]
  BY DEF ApplyHealed
<1>2. ASSUME NEW q \in d.evidence
      PROVE  /\ healed(q).owner \in Entries
             /\ healed(q) = [ev |-> healed(q).ev, owner |-> healed(q).owner, at |-> healed(q).at]
  BY DEF Shape
<1>3. \A r \in rows : /\ r.owner \in Entries
                       /\ r = [ev |-> r.ev, owner |-> r.owner, at |-> r.at]
  <2> HIDE DEF healed
  <2> QED BY <1>2
<1> HIDE DEF rows
<1> QED BY <1>1, <1>3, EvidenceForm

LEMMA TestLeaves ==
    ASSUME NEW d, Shape(d), NEW ev
    PROVE  LeavesHistory(ApplyTest(d, ev), d)
<1> DEFINE t == [d.tests EXCEPT ![ev.id] = ev.ts]
<1>1. ApplyTest(d, ev) = [d EXCEPT !.tests = t]
  BY DEF ApplyTest
<1> HIDE DEF t
<1> QED BY <1>1, OthersForm

(* Whatever an event is, the tables keep their form, and a replay that failed
   has failed. *)
LEMMA ApplyForm ==
    ASSUME NEW d, Shape(d), NEW ev, IsEvent(ev), NEW occurrence, NEW embeds
    PROVE  /\ Shape(Apply(d, ev, occurrence, embeds))
           /\ d.failed => Apply(d, ev, occurrence, embeds).failed
<1> DEFINE c == Apply(d, ev, occurrence, embeds)
<1>1. CASE ev.op = "upsert"
  BY <1>1, UpsertForm DEF Apply
<1>2. CASE ev.op = "expire"
  BY <1>2, ExpiredLeaves DEF Apply, ApplyExpire, LeavesHistory
<1>3. CASE ev.op \in EvidenceOps
  <2>1. ev.id \in Entries
    BY <1>3 DEF IsEvent, EvidenceOps
  <2> QED BY <1>3, <2>1, EvidenceAddLeaves, EvidenceExpireLeaves, HealedLeaves
          DEF Apply, LeavesHistory, EvidenceOps
<1>4. CASE ev.op = "test"
  BY <1>4, TestLeaves DEF Apply, LeavesHistory
<1>5. CASE ev.op = "run"
  <2>1. c = ApplyRun(d, ev, occurrence)
    BY <1>5 DEF Apply
  <2>2. \/ c = [d EXCEPT !.failed = TRUE]
        \/ \E x : c = [d EXCEPT !.runs = x]
    BY <2>1 DEF ApplyRun
  <2> HIDE DEF c
  <2>3. Shape(c) /\ (d.failed => c.failed)
    BY <2>2, FailForm, TableForm
  <2> QED BY <2>3 DEF c
<1>6. CASE ev.op = "candidates"
  <2>1. c = ApplyCandidates(d, ev)
    BY <1>6 DEF Apply
  <2>2. \/ c = [d EXCEPT !.failed = TRUE]
        \/ \E x : c = [d EXCEPT !.candidates = x]
    BY <2>1 DEF ApplyCandidates
  <2> HIDE DEF c
  <2>3. Shape(c) /\ (d.failed => c.failed)
    BY <2>2, FailForm, TableForm
  <2> QED BY <2>3 DEF c
<1>7. CASE ev.op = "verdicts"
  <2>1. c = ApplyVerdicts(d, ev)
    BY <1>7 DEF Apply
  <2>2. \/ c = [d EXCEPT !.failed = TRUE]
        \/ \E x, y, z : c = Expired([d EXCEPT !.verdicts = x, !.weights = y], z, ev.ts)
    BY <2>1 DEF ApplyVerdicts
  <2> HIDE DEF c
  <2>3. ASSUME NEW x, NEW y
        PROVE  LET b == [d EXCEPT !.verdicts = x, !.weights = y]
               IN  Shape(b) /\ b.failed = d.failed
    <3> DEFINE a == [d EXCEPT !.verdicts = x]
               b == [d EXCEPT !.verdicts = x, !.weights = y]
    <3>1. a = Retold(d, d.runs, d.candidates, x, d.weights)
      BY RetoldIs
    <3>2. b = [a EXCEPT !.weights = y]
      OBVIOUS
    <3> HIDE DEF a, b
    <3>3. Shape(a) /\ a.failed = d.failed
      BY <3>1, RetoldForm
    <3>4. Shape(b) /\ b.failed = d.failed
      BY <3>2, <3>3, TableForm
    <3> QED BY <3>4 DEF b
  <2>4. ASSUME c = [d EXCEPT !.failed = TRUE] PROVE Shape(c) /\ (d.failed => c.failed)
    BY <2>4, FailForm
  <2>5. ASSUME \E x, y, z : c = Expired([d EXCEPT !.verdicts = x, !.weights = y], z, ev.ts)
        PROVE  Shape(c) /\ (d.failed => c.failed)
    <3>1. PICK x, y, z : c = Expired([d EXCEPT !.verdicts = x, !.weights = y], z, ev.ts)
      BY <2>5
    <3> DEFINE b == [d EXCEPT !.verdicts = x, !.weights = y]
    <3>2. Shape(b) /\ b.failed = d.failed
      BY <2>3
    <3>3. c = Expired(b, z, ev.ts)
      BY <3>1
    <3> HIDE DEF b
    <3>4. LeavesHistory(c, b)
      BY <3>2, <3>3, ExpiredLeaves
    <3> QED BY <3>2, <3>4 DEF LeavesHistory
  <2>6. Shape(c) /\ (d.failed => c.failed)
    BY <2>2, <2>4, <2>5
  <2> QED BY <2>6 DEF c
<1> QED BY <1>1, <1>2, <1>3, <1>4, <1>5, <1>6, <1>7 DEF IsEvent

LEMMA ApplyTells ==
    ASSUME NEW L, NEW n \in Nat, IsEvent(L[n + 1]), NEW d, Tells(d, L, n),
           NEW occurrence \in {Unknown, Occurrence(L, n + 1)}, NEW embeds,
           ~Apply(d, L[n + 1], occurrence, embeds).failed
    PROVE  Tells(Apply(d, L[n + 1], occurrence, embeds), L, n + 1)
<1> DEFINE ev == L[n + 1]
           c == Apply(d, ev, occurrence, embeds)
<1>0. Shape(d)
  BY DEF Tells
<1>1. CASE ev.op = "upsert"
  BY <1>1, UpsertTells DEF Apply
<1>2. CASE ev.op = "expire"
  BY <1>0, <1>2, ExpiredLeaves, QuietTells DEF Apply, ApplyExpire, HistoryOps
<1>3. CASE ev.op \in EvidenceOps
  <2>1. ev.id \in Entries
    BY <1>3 DEF IsEvent, EvidenceOps
  <2>2. LeavesHistory(c, d)
    BY <1>0, <1>3, <2>1, EvidenceAddLeaves, EvidenceExpireLeaves, HealedLeaves
       DEF Apply, EvidenceOps
  <2> HIDE DEF c
  <2>3. Tells(c, L, n + 1)
    BY <1>3, <2>2, QuietTells DEF EvidenceOps, HistoryOps
  <2> QED BY <2>3 DEF c
<1>4. CASE ev.op = "test"
  BY <1>0, <1>4, TestLeaves, QuietTells DEF Apply, HistoryOps
<1>5. CASE ev.op = "run"
  BY <1>5, RunTells DEF Apply
<1>6. CASE ev.op = "candidates"
  BY <1>6, CandidatesTell DEF Apply
<1>7. CASE ev.op = "verdicts"
  BY <1>7, VerdictsTell DEF Apply
<1> QED BY <1>1, <1>2, <1>3, <1>4, <1>5, <1>6, <1>7 DEF IsEvent

(* The table of a replay exists. *)
Given(L, i, counts) == IF counts THEN Occurrence(L, i) ELSE Unknown

Replaying(f, d, L, from, n, counts, embeds) ==
    /\ f = [i \in from..n |-> f[i]]
    /\ \A i \in from..n :
          f[i] = IF i = from THEN d ELSE Apply(f[i - 1], L[i], Given(L, i, counts), embeds)

LEMMA ReplayGoesOn ==
    ASSUME NEW d, NEW L, NEW from \in Nat, NEW n \in Nat, from <= n, NEW counts, NEW embeds,
           NEW f, Replaying(f, d, L, from, n, counts, embeds)
    PROVE  \E g : /\ Replaying(g, d, L, from, n + 1, counts, embeds)
                  /\ g[n + 1] = Apply(f[n], L[n + 1], Given(L, n + 1, counts), embeds)
<1> DEFINE last == Apply(f[n], L[n + 1], Given(L, n + 1, counts), embeds)
           g == [i \in from..n + 1 |-> IF i <= n THEN f[i] ELSE last]
<1>1. \A i \in from..n :
          f[i] = IF i = from THEN d ELSE Apply(f[i - 1], L[i], Given(L, i, counts), embeds)
  BY DEF Replaying
<1>2. \A i \in from..n : g[i] = f[i]
  OBVIOUS
<1>3. g[n + 1] = last
  OBVIOUS
<1>4. g = [i \in from..n + 1 |-> g[i]]
  OBVIOUS
<1> HIDE DEF g
<1>5. ASSUME NEW i \in from..n + 1
      PROVE  g[i] = IF i = from THEN d ELSE Apply(g[i - 1], L[i], Given(L, i, counts), embeds)
  <2>1. CASE i = from
    BY <1>1, <1>2, <2>1
  <2>2. CASE i # from /\ i <= n
    <3>1. i \in from..n /\ i - 1 \in from..n
      BY <2>2
    <3>2. g[i] = f[i] /\ g[i - 1] = f[i - 1]
      BY <1>2, <3>1
    <3>3. f[i] = Apply(f[i - 1], L[i], Given(L, i, counts), embeds)
      BY <1>1, <2>2, <3>1
    <3> QED BY <2>2, <3>2, <3>3
  <2>3. CASE i = n + 1
    <3>1. i # from /\ i - 1 = n /\ n \in from..n
      BY <2>3
    <3>2. g[i - 1] = f[n]
      BY <1>2, <3>1
    <3> QED BY <1>3, <2>3, <3>1, <3>2
  <2> QED BY <2>1, <2>2, <2>3
<1>6. Replaying(g, d, L, from, n + 1, counts, embeds)
  BY <1>4, <1>5 DEF Replaying
<1> QED BY <1>3, <1>6

LEMMA ReplayingIs ==
    ASSUME NEW d, NEW L, NEW from \in Nat, NEW n \in Nat, from <= n, NEW counts, NEW embeds
    PROVE  \E f : Replaying(f, d, L, from, n, counts, embeds)
<1> DEFINE S == {k \in 0..n - from : \E f : Replaying(f, d, L, from, from + k, counts, embeds)}
<1>1. 0 \in S
  <2>1. from..from + 0 = {from}
    OBVIOUS
  <2>2. Replaying([i \in from..from + 0 |-> d], d, L, from, from + 0, counts, embeds)
    BY <2>1 DEF Replaying
  <2>3. 0 \in 0..n - from
    OBVIOUS
  <2> QED BY <2>2, <2>3
<1>2. ASSUME NEW k \in 0..n - from - 1, k \in S PROVE k + 1 \in S
  <2>1. PICK f : Replaying(f, d, L, from, from + k, counts, embeds)
    BY <1>2
  <2>2. from + k \in Nat /\ from <= from + k /\ (from + k) + 1 = from + (k + 1)
    OBVIOUS
  <2>3. \E g : Replaying(g, d, L, from, (from + k) + 1, counts, embeds)
    BY <2>1, <2>2, ReplayGoesOn
  <2>4. k + 1 \in 0..n - from
    OBVIOUS
  <2> QED BY <2>2, <2>3, <2>4
<1> HIDE DEF S
<1>3. n - from \in Nat /\ n - from \in 0..n - from /\ from + (n - from) = n
  OBVIOUS
<1>4. n - from \in S
  BY <1>1, <1>2, <1>3, Upwards
<1> QED BY <1>3, <1>4 DEF S

LEMMA ReplayIs ==
    ASSUME NEW d, NEW L, Len(L) \in Nat, NEW from \in Nat, from <= Len(L),
           NEW counts, NEW embeds
    PROVE  \E f : /\ Replaying(f, d, L, from, Len(L), counts, embeds)
                  /\ Replay(d, L, from, counts, embeds) = f[Len(L)]
<1> DEFINE n == Len(L)
           F(f) == [i \in from..n |->
                       IF i = from THEN d
                       ELSE Apply(f[i - 1], L[i],
                                  IF counts THEN Occurrence(L, i) ELSE Unknown, embeds)]
           after == CHOOSE f : f = F(f)
<1>1. PICK g : Replaying(g, d, L, from, n, counts, embeds)
  BY ReplayingIs
<1>2. g = F(g)
  BY <1>1 DEF Replaying, Given
<1>3. after = F(after)
  BY <1>2
<1>4. Replay(d, L, from, counts, embeds) = after[n]
  BY DEF Replay
<1> HIDE DEF after
<1>5. Replaying(after, d, L, from, n, counts, embeds)
  BY <1>3 DEF Replaying, Given
<1> QED BY <1>4, <1>5

(* From tables that hold what the events up to from tell, a replay that does not
   fail makes tables that hold what all tell. *)
LEMMA ReplayTells ==
    ASSUME NEW L, IsLog(L), Len(L) \in Nat, NEW from \in 0..Len(L), NEW d, Tells(d, L, from),
           NEW counts, NEW embeds, NEW c, c = Replay(d, L, from, counts, embeds), ~c.failed
    PROVE  Tells(c, L, Len(L))
<1>1. PICK f : /\ Replaying(f, d, L, from, Len(L), counts, embeds)
               /\ c = f[Len(L)]
  BY ReplayIs
<1> DEFINE Good(i) == Shape(f[i]) /\ (f[i].failed \/ Tells(f[i], L, i))
           S == {k \in 0..Len(L) - from : Good(from + k)}
<1>2. 0 \in S
  <2>1. f[from] = d /\ from + 0 = from /\ 0 \in 0..Len(L) - from
    BY <1>1 DEF Replaying
  <2>2. Good(from)
    BY <2>1 DEF Tells
  <2> HIDE DEF Good
  <2> QED BY <2>1, <2>2
<1>3. ASSUME NEW k \in 0..Len(L) - from - 1, k \in S PROVE k + 1 \in S
  <2> DEFINE i == from + k
             x == Given(L, i + 1, counts)
  <2>1. /\ i \in Nat /\ i + 1 = from + (k + 1) /\ i + 1 \in from..Len(L) /\ i + 1 # from
        /\ (i + 1) - 1 = i /\ i + 1 \in 1..Len(L) /\ k + 1 \in 0..Len(L) - from
    OBVIOUS
  <2>2. Good(i)
    BY <1>3
  <2>3. IsEvent(L[i + 1])
    <3>1. DOMAIN L = 1..Len(L)
      BY DEF IsLog
    <3> QED BY <2>1, <3>1 DEF IsLog
  <2>4. f[i + 1] = Apply(f[i], L[i + 1], x, embeds)
    BY <1>1, <2>1 DEF Replaying
  <2>5. x \in {Unknown, Occurrence(L, i + 1)}
    BY DEF Given
  <2> HIDE DEF i, x
  <2>6. Shape(f[i + 1]) /\ (f[i].failed => f[i + 1].failed)
    BY <2>2, <2>3, <2>4, ApplyForm
  <2>7. f[i + 1].failed \in BOOLEAN
    BY <2>6 DEF Shape
  <2>8. ASSUME ~f[i + 1].failed PROVE Tells(f[i + 1], L, i + 1)
    <3>1. Tells(f[i], L, i)
      BY <2>2, <2>6, <2>8
    <3> QED BY <2>1, <2>3, <2>4, <2>5, <2>8, <3>1, ApplyTells
  <2>9. Good(i + 1)
    BY <2>6, <2>7, <2>8
  <2> HIDE DEF Good
  <2> QED BY <2>1, <2>9
<1>4. Len(L) - from \in Nat /\ from + (Len(L) - from) = Len(L) /\ Len(L) - from \in 0..Len(L) - from
  OBVIOUS
<1>5. Good(Len(L))
  <2> HIDE DEF Good
  <2>1. \A k \in 0..(Len(L) - from) - 1 : k \in S => k + 1 \in S
    BY <1>3
  <2> HIDE DEF S
  <2>2. Len(L) - from \in S
    BY <1>2, <1>4, <2>1, Upwards
  <2> QED BY <1>4, <2>2 DEF S
<1> QED BY <1>1, <1>5

-----------------------------------------------------------------------------
(* Longer logs, and what they say of the history of shorter ones.          *)

LEMMA LogForm ==
    ASSUME NEW L, IsLog(L)
    PROVE  Len(L) \in Nat /\ DOMAIN L = 1..Len(L) /\ \A i \in 1..Len(L) : IsEvent(L[i])
BY DEF IsLog

LEMMA EmptyTells ==
    ASSUME NEW L
    PROVE  Tells(Empty, L, 0)
<1>0. 1..0 = {}
  OBVIOUS
<1>1. Shape(Empty) /\ ~Empty.failed
  <2>1. \A e \in Entries : Empty.entries[e] = Absent
    BY DEF Empty
  <2>2. /\ Empty.evidence = {} /\ Empty.failed = FALSE
        /\ Empty.entries = [e \in Entries |-> Empty.entries[e]]
    BY DEF Empty
  <2>3. Empty = [entries |-> Empty.entries, evidence |-> Empty.evidence,
                 candidates |-> Empty.candidates, verdicts |-> Empty.verdicts,
                 weights |-> Empty.weights, tests |-> Empty.tests, runs |-> Empty.runs,
                 emb |-> Empty.emb, failed |-> Empty.failed]
    BY DEF Empty
  <2> QED BY <2>1, <2>2, <2>3 DEF Shape
<1>2. RunRows(L, 0) = {} /\ CandidateRows(L, 0) = {} /\ VerdictRows(L, 0) = {}
  <2>1. \A t : LegacyRuns(L, 0, t) = {}
    BY <1>0 DEF LegacyRuns
  <2>2. \A t : 0..Cardinality(LegacyRuns(L, 0, t)) - 1 = {}
    BY <2>1, FS_EmptySet
  <2>3. RunRows(L, 0) = {}
    BY <1>0, <2>2 DEF RunRows
  <2> QED BY <1>0, <2>3 DEF CandidateRows, VerdictRows
<1>3. \A k, a : Cardinality(CountedAs(L, 0, k, a)) = 0
  BY <1>2, FS_EmptySet DEF CountedAs
<1>4. Remembers(Empty, L, 0)
  <2>1. /\ Empty.runs = {} /\ Empty.candidates = {} /\ Empty.verdicts = {}
        /\ Empty.weights = [k \in Kinds |-> [good |-> 0, bad |-> 0]]
    BY DEF Empty
  <2> QED BY <1>2, <1>3, <2>1, FS_EmptySet DEF Remembers
<1>5. RowsOf(Empty, L, 0)
  BY DEF RowsOf, Empty, Absent
<1> QED BY <1>1, <1>4, <1>5 DEF Tells

(* What a log tells up to a place is told by what is up to there. *)
LEMMA SamePrefixTells ==
    ASSUME NEW L, NEW K, NEW n \in Nat, \A i \in 1..n : K[i] = L[i], NEW d, Tells(d, L, n)
    PROVE  Tells(d, K, n)
<1>1. \A t : LegacyRuns(K, n, t) = LegacyRuns(L, n, t)
  BY DEF LegacyRuns
<1>2. {j \in 1..n : K[j].op = "run" /\ K[j].key # 0}
          = {j \in 1..n : L[j].op = "run" /\ L[j].key # 0}
  OBVIOUS
<1>3. RunRows(K, n) = RunRows(L, n)
  BY <1>1, <1>2 DEF RunRows
<1>4. {j \in 1..n : K[j].op = "candidates"} = {j \in 1..n : L[j].op = "candidates"}
  OBVIOUS
<1>5. CandidateRows(K, n) = CandidateRows(L, n)
  BY <1>4 DEF CandidateRows
<1>6. {j \in 1..n : K[j].op = "verdicts"} = {j \in 1..n : L[j].op = "verdicts"}
  OBVIOUS
<1>7. VerdictRows(K, n) = VerdictRows(L, n)
  BY <1>6 DEF VerdictRows
<1>8. ASSUME NEW i \in 1..n, NEW e, NEW u
      PROVE  Latest(K, u, e, i) <=> Latest(L, u, e, i)
  <2>1. 1..i \subseteq 1..n /\ \A w \in 1..i : w + 1..i \subseteq 1..n
    OBVIOUS
  <2> QED BY <2>1 DEF Latest, IsUpsert
<1>9. ASSUME NEW run, NEW e, NEW k
      PROVE  JudgedAs(K, n, run, e, k) <=> JudgedAs(L, n, run, e, k)
  <2>1. \A i \in 1..n : 1..i - 1 \subseteq 1..n
    OBVIOUS
  <2>2. \A i \in 1..n : Judges(K, i, run, e) <=> Judges(L, i, run, e)
    BY DEF Judges
  <2>3. ASSUME NEW i \in 1..n
        PROVE  (\E u : Latest(K, u, e, i) /\ k = KindSaid(K[u]))
                   <=> (\E u : Latest(L, u, e, i) /\ k = KindSaid(L[u]))
    <3>1. \A u : Latest(L, u, e, i) => u \in 1..n
      BY DEF Latest
    <3> QED BY <1>8, <3>1
  <2> QED BY <2>1, <2>2, <2>3 DEF JudgedAs
<1>10. \A k, a : CountedAs(K, n, k, a) = CountedAs(L, n, k, a)
  BY <1>7, <1>9 DEF CountedAs
<1>11. Remembers(d, K, n)
  BY <1>3, <1>5, <1>7, <1>9, <1>10 DEF Tells, Remembers
<1>12. RowsOf(d, K, n)
  <2>1. ASSUME NEW u, NEW e, Latest(L, u, e, n) PROVE Latest(K, u, e, n) /\ K[u] = L[u]
    <3>1. u \in 1..n /\ u + 1..n \subseteq 1..n
      BY <2>1 DEF Latest
    <3> QED BY <2>1, <3>1 DEF Latest, IsUpsert
  <2> QED BY <2>1 DEF Tells, RowsOf
<1> QED BY <1>11, <1>12 DEF Tells

(* The history of d is in c. *)
Keeps(d, c) ==
    /\ d.runs \subseteq c.runs
    /\ d.candidates \subseteq c.candidates
    /\ d.verdicts \subseteq c.verdicts
    /\ \A k \in Kinds : /\ d.weights[k].good <= c.weights[k].good
                         /\ d.weights[k].bad <= c.weights[k].bad

(* The history of d is in what a log tells. *)
Foretold(d, L) ==
    /\ Shape(d)
    /\ d.runs \subseteq RunRows(L, Len(L))
    /\ d.candidates \subseteq CandidateRows(L, Len(L))
    /\ d.verdicts \subseteq VerdictRows(L, Len(L))
    /\ \A k \in Kinds :
          /\ d.weights[k].good \in Nat /\ d.weights[k].bad \in Nat
          /\ d.weights[k].good <= Cardinality(CountedAs(L, Len(L), k, "true"))
          /\ d.weights[k].bad <= Cardinality(CountedAs(L, Len(L), k, "false"))

LEMMA ForetoldIsKept ==
    ASSUME NEW d, NEW L, Foretold(d, L), NEW c, Tells(c, L, Len(L))
    PROVE  Keeps(d, c)
<1>1. \A k \in Kinds : /\ c.weights[k].good = Cardinality(CountedAs(L, Len(L), k, "true"))
                       /\ c.weights[k].bad = Cardinality(CountedAs(L, Len(L), k, "false"))
  BY DEF Tells, Remembers
<1> QED BY <1>1 DEF Tells, Remembers, Foretold, Keeps

LEMMA MoreRuns ==
    ASSUME NEW L, NEW n \in Nat, NEW m \in Nat, n <= m
    PROVE  RunRows(L, n) \subseteq RunRows(L, m)
<1>1. 1..n \subseteq 1..m
  OBVIOUS
<1>2. ASSUME NEW t
      PROVE  0..Cardinality(LegacyRuns(L, n, t)) - 1 \subseteq 0..Cardinality(LegacyRuns(L, m, t)) - 1
  <2>1. LegacyRuns(L, n, t) \in SUBSET LegacyRuns(L, m, t)
    BY <1>1 DEF LegacyRuns
  <2>2. Cardinality(LegacyRuns(L, n, t)) <= Cardinality(LegacyRuns(L, m, t))
    BY <2>1, LegacyRunsFinite, FS_Subset
  <2>3. Cardinality(LegacyRuns(L, n, t)) \in Nat /\ Cardinality(LegacyRuns(L, m, t)) \in Nat
    BY LegacyRunsFinite
  <2> QED BY <2>2, <2>3
<1>3. {j \in 1..n : L[j].op = "run" /\ L[j].key # 0}
          \subseteq {j \in 1..m : L[j].op = "run" /\ L[j].key # 0}
  BY <1>1
<1> QED BY <1>2, <1>3 DEF RunRows

(* Tables that hold more of the same log hold all that others held. *)
LEMMA MoreIsKept ==
    ASSUME NEW L, NEW n \in Nat, NEW m \in Nat, n <= m,
           NEW d, Tells(d, L, n), NEW c, Tells(c, L, m)
    PROVE  Keeps(d, c)
<1>1. RunRows(L, n) \subseteq RunRows(L, m)
  BY MoreRuns
<1>2. CandidateRows(L, n) \subseteq CandidateRows(L, m)
  <2>1. 1..n \subseteq 1..m
    OBVIOUS
  <2> QED BY <2>1 DEF CandidateRows
<1>3. VerdictRows(L, n) \subseteq VerdictRows(L, m)
  BY VerdictRowsGrow
<1>4. ASSUME NEW k, NEW a
      PROVE  Cardinality(CountedAs(L, n, k, a)) <= Cardinality(CountedAs(L, m, k, a))
  <2>1. CountedAs(L, m, k, a) \in SUBSET c.verdicts
    BY DEF CountedAs, Tells, Remembers
  <2>2. IsFiniteSet(CountedAs(L, m, k, a))
    BY <2>1, FS_Subset DEF Tells, Remembers
  <2>3. \A v \in VerdictRows(L, n) :
            JudgedAs(L, m, v[1], v[2], k) <=> JudgedAs(L, n, v[1], v[2], k)
    BY JudgedStays
  <2>4. CountedAs(L, n, k, a) \in SUBSET CountedAs(L, m, k, a)
    BY <1>3, <2>3 DEF CountedAs
  <2> QED BY <2>2, <2>4, FS_Subset
<1>5. \A k \in Kinds : /\ c.weights[k].good = Cardinality(CountedAs(L, m, k, "true"))
                       /\ c.weights[k].bad = Cardinality(CountedAs(L, m, k, "false"))
                       /\ d.weights[k].good = Cardinality(CountedAs(L, n, k, "true"))
                       /\ d.weights[k].bad = Cardinality(CountedAs(L, n, k, "false"))
  BY DEF Tells, Remembers
<1> QED BY <1>1, <1>2, <1>3, <1>4, <1>5 DEF Tells, Remembers, Keeps

-----------------------------------------------------------------------------
(* The rewrite of a compaction.                                            *)

LEMMA MaxIs ==
    ASSUME NEW S \in SUBSET Nat, S # {}, NEW n \in Nat, \A x \in S : x <= n
    PROVE  Max(S) \in S /\ \A x \in S : x <= Max(S)
<1> DEFINE T == {k \in 0..n : n - k \in S}
<1>1. T \subseteq Nat /\ T # {}
  <2>1. PICK x \in S : TRUE
    OBVIOUS
  <2>2. n - x \in 0..n /\ n - (n - x) = x
    BY <2>1
  <2> QED BY <2>1, <2>2
<1>2. PICK m \in T : \A x \in T : ~(<<x, m>> \in OpToRel(<, Nat))
  BY <1>1, NatLessThanWellFounded, WFMin
<1>3. \A x \in T : ~(x < m)
  BY <1>1, <1>2 DEF OpToRel
<1>4. n - m \in S
  BY <1>2
<1>5. ASSUME NEW x \in S PROVE x <= n - m
  <2>1. n - x \in T
    OBVIOUS
  <2>2. m \in Nat /\ x \in Nat
    OBVIOUS
  <2> QED BY <1>3, <2>1, <2>2
<1> HIDE DEF T
<1>6. \A x \in S : \A y \in S : x >= y => \A z \in {y} : z <= x
  OBVIOUS
<1>7. \E x \in S : \A y \in S : x >= y
  BY <1>4, <1>5
<1>8. Max(S) \in S /\ \A y \in S : Max(S) >= y
  BY <1>7 DEF Max
<1> QED BY <1>8

LEMMA LatestUpsertIs ==
    ASSUME NEW L, IsLog(L), NEW e, NEW i \in Nat
    PROVE  LET u == LatestUpsert(L, e, i)
           IN  /\ u \in Nat /\ u <= i
               /\ u = 0 \/ u \in Upserts(L, e)
               /\ \A w \in Upserts(L, e) : w <= i => w <= u
<1> DEFINE S == {u \in Upserts(L, e) : u <= i} \cup {0}
<1>1. S \in SUBSET Nat /\ S # {} /\ \A x \in S : x <= i
  BY LogForm DEF Upserts
<1>2. LatestUpsert(L, e, i) = Max(S)
  BY DEF LatestUpsert
<1>3. Max(S) \in S /\ \A x \in S : x <= Max(S)
  <2> HIDE DEF S
  <2> QED BY <1>1, MaxIs
<1> QED BY <1>1, <1>2, <1>3

LEMMA LatestEndIs ==
    ASSUME NEW L, NEW e, NEW i \in Nat
    PROVE  LatestEnd(L, e, i) \in Nat
<1> DEFINE S == {x \in 1..i : Ends(L[x], e)} \cup {0}
<1>1. S \in SUBSET Nat /\ S # {} /\ \A x \in S : x <= i
  OBVIOUS
<1>2. LatestEnd(L, e, i) = Max(S)
  BY DEF LatestEnd
<1>3. Max(S) \in S
  <2> HIDE DEF S
  <2> QED BY <1>1, MaxIs
<1> QED BY <1>1, <1>2, <1>3

LEMMA LiveHasUpsert ==
    ASSUME NEW L, IsLog(L), NEW e, NEW i \in Nat, LiveAt(L, e, i)
    PROVE  /\ LatestUpsert(L, e, i) \in Upserts(L, e)
           /\ LatestUpsert(L, e, i) \in 1..i
<1>1. LatestEnd(L, e, i) \in Nat
  BY LatestEndIs
<1>2. /\ LatestUpsert(L, e, i) \in Nat /\ LatestUpsert(L, e, i) <= i
      /\ LatestUpsert(L, e, i) = 0 \/ LatestUpsert(L, e, i) \in Upserts(L, e)
  BY LatestUpsertIs
<1> QED BY <1>1, <1>2 DEF LiveAt

LEMMA LatestIsUpsert ==
    ASSUME NEW L, IsLog(L), NEW i \in 1..Len(L), NEW e, NEW u, Latest(L, u, e, i)
    PROVE  LatestUpsert(L, e, i) = u
<1> DEFINE m == LatestUpsert(L, e, i)
<1>1. /\ m \in Nat /\ m <= i /\ (m = 0 \/ m \in Upserts(L, e))
      /\ \A w \in Upserts(L, e) : w <= i => w <= m
  BY LatestUpsertIs, LogForm
<1>2. u \in Upserts(L, e) /\ u \in 1..i /\ u <= i
  BY LogForm DEF Latest, IsUpsert, Upserts
<1>3. u <= m /\ m \in Upserts(L, e)
  BY <1>1, <1>2
<1> HIDE DEF m
<1>4. IsUpsert(L, m, e)
  BY <1>3 DEF Upserts, IsUpsert
<1>5. ~(u < m)
  <2>1. ASSUME u < m PROVE m \in u + 1..i
    BY <1>1, <1>2, <2>1
  <2> QED BY <1>4, <2>1 DEF Latest
<1> QED BY <1>1, <1>2, <1>3, <1>5 DEF m

(* The indices a compaction keeps. *)
OfEntries(L) ==
    UNION {LastUpserts(L, e) \cup AuditUpserts(L, e) \cup AuditExpires(L, e) : e \in Entries}
Anchors(L) == {Anchor(L, i) : i \in KeptEvidence(L)}
Kept(L) == KeptEvidence(L) \cup Anchors(L) \cup LastTests(L) \cup History(L) \cup OfEntries(L)

LEMMA AnchorIs ==
    ASSUME NEW L, IsLog(L), NEW i \in KeptEvidence(L)
    PROVE  Anchor(L, i) \in Upserts(L, L[i].id) /\ Anchor(L, i) \in 1..Len(L)
<1> DEFINE e == L[i].id
<1>1. i \in 1..Len(L) /\ LiveAt(L, e, i - 1)
  BY LogForm DEF KeptEvidence
<1> HIDE DEF e
<1>2. i - 1 \in Nat /\ i \in Nat /\ Len(L) \in Nat
  BY <1>1, LogForm
<1>3. LatestUpsert(L, e, i - 1) \in Upserts(L, e) /\ LatestUpsert(L, e, i - 1) \in 1..i - 1
  BY <1>1, <1>2, LiveHasUpsert
<1>4. /\ LatestUpsert(L, e, i) \in Nat /\ LatestUpsert(L, e, i) <= i
      /\ LatestUpsert(L, e, i) = 0 \/ LatestUpsert(L, e, i) \in Upserts(L, e)
      /\ \A w \in Upserts(L, e) : w <= i => w <= LatestUpsert(L, e, i)
  BY <1>2, LatestUpsertIs
<1>5. LatestUpsert(L, e, i) >= 1
  <2>1. LatestUpsert(L, e, i - 1) <= i
    BY <1>1, <1>3
  <2> QED BY <1>3, <1>4, <2>1
<1> QED BY <1>1, <1>2, <1>4, <1>5 DEF Anchor, e

LEMMA KeptIs ==
    ASSUME NEW L, IsLog(L)
    PROVE  /\ Kept(L) \in SUBSET (1..Len(L)) /\ IsFiniteSet(Kept(L))
           /\ \A i \in Kept(L) : Place(L, KeptEvidence(L), i) \in 1..Len(L)
<1>0. Len(L) \in Nat /\ DOMAIN L = 1..Len(L)
  BY LogForm
<1>1. ASSUME NEW e PROVE LastUpserts(L, e) \subseteq DOMAIN L
  <2>1. ASSUME LiveAt(L, e, Len(L)) PROVE LatestUpsert(L, e, Len(L)) \in Upserts(L, e)
    BY <1>0, <2>1, LiveHasUpsert
  <2> QED BY <2>1 DEF LastUpserts, Upserts
<1>2. ASSUME NEW e PROVE AuditUpserts(L, e) \subseteq DOMAIN L
  <2>1. ASSUME NEW i \in DOMAIN L, LatestUpsert(L, e, i) # 0
        PROVE  LatestUpsert(L, e, i) \in DOMAIN L
    <3>1. i \in Nat
      BY <1>0
    <3> QED BY <2>1, <3>1, LatestUpsertIs DEF Upserts
  <2>2. Sampled(L, e) \cup Audited(L, e) \subseteq DOMAIN L
    BY DEF Sampled, Audited
  <2> QED BY <2>1, <2>2 DEF AuditUpserts, Upserts
<1>3. \A e : AuditExpires(L, e) \subseteq DOMAIN L
  BY DEF AuditExpires
<1>4. LastTests(L) \subseteq DOMAIN L /\ History(L) \subseteq DOMAIN L
  BY DEF LastTests, History
<1>5. KeptEvidence(L) \subseteq DOMAIN L
  BY DEF KeptEvidence
<1>6. \A i \in KeptEvidence(L) : Anchor(L, i) \in DOMAIN L
  BY <1>0, AnchorIs
<1>7. Kept(L) \in SUBSET (1..Len(L))
  <2>1. OfEntries(L) \subseteq DOMAIN L
    BY <1>1, <1>2, <1>3 DEF OfEntries
  <2>2. Anchors(L) \subseteq DOMAIN L
    BY <1>6 DEF Anchors
  <2> QED BY <1>0, <1>4, <1>5, <2>1, <2>2 DEF Kept
<1>8. IsFiniteSet(Kept(L))
  <2>1. IsFiniteSet(1..Len(L))
    BY <1>0, FS_Interval
  <2> QED BY <1>7, <2>1, FS_Subset
<1>9. \A i \in Kept(L) : Place(L, KeptEvidence(L), i) \in 1..Len(L)
  BY <1>0, <1>6, <1>7 DEF Place
<1> QED BY <1>7, <1>8, <1>9

(* How many kept indices are put before one of them. *)
Before(L, evidence, kept, i) == {j \in kept : Precedes(L, evidence, j, i)}
Rank(L, evidence, kept, i) == Cardinality(Before(L, evidence, kept, i))

LEMMA BeforeGrows ==
    ASSUME NEW L, NEW evidence, NEW kept \in SUBSET Nat,
           \A i \in kept : Place(L, evidence, i) \in Nat,
           NEW i \in kept, NEW j \in kept, Precedes(L, evidence, j, i)
    PROVE  /\ Before(L, evidence, kept, j) \cup {j} \subseteq Before(L, evidence, kept, i)
           /\ j \notin Before(L, evidence, kept, j)
<1> DEFINE p(k) == Place(L, evidence, k)
<1>1. \A k \in kept : p(k) \in Nat /\ k \in Nat
  OBVIOUS
<1>2. \A k, l : Precedes(L, evidence, k, l) <=> p(k) < p(l) \/ (p(k) = p(l) /\ k < l)
  BY DEF Precedes
<1> HIDE DEF p
<1>3. ASSUME NEW k \in kept, Precedes(L, evidence, k, j) PROVE Precedes(L, evidence, k, i)
  <2>1. p(k) \in Nat /\ p(j) \in Nat /\ p(i) \in Nat /\ k \in Nat /\ j \in Nat /\ i \in Nat
    BY <1>1
  <2>2. p(k) < p(j) \/ (p(k) = p(j) /\ k < j)
    BY <1>2, <1>3
  <2>3. p(j) < p(i) \/ (p(j) = p(i) /\ j < i)
    BY <1>2
  <2>4. p(k) < p(i) \/ (p(k) = p(i) /\ k < i)
    BY <2>1, <2>2, <2>3
  <2> QED BY <1>2, <2>4
<1>4. ~Precedes(L, evidence, j, j)
  BY <1>1, <1>2
<1> QED BY <1>3, <1>4 DEF Before

LEMMA RankGrows ==
    ASSUME NEW L, NEW evidence, NEW kept \in SUBSET Nat, IsFiniteSet(kept),
           \A i \in kept : Place(L, evidence, i) \in Nat,
           NEW i \in kept, NEW j \in kept, Precedes(L, evidence, j, i)
    PROVE  /\ Rank(L, evidence, kept, j) \in Nat /\ Rank(L, evidence, kept, i) \in Nat
           /\ Rank(L, evidence, kept, j) < Rank(L, evidence, kept, i)
<1> DEFINE A == Before(L, evidence, kept, j)
           B == Before(L, evidence, kept, i)
<1>1. A \in SUBSET kept /\ B \in SUBSET kept
  BY DEF Before
<1>2. A \cup {j} \subseteq B /\ j \notin A
  BY BeforeGrows
<1>3. Rank(L, evidence, kept, j) = Cardinality(A) /\ Rank(L, evidence, kept, i) = Cardinality(B)
  BY DEF Rank
<1> HIDE DEF A, B
<1>4. IsFiniteSet(A) /\ IsFiniteSet(B)
  BY <1>1, FS_Subset
<1>5. Cardinality(A \cup {j}) = Cardinality(A) + 1
  BY <1>2, <1>4, FS_AddElement
<1>6. A \cup {j} \in SUBSET B
  BY <1>2
<1>7. Cardinality(A \cup {j}) <= Cardinality(B)
  BY <1>4, <1>6, FS_Subset
<1> QED BY <1>3, <1>4, <1>5, <1>7, FS_CardinalityType

LEMMA RankBound ==
    ASSUME NEW L, NEW evidence, NEW kept \in SUBSET Nat, IsFiniteSet(kept),
           \A i \in kept : Place(L, evidence, i) \in Nat, NEW i \in kept
    PROVE  Rank(L, evidence, kept, i) \in 0..Cardinality(kept) - 1
<1> DEFINE B == Before(L, evidence, kept, i)
<1>1. B \in SUBSET kept /\ i \notin B
  BY DEF Before, Precedes
<1>2. B \cup {i} \in SUBSET kept
  BY <1>1
<1>3. Rank(L, evidence, kept, i) = Cardinality(B)
  BY DEF Rank
<1> HIDE DEF B
<1>4. IsFiniteSet(B)
  BY <1>1, FS_Subset
<1>5. Cardinality(B \cup {i}) = Cardinality(B) + 1 /\ Cardinality(B \cup {i}) <= Cardinality(kept)
  BY <1>1, <1>2, <1>4, FS_AddElement, FS_Subset
<1> QED BY <1>3, <1>4, <1>5, FS_CardinalityType

(* Each place of the rewritten log is taken by one kept event. *)
LEMMA RankOnto ==
    ASSUME NEW L, NEW evidence, NEW kept \in SUBSET Nat, IsFiniteSet(kept),
           \A i \in kept : Place(L, evidence, i) \in Nat
    PROVE  /\ \A n \in 0..Cardinality(kept) - 1 : \E i \in kept : Rank(L, evidence, kept, i) = n
           /\ \A i, j \in kept : Rank(L, evidence, kept, i) = Rank(L, evidence, kept, j) => i = j
<1> DEFINE K == Cardinality(kept)
           f == [i \in kept |-> Rank(L, evidence, kept, i)]
<1>1. K \in Nat
  BY FS_CardinalityType
<1>2. f \in [kept -> 0..K - 1]
  BY RankBound
<1>3. ASSUME NEW i \in kept, NEW j \in kept,
             Rank(L, evidence, kept, i) = Rank(L, evidence, kept, j), i # j
      PROVE  FALSE
  <2>1. Precedes(L, evidence, i, j) \/ Precedes(L, evidence, j, i)
    BY <1>3 DEF Precedes
  <2>2. CASE Precedes(L, evidence, i, j)
    <3>1. /\ Rank(L, evidence, kept, j) \in Nat /\ Rank(L, evidence, kept, i) \in Nat
          /\ Rank(L, evidence, kept, i) < Rank(L, evidence, kept, j)
      BY <2>2, RankGrows
    <3> QED BY <1>3, <3>1
  <2>3. CASE Precedes(L, evidence, j, i)
    <3>1. /\ Rank(L, evidence, kept, j) \in Nat /\ Rank(L, evidence, kept, i) \in Nat
          /\ Rank(L, evidence, kept, j) < Rank(L, evidence, kept, i)
      BY <2>3, RankGrows
    <3> QED BY <1>3, <3>1
  <2> QED BY <2>1, <2>2, <2>3
<1>4. f \in Injection(kept, 0..K - 1)
  BY <1>2, <1>3 DEF Injection, IsInjective
<1>5. IsFiniteSet(0..K - 1) /\ Cardinality(0..K - 1) = K
  <2> HIDE DEF K
  <2>1. /\ IsFiniteSet(0..K - 1)
        /\ Cardinality(0..K - 1) = IF 0 > K - 1 THEN 0 ELSE (K - 1) - 0 + 1
    BY <1>1, FS_Interval
  <2> QED BY <1>1, <2>1
<1> HIDE DEF f
<1>6. f \in Surjection(kept, 0..K - 1)
  BY <1>4, <1>5, FS_Injection
<1>7. ASSUME NEW n \in 0..K - 1 PROVE \E i \in kept : Rank(L, evidence, kept, i) = n
  <2>1. \E i \in kept : f[i] = n
    BY <1>6 DEF Surjection
  <2> QED BY <2>1 DEF f
<1> QED BY <1>3, <1>7

(* What a compaction makes of a log: the kept events, each at the place its rank
   gives it. *)
Rewrites(C, L, kept, pos) ==
    /\ kept \subseteq 1..Len(L)
    /\ \A i \in kept : pos[i] \in 1..Len(C) /\ C[pos[i]] = L[i]
    /\ \A n \in 1..Len(C) : \E i \in kept : pos[i] = n
    /\ \A i, j \in kept : pos[i] = pos[j] => i = j
    /\ \A i, j \in kept : /\ L[i].op \notin EvidenceOps /\ L[j].op \notin EvidenceOps
                          /\ i < j
                          => pos[i] < pos[j]
    /\ \A i, j \in kept : Precedes(L, KeptEvidence(L), i, j) => pos[i] < pos[j]

LEMMA CompactedIs ==
    ASSUME NEW L, IsLog(L)
    PROVE  /\ IsLog(Compacted(L))
           /\ \E pos : Rewrites(Compacted(L), L, Kept(L), pos)
<1> DEFINE evidence == KeptEvidence(L)
           kept == Kept(L)
           K == Cardinality(kept)
           rank(i) == Rank(L, evidence, kept, i)
           ranked == {<<rank(i), i>> : i \in kept}
           C == [n \in 1..K |-> L[(CHOOSE r \in ranked : r[1] = n - 1)[2]]]
           pos == [i \in kept |-> rank(i) + 1]
<1>1. Compacted(L) = C
  BY DEF Compacted, Kept, OfEntries, Anchors, Rank, Before
<1>2. /\ kept \in SUBSET (1..Len(L)) /\ IsFiniteSet(kept) /\ kept \in SUBSET Nat
      /\ \A i \in kept : Place(L, evidence, i) \in Nat
  <2>1. Len(L) \in Nat
    BY LogForm
  <2> QED BY <2>1, KeptIs
<1>3. K \in Nat
  BY <1>2, FS_CardinalityType
<1>4. \A i \in kept : rank(i) \in 0..K - 1
  <2> HIDE DEF evidence, kept
  <2> QED BY <1>2, RankBound
<1>5. /\ \A n \in 0..K - 1 : \E i \in kept : rank(i) = n
      /\ \A i, j \in kept : rank(i) = rank(j) => i = j
  <2> HIDE DEF evidence, kept
  <2> QED BY <1>2, RankOnto
<1>6. \A i, j \in kept : Precedes(L, evidence, i, j) => rank(i) < rank(j)
  <2> HIDE DEF evidence, kept
  <2> QED BY <1>2, RankGrows
<1> HIDE DEF evidence, kept, rank, K
<1>7. ASSUME NEW i \in kept PROVE C[rank(i) + 1] = L[i]
  <2> DEFINE r == CHOOSE r \in ranked : r[1] = (rank(i) + 1) - 1
  <2>1. <<rank(i), i>> \in ranked /\ <<rank(i), i>>[1] = (rank(i) + 1) - 1
    BY <1>3, <1>4
  <2>2. r \in ranked /\ r[1] = (rank(i) + 1) - 1
    BY <2>1
  <2> HIDE DEF r
  <2>3. PICK j \in kept : r = <<rank(j), j>>
    BY <2>2
  <2>4. r[1] = rank(j) /\ r[2] = j
    BY <2>3
  <2>a. rank(j) \in 0..K - 1 /\ rank(i) \in 0..K - 1
    BY <1>4
  <2>b. rank(j) = rank(i)
    BY <1>3, <2>2, <2>4, <2>a
  <2>5. r[2] = i
    BY <1>5, <2>4, <2>b
  <2> USE DEF r
  <2>6. rank(i) + 1 \in 1..K
    BY <1>3, <1>4
  <2>7. C[rank(i) + 1] = L[r[2]]
    BY <2>6
  <2> HIDE DEF r
  <2> QED BY <2>5, <2>7
<1>8. ASSUME NEW n \in 1..K PROVE \E i \in kept : rank(i) + 1 = n /\ C[n] = L[i]
  <2>1. n - 1 \in 0..K - 1 /\ (n - 1) + 1 = n
    BY <1>3
  <2>2. PICK i \in kept : rank(i) = n - 1
    BY <1>5, <2>1
  <2>3. rank(i) + 1 = n
    BY <2>1, <2>2
  <2>4. C[rank(i) + 1] = L[i]
    BY <1>7
  <2> HIDE DEF C
  <2> QED BY <2>3, <2>4
<1>9. DOMAIN C = 1..K /\ C = [n \in 1..K |-> C[n]]
  OBVIOUS
<1> HIDE DEF C
<1>10. C \in Seq({C[n] : n \in DOMAIN C})
  <2>1. C \in [1..K -> {C[n] : n \in DOMAIN C}]
    BY <1>9
  <2> QED BY <1>3, <2>1, SeqDef
<1>11. Len(C) = K
  BY <1>3, <1>9, <1>10
<1>12. \A n \in 1..K : IsEvent(C[n])
  BY <1>2, <1>8, LogForm
<1>13. IsLog(C)
  BY <1>9, <1>10, <1>12 DEF IsLog
<1>14. \A i \in kept : pos[i] = rank(i) + 1
  OBVIOUS
<1> HIDE DEF pos
<1>15. ASSUME NEW i \in kept, NEW j \in kept, i < j,
              L[i].op \notin EvidenceOps, L[j].op \notin EvidenceOps
       PROVE  pos[i] < pos[j]
  <2>1. i \notin evidence /\ j \notin evidence
    BY <1>15 DEF evidence, KeptEvidence
  <2>2. Precedes(L, evidence, i, j)
    BY <1>15, <2>1 DEF Precedes, Place
  <2>3. rank(i) < rank(j)
    BY <1>6, <2>2
  <2> QED BY <1>3, <1>4, <1>14, <2>3
<1>16. \A i, j \in kept : pos[i] = pos[j] => i = j
  BY <1>3, <1>4, <1>5, <1>14
<1>17. \A i \in kept : pos[i] \in 1..K /\ C[pos[i]] = L[i]
  BY <1>3, <1>4, <1>7, <1>14
<1>18. \A n \in 1..K : \E i \in kept : pos[i] = n
  BY <1>8, <1>14
<1>19. \A i, j \in kept : Precedes(L, KeptEvidence(L), i, j) => pos[i] < pos[j]
  <2>1. \A i, j \in kept : rank(i) < rank(j) => pos[i] < pos[j]
    BY <1>3, <1>4, <1>14
  <2> QED BY <1>6, <2>1 DEF evidence
<1>20. Rewrites(C, L, kept, pos)
  BY <1>2, <1>11, <1>15, <1>16, <1>17, <1>18, <1>19 DEF Rewrites
<1> QED BY <1>1, <1>13, <1>20 DEF kept

(* The upsert that a verdict was counted for is kept. *)
LEMMA KeepsJudged ==
    ASSUME NEW L, IsLog(L), NEW i \in 1..Len(L), NEW e \in Entries, L[i].op = "verdicts",
           e \in DOMAIN L[i].answers, NEW u, Latest(L, u, e, i)
    PROVE  u \in Kept(L)
<1>1. i \in Audited(L, e) /\ i \in DOMAIN L
  BY LogForm DEF Audited
<1>2. LatestUpsert(L, e, i) = u /\ u # 0
  BY LatestIsUpsert DEF Latest
<1>3. u \in AuditUpserts(L, e)
  BY <1>1, <1>2 DEF AuditUpserts
<1> QED BY <1>3 DEF Kept, OfEntries

LEMMA KeepsHistory ==
    ASSUME NEW L, IsLog(L), NEW i \in 1..Len(L), L[i].op \in HistoryOps
    PROVE  i \in Kept(L)
BY LogForm DEF Kept, History, HistoryOps

LEMMA RewriteKeepsRuns ==
    ASSUME NEW L, IsLog(L), NEW C, IsLog(C), NEW pos, Rewrites(C, L, Kept(L), pos)
    PROVE  RunRows(L, Len(L)) \subseteq RunRows(C, Len(C))
<1>0. Len(L) \in Nat /\ Len(C) \in Nat
  BY LogForm
<1>1. \A i \in 1..Len(L) : L[i].op = "run" => pos[i] \in 1..Len(C) /\ C[pos[i]] = L[i]
  BY KeepsHistory DEF Rewrites, HistoryOps
<1>2. ASSUME NEW t
      PROVE  0..Cardinality(LegacyRuns(L, Len(L), t)) - 1
                 \subseteq 0..Cardinality(LegacyRuns(C, Len(C), t)) - 1
  <2> DEFINE A == LegacyRuns(L, Len(L), t)
             B == LegacyRuns(C, Len(C), t)
             f == [i \in A |-> pos[i]]
  <2>1. \A i \in A : i \in 1..Len(L) /\ L[i].op = "run" /\ IsLegacyRun(L[i]) /\ L[i].id = t
    BY DEF LegacyRuns, IsLegacyRun
  <2>2. \A i \in A : pos[i] \in B
    BY <1>1, <2>1 DEF LegacyRuns
  <2>3. \A i, j \in A : pos[i] = pos[j] => i = j
    BY <2>1, KeepsHistory DEF Rewrites, HistoryOps
  <2> HIDE DEF A, B
  <2>4. f \in Injection(A, B)
    BY <2>2, <2>3 DEF Injection, IsInjective
  <2>5. IsFiniteSet(B) /\ Cardinality(A) \in Nat /\ Cardinality(B) \in Nat
    BY <1>0, LegacyRunsFinite DEF A, B
  <2> HIDE DEF f
  <2>6. Cardinality(A) <= Cardinality(B)
    BY <2>4, <2>5, FS_Injection
  <2> QED BY <2>5, <2>6 DEF A, B
<1>3. ASSUME NEW i \in 1..Len(L), L[i].op = "run", L[i].key # 0
      PROVE  \E j \in 1..Len(C) : /\ C[j].op = "run" /\ C[j].key # 0
                                  /\ C[j].key = L[i].key /\ C[j].id = L[i].id
  BY <1>1, <1>3
<1> QED BY <1>2, <1>3 DEF RunRows

LEMMA RewriteKeepsRows ==
    ASSUME NEW L, IsLog(L), NEW C, IsLog(C), NEW pos, Rewrites(C, L, Kept(L), pos)
    PROVE  /\ CandidateRows(L, Len(L)) \subseteq CandidateRows(C, Len(C))
           /\ VerdictRows(L, Len(L)) = VerdictRows(C, Len(C))
<1>1. \A i \in 1..Len(L) :
          L[i].op \in HistoryOps => pos[i] \in 1..Len(C) /\ C[pos[i]] = L[i]
  BY KeepsHistory DEF Rewrites
<1>2. \A n \in 1..Len(C) : \E i \in 1..Len(L) : C[n] = L[i]
  BY DEF Rewrites
<1>3. CandidateRows(L, Len(L)) \subseteq CandidateRows(C, Len(C))
  BY <1>1 DEF CandidateRows, HistoryOps
<1>4. VerdictRows(L, Len(L)) \subseteq VerdictRows(C, Len(C))
  BY <1>1 DEF VerdictRows, HistoryOps
<1>5. VerdictRows(C, Len(C)) \subseteq VerdictRows(L, Len(L))
  BY <1>2 DEF VerdictRows
<1> QED BY <1>3, <1>4, <1>5

(* The first verdict of a run on an entry is still the first, and still finds the
   entry with the kind it had. *)
LEMMA RewriteKeepsJudged ==
    ASSUME NEW L, IsLog(L), NEW C, IsLog(C), NEW pos, Rewrites(C, L, Kept(L), pos),
           NEW run, NEW e \in Entries, NEW k, JudgedAs(L, Len(L), run, e, k)
    PROVE  JudgedAs(C, Len(C), run, e, k)
<1>0. /\ Len(L) \in Nat /\ Len(C) \in Nat
      /\ \A i \in 1..Len(L) : L[i].op \in HistoryOps \cup {"upsert"} => L[i].op \notin EvidenceOps
  BY LogForm DEF HistoryOps, EvidenceOps
<1>1. PICK i \in 1..Len(L) : /\ Judges(L, i, run, e)
                             /\ \A j \in 1..i - 1 : ~Judges(L, j, run, e)
                             /\ \E u : Latest(L, u, e, i) /\ k = KindSaid(L[u])
  BY DEF JudgedAs
<1>2. PICK u : Latest(L, u, e, i) /\ k = KindSaid(L[u])
  BY <1>1
<1>3. /\ i \in Kept(L) /\ L[i].op \in HistoryOps
      /\ pos[i] \in 1..Len(C) /\ C[pos[i]] = L[i]
  BY <1>1, KeepsHistory DEF Rewrites, Judges, HistoryOps
<1>4. /\ u \in Kept(L) /\ u \in 1..i /\ L[u].op = "upsert" /\ L[u].id = e
      /\ pos[u] \in 1..Len(C) /\ C[pos[u]] = L[u]
  <2>1. u \in Kept(L)
    BY <1>1, <1>2, KeepsJudged DEF Judges
  <2> QED BY <1>2, <2>1 DEF Rewrites, Latest, IsUpsert
<1>5. u < i /\ u \in 1..Len(L)
  BY <1>0, <1>3, <1>4 DEF HistoryOps
<1>6. pos[u] < pos[i]
  BY <1>0, <1>3, <1>4, <1>5 DEF Rewrites, HistoryOps, EvidenceOps
<1>7. Judges(C, pos[i], run, e)
  BY <1>1, <1>3 DEF Judges
<1>8. ASSUME NEW n \in 1..pos[i] - 1, Judges(C, n, run, e) PROVE FALSE
  <2>1. n \in 1..Len(C) /\ n < pos[i]
    BY <1>0, <1>3
  <2>2. PICK j \in Kept(L) : pos[j] = n
    BY <2>1 DEF Rewrites
  <2>3. j \in 1..Len(L) /\ Judges(L, j, run, e)
    BY <1>8, <2>2 DEF Rewrites, Judges
  <2>4. ~(j < i)
    BY <1>1, <2>3
  <2>5. L[j].op \notin EvidenceOps /\ L[i].op \notin EvidenceOps
    BY <1>0, <1>3, <2>3 DEF Judges, HistoryOps
  <2>6. i < j => pos[i] < pos[j]
    BY <1>3, <2>5 DEF Rewrites
  <2> QED BY <1>0, <1>3, <2>1, <2>2, <2>3, <2>4, <2>6
<1>9. ASSUME NEW w \in pos[u] + 1..pos[i], IsUpsert(C, w, e) PROVE FALSE
  <2>1. w \in 1..Len(C) /\ pos[u] < w /\ w <= pos[i]
    BY <1>0, <1>3, <1>4
  <2>2. PICK j \in Kept(L) : pos[j] = w
    BY <2>1 DEF Rewrites
  <2>3. j \in 1..Len(L) /\ IsUpsert(L, j, e)
    BY <1>9, <2>2 DEF Rewrites, IsUpsert
  <2>4. /\ L[j].op \notin EvidenceOps /\ L[i].op \notin EvidenceOps /\ L[u].op \notin EvidenceOps
    BY <1>0, <1>3, <1>4, <1>5, <2>3 DEF IsUpsert, HistoryOps
  <2>5. j < u => pos[j] < pos[u]
    BY <1>4, <2>4 DEF Rewrites
  <2>6. i < j => pos[i] < pos[j]
    BY <1>3, <2>4 DEF Rewrites
  <2>7. j # u
    BY <1>4, <2>1, <2>2
  <2>8. j \in u + 1..i
    BY <1>0, <1>3, <1>4, <2>1, <2>2, <2>3, <2>5, <2>6, <2>7
  <2> QED BY <1>2, <2>3, <2>8 DEF Latest
<1>10. Latest(C, pos[u], e, pos[i])
  <2>1. pos[u] \in 1..pos[i]
    BY <1>0, <1>3, <1>4, <1>6
  <2> QED BY <1>4, <1>9, <2>1 DEF Latest, IsUpsert
<1>11. k = KindSaid(C[pos[u]])
  BY <1>2, <1>4
<1> QED BY <1>3, <1>7, <1>8, <1>10, <1>11 DEF JudgedAs

LEMMA CountsAreNumbers ==
    ASSUME NEW L, NEW n, NEW d, Tells(d, L, n), NEW k \in Kinds
    PROVE  /\ d.weights[k].good = Cardinality(CountedAs(L, n, k, "true"))
           /\ d.weights[k].bad = Cardinality(CountedAs(L, n, k, "false"))
           /\ d.weights[k].good \in Nat /\ d.weights[k].bad \in Nat
<1>1. \A a : CountedAs(L, n, k, a) \in SUBSET d.verdicts
  BY DEF CountedAs, Tells, Remembers
<1>2. \A a : Cardinality(CountedAs(L, n, k, a)) \in Nat
  BY <1>1, FS_Subset, FS_CardinalityType DEF Tells, Remembers
<1> QED BY <1>2 DEF Tells, Remembers

(* What the tables hold, the rewritten log tells. *)
LEMMA CompactedForetells ==
    ASSUME NEW L, IsLog(L), NEW d, Tells(d, L, Len(L))
    PROVE  IsLog(Compacted(L)) /\ Foretold(d, Compacted(L))
<1> DEFINE C == Compacted(L)
<1>1. IsLog(C) /\ \E pos : Rewrites(C, L, Kept(L), pos)
  BY CompactedIs
<1> HIDE DEF C
<1>2. PICK pos : Rewrites(C, L, Kept(L), pos)
  BY <1>1
<1>3. /\ RunRows(L, Len(L)) \subseteq RunRows(C, Len(C))
      /\ CandidateRows(L, Len(L)) \subseteq CandidateRows(C, Len(C))
      /\ VerdictRows(L, Len(L)) = VerdictRows(C, Len(C))
  BY <1>1, <1>2, RewriteKeepsRuns, RewriteKeepsRows
<1>4. \A v \in VerdictRows(L, Len(L)) : v[2] \in Entries
  <2>1. \A i \in 1..Len(L) : L[i].op = "verdicts" => DOMAIN L[i].answers \subseteq Entries
    BY LogForm DEF IsEvent, EvidenceOps
  <2> QED BY <2>1 DEF VerdictRows
<1>5. ASSUME NEW k, NEW a
      PROVE  Cardinality(CountedAs(L, Len(L), k, a)) <= Cardinality(CountedAs(C, Len(C), k, a))
  <2>1. CountedAs(L, Len(L), k, a) \in SUBSET CountedAs(C, Len(C), k, a)
    BY <1>1, <1>2, <1>3, <1>4, RewriteKeepsJudged DEF CountedAs
  <2>2. CountedAs(C, Len(C), k, a) \in SUBSET d.verdicts
    BY <1>3 DEF CountedAs, Tells, Remembers
  <2>3. IsFiniteSet(CountedAs(C, Len(C), k, a))
    BY <2>2, FS_Subset DEF Tells, Remembers
  <2> QED BY <2>1, <2>3, FS_Subset
<1>6. \A k \in Kinds : /\ d.weights[k].good = Cardinality(CountedAs(L, Len(L), k, "true"))
                       /\ d.weights[k].bad = Cardinality(CountedAs(L, Len(L), k, "false"))
                       /\ d.weights[k].good \in Nat /\ d.weights[k].bad \in Nat
  BY CountsAreNumbers
<1>7. Foretold(d, C)
  BY <1>3, <1>5, <1>6 DEF Tells, Remembers, Foretold
<1> QED BY <1>1, <1>7 DEF C

-----------------------------------------------------------------------------
(* The log that is written, and the tables beside it.                      *)

LEMMA EventsAreLog ==
    ASSUME NEW n \in Nat, NEW S, NEW f \in [1..n -> S], \A ev \in S : IsEvent(ev)
    PROVE  IsLog(f) /\ Len(f) = n
<1>1. f \in [1..n -> {f[i] : i \in DOMAIN f}]
  OBVIOUS
<1>2. f \in Seq({f[i] : i \in DOMAIN f})
  BY <1>1, SeqDef
<1>3. DOMAIN f = 1..n /\ \A i \in 1..n : IsEvent(f[i])
  OBVIOUS
<1>4. Len(f) = n
  BY <1>2, <1>3
<1> QED BY <1>2, <1>3, <1>4 DEF IsLog

LEMMA LogGrows ==
    ASSUME NEW L, IsLog(L), NEW B, IsLog(B)
    PROVE  /\ IsLog(L \o B) /\ Len(L \o B) = Len(L) + Len(B)
           /\ \A i \in 1..Len(L) : (L \o B)[i] = L[i]
<1> DEFINE S == {L[i] : i \in DOMAIN L} \cup {B[i] : i \in DOMAIN B}
           n == Len(L) + Len(B)
<1>1. L \in Seq(S) /\ B \in Seq(S)
  <2>1. /\ {L[i] : i \in DOMAIN L} \subseteq S /\ {B[i] : i \in DOMAIN B} \subseteq S
    OBVIOUS
  <2>2. L \in Seq({L[i] : i \in DOMAIN L}) /\ B \in Seq({B[i] : i \in DOMAIN B})
    BY DEF IsLog
  <2> HIDE DEF S
  <2> QED BY <2>1, <2>2, SeqMonotonic
<1>2. \A ev \in S : IsEvent(ev)
  BY DEF IsLog
<1> HIDE DEF S
<1>3. L \o B \in Seq(S) /\ Len(L \o B) = n
  BY <1>1, ConcatProperties
<1>4. \A i \in 1..Len(L) : (L \o B)[i] = L[i]
  <2>1. Len(L) \in Nat /\ Len(B) \in Nat
    BY LogForm
  <2> QED BY <1>1, <2>1, ConcatProperties
<1>5. n \in Nat
  BY LogForm
<1>6. L \o B \in [1..n -> S]
  BY <1>3, LenProperties
<1>7. IsLog(L \o B)
  <2> HIDE DEF n
  <2> QED BY <1>2, <1>5, <1>6, EventsAreLog
<1> QED BY <1>3, <1>4, <1>7

LEMMA PrefixIsLog ==
    ASSUME NEW L, IsLog(L), NEW n \in 0..Len(L)
    PROVE  /\ IsLog(SubSeq(L, 1, n)) /\ Len(SubSeq(L, 1, n)) = n
           /\ \A i \in 1..n : SubSeq(L, 1, n)[i] = L[i]
<1> DEFINE S == {L[i] : i \in DOMAIN L}
           K == SubSeq(L, 1, n)
<1>1. Len(L) \in Nat /\ DOMAIN L = 1..Len(L) /\ n \in Nat
  BY LogForm
<1>2. \A ev \in S : IsEvent(ev)
  BY DEF IsLog
<1>3. \A i \in 1..n : L[i] \in S
  BY <1>1
<1> HIDE DEF S
<1>4. /\ K \in Seq(S) /\ Len(K) = IF 1 <= n THEN n - 1 + 1 ELSE 0
      /\ \A i \in 1..n - 1 + 1 : K[i] = L[1 + i - 1]
  BY <1>1, <1>3, SubSeqProperties
<1> HIDE DEF K
<1>5. Len(K) = n /\ \A i \in 1..n : K[i] = L[i]
  BY <1>1, <1>4
<1>6. K \in [1..n -> S]
  BY <1>4, <1>5, LenProperties
<1>7. IsLog(K)
  BY <1>1, <1>2, <1>6, EventsAreLog
<1> QED BY <1>5, <1>7 DEF K

(* The log is one, and the tables hold what it tells up to the cursor; if the cursor
   is void, what they hold is in the log. *)
HistoryInv ==
    /\ IsLog(log) /\ writes \in Nat
    /\ \/ applied = Void /\ Foretold(db, log)
       \/ applied \in 0..Len(log) /\ Tells(db, log, applied)

LEMMA TellsForetells ==
    ASSUME NEW L, NEW d, Tells(d, L, Len(L))
    PROVE  Foretold(d, L)
<1>1. \A k \in Kinds : /\ d.weights[k].good = Cardinality(CountedAs(L, Len(L), k, "true"))
                       /\ d.weights[k].bad = Cardinality(CountedAs(L, Len(L), k, "false"))
                       /\ d.weights[k].good \in Nat /\ d.weights[k].bad \in Nat
  BY CountsAreNumbers
<1> QED BY <1>1 DEF Tells, Remembers, Foretold

LEMMA SameIsKept ==
    ASSUME HistoryInv
    PROVE  Keeps(db, db)
<1>1. \A k \in Kinds : db.weights[k].good \in Nat /\ db.weights[k].bad \in Nat
  BY CountsAreNumbers DEF HistoryInv, Foretold
<1> QED BY <1>1 DEF Keeps

LEMMA LeavesTells ==
    ASSUME NEW L, NEW n, NEW d, NEW c, LeavesHistory(c, d)
    PROVE  /\ Tells(d, L, n) => Tells(c, L, n)
           /\ Foretold(d, L) => Foretold(c, L)
BY DEF LeavesHistory, SameHistory, SameKinds, Tells, Remembers, RowsOf, Foretold

(* A batch that is written. *)
LEMMA WriteKeeps ==
    ASSUME HistoryInv, NEW batch, IsLog(batch), NEW embeds, WriteAs(batch, embeds)
    PROVE  HistoryInv' /\ Keeps(db, db')
<1> DEFINE L == log \o batch
           after == Replay(db, L, Len(log), FALSE, embeds)
<1>1. IsLog(log) /\ Len(log) \in Nat /\ Len(batch) \in Nat /\ writes \in Nat
  BY LogForm DEF HistoryInv
<1>2. applied = Len(log) /\ Tells(db, log, Len(log))
  BY <1>1 DEF HistoryInv, WriteAs, Converged, Void
<1>3. log' = L /\ writes' = writes + 1
  BY DEF WriteAs
<1>4. \/ ~after.failed /\ db' = after /\ applied' = Len(log')
      \/ db' = db /\ applied' = applied
  BY DEF WriteAs
<1>5. /\ IsLog(L) /\ Len(L) = Len(log) + Len(batch)
      /\ \A i \in 1..Len(log) : L[i] = log[i]
  BY <1>1, LogGrows
<1> HIDE DEF L
<1>6. Tells(db, L, Len(log))
  BY <1>1, <1>2, <1>5, SamePrefixTells
<1>7. Len(log) \in 0..Len(L) /\ Len(L) \in Nat /\ Len(log) <= Len(L)
  BY <1>1, <1>5
<1>8. CASE ~after.failed /\ db' = after /\ applied' = Len(log')
  <2>1. Tells(after, L, Len(L))
    <3> DEFINE n == Len(log)
    <3>1. n \in 0..Len(L) /\ Tells(db, L, n) /\ after = Replay(db, L, n, FALSE, embeds)
      BY <1>6, <1>7
    <3> HIDE DEF n, after
    <3> QED BY <1>5, <1>7, <1>8, <3>1, ReplayTells
  <2> HIDE DEF after
  <2>2. Keeps(db, after)
    BY <1>1, <1>6, <1>7, <2>1, MoreIsKept
  <2>3. HistoryInv'
    BY <1>1, <1>3, <1>5, <1>7, <1>8, <2>1 DEF HistoryInv
  <2> QED BY <1>8, <2>2, <2>3
<1>9. CASE db' = db /\ applied' = applied
  <2>1. HistoryInv'
    BY <1>1, <1>2, <1>3, <1>5, <1>6, <1>7, <1>9 DEF HistoryInv
  <2> QED BY <1>9, <2>1, SameIsKept
<1> QED BY <1>4, <1>8, <1>9

-----------------------------------------------------------------------------
(* The writers.                                                            *)

LEMMA OneEventLog ==
    ASSUME NEW ev, IsEvent(ev)
    PROVE  IsLog(<<ev>>)
<1> DEFINE S == {ev}
           f == <<ev>>
           n == 1
<1>1. n \in Nat /\ f \in [1..n -> S] /\ \A x \in S : IsEvent(x)
  OBVIOUS
<1> HIDE DEF S, f, n
<1>2. IsLog(f)
  BY <1>1, EventsAreLog
<1> QED BY <1>2 DEF f

LEMMA TailOf ==
    ASSUME NEW L, IsLog(L), NEW B, IsLog(B)
    PROVE  /\ Len(L \o B) = Len(L) + Len(B) /\ Len(L) \in Nat /\ Len(B) \in Nat
           /\ \A i \in 1..Len(L) : (L \o B)[i] = L[i]
           /\ \A i \in Len(L) + 1..Len(L \o B) :
                 i - Len(L) \in 1..Len(B) /\ (L \o B)[i] = B[i - Len(L)]
<1> DEFINE S == {L[i] : i \in DOMAIN L} \cup {B[i] : i \in DOMAIN B}
<1>1. L \in Seq(S) /\ B \in Seq(S)
  <2>1. /\ {L[i] : i \in DOMAIN L} \subseteq S /\ {B[i] : i \in DOMAIN B} \subseteq S
    OBVIOUS
  <2>2. L \in Seq({L[i] : i \in DOMAIN L}) /\ B \in Seq({B[i] : i \in DOMAIN B})
    BY DEF IsLog
  <2> HIDE DEF S
  <2> QED BY <2>1, <2>2, SeqMonotonic
<1> HIDE DEF S
<1>2. /\ Len(L \o B) = Len(L) + Len(B) /\ Len(L) \in Nat /\ Len(B) \in Nat
      /\ \A i \in 1..Len(L) : (L \o B)[i] = L[i]
  BY LogGrows, LogForm
<1>3. ASSUME NEW i \in Len(L) + 1..Len(L) + Len(B)
      PROVE  i - Len(L) \in 1..Len(B) /\ (L \o B)[i] = B[i - Len(L)]
  <2>1. i - Len(L) \in 1..Len(B) /\ i \in 1..Len(L) + Len(B) /\ ~(i <= Len(L))
    BY <1>2
  <2>2. (L \o B)[i] = IF i <= Len(L) THEN L[i] ELSE B[i - Len(L)]
    BY <1>1, <2>1, ConcatProperties
  <2> QED BY <2>1, <2>2
<1> QED BY <1>2, <1>3

(* Evidence has fresh ids, what is dated is of this time and about what the batch writes,
   no verdict is given twice, who is sampled is live and who is judged was sampled.
   An upsert gives a kind, a sample is a run of its own and a test has a time. *)
FreshIds(B, w) == \A i \in DOMAIN B : B[i].op = "evidence_add" => B[i].ev[1] = w

DatedNow(B, w) ==
    \A i \in DOMAIN B : B[i].op \in DatingOps =>
        B[i].ts = w /\ \E m \in 1..i : IsUpsert(B, m, B[i].id)

Unanswered(B, d) ==
    \A i \in DOMAIN B : B[i].op = "verdicts" =>
        \A e \in DOMAIN B[i].answers : Answered(d, B[i].run, e) = {}

Auditing(B, d) ==
    \A i \in DOMAIN B :
        /\ B[i].op = "candidates" => i = 1 /\ \A e \in DOMAIN B[i].arms : LiveIn(d, e)
        /\ B[i].op = "verdicts" =>
               \A e \in DOMAIN B[i].answers : \E c \in d.candidates : c[2] = e

OwnNames(B, w) ==
    /\ \A i, j \in DOMAIN B :
          B[i].op = "evidence_add" /\ B[j].op = "evidence_add" /\ B[i].ev = B[j].ev => i = j
    /\ \A i \in DOMAIN B : /\ B[i].op = "upsert" => B[i].kind # "none"
                           /\ B[i].op = "candidates" => B[i].run = w
                           /\ B[i].op = "test" => B[i].ts # 0

Written(B, d, w) ==
    /\ IsLog(B) /\ FreshIds(B, w) /\ DatedNow(B, w) /\ OwnNames(B, w)
    /\ JudgedOnce(B) /\ Unanswered(B, d) /\ Auditing(B, d)

LEMMA SetToSeqElements ==
    ASSUME NEW S, IsFiniteSet(S)
    PROVE  /\ SetToSeq(S) \in [1..Cardinality(S) -> S] /\ Cardinality(S) \in Nat
           /\ \A i \in DOMAIN SetToSeq(S) : SetToSeq(S)[i] \in S
<1> DEFINE n == Cardinality(S)
           f == SetToSeq(S)
<1>1. n \in Nat /\ ExistsBijection(1..n, S)
  BY FS_CardinalityType
<1>2. \E g \in [1..n -> S] : IsInjective(g)
  BY <1>1 DEF ExistsBijection, Bijection, Injection
<1>3. f = CHOOSE g \in [1..n -> S] : IsInjective(g)
  BY DEF SetToSeq
<1>4. f \in [1..n -> S]
  <2> HIDE DEF f, n
  <2> QED BY <1>2, <1>3
<1>5. \A i \in DOMAIN f : f[i] \in S
  <2> HIDE DEF f, n
  <2> QED BY <1>4
<1> QED BY <1>1, <1>4, <1>5

LEMMA SetToSeqIsOnto ==
    ASSUME NEW S, IsFiniteSet(S)
    PROVE  \A x \in S : \E i \in DOMAIN SetToSeq(S) : SetToSeq(S)[i] = x
<1> DEFINE n == Cardinality(S)
           f == SetToSeq(S)
           T == {f[i] : i \in 1..n}
<1>1. n \in Nat /\ ExistsBijection(1..n, S)
  BY FS_CardinalityType
<1>2. \E g \in [1..n -> S] : IsInjective(g)
  BY <1>1 DEF ExistsBijection, Bijection, Injection
<1>3. f = CHOOSE g \in [1..n -> S] : IsInjective(g)
  BY DEF SetToSeq
<1>4. f \in [1..n -> S] /\ IsInjective(f)
  <2> HIDE DEF f, n
  <2> QED BY <1>2, <1>3
<1> HIDE DEF f
<1>5. f \in Bijection(1..n, T)
  BY <1>4 DEF Bijection, Injection, Surjection, IsInjective
<1>6. T \subseteq S
  BY <1>4
<1> HIDE DEF T
<1>7. Cardinality(T) = n
  <2>1. ExistsBijection(1..n, T)
    BY <1>5 DEF ExistsBijection
  <2>2. IsFiniteSet(T)
    BY <1>6, FS_Subset
  <2> HIDE DEF n
  <2> QED BY <1>1, <2>1, <2>2, FS_CountingElements
<1>8. T = S
  BY <1>6, <1>7, FS_Subset
<1>9. ASSUME NEW x \in S PROVE \E i \in DOMAIN f : f[i] = x
  <2>1. PICK i \in 1..n : f[i] = x
    BY <1>8 DEF T
  <2> QED BY <1>4, <2>1
<1> QED BY <1>9 DEF f

(* The batch of an add: the expiries of S, the upsert, its evidence. *)
Replaced(d) == IF d.replace THEN {e \in Entries : LiveIn(db, e) /\ db.entries[e].path = d.path}
               ELSE {}

UpsertOf(ev, d, w) ==
    /\ ev.op = "upsert" /\ ev.id = d.id /\ ev.path = d.path /\ ev.ts = w
    /\ ev.kind # "none"

CiteOf(ev, d, w) == ev.op = "evidence_add" /\ ev.id = d.id /\ ev.ev[1] = w /\ ev.ts = w

AddedAt(B, d, S, w, n) ==
    /\ n \in 1..Len(B) /\ UpsertOf(B[n], d, w)
    /\ \A i \in 1..n - 1 : B[i].op = "expire" /\ B[i].id \in S
    /\ \A e \in S : \E i \in 1..n - 1 : B[i].id = e
    /\ \A i \in n + 1..Len(B) : CiteOf(B[i], d, w)
    /\ \A i, j \in n + 1..Len(B) : B[i].ev = B[j].ev => i = j

AddBatch(B, d, S, w) == IsLog(B) /\ \E n : AddedAt(B, d, S, w, n)

LEMMA AddIsWritten ==
    ASSUME NEW B, NEW d, NEW S, NEW w, AddBatch(B, d, S, w), NEW b
    PROVE  Written(B, b, w)
<1>1. PICK n : AddedAt(B, d, S, w, n)
  BY DEF AddBatch
<1>2. IsLog(B) /\ Len(B) \in Nat /\ DOMAIN B = 1..Len(B) /\ n \in 1..Len(B)
  BY <1>1, LogForm DEF AddBatch, AddedAt
<1>3. ASSUME NEW i \in DOMAIN B
      PROVE  \/ B[i].op = "expire"
             \/ i = n /\ UpsertOf(B[i], d, w)
             \/ i > n /\ CiteOf(B[i], d, w)
  <2>1. i \in 1..n - 1 \/ i = n \/ (i > n /\ i \in n + 1..Len(B))
    BY <1>2
  <2> QED BY <1>1, <2>1 DEF AddedAt
<1>4. DatedNow(B, w)
  <2> SUFFICES ASSUME NEW i \in DOMAIN B, B[i].op \in DatingOps
               PROVE  B[i].ts = w /\ \E m \in 1..i : IsUpsert(B, m, B[i].id)
    BY DEF DatedNow
  <2>1. i >= n /\ B[i].ts = w /\ B[i].id = d.id
    BY <1>2, <1>3 DEF DatingOps, UpsertOf, CiteOf
  <2>2. n \in 1..i /\ IsUpsert(B, n, B[i].id)
    BY <1>1, <1>2, <2>1 DEF AddedAt, UpsertOf, IsUpsert
  <2> QED BY <2>1, <2>2
<1>5. FreshIds(B, w)
  BY <1>3 DEF FreshIds, UpsertOf, CiteOf
<1>6. \A i \in DOMAIN B : B[i].op # "verdicts" /\ B[i].op # "candidates"
  BY <1>3 DEF UpsertOf, CiteOf
<1>7. OwnNames(B, w)
  <2>1. ASSUME NEW i \in DOMAIN B, NEW j \in DOMAIN B, B[i].op = "evidence_add",
               B[j].op = "evidence_add", B[i].ev = B[j].ev
        PROVE  i = j
    <3>1. i > n /\ j > n
      BY <1>3, <2>1 DEF UpsertOf
    <3>2. i \in n + 1..Len(B) /\ j \in n + 1..Len(B)
      BY <1>2, <3>1
    <3> QED BY <1>1, <2>1, <3>2 DEF AddedAt
  <2>2. \A i \in DOMAIN B : /\ B[i].op = "upsert" => B[i].kind # "none"
                           /\ B[i].op # "test"
    BY <1>3 DEF UpsertOf, CiteOf
  <2> QED BY <1>6, <2>1, <2>2 DEF OwnNames
<1> QED BY <1>2, <1>4, <1>5, <1>6, <1>7 DEF Written, JudgedOnce, Unanswered, Auditing

ExpireEvents(S) == {ExpireEvent(e) : e \in S}

LEMMA ExpiresAre ==
    ASSUME NEW S \in SUBSET Entries, NEW B, B = SetToSeq(ExpireEvents(S))
    PROVE  /\ IsLog(B)
           /\ \A i \in DOMAIN B : B[i].op = "expire" /\ B[i].id \in S
           /\ \A e \in S : \E i \in DOMAIN B : B[i].id = e
<1> DEFINE T == ExpireEvents(S)
           f == [e \in S |-> ExpireEvent(e)]
           n == Cardinality(T)
<1>1. f \in Surjection(S, T)
  BY DEF Surjection, ExpireEvents
<1>2. IsFiniteSet(S)
  BY ContentAssumption, FS_Subset
<1>3. \A e \in S : ExpireEvent(e) \in T /\ ExpireEvent(e).id = e
  BY DEF ExpireEvent, ExpireEvents
<1>4. \A ev \in T : IsEvent(ev) /\ ev.op = "expire" /\ ev.id \in S
  BY DEF ExpireEvent, ExpireEvents, IsEvent
<1> HIDE DEF T, f
<1>5. IsFiniteSet(T)
  BY <1>1, <1>2, FS_Surjection
<1>6. B = SetToSeq(T)
  BY DEF T
<1>7. n \in Nat /\ B \in [1..n -> T] /\ \A i \in DOMAIN B : B[i] \in T
  BY <1>5, <1>6, SetToSeqElements
<1>8. IsLog(B)
  <2> HIDE DEF n
  <2> QED BY <1>4, <1>7, EventsAreLog
<1>9. \A x \in T : \E i \in DOMAIN B : B[i] = x
  BY <1>5, <1>6, SetToSeqIsOnto
<1>10. \A e \in S : \E i \in DOMAIN B : B[i].id = e
  <2> SUFFICES ASSUME NEW e \in S PROVE \E i \in DOMAIN B : B[i].id = e
    OBVIOUS
  <2>1. PICK i \in DOMAIN B : B[i] = ExpireEvent(e)
    BY <1>3, <1>9
  <2> QED BY <1>3, <2>1
<1>11. \A i \in DOMAIN B : B[i].op = "expire" /\ B[i].id \in S
  BY <1>4, <1>7
<1> QED BY <1>8, <1>10, <1>11

LEMMA Assembled ==
    ASSUME NEW A, IsLog(A), NEW ev, IsEvent(ev), NEW D, IsLog(D), NEW d, NEW S, NEW w,
           \A i \in DOMAIN A : A[i].op = "expire" /\ A[i].id \in S,
           \A e \in S : \E i \in DOMAIN A : A[i].id = e,
           UpsertOf(ev, d, w), \A i \in DOMAIN D : CiteOf(D[i], d, w),
           \A i, j \in DOMAIN D : D[i].ev = D[j].ev => i = j
    PROVE  AddBatch(A \o <<ev>> \o D, d, S, w)
<1> DEFINE one == <<ev>>
           P == A \o one
           B == P \o D
           n == Len(A) + 1
<1>1. IsLog(one) /\ Len(one) = 1 /\ one[1] = ev
  BY OneEventLog
<1> HIDE DEF one
<1>2. /\ IsLog(P) /\ Len(P) = n /\ Len(A) \in Nat /\ DOMAIN A = 1..Len(A)
      /\ \A i \in 1..Len(A) : P[i] = A[i]
      /\ P[n] = ev
  <2>0. /\ Len(P) = Len(A) + Len(one) /\ Len(A) \in Nat /\ IsLog(P)
        /\ \A i \in 1..Len(A) : P[i] = A[i]
        /\ \A i \in Len(A) + 1..Len(P) : P[i] = one[i - Len(A)]
    <3>1. IsLog(P)
      BY <1>1, LogGrows
    <3>2. /\ Len(P) = Len(A) + Len(one) /\ Len(A) \in Nat /\ Len(one) \in Nat
          /\ \A i \in 1..Len(A) : P[i] = A[i]
          /\ \A i \in Len(A) + 1..Len(P) : i - Len(A) \in 1..Len(one) /\ P[i] = one[i - Len(A)]
      BY <1>1, TailOf
    <3> QED BY <3>1, <3>2
  <2> HIDE DEF P
  <2>1. /\ Len(P) = Len(A) + 1 /\ Len(A) \in Nat /\ IsLog(P)
        /\ \A i \in 1..Len(A) : P[i] = A[i]
        /\ \A i \in Len(A) + 1..Len(P) : P[i] = one[i - Len(A)]
    BY <1>1, <2>0
  <2>2. n \in Len(A) + 1..Len(P) /\ n - Len(A) = 1
    BY <2>1
  <2>3. P[n] = ev
    BY <1>1, <2>1, <2>2
  <2> QED BY <2>1, <2>3, LogForm
<1> HIDE DEF P
<1>a. /\ IsLog(B) /\ Len(B) = Len(P) + Len(D) /\ Len(D) \in Nat
      /\ \A i \in 1..Len(P) : B[i] = P[i]
      /\ \A i \in Len(P) + 1..Len(B) : i - Len(P) \in 1..Len(D) /\ B[i] = D[i - Len(P)]
  <2>1. IsLog(P)
    BY <1>2
  <2>2. IsLog(B)
    BY <2>1, LogGrows
  <2>3. /\ Len(B) = Len(P) + Len(D) /\ Len(P) \in Nat /\ Len(D) \in Nat
        /\ \A i \in 1..Len(P) : B[i] = P[i]
        /\ \A i \in Len(P) + 1..Len(B) : i - Len(P) \in 1..Len(D) /\ B[i] = D[i - Len(P)]
    BY <2>1, TailOf
  <2> QED BY <2>2, <2>3
<1> HIDE DEF B
<1>3. /\ IsLog(B) /\ Len(B) = n + Len(D) /\ Len(D) \in Nat /\ DOMAIN D = 1..Len(D)
      /\ \A i \in 1..n : B[i] = P[i]
      /\ \A i \in n + 1..Len(B) : i - n \in 1..Len(D) /\ B[i] = D[i - n]
  <2> HIDE DEF n
  <2> QED BY <1>2, <1>a, LogForm
<1> HIDE DEF B
<1>4. n \in 1..Len(B) /\ n \in 1..n /\ n - 1 = Len(A) /\ \A i \in 1..Len(A) : i \in 1..n
  BY <1>2, <1>3
<1>5. B[n] = ev /\ \A i \in 1..n - 1 : B[i] = A[i]
  BY <1>2, <1>3, <1>4
<1> HIDE DEF n
<1>6. \A i \in n + 1..Len(B) : CiteOf(B[i], d, w)
  BY <1>3
<1>9. ASSUME NEW i \in n + 1..Len(B), NEW j \in n + 1..Len(B), B[i].ev = B[j].ev PROVE i = j
  <2>1. i - n \in DOMAIN D /\ j - n \in DOMAIN D /\ D[i - n].ev = D[j - n].ev
    BY <1>3, <1>9
  <2>2. i - n = j - n
    BY <2>1
  <2> QED BY <1>3, <1>4, <2>2
<1>7. AddedAt(B, d, S, w, n)
  BY <1>2, <1>4, <1>5, <1>6, <1>9 DEF AddedAt
<1>8. AddBatch(B, d, S, w)
  BY <1>3, <1>7 DEF AddBatch
<1> QED BY <1>8 DEF B, P, one

LEMMA AddWrites ==
    ASSUME NEW d, d.id \in Entries, d.kind \in Kinds, d.cites \in Nat, Add(d)
    PROVE  \E B : /\ AddBatch(B, d, Replaced(d), writes + 1)
                  /\ \E embeds : WriteAs(B, embeds)
<1> DEFINE w == writes + 1
           replaced == {e \in Entries : LiveIn(db, e) /\ db.entries[e].path = d.path}
           expires == IF d.replace THEN SetToSeq({ExpireEvent(e) : e \in replaced}) ELSE <<>>
           upsert == [op |-> "upsert", id |-> d.id, path |-> d.path, kind |-> d.kind,
                      permanent |-> d.permanent, ts |-> Now]
           add(k) == [op |-> "evidence_add", id |-> d.id, ev |-> <<Now, k>>,
                      at |-> Now, ts |-> Now]
           adds == [k \in 1..d.cites |-> add(k)]
           S == Replaced(d)
           B == expires \o <<upsert>> \o adds
<1>1. /\ IsLog(expires)
      /\ \A i \in DOMAIN expires : expires[i].op = "expire" /\ expires[i].id \in S
      /\ \A e \in S : \E i \in DOMAIN expires : expires[i].id = e
  <2>1. CASE d.replace
    <3>1. replaced \in SUBSET Entries /\ S = replaced
      BY <2>1 DEF Replaced
    <3>2. expires = SetToSeq(ExpireEvents(replaced))
      BY <2>1 DEF ExpireEvents
    <3> HIDE DEF replaced, expires, S
    <3> QED BY <3>1, <3>2, ExpiresAre
  <2>2. CASE ~d.replace
    <3>1. <<>> \in [1..0 -> {}]
      OBVIOUS
    <3>2. IsLog(<<>>) /\ Len(<<>>) = 0
      BY <3>1, EventsAreLog
    <3>3. S = {} /\ expires = <<>>
      BY <2>2 DEF Replaced
    <3> HIDE DEF replaced, expires, S
    <3>4. DOMAIN expires = 1..0 /\ IsLog(expires)
      BY <3>2, <3>3, LogForm
    <3> QED BY <3>3, <3>4
  <2> QED BY <2>1, <2>2
<1>2. IsEvent(upsert) /\ UpsertOf(upsert, d, w)
  BY DEF IsEvent, UpsertOf, Now, Kinds, Mandated
<1>6. \A i, j \in DOMAIN adds : adds[i].ev = adds[j].ev => i = j
  OBVIOUS
<1>3. IsLog(adds) /\ \A i \in DOMAIN adds : CiteOf(adds[i], d, w)
  <2> DEFINE T == {add(k) : k \in 1..d.cites}
  <2>1. adds \in [1..d.cites -> T] /\ \A i \in DOMAIN adds : adds[i] \in T
    OBVIOUS
  <2>2. ASSUME NEW k \in 1..d.cites
        PROVE  IsEvent(add(k)) /\ CiteOf(add(k), d, w)
    <3>1. add(k).op = "evidence_add" /\ add(k).id = d.id /\ add(k).ev[1] = w /\ add(k).ts = w
      BY DEF Now
    <3> HIDE DEF add, w
    <3> QED BY <3>1 DEF IsEvent, EvidenceOps, CiteOf
  <2>3. \A ev \in T : IsEvent(ev) /\ CiteOf(ev, d, w)
    <3> HIDE DEF add, w
    <3> QED BY <2>2
  <2> HIDE DEF adds, T, w
  <2>4. IsLog(adds)
    BY <2>1, <2>3, EventsAreLog
  <2> QED BY <2>1, <2>3, <2>4
<1>4. \E embeds \in Embedders : WriteAs(B, embeds)
  BY DEF Add
<1> HIDE DEF expires, upsert, adds, w, S
<1>5. AddBatch(B, d, S, w)
  BY <1>1, <1>2, <1>3, <1>6, Assembled
<1> HIDE DEF B
<1> QED BY <1>4, <1>5 DEF w, S

(* The other batches have one event. *)
Plain == {"expire", "citation_healed", "test", "run"}

LEMMA PlainIsWritten ==
    ASSUME NEW ev, IsEvent(ev), ev.op \in Plain, ev.op = "test" => ev.ts # 0, NEW d, NEW w
    PROVE  Written(<<ev>>, d, w)
<1> DEFINE B == <<ev>>
<1>1. IsLog(B)
  BY OneEventLog
<1>2. \A i \in DOMAIN B : B[i] = ev
  OBVIOUS
<1> HIDE DEF B
<1>3. /\ ev.op # "verdicts" /\ ev.op # "candidates" /\ ev.op # "evidence_add"
      /\ ev.op # "upsert" /\ ev.op \notin DatingOps
  BY DEF Plain, DatingOps
<1>4. Written(B, d, w)
  BY <1>1, <1>2, <1>3
     DEF Written, FreshIds, DatedNow, OwnNames, JudgedOnce, Unanswered, Auditing
<1> QED BY <1>4 DEF B

LEMMA WritersWrite ==
    ASSUME HistoryInv, Writers
    PROVE  \E B : Written(B, db, writes + 1) /\ \E embeds : WriteAs(B, embeds)
<1> DEFINE w == writes + 1
           Goal == \E B : Written(B, db, w) /\ \E embeds : WriteAs(B, embeds)
<1>0. writes \in Nat /\ w \in Nat
  BY DEF HistoryInv
<1>a. ASSUME NEW B, Written(B, db, w), Write(B) PROVE Goal
  BY <1>a DEF Write
<1>b. ASSUME NEW ev, IsEvent(ev), ev.op \in Plain, ev.op = "test" => ev.ts # 0, Write(<<ev>>)
      PROVE  Goal
  <2> HIDE DEF w, Goal
  <2> QED BY <1>a, <1>b, PlainIsWritten
<1>1. ASSUME NEW d \in Drafts, AddEntry(d) PROVE Goal
  <2>1. d.id \in Entries /\ d.kind \in Kinds /\ d.cites \in Nat /\ Add(d)
    BY <1>1, ContentAssumption DEF AddEntry
  <2>2. PICK B : AddBatch(B, d, Replaced(d), w) /\ \E embeds : WriteAs(B, embeds)
    BY <2>1, AddWrites
  <2> HIDE DEF w
  <2>3. Written(B, db, w)
    BY <2>2, AddIsWritten
  <2> QED BY <2>2, <2>3
<1>2. ASSUME NEW e \in Entries, NEW force, ExpireEntry(e, force) PROVE Goal
  <2> DEFINE ev == ExpireEvent(e)
  <2>1. IsEvent(ev) /\ ev.op \in Plain /\ ev.op # "test"
    BY DEF IsEvent, ExpireEvent, Plain
  <2>2. Write(<<ev>>)
    BY <1>2 DEF ExpireEntry
  <2> HIDE DEF ev
  <2> QED BY <1>b, <2>1, <2>2
<1>3. ASSUME NEW r \in db.evidence, HealCitation(r) PROVE Goal
  <2> DEFINE ev == [op |-> "citation_healed", id |-> r.owner, ev |-> r.ev, at |-> Now]
  <2>1. r.owner \in Entries
    BY DEF HistoryInv, Foretold, Tells, Shape
  <2>2. IsEvent(ev) /\ ev.op \in Plain /\ ev.op # "test"
    BY <2>1 DEF IsEvent, EvidenceOps, Plain
  <2>3. Write(<<ev>>)
    BY <1>3 DEF HealCitation
  <2> HIDE DEF ev
  <2> QED BY <1>b, <2>2, <2>3
<1>4. ASSUME NEW mode, NEW sample, NEW heated, AuditRun(mode, sample, heated) PROVE Goal
  <2>1. PICK U \in SUBSET Auditable, T \in SUBSET (Auditable \cap heated) :
             Write(<<[op |-> "candidates", run |-> Now,
                      arms |-> [e \in U \cup T |-> IF e \in U THEN "uniform" ELSE "traffic"]]>>)
    BY <1>4 DEF AuditRun
  <2> DEFINE arms == [e \in U \cup T |-> IF e \in U THEN "uniform" ELSE "traffic"]
             ev == [op |-> "candidates", run |-> Now, arms |-> arms]
             B == <<ev>>
  <2>2. DOMAIN arms \subseteq Entries /\ \A e \in DOMAIN arms : LiveIn(db, e)
    BY DEF Auditable
  <2>3. IsEvent(ev) /\ ev.op = "candidates" /\ ev.arms = arms /\ ev.run = w
    <3> HIDE DEF arms
    <3> QED BY <2>2 DEF IsEvent, Now
  <2>4. Write(B)
    BY <2>1
  <2> HIDE DEF ev, arms
  <2>5. IsLog(B)
    BY <2>3, OneEventLog
  <2>6. \A i \in DOMAIN B : i = 1 /\ B[i] = ev
    OBVIOUS
  <2> HIDE DEF B, w, Goal
  <2>7. Written(B, db, w)
    BY <2>2, <2>3, <2>5, <2>6
       DEF Written, FreshIds, DatedNow, DatingOps, OwnNames, JudgedOnce, Unanswered, Auditing
  <2> QED BY <1>a, <2>4, <2>7
<1>5. ASSUME NEW run \in Runs, NEW answers \in AnswerSheets(run), AuditRecord(run, answers)
      PROVE  Goal
  <2> DEFINE judged == {e \in DOMAIN answers : Answered(db, run, e) # {}}
             pending == DOMAIN answers \ judged
             sheet == [e \in pending |-> answers[e]]
             ev == [op |-> "verdicts", run |-> run, ts |-> Now, answers |-> sheet]
             B == <<ev>>
  <2>1. DOMAIN answers \subseteq SampledIn(run) /\ Write(B)
    BY <1>5 DEF AuditRecord
  <2>2. /\ SampledIn(run) \subseteq Entries
        /\ \A e \in SampledIn(run) : \E c \in db.candidates : c[2] = e
    <3>1. Len(log) \in Nat /\ IsLog(log)
      BY LogForm DEF HistoryInv
    <3>2. applied = Len(log)
      BY <2>1 DEF Write, WriteAs, Converged
    <3>3. db.candidates = CandidateRows(log, Len(log))
      BY <3>1, <3>2 DEF HistoryInv, Tells, Remembers, Void
    <3>4. \A i \in 1..Len(log) : log[i].op = "candidates" => DOMAIN log[i].arms \subseteq Entries
      BY <3>1, LogForm DEF IsEvent, EvidenceOps
    <3> QED BY <3>3, <3>4 DEF CandidateRows, SampledIn
  <2>3. PICK A : answers \in [A -> Answers]
    BY DEF AnswerSheets
  <2>4. /\ DOMAIN sheet \subseteq Entries /\ \A e \in DOMAIN sheet : sheet[e] \in Answers
        /\ \A e \in DOMAIN sheet : Answered(db, run, e) = {}
        /\ \A e \in DOMAIN sheet : \E c \in db.candidates : c[2] = e
    BY <2>1, <2>2, <2>3
  <2>5. /\ IsEvent(ev) /\ ev.op = "verdicts" /\ ev.run = run
        /\ \A e \in DOMAIN ev.answers : Answered(db, ev.run, e) = {}
        /\ \A e \in DOMAIN ev.answers : \E c \in db.candidates : c[2] = e
    <3> HIDE DEF sheet
    <3> QED BY <2>4 DEF IsEvent
  <2> HIDE DEF ev
  <2>6. IsLog(B)
    BY <2>5, OneEventLog
  <2>7. \A i \in DOMAIN B : i = 1 /\ B[i] = ev
    OBVIOUS
  <2> HIDE DEF B
  <2> HIDE DEF w, Goal
  <2>8. Written(B, db, w)
    BY <2>5, <2>6, <2>7
       DEF Written, FreshIds, DatedNow, DatingOps, OwnNames, JudgedOnce, Unanswered, Auditing
  <2> QED BY <1>a, <2>1, <2>8
<1>6. ASSUME NEW t \in Tests, TestAdd(t) \/ RunTest(t) PROVE Goal
  <2> DEFINE a == [op |-> "test", id |-> t, ts |-> Now]
             b == [op |-> "run", id |-> t, key |-> Now]
  <2>1. IsEvent(a) /\ a.op \in Plain /\ IsEvent(b) /\ b.op \in Plain
    BY <1>0 DEF IsEvent, Now, Plain
  <2>3. a.ts # 0 /\ b.op # "test"
    BY <1>0 DEF Now
  <2>2. Write(<<a>>) \/ Write(<<b>>)
    BY <1>6 DEF TestAdd, RunTest
  <2> HIDE DEF a, b
  <2> QED BY <1>b, <2>1, <2>2, <2>3
<1> HIDE DEF Goal
<1>7. Goal
  BY <1>1, <1>2, <1>3, <1>4, <1>5, <1>6 DEF Writers
<1> QED BY <1>7 DEF Goal

LEMMA KbStep ==
    ASSUME HistoryInv, [KbNext]_kbVars
    PROVE  \/ \E B : Written(B, db, writes + 1) /\ \E embeds : WriteAs(B, embeds)
           \/ CatchUp \/ Compact \/ Rebuild \/ Reembed \/ UNCHANGED vars
<1> DEFINE Writes == \E B : Written(B, db, writes + 1) /\ \E embeds : WriteAs(B, embeds)
<1>1. ASSUME NEW d, d.id \in Entries, d.kind \in Kinds, d.cites \in Nat, Add(d)
      PROVE  Writes
  BY <1>1, AddWrites, AddIsWritten
<1>2. ASSUME NEW p \in Bulk, AddItem(p) PROVE Writes
  <2>0. PICK e \in Entries : \E replace : Add(AtPath(e, "convention", replace))
    BY <1>2 DEF AddItem
  <2>1. PICK replace : Add(AtPath(e, "convention", replace))
    BY <2>0
  <2> DEFINE d == AtPath(e, "convention", replace)
  <2>2. d.id \in Entries /\ d.kind \in Kinds /\ d.cites \in Nat
    BY DEF AtPath, Kinds
  <2> HIDE DEF d, Writes
  <2> QED BY <1>1, <2>1, <2>2 DEF d
<1>3. ASSUME NEW p \in Bulk, DigestAdds(p) PROVE Writes
  <2>1. PICK e \in Entries : Add(AtPath(e, "memory", TRUE))
    BY <1>3 DEF DigestAdds
  <2> DEFINE d == AtPath(e, "memory", TRUE)
  <2>2. d.id \in Entries /\ d.kind \in Kinds /\ d.cites \in Nat
    BY DEF AtPath, Kinds
  <2> HIDE DEF d, Writes
  <2> QED BY <1>1, <2>1, <2>2 DEF d
<1>4. CASE WritesBetween
  BY <1>4, WritersWrite DEF WritesBetween
<1> HIDE DEF Writes
<1>5. CASE BulkNext
  <2>1. \/ UNCHANGED vars \/ \E p \in Bulk : AddItem(p) \/ DigestAdds(p)
    BY <1>5 DEF BulkNext, JobBegins, SkipItem, JobEnds, DigestBegins, DigestLooks, OpensState,
                LocksState, AdvancesState, Dies, SessionGoesOn
  <2> QED BY <1>2, <1>3, <2>1 DEF Writes
<1>6. UNCHANGED kbVars => UNCHANGED vars
  BY DEF kbVars
<1>7. (Recovers => CatchUp \/ Reembed) /\ (CompactAndSweep => Compact) /\ (RebuildWithoutPeers => Rebuild)
  BY DEF Recovers, CompactAndSweep, RebuildWithoutPeers
<1>8. KbNext => WritesBetween \/ Recovers \/ CompactAndSweep \/ RebuildWithoutPeers \/ BulkNext
                \/ UNCHANGED vars
  BY DEF KbNext
<1> QED BY <1>4, <1>5, <1>6, <1>7, <1>8 DEF Writes

-----------------------------------------------------------------------------
(* The other steps.                                                        *)

LEMMA CompactKeeps ==
    ASSUME HistoryInv, Compact
    PROVE  HistoryInv' /\ Keeps(db, db')
<1>1. Len(log) \in Nat /\ applied = Len(log)
  BY LogForm DEF HistoryInv, Compact, Converged
<1>2. Tells(db, log, Len(log)) /\ IsLog(log)
  BY <1>1 DEF HistoryInv, Void
<1>3. IsLog(Compacted(log)) /\ Foretold(db, Compacted(log)) /\ Foretold(db, log)
  BY <1>2, CompactedForetells, TellsForetells
<1>4. log' \in {log, Compacted(log)} /\ applied' = Void /\ db' = db /\ writes' = writes
  BY DEF Compact
<1>5. HistoryInv'
  BY <1>2, <1>3, <1>4 DEF HistoryInv
<1> QED BY <1>4, <1>5, SameIsKept

LEMMA CatchUpKeeps ==
    ASSUME HistoryInv, CatchUp
    PROVE  HistoryInv' /\ Keeps(db, db')
<1>1. IsLog(log) /\ Len(log) \in Nat /\ applied \in 0..Len(log) - 1 /\ applied # Void
  BY LogForm DEF HistoryInv, CatchUp, Void
<1>2. Tells(db, log, applied)
  BY <1>1 DEF HistoryInv
<1>3. PICK embeds : ~ReplayTail(db, log, applied, embeds).failed /\ db' = ReplayTail(db, log, applied, embeds)
  BY DEF CatchUp
<1>4. db' = Replay(db, log, applied, TRUE, embeds) /\ ~db'.failed
  BY <1>3 DEF ReplayTail
<1>5. Tells(db', log, Len(log))
  <2>1. applied \in 0..Len(log)
    BY <1>1
  <2> QED BY <1>1, <1>2, <1>4, <2>1, ReplayTells
<1>6. log' = log /\ applied' = Len(log) /\ writes' = writes
  BY DEF CatchUp
<1>7. HistoryInv'
  BY <1>1, <1>5, <1>6 DEF HistoryInv
<1> QED BY <1>1, <1>2, <1>5, <1>7, MoreIsKept

LEMMA MaterializeTells ==
    ASSUME NEW L, IsLog(L), NEW embeds, ~Materialize(L, embeds).failed
    PROVE  Tells(Materialize(L, embeds), L, Len(L))
<1>1. Len(L) \in Nat /\ 0 \in 0..Len(L)
  BY LogForm
<1>2. Tells(Empty, L, 0)
  BY EmptyTells
<1> DEFINE c == Materialize(L, embeds)
<1>3. c = Replay(Empty, L, 0, FALSE, embeds)
  BY DEF Materialize
<1> HIDE DEF c
<1>4. ~c.failed => Tells(c, L, Len(L))
  BY <1>1, <1>2, <1>3, ReplayTells
<1> QED BY <1>4 DEF c

LEMMA RebuildKeeps ==
    ASSUME HistoryInv, Rebuild
    PROVE  HistoryInv' /\ Keeps(db, db')
<1>1. IsLog(log) /\ Len(log) \in Nat
  BY LogForm DEF HistoryInv
<1>2. PICK embeds : ~Materialize(log, embeds).failed /\ db' = Materialize(log, embeds)
  BY DEF Rebuild
<1>3. Tells(db', log, Len(log))
  BY <1>1, <1>2, MaterializeTells
<1>4. log' = log /\ applied' = Len(log) /\ writes' = writes
  BY DEF Rebuild
<1>5. HistoryInv'
  BY <1>1, <1>3, <1>4 DEF HistoryInv
<1>6. Keeps(db, db')
  <2>1. CASE applied = Void /\ Foretold(db, log)
    BY <1>3, <2>1, ForetoldIsKept
  <2>2. CASE applied \in 0..Len(log) /\ Tells(db, log, applied)
    BY <1>1, <1>3, <2>2, MoreIsKept
  <2> QED BY <2>1, <2>2 DEF HistoryInv
<1> QED BY <1>5, <1>6

LEMMA ReembedKeeps ==
    ASSUME HistoryInv, Reembed
    PROVE  HistoryInv' /\ Keeps(db, db')
<1>1. log' = log /\ applied' = applied /\ writes' = writes
  BY DEF Reembed, ReembedSelect, ReembedEnd, ReembedWrite
<1>2. Shape(db)
  BY DEF HistoryInv, Foretold, Tells
<1>3. LeavesHistory(db', db)
  <2>1. CASE db' = db
    BY <1>2, <2>1 DEF LeavesHistory, SameHistory, SameKinds
  <2>2. ASSUME NEW w, db' = [db EXCEPT !.emb[w.id] = w.text]
        PROVE  LeavesHistory(db', db)
    <3> DEFINE v == [db.emb EXCEPT ![w.id] = w.text]
    <3>1. db' = [db EXCEPT !.emb = v]
      BY <2>2
    <3> HIDE DEF v
    <3> QED BY <1>2, <3>1, OthersForm
  <2> QED BY <2>1, <2>2 DEF Reembed, ReembedSelect, ReembedEnd, ReembedWrite
<1>4. HistoryInv'
  BY <1>1, <1>3, LeavesTells DEF HistoryInv
<1>5. SameHistory(db', db)
  BY <1>3 DEF LeavesHistory
<1> QED BY <1>4, <1>5, SameIsKept DEF SameHistory, Keeps

LEMMA HistoryInit ==
    ASSUME KbInit
    PROVE  HistoryInv
<1>1. IsLog(log) /\ Len(log) \in Nat /\ applied \in 0..Len(log) /\ writes = 0
  BY ContentAssumption, LogForm DEF KbInit, Init
<1>2. PICK embeds : db = Materialize(SubSeq(log, 1, applied), embeds) /\ ~db.failed
  BY DEF KbInit, Init
<1> DEFINE K == SubSeq(log, 1, applied)
<1>3. IsLog(K) /\ Len(K) = applied /\ \A i \in 1..applied : K[i] = log[i]
  BY <1>1, PrefixIsLog
<1> HIDE DEF K
<1>4. Tells(db, K, applied)
  BY <1>2, <1>3, MaterializeTells DEF K
<1>5. Tells(db, log, applied)
  BY <1>1, <1>3, <1>4, SamePrefixTells
<1> QED BY <1>1, <1>5 DEF HistoryInv

LEMMA HistoryNext ==
    ASSUME HistoryInv, [KbNext]_kbVars
    PROVE  HistoryInv' /\ Keeps(db, db')
<1>1. ASSUME NEW B, Written(B, db, writes + 1), NEW embeds, WriteAs(B, embeds)
      PROVE  HistoryInv' /\ Keeps(db, db')
  BY <1>1, WriteKeeps DEF Written
<1>2. CASE CatchUp \/ Compact \/ Rebuild \/ Reembed
  BY <1>2, CatchUpKeeps, CompactKeeps, RebuildKeeps, ReembedKeeps
<1>3. CASE UNCHANGED vars
  <2>1. log' = log /\ db' = db /\ applied' = applied /\ writes' = writes
    BY <1>3 DEF vars
  <2>2. HistoryInv'
    BY <2>1 DEF HistoryInv
  <2> QED BY <2>1, <2>2, SameIsKept
<1> QED BY <1>1, <1>2, <1>3, KbStep

(* No write, recovery, rebuild or compaction loses a run, a sampled candidate or a
   verdict that the tables held, or counts a verdict down, for any entries, logs and
   clients (compact.rs: D5.2, "run history"; db.rs: the ordinals of legacy runs).  *)
THEOREM HistoryIsKept == KbSpec => HistoryStands
<1>1. HistoryInv /\ [KbNext]_kbVars => [Keeps(db, db')]_vars
  BY HistoryNext
<1>2. HistoryInv /\ [KbNext]_kbVars => HistoryInv'
  BY HistoryNext
<1> QED BY <1>1, <1>2, HistoryInit, PTL DEF KbSpec, HistoryStands, Keeps

-----------------------------------------------------------------------------
(* Which entries are live after the first n events.                        *)

Alive(L, e, n) ==
    \E u \in 1..n : IsUpsert(L, u, e) /\ \A x \in u + 1..n : ~Ends(L[x], e)

LEMMA UpsertEndsNothing ==
    ASSUME NEW L, NEW u, NEW e, IsUpsert(L, u, e)
    PROVE  \A x : ~Ends(L[u], x)
BY DEF IsUpsert, Ends

LEMMA LatestEndBounds ==
    ASSUME NEW L, NEW e, NEW n \in Nat
    PROVE  LET x == LatestEnd(L, e, n)
           IN  /\ x \in Nat /\ x <= n
               /\ x = 0 \/ (x \in 1..n /\ Ends(L[x], e))
               /\ \A y \in 1..n : Ends(L[y], e) => y <= x
<1> DEFINE S == {x \in 1..n : Ends(L[x], e)} \cup {0}
<1>1. S \in SUBSET Nat /\ S # {} /\ \A x \in S : x <= n
  OBVIOUS
<1>2. LatestEnd(L, e, n) = Max(S)
  BY DEF LatestEnd
<1>3. Max(S) \in S /\ \A x \in S : x <= Max(S)
  <2> HIDE DEF S
  <2> QED BY <1>1, MaxIs
<1> QED BY <1>1, <1>2, <1>3

LEMMA LiveAtIs ==
    ASSUME NEW L, IsLog(L), NEW e, NEW n \in 0..Len(L)
    PROVE  LiveAt(L, e, n) <=> Alive(L, e, n)
<1> DEFINE U == LatestUpsert(L, e, n)
           E == LatestEnd(L, e, n)
<1>0. n \in Nat /\ Len(L) \in Nat /\ n <= Len(L)
  BY LogForm
<1>1. /\ U \in Nat /\ U <= n
      /\ U = 0 \/ U \in Upserts(L, e)
      /\ \A w \in Upserts(L, e) : w <= n => w <= U
  BY <1>0, LatestUpsertIs
<1>2. /\ E \in Nat /\ E <= n
      /\ E = 0 \/ (E \in 1..n /\ Ends(L[E], e))
      /\ \A y \in 1..n : Ends(L[y], e) => y <= E
  BY <1>0, LatestEndBounds
<1>3. LiveAt(L, e, n) <=> U > E
  BY DEF LiveAt
<1>4. \A u \in 1..n : u \in Upserts(L, e) <=> IsUpsert(L, u, e)
  BY <1>0, LogForm DEF Upserts, IsUpsert
<1> HIDE DEF U, E
<1>5. ASSUME U > E PROVE Alive(L, e, n)
  <2>1. U \in 1..n /\ IsUpsert(L, U, e)
    BY <1>0, <1>1, <1>2, <1>4, <1>5
  <2>2. \A x \in U + 1..n : ~Ends(L[x], e)
    BY <1>0, <1>1, <1>2, <1>5
  <2> QED BY <2>1, <2>2 DEF Alive
<1>6. ASSUME Alive(L, e, n) PROVE U > E
  <2>1. PICK u \in 1..n : IsUpsert(L, u, e) /\ \A x \in u + 1..n : ~Ends(L[x], e)
    BY <1>6 DEF Alive
  <2>2. u <= U
    BY <1>0, <1>1, <1>4, <2>1
  <2>3. E # u
    BY <1>2, <2>1, UpsertEndsNothing
  <2> QED BY <1>0, <1>1, <1>2, <2>1, <2>2, <2>3
<1> QED BY <1>3, <1>5, <1>6

LEMMA AliveNext ==
    ASSUME NEW L, NEW n \in Nat, NEW e
    PROVE  /\ IsUpsert(L, n + 1, e) => Alive(L, e, n + 1)
           /\ Ends(L[n + 1], e) => ~Alive(L, e, n + 1)
           /\ ~IsUpsert(L, n + 1, e) /\ ~Ends(L[n + 1], e)
                  => (Alive(L, e, n + 1) <=> Alive(L, e, n))
<1>1. ASSUME IsUpsert(L, n + 1, e) PROVE Alive(L, e, n + 1)
  <2>1. n + 1 \in 1..n + 1 /\ (n + 1) + 1..n + 1 = {}
    OBVIOUS
  <2> QED BY <1>1, <2>1 DEF Alive
<1>2. ASSUME Ends(L[n + 1], e), Alive(L, e, n + 1) PROVE FALSE
  <2>1. PICK u \in 1..n + 1 : IsUpsert(L, u, e) /\ \A x \in u + 1..n + 1 : ~Ends(L[x], e)
    BY <1>2 DEF Alive
  <2>2. u = n + 1
    BY <1>2, <2>1
  <2> QED BY <1>2, <2>1, <2>2, UpsertEndsNothing
<1>3. ASSUME ~IsUpsert(L, n + 1, e), ~Ends(L[n + 1], e), Alive(L, e, n + 1)
      PROVE  Alive(L, e, n)
  <2>1. PICK u \in 1..n + 1 : IsUpsert(L, u, e) /\ \A x \in u + 1..n + 1 : ~Ends(L[x], e)
    BY <1>3 DEF Alive
  <2>2. u \in 1..n /\ u + 1..n \subseteq u + 1..n + 1
    BY <1>3, <2>1
  <2> QED BY <2>1, <2>2 DEF Alive
<1>4. ASSUME ~IsUpsert(L, n + 1, e), ~Ends(L[n + 1], e), Alive(L, e, n)
      PROVE  Alive(L, e, n + 1)
  <2>1. PICK u \in 1..n : IsUpsert(L, u, e) /\ \A x \in u + 1..n : ~Ends(L[x], e)
    BY <1>4 DEF Alive
  <2>2. u \in 1..n + 1 /\ \A x \in u + 1..n + 1 : x \in u + 1..n \/ x = n + 1
    OBVIOUS
  <2>3. \A x \in u + 1..n + 1 : ~Ends(L[x], e)
    BY <1>4, <2>1, <2>2
  <2> QED BY <2>1, <2>2, <2>3 DEF Alive
<1> QED BY <1>1, <1>2, <1>3, <1>4

-----------------------------------------------------------------------------
(* Who holds which evidence after each event.                              *)

OwnersNext(L, i, own) ==
    LET ev == L[i]
    IN CASE ev.op = "evidence_add" ->
               IF LiveAt(L, ev.id, i - 1) /\ \A p \in own : p[1] # ev.ev
               THEN own \cup {<<ev.ev, ev.id>>} ELSE own
         [] ev.op = "evidence_expire" ->
               IF LiveAt(L, ev.id, i - 1) THEN own \ {<<ev.ev, ev.id>>} ELSE own
         [] OTHER -> {p \in own : ~Ends(ev, p[2])}

Owning(f, L, n) ==
    /\ f = [i \in 0..n |-> f[i]]
    /\ \A i \in 0..n : f[i] = IF i = 0 THEN {} ELSE OwnersNext(L, i, f[i - 1])

LEMMA OwningIs ==
    ASSUME NEW L, NEW n \in Nat
    PROVE  \E f : Owning(f, L, n)
<1> DEFINE S == {k \in 0..n : \E f : Owning(f, L, k)}
<1>1. 0 \in S
  <2>1. Owning([i \in 0..0 |-> {}], L, 0)
    BY DEF Owning
  <2> QED BY <2>1
<1>2. ASSUME NEW k \in 0..n - 1, k \in S PROVE k + 1 \in S
  <2>1. PICK f : Owning(f, L, k)
    BY <1>2
  <2> DEFINE last == OwnersNext(L, k + 1, f[k])
             g == [i \in 0..k + 1 |-> IF i <= k THEN f[i] ELSE last]
  <2>2. \A i \in 0..k : f[i] = IF i = 0 THEN {} ELSE OwnersNext(L, i, f[i - 1])
    BY <2>1 DEF Owning
  <2>3. /\ \A i \in 0..k : g[i] = f[i]
        /\ g[k + 1] = last
        /\ g = [i \in 0..k + 1 |-> g[i]]
    OBVIOUS
  <2> HIDE DEF g
  <2>4. ASSUME NEW i \in 0..k + 1
        PROVE  g[i] = IF i = 0 THEN {} ELSE OwnersNext(L, i, g[i - 1])
    <3>1. CASE i = k + 1
      <4>1. i # 0 /\ i - 1 = k /\ k \in 0..k
        BY <3>1
      <4> QED BY <2>3, <3>1, <4>1
    <3>2. CASE i \in 1..k
      <4>1. i \in 0..k /\ i - 1 \in 0..k /\ i # 0
        BY <3>2
      <4>2. g[i] = f[i] /\ g[i - 1] = f[i - 1]
        BY <2>3, <4>1
      <4> QED BY <2>2, <4>1, <4>2
    <3>3. CASE i = 0
      <4>1. 0 \in 0..k
        OBVIOUS
      <4> QED BY <2>2, <2>3, <3>3, <4>1
    <3> QED BY <3>1, <3>2, <3>3
  <2>5. Owning(g, L, k + 1)
    BY <2>3, <2>4 DEF Owning
  <2>6. k + 1 \in 0..n
    OBVIOUS
  <2> QED BY <2>5, <2>6
<1> HIDE DEF S
<1>3. n \in S
  BY <1>1, <1>2, Upwards
<1> QED BY <1>3 DEF S

LEMMA OwnersIs ==
    ASSUME NEW L, Len(L) \in Nat
    PROVE  /\ Owners(L)[0] = {}
           /\ \A i \in 1..Len(L) : Owners(L)[i] = OwnersNext(L, i, Owners(L)[i - 1])
<1> DEFINE F(f) == [i \in 0..Len(L) |-> IF i = 0 THEN {} ELSE OwnersNext(L, i, f[i - 1])]
           own == CHOOSE f : f = F(f)
<1>1. PICK g : Owning(g, L, Len(L))
  BY OwningIs
<1>2. g = F(g)
  BY <1>1 DEF Owning
<1>3. own = F(own)
  BY <1>2
<1>4. Owners(L) = own
  BY DEF Owners, OwnersNext
<1> HIDE DEF own
<1>5. \A i \in 0..Len(L) : own[i] = IF i = 0 THEN {} ELSE OwnersNext(L, i, own[i - 1])
  BY <1>3
<1> QED BY <1>4, <1>5

-----------------------------------------------------------------------------
(* What an event leaves of the evidence and of what is live.               *)

LEMMA OneTable ==
    ASSUME NEW d, Shape(d), NEW x
    PROVE  /\ [d EXCEPT !.entries = x].evidence = d.evidence
           /\ [d EXCEPT !.entries = x].entries = x
           /\ [d EXCEPT !.entries = x].emb = d.emb
           /\ [d EXCEPT !.evidence = x].evidence = x
           /\ [d EXCEPT !.evidence = x].entries = d.entries
           /\ [d EXCEPT !.evidence = x].emb = d.emb
           /\ [d EXCEPT !.emb = x].evidence = d.evidence
           /\ [d EXCEPT !.emb = x].entries = d.entries
           /\ [d EXCEPT !.emb = x].emb = x
BY DEF Shape

LEMMA OtherTables ==
    ASSUME NEW d, Shape(d), NEW x
    PROVE  \A c \in {[d EXCEPT !.candidates = x], [d EXCEPT !.verdicts = x],
                     [d EXCEPT !.weights = x], [d EXCEPT !.tests = x],
                     [d EXCEPT !.runs = x], [d EXCEPT !.failed = x]} :
               c.evidence = d.evidence /\ c.entries = d.entries /\ c.emb = d.emb
BY DEF Shape

(* Of the row r, all but its status and the time of its last update is that of q. *)
SameRow(r, q) ==
    r.live = q.live /\ r.row = q.row /\ r.path = q.path /\ r.text = q.text

LEMMA StatusForm ==
    ASSUME NEW d, Shape(d), NEW e \in Entries, d.entries[e].row = TRUE
    PROVE  LET c == WithStatus(d, e)
           IN  /\ c.evidence = d.evidence /\ c.emb = d.emb
               /\ \A x \in Entries : x # e => c.entries[x] = d.entries[x]
               /\ SameRow(c.entries[e], d.entries[e])
               /\ c.entries[e].updated = d.entries[e].updated
<1> DEFINE s == EvidenceStatus(d, e)
           t == [d.entries EXCEPT ![e].status = s]
           c == [d EXCEPT !.entries = t]
<1>1. WithStatus(d, e) = c
  BY DEF WithStatus
<1>2. EntryForm(d.entries[e])
  BY DEF Shape, Absent
<1> HIDE DEF s
<1>3. /\ \A x \in Entries : x # e => t[x] = d.entries[x]
      /\ t[e] = [d.entries[e] EXCEPT !.status = s]
  BY DEF Shape
<1> HIDE DEF t
<1>4. SameRow(t[e], d.entries[e]) /\ t[e].updated = d.entries[e].updated
  BY <1>2, <1>3 DEF EntryForm, SameRow
<1>5. c.evidence = d.evidence /\ c.emb = d.emb /\ c.entries = t
  BY OneTable
<1> HIDE DEF c
<1> QED BY <1>1, <1>3, <1>4, <1>5

Touched(d, e, ts) == [d EXCEPT !.entries[e].updated = ts]

LEMMA TouchForm ==
    ASSUME NEW d, Shape(d), NEW e \in Entries, NEW ts, NEW c, c = Touched(d, e, ts),
           EntryForm(d.entries[e])
    PROVE  /\ c.evidence = d.evidence /\ c.emb = d.emb
           /\ \A x \in Entries : x # e => c.entries[x] = d.entries[x]
           /\ SameRow(c.entries[e], d.entries[e])
           /\ c.entries[e].updated = ts
<1> DEFINE t == [d.entries EXCEPT ![e].updated = ts]
<1>1. c = [d EXCEPT !.entries = t]
  BY DEF Touched
<1>3. /\ \A x \in Entries : x # e => t[x] = d.entries[x]
      /\ t[e] = [d.entries[e] EXCEPT !.updated = ts]
  BY DEF Shape
<1> HIDE DEF t
<1>4. SameRow(t[e], d.entries[e]) /\ t[e].updated = ts
  BY <1>3 DEF EntryForm, SameRow
<1>5. c.evidence = d.evidence /\ c.emb = d.emb /\ c.entries = t
  BY <1>1, OneTable
<1> QED BY <1>3, <1>4, <1>5

VectorTable(v) == v = [e \in Entries |-> v[e]]

LEMMA ExpiredForm ==
    ASSUME NEW d, Shape(d), NEW ended, NEW ts, NEW c, c = Expired(d, ended, ts)
    PROVE  /\ c.evidence = {r \in d.evidence : r.owner \notin ended}
           /\ VectorTable(c.emb)
           /\ \A e \in Entries : c.emb[e] = IF e \in ended THEN NoVector ELSE d.emb[e]
           /\ \A e \in Entries : e \notin ended => c.entries[e] = d.entries[e]
           /\ \A e \in ended \cap Entries : ~LiveIn(c, e)
<1> DEFINE x == {r \in d.evidence : r.owner \notin ended}
           v == [e \in Entries |-> IF e \in ended THEN NoVector ELSE d.emb[e]]
           t == [e \in Entries |->
                    IF e \in ended /\ d.entries[e].row
                    THEN [d.entries[e] EXCEPT !.live = FALSE, !.status = "n/a", !.updated = ts]
                    ELSE d.entries[e]]
           a == [d EXCEPT !.evidence = x]
           b == [a EXCEPT !.emb = v]
           z == [b EXCEPT !.entries = t]
<1>1. c = z
  BY DEF Expired, Shape
<1>2. LeavesHistory(a, d)
  BY EvidenceForm DEF Shape
<1>3. a.evidence = x /\ a.emb = d.emb
  BY OneTable
<1>4. ASSUME NEW e \in ended \cap Entries PROVE ~t[e].live
  <2>1. CASE d.entries[e].row
    <3>1. EntryForm(d.entries[e])
      BY <2>1 DEF Shape, Absent
    <3> HIDE DEF a, b, z, x, v
    <3>2. t[e] = [d.entries[e] EXCEPT !.live = FALSE, !.status = "n/a", !.updated = ts]
      BY <2>1
    <3> HIDE DEF t
    <3> QED BY <3>1, <3>2 DEF EntryForm
  <2>2. CASE ~d.entries[e].row
    <3>1. d.entries[e] = Absent
      BY <2>2 DEF Shape, EntryForm
    <3> QED BY <2>2, <3>1 DEF Absent
  <2> QED BY <2>1, <2>2
<1>5. \A e \in Entries : e \notin ended => t[e] = d.entries[e]
  OBVIOUS
<1> HIDE DEF a, x, v, t
<1>6. Shape(a)
  BY <1>2 DEF LeavesHistory
<1>7. LeavesHistory(b, a) /\ b.evidence = x /\ b.emb = v
  <2>1. LeavesHistory(b, a)
    BY <1>6, OthersForm
  <2>2. b.evidence = a.evidence /\ b.emb = v
    BY <1>6, OneTable
  <2> QED BY <1>3, <2>1, <2>2
<1> HIDE DEF b
<1>8. z.evidence = x /\ z.emb = v /\ z.entries = t
  BY <1>7, OneTable DEF LeavesHistory
<1> HIDE DEF z
<1>9. \A e \in ended \cap Entries : ~LiveIn(c, e)
  BY <1>1, <1>4, <1>8 DEF LiveIn
<1>10. \A e \in Entries : v[e] = IF e \in ended THEN NoVector ELSE d.emb[e]
  BY DEF v
<1>11. VectorTable(v)
  BY DEF v, VectorTable
<1> QED BY <1>1, <1>5, <1>8, <1>9, <1>10, <1>11 DEF x

Embedded(d, ev, embeds) == [d.emb EXCEPT ![ev.id] = IF embeds THEN ev.ts ELSE @]

RowOf(r, ev) == r.live = TRUE /\ r.path = ev.path /\ r.text = ev.ts /\ r.updated = ev.ts

OtherRows(c, d, e) == \A x \in Entries : x # e => c.entries[x] = d.entries[x]

LEMMA UpsertRow ==
    ASSUME NEW d, Shape(d), NEW ev, IsEvent(ev), ev.op = "upsert", NEW embeds,
           NEW c, c = ApplyUpsert(d, ev, embeds)
    PROVE  /\ c.evidence = d.evidence
           /\ c.emb = Embedded(d, ev, embeds)
           /\ OtherRows(c, d, ev.id) /\ RowOf(c.entries[ev.id], ev)
<1> DEFINE e == ev.id
           old == d.entries[e]
           row == [live |-> TRUE, row |-> TRUE, path |-> ev.path,
                   permanent |-> ev.permanent, updated |-> ev.ts, text |-> ev.ts,
                   kind |-> IF ev.kind = "none" THEN "belief" ELSE ev.kind,
                   status |-> IF old.row THEN old.status ELSE "n/a"]
           v == [d.emb EXCEPT ![e] = IF embeds THEN ev.ts ELSE @]
           t == [d.entries EXCEPT ![e] = row]
           mid == [d EXCEPT !.entries = t]
           put == [mid EXCEPT !.emb = v]
<1>1. e \in Entries /\ row.kind \in Kinds /\ row.text = ev.ts
  BY DEF IsEvent, Kinds, Mandated, EvidenceOps
<1>2. /\ EntryForm(row) /\ row.row = TRUE /\ row.live = TRUE /\ row.path = ev.path
      /\ row.text = ev.ts /\ row.updated = ev.ts
  BY <1>1 DEF EntryForm
<1>3. ApplyUpsert(d, ev, embeds) = IF ev.kind = "none" THEN put ELSE WithStatus(put, e)
  <2>1. [d EXCEPT !.entries[e] = row, !.emb[e] = IF embeds THEN row.text ELSE @]
            = [mid EXCEPT !.emb = [mid.emb EXCEPT ![e] = IF embeds THEN row.text ELSE @]]
    BY DEF t
  <2>2. mid.emb = d.emb
    BY OneTable
  <2>3. row.text = ev.ts
    BY <1>2
  <2> HIDE DEF mid, row
  <2>4. [d EXCEPT !.entries[e] = row, !.emb[e] = IF embeds THEN row.text ELSE @] = put
    BY <2>1, <2>2, <2>3
  <2> HIDE DEF put
  <2> QED BY <2>4 DEF ApplyUpsert, row
<1>0. v = Embedded(d, ev, embeds)
  BY DEF Embedded
<1> HIDE DEF row
<1>4. /\ t = [x \in Entries |-> t[x]] /\ t[e] = row
      /\ \A x \in Entries : x # e => t[x] = d.entries[x]
  BY <1>1 DEF Shape
<1> HIDE DEF t
<1>5. mid.evidence = d.evidence /\ mid.entries = t /\ mid.emb = d.emb
  BY OneTable
<1>6. Shape(mid)
  <2>1. mid = [entries |-> t, evidence |-> d.evidence, candidates |-> d.candidates,
               verdicts |-> d.verdicts, weights |-> d.weights, tests |-> d.tests,
               runs |-> d.runs, emb |-> d.emb, failed |-> d.failed]
    BY DEF Shape
  <2> HIDE DEF mid
  <2> QED BY <1>2, <1>4, <2>1 DEF Shape
<1> HIDE DEF mid, v
<1>7. LeavesHistory(put, mid)
  BY <1>6, OthersForm
<1>8. put.evidence = mid.evidence /\ put.entries = mid.entries /\ put.emb = v
  BY <1>6, OneTable
<1> HIDE DEF put
<1>9. Shape(put) /\ put.entries = t /\ put.evidence = d.evidence /\ put.emb = v
  BY <1>5, <1>7, <1>8 DEF LeavesHistory
<1>10. CASE ev.kind = "none"
  <2>1. c = put
    BY <1>3, <1>10
  <2> HIDE DEF e, v
  <2> QED BY <1>0, <1>2, <1>4, <1>9, <2>1 DEF e, OtherRows, RowOf
<1>11. CASE ev.kind # "none"
  <2> DEFINE z == WithStatus(put, e)
  <2>1. c = z
    BY <1>3, <1>11
  <2>2. put.entries[e].row = TRUE
    BY <1>2, <1>4, <1>9
  <2>3. /\ z.evidence = put.evidence /\ z.emb = put.emb
        /\ \A x \in Entries : x # e => z.entries[x] = put.entries[x]
        /\ SameRow(z.entries[e], put.entries[e])
        /\ z.entries[e].updated = put.entries[e].updated
    BY <1>1, <1>9, <2>2, StatusForm
  <2> HIDE DEF z, v
  <2>4. /\ c.evidence = d.evidence /\ c.emb = v
        /\ \A x \in Entries : x # e => c.entries[x] = d.entries[x]
        /\ c.entries[e].live = TRUE /\ c.entries[e].path = ev.path
        /\ c.entries[e].text = ev.ts /\ c.entries[e].updated = ev.ts
    BY <1>2, <1>4, <1>9, <2>1, <2>3 DEF SameRow
  <2> QED BY <1>0, <2>4 DEF OtherRows, RowOf
<1> QED BY <1>10, <1>11

(* What a status or a time of update leaves is the same. *)
LEMMA EvidenceAddForm ==
    ASSUME NEW d, Shape(d), NEW ev, ev.id \in Entries
    PROVE  LET c == ApplyEvidenceAdd(d, ev)
           IN  /\ ~LiveIn(d, ev.id) => c = d
               /\ LiveIn(d, ev.id) =>
                     /\ c.evidence = d.evidence \cup
                            IF \E r \in d.evidence : r.ev = ev.ev THEN {}
                            ELSE {[ev |-> ev.ev, owner |-> ev.id, at |-> ev.at]}
                     /\ c.entries[ev.id].updated = ev.ts
               /\ c.emb = d.emb
               /\ \A x \in Entries : x # ev.id => c.entries[x] = d.entries[x]
               /\ SameRow(c.entries[ev.id], d.entries[ev.id])
<1> DEFINE taken == \E r \in d.evidence : r.ev = ev.ev
           new == IF taken THEN {} ELSE {[ev |-> ev.ev, owner |-> ev.id, at |-> ev.at]}
           rows == d.evidence \cup new
           mid == [d EXCEPT !.evidence = rows]
           put == Touched(mid, ev.id, ev.ts)
           c == WithStatus(put, ev.id)
<1>1. CASE ~LiveIn(d, ev.id)
  BY <1>1 DEF ApplyEvidenceAdd, SameRow
<1>2. CASE LiveIn(d, ev.id)
  <2>1. d.entries[ev.id].row = TRUE
    BY <1>2, LiveHasRow
  <2>2. ApplyEvidenceAdd(d, ev) = c
    BY <1>2 DEF ApplyEvidenceAdd, Touched
  <2>3. \A r \in rows : /\ r.owner \in Entries
                         /\ r = [ev |-> r.ev, owner |-> r.owner, at |-> r.at]
    BY DEF Shape
  <2>0. rows = d.evidence \cup IF \E r \in d.evidence : r.ev = ev.ev THEN {}
                               ELSE {[ev |-> ev.ev, owner |-> ev.id, at |-> ev.at]}
    OBVIOUS
  <2> HIDE DEF rows
  <2>4. LeavesHistory(mid, d) /\ mid.entries = d.entries
    BY <2>3, EvidenceForm
  <2>5. mid.evidence = rows /\ mid.emb = d.emb
    BY OneTable
  <2> HIDE DEF mid
  <2>6. LeavesHistory(put, mid)
    BY <2>1, <2>4, TouchLeaves DEF LeavesHistory, Touched
  <2>7. /\ put.evidence = mid.evidence /\ put.emb = mid.emb
        /\ \A x \in Entries : x # ev.id => put.entries[x] = mid.entries[x]
        /\ SameRow(put.entries[ev.id], mid.entries[ev.id])
        /\ put.entries[ev.id].updated = ev.ts
    <3>1. Shape(mid) /\ EntryForm(mid.entries[ev.id])
      BY <2>1, <2>4 DEF LeavesHistory, Shape, Absent
    <3>2. put = Touched(mid, ev.id, ev.ts)
      OBVIOUS
    <3> HIDE DEF put
    <3> QED BY <3>1, <3>2, TouchForm
  <2> HIDE DEF put
  <2>8. put.entries[ev.id].row = TRUE /\ Shape(put)
    BY <2>1, <2>4, <2>6 DEF LeavesHistory, SameKinds
  <2>9. /\ c.evidence = put.evidence /\ c.emb = put.emb
        /\ \A x \in Entries : x # ev.id => c.entries[x] = put.entries[x]
        /\ SameRow(c.entries[ev.id], put.entries[ev.id])
        /\ c.entries[ev.id].updated = put.entries[ev.id].updated
    BY <2>8, StatusForm
  <2> HIDE DEF c
  <2>10. /\ c.evidence = rows /\ c.emb = d.emb /\ c.entries[ev.id].updated = ev.ts
         /\ \A x \in Entries : x # ev.id => c.entries[x] = d.entries[x]
         /\ SameRow(c.entries[ev.id], d.entries[ev.id])
    BY <2>4, <2>5, <2>7, <2>9 DEF SameRow
  <2> QED BY <1>2, <2>0, <2>2, <2>10
<1> QED BY <1>1, <1>2

LEMMA EvidenceExpireForm ==
    ASSUME NEW d, Shape(d), NEW ev, ev.id \in Entries
    PROVE  LET c == ApplyEvidenceExpire(d, ev)
           IN  /\ ~LiveIn(d, ev.id) => c = d
               /\ LiveIn(d, ev.id) =>
                     /\ c.evidence = {r \in d.evidence : ~(r.ev = ev.ev /\ r.owner = ev.id)}
                     /\ c.entries[ev.id].updated = ev.ts
               /\ c.emb = d.emb
               /\ \A x \in Entries : x # ev.id => c.entries[x] = d.entries[x]
               /\ SameRow(c.entries[ev.id], d.entries[ev.id])
<1> DEFINE rows == {r \in d.evidence : ~(r.ev = ev.ev /\ r.owner = ev.id)}
           mid == [d EXCEPT !.evidence = rows]
           put == Touched(mid, ev.id, ev.ts)
           c == WithStatus(put, ev.id)
<1>1. CASE ~LiveIn(d, ev.id)
  BY <1>1 DEF ApplyEvidenceExpire, SameRow
<1>2. CASE LiveIn(d, ev.id)
  <2>1. d.entries[ev.id].row = TRUE
    BY <1>2, LiveHasRow
  <2>2. ApplyEvidenceExpire(d, ev) = c
    BY <1>2 DEF ApplyEvidenceExpire, Touched
  <2>3. \A r \in rows : /\ r.owner \in Entries
                         /\ r = [ev |-> r.ev, owner |-> r.owner, at |-> r.at]
    BY DEF Shape
  <2>0. rows = {r \in d.evidence : ~(r.ev = ev.ev /\ r.owner = ev.id)}
    OBVIOUS
  <2> HIDE DEF rows
  <2>4. LeavesHistory(mid, d) /\ mid.entries = d.entries
    BY <2>3, EvidenceForm
  <2>5. mid.evidence = rows /\ mid.emb = d.emb
    BY OneTable
  <2> HIDE DEF mid
  <2>6. LeavesHistory(put, mid)
    BY <2>1, <2>4, TouchLeaves DEF LeavesHistory, Touched
  <2>7. /\ put.evidence = mid.evidence /\ put.emb = mid.emb
        /\ \A x \in Entries : x # ev.id => put.entries[x] = mid.entries[x]
        /\ SameRow(put.entries[ev.id], mid.entries[ev.id])
        /\ put.entries[ev.id].updated = ev.ts
    <3>1. Shape(mid) /\ EntryForm(mid.entries[ev.id])
      BY <2>1, <2>4 DEF LeavesHistory, Shape, Absent
    <3>2. put = Touched(mid, ev.id, ev.ts)
      OBVIOUS
    <3> HIDE DEF put
    <3> QED BY <3>1, <3>2, TouchForm
  <2> HIDE DEF put
  <2>8. put.entries[ev.id].row = TRUE /\ Shape(put)
    BY <2>1, <2>4, <2>6 DEF LeavesHistory, SameKinds
  <2>9. /\ c.evidence = put.evidence /\ c.emb = put.emb
        /\ \A x \in Entries : x # ev.id => c.entries[x] = put.entries[x]
        /\ SameRow(c.entries[ev.id], put.entries[ev.id])
        /\ c.entries[ev.id].updated = put.entries[ev.id].updated
    BY <2>8, StatusForm
  <2> HIDE DEF c
  <2>10. /\ c.evidence = rows /\ c.emb = d.emb /\ c.entries[ev.id].updated = ev.ts
         /\ \A x \in Entries : x # ev.id => c.entries[x] = d.entries[x]
         /\ SameRow(c.entries[ev.id], d.entries[ev.id])
    BY <2>4, <2>5, <2>7, <2>9 DEF SameRow
  <2> QED BY <1>2, <2>0, <2>2, <2>10
<1> QED BY <1>1, <1>2

-----------------------------------------------------------------------------
(* A replay holds the evidence that the log says is held, and has the entries
   live that the log says are.                                             *)

Cited(d) == {<<r.ev, r.owner>> : r \in d.evidence}

Says(d, L, n) ==
    /\ Cited(d) = Owners(L)[n]
    /\ \A e \in Entries : LiveIn(d, e) <=> Alive(L, e, n)

LEMMA Settled ==
    ASSUME NEW L, IsLog(L), NEW n \in Nat, n + 1 \in 1..Len(L), NEW d, Says(d, L, n), NEW c,
           L[n + 1].op \notin {"evidence_add", "evidence_expire"},
           Cited(c) = {p \in Cited(d) : ~Ends(L[n + 1], p[2])},
           \A e \in Entries : LiveIn(c, e) <=> \/ IsUpsert(L, n + 1, e)
                                               \/ ~Ends(L[n + 1], e) /\ LiveIn(d, e)
    PROVE  Says(c, L, n + 1)
<1>1. Owners(L)[n + 1] = OwnersNext(L, n + 1, Owners(L)[n])
  <2>1. Len(L) \in Nat /\ (n + 1) - 1 = n
    BY LogForm
  <2> QED BY <2>1, OwnersIs
<1>2. OwnersNext(L, n + 1, Owners(L)[n]) = {p \in Owners(L)[n] : ~Ends(L[n + 1], p[2])}
  BY DEF OwnersNext
<1>3. ASSUME NEW e \in Entries PROVE LiveIn(c, e) <=> Alive(L, e, n + 1)
  <2>1. IsUpsert(L, n + 1, e) => ~Ends(L[n + 1], e)
    BY UpsertEndsNothing
  <2>2. LiveIn(d, e) <=> Alive(L, e, n)
    BY DEF Says
  <2> QED BY <2>1, <2>2, AliveNext
<1> QED BY <1>1, <1>2, <1>3 DEF Says

(* An event of another kind than those of entries and evidence. *)
LEMMA OthersSettle ==
    ASSUME NEW L, IsLog(L), NEW n \in Nat, n + 1 \in 1..Len(L), NEW d, Says(d, L, n), NEW c,
           L[n + 1].op \in {"citation_healed", "candidates", "test", "run"},
           Cited(c) = Cited(d), c.entries = d.entries
    PROVE  Says(c, L, n + 1)
<1>1. \A e : ~Ends(L[n + 1], e) /\ ~IsUpsert(L, n + 1, e)
  BY DEF Ends, IsUpsert
<1>2. \A e : LiveIn(c, e) <=> LiveIn(d, e)
  BY DEF LiveIn
<1>3. {p \in Cited(d) : ~Ends(L[n + 1], p[2])} = Cited(d)
  BY <1>1
<1> QED BY <1>1, <1>2, <1>3, Settled

LEMMA UpsertSays ==
    ASSUME NEW L, IsLog(L), NEW n \in Nat, n + 1 \in 1..Len(L), NEW d, Shape(d), Says(d, L, n),
           L[n + 1].op = "upsert", NEW embeds, NEW c, c = ApplyUpsert(d, L[n + 1], embeds)
    PROVE  Says(c, L, n + 1)
<1> DEFINE ev == L[n + 1]
<1>1. IsEvent(ev)
  BY LogForm
<1>2. /\ c.evidence = d.evidence
      /\ OtherRows(c, d, ev.id) /\ RowOf(c.entries[ev.id], ev)
  <2>1. ev.op = "upsert" /\ c = ApplyUpsert(d, ev, embeds)
    OBVIOUS
  <2> HIDE DEF ev
  <2> QED BY <1>1, <2>1, UpsertRow
<1>3. \A e : ~Ends(ev, e)
  BY DEF Ends
<1>4. {p \in Cited(d) : ~Ends(ev, p[2])} = Cited(d)
  BY <1>3
<1>5. Cited(c) = Cited(d)
  BY <1>2 DEF Cited
<1>6. \A e \in Entries : LiveIn(c, e) <=> IsUpsert(L, n + 1, e) \/ (~Ends(ev, e) /\ LiveIn(d, e))
  BY <1>2, <1>3 DEF LiveIn, IsUpsert, OtherRows, RowOf
<1>7. Cited(c) = {p \in Cited(d) : ~Ends(ev, p[2])}
  BY <1>4, <1>5
<1> QED BY <1>6, <1>7, Settled

(* What is expired is no longer live, and its evidence is gone. *)
LEMMA ExpiredSays ==
    ASSUME NEW L, IsLog(L), NEW n \in Nat, n + 1 \in 1..Len(L), NEW d, Shape(d), Says(d, L, n),
           L[n + 1].op \in {"expire", "verdicts"}, NEW ended, \A e : e \in ended <=> Ends(L[n + 1], e),
           NEW b, Shape(b), b.evidence = d.evidence, b.entries = d.entries,
           NEW ts, NEW c, c = Expired(b, ended, ts)
    PROVE  Says(c, L, n + 1)
<1>1. /\ c.evidence = {r \in b.evidence : r.owner \notin ended}
      /\ \A e \in Entries : e \notin ended => c.entries[e] = b.entries[e]
      /\ \A e \in ended \cap Entries : ~LiveIn(c, e)
  BY ExpiredForm
<1>2. \A e : ~IsUpsert(L, n + 1, e)
  BY DEF IsUpsert
<1>3. \A e \in Entries : LiveIn(c, e) <=> ~Ends(L[n + 1], e) /\ LiveIn(d, e)
  BY <1>1 DEF LiveIn
<1>4. Cited(c) = {p \in Cited(d) : ~Ends(L[n + 1], p[2])}
  <2>1. \A p : p \in Cited(c) <=> \E r \in d.evidence : r.owner \notin ended /\ p = <<r.ev, r.owner>>
    BY <1>1 DEF Cited
  <2>2. \A p : p \in Cited(d) <=> \E r \in d.evidence : p = <<r.ev, r.owner>>
    BY DEF Cited
  <2> QED BY <2>1, <2>2
<1> QED BY <1>2, <1>3, <1>4, Settled

LEMMA EvidenceAddSays ==
    ASSUME NEW L, IsLog(L), NEW n \in Nat, n + 1 \in 1..Len(L), NEW d, Shape(d), Says(d, L, n),
           L[n + 1].op = "evidence_add", NEW c, c = ApplyEvidenceAdd(d, L[n + 1])
    PROVE  Says(c, L, n + 1)
<1> DEFINE ev == L[n + 1]
           own == Owners(L)[n]
<1>0. Len(L) \in Nat /\ (n + 1) - 1 = n /\ n \in 0..Len(L)
  BY LogForm
<1>1. ev.id \in Entries
  BY LogForm DEF IsEvent, EvidenceOps
<1>2. Owners(L)[n + 1] = OwnersNext(L, n + 1, own)
  BY <1>0, OwnersIs
<1>3. LiveAt(L, ev.id, n) <=> LiveIn(d, ev.id)
  BY <1>0, <1>1, LiveAtIs DEF Says
<1>4. OwnersNext(L, n + 1, own)
          = IF LiveIn(d, ev.id) /\ \A p \in own : p[1] # ev.ev
            THEN own \cup {<<ev.ev, ev.id>>} ELSE own
  BY <1>0, <1>3 DEF OwnersNext
<1>5. own = Cited(d)
  BY DEF Says
<1>6. /\ ~LiveIn(d, ev.id) => c = d
      /\ LiveIn(d, ev.id) =>
            c.evidence = d.evidence \cup
                IF \E r \in d.evidence : r.ev = ev.ev THEN {}
                ELSE {[ev |-> ev.ev, owner |-> ev.id, at |-> ev.at]}
      /\ \A x \in Entries : x # ev.id => c.entries[x] = d.entries[x]
      /\ SameRow(c.entries[ev.id], d.entries[ev.id])
  BY <1>1, EvidenceAddForm
<1>7. (\E r \in d.evidence : r.ev = ev.ev) <=> ~(\A p \in own : p[1] # ev.ev)
  <2>1. \A p : p \in own <=> \E r \in d.evidence : p = <<r.ev, r.owner>>
    BY <1>5 DEF Cited
  <2> DEFINE x == ev.ev
  <2> HIDE DEF own, x
  <2>2. ASSUME NEW r \in d.evidence, r.ev = x PROVE \E p \in own : p[1] = x
    <3>1. <<r.ev, r.owner>> \in own /\ <<r.ev, r.owner>>[1] = r.ev
      BY <2>1
    <3> QED BY <2>2, <3>1
  <2>3. ASSUME NEW p \in own, p[1] = x PROVE \E r \in d.evidence : r.ev = x
    BY <2>1, <2>3
  <2>4. (\E r \in d.evidence : r.ev = x) <=> ~(\A p \in own : p[1] # x)
    BY <2>2, <2>3
  <2> QED BY <2>4 DEF x
<1>8. Cited(c) = Owners(L)[n + 1]
  <2>1. CASE LiveIn(d, ev.id) /\ \A p \in own : p[1] # ev.ev
    <3> DEFINE new == [ev |-> ev.ev, owner |-> ev.id, at |-> ev.at]
    <3>1. c.evidence = d.evidence \cup {new}
      BY <1>6, <1>7, <2>1
    <3>2. new.ev = ev.ev /\ new.owner = ev.id
      OBVIOUS
    <3> HIDE DEF new
    <3>3. Cited(c) = Cited(d) \cup {<<ev.ev, ev.id>>}
      BY <3>1, <3>2 DEF Cited
    <3> QED BY <1>2, <1>4, <1>5, <2>1, <3>3
  <2>2. CASE ~(LiveIn(d, ev.id) /\ \A p \in own : p[1] # ev.ev)
    <3>1. c.evidence = d.evidence
      BY <1>6, <1>7, <2>2
    <3>2. Cited(c) = Cited(d)
      BY <3>1 DEF Cited
    <3> QED BY <1>2, <1>4, <1>5, <2>2, <3>2
  <2> QED BY <2>1, <2>2
<1>9. \A e : ~Ends(ev, e) /\ ~IsUpsert(L, n + 1, e)
  BY DEF Ends, IsUpsert
<1>10. \A e \in Entries : LiveIn(c, e) <=> LiveIn(d, e)
  BY <1>6 DEF LiveIn, SameRow
<1>11. \A e \in Entries : LiveIn(c, e) <=> Alive(L, e, n + 1)
  BY <1>9, <1>10, AliveNext DEF Says
<1> QED BY <1>8, <1>11 DEF Says

LEMMA EvidenceExpireSays ==
    ASSUME NEW L, IsLog(L), NEW n \in Nat, n + 1 \in 1..Len(L), NEW d, Shape(d), Says(d, L, n),
           L[n + 1].op = "evidence_expire", NEW c, c = ApplyEvidenceExpire(d, L[n + 1])
    PROVE  Says(c, L, n + 1)
<1> DEFINE ev == L[n + 1]
           own == Owners(L)[n]
<1>0. Len(L) \in Nat /\ (n + 1) - 1 = n /\ n \in 0..Len(L)
  BY LogForm
<1>1. ev.id \in Entries
  BY LogForm DEF IsEvent, EvidenceOps
<1>2. Owners(L)[n + 1] = OwnersNext(L, n + 1, own)
  BY <1>0, OwnersIs
<1>3. LiveAt(L, ev.id, n) <=> LiveIn(d, ev.id)
  BY <1>0, <1>1, LiveAtIs DEF Says
<1>4. OwnersNext(L, n + 1, own)
          = IF LiveIn(d, ev.id) THEN own \ {<<ev.ev, ev.id>>} ELSE own
  BY <1>0, <1>3 DEF OwnersNext
<1>5. own = Cited(d)
  BY DEF Says
<1>6. /\ ~LiveIn(d, ev.id) => c = d
      /\ LiveIn(d, ev.id) =>
            c.evidence = {r \in d.evidence : ~(r.ev = ev.ev /\ r.owner = ev.id)}
      /\ \A x \in Entries : x # ev.id => c.entries[x] = d.entries[x]
      /\ SameRow(c.entries[ev.id], d.entries[ev.id])
  BY <1>1, EvidenceExpireForm
<1>7. Cited(c) = Owners(L)[n + 1]
  <2>1. CASE LiveIn(d, ev.id)
    <3>1. \A p : p \in Cited(c) <=> \E r \in d.evidence : /\ ~(r.ev = ev.ev /\ r.owner = ev.id)
                                                         /\ p = <<r.ev, r.owner>>
      BY <1>6, <2>1 DEF Cited
    <3>2. Cited(c) = Cited(d) \ {<<ev.ev, ev.id>>}
      BY <3>1 DEF Cited
    <3> QED BY <1>2, <1>4, <1>5, <2>1, <3>2
  <2>2. CASE ~LiveIn(d, ev.id)
    BY <1>2, <1>4, <1>5, <1>6, <2>2
  <2> QED BY <2>1, <2>2
<1>8. \A e : ~Ends(ev, e) /\ ~IsUpsert(L, n + 1, e)
  BY DEF Ends, IsUpsert
<1>9. \A e \in Entries : LiveIn(c, e) <=> LiveIn(d, e)
  BY <1>6 DEF LiveIn, SameRow
<1>10. \A e \in Entries : LiveIn(c, e) <=> Alive(L, e, n + 1)
  BY <1>8, <1>9, AliveNext DEF Says
<1> QED BY <1>7, <1>10 DEF Says

LEMMA HealedSame ==
    ASSUME NEW d, Shape(d), NEW ev, NEW c, c = ApplyHealed(d, ev)
    PROVE  Cited(c) = Cited(d) /\ c.entries = d.entries
<1> DEFINE healed(r) == IF r.ev = ev.ev /\ r.owner = ev.id THEN [r EXCEPT !.at = ev.at] ELSE r
           rows == {healed(r) : r \in d.evidence}
<1>1. c = [d EXCEPT !.evidence = rows]
  BY DEF ApplyHealed
<1>2. ASSUME NEW r \in d.evidence PROVE healed(r).ev = r.ev /\ healed(r).owner = r.owner
  BY DEF Shape
<1>3. {<<r.ev, r.owner>> : r \in rows} = {<<r.ev, r.owner>> : r \in d.evidence}
  <2> HIDE DEF healed
  <2> QED BY <1>2
<1> HIDE DEF rows
<1>4. c.evidence = rows /\ c.entries = d.entries
  BY <1>1, OneTable
<1> QED BY <1>3, <1>4 DEF Cited

LEMMA VerdictsSay ==
    ASSUME NEW L, IsLog(L), JudgedOnce(L), NEW n \in Nat, n + 1 \in 1..Len(L),
           NEW d, Tells(d, L, n), Says(d, L, n), L[n + 1].op = "verdicts",
           NEW c, c = ApplyVerdicts(d, L[n + 1]), ~c.failed
    PROVE  Says(c, L, n + 1)
<1> DEFINE ev == L[n + 1]
           judged == {e \in DOMAIN ev.answers : Answered(d, ev.run, e) # {}}
           new == DOMAIN ev.answers \ judged
           ended == {e \in new : ev.answers[e] = "false"}
<1>1. Shape(d) /\ d.verdicts = VerdictRows(L, n)
  BY DEF Tells, Remembers
<1>2. judged = {}
  <2> SUFFICES ASSUME NEW e \in DOMAIN ev.answers, NEW v \in d.verdicts, v[1] = ev.run, v[2] = e
               PROVE  FALSE
    BY DEF Answered
  <2>1. PICK i \in 1..n : L[i].op = "verdicts" /\ v \in {<<L[i].run, x, L[i].answers[x]>> : x \in DOMAIN L[i].answers}
    BY <1>1 DEF VerdictRows
  <2>2. L[i].run = ev.run /\ e \in DOMAIN L[i].answers
    BY <2>1
  <2>3. i \in DOMAIN L /\ n + 1 \in DOMAIN L /\ i # n + 1
    BY LogForm
  <2> QED BY <2>1, <2>2, <2>3 DEF JudgedOnce
<1>3. \A e : e \in ended <=> Ends(ev, e)
  <2>1. new = DOMAIN ev.answers
    BY <1>2
  <2> HIDE DEF judged, new
  <2> QED BY <2>1 DEF Ends
<1>4. \/ c = [d EXCEPT !.failed = TRUE]
      \/ \E x, y : c = Expired([d EXCEPT !.verdicts = x, !.weights = y], ended, ev.ts)
  BY DEF ApplyVerdicts
<1> HIDE DEF judged, new, ended
<1>5. c # [d EXCEPT !.failed = TRUE]
  BY <1>1 DEF Shape
<1>6. PICK x, y : c = Expired([d EXCEPT !.verdicts = x, !.weights = y], ended, ev.ts)
  BY <1>4, <1>5
<1> DEFINE a == [d EXCEPT !.verdicts = x]
           b == [a EXCEPT !.weights = y]
<1>7. c = Expired(b, ended, ev.ts)
  BY <1>6
<1>8. Shape(a) /\ a.entries = d.entries /\ a.evidence = d.evidence
  BY <1>1, OtherTables, TableForm
<1> HIDE DEF a
<1>9. Shape(b) /\ b.entries = a.entries /\ b.evidence = a.evidence
  BY <1>8, OtherTables, TableForm
<1> HIDE DEF b
<1>10. Shape(b) /\ b.evidence = d.evidence /\ b.entries = d.entries
  BY <1>8, <1>9
<1> QED BY <1>1, <1>3, <1>7, <1>10, ExpiredSays

LEMMA ApplySays ==
    ASSUME NEW L, IsLog(L), JudgedOnce(L), NEW n \in Nat, n + 1 \in 1..Len(L),
           NEW d, Tells(d, L, n), Says(d, L, n), NEW occurrence, NEW embeds,
           NEW c, c = Apply(d, L[n + 1], occurrence, embeds), ~c.failed
    PROVE  Says(c, L, n + 1)
<1> DEFINE ev == L[n + 1]
<1>0. Shape(d) /\ IsEvent(ev)
  BY LogForm DEF Tells
<1>1. CASE ev.op = "upsert"
  BY <1>0, <1>1, UpsertSays DEF Apply
<1>2. CASE ev.op = "expire"
  <2>1. c = Expired(d, {ev.id}, ev.ts)
    BY <1>2 DEF Apply, ApplyExpire
  <2>2. \A e : e \in {ev.id} <=> Ends(ev, e)
    BY <1>2 DEF Ends
  <2>3. ev.op \in {"expire", "verdicts"}
    BY <1>2
  <2> QED BY <1>0, <2>1, <2>2, <2>3, ExpiredSays
<1>3. CASE ev.op = "evidence_add"
  BY <1>0, <1>3, EvidenceAddSays DEF Apply
<1>4. CASE ev.op = "citation_healed"
  <2>1. c = ApplyHealed(d, ev)
    BY <1>4 DEF Apply
  <2>2. Cited(c) = Cited(d) /\ c.entries = d.entries
    BY <1>0, <2>1, HealedSame
  <2> QED BY <1>4, <2>2, OthersSettle
<1>5. CASE ev.op = "evidence_expire"
  BY <1>0, <1>5, EvidenceExpireSays DEF Apply
<1>6. CASE ev.op = "verdicts"
  BY <1>0, <1>6, VerdictsSay DEF Apply
<1>7. CASE ev.op \in {"candidates", "run", "test"}
  <2>1. \/ c = [d EXCEPT !.failed = TRUE]
        \/ \E x : \/ c = [d EXCEPT !.candidates = x]
                  \/ c = [d EXCEPT !.runs = x]
                  \/ c = [d EXCEPT !.tests = x]
    <3>1. CASE ev.op = "candidates"
      BY <3>1 DEF Apply, ApplyCandidates
    <3>2. CASE ev.op = "run"
      BY <3>2 DEF Apply, ApplyRun
    <3>3. CASE ev.op = "test"
      <4> DEFINE t == [d.tests EXCEPT ![ev.id] = ev.ts]
      <4>1. c = [d EXCEPT !.tests = t]
        BY <3>3 DEF Apply, ApplyTest
      <4> HIDE DEF t
      <4> QED BY <4>1
    <3> QED BY <1>7, <3>1, <3>2, <3>3
  <2>2. c # [d EXCEPT !.failed = TRUE]
    BY <1>0 DEF Shape
  <2>3. c.evidence = d.evidence /\ c.entries = d.entries
    <3>1. PICK x : \/ c = [d EXCEPT !.candidates = x]
                   \/ c = [d EXCEPT !.runs = x]
                   \/ c = [d EXCEPT !.tests = x]
      BY <2>1, <2>2
    <3>2. CASE c = [d EXCEPT !.candidates = x]
      BY <1>0, <3>2 DEF Shape
    <3>3. CASE c = [d EXCEPT !.runs = x]
      BY <1>0, <3>3 DEF Shape
    <3>4. CASE c = [d EXCEPT !.tests = x]
      BY <1>0, <3>4 DEF Shape
    <3> QED BY <3>1, <3>2, <3>3, <3>4
  <2>4. Cited(c) = Cited(d)
    BY <2>3 DEF Cited
  <2> QED BY <1>7, <2>3, <2>4, OthersSettle
<1> QED BY <1>0, <1>1, <1>2, <1>3, <1>4, <1>5, <1>6, <1>7 DEF IsEvent, EvidenceOps

(* From tables that hold what the events up to from say, a replay that does not fail
   makes tables that hold what all say. *)
LEMMA ReplaySays ==
    ASSUME NEW L, IsLog(L), JudgedOnce(L), NEW from \in 0..Len(L),
           NEW d, Tells(d, L, from), Says(d, L, from), NEW counts, NEW embeds,
           NEW c, c = Replay(d, L, from, counts, embeds), ~c.failed
    PROVE  Tells(c, L, Len(L)) /\ Says(c, L, Len(L))
<1>0. Len(L) \in Nat /\ from <= Len(L) /\ from \in Nat
  BY LogForm
<1>1. PICK f : /\ Replaying(f, d, L, from, Len(L), counts, embeds)
               /\ c = f[Len(L)]
  BY <1>0, ReplayIs
<1> DEFINE Told(i) == Tells(f[i], L, i) /\ Says(f[i], L, i)
           Good(i) == Shape(f[i]) /\ (f[i].failed \/ Told(i))
           S == {k \in 0..Len(L) - from : Good(from + k)}
<1>2. 0 \in S
  <2>1. f[from] = d /\ from + 0 = from /\ 0 \in 0..Len(L) - from
    BY <1>0, <1>1 DEF Replaying
  <2>2. Good(from)
    BY <2>1 DEF Tells
  <2> HIDE DEF Good
  <2> QED BY <2>1, <2>2
<1>3. ASSUME NEW k \in 0..Len(L) - from - 1, k \in S PROVE k + 1 \in S
  <2> DEFINE i == from + k
             x == Given(L, i + 1, counts)
  <2>1. /\ i \in Nat /\ i + 1 = from + (k + 1) /\ i + 1 \in from..Len(L) /\ i + 1 # from
        /\ (i + 1) - 1 = i /\ i + 1 \in 1..Len(L) /\ k + 1 \in 0..Len(L) - from
    BY <1>0
  <2>2. Good(i)
    BY <1>3
  <2>3. IsEvent(L[i + 1])
    BY <2>1, LogForm
  <2>4. f[i + 1] = Apply(f[i], L[i + 1], x, embeds)
    BY <1>1, <2>1 DEF Replaying
  <2>5. x \in {Unknown, Occurrence(L, i + 1)}
    BY DEF Given
  <2> HIDE DEF i, x
  <2>6. Shape(f[i + 1]) /\ (f[i].failed => f[i + 1].failed)
    BY <2>2, <2>3, <2>4, ApplyForm
  <2>7. f[i + 1].failed \in BOOLEAN
    BY <2>6 DEF Shape
  <2>8. ASSUME ~f[i + 1].failed PROVE Told(i + 1)
    <3>1. Tells(f[i], L, i) /\ Says(f[i], L, i)
      BY <2>2, <2>6, <2>8
    <3>2. Tells(f[i + 1], L, i + 1)
      BY <2>1, <2>3, <2>4, <2>5, <2>8, <3>1, ApplyTells
    <3>3. Says(f[i + 1], L, i + 1)
      BY <2>1, <2>4, <2>8, <3>1, ApplySays
    <3> QED BY <3>2, <3>3
  <2> HIDE DEF Told
  <2>9. Good(i + 1)
    BY <2>6, <2>7, <2>8
  <2> HIDE DEF Good
  <2> QED BY <2>1, <2>9
<1>4. /\ Len(L) - from \in Nat /\ from + (Len(L) - from) = Len(L)
      /\ Len(L) - from \in 0..Len(L) - from
  BY <1>0
<1>5. Good(Len(L))
  <2> HIDE DEF Good
  <2>1. \A k \in 0..(Len(L) - from) - 1 : k \in S => k + 1 \in S
    BY <1>3
  <2> HIDE DEF S
  <2>2. Len(L) - from \in S
    BY <1>2, <1>4, <2>1, Upwards
  <2> QED BY <1>4, <2>2 DEF S
<1> QED BY <1>1, <1>5

LEMMA EmptySays ==
    ASSUME NEW L, IsLog(L)
    PROVE  Says(Empty, L, 0)
<1>1. Owners(L)[0] = {}
  BY LogForm, OwnersIs
<1>2. Cited(Empty) = {}
  BY DEF Cited, Empty
<1>3. \A e \in Entries : ~LiveIn(Empty, e)
  BY DEF LiveIn, Empty, Absent
<1>4. \A e : ~Alive(L, e, 0)
  BY DEF Alive
<1> QED BY <1>1, <1>2, <1>3, <1>4 DEF Says

LEMMA MaterializeSays ==
    ASSUME NEW L, IsLog(L), JudgedOnce(L), NEW embeds,
           NEW c, c = Materialize(L, embeds), ~c.failed
    PROVE  Tells(c, L, Len(L)) /\ Says(c, L, Len(L))
<1>1. Len(L) \in Nat /\ 0 \in 0..Len(L)
  BY LogForm
<1>2. Tells(Empty, L, 0) /\ Says(Empty, L, 0)
  BY EmptyTells, EmptySays
<1>3. c = Replay(Empty, L, 0, FALSE, embeds)
  BY DEF Materialize
<1> QED BY <1>1, <1>2, <1>3, ReplaySays

-----------------------------------------------------------------------------
(* Longer logs: who held what is as before, and only an add gives more.    *)

LEMMA SamePrefixAlive ==
    ASSUME NEW L, NEW K, NEW n \in Nat, \A i \in 1..n : K[i] = L[i], NEW e
    PROVE  Alive(K, e, n) <=> Alive(L, e, n)
<1>1. \A u \in 1..n : u + 1..n \subseteq 1..n
  OBVIOUS
<1> QED BY <1>1 DEF Alive, IsUpsert

LEMMA OwnersOfPrefix ==
    ASSUME NEW L, IsLog(L), NEW K, IsLog(K), NEW n \in 0..Len(L), n <= Len(K),
           \A i \in 1..n : K[i] = L[i]
    PROVE  Owners(K)[n] = Owners(L)[n]
<1> DEFINE S == {k \in 0..n : Owners(K)[k] = Owners(L)[k]}
<1>0. n \in Nat /\ Len(L) \in Nat /\ Len(K) \in Nat
  BY LogForm
<1>1. 0 \in S
  <2>1. Owners(K)[0] = {} /\ Owners(L)[0] = {} /\ 0 \in 0..n
    BY <1>0, OwnersIs
  <2> QED BY <2>1
<1>2. ASSUME NEW k \in 0..n - 1, k \in S PROVE k + 1 \in S
  <2>1. /\ k \in Nat /\ (k + 1) - 1 = k /\ k + 1 \in 1..Len(L) /\ k + 1 \in 1..Len(K)
        /\ k \in 0..Len(L) /\ k \in 0..Len(K) /\ k + 1 \in 0..n /\ k + 1 \in 1..n
    BY <1>0
  <2>2. /\ Owners(K)[k + 1] = OwnersNext(K, k + 1, Owners(K)[k])
        /\ Owners(L)[k + 1] = OwnersNext(L, k + 1, Owners(L)[k])
    BY <1>0, <2>1, OwnersIs
  <2>3. ASSUME NEW e PROVE LiveAt(K, e, k) <=> LiveAt(L, e, k)
    <3>1. \A i \in 1..k : K[i] = L[i]
      BY <1>0
    <3> QED BY <2>1, <3>1, LiveAtIs, SamePrefixAlive
  <2>4. OwnersNext(K, k + 1, Owners(K)[k]) = OwnersNext(L, k + 1, Owners(L)[k])
    <3>1. Owners(K)[k] = Owners(L)[k] /\ K[k + 1] = L[k + 1]
      BY <1>2, <2>1
    <3> QED BY <2>1, <2>3, <3>1 DEF OwnersNext
  <2> QED BY <2>1, <2>2, <2>4
<1> HIDE DEF S
<1>3. \A k \in 0..n - 1 : k \in S => k + 1 \in S
  BY <1>2
<1>4. n \in Nat /\ n \in 0..n
  BY <1>0
<1>5. n \in S
  <2>1. \A k \in 0..n : k \in S
    BY <1>1, <1>3, <1>4, Upwards
  <2> QED BY <1>4, <2>1
<1> QED BY <1>5 DEF S

LEMMA OwnersNextGives ==
    ASSUME NEW L, NEW i, NEW own, NEW p \in OwnersNext(L, i, own), p \notin own
    PROVE  L[i].op = "evidence_add" /\ p = <<L[i].ev, L[i].id>>
BY DEF OwnersNext

LEMMA OwnersGrow ==
    ASSUME NEW L, IsLog(L), NEW from \in 0..Len(L), NEW p \in Owners(L)[Len(L)],
           p \notin Owners(L)[from]
    PROVE  \E i \in from + 1..Len(L) : L[i].op = "evidence_add" /\ p = <<L[i].ev, L[i].id>>
<1> DEFINE Added(n) == \E i \in from + 1..n : L[i].op = "evidence_add" /\ p = <<L[i].ev, L[i].id>>
           n == Len(L) - from
           S == {k \in 0..n : p \in Owners(L)[from + k] => Added(from + k)}
<1>0. Len(L) \in Nat /\ from \in Nat /\ n \in Nat /\ from + n = Len(L)
  BY LogForm
<1>1. 0 \in S
  BY <1>0
<1>2. ASSUME NEW k \in 0..n - 1, k \in S PROVE k + 1 \in S
  <2> DEFINE i == from + k
  <2>1. /\ i \in Nat /\ i + 1 = from + (k + 1) /\ (i + 1) - 1 = i /\ i + 1 \in 1..Len(L)
        /\ k + 1 \in 0..n /\ i + 1 \in from + 1..i + 1
    BY <1>0
  <2>2. p \in Owners(L)[i] => Added(i)
    BY <1>2
  <2> HIDE DEF i
  <2>3. Owners(L)[i + 1] = OwnersNext(L, i + 1, Owners(L)[i])
    BY <1>0, <2>1, OwnersIs
  <2>4. Added(i) => Added(i + 1)
    <3>1. from + 1..i \subseteq from + 1..i + 1
      BY <1>0, <2>1
    <3> QED BY <3>1
  <2>5. ASSUME p \in Owners(L)[i + 1], p \notin Owners(L)[i] PROVE Added(i + 1)
    <3>1. L[i + 1].op = "evidence_add" /\ p = <<L[i + 1].ev, L[i + 1].id>>
      BY <2>3, <2>5, OwnersNextGives
    <3> QED BY <2>1, <3>1
  <2>6. p \in Owners(L)[i + 1] => Added(i + 1)
    BY <2>2, <2>4, <2>5
  <2> HIDE DEF Added
  <2> QED BY <2>1, <2>6
<1> HIDE DEF S, n
<1>3. n \in S
  BY <1>0, <1>1, <1>2, Upwards
<1> QED BY <1>0, <1>3 DEF S

(* Only a live entry holds evidence. *)
LEMMA OwnersAlive ==
    ASSUME NEW L, IsLog(L), NEW n \in 0..Len(L), NEW p \in Owners(L)[n]
    PROVE  Alive(L, p[2], n)
<1> DEFINE S == {k \in 0..n : p \in Owners(L)[k] => Alive(L, p[2], k)}
<1>0. Len(L) \in Nat /\ n \in Nat /\ n \in 0..n
  BY LogForm
<1>1. 0 \in S
  <2>1. Owners(L)[0] = {} /\ 0 \in 0..n
    BY <1>0, OwnersIs
  <2> QED BY <2>1
<1>2. ASSUME NEW k \in 0..n - 1, k \in S PROVE k + 1 \in S
  <2>1. /\ k \in Nat /\ (k + 1) - 1 = k /\ k + 1 \in 1..Len(L) /\ k + 1 \in 0..n
        /\ k \in 0..Len(L)
    BY <1>0
  <2>2. Owners(L)[k + 1] = OwnersNext(L, k + 1, Owners(L)[k])
    BY <1>0, <2>1, OwnersIs
  <2>3. p \in Owners(L)[k] => Alive(L, p[2], k)
    BY <1>2
  <2>4. ASSUME p \in Owners(L)[k + 1] PROVE Alive(L, p[2], k) /\ ~Ends(L[k + 1], p[2])
    <3>1. CASE L[k + 1].op = "evidence_add"
      <4>1. p \in Owners(L)[k] \/ (p[2] = L[k + 1].id /\ LiveAt(L, L[k + 1].id, k))
        BY <2>1, <2>2, <2>4, <3>1 DEF OwnersNext
      <4>2. Alive(L, p[2], k)
        BY <2>1, <2>3, <4>1, LiveAtIs
      <4> QED BY <3>1, <4>2 DEF Ends
    <3>2. CASE L[k + 1].op = "evidence_expire"
      <4>1. p \in Owners(L)[k]
        BY <2>2, <2>4, <3>2 DEF OwnersNext
      <4> QED BY <2>3, <3>2, <4>1 DEF Ends
    <3>3. CASE L[k + 1].op \notin {"evidence_add", "evidence_expire"}
      <4>1. p \in Owners(L)[k] /\ ~Ends(L[k + 1], p[2])
        BY <2>2, <2>4, <3>3 DEF OwnersNext
      <4> QED BY <2>3, <4>1
    <3> QED BY <3>1, <3>2, <3>3
  <2>5. p \in Owners(L)[k + 1] => Alive(L, p[2], k + 1)
    BY <2>1, <2>4, AliveNext
  <2> QED BY <2>1, <2>5
<1> HIDE DEF S
<1>3. \A k \in 0..n - 1 : k \in S => k + 1 \in S
  BY <1>2
<1>4. n \in S
  <2>1. \A k \in 0..n : k \in S
    BY <1>0, <1>1, <1>3, Upwards
  <2> QED BY <1>0, <2>1
<1> QED BY <1>4 DEF S

Adds(ev, p) == ev.op = "evidence_add" /\ p = <<ev.ev, ev.id>>

(* What is held was added, and held since. *)
LEMMA HeldSince ==
    ASSUME NEW L, IsLog(L), NEW p \in Owners(L)[Len(L)]
    PROVE  \E q \in 1..Len(L) : Adds(L[q], p) /\ \A m \in q..Len(L) : p \in Owners(L)[m]
<1> DEFINE n == Len(L)
           Since(k) == \E q \in 1..k : Adds(L[q], p) /\ \A m \in q..k : p \in Owners(L)[m]
           S == {k \in 0..n : p \in Owners(L)[k] => Since(k)}
<1>0. n \in Nat /\ n \in 0..n
  BY LogForm
<1>1. 0 \in S
  <2>1. Owners(L)[0] = {} /\ 0 \in 0..n
    BY <1>0, OwnersIs
  <2> QED BY <2>1
<1>2. ASSUME NEW k \in 0..n - 1, k \in S PROVE k + 1 \in S
  <2>1. /\ k \in Nat /\ (k + 1) - 1 = k /\ k + 1 \in 1..Len(L) /\ k + 1 \in 0..n
        /\ k + 1 \in 1..k + 1 /\ k + 1..k + 1 = {k + 1}
    BY <1>0
  <2>2. Owners(L)[k + 1] = OwnersNext(L, k + 1, Owners(L)[k])
    BY <1>0, <2>1, OwnersIs
  <2>3. p \in Owners(L)[k] => Since(k)
    BY <1>2
  <2>4. ASSUME p \in Owners(L)[k + 1], p \in Owners(L)[k] PROVE Since(k + 1)
    <3>1. PICK q \in 1..k : Adds(L[q], p) /\ \A m \in q..k : p \in Owners(L)[m]
      BY <2>3, <2>4
    <3>2. q \in 1..k + 1 /\ \A m \in q..k + 1 : m \in q..k \/ m = k + 1
      BY <2>1
    <3>3. \A m \in q..k + 1 : p \in Owners(L)[m]
      BY <2>4, <3>1, <3>2
    <3> QED BY <3>1, <3>2, <3>3
  <2>5. ASSUME p \in Owners(L)[k + 1], p \notin Owners(L)[k] PROVE Since(k + 1)
    <3>1. Adds(L[k + 1], p)
      BY <2>2, <2>5, OwnersNextGives DEF Adds
    <3>2. \A m \in k + 1..k + 1 : p \in Owners(L)[m]
      BY <2>1, <2>5
    <3> QED BY <2>1, <3>1, <3>2
  <2>6. p \in Owners(L)[k + 1] => Since(k + 1)
    BY <2>4, <2>5
  <2> HIDE DEF Since
  <2> QED BY <2>1, <2>6
<1> HIDE DEF S
<1>3. \A k \in 0..n - 1 : k \in S => k + 1 \in S
  BY <1>2
<1>4. n \in S
  <2> HIDE DEF n
  <2>1. \A k \in 0..n : k \in S
    BY <1>0, <1>1, <1>3, Upwards
  <2> QED BY <1>0, <2>1
<1> QED BY <1>4 DEF S

(* What is no longer held was dropped at a place. *)
LEMMA DroppedAt ==
    ASSUME NEW L, IsLog(L), NEW i \in 0..Len(L), NEW p \in Owners(L)[i],
           p \notin Owners(L)[Len(L)]
    PROVE  \E j \in i + 1..Len(L) : p \in Owners(L)[j - 1] /\ p \notin Owners(L)[j]
<1> SUFFICES ASSUME \A j \in i + 1..Len(L) : p \in Owners(L)[j - 1] => p \in Owners(L)[j]
             PROVE  FALSE
  OBVIOUS
<1> DEFINE n == Len(L) - i
           S == {k \in 0..n : p \in Owners(L)[i + k]}
<1>0. Len(L) \in Nat /\ i \in Nat /\ n \in Nat /\ n \in 0..n /\ i + n = Len(L)
  BY LogForm
<1>1. 0 \in S
  BY <1>0
<1>2. ASSUME NEW k \in 0..n - 1, k \in S PROVE k + 1 \in S
  <2>1. (i + (k + 1)) - 1 = i + k /\ i + (k + 1) \in i + 1..Len(L) /\ k + 1 \in 0..n
    BY <1>0
  <2> QED BY <1>2, <2>1
<1> HIDE DEF S
<1>3. \A k \in 0..n - 1 : k \in S => k + 1 \in S
  BY <1>2
<1>4. n \in S
  <2> HIDE DEF n
  <2>1. \A k \in 0..n : k \in S
    BY <1>0, <1>1, <1>3, Upwards
  <2> QED BY <1>0, <2>1
<1> QED BY <1>0, <1>4 DEF S

-----------------------------------------------------------------------------
(* A compaction gives no evidence to an entry that had lost it.            *)

LEMMA EvidenceIsKept ==
    ASSUME NEW L, IsLog(L), NEW i \in Kept(L), L[i].op \in EvidenceOps
    PROVE  i \in KeptEvidence(L)
<1>0. Len(L) \in Nat /\ DOMAIN L = 1..Len(L)
  BY LogForm
<1>1. \A e : \A u \in Upserts(L, e) : L[u].op = "upsert"
  BY DEF Upserts
<1>2. i \notin Anchors(L)
  <2> SUFFICES ASSUME NEW j \in KeptEvidence(L), i = Anchor(L, j) PROVE FALSE
    BY DEF Anchors
  <2>1. i \in Upserts(L, L[j].id)
    BY AnchorIs
  <2> QED BY <1>1, <2>1 DEF EvidenceOps
<1>3. i \notin LastTests(L) /\ i \notin History(L)
  BY DEF LastTests, History, EvidenceOps
<1>4. ASSUME NEW e, i \in LastUpserts(L, e) PROVE FALSE
  <2>1. LiveAt(L, e, Len(L)) /\ i = LatestUpsert(L, e, Len(L))
    BY <1>4 DEF LastUpserts
  <2>2. i \in Upserts(L, e)
    BY <1>0, <2>1, LiveHasUpsert
  <2> QED BY <1>1, <2>2 DEF EvidenceOps
<1>5. ASSUME NEW e, i \in AuditUpserts(L, e) PROVE FALSE
  <2>1. \A j \in Sampled(L, e) \cup Audited(L, e) : j \in Nat
    BY <1>0 DEF Sampled, Audited
  <2>2. \A j \in Nat : LatestUpsert(L, e, j) = 0 \/ LatestUpsert(L, e, j) \in Upserts(L, e)
    BY LatestUpsertIs
  <2>3. i \in Upserts(L, e)
    BY <1>5, <2>1, <2>2 DEF AuditUpserts
  <2> QED BY <1>1, <2>3 DEF EvidenceOps
<1>6. ASSUME NEW e, i \in AuditExpires(L, e) PROVE FALSE
  BY <1>6 DEF AuditExpires, EvidenceOps
<1>7. i \notin OfEntries(L)
  BY <1>4, <1>5, <1>6 DEF OfEntries
<1> QED BY <1>2, <1>3, <1>7 DEF Kept

LEMMA RewriteOwns ==
    ASSUME NEW L, IsLog(L), NEW C, IsLog(C), NEW pos, Rewrites(C, L, Kept(L), pos)
    PROVE  Owners(C)[Len(C)] \subseteq Owners(L)[Len(L)]
<1> SUFFICES ASSUME NEW p \in Owners(C)[Len(C)], p \notin Owners(L)[Len(L)] PROVE FALSE
  OBVIOUS
<1> DEFINE n == Len(L)
           e == p[2]
<1>0. n \in Nat /\ Len(C) \in Nat /\ DOMAIN L = 1..n
  BY LogForm
<1>1. PICK q \in 1..Len(C) : Adds(C[q], p) /\ \A m \in q..Len(C) : p \in Owners(C)[m]
  BY HeldSince
<1>2. PICK i \in Kept(L) : pos[i] = q
  BY DEF Rewrites
<1>3. i \in 1..n /\ Adds(L[i], p)
  BY <1>1, <1>2 DEF Rewrites
<1>4. L[i].op \in EvidenceOps /\ L[i].op = "evidence_add" /\ L[i].id = e /\ p = <<L[i].ev, L[i].id>>
  BY <1>3 DEF Adds, EvidenceOps
<1>5. i \in KeptEvidence(L)
  BY <1>4, EvidenceIsKept
<1>6. /\ LiveAt(L, e, n) /\ i > LatestEnd(L, e, n)
      /\ Owners(L)[i] # Owners(L)[i - 1]
  BY <1>4, <1>5 DEF KeptEvidence
<1>7. p \in Owners(L)[i]
  <2>1. Owners(L)[i] = OwnersNext(L, i, Owners(L)[i - 1])
    BY <1>0, <1>3, OwnersIs
  <2>2. Owners(L)[i] = Owners(L)[i - 1] \cup {<<L[i].ev, L[i].id>>}
    BY <1>4, <1>6, <2>1 DEF OwnersNext
  <2> QED BY <1>4, <2>2
<1>8. PICK j \in i + 1..n : p \in Owners(L)[j - 1] /\ p \notin Owners(L)[j]
  <2>1. i \in 0..n
    BY <1>3
  <2> QED BY <1>7, <2>1, DroppedAt
<1>9. j \in 1..n /\ j \in Nat /\ i < j /\ i \in Nat /\ j - 1 \in 0..n
  BY <1>0, <1>3, <1>8
<1>10. ~Ends(L[j], e)
  <2>1. LatestEnd(L, e, n) \in Nat /\ \A y \in 1..n : Ends(L[y], e) => y <= LatestEnd(L, e, n)
    BY <1>0, LatestEndBounds
  <2> HIDE DEF e, n
  <2> QED BY <1>6, <1>9, <2>1
<1>11. L[j].op = "evidence_expire" /\ p = <<L[j].ev, L[j].id>> /\ LiveAt(L, L[j].id, j - 1)
  <2>1. Owners(L)[j] = OwnersNext(L, j, Owners(L)[j - 1])
    BY <1>0, <1>9, OwnersIs
  <2> QED BY <1>8, <1>10, <2>1 DEF OwnersNext
<1>12. j \in KeptEvidence(L) /\ L[j].id = e
  <2>1. L[j].id = e
    BY <1>11
  <2>2. j > LatestEnd(L, e, n)
    <3>1. LatestEnd(L, e, n) \in Nat
      BY <1>0, LatestEndBounds
    <3> HIDE DEF e, n
    <3> QED BY <1>6, <1>9, <3>1
  <2>3. L[j].op \in EvidenceOps /\ L[j].op # "evidence_add" /\ j \in DOMAIN L
    BY <1>0, <1>9, <1>11 DEF EvidenceOps
  <2> QED BY <1>6, <1>11, <2>1, <2>2, <2>3 DEF KeptEvidence
<1>13. Precedes(L, KeptEvidence(L), i, j)
  <2>1. /\ LatestUpsert(L, e, i) \in Nat /\ LatestUpsert(L, e, i) <= i
        /\ LatestUpsert(L, e, i) = 0 \/ LatestUpsert(L, e, i) \in Upserts(L, e)
    BY <1>9, LatestUpsertIs
  <2>2. /\ LatestUpsert(L, e, j) \in Nat
        /\ \A w \in Upserts(L, e) : w <= j => w <= LatestUpsert(L, e, j)
    BY <1>9, LatestUpsertIs
  <2>3. LatestUpsert(L, e, i) <= LatestUpsert(L, e, j)
    BY <1>9, <2>1, <2>2
  <2>4. /\ Place(L, KeptEvidence(L), i) = LatestUpsert(L, e, i)
        /\ Place(L, KeptEvidence(L), j) = LatestUpsert(L, e, j)
    BY <1>4, <1>5, <1>12 DEF Place, Anchor
  <2> HIDE DEF e
  <2> QED BY <1>9, <2>1, <2>2, <2>3, <2>4 DEF Precedes
<1>14. pos[i] < pos[j] /\ pos[j] \in 1..Len(C) /\ C[pos[j]] = L[j]
  <2>1. i \in Kept(L) /\ j \in Kept(L)
    BY <1>5, <1>12 DEF Kept
  <2> QED BY <1>13, <2>1 DEF Rewrites
<1> DEFINE r == pos[j]
<1>15. /\ r \in 1..Len(C) /\ r \in q..Len(C) /\ r - 1 \in q..Len(C) /\ r - 1 \in 0..Len(C)
       /\ C[r] = L[j]
  BY <1>0, <1>2, <1>14
<1> HIDE DEF r
<1>16. LiveAt(C, e, r - 1)
  <2>1. p \in Owners(C)[r - 1]
    BY <1>1, <1>15
  <2>2. Alive(C, p[2], r - 1)
    BY <1>15, <2>1, OwnersAlive
  <2> QED BY <1>15, <2>2, LiveAtIs
<1>17. p \notin Owners(C)[r]
  <2>1. Owners(C)[r] = OwnersNext(C, r, Owners(C)[r - 1])
    BY <1>0, <1>15, OwnersIs
  <2>2. Owners(C)[r] = Owners(C)[r - 1] \ {<<C[r].ev, C[r].id>>}
    BY <1>11, <1>12, <1>15, <1>16, <2>1 DEF OwnersNext
  <2> QED BY <1>11, <1>15, <2>2
<1> QED BY <1>1, <1>15, <1>17

LEMMA RewriteJudgesOnce ==
    ASSUME NEW L, JudgedOnce(L), IsLog(L), NEW C, IsLog(C), NEW pos, Rewrites(C, L, Kept(L), pos)
    PROVE  JudgedOnce(C)
<1> SUFFICES ASSUME NEW m \in DOMAIN C, NEW n \in DOMAIN C,
                    C[m].op = "verdicts", C[n].op = "verdicts", C[m].run = C[n].run, m # n
             PROVE  DOMAIN C[m].answers \cap DOMAIN C[n].answers = {}
  BY DEF JudgedOnce
<1>1. m \in 1..Len(C) /\ n \in 1..Len(C)
  BY LogForm
<1>2. PICK i \in Kept(L) : pos[i] = m
  BY <1>1 DEF Rewrites
<1>3. PICK j \in Kept(L) : pos[j] = n
  BY <1>1 DEF Rewrites
<1>4. i # j /\ C[m] = L[i] /\ C[n] = L[j] /\ i \in DOMAIN L /\ j \in DOMAIN L
  BY <1>2, <1>3, LogForm DEF Rewrites
<1> QED BY <1>4 DEF JudgedOnce

-----------------------------------------------------------------------------
(* The batches that are written.                                           *)

LEMMA JudgedGrows ==
    ASSUME NEW L, IsLog(L), JudgedOnce(L), NEW d, Tells(d, L, Len(L)),
           NEW B, IsLog(B), JudgedOnce(B), Unanswered(B, d)
    PROVE  JudgedOnce(L \o B)
<1> DEFINE K == L \o B
           n == Len(L)
<1>1. /\ Len(K) = n + Len(B) /\ n \in Nat /\ Len(B) \in Nat /\ IsLog(K)
      /\ \A i \in 1..n : K[i] = L[i]
      /\ \A i \in n + 1..Len(K) : i - n \in 1..Len(B) /\ K[i] = B[i - n]
  BY TailOf, LogGrows
<1>2. DOMAIN K = 1..Len(K) /\ DOMAIN L = 1..n /\ DOMAIN B = 1..Len(B)
  BY <1>1, LogForm
<1> HIDE DEF K
<1>3. ASSUME NEW i \in 1..n, NEW j \in n + 1..Len(K),
             K[i].op = "verdicts", K[j].op = "verdicts", K[i].run = K[j].run,
             NEW e \in DOMAIN K[i].answers \cap DOMAIN K[j].answers
      PROVE  FALSE
  <2>1. <<L[i].run, e, L[i].answers[e]>> \in VerdictRows(L, n)
    BY <1>1, <1>3 DEF VerdictRows
  <2>2. <<L[i].run, e, L[i].answers[e]>> \in d.verdicts
    BY <2>1 DEF Tells, Remembers
  <2>3. L[i].run = K[j].run
    BY <1>1, <1>3
  <2>4. Answered(d, K[j].run, e) # {}
    <3> DEFINE v == <<L[i].run, e, L[i].answers[e]>>
    <3>1. v \in d.verdicts /\ v[1] = K[j].run /\ v[2] = e
      BY <2>2, <2>3
    <3> HIDE DEF v
    <3> QED BY <3>1 DEF Answered
  <2>5. Answered(d, K[j].run, e) = {}
    BY <1>1, <1>2, <1>3 DEF Unanswered
  <2> QED BY <2>4, <2>5
<1>4. ASSUME NEW i \in DOMAIN K, NEW j \in DOMAIN K,
             K[i].op = "verdicts", K[j].op = "verdicts", K[i].run = K[j].run, i # j
      PROVE  DOMAIN K[i].answers \cap DOMAIN K[j].answers = {}
  <2>1. /\ i \in 1..n \/ i \in n + 1..Len(K)
        /\ j \in 1..n \/ j \in n + 1..Len(K)
    BY <1>1, <1>2
  <2>2. CASE i \in 1..n /\ j \in 1..n
    BY <1>1, <1>2, <1>4, <2>2 DEF JudgedOnce
  <2>3. CASE i \in n + 1..Len(K) /\ j \in n + 1..Len(K)
    <3>1. i - n \in DOMAIN B /\ j - n \in DOMAIN B /\ i - n # j - n
      BY <1>1, <1>2, <1>4, <2>3
    <3>2. K[i] = B[i - n] /\ K[j] = B[j - n]
      BY <1>1, <2>3
    <3> QED BY <1>4, <3>1, <3>2 DEF JudgedOnce
  <2>4. CASE i \in 1..n /\ j \in n + 1..Len(K)
    BY <1>3, <1>4, <2>4
  <2>5. CASE j \in 1..n /\ i \in n + 1..Len(K)
    BY <1>3, <1>4, <2>5
  <2> QED BY <2>1, <2>2, <2>3, <2>4, <2>5
<1>5. JudgedOnce(K)
  BY <1>4 DEF JudgedOnce
<1> QED BY <1>5 DEF K

LEMMA SaysPrefix ==
    ASSUME NEW L, IsLog(L), NEW K, IsLog(K), NEW n \in 0..Len(L), n <= Len(K),
           \A i \in 1..n : K[i] = L[i], NEW d, Says(d, L, n)
    PROVE  Says(d, K, n)
<1>1. n \in Nat
  BY LogForm
<1>2. Owners(K)[n] = Owners(L)[n]
  BY OwnersOfPrefix
<1>3. \A e : Alive(K, e, n) <=> Alive(L, e, n)
  BY <1>1, SamePrefixAlive
<1> QED BY <1>2, <1>3 DEF Says

-----------------------------------------------------------------------------
(* The invariant.                                                          *)

(* The tables hold the evidence that their part of the log says is held; what the
   rest of the log gives is of the batch written last.                        *)
EvidenceInv ==
    /\ HistoryInv /\ JudgedOnce(log)
    /\ applied # Void => Says(db, log, applied)
    /\ \A p \in Owners(log)[Len(log)] : p \in Cited(db) \/ p[1][1] = writes

Sourced(d, c, w) ==
    \A r \in c.evidence : (\E q \in d.evidence : q.ev = r.ev /\ q.owner = r.owner) \/ r.ev[1] = w

LEMMA SameIsSourced ==
    ASSUME NEW d, NEW c, Cited(c) = Cited(d), NEW w
    PROVE  Sourced(d, c, w)
<1> SUFFICES ASSUME NEW r \in c.evidence PROVE \E q \in d.evidence : q.ev = r.ev /\ q.owner = r.owner
  BY DEF Sourced
<1>1. <<r.ev, r.owner>> \in Cited(d)
  BY DEF Cited
<1>2. PICK q \in d.evidence : <<q.ev, q.owner>> = <<r.ev, r.owner>>
  BY <1>1 DEF Cited
<1>3. q.ev = r.ev /\ q.owner = r.owner
  BY <1>2
<1> QED BY <1>3

LEMMA SaidIsSourced ==
    ASSUME NEW L, NEW n, NEW d, NEW c, Says(c, L, n), NEW w,
           \A p \in Owners(L)[n] : p \in Cited(d) \/ p[1][1] = w
    PROVE  Sourced(d, c, w)
<1> SUFFICES ASSUME NEW r \in c.evidence, r.ev[1] # w
             PROVE  \E q \in d.evidence : q.ev = r.ev /\ q.owner = r.owner
  BY DEF Sourced
<1> DEFINE p == <<r.ev, r.owner>>
<1>1. p \in Owners(L)[n] /\ p[1] = r.ev
  BY DEF Says, Cited
<1>2. p \in Cited(d)
  <2> HIDE DEF p
  <2> QED BY <1>1
<1>3. PICK q \in d.evidence : <<q.ev, q.owner>> = <<r.ev, r.owner>>
  BY <1>2 DEF Cited
<1>4. q.ev = r.ev /\ q.owner = r.owner
  BY <1>3
<1> QED BY <1>4

LEMMA WriteSources ==
    ASSUME EvidenceInv, NEW B, Written(B, db, writes + 1), NEW embeds, WriteAs(B, embeds)
    PROVE  EvidenceInv' /\ Sourced(db, db', writes')
<1> DEFINE L == log \o B
           n == Len(log)
           w == writes + 1
           after == Replay(db, L, n, FALSE, embeds)
<1>1. IsLog(B) /\ FreshIds(B, w) /\ JudgedOnce(B) /\ Unanswered(B, db)
  BY DEF Written
<1>2. IsLog(log) /\ n \in Nat /\ applied = n /\ applied # Void
  BY LogForm DEF EvidenceInv, HistoryInv, WriteAs, Converged, Void
<1>3. Tells(db, log, n) /\ Says(db, log, n) /\ JudgedOnce(log)
  BY <1>2 DEF EvidenceInv, HistoryInv
<1>4. HistoryInv'
  BY <1>1, WriteKeeps DEF EvidenceInv
<1>5. log' = L /\ writes' = w
  BY DEF WriteAs
<1>6. \/ ~after.failed /\ db' = after /\ applied' = Len(log')
      \/ db' = db /\ applied' = applied
  BY DEF WriteAs
<1>7. /\ IsLog(L) /\ Len(L) = n + Len(B) /\ Len(B) \in Nat
      /\ \A i \in 1..n : L[i] = log[i]
      /\ \A i \in n + 1..Len(L) : i - n \in 1..Len(B) /\ L[i] = B[i - n]
  BY <1>1, <1>2, LogGrows, TailOf
<1>8. JudgedOnce(L)
  BY <1>1, <1>2, <1>3, JudgedGrows
<1> HIDE DEF L, w
<1>9. n \in 0..Len(L) /\ n \in 0..Len(log) /\ n <= Len(L) /\ Len(L) \in Nat
  BY <1>2, <1>7
<1>10. Says(db, L, n)
  BY <1>2, <1>3, <1>7, <1>9, SaysPrefix
<1>11. Tells(db, L, n)
  BY <1>2, <1>3, <1>7, SamePrefixTells
<1>12. ASSUME NEW p \in Owners(L)[Len(L)], p \notin Cited(db) PROVE p[1][1] = w
  <2>1. p \notin Owners(L)[n]
    BY <1>10, <1>12 DEF Says
  <2>2. PICK i \in n + 1..Len(L) : L[i].op = "evidence_add" /\ p = <<L[i].ev, L[i].id>>
    BY <1>7, <1>9, <2>1, OwnersGrow
  <2>3. i - n \in DOMAIN B /\ L[i] = B[i - n]
    BY <1>1, <1>7, LogForm
  <2>4. L[i].ev[1] = w
    BY <1>1, <2>2, <2>3 DEF FreshIds
  <2> QED BY <2>2, <2>4
<1>13. CASE ~after.failed /\ db' = after /\ applied' = Len(log')
  <2> HIDE DEF n
  <2>1. Says(after, L, Len(L))
    BY <1>7, <1>8, <1>9, <1>10, <1>11, <1>13, ReplaySays
  <2> HIDE DEF after
  <2>2. Says(db', log', applied') /\ JudgedOnce(log')
    BY <1>5, <1>8, <1>13, <2>1
  <2>3. \A p \in Owners(log')[Len(log')] : p \in Cited(db') \/ p[1][1] = writes'
    BY <1>5, <1>13, <2>1 DEF Says
  <2>4. EvidenceInv'
    BY <1>4, <2>2, <2>3 DEF EvidenceInv
  <2>5. Sourced(db, db', writes')
    BY <1>5, <1>12, <1>13, <2>1, SaidIsSourced
  <2> QED BY <2>4, <2>5
<1>14. CASE db' = db /\ applied' = applied
  <2>1. Says(db', log', applied') /\ JudgedOnce(log')
    BY <1>2, <1>5, <1>8, <1>10, <1>14
  <2>2. \A p \in Owners(log')[Len(log')] : p \in Cited(db') \/ p[1][1] = writes'
    BY <1>5, <1>12, <1>14
  <2>3. EvidenceInv'
    BY <1>4, <2>1, <2>2 DEF EvidenceInv
  <2> QED BY <1>14, <2>3, SameIsSourced
<1> QED BY <1>6, <1>13, <1>14

-----------------------------------------------------------------------------
(* The other steps.                                                        *)

LEMMA CompactSources ==
    ASSUME EvidenceInv, Compact
    PROVE  EvidenceInv' /\ Sourced(db, db', writes')
<1>1. /\ IsLog(log) /\ Len(log) \in Nat /\ applied = Len(log) /\ applied # Void
      /\ JudgedOnce(log)
  BY LogForm DEF EvidenceInv, HistoryInv, Compact, Converged, Void
<1>2. Says(db, log, Len(log))
  BY <1>1 DEF EvidenceInv
<1>3. log' \in {log, Compacted(log)} /\ applied' = Void /\ db' = db /\ writes' = writes
  BY DEF Compact
<1>4. HistoryInv'
  BY CompactKeeps DEF EvidenceInv
<1>5. JudgedOnce(log') /\ Owners(log')[Len(log')] \subseteq Owners(log)[Len(log)]
  <2>1. CASE log' = log
    BY <1>1, <2>1
  <2>2. CASE log' = Compacted(log)
    <3>1. PICK pos : Rewrites(log', log, Kept(log), pos)
      BY <1>1, <2>2, CompactedIs
    <3>2. IsLog(log')
      BY <1>4 DEF HistoryInv
    <3> QED BY <1>1, <3>1, <3>2, RewriteOwns, RewriteJudgesOnce
  <2> QED BY <1>3, <2>1, <2>2
<1>6. \A p \in Owners(log')[Len(log')] : p \in Cited(db')
  BY <1>2, <1>3, <1>5 DEF Says
<1>7. EvidenceInv'
  BY <1>3, <1>4, <1>5, <1>6 DEF EvidenceInv
<1> QED BY <1>3, <1>7, SameIsSourced

(* Tables that hold what the whole log says. *)
LEMMA FullySaid ==
    ASSUME EvidenceInv, HistoryInv', log' = log, writes' = writes, applied' = Len(log),
           Says(db', log, Len(log))
    PROVE  EvidenceInv' /\ Sourced(db, db', writes')
<1>1. Sourced(db, db', writes')
  BY SaidIsSourced DEF EvidenceInv
<1>2. JudgedOnce(log') /\ Says(db', log', applied')
  BY DEF EvidenceInv
<1>3. \A p \in Owners(log')[Len(log')] : p \in Cited(db') \/ p[1][1] = writes'
  BY DEF Says
<1> QED BY <1>1, <1>2, <1>3 DEF EvidenceInv

LEMMA CatchUpSources ==
    ASSUME EvidenceInv, CatchUp
    PROVE  EvidenceInv' /\ Sourced(db, db', writes')
<1>1. /\ IsLog(log) /\ Len(log) \in Nat /\ applied \in 0..Len(log) - 1 /\ applied # Void
      /\ JudgedOnce(log) /\ applied \in 0..Len(log)
  BY LogForm DEF EvidenceInv, HistoryInv, CatchUp, Void
<1>2. Tells(db, log, applied) /\ Says(db, log, applied)
  BY <1>1 DEF EvidenceInv, HistoryInv
<1>3. PICK embeds : /\ ~ReplayTail(db, log, applied, embeds).failed
                    /\ db' = ReplayTail(db, log, applied, embeds)
  BY DEF CatchUp
<1>4. db' = Replay(db, log, applied, TRUE, embeds) /\ ~db'.failed
  BY <1>3 DEF ReplayTail
<1>5. Says(db', log, Len(log))
  BY <1>1, <1>2, <1>4, ReplaySays
<1>6. HistoryInv'
  BY CatchUpKeeps DEF EvidenceInv
<1> QED BY <1>5, <1>6, FullySaid DEF CatchUp

LEMMA RebuildSources ==
    ASSUME EvidenceInv, Rebuild
    PROVE  EvidenceInv' /\ Sourced(db, db', writes')
<1>1. IsLog(log) /\ JudgedOnce(log)
  BY DEF EvidenceInv, HistoryInv
<1>2. PICK embeds : ~Materialize(log, embeds).failed /\ db' = Materialize(log, embeds)
  BY DEF Rebuild
<1>3. Says(db', log, Len(log))
  BY <1>1, <1>2, MaterializeSays
<1>4. HistoryInv'
  BY RebuildKeeps DEF EvidenceInv
<1> QED BY <1>3, <1>4, FullySaid DEF Rebuild

LEMMA SameTablesSourced ==
    ASSUME EvidenceInv, HistoryInv', log' = log, writes' = writes, applied' = applied,
           db'.evidence = db.evidence, db'.entries = db.entries
    PROVE  EvidenceInv' /\ Sourced(db, db', writes')
<1>1. Cited(db') = Cited(db)
  BY DEF Cited
<1>2. \A e : LiveIn(db', e) <=> LiveIn(db, e)
  BY DEF LiveIn
<1>3. applied' # Void => Says(db', log', applied')
  BY <1>1, <1>2 DEF EvidenceInv, Says
<1>4. EvidenceInv'
  BY <1>1, <1>3 DEF EvidenceInv
<1> QED BY <1>1, <1>4, SameIsSourced

LEMMA ReembedSources ==
    ASSUME EvidenceInv, Reembed
    PROVE  EvidenceInv' /\ Sourced(db, db', writes')
<1>1. log' = log /\ applied' = applied /\ writes' = writes
  BY DEF Reembed, ReembedSelect, ReembedEnd, ReembedWrite
<1>2. Shape(db)
  BY DEF EvidenceInv, HistoryInv, Foretold, Tells
<1>3. db'.evidence = db.evidence /\ db'.entries = db.entries
  <2>1. ASSUME NEW w, db' = [db EXCEPT !.emb[w.id] = w.text]
        PROVE  db'.evidence = db.evidence /\ db'.entries = db.entries
    <3> DEFINE v == [db.emb EXCEPT ![w.id] = w.text]
    <3>1. db' = [db EXCEPT !.emb = v]
      BY <2>1
    <3> HIDE DEF v
    <3> QED BY <1>2, <3>1, OneTable
  <2> QED BY <2>1 DEF Reembed, ReembedSelect, ReembedEnd, ReembedWrite
<1>4. HistoryInv'
  BY ReembedKeeps DEF EvidenceInv
<1> QED BY <1>1, <1>3, <1>4, SameTablesSourced

LEMMA EvidenceInit ==
    ASSUME KbInit
    PROVE  EvidenceInv
<1>1. IsLog(log) /\ Len(log) \in Nat /\ applied \in 0..Len(log) /\ writes = 0 /\ log \in InitialLogs
  BY ContentAssumption, LogForm DEF KbInit, Init
<1>2. /\ JudgedOnce(log)
      /\ \A i \in DOMAIN log : log[i].op = "evidence_add" => log[i].ev[1] = 0
  BY <1>1, EarlierAssumption
<1>3. PICK embeds : db = Materialize(SubSeq(log, 1, applied), embeds) /\ ~db.failed
  BY DEF KbInit, Init
<1> DEFINE K == SubSeq(log, 1, applied)
<1>4. IsLog(K) /\ Len(K) = applied /\ \A i \in 1..applied : K[i] = log[i]
  BY <1>1, PrefixIsLog
<1>5. db = Materialize(K, embeds)
  BY <1>3
<1> HIDE DEF K
<1>6. JudgedOnce(K)
  <2>1. DOMAIN K \subseteq DOMAIN log /\ \A i \in DOMAIN K : K[i] = log[i]
    BY <1>1, <1>4, LogForm
  <2> QED BY <1>2, <2>1 DEF JudgedOnce
<1>7. Says(db, K, applied)
  BY <1>3, <1>4, <1>5, <1>6, MaterializeSays
<1>8. Says(db, log, applied)
  <2>1. applied \in 0..Len(K) /\ applied <= Len(log) /\ \A i \in 1..applied : log[i] = K[i]
    BY <1>1, <1>4
  <2> QED BY <1>1, <1>4, <1>7, <2>1, SaysPrefix
<1>9. ASSUME NEW p \in Owners(log)[Len(log)] PROVE p[1][1] = writes
  <2>1. p \notin Owners(log)[0] /\ 0 \in 0..Len(log)
    BY <1>1, OwnersIs
  <2>2. PICK i \in 0 + 1..Len(log) : log[i].op = "evidence_add" /\ p = <<log[i].ev, log[i].id>>
    BY <1>1, <2>1, OwnersGrow
  <2>3. log[i].ev[1] = 0
    BY <1>1, <1>2, <2>2, LogForm
  <2> QED BY <1>1, <2>2, <2>3
<1> QED BY <1>2, <1>8, <1>9, HistoryInit DEF EvidenceInv

LEMMA EvidenceNext ==
    ASSUME EvidenceInv, [KbNext]_kbVars
    PROVE  EvidenceInv' /\ Sourced(db, db', writes')
<1>1. ASSUME NEW B, Written(B, db, writes + 1), NEW embeds, WriteAs(B, embeds)
      PROVE  EvidenceInv' /\ Sourced(db, db', writes')
  BY <1>1, WriteSources
<1>2. CASE CatchUp \/ Compact \/ Rebuild \/ Reembed
  BY <1>2, CatchUpSources, CompactSources, RebuildSources, ReembedSources
<1>3. CASE UNCHANGED vars
  <2>1. HistoryInv'
    BY HistoryNext DEF EvidenceInv
  <2>2. log' = log /\ db' = db /\ applied' = applied /\ writes' = writes
    BY <1>3 DEF vars
  <2> QED BY <2>1, <2>2, SameTablesSourced
<1>4. HistoryInv
  BY DEF EvidenceInv
<1> QED BY <1>1, <1>2, <1>3, <1>4, KbStep

(* Evidence that an expiry, a verdict or a removal took from an entry is not back
   after any later write, recovery, rebuild or compaction, for any entries, logs and
   clients: evidence that appears is of the batch written last (compact.rs:
   evidence_owner_by_id; db.rs: apply_evidence_add).                             *)
THEOREM NoEvidenceComesBack == KbSpec => NoEvidenceRevived
<1>1. EvidenceInv /\ [KbNext]_kbVars
        => [\A r \in db'.evidence :
              \/ \E q \in db.evidence : q.ev = r.ev /\ q.owner = r.owner
              \/ r.ev[1] = writes']_vars
  BY EvidenceNext DEF Sourced
<1>2. EvidenceInv /\ [KbNext]_kbVars => EvidenceInv'
  BY EvidenceNext
<1> QED BY <1>1, <1>2, EvidenceInit, PTL DEF KbSpec, NoEvidenceRevived

-----------------------------------------------------------------------------
(* What the row of a live entry shows, and which vectors a replay leaves.   *)

Dates(ev, e) == ev.op \in DatingOps /\ ev.id = e

(* The path and the text of its latest upsert, and the time of an event since. *)
RowSaid(r, L, e, n) ==
    \E u, j : /\ Latest(L, u, e, n) /\ r.path = L[u].path /\ r.text = L[u].ts
              /\ j \in u..n /\ Dates(L[j], e) /\ r.updated = L[j].ts

Depicts(d, L, n) == \A e \in Entries : LiveIn(d, e) => RowSaid(d.entries[e], L, e, n)

(* The vectors of c: none, those that b had, or of the texts of the rows. *)
Vectors(c, b, embeds) ==
    /\ VectorTable(c.emb)
    /\ \A e \in Entries : \/ c.emb[e] \in {NoVector, b.emb[e]}
                          \/ embeds /\ c.emb[e] = c.entries[e].text

LEMMA RowStays ==
    ASSUME NEW L, NEW n \in Nat, NEW e, NEW r, RowSaid(r, L, e, n), ~IsUpsert(L, n + 1, e)
    PROVE  /\ RowSaid(r, L, e, n + 1)
           /\ \A q : /\ q.path = r.path /\ q.text = r.text
                     /\ Dates(L[n + 1], e) /\ q.updated = L[n + 1].ts
                     => RowSaid(q, L, e, n + 1)
<1>1. PICK u, j : /\ Latest(L, u, e, n) /\ r.path = L[u].path /\ r.text = L[u].ts
                  /\ j \in u..n /\ Dates(L[j], e) /\ r.updated = L[j].ts
  BY DEF RowSaid
<1>2. u \in 1..n /\ j \in u..n + 1 /\ n + 1 \in u..n + 1
  BY <1>1 DEF Latest
<1>3. Latest(L, u, e, n + 1)
  <2>1. u \in 1..n + 1 /\ \A w \in u + 1..n + 1 : w \in u + 1..n \/ w = n + 1
    BY <1>2
  <2> QED BY <1>1, <2>1 DEF Latest
<1>4. RowSaid(r, L, e, n + 1)
  BY <1>1, <1>2, <1>3 DEF RowSaid
<1>5. ASSUME NEW q, q.path = r.path, q.text = r.text, Dates(L[n + 1], e),
             q.updated = L[n + 1].ts
      PROVE  RowSaid(q, L, e, n + 1)
  BY <1>1, <1>2, <1>3, <1>5 DEF RowSaid
<1> QED BY <1>4, <1>5

LEMMA RowWritten ==
    ASSUME NEW L, NEW n \in Nat, NEW e, NEW r, IsUpsert(L, n + 1, e), RowOf(r, L[n + 1])
    PROVE  RowSaid(r, L, e, n + 1)
<1>1. n + 1 \in 1..n + 1 /\ (n + 1) + 1..n + 1 = {} /\ n + 1 \in n + 1..n + 1
  OBVIOUS
<1>2. Latest(L, n + 1, e, n + 1)
  BY <1>1 DEF Latest
<1>3. Dates(L[n + 1], e)
  BY DEF Dates, DatingOps, IsUpsert
<1> QED BY <1>1, <1>2, <1>3 DEF RowSaid, RowOf

(* Rows that stay as they are, or go. *)
LEMMA SameRowsDepict ==
    ASSUME NEW L, NEW n \in Nat, NEW d, Depicts(d, L, n), NEW c,
           L[n + 1].op # "upsert",
           \A e \in Entries : LiveIn(c, e) => LiveIn(d, e) /\ c.entries[e] = d.entries[e]
    PROVE  Depicts(c, L, n + 1)
BY RowStays DEF Depicts, IsUpsert

LEMMA SameVectors ==
    ASSUME NEW b, NEW d, NEW c, NEW embeds, Vectors(d, b, embeds), c.emb = d.emb,
           \A e \in Entries : c.entries[e].text = d.entries[e].text
    PROVE  Vectors(c, b, embeds)
BY DEF Vectors

LEMMA UpsertShows ==
    ASSUME NEW L, IsLog(L), NEW n \in Nat, n + 1 \in 1..Len(L), NEW d, Shape(d), Depicts(d, L, n),
           L[n + 1].op = "upsert", NEW embeds,
           NEW c, c = ApplyUpsert(d, L[n + 1], embeds), NEW b, Vectors(d, b, embeds)
    PROVE  Depicts(c, L, n + 1) /\ Vectors(c, b, embeds)
<1> DEFINE ev == L[n + 1]
<1>1. IsEvent(ev) /\ ev.op = "upsert" /\ ev.id \in Entries /\ c = ApplyUpsert(d, ev, embeds)
  BY LogForm DEF IsEvent, EvidenceOps
<1>2. \A e : IsUpsert(L, n + 1, e) <=> e = ev.id
  BY <1>1 DEF IsUpsert
<1>3. Dates(ev, ev.id)
  BY <1>1 DEF Dates, DatingOps
<1> HIDE DEF ev
<1>4. /\ c.emb = Embedded(d, ev, embeds)
      /\ OtherRows(c, d, ev.id) /\ RowOf(c.entries[ev.id], ev)
  BY <1>1, UpsertRow
<1>5. Depicts(c, L, n + 1)
  <2> SUFFICES ASSUME NEW e \in Entries, LiveIn(c, e) PROVE RowSaid(c.entries[e], L, e, n + 1)
    BY DEF Depicts
  <2>1. CASE e = ev.id
    BY <1>2, <1>4, <2>1, RowWritten DEF ev
  <2>2. CASE e # ev.id
    <3>1. c.entries[e] = d.entries[e] /\ LiveIn(d, e)
      BY <1>4, <2>2 DEF OtherRows, LiveIn
    <3> QED BY <1>2, <2>2, <3>1, RowStays DEF Depicts
  <2> QED BY <2>1, <2>2
<1>6. \A e \in Entries : c.emb[e] = IF e = ev.id /\ embeds THEN ev.ts ELSE d.emb[e]
  BY <1>1, <1>4 DEF Embedded, Vectors, VectorTable
<1>a. VectorTable(c.emb)
  BY <1>1, <1>4 DEF Embedded, Vectors, VectorTable
<1>7. ASSUME NEW e \in Entries
      PROVE  \/ c.emb[e] \in {NoVector, b.emb[e]}
             \/ embeds /\ c.emb[e] = c.entries[e].text
  <2>1. CASE e = ev.id /\ embeds
    BY <1>4, <1>6, <2>1 DEF RowOf
  <2>2. CASE e = ev.id /\ ~embeds
    BY <1>6, <2>2 DEF Vectors
  <2>3. CASE e # ev.id
    <3>1. c.entries[e] = d.entries[e] /\ c.emb[e] = d.emb[e]
      BY <1>4, <1>6, <2>3 DEF OtherRows
    <3> QED BY <3>1 DEF Vectors
  <2> QED BY <2>1, <2>2, <2>3
<1> QED BY <1>5, <1>7, <1>a DEF Vectors

LEMMA ExpiredShows ==
    ASSUME NEW L, NEW n \in Nat, NEW d, Depicts(d, L, n), L[n + 1].op # "upsert",
           NEW a, Shape(a), a.entries = d.entries, a.emb = d.emb,
           NEW ended, NEW ts, NEW c, c = Expired(a, ended, ts),
           NEW embeds, NEW b, Vectors(d, b, embeds)
    PROVE  Depicts(c, L, n + 1) /\ Vectors(c, b, embeds)
<1>1. /\ \A e \in Entries : c.emb[e] = IF e \in ended THEN NoVector ELSE a.emb[e]
      /\ \A e \in Entries : e \notin ended => c.entries[e] = a.entries[e]
      /\ \A e \in ended \cap Entries : ~LiveIn(c, e)
      /\ VectorTable(c.emb)
  BY ExpiredForm
<1>2. \A e \in Entries : LiveIn(c, e) => LiveIn(d, e) /\ c.entries[e] = d.entries[e]
  BY <1>1 DEF LiveIn
<1>3. Depicts(c, L, n + 1)
  BY <1>2, SameRowsDepict
<1>4. Vectors(c, b, embeds)
  BY <1>1 DEF Vectors
<1> QED BY <1>3, <1>4

LEMMA EvidenceShows ==
    ASSUME NEW L, IsLog(L), NEW n \in Nat, n + 1 \in 1..Len(L), NEW d, Shape(d), Depicts(d, L, n),
           L[n + 1].op \in {"evidence_add", "evidence_expire"},
           NEW c, \/ c = ApplyEvidenceAdd(d, L[n + 1])
                  \/ c = ApplyEvidenceExpire(d, L[n + 1]),
           NEW embeds, NEW b, Vectors(d, b, embeds)
    PROVE  Depicts(c, L, n + 1) /\ Vectors(c, b, embeds)
<1> DEFINE ev == L[n + 1]
<1>1. ev.id \in Entries /\ Dates(ev, ev.id) /\ ev.op # "upsert"
  BY LogForm DEF IsEvent, EvidenceOps, Dates, DatingOps
<1> HIDE DEF ev
<1>2. /\ ~LiveIn(d, ev.id) => c = d
      /\ LiveIn(d, ev.id) => c.entries[ev.id].updated = ev.ts
      /\ c.emb = d.emb
      /\ \A x \in Entries : x # ev.id => c.entries[x] = d.entries[x]
      /\ SameRow(c.entries[ev.id], d.entries[ev.id])
  BY <1>1, EvidenceAddForm, EvidenceExpireForm DEF ev
<1>3. \A e : ~IsUpsert(L, n + 1, e)
  BY <1>1 DEF ev, IsUpsert
<1>4. Depicts(c, L, n + 1)
  <2> SUFFICES ASSUME NEW e \in Entries, LiveIn(c, e) PROVE RowSaid(c.entries[e], L, e, n + 1)
    BY DEF Depicts
  <2>1. LiveIn(d, e) /\ RowSaid(d.entries[e], L, e, n)
    BY <1>2 DEF LiveIn, SameRow, Depicts
  <2>2. CASE e = ev.id
    <3>1. /\ c.entries[e].path = d.entries[e].path /\ c.entries[e].text = d.entries[e].text
          /\ c.entries[e].updated = L[n + 1].ts /\ Dates(L[n + 1], e)
      BY <1>1, <1>2, <2>1, <2>2 DEF SameRow, ev
    <3> QED BY <1>3, <2>1, <3>1, RowStays
  <2>3. CASE e # ev.id
    BY <1>2, <1>3, <2>1, <2>3, RowStays
  <2> QED BY <2>2, <2>3
<1>5. \A e \in Entries : c.entries[e].text = d.entries[e].text
  BY <1>2 DEF SameRow
<1> QED BY <1>2, <1>4, <1>5, SameVectors

AsBefore(c, d) == c.entries = d.entries /\ c.emb = d.emb

LEMMA OthersShow ==
    ASSUME NEW L, NEW n \in Nat, NEW d, Depicts(d, L, n), L[n + 1].op # "upsert",
           NEW c, AsBefore(c, d), NEW embeds, NEW b, Vectors(d, b, embeds)
    PROVE  Depicts(c, L, n + 1) /\ Vectors(c, b, embeds)
<1>1. \A e \in Entries : LiveIn(c, e) => LiveIn(d, e) /\ c.entries[e] = d.entries[e]
  BY DEF LiveIn, AsBefore
<1>2. Depicts(c, L, n + 1)
  BY <1>1, SameRowsDepict
<1>3. Vectors(c, b, embeds)
  BY SameVectors DEF AsBefore
<1> QED BY <1>2, <1>3

(* One event more. *)
LEMMA ApplyShows ==
    ASSUME NEW L, IsLog(L), NEW n \in Nat, n + 1 \in 1..Len(L), NEW d, Shape(d), Depicts(d, L, n),
           NEW occurrence, NEW embeds, NEW c, c = Apply(d, L[n + 1], occurrence, embeds), ~c.failed,
           NEW b, Vectors(d, b, embeds)
    PROVE  Depicts(c, L, n + 1) /\ Vectors(c, b, embeds)
<1> DEFINE ev == L[n + 1]
<1>0. IsEvent(ev)
  BY LogForm
<1>1. CASE ev.op = "upsert"
  BY <1>1, UpsertShows DEF Apply
<1>2. CASE ev.op = "expire"
  <2>1. c = Expired(d, {ev.id}, ev.ts) /\ ev.op # "upsert"
    BY <1>2 DEF Apply, ApplyExpire
  <2> QED BY <2>1, ExpiredShows
<1>3. CASE ev.op \in {"evidence_add", "evidence_expire"}
  <2>1. c = ApplyEvidenceAdd(d, ev) \/ c = ApplyEvidenceExpire(d, ev)
    BY <1>3 DEF Apply
  <2> QED BY <1>3, <2>1, EvidenceShows
<1>4. CASE ev.op = "citation_healed"
  <2> DEFINE x == {IF r.ev = ev.ev /\ r.owner = ev.id THEN [r EXCEPT !.at = ev.at] ELSE r :
                      r \in d.evidence}
  <2>1. c = [d EXCEPT !.evidence = x]
    BY <1>4 DEF Apply, ApplyHealed
  <2> HIDE DEF x
  <2>2. AsBefore(c, d)
    BY <2>1, OneTable DEF AsBefore
  <2>3. L[n + 1].op # "upsert"
    BY <1>4
  <2> QED BY <2>2, <2>3, OthersShow
<1>5. CASE ev.op = "verdicts"
  <2>1. \/ c = [d EXCEPT !.failed = TRUE]
        \/ \E x, y, ended : c = Expired([d EXCEPT !.verdicts = x, !.weights = y], ended, ev.ts)
    BY <1>5 DEF Apply, ApplyVerdicts
  <2>2. c # [d EXCEPT !.failed = TRUE]
    BY DEF Shape
  <2>3. PICK x, y, ended : c = Expired([d EXCEPT !.verdicts = x, !.weights = y], ended, ev.ts)
    BY <2>1, <2>2
  <2> DEFINE m == [d EXCEPT !.verdicts = x]
             a == [m EXCEPT !.weights = y]
  <2>4. c = Expired(a, ended, ev.ts)
    BY <2>3
  <2>5. Shape(m) /\ m.entries = d.entries /\ m.emb = d.emb
    BY OtherTables, TableForm
  <2> HIDE DEF m
  <2>6. Shape(a) /\ a.entries = m.entries /\ a.emb = m.emb
    BY <2>5, OtherTables, TableForm
  <2> HIDE DEF a
  <2>7. ev.op # "upsert"
    BY <1>5
  <2> QED BY <2>4, <2>5, <2>6, <2>7, ExpiredShows
<1>6. CASE ev.op \in {"candidates", "run", "test"}
  <2>1. \/ c = [d EXCEPT !.failed = TRUE]
        \/ \E x : \/ c = [d EXCEPT !.candidates = x]
                  \/ c = [d EXCEPT !.runs = x]
                  \/ c = [d EXCEPT !.tests = x]
    <3>1. CASE ev.op = "candidates"
      BY <3>1 DEF Apply, ApplyCandidates
    <3>2. CASE ev.op = "run"
      BY <3>2 DEF Apply, ApplyRun
    <3>3. CASE ev.op = "test"
      <4> DEFINE t == [d.tests EXCEPT ![ev.id] = ev.ts]
      <4>1. c = [d EXCEPT !.tests = t]
        BY <3>3 DEF Apply, ApplyTest
      <4> HIDE DEF t
      <4> QED BY <4>1
    <3> QED BY <1>6, <3>1, <3>2, <3>3
  <2>2. c # [d EXCEPT !.failed = TRUE]
    BY DEF Shape
  <2>3. AsBefore(c, d)
    <3>1. PICK x : \/ c = [d EXCEPT !.candidates = x]
                   \/ c = [d EXCEPT !.runs = x]
                   \/ c = [d EXCEPT !.tests = x]
      BY <2>1, <2>2
    <3>2. CASE c = [d EXCEPT !.candidates = x]
      BY <3>2, OtherTables DEF AsBefore
    <3>3. CASE c = [d EXCEPT !.runs = x]
      BY <3>3, OtherTables DEF AsBefore
    <3>4. CASE c = [d EXCEPT !.tests = x]
      BY <3>4, OtherTables DEF AsBefore
    <3> QED BY <3>1, <3>2, <3>3, <3>4
  <2>4. L[n + 1].op # "upsert"
    BY <1>6
  <2> QED BY <2>3, <2>4, OthersShow
<1> QED BY <1>0, <1>1, <1>2, <1>3, <1>4, <1>5, <1>6 DEF IsEvent, EvidenceOps

Shows(d, L, m, b, embeds) == Shape(d) /\ Depicts(d, L, m) /\ Vectors(d, b, embeds)

LEMMA NextShows ==
    ASSUME NEW L, IsLog(L), NEW n \in Nat, n + 1 \in 1..Len(L), NEW m, m = n + 1,
           NEW d, NEW b, NEW embeds, Shows(d, L, n, b, embeds),
           NEW occurrence, NEW c, c = Apply(d, L[m], occurrence, embeds), Shape(c), ~c.failed
    PROVE  Shows(c, L, m, b, embeds)
<1>1. Shape(d) /\ Depicts(d, L, n) /\ Vectors(d, b, embeds)
  BY DEF Shows
<1>2. Depicts(c, L, n + 1) /\ Vectors(c, b, embeds)
  <2>1. c = Apply(d, L[n + 1], occurrence, embeds)
    OBVIOUS
  <2> QED BY <1>1, <2>1, ApplyShows
<1> QED BY <1>2 DEF Shows

(* Whatever is replayed, the rows show what the log says if they did, and a vector that
   appears is of the text of its row. *)
LEMMA ReplayShows ==
    ASSUME NEW L, IsLog(L), NEW from \in 0..Len(L),
           NEW d, Shape(d), Depicts(d, L, from), VectorTable(d.emb), NEW counts, NEW embeds,
           NEW c, c = Replay(d, L, from, counts, embeds), ~c.failed
    PROVE  Depicts(c, L, Len(L)) /\ Vectors(c, d, embeds)
<1>0. Len(L) \in Nat /\ from <= Len(L) /\ from \in Nat
  BY LogForm
<1>1. PICK f : /\ Replaying(f, d, L, from, Len(L), counts, embeds)
               /\ c = f[Len(L)]
  BY <1>0, ReplayIs
<1> DEFINE Shown(i) == Depicts(f[i], L, i) /\ Vectors(f[i], d, embeds)
           Good(i) == Shape(f[i]) /\ (f[i].failed \/ Shown(i))
           S == {k \in 0..Len(L) - from : Good(from + k)}
<1>2. 0 \in S
  <2>1. f[from] = d /\ from + 0 = from /\ 0 \in 0..Len(L) - from
    BY <1>0, <1>1 DEF Replaying
  <2>2. Good(from)
    BY <2>1 DEF Vectors
  <2> HIDE DEF Good
  <2> QED BY <2>1, <2>2
<1>3. ASSUME NEW k \in 0..Len(L) - from - 1, k \in S PROVE k + 1 \in S
  <2> DEFINE i == from + k
             x == Given(L, i + 1, counts)
  <2>1. /\ i \in Nat /\ i + 1 = from + (k + 1) /\ i + 1 \in from..Len(L) /\ i + 1 # from
        /\ (i + 1) - 1 = i /\ i + 1 \in 1..Len(L) /\ k + 1 \in 0..Len(L) - from
    BY <1>0
  <2>2. Good(i)
    BY <1>3
  <2>3. IsEvent(L[i + 1])
    BY <2>1, LogForm
  <2>4. f[i + 1] = Apply(f[i], L[i + 1], x, embeds)
    BY <1>1, <2>1 DEF Replaying
  <2> HIDE DEF i, x
  <2>5. Shape(f[i + 1]) /\ (f[i].failed => f[i + 1].failed)
    BY <2>2, <2>3, <2>4, ApplyForm
  <2>6. f[i + 1].failed \in BOOLEAN
    BY <2>5 DEF Shape
  <2>7. ASSUME ~f[i + 1].failed PROVE Shown(i + 1)
    <3>1. Shape(f[i]) /\ Shown(i)
      BY <2>2, <2>5, <2>7
    <3>2. Depicts(f[i], L, i) /\ Vectors(f[i], d, embeds)
      BY <3>1
    <3> DEFINE p == f[i]
               q == f[i + 1]
               m == i + 1
    <3> HIDE DEF p, q, m
    <3>3. Shows(p, L, i, d, embeds)
      BY <3>1, <3>2 DEF p, Shows
    <3>4. q = Apply(p, L[m], x, embeds) /\ Shape(q) /\ ~q.failed
      BY <2>4, <2>5, <2>7 DEF p, q, m
    <3>5. i \in Nat /\ i + 1 \in 1..Len(L) /\ m = i + 1
      BY <2>1 DEF m
    <3>6. Shows(q, L, m, d, embeds)
      BY <3>3, <3>4, <3>5, NextShows
    <3> QED BY <3>6 DEF q, m, Shows
  <2> HIDE DEF Shown
  <2>8. Good(i + 1)
    BY <2>5, <2>6, <2>7
  <2> HIDE DEF Good
  <2> QED BY <2>1, <2>8
<1>4. /\ Len(L) - from \in Nat /\ from + (Len(L) - from) = Len(L)
      /\ Len(L) - from \in 0..Len(L) - from
  BY <1>0
<1>5. Good(Len(L))
  <2> HIDE DEF Good
  <2>1. \A k \in 0..(Len(L) - from) - 1 : k \in S => k + 1 \in S
    BY <1>3
  <2> HIDE DEF S
  <2>2. Len(L) - from \in S
    BY <1>2, <1>4, <2>1, Upwards
  <2> QED BY <1>4, <2>2 DEF S
<1> QED BY <1>1, <1>5

LEMMA EmptyShows ==
    ASSUME NEW L
    PROVE  Shape(Empty) /\ Depicts(Empty, L, 0) /\ VectorTable(Empty.emb)
<1>1. Shape(Empty)
  BY EmptyTells DEF Tells
<1>2. \A e \in Entries : ~LiveIn(Empty, e)
  BY DEF LiveIn, Empty, Absent
<1>3. VectorTable(Empty.emb)
  BY DEF Empty, VectorTable
<1> QED BY <1>1, <1>2, <1>3 DEF Depicts

LEMMA MaterializeShows ==
    ASSUME NEW L, IsLog(L), NEW embeds, NEW c, c = Materialize(L, embeds), ~c.failed
    PROVE  /\ Depicts(c, L, Len(L)) /\ VectorTable(c.emb)
           /\ \A e \in Entries : c.emb[e] \in {NoVector, c.entries[e].text}
<1>1. Len(L) \in Nat /\ 0 \in 0..Len(L)
  BY LogForm
<1>2. Shape(Empty) /\ Depicts(Empty, L, 0) /\ VectorTable(Empty.emb)
  BY EmptyShows
<1>3. c = Replay(Empty, L, 0, FALSE, embeds)
  BY DEF Materialize
<1>4. Depicts(c, L, Len(L)) /\ Vectors(c, Empty, embeds)
  BY <1>1, <1>2, <1>3, ReplayShows
<1>5. \A e \in Entries : Empty.emb[e] = NoVector
  BY DEF Empty
<1> QED BY <1>4, <1>5 DEF Vectors

-----------------------------------------------------------------------------
(* Longer logs.                                                            *)

LEMMA SamePrefixLatest ==
    ASSUME NEW L, NEW K, NEW n \in Nat, \A i \in 1..n : K[i] = L[i], NEW u, NEW e
    PROVE  Latest(K, u, e, n) <=> Latest(L, u, e, n)
<1>1. \A v \in 1..n : v + 1..n \subseteq 1..n
  OBVIOUS
<1> QED BY <1>1 DEF Latest, IsUpsert

LEMMA SamePrefixDepicts ==
    ASSUME NEW L, NEW K, NEW n \in Nat, \A i \in 1..n : K[i] = L[i], NEW d, Depicts(d, L, n)
    PROVE  Depicts(d, K, n)
<1> SUFFICES ASSUME NEW e \in Entries, LiveIn(d, e) PROVE RowSaid(d.entries[e], K, e, n)
  BY DEF Depicts
<1> DEFINE r == d.entries[e]
<1>1. PICK u, j : /\ Latest(L, u, e, n) /\ r.path = L[u].path /\ r.text = L[u].ts
                  /\ j \in u..n /\ Dates(L[j], e) /\ r.updated = L[j].ts
  BY DEF Depicts, RowSaid
<1>2. Latest(K, u, e, n) /\ u \in 1..n /\ j \in 1..n
  BY <1>1, SamePrefixLatest DEF Latest
<1>3. K[u] = L[u] /\ K[j] = L[j]
  BY <1>2
<1> QED BY <1>1, <1>2, <1>3 DEF RowSaid

-----------------------------------------------------------------------------
(* The times of a log: what says when a row was updated, and of which text it
   then was.                                                                *)

DatedBy(L, s, i) ==
    /\ L[i].op \in DatingOps
    /\ \E u : Latest(L, u, L[i].id, i) /\ s = <<L[i].id, L[i].ts, L[u].ts>>

LEMMA LatestUpsertIsLatest ==
    ASSUME NEW L, IsLog(L), NEW e, NEW i \in 0..Len(L), LatestUpsert(L, e, i) # 0
    PROVE  Latest(L, LatestUpsert(L, e, i), e, i)
<1> DEFINE u == LatestUpsert(L, e, i)
<1>1. Len(L) \in Nat /\ i \in Nat /\ DOMAIN L = 1..Len(L)
  BY LogForm
<1>2. /\ u \in Nat /\ u <= i /\ u \in Upserts(L, e)
      /\ \A w \in Upserts(L, e) : w <= i => w <= u
  BY <1>1, LatestUpsertIs
<1> HIDE DEF u
<1>3. u \in 1..i /\ IsUpsert(L, u, e)
  BY <1>1, <1>2 DEF Upserts, IsUpsert
<1>4. ASSUME NEW w \in u + 1..i, IsUpsert(L, w, e) PROVE FALSE
  <2>1. w \in Upserts(L, e) /\ w <= i /\ ~(w <= u)
    BY <1>1, <1>3, <1>4 DEF Upserts, IsUpsert
  <2> QED BY <1>2, <2>1
<1>5. Latest(L, u, e, i)
  BY <1>3, <1>4 DEF Latest
<1> QED BY <1>5 DEF u

LEMMA AliveHasLatest ==
    ASSUME NEW L, IsLog(L), NEW e, NEW i \in 0..Len(L), Alive(L, e, i)
    PROVE  \E u : Latest(L, u, e, i) /\ u = LatestUpsert(L, e, i)
<1>1. Len(L) \in Nat /\ i \in Nat
  BY LogForm
<1>2. LatestUpsert(L, e, i) \in 1..i
  BY <1>1, LiveAtIs, LiveHasUpsert
<1> QED BY <1>2, LatestUpsertIsLatest

LEMMA TimesAre ==
    ASSUME NEW L, IsLog(L), NEW s
    PROVE  s \in Times(L) <=> \E i \in 1..Len(L) : DatedBy(L, s, i)
<1>1. Len(L) \in Nat /\ DOMAIN L = 1..Len(L)
  BY LogForm
<1>2. ASSUME s \in Times(L) PROVE \E i \in 1..Len(L) : DatedBy(L, s, i)
  <2>1. PICK i \in 1..Len(L) : /\ L[i].op \in DatingOps /\ LatestUpsert(L, L[i].id, i) # 0
                               /\ s = <<L[i].id, L[i].ts, L[LatestUpsert(L, L[i].id, i)].ts>>
    BY <1>1, <1>2 DEF Times
  <2>2. Latest(L, LatestUpsert(L, L[i].id, i), L[i].id, i)
    BY <1>1, <2>1, LatestUpsertIsLatest
  <2> QED BY <2>1, <2>2 DEF DatedBy
<1>3. ASSUME NEW i \in 1..Len(L), DatedBy(L, s, i) PROVE s \in Times(L)
  <2>1. PICK u : Latest(L, u, L[i].id, i) /\ s = <<L[i].id, L[i].ts, L[u].ts>>
    BY <1>3 DEF DatedBy
  <2>2. LatestUpsert(L, L[i].id, i) = u /\ u # 0
    BY <2>1, LatestIsUpsert DEF Latest
  <2> QED BY <1>1, <1>3, <2>1, <2>2 DEF Times, DatedBy
<1> QED BY <1>2, <1>3

LEMMA RowTimes ==
    ASSUME NEW L, IsLog(L), NEW n \in 0..Len(L), NEW d, Depicts(d, L, n),
           NEW e \in Entries, LiveIn(d, e)
    PROVE  <<e, d.entries[e].updated, d.entries[e].text>> \in Times(L)
<1> DEFINE r == d.entries[e]
           s == <<e, r.updated, r.text>>
<1>1. PICK u, j : /\ Latest(L, u, e, n) /\ r.path = L[u].path /\ r.text = L[u].ts
                  /\ j \in u..n /\ Dates(L[j], e) /\ r.updated = L[j].ts
  BY DEF Depicts, RowSaid
<1>2. Len(L) \in Nat /\ u \in 1..n /\ j \in 1..Len(L) /\ u \in 1..j
  BY <1>1, LogForm DEF Latest
<1>3. Latest(L, u, e, j)
  <2>1. \A w \in u + 1..j : w \in u + 1..n
    BY <1>1, <1>2
  <2> QED BY <1>1, <1>2, <2>1 DEF Latest
<1>4. DatedBy(L, s, j)
  BY <1>1, <1>3 DEF DatedBy, Dates
<1> HIDE DEF s
<1>5. s \in Times(L)
  BY <1>2, <1>4, TimesAre
<1> QED BY <1>5 DEF s

(* A compaction says nothing new: what dates a row still follows the text it dated. *)
LEMMA RewriteTimes ==
    ASSUME NEW L, IsLog(L), NEW C, IsLog(C), NEW pos, Rewrites(C, L, Kept(L), pos)
    PROVE  Times(C) \subseteq Times(L)
<1> DEFINE K == Kept(L)
           evidence == KeptEvidence(L)
<1>0. Len(L) \in Nat /\ Len(C) \in Nat /\ K \subseteq 1..Len(L)
  BY LogForm DEF Rewrites
<1>1. SUFFICES ASSUME NEW s, NEW n \in 1..Len(C), DatedBy(C, s, n)
               PROVE  \E i \in 1..Len(L) : DatedBy(L, s, i)
  BY TimesAre
<1>2. PICK v : Latest(C, v, C[n].id, n) /\ s = <<C[n].id, C[n].ts, C[v].ts>>
  BY <1>1 DEF DatedBy
<1>3. PICK i \in K : pos[i] = n /\ C[n] = L[i]
  BY DEF Rewrites
<1> DEFINE e == L[i].id
<1>4. v \in 1..n /\ v \in 1..Len(C) /\ IsUpsert(C, v, e)
  BY <1>0, <1>2, <1>3 DEF Latest
<1>5. PICK w \in K : pos[w] = v /\ C[v] = L[w]
  BY <1>4 DEF Rewrites
<1>6. IsUpsert(L, w, e) /\ i \in 1..Len(L) /\ w \in 1..Len(L)
  BY <1>0, <1>4, <1>5 DEF IsUpsert
<1> HIDE DEF K
<1>7. CASE L[i].op = "upsert"
  <2>1. v = n
    <3>1. IsUpsert(C, n, e)
      BY <1>3, <1>7 DEF IsUpsert
    <3>2. v = n \/ n \in v + 1..n
      BY <1>0, <1>4
    <3> QED BY <1>2, <1>3, <3>1, <3>2 DEF Latest
  <2>2. w = i
    BY <1>3, <1>5, <2>1 DEF Rewrites, K
  <2>3. Latest(L, i, e, i)
    <3>1. i \in 1..i /\ i + 1..i = {}
      BY <1>6
    <3> QED BY <1>6, <2>2, <3>1 DEF Latest
  <2> QED BY <1>1, <1>2, <1>3, <1>5, <1>6, <2>2, <2>3 DEF DatedBy
<1>8. CASE L[i].op # "upsert"
  <2>1. L[i].op \in EvidenceOps
    BY <1>1, <1>3, <1>8 DEF DatedBy, DatingOps, EvidenceOps
  <2>2. i \in evidence
    BY <2>1, EvidenceIsKept DEF K
  <2> DEFINE a == Anchor(L, i)
  <2>3. a \in Upserts(L, e) /\ a \in 1..Len(L) /\ a \in K /\ a = LatestUpsert(L, e, i)
    BY <2>2, AnchorIs DEF Anchor, Anchors, Kept, K
  <2>4. Latest(L, a, e, i)
    BY <1>6, <2>3, LatestUpsertIsLatest
  <2>5. ASSUME NEW x \in K, L[x].op = "upsert"
        PROVE  Place(L, evidence, x) = x
    <3>1. x \notin evidence
      BY <2>5 DEF KeptEvidence, EvidenceOps
    <3> QED BY <3>1 DEF Place
  <2>6. Place(L, evidence, i) = a
    BY <2>2 DEF Place
  <2>7. L[a].op = "upsert" /\ L[a].id = e /\ L[w].op = "upsert"
    BY <1>6, <2>3 DEF Upserts, IsUpsert
  <2> HIDE DEF a, e, evidence
  <2>8. a < i /\ a \in 1..i
    <3>1. a \in 1..i /\ a # i
      BY <1>8, <2>4, <2>7 DEF Latest
    <3> QED BY <1>6, <3>1
  <2>9. pos[a] < n
    <3>1. Precedes(L, evidence, a, i)
      BY <2>3, <2>5, <2>6, <2>7, <2>8 DEF Precedes
    <3> QED BY <1>3, <2>3, <3>1 DEF Rewrites, K, evidence
  <2>10. w = a
    <3>1. CASE w < a
      <4>1. pos[w] < pos[a]
        BY <2>3, <2>7, <3>1 DEF Rewrites, K, EvidenceOps
      <4>2. pos[a] \in 1..Len(C) /\ C[pos[a]] = L[a]
        BY <2>3 DEF Rewrites, K
      <4>3. pos[a] \in v + 1..n
        BY <1>0, <1>4, <1>5, <2>9, <4>1, <4>2
      <4>4. IsUpsert(C, pos[a], e)
        BY <2>7, <4>2 DEF IsUpsert
      <4> QED BY <1>2, <1>3, <4>3, <4>4 DEF Latest, e
    <3>2. CASE w > a
      <4>1. Place(L, evidence, w) = w
        BY <2>5, <2>7
      <4>2. Precedes(L, evidence, i, w)
        BY <1>6, <2>3, <2>6, <3>2, <4>1 DEF Precedes
      <4>3. n < v
        BY <1>3, <1>5, <4>2 DEF Rewrites, K, evidence
      <4> QED BY <1>0, <1>4, <4>3
    <3> QED BY <1>6, <2>3, <3>1, <3>2
  <2> QED BY <1>1, <1>2, <1>3, <1>5, <1>6, <2>4, <2>10 DEF DatedBy, e
<1> QED BY <1>7, <1>8

-----------------------------------------------------------------------------
(* Who is live at ThePath, as far as the log says.                          *)

Here(L, e, n) == Alive(L, e, n) /\ \E u : Latest(L, u, e, n) /\ L[u].path = ThePath

LEMMA HereIs ==
    ASSUME NEW L, NEW n \in Nat, NEW d, Says(d, L, n), Depicts(d, L, n), NEW e \in Entries
    PROVE  LiveIn(d, e) /\ d.entries[e].path = ThePath <=> Here(L, e, n)
<1>1. LiveIn(d, e) <=> Alive(L, e, n)
  BY DEF Says
<1>2. ASSUME LiveIn(d, e) PROVE d.entries[e].path = ThePath <=> Here(L, e, n)
  <2>1. PICK u : Latest(L, u, e, n) /\ d.entries[e].path = L[u].path
    BY <1>2 DEF Depicts, RowSaid
  <2> QED BY <1>1, <1>2, <2>1, LatestIsOne DEF Here
<1> QED BY <1>1, <1>2 DEF Here

(* The events of the rewritten log up to b, evidence apart, are from the events up to a:
   what was last written then, if that is kept, is what was last written. *)
LEMMA CutLatest ==
    ASSUME NEW L, IsLog(L), NEW C, IsLog(C), NEW pos, Rewrites(C, L, Kept(L), pos),
           NEW a \in 1..Len(L), NEW e, NEW u \in Kept(L), Latest(L, u, e, a),
           NEW b \in 1..Len(C), pos[u] <= b,
           \A i \in Kept(L) : pos[i] <= b /\ L[i].op \notin EvidenceOps => i <= a
    PROVE  Latest(C, pos[u], e, b) /\ (Alive(L, e, a) => Alive(C, e, b))
<1> DEFINE K == Kept(L)
<1>0. /\ Len(L) \in Nat /\ Len(C) \in Nat /\ K \subseteq 1..Len(L)
      /\ pos[u] \in 1..Len(C) /\ C[pos[u]] = L[u] /\ u \in 1..a /\ IsUpsert(L, u, e)
  BY LogForm DEF Rewrites, Latest
<1>1. pos[u] \in 1..b /\ IsUpsert(C, pos[u], e)
  BY <1>0 DEF IsUpsert
<1>2. ASSUME NEW w \in pos[u] + 1..b
      PROVE  \E i \in K : C[w] = L[i] /\ (L[i].op \notin EvidenceOps => i \in u + 1..a)
  <2>1. w \in 1..Len(C) /\ pos[u] < w /\ w <= b
    BY <1>0
  <2>2. PICK i \in K : pos[i] = w /\ C[w] = L[i]
    BY <2>1 DEF Rewrites
  <2>3. ASSUME L[i].op \notin EvidenceOps PROVE i \in u + 1..a
    <3>1. i <= a /\ i \in 1..Len(L)
      BY <1>0, <2>1, <2>2, <2>3
    <3>2. i # u
      BY <1>0, <2>1, <2>2
    <3>3. ~(i < u)
      <4>1. L[u].op \notin EvidenceOps
        BY <1>0 DEF IsUpsert, EvidenceOps
      <4>2. i < u => pos[i] < pos[u]
        BY <2>3, <4>1 DEF Rewrites
      <4> QED BY <1>0, <2>1, <2>2, <4>2
    <3> QED BY <1>0, <3>1, <3>2, <3>3
  <2> QED BY <2>2, <2>3
<1>3. Latest(C, pos[u], e, b)
  <2>1. ASSUME NEW w \in pos[u] + 1..b, IsUpsert(C, w, e) PROVE FALSE
    <3>1. PICK i \in K : C[w] = L[i] /\ (L[i].op \notin EvidenceOps => i \in u + 1..a)
      BY <1>2
    <3>2. IsUpsert(L, i, e) /\ i \in u + 1..a
      BY <2>1, <3>1 DEF IsUpsert, EvidenceOps
    <3> QED BY <3>2 DEF Latest
  <2> QED BY <1>1, <2>1 DEF Latest
<1>4. ASSUME Alive(L, e, a) PROVE Alive(C, e, b)
  <2>1. PICK v \in 1..a : IsUpsert(L, v, e) /\ \A x \in v + 1..a : ~Ends(L[x], e)
    BY <1>4 DEF Alive
  <2>2. \A x \in u + 1..a : x \in v + 1..a
    <3>1. v \notin u + 1..a
      BY <2>1 DEF Latest
    <3> QED BY <1>0, <3>1
  <2>3. ASSUME NEW w \in pos[u] + 1..b, Ends(C[w], e) PROVE FALSE
    <3>1. PICK i \in K : C[w] = L[i] /\ (L[i].op \notin EvidenceOps => i \in u + 1..a)
      BY <1>2
    <3>2. i \in u + 1..a /\ Ends(L[i], e)
      BY <2>3, <3>1 DEF Ends, EvidenceOps
    <3> QED BY <2>1, <2>2, <3>2
  <2> QED BY <1>1, <2>3 DEF Alive
<1> QED BY <1>3, <1>4

(* An entry that is live stays so, with its last upsert. *)
LEMMA LiveIsKept ==
    ASSUME NEW L, IsLog(L), NEW C, IsLog(C), NEW pos, Rewrites(C, L, Kept(L), pos),
           NEW e \in Entries, Alive(L, e, Len(L))
    PROVE  /\ Alive(C, e, Len(C))
           /\ \E u, v : Latest(L, u, e, Len(L)) /\ Latest(C, v, e, Len(C)) /\ C[v] = L[u]
<1> DEFINE n == Len(L)
<1>0. n \in Nat /\ Len(C) \in Nat /\ n \in 0..n
  BY LogForm
<1>1. PICK u : Latest(L, u, e, n) /\ u = LatestUpsert(L, e, n)
  BY <1>0, AliveHasLatest
<1>2. u \in Kept(L)
  <2>1. u \in LastUpserts(L, e)
    BY <1>0, <1>1, LiveAtIs DEF LastUpserts
  <2> QED BY <2>1 DEF Kept, OfEntries
<1>3. n \in 1..n /\ pos[u] \in 1..Len(C) /\ Len(C) \in 1..Len(C) /\ C[pos[u]] = L[u]
  <2>1. pos[u] \in 1..Len(C) /\ C[pos[u]] = L[u] /\ u \in 1..n
    BY <1>2 DEF Rewrites
  <2> QED BY <1>0, <2>1
<1>4. /\ pos[u] <= Len(C)
      /\ \A i \in Kept(L) : i <= n
  <2>1. Kept(L) \subseteq 1..n
    BY DEF Rewrites
  <2> QED BY <1>0, <1>3, <2>1
<1>5. Latest(C, pos[u], e, Len(C)) /\ Alive(C, e, Len(C))
  BY <1>1, <1>2, <1>3, <1>4, CutLatest
<1> QED BY <1>1, <1>3, <1>5

(* An entry that was sampled was live then: if its last end can go, nothing of it is
   kept for an audit. *)
LEMMA UnsampledAtEnd ==
    ASSUME NEW L, IsLog(L), JudgedAfterSampled(L), NEW e \in Entries,
           NEW x \in 1..Len(L), Ends(L[x], e), \A w \in Upserts(L, e) : w < x,
           \A c \in Sampled(L, e) : ~(c < x)
    PROVE  AuditUpserts(L, e) = {}
<1>0. Len(L) \in Nat /\ DOMAIN L = 1..Len(L)
  BY LogForm
<1>1. ASSUME NEW c \in Sampled(L, e) PROVE FALSE
  <2>1. c \in 1..Len(L) /\ L[c].op = "candidates" /\ LiveAt(L, e, c)
    BY <1>0, <1>1 DEF Sampled, JudgedAfterSampled
  <2>2. Alive(L, e, c)
    BY <1>0, <2>1, LiveAtIs
  <2>3. PICK v \in 1..c : IsUpsert(L, v, e) /\ \A y \in v + 1..c : ~Ends(L[y], e)
    BY <2>2 DEF Alive
  <2>4. v \in Upserts(L, e)
    BY <1>0, <2>1, <2>3 DEF Upserts, IsUpsert
  <2>5. v < x /\ ~(c < x) /\ c # x
    BY <1>1, <2>1, <2>4 DEF Ends
  <2>6. x \in v + 1..c
    BY <2>1, <2>3, <2>5
  <2> QED BY <2>3, <2>6
<1>2. Sampled(L, e) = {} /\ Audited(L, e) = {}
  BY <1>1 DEF JudgedAfterSampled
<1> QED BY <1>2 DEF AuditUpserts

LEMMA DeadStaysDead ==
    ASSUME NEW L, IsLog(L), NEW C, IsLog(C), NEW pos, Rewrites(C, L, Kept(L), pos),
           JudgedAfterSampled(L), NEW e \in Entries, ~Alive(L, e, Len(L))
    PROVE  ~Alive(C, e, Len(C))
<1> DEFINE n == Len(L)
<1>0. n \in Nat /\ Len(C) \in Nat /\ n \in 0..n /\ DOMAIN L = 1..n
  BY LogForm
<1>1. SUFFICES ASSUME NEW v \in 1..Len(C), IsUpsert(C, v, e),
                      \A y \in v + 1..Len(C) : ~Ends(C[y], e)
               PROVE  FALSE
  BY DEF Alive
<1>2. PICK u \in Kept(L) : pos[u] = v /\ C[v] = L[u]
  BY DEF Rewrites
<1>3. u \in 1..n /\ IsUpsert(L, u, e) /\ u \in Upserts(L, e)
  <2>1. u \in 1..n /\ IsUpsert(L, u, e)
    BY <1>1, <1>2 DEF Rewrites, IsUpsert
  <2> QED BY <1>0, <2>1 DEF Upserts, IsUpsert
<1>4. ~LiveAt(L, e, n)
  BY <1>0, LiveAtIs
<1> DEFINE x == LatestEnd(L, e, n)
<1>5. PICK y \in u + 1..n : Ends(L[y], e)
  BY <1>3 DEF Alive
<1>6. x \in 1..n /\ Ends(L[x], e)
  <2>1. y \in 1..n
    BY <1>3
  <2>2. x \in Nat /\ y <= x /\ (x = 0 \/ (x \in 1..n /\ Ends(L[x], e)))
    BY <1>0, <1>5, <2>1, LatestEndBounds
  <2> QED BY <2>1, <2>2
<1>7. \A w \in Upserts(L, e) : w < x
  <2> SUFFICES ASSUME NEW w \in Upserts(L, e) PROVE w < x
    OBVIOUS
  <2> DEFINE m == LatestUpsert(L, e, n)
  <2>1. m \in Nat /\ w \in 1..n /\ w <= m
    <3>1. w \in 1..n
      BY <1>0 DEF Upserts
    <3> QED BY <1>0, <3>1, LatestUpsertIs
  <2>2. ~(m > x)
    BY <1>4 DEF LiveAt
  <2>3. w # x
    BY <1>6 DEF Upserts, Ends
  <2> HIDE DEF m, x
  <2> QED BY <1>6, <2>1, <2>2, <2>3
<1> HIDE DEF x
<1>8. x \notin Kept(L)
  <2> SUFFICES ASSUME x \in Kept(L) PROVE FALSE
    OBVIOUS
  <2>1. u < x /\ L[u].op \notin EvidenceOps /\ L[x].op \notin EvidenceOps
    BY <1>3, <1>6, <1>7 DEF IsUpsert, Ends, EvidenceOps
  <2>2. pos[u] < pos[x] /\ pos[x] \in 1..Len(C) /\ C[pos[x]] = L[x]
    BY <2>1 DEF Rewrites
  <2>3. pos[x] \in v + 1..Len(C)
    BY <1>0, <1>2, <2>2
  <2> QED BY <1>1, <1>6, <2>2, <2>3
<1>9. L[x].op = "expire" /\ L[x].id = e
  <2>1. L[x].op # "verdicts"
    BY <1>6, <1>8, KeepsHistory DEF HistoryOps
  <2> QED BY <1>6, <2>1 DEF Ends
<1>10. \A c \in Sampled(L, e) : ~(c < x)
  <2> SUFFICES ASSUME NEW c \in Sampled(L, e), c < x PROVE FALSE
    OBVIOUS
  <2>1. x \in AuditExpires(L, e)
    BY <1>0, <1>6, <1>9 DEF AuditExpires
  <2> QED BY <1>8, <2>1 DEF Kept, OfEntries
<1>11. AuditUpserts(L, e) = {}
  BY <1>6, <1>7, <1>10, UnsampledAtEnd
<1>12. u \notin KeptEvidence(L) /\ u \notin LastTests(L) /\ u \notin History(L)
  BY <1>3 DEF IsUpsert, KeptEvidence, EvidenceOps, LastTests, History
<1>13. u \notin Anchors(L)
  <2> SUFFICES ASSUME NEW i \in KeptEvidence(L), u = Anchor(L, i) PROVE FALSE
    BY DEF Anchors
  <2>1. u \in Upserts(L, L[i].id)
    BY AnchorIs
  <2>2. L[i].id = e
    BY <1>3, <2>1 DEF Upserts, IsUpsert
  <2>3. LiveAt(L, L[i].id, n)
    BY DEF KeptEvidence
  <2> QED BY <1>4, <2>2, <2>3
<1>14. u \notin OfEntries(L)
  <2> SUFFICES ASSUME NEW f \in Entries,
                      u \in LastUpserts(L, f) \cup AuditUpserts(L, f) \cup AuditExpires(L, f)
               PROVE  FALSE
    BY DEF OfEntries
  <2>1. u \notin AuditExpires(L, f)
    BY <1>3 DEF AuditExpires, IsUpsert
  <2>2. CASE u \in LastUpserts(L, f)
    <3>1. LiveAt(L, f, n) /\ u = LatestUpsert(L, f, n)
      BY <2>2 DEF LastUpserts
    <3>2. u \in Upserts(L, f)
      BY <1>0, <3>1, LiveHasUpsert
    <3>3. f = e
      BY <1>3, <3>2 DEF Upserts, IsUpsert
    <3> QED BY <1>4, <3>1, <3>3
  <2>3. CASE u \in AuditUpserts(L, f)
    <3>1. u \in Upserts(L, f)
      <4>1. CASE u \in Upserts(L, f)
        BY <4>1
      <4>2. CASE u # 0 /\ \E i \in Sampled(L, f) \cup Audited(L, f) : u = LatestUpsert(L, f, i)
        <5>1. PICK i \in Sampled(L, f) \cup Audited(L, f) : u = LatestUpsert(L, f, i)
          BY <4>2
        <5>2. i \in Nat
          BY <1>0 DEF Sampled, Audited
        <5> QED BY <4>2, <5>1, <5>2, LatestUpsertIs
      <4> QED BY <2>3, <4>1, <4>2 DEF AuditUpserts
    <3>2. f = e
      BY <1>3, <3>1 DEF Upserts, IsUpsert
    <3> QED BY <1>11, <2>3, <3>2
  <2> QED BY <2>1, <2>2, <2>3
<1> QED BY <1>12, <1>13, <1>14 DEF Kept

LEMMA RewriteHere ==
    ASSUME NEW L, IsLog(L), NEW C, IsLog(C), NEW pos, Rewrites(C, L, Kept(L), pos),
           JudgedAfterSampled(L), NEW e \in Entries
    PROVE  Here(C, e, Len(C)) <=> Here(L, e, Len(L))
<1>0. Len(L) \in Nat /\ Len(C) \in Nat
  BY LogForm
<1>1. CASE Alive(L, e, Len(L))
  <2>0. /\ Alive(C, e, Len(C))
        /\ \E u, v : Latest(L, u, e, Len(L)) /\ Latest(C, v, e, Len(C)) /\ C[v] = L[u]
    BY <1>1, LiveIsKept
  <2>1. PICK u, v : /\ Alive(C, e, Len(C)) /\ Latest(L, u, e, Len(L))
                    /\ Latest(C, v, e, Len(C)) /\ C[v] = L[u]
    BY <2>0
  <2> QED BY <1>0, <1>1, <2>1, LatestIsOne DEF Here
<1>2. CASE ~Alive(L, e, Len(L))
  BY <1>2, DeadStaysDead DEF Here
<1> QED BY <1>1, <1>2

LEMMA RewriteSampled ==
    ASSUME NEW L, IsLog(L), NEW C, IsLog(C), NEW pos, Rewrites(C, L, Kept(L), pos),
           JudgedAfterSampled(L)
    PROVE  JudgedAfterSampled(C)
<1>0. /\ Len(L) \in Nat /\ Len(C) \in Nat /\ DOMAIN L = 1..Len(L) /\ DOMAIN C = 1..Len(C)
      /\ Kept(L) \subseteq 1..Len(L)
  BY LogForm DEF Rewrites
<1>1. ASSUME NEW e \in Entries, NEW b \in Sampled(C, e) PROVE LiveAt(C, e, b)
  <2>1. b \in 1..Len(C) /\ C[b].op = "candidates" /\ e \in DOMAIN C[b].arms
    BY <1>0, <1>1 DEF Sampled
  <2>2. PICK a \in Kept(L) : pos[a] = b /\ C[b] = L[a]
    BY <2>1 DEF Rewrites
  <2>3. a \in 1..Len(L) /\ a \in Sampled(L, e) /\ L[a].op = "candidates"
    BY <1>0, <2>1, <2>2 DEF Sampled
  <2>4. LiveAt(L, e, a) /\ a \in 0..Len(L)
    BY <1>0, <2>3 DEF JudgedAfterSampled
  <2>5. Alive(L, e, a)
    BY <2>4, LiveAtIs
  <2>6. PICK u : Latest(L, u, e, a) /\ u = LatestUpsert(L, e, a)
    BY <2>4, <2>5, AliveHasLatest
  <2>7. u \in 1..a /\ L[u].op = "upsert" /\ u < a
    <3>1. u \in 1..a /\ L[u].op = "upsert" /\ u # a
      BY <2>3, <2>6 DEF Latest, IsUpsert
    <3> QED BY <2>3, <3>1
  <2>8. u \in Kept(L)
    <3>1. u \in AuditUpserts(L, e)
      BY <2>3, <2>6, <2>7 DEF AuditUpserts
    <3> QED BY <3>1 DEF Kept, OfEntries
  <2>9. pos[u] <= b
    <3>1. pos[u] < pos[a] /\ pos[u] \in 1..Len(C)
      BY <2>3, <2>7, <2>8 DEF Rewrites, EvidenceOps
    <3> QED BY <1>0, <2>1, <2>2, <3>1
  <2>10. \A i \in Kept(L) : pos[i] <= b /\ L[i].op \notin EvidenceOps => i <= a
    <3> SUFFICES ASSUME NEW i \in Kept(L), pos[i] <= b, L[i].op \notin EvidenceOps, ~(i <= a)
                 PROVE  FALSE
      OBVIOUS
    <3>1. a < i /\ L[a].op \notin EvidenceOps
      BY <1>0, <2>3 DEF EvidenceOps
    <3>2. pos[a] < pos[i] /\ pos[i] \in 1..Len(C)
      BY <3>1 DEF Rewrites
    <3> QED BY <2>1, <2>2, <3>2
  <2>11. Alive(C, e, b)
    BY <2>1, <2>3, <2>5, <2>6, <2>8, <2>9, <2>10, CutLatest
  <2>12. b \in 0..Len(C)
    BY <2>1
  <2> QED BY <2>11, <2>12, LiveAtIs
<1>2. ASSUME NEW e \in Entries, NEW m \in Audited(C, e) PROVE \E c \in Sampled(C, e) : c < m
  <2>1. m \in 1..Len(C) /\ C[m].op = "verdicts" /\ e \in DOMAIN C[m].answers
    BY <1>0, <1>2 DEF Audited
  <2>2. PICK i \in Kept(L) : pos[i] = m /\ C[m] = L[i]
    BY <2>1 DEF Rewrites
  <2>3. i \in Audited(L, e) /\ L[i].op = "verdicts"
    BY <1>0, <2>1, <2>2 DEF Audited
  <2>4. PICK c \in Sampled(L, e) : c < i
    BY <2>3 DEF JudgedAfterSampled
  <2>5. c \in 1..Len(L) /\ L[c].op = "candidates" /\ e \in DOMAIN L[c].arms
    BY <1>0 DEF Sampled
  <2>6. c \in Kept(L)
    BY <2>5, KeepsHistory DEF HistoryOps
  <2>7. pos[c] < pos[i] /\ pos[c] \in 1..Len(C) /\ C[pos[c]] = L[c]
    BY <2>2, <2>3, <2>4, <2>5, <2>6 DEF Rewrites, EvidenceOps
  <2>8. pos[c] \in Sampled(C, e)
    BY <1>0, <2>5, <2>7 DEF Sampled
  <2> QED BY <2>2, <2>7, <2>8
<1> QED BY <1>1, <1>2 DEF JudgedAfterSampled

LEMMA TimesGrow ==
    ASSUME NEW L, IsLog(L), NEW B, IsLog(B), NEW w, DatedNow(B, w), NEW s \in Times(L \o B)
    PROVE  s \in Times(L) \/ \E e : s = <<e, w, w>>
<1> DEFINE K == L \o B
           n == Len(L)
<1>1. /\ IsLog(K) /\ Len(K) = n + Len(B) /\ n \in Nat /\ Len(B) \in Nat
      /\ \A i \in 1..n : K[i] = L[i]
      /\ \A i \in n + 1..Len(K) : i - n \in 1..Len(B) /\ K[i] = B[i - n]
      /\ DOMAIN B = 1..Len(B)
  BY TailOf, LogGrows, LogForm
<1> HIDE DEF K, n
<1>2. PICK i \in 1..Len(K) : DatedBy(K, s, i)
  BY <1>1, TimesAre DEF K
<1>3. PICK u : Latest(K, u, K[i].id, i) /\ s = <<K[i].id, K[i].ts, K[u].ts>> /\ K[i].op \in DatingOps
  BY <1>2 DEF DatedBy
<1>4. CASE i \in 1..n
  <2>1. K[i] = L[i] /\ u \in 1..i /\ K[u] = L[u]
    BY <1>1, <1>3, <1>4 DEF Latest
  <2>2. \A x \in 1..i : K[x] = L[x]
    BY <1>1, <1>4
  <2>3. Latest(L, u, L[i].id, i)
    BY <1>3, <1>4, <2>1, <2>2, SamePrefixLatest
  <2>4. DatedBy(L, s, i)
    BY <1>3, <2>1, <2>3 DEF DatedBy
  <2> QED BY <1>4, <2>4, TimesAre DEF n
<1>5. CASE i \in n + 1..Len(K)
  <2> DEFINE j == i - n
             e == K[i].id
  <2>1. j \in 1..Len(B) /\ K[i] = B[j]
    BY <1>1, <1>5
  <2>2. B[j].ts = w /\ \E m \in 1..j : IsUpsert(B, m, B[j].id)
    BY <1>1, <1>3, <2>1 DEF DatedNow
  <2>3. PICK m \in 1..j : IsUpsert(B, m, e)
    BY <2>1, <2>2
  <2>4. /\ n + m \in n + 1..Len(K) /\ (n + m) - n = m /\ n + m \in 1..i /\ u \in 1..i
        /\ u \in Int
    BY <1>1, <1>3, <1>5, <2>1 DEF Latest
  <2>5. K[n + m] = B[m]
    BY <1>1, <2>4
  <2>6. IsUpsert(K, n + m, e)
    BY <2>3, <2>5 DEF IsUpsert
  <2>7. n + m \notin u + 1..i
    BY <1>3, <2>6 DEF Latest
  <2>8. u \in n + 1..Len(K)
    BY <1>1, <1>5, <2>1, <2>4, <2>7
  <2>9. u - n \in DOMAIN B /\ K[u] = B[u - n]
    BY <1>1, <2>8
  <2>10. K[u].ts = w
    BY <1>3, <2>9 DEF DatedNow, DatingOps, Latest, IsUpsert
  <2> QED BY <1>3, <2>1, <2>2, <2>10
<1> QED BY <1>1, <1>4, <1>5

(* An audit run samples what is live, and a verdict is about what the tables say was
   sampled: so the log says it was. *)
LEMMA SampledGrow ==
    ASSUME NEW L, IsLog(L), JudgedAfterSampled(L), NEW d, Tells(d, L, Len(L)), Says(d, L, Len(L)),
           NEW B, IsLog(B), Auditing(B, d)
    PROVE  JudgedAfterSampled(L \o B)
<1> DEFINE K == L \o B
           n == Len(L)
<1>1. /\ IsLog(K) /\ Len(K) = n + Len(B) /\ n \in Nat /\ Len(B) \in Nat
      /\ \A i \in 1..n : K[i] = L[i]
      /\ \A i \in n + 1..Len(K) : i - n \in 1..Len(B) /\ K[i] = B[i - n]
      /\ DOMAIN B = 1..Len(B) /\ DOMAIN L = 1..n
  BY TailOf, LogGrows, LogForm
<1> HIDE DEF K
<1>2. DOMAIN K = 1..Len(K) /\ Len(K) \in Nat
  BY <1>1, LogForm
<1>3. /\ d.candidates = CandidateRows(L, n)
      /\ \A e \in Entries : LiveIn(d, e) <=> Alive(L, e, n)
  BY DEF Tells, Remembers, Says
<1>4. \A e, c : c \in Sampled(L, e) => c \in Sampled(K, e)
  BY <1>1, <1>2 DEF Sampled
<1>5. ASSUME NEW e \in Entries, NEW c \in Sampled(K, e) PROVE LiveAt(K, e, c)
  <2>1. c \in 1..Len(K) /\ K[c].op = "candidates" /\ e \in DOMAIN K[c].arms
    BY <1>2 DEF Sampled
  <2>2. CASE c \in 1..n
    <3>1. c \in Sampled(L, e)
      BY <1>1, <2>1, <2>2 DEF Sampled
    <3>2. LiveAt(L, e, c) /\ c \in 0..n
      BY <1>1, <2>2, <3>1 DEF JudgedAfterSampled
    <3>3. Alive(L, e, c)
      BY <3>2, LiveAtIs
    <3>4. c \in Nat /\ \A i \in 1..c : K[i] = L[i]
      BY <1>1, <2>2
    <3>5. Alive(K, e, c) /\ c \in 0..Len(K)
      BY <2>1, <3>3, <3>4, SamePrefixAlive
    <3> QED BY <1>1, <3>5, LiveAtIs
  <2>3. CASE c \in n + 1..Len(K)
    <3>1. c - n \in DOMAIN B /\ K[c] = B[c - n]
      BY <1>1, <2>3
    <3>2. c - n = 1 /\ LiveIn(d, e)
      BY <2>1, <3>1 DEF Auditing
    <3>3. c = n + 1 /\ Alive(L, e, n)
      BY <1>1, <1>3, <2>1, <3>2
    <3>4. Alive(K, e, n)
      BY <1>1, <3>3, SamePrefixAlive
    <3>5. ~IsUpsert(K, n + 1, e) /\ ~Ends(K[n + 1], e)
      BY <2>1, <3>3 DEF IsUpsert, Ends
    <3>6. Alive(K, e, c)
      BY <1>1, <3>3, <3>4, <3>5, AliveNext
    <3>7. c \in 0..Len(K)
      BY <2>1
    <3> QED BY <1>1, <3>6, <3>7, LiveAtIs
  <2> QED BY <1>1, <2>1, <2>2, <2>3
<1>6. ASSUME NEW e \in Entries, NEW i \in Audited(K, e)
      PROVE  \E c \in Sampled(K, e) : c < i
  <2>1. i \in 1..Len(K) /\ K[i].op = "verdicts" /\ e \in DOMAIN K[i].answers
    BY <1>2 DEF Audited
  <2>2. CASE i \in 1..n
    <3>1. i \in Audited(L, e)
      BY <1>1, <2>1, <2>2 DEF Audited
    <3>2. PICK c \in Sampled(L, e) : c < i
      BY <3>1 DEF JudgedAfterSampled
    <3> QED BY <1>4, <3>2
  <2>3. CASE i \in n + 1..Len(K)
    <3>1. i - n \in DOMAIN B /\ K[i] = B[i - n]
      BY <1>1, <2>3
    <3>2. PICK c \in d.candidates : c[2] = e
      BY <2>1, <3>1 DEF Auditing
    <3>3. PICK j \in {x \in 1..n : L[x].op = "candidates"} :
               c \in {<<L[j].run, f, L[j].arms[f]>> : f \in DOMAIN L[j].arms}
      BY <1>3, <3>2 DEF CandidateRows
    <3>4. j \in 1..n /\ L[j].op = "candidates" /\ e \in DOMAIN L[j].arms
      BY <3>2, <3>3
    <3>5. j \in Sampled(L, e)
      BY <1>1, <3>4 DEF Sampled
    <3>6. j < i
      BY <1>1, <2>3, <3>4
    <3> QED BY <1>4, <3>5, <3>6
  <2> QED BY <1>1, <2>1, <2>2, <2>3
<1>7. JudgedAfterSampled(K)
  BY <1>5, <1>6 DEF JudgedAfterSampled
<1> QED BY <1>7 DEF K

-----------------------------------------------------------------------------
(* The invariant.                                                          *)

(* When a row was updated tells its text, wherever one reads the two: in the log, in the
   tables, in what was selected to be embedded. *)
OneText(S, n) ==
    /\ \A s \in S : s[2] \in Int /\ s[2] <= n
    /\ \A s, t \in S : s[1] = t[1] /\ s[2] = t[2] => s[3] = t[3]

RowTime(d, e) == <<e, d.entries[e].updated, d.entries[e].text>>
RowsOfLive(d) == {RowTime(d, e) : e \in {x \in Entries : LiveIn(d, x)}}
Selected(r) == {<<w.id, w.updated, w.text>> : w \in r.chosen \cup r.todo}

Seen == Times(log) \cup RowsOfLive(db) \cup Selected(reembed)

ReembedForm(r) ==
    /\ r = [busy |-> r.busy, chosen |-> r.chosen, todo |-> r.todo, swapped |-> r.swapped,
            again |-> r.again]
    /\ \A w \in r.chosen \cup r.todo : w.id \in Entries

RowsTold ==
    /\ JudgedAfterSampled(log)
    /\ VectorTable(db.emb)
    /\ applied # Void => Depicts(db, log, applied)
    /\ ReembedForm(reembed)
    /\ OneText(Seen, writes)

RowsInv == EvidenceInv /\ RowsTold

Fitting(d, c) ==
    \A e \in Entries : c.emb[e] \notin {NoVector, d.emb[e]} => c.emb[e] = c.entries[e].text

LEMMA OneTextMore ==
    ASSUME NEW S, NEW n \in Nat, OneText(S, n), NEW T,
           \A t \in T : t \in S \/ \E e : t = <<e, n + 1, n + 1>>
    PROVE  OneText(T, n + 1)
<1>1. ASSUME NEW t \in T
      PROVE  \/ t \in S /\ t[2] \in Int /\ t[2] <= n
             \/ t[2] = n + 1 /\ t[3] = n + 1
  BY DEF OneText
<1>2. \A t \in T : t[2] \in Int /\ t[2] <= n + 1
  BY <1>1
<1>3. ASSUME NEW s \in T, NEW t \in T, s[1] = t[1], s[2] = t[2] PROVE s[3] = t[3]
  <2>1. CASE s[2] = n + 1
    <3>1. ~(n + 1 <= n)
      OBVIOUS
    <3>2. \A x \in T : x[2] = n + 1 => x[3] = n + 1
      BY <1>1, <3>1
    <3> QED BY <1>3, <2>1, <3>2
  <2>2. CASE s[2] # n + 1
    <3>1. s \in S /\ t \in S
      BY <1>1, <1>3, <2>2
    <3> QED BY <1>3, <3>1 DEF OneText
  <2> QED BY <2>1, <2>2
<1> QED BY <1>2, <1>3 DEF OneText

LEMMA OneTextFewer ==
    ASSUME NEW S, NEW n, OneText(S, n), NEW T, T \subseteq S
    PROVE  OneText(T, n)
BY DEF OneText

LEMMA LiveRowTimes ==
    ASSUME NEW L, IsLog(L), NEW n \in 0..Len(L), NEW d, Depicts(d, L, n)
    PROVE  RowsOfLive(d) \subseteq Times(L)
BY RowTimes DEF RowsOfLive, RowTime

LEMMA SameFits ==
    ASSUME NEW d, NEW c, c.emb = d.emb
    PROVE  Fitting(d, c)
BY DEF Fitting

LEMMA WriteRows ==
    ASSUME RowsInv, NEW B, Written(B, db, writes + 1), NEW embeds, WriteAs(B, embeds)
    PROVE  RowsTold' /\ Fitting(db, db')
<1> DEFINE L == log \o B
           n == Len(log)
           w == writes + 1
           after == Replay(db, L, n, FALSE, embeds)
<1>1. IsLog(B) /\ DatedNow(B, w) /\ Auditing(B, db)
  BY DEF Written
<1>2. IsLog(log) /\ n \in Nat /\ applied = n /\ applied # Void /\ writes \in Nat
  BY LogForm DEF RowsInv, EvidenceInv, HistoryInv, WriteAs, Converged, Void
<1>3. Tells(db, log, n) /\ Says(db, log, n) /\ Shape(db)
  BY <1>2 DEF RowsInv, EvidenceInv, HistoryInv, Tells
<1>4. /\ JudgedAfterSampled(log) /\ VectorTable(db.emb) /\ Depicts(db, log, n)
      /\ ReembedForm(reembed) /\ OneText(Seen, writes)
  BY <1>2 DEF RowsInv, RowsTold
<1>5. log' = L /\ writes' = w /\ reembed' = reembed
  BY DEF WriteAs
<1>6. \/ ~after.failed /\ db' = after /\ applied' = Len(log')
      \/ db' = db /\ applied' = applied
  BY DEF WriteAs
<1>7. /\ IsLog(L) /\ Len(L) = n + Len(B) /\ Len(B) \in Nat
      /\ \A i \in 1..n : L[i] = log[i]
  BY <1>1, <1>2, LogGrows, TailOf
<1>8. JudgedAfterSampled(L)
  BY <1>1, <1>2, <1>3, <1>4, SampledGrow
<1>9. \A s \in Times(L) : s \in Times(log) \/ \E e : s = <<e, w, w>>
  <2> HIDE DEF w
  <2> QED BY <1>1, <1>2, TimesGrow
<1> HIDE DEF L
<1>10. n \in 0..Len(L) /\ Len(L) \in Nat /\ Len(L) \in 0..Len(L) /\ Len(L) # Void
  BY <1>2, <1>7 DEF Void
<1>11. Depicts(db, L, n)
  BY <1>2, <1>4, <1>7, SamePrefixDepicts
<1>12. /\ VectorTable(db'.emb) /\ Fitting(db, db')
       /\ applied' # Void /\ Depicts(db', L, applied')
       /\ RowsOfLive(db') \subseteq Times(L)
  <2>1. CASE ~after.failed /\ db' = after /\ applied' = Len(log')
    <3> DEFINE c == db'
    <3> HIDE DEF n, c
    <3>1. c = after /\ ~c.failed
      BY <2>1 DEF c
    <3>2. Depicts(c, L, Len(L)) /\ Vectors(c, db, embeds)
      BY <1>3, <1>4, <1>7, <1>10, <1>11, <3>1, ReplayShows
    <3>3. RowsOfLive(c) \subseteq Times(L)
      BY <1>7, <1>10, <3>2, LiveRowTimes
    <3>4. VectorTable(c.emb) /\ Fitting(db, c)
      BY <3>2 DEF Vectors, Fitting
    <3> QED BY <1>5, <1>10, <2>1, <3>2, <3>3, <3>4 DEF c
  <2>2. CASE db' = db /\ applied' = applied
    <3>1. RowsOfLive(db) \subseteq Times(L)
      BY <1>7, <1>10, <1>11, LiveRowTimes
    <3> QED BY <1>2, <1>4, <1>11, <2>2, <3>1, SameFits
  <2> QED BY <1>6, <2>1, <2>2
<1>13. OneText(Seen', writes')
  <2>1. \A s \in Seen' : s \in Seen \/ \E e : s = <<e, w, w>>
    BY <1>5, <1>9, <1>12 DEF Seen
  <2> QED BY <1>2, <1>4, <1>5, <2>1, OneTextMore
<1> QED BY <1>4, <1>5, <1>8, <1>12, <1>13 DEF RowsTold

LEMMA CompactRows ==
    ASSUME RowsInv, Compact
    PROVE  RowsTold' /\ Fitting(db, db')
<1>1. IsLog(log) /\ JudgedAfterSampled(log)
  BY DEF RowsInv, RowsTold, EvidenceInv, HistoryInv
<1>2. /\ log' \in {log, Compacted(log)} /\ applied' = Void
      /\ db' = db /\ writes' = writes /\ reembed' = reembed
  BY DEF Compact
<1>3. JudgedAfterSampled(log') /\ Times(log') \subseteq Times(log)
  <2>1. CASE log' = log
    BY <1>1, <2>1
  <2>2. CASE log' = Compacted(log)
    <3> DEFINE C == Compacted(log)
    <3>1. IsLog(C) /\ \E pos : Rewrites(C, log, Kept(log), pos)
      BY <1>1, CompactedIs
    <3> HIDE DEF C
    <3>2. PICK pos : Rewrites(C, log, Kept(log), pos)
      BY <3>1
    <3>3. JudgedAfterSampled(C)
      BY <1>1, <3>1, <3>2, RewriteSampled
    <3>4. Times(C) \subseteq Times(log)
      BY <1>1, <3>1, <3>2, RewriteTimes
    <3> QED BY <2>2, <3>3, <3>4 DEF C
  <2> QED BY <1>2, <2>1, <2>2
<1>4. Seen' \subseteq Seen
  BY <1>2, <1>3 DEF Seen
<1>5. OneText(Seen', writes')
  BY <1>2, <1>4, OneTextFewer DEF RowsInv, RowsTold
<1>6. Fitting(db, db')
  BY <1>2, SameFits
<1> QED BY <1>2, <1>3, <1>5, <1>6 DEF RowsInv, RowsTold

LEMMA CatchUpRows ==
    ASSUME RowsInv, CatchUp
    PROVE  RowsTold' /\ Fitting(db, db')
<1> DEFINE n == Len(log)
<1>1. /\ IsLog(log) /\ n \in Nat /\ applied \in 0..n /\ applied # Void
      /\ Shape(db) /\ VectorTable(db.emb) /\ Depicts(db, log, applied)
      /\ JudgedAfterSampled(log) /\ ReembedForm(reembed) /\ OneText(Seen, writes)
  <2>1. IsLog(log) /\ n \in Nat
    BY LogForm DEF RowsInv, EvidenceInv, HistoryInv
  <2>2. applied \in 0..n /\ applied # Void
    BY <2>1 DEF CatchUp, Void
  <2> QED BY <2>1, <2>2 DEF RowsInv, RowsTold, EvidenceInv, HistoryInv, Tells
<1>2. PICK embeds : /\ ~ReplayTail(db, log, applied, embeds).failed
                    /\ db' = ReplayTail(db, log, applied, embeds)
  BY DEF CatchUp
<1>3. applied' = n /\ log' = log /\ writes' = writes /\ reembed' = reembed /\ n # Void
  BY <1>1 DEF CatchUp, Void
<1> DEFINE c == db'
<1>4. c = Replay(db, log, applied, TRUE, embeds) /\ ~c.failed
  BY <1>2 DEF ReplayTail
<1>a. n \in 0..n
  BY <1>1
<1> HIDE DEF c
<1>5. Depicts(c, log, n) /\ Vectors(c, db, embeds)
  BY <1>1, <1>4, ReplayShows
<1>6. RowsOfLive(c) \subseteq Times(log)
  BY <1>1, <1>a, <1>5, LiveRowTimes
<1>7. VectorTable(c.emb) /\ Fitting(db, c)
  BY <1>5 DEF Vectors, Fitting
<1>8. Seen' \subseteq Seen
  BY <1>3, <1>6 DEF Seen, c
<1>9. OneText(Seen', writes')
  BY <1>1, <1>3, <1>8, OneTextFewer
<1> QED BY <1>1, <1>3, <1>5, <1>7, <1>9 DEF RowsTold, c

LEMMA RebuildRows ==
    ASSUME RowsInv, Rebuild
    PROVE  RowsTold' /\ Fitting(db, db')
<1> DEFINE n == Len(log)
<1>1. /\ IsLog(log) /\ n \in Nat /\ n # Void /\ n \in 0..n
      /\ JudgedAfterSampled(log) /\ ReembedForm(reembed) /\ OneText(Seen, writes)
  BY LogForm DEF RowsInv, RowsTold, EvidenceInv, HistoryInv, Void
<1>2. PICK embeds : ~Materialize(log, embeds).failed /\ db' = Materialize(log, embeds)
  BY DEF Rebuild
<1>3. /\ applied' = n /\ log' = log /\ writes' = writes
      /\ reembed' = [reembed EXCEPT !.swapped = reembed.busy]
  BY DEF Rebuild
<1> DEFINE c == db'
<1>4. c = Materialize(log, embeds) /\ ~c.failed
  BY <1>2
<1> HIDE DEF c
<1>5. /\ Depicts(c, log, n) /\ VectorTable(c.emb)
      /\ \A e \in Entries : c.emb[e] \in {NoVector, c.entries[e].text}
  BY <1>1, <1>4, MaterializeShows
<1>6. RowsOfLive(c) \subseteq Times(log)
  BY <1>1, <1>5, LiveRowTimes
<1>7. Fitting(db, c)
  BY <1>5 DEF Fitting
<1>8. ReembedForm(reembed') /\ reembed'.chosen = reembed.chosen /\ reembed'.todo = reembed.todo
  BY <1>1, <1>3 DEF ReembedForm
<1>9. Selected(reembed') = Selected(reembed)
  BY <1>8 DEF Selected
<1>10. Seen' \subseteq Seen
  BY <1>3, <1>6, <1>9 DEF Seen, c
<1>11. OneText(Seen', writes')
  BY <1>1, <1>3, <1>10, OneTextFewer
<1> QED BY <1>1, <1>3, <1>5, <1>7, <1>8, <1>11 DEF RowsTold, c

(* What was selected is written only to a row that is as it was: then it still has the
   text that was embedded. *)
LEMMA SelectedFits ==
    ASSUME OneText(Seen, writes), NEW w \in reembed.todo, w.id \in Entries, StillBare(w)
    PROVE  w.text = db.entries[w.id].text
<1> DEFINE s == <<w.id, w.updated, w.text>>
           t == RowTime(db, w.id)
<1>1. s \in Seen
  BY DEF Seen, Selected
<1>2. t \in Seen
  BY DEF StillBare, Seen, RowsOfLive
<1>3. s[1] = t[1] /\ s[2] = t[2] /\ s[3] = w.text /\ t[3] = db.entries[w.id].text
  BY DEF StillBare, RowTime
<1> HIDE DEF s, t
<1> QED BY <1>1, <1>2, <1>3 DEF OneText

LEMMA ReembedRows ==
    ASSUME RowsInv, Reembed
    PROVE  RowsTold' /\ Fitting(db, db')
<1>1. /\ JudgedAfterSampled(log) /\ ReembedForm(reembed) /\ OneText(Seen, writes)
      /\ VectorTable(db.emb) /\ Shape(db)
  <2>1. Shape(db)
    BY DEF RowsInv, EvidenceInv, HistoryInv, Tells, Foretold
  <2> QED BY <2>1 DEF RowsInv, RowsTold
<1>2. log' = log /\ applied' = applied /\ writes' = writes
  BY DEF Reembed, ReembedSelect, ReembedWrite, ReembedEnd
<1>3. ASSUME ReembedForm(reembed'), VectorTable(db'.emb), db'.entries = db.entries,
             Selected(reembed') \subseteq Seen, Fitting(db, db')
      PROVE  RowsTold' /\ Fitting(db, db')
  <2>1. RowsOfLive(db') = RowsOfLive(db)
    BY <1>3 DEF RowsOfLive, RowTime, LiveIn
  <2>2. Seen' \subseteq Seen
    BY <1>2, <1>3, <2>1 DEF Seen
  <2>3. OneText(Seen', writes')
    BY <1>1, <1>2, <2>2, OneTextFewer
  <2>4. applied' # Void => Depicts(db', log', applied')
    BY <1>2, <1>3 DEF RowsInv, RowsTold, Depicts, LiveIn
  <2> QED BY <1>1, <1>2, <1>3, <2>3, <2>4 DEF RowsTold
<1>4. CASE ReembedSelect
  <2> DEFINE bare == {e \in Entries : LiveIn(db, e) /\ db.emb[e] = NoVector}
             chosen == {[id |-> e, updated |-> db.entries[e].updated,
                         text |-> db.entries[e].text] : e \in bare}
  <2>1. /\ reembed' = [Asleep EXCEPT !.busy = TRUE, !.chosen = chosen, !.todo = chosen]
        /\ db' = db
    BY <1>4 DEF ReembedSelect
  <2>2. \A w \in chosen : w.id \in Entries /\ <<w.id, w.updated, w.text>> \in RowsOfLive(db)
    BY DEF RowsOfLive, RowTime
  <2> HIDE DEF chosen
  <2>3. reembed' = [busy |-> TRUE, chosen |-> chosen, todo |-> chosen, swapped |-> FALSE,
                    again |-> FALSE]
    BY <2>1 DEF Asleep
  <2>4. reembed'.chosen = chosen /\ reembed'.todo = chosen
    BY <2>3
  <2>5. ReembedForm(reembed')
    BY <2>2, <2>3, <2>4 DEF ReembedForm
  <2>6. Selected(reembed') \subseteq Seen
    BY <2>2, <2>4 DEF Selected, Seen
  <2> QED BY <1>1, <1>3, <2>1, <2>5, <2>6, SameFits
<1>5. CASE ReembedEnd
  <2>1. db' = db
    BY <1>5 DEF ReembedEnd
  <2>2. \/ reembed' = [reembed EXCEPT !.todo = reembed.chosen, !.again = TRUE]
        \/ reembed' = Asleep
    BY <1>5 DEF ReembedEnd
  <2>3. /\ ReembedForm(reembed')
        /\ reembed'.chosen \cup reembed'.todo \subseteq reembed.chosen \cup reembed.todo
    <3>1. CASE reembed' = [reembed EXCEPT !.todo = reembed.chosen, !.again = TRUE]
      <4> DEFINE r == [reembed EXCEPT !.todo = reembed.chosen]
      <4>1. reembed' = [r EXCEPT !.again = TRUE]
        BY <3>1
      <4>2. ReembedForm(r) /\ r.chosen = reembed.chosen /\ r.todo = reembed.chosen
        BY <1>1 DEF ReembedForm
      <4> HIDE DEF r
      <4>3. ReembedForm(reembed') /\ reembed'.chosen = r.chosen /\ reembed'.todo = r.todo
        BY <4>1, <4>2 DEF ReembedForm
      <4> QED BY <4>2, <4>3
    <3>2. CASE reembed' = Asleep
      BY <3>2 DEF ReembedForm, Asleep
    <3> QED BY <2>2, <3>1, <3>2
  <2>4. Selected(reembed') \subseteq Seen
    BY <2>3 DEF Selected, Seen
  <2> QED BY <1>1, <1>3, <2>1, <2>3, <2>4, SameFits
<1>6. ASSUME NEW w \in reembed.todo, ReembedWrite(w) PROVE RowsTold' /\ Fitting(db, db')
  <2>1. /\ db' = IF StillBare(w) THEN [db EXCEPT !.emb[w.id] = w.text] ELSE db
        /\ reembed' = [reembed EXCEPT !.todo = reembed.todo \ {w}]
    BY <1>6 DEF ReembedWrite
  <2>2. /\ ReembedForm(reembed')
        /\ reembed'.chosen \cup reembed'.todo \subseteq reembed.chosen \cup reembed.todo
    BY <1>1, <2>1 DEF ReembedForm
  <2>3. Selected(reembed') \subseteq Seen
    BY <2>2 DEF Selected, Seen
  <2>4. w.id \in Entries
    BY <1>1 DEF ReembedForm
  <2>5. CASE ~StillBare(w)
    BY <1>1, <1>3, <2>1, <2>2, <2>3, <2>5, SameFits
  <2>6. CASE StillBare(w)
    <3> DEFINE v == [db.emb EXCEPT ![w.id] = w.text]
    <3>1. db' = [db EXCEPT !.emb = v]
      BY <2>1, <2>6
    <3>2. /\ VectorTable(v) /\ v[w.id] = w.text
          /\ \A e \in Entries : e # w.id => v[e] = db.emb[e]
      BY <1>1, <2>4 DEF VectorTable
    <3> HIDE DEF v
    <3>3. db'.emb = v /\ db'.entries = db.entries
      BY <1>1, <3>1, OneTable
    <3>4. w.text = db.entries[w.id].text
      BY <1>1, <2>4, <2>6, SelectedFits
    <3>5. Fitting(db, db')
      BY <3>2, <3>3, <3>4 DEF Fitting
    <3> QED BY <1>3, <2>2, <2>3, <3>2, <3>3, <3>5
  <2> QED BY <2>5, <2>6
<1> QED BY <1>4, <1>5, <1>6 DEF Reembed

LEMMA RowsInit ==
    ASSUME KbInit
    PROVE  RowsInv
<1>1. EvidenceInv
  BY EvidenceInit
<1>2. /\ log \in InitialLogs /\ applied \in 0..Len(log) /\ writes = 0 /\ reembed = Asleep
      /\ ~db.failed
  BY DEF KbInit, Init
<1>3. PICK embeds : db = Materialize(SubSeq(log, 1, applied), embeds)
  BY DEF KbInit, Init
<1>4. IsLog(log) /\ Len(log) \in Nat /\ applied \in Nat
  BY <1>2, ContentAssumption, LogForm
<1> DEFINE P == SubSeq(log, 1, applied)
<1>5. IsLog(P) /\ Len(P) = applied /\ \A i \in 1..applied : log[i] = P[i]
  BY <1>2, <1>4, PrefixIsLog
<1> HIDE DEF P
<1>6. Depicts(db, P, applied) /\ VectorTable(db.emb)
  BY <1>2, <1>3, <1>5, MaterializeShows DEF P
<1>7. Depicts(db, log, applied)
  BY <1>4, <1>5, <1>6, SamePrefixDepicts
<1>8. RowsOfLive(db) \subseteq Times(log)
  BY <1>2, <1>4, <1>7, LiveRowTimes
<1>9. ReembedForm(reembed) /\ Selected(reembed) = {}
  BY <1>2 DEF ReembedForm, Selected, Asleep
<1>10. Seen \subseteq Times(log)
  BY <1>8, <1>9 DEF Seen
<1>11. JudgedAfterSampled(log) /\ OneText(Times(log), writes)
  BY <1>2, EarlierAssumption DEF OneText
<1>12. OneText(Seen, writes)
  BY <1>10, <1>11, OneTextFewer
<1> QED BY <1>1, <1>6, <1>7, <1>9, <1>11, <1>12 DEF RowsInv, RowsTold

LEMMA RowsNext ==
    ASSUME RowsInv, [KbNext]_kbVars
    PROVE  RowsInv' /\ Fitting(db, db')
<1>1. EvidenceInv' /\ HistoryInv
  BY EvidenceNext DEF RowsInv, EvidenceInv
<1>2. \/ \E B : Written(B, db, writes + 1) /\ \E embeds : WriteAs(B, embeds)
      \/ CatchUp \/ Compact \/ Rebuild \/ Reembed \/ UNCHANGED vars
  BY <1>1, KbStep
<1>3. ASSUME UNCHANGED vars PROVE RowsTold' /\ Fitting(db, db')
  <2>1. /\ log' = log /\ db' = db /\ applied' = applied /\ writes' = writes
        /\ reembed' = reembed
    BY <1>3 DEF vars
  <2>2. Seen' = Seen
    BY <2>1 DEF Seen
  <2> QED BY <2>1, <2>2, SameFits DEF RowsInv, RowsTold
<1>4. RowsTold' /\ Fitting(db, db')
  BY <1>2, <1>3, WriteRows, CatchUpRows, CompactRows, RebuildRows, ReembedRows
<1> QED BY <1>1, <1>4 DEF RowsInv

(* A vector that appears is of the text its entry has, whoever wrote the entry, replayed
   the log or replaced the file since the text was read (VectorsAreOfTheText), although
   only the time of the row is compared (reembed.rs). *)
THEOREM VectorsFit == KbSpec => VectorsAreOfTheText
<1>1. KbInit => RowsInv
  BY RowsInit
<1>2. RowsInv /\ [KbNext]_kbVars => RowsInv'
  BY RowsNext
<1>3. RowsInv /\ [KbNext]_kbVars =>
          [\A e \in Entries :
              db'.emb[e] \notin {NoVector, db.emb[e]} => db'.emb[e] = db'.entries[e].text]_vars
  BY RowsNext DEF Fitting
<1> QED BY <1>1, <1>2, <1>3, PTL DEF KbSpec, VectorsAreOfTheText

-----------------------------------------------------------------------------
(* What is at the path of the commands that add in several steps.          *)

Placed(L) == {e \in Entries : Here(L, e, Len(L))}

LEMMA AddPlaces ==
    ASSUME NEW L, IsLog(L), NEW B, NEW d, d.path = ThePath, NEW S, NEW w,
           AddBatch(B, d, S, w), NEW e
    PROVE  Here(L \o B, e, Len(L \o B)) <=> e = d.id \/ (e \notin S /\ Here(L, e, Len(L)))
<1> DEFINE K == L \o B
           n == Len(L)
           N == Len(K)
<1>1. PICK m : AddedAt(B, d, S, w, m)
  BY DEF AddBatch
<1>2. /\ IsLog(B) /\ N = n + Len(B) /\ n \in Nat /\ Len(B) \in Nat /\ m \in 1..Len(B)
      /\ \A i \in 1..n : K[i] = L[i]
      /\ \A i \in n + 1..N : i - n \in 1..Len(B) /\ K[i] = B[i - n]
  BY <1>1, TailOf DEF AddBatch, AddedAt
<1> HIDE DEF K, n, N
<1>3. /\ n + m \in 1..N /\ n + m \in n + 1..N /\ N \in Nat
      /\ K[n + m].op = "upsert" /\ K[n + m].id = d.id /\ K[n + m].path = ThePath
  <2>1. n + m \in n + 1..N /\ n + m \in 1..N /\ (n + m) - n = m /\ N \in Nat
    BY <1>2
  <2>2. K[n + m] = B[m]
    BY <1>2, <2>1
  <2> QED BY <1>1, <2>1, <2>2 DEF AddedAt, UpsertOf
<1>4. ASSUME NEW i \in n + 1..N, i # n + m
      PROVE  \/ K[i].op = "expire" /\ K[i].id \in S
             \/ K[i].op = "evidence_add" /\ i > n + m
  <2>0. /\ n \in Nat /\ N = n + Len(B) /\ Len(B) \in Nat /\ m \in Nat
        /\ K[i] = B[i - n] /\ i - n \in 1..Len(B) /\ i \in Int
    BY <1>2
  <2>1. CASE i < n + m
    <3>1. i - n \in 1..m - 1
      BY <2>0, <2>1
    <3> QED BY <1>1, <2>0, <3>1 DEF AddedAt
  <2>2. CASE i > n + m
    <3>1. i - n \in m + 1..Len(B)
      BY <2>0, <2>2
    <3> QED BY <1>1, <2>0, <2>2, <3>1 DEF AddedAt, CiteOf
  <2> QED BY <1>4, <2>0, <2>1, <2>2
<1>5. ASSUME e \in S PROVE \E i \in n + 1..N : K[i].op = "expire" /\ K[i].id = e
  <2>1. PICK j \in 1..m - 1 : B[j].id = e
    BY <1>1, <1>5 DEF AddedAt
  <2>2. n + j \in n + 1..N /\ (n + j) - n = j
    BY <1>2
  <2>3. K[n + j] = B[j] /\ B[j].op = "expire"
    BY <1>1, <1>2, <2>2 DEF AddedAt
  <2> QED BY <2>1, <2>2, <2>3
<1>6. CASE e = d.id
  <2>1. IsUpsert(K, n + m, e)
    BY <1>3, <1>6 DEF IsUpsert
  <2>2. \A i \in (n + m) + 1..N : K[i].op = "evidence_add"
    <3> SUFFICES ASSUME NEW i \in (n + m) + 1..N PROVE K[i].op = "evidence_add"
      OBVIOUS
    <3>1. i \in n + 1..N /\ i # n + m /\ i > n + m /\ i - n \in m + 1..Len(B)
      BY <1>2, <1>3
    <3>2. K[i] = B[i - n]
      BY <1>2, <3>1
    <3> QED BY <1>1, <3>1, <3>2 DEF AddedAt, CiteOf
  <2>3. Latest(K, n + m, e, N) /\ Alive(K, e, N)
    BY <1>3, <2>1, <2>2 DEF Latest, Alive, IsUpsert, Ends
  <2>4. Here(K, e, N)
    BY <1>3, <2>3 DEF Here
  <2> QED BY <1>6, <2>4 DEF K, N
<1>7. CASE e # d.id
  <2>1. \A i \in n + 1..N : ~IsUpsert(K, i, e)
    BY <1>3, <1>4, <1>7 DEF IsUpsert
  <2>2. ASSUME e \in S PROVE ~Alive(K, e, N)
    <3> SUFFICES ASSUME NEW u \in 1..N, IsUpsert(K, u, e),
                        \A x \in u + 1..N : ~Ends(K[x], e)
                 PROVE  FALSE
      BY DEF Alive
    <3>1. PICK i \in n + 1..N : Ends(K[i], e)
      BY <1>5, <2>2 DEF Ends
    <3>2. i \in u + 1..N
      BY <1>2, <2>1
    <3> QED BY <3>1, <3>2
  <2>3. ASSUME e \notin S PROVE Here(K, e, N) <=> Here(L, e, n)
    <3>1. \A i \in n + 1..N : ~Ends(K[i], e)
      BY <1>3, <1>4, <2>3 DEF Ends
    <3>2. ASSUME NEW u PROVE Latest(K, u, e, N) <=> Latest(L, u, e, n)
      <4>1. ASSUME Latest(K, u, e, N) PROVE Latest(L, u, e, n)
        <5>1. u \in 1..n
          BY <1>2, <2>1, <4>1 DEF Latest
        <5>2. \A x \in u + 1..n : x \in u + 1..N /\ K[x] = L[x]
          BY <1>2, <5>1
        <5> QED BY <1>2, <4>1, <5>1, <5>2 DEF Latest, IsUpsert
      <4>2. ASSUME Latest(L, u, e, n) PROVE Latest(K, u, e, N)
        <5>1. u \in 1..n /\ u \in 1..N
          BY <1>2, <4>2 DEF Latest
        <5>2. \A x \in u + 1..N : x \in n + 1..N \/ (x \in u + 1..n /\ K[x] = L[x])
          BY <1>2, <5>1
        <5> QED BY <1>2, <2>1, <4>2, <5>1, <5>2 DEF Latest, IsUpsert
      <4> QED BY <4>1, <4>2
    <3>3. Alive(K, e, N) <=> Alive(L, e, n)
      <4>1. ASSUME Alive(K, e, N) PROVE Alive(L, e, n)
        <5>1. PICK u \in 1..N : IsUpsert(K, u, e) /\ \A x \in u + 1..N : ~Ends(K[x], e)
          BY <4>1 DEF Alive
        <5>2. u \in 1..n
          BY <1>2, <2>1, <5>1
        <5>3. \A x \in u + 1..n : x \in u + 1..N /\ K[x] = L[x]
          BY <1>2, <5>2
        <5> QED BY <1>2, <5>1, <5>2, <5>3 DEF Alive, IsUpsert
      <4>2. ASSUME Alive(L, e, n) PROVE Alive(K, e, N)
        <5>1. PICK u \in 1..n : IsUpsert(L, u, e) /\ \A x \in u + 1..n : ~Ends(L[x], e)
          BY <4>2 DEF Alive
        <5>2. u \in 1..N /\ \A x \in u + 1..N : x \in n + 1..N \/ (x \in u + 1..n /\ K[x] = L[x])
          BY <1>2, <5>1
        <5> QED BY <1>2, <3>1, <5>1, <5>2 DEF Alive, IsUpsert
      <4> QED BY <4>1, <4>2
    <3>4. \A u : Latest(L, u, e, n) => K[u] = L[u]
      BY <1>2 DEF Latest
    <3> QED BY <3>2, <3>3, <3>4 DEF Here
  <2>4. Here(K, e, N) <=> e \notin S /\ Here(L, e, n)
    BY <2>2, <2>3 DEF Here
  <2> QED BY <1>7, <2>4 DEF K, N, n
<1> QED BY <1>6, <1>7

LEMMA AddPlacesOne ==
    ASSUME NEW L, IsLog(L), NEW B, NEW d, d.path = ThePath, d.id \in Entries, NEW S, NEW w,
           AddBatch(B, d, S, w)
    PROVE  Placed(L \o B) = {d.id} \cup (Placed(L) \ S)
<1> DEFINE K == L \o B
<1>1. \A e : Here(K, e, Len(K)) <=> e = d.id \/ (e \notin S /\ Here(L, e, Len(L)))
  BY AddPlaces
<1> HIDE DEF K
<1> QED BY <1>1 DEF Placed, K

LEMMA RewritePlaces ==
    ASSUME NEW L, IsLog(L), JudgedAfterSampled(L)
    PROVE  Placed(Compacted(L)) = Placed(L)
<1> DEFINE C == Compacted(L)
<1>1. IsLog(C) /\ \E pos : Rewrites(C, L, Kept(L), pos)
  BY CompactedIs
<1> HIDE DEF C
<1>2. PICK pos : Rewrites(C, L, Kept(L), pos)
  BY <1>1
<1>3. \A e \in Entries : Here(C, e, Len(C)) <=> Here(L, e, Len(L))
  BY <1>1, <1>2, RewriteHere
<1> QED BY <1>3 DEF Placed, C

LEMMA LivePlaced ==
    ASSUME RowsInv, Converged
    PROVE  LiveHere = Placed(log)
<1> DEFINE n == Len(log)
<1>1. n \in Nat /\ n # Void /\ applied = n
  BY LogForm DEF RowsInv, EvidenceInv, HistoryInv, Converged, Void
<1>2. Says(db, log, n) /\ Depicts(db, log, n)
  BY <1>1 DEF RowsInv, EvidenceInv, RowsTold
<1> HIDE DEF n
<1>3. \A e \in Entries : LiveIn(db, e) /\ db.entries[e].path = ThePath <=> Here(log, e, n)
  BY <1>1, <1>2, HereIs
<1> QED BY <1>3 DEF LiveHere, Placed, n

-----------------------------------------------------------------------------
(* What such a command has left there, if nobody else wrote.               *)

Whole(job, ids, H) ==
    \/ job \in {"ingest", "import"} /\ H = ids
    \/ job = "kb_import" /\ H # {} /\ Cardinality(ids) <= 1
    \/ job = "kb_upsert" /\ ids \subseteq H

(* Nothing before its first item. *)
Work(j, H) ==
    /\ j.job \in Jobs /\ j.k \in Nat \ {0} /\ j.ids \in SUBSET Entries
    /\ j.k = 1 => j.ids = {}
    /\ j.pc = "done" => j.k > Items
    /\ j.alone = TRUE /\ j.k > 1 => Whole(j.job, j.ids, H)

WorkOf(j, H) == j.pc \in Adding => Work(j, H)

WholeInv == BulkForms /\ \A p \in Bulk : WorkOf(bulk[p], Placed(log))

LEMMA AddedWork ==
    ASSUME NEW j, NEW H, Work(j, H), NEW e \in Entries,
           j.job = "kb_import" => H = {},
           NEW S, S = IF Replaces(j.job, j.k) THEN H ELSE {},
           NEW i, i.pc = "adding", i.job = j.job, i.k = j.k + 1, i.alone = j.alone,
           i.ids = (IF j.job = "import" THEN {} ELSE j.ids) \cup {e}
    PROVE  Work(i, {e} \cup (H \ S))
<1> DEFINE G == {e} \cup (H \ S)
<1>1. /\ i.job \in Jobs /\ i.k \in Nat \ {0} /\ i.ids \in SUBSET Entries /\ i.k # 1
      /\ j.k \in Nat /\ (j.k = 1 => j.ids = {}) /\ (j.k # 1 => j.k > 1)
  BY DEF Work
<1>2. ASSUME i.alone = TRUE PROVE Whole(i.job, i.ids, G)
  <2>1. j.k > 1 => Whole(j.job, j.ids, H)
    BY <1>2 DEF Work
  <2>2. CASE j.job = "import"
    BY <2>2 DEF Whole, Replaces
  <2>3. CASE j.job = "ingest" /\ j.k = 1
    BY <1>1, <2>3 DEF Whole, Replaces
  <2>4. CASE j.job = "ingest" /\ j.k # 1
    BY <1>1, <2>1, <2>4 DEF Whole, Replaces
  <2>5. CASE j.job = "kb_import"
    <3>1. j.ids = {}
      BY <1>1, <2>1, <2>5 DEF Whole
    <3>2. i.ids = {e} /\ Cardinality({e}) = 1
      BY <2>5, <3>1, FS_Singleton
    <3> QED BY <2>5, <3>2 DEF Whole
  <2>6. CASE j.job = "kb_upsert"
    <3>1. S = {}
      BY <2>6 DEF Replaces
    <3>2. j.ids \subseteq H
      BY <1>1, <2>1, <2>6 DEF Whole
    <3> QED BY <2>6, <3>1, <3>2 DEF Whole
  <2> QED BY <1>1, <2>2, <2>3, <2>4, <2>5, <2>6 DEF Jobs, ToolJobs
<1> HIDE DEF G
<1>3. Work(i, G)
  BY <1>1, <1>2 DEF Work
<1> QED BY <1>3 DEF G

(* What another wrote is no longer its own work. *)
LEMMA DisturbedWork ==
    ASSUME BulkForms, NEW p \in Bulk, NEW H, WorkOf(bulk[p], H), NEW G
    PROVE  WorkOf(Disturbed[p], G)
<1>1. CASE bulk[p].pc \in Adding
  <2> DEFINE j == bulk[p]
             i == Disturbed[p]
  <2>1. j = [pc |-> j.pc, job |-> j.job, k |-> j.k, ids |-> j.ids, alone |-> j.alone]
    BY <1>1 DEF BulkForms, Adding, Reading, Held, Idle
  <2>2. i = [j EXCEPT !.alone = FALSE]
    BY <1>1 DEF Disturbed, Adding
  <2> HIDE DEF i, j
  <2>3. i.pc = j.pc /\ i.job = j.job /\ i.k = j.k /\ i.ids = j.ids /\ i.alone = FALSE
    BY <2>1, <2>2
  <2>4. Work(j, H)
    BY <1>1 DEF WorkOf, j
  <2>5. Work(i, G)
    BY <2>3, <2>4 DEF Work
  <2> QED BY <2>5 DEF WorkOf, i
<1>2. CASE bulk[p].pc \notin Adding
  <2>1. Disturbed[p] = bulk[p]
    BY <1>2 DEF Disturbed, Adding
  <2> QED BY <1>2, <2>1 DEF WorkOf
<1> QED BY <1>1, <1>2

LEMMA WriteWorks ==
    ASSUME WholeInv, BulkForms',
           \A q \in Bulk : bulk'[q] = Disturbed[q] \/ WorkOf(bulk'[q], Placed(log'))
    PROVE  WholeInv'
<1>1. ASSUME NEW q \in Bulk PROVE WorkOf(bulk'[q], Placed(log'))
  <2>1. WorkOf(Disturbed[q], Placed(log'))
    BY DisturbedWork DEF WholeInv
  <2> QED BY <2>1
<1>2. Placed(log') = Placed(log)'
  BY DEF Placed
<1> QED BY <1>1, <1>2 DEF WholeInv

LEMMA AddItemWorks ==
    ASSUME RowsInv, WholeInv, BulkForms', NEW p \in Bulk, AddItem(p)
    PROVE  WholeInv'
<1> DEFINE j == bulk[p]
           replace == Replaces(j.job, j.k)
           before == IF j.job = "import" THEN {} ELSE j.ids
           H == Placed(log)
<1>1. PICK e \in Entries : /\ Add(AtPath(e, "convention", replace))
                           /\ Goes(p, [NextItem(p) EXCEPT !.ids = before \cup {e}])
  BY DEF AddItem
<1> DEFINE d == AtPath(e, "convention", replace)
           S == Replaced(d)
           i == [NextItem(p) EXCEPT !.ids = before \cup {e}]
<1>2. d.id = e /\ d.path = ThePath /\ d.replace = replace /\ d.kind \in Kinds /\ d.cites \in Nat
  BY DEF AtPath, Kinds
<1> HIDE DEF d
<1>3. PICK B : AddBatch(B, d, S, writes + 1) /\ \E embeds : WriteAs(B, embeds)
  BY <1>1, <1>2, AddWrites DEF d
<1>4. Converged /\ log' = log \o B
  BY <1>3 DEF WriteAs
<1>5. LiveHere = H
  BY <1>4, LivePlaced
<1>6. S = IF replace THEN H ELSE {}
  BY <1>2, <1>5 DEF Replaced, LiveHere
<1> HIDE DEF S
<1>7. Placed(log') = {e} \cup (H \ S)
  <2>1. IsLog(log)
    BY DEF RowsInv, EvidenceInv, HistoryInv
  <2> QED BY <1>2, <1>3, <1>4, <2>1, AddPlacesOne
<1>8. j.pc = "adding" /\ Work(j, H) /\ (j.job = "kb_import" => H = {})
  BY <1>5 DEF AddItem, WholeInv, WorkOf, Adding, Skips
<1>9. i.pc = "adding" /\ i.job = j.job /\ i.k = j.k + 1 /\ i.alone = j.alone /\ i.ids = before \cup {e}
  <2>1. j = [pc |-> j.pc, job |-> j.job, k |-> j.k, ids |-> j.ids, alone |-> j.alone]
    BY <1>8 DEF WholeInv, BulkForms, Adding, Reading, Held, Idle
  <2> DEFINE m == [j EXCEPT !.k = j.k + 1]
  <2>2. i = [m EXCEPT !.ids = before \cup {e}]
    BY DEF NextItem
  <2> HIDE DEF j
  <2>3. m = [pc |-> j.pc, job |-> j.job, k |-> j.k + 1, ids |-> j.ids, alone |-> j.alone]
    BY <2>1
  <2> HIDE DEF m, i, before
  <2>4. i = [pc |-> j.pc, job |-> j.job, k |-> j.k + 1, ids |-> before \cup {e}, alone |-> j.alone]
    BY <2>2, <2>3
  <2> QED BY <1>8, <2>4
<1>10. bulk' = [Disturbed EXCEPT ![p] = i] \/ bulk' = [Disturbed EXCEPT ![p] = Idle]
  BY <1>1 DEF Goes
<1> HIDE DEF i
<1>11. /\ bulk'[p] = i \/ bulk'[p] = Idle
       /\ \A q \in Bulk : q # p => bulk'[q] = Disturbed[q]
  BY <1>10 DEF Disturbed
<1> HIDE DEF j, H
<1>12. Work(i, Placed(log'))
  BY <1>6, <1>7, <1>8, <1>9, AddedWork
<1>13. WorkOf(bulk'[p], Placed(log'))
  BY <1>11, <1>12 DEF WorkOf, Idle, Adding
<1> QED BY <1>11, <1>13, WriteWorks

LEMMA OtherWritesWork ==
    ASSUME WholeInv, BulkForms', WritesBetween \/ \E p \in Bulk : DigestAdds(p)
    PROVE  WholeInv'
<1>1. CASE WritesBetween
  <2>1. bulk' = Disturbed
    BY <1>1 DEF WritesBetween
  <2> QED BY <2>1, WriteWorks
<1>2. ASSUME NEW p \in Bulk, DigestAdds(p) PROVE WholeInv'
  <2> DEFINE next == [bulk[p] EXCEPT !.pc = "opening"]
  <2>1. bulk[p].pc = "digesting"
    BY <1>2 DEF DigestAdds
  <2>2. bulk[p] = [pc |-> bulk[p].pc, from |-> bulk[p].from, to |-> bulk[p].to]
    BY <2>1 DEF WholeInv, BulkForms, Adding, Reading, Held, Idle
  <2>3. next.pc = "opening"
    BY <2>2
  <2>4. bulk' = [Disturbed EXCEPT ![p] = next] \/ bulk' = [Disturbed EXCEPT ![p] = Idle]
    BY <1>2 DEF DigestAdds, Goes
  <2> HIDE DEF next
  <2>5. /\ bulk'[p] = next \/ bulk'[p] = Idle
        /\ \A q \in Bulk : q # p => bulk'[q] = Disturbed[q]
    BY <2>4 DEF Disturbed
  <2>6. WorkOf(bulk'[p], Placed(log'))
    BY <2>3, <2>5 DEF WorkOf, Idle, Adding
  <2> QED BY <2>5, <2>6, WriteWorks
<1> QED BY <1>1, <1>2

(* A step that leaves the path as it is. *)
LEMMA StepWorks ==
    ASSUME WholeInv, BulkForms', Placed(log') = Placed(log),
           \A q \in Bulk : bulk'[q] = bulk[q] \/ WorkOf(bulk'[q], Placed(log))
    PROVE  WholeInv'
<1>1. \A q \in Bulk : WorkOf(bulk'[q], Placed(log'))
  BY DEF WholeInv
<1>2. Placed(log') = Placed(log)'
  BY DEF Placed
<1> QED BY <1>1, <1>2 DEF WholeInv

LEMMA JobsWork ==
    ASSUME RowsInv, WholeInv, BulkForms', NEW p \in Bulk,
           \/ \E job \in Jobs : JobBegins(p, job)
           \/ SkipItem(p) \/ JobEnds(p) \/ Dies(p)
    PROVE  WholeInv'
<1> DEFINE j == bulk[p]
           i == bulk'[p]
           H == Placed(log)
<1>1. /\ DOMAIN bulk = Bulk /\ WorkOf(j, H)
      /\ j.pc = "adding" =>
             /\ j = [pc |-> "adding", job |-> j.job, k |-> j.k, ids |-> j.ids, alone |-> j.alone]
             /\ Work(j, H)
  BY DEF WholeInv, BulkForms, WorkOf, Adding, Reading, Held, Idle
<1>2. /\ log' = log
      /\ \A q \in Bulk : q # p => bulk'[q] = bulk[q]
  <2>1. ASSUME NEW job, JobBegins(p, job) PROVE log' = log /\ bulk' = [bulk EXCEPT ![p] = i]
    BY <1>1, <2>1 DEF JobBegins, vars
  <2>2. SkipItem(p) => log' = log /\ bulk' = [bulk EXCEPT ![p] = i]
    BY <1>1 DEF SkipItem, vars
  <2>3. JobEnds(p) => log' = log /\ bulk' = [bulk EXCEPT ![p] = i]
    BY <1>1 DEF JobEnds, vars
  <2>4. Dies(p) => log' = log /\ bulk' = [bulk EXCEPT ![p] = i]
    BY <1>1 DEF Dies, vars
  <2>5. log' = log /\ bulk' = [bulk EXCEPT ![p] = i]
    BY <2>1, <2>2, <2>3, <2>4
  <2> HIDE DEF i
  <2> QED BY <1>1, <2>5
<1>3. ASSUME NEW job \in Jobs, JobBegins(p, job) PROVE WorkOf(i, H)
  <2>1. i = [pc |-> "adding", job |-> job, k |-> 1, ids |-> {}, alone |-> TRUE]
    BY <1>1, <1>3 DEF JobBegins
  <2> HIDE DEF i, H
  <2>2. i.pc = "adding" /\ i.job = job /\ i.k = 1 /\ i.ids = {}
    BY <2>1
  <2> QED BY <2>2 DEF WorkOf, Work
<1>4. ASSUME SkipItem(p) PROVE WorkOf(i, H)
  <2> DEFINE m == [j EXCEPT !.k = j.k + 1]
             alone == j.alone /\ Converged
  <2>1. j.pc = "adding" /\ j.job = "kb_import" /\ LiveHere # {}
    BY <1>4 DEF SkipItem, Skips
  <2>2. i = [m EXCEPT !.alone = m.alone /\ Converged]
    BY <1>1, <1>4 DEF SkipItem, NextItem
  <2> HIDE DEF i, j, H
  <2>3. m = [pc |-> "adding", job |-> j.job, k |-> j.k + 1, ids |-> j.ids, alone |-> j.alone]
    BY <1>1, <2>1
  <2> HIDE DEF m
  <2>4. i = [pc |-> "adding", job |-> j.job, k |-> j.k + 1, ids |-> j.ids, alone |-> alone]
    BY <2>2, <2>3
  <2>5. i.pc = "adding" /\ i.job = j.job /\ i.k = j.k + 1 /\ i.ids = j.ids /\ i.alone = alone
    BY <2>4
  <2>6. Work(j, H) /\ j.k \in Nat
    BY <1>1, <2>1 DEF Work
  <2>7. ASSUME i.alone = TRUE PROVE Whole(i.job, i.ids, H)
    <3>1. j.alone = TRUE /\ Converged
      BY <2>5, <2>7
    <3>2. H # {}
      BY <2>1, <3>1, LivePlaced DEF H
    <3>3. Cardinality(j.ids) <= 1
      <4>1. CASE j.k = 1
        BY <2>6, <4>1, FS_EmptySet DEF Work
      <4>2. CASE j.k # 1
        <5>1. j.k > 1
          BY <2>6, <4>2 DEF Work
        <5> QED BY <2>1, <2>6, <3>1, <5>1 DEF Work, Whole
      <4> QED BY <4>1, <4>2
    <3> QED BY <2>1, <2>5, <3>2, <3>3 DEF Whole
  <2>8. /\ i.job \in Jobs /\ i.k \in Nat \ {0} /\ i.k # 1 /\ i.ids \in SUBSET Entries
    BY <2>5, <2>6 DEF Work
  <2>9. Work(i, H)
    BY <2>5, <2>7, <2>8 DEF Work
  <2> QED BY <2>9 DEF WorkOf
<1>5. ASSUME JobEnds(p) PROVE WorkOf(i, H)
  <2>1. j.pc = "adding" /\ j.k > Items /\ i = [j EXCEPT !.pc = "done"]
    BY <1>1, <1>5 DEF JobEnds
  <2> HIDE DEF i, j, H
  <2>2. i.job = j.job /\ i.k = j.k /\ i.ids = j.ids /\ i.alone = j.alone
    BY <1>1, <2>1
  <2>3. Work(j, H)
    BY <1>1, <2>1
  <2>4. Work(i, H)
    BY <2>1, <2>2, <2>3 DEF Work
  <2> QED BY <2>4 DEF WorkOf
<1>6. ASSUME Dies(p) PROVE WorkOf(i, H)
  <2>1. i = Idle
    BY <1>1, <1>6 DEF Dies
  <2> HIDE DEF i
  <2> QED BY <2>1 DEF WorkOf, Idle, Adding
<1>7. WorkOf(i, H)
  BY <1>3, <1>4, <1>5, <1>6
<1> QED BY <1>2, <1>7, StepWorks

LEMMA HooksWork ==
    ASSUME WholeInv, BulkForms', NEW p \in Bulk,
           \/ DigestBegins(p) \/ DigestLooks(p) \/ OpensState(p) \/ LocksState(p) \/ AdvancesState(p)
    PROVE  WholeInv'
<1>1. DOMAIN bulk = Bulk
  BY DEF WholeInv, BulkForms
<1>2. /\ log' = log
      /\ \A q \in Bulk : q # p => bulk'[q] = bulk[q]
  <2> DEFINE i == bulk'[p]
  <2>1. DigestBegins(p) => log' = log /\ bulk' = [bulk EXCEPT ![p] = i]
    BY <1>1 DEF DigestBegins, vars
  <2>2. DigestLooks(p) => log' = log /\ bulk' = [bulk EXCEPT ![p] = i]
    BY <1>1 DEF DigestLooks, vars
  <2>3. OpensState(p) => log' = log /\ bulk' = [bulk EXCEPT ![p] = i]
    BY <1>1 DEF OpensState, vars
  <2>4. LocksState(p) => log' = log /\ bulk' = [bulk EXCEPT ![p] = i]
    BY <1>1 DEF LocksState, vars
  <2>5. AdvancesState(p) => log' = log /\ bulk' = [bulk EXCEPT ![p] = i]
    BY <1>1 DEF AdvancesState, vars
  <2>6. log' = log /\ bulk' = [bulk EXCEPT ![p] = i]
    BY <2>1, <2>2, <2>3, <2>4, <2>5
  <2> HIDE DEF i
  <2> QED BY <1>1, <2>6
<1>3. bulk'[p].pc \notin Adding
  <2>1. CASE DigestBegins(p)
    <3>1. PICK from, to : bulk' = [bulk EXCEPT ![p] = [pc |-> "looking", from |-> from, to |-> to]]
      BY <2>1 DEF DigestBegins
    <3>2. bulk'[p].pc = "looking"
      BY <1>1, <3>1
    <3> QED BY <3>2 DEF Adding
  <2>2. CASE DigestLooks(p)
    <3>1. bulk[p] = [pc |-> "looking", from |-> bulk[p].from, to |-> bulk[p].to]
      BY <2>2 DEF DigestLooks, WholeInv, BulkForms, Adding, Reading, Held, Idle
    <3>2. PICK pc \in {"opening", "digesting"} : bulk'[p] = [bulk[p] EXCEPT !.pc = pc]
      BY <1>1, <2>2 DEF DigestLooks
    <3> DEFINE j == bulk[p]
               i == bulk'[p]
    <3> HIDE DEF i, j
    <3>3. i.pc = pc
      BY <3>1, <3>2 DEF i, j
    <3> QED BY <3>3 DEF Adding, i
  <2>3. CASE OpensState(p)
    <3>1. bulk'[p].pc = "locking"
      BY <1>1, <2>3 DEF OpensState
    <3> QED BY <3>1 DEF Adding
  <2>4. CASE LocksState(p)
    <3>1. bulk[p] = [pc |-> "locking", to |-> bulk[p].to, file |-> bulk[p].file]
      BY <2>4 DEF LocksState, WholeInv, BulkForms, Adding, Reading, Held, Idle
    <3>2. bulk'[p] = [bulk[p] EXCEPT !.pc = "advancing"] \/ bulk'[p] = Idle
      BY <1>1, <2>4 DEF LocksState
    <3>3. bulk'[p].pc \in {"advancing", "idle"}
      BY <3>1, <3>2 DEF Idle
    <3> QED BY <3>3 DEF Adding
  <2>5. CASE AdvancesState(p)
    <3>1. bulk'[p].pc = "idle"
      BY <1>1, <2>5 DEF AdvancesState, Idle
    <3> QED BY <3>1 DEF Adding
  <2> QED BY <2>1, <2>2, <2>3, <2>4, <2>5
<1>4. WorkOf(bulk'[p], Placed(log))
  BY <1>3 DEF WorkOf
<1> QED BY <1>2, <1>4, StepWorks

LEMMA WholeNext ==
    ASSUME RowsInv, WholeInv, BulkForms', [KbNext]_kbVars
    PROVE  WholeInv'
<1>1. ASSUME Placed(log') = Placed(log), bulk' = bulk PROVE WholeInv'
  BY <1>1, StepWorks
<1>2. ASSUME log' = log, bulk' = bulk PROVE WholeInv'
  BY <1>1, <1>2
<1>3. CASE CompactAndSweep
  <2>1. log' \in {log, Compacted(log)} /\ bulk' = bulk
    BY <1>3 DEF CompactAndSweep, Compact, bulkVars
  <2>2. Placed(Compacted(log)) = Placed(log)
    BY RewritePlaces DEF RowsInv, RowsTold, EvidenceInv, HistoryInv
  <2>3. Placed(log') = Placed(log)
    BY <2>1, <2>2
  <2> QED BY <1>1, <2>1, <2>3
<1>4. CASE Recovers \/ RebuildWithoutPeers
  <2>1. log' = log /\ bulk' = bulk
    BY <1>4 DEF Recovers, RebuildWithoutPeers, CatchUp, Reembed, ReembedSelect, ReembedWrite,
                ReembedEnd, Rebuild, bulkVars
  <2> QED BY <1>2, <2>1
<1>5. CASE UNCHANGED <<vars, bulkVars>> \/ UNCHANGED kbVars \/ SessionGoesOn
  <2>1. log' = log /\ bulk' = bulk
    BY <1>5 DEF kbVars, vars, bulkVars, SessionGoesOn
  <2> QED BY <1>2, <2>1
<1>6. \/ WritesBetween \/ Recovers \/ CompactAndSweep \/ RebuildWithoutPeers
      \/ UNCHANGED <<vars, bulkVars>> \/ UNCHANGED kbVars \/ SessionGoesOn
      \/ \E p \in Bulk :
            \/ \E job \in Jobs : JobBegins(p, job)
            \/ AddItem(p) \/ SkipItem(p) \/ JobEnds(p) \/ Dies(p)
            \/ DigestBegins(p) \/ DigestLooks(p) \/ DigestAdds(p)
            \/ OpensState(p) \/ LocksState(p) \/ AdvancesState(p)
  BY DEF KbNext, BulkNext
<1> QED BY <1>3, <1>4, <1>5, <1>6, AddItemWorks, OtherWritesWork, JobsWork, HooksWork

LEMMA WholeInit ==
    ASSUME KbInit
    PROVE  WholeInv
BY DEF KbInit, BulkInit, WholeInv, BulkForms, WorkOf, Idle, Adding

LEMMA WholeHolds ==
    ASSUME RowsInv, WholeInv
    PROVE  BulkIsWhole
<1> SUFFICES ASSUME NEW p \in Bulk, Converged, bulk[p].pc = "done", bulk[p].alone
             PROVE  \/ bulk[p].job \in {"ingest", "import"} /\ LiveHere = bulk[p].ids
                    \/ bulk[p].job = "kb_import" /\ LiveHere # {} /\ Cardinality(bulk[p].ids) <= 1
                    \/ bulk[p].job = "kb_upsert" /\ bulk[p].ids \subseteq LiveHere
  BY DEF BulkIsWhole
<1>1. LiveHere = Placed(log)
  BY LivePlaced
<1>2. Work(bulk[p], Placed(log))
  BY DEF WholeInv, WorkOf, Adding
<1>3. bulk[p].k > 1 /\ bulk[p].alone = TRUE
  <2>1. bulk[p].k > Items /\ Items \in Nat \ {0} /\ bulk[p].k \in Nat
    BY <1>2, BulkAssumption DEF Work
  <2> QED BY <2>1
<1> QED BY <1>1, <1>2, <1>3 DEF Work, Whole

(* Who ends a document or a file undisturbed has left at the path what it is to leave:
   of documents and files of any length, however many commands run, die and begin
   again, and whatever is compacted, replayed or rebuilt between two adds. *)
THEOREM BulkStaysWhole == KbSpec => []BulkIsWhole
<1> DEFINE I == RowsInv /\ WholeInv /\ HookInv /\ PeakInv
<1>1. KbInit => I
  BY RowsInit, WholeInit, HookInit
<1>2. I /\ [KbNext]_kbVars => I'
  <2> SUFFICES ASSUME I, [KbNext]_kbVars PROVE I'
    OBVIOUS
  <2>1. RowsInv'
    BY RowsNext
  <2>2. HookInv' /\ PeakInv' /\ BulkForms'
    BY HookNext DEF HookInv
  <2> QED BY <2>1, <2>2, WholeNext
<1>3. I => BulkIsWhole
  BY WholeHolds
<1> HIDE DEF I
<1> QED BY <1>1, <1>2, <1>3, PTL DEF KbSpec

-----------------------------------------------------------------------------
(* The events about an entry keep their order in a rewrite.                *)

Concerns(ev, e) ==
    \/ ev.op \in {"upsert"} \cup EvidenceOps /\ ev.id = e
    \/ Ends(ev, e)

(* Evidence that is kept was written under its anchor, to an entry that lives since. *)
LEMMA AnchorStands ==
    ASSUME NEW L, IsLog(L), NEW i \in KeptEvidence(L), NEW e, e = L[i].id
    PROVE  /\ i \in 1..Len(L) /\ Anchor(L, i) \in 1..i - 1 /\ IsUpsert(L, Anchor(L, i), e)
           /\ Place(L, KeptEvidence(L), i) = Anchor(L, i)
           /\ \A w \in 1..i : IsUpsert(L, w, e) => w <= Anchor(L, i)
           /\ \A x \in 1..Len(L) : Ends(L[x], e) => x < Anchor(L, i)
<1> DEFINE n == Len(L)
           u == LatestUpsert(L, e, i)
<1>1. /\ i \in 1..n /\ DOMAIN L = 1..n /\ n \in Nat /\ L[i].op \in EvidenceOps
      /\ LiveAt(L, e, i - 1) /\ i > LatestEnd(L, e, n)
  BY LogForm DEF KeptEvidence
<1>2. Anchor(L, i) = u /\ u \in Upserts(L, e) /\ u \in 1..n
  BY AnchorIs DEF Anchor
<1>3. u <= i /\ \A w \in Upserts(L, e) : w <= i => w <= u
  BY <1>1, LatestUpsertIs
<1>4. IsUpsert(L, u, e) /\ u # i
  BY <1>1, <1>2 DEF Upserts, IsUpsert, EvidenceOps
<1>5. LatestUpsert(L, e, i - 1) > LatestEnd(L, e, i - 1)
  BY <1>1 DEF LiveAt
<1>6. LatestUpsert(L, e, i - 1) <= u
  <2>1. i - 1 \in Nat
    BY <1>1
  <2>2. /\ LatestUpsert(L, e, i - 1) \in Nat /\ LatestUpsert(L, e, i - 1) <= i - 1
        /\ LatestUpsert(L, e, i - 1) = 0 \/ LatestUpsert(L, e, i - 1) \in Upserts(L, e)
    BY <2>1, LatestUpsertIs
  <2>3. u \in Nat
    BY <1>1, <1>2
  <2> HIDE DEF u
  <2> QED BY <1>1, <1>3, <2>2, <2>3
<1>7. \A x \in 1..n : Ends(L[x], e) => x < u
  <2> SUFFICES ASSUME NEW x \in 1..n, Ends(L[x], e) PROVE x < u
    OBVIOUS
  <2>1. LatestEnd(L, e, n) \in Nat /\ x <= LatestEnd(L, e, n)
    BY <1>1, LatestEndBounds
  <2>2. i - 1 \in Nat /\ x \in 1..i - 1
    <3> HIDE DEF n
    <3> QED BY <1>1, <2>1
  <2>3. LatestEnd(L, e, i - 1) \in Nat /\ x <= LatestEnd(L, e, i - 1)
    BY <2>2, LatestEndBounds
  <2>4. LatestUpsert(L, e, i - 1) \in Nat
    BY <2>2, LatestUpsertIs
  <2> HIDE DEF u, n
  <2> QED BY <1>1, <1>2, <1>5, <1>6, <2>3, <2>4
<1>8. \A w \in 1..i : IsUpsert(L, w, e) => w <= u
  <2>1. \A w \in 1..i : IsUpsert(L, w, e) => w \in Upserts(L, e)
    BY <1>1 DEF Upserts, IsUpsert
  <2> QED BY <1>3, <2>1
<1>9. Place(L, KeptEvidence(L), i) = u
  BY <1>2 DEF Place
<1>10. u \in 1..i - 1
  <2> HIDE DEF u, n
  <2> QED BY <1>1, <1>2, <1>3, <1>4
<1> QED BY <1>1, <1>2, <1>4, <1>7, <1>8, <1>9, <1>10

LEMMA RewriteOrder ==
    ASSUME NEW L, IsLog(L), NEW C, NEW pos, Rewrites(C, L, Kept(L), pos),
           NEW e, NEW i \in Kept(L), NEW j \in Kept(L),
           Concerns(L[i], e), Concerns(L[j], e), i < j
    PROVE  pos[i] < pos[j]
<1> DEFINE P(h) == Place(L, KeptEvidence(L), h)
<1>0. i \in 1..Len(L) /\ j \in 1..Len(L) /\ Len(L) \in Nat
  BY LogForm DEF Rewrites
<1>1. \A h \in Kept(L) : L[h].op \in EvidenceOps => h \in KeptEvidence(L)
  BY EvidenceIsKept
<1>2. \A h : L[h].op \notin EvidenceOps => P(h) = h
  BY DEF Place, KeptEvidence
<1>3. \A h : L[h].op \in EvidenceOps /\ Concerns(L[h], e) => L[h].id = e
  BY DEF Concerns, Ends, EvidenceOps
<1>4. CASE L[j].op \notin EvidenceOps /\ L[i].op \notin EvidenceOps
  BY <1>4 DEF Rewrites
<1>5. CASE L[j].op \notin EvidenceOps /\ L[i].op \in EvidenceOps
  <2>1. i \in KeptEvidence(L)
    BY <1>1, <1>5
  <2>2. P(i) \in 1..i - 1
    BY <2>1, AnchorStands
  <2>3. P(i) < P(j)
    BY <1>0, <1>2, <1>5, <2>2
  <2> QED BY <2>3 DEF Precedes, Rewrites
<1>6. CASE L[j].op \in EvidenceOps
  <2>1. j \in KeptEvidence(L) /\ L[j].id = e
    BY <1>1, <1>3, <1>6
  <2>2. /\ P(j) \in 1..j - 1
        /\ \A w \in 1..j : IsUpsert(L, w, e) => w <= P(j)
        /\ \A x \in 1..Len(L) : Ends(L[x], e) => x < P(j)
    BY <2>1, AnchorStands
  <2>3. CASE L[i].op \notin EvidenceOps
    <3>1. IsUpsert(L, i, e) \/ Ends(L[i], e)
      BY <2>3 DEF Concerns, IsUpsert
    <3>2. i \in 1..j
      BY <1>0
    <3>3. P(i) <= P(j) /\ P(i) \in Nat
      BY <1>0, <1>2, <2>2, <2>3, <3>1, <3>2
    <3>4. P(i) < P(j) \/ P(i) = P(j)
      BY <2>2, <3>3
    <3> QED BY <3>4 DEF Precedes, Rewrites
  <2>4. CASE L[i].op \in EvidenceOps
    <3>1. i \in KeptEvidence(L) /\ L[i].id = e
      BY <1>1, <1>3, <2>4
    <3>2. P(i) \in 1..i - 1 /\ IsUpsert(L, P(i), e)
      BY <3>1, AnchorStands
    <3>3. P(i) \in 1..j
      BY <1>0, <3>2
    <3>4. P(i) < P(j) \/ P(i) = P(j)
      BY <2>2, <3>2, <3>3
    <3> QED BY <3>4 DEF Precedes, Rewrites
  <2> QED BY <2>3, <2>4
<1> QED BY <1>4, <1>5, <1>6

LEMMA RewriteOrdered ==
    ASSUME NEW L, IsLog(L), NEW C, IsLog(C), NEW pos, Rewrites(C, L, Kept(L), pos),
           NEW e, NEW i \in Kept(L), NEW j \in Kept(L),
           Concerns(L[i], e), Concerns(L[j], e)
    PROVE  /\ i < j <=> pos[i] < pos[j]
           /\ i \in 1..Len(L) /\ j \in 1..Len(L) /\ pos[i] \in 1..Len(C) /\ pos[j] \in 1..Len(C)
<1>1. i \in 1..Len(L) /\ j \in 1..Len(L) /\ pos[i] \in 1..Len(C) /\ pos[j] \in 1..Len(C)
  BY DEF Rewrites
<1>2. Len(L) \in Nat /\ Len(C) \in Nat
  BY LogForm
<1>3. i < j => pos[i] < pos[j]
  BY RewriteOrder
<1>4. j < i => pos[j] < pos[i]
  BY RewriteOrder
<1> QED BY <1>1, <1>2, <1>3, <1>4

(* Each event of the rewritten log is one of the log, and those of an entry are in order. *)
LEMMA RewrittenFrom ==
    ASSUME NEW L, NEW C, NEW pos, Rewrites(C, L, Kept(L), pos), NEW m \in 1..Len(C)
    PROVE  \E i \in Kept(L) : i \in 1..Len(L) /\ pos[i] = m /\ C[m] = L[i]
BY DEF Rewrites

-----------------------------------------------------------------------------
(* Ids of evidence that are their entries'.                                *)

(* Who adds evidence finds its id free. *)
LEMMA NotTaken ==
    ASSUME NEW L, IsLog(L), IdsAreOwn(L), NEW i \in 1..Len(L), L[i].op = "evidence_add",
           NEW p \in Owners(L)[i - 1]
    PROVE  p[1] # L[i].ev
<1> SUFFICES ASSUME p[1] = L[i].ev PROVE FALSE
  OBVIOUS
<1> DEFINE n == i - 1
           K == SubSeq(L, 1, n)
<1>0. Len(L) \in Nat /\ DOMAIN L = 1..Len(L) /\ n \in 0..Len(L) /\ n \in Nat /\ n <= Len(L)
  BY LogForm
<1>1. IsLog(K) /\ Len(K) = n /\ \A j \in 1..n : K[j] = L[j]
  BY <1>0, PrefixIsLog
<1> HIDE DEF K
<1>2. \A m \in 0..n : Owners(K)[m] = Owners(L)[m]
  <2> SUFFICES ASSUME NEW m \in 0..n PROVE Owners(K)[m] = Owners(L)[m]
    OBVIOUS
  <2>1. m \in 0..Len(L) /\ m <= Len(K) /\ \A j \in 1..m : K[j] = L[j]
    BY <1>0, <1>1
  <2> QED BY <1>1, <2>1, OwnersOfPrefix
<1>3. p \in Owners(K)[Len(K)]
  BY <1>0, <1>1, <1>2
<1>4. PICK q \in 1..n : Adds(K[q], p) /\ \A m \in q..n : p \in Owners(K)[m]
  BY <1>1, <1>3, HeldSince
<1>5. q \in 1..Len(L) /\ q < i /\ L[q].op = "evidence_add" /\ p = <<L[q].ev, L[q].id>>
  BY <1>0, <1>1, <1>4 DEF Adds
<1>6. PICK k \in q + 1..i - 1 :
           L[k].op = "evidence_expire" /\ L[k].ev = L[q].ev /\ L[k].id = L[q].id
  BY <1>0, <1>5 DEF IdsAreOwn
<1>7. k - 1 \in q..n /\ k \in q..n /\ k - 1 \in 0..Len(L) /\ k \in 1..Len(L) /\ k \in 0..n
      /\ k - 1 \in 0..n
  BY <1>0, <1>5, <1>6
<1>8. p \in Owners(L)[k - 1] /\ p \in Owners(L)[k]
  BY <1>2, <1>4, <1>7
<1>9. LiveAt(L, p[2], k - 1)
  BY <1>7, <1>8, OwnersAlive, LiveAtIs
<1>10. Owners(L)[k] = OwnersNext(L, k, Owners(L)[k - 1])
  BY <1>0, <1>7, OwnersIs
<1>11. p = <<L[k].ev, L[k].id>> /\ p[2] = L[k].id
  BY <1>5, <1>6
<1> QED BY <1>6, <1>8, <1>9, <1>10, <1>11 DEF OwnersNext

(* So evidence that is added to a live entry is held. *)
LEMMA AddTakes ==
    ASSUME NEW L, IsLog(L), IdsAreOwn(L), NEW i \in 1..Len(L), L[i].op = "evidence_add",
           LiveAt(L, L[i].id, i - 1)
    PROVE  /\ Owners(L)[i] = Owners(L)[i - 1] \cup {<<L[i].ev, L[i].id>>}
           /\ Owners(L)[i] # Owners(L)[i - 1]
<1>1. \A p \in Owners(L)[i - 1] : p[1] # L[i].ev
  BY NotTaken
<1>2. Owners(L)[i] = OwnersNext(L, i, Owners(L)[i - 1])
  BY LogForm, OwnersIs
<1>3. Owners(L)[i] = Owners(L)[i - 1] \cup {<<L[i].ev, L[i].id>>}
  BY <1>1, <1>2 DEF OwnersNext
<1>4. <<L[i].ev, L[i].id>>[1] = L[i].ev
  OBVIOUS
<1> QED BY <1>1, <1>3, <1>4

(* All evidence of an entry that lives on is kept. *)
LEMMA KeptIfLive ==
    ASSUME NEW L, IsLog(L), IdsAreOwn(L), NEW i \in 1..Len(L), L[i].op \in EvidenceOps,
           NEW e, e = L[i].id, Alive(L, e, i), \A x \in i + 1..Len(L) : ~Ends(L[x], e)
    PROVE  i \in KeptEvidence(L) /\ i \in Kept(L)
<1> DEFINE n == Len(L)
<1>0. n \in Nat /\ DOMAIN L = 1..n /\ i - 1 \in 0..n /\ i \in Nat /\ i - 1 \in Nat /\ n \in 0..n
      /\ (i - 1) + 1 = i
  BY LogForm
<1>1. PICK u \in 1..i : IsUpsert(L, u, e) /\ \A x \in u + 1..i : ~Ends(L[x], e)
  BY DEF Alive
<1>2. u # i /\ u \in 1..i - 1 /\ u \in 1..n
  BY <1>0, <1>1 DEF IsUpsert, EvidenceOps
<1>3. \A x \in u + 1..n : ~Ends(L[x], e)
  <2>1. \A x \in u + 1..n : x \in u + 1..i \/ x \in i + 1..n
    BY <1>0, <1>2
  <2> QED BY <1>1, <2>1
<1>4. Alive(L, e, n) /\ Alive(L, e, i - 1)
  <2>1. \A x \in u + 1..i - 1 : x \in u + 1..n
    BY <1>0, <1>2
  <2> QED BY <1>1, <1>2, <1>3, <2>1 DEF Alive
<1>5. LiveAt(L, e, n) /\ LiveAt(L, e, i - 1)
  BY <1>0, <1>4, LiveAtIs
<1>6. i > LatestEnd(L, e, n)
  <2>1. LatestEnd(L, e, n) = 0 \/ (LatestEnd(L, e, n) \in 1..n /\ Ends(L[LatestEnd(L, e, n)], e))
    BY <1>0, LatestEndBounds
  <2>2. LatestEnd(L, e, n) \notin u + 1..n \/ LatestEnd(L, e, n) = 0
    BY <1>3, <2>1
  <2> HIDE DEF n
  <2> QED BY <1>0, <1>2, <2>1, <2>2
<1>7. L[i].op = "evidence_add" => Owners(L)[i] # Owners(L)[i - 1]
  BY <1>5, AddTakes
<1>8. i \in KeptEvidence(L)
  BY <1>0, <1>5, <1>6, <1>7 DEF KeptEvidence
<1> QED BY <1>8 DEF Kept

LEMMA RewriteIds ==
    ASSUME NEW L, IsLog(L), IdsAreOwn(L), NEW C, IsLog(C), NEW pos, Rewrites(C, L, Kept(L), pos)
    PROVE  IdsAreOwn(C)
<1> SUFFICES ASSUME NEW a \in DOMAIN C, NEW b \in DOMAIN C, a < b,
                    C[a].op = "evidence_add", C[b].op = "evidence_add", C[a].ev = C[b].ev
             PROVE  /\ C[a].id = C[b].id
                    /\ \E m \in a + 1..b - 1 : /\ C[m].op = "evidence_expire"
                                              /\ C[m].ev = C[a].ev /\ C[m].id = C[a].id
  BY DEF IdsAreOwn
<1>0. /\ a \in 1..Len(C) /\ b \in 1..Len(C) /\ Len(C) \in Nat
      /\ DOMAIN L = 1..Len(L) /\ Len(L) \in Nat
  BY LogForm
<1>1. PICK i \in Kept(L) : i \in 1..Len(L) /\ pos[i] = a /\ C[a] = L[i]
  BY <1>0, RewrittenFrom
<1>2. PICK j \in Kept(L) : j \in 1..Len(L) /\ pos[j] = b /\ C[b] = L[j]
  BY <1>0, RewrittenFrom
<1>3. i # j
  BY <1>0, <1>1, <1>2
<1>4. L[i].id = L[j].id
  <2>1. i < j \/ j < i
    BY <1>1, <1>2, <1>3
  <2> QED BY <1>0, <1>1, <1>2, <2>1 DEF IdsAreOwn
<1> DEFINE e == L[i].id
<1>5. Concerns(L[i], e) /\ Concerns(L[j], e)
  BY <1>1, <1>2, <1>4 DEF Concerns, EvidenceOps
<1> HIDE DEF e
<1>6. i < j
  BY <1>1, <1>2, <1>5, RewriteOrdered
<1>7. PICK k \in i + 1..j - 1 :
           L[k].op = "evidence_expire" /\ L[k].ev = L[i].ev /\ L[k].id = L[i].id
  BY <1>0, <1>1, <1>2, <1>6 DEF IdsAreOwn
<1>8. k \in 1..Len(L) /\ i < k /\ k < j /\ L[k].id = e /\ L[k].op \in EvidenceOps
  BY <1>0, <1>1, <1>2, <1>7 DEF e, EvidenceOps
<1>9. k \in Kept(L)
  <2>1. i \in KeptEvidence(L)
    BY <1>1, EvidenceIsKept DEF EvidenceOps
  <2>2. /\ Anchor(L, i) \in 1..i - 1 /\ IsUpsert(L, Anchor(L, i), e)
        /\ \A x \in 1..Len(L) : Ends(L[x], e) => x < Anchor(L, i)
    BY <2>1, AnchorStands DEF e
  <2>3. \A x \in Anchor(L, i) + 1..Len(L) : ~Ends(L[x], e)
    <3> SUFFICES ASSUME NEW x \in Anchor(L, i) + 1..Len(L), Ends(L[x], e) PROVE FALSE
      OBVIOUS
    <3>1. x \in 1..Len(L) /\ Anchor(L, i) < x
      BY <1>0, <2>2
    <3> QED BY <1>0, <2>2, <3>1
  <2>4. Anchor(L, i) \in 1..k
    <3>1. i \in Int /\ k \in Int
      BY <1>1, <1>8
    <3> QED BY <1>8, <2>2, <3>1
  <2>5. Alive(L, e, k)
    <3>1. \A x \in Anchor(L, i) + 1..k : x \in Anchor(L, i) + 1..Len(L)
      BY <1>0, <1>8
    <3> QED BY <2>2, <2>3, <2>4, <3>1 DEF Alive
  <2>6. \A x \in k + 1..Len(L) : x \in Anchor(L, i) + 1..Len(L)
    BY <1>0, <2>4
  <2> QED BY <1>8, <2>3, <2>5, <2>6, KeptIfLive
<1>10. Concerns(L[k], e)
  BY <1>8 DEF Concerns
<1>11. a < pos[k] /\ pos[k] < b /\ pos[k] \in 1..Len(C)
  BY <1>1, <1>2, <1>5, <1>8, <1>9, <1>10, RewriteOrdered
<1>12. C[pos[k]] = L[k] /\ pos[k] \in a + 1..b - 1
  BY <1>0, <1>9, <1>11 DEF Rewrites
<1> QED BY <1>1, <1>2, <1>4, <1>7, <1>12

-----------------------------------------------------------------------------
(* What all writers keep to, of earlier versions and of this one, w batches on. *)

OrderlyLog(L, w) ==
    /\ IdsAreOwn(L) /\ KindsComeLast(L) /\ ArmsAgree(L)
    /\ \A i \in DOMAIN L :
          /\ L[i].op = "evidence_add" => L[i].ev[1] \in Int /\ L[i].ev[1] <= w
          /\ L[i].op = "candidates" => L[i].run \in Int /\ L[i].run <= w
          /\ L[i].op = "test" => L[i].ts # 0

LEMMA OrderlyGrows ==
    ASSUME NEW L, IsLog(L), NEW w \in Nat, OrderlyLog(L, w), NEW v, v = w + 1,
           NEW B, IsLog(B), FreshIds(B, v), OwnNames(B, v), NEW d, Auditing(B, d)
    PROVE  OrderlyLog(L \o B, v)
<1> DEFINE K == L \o B
           n == Len(L)
<1>0. /\ IsLog(K) /\ Len(K) = n + Len(B) /\ n \in Nat /\ Len(B) \in Nat
      /\ DOMAIN L = 1..n /\ DOMAIN B = 1..Len(B) /\ DOMAIN K = 1..Len(K)
      /\ \A i \in 1..n : K[i] = L[i]
      /\ \A i \in n + 1..Len(K) : i - n \in 1..Len(B) /\ K[i] = B[i - n]
  <2>1. IsLog(K)
    BY LogGrows
  <2>2. /\ Len(K) = n + Len(B) /\ n \in Nat /\ Len(B) \in Nat
        /\ \A i \in 1..n : K[i] = L[i]
        /\ \A i \in n + 1..Len(K) : i - n \in 1..Len(B) /\ K[i] = B[i - n]
    BY TailOf
  <2> QED BY <2>1, <2>2, LogForm
<1> HIDE DEF K
<1>1. \A i \in DOMAIN K : \/ i \in DOMAIN L /\ K[i] = L[i]
                          \/ i > n /\ i - n \in DOMAIN B /\ K[i] = B[i - n]
  <2>1. \A i \in 1..Len(K) : i \in 1..n \/ (i > n /\ i \in n + 1..Len(K))
    BY <1>0
  <2> QED BY <1>0, <2>1
<1>2. \A i \in DOMAIN B :
          /\ B[i].op = "evidence_add" => B[i].ev[1] = v
          /\ B[i].op = "upsert" => B[i].kind # "none"
          /\ B[i].op = "candidates" => B[i].run = v /\ i = 1
          /\ B[i].op = "test" => B[i].ts # 0
  BY DEF FreshIds, OwnNames, Auditing
<1>3. \A i \in DOMAIN L :
          /\ L[i].op = "evidence_add" => L[i].ev[1] # v
          /\ L[i].op = "candidates" => L[i].run # v
  BY DEF OrderlyLog
<1>4. \A i \in DOMAIN K :
          /\ K[i].op = "evidence_add" => K[i].ev[1] \in Int /\ K[i].ev[1] <= v
          /\ K[i].op = "candidates" => K[i].run \in Int /\ K[i].run <= v
          /\ K[i].op = "test" => K[i].ts # 0
  <2>1. \A x : x \in Int /\ x <= w => x <= v
    OBVIOUS
  <2>2. v \in Int /\ v <= v
    OBVIOUS
  <2> QED BY <1>1, <1>2, <2>1, <2>2 DEF OrderlyLog
<1>5. IdsAreOwn(K)
  <2> SUFFICES ASSUME NEW i \in DOMAIN K, NEW j \in DOMAIN K, i < j,
                      K[i].op = "evidence_add", K[j].op = "evidence_add", K[i].ev = K[j].ev
               PROVE  /\ K[i].id = K[j].id
                      /\ \E k \in i + 1..j - 1 : /\ K[k].op = "evidence_expire"
                                                /\ K[k].ev = K[i].ev /\ K[k].id = K[i].id
    BY DEF IdsAreOwn
  <2>1. ~(i > n /\ j > n)
    <3> SUFFICES ASSUME i > n, j > n PROVE FALSE
      OBVIOUS
    <3>1. i \in n + 1..Len(K) /\ j \in n + 1..Len(K)
      BY <1>0
    <3>2. i - n \in DOMAIN B /\ K[i] = B[i - n] /\ j - n \in DOMAIN B /\ K[j] = B[j - n]
      BY <1>0, <3>1
    <3>3. i - n = j - n
      BY <3>2 DEF OwnNames
    <3> QED BY <1>0, <3>3
  <2>2. i \in DOMAIN L /\ j \in DOMAIN L /\ K[i] = L[i] /\ K[j] = L[j]
    BY <1>0, <1>1, <1>2, <1>3, <2>1
  <2>3. /\ L[i].id = L[j].id
        /\ \E k \in i + 1..j - 1 : /\ L[k].op = "evidence_expire"
                                  /\ L[k].ev = L[i].ev /\ L[k].id = L[i].id
    BY <2>2 DEF OrderlyLog, IdsAreOwn
  <2>4. \A k \in i + 1..j - 1 : K[k] = L[k]
    BY <1>0, <2>2
  <2> QED BY <2>2, <2>3, <2>4
<1>6. KindsComeLast(K)
  <2> SUFFICES ASSUME NEW e \in Entries, NEW x \in Upserts(K, e), NEW y \in Upserts(K, e),
                      x < y, K[y].kind = "none"
               PROVE  K[x].kind = "none"
    BY DEF KindsComeLast
  <2>1. x \in DOMAIN K /\ y \in DOMAIN K /\ IsUpsert(K, x, e) /\ IsUpsert(K, y, e)
    BY DEF Upserts, IsUpsert
  <2>2. y \in DOMAIN L /\ K[y] = L[y]
    BY <1>1, <1>2, <2>1 DEF IsUpsert
  <2>3. x \in DOMAIN L /\ K[x] = L[x]
    BY <1>0, <2>1, <2>2
  <2> QED BY <2>1, <2>2, <2>3 DEF OrderlyLog, KindsComeLast, Upserts, IsUpsert
<1>7. ArmsAgree(K)
  <2> SUFFICES ASSUME NEW i \in DOMAIN K, NEW j \in DOMAIN K, K[i].op = "candidates",
                      K[j].op = "candidates", K[i].run = K[j].run
               PROVE  \A e \in DOMAIN K[i].arms \cap DOMAIN K[j].arms : K[i].arms[e] = K[j].arms[e]
    BY DEF ArmsAgree
  <2>1. \/ i \in DOMAIN L /\ K[i] = L[i] /\ j \in DOMAIN L /\ K[j] = L[j]
        \/ K[i] = K[j]
    BY <1>1, <1>2, <1>3
  <2> QED BY <2>1 DEF OrderlyLog, ArmsAgree
<1> QED BY <1>4, <1>5, <1>6, <1>7 DEF OrderlyLog, K

LEMMA RewriteOrderly ==
    ASSUME NEW L, IsLog(L), NEW w, OrderlyLog(L, w), NEW C, IsLog(C), NEW pos,
           Rewrites(C, L, Kept(L), pos)
    PROVE  OrderlyLog(C, w)
<1>1. IdsAreOwn(C)
  BY RewriteIds DEF OrderlyLog
<1>2. \A m \in DOMAIN C : \E i \in Kept(L) : i \in DOMAIN L /\ pos[i] = m /\ C[m] = L[i]
  BY RewrittenFrom, LogForm
<1>3. KindsComeLast(C)
  <2> SUFFICES ASSUME NEW e \in Entries, NEW x \in Upserts(C, e), NEW y \in Upserts(C, e),
                      x < y, C[y].kind = "none"
               PROVE  C[x].kind = "none"
    BY DEF KindsComeLast
  <2>1. x \in DOMAIN C /\ y \in DOMAIN C /\ IsUpsert(C, x, e) /\ IsUpsert(C, y, e)
    BY DEF Upserts, IsUpsert
  <2>2. PICK i \in Kept(L) : i \in DOMAIN L /\ pos[i] = x /\ C[x] = L[i]
    BY <1>2, <2>1
  <2>3. PICK j \in Kept(L) : j \in DOMAIN L /\ pos[j] = y /\ C[y] = L[j]
    BY <1>2, <2>1
  <2>4. Concerns(L[i], e) /\ Concerns(L[j], e) /\ i \in Upserts(L, e) /\ j \in Upserts(L, e)
    BY <2>1, <2>2, <2>3 DEF Concerns, Upserts, IsUpsert
  <2>5. i < j
    BY <2>2, <2>3, <2>4, RewriteOrdered
  <2> QED BY <2>2, <2>3, <2>4, <2>5 DEF OrderlyLog, KindsComeLast
<1>4. ArmsAgree(C)
  <2> SUFFICES ASSUME NEW a \in DOMAIN C, NEW b \in DOMAIN C, C[a].op = "candidates",
                      C[b].op = "candidates", C[a].run = C[b].run
               PROVE  \A e \in DOMAIN C[a].arms \cap DOMAIN C[b].arms : C[a].arms[e] = C[b].arms[e]
    BY DEF ArmsAgree
  <2>1. \E i, j \in DOMAIN L : C[a] = L[i] /\ C[b] = L[j]
    BY <1>2
  <2> QED BY <2>1 DEF OrderlyLog, ArmsAgree
<1> QED BY <1>1, <1>2, <1>3, <1>4 DEF OrderlyLog

-----------------------------------------------------------------------------
(* What a rewrite keeps, the next keeps too, where it is.                  *)

LEMMA EvidenceKeptAgain ==
    ASSUME NEW L, IsLog(L), IdsAreOwn(L), NEW C, IsLog(C), NEW pos, Rewrites(C, L, Kept(L), pos),
           NEW i \in KeptEvidence(L)
    PROVE  /\ pos[i] \in KeptEvidence(C)
           /\ Anchor(C, pos[i]) = pos[Anchor(L, i)]
           /\ \A x \in pos[i] + 1..Len(C) : ~Ends(C[x], L[i].id)
           /\ Alive(C, L[i].id, pos[i])
<1> DEFINE e == L[i].id
           u == Anchor(L, i)
<1>1. /\ i \in 1..Len(L) /\ u \in 1..i - 1 /\ IsUpsert(L, u, e)
      /\ \A w \in 1..i : IsUpsert(L, w, e) => w <= u
      /\ \A x \in 1..Len(L) : Ends(L[x], e) => x < u
  BY AnchorStands
<1>2. u \in Kept(L) /\ i \in Kept(L)
  BY DEF Kept, Anchors
<1>3. L[i].op \in EvidenceOps /\ Concerns(L[i], e)
  BY DEF KeptEvidence, Concerns
<1>4. Concerns(L[u], e)
  BY <1>1 DEF Concerns, IsUpsert
<1> HIDE DEF e, u
<1>5. /\ pos[u] < pos[i] /\ pos[u] \in 1..Len(C) /\ pos[i] \in 1..Len(C) /\ Len(C) \in Nat
      /\ C[pos[i]] = L[i] /\ C[pos[u]] = L[u]
  <2>1. u < i
    BY <1>1
  <2>2. pos[u] < pos[i] /\ pos[u] \in 1..Len(C) /\ pos[i] \in 1..Len(C)
    BY <1>2, <1>3, <1>4, <2>1, RewriteOrdered
  <2> QED BY <1>2, <2>2, LogForm DEF Rewrites
<1>6. IsUpsert(C, pos[u], e)
  BY <1>1, <1>5 DEF IsUpsert
<1>7. \A x \in pos[u] + 1..Len(C) : ~Ends(C[x], e)
  <2> SUFFICES ASSUME NEW x \in pos[u] + 1..Len(C), Ends(C[x], e) PROVE FALSE
    OBVIOUS
  <2>1. x \in 1..Len(C) /\ pos[u] < x
    BY <1>5
  <2>2. PICK h \in Kept(L) : h \in 1..Len(L) /\ pos[h] = x /\ C[x] = L[h]
    BY <2>1, RewrittenFrom
  <2>3. h < u /\ Concerns(L[h], e)
    BY <1>1, <2>2 DEF Concerns
  <2>4. pos[h] < pos[u]
    BY <1>2, <1>4, <2>3, RewriteOrdered
  <2> QED BY <1>5, <2>1, <2>2, <2>4
<1>8. Alive(C, e, pos[i]) /\ \A x \in pos[i] + 1..Len(C) : ~Ends(C[x], e)
  <2>1. /\ pos[u] \in 1..pos[i]
        /\ \A x \in pos[u] + 1..pos[i] : x \in pos[u] + 1..Len(C)
        /\ \A x \in pos[i] + 1..Len(C) : x \in pos[u] + 1..Len(C)
    BY <1>5
  <2> QED BY <1>6, <1>7, <2>1 DEF Alive
<1>9. pos[i] \in KeptEvidence(C)
  <2>1. C[pos[i]].op \in EvidenceOps /\ e = C[pos[i]].id
    BY <1>3, <1>5 DEF e
  <2>2. IdsAreOwn(C)
    BY RewriteIds
  <2> QED BY <1>5, <1>8, <2>1, <2>2, KeptIfLive
<1>10. Latest(C, pos[u], e, pos[i])
  <2> SUFFICES ASSUME NEW w \in pos[u] + 1..pos[i], IsUpsert(C, w, e) PROVE FALSE
    BY <1>5, <1>6 DEF Latest
  <2>1. w \in 1..Len(C) /\ pos[u] < w /\ w <= pos[i]
    BY <1>5
  <2>2. PICK h \in Kept(L) : h \in 1..Len(L) /\ pos[h] = w /\ C[w] = L[h]
    BY <2>1, RewrittenFrom
  <2>3. IsUpsert(L, h, e) /\ Concerns(L[h], e) /\ h # i
    BY <1>3, <2>2 DEF IsUpsert, Concerns, EvidenceOps
  <2>4. pos[h] # pos[i]
    BY <1>2, <2>3 DEF Rewrites
  <2>5. pos[h] < pos[i]
    BY <1>5, <2>1, <2>2, <2>4
  <2>6. h < i
    BY <1>2, <1>3, <2>3, <2>5, RewriteOrdered
  <2>7. h \in 1..i
    BY <1>1, <2>2, <2>6
  <2>8. h <= u
    BY <1>1, <2>3, <2>7
  <2>9. u < h
    <3>1. pos[u] < pos[h]
      BY <2>1, <2>2
    <3> QED BY <1>2, <1>4, <2>3, <3>1, RewriteOrdered
  <2> QED BY <1>1, <2>2, <2>8, <2>9
<1>11. Anchor(C, pos[i]) = pos[u]
  <2>1. LatestUpsert(C, e, pos[i]) = pos[u]
    BY <1>5, <1>10, LatestIsUpsert
  <2>2. C[pos[i]].id = e
    BY <1>5 DEF e
  <2> QED BY <2>1, <2>2 DEF Anchor
<1> QED BY <1>8, <1>9, <1>11 DEF e, u

(* Of an event that is kept, other than of evidence, what it found as last upsert. *)
LEMMA FoundAgain ==
    ASSUME NEW L, IsLog(L), NEW C, IsLog(C), NEW pos, Rewrites(C, L, Kept(L), pos),
           NEW e, NEW i \in Kept(L), L[i].op \notin EvidenceOps,
           NEW u \in Kept(L), Latest(L, u, e, i)
    PROVE  /\ Latest(C, pos[u], e, pos[i])
           /\ LatestUpsert(C, e, pos[i]) = pos[u]
           /\ Alive(L, e, i) => Alive(C, e, pos[i])
<1>1. /\ i \in 1..Len(L) /\ pos[i] \in 1..Len(C) /\ pos[u] \in 1..Len(C) /\ u \in 1..i
      /\ IsUpsert(L, u, e) /\ Len(L) \in Nat /\ Len(C) \in Nat /\ Kept(L) \subseteq 1..Len(L)
  BY LogForm DEF Rewrites, Latest
<1>2. L[u].op \notin EvidenceOps
  BY <1>1 DEF IsUpsert, EvidenceOps
<1>3. pos[u] <= pos[i]
  <2>1. u < i => pos[u] < pos[i]
    BY <1>2 DEF Rewrites
  <2> QED BY <1>1, <2>1
<1>4. ASSUME NEW h \in Kept(L), pos[h] <= pos[i], L[h].op \notin EvidenceOps PROVE h <= i
  <2>1. i < h => pos[i] < pos[h]
    BY <1>4 DEF Rewrites
  <2>2. pos[h] \in 1..Len(C) /\ h \in 1..Len(L)
    BY <1>1 DEF Rewrites
  <2> QED BY <1>1, <1>4, <2>1, <2>2
<1>5. Latest(C, pos[u], e, pos[i]) /\ (Alive(L, e, i) => Alive(C, e, pos[i]))
  BY <1>1, <1>3, <1>4, CutLatest
<1>6. LatestUpsert(C, e, pos[i]) = pos[u]
  BY <1>1, <1>5, LatestIsUpsert
<1> QED BY <1>5, <1>6

(* The last upsert of a live entry. *)
LEMMA LastUpsertKept ==
    ASSUME NEW L, IsLog(L), NEW C, IsLog(C), NEW pos, Rewrites(C, L, Kept(L), pos),
           NEW e \in Entries, Alive(L, e, Len(L)), NEW u, Latest(L, u, e, Len(L))
    PROVE  u \in Kept(L) /\ Latest(C, pos[u], e, Len(C)) /\ Alive(C, e, Len(C))
<1> DEFINE n == Len(L)
<1>0. n \in Nat /\ Len(C) \in Nat /\ n \in 0..n
  BY LogForm
<1>1. u \in 1..n /\ n \in 1..n
  BY <1>0 DEF Latest
<1>2. u \in Kept(L)
  <2>1. u = LatestUpsert(L, e, n)
    BY <1>1, LatestIsUpsert
  <2>2. u \in LastUpserts(L, e)
    BY <1>0, <2>1, LiveAtIs DEF LastUpserts
  <2> QED BY <2>2 DEF Kept, OfEntries
<1>3. pos[u] \in 1..Len(C) /\ Len(C) \in 1..Len(C) /\ C[pos[u]] = L[u]
  <2>1. pos[u] \in 1..Len(C) /\ C[pos[u]] = L[u]
    BY <1>2 DEF Rewrites
  <2> QED BY <1>0, <2>1
<1>4. pos[u] <= Len(C) /\ \A i \in Kept(L) : i <= n
  <2>1. Kept(L) \subseteq 1..n
    BY DEF Rewrites
  <2> QED BY <1>0, <1>3, <2>1
<1>5. Latest(C, pos[u], e, Len(C)) /\ Alive(C, e, Len(C))
  BY <1>1, <1>2, <1>3, <1>4, CutLatest
<1> QED BY <1>2, <1>5

LEMMA KeptAgain ==
    ASSUME NEW L, IsLog(L), IdsAreOwn(L), NEW C, IsLog(C), NEW pos, Rewrites(C, L, Kept(L), pos),
           NEW i \in Kept(L)
    PROVE  pos[i] \in Kept(C)
<1>0. /\ Len(L) \in Nat /\ Len(C) \in Nat /\ DOMAIN L = 1..Len(L) /\ DOMAIN C = 1..Len(C)
      /\ i \in 1..Len(L) /\ pos[i] \in 1..Len(C) /\ C[pos[i]] = L[i]
  BY LogForm DEF Rewrites
<1>1. CASE i \in KeptEvidence(L)
  BY <1>1, EvidenceKeptAgain DEF Kept
<1>2. CASE i \in Anchors(L)
  <2>1. PICK j \in KeptEvidence(L) : i = Anchor(L, j)
    BY <1>2 DEF Anchors
  <2>2. pos[j] \in KeptEvidence(C) /\ Anchor(C, pos[j]) = pos[i]
    BY <2>1, EvidenceKeptAgain
  <2>3. pos[i] \in Anchors(C)
    BY <2>2 DEF Anchors
  <2> QED BY <2>3 DEF Kept
<1>3. CASE i \in LastTests(L)
  <2>1. L[i].op = "test" /\ \A j \in i + 1..Len(L) : ~(L[j].op = "test" /\ L[j].id = L[i].id)
    BY <1>3 DEF LastTests
  <2>2. ASSUME NEW m \in pos[i] + 1..Len(C), C[m].op = "test", C[m].id = C[pos[i]].id PROVE FALSE
    <3>1. m \in 1..Len(C) /\ pos[i] < m
      BY <1>0
    <3>2. PICK h \in Kept(L) : h \in 1..Len(L) /\ pos[h] = m /\ C[m] = L[h]
      BY <3>1, RewrittenFrom
    <3>3. L[h].op = "test" /\ L[h].id = L[i].id
      BY <1>0, <2>2, <3>2
    <3>4. h < i => pos[h] < pos[i]
      BY <2>1, <3>3 DEF Rewrites, EvidenceOps
    <3>5. ~(h < i) /\ h # i
      BY <1>0, <3>1, <3>2, <3>4
    <3>6. h \in i + 1..Len(L)
      BY <1>0, <3>2, <3>5
    <3> QED BY <2>1, <3>3, <3>6
  <2>3. pos[i] \in LastTests(C)
    BY <1>0, <2>1, <2>2 DEF LastTests
  <2> QED BY <2>3 DEF Kept
<1>4. CASE i \in History(L)
  <2>1. pos[i] \in History(C)
    BY <1>0, <1>4 DEF History
  <2> QED BY <2>1 DEF Kept
<1>5. ASSUME NEW e \in Entries, i \in LastUpserts(L, e) PROVE pos[i] \in Kept(C)
  <2>1. LiveAt(L, e, Len(L)) /\ i = LatestUpsert(L, e, Len(L))
    BY <1>5 DEF LastUpserts
  <2>2. Len(L) \in 0..Len(L) /\ Len(C) \in 0..Len(C)
    BY <1>0
  <2>3. Alive(L, e, Len(L))
    BY <2>1, <2>2, LiveAtIs
  <2>4. Latest(L, i, e, Len(L))
    BY <1>0, <2>1, <2>2, LatestUpsertIsLatest
  <2>5. Latest(C, pos[i], e, Len(C)) /\ Alive(C, e, Len(C))
    BY <2>3, <2>4, LastUpsertKept
  <2>6. LiveAt(C, e, Len(C))
    BY <2>2, <2>5, LiveAtIs
  <2>7. Len(C) \in 1..Len(C)
    BY <1>0
  <2>8. LatestUpsert(C, e, Len(C)) = pos[i]
    BY <2>5, <2>7, LatestIsUpsert
  <2>9. pos[i] \in LastUpserts(C, e)
    BY <2>6, <2>8 DEF LastUpserts
  <2> QED BY <2>9 DEF Kept, OfEntries
<1>6. ASSUME NEW e \in Entries, i \in AuditUpserts(L, e) PROVE pos[i] \in Kept(C)
  <2>1. CASE \E c \in Sampled(L, e) \cup Audited(L, e) : i = LatestUpsert(L, e, c)
    <3>1. PICK c \in Sampled(L, e) \cup Audited(L, e) : i = LatestUpsert(L, e, c)
      BY <2>1
    <3>2. c \in 1..Len(L) /\ L[c].op \in {"candidates", "verdicts"}
      BY <1>0, <3>1 DEF Sampled, Audited
    <3>3. c \in Kept(L) /\ L[c].op \notin EvidenceOps
      <4>1. c \in History(L)
        BY <1>0, <3>2 DEF History
      <4> QED BY <3>2, <4>1 DEF Kept, EvidenceOps
    <3>4. Latest(L, i, e, c)
      <4>1. c \in 0..Len(L) /\ LatestUpsert(L, e, c) # 0
        BY <1>0, <3>1, <3>2
      <4> QED BY <3>1, <4>1, LatestUpsertIsLatest
    <3>5. LatestUpsert(C, e, pos[c]) = pos[i]
      BY <3>3, <3>4, FoundAgain
    <3>6. pos[c] \in Sampled(C, e) \cup Audited(C, e)
      <4>1. pos[c] \in DOMAIN C /\ C[pos[c]] = L[c]
        BY <1>0, <3>3 DEF Rewrites
      <4> QED BY <3>1, <4>1 DEF Sampled, Audited
    <3>7. pos[i] \in AuditUpserts(C, e)
      BY <1>0, <3>5, <3>6 DEF AuditUpserts
    <3> QED BY <3>7 DEF Kept, OfEntries
  <2>2. CASE i \in Upserts(L, e) /\ \E c \in Sampled(L, e) : c < i
    <3>1. PICK c \in Sampled(L, e) : c < i
      BY <2>2
    <3>2. c \in 1..Len(L) /\ L[c].op = "candidates"
      BY <1>0, <3>1 DEF Sampled
    <3>3. c \in Kept(L) /\ L[c].op \notin EvidenceOps /\ L[i].op \notin EvidenceOps
      <4>1. c \in History(L)
        BY <1>0, <3>2 DEF History
      <4> QED BY <2>2, <3>2, <4>1 DEF Kept, EvidenceOps, Upserts
    <3>4. pos[c] < pos[i]
      BY <3>1, <3>3 DEF Rewrites
    <3>5. pos[c] \in Sampled(C, e) /\ pos[i] \in Upserts(C, e)
      <4>1. pos[c] \in DOMAIN C /\ C[pos[c]] = L[c]
        BY <1>0, <3>3 DEF Rewrites
      <4> QED BY <1>0, <2>2, <3>1, <4>1 DEF Sampled, Upserts
    <3>6. pos[i] \in AuditUpserts(C, e)
      BY <3>4, <3>5 DEF AuditUpserts
    <3> QED BY <3>6 DEF Kept, OfEntries
  <2> QED BY <1>6, <2>1, <2>2 DEF AuditUpserts
<1>7. ASSUME NEW e \in Entries, i \in AuditExpires(L, e) PROVE pos[i] \in Kept(C)
  <2>1. PICK c \in Sampled(L, e) : c < i
    BY <1>7 DEF AuditExpires
  <2>2. c \in 1..Len(L) /\ L[c].op = "candidates" /\ L[i].op = "expire" /\ L[i].id = e
    BY <1>0, <1>7, <2>1 DEF Sampled, AuditExpires
  <2>3. c \in Kept(L) /\ L[c].op \notin EvidenceOps /\ L[i].op \notin EvidenceOps
    <3>1. c \in History(L)
      BY <1>0, <2>2 DEF History
    <3> QED BY <2>2, <3>1 DEF Kept, EvidenceOps
  <2>4. pos[c] < pos[i]
    BY <2>1, <2>3 DEF Rewrites
  <2>5. pos[c] \in Sampled(C, e)
    <3>1. pos[c] \in DOMAIN C /\ C[pos[c]] = L[c]
      BY <1>0, <2>3 DEF Rewrites
    <3> QED BY <2>1, <3>1 DEF Sampled
  <2>6. pos[i] \in AuditExpires(C, e)
    BY <1>0, <2>2, <2>4, <2>5 DEF AuditExpires
  <2> QED BY <2>6 DEF Kept, OfEntries
<1>8. i \in OfEntries(L) => pos[i] \in Kept(C)
  BY <1>5, <1>6, <1>7 DEF OfEntries
<1> QED BY <1>1, <1>2, <1>3, <1>4, <1>8 DEF Kept

LEMMA PlacedAgain ==
    ASSUME NEW L, IsLog(L), IdsAreOwn(L), NEW C, IsLog(C), NEW pos, Rewrites(C, L, Kept(L), pos),
           NEW i \in Kept(L)
    PROVE  /\ Place(L, KeptEvidence(L), i) \in Kept(L)
           /\ L[Place(L, KeptEvidence(L), i)].op \notin EvidenceOps
           /\ Place(C, KeptEvidence(C), pos[i]) = pos[Place(L, KeptEvidence(L), i)]
<1>1. CASE i \in KeptEvidence(L)
  <2>1. Place(L, KeptEvidence(L), i) = Anchor(L, i) /\ Anchor(L, i) \in Kept(L)
    BY <1>1 DEF Place, Kept, Anchors
  <2>2. IsUpsert(L, Anchor(L, i), L[i].id)
    BY <1>1, AnchorStands
  <2>3. pos[i] \in KeptEvidence(C) /\ Anchor(C, pos[i]) = pos[Anchor(L, i)]
    BY <1>1, EvidenceKeptAgain
  <2> QED BY <2>1, <2>2, <2>3 DEF Place, IsUpsert, EvidenceOps
<1>2. CASE i \notin KeptEvidence(L)
  <2>1. L[i].op \notin EvidenceOps
    BY <1>2, EvidenceIsKept
  <2>2. C[pos[i]] = L[i]
    BY DEF Rewrites
  <2>3. pos[i] \notin KeptEvidence(C)
    BY <2>1, <2>2 DEF KeptEvidence
  <2> QED BY <1>2, <2>1, <2>3 DEF Place
<1> QED BY <1>1, <1>2

LEMMA PrecedesAgain ==
    ASSUME NEW L, IsLog(L), IdsAreOwn(L), NEW C, IsLog(C), NEW pos, Rewrites(C, L, Kept(L), pos),
           NEW m \in 1..Len(C), NEW k \in 1..Len(C), m < k
    PROVE  Precedes(C, KeptEvidence(C), m, k)
<1> DEFINE P(i) == Place(L, KeptEvidence(L), i)
           Q(n) == Place(C, KeptEvidence(C), n)
<1>1. PICK i \in Kept(L) : i \in 1..Len(L) /\ pos[i] = m
  BY RewrittenFrom
<1>2. PICK j \in Kept(L) : j \in 1..Len(L) /\ pos[j] = k
  BY RewrittenFrom
<1>3. /\ Len(L) \in Nat /\ Len(C) \in Nat
      /\ P(i) \in 1..Len(L) /\ P(j) \in 1..Len(L)
      /\ P(i) \in Kept(L) /\ P(j) \in Kept(L)
      /\ L[P(i)].op \notin EvidenceOps /\ L[P(j)].op \notin EvidenceOps
      /\ Q(m) = pos[P(i)] /\ Q(k) = pos[P(j)]
  BY <1>1, <1>2, PlacedAgain, KeptIs, LogForm
<1>4. i # j
  BY <1>1, <1>2
<1>5. ~Precedes(L, KeptEvidence(L), j, i)
  <2>1. Precedes(L, KeptEvidence(L), j, i) => k < m
    BY <1>1, <1>2 DEF Rewrites
  <2> QED BY <1>3, <2>1
<1> HIDE DEF P, Q
<1>6. P(i) <= P(j)
  <2>1. ~(P(j) < P(i))
    BY <1>5 DEF Precedes, P
  <2> QED BY <1>3, <2>1
<1>7. P(i) < P(j) => Q(m) < Q(k)
  <2>1. P(i) < P(j) => pos[P(i)] < pos[P(j)]
    BY <1>3 DEF Rewrites
  <2> QED BY <1>3, <2>1
<1>8. Q(m) < Q(k) \/ Q(m) = Q(k)
  <2>1. P(i) < P(j) \/ P(i) = P(j)
    BY <1>3, <1>6
  <2>2. P(i) = P(j) => Q(m) = Q(k)
    BY <1>3
  <2> QED BY <1>7, <2>1, <2>2
<1> QED BY <1>8 DEF Precedes, Q

(* An order-preserving numbering of 1..n is the identity. *)
Numbers(f, n, k) ==
    /\ \A i \in 1..n : f[i] \in 1..k
    /\ \A i, j \in 1..n : i < j => f[i] < f[j]
    /\ \A m \in 1..k : \E i \in 1..n : f[i] = m

LEMMA NumberingIsIdentity ==
    ASSUME NEW n \in Nat, NEW k \in Nat, NEW f, Numbers(f, n, k)
    PROVE  k = n /\ \A i \in 1..n : f[i] = i
<1> USE DEF Numbers
<1> DEFINE S == {m \in 0..n : \A i \in 1..m : f[i] = i}
<1>1. 0 \in S
  OBVIOUS
<1>2. ASSUME NEW m \in 0..n - 1, m \in S PROVE m + 1 \in S
  <2>1. m \in Nat /\ m + 1 \in 1..n /\ \A i \in 1..m : f[i] = i
    BY <1>2
  <2>2. f[m + 1] \in 1..k /\ f[m + 1] >= m + 1
    <3>1. f[m + 1] \in 1..k
      BY <2>1
    <3>2. CASE m = 0
      BY <3>1, <3>2
    <3>3. CASE m # 0
      <4>1. m \in 1..n /\ m < m + 1 /\ m \in 1..m
        BY <2>1, <3>3
      <4>2. f[m] < f[m + 1] /\ f[m] = m
        BY <2>1, <4>1
      <4> QED BY <2>1, <3>1, <4>2
    <3> QED BY <3>1, <3>2, <3>3
  <2>3. m + 1 \in 1..k
    BY <2>1, <2>2
  <2>4. PICK i \in 1..n : f[i] = m + 1
    BY <2>3
  <2>5. i > m
    <3>1. i \in 1..m => f[i] = i
      BY <2>1
    <3> QED BY <2>1, <2>4, <3>1
  <2>6. ~(i > m + 1)
    <3>1. m + 1 < i => f[m + 1] < f[i]
      BY <2>1
    <3> QED BY <2>1, <2>2, <2>4, <3>1
  <2>7. i = m + 1
    BY <2>1, <2>5, <2>6
  <2>8. \A j \in 1..m + 1 : j \in 1..m \/ j = m + 1
    BY <2>1
  <2>9. \A j \in 1..m + 1 : f[j] = j
    BY <2>1, <2>4, <2>7, <2>8
  <2> QED BY <2>1, <2>9
<1> HIDE DEF S
<1>3. \A m \in 0..n - 1 : m \in S => m + 1 \in S
  BY <1>2
<1>4. \A m \in 0..n : m \in S
  BY <1>1, <1>3, Upwards
<1>5. \A i \in 1..n : f[i] = i
  <2>1. n \in S
    BY <1>4
  <2> QED BY <2>1 DEF S
<1>6. k = n
  <2>1. k <= n
    <3>1. k # 0 => k \in 1..k
      OBVIOUS
    <3>2. k # 0 => \E i \in 1..n : f[i] = k
      BY <3>1
    <3> QED BY <1>5, <3>2
  <2>2. n <= k
    <3>1. n # 0 => n \in 1..n
      OBVIOUS
    <3>2. n # 0 => f[n] \in 1..k /\ f[n] = n
      BY <1>5, <3>1
    <3> QED BY <3>2
  <2> QED BY <2>1, <2>2
<1> QED BY <1>5, <1>6

LEMMA SameLogs ==
    ASSUME NEW L, IsLog(L), NEW K, IsLog(K), Len(L) = Len(K), \A i \in 1..Len(L) : L[i] = K[i]
    PROVE  L = K
<1>1. L \in Seq({L[i] : i \in DOMAIN L}) /\ K \in Seq({K[i] : i \in DOMAIN K})
  BY DEF IsLog
<1>2. L = [i \in 1..Len(L) |-> L[i]] /\ K = [i \in 1..Len(K) |-> K[i]]
  BY <1>1
<1> QED BY <1>2

(* Of a rewritten log nothing goes, and nothing moves. *)
LEMMA RewrittenOnce ==
    ASSUME NEW L, IsLog(L), IdsAreOwn(L)
    PROVE  Compacted(Compacted(L)) = Compacted(L)
<1> DEFINE C == Compacted(L)
           D == Compacted(C)
<1>1. IsLog(C) /\ \E pos : Rewrites(C, L, Kept(L), pos)
  BY CompactedIs
<1>2. PICK pos : Rewrites(C, L, Kept(L), pos)
  BY <1>1
<1> HIDE DEF C
<1>3. IsLog(D) /\ \E to : Rewrites(D, C, Kept(C), to)
  BY <1>1, CompactedIs
<1>4. PICK to : Rewrites(D, C, Kept(C), to)
  BY <1>3
<1> HIDE DEF D
<1>5. Len(C) \in Nat /\ Len(D) \in Nat
  BY <1>1, <1>3, LogForm
<1>6. \A m \in 1..Len(C) : m \in Kept(C)
  <2> SUFFICES ASSUME NEW m \in 1..Len(C) PROVE m \in Kept(C)
    OBVIOUS
  <2>1. PICK i \in Kept(L) : i \in 1..Len(L) /\ pos[i] = m
    BY <1>2, RewrittenFrom
  <2>2. pos[i] \in Kept(C)
    BY <1>1, <1>2, KeptAgain
  <2> QED BY <2>1, <2>2
<1>7. /\ \A m \in 1..Len(C) : to[m] \in 1..Len(D)
      /\ \A m \in 1..Len(C) : D[to[m]] = C[m]
  BY <1>4, <1>6 DEF Rewrites
<1>8. \A m, k \in 1..Len(C) : m < k => to[m] < to[k]
  <2> SUFFICES ASSUME NEW m \in 1..Len(C), NEW k \in 1..Len(C), m < k PROVE to[m] < to[k]
    OBVIOUS
  <2>1. Precedes(C, KeptEvidence(C), m, k)
    BY <1>1, <1>2, PrecedesAgain
  <2> QED BY <1>4, <1>6, <2>1 DEF Rewrites
<1>9. \A h \in 1..Len(D) : \E m \in 1..Len(C) : to[m] = h
  BY <1>4 DEF Rewrites
<1>10. Len(D) = Len(C) /\ \A m \in 1..Len(C) : to[m] = m
  <2> DEFINE n == Len(C)
             k == Len(D)
  <2>1. n \in Nat /\ k \in Nat
    BY <1>5
  <2>2. \A m \in 1..n : to[m] \in 1..k
    BY <1>7
  <2>3. \A x, y \in 1..n : x < y => to[x] < to[y]
    BY <1>8
  <2>4. \A h \in 1..k : \E m \in 1..n : to[m] = h
    BY <1>9
  <2> HIDE DEF n, k
  <2>5. Numbers(to, n, k)
    BY <2>2, <2>3, <2>4 DEF Numbers
  <2>6. k = n /\ \A m \in 1..n : to[m] = m
    BY <2>1, <2>5, NumberingIsIdentity
  <2> QED BY <2>6 DEF n, k
<1>11. \A m \in 1..Len(C) : D[m] = C[m]
  BY <1>7, <1>10
<1>12. D = C
  BY <1>1, <1>3, <1>10, <1>11, SameLogs
<1> QED BY <1>12 DEF C, D

OrderInv == RowsInv /\ OrderlyLog(log, writes)

LEMMA LogStep ==
    ASSUME OrderInv, [KbNext]_kbVars
    PROVE  OrderInv'
<1>1. RowsInv' /\ HistoryInv
  BY RowsNext DEF OrderInv, RowsInv, EvidenceInv
<1>2. IsLog(log) /\ writes \in Nat /\ OrderlyLog(log, writes)
  BY <1>1 DEF HistoryInv, OrderInv
<1>3. \/ \E B : Written(B, db, writes + 1) /\ \E embeds : WriteAs(B, embeds)
      \/ CatchUp \/ Compact \/ Rebuild \/ Reembed \/ UNCHANGED vars
  BY <1>1, KbStep
<1>4. ASSUME NEW B, Written(B, db, writes + 1), NEW embeds, WriteAs(B, embeds)
      PROVE  OrderlyLog(log', writes')
  <2>1. log' = log \o B /\ writes' = writes + 1
    BY <1>4 DEF WriteAs
  <2>2. IsLog(B) /\ FreshIds(B, writes + 1) /\ OwnNames(B, writes + 1) /\ Auditing(B, db)
    BY <1>4 DEF Written
  <2>3. OrderlyLog(log \o B, writes + 1)
    BY <1>2, <2>2, OrderlyGrows
  <2> QED BY <2>1, <2>3
<1>5. ASSUME Compact PROVE OrderlyLog(log', writes')
  <2>1. log' \in {log, Compacted(log)} /\ writes' = writes
    BY <1>5 DEF Compact
  <2> DEFINE C == Compacted(log)
  <2>2. IsLog(C) /\ \E pos : Rewrites(C, log, Kept(log), pos)
    BY <1>2, CompactedIs
  <2> HIDE DEF C
  <2>3. PICK pos : Rewrites(C, log, Kept(log), pos)
    BY <2>2
  <2>4. OrderlyLog(C, writes)
    BY <1>2, <2>2, <2>3, RewriteOrderly
  <2>5. log' = log \/ log' = C
    BY <2>1 DEF C
  <2> QED BY <1>2, <2>1, <2>4, <2>5
<1>6. ASSUME CatchUp \/ Rebuild \/ Reembed \/ UNCHANGED vars PROVE OrderlyLog(log', writes')
  <2>1. log' = log /\ writes' = writes
    BY <1>6 DEF CatchUp, Rebuild, Reembed, ReembedSelect, ReembedEnd, ReembedWrite, vars
  <2> QED BY <1>2, <2>1
<1>7. OrderlyLog(log', writes')
  BY <1>3, <1>4, <1>5, <1>6
<1> QED BY <1>1, <1>7 DEF OrderInv

LEMMA OrderInit ==
    ASSUME KbInit
    PROVE  OrderInv
<1>1. RowsInv
  BY RowsInit
<1>2. log \in InitialLogs /\ writes = 0
  BY DEF KbInit, Init
<1>3. IdsAreOwn(log) /\ KindsComeLast(log) /\ ArmsAgree(log)
  BY <1>2, EarlierAssumption
<1>4. \A i \in DOMAIN log :
          /\ log[i].op = "evidence_add" => log[i].ev[1] = 0
          /\ log[i].op = "candidates" => log[i].run = 0
          /\ log[i].op = "test" => log[i].ts # 0
  BY <1>2, EarlierAssumption
<1>5. OrderlyLog(log, writes)
  BY <1>2, <1>3, <1>4 DEF OrderlyLog
<1> QED BY <1>1, <1>5 DEF OrderInv

(* Compacting twice is compacting once (CompactionIsFixpoint), for every log this
   program or an earlier version can have left: what a rewrite keeps stands as it
   stood and is all that the rules of compact.rs would keep again. *)
THEOREM CompactingSettles == KbSpec => []CompactionIsFixpoint
<1>1. KbInit => OrderInv
  BY OrderInit
<1>2. OrderInv /\ [KbNext]_kbVars => OrderInv'
  BY LogStep
<1>3. OrderInv => CompactionIsFixpoint
  <2> SUFFICES ASSUME OrderInv PROVE CompactionIsFixpoint
    OBVIOUS
  <2>1. IsLog(log) /\ IdsAreOwn(log)
    BY DEF OrderInv, OrderlyLog, RowsInv, EvidenceInv, HistoryInv
  <2>2. Compacted(Compacted(log)) = Compacted(log)
    BY <2>1, RewrittenOnce
  <2> QED BY <2>2 DEF CompactionIsFixpoint
<1> QED BY <1>1, <1>2, <1>3, PTL DEF KbSpec

=============================================================================
