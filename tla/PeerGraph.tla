------------------------------ MODULE PeerGraph ------------------------------
(* The edges to other repositories, which live in the database beside the    *)
(* entries but are told by no log: `kb peers` and its tools add and remove   *)
(* them, import them from seed files, and sweep what has expired. Every      *)
(* command holds the repository lock and writes in statements that commit    *)
(* one by one; where it dies between two of them is a choice of its action,  *)
(* and what readers see meanwhile is what such a death leaves.               *)
EXTENDS Integers, Sequences, FiniteSets

CONSTANTS
    Importers,    \* processes that import
    SeedFiles,    \* seed files: sequences of links; a file is known by its text
    Links,        \* what clients add by hand
    Types,        \* the types of links that are accepted
    MaxTime,      \* bound on the clock
    MaxEdges      \* bound on the edges there are at a time

NoEnd == -1       \* no expiry
NoSlug == "none"
Nothing == <<>>   \* the file of an importer that is not importing

Member == "member"

ASSUME PeerAssumption ==
    /\ \A f \in SeedFiles : f \in Seq({f[k] : k \in DOMAIN f})
    /\ \A s \in Links \cup UNION {{f[k] : k \in DOMAIN f} : f \in SeedFiles} :
          s.ttl \in {NoEnd} \cup Nat
    /\ Nothing \notin SeedFiles
    /\ \A s \in Links : s.type \in Types /\ s.kind \in {Member, s.type}
    /\ MaxTime \in Nat /\ MaxEdges \in Nat

VARIABLES
    peers,     \* the tables `peers` and `graphs`
    stamps,    \* the seed files that have a stamp file beside the database
    asked,     \* the file each importer found no stamp for, until it has the lock
    time,
    gone       \* ghost: relations that were removed, expired, or lost in a rebuild

peerVars == <<peers, stamps, asked, time, gone>>

NoPeers == [edges |-> {}, graphs |-> {}]

\* An id that no row has (a random UUID).
Fresh(d) ==
    CHOOSE n \in 1..Cardinality(d.edges) + Cardinality(d.graphs) + 1 :
        \A row \in d.edges \cup d.graphs : row.id # n

-----------------------------------------------------------------------------
(* Statements.                                                             *)

Relation(s) == <<s.from, s.to, s.slug>>

\* Mutant: a missing slug, which SQL holds equal to nothing, is compared by "=".
RelatedIfNamed(d, s) ==
    {e \in d.edges : e.kind = Member /\ Relation(e) = Relation(s) /\ s.slug # NoSlug}

\* The edges that keep a seed from being imported: of any type, expired ones too.
Related(d, s) == {e \in d.edges : e.kind = Member /\ Relation(e) = Relation(s)}

GraphsFor(d, s) ==
    {g \in d.graphs : g.type = s.type /\ g.from = s.from /\ g.slug = s.slug}

\* Find or create: the graph has the expiry of the edge it is made for.
WithGraph(d, s) ==
    IF GraphsFor(d, s) # {} THEN d
    ELSE [d EXCEPT !.graphs = @ \cup {[id |-> Fresh(d), type |-> s.type, from |-> s.from,
                                       slug |-> s.slug]}]

Until(s) == IF s.ttl = NoEnd THEN NoEnd ELSE time + s.ttl

WithEdge(d, s, kind, imported) ==
    LET g == CHOOSE h \in GraphsFor(d, s) : TRUE
    IN [d EXCEPT !.edges = @ \cup {[id |-> Fresh(d), graph |-> g.id, from |-> s.from,
                                    to |-> s.to, slug |-> s.slug, kind |-> kind,
                                    until |-> Until(s), imported |-> imported]}]

Linked(d, s, kind, imported) == WithEdge(WithGraph(d, s), s, kind, imported)

Ended(e) == e.until # NoEnd /\ e.until < time

WithoutOrphans(d) ==
    [d EXCEPT !.graphs = {g \in @ : \E e \in d.edges : e.graph = g.id}]

Unexpired(d) == [d EXCEPT !.edges = {e \in @ : ~Ended(e)}]

\* sweep_expired_peers, which may die in the middle.
Swept(d) == WithoutOrphans(Unexpired(d))
Sweeping(d) == {Unexpired(d), Swept(d)}

-----------------------------------------------------------------------------
(* Commands.                                                               *)

RelationsOf(edges) == {Relation(e) : e \in {f \in edges : f.kind = Member}}

\* What an expiry took, or the command took on purpose, and is not there again.
Loses(edges) ==
    gone' = (gone \cup RelationsOf(edges \cup {e \in peers.edges : Ended(e)}))
                \ RelationsOf(peers'.edges)

Becomes(states, taken) ==
    /\ peers' \in states
    /\ Cardinality(peers'.edges) <= MaxEdges
    /\ Loses(taken)

\* kb peers add, kb peers edge add and the tool kb_peers_add: nobody looks for an
\* edge that is there already.
AddLink(s) ==
    LET linked == Linked(peers, s, s.kind, FALSE)
    IN /\ Becomes({WithGraph(peers, s), linked} \cup Sweeping(linked), {})
       /\ UNCHANGED <<stamps, asked, time>>

\* By id, which may be unknown, or all edges of an epic; then the orphans; the sweep
\* only if there was something to delete, except in the tool.
RemoveLinks(edges) ==
    LET rest == [peers EXCEPT !.edges = @ \ edges]
    IN /\ Becomes({rest, WithoutOrphans(rest)} \cup Sweeping(WithoutOrphans(rest)), edges)
       /\ UNCHANGED <<stamps, asked, time>>

\* kb peers import looks for the stamp before it takes the lock.
ImportAsks(p, file) ==
    /\ asked[p] = Nothing
    /\ file \notin stamps
    /\ asked' = [asked EXCEPT ![p] = file]
    /\ UNCHANGED <<peers, stamps, time, gone>>

\* The tables after the first k seeds.
Imported(d, file) ==
    LET after[k \in 0..Len(file)] ==
            IF k = 0 THEN d
            ELSE IF Related(after[k - 1], file[k]) # {} THEN after[k - 1]
            ELSE Linked(after[k - 1], file[k], Member, TRUE)
    IN after

\* The seeds before the first of a type that is not accepted.
Accepted(file) == {k \in 0..Len(file) : \A j \in 1..k : file[j].type \in Types}

\* Each seed is looked for and added; nothing is swept if nothing was added; the
\* stamp comes last.
Import(p) ==
    LET file == asked[p]
        rows == Imported(peers, file)[Len(file)]
    IN /\ file # Nothing /\ Len(file) \in Accepted(file)
       /\ Becomes({IF rows # peers THEN Swept(rows) ELSE rows}, {})
       /\ stamps' = stamps \cup {file}
       /\ asked' = [asked EXCEPT ![p] = Nothing]
       /\ UNCHANGED time

\* It dies on its way, or meets a type it does not accept.
PartlyImported(file) ==
    LET rows == Imported(peers, file)
        graphs == {WithGraph(rows[k], file[k + 1]) :
                      k \in {j \in Accepted(file) : j + 1 \in Accepted(file)
                                                    /\ rows[j + 1] # rows[j]}}
        whole == {rows[k] : k \in Accepted(file) \cap {Len(file)}} \ {peers}
    IN {rows[k] : k \in Accepted(file)} \cup graphs \cup UNION {Sweeping(d) : d \in whole}

\* Mutant: the stamp is written first.
ImportStopsStamped(p) ==
    /\ asked[p] # Nothing
    /\ Becomes(PartlyImported(asked[p]), {})
    /\ stamps' = stamps \cup {asked[p]}
    /\ asked' = [asked EXCEPT ![p] = Nothing]
    /\ UNCHANGED time

ImportStops(p) ==
    /\ asked[p] # Nothing
    /\ Becomes(PartlyImported(asked[p]), {})
    /\ asked' = [asked EXCEPT ![p] = Nothing]
    /\ UNCHANGED <<stamps, time>>

\* The sweep of a compaction or of a rebuild that goes no further.
SweepStops ==
    /\ Becomes(Sweeping(peers), {})
    /\ UNCHANGED <<stamps, asked, time>>

SweepPeers ==
    /\ Becomes({Swept(peers)}, {})
    /\ UNCHANGED <<stamps, asked, time>>

\* The database that a rebuild puts in place has the tables and no rows in them.
LosePeers ==
    /\ peers' = NoPeers
    /\ Loses(peers.edges)
    /\ UNCHANGED <<stamps, asked, time>>

TimePasses ==
    /\ time < MaxTime
    /\ time' = time + 1
    /\ UNCHANGED <<peers, stamps, asked, gone>>

-----------------------------------------------------------------------------

PeerInit ==
    /\ peers = NoPeers
    /\ stamps = {} /\ gone = {}
    /\ asked = [p \in Importers |-> Nothing]
    /\ time = 0

Slugs == {e.slug : e \in peers.edges} \ {NoSlug}

PeerNext ==
    \/ \E s \in Links : AddLink(s)
    \/ RemoveLinks({}) \/ \E e \in peers.edges : RemoveLinks({e})
    \/ \E slug \in Slugs : RemoveLinks({e \in peers.edges : e.slug = slug})
    \/ \E p \in Importers, file \in SeedFiles : ImportAsks(p, file)
    \/ \E p \in Importers : Import(p) \/ ImportStops(p)
    \/ SweepStops
    \/ TimePasses

-----------------------------------------------------------------------------
(* Properties.                                                             *)

\* Imports never leave two edges of one relation, whoever saw no stamp before
\* another finished, wherever an import died and was run again, and whatever files
\* have in common (peer-graph-cli.md: "Per-row deduplication prevents duplicate
\* edges"; there is no UNIQUE constraint behind it).
ImportsOnce ==
    \A e, f \in peers.edges :
        e.imported /\ f.imported /\ Relation(e) = Relation(f) => e = f

\* Nobody imports a file again once it has its stamp, so every relation in it is
\* there, unless somebody removed it, it expired, or a rebuild lost it since.
ImportedStays ==
    \A file \in stamps : \A k \in DOMAIN file :
        Related(peers, file[k]) # {} \/ Relation(file[k]) \in gone

=============================================================================
