---------------------------- MODULE MCKbContent ----------------------------
(* Two entries about one path, one test case, drafts of every interesting   *)
(* kind, a new repository and two logs of earlier versions: one with an     *)
(* entry without a kind and two runs without ids, one with evidence that    *)
(* was expired by itself.                                                   *)
EXTENDS KbRepository

CONSTANTS e1, e2, p1, t1, i1, i2

MCEntries == {e1, e2}
MCPaths == {p1}
MCTests == {t1}

Draft(e, kind, permanent, replace, cites) ==
    [id |-> e, path |-> p1, kind |-> kind, permanent |-> permanent,
     replace |-> replace, cites |-> cites]

MCDrafts == {Draft(e1, "belief", FALSE, FALSE, 1), Draft(e1, "memory", FALSE, FALSE, 0),
             Draft(e2, "belief", FALSE, TRUE, 1), Draft(e2, "observation", TRUE, FALSE, 0)}

MCSamples == {1, 2}
MCHeated == {{}, {e2}}

Legacy(e) == [op |-> "upsert", id |-> e, path |-> p1, kind |-> "none", permanent |-> FALSE, ts |-> 0]
Cite(e, k) == [op |-> "evidence_add", id |-> e, ev |-> <<0, k>>, at |-> 0, ts |-> 0]
Uncite(e, k) == [op |-> "evidence_expire", id |-> e, ev |-> <<0, k>>, ts |-> 0]
OldTest == [op |-> "test", id |-> t1, ts |-> -1]
OldRun == [op |-> "run", id |-> t1, key |-> 0]

MCInitialLogs ==
    {<<OldTest>>,
     <<Legacy(e1), OldTest, OldRun, OldRun>>,
     <<OldTest, Legacy(e1), Cite(e1, 1), Uncite(e1, 1), Cite(e1, 1), Cite(e1, 2)>>}

\* In none of these can a compaction follow both a run and a new definition of its
\* test: MCRedefinitions is for that.
MCWorkloads ==
    {[ops |-> {"add", "expire", "audit", "record", "compact"}, writes |-> 4],
     [ops |-> {"add", "expire", "heal", "compact"}, writes |-> 4],
     [ops |-> {"add", "run", "compact", "rebuild"}, writes |-> 4],
     [ops |-> {"test_add", "run", "expire", "rebuild"}, writes |-> 4],
     [ops |-> {"add", "reembed", "rebuild"}, writes |-> 3],
     [ops |-> {"ingest", "import", "kb_upsert", "compact"}, writes |-> 3],
     [ops |-> {"kb_import", "expire", "compact", "rebuild"}, writes |-> 3],
     [ops |-> {"digest", "rebuild"}, writes |-> 3],
     [ops |-> {"peers", "compact", "rebuild"}, writes |-> 0]}

MCRedefinitions == {[ops |-> {"test_add", "run", "compact"}, writes |-> 2]}

\* Links of one repository to another, of both types, with and without an epic; a
\* file that shares a relation with another, and ends in a type nobody accepts.
Link(type, slug, ttl, kind) ==
    [from |-> "here", to |-> "there", type |-> type, slug |-> slug, ttl |-> ttl, kind |-> kind]
Seed(type, slug, ttl) ==
    [from |-> "here", to |-> "there", type |-> type, slug |-> slug, ttl |-> ttl]

MCImporters == {i1, i2}
MCSymmetry == Permutations(MCImporters)
MCTypes == {"dep", "epic"}
MCSeedFiles == {<<Seed("dep", NoSlug, NoEnd), Seed("epic", "e", 0)>>,
                <<Seed("dep", NoSlug, 0), Seed("library", NoSlug, NoEnd)>>}
MCLinks == {Link("epic", "e", NoEnd, Member), Link("epic", "e", 0, "epic")}

=============================================================================
