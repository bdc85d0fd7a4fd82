---------------------------- MODULE MCCitations ----------------------------
(* Two files, texts of at most three blocks, entries with ranges, whole files *)
(* and legacy ranges over whole files.                                        *)
EXTENDS Citations, TLC

CONSTANTS f1, f2

MCFiles == {f1, f2}
MCBlocks == {"a", "b", "c"}
Tree(text1, text2) ==
    (f1 :> [ino |-> <<f1, 0>>, text |-> text1]) @@ (f2 :> [ino |-> <<f2, 0>>, text |-> text2])

Evidence(f, range, hash, excerpt) ==
    [file |-> f, range |-> range, hash |-> hash, excerpt |-> excerpt]
Place(f, range, excerpt) == [file |-> f, range |-> range, excerpt |-> excerpt]

AB == <<"a", "b">>
MCSetups ==
    {\* Citations of two files, and of one place twice.
     [tree |-> Tree(AB, <<"b", "a">>), entries |-> <<Stale>>,
      ops |-> {"cite"}, edits |-> 3, texts |-> {<<"a">>, <<"b", "a">>},
      cites |-> {Place(f1, <<0, 1>>, <<"a">>), Place(f1, Whole, NoExcerpt),
                 Place(f2, <<0, 2>>, <<"a">>)}],
     \* A range whose excerpt is its last block, a weak one, a whole file.
     [tree |-> Tree(AB, <<"b", "a">>),
      entries |-> <<[live |-> TRUE, rows |-> <<Evidence(f1, <<0, 2>>, AB, <<"b">>),
                                               Evidence(f2, Whole, <<"b", "a">>, <<"b", "a">>)>>]>>,
      ops |-> {"heal", "expire"}, edits |-> 3,
      texts |-> {AB, <<"c", "a", "b">>, <<"c", "b", "a">>, <<"b", "a", "b">>}, cites |-> {}],
     [tree |-> Tree(AB, <<"b", "a">>),
      entries |-> <<[live |-> TRUE, rows |-> <<Evidence(f1, <<0, 2>>, AB, AB),
                                               Evidence(f2, <<0, 2>>, <<"b", "a">>, NoExcerpt)>>]>>,
      ops |-> {"migrate", "heal", "expire"}, edits |-> 3,
      texts |-> {AB, <<"c", "b">>, <<"c", "a", "b">>}, cites |-> {}],
     [tree |-> Tree(AB, <<"b", "a">>),
      entries |-> <<[live |-> TRUE, rows |-> <<Evidence(f1, <<0, 2>>, AB, AB),
                                               Evidence(f2, <<0, 1>>, <<"b">>, <<"b">>)>>]>>,
      ops |-> {"compress", "heal", "expire"}, edits |-> 3,
      texts |-> {AB, <<"c", "a", "b">>}, cites |-> {}]}

=============================================================================
