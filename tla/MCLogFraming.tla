---------------------------- MODULE MCLogFraming ----------------------------
(* Small instances of LogFraming for TLC. *)
EXTENDS LogFraming

Texts == {Text("begin", 1, 1), Text("commit", 1, 1), Event(1, 1), Torn, Text("blank", 0, 0)}

\* Every text of at most three lines, with and without the last newline.
Shapes ==
    LET ended == BoundedSeq({Ended(text) : text \in Texts}, 3)
    IN  ended \cup {Append(f, text) : f \in {g \in ended : Len(g) < 3}, text \in Texts}
=============================================================================
