---------------------------- MODULE CommittedLog ----------------------------
(***************************************************************************)
(* What the event log promises its readers, whatever its text looks like:  *)
(* batches of events appear as a whole and in order, and a crash takes     *)
(* back the last of them, as a whole, or none; never an acknowledged one.  *)
(***************************************************************************)
EXTENDS Integers, Sequences

CONSTANTS
    Batches,   \* names of batches
    MaxSize    \* bound on the events of a batch

VARIABLES
    visible,   \* the events a reader gets: each its batch and its place in it
    acked      \* batches whose writers reported success

vars == <<visible, acked>>

BatchesIn(log) == {log[i].batch : i \in DOMAIN log}

Whole(b, n) == [i \in 1 .. n |-> [kind |-> "event", batch |-> b, n |-> i, ended |-> FALSE]]

Init == acked = {}

Add ==
    /\ UNCHANGED acked
    /\ LET log == visible
       IN  \E b \in Batches \ BatchesIn(log), n \in 1 .. MaxSize :
              visible' = log \o Whole(b, n)

Acknowledge(b) ==
    /\ acked' = acked \cup {b}
    /\ b \in BatchesIn(visible)
    /\ UNCHANGED visible

\* A crash splits no batch, and takes back none that was acknowledged.
Lose ==
    /\ UNCHANGED acked
    /\ LET log == visible
           kept == Len(visible')
           lost == SubSeq(log, kept + 1, Len(log))
       IN  /\ kept <= Len(log)
           /\ visible' = SubSeq(log, 1, kept)
           /\ BatchesIn(lost) \cap (acked \cup BatchesIn(visible')) = {}

Next ==
    \/ Add
    \/ \E b \in Batches : Acknowledge(b)
    \/ Lose

Spec == Init /\ [][Next]_vars
=============================================================================
