----------------------------- MODULE DurableKb -----------------------------
(***************************************************************************)
(* What agentic-kb promises, without log file, database, cursor, locks or  *)
(* rebuilds: a history of committed events that only a power loss shortens *)
(* and then never below what was acknowledged, and searches that are       *)
(* answered from some prefix of that history, complete and in order.       *)
(***************************************************************************)
EXTENDS KbStore

VARIABLES
    history,  \* committed events, oldest first
    acked,    \* ids of events whose command reported success
    shown,    \* what a search sees of each entry
    kept      \* what a search would see after a power loss

vars == <<history, acked, shown, kept>>

View(n) == Visible(Materialize(Prefix(history, n), {}))

Init ==
    /\ history \in Seq(Event)
    /\ acked = {}
    /\ shown \in {View(0), View(Len(history))}
    /\ kept = shown

\* What is shown becomes durable now, or later.
KeptOrNot == kept' \in {kept, shown'}

\* A batch is committed as a whole; its events are newer than any before.
Commit ==
    /\ history' \in Seq(Event)
    /\ Len(history') > Len(history)
    /\ Prefix(history', Len(history)) = history
    /\ \A i \in Len(history) + 1 .. Len(history') :
          \A e \in EventIds(history) : e < history'[i].id
    /\ KeptOrNot
    /\ UNCHANGED <<acked, shown>>

\* Success is reported when the write can be searched, nothing before it
\* missing, for good.
Acknowledge ==
    /\ shown' = View(Len(history))
    /\ kept' = shown'
    /\ acked \subseteq acked'
    /\ acked' \subseteq EventIds(history)
    /\ UNCHANGED history

\* Searches move to another prefix: forward when a database catches up, back
\* to an earlier one when it is lost and made again.
Show ==
    /\ \E n \in 0 .. Len(history) : shown' = View(n)
    /\ KeptOrNot
    /\ UNCHANGED <<history, acked>>

\* What is shown becomes durable.
Keep ==
    /\ kept' = shown
    /\ UNCHANGED <<history, acked, shown>>

\* Power is lost before a batch was acknowledged.  The database may be ahead of
\* the history that is left, or fall back to what was durable of it.
Lose ==
    /\ \E n \in 0 .. Len(history) : history' = Prefix(history, n)
    /\ acked \subseteq EventIds(history')
    /\ shown' \in {shown, kept}
    /\ kept' = shown'
    /\ UNCHANGED acked

Next == Commit \/ Acknowledge \/ Show \/ Keep \/ Lose

Spec == Init /\ [][Next]_vars
=============================================================================
