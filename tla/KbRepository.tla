---------------------------- MODULE KbRepository ----------------------------
(* One repository: what the log tells (KbContent), the commands that write   *)
(* it in several steps (BulkCommands), and the peer graph, which shares the  *)
(* database and which no log tells (PeerGraph). Compactions sweep the graph,  *)
(* and rebuilds put an empty one in its place.                               *)
EXTENDS BulkCommands, PeerGraph

kbVars == <<vars, bulkVars, peerVars>>

\* A single command writes between two adds of the others.
WritesBetween ==
    /\ Writers
    /\ bulk' = Disturbed
    /\ UNCHANGED <<stamped, hookVars, peerVars>>

\* A database that converged is swept before its log is rewritten.
CompactAndSweep == Compact /\ SweepPeers /\ UNCHANGED bulkVars

RebuildWithoutPeers == Rebuild /\ LosePeers /\ UNCHANGED bulkVars

Recovers == (CatchUp \/ Reembed) /\ UNCHANGED <<bulkVars, peerVars>>

\* Bound: clients of the peer graph and of the bulk commands start with one event,
\* which is applied.
KbInit ==
    /\ Init /\ PeerInit /\ BulkInit
    /\ workload.ops \cap ({"peers"} \cup Jobs \cup {"digest"}) # {} => Len(log) = 1 /\ Converged

KbNext ==
    \/ WritesBetween
    \/ Recovers
    \/ CompactAndSweep
    \/ RebuildWithoutPeers
    \/ BulkNext /\ UNCHANGED peerVars
    \/ Uses("peers") /\ PeerNext /\ UNCHANGED <<vars, bulkVars>>

KbSpec == KbInit /\ [][KbNext]_kbVars

=============================================================================
