-------------------------- MODULE MCRebuildManager --------------------------
(* Small instances of RebuildManager for TLC. *)
EXTENDS RebuildManager

\* A launch, a cancellation that may time out, a retry, an await or a second
\* cancellation.
Retry == <<{"request"}, {"cancel"}, {"request", "await", "cancel"}>>
=============================================================================
