----------------------------- MODULE MCMcpSession -----------------------------
(* Small instances of McpSession for TLC. *)
EXTENDS McpSession

\* A request that may time out or be refused; a line that needs no port, or a
\* bulky reply; a request that meets what is left of them.
Mixed == <<{"request", "bulky", "refused"}, {"silent", "local", "request"}, {"request"}>>
=============================================================================
