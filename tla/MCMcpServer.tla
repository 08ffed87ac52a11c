----------------------------- MODULE MCMcpServer -----------------------------
(* McpServer with a channel of one message, full as soon as anybody writes. *)
EXTENDS McpServer
=============================================================================
