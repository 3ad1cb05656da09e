---------------------------- MODULE MCMcpServer -----------------------------
(* Constants of the model-checked instances of McpServer. *)
EXTENDS McpServer

CONSTANTS r1, r2, big, notice, junk

MCForm == [m \in Messages |->
             CASE m = junk -> "malformed" [] m = notice -> "skipped" [] OTHER -> "request"]

=============================================================================
