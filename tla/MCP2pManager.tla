---------------------------- MODULE MCP2pManager ----------------------------
(* Constants of the model-checked instance of P2pManager. *)
EXTENDS P2pManager

CONSTANTS c1, c2, c3, c4

=============================================================================
