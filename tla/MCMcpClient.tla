---------------------------- MODULE MCMcpClient ----------------------------
(* Constants of the model-checked instance of McpClient. *)
EXTENDS McpClient

CONSTANTS init1, init2, op1, op2

MCCalls == (-MaxRequests)..MaxRequests \ {0}
MCKind == [c \in Calls |-> IF c > 0 THEN "request" ELSE "notification"]
MCIdOf == [c \in Calls |-> c]

\* op1 uses tools, op2 prompts.
MCNeeds == [o \in Ops |-> IF o = op2 THEN "prompts" ELSE "tools"]

=============================================================================
