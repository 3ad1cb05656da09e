-------------------------- MODULE MCSseTransport ---------------------------
(* Constants of the model-checked instances of SseTransport. *)
EXTENDS SseTransport

CONSTANTS r1, r2, n1

MCKind == [c \in Calls |-> IF c = n1 THEN "notification" ELSE "request"]
MCIdOf == [c \in Calls |-> c]

=============================================================================
