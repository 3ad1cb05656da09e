------------------------- MODULE MCStdioTransport --------------------------
(* Constants of the model-checked instances of StdioTransport. *)
EXTENDS StdioTransport, TLC

CONSTANTS shared, r1, r2, r3, n1, a1, o1

MCKind ==
    [c \in Calls |-> CASE c = n1 -> "notification"
                       [] c = a1 -> "anonymous"
                       [] c = o1 -> "other"
                       [] OTHER -> "request"]

\* r1 and r2 share an id, that of neither: the two can be exchanged.
MCIdOf == [c \in Calls |-> IF c \in {r1, r2} THEN shared ELSE c]

SymShared == Permutations({r1, r2})

=============================================================================
