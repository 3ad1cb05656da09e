----------------------------- MODULE MCSession ------------------------------
(* Constants of the model-checked instance of Session. *)
EXTENDS Session

CONSTANTS
    r1,     \* a request
    big,    \* a request in two chunks
    nul,    \* a request whose result is null
    n1,     \* a notification
    a1,     \* a request without id
    i1, i2, i3

MCKind == [c \in Calls |->
             CASE c = n1 -> "notification" [] c = a1 -> "anonymous" [] OTHER -> "request"]
MCIdOf == [c \in Calls |-> CASE c = big -> i2 [] c = nul -> i3 [] OTHER -> i1]
MCReturns == [c \in Calls |-> IF c = nul THEN "null" ELSE IF c = big THEN "error" ELSE "value"]

=============================================================================
