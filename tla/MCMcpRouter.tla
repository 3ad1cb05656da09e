---------------------------- MODULE MCMcpRouter -----------------------------
(* Constants of the model-checked instance of McpRouter. *)
EXTENDS McpRouter

CONSTANTS listed, unlisted  \* names of prompts

MCTokens == {"a", "b", "x", "/", "{", "}"}

KeyA == <<"a">>
KeyB == <<"b">>
TooLong == <<"a", "a", "a", "a">>

MCKeys == {<<>>, KeyA, KeyB, TooLong}

\* A name, the placeholder of another argument, a half of one, an unsafe text.
MCValues == {NotText, <<>>, <<"b">>, <<"a", "x">>, <<"{", "b", "}">>, <<"b", "}">>,
             <<"x", "/", "/">>, TooLong}

MCTexts == MCKeys \cup (MCValues \ {NotText})

MCArgs ==
    LET One == [key : MCKeys, value : MCValues]
    IN  {<<>>} \cup {<<a>> : a \in One}
        \cup {<<a, b>> : <<a, b>> \in {ab \in One \X One : ab[1].key # ab[2].key}}

MCRequests ==
    [method : {"prompts/get"}, name : {listed, unlisted, Absent}, args : MCArgs \cup {Absent}]
    \cup [method : Methods \ {"prompts/get"}, name : {unlisted, Absent}, args : {Absent}]

MCRequired == [p \in Prompts |-> {KeyA}]

\* Both arguments, one twice, one within another, halves, and one too long.
MCDescriptions ==
    [p \in Prompts |-> {
        <<"x", "{", "a", "}", "{", "b", "}">>,
        <<"{", "b", "}", "{", "a", "}", "{", "a", "}">>,
        <<"{", "{", "a", "}", "}">>,
        <<"{", "a", "{", "b", "}">>,
        <<"a", "}", "x", "{", "b">>,
        <<"x", "x", "x", "x", "x", "x", "x", "{", "a", "}">>}]

MCUnsafe == {<<"/", "/">>, <<"{", "{">>, <<"}", "}">>}

=============================================================================
