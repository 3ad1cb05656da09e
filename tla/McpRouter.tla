----------------------------- MODULE McpRouter ------------------------------
(***************************************************************************)
(* RouterService of mcp-server (router.rs): from a request to the response *)
(* that Server::run writes, with the handlers of the application external. *)
(* The router keeps nothing from one request to the next, and Server::run  *)
(* makes one call at a time, so one request is followed to its answer.     *)
(*                                                                         *)
(* A text is a sequence of tokens, of which braces are the ones that mean  *)
(* something.  Of the lists and of the answers of tools and resources only *)
(* that they are results is kept, of errors the kind.                      *)
(***************************************************************************)
EXTENDS Integers, SequencesExt

CONSTANTS
    Requests,       \* what may be asked
    Tokens,         \* what texts are made of
    Texts,          \* the keys and values that occur in them
    NotText,        \* a JSON value that is not a string
    Absent,         \* no such field, or not of the type it should have
    NoRequest,
    Prompts,        \* the names of list_prompts
    Required,       \* Required[p]: the arguments prompt p requires
    Descriptions,   \* Descriptions[p]: what get_prompt may return
    Unsafe,         \* dangerous_patterns
    MaxArgument,    \* the longest key or value: 1000
    MaxDescription  \* the longest description: 10000

Methods == {"initialize", "tools/list", "tools/call", "resources/list", "resources/read",
            "prompts/list", "prompts/get", "other"}
Opening == "{"
Closing == "}"
Braces == {Opening, Closing}
Arguments == [key : Texts, value : Texts \cup {NotText}]

\* name stands for the field a method looks for: "name", or "uri" of a resource.
\* The arguments are in the order of the map, which has each key once.
ASSUME RouterAssumption ==
    /\ Braces \subseteq Tokens
    /\ Texts \subseteq Seq(Tokens) /\ NotText \notin Texts
    /\ \A req \in Requests :
         /\ req.method \in Methods
         /\ req.args = Absent \/ /\ req.args \in Seq(Arguments)
                                 /\ \A i, j \in DOMAIN req.args :
                                      req.args[i].key = req.args[j].key => i = j
    /\ Absent \notin Prompts /\ NoRequest \notin Requests
    /\ \A p \in Prompts : Required[p] \subseteq Texts /\ Descriptions[p] \subseteq Seq(Tokens)
    /\ MaxArgument \in Nat \ {0} /\ MaxDescription \in Nat

VARIABLES
    request,    \* the request in service
    awaits,     \* the handler it waits for
    description,\* what get_prompt returned
    response    \* the response Server::run writes

vars == <<request, awaits, description, response>>

Codes == {"METHOD_NOT_FOUND", "INTERNAL_ERROR"}
NoResponse == [tag |-> "none"]
Result(content) == [tag |-> "result", content |-> content]
Error(code) == [tag |-> "error", code |-> code]

\* What a response carries that is not a filled prompt.
Data == <<"data">>

\* The type invariant.
RouterTypeOK ==
    /\ request \in Requests \cup {NoRequest}
    /\ awaits \in {"nothing", "call_tool", "read_resource", "get_prompt"}
    /\ description \in {<<>>} \cup UNION {Descriptions[p] : p \in Prompts}
    /\ \/ response = NoResponse
       \/ response.tag = "error" /\ response.code \in Codes
       \/ response.tag = "result" /\ response.content \in Seq(Tokens) \cup {Data}
    /\ request = NoRequest => awaits = "nothing" /\ response = NoResponse
    /\ request # NoRequest => (awaits = "nothing" <=> response # NoResponse)

Init ==
    /\ request = NoRequest
    /\ awaits = "nothing"
    /\ description = <<>>
    /\ response = NoResponse

-----------------------------------------------------------------------------
(* Replacing placeholders. *)

OccursAt(pattern, text, i) ==
    /\ i + Len(pattern) - 1 <= Len(text)
    /\ SubSeq(text, i, i + Len(pattern) - 1) = pattern
Occurs(pattern, text) == \E i \in DOMAIN text : OccursAt(pattern, text, i)

Placeholder(key) == <<Opening>> \o key \o <<Closing>>

\* Fault: only the first occurrence.
ReplaceFirst(text, pattern, value) ==
    IF Occurs(pattern, text)
      THEN LET at == CHOOSE i \in 1 .. Len(text) :
                       /\ OccursAt(pattern, text, i)
                       /\ \A j \in 1 .. i - 1 : ~OccursAt(pattern, text, j)
           IN  SubSeq(text, 1, at - 1) \o value
                   \o SubSeq(text, at + Len(pattern), Len(text))
      ELSE text

\* A scan of a text of n tokens from left to right: what it puts out at each place
\* it gets to, and how far it goes on from there.
Scan(n, out, step) ==
    LET from[i \in 1 .. n + 1] ==
          IF i > n THEN <<>> ELSE out[i] \o from[i + step[i]]
    IN  from[1]

\* str::replace: every occurrence from left to right; what it puts in is not
\* looked at again.
Replace(text, pattern, value) ==
    Scan(Len(text),
         [i \in DOMAIN text |-> IF OccursAt(pattern, text, i) THEN value ELSE <<text[i]>>],
         [i \in DOMAIN text |-> IF OccursAt(pattern, text, i) THEN Len(pattern) ELSE 1])

\* A value that is not a string counts as the empty one.
AsText(value) == IF value = NotText THEN <<>> ELSE value

\* One argument after the other, each in what the ones before it made.
FillIn(text, args) ==
    LET filled[n \in 0 .. Len(args)] ==
          IF n = 0 THEN text
          ELSE Replace(filled[n - 1], Placeholder(args[n].key), AsText(args[n].value))
    IN  filled[Len(args)]

-----------------------------------------------------------------------------
(* The checks of handle_prompts_get. *)

\* Fault: an argument need only be there.
MissingKey(req) ==
    \E key \in Required[req.name] : \A i \in DOMAIN req.args : req.args[i].key # key

\* A required argument that is not there, not a string, or empty.
MissingRequired(req) ==
    \E key \in Required[req.name] :
        \A i \in DOMAIN req.args : req.args[i].key = key => AsText(req.args[i].value) = <<>>

Unfit(arg) ==
    \/ arg.key = <<>> \/ Len(arg.key) > MaxArgument
    \/ Len(AsText(arg.value)) > MaxArgument
    \/ \E p \in Unsafe : Occurs(p, arg.key) \/ Occurs(p, AsText(arg.value))

\* The handler a request gets to; the others are answered at once.
Handler(req) ==
    CASE req.method = "tools/call" /\ req.name # Absent -> "call_tool"
      [] req.method = "resources/read" /\ req.name # Absent -> "read_resource"
      [] /\ req.method = "prompts/get"
         /\ req.name \in Prompts /\ req.args # Absent
         /\ ~MissingRequired(req) -> "get_prompt"
      [] OTHER -> "nothing"

\* Fault: an Err keeps the code that From<RouterError> has for it.
ImmediateAnswerWithCode(req) ==
    CASE req.method = "other" -> Error("METHOD_NOT_FOUND")
      [] req.method \in {"tools/call", "resources/read", "prompts/get"} ->
           Error("INVALID_PARAMS")
      [] OTHER -> Result(Data)

\* Server::run turns the Err of a service into INTERNAL_ERROR; an unknown method
\* is an Ok with an error in it, and keeps its code.
ImmediateAnswer(req) ==
    CASE req.method = "other" -> Error("METHOD_NOT_FOUND")
      [] req.method \in {"tools/call", "resources/read", "prompts/get"} ->
           Error("INTERNAL_ERROR")
      [] OTHER -> Result(Data)

-----------------------------------------------------------------------------
(* Steps. *)

Call(req) ==
    /\ request = NoRequest
    /\ request' = req
    /\ awaits' = Handler(req)
    /\ response' = IF Handler(req) = "nothing" THEN ImmediateAnswer(req) ELSE NoResponse
    /\ UNCHANGED description

Respond(answer) ==
    /\ response' = answer
    /\ awaits' = "nothing"
    /\ UNCHANGED request

\* A tool that fails is a result as well, with is_error set.
ToolReturns ==
    /\ awaits = "call_tool"
    /\ Respond(Result(Data))
    /\ UNCHANGED description

ResourceReturns ==
    /\ awaits = "read_resource"
    /\ \/ Respond(Result(Data))
       \/ Respond(Error("INTERNAL_ERROR"))
    /\ UNCHANGED description

\* Fault: the length of what is filled in is compared, not of the description.
PromptReturnsFilled(text) ==
    /\ awaits = "get_prompt"
    /\ description' = text
    /\ IF \/ \E i \in DOMAIN request.args : Unfit(request.args[i])
          \/ Len(FillIn(text, request.args)) > MaxDescription
         THEN Respond(Error("INTERNAL_ERROR"))
         ELSE Respond(Result(FillIn(text, request.args)))

\* The arguments are checked when get_prompt has returned, then the description.
PromptReturns(text) ==
    /\ awaits = "get_prompt"
    /\ description' = text
    /\ IF \/ \E i \in DOMAIN request.args : Unfit(request.args[i])
          \/ Len(text) > MaxDescription
         THEN Respond(Error("INTERNAL_ERROR"))
         ELSE Respond(Result(FillIn(text, request.args)))

PromptFails ==
    /\ awaits = "get_prompt"
    /\ Respond(Error("INTERNAL_ERROR"))
    /\ UNCHANGED description

Next ==
    \/ \E req \in Requests : Call(req)
    \/ ToolReturns \/ ResourceReturns \/ PromptFails
    \/ \E p \in Prompts : request # NoRequest /\ request.name = p
                          /\ \E text \in Descriptions[p] : PromptReturns(text)

Spec == Init /\ [][Next]_vars

-----------------------------------------------------------------------------
(* Properties. *)

BraceFree(text) == Range(text) \cap Braces = {}

\* No brace is opened within braces.
Unnested(text) ==
    \A i, j \in DOMAIN text :
        i < j /\ text[i] = Opening /\ text[j] = Opening => \E k \in i .. j : text[k] = Closing

\* All placeholders at once: each is looked for in the description only.
AtOnce(text, args) ==
    LET Here(i) == {a \in args : OccursAt(Placeholder(a.key), text, i)}
        The(i) == CHOOSE a \in Here(i) : TRUE
    IN  Scan(Len(text),
             [i \in DOMAIN text |->
                IF Here(i) = {} THEN <<text[i]>> ELSE AsText(The(i).value)],
             [i \in DOMAIN text |->
                IF Here(i) = {} THEN 1 ELSE Len(Placeholder(The(i).key))])

FilledPrompt == response.tag = "result" /\ request.method = "prompts/get"

\* Filling in one argument after the other (router.rs:369-374) gives what filling
\* them in at once gives, whatever the order of the map, unless arguments hold
\* braces or the description puts one placeholder into another.
FilledAtOnce ==
    /\ FilledPrompt /\ Unnested(description)
    /\ \A i \in DOMAIN request.args :
         BraceFree(request.args[i].key) /\ BraceFree(AsText(request.args[i].value))
    => response.content = AtOnce(description, Range(request.args))

\* What a request must be for get_prompt to be asked, and what must hold besides for
\* a prompt to leave the router filled in, where the arguments are checked only after
\* the description is there (router.rs:275-364).
Complete(req) ==
    /\ req.name \in Prompts /\ req.args # Absent
    /\ \A key \in Required[req.name] : \E i \in DOMAIN req.args :
         req.args[i].key = key /\ req.args[i].value \notin {NotText, <<>>}

WithinLimits(req) ==
    \A i \in DOMAIN req.args :
        LET value == AsText(req.args[i].value)
        IN  /\ Len(req.args[i].key) \in 1 .. MaxArgument /\ Len(value) <= MaxArgument
            /\ \A p \in Unsafe : ~Occurs(p, req.args[i].key) /\ ~Occurs(p, value)

CheckedInOrder ==
    /\ awaits = "get_prompt" => Complete(request)
    /\ FilledPrompt => /\ Complete(request) /\ WithinLimits(request)
                       /\ Len(description) <= MaxDescription

=============================================================================
