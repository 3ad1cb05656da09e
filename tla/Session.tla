------------------------------ MODULE Session ------------------------------
(***************************************************************************)
(* A session over stdio: the transport of mcp-client (StdioTransport) with *)
(* the server of mcp-server (McpServer) as its child process, each with    *)
(* its own actions.  The pipe to the server holds pieces of lines, as the  *)
(* server sees it; the lines the transport has in its stdin are those the  *)
(* server has not taken yet.  The server is a program like counter_server: *)
(* it returns from main when run does.                                     *)
(*                                                                         *)
(* With this peer stdout never holds a line that is not UTF-8, is open     *)
(* while the process lives, and the input ends but does not break, so the  *)
(* actions of both modules that need anything else are left out.  A        *)
(* definition marked "Fault" is a plausible bug in the one after it.       *)
(***************************************************************************)
EXTENDS Transport, JsonRpc, SequencesExt

CONSTANTS
    Returns,        \* Returns[c]: what the service answers to the request of c
    Chunked,        \* requests longer than the pipe
    PipeCapacity,   \* pieces in the pipe to the server before a write waits
    StdoutCapacity  \* lines in the pipe from the server before a write waits

ASSUME SessionAssumption ==
    /\ Returns \in [Calls -> {"value", "null", "error"}]
    /\ Chunked \subseteq Calls
    /\ PipeCapacity \in Nat \ {0}
    /\ StdoutCapacity \in Nat \ {0}

VARIABLES
    phase, answer, result, handle,                      \* see StdioTransport
    actor, outgoing, current, channel, pending, errors,
    sent, half, pipe, input, readBuf, line,             \* see McpServer
    server, serving, response, written,
    stdout,     \* lines from the server to the transport
    child       \* whether the process of the server runs

clientVars == <<phase, answer, result, handle, actor, outgoing, current, channel, pending, errors>>
serverVars == <<sent, half, pipe, readBuf, line, server, serving, response, written>>
vars == <<clientVars, input, serverVars, stdout, child>>

-----------------------------------------------------------------------------
(* What the messages of one side are for the other. *)

\* What send puts into the channel; it refuses the other variants.
SentAs(c) ==
    CASE Kind[c] = "request" -> Message("Request", {"id", "method", "params"}, {})
      [] Kind[c] = "anonymous" -> Message("Request", {"method", "params"}, {})
      [] OTHER -> Message("Notification", {"method"}, {})

FormAtServer(c) ==
    LET m == AsReceived(SentAs(c))
    IN  CASE Served(m) -> "request" [] m = Rejected -> "malformed" [] OTHER -> "skipped"

\* A response carries the id of its request, an error for a line that made no
\* sense carries none.
ResponseTo(c) ==
    LET id == SentAs(c).fields \cap {"id"}
    IN  CASE Returns[c] = "value" -> Message("Response", id \cup {"result"}, {})
          [] Returns[c] = "null" -> Message("Response", id \cup {"result"}, {"result"})
          [] OTHER -> Message("Response", id \cup {"error"}, {})
Resolves(c) == Placed(AsReceived(ResponseTo(c)))

\* A line of the server as the incoming loop takes it.
AtClient(r) ==
    IF r.tag = "response" /\ Resolves(r.to) THEN Reply(r.to) ELSE Outcome("log", NoCall)

-----------------------------------------------------------------------------
(* The two components. *)

Server == INSTANCE McpServer
    WITH Messages <- Calls, NoMessage <- NoCall, Form <- [c \in Calls |-> FormAtServer(c)],
         MaxErrors <- 0, output <- "open", current <- serving

\* A line is two pieces, and the first can be taken before the second: so many
\* lines were written whole, and so many of them the server has taken.
HalfWritten == IF half = NoCall THEN 0 ELSE 1
LinesWritten == Len(sent) - HalfWritten
LinesTaken == (2 * Len(sent) - HalfWritten - Len(pipe) - Len(readBuf)) \div 2

Unread == SubSeq(sent, LinesTaken + 1, LinesWritten)
Read(c) == c \in Range(SubSeq(sent, 1, LinesTaken))

Client == INSTANCE StdioTransport
    WITH Noise <- {"log"}, Closable <- {}, stdin <- Unread,
         received <- [c \in Calls |-> IF Read(c) THEN 1 ELSE 0],
         closed <- IF child = "running" THEN {} ELSE {"stdin", "stdout", "stderr"}

Init ==
    /\ sent = <<>> /\ half = NoCall /\ pipe = <<>> /\ input = "open"
    /\ readBuf = <<>> /\ line = <<>>
    /\ server = "polling" /\ serving = NoCall /\ response = Server!LineError /\ written = <<>>
    /\ stdout = <<>> /\ child = "running"
    /\ phase = [c \in Calls |-> "idle"]
    /\ answer = [c \in Calls |-> Unresolved]
    /\ result = [c \in Calls |-> Unresolved]
    /\ handle = "open"
    /\ actor = "select" /\ outgoing = "recv" /\ current = NoCall
    /\ channel = <<>> /\ pending = NoPending /\ errors = "unsent"

-----------------------------------------------------------------------------
(* The transport.  stdin belongs to the outgoing loop and is closed with it. *)

Quietly == UNCHANGED <<input, serverVars, child>>

\* Fault: stdin belongs to the actor, not to its outgoing loop.
LoopEndsAlone == UNCHANGED <<input, serverVars, child>>
LoopEnds == UNCHANGED <<serverVars, child>> /\ input' = "closed"

Enqueue(c) == Quietly /\ Client!Enqueue(c)
EnqueueFails(c) == Quietly /\ Client!EnqueueFails(c)
Return(c) == Quietly /\ Client!Return(c)
Submit(c) == Quietly /\ Client!Submit(c)
Cancel(c) == Quietly /\ Client!Cancel(c)
DropHandle == Quietly /\ Client!DropHandle

WriteLine ==
    /\ Client!OutgoingAt("write")
    /\ current \notin Chunked
    /\ Len(pipe) < PipeCapacity
    /\ Server!PeerWrites(current)
    /\ UNCHANGED child
    /\ Client!OutgoingWrite

\* write_all of a long line waits between its two chunks.
WriteFirstChunk ==
    /\ Client!OutgoingAt("write")
    /\ child = "running"
    /\ Len(pipe) < PipeCapacity
    /\ Server!PeerWritesFirstChunk(current)
    /\ UNCHANGED <<clientVars, stdout, child>>

WriteRest ==
    /\ Client!OutgoingAt("write")
    /\ Len(pipe) < PipeCapacity
    /\ Server!PeerWritesRest
    /\ UNCHANGED child
    /\ Client!OutgoingWrite

Outgoing ==
    \/ Quietly /\ (Client!OutgoingRecv \/ Client!OutgoingInsert \/ Client!OutgoingFlush)
    \/ LoopEnds /\ (Client!OutgoingRecvNone \/ Client!OutgoingFails)
    \/ WriteLine \/ WriteFirstChunk \/ WriteRest

Incoming == Quietly /\ Client!Incoming
ProcessExited == Quietly /\ Client!ProcessExited

Teardown ==
    \/ Quietly /\ (Client!ReadStderr \/ Client!ReportError \/ Client!ClearPending)
    \/ /\ UNCHANGED serverVars /\ input' = "closed" /\ child' = "exited"
       /\ Client!DropActor

-----------------------------------------------------------------------------
(* The process of the server. *)

ServerWrites ==
    /\ Len(stdout) < StdoutCapacity
    /\ Server!WriteMessage
    /\ stdout' = Append(stdout, AtClient(response))

ServerRuns ==
    /\ child = "running"
    /\ UNCHANGED <<clientVars, child>>
    /\ \/ UNCHANGED stdout /\ (Server!FillBuffer \/ Server!TakeLine \/ Server!TakePart
                               \/ Server!ServiceAnswers \/ Server!Finish)
       \/ ServerWrites

PollPending ==
    /\ child = "running"
    /\ Server!PollPending
    /\ UNCHANGED <<clientVars, stdout, child>>

\* At any time, or because run has returned.
ProcessExits ==
    /\ child' = "exited"
    /\ UNCHANGED <<clientVars, input, serverVars, stdout>>
    /\ Client!ChildExits

-----------------------------------------------------------------------------

Next ==
    \/ \E c \in Calls : Submit(c) \/ Enqueue(c) \/ EnqueueFails(c) \/ Return(c) \/ Cancel(c)
    \/ DropHandle
    \/ Outgoing \/ Incoming \/ ProcessExited \/ Teardown
    \/ ServerRuns \/ PollPending \/ ProcessExits

Spec == Init /\ [][Next]_vars

\* What tokio polls on both sides; main returns after run.  Nothing makes a caller
\* submit or give up, a poll find a line incomplete or a process crash.
Fairness ==
    /\ \A c \in Calls : WF_vars(Enqueue(c)) /\ WF_vars(EnqueueFails(c)) /\ WF_vars(Return(c))
    /\ WF_vars(Outgoing) /\ WF_vars(Incoming) /\ WF_vars(ProcessExited) /\ WF_vars(Teardown)
    /\ WF_vars(ServerRuns)
    /\ WF_vars(server = "ended" /\ ProcessExits)

FairSpec == Spec /\ Fairness

-----------------------------------------------------------------------------

Active(c) == phase[c] \in {"sending", "waiting"}

\* The server took the line of c without the first chunk (lib.rs:56, 100) and
\* answers it with an error that names no request.
Mangled(c) ==
    /\ Kind[c] = "request" /\ c \in Chunked /\ Read(c)
    /\ serving # c /\ response # Server!Answer(c) /\ ~Server!Answered(c)

\* The server answered c, but with a null result, which does not parse.
Illegible(c) == Server!Answered(c) /\ ~Resolves(c)

\* The select! has ended, nobody reads stdout, and the server waits for room in it.
Clogged == actor = "stderr" /\ server = "writing" /\ Len(stdout) = StdoutCapacity

\* The server is a child as StdioTransport assumes it, whatever is torn, garbled
\* or left half-way: it answers only requests it has read, and the answers it
\* writes carry the id of the request.  So all that is proved of StdioTransport
\* holds for the session.
ServerIsAChild == Client!Spec

\* The other way round, the transport is to the server the peer that McpServer
\* assumes: it writes whole lines one at a time, whatever is torn in between, and
\* ends its input but never breaks it.
TransportIsAPeer == Server!Spec

\* From end to end (mod.rs:92, lib.rs:165, stdio.rs:97): what send returns as the reply
\* to a request with an id of its own is what the server wrote for that request.
RepliesAreAnswers ==
    \A c, d \in Calls :
        OwnId(c) /\ result[c] = Reply(d) => d = c /\ Kind[c] = "request" /\ Server!Answered(c)

\* Every call ends and leaves no entry in the table, one given up by its caller
\* included (mod.rs:92): with an answer, or with an error when the process exits.
\* The exceptions are a request mangled on its way, for which the client
\* ignores the error (stdio.rs:97), a null result, and a clogged shutdown; they
\* last as long as the process does.
CallsAreSettled ==
    \A c \in Calls :
        []<>(\/ ~Active(c) /\ c \notin Senders(pending)
             \/ child = "running" /\ (Mangled(c) \/ Illegible(c) \/ Clogged))

\* Dropping the handle ends the session, step by step through both processes
\* (stdio.rs:119, lib.rs:61, stdio.rs:56): the outgoing loop drains the channel
\* and closes stdin, the server answers what it has read and returns, its exit ends
\* stderr and with it the actor.  Unless the server still has an answer
\* to write and the pipe, which nobody reads any more, is full.
ShutdownCompletes == []<>(handle = "open" \/ actor = "gone" \/ Clogged)

=============================================================================
