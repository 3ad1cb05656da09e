-------------------------- MODULE StdioTransport ---------------------------
(***************************************************************************)
(* The stdio transport of mcp-client (transport/stdio.rs): callers of      *)
(* StdioTransportHandle::send, the StdioActor task with its two loops and  *)
(* its teardown, and the child process at the other end of the pipes.      *)
(*                                                                         *)
(* All steps between two await points of one task are one action.  The     *)
(* actor's loops are polled by one select!, so they stop being polled as   *)
(* soon as one branch completes, but what they own is dropped only when    *)
(* run() returns.  Serialisation of a JsonRpcMessage cannot fail, so that  *)
(* arm of the outgoing loop is left out.                                   *)
(*                                                                         *)
(* A definition marked "Fault" is not part of the specification: it is a   *)
(* plausible bug in the definition after it, kept to see that a property   *)
(* fails when the bug is made.                                             *)
(***************************************************************************)
EXTENDS Transport, Functions

CONSTANTS
    StdoutCapacity, \* lines the child can have written and the actor not read
    Noise,          \* what the child prints besides replies
    Closable        \* the streams a living child may close

\* A "log" line is anything the actor skips: no JSON-RPC, a request, a
\* notification, a response without id.  A "garbled" line is not UTF-8.
Streams == {"stdin", "stdout", "stderr"}

ASSUME StdioAssumption ==
    /\ StdoutCapacity \in Nat \ {0}
    /\ Noise \subseteq {"log", "garbled"}
    /\ Closable \subseteq Streams

VARIABLES
    (* the callers *)
    phase,      \* progress of each call
    answer,     \* what the oneshot of the call holds
    result,     \* what send returned
    handle,     \* whether a clone of the handle is left
    (* the actor task *)
    actor,      \* where StdioActor::run is
    outgoing,   \* where handle_outgoing_messages is
    current,    \* the message the outgoing loop holds
    channel,    \* the mpsc channel to the actor
    pending,    \* PendingRequests
    errors,     \* the error channel from the actor to the handle
    (* the child process *)
    stdin, stdout,  \* lines in the pipes
    received,   \* received[c]: how often the child read the message of c
    child,      \* whether the process runs
    closed      \* the streams whose child end is closed

callerVars == <<phase, result, handle>>
actorVars == <<actor, outgoing, current, channel, pending>>
childVars == <<received, child, closed>>
vars == <<callerVars, answer, actorVars, errors, stdin, stdout, childVars>>

Phases == {"idle", "sending", "waiting", "done", "cancelled"}
Lines == {Reply(d) : d \in Calls} \cup {Outcome(n, NoCall) : n \in Noise}

Typed ==
    /\ phase \in [Calls -> Phases]
    /\ answer \in [Calls -> Outcomes]
    /\ result \in [Calls -> Outcomes]
    /\ handle \in {"open", "dropped"}
    /\ actor \in {"select", "stderr", "report", "clear", "drop", "gone"}
    /\ outgoing \in {"recv", "insert", "write", "flush", "ended"}
    /\ current \in Calls \cup {NoCall}
    /\ channel \in Seq(Calls)
    /\ pending \in [Ids -> Calls \cup {NoCall}]
    /\ errors \in {"unsent", "queued", "taken", "unreadable"}
    /\ stdin \in Seq(Calls)
    /\ stdout \in Seq(Lines)
    /\ received \in [Calls -> Nat]
    /\ child \in {"running", "exited"}
    /\ closed \subseteq Streams

\* The types, and what the table may hold: once run() has cleared it (stdio.rs:71)
\* it stays empty, since no message is filed after the select! is left.
TypeOK == Typed /\ (actor \in {"drop", "gone"} => pending = NoPending)

\* StdioTransport::start: pipes, channels and the spawned actor.
Init ==
    /\ phase = [c \in Calls |-> "idle"]
    /\ answer = [c \in Calls |-> Unresolved]
    /\ result = [c \in Calls |-> Unresolved]
    /\ handle = "open"
    /\ actor = "select"
    /\ outgoing = "recv"
    /\ current = NoCall
    /\ channel = <<>>
    /\ pending = NoPending
    /\ errors = "unsent"
    /\ stdin = <<>>
    /\ stdout = <<>>
    /\ received = [c \in Calls |-> 0]
    /\ child = "running"
    /\ closed = {}

-----------------------------------------------------------------------------
(* The callers: StdioTransportHandle::send and send_message. *)

Active(c) == phase[c] \in {"sending", "waiting"}

\* Fault: the channel accepts messages when the actor has stopped.
ReceiverNeverDropped == TRUE

\* The Receiver lives in the outgoing loop and dies with it or with run().
ReceiverAlive == outgoing # "ended" /\ actor # "gone"

Submit(c) ==
    /\ handle = "open"
    /\ phase[c] = "idle"
    /\ IF Kind[c] = "other"
       THEN /\ phase' = [phase EXCEPT ![c] = "waiting"]
            /\ answer' = [answer EXCEPT ![c] = Unsupported]
       ELSE /\ phase' = [phase EXCEPT ![c] = "sending"]
            /\ UNCHANGED answer
    /\ UNCHANGED <<result, handle, actorVars, errors, stdin, stdout, childVars>>

\* A notification is answered as soon as the channel has it.
Enqueue(c) ==
    /\ phase[c] = "sending"
    /\ ReceiverAlive
    /\ Len(channel) < Capacity
    /\ channel' = Append(channel, c)
    /\ phase' = [phase EXCEPT ![c] = "waiting"]
    /\ answer' = IF Kind[c] = "notification" THEN [answer EXCEPT ![c] = Nil] ELSE answer
    /\ UNCHANGED <<result, handle, actor, outgoing, current, pending, errors, stdin, stdout,
                   childVars>>

EnqueueFails(c) ==
    /\ phase[c] = "sending"
    /\ ~ReceiverAlive
    /\ phase' = [phase EXCEPT ![c] = "waiting"]
    /\ answer' = [answer EXCEPT ![c] = Closed]
    /\ UNCHANGED <<result, handle, actorVars, errors, stdin, stdout, childVars>>

\* check_for_errors: a queued process error goes to whoever looks first, and
\* replaces that caller's result, a reply included.
Return(c) ==
    /\ phase[c] = "waiting"
    /\ answer[c] # Unresolved
    /\ phase' = [phase EXCEPT ![c] = "done"]
    /\ result' = [result EXCEPT ![c] = IF errors = "queued" THEN ProcessError ELSE answer[c]]
    /\ errors' = IF errors = "queued" THEN "taken" ELSE errors
    /\ UNCHANGED <<answer, handle, actorVars, stdin, stdout, childVars>>

\* A timeout or an aborted task drops the future of send at an await.
Cancel(c) ==
    /\ Active(c)
    /\ phase' = [phase EXCEPT ![c] = "cancelled"]
    /\ UNCHANGED <<answer, result, handle, actorVars, errors, stdin, stdout, childVars>>

\* The last clone of the handle goes; a future of send would hold a borrow.
DropHandle ==
    /\ handle = "open"
    /\ \A c \in Calls : ~Active(c)
    /\ handle' = "dropped"
    /\ UNCHANGED <<phase, answer, result, actorVars, errors, stdin, stdout, childVars>>

-----------------------------------------------------------------------------
(* StdioActor::handle_outgoing_messages. *)

\* Fault: the loop is a task of its own, which nothing stops with the select!.
OutgoingSpawned(step) == outgoing = step

\* The loop is only polled while the select! is.
OutgoingAt(step) == actor = "select" /\ outgoing = step

\* Fault: the message stays in the channel.
OutgoingRecvPeeks ==
    /\ OutgoingAt("recv")
    /\ channel # <<>>
    /\ current' = Head(channel)
    /\ outgoing' = "insert"
    /\ UNCHANGED <<callerVars, answer, actor, channel, pending, errors, stdin, stdout, childVars>>

\* Fault: the sender is never filed.
OutgoingRecvSkipsInsert ==
    /\ OutgoingAt("recv")
    /\ channel # <<>>
    /\ current' = Head(channel)
    /\ channel' = Tail(channel)
    /\ outgoing' = "write"
    /\ UNCHANGED <<callerVars, answer, actor, pending, errors, stdin, stdout, childVars>>

OutgoingRecv ==
    /\ OutgoingAt("recv")
    /\ channel # <<>>
    /\ current' = Head(channel)
    /\ channel' = Tail(channel)
    /\ outgoing' = "insert"
    /\ UNCHANGED <<callerVars, answer, actor, pending, errors, stdin, stdout, childVars>>

\* recv() is None once every sender is gone and the channel is drained.
OutgoingRecvNone ==
    /\ OutgoingAt("recv")
    /\ channel = <<>>
    /\ handle = "dropped"
    /\ outgoing' = "ended"
    /\ actor' = "stderr"
    /\ UNCHANGED <<callerVars, answer, current, channel, pending, errors, stdin, stdout,
                   childVars>>

\* Fault: the sender of a request without an id is kept.
OutgoingInsertKeepsAnonymous ==
    /\ OutgoingAt("insert")
    /\ outgoing' = "write"
    /\ pending' = IF Kind[current] = "request" THEN InsertPending(pending, current) ELSE pending
    /\ answer' = IF Kind[current] = "request"
                 THEN Resolve(answer, Displaced(pending, current), Closed) ELSE answer
    /\ UNCHANGED <<callerVars, actor, current, channel, errors, stdin, stdout, childVars>>

\* The sender is filed before the line is written.  A request without an id
\* loses its sender here; a notification has none.
OutgoingInsert ==
    /\ OutgoingAt("insert")
    /\ outgoing' = "write"
    /\ pending' = IF Kind[current] = "request" THEN InsertPending(pending, current) ELSE pending
    /\ answer' = Resolve(answer, IF Kind[current] = "request"
                                 THEN Displaced(pending, current) ELSE {current}, Closed)
    /\ UNCHANGED <<callerVars, actor, current, channel, errors, stdin, stdout, childVars>>

OutgoingWrite ==
    /\ OutgoingAt("write")
    /\ "stdin" \notin closed
    /\ stdin' = Append(stdin, current)
    /\ current' = NoCall
    /\ outgoing' = "flush"
    /\ UNCHANGED <<callerVars, answer, actor, channel, pending, errors, stdout, childVars>>

OutgoingFlush ==
    /\ OutgoingAt("flush")
    /\ outgoing' = "recv"
    /\ UNCHANGED <<callerVars, answer, actor, current, channel, pending, errors, stdin, stdout,
                   childVars>>

\* A failed write or flush clears the table and ends the loop, which drops the
\* receiver with what is queued in it, and the loop's end ends the select!.
OutgoingFails ==
    /\ OutgoingAt("write") \/ OutgoingAt("flush")
    /\ "stdin" \in closed
    /\ answer' = Resolve(answer, Senders(pending) \cup Range(channel), Closed)
    /\ pending' = NoPending
    /\ channel' = <<>>
    /\ current' = NoCall
    /\ outgoing' = "ended"
    /\ actor' = "stderr"
    /\ UNCHANGED <<callerVars, errors, stdin, stdout, childVars>>

Outgoing == OutgoingRecv \/ OutgoingRecvNone \/ OutgoingInsert \/ OutgoingWrite
            \/ OutgoingFlush \/ OutgoingFails

-----------------------------------------------------------------------------
(* StdioActor::handle_incoming_messages. *)

\* Fault: a reply goes to any caller in the table.
IncomingReplyInOrder ==
    /\ actor = "select"
    /\ stdout # <<>>
    /\ Head(stdout).tag = "reply"
    /\ \E id \in Ids : /\ answer' = Resolve(answer, {pending[id]}, Head(stdout))
                       /\ pending' = RemovePending(pending, id)
    /\ stdout' = Tail(stdout)
    /\ UNCHANGED <<callerVars, actor, outgoing, current, channel, errors, stdin, childVars>>

\* PendingRequests::respond for a reply to call d: whoever is filed under the
\* id of d gets it.
IncomingReply ==
    /\ actor = "select"
    /\ stdout # <<>>
    /\ Head(stdout).tag = "reply"
    /\ LET id == IdOf[Head(stdout).to]
       IN  /\ answer' = Resolve(answer, {pending[id]}, Head(stdout))
           /\ pending' = RemovePending(pending, id)
    /\ stdout' = Tail(stdout)
    /\ UNCHANGED <<callerVars, actor, outgoing, current, channel, errors, stdin, childVars>>

IncomingSkip ==
    /\ actor = "select"
    /\ stdout # <<>>
    /\ Head(stdout).tag = "log"
    /\ stdout' = Tail(stdout)
    /\ UNCHANGED <<callerVars, answer, actorVars, errors, stdin, childVars>>

\* read_line returns Ok(0) at the end of the stream and Err for a line that is
\* not UTF-8; both end the loop.
IncomingEnds ==
    /\ actor = "select"
    /\ IF stdout = <<>> THEN "stdout" \in closed ELSE Head(stdout).tag = "garbled"
    /\ actor' = "stderr"
    /\ UNCHANGED <<callerVars, answer, outgoing, current, channel, pending, errors, stdin,
                   stdout, childVars>>

Incoming == IncomingReply \/ IncomingSkip \/ IncomingEnds

-----------------------------------------------------------------------------
(* StdioActor::run: the third branch of the select! and the teardown. *)

ProcessExited ==
    /\ actor = "select"
    /\ child = "exited"
    /\ actor' = "stderr"
    /\ UNCHANGED <<callerVars, answer, outgoing, current, channel, pending, errors, stdin,
                   stdout, childVars>>

\* Fault: the process error is not reported before the table is cleared.
ReadStderrUnreported ==
    /\ actor = "stderr"
    /\ "stderr" \in closed
    /\ actor' = "clear"
    /\ UNCHANGED <<callerVars, answer, outgoing, current, channel, pending, errors, stdin,
                   stdout, childVars>>

\* read_to_end returns when the child's end of the pipe is closed.
ReadStderr ==
    /\ actor = "stderr"
    /\ "stderr" \in closed
    /\ actor' = "report"
    /\ UNCHANGED <<callerVars, answer, outgoing, current, channel, pending, errors, stdin,
                   stdout, childVars>>

ReadStderrFails ==
    /\ actor = "stderr"
    /\ actor' = "clear"
    /\ errors' = "unreadable"
    /\ UNCHANGED <<callerVars, answer, outgoing, current, channel, pending, stdin, stdout,
                   childVars>>

\* With the handle gone the error has no receiver.
ReportError ==
    /\ actor = "report"
    /\ actor' = "clear"
    /\ errors' = IF handle = "open" THEN "queued" ELSE errors
    /\ UNCHANGED <<callerVars, answer, outgoing, current, channel, pending, stdin, stdout,
                   childVars>>

\* Fault: the table is not cleared.
ClearPendingForgotten ==
    /\ actor = "clear"
    /\ actor' = "drop"
    /\ UNCHANGED <<callerVars, answer, outgoing, current, channel, pending, errors, stdin,
                   stdout, childVars>>

ClearPending ==
    /\ actor = "clear"
    /\ answer' = Resolve(answer, Senders(pending), Closed)
    /\ pending' = NoPending
    /\ actor' = "drop"
    /\ UNCHANGED <<callerVars, outgoing, current, channel, errors, stdin, stdout, childVars>>

\* run() returns: the loops go with the receiver and the message in hand, and
\* kill_on_drop ends the child, whose exit closes its streams.
DropActor ==
    /\ actor = "drop"
    /\ answer' = Resolve(answer, Range(channel) \cup ({current} \ {NoCall}), Closed)
    /\ channel' = <<>>
    /\ current' = NoCall
    /\ actor' = "gone"
    /\ child' = "exited"
    /\ closed' = Streams
    /\ UNCHANGED <<callerVars, outgoing, pending, errors, stdin, stdout, received>>

Teardown == ReadStderr \/ ReportError \/ ClearPending \/ DropActor

-----------------------------------------------------------------------------
(* The child process (external): an MCP server, or any program. *)

ChildReads ==
    /\ "stdin" \notin closed
    /\ stdin # <<>>
    /\ received' = [received EXCEPT ![Head(stdin)] = @ + 1]
    /\ stdin' = Tail(stdin)
    /\ UNCHANGED <<callerVars, answer, actorVars, errors, stdout, child, closed>>

StdoutWritable == "stdout" \notin closed /\ Len(stdout) < StdoutCapacity

\* In any order, and possibly more than once.
ChildAnswers(c) ==
    /\ StdoutWritable
    /\ received[c] > 0
    /\ Kind[c] = "request"
    /\ stdout' = Append(stdout, Reply(c))
    /\ UNCHANGED <<callerVars, answer, actorVars, errors, stdin, childVars>>

ChildPrints ==
    /\ StdoutWritable
    /\ \E n \in Noise : stdout' = Append(stdout, Outcome(n, NoCall))
    /\ UNCHANGED <<callerVars, answer, actorVars, errors, stdin, childVars>>

ChildCloses(stream) ==
    /\ child = "running"
    /\ stream \notin closed
    /\ closed' = closed \cup {stream}
    /\ UNCHANGED <<callerVars, answer, actorVars, errors, stdin, stdout, received, child>>

ChildExits ==
    /\ child = "running"
    /\ child' = "exited"
    /\ closed' = Streams
    /\ UNCHANGED <<callerVars, answer, actorVars, errors, stdin, stdout, received>>

Child == ChildReads \/ (\E c \in Calls : ChildAnswers(c)) \/ ChildPrints
         \/ (\E s \in Closable : ChildCloses(s)) \/ ChildExits

-----------------------------------------------------------------------------

Caller(c) == Submit(c) \/ Enqueue(c) \/ EnqueueFails(c) \/ Return(c) \/ Cancel(c)

Next ==
    \/ \E c \in Calls : Caller(c)
    \/ DropHandle
    \/ Outgoing
    \/ Incoming
    \/ ProcessExited \/ Teardown \/ ReadStderrFails
    \/ Child

Spec == Init /\ [][Next]_vars

\* tokio polls every task that can go on, and select! every branch.  Nothing
\* makes a caller submit, a timeout fire or a child do anything.
Fairness ==
    /\ \A c \in Calls : WF_vars(Enqueue(c)) /\ WF_vars(EnqueueFails(c)) /\ WF_vars(Return(c))
    /\ WF_vars(Outgoing)
    /\ WF_vars(Incoming)
    /\ WF_vars(ProcessExited)
    /\ WF_vars(Teardown)

FairSpec == Spec /\ Fairness

\* A child that keeps reading its input and answers every request it read.
ResponsiveChild == WF_vars(ChildReads) /\ \A c \in Calls : SF_vars(ChildAnswers(c))

ResponsiveSpec == FairSpec /\ ResponsiveChild

-----------------------------------------------------------------------------
(* Safety *)

\* A caller that shares its id with no one only gets the peer's answer to its
\* own request: late, repeated and reordered replies and cancelled calls never
\* make respond (mod.rs:112) hand a reply to another caller.
NoCrossTalk == \A c, d \in Calls : OwnId(c) /\ result[c] = Reply(d) => c = d

\* While a request is in the child's hands its unresolved caller is filed under
\* its id, so that a reply can find it: insert (stdio.rs:135) comes before the
\* write (stdio.rs:140), and nothing but the reply or a clear takes it out.
NoLostReply ==
    \A c \in Calls :
        /\ Kind[c] = "request" /\ OwnId(c) /\ answer[c] = Unresolved
        /\ c \in Range(stdin) \/ received[c] > 0
        => pending[IdOf[c]] = c

\* When run() has returned no caller is left waiting on a oneshot whose sender
\* nobody drops: the table, the queue and the message in hand are all released
\* (stdio.rs:68-72), however many requests displaced one another in the table.
NobodyLeftWaiting ==
    actor = "gone" => \A c \in Calls : phase[c] = "waiting" => answer[c] # Unresolved

\* A caller told "channel closed" is not the first to hear of the end of the
\* process: the process error was delivered or could not be read, or writing to
\* the child failed.  This is what reporting the error before clearing the table
\* (stdio.rs:64-71) is for.
CauseReported ==
    \A c \in Calls :
        OwnId(c) /\ result[c] = Closed /\ Kind[c] # "anonymous"
        => outgoing = "ended" \/ errors \in {"taken", "unreadable"}

\* The table holds only callers that still wait or gave up: a call that
\* returned left no entry behind, under any id.
ReturnedLeavesNoEntry ==
    \A c \in Senders(pending) : phase[c] \in {"waiting", "cancelled"}

-----------------------------------------------------------------------------
(* Liveness *)

\* "Clean up regardless of which path we took" (stdio.rs:70): however the
\* select! is left, the pending requests are cleared.
CleanupFollows == actor = "stderr" ~> actor = "gone"

-----------------------------------------------------------------------------
(* The transport keeps the promise of RequestReply. *)

Promise == INSTANCE RequestReply
    WITH phase <- [c \in Calls |-> IF Active(c) THEN "active" ELSE phase[c]],
         delivered <- received

KeepsPromise == Promise!Spec

=============================================================================
