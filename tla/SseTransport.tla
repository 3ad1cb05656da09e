--------------------------- MODULE SseTransport ----------------------------
(***************************************************************************)
(* The SSE transport of mcp-client (transport/sse.rs): start, which polls  *)
(* for the POST endpoint, the callers of SseTransportHandle::send, and the *)
(* SseActor, one task that joins an incoming loop over the event stream    *)
(* and an outgoing loop that POSTs.  The web server is external.           *)
(*                                                                         *)
(* Neither loop ends the other.  What the POST returns is only logged, so  *)
(* a POST that fails and one whose success is not reported look the same   *)
(* to the transport.                                                       *)
(***************************************************************************)
EXTENDS Transport, Functions

CONSTANTS
    MaxAttempts,    \* polls of wait_for_endpoint (10 in the code)
    StreamCapacity, \* events the server can have sent and the actor not read
    Events          \* what the stream carries besides replies

\* "endpoint" names the POST URL, "bad" is an endpoint event with a URL that
\* does not resolve, "error" is an error of the stream (it may go on after one),
\* "other" is any event or message the actor skips.
ASSUME SseAssumption ==
    /\ MaxAttempts \in Nat
    /\ StreamCapacity \in Nat \ {0}
    /\ Events \subseteq {"endpoint", "bad", "error", "other"}

VARIABLES
    phase, answer, result,  \* the callers, as in StdioTransport
    handle,     \* whether start has returned a handle and one is left
    attempts,   \* polls start has made
    endpoint,   \* whether post_endpoint is set
    incoming,   \* where handle_incoming_messages is
    outgoing,   \* where handle_outgoing_messages is
    current,    \* the message the outgoing loop holds
    channel,    \* the mpsc channel to the actor
    pending,    \* PendingRequests
    stream,     \* events the server sent
    streamOver, \* whether the server ended the stream
    received    \* received[c]: how often the server got the message of c

callerVars == <<phase, result>>
startVars == <<handle, attempts>>
serverVars == <<streamOver, received>>
vars == <<callerVars, answer, startVars, endpoint, incoming, outgoing, current, channel,
          pending, stream, serverVars>>

Items == {Reply(d) : d \in Calls} \cup {Outcome(n, NoCall) : n \in Events}

Typed ==
    /\ phase \in [Calls -> {"idle", "sending", "waiting", "done", "cancelled"}]
    /\ answer \in [Calls -> Outcomes]
    /\ result \in [Calls -> Outcomes]
    /\ handle \in {"starting", "open", "dropped"}
    /\ attempts \in 0..MaxAttempts
    /\ endpoint \in BOOLEAN
    /\ incoming \in {"connect", "first", "second", "ended"}
    /\ outgoing \in {"recv", "insert", "post", "ended"}
    /\ current \in Calls \cup {NoCall}
    /\ channel \in Seq(Calls)
    /\ pending \in [Ids -> Calls \cup {NoCall}]
    /\ stream \in Seq(Items)
    /\ streamOver \in BOOLEAN
    /\ received \in [Calls -> Nat]

\* An entry of the table is the sender of a request under its own id, and nothing
\* has been sent through it: respond and clear take out what they resolve, insert
\* replaces what it drops (mod.rs:104-123).
Usable(i) ==
    pending[i] # NoCall =>
        /\ Kind[pending[i]] = "request"
        /\ IdOf[pending[i]] = i
        /\ answer[pending[i]] = Unresolved

\* The types, and what the table may hold, through both loops and a panic.
TypeOK == Typed /\ \A i \in Ids : Usable(i)

\* start has spawned the actor and begins to poll.
Init ==
    /\ phase = [c \in Calls |-> "idle"]
    /\ answer = [c \in Calls |-> Unresolved]
    /\ result = [c \in Calls |-> Unresolved]
    /\ handle = "starting"
    /\ attempts = 0
    /\ endpoint = FALSE
    /\ incoming = "connect"
    /\ outgoing = "recv"
    /\ current = NoCall
    /\ channel = <<>>
    /\ pending = NoPending
    /\ stream = <<>>
    /\ streamOver = FALSE
    /\ received = [c \in Calls |-> 0]

-----------------------------------------------------------------------------
(* SseTransport::start and wait_for_endpoint. *)

PollAgain ==
    /\ handle = "starting"
    /\ ~endpoint
    /\ attempts < MaxAttempts
    /\ attempts' = attempts + 1
    /\ UNCHANGED <<callerVars, answer, handle, endpoint, incoming, outgoing, current, channel,
                   pending, stream, serverVars>>

\* The result of wait_for_endpoint is matched by Ok(_), an Err in it included.
StartReturns ==
    /\ handle = "starting"
    /\ endpoint \/ attempts = MaxAttempts
    /\ handle' = "open"
    /\ UNCHANGED <<callerVars, answer, attempts, endpoint, incoming, outgoing, current, channel,
                   pending, stream, serverVars>>

\* The timeout around the polls, which drops the only sender.
StartTimesOut ==
    /\ handle = "starting"
    /\ handle' = "dropped"
    /\ UNCHANGED <<callerVars, answer, attempts, endpoint, incoming, outgoing, current, channel,
                   pending, stream, serverVars>>

-----------------------------------------------------------------------------
(* The callers: SseTransportHandle::send and send_message. *)

Active(c) == phase[c] \in {"sending", "waiting"}

Submit(c) ==
    /\ handle = "open"
    /\ phase[c] = "idle"
    /\ IF Kind[c] = "other"
       THEN /\ phase' = [phase EXCEPT ![c] = "waiting"]
            /\ answer' = [answer EXCEPT ![c] = Unsupported]
       ELSE /\ phase' = [phase EXCEPT ![c] = "sending"]
            /\ UNCHANGED answer
    /\ UNCHANGED <<result, startVars, endpoint, incoming, outgoing, current, channel, pending,
                   stream, serverVars>>

Enqueue(c) ==
    /\ phase[c] = "sending"
    /\ outgoing # "ended"
    /\ Len(channel) < Capacity
    /\ channel' = Append(channel, c)
    /\ phase' = [phase EXCEPT ![c] = "waiting"]
    /\ answer' = IF Kind[c] = "notification" THEN [answer EXCEPT ![c] = Nil] ELSE answer
    /\ UNCHANGED <<result, startVars, endpoint, incoming, outgoing, current, pending, stream,
                   serverVars>>

EnqueueFails(c) ==
    /\ phase[c] = "sending"
    /\ outgoing = "ended"
    /\ phase' = [phase EXCEPT ![c] = "waiting"]
    /\ answer' = [answer EXCEPT ![c] = Closed]
    /\ UNCHANGED <<result, startVars, endpoint, incoming, outgoing, current, channel, pending,
                   stream, serverVars>>

Return(c) ==
    /\ phase[c] = "waiting"
    /\ answer[c] # Unresolved
    /\ phase' = [phase EXCEPT ![c] = "done"]
    /\ result' = [result EXCEPT ![c] = answer[c]]
    /\ UNCHANGED <<answer, startVars, endpoint, incoming, outgoing, current, channel, pending,
                   stream, serverVars>>

Cancel(c) ==
    /\ Active(c)
    /\ phase' = [phase EXCEPT ![c] = "cancelled"]
    /\ UNCHANGED <<answer, result, startVars, endpoint, incoming, outgoing, current, channel,
                   pending, stream, serverVars>>

DropHandle ==
    /\ handle = "open"
    /\ \A c \in Calls : ~Active(c)
    /\ handle' = "dropped"
    /\ UNCHANGED <<callerVars, answer, attempts, endpoint, incoming, outgoing, current, channel,
                   pending, stream, serverVars>>

-----------------------------------------------------------------------------
(* SseActor::handle_outgoing_messages. *)

\* Fault: the sender is never filed.
OutgoingRecvSkipsInsert ==
    /\ outgoing = "recv"
    /\ channel # <<>>
    /\ endpoint
    /\ channel' = Tail(channel)
    /\ current' = Head(channel)
    /\ outgoing' = "post"
    /\ UNCHANGED <<callerVars, answer, startVars, endpoint, incoming, pending, stream,
                   serverVars>>

\* Fault: the loop does not go on to the next message after a refusal.
OutgoingRecvForgetsContinue ==
    /\ outgoing = "recv"
    /\ channel # <<>>
    /\ channel' = Tail(channel)
    /\ current' = Head(channel)
    /\ outgoing' = "insert"
    /\ answer' = IF endpoint THEN answer ELSE Resolve(answer, {Head(channel)}, NotConnected)
    /\ UNCHANGED <<callerVars, startVars, endpoint, incoming, pending, stream, serverVars>>

\* A message that finds no endpoint is refused, and its sender told so.
OutgoingRecv ==
    /\ outgoing = "recv"
    /\ channel # <<>>
    /\ channel' = Tail(channel)
    /\ IF endpoint
       THEN /\ current' = Head(channel)
            /\ outgoing' = "insert"
            /\ UNCHANGED answer
       ELSE /\ answer' = Resolve(answer, {Head(channel)}, NotConnected)
            /\ UNCHANGED <<current, outgoing>>
    /\ UNCHANGED <<callerVars, startVars, endpoint, incoming, pending, stream, serverVars>>

\* recv() is None: the loop clears the table and returns.
OutgoingRecvNone ==
    /\ outgoing = "recv"
    /\ channel = <<>>
    /\ handle = "dropped"
    /\ outgoing' = "ended"
    /\ answer' = Resolve(answer, Senders(pending), Closed)
    /\ pending' = NoPending
    /\ UNCHANGED <<callerVars, startVars, endpoint, incoming, current, channel, stream,
                   serverVars>>

OutgoingInsert ==
    /\ outgoing = "insert"
    /\ outgoing' = "post"
    /\ pending' = IF Kind[current] = "request" THEN InsertPending(pending, current) ELSE pending
    /\ answer' = Resolve(answer, IF Kind[current] = "request"
                                 THEN Displaced(pending, current) ELSE {current}, Closed)
    /\ UNCHANGED <<callerVars, startVars, endpoint, incoming, current, channel, stream,
                   serverVars>>

\* Fault: the POST is tried again whatever came of it.
PostedAgain ==
    /\ outgoing = "post"
    /\ UNCHANGED <<callerVars, answer, startVars, endpoint, incoming, outgoing, current, channel,
                   pending, stream, streamOver>>

Posted ==
    /\ outgoing = "post"
    /\ outgoing' = "recv"
    /\ current' = NoCall
    /\ UNCHANGED <<callerVars, answer, startVars, endpoint, incoming, channel, pending, stream,
                   streamOver>>

\* The POST reached the server, whatever its response says.
PostDelivered == Posted /\ received' = [received EXCEPT ![current] = @ + 1]

\* The POST was refused or failed on its way: a warning, and the next message.
PostLost == Posted /\ UNCHANGED received

-----------------------------------------------------------------------------
(* SseActor::handle_incoming_messages. *)

StreamEnds == stream = <<>> /\ streamOver
NextIs(tags) == stream # <<>> /\ Head(stream).tag \in tags

Connect ==
    /\ incoming = "connect"
    /\ incoming' = "first"
    /\ UNCHANGED <<callerVars, answer, startVars, endpoint, outgoing, current, channel, pending,
                   stream, serverVars>>

\* The loop gives up: a URL no client can be built for, or an error or the end
\* of the stream in the second loop.
IncomingEnds ==
    /\ \/ incoming = "connect" /\ UNCHANGED stream
       \/ incoming = "second" /\ StreamEnds /\ UNCHANGED stream
       \/ incoming = "second" /\ NextIs({"error"}) /\ stream' = Tail(stream)
    /\ incoming' = "ended"
    /\ answer' = Resolve(answer, Senders(pending), Closed)
    /\ pending' = NoPending
    /\ UNCHANGED <<callerVars, startVars, endpoint, outgoing, current, channel, serverVars>>

EndpointEvent ==
    /\ incoming = "first"
    /\ NextIs({"endpoint"})
    /\ endpoint' = TRUE
    /\ incoming' = "second"
    /\ stream' = Tail(stream)
    /\ UNCHANGED <<callerVars, answer, startVars, outgoing, current, channel, pending,
                   serverVars>>

\* The first loop ends on an error too, and the second goes on with the stream.
FirstLoopFails ==
    /\ incoming = "first"
    /\ \/ StreamEnds /\ UNCHANGED stream
       \/ NextIs({"error"}) /\ stream' = Tail(stream)
    /\ incoming' = "second"
    /\ UNCHANGED <<callerVars, answer, startVars, endpoint, outgoing, current, channel, pending,
                   serverVars>>

\* expect() panics: both loops, the table and the channel go with the task.
BadEndpointPanics ==
    /\ incoming = "first"
    /\ NextIs({"bad"})
    /\ stream' = Tail(stream)
    /\ incoming' = "ended"
    /\ outgoing' = "ended"
    /\ answer' = Resolve(answer, Senders(pending) \cup Range(channel) \cup ({current} \ {NoCall}), Closed)
    /\ pending' = NoPending
    /\ channel' = <<>>
    /\ current' = NoCall
    /\ UNCHANGED <<callerVars, startVars, endpoint, serverVars>>

\* Fault: a reply goes to any caller in the table.
ReplyEventInOrder ==
    /\ incoming = "second"
    /\ NextIs({"reply"})
    /\ \E id \in Ids : /\ answer' = Resolve(answer, {pending[id]}, Head(stream))
                       /\ pending' = RemovePending(pending, id)
    /\ stream' = Tail(stream)
    /\ UNCHANGED <<callerVars, startVars, endpoint, incoming, outgoing, current, channel,
                   serverVars>>

ReplyEvent ==
    /\ incoming = "second"
    /\ NextIs({"reply"})
    /\ LET id == IdOf[Head(stream).to]
       IN  /\ answer' = Resolve(answer, {pending[id]}, Head(stream))
           /\ pending' = RemovePending(pending, id)
    /\ stream' = Tail(stream)
    /\ UNCHANGED <<callerVars, startVars, endpoint, incoming, outgoing, current, channel,
                   serverVars>>

\* The first loop skips messages, the second one endpoint events.
SkippedEvent ==
    /\ \/ incoming = "first" /\ NextIs({"reply", "other"})
       \/ incoming = "second" /\ NextIs({"endpoint", "bad", "other"})
    /\ stream' = Tail(stream)
    /\ UNCHANGED <<callerVars, answer, startVars, endpoint, incoming, outgoing, current, channel,
                   pending, serverVars>>

Incoming == Connect \/ IncomingEnds \/ EndpointEvent \/ FirstLoopFails \/ BadEndpointPanics
            \/ ReplyEvent \/ SkippedEvent

-----------------------------------------------------------------------------
(* The web server (external). *)

StreamWritable == ~streamOver /\ Len(stream) < StreamCapacity

ServerAnswers(c) ==
    /\ StreamWritable
    /\ received[c] > 0
    /\ Kind[c] = "request"
    /\ stream' = Append(stream, Reply(c))
    /\ UNCHANGED <<callerVars, answer, startVars, endpoint, incoming, outgoing, current, channel,
                   pending, serverVars>>

ServerSends(event) ==
    /\ StreamWritable
    /\ stream' = Append(stream, Outcome(event, NoCall))
    /\ UNCHANGED <<callerVars, answer, startVars, endpoint, incoming, outgoing, current, channel,
                   pending, serverVars>>

ServerEndsStream ==
    /\ ~streamOver
    /\ streamOver' = TRUE
    /\ UNCHANGED <<callerVars, answer, startVars, endpoint, incoming, outgoing, current, channel,
                   pending, stream, received>>

-----------------------------------------------------------------------------

Start == PollAgain \/ StartReturns \/ StartTimesOut
Caller(c) == Submit(c) \/ Enqueue(c) \/ EnqueueFails(c) \/ Return(c) \/ Cancel(c)
Outgoing == OutgoingRecv \/ OutgoingRecvNone \/ OutgoingInsert \/ PostDelivered \/ PostLost
Server == (\E c \in Calls : ServerAnswers(c)) \/ (\E e \in Events : ServerSends(e)) \/ ServerEndsStream

Next ==
    \/ Start
    \/ \E c \in Calls : Caller(c)
    \/ DropHandle
    \/ Outgoing
    \/ Incoming
    \/ Server

Spec == Init /\ [][Next]_vars

\* tokio polls start, the callers and both branches of join!.  A POST has no
\* timeout of its own: that it ends at all is up to the server.
Fairness ==
    /\ WF_vars(Start)
    /\ \A c \in Calls : WF_vars(Enqueue(c)) /\ WF_vars(EnqueueFails(c)) /\ WF_vars(Return(c))
    /\ WF_vars(Outgoing)
    /\ WF_vars(Incoming)

FairSpec == Spec /\ Fairness /\ \A c \in Calls : SF_vars(ServerAnswers(c))

-----------------------------------------------------------------------------
(* Safety *)

\* As for stdio: only the reply to its own request, for a caller with its own id.
NoCrossTalk == \A c, d \in Calls : OwnId(c) /\ result[c] = Reply(d) => c = d

\* A request the server has got, or that is being POSTed, is filed under its id as
\* long as its caller is unresolved (sse.rs:182 comes before the POST); also when
\* one of the loops has ended and cleared the table.
NoLostReply ==
    \A c \in Calls :
        /\ Kind[c] = "request" /\ OwnId(c) /\ answer[c] = Unresolved
        /\ received[c] > 0 \/ (c = current /\ outgoing = "post")
        => pending[IdOf[c]] = c

\* A caller told "not connected" can safely send again: the server never gets
\* that message (sse.rs:156-164).
NotConnectedIsFinal == \A c \in Calls : result[c] = NotConnected => received[c] = 0

\* "Wait for the endpoint to be discovered before returning the handle"
\* (sse.rs:292).
HandleHasEndpoint == handle = "open" => endpoint

-----------------------------------------------------------------------------
(* Liveness *)

\* The POST of c never reached the server, and its caller waits.
Lost(c) == pending[IdOf[c]] = c /\ c # current /\ received[c] = 0

\* c was filed, or stayed so, when nobody read the stream any more (sse.rs:143).
Unheard(c) == pending[IdOf[c]] = c /\ incoming = "ended"

\* With a server that answers what it gets and takes every POST, every call ends
\* unless its POST was lost or nobody reads the stream: not only is the table
\* cleared at an end of the stream, a panic releases the channel and the message in
\* hand as well.
EveryCallEnds == \A c \in Calls : Active(c) ~> ~Active(c) \/ Lost(c) \/ Unheard(c)

-----------------------------------------------------------------------------
(* The transport keeps the promise of RequestReply. *)

Promise == INSTANCE RequestReply
    WITH phase <- [c \in Calls |-> IF Active(c) THEN "active" ELSE phase[c]],
         delivered <- received

KeepsPromise == Promise!Spec

=============================================================================
