# A verification of MCPSKELETOR

MCPSKELETOR is a Rust implementation of the Model Context Protocol: JSON-RPC
requests and notifications between a client and a server, over the pipes of a
child process (stdio), over server-sent events with HTTP POSTs (SSE), or between
peers (p2p). This directory holds TLA+ models of it, the TLC configurations that
check them on small instances, and proofs that TLAPS checks for instances of any
size. Everything is translated from the code under `src/crates`; where code and
comments disagree the models follow the code, and [Disagreements](#disagreements)
says so.

To check a run: `tlc -workers 2 -config StdioSafety.cfg MCStdioTransport.tla`; to
check the proofs: `tlapm StdioTransportProofs.tla`, and so on with
`SseTransportProofs`, `McpClientProofs`, `McpServerProofs`, `McpRouterProofs`,
`SessionProofs`, `P2pProofs` and `QueueFacts`. `PROJECT.json` lists the runs, the
theorems, the source lines each definition stands for, the hazards, and for each
property a plausible bug that breaks it.

## The system

```
 application tasks                                                another process
 ┌────────────┐  mutex  ┌────────────┐ timeout ┌─────────────────┐
 │ operations │────────▶│ McpService │────────▶│ TransportHandle │
 │ (McpClient)│         └────────────┘         └───────┬─────────┘
 └────────────┘                       mpsc channel(32) │ ▲ error channel(1)
                                                       ▼ │          stdin/POST
                                     ┌──────────────────────────┐  ┌───────────┐
                   oneshot ◀──────── │ actor: outgoing loop ────┼─▶│ McpServer │
                             respond │        incoming loop ◀───┼──│  Router   │
                                     │   PendingRequests table  │  └───────────┘
                                     └──────────────────────────┘   stdout/SSE
```

| Component | State it keeps | Operations | What is hard about it |
|---|---|---|---|
| **stdio transport** `mcp-client/src/transport/{mod,stdio}.rs` | channel, `PendingRequests`, error channel, loop and teardown positions, the child | `send`, the outgoing and the incoming loop, the three branches of `select!`, the teardown, drop of the handle | which branch ends the `select!`, what it leaves in the channel, the table and the hands of a loop; late, repeated and reordered replies; futures dropped at an await |
| **SSE transport** `mcp-client/src/transport/{mod,sse}.rs` | endpoint, channel, `PendingRequests`, the event stream | `start` and its polls, `send`, two loops under `join!` | one loop ends and the other goes on; an endpoint that comes late, never or malformed; a lost POST |
| **client and service** `mcp-client/src/{client,service}.rs` | mutex, id counter, server capabilities | `initialize` and the six operations, `send_request`, `send_notification`, timeout | the reply is compared with the counter's present value; a handshake of two calls that can fail between them; timeouts and dropped futures at every await |
| **server loop** `mcp-server/src/lib.rs` | `BufReader`, the line being read, the request in service | `poll_next`, `Server::run`, write | a line that is not complete when the input has no more; the input ends or breaks anywhere; writes fail |
| **router** `mcp-server/src/{router,errors}.rs` | none of its own (handlers of the application) | dispatch by method, `prompts/get` with its checks and substitution | order of checks, limits, substitution that feeds on itself |
| **p2p manager** `mcp-transport-p2p/src/{lib,config}.rs`, `transport/` | `pending_requests` behind a lock, a swarm behind a lock in each transport | `send_content`, `send_resource`, fallback, `start`, `shutdown` | a limit checked under one lock and counted under another; a counter across dropped futures; one message through two transports |
| **p2p protocol handler** `mcp-transport-p2p/src/protocol/handler.rs` | `seen_messages`, `peer_states`, `resource_cache`, `pending_requests`, a lock each | messages by gossip, directly, as request or response; broadcast, registration, two clean-ups | guards kept over awaits, two of them taken in two orders; deduplication against a clean-up, and before a message is handled |
| **mcp-core** | plain data | constructors, `TryFrom` of messages (`protocol.rs`) | serialisation forgets the variant of a message, and what the other side guesses decides who answers it |
| **mcp-macros**, **examples** | none | code generation, demonstrations | |

### How the components interact

* A caller of `TransportHandle::send` puts its message and, for a request, a
  oneshot sender into a bounded mpsc channel. The actor's outgoing loop takes it,
  files the sender in `PendingRequests` under the id and writes the line (or POSTs
  the body). The incoming loop reads replies and hands each to the sender filed
  under its id.
* Dropping a oneshot sender, wherever it is, is how a caller learns that no reply
  will come (`ChannelClosed`). The stdio actor also reports the end of the process
  in a separate error channel, which every `send` reads before it returns.
* `McpClient` holds a mutex over each call, wraps the call in tower's timeout and
  checks the id of the reply. `initialize` takes the mutex twice, for its request
  and for the notification that follows.
* The server reads one line at a time, passes a request to the service and writes
  the response before it reads on. A line it cannot understand is answered by an
  error without an id, which the client's transports skip. At the end of its input
  `run` returns, the program ends, and that ends the client's actor.
* The p2p handler is shared by the tasks that receive messages. Each method awaits
  one lock after the other and mostly drops a guard before the next await; the three
  exceptions are what its ordering and its deadlock come from.

### What makes each component correct

* Transports: a reply goes to the caller whose id it carries or to nobody; a
  request in the peer's hands can be found by its reply; a call ends, with an
  error if need be, when the peer goes away; nobody waits on a sender that nobody
  will use or drop; the cause of the end is told before its consequence; a message
  reaches the peer at most once.
* Client: the id check accepts the reply of the pending request; one request is
  in flight at a time; no operation overtakes the handshake, and `initialized`
  means that a whole handshake took place; every operation ends.
* Server: answers come in the order of the requests, at most one per line, none
  forgotten; the end of the input ends the server.
* Router: a request gets to at most one handler, with the parameters the handler
  needs; a prompt is filled in only when every check holds, and as if all its arguments
  were put in at once.
* mcp-core: nothing but a request with an id is served, and nothing but an answer with
  an id reaches a caller.
* p2p manager: the counter is the send in progress and the dropped ones, so only these
  can use up the limit; a message goes out once, and not at all if the send fails;
  every send ends.
* A session of client and server: every call is settled and leaves nothing in the
  table; dropping the handle ends both programs.
* p2p handler: a message is handled once while it is remembered, and a copy is turned
  away only when that is over; the later of two messages about a resource prevails; the
  locks are taken in one order.

## The modules

`Transport` has the vocabulary of the transports: calls, their kinds and ids,
outcomes, the table. `RequestReply` is the **abstract specification** of `send`: a
message is delivered at most once, and a call returns an error, nil (for a
notification), or the reply to a delivered request with its id. `StdioTransport`
and `SseTransport` implement it (`KeepsPromise`, with `delivered` mapped to what
the peer received), and `McpClient` uses it: it EXTENDS `RequestReply` and composes
the client's steps with the abstract transport's. So what is shown of the client
rests on either transport only by what is shown of that transport.

| Module | Models | State and actions |
|---|---|---|
| `Transport` | `transport/mod.rs` | `InsertPending`, `RemovePending`, `Resolve` for `insert`, `respond`, `clear` |
| `RequestReply` | promise of `TransportHandle::send` | `Start`, `Deliver`, `Return`, `Cancel` |
| `StdioTransport` | `stdio.rs` | callers `Submit`, `Enqueue`, `EnqueueFails`, `Return`, `Cancel`, `DropHandle`; loops `OutgoingRecv…OutgoingFails`, `IncomingReply`, `IncomingSkip`, `IncomingEnds`; `ProcessExited`; teardown `ReadStderr`, `ReportError`, `ClearPending`, `DropActor`; child (external) |
| `SseTransport` | `sse.rs` | `PollAgain`, `StartReturns`, `StartTimesOut`; callers; `OutgoingRecv`, `OutgoingInsert`, `PostDelivered`, `PostLost`; `Connect`, `EndpointEvent`, `FirstLoopFails`, `BadEndpointPanics`, `ReplyEvent`, `SkippedEvent`, `IncomingEnds`; web server (external) |
| `McpClient` | `client.rs`, `service.rs` | `Begin` (gates), `SendRequest`, `ReceiveReply`, `SendNotification`, `NotificationSent`, `TimesOut`, `Abort` |
| `McpServer` | `mcp-server/src/lib.rs` | `FillBuffer`, `PollPending`, `TakeLine`, `TakePart`, `TakeLastPart`, `Finish`, `ReadFails`, `ServiceAnswers`, `WriteMessage`, `WriteFails`; peer (external) |
| `McpRouter` | `mcp-server/src/router.rs` | `Call`, `ToolReturns`, `ResourceReturns`, `PromptReturns`, `PromptFails`; `MissingRequired`, `Unfit`, `FillIn` for the checks and the substitution |
| `P2pHandler` | `protocol/handler.rs` | `Begin`, `Dedup`, `UpdatePeer`, `TakePending`, `Store`, `Lookup`; `BroadcastInsert`, `BroadcastToPeers`; `RemoveStale`, `Sweep` (`clean_stale_peers`); `RegisterPeer`, `UnregisterPeer`, `CleanupPeers`; `DropCall`; `RequestSent`, `Tick` (external) |
| `P2pManager` | `mcp-transport-p2p/src/lib.rs`, what it uses of `config.rs` and `transport/` | `Send`, `Check` (limit), `Enter` (lock and count), `Publish`, `PublishFails`, `Leave`; `Cancel`; `StartNext`, `StartEnds`; `Shutdown` |
| `JsonRpc` | `mcp-core/src/protocol.rs` | operators only: `Encode`, `Decode` on the fields of a message, `Served`, `Placed` |
| `Session` | `stdio.rs` and `mcp-server/src/lib.rs` over two pipes | the actions of `StdioTransport` and `McpServer`; `WriteLine`, `WriteFirstChunk`, `WriteRest`, `ServerWrites` join one of each; `ProcessExits` |
| `QueueFacts` | | lemmas on the queues the models use |
| `StdioTransportProofs`, `SseTransportProofs`, `McpClientProofs`, `McpServerProofs`, `McpRouterProofs` | | theorems on the component they are named for |
| `P2pProofs` | | theorems on `P2pHandler` and `P2pManager` |
| `SessionProofs` | | theorems on `JsonRpc` and `Session` |

`ServiceAnswers` of `McpServer` stands for all that `McpRouter` does with a request:
whatever that is, it ends in one response with the request's id, which is all the
server loop depends on.

`Session` has one set of variables and INSTANCEs both components over them:
`McpServer` with its pipe, `StdioTransport` with its stdin, the messages read and
the closed streams as state functions (`Unread`, `Read`, `child`; a line counts as read
when the server has taken the last piece of it, `LinesTaken`). Its actions are
conjunctions of theirs, so that the child, which `StdioTransport` alone lets do
almost anything, here is the server, and the peer of `McpServer`, which may write what
it likes, is the transport. `ServerIsAChild`, that every step of the session is a
step of `StdioTransport` or a stutter, carries everything proved of the transport over
to the session, and `TransportIsAPeer`, the same of `McpServer`, what is proved of the
server. What the lines of one side mean to the other comes from `JsonRpc`.
Chunks are kept: a long line is written in two, and a poll in between loses the
first one (see [Disagreements](#disagreements)).

In `P2pManager` the guard of `state.write()` lives as long as the send, so `sending`
is the lock and the send in progress at once. The check of the limit takes the lock
for reading and gives it back before the send asks for it again. `is_connected` of
both transports is always true and `peers` is never filled (nobody drives the swarms),
so neither stops a send.

Conventions. One action is what a task does between two await points, so the
interleavings of the model are those of the executor. The two loops of the stdio
actor are polled by one `select!`: when a branch completes the others stop where
they are, and what they own is dropped only when `run` returns; that is why
`outgoing`, `current` and `channel` keep their values while `actor` goes through
the teardown. Names, parameters and payloads are left out, and a message is the
call that sent it; what a line on a pipe *is* (a reply, something to skip,
something that ends the loop) is kept. In `P2pHandler` an action is what a call does from
one lock to the next. `held` says which call keeps which guard over an await:
`handle_gossipsub` the seen messages until it ends, `clean_stale_peers` the peers while
it waits for the seen messages, `broadcast_resource` the cache while it waits for the
peers; every other guard is gone when its action is over. Gossip updates the peer
twice, once for itself and once in `process_message` (or `process_protocol_message`).
Definitions marked *Fault* are not part of a specification: each is a plausible bug in the definition after it, kept beside it
so that one can see which property notices.

## The runs

| Run | Instance | Shows |
|---|---|---|
| `stdio_safety` | 3 requests, 2 of them with one id; channel and stdout of 1; noise and garbled lines; stdout may close early | `TypeOK` (with it: the cleared table stays empty), `NoCrossTalk`, `NoLostReply`, `NobodyLeftWaiting`, `CauseReported`, `ReturnedLeavesNoEntry`, and that the transport implements `RequestReply` |
| `stdio_cleanup` | a request, a notification, a garbled line | **violated**: `CleanupFollows` |
| `sse` | 2 requests, every kind of event, lost POSTs, an end anywhere | `TypeOK` (with it: what the table may hold), `NoCrossTalk`, `NoLostReply`, `NotConnectedIsFinal`, that the transport implements `RequestReply`, `EveryCallEnds` |
| `sse_start` | 1 request | **violated**: `HandleHasEndpoint` |
| `client` | 2 handshakes, 2 operations, 4 ids | `ClientTypeOK`, `IdCheckNeverRejects`, `OneInFlight`, `HandshakeFirst`, `InitializedMeansHandshake`, `EveryOpEnds` |
| `server` | 5 lines: 2 requests, a long request, a skipped and a malformed line | `TypeOK`, `AnswersInOrder`, `WholeRequestsAnswered`, `AnswerComes`, `ServerEnds` |
| `server_chunks` | 3 lines | **violated**: `BufferedAcrossPolls` |
| `router` | every method with and without parameters; `prompts/get` with every list of up to 2 arguments, 6 descriptions | `RouterTypeOK`, `FilledAtOnce`, `CheckedInOrder` |
| `p2p` | 3 gossip messages about a resource, 2 of them with one id, which may be dropped; a response with the resource asked for; a broadcast, a query, a clean-up; peers come and go | `P2pTypeOK` with the guards, `OncePerTtl`, `StoredInOrder`, `DuplicatesWereHandled`, `OnlyCleanupDeadlocks` |
| `p2p_cleanup` | a gossip message, a clean-up | **violated**: `CleanupEnds` |
| `p2p_manager` | 4 sends, both transports, a limit of 2; start and shutdown at any time | `ManagerTypeOK`, `CountIsExact`, `PublishedOnce`, `RefusedByLeaks`, `SendsEnd` |
| `session` | a request in two chunks, a request with a null result, a request without id; a pipe of two pieces, stdout of 1 line, a server that may crash | `ServerIsAChild`, `CallsAreSettled`, `ShutdownCompletes` |

Why these bounds are enough to be interesting:

* *Calls.* Two requests with one id displace one another in the table; a third
  with an id of its own is the bystander that must not notice. For safety
  properties, here and below, no bound matters in the end: they are proved for any.
* *Capacity, StdoutCapacity, StreamCapacity* = 1 (32 messages and a 64 KiB pipe in
  reality): a full channel with callers queued behind it, and a message in the hands
  of the loop while another is in the channel, already happen.
* *MaxAttempts* = 1 of 10 polls: the polls differ only in number.
* *MaxRequests* = 4 bounds the id counter so that every operation can make its
  request, a handshake two calls, and timeouts leave calls behind. `EveryOpEnds`
  names the bound, since an operation without an id left does not go on.
* *MaxErrors* = 1 bounds the error lines an input that stays broken would make the
  server write for ever. Each message of the server's peer is sent once.
* *Chunked* are the messages that may reach the reader in two chunks: lines longer
  than the pipe or the segment that carries them. What is promised of the others is
  checked while one of these is being torn apart between them.
* *Texts* of the router are sequences of tokens: letters, the two braces, a slash. Keys
  and values are empty, at their limit (*MaxArgument* = 3 of 1000), beyond it, unsafe,
  not strings, a placeholder of another argument or a half of one; descriptions hold
  both placeholders, one twice, one inside another, halves of one, or are one token
  beyond *MaxDescription* = 9 (of 10000) while what is filled in is within it. Both
  orders of two arguments occur, so it does not matter which one the map has.
* *MaxPending* = 2 of 100 with 4 sends: two can be dropped, which uses up the limit, and
  others are refused or waiting for the lock meanwhile; after a shutdown all starts again.
* *PipeCapacity* = 2 pieces, that is one line, or the second half of one and a line
  behind it, so that the server finds parts of two lines in its buffer; with one piece
  it never does. *StdoutCapacity* = 1 is what makes a server wait that has an answer to
  write. Each of the three exceptions in `CallsAreSettled`, and the one in
  `ShutdownCompletes`, happens in this instance: without any of them TLC refutes
  the property.
* `CHECK_DEADLOCK FALSE` everywhere: calls end, the actor returns, the server ends,
  and then nothing is left to do.
* *Ttl*, *PeerTimeout*, *MaxTime* = 1 (300 s, an argument, no bound): an id can be
  remembered, forgotten and accepted anew, a peer go stale, and a clean-up wait for a
  lock while the clock ticks. *Droppable* are the two gossip messages with one id:
  dropping one lets go of the lock that orders the others, and leaves an id marked that
  nobody handles.
* `stdio_safety` uses the symmetry of the two requests that share an id, which is
  the id of neither, `p2p` that of the two gossip messages with equal arguments; they
  check no liveness.

## Fairness

Weak fairness is given to what tokio polls: the callers' own steps
(`Enqueue`, `EnqueueFails`, `Return`), the loops, the branches of `select!` and
`join!`, the teardown, the endpoint polls, the server's loop. It is *not* given to
submitting a call, to dropping a future or a handle, to a child or a peer doing
anything, nor to `read_to_end` failing. Where a property needs more, the
specification says what:

* `ResponsiveSpec` (`stdio_cleanup`): a child that reads its input (weak) and answers
  every request it has read (strong, since its stdout is full again and again); the
  violation does not come from an idle child.
* `FairSpec` of the session: both programs are polled, the service returns, and the
  process exits when `run` has returned (`counter_server.rs:35`). A crash, an
  incomplete line found by a poll and the drop of the handle may happen, and need not.
* `FairSpec` of the manager: each send gets the lock, as for the p2p handler below, and
  `start` ends, since it waits for nothing while it holds a swarm.
* `FairSpec` of SSE: the server answers what it got, and a POST ends. The code has no
  timeout on a POST, so the last is an assumption about the server.
* `ClientFairness`: tokio's mutex wakes the head of its queue, and the timer of a
  call elapses. Nothing makes the transport answer: `EveryOpEnds` rests on the
  timeout alone.
* `FairSpec` of the p2p handler: tokio's `RwLock` queues its waiters and serves them in
  turn, so a call gets a lock that is free again and again (strong fairness of each
  call). `p2p_cleanup` is violated in spite of it.
* `Fairness` of the server: handlers return and the output takes what is written.

`EveryCallEnds` of SSE excludes a call whose POST was lost (`Lost`) and one that is
filed when nobody reads the stream any more (`Unheard`); after a panic of the actor,
which releases everything, it makes no exception.
`CallsAreSettled` needs no assumption about a child, as the child is the server, and
excludes three cases for as long as the process runs: a request that was torn, of which
the client ignores the error (`Mangled`); a null result, which arrives as no message
(`Illegible`); and the clogged shutdown described below (`Clogged`). When the process
has exited every call ends without exception.

## What is proved

From the assumptions on the constants only (`TransportAssumption`, `StdioAssumption`,
`SseAssumption`, `ClientAssumption`, `ServerAssumption`, `RouterAssumption`,
`SessionAssumption`, `HandlerAssumption`, `ManagerAssumption`: ids, kinds, texts and
arguments arbitrary, capacities positive, times natural), for any sets of calls,
operations, messages and requests, finite or not. Every safety property that a passing
run checks is stated by a theorem:

* **StdioTransportProofs.** `TypeCorrect`, `RepliesGoToTheirCallers` (`NoCrossTalk`),
  `RepliesFindTheirCallers` (`NoLostReply`), `NoCallerIsStranded`
  (`NobodyLeftWaiting`), `ProcessErrorComesFirst` (`CauseReported`),
  `ReturnedCallsAreForgotten` (`ReturnedLeavesNoEntry`), and
  `TransportKeepsPromise`: every step of the transport is a step of `RequestReply` or
  a stutter.
* **SseTransportProofs.** `TypeCorrect`, `RepliesGoToTheirCallers`,
  `RepliesFindTheirCallers`, `RefusedIsNeverPosted` (`NotConnectedIsFinal`), and
  `TransportKeepsPromise`, of the same promise.
* **McpClientProofs.** `TypeCorrect`, `RepliesPassTheIdCheck`, `OneCallInFlight`,
  `HandshakeComesFirst`, `InitializedClientsShookHands`, and `QueueIsExact`: who waits
  for the mutex is in its queue, once, and nobody else.
* **McpServerProofs.** `TypeCorrect`, `AnswersLeaveInOrder` (`AnswersInOrder`),
  `NoRequestIsForgotten` (`WholeRequestsAnswered`).
* **McpRouterProofs.** `TypeCorrect`, `ChecksComeFirst` (`CheckedInOrder`),
  `OrderDoesNotMatter` (`FilledAtOnce`).
* **SessionProofs.** For every message: `OnlyRequestsAreServed`, `OnlyAnswersArePlaced`,
  and `AnswersThatArePlaced`, which says which answers do reach a caller. For the two
  programs: `ServerChild` (`ServerIsAChild`), `ClientIsAPeer` (`TransportIsAPeer`),
  `PromisesHoldTogether`, which carries the invariants of both components over, and
  `RepliesComeFromTheServer`: a reply somebody gets was written by the server in answer
  to that caller's request.
* **P2pProofs.** Of the handler `TypeCorrect`, `DuplicatesAreIgnored` (`OncePerTtl`),
  `LaterGossipPrevails` (`StoredInOrder`), `DuplicatesFindTheirContent`
  (`DuplicatesWereHandled`), `LocksBlockOnlyCleanups` (`OnlyCleanupDeadlocks`); of the
  manager `ManagerTypeCorrect`, `CounterNeverDrifts` (`CountIsExact`),
  `FallbackPublishesOnce` (`PublishedOnce`), `LimitOnlyCountsLeaks` (`RefusedByLeaks`).

Each proof has the same plan: an inductive invariant `IInv`, one lemma per action
that it is kept, `Invariance`, and the properties as consequences.

*The stdio invariant.* None of the safety properties is inductive. `NoCrossTalk`
speaks of results, which come from oneshots (`Returned`), which come from lines of the
child (`Matched`), which come from requests it has read (`Replies`), and the one
that took the line out of the table must have been filed under its own id (`Filed`).
`NoLostReply` needs that between filing and the write the sender stays where it is
(`Reachable`), that no unfiled sender is resolved (`Fresh`), and that a message is in
one place at a time (`OnePlace`), or the second copy would be filed anew.
`NobodyLeftWaiting` is the conclusion of `Owned`, that somebody holds the sender of
everyone who waits: the channel, the loop's hands or the table; it becomes false at
no step of the teardown because `Progress` ties what is empty to how far the
teardown is. `CauseReported` needs `Cause`, the same of callers that have not
returned yet. `SentWasSubmitted` and `Answered` exclude states the callers cannot be
in. `Invariance` proves that the conjunction, `IInv`, holds at the start and is kept
by each action, one lemma per action; the refinement uses `OnePlace` (a line is read
at most once) and `Matched` (a reply is permitted).

*The SSE invariant* follows the same lines, without `Owned` and `Cause`, which are about
the teardown of stdio. In return `NoLostReply`, which is a part of it here, must hold
whichever of the two loops is over, since one goes on without the other: a loop that
ends clears the table, but whoever it takes out is told so, and what the other loop
files later stays. `Refused` says of a caller told "not
connected" that its message is neither in the channel nor in the loop's hands nor at
the server.

*The client invariant.* `Locked` says that an operation is in a call exactly if it
holds the mutex; `Final` that only calls that have returned have a result;
`Numbers`, the heart of it, that the holder's call is the last id drawn (or its
notification), which is why comparing a reply with the counter is right, and why an
interrupted handshake leaves no call a later one could take for its own; `Gated`
that an operation queued for the mutex saw an initialized client. `HandshakeFirst` and
`InitializedMeansHandshake` are proved together with it. The queue of the mutex has an
invariant of its own, `Queued`, proved on top of it: a dropped operation leaves the
queue wherever it stands in it, so no wake-up goes to one that is gone.

*The server invariant.* `AnswersInOrder` speaks of what was written, and a step that writes
says nothing of where the response came from. The invariant counts: message number *i*
is pieces 2*i*-1 and 2*i*, and `Filled` and `Consumed` say how many pieces have left the
pipe and the buffer. `InSequence` says that pipe, buffer and the line being read hold
the pieces after these, none lost, doubled or out of place; `CutWhereChunked` that only a
chunked message is cut between two places, which is why what a poll loses is at most a
chunk of such a line. `Loop` and `Counted` tie the message in hand, and the lines
written, to the lines consumed; `InOrder` has the responses in the order of their
requests, the one in hand last; `ConsumedAnswered` is `WholeRequestsAnswered` of the
lines consumed so far, whatever the loop is at. A line taken is the one after those
consumed, by `InSequence`, and so later than all that were answered.

*The router.* `Dispatched` (who is waited for is the request's handler) and `FilledIn` (a
filled prompt passed every check, and is `FillIn` of the description) are inductive at
once. The work is that `FillIn`, one replacement after the other in the text the ones
before made, is `AtOnce`, which looks only at the description. Both are scans of a
text; `ScansAgree` shows by induction that a scan reads the rest of a text as it would
read the rest alone, and then `AtOnce` is known by its steps: a token that begins no
placeholder stays (`AtOnceKeeps`), a placeholder becomes its value (`AtOncePuts`), and
what opens no brace passes (`AtOncePasses`). `OneMore` is the heart: filling in one
argument where others are filled in already is as if it had been among them. No
placeholder comes up that was not there (`NoneComesUp`): an opening brace that is left
is followed by text without braces up to the first closing one, which no value
touches, and a key without braces that fits there is that text (`OnePlaceholder`). The
library's induction theorems take the property as an operator, which the provers cannot
instantiate; `Inductive` states induction for a *set* of numbers instead, and is proved
from the well-foundedness of the natural numbers.

*The session.* `ClientIsAPeer` comes first, and needs little: that the loop has a message
in hand when it writes (`Handed`), and that a line is half-written only while it does so
or when the process is gone (`WrittenWhole`). With it the server's invariant holds in
the session, and `ServerChild` may use it: taking a line shortens `Unread` by its head
because the pieces are in sequence; and a response answers a request that was read whole,
since while the process runs the end of the input cuts no line off.
`RepliesComeFromTheServer` rests on `Written`, that every reply, from the pipe through the
oneshots to the caller, is among the lines the server wrote.

*The p2p invariant.* `Places` says which methods get to which position.
`Remembered` ties the history to the map: the mark of an id is not older than the last
message accepted with it, and is gone only when that message is as old as the time to
live. A clean-up judges by an instant from before it had the lock, so its instant is
not later than the clock, which is all that is needed: it errs towards remembering.
`Sequential` is what the guard of `seen_messages` buys: all accepted messages but the
last have ended, so an earlier one cannot store after a later one; `StoredInOrder`
follows for a later one that has ended, and is kept because whoever stores is the last.
`DuplicatesWereHandled` is a property of messages that were turned away. `Marked` says
that an id in the map was accepted from somebody, `Cached` that what an accepted message
carried is in the cache when its call is done, and entries are only ever replaced. A
message is turned away by who holds no guard of the seen messages: nobody else holds
it then, so by the guards in `P2pTypeOK` no accepted copy is still at work. That is
kept (`TurnedAway`), for a call that has ended stays so and the history only grows.
`OnlyCleanupDeadlocks` needs no more than the guards in `P2pTypeOK`: who
waits for the seen messages waits for gossip, gossip waits for the peers or the cache,
a broadcast holding the cache waits for the peers, and a clean-up holding the peers
waits for the seen messages; only this last step closes a circle.

*The manager's invariant.* `LockHeld` ties the lock to the positions of the sends, so a
send that leaves was counted and the subtraction stays within the naturals.
`OnlySuccessPublishes` is `PublishedOnce` for the sends in progress and the dropped ones
too. A refusal reads the counter when nobody holds the lock, and then `CountIsExact`
leaves only dropped sends to count.

## Checked but not proved

Liveness: `EveryCallEnds`, `EveryOpEnds`, `AnswerComes`, `ServerEnds`, `SendsEnd`,
`CallsAreSettled`, `ShutdownCompletes`. Fairness and ENABLED are out of the prover's
reach. And the properties that are violated, which TLC refutes.

That the hypotheses of the theorems are met is for TLC to show: each passing run is an
instance of the assumptions, and its mutants show that the properties do not hold of
just anything. `FilledAtOnce` makes two exceptions, and TLC finds both when they are left
out: a value with braces can be, or complete, the placeholder of an argument that comes
later, and a description that puts one placeholder into another gives the inner value
to the outer name.

## Disagreements

1. *Clean-up after the `select!`* (`stdio_cleanup`). `stdio.rs:70` says "Clean up
   regardless of which path we took". But first, at `stdio.rs:56`, the actor reads
   stderr to its end. If the child lives and only its stdout ended or had a line
   that is not UTF-8, that read does not return, `clear` is never reached, and callers
   wait for good, those queued later included.
2. *A handle without an endpoint* (`sse_start`). `sse.rs:292` says "Wait for the
   endpoint to be discovered before returning the handle". The result of the wait is
   matched by `Ok(_)` of the timeout around it, so an `Err` of `wait_for_endpoint`
   after its ten polls counts as success.
3. *Lines in chunks* (`server_chunks`). `lib.rs:23-25` says that the `BufReader` buffers
   the data across polls. `read_until` moves the bytes into a local of `poll_next`, which
   is gone when the poll is pending: a request longer than the pipe is lost and answered
   by an error without an id.
4. *Stale peers* (`p2p_cleanup`). `handler.rs:620` says "Clean up stale peers that haven't
   been active for the specified duration", `handler.rs:638` "Clean up old seen
   messages". Between the two `clean_stale_peers` waits for the seen messages with the
   peers in hand, while `handle_gossipsub` waits for the peers with the seen messages
   in hand. When they meet, neither ends, and every call that updates a peer queues
   behind them. `OnlyCleanupDeadlocks` shows that there is no other way to get stuck.

Seen while reading:

* When the handle is dropped, the `select!` ends with the outgoing loop and nobody reads
  stdout any more, but the actor waits for the end of stderr first (`stdio.rs:56`). A
  server that still has answers to write waits for room in a full pipe and never gets to
  the end of its input: both wait for good. `ShutdownCompletes` names this state
  (`Clogged`), and is violated without the exception.
* `sse.rs:141` says "SSE stream ended or errored; signal any pending requests". Requests
  that the outgoing loop files later are not signalled; they are POSTed, and their
  callers wait for the timeout of the service. `EveryCallEnds` of SSE excludes them.
* "Maximum pending requests per connection" (`config.rs:70`): there is one counter for
  the manager. As a send holds the lock, at most one is pending at a time, and the
  limit is met only by sends whose futures were dropped: after as many of them as the
  limit allows every send is refused until `shutdown` (`RefusedByLeaks`, `CountIsExact`).
* A service that answers with a null result leaves its caller waiting: the line has an id
  and nothing else, which is no message (`protocol.rs:114-124`). A request without an id
  arrives as a notification, and its caller gets `ChannelClosed`.
* `messages_received`, "Number of messages received from this peer" (`handler.rs:81`), is
  raised twice for each gossip message, because `handle_gossipsub` and the method it
  calls both update the peer.
* "Prompt must be less than 10000 total characters" (`router.rs:328`), but only the
  description is measured, in bytes, before anything is filled in; and 10000 is allowed.
  Likewise "Argument keys must be less than 1000 characters" (`router.rs:329`, and `:330`
  for the values): the code (`:334`, `:341`) and the texts of its errors (`:336`, `:343`)
  allow 1000.
* A response that holds a Resource or a Content is cached whatever was asked for
  (`handler.rs:516-529`): the request is taken from `pending_requests`, but only a
  `ResourceResponse` is compared with it. `process_request` itself answers with a
  Resource (`handler.rs:300`). So it may come twice, unasked, or about something else,
  and replaces what is there; `Stores` in `P2pHandler` has it.
* `errors.rs:59-95` gives every `RouterError` a code; but those that leave the router as
  an `Err` are turned into `INTERNAL_ERROR` by `Server::run` (`lib.rs:168-180`), so only
  `METHOD_NOT_FOUND` keeps its own (`Codes` in `McpRouter`).

## Not modelled

* *Spawning, connecting, serialising.* `start` of stdio fails before there is any
  state; a `JsonRpcMessage` always serialises.
* *Results.* The client decodes a reply into the operation's type: any failure is one
  outcome, `RpcError`.
* *Error texts* of the server, and the codes of its own errors.
* *mcp-macros* (code generation), *examples* except for the `main` of `counter_server`
  in `Session`, constructors of *mcp-core*.
* *p2p handler*: the counters of messages, the transport of a peer, the answers it
  returns, queries of its maps, and the private `process_response`, which nothing calls.
* *p2p behaviour*: nothing in the repository polls a swarm or calls `handle_event`, so its
  event handlers, which log, and its length-prefixed codec are never reached. What a send
  reaches of it is `Publish` and `PublishFails`.
* *p2p transports*: what libp2p does with a message; the variants for the browser.
* *Router*: the contents of lists, tools and resources; the capabilities builder.
* *Session*: an output that is closed or an input that breaks while the process runs,
  lines that are not UTF-8 (`stdio_safety` and `server` have them), and SSE.

## Plan

Done: the models of all components listed above, the composition of client and server
over their pipes, and a theorem for every safety property of the passing runs.

What could come next: the steps behind the liveness properties as safety, such as ranking
functions that every step of a teardown lowers; a composition of `SseTransport` with a
model of a web server, for which the repository has no code; and the client over the
session, with `McpClient` in place of free callers.
