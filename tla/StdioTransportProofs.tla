----------------------- MODULE StdioTransportProofs ------------------------
(***************************************************************************)
(* Machine-checked proofs about StdioTransport: its type invariant, its    *)
(* safety invariants and its refinement of RequestReply, for any set of    *)
(* calls, any assignment of kinds and ids and any capacities.              *)
(***************************************************************************)
EXTENDS StdioTransport, QueueFacts, TLAPS

-----------------------------------------------------------------------------
(* The inductive invariant, in named parts. *)

\* A message is in one place at most: the channel, the hands of the outgoing
\* loop, the pipe, or read by the child.
OnePlace ==
    /\ IsInjective(channel)
    /\ IsInjective(stdin)
    /\ Range(channel) \cap Range(stdin) = {}
    /\ current \notin Range(channel) \cup Range(stdin)
    /\ \A c \in Range(channel) \cup Range(stdin) : received[c] = 0
    /\ \A c \in Calls : c = current => received[c] = 0
    /\ \A c \in Calls : received[c] \in {0, 1}

Sent(c) == c \in Range(channel) \cup Range(stdin) \/ c = current \/ received[c] > 0

\* Only submitted messages of a kind that can be sent are on their way.
SentWasSubmitted ==
    \A c \in Calls :
        /\ Sent(c) => phase[c] \notin {"idle", "sending"}
        /\ Sent(c) \/ phase[c] = "sending" => Kind[c] # "other"

\* How far the loops, the teardown and the error channel are.
Progress ==
    /\ current # NoCall <=> actor # "gone" /\ outgoing \in {"insert", "write"}
    /\ outgoing = "ended" => channel = <<>> /\ actor # "select"
    /\ actor = "gone" => channel = <<>>
    /\ actor \in {"drop", "gone"} => pending = NoPending
    /\ actor \in {"select", "stderr", "report"} => errors = "unsent"
    /\ actor \in {"clear", "drop", "gone"} /\ handle = "open" => errors # "unsent"
    /\ handle = "dropped" => \A c \in Calls : ~Active(c)

\* A sender in the table is filed under the id of its request and unresolved.
Filed ==
    \A i \in Ids : pending[i] # NoCall =>
        /\ Kind[pending[i]] = "request"
        /\ IdOf[pending[i]] = i
        /\ answer[pending[i]] = Unresolved
        /\ phase[pending[i]] \in {"waiting", "cancelled"}
        /\ pending[i] \notin Range(channel)
        /\ pending[i] = current => outgoing = "write"

\* A sender that is not filed yet is unresolved.
Fresh ==
    \A c \in Calls :
        /\ c \in Range(channel) \/ (c = current /\ outgoing = "insert")
        /\ Kind[c] # "notification"
        => answer[c] = Unresolved

\* Somebody holds the sender of every caller that waits.
Owned ==
    \A c \in Calls : phase[c] = "waiting" /\ answer[c] = Unresolved =>
        \/ c \in Range(channel)
        \/ c = current /\ outgoing = "insert"
        \/ pending[IdOf[c]] = c

\* The child only answers requests it has read.
Replies ==
    \A d \in Calls : Reply(d) \in Range(stdout) => received[d] = 1 /\ Kind[d] = "request"

\* A caller's oneshot holds a reply to a request with the caller's id.
Matched ==
    \A c, d \in Calls : answer[c] = Reply(d) =>
        /\ received[d] = 1
        /\ Kind[c] = "request" /\ Kind[d] = "request"
        /\ IdOf[c] = IdOf[d]

\* Nil is for notifications, and nothing is known before the message is sent.
Answered ==
    \A c \in Calls :
        /\ answer[c] = Nil => Kind[c] = "notification"
        /\ answer[c] \notin {NotConnected, ProcessError}
        /\ phase[c] \in {"idle", "sending"} => answer[c] = Unresolved
        /\ phase[c] = "waiting" /\ Kind[c] = "notification" => answer[c] # Unresolved

Returned ==
    \A c \in Calls :
        /\ phase[c] = "done" => result[c] \in {answer[c], ProcessError} /\ answer[c] # Unresolved
        /\ phase[c] # "done" => result[c] = Unresolved

\* NoLostReply from the moment the sender is filed.
Reachable ==
    \A c \in Calls :
        /\ Kind[c] = "request" /\ OwnId(c) /\ answer[c] = Unresolved
        /\ c \in Range(stdin) \/ received[c] > 0 \/ (c = current /\ outgoing = "write")
        => pending[IdOf[c]] = c

\* CauseReported, of callers that have not returned yet as well.
Cause ==
    \A c \in Calls :
        /\ OwnId(c) /\ Kind[c] # "anonymous"
        /\ phase[c] = "waiting" /\ answer[c] = Closed
        => outgoing = "ended" \/ errors # "unsent"

IInv ==
    /\ Typed /\ OnePlace /\ SentWasSubmitted /\ Progress /\ Filed /\ Fresh /\ Owned
    /\ Replies /\ Matched /\ Answered /\ Returned /\ Reachable /\ Cause /\ CauseReported

-----------------------------------------------------------------------------
(* Facts about outcomes and kinds. *)

\* The outcomes of a call are told apart by their tags, replies by their calls.
LEMMA OutcomeFacts ==
    /\ {Unresolved, Nil} \cup Failures \subseteq Outcomes
    /\ Failures = {Closed, ProcessError, NotConnected, Unsupported}
    /\ \A d \in Calls : Reply(d) \in Outcomes \ ({Unresolved, Nil} \cup Failures)
    /\ \A c, d \in Calls : Reply(c) = Reply(d) => c = d
    /\ Unresolved \notin {Nil} \cup Failures /\ Nil \notin Failures
    /\ Closed \notin {ProcessError, NotConnected, Unsupported}
    /\ Unsupported \notin {ProcessError, NotConnected}
  BY DEF Outcomes, Outcome, Reply, Unresolved, Nil, Closed, ProcessError,
         NotConnected, Unsupported, Failures

\* What a line on the child's stdout is.
LEMMA LineFacts ==
    /\ \A d \in Calls : Reply(d) \in Lines /\ Reply(d).tag = "reply"
    /\ \A n \in Noise : /\ Outcome(n, NoCall) \in Lines
                       /\ \A d \in Calls : Outcome(n, NoCall) # Reply(d)
    /\ \A l \in Lines : l.tag = "reply" => l.to \in Calls /\ l = Reply(l.to)
  BY StdioAssumption DEF Outcome, Reply, Lines

\* Resolving oneshots with an outcome touches those of the set that were open.
LEMMA ResolveFacts ==
    ASSUME answer \in [Calls -> Outcomes], NEW S, NEW o \in Outcomes, o # Unresolved
    PROVE  /\ Resolve(answer, S, o) \in [Calls -> Outcomes]
           /\ \A c \in Calls :
                /\ answer[c] # Unresolved \/ c \notin S => Resolve(answer, S, o)[c] = answer[c]
                /\ answer[c] = Unresolved /\ c \in S => Resolve(answer, S, o)[c] = o
  BY DEF Resolve

\* Dropping the senders of messages that were sent closes their oneshots and
\* leaves what is known of answers true.
LEMMA CloseFacts ==
    ASSUME IInv, NEW S, answer' = Resolve(answer, S, Closed),
           UNCHANGED <<phase, result, received>>,
           \A c \in Calls \cap S : phase[c] \notin {"idle", "sending"}
    PROVE  /\ answer' \in [Calls -> Outcomes]
           /\ Matched' /\ Answered' /\ Returned'
           /\ \A c \in Calls :
                /\ answer'[c] \in {answer[c], Closed}
                /\ answer'[c] = Unresolved <=> answer[c] = Unresolved /\ c \notin S
                /\ answer'[c] # answer[c] => c \in S /\ answer[c] = Unresolved
<1> USE DEF IInv
<1>1. answer \in [Calls -> Outcomes] /\ Closed \in Outcomes /\ Closed # Unresolved
  BY OutcomeFacts DEF Typed
<1>2. answer' \in [Calls -> Outcomes]
  BY <1>1, ResolveFacts
<1>3. \A c \in Calls :
        /\ answer[c] # Unresolved \/ c \notin S => answer'[c] = answer[c]
        /\ answer[c] = Unresolved /\ c \in S => answer'[c] = Closed
  BY <1>1, ResolveFacts
<1>4. Matched'
  BY <1>3, OutcomeFacts DEF Matched
<1>5. Answered'
  BY <1>3, OutcomeFacts DEF Answered
<1>6. Returned'
  BY <1>3 DEF Returned
<1> QED
  BY <1>1, <1>2, <1>3, <1>4, <1>5, <1>6

\* Every call has a kind and an id.
LEMMA KindFacts == \A c \in Calls : Kind[c] \in Kinds /\ IdOf[c] \in Ids
  BY TransportAssumption

-----------------------------------------------------------------------------
(* Every step keeps the invariant. *)

\* A submitted message is nowhere yet; one of a refused kind has its answer.
LEMMA SubmitKeeps ==
    ASSUME IInv, NEW c \in Calls, Submit(c)
    PROVE  IInv'
<1> USE DEF IInv
<1>1. /\ phase[c] = "idle" /\ handle = "open"
      /\ phase'[c] \in {"sending", "waiting"}
      /\ phase'[c] = "sending" => Kind[c] # "other" /\ answer'[c] = answer[c]
      /\ phase'[c] = "waiting" => answer'[c] = Unsupported
      /\ \A d \in Calls \ {c} : phase'[d] = phase[d] /\ answer'[d] = answer[d]
      /\ UNCHANGED <<result, handle, actorVars, errors, stdin, stdout, childVars>>
  BY DEF Submit, Typed
<1>2. Typed'
  <2>1. phase' \in [Calls -> Phases]
    BY DEF Submit, Typed, Phases
  <2>2. answer' \in [Calls -> Outcomes]
    <3>1. answer' = answer \/ answer' = [answer EXCEPT ![c] = Unsupported]
      BY DEF Submit
    <3>2. answer \in [Calls -> Outcomes] /\ Unsupported \in Outcomes
      BY OutcomeFacts DEF Typed
    <3> QED
      BY <3>1, <3>2
  <2> QED
    BY <1>1, <2>1, <2>2 DEF Typed, actorVars, childVars
<1>3. ~Sent(c)
  BY <1>1 DEF SentWasSubmitted
<1>4. \A i \in Ids : pending[i] # NoCall => pending[i] \in Calls \ {c}
  BY <1>1 DEF Filed, Typed
<1>5. SentWasSubmitted'
  BY <1>1, <1>3 DEF SentWasSubmitted, Sent, actorVars, childVars
<1>6. Filed'
  BY <1>1, <1>4 DEF Filed, actorVars
<1>7. Fresh'
  BY <1>1, <1>3 DEF Fresh, Sent, actorVars
<1>8. Owned'
  BY <1>1, OutcomeFacts DEF Owned, actorVars
<1>9. Matched' /\ Answered' /\ Returned'
  BY <1>1, OutcomeFacts DEF Matched, Answered, Returned, childVars
<1>10. Reachable'
  BY <1>1, <1>3 DEF Reachable, Sent, actorVars, childVars
<1>11. Cause' /\ CauseReported'
  BY <1>1, OutcomeFacts DEF Cause, CauseReported, actorVars
<1>12. OnePlace' /\ Progress' /\ Replies'
  BY <1>1 DEF OnePlace, Progress, Active, Replies, actorVars, childVars
<1> QED
  BY <1>2, <1>5, <1>6, <1>7, <1>8, <1>9, <1>10, <1>11, <1>12

\* The channel takes the sender of a request over from its caller.
LEMMA EnqueueKeeps ==
    ASSUME IInv, NEW c \in Calls, Enqueue(c)
    PROVE  IInv'
<1> USE DEF IInv, Enqueue, ReceiverAlive, callerVars, actorVars, childVars
<1>1. Typed'
  BY AppendFacts, OutcomeFacts DEF Typed, Phases
<1>2. OnePlace'
  BY AppendFacts, TransportAssumption DEF OnePlace, Typed, SentWasSubmitted, Sent
<1>3. SentWasSubmitted'
  BY AppendFacts DEF SentWasSubmitted, Sent, Typed
<1>4. Progress'
  BY DEF Progress, Typed, Active
<1>5. Filed'
  BY AppendFacts DEF Filed, Typed
<1>6. Fresh'
  BY AppendFacts DEF Fresh, Typed, Answered, SentWasSubmitted, Sent
<1>7. Owned'
  BY AppendFacts, OutcomeFacts DEF Owned, Typed
<1>8. Matched'
  BY OutcomeFacts DEF Matched, Typed
<1>9. Answered'
  BY OutcomeFacts DEF Answered, Typed
<1>10. Returned'
  BY DEF Returned, Typed
<1>11. Reachable'
  BY OutcomeFacts DEF Reachable, Typed, SentWasSubmitted, Sent
<1>12. Cause'
  BY OutcomeFacts DEF Cause, Typed, Answered
<1>13. Replies' /\ CauseReported'
  BY DEF Replies, CauseReported
<1> QED
  BY <1>1, <1>2, <1>3, <1>4, <1>5, <1>6, <1>7, <1>8, <1>9, <1>10, <1>11, <1>12, <1>13

\* A message the channel does not take is answered at once.
LEMMA EnqueueFailsKeeps ==
    ASSUME IInv, NEW c \in Calls, EnqueueFails(c)
    PROVE  IInv'
<1> USE DEF IInv, EnqueueFails, ReceiverAlive, callerVars, actorVars, childVars
<1>1. Typed'
  BY OutcomeFacts DEF Typed, Phases
<1>2. SentWasSubmitted'
  BY DEF SentWasSubmitted, Sent, Typed
<1>3. Progress'
  BY DEF Progress, Typed, Active
<1>4. Filed'
  BY DEF Filed, Typed
<1>5. Fresh'
  BY DEF Fresh, Typed, SentWasSubmitted, Sent
<1>6. Owned'
  BY OutcomeFacts DEF Owned, Typed
<1>7. Matched'
  BY OutcomeFacts DEF Matched, Typed
<1>8. Answered'
  BY OutcomeFacts DEF Answered, Typed
<1>9. Returned'
  BY DEF Returned, Typed
<1>10. Reachable'
  BY OutcomeFacts DEF Reachable, Typed, SentWasSubmitted, Sent
<1>11. Cause'
  BY DEF Cause, Typed, Progress, Active
<1>12. OnePlace' /\ Replies' /\ CauseReported'
  BY DEF OnePlace, Replies, CauseReported
<1> QED
  BY <1>1, <1>2, <1>3, <1>4, <1>5, <1>6, <1>7, <1>8, <1>9, <1>10, <1>11, <1>12

\* A caller that returns had its answer, or takes the process error.
LEMMA ReturnKeeps ==
    ASSUME IInv, NEW c \in Calls, Return(c)
    PROVE  IInv'
<1> USE DEF IInv, Return, callerVars, actorVars, childVars
<1>1. Typed'
  BY OutcomeFacts DEF Typed, Phases
<1>2. SentWasSubmitted'
  BY DEF SentWasSubmitted, Sent, Typed
<1>3. Progress'
  BY DEF Progress, Typed, Active
<1>4. Filed'
  BY DEF Filed, Typed
<1>5. Owned'
  BY DEF Owned, Typed
<1>6. Answered'
  BY DEF Answered, Typed
<1>7. Returned'
  BY DEF Returned, Typed
<1>8. Cause'
  BY DEF Cause, Typed
<1>9. CauseReported'
  BY OutcomeFacts DEF CauseReported, Typed, Cause, Returned
<1>10. OnePlace' /\ Fresh' /\ Replies' /\ Matched' /\ Reachable'
  BY DEF OnePlace, Fresh, Replies, Matched, Reachable
<1> QED
  BY <1>1, <1>2, <1>3, <1>4, <1>5, <1>6, <1>7, <1>8, <1>9, <1>10

\* A caller that gives up leaves its message where it is.
LEMMA CancelKeeps ==
    ASSUME IInv, NEW c \in Calls, Cancel(c)
    PROVE  IInv'
<1> USE DEF IInv, Cancel, Active, callerVars, actorVars, childVars
<1>1. Typed'
  BY DEF Typed, Phases
<1>2. SentWasSubmitted'
  BY DEF SentWasSubmitted, Sent, Typed
<1>3. Progress'
  BY DEF Progress, Typed, Active
<1>4. Filed'
  BY DEF Filed, Typed
<1>5. Owned'
  BY DEF Owned, Typed
<1>6. Answered'
  BY DEF Answered, Typed
<1>7. Returned'
  BY DEF Returned, Typed
<1>8. Cause'
  BY DEF Cause, Typed
<1>9. OnePlace' /\ Fresh' /\ Replies' /\ Matched' /\ Reachable' /\ CauseReported'
  BY DEF OnePlace, Fresh, Replies, Matched, Reachable, CauseReported
<1> QED
  BY <1>1, <1>2, <1>3, <1>4, <1>5, <1>6, <1>7, <1>8, <1>9

\* The handle goes only when nobody uses it.
LEMMA DropHandleKeeps ==
    ASSUME IInv, DropHandle
    PROVE  IInv'
<1> USE DEF IInv, DropHandle, callerVars, actorVars, childVars
<1>1. Typed'
  BY DEF Typed
<1>2. Progress'
  BY DEF Progress, Typed, Active
<1>3. /\ OnePlace' /\ SentWasSubmitted' /\ Filed' /\ Fresh' /\ Owned' /\ Replies' /\ Matched'
      /\ Answered' /\ Returned' /\ Reachable' /\ Cause' /\ CauseReported'
  BY DEF OnePlace, SentWasSubmitted, Filed, Fresh, Owned, Replies, Matched, Answered, Returned,
     Reachable, Cause, CauseReported, Sent
<1> QED
  BY <1>1, <1>2, <1>3

\* A message moves from the channel to the hands of the outgoing loop.
LEMMA OutgoingRecvKeeps ==
    ASSUME IInv, OutgoingRecv
    PROVE  IInv'
<1> USE DEF IInv, OutgoingRecv, OutgoingAt, callerVars, actorVars, childVars
<1>1. Typed'
  BY TailFacts DEF Typed
<1>2. OnePlace'
  BY TailFacts DEF OnePlace, Typed
<1>3. SentWasSubmitted'
  BY TailFacts DEF SentWasSubmitted, Sent, Typed
<1>4. Progress'
  BY TailFacts, TransportAssumption DEF Progress, Typed, Active
<1>5. Filed'
  BY TailFacts DEF Filed, Typed
<1>6. Fresh'
  BY TailFacts DEF Fresh, Typed
<1>7. Owned'
  BY TailFacts DEF Owned, Typed
<1>8. Reachable'
  BY DEF Reachable, Typed
<1>9. Cause'
  BY DEF Cause, Typed
<1>10. CauseReported'
  BY DEF CauseReported, Typed
<1>11. Replies' /\ Matched' /\ Answered' /\ Returned'
  BY DEF Replies, Matched, Answered, Returned
<1> QED
  BY <1>1, <1>2, <1>3, <1>4, <1>5, <1>6, <1>7, <1>8, <1>9, <1>10, <1>11

\* The outgoing loop ends with nothing in its hands or its channel.
LEMMA OutgoingRecvNoneKeeps ==
    ASSUME IInv, OutgoingRecvNone
    PROVE  IInv'
<1> USE DEF IInv, OutgoingRecvNone, OutgoingAt, callerVars, actorVars, childVars
<1>1. Typed'
  BY DEF Typed
<1>2. Progress'
  BY DEF Progress, Typed, Active
<1>3. Filed'
  BY DEF Filed, Typed
<1>4. Fresh'
  BY DEF Fresh, Typed
<1>5. Owned'
  BY DEF Owned, Typed
<1>6. Reachable'
  BY DEF Reachable, Typed
<1>7. Cause'
  BY DEF Cause, Typed
<1>8. CauseReported'
  BY DEF CauseReported, Typed
<1>9. OnePlace' /\ SentWasSubmitted' /\ Replies' /\ Matched' /\ Answered' /\ Returned'
  BY DEF OnePlace, SentWasSubmitted, Replies, Matched, Answered, Returned, Sent
<1> QED
  BY <1>1, <1>2, <1>3, <1>4, <1>5, <1>6, <1>7, <1>8, <1>9

\* A request moves to the table, and whoever it displaces is told so.
LEMMA OutgoingInsertKeeps ==
    ASSUME IInv, OutgoingInsert
    PROVE  IInv'
<1> DEFINE S == IF Kind[current] = "request" THEN Displaced(pending, current) ELSE {current}
<1> USE DEF IInv
<1>1. /\ actor = "select" /\ outgoing = "insert" /\ outgoing' = "write"
      /\ pending' = IF Kind[current] = "request" THEN InsertPending(pending, current) ELSE pending
      /\ answer' = Resolve(answer, S, Closed)
      /\ UNCHANGED <<callerVars, actor, current, channel, errors, stdin, stdout, childVars>>
  BY DEF OutgoingInsert, OutgoingAt
<1>2. current \in Calls /\ IdOf[current] \in Ids /\ Sent(current)
  BY <1>1, TransportAssumption DEF Typed, Progress, Sent
<1>3. \A i \in Ids : pending[i] # NoCall => pending[i] # current /\ pending[i] \in Calls
  BY <1>1 DEF Filed, Typed
<1>4. /\ Kind[current] = "request" =>
            /\ \A c \in Calls : c \in S <=> c = pending[IdOf[current]]
            /\ current \notin S
            /\ \A i \in Ids : pending'[i] = IF i = IdOf[current] THEN current ELSE pending[i]
      /\ Kind[current] # "request" => S = {current} /\ pending' = pending
  BY <1>1, <1>2, <1>3, TransportAssumption DEF Displaced, InsertPending, Typed
<1>5. \A c \in Calls \cap S : phase[c] \notin {"idle", "sending"} /\ c \notin Range(channel)
  BY <1>2, <1>4, TransportAssumption DEF Filed, SentWasSubmitted, OnePlace
<1> HIDE DEF S
<1>6. /\ answer' \in [Calls -> Outcomes]
      /\ Matched' /\ Answered' /\ Returned'
      /\ \A c \in Calls :
            /\ answer'[c] \in {answer[c], Closed}
            /\ answer'[c] = Unresolved <=> answer[c] = Unresolved /\ c \notin S
            /\ answer'[c] # answer[c] => c \in S /\ answer[c] = Unresolved
  BY <1>1, <1>5, CloseFacts DEF callerVars, childVars
<1>7. Typed'
  BY <1>1, <1>2, <1>4, <1>6 DEF Typed, InsertPending, callerVars, childVars
<1>8. Filed'
  <2> SUFFICES ASSUME NEW i \in Ids, pending'[i] # NoCall
               PROVE  /\ Kind[pending'[i]] = "request" /\ IdOf[pending'[i]] = i
                      /\ answer'[pending'[i]] = Unresolved
                      /\ phase[pending'[i]] \in {"waiting", "cancelled"}
                      /\ pending'[i] \notin Range(channel)
    BY <1>1 DEF Filed, callerVars
  <2>1. CASE pending'[i] = current /\ Kind[current] = "request" /\ i = IdOf[current]
    <3>1. answer[current] = Unresolved /\ current \notin Range(channel)
      BY <1>1, <1>2, <2>1 DEF Fresh, OnePlace
    <3>2. phase[current] \in {"waiting", "cancelled"}
      BY <1>2, <3>1 DEF SentWasSubmitted, Returned, Typed, Phases
    <3> QED
      BY <1>2, <1>4, <1>6, <2>1, <3>1, <3>2
  <2>2. CASE pending'[i] = pending[i] /\ pending[i] \notin S
    BY <1>3, <1>6, <2>2 DEF Filed
  <2>3. pending'[i] = pending[i] => pending[i] \notin S
    <3> SUFFICES ASSUME pending'[i] = pending[i], pending[i] \in S
                 PROVE  FALSE
      OBVIOUS
    <3>1. pending[i] = pending[IdOf[current]] /\ Kind[current] = "request"
      BY <1>3, <1>4
    <3>2. i = IdOf[current]
      BY <1>2, <1>3, <3>1 DEF Filed
    <3> QED
      BY <1>3, <1>4, <3>1, <3>2
  <2> QED
    BY <1>4, <2>1, <2>2, <2>3
<1>9. Fresh'
  BY <1>1, <1>5, <1>6 DEF Fresh
<1>10. Owned'
  BY <1>1, <1>2, <1>4, <1>6, TransportAssumption DEF Owned, callerVars
<1>11. Reachable'
  <2> SUFFICES ASSUME NEW c \in Calls, Kind[c] = "request", OwnId(c), answer'[c] = Unresolved,
                      c \in Range(stdin) \/ received[c] > 0 \/ c = current
               PROVE  pending'[IdOf[c]] = c
    BY <1>1 DEF Reachable, childVars
  <2>1. CASE c = current
    BY <1>2, <1>4, <2>1
  <2>2. CASE c # current
    <3>1. pending[IdOf[c]] = c
      BY <1>6, <2>2 DEF Reachable
    <3>2. Kind[current] = "request" => IdOf[c] # IdOf[current]
      BY <1>2, <2>2 DEF OwnId
    <3> QED
      BY <1>4, <3>1, <3>2, TransportAssumption
  <2> QED
    BY <2>1, <2>2
<1>12. Cause'
  <2> SUFFICES ASSUME NEW c \in Calls, OwnId(c), Kind[c] # "anonymous",
                      phase[c] = "waiting", answer'[c] = Closed, answer[c] # Closed
               PROVE  FALSE
    BY <1>1 DEF Cause, callerVars
  <2>1. c \in S /\ answer[c] = Unresolved
    BY <1>6, OutcomeFacts
  <2>2. CASE Kind[current] = "request"
    <3>1. IdOf[c] = IdOf[current] /\ c # current
      BY <1>2, <1>4, <2>1, <2>2, TransportAssumption DEF Filed
    <3> QED
      BY <1>2, <2>2, <3>1 DEF OwnId
  <2>3. CASE Kind[current] # "request"
    BY <1>2, <1>4, <2>1, <2>3, KindFacts DEF Kinds, SentWasSubmitted, Answered
  <2> QED
    BY <2>2, <2>3
<1>13. CauseReported' /\ Progress' /\ SentWasSubmitted' /\ OnePlace' /\ Replies'
  BY <1>1 DEF CauseReported, Progress, SentWasSubmitted, Sent, OnePlace, Replies, Active,
              callerVars, childVars
<1> QED
  BY <1>6, <1>7, <1>8, <1>9, <1>10, <1>11, <1>12, <1>13

\* A message moves to the pipe, and its sender is filed by then.
LEMMA OutgoingWriteKeeps ==
    ASSUME IInv, OutgoingWrite
    PROVE  IInv'
<1> USE DEF IInv, OutgoingWrite, OutgoingAt, callerVars, actorVars, childVars
<1>1. Typed'
  BY AppendFacts DEF Typed, Progress
<1>2. OnePlace'
  BY RangeFacts, AppendFacts, TransportAssumption DEF OnePlace, Typed, Progress
<1>3. SentWasSubmitted'
  BY AppendFacts, TransportAssumption DEF SentWasSubmitted, Sent, Typed, Progress
<1>4. Progress'
  BY DEF Progress, Typed, Active
<1>5. Filed'
  BY DEF Filed, Typed
<1>6. Fresh'
  BY DEF Fresh, Typed
<1>7. Owned'
  BY DEF Owned, Typed
<1>8. Reachable'
  BY AppendFacts, TransportAssumption DEF Reachable, Typed, Progress
<1>9. Cause'
  BY DEF Cause, Typed
<1>10. CauseReported'
  BY DEF CauseReported, Typed
<1>11. Replies' /\ Matched' /\ Answered' /\ Returned'
  BY DEF Replies, Matched, Answered, Returned
<1> QED
  BY <1>1, <1>2, <1>3, <1>4, <1>5, <1>6, <1>7, <1>8, <1>9, <1>10, <1>11

\* A flush moves nothing.
LEMMA OutgoingFlushKeeps ==
    ASSUME IInv, OutgoingFlush
    PROVE  IInv'
<1> USE DEF IInv, OutgoingFlush, OutgoingAt, callerVars, actorVars, childVars
<1>1. Typed'
  BY DEF Typed
<1>2. Progress'
  BY DEF Progress, Typed, Active
<1>3. Filed'
  BY DEF Filed, Typed
<1>4. Fresh'
  BY DEF Fresh, Typed
<1>5. Owned'
  BY DEF Owned, Typed
<1>6. Reachable'
  BY DEF Reachable, Typed
<1>7. Cause'
  BY DEF Cause, Typed
<1>8. CauseReported'
  BY DEF CauseReported, Typed
<1>9. OnePlace' /\ SentWasSubmitted' /\ Replies' /\ Matched' /\ Answered' /\ Returned'
  BY DEF OnePlace, SentWasSubmitted, Replies, Matched, Answered, Returned, Sent
<1> QED
  BY <1>1, <1>2, <1>3, <1>4, <1>5, <1>6, <1>7, <1>8, <1>9

\* A failed write drops every sender there is.
LEMMA OutgoingFailsKeeps ==
    ASSUME IInv, OutgoingFails
    PROVE  IInv'
<1> DEFINE S == Senders(pending) \cup Range(channel)
<1> USE DEF IInv
<1>1. /\ actor = "select" /\ outgoing \in {"write", "flush"}
      /\ answer' = Resolve(answer, S, Closed)
      /\ pending' = NoPending /\ channel' = <<>> /\ current' = NoCall
      /\ outgoing' = "ended" /\ actor' = "stderr"
      /\ UNCHANGED <<callerVars, errors, stdin, stdout, childVars>>
  BY DEF OutgoingFails, OutgoingAt
<1>2. \A c \in Calls \cap S : phase[c] \notin {"idle", "sending"}
  <2>1. \A c \in Senders(pending) : phase[c] \notin {"idle", "sending"}
    BY TransportAssumption DEF Senders, Filed
  <2>2. \A c \in Calls \cap Range(channel) : phase[c] \notin {"idle", "sending"}
    BY DEF SentWasSubmitted, Sent
  <2> QED
    BY <2>1, <2>2
<1>3. \A c \in Calls : pending[IdOf[c]] = c => c \in S
  BY KindFacts DEF Senders
<1>4. Range(channel) \subseteq S
  OBVIOUS
<1> HIDE DEF S
<1>5. /\ answer' \in [Calls -> Outcomes]
      /\ Matched' /\ Answered' /\ Returned'
      /\ \A c \in Calls :
            /\ answer'[c] \in {answer[c], Closed}
            /\ answer'[c] = Unresolved <=> answer[c] = Unresolved /\ c \notin S
  BY <1>1, <1>2, CloseFacts DEF callerVars, childVars
<1>6. Typed' /\ Filed'
  BY <1>1, <1>5, EmptyFacts DEF Typed, Filed, NoPending, callerVars, childVars
<1>7. OnePlace' /\ SentWasSubmitted' /\ Fresh'
  BY <1>1, RangeFacts, EmptyFacts, TransportAssumption
     DEF OnePlace, SentWasSubmitted, Sent, Fresh, Typed, callerVars, childVars
<1>8. Progress'
  BY <1>1 DEF Progress, Active, callerVars
<1>9. \A c \in Calls : phase[c] = "waiting" => answer'[c] # Unresolved
  BY <1>1, <1>3, <1>4, <1>5 DEF Owned
<1>10. Owned'
  BY <1>1, <1>9 DEF Owned, callerVars
<1>11. Reachable'
  <2> SUFFICES ASSUME NEW c \in Calls, Kind[c] = "request", OwnId(c), answer'[c] = Unresolved,
                      c \in Range(stdin) \/ received[c] > 0
               PROVE  FALSE
    BY <1>1, TransportAssumption DEF Reachable, childVars
  <2> QED
    BY <1>3, <1>5 DEF Reachable
<1>12. Cause' /\ CauseReported' /\ Replies'
  BY <1>1 DEF Cause, CauseReported, Replies, callerVars, childVars
<1> QED
  BY <1>5, <1>6, <1>7, <1>8, <1>10, <1>11, <1>12

\* A reply goes to the caller filed under its id, who sent a request with it.
LEMMA IncomingReplyKeeps ==
    ASSUME IInv, IncomingReply
    PROVE  IInv'
<1> DEFINE r == Head(stdout)
           d == r.to
           p == pending[IdOf[d]]
<1> USE DEF IInv
<1>1. /\ actor = "select" /\ stdout # <<>> /\ r.tag = "reply"
      /\ answer' = Resolve(answer, {p}, r)
      /\ pending' = RemovePending(pending, IdOf[d])
      /\ stdout' = Tail(stdout)
      /\ UNCHANGED <<callerVars, actor, outgoing, current, channel, errors, stdin, childVars>>
  BY DEF IncomingReply
<1>2. r \in Lines /\ r \in Range(stdout) /\ Tail(stdout) \in Seq(Lines)
      /\ Range(Tail(stdout)) \subseteq Range(stdout)
  BY <1>1, TailFacts DEF Typed
<1>3. d \in Calls /\ r = Reply(d) /\ IdOf[d] \in Ids
  BY <1>1, <1>2, LineFacts, KindFacts
<1>4. received[d] = 1 /\ Kind[d] = "request"
  BY <1>2, <1>3 DEF Replies
<1>5. \A i \in Ids : pending'[i] = IF i = IdOf[d] THEN NoCall ELSE pending[i]
  BY <1>1 DEF RemovePending, Typed
<1>6. p # NoCall => /\ p \in Calls /\ Kind[p] = "request" /\ IdOf[p] = IdOf[d]
                    /\ answer[p] = Unresolved
                    /\ phase[p] \in {"waiting", "cancelled"}
                    /\ p \notin Range(channel)
                    /\ p = current => outgoing = "write"
  BY <1>3 DEF Filed, Typed
<1>7. r \in Outcomes /\ r # Unresolved /\ r \notin {Nil} \cup Failures
  BY <1>3, OutcomeFacts
<1> HIDE DEF r, d, p
<1>8. /\ answer' \in [Calls -> Outcomes]
      /\ \A c \in Calls :
            /\ c # p => answer'[c] = answer[c]
            /\ c = p => answer'[c] = r
  BY <1>1, <1>6, <1>7, ResolveFacts, TransportAssumption DEF Typed
<1>9. Typed'
  BY <1>1, <1>2, <1>8 DEF Typed, RemovePending, callerVars, childVars
<1>10. Filed'
  <2> SUFFICES ASSUME NEW i \in Ids, pending'[i] # NoCall
               PROVE  /\ Kind[pending'[i]] = "request" /\ IdOf[pending'[i]] = i
                      /\ answer'[pending'[i]] = Unresolved
                      /\ phase[pending'[i]] \in {"waiting", "cancelled"}
                      /\ pending'[i] \notin Range(channel)
                      /\ pending'[i] = current => outgoing = "write"
    BY <1>1 DEF Filed, callerVars
  <2>1. i # IdOf[d] /\ pending[i] = pending'[i]
    BY <1>5
  <2>2. pending[i] \in Calls /\ IdOf[pending[i]] = i /\ answer[pending[i]] = Unresolved
    BY <2>1 DEF Filed, Typed
  <2>3. pending[i] # p
    BY <1>6, <2>1, <2>2
  <2> QED
    BY <1>8, <2>1, <2>2, <2>3 DEF Filed
<1>11. Fresh'
  BY <1>1, <1>6, <1>8, TransportAssumption DEF Fresh
<1>12. Owned'
  <2> SUFFICES ASSUME NEW c \in Calls, phase[c] = "waiting", answer'[c] = Unresolved,
                      pending[IdOf[c]] = c
               PROVE  pending'[IdOf[c]] = c
    BY <1>1, <1>7, <1>8 DEF Owned, callerVars
  <2> QED
    BY <1>5, <1>7, <1>8, KindFacts DEF p
<1>13. Matched'
  <2> SUFFICES ASSUME NEW c \in Calls, NEW e \in Calls, answer'[c] = Reply(e)
               PROVE  /\ received[e] = 1 /\ Kind[c] = "request" /\ Kind[e] = "request"
                      /\ IdOf[c] = IdOf[e]
    BY <1>1 DEF Matched, childVars
  <2>1. CASE c = p
    <3>1. e = d
      BY <1>3, <1>8, <2>1, OutcomeFacts
    <3> QED
      BY <1>4, <1>6, <2>1, <3>1, TransportAssumption
  <2>2. CASE c # p
    BY <1>8, <2>2 DEF Matched
  <2> QED
    BY <2>1, <2>2
<1>14. Answered' /\ Returned'
  <2> SUFFICES ASSUME NEW c \in Calls, c = p
               PROVE  /\ answer'[c] \notin {Nil, NotConnected, ProcessError, Unresolved}
                      /\ phase[c] \notin {"idle", "sending", "done"}
    BY <1>1, <1>8 DEF Answered, Returned, callerVars
  <2> QED
    BY <1>6, <1>7, <1>8, OutcomeFacts, TransportAssumption
<1>15. Reachable'
  <2> SUFFICES ASSUME NEW c \in Calls, answer'[c] = Unresolved, pending[IdOf[c]] = c
               PROVE  pending'[IdOf[c]] = c
    BY <1>1, <1>7, <1>8 DEF Reachable, childVars
  <2> QED
    BY <1>5, <1>7, <1>8, KindFacts DEF p
<1>16. Cause'
  BY <1>1, <1>7, <1>8, OutcomeFacts DEF Cause, callerVars
<1>17. Replies'
  BY <1>1, <1>2 DEF Replies, childVars
<1>18. OnePlace' /\ SentWasSubmitted' /\ Progress' /\ CauseReported'
  BY <1>1 DEF OnePlace, SentWasSubmitted, Sent, Progress, Active, CauseReported, callerVars,
     childVars
<1> QED
  BY <1>9, <1>10, <1>11, <1>12, <1>13, <1>14, <1>15, <1>16, <1>17, <1>18

\* A skipped line touches nobody.
LEMMA IncomingSkipKeeps ==
    ASSUME IInv, IncomingSkip
    PROVE  IInv'
<1> USE DEF IInv, IncomingSkip, callerVars, actorVars, childVars
<1>1. Typed'
  BY TailFacts DEF Typed
<1>2. Replies'
  BY TailFacts DEF Replies, Typed
<1>3. /\ OnePlace' /\ SentWasSubmitted' /\ Progress' /\ Filed' /\ Fresh' /\ Owned' /\ Matched'
      /\ Answered' /\ Returned' /\ Reachable' /\ Cause' /\ CauseReported'
  BY DEF OnePlace, SentWasSubmitted, Progress, Filed, Fresh, Owned, Matched, Answered, Returned,
     Reachable, Cause, CauseReported, Sent, Active
<1> QED
  BY <1>1, <1>2, <1>3

\* The incoming loop ends and leaves its state as it is.
LEMMA IncomingEndsKeeps ==
    ASSUME IInv, IncomingEnds
    PROVE  IInv'
<1> USE DEF IInv, IncomingEnds, callerVars, actorVars, childVars
<1>1. Typed'
  BY DEF Typed
<1>2. Progress'
  BY DEF Progress, Typed, Active
<1>3. /\ OnePlace' /\ SentWasSubmitted' /\ Filed' /\ Fresh' /\ Owned' /\ Replies' /\ Matched'
      /\ Answered' /\ Returned' /\ Reachable' /\ Cause' /\ CauseReported'
  BY DEF OnePlace, SentWasSubmitted, Filed, Fresh, Owned, Replies, Matched, Answered, Returned,
     Reachable, Cause, CauseReported, Sent
<1> QED
  BY <1>1, <1>2, <1>3

\* So does the branch of the select! that waits for the process.
LEMMA ProcessExitedKeeps ==
    ASSUME IInv, ProcessExited
    PROVE  IInv'
<1> USE DEF IInv, ProcessExited, callerVars, actorVars, childVars
<1>1. Typed'
  BY DEF Typed
<1>2. Progress'
  BY DEF Progress, Typed, Active
<1>3. /\ OnePlace' /\ SentWasSubmitted' /\ Filed' /\ Fresh' /\ Owned' /\ Replies' /\ Matched'
      /\ Answered' /\ Returned' /\ Reachable' /\ Cause' /\ CauseReported'
  BY DEF OnePlace, SentWasSubmitted, Filed, Fresh, Owned, Replies, Matched, Answered, Returned,
     Reachable, Cause, CauseReported, Sent
<1> QED
  BY <1>1, <1>2, <1>3

\* Reading stderr moves nothing.
LEMMA ReadStderrKeeps ==
    ASSUME IInv, ReadStderr
    PROVE  IInv'
<1> USE DEF IInv, ReadStderr, callerVars, actorVars, childVars
<1>1. Typed'
  BY DEF Typed
<1>2. Progress'
  BY DEF Progress, Typed, Active
<1>3. /\ OnePlace' /\ SentWasSubmitted' /\ Filed' /\ Fresh' /\ Owned' /\ Replies' /\ Matched'
      /\ Answered' /\ Returned' /\ Reachable' /\ Cause' /\ CauseReported'
  BY DEF OnePlace, SentWasSubmitted, Filed, Fresh, Owned, Replies, Matched, Answered, Returned,
     Reachable, Cause, CauseReported, Sent
<1> QED
  BY <1>1, <1>2, <1>3

\* Without stderr there is no process error to report, which is recorded.
LEMMA ReadStderrFailsKeeps ==
    ASSUME IInv, ReadStderrFails
    PROVE  IInv'
<1> USE DEF IInv, ReadStderrFails, callerVars, actorVars, childVars
<1>1. Typed'
  BY DEF Typed
<1>2. Progress'
  BY DEF Progress, Typed, Active
<1>3. Cause'
  BY DEF Cause, Typed
<1>4. CauseReported'
  BY DEF CauseReported, Typed, Progress
<1>5. /\ OnePlace' /\ SentWasSubmitted' /\ Filed' /\ Fresh' /\ Owned' /\ Replies' /\ Matched'
      /\ Answered' /\ Returned' /\ Reachable'
  BY DEF OnePlace, SentWasSubmitted, Filed, Fresh, Owned, Replies, Matched, Answered, Returned,
     Reachable, Sent
<1> QED
  BY <1>1, <1>2, <1>3, <1>4, <1>5

\* The process error is queued while somebody could still take it.
LEMMA ReportErrorKeeps ==
    ASSUME IInv, ReportError
    PROVE  IInv'
<1> USE DEF IInv, ReportError, callerVars, actorVars, childVars
<1>1. Typed'
  BY DEF Typed
<1>2. Progress'
  BY DEF Progress, Typed, Active
<1>3. Cause'
  BY DEF Cause, Typed
<1>4. CauseReported'
  BY DEF CauseReported, Typed, Progress
<1>5. /\ OnePlace' /\ SentWasSubmitted' /\ Filed' /\ Fresh' /\ Owned' /\ Replies' /\ Matched'
      /\ Answered' /\ Returned' /\ Reachable'
  BY DEF OnePlace, SentWasSubmitted, Filed, Fresh, Owned, Replies, Matched, Answered, Returned,
     Reachable, Sent
<1> QED
  BY <1>1, <1>2, <1>3, <1>4, <1>5

\* Whoever is in the table is told, after the process error was queued.
LEMMA ClearPendingKeeps ==
    ASSUME IInv, ClearPending
    PROVE  IInv'
<1> DEFINE S == Senders(pending)
<1> USE DEF IInv
<1>1. /\ actor = "clear" /\ actor' = "drop"
      /\ answer' = Resolve(answer, S, Closed)
      /\ pending' = NoPending
      /\ UNCHANGED <<callerVars, outgoing, current, channel, errors, stdin, stdout, childVars>>
  BY DEF ClearPending
<1>2. /\ \A c \in Calls \cap S : phase[c] \notin {"idle", "sending"}
      /\ \A c \in Calls \cap S : c \notin Range(channel) /\ (c = current => outgoing # "insert")
  BY TransportAssumption DEF Senders, Filed
<1>3. \A c \in Calls : pending[IdOf[c]] = c => c \in S
  BY KindFacts DEF Senders
<1> HIDE DEF S
<1>4. /\ answer' \in [Calls -> Outcomes]
      /\ Matched' /\ Answered' /\ Returned'
      /\ \A c \in Calls :
            /\ answer'[c] \in {answer[c], Closed}
            /\ answer'[c] = Unresolved <=> answer[c] = Unresolved /\ c \notin S
            /\ answer'[c] # answer[c] => c \in S /\ answer[c] = Unresolved
  BY <1>1, <1>2, CloseFacts DEF callerVars, childVars
<1>5. Typed' /\ Filed'
  BY <1>1, <1>4 DEF Typed, Filed, NoPending, callerVars, childVars
<1>6. Fresh'
  BY <1>1, <1>2, <1>4 DEF Fresh
<1>7. Owned'
  BY <1>1, <1>3, <1>4 DEF Owned, callerVars
<1>8. Reachable'
  <2> SUFFICES ASSUME NEW c \in Calls, answer'[c] = Unresolved, pending[IdOf[c]] = c
               PROVE  FALSE
    BY <1>1, <1>4 DEF Reachable, childVars
  <2> QED
    BY <1>3, <1>4
<1>9. Progress'
  BY <1>1 DEF Progress, Active, callerVars
<1>10. Cause'
  BY <1>1 DEF Cause, Progress, Active, Typed, callerVars
<1>11. OnePlace' /\ SentWasSubmitted' /\ CauseReported' /\ Replies'
  BY <1>1 DEF OnePlace, SentWasSubmitted, Sent, CauseReported, Replies, callerVars, childVars
<1> QED
  BY <1>4, <1>5, <1>6, <1>7, <1>8, <1>9, <1>10, <1>11

\* The end of run() drops the last senders, in the channel and in hand.
LEMMA DropActorKeeps ==
    ASSUME IInv, DropActor
    PROVE  IInv'
<1> DEFINE S == Range(channel) \cup ({current} \ {NoCall})
<1> USE DEF IInv
<1>1. /\ actor = "drop" /\ actor' = "gone"
      /\ answer' = Resolve(answer, S, Closed)
      /\ channel' = <<>> /\ current' = NoCall /\ child' = "exited" /\ closed' = Streams
      /\ pending = NoPending
      /\ UNCHANGED <<callerVars, outgoing, pending, errors, stdin, stdout, received>>
  BY DEF DropActor, Progress
<1>2. \A c \in Calls \cap S : phase[c] \notin {"idle", "sending"}
  BY DEF SentWasSubmitted, Sent
<1>3. /\ Range(channel) \subseteq S
      /\ \A c \in Calls : c = current => c \in S
      /\ \A c \in Calls : pending[IdOf[c]] # c
  BY <1>1, KindFacts, TransportAssumption DEF NoPending
<1> HIDE DEF S
<1>4. /\ answer' \in [Calls -> Outcomes]
      /\ Matched' /\ Answered' /\ Returned'
      /\ \A c \in Calls :
            /\ answer'[c] \in {answer[c], Closed}
            /\ answer'[c] = Unresolved <=> answer[c] = Unresolved /\ c \notin S
  BY <1>1, <1>2, CloseFacts DEF callerVars
<1>5. Typed' /\ Filed'
  BY <1>1, <1>4, EmptyFacts DEF Typed, Filed, NoPending, Streams, callerVars
<1>6. OnePlace' /\ SentWasSubmitted' /\ Fresh'
  BY <1>1, RangeFacts, EmptyFacts, TransportAssumption
     DEF OnePlace, SentWasSubmitted, Sent, Fresh, Typed, callerVars
<1>7. Owned'
  BY <1>1, <1>3, <1>4 DEF Owned, callerVars
<1>8. Reachable'
  BY <1>1, <1>3, <1>4, TransportAssumption DEF Reachable
<1>9. Progress'
  BY <1>1 DEF Progress, Active, callerVars
<1>10. Cause'
  BY <1>1 DEF Cause, Progress, Active, Typed, callerVars
<1>11. CauseReported' /\ Replies'
  BY <1>1 DEF CauseReported, Replies, callerVars
<1> QED
  BY <1>4, <1>5, <1>6, <1>7, <1>8, <1>9, <1>10, <1>11

\* The child reads a message that is in one place only, the pipe.
LEMMA ChildReadsKeeps ==
    ASSUME IInv, ChildReads
    PROVE  IInv'
<1> USE DEF IInv, ChildReads, callerVars, actorVars, childVars
<1>1. Typed'
  BY TailFacts DEF Typed
<1>2. OnePlace'
  BY TailFacts DEF OnePlace, Typed
<1>3. SentWasSubmitted'
  BY TailFacts DEF SentWasSubmitted, Sent, Typed
<1>4. Replies'
  BY TailFacts DEF Replies, Typed, OnePlace
<1>5. Matched'
  BY TailFacts DEF Matched, Typed, OnePlace
<1>6. Reachable'
  BY TailFacts DEF Reachable, Typed
<1>7. /\ Progress' /\ Filed' /\ Fresh' /\ Owned' /\ Answered' /\ Returned' /\ Cause'
      /\ CauseReported'
  BY DEF Progress, Filed, Fresh, Owned, Answered, Returned, Cause, CauseReported, Active
<1> QED
  BY <1>1, <1>2, <1>3, <1>4, <1>5, <1>6, <1>7

\* The child answers what it has read.
LEMMA ChildAnswersKeeps ==
    ASSUME IInv, NEW c \in Calls, ChildAnswers(c)
    PROVE  IInv'
<1> USE DEF IInv, ChildAnswers, StdoutWritable, callerVars, actorVars, childVars
<1>1. Typed'
  BY AppendFacts DEF Typed, Lines
<1>2. Replies'
  BY AppendFacts, LineFacts, OutcomeFacts DEF Replies, Typed, OnePlace
<1>3. /\ OnePlace' /\ SentWasSubmitted' /\ Progress' /\ Filed' /\ Fresh' /\ Owned' /\ Matched'
      /\ Answered' /\ Returned' /\ Reachable' /\ Cause' /\ CauseReported'
  BY DEF OnePlace, SentWasSubmitted, Progress, Filed, Fresh, Owned, Matched, Answered, Returned,
     Reachable, Cause, CauseReported, Sent, Active
<1> QED
  BY <1>1, <1>2, <1>3

\* Other lines of the child answer nobody.
LEMMA ChildPrintsKeeps ==
    ASSUME IInv, ChildPrints
    PROVE  IInv'
<1> USE DEF IInv, ChildPrints, StdoutWritable, callerVars, actorVars, childVars
<1>1. Typed'
  BY AppendFacts DEF Typed, Lines
<1>2. Replies'
  BY AppendFacts, LineFacts DEF Replies, Typed
<1>3. /\ OnePlace' /\ SentWasSubmitted' /\ Progress' /\ Filed' /\ Fresh' /\ Owned' /\ Matched'
      /\ Answered' /\ Returned' /\ Reachable' /\ Cause' /\ CauseReported'
  BY DEF OnePlace, SentWasSubmitted, Progress, Filed, Fresh, Owned, Matched, Answered, Returned,
     Reachable, Cause, CauseReported, Sent, Active
<1> QED
  BY <1>1, <1>2, <1>3

\* Streams that close are no part of the invariant.
LEMMA ChildClosesKeeps ==
    ASSUME IInv, NEW s \in Closable, ChildCloses(s)
    PROVE  IInv'
<1> USE DEF IInv, ChildCloses, callerVars, actorVars, childVars
<1>1. Typed'
  BY StdioAssumption DEF Typed, Streams
<1>2. /\ OnePlace' /\ SentWasSubmitted' /\ Progress' /\ Filed' /\ Fresh' /\ Owned' /\ Replies'
      /\ Matched' /\ Answered' /\ Returned' /\ Reachable' /\ Cause' /\ CauseReported'
  BY DEF OnePlace, SentWasSubmitted, Progress, Filed, Fresh, Owned, Replies, Matched, Answered,
     Returned, Reachable, Cause, CauseReported, Sent, Active
<1> QED
  BY <1>1, <1>2

\* Nor is the exit of the child.
LEMMA ChildExitsKeeps ==
    ASSUME IInv, ChildExits
    PROVE  IInv'
<1> USE DEF IInv, ChildExits, callerVars, actorVars, childVars
<1>1. Typed'
  BY DEF Typed, Streams
<1>2. /\ OnePlace' /\ SentWasSubmitted' /\ Progress' /\ Filed' /\ Fresh' /\ Owned' /\ Replies'
      /\ Matched' /\ Answered' /\ Returned' /\ Reachable' /\ Cause' /\ CauseReported'
  BY DEF OnePlace, SentWasSubmitted, Progress, Filed, Fresh, Owned, Replies, Matched, Answered,
     Returned, Reachable, Cause, CauseReported, Sent, Active
<1> QED
  BY <1>1, <1>2

-----------------------------------------------------------------------------
(* The theorems. *)

\* StdioTransport::start begins in the invariant.
LEMMA InitHolds == Init => IInv
<1> SUFFICES ASSUME Init PROVE IInv
  OBVIOUS
<1> USE DEF Init
<1>1. Typed
  BY OutcomeFacts, EmptyFacts DEF Typed, Phases, NoPending, Streams
<1>2. OnePlace /\ SentWasSubmitted /\ Progress
  BY EmptyFacts, TransportAssumption DEF OnePlace, SentWasSubmitted, Sent, Progress, Active
<1>3. Filed /\ Fresh /\ Owned
  BY EmptyFacts, TransportAssumption DEF Filed, Fresh, Owned, NoPending
<1>4. Replies /\ Matched /\ Answered /\ Returned
  BY EmptyFacts, OutcomeFacts DEF Replies, Matched, Answered, Returned
<1>5. Reachable /\ Cause /\ CauseReported
  BY EmptyFacts, OutcomeFacts, TransportAssumption DEF Reachable, Cause, CauseReported
<1> QED
  BY <1>1, <1>2, <1>3, <1>4, <1>5 DEF IInv

\* A step that changes nothing keeps it.
LEMMA StutterKeeps == IInv /\ UNCHANGED vars => IInv'
  BY DEF IInv, vars, callerVars, actorVars, childVars, Typed, OnePlace, SentWasSubmitted, Sent,
         Progress, Active, Filed, Fresh, Owned, Replies, Matched, Answered, Returned, Reachable,
         Cause, CauseReported

\* Every step keeps it.
LEMMA NextKeeps == IInv /\ [Next]_vars => IInv'
<1> SUFFICES ASSUME IInv, [Next]_vars PROVE IInv'
  OBVIOUS
<1>1. ASSUME NEW c \in Calls, Caller(c) PROVE IInv'
  BY <1>1, SubmitKeeps, EnqueueKeeps, EnqueueFailsKeeps, ReturnKeeps, CancelKeeps DEF Caller
<1>2. CASE DropHandle
  BY <1>2, DropHandleKeeps
<1>3. CASE Outgoing
  BY <1>3, OutgoingRecvKeeps, OutgoingRecvNoneKeeps, OutgoingInsertKeeps, OutgoingWriteKeeps,
     OutgoingFlushKeeps, OutgoingFailsKeeps DEF Outgoing
<1>4. CASE Incoming
  BY <1>4, IncomingReplyKeeps, IncomingSkipKeeps, IncomingEndsKeeps DEF Incoming
<1>5. CASE ProcessExited \/ Teardown \/ ReadStderrFails
  BY <1>5, ProcessExitedKeeps, ReadStderrKeeps, ReadStderrFailsKeeps, ReportErrorKeeps,
     ClearPendingKeeps, DropActorKeeps DEF Teardown
<1>6. CASE Child
  BY <1>6, ChildReadsKeeps, ChildAnswersKeeps, ChildPrintsKeeps, ChildClosesKeeps,
     ChildExitsKeeps DEF Child
<1>7. CASE UNCHANGED vars
  BY <1>7, StutterKeeps
<1> QED
  BY <1>1, <1>2, <1>3, <1>4, <1>5, <1>6, <1>7 DEF Next

\* The inductive invariant holds in every reachable state.
THEOREM Invariance == Spec => []IInv
  BY InitHolds, NextKeeps, PTL DEF Spec

\* Every variable keeps its type and the cleared table stays empty, whatever the
\* calls, kinds, ids and capacities.
THEOREM TypeCorrect == Spec => []TypeOK
<1>1. IInv => TypeOK
  BY DEF IInv, TypeOK, Progress
<1> QED
  BY <1>1, Invariance, PTL

\* A caller with an id of its own only ever gets the reply to its own request
\* (mod.rs:112).
THEOREM RepliesGoToTheirCallers == Spec => []NoCrossTalk
<1>1. IInv => NoCrossTalk
  <2> SUFFICES ASSUME IInv, NEW c \in Calls, NEW d \in Calls, OwnId(c), result[c] = Reply(d)
               PROVE  c = d
    BY DEF NoCrossTalk
  <2>1. answer[c] = Reply(d)
    BY OutcomeFacts DEF IInv, Returned
  <2>2. Kind[d] = "request" /\ IdOf[d] = IdOf[c]
    BY <2>1 DEF IInv, Matched
  <2> QED
    BY <2>2 DEF OwnId
<1> QED
  BY <1>1, Invariance, PTL

\* A request in the child's hands can be answered: its caller is filed
\* (stdio.rs:135).
THEOREM RepliesFindTheirCallers == Spec => []NoLostReply
<1>1. IInv => NoLostReply
  BY DEF IInv, Reachable, NoLostReply
<1> QED
  BY <1>1, Invariance, PTL

\* When the actor is gone nobody waits for it (stdio.rs:68-72).
THEOREM NoCallerIsStranded == Spec => []NobodyLeftWaiting
<1>1. IInv => NobodyLeftWaiting
  <2> SUFFICES ASSUME IInv, actor = "gone", NEW c \in Calls, phase[c] = "waiting",
                      answer[c] = Unresolved
               PROVE  FALSE
    BY DEF NobodyLeftWaiting
  <2>1. channel = <<>> /\ current = NoCall /\ pending = NoPending
    BY DEF IInv, Progress
  <2> QED
    BY <2>1, EmptyFacts, KindFacts, TransportAssumption DEF IInv, Owned, NoPending
<1> QED
  BY <1>1, Invariance, PTL

\* A closed channel is never the first sign of a dead process (stdio.rs:64-71).
THEOREM ProcessErrorComesFirst == Spec => []CauseReported
<1>1. IInv => CauseReported
  BY DEF IInv
<1> QED
  BY <1>1, Invariance, PTL

\* A call that returned has no entry left in the table (mod.rs:112-120).
THEOREM ReturnedCallsAreForgotten == Spec => []ReturnedLeavesNoEntry
<1>1. IInv => ReturnedLeavesNoEntry
  BY TransportAssumption DEF IInv, Filed, ReturnedLeavesNoEntry, Senders
<1> QED
  BY <1>1, Invariance, PTL

-----------------------------------------------------------------------------
(* The transport implements the promise of RequestReply. *)

\* The outcomes of the promise are those of the transport.
LEMMA SameOutcomes ==
    /\ Promise!Unresolved = Unresolved /\ Promise!Nil = Nil /\ Promise!Failures = Failures
    /\ \A d \in Calls : Promise!Reply(d) = Reply(d)
  BY DEF Promise!Unresolved, Promise!Nil, Promise!Failures, Promise!Reply, Promise!Outcome,
         Promise!Closed, Promise!ProcessError, Promise!NotConnected, Promise!Unsupported,
         Unresolved, Nil, Failures, Reply, Outcome, Closed, ProcessError, NotConnected, Unsupported

\* What a returned call may say: an answer the caller waits for is permitted.
LEMMA AnswersArePermitted ==
    ASSUME IInv, NEW c \in Calls, answer[c] # Unresolved
    PROVE  answer[c] \in Promise!Permitted(c) /\ ProcessError \in Promise!Permitted(c)
<1> USE DEF IInv
<1>1. answer[c] \in {Nil} \cup Failures \cup {Reply(d) : d \in Calls}
  BY DEF Typed, Outcomes
<1>2. CASE answer[c] = Nil
  BY <1>2, OutcomeFacts, SameOutcomes DEF Answered, Promise!Permitted
<1>3. CASE answer[c] \in Failures
  BY <1>3, OutcomeFacts, SameOutcomes DEF Promise!Permitted
<1>4. ASSUME NEW d \in Calls, answer[c] = Reply(d)
      PROVE  answer[c] \in Promise!Permitted(c) /\ ProcessError \in Promise!Permitted(c)
  BY <1>4, OutcomeFacts, SameOutcomes DEF Matched, Promise!Permitted
<1> QED
  BY <1>1, <1>2, <1>3, <1>4

\* The steps of other tasks than the callers and the child's reads do not show.
LEMMA HiddenStep ==
    ASSUME UNCHANGED <<result, received>>,
           \A c \in Calls : phase'[c] = phase[c] \/ (Active(c) /\ Active(c)')
    PROVE  UNCHANGED Promise!vars
  BY DEF Promise!vars, Active

\* Under the invariant every step is a step of RequestReply, or a stutter there.
LEMMA StepsImplement ==
    ASSUME IInv, [Next]_vars
    PROVE  [Promise!Next]_(Promise!vars)
<1> USE DEF IInv, Typed
<1>1. ASSUME NEW c \in Calls, Submit(c)
      PROVE  Promise!Start(c)
  BY <1>1 DEF Submit, Active, Promise!Start, childVars
<1>2. ASSUME NEW c \in Calls, Enqueue(c) \/ EnqueueFails(c)
      PROVE  UNCHANGED Promise!vars
  BY <1>2, HiddenStep DEF Enqueue, EnqueueFails, Active, childVars
<1>3. ASSUME NEW c \in Calls, Return(c)
      PROVE  Promise!Return(c)
  <2>1. result'[c] \in Promise!Permitted(c)
    BY <1>3, AnswersArePermitted DEF Return
  <2>2. result' = [result EXCEPT ![c] = result'[c]]
    BY <1>3 DEF Return
  <2>3. \E r \in Promise!Permitted(c) : result' = [result EXCEPT ![c] = r]
    BY <2>1, <2>2
  <2> QED
    BY <1>3, <2>3 DEF Return, Active, Promise!Return, childVars
<1>4. ASSUME NEW c \in Calls, Cancel(c)
      PROVE  Promise!Cancel(c)
  BY <1>4 DEF Cancel, Active, Promise!Cancel, childVars
<1>5. ASSUME ChildReads
      PROVE  \E c \in Calls : Promise!Deliver(c)
  <2> DEFINE c == Head(stdin)
  <2>1. c \in Calls /\ c \in Range(stdin)
    BY <1>5, TailFacts DEF ChildReads
  <2>2. phase[c] # "idle" /\ Kind[c] # "other" /\ received[c] = 0
    BY <2>1 DEF OnePlace, SentWasSubmitted, Sent
  <2>3. received' = [received EXCEPT ![c] = 1]
    BY <1>5, <2>1, <2>2 DEF ChildReads
  <2>4. UNCHANGED <<phase, result>>
    BY <1>5 DEF ChildReads, callerVars
  <2> HIDE DEF c
  <2>5. Promise!Deliver(c)
    BY <2>1, <2>2, <2>3, <2>4 DEF Promise!Deliver, Active
  <2> QED
    BY <2>1, <2>5
<1>6. CASE DropHandle
  BY <1>6, HiddenStep DEF DropHandle, childVars
<1>7. CASE Outgoing
  BY <1>7, HiddenStep DEF Outgoing, OutgoingRecv, OutgoingRecvNone, OutgoingInsert, OutgoingWrite,
     OutgoingFlush, OutgoingFails, callerVars, childVars
<1>8. CASE Incoming
  BY <1>8, HiddenStep DEF Incoming, IncomingReply, IncomingSkip, IncomingEnds, callerVars,
     childVars
<1>9. CASE ProcessExited \/ Teardown \/ ReadStderrFails
  BY <1>9, HiddenStep DEF Teardown, ProcessExited, ReadStderr, ReadStderrFails, ReportError,
     ClearPending, DropActor, callerVars, childVars
<1>10. CASE Child /\ ~ChildReads
  BY <1>10, HiddenStep DEF Child, ChildAnswers, ChildPrints, ChildCloses, ChildExits,
     callerVars, childVars
<1>11. CASE UNCHANGED vars
  BY <1>11, HiddenStep DEF vars, callerVars, childVars
<1> QED
  BY <1>1, <1>2, <1>3, <1>4, <1>5, <1>6, <1>7, <1>8, <1>9, <1>10, <1>11
     DEF Next, Caller, Child, Promise!Next

\* Whatever the child does, send keeps the promise of RequestReply: at most one
\* delivery, and a request returns an error or a reply to its id that the peer
\* gave after it received the request.
THEOREM TransportKeepsPromise == Spec => KeepsPromise
<1>1. Init => Promise!Init
  BY SameOutcomes DEF Init, Promise!Init, Active
<1> QED
  BY <1>1, StepsImplement, Invariance, PTL DEF Spec, KeepsPromise, Promise!Spec

=============================================================================
