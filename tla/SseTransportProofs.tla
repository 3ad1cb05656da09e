------------------------- MODULE SseTransportProofs -------------------------
(***************************************************************************)
(* Machine-checked proofs about SseTransport: its type invariant, its      *)
(* safety invariants and its refinement of RequestReply, for any set of    *)
(* calls, any assignment of kinds and ids, any capacities and any number   *)
(* of polls for the endpoint.                                              *)
(***************************************************************************)
EXTENDS SseTransport, QueueFacts, TLAPS

-----------------------------------------------------------------------------
(* The inductive invariant, in named parts. *)

\* A message is in one place at most: the channel, the hands of the outgoing
\* loop, or with the server.
OnePlace ==
    /\ IsInjective(channel)
    /\ current \notin Range(channel)
    /\ \A c \in Range(channel) : received[c] = 0
    /\ \A c \in Calls : c = current => received[c] = 0
    /\ \A c \in Calls : received[c] \in {0, 1}

Sent(c) == c \in Range(channel) \/ c = current \/ received[c] > 0

\* Only submitted messages of a kind that can be sent are on their way.
SentWasSubmitted ==
    \A c \in Calls :
        /\ Sent(c) => phase[c] \notin {"idle", "sending"}
        /\ Sent(c) \/ phase[c] = "sending" => Kind[c] # "other"

\* How far the outgoing loop and the handle are.
Progress ==
    /\ current # NoCall <=> outgoing \in {"insert", "post"}
    /\ outgoing = "ended" => channel = <<>>
    /\ handle = "starting" => \A c \in Calls : phase[c] = "idle"
    /\ handle # "open" => \A c \in Calls : ~Active(c)

\* A sender in the table is filed under the id of its request and unresolved.
Filed ==
    \A i \in Ids : pending[i] # NoCall =>
        /\ Kind[pending[i]] = "request"
        /\ IdOf[pending[i]] = i
        /\ answer[pending[i]] = Unresolved
        /\ phase[pending[i]] \in {"waiting", "cancelled"}
        /\ pending[i] \notin Range(channel)
        /\ pending[i] = current => outgoing = "post"

\* A sender that is not filed yet is unresolved.
Fresh ==
    \A c \in Calls :
        /\ c \in Range(channel) \/ (c = current /\ outgoing = "insert")
        /\ Kind[c] # "notification"
        => answer[c] = Unresolved

\* The server only answers requests it has got.
Replies ==
    \A d \in Calls : Reply(d) \in Range(stream) => received[d] = 1 /\ Kind[d] = "request"

\* A caller's oneshot holds a reply to a request with the caller's id.
Matched ==
    \A c, d \in Calls : answer[c] = Reply(d) =>
        /\ received[d] = 1
        /\ Kind[c] = "request" /\ Kind[d] = "request"
        /\ IdOf[c] = IdOf[d]

\* Nil is for notifications, and nothing is known before the message is sent.
Answered ==
    \A c \in Calls :
        /\ answer[c] = Nil => Kind[c] = "notification"
        /\ phase[c] \in {"idle", "sending"} => answer[c] = Unresolved

\* A message that was refused is nowhere any more.
Refused == \A c \in Calls : answer[c] = NotConnected => ~Sent(c)

Returned ==
    \A c \in Calls :
        /\ phase[c] = "done" => result[c] = answer[c] /\ answer[c] # Unresolved
        /\ phase[c] # "done" => result[c] = Unresolved

IInv ==
    /\ Typed /\ OnePlace /\ SentWasSubmitted /\ Progress /\ Filed /\ Fresh
    /\ Replies /\ Matched /\ Answered /\ Refused /\ Returned /\ NoLostReply

-----------------------------------------------------------------------------
(* Facts about outcomes, events and kinds. *)

\* The outcomes of a call are told apart by their tags, replies by their calls.
LEMMA OutcomeFacts ==
    /\ {Unresolved, Nil} \cup Failures \subseteq Outcomes
    /\ Failures = {Closed, ProcessError, NotConnected, Unsupported}
    /\ \A d \in Calls : Reply(d) \in Outcomes \ ({Unresolved, Nil} \cup Failures)
    /\ \A c, d \in Calls : Reply(c) = Reply(d) => c = d
    /\ Unresolved \notin {Nil} \cup Failures /\ Nil \notin Failures
    /\ NotConnected \notin {Closed, Unsupported}
  BY DEF Outcomes, Outcome, Reply, Unresolved, Nil, Closed, ProcessError,
         NotConnected, Unsupported, Failures

\* What an event of the stream is.
LEMMA EventFacts ==
    /\ \A d \in Calls : Reply(d) \in Items /\ Reply(d).tag = "reply"
    /\ \A n \in Events : /\ Outcome(n, NoCall) \in Items
                        /\ \A d \in Calls : Outcome(n, NoCall) # Reply(d)
    /\ \A e \in Items : e.tag = "reply" => e.to \in Calls /\ e = Reply(e.to)
  BY SseAssumption DEF Outcome, Reply, Items

\* Every call has a kind and an id.
LEMMA KindFacts == \A c \in Calls : Kind[c] \in Kinds /\ IdOf[c] \in Ids
  BY TransportAssumption

\* Resolving oneshots with an outcome touches those of the set that were open.
LEMMA ResolveFacts ==
    ASSUME answer \in [Calls -> Outcomes], NEW S, NEW o \in Outcomes, o # Unresolved
    PROVE  /\ Resolve(answer, S, o) \in [Calls -> Outcomes]
           /\ \A c \in Calls :
                /\ answer[c] # Unresolved \/ c \notin S => Resolve(answer, S, o)[c] = answer[c]
                /\ answer[c] = Unresolved /\ c \in S => Resolve(answer, S, o)[c] = o
  BY DEF Resolve

\* Ending the wait for messages that were sent, with a failure, leaves what is
\* known of answers true.
LEMMA FailFacts ==
    ASSUME IInv, NEW S, NEW o \in Failures, answer' = Resolve(answer, S, o),
           UNCHANGED <<phase, result, received>>,
           \A c \in Calls \cap S : phase[c] \notin {"idle", "sending"}
    PROVE  /\ answer' \in [Calls -> Outcomes]
           /\ Matched' /\ Answered' /\ Returned'
           /\ \A c \in Calls :
                /\ answer'[c] \in {answer[c], o}
                /\ answer'[c] = Unresolved <=> answer[c] = Unresolved /\ c \notin S
                /\ answer'[c] # answer[c] => c \in S /\ answer[c] = Unresolved
<1> USE DEF IInv
<1>1. answer \in [Calls -> Outcomes] /\ o \in Outcomes /\ o # Unresolved
  BY OutcomeFacts DEF Typed
<1>2. answer' \in [Calls -> Outcomes]
  BY <1>1, ResolveFacts
<1>3. \A c \in Calls :
        /\ answer[c] # Unresolved \/ c \notin S => answer'[c] = answer[c]
        /\ answer[c] = Unresolved /\ c \in S => answer'[c] = o
  BY <1>1, ResolveFacts
<1>4. Matched'
  BY <1>3, OutcomeFacts DEF Matched
<1>5. Answered'
  BY <1>3, OutcomeFacts DEF Answered
<1>6. Returned'
  BY <1>1, <1>3 DEF Returned
<1> QED
  BY <1>1, <1>2, <1>3, <1>4, <1>5, <1>6

-----------------------------------------------------------------------------
(* Every step keeps the invariant. *)

\* Nothing was submitted while start polls.
LEMMA StartKeeps ==
    ASSUME IInv, Start
    PROVE  IInv'
<1> USE DEF IInv, callerVars, startVars, serverVars
<1> USE DEF Start, PollAgain, StartReturns, StartTimesOut
<1>1. Typed'
  <2>1. CASE PollAgain
    <3>1. attempts + 1 \in 0..MaxAttempts
      BY <2>1, SseAssumption DEF Typed
    <3> QED
      BY <2>1, <3>1 DEF Typed
  <2>2. CASE StartReturns \/ StartTimesOut
    BY <2>2 DEF Typed
  <2> QED
    BY <2>1, <2>2
<1>2. Progress'
  BY DEF Progress, Typed, Active
<1>3. /\ OnePlace' /\ SentWasSubmitted' /\ Filed' /\ Fresh' /\ Replies' /\ Matched'
      /\ Answered' /\ Refused' /\ Returned' /\ NoLostReply'
  BY DEF OnePlace, SentWasSubmitted, Filed, Fresh, Replies, Matched, Answered, Refused, Returned,
     NoLostReply, Sent
<1> QED
  BY <1>1, <1>2, <1>3

\* A submitted message is nowhere yet; one of a refused kind has its answer.
LEMMA SubmitKeeps ==
    ASSUME IInv, NEW c \in Calls, Submit(c)
    PROVE  IInv'
<1> USE DEF IInv
<1>1. /\ phase[c] = "idle" /\ handle = "open"
      /\ phase'[c] \in {"sending", "waiting"}
      /\ phase'[c] = "sending" => Kind[c] # "other" /\ answer'[c] = answer[c]
      /\ phase'[c] = "waiting" => answer'[c] = Unsupported
      /\ \A d \in Calls \ {c} : phase'[d] = phase[d] /\ answer'[d] = answer[d]
      /\ UNCHANGED <<result, handle, outgoing, current, channel, pending, stream, received>>
  BY DEF Submit, Typed, startVars, serverVars
<1>2. Typed'
  <2>1. phase' \in [Calls -> {"idle", "sending", "waiting", "done", "cancelled"}]
    BY DEF Submit, Typed
  <2>2. answer' \in [Calls -> Outcomes]
    <3>1. answer' = answer \/ answer' = [answer EXCEPT ![c] = Unsupported]
      BY DEF Submit
    <3>2. answer \in [Calls -> Outcomes] /\ Unsupported \in Outcomes
      BY OutcomeFacts DEF Typed
    <3> QED
      BY <3>1, <3>2
  <2> QED
    BY <2>1, <2>2 DEF Submit, Typed, startVars, serverVars
<1>3. ~Sent(c)
  BY <1>1 DEF SentWasSubmitted
<1>4. \A i \in Ids : pending[i] # NoCall => pending[i] \in Calls \ {c}
  BY <1>1 DEF Filed, Typed
<1>5. SentWasSubmitted' /\ Refused'
  BY <1>1, <1>3, OutcomeFacts DEF SentWasSubmitted, Refused, Sent
<1>6. Filed'
  BY <1>1, <1>4 DEF Filed
<1>7. Fresh'
  BY <1>1, <1>3 DEF Fresh, Sent
<1>8. Matched' /\ Answered' /\ Returned'
  BY <1>1, OutcomeFacts DEF Matched, Answered, Returned
<1>9. NoLostReply'
  BY <1>1, <1>3 DEF NoLostReply, Sent
<1>10. OnePlace' /\ Progress' /\ Replies'
  BY <1>1 DEF OnePlace, Progress, Active, Replies
<1> QED
  BY <1>2, <1>5, <1>6, <1>7, <1>8, <1>9, <1>10

\* The channel takes the sender of a request over from its caller.
LEMMA EnqueueKeeps ==
    ASSUME IInv, NEW c \in Calls, Enqueue(c)
    PROVE  IInv'
<1> USE DEF IInv, Enqueue, callerVars, startVars, serverVars
<1>1. Typed'
  BY AppendFacts, OutcomeFacts DEF Typed
<1>2. OnePlace'
  BY AppendFacts, TransportAssumption DEF OnePlace, Typed, SentWasSubmitted, Sent
<1>3. SentWasSubmitted'
  BY AppendFacts DEF SentWasSubmitted, Sent, Typed
<1>4. Progress'
  BY DEF Progress, Typed, Active
<1>5. Filed'
  BY AppendFacts DEF Filed, Typed
<1>6. Fresh'
  BY AppendFacts DEF Fresh, Typed, Answered, SentWasSubmitted, Sent
<1>7. Matched'
  BY OutcomeFacts DEF Matched, Typed
<1>8. Answered'
  BY OutcomeFacts DEF Answered, Typed
<1>9. Refused'
  BY AppendFacts, OutcomeFacts DEF Refused, Sent, Typed, Answered
<1>10. Returned'
  BY DEF Returned, Typed
<1>11. NoLostReply'
  BY OutcomeFacts DEF NoLostReply, Typed
<1>12. Replies'
  BY DEF Replies
<1> QED
  BY <1>1, <1>2, <1>3, <1>4, <1>5, <1>6, <1>7, <1>8, <1>9, <1>10, <1>11, <1>12

\* A message the channel does not take is answered at once.
LEMMA EnqueueFailsKeeps ==
    ASSUME IInv, NEW c \in Calls, EnqueueFails(c)
    PROVE  IInv'
<1> USE DEF IInv, EnqueueFails, callerVars, startVars, serverVars
<1>1. Typed'
  BY OutcomeFacts DEF Typed
<1>2. SentWasSubmitted'
  BY DEF SentWasSubmitted, Sent, Typed
<1>3. Progress'
  BY DEF Progress, Typed, Active
<1>4. Filed'
  BY DEF Filed, Typed
<1>5. Fresh'
  BY DEF Fresh, Typed, SentWasSubmitted, Sent
<1>6. Matched'
  BY OutcomeFacts DEF Matched, Typed
<1>7. Answered'
  BY OutcomeFacts DEF Answered, Typed
<1>8. Refused'
  BY OutcomeFacts DEF Refused, Sent, Typed
<1>9. Returned'
  BY DEF Returned, Typed
<1>10. NoLostReply'
  BY OutcomeFacts DEF NoLostReply, Typed
<1>11. OnePlace' /\ Replies'
  BY DEF OnePlace, Replies
<1> QED
  BY <1>1, <1>2, <1>3, <1>4, <1>5, <1>6, <1>7, <1>8, <1>9, <1>10, <1>11

\* A caller that returns has its answer.
LEMMA ReturnKeeps ==
    ASSUME IInv, NEW c \in Calls, Return(c)
    PROVE  IInv'
<1> USE DEF IInv, Return, callerVars, startVars, serverVars
<1>1. Typed'
  BY OutcomeFacts DEF Typed
<1>2. SentWasSubmitted'
  BY DEF SentWasSubmitted, Sent, Typed
<1>3. Progress'
  BY DEF Progress, Typed, Active
<1>4. Filed'
  BY DEF Filed, Typed
<1>5. Answered'
  BY DEF Answered, Typed
<1>6. Returned'
  BY DEF Returned, Typed
<1>7. OnePlace' /\ Fresh' /\ Replies' /\ Matched' /\ Refused' /\ NoLostReply'
  BY DEF OnePlace, Fresh, Replies, Matched, Refused, Sent, NoLostReply
<1> QED
  BY <1>1, <1>2, <1>3, <1>4, <1>5, <1>6, <1>7

\* A caller that gives up leaves its message where it is.
LEMMA CancelKeeps ==
    ASSUME IInv, NEW c \in Calls, Cancel(c)
    PROVE  IInv'
<1> USE DEF IInv, Cancel, Active, callerVars, startVars, serverVars
<1>1. Typed'
  BY DEF Typed
<1>2. SentWasSubmitted'
  BY DEF SentWasSubmitted, Sent, Typed
<1>3. Progress'
  BY DEF Progress, Typed
<1>4. Filed'
  BY DEF Filed, Typed
<1>5. Answered'
  BY DEF Answered, Typed
<1>6. Returned'
  BY DEF Returned, Typed
<1>7. OnePlace' /\ Fresh' /\ Replies' /\ Matched' /\ Refused' /\ NoLostReply'
  BY DEF OnePlace, Fresh, Replies, Matched, Refused, Sent, NoLostReply
<1> QED
  BY <1>1, <1>2, <1>3, <1>4, <1>5, <1>6, <1>7

\* The handle goes only when nobody uses it.
LEMMA DropHandleKeeps ==
    ASSUME IInv, DropHandle
    PROVE  IInv'
<1> USE DEF IInv, DropHandle, callerVars, startVars, serverVars
<1>1. Typed'
  BY DEF Typed
<1>2. Progress'
  BY DEF Progress, Typed, Active
<1>3. /\ OnePlace' /\ SentWasSubmitted' /\ Filed' /\ Fresh' /\ Replies' /\ Matched'
      /\ Answered' /\ Refused' /\ Returned' /\ NoLostReply'
  BY DEF OnePlace, SentWasSubmitted, Filed, Fresh, Replies, Matched, Answered, Refused, Returned,
     NoLostReply, Sent
<1> QED
  BY <1>1, <1>2, <1>3

\* With an endpoint, a message moves from the channel to the hands of the
\* outgoing loop.
LEMMA MessageTakenKeeps ==
    ASSUME IInv, OutgoingRecv, endpoint
    PROVE  IInv'
<1> USE DEF IInv, OutgoingRecv, callerVars, startVars, serverVars
<1>1. Typed'
  BY TailFacts DEF Typed
<1>2. OnePlace'
  BY TailFacts DEF OnePlace, Typed
<1>3. SentWasSubmitted'
  BY TailFacts DEF SentWasSubmitted, Sent, Typed
<1>4. Progress'
  BY TailFacts, TransportAssumption DEF Progress, Typed, Active
<1>5. Filed'
  BY TailFacts DEF Filed, Typed
<1>6. Fresh'
  BY TailFacts DEF Fresh, Typed
<1>7. Refused'
  BY TailFacts DEF Refused, Sent, Typed
<1>8. NoLostReply'
  BY DEF NoLostReply, Typed
<1>9. Replies' /\ Matched' /\ Answered' /\ Returned'
  BY DEF Replies, Matched, Answered, Returned
<1> QED
  BY <1>1, <1>2, <1>3, <1>4, <1>5, <1>6, <1>7, <1>8, <1>9

\* Without one, its sender is told so and the message is gone.
LEMMA MessageRefusedKeeps ==
    ASSUME IInv, OutgoingRecv, ~endpoint
    PROVE  IInv'
<1> DEFINE h == Head(channel)
<1> USE DEF IInv
<1>1. /\ outgoing = "recv" /\ channel # <<>>
      /\ channel' = Tail(channel)
      /\ answer' = Resolve(answer, {h}, NotConnected)
      /\ UNCHANGED <<callerVars, startVars, endpoint, incoming, outgoing, current, pending, stream,
                     serverVars>>
  BY DEF OutgoingRecv
<1>2. /\ h \in Calls /\ h \in Range(channel)
      /\ channel' \in Seq(Calls) /\ Range(channel') \subseteq Range(channel)
      /\ IsInjective(channel') /\ h \notin Range(channel')
  BY <1>1, TailFacts DEF Typed, OnePlace
<1>3. h # current /\ received[h] = 0 /\ phase[h] \notin {"idle", "sending"}
  BY <1>2 DEF OnePlace, SentWasSubmitted, Sent
<1> DEFINE S == {h}
<1> HIDE DEF h
<1>4. /\ NotConnected \in Failures
      /\ \A c \in Calls \cap S : phase[c] \notin {"idle", "sending"}
      /\ \A c \in Calls : c \in S <=> c = h
  BY <1>3, OutcomeFacts
<1> HIDE DEF S
<1>5. /\ answer' \in [Calls -> Outcomes]
      /\ Matched' /\ Answered' /\ Returned'
      /\ \A c \in Calls :
            /\ answer'[c] \in {answer[c], NotConnected}
            /\ answer'[c] = Unresolved <=> answer[c] = Unresolved /\ c # h
            /\ answer'[c] # answer[c] => c = h /\ answer[c] = Unresolved
  <2>1. answer' = Resolve(answer, S, NotConnected)
    BY <1>1 DEF S
  <2>2. /\ answer' \in [Calls -> Outcomes]
        /\ Matched' /\ Answered' /\ Returned'
        /\ \A c \in Calls :
            /\ answer'[c] \in {answer[c], NotConnected}
            /\ answer'[c] = Unresolved <=> answer[c] = Unresolved /\ c \notin S
            /\ answer'[c] # answer[c] => c \in S /\ answer[c] = Unresolved
    BY <1>1, <1>4, <2>1, FailFacts DEF callerVars, serverVars
  <2> QED
    BY <1>4, <2>2
<1>6. Typed'
  BY <1>1, <1>2, <1>5 DEF Typed, callerVars, startVars, serverVars
<1>7. OnePlace' /\ SentWasSubmitted'
  BY <1>1, <1>2 DEF OnePlace, SentWasSubmitted, Sent, callerVars, serverVars
<1>8. Progress'
  BY <1>1 DEF Progress, Active, callerVars, startVars
<1>9. Filed'
  <2> SUFFICES ASSUME NEW i \in Ids, pending[i] # NoCall
               PROVE  answer'[pending[i]] = Unresolved /\ pending[i] \notin Range(channel')
    BY <1>1 DEF Filed, callerVars
  <2>1. pending[i] \in Calls /\ pending[i] # h
    BY <1>2 DEF Filed, Typed
  <2> QED
    BY <1>2, <1>5, <2>1 DEF Filed
<1>10. Fresh'
  BY <1>1, <1>2, <1>3, <1>5 DEF Fresh
<1>11. Refused'
  <2> SUFFICES ASSUME NEW c \in Calls, answer'[c] = NotConnected, Sent(c)'
               PROVE  FALSE
    BY DEF Refused
  <2>1. Sent(c)
    BY <1>1, <1>2 DEF Sent, serverVars
  <2>2. c = h
    BY <1>5, <2>1 DEF Refused
  <2> QED
    BY <1>1, <1>2, <1>3, <2>2 DEF Sent, serverVars
<1>12. NoLostReply' /\ Replies'
  BY <1>1, <1>5 DEF NoLostReply, Replies, serverVars
<1> QED
  BY <1>5, <1>6, <1>7, <1>8, <1>9, <1>10, <1>11, <1>12

\* Clearing the table closes the oneshots in it and in nobody else's hands.
LEMMA ClearFacts ==
    ASSUME IInv, UNCHANGED <<callerVars, startVars, endpoint, serverVars>>,
           answer' = Resolve(answer, Senders(pending), Closed),
           pending' = NoPending,
           UNCHANGED <<channel, current>>
    PROVE  /\ answer' \in [Calls -> Outcomes] /\ pending' \in [Ids -> Calls \cup {NoCall}]
           /\ OnePlace' /\ SentWasSubmitted' /\ Filed'
           /\ Matched' /\ Answered' /\ Refused' /\ Returned'
           /\ outgoing' \in {outgoing, "ended"} => Fresh' /\ NoLostReply'
<1> DEFINE S == Senders(pending)
<1> USE DEF IInv
<1>1. \A c \in Calls \cap S : phase[c] \notin {"idle", "sending"}
  BY TransportAssumption DEF Senders, Filed
<1>2. \A c \in Calls \cap S : c \notin Range(channel) /\ (c = current => outgoing = "post")
  BY TransportAssumption DEF Senders, Filed
<1>3. \A c \in Calls : pending[IdOf[c]] = c => c \in S
  BY KindFacts DEF Senders
<1> HIDE DEF S
<1>4. Closed \in Failures /\ answer' = Resolve(answer, S, Closed)
  BY OutcomeFacts DEF S
<1>5. /\ answer' \in [Calls -> Outcomes]
      /\ Matched' /\ Answered' /\ Returned'
      /\ \A c \in Calls :
            /\ answer'[c] \in {answer[c], Closed}
            /\ answer'[c] = Unresolved <=> answer[c] = Unresolved /\ c \notin S
            /\ answer'[c] # answer[c] => c \in S /\ answer[c] = Unresolved
  BY <1>1, <1>4, FailFacts DEF callerVars, serverVars
<1>6. pending' \in [Ids -> Calls \cup {NoCall}] /\ Filed'
  BY DEF Filed, NoPending
<1>7. OnePlace' /\ SentWasSubmitted'
  BY DEF OnePlace, SentWasSubmitted, Sent, callerVars, serverVars
<1>8. Refused'
  BY <1>5, OutcomeFacts DEF Refused, Sent, serverVars
<1>9. outgoing' \in {outgoing, "ended"} => Fresh'
  BY <1>2, <1>5 DEF Fresh
<1>10. ASSUME outgoing' \in {outgoing, "ended"}
       PROVE  NoLostReply'
  <2> SUFFICES ASSUME NEW c \in Calls, answer'[c] = Unresolved, pending[IdOf[c]] = c
               PROVE  FALSE
    BY <1>5, <1>10 DEF NoLostReply, serverVars
  <2> QED
    BY <1>3, <1>5
<1> QED
  BY <1>5, <1>6, <1>7, <1>8, <1>9, <1>10

\* The outgoing loop ends with an empty channel and an empty table.
LEMMA OutgoingRecvNoneKeeps ==
    ASSUME IInv, OutgoingRecvNone
    PROVE  IInv'
<1> USE DEF IInv
<1>1. /\ outgoing = "recv" /\ channel = <<>> /\ handle = "dropped" /\ outgoing' = "ended"
      /\ answer' = Resolve(answer, Senders(pending), Closed)
      /\ pending' = NoPending
      /\ UNCHANGED <<callerVars, startVars, endpoint, incoming, current, channel, stream,
                     serverVars>>
  BY DEF OutgoingRecvNone
<1>2. /\ answer' \in [Calls -> Outcomes] /\ pending' \in [Ids -> Calls \cup {NoCall}]
      /\ OnePlace' /\ SentWasSubmitted' /\ Filed'
      /\ Matched' /\ Answered' /\ Refused' /\ Returned' /\ Fresh' /\ NoLostReply'
  BY <1>1, ClearFacts
<1>3. Typed'
  BY <1>1, <1>2 DEF Typed, callerVars, startVars, serverVars
<1>4. Progress' /\ Replies'
  BY <1>1 DEF Progress, Replies, Active, callerVars, startVars, serverVars
<1> QED
  BY <1>2, <1>3, <1>4

\* A request moves to the table, and whoever it displaces is told so.
LEMMA OutgoingInsertKeeps ==
    ASSUME IInv, OutgoingInsert
    PROVE  IInv'
<1> DEFINE S == IF Kind[current] = "request" THEN Displaced(pending, current) ELSE {current}
<1> USE DEF IInv
<1>1. /\ outgoing = "insert" /\ outgoing' = "post"
      /\ pending' = IF Kind[current] = "request" THEN InsertPending(pending, current) ELSE pending
      /\ answer' = Resolve(answer, S, Closed)
      /\ UNCHANGED <<callerVars, startVars, endpoint, incoming, current, channel, stream,
                     serverVars>>
  BY DEF OutgoingInsert
<1>2. current \in Calls /\ IdOf[current] \in Ids /\ Sent(current)
  BY <1>1, TransportAssumption DEF Typed, Progress, Sent
<1>3. \A i \in Ids : pending[i] # NoCall => pending[i] # current /\ pending[i] \in Calls
  BY <1>1 DEF Filed, Typed
<1>4. /\ Kind[current] = "request" =>
            /\ \A c \in Calls : c \in S <=> c = pending[IdOf[current]]
            /\ current \notin S
            /\ \A i \in Ids : pending'[i] = IF i = IdOf[current] THEN current ELSE pending[i]
      /\ Kind[current] # "request" => S = {current} /\ pending' = pending
  BY <1>1, <1>2, <1>3, TransportAssumption DEF Displaced, InsertPending, Typed
<1>5. \A c \in Calls \cap S : phase[c] \notin {"idle", "sending"} /\ c \notin Range(channel)
  BY <1>2, <1>4, TransportAssumption DEF Filed, SentWasSubmitted, OnePlace
<1> HIDE DEF S
<1>6. Closed \in Failures
  BY OutcomeFacts
<1>7. /\ answer' \in [Calls -> Outcomes]
      /\ Matched' /\ Answered' /\ Returned'
      /\ \A c \in Calls :
            /\ answer'[c] \in {answer[c], Closed}
            /\ answer'[c] = Unresolved <=> answer[c] = Unresolved /\ c \notin S
            /\ answer'[c] # answer[c] => c \in S /\ answer[c] = Unresolved
  BY <1>1, <1>5, <1>6, FailFacts DEF callerVars, serverVars
<1>8. Typed'
  BY <1>1, <1>2, <1>4, <1>7 DEF Typed, InsertPending, callerVars, startVars, serverVars
<1>9. Filed'
  <2> SUFFICES ASSUME NEW i \in Ids, pending'[i] # NoCall
               PROVE  /\ Kind[pending'[i]] = "request" /\ IdOf[pending'[i]] = i
                      /\ answer'[pending'[i]] = Unresolved
                      /\ phase[pending'[i]] \in {"waiting", "cancelled"}
                      /\ pending'[i] \notin Range(channel)
    BY <1>1 DEF Filed, callerVars
  <2>1. CASE pending'[i] = current /\ Kind[current] = "request" /\ i = IdOf[current]
    <3>1. answer[current] = Unresolved /\ current \notin Range(channel)
      BY <1>1, <1>2, <2>1 DEF Fresh, OnePlace
    <3>2. phase[current] \in {"waiting", "cancelled"}
      BY <1>2, <3>1 DEF SentWasSubmitted, Returned, Typed
    <3> QED
      BY <1>2, <1>4, <1>7, <2>1, <3>1, <3>2
  <2>2. CASE pending'[i] = pending[i] /\ pending[i] \notin S
    BY <1>3, <1>7, <2>2 DEF Filed
  <2>3. pending'[i] = pending[i] => pending[i] \notin S
    <3> SUFFICES ASSUME pending'[i] = pending[i], pending[i] \in S
                 PROVE  FALSE
      OBVIOUS
    <3>1. pending[i] = pending[IdOf[current]] /\ Kind[current] = "request"
      BY <1>3, <1>4
    <3>2. i = IdOf[current]
      BY <1>2, <1>3, <3>1 DEF Filed
    <3> QED
      BY <1>3, <1>4, <3>1, <3>2
  <2> QED
    BY <1>4, <2>1, <2>2, <2>3
<1>10. Fresh'
  BY <1>1, <1>5, <1>7 DEF Fresh
<1>11. Refused'
  BY <1>1, <1>7, OutcomeFacts DEF Refused, Sent, serverVars
<1>12. NoLostReply'
  <2> SUFFICES ASSUME NEW c \in Calls, Kind[c] = "request", OwnId(c), answer'[c] = Unresolved,
                      received[c] > 0 \/ c = current
               PROVE  pending'[IdOf[c]] = c
    BY <1>1 DEF NoLostReply, serverVars
  <2>1. CASE c = current
    BY <1>2, <1>4, <2>1
  <2>2. CASE c # current
    <3>1. pending[IdOf[c]] = c
      BY <1>7, <2>2 DEF NoLostReply
    <3>2. Kind[current] = "request" => IdOf[c] # IdOf[current]
      BY <1>2, <2>2 DEF OwnId
    <3> QED
      BY <1>4, <3>1, <3>2, TransportAssumption
  <2> QED
    BY <2>1, <2>2
<1>13. Progress' /\ SentWasSubmitted' /\ OnePlace' /\ Replies'
  BY <1>1 DEF Progress, SentWasSubmitted, Sent, OnePlace, Replies, Active, callerVars, startVars,
              serverVars
<1> QED
  BY <1>7, <1>8, <1>9, <1>10, <1>11, <1>12, <1>13

\* A POST empties the hands of the outgoing loop, and its sender is filed by then.
LEMMA PostKeeps ==
    ASSUME IInv, PostDelivered \/ PostLost
    PROVE  IInv'
<1> USE DEF IInv
<1>1. /\ outgoing = "post" /\ outgoing' = "recv" /\ current' = NoCall
      /\ received' \in {[received EXCEPT ![current] = @ + 1], received}
      /\ UNCHANGED <<callerVars, answer, startVars, endpoint, incoming, channel, pending, stream,
                     streamOver>>
  BY DEF PostDelivered, PostLost, Posted
<1>2. current \in Calls /\ received[current] = 0 /\ current \notin Range(channel)
  BY <1>1 DEF Typed, Progress, OnePlace
<1>3. /\ received' \in [Calls -> Nat]
      /\ \A c \in Calls : c # current => received'[c] = received[c]
      /\ received'[current] \in {0, 1}
  BY <1>1, <1>2 DEF Typed
<1>4. Typed'
  BY <1>1, <1>3 DEF Typed, callerVars, startVars
<1>5. OnePlace'
  <2>1. Range(channel) \subseteq Calls /\ NoCall \notin Calls
    BY RangeFacts, TransportAssumption DEF Typed
  <2>2. \A c \in Range(channel) : c # current /\ received'[c] = 0
    BY <1>2, <1>3, <2>1 DEF OnePlace
  <2>3. \A c \in Calls : received'[c] \in {0, 1}
    BY <1>3 DEF OnePlace
  <2> QED
    BY <1>1, <2>1, <2>2, <2>3 DEF OnePlace
<1>6. ASSUME NEW c \in Calls, Sent(c)'
      PROVE  Sent(c)
  BY <1>1, <1>3, <1>6, TransportAssumption DEF Sent
<1>7. SentWasSubmitted' /\ Refused'
  BY <1>1, <1>6 DEF SentWasSubmitted, Refused, callerVars
<1>8. Progress' /\ Filed' /\ Fresh'
  BY <1>1, TransportAssumption DEF Progress, Filed, Fresh, Active, callerVars, startVars
<1>9. \A d \in Calls : received[d] = 1 => received'[d] = 1
  BY <1>2, <1>3
<1>10. Replies' /\ Matched'
  BY <1>1, <1>9 DEF Replies, Matched
<1>11. Answered' /\ Returned'
  BY <1>1 DEF Answered, Returned, callerVars
<1>12. NoLostReply'
  BY <1>1, <1>3, TransportAssumption DEF NoLostReply
<1> QED
  BY <1>4, <1>5, <1>7, <1>8, <1>10, <1>11, <1>12

\* Taking an event leaves no new one on the stream.
LEMMA StreamFacts ==
    ASSUME Typed, stream' = stream \/ (stream # <<>> /\ stream' = Tail(stream))
    PROVE  stream' \in Seq(Items) /\ Range(stream') \subseteq Range(stream)
<1>1. stream \in Seq(Items)
  BY DEF Typed
<1>2. CASE stream' = stream
  BY <1>1, <1>2
<1>3. CASE stream # <<>> /\ stream' = Tail(stream)
  BY <1>1, <1>3, TailFacts
<1> QED
  BY <1>2, <1>3

\* Steps of the incoming loop that resolve nobody: it connects, finds the
\* endpoint, leaves the first loop or skips an event.
LEMMA IncomingSkipsKeeps ==
    ASSUME IInv, Connect \/ EndpointEvent \/ FirstLoopFails \/ SkippedEvent
    PROVE  IInv'
<1> USE DEF IInv
<1>1. /\ UNCHANGED <<callerVars, answer, startVars, outgoing, current, channel, pending, serverVars>>
      /\ incoming' \in {"first", "second"}
      /\ endpoint' \in {endpoint, TRUE}
      /\ stream' = stream \/ (stream # <<>> /\ stream' = Tail(stream))
  BY DEF Connect, EndpointEvent, FirstLoopFails, SkippedEvent, NextIs, StreamEnds
<1>2. stream' \in Seq(Items) /\ Range(stream') \subseteq Range(stream)
  BY <1>1, StreamFacts
<1>3. Typed'
  BY <1>1, <1>2 DEF Typed, callerVars, startVars, serverVars
<1>4. Replies'
  BY <1>1, <1>2 DEF Replies, serverVars
<1>5. /\ OnePlace' /\ SentWasSubmitted' /\ Progress' /\ Filed' /\ Fresh' /\ Matched'
      /\ Answered' /\ Refused' /\ Returned' /\ NoLostReply'
  BY <1>1 DEF OnePlace, SentWasSubmitted, Progress, Active, Filed, Fresh, Matched, Answered,
     Refused, Returned, NoLostReply, Sent, callerVars, startVars, serverVars
<1> QED
  BY <1>3, <1>4, <1>5

\* The incoming loop ends and clears the table.
LEMMA IncomingEndsKeeps ==
    ASSUME IInv, IncomingEnds
    PROVE  IInv'
<1> USE DEF IInv
<1>1. /\ incoming' = "ended"
      /\ stream' = stream \/ (stream # <<>> /\ stream' = Tail(stream))
      /\ answer' = Resolve(answer, Senders(pending), Closed)
      /\ pending' = NoPending
      /\ UNCHANGED <<callerVars, startVars, endpoint, outgoing, current, channel, serverVars>>
  BY DEF IncomingEnds, NextIs, StreamEnds
<1>2. /\ answer' \in [Calls -> Outcomes] /\ pending' \in [Ids -> Calls \cup {NoCall}]
      /\ OnePlace' /\ SentWasSubmitted' /\ Filed'
      /\ Matched' /\ Answered' /\ Refused' /\ Returned' /\ Fresh' /\ NoLostReply'
  BY <1>1, ClearFacts
<1>3. stream' \in Seq(Items) /\ Range(stream') \subseteq Range(stream)
  BY <1>1, StreamFacts
<1>4. Typed'
  BY <1>1, <1>2, <1>3 DEF Typed, callerVars, startVars, serverVars
<1>5. Progress' /\ Replies'
  BY <1>1, <1>3 DEF Progress, Replies, Active, callerVars, startVars, serverVars
<1> QED
  BY <1>2, <1>4, <1>5

\* A panic drops every sender there is: in the table, the channel and in hand.
LEMMA BadEndpointPanicsKeeps ==
    ASSUME IInv, BadEndpointPanics
    PROVE  IInv'
<1> DEFINE S == Senders(pending) \cup Range(channel) \cup ({current} \ {NoCall})
<1> USE DEF IInv
<1>1. /\ stream # <<>> /\ stream' = Tail(stream)
      /\ incoming' = "ended" /\ outgoing' = "ended"
      /\ answer' = Resolve(answer, S, Closed)
      /\ pending' = NoPending /\ channel' = <<>> /\ current' = NoCall
      /\ UNCHANGED <<callerVars, startVars, endpoint, serverVars>>
  BY DEF BadEndpointPanics, NextIs
<1>2. \A c \in Calls \cap S : phase[c] \notin {"idle", "sending"}
  <2>1. \A c \in Senders(pending) : phase[c] \notin {"idle", "sending"}
    BY TransportAssumption DEF Senders, Filed
  <2>2. \A c \in Calls : c \in Range(channel) \/ c = current
                        => phase[c] \notin {"idle", "sending"}
    BY DEF SentWasSubmitted, Sent
  <2> QED
    BY <2>1, <2>2
<1>3. \A c \in Calls : pending[IdOf[c]] = c => c \in S
  BY KindFacts DEF Senders
<1> HIDE DEF S
<1>4. Closed \in Failures
  BY OutcomeFacts
<1>5. /\ answer' \in [Calls -> Outcomes]
      /\ Matched' /\ Answered' /\ Returned'
      /\ \A c \in Calls :
            /\ answer'[c] \in {answer[c], Closed}
            /\ answer'[c] = Unresolved <=> answer[c] = Unresolved /\ c \notin S
  BY <1>1, <1>2, <1>4, FailFacts DEF callerVars, serverVars
<1>6. stream' \in Seq(Items) /\ Range(stream') \subseteq Range(stream)
  BY <1>1, TailFacts DEF Typed
<1>7. Typed' /\ Filed'
  BY <1>1, <1>5, <1>6, EmptyFacts DEF Typed, Filed, NoPending, callerVars, startVars, serverVars
<1>8. OnePlace' /\ SentWasSubmitted' /\ Fresh'
  BY <1>1, RangeFacts, EmptyFacts, TransportAssumption
     DEF OnePlace, SentWasSubmitted, Sent, Fresh, Typed, callerVars, serverVars
<1>9. Progress' /\ Replies'
  BY <1>1, <1>6, TransportAssumption
     DEF Progress, Replies, Active, callerVars, startVars, serverVars
<1>10. Refused'
  BY <1>1, <1>5, EmptyFacts, OutcomeFacts, TransportAssumption DEF Refused, Sent, serverVars
<1>11. NoLostReply'
  <2> SUFFICES ASSUME NEW c \in Calls, Kind[c] = "request", OwnId(c), answer'[c] = Unresolved,
                      received[c] > 0
               PROVE  FALSE
    BY <1>1, TransportAssumption DEF NoLostReply, serverVars
  <2> QED
    BY <1>3, <1>5 DEF NoLostReply
<1> QED
  BY <1>5, <1>7, <1>8, <1>9, <1>10, <1>11

\* A reply goes to the caller filed under its id, who sent a request with it.
LEMMA ReplyEventKeeps ==
    ASSUME IInv, ReplyEvent
    PROVE  IInv'
<1> DEFINE r == Head(stream)
           d == r.to
           p == pending[IdOf[d]]
<1> USE DEF IInv
<1>1. /\ stream # <<>> /\ r.tag = "reply"
      /\ answer' = Resolve(answer, {p}, r)
      /\ pending' = RemovePending(pending, IdOf[d])
      /\ stream' = Tail(stream)
      /\ UNCHANGED <<callerVars, startVars, endpoint, incoming, outgoing, current, channel,
                     serverVars>>
  BY DEF ReplyEvent, NextIs
<1>2. r \in Items /\ r \in Range(stream) /\ Tail(stream) \in Seq(Items)
      /\ Range(Tail(stream)) \subseteq Range(stream)
  BY <1>1, TailFacts DEF Typed
<1>3. d \in Calls /\ r = Reply(d) /\ IdOf[d] \in Ids
  BY <1>1, <1>2, EventFacts, KindFacts
<1>4. received[d] = 1 /\ Kind[d] = "request"
  BY <1>2, <1>3 DEF Replies
<1>5. \A i \in Ids : pending'[i] = IF i = IdOf[d] THEN NoCall ELSE pending[i]
  BY <1>1 DEF RemovePending, Typed
<1>6. p # NoCall => /\ p \in Calls /\ Kind[p] = "request" /\ IdOf[p] = IdOf[d]
                    /\ answer[p] = Unresolved
                    /\ phase[p] \in {"waiting", "cancelled"}
                    /\ p \notin Range(channel)
                    /\ p = current => outgoing = "post"
  BY <1>3 DEF Filed, Typed
<1>7. r \in Outcomes /\ r # Unresolved /\ r \notin {Nil} \cup Failures
  BY <1>3, OutcomeFacts
<1> HIDE DEF r, d, p
<1>8. /\ answer' \in [Calls -> Outcomes]
      /\ \A c \in Calls :
            /\ c # p => answer'[c] = answer[c]
            /\ c = p => answer'[c] = r
  BY <1>1, <1>6, <1>7, ResolveFacts, TransportAssumption DEF Typed
<1>9. Typed'
  BY <1>1, <1>2, <1>8 DEF Typed, RemovePending, callerVars, startVars, serverVars
<1>10. Filed'
  <2> SUFFICES ASSUME NEW i \in Ids, pending'[i] # NoCall
               PROVE  /\ Kind[pending'[i]] = "request" /\ IdOf[pending'[i]] = i
                      /\ answer'[pending'[i]] = Unresolved
                      /\ phase[pending'[i]] \in {"waiting", "cancelled"}
                      /\ pending'[i] \notin Range(channel)
                      /\ pending'[i] = current => outgoing = "post"
    BY <1>1 DEF Filed, callerVars
  <2>1. i # IdOf[d] /\ pending[i] = pending'[i]
    BY <1>5
  <2>2. pending[i] \in Calls /\ IdOf[pending[i]] = i /\ answer[pending[i]] = Unresolved
    BY <2>1 DEF Filed, Typed
  <2>3. pending[i] # p
    BY <1>6, <2>1, <2>2
  <2> QED
    BY <1>8, <2>1, <2>2, <2>3 DEF Filed
<1>11. Fresh'
  BY <1>1, <1>6, <1>8, TransportAssumption DEF Fresh
<1>12. Matched'
  <2> SUFFICES ASSUME NEW c \in Calls, NEW e \in Calls, answer'[c] = Reply(e)
               PROVE  /\ received[e] = 1 /\ Kind[c] = "request" /\ Kind[e] = "request"
                      /\ IdOf[c] = IdOf[e]
    BY <1>1 DEF Matched, serverVars
  <2>1. CASE c = p
    <3>1. e = d
      BY <1>3, <1>8, <2>1, OutcomeFacts
    <3> QED
      BY <1>4, <1>6, <2>1, <3>1, TransportAssumption
  <2>2. CASE c # p
    BY <1>8, <2>2 DEF Matched
  <2> QED
    BY <2>1, <2>2
<1>13. Answered' /\ Returned'
  <2>1. ASSUME p \in Calls
        PROVE  answer'[p] \notin {Nil, Unresolved} /\ phase[p] \notin {"idle", "sending", "done"}
    BY <1>6, <1>7, <1>8, <2>1, TransportAssumption
  <2>2. \A c \in Calls : c # p => answer'[c] = answer[c]
    BY <1>8
  <2>3. phase' = phase /\ result' = result
    BY <1>1 DEF callerVars
  <2>4. Answered'
    BY <2>1, <2>2, <2>3 DEF Answered
  <2>5. Returned'
    BY <2>1, <2>2, <2>3 DEF Returned
  <2> QED
    BY <2>4, <2>5
<1>14. Refused'
  BY <1>1, <1>7, <1>8, OutcomeFacts DEF Refused, Sent, serverVars
<1>15. NoLostReply'
  <2> SUFFICES ASSUME NEW c \in Calls, answer'[c] = Unresolved, pending[IdOf[c]] = c
               PROVE  pending'[IdOf[c]] = c
    BY <1>1, <1>7, <1>8 DEF NoLostReply, serverVars
  <2> QED
    BY <1>5, <1>7, <1>8, KindFacts DEF p
<1>16. Replies'
  BY <1>1, <1>2 DEF Replies, serverVars
<1>17. OnePlace' /\ SentWasSubmitted' /\ Progress'
  BY <1>1 DEF OnePlace, SentWasSubmitted, Sent, Progress, Active, callerVars, startVars, serverVars
<1> QED
  BY <1>9, <1>10, <1>11, <1>12, <1>13, <1>14, <1>15, <1>16, <1>17

\* The server answers what it has got, and its other events answer nobody.
LEMMA ServerKeeps ==
    ASSUME IInv, Server
    PROVE  IInv'
<1> USE DEF IInv
<1>1. /\ UNCHANGED <<callerVars, answer, startVars, endpoint, incoming, outgoing, current, channel,
                     pending, received>>
      /\ \/ \E c \in Calls : received[c] > 0 /\ Kind[c] = "request"
                            /\ stream' = Append(stream, Reply(c)) /\ UNCHANGED streamOver
         \/ \E n \in Events : stream' = Append(stream, Outcome(n, NoCall)) /\ UNCHANGED streamOver
         \/ UNCHANGED stream /\ streamOver' = TRUE
  BY DEF Server, ServerAnswers, ServerSends, ServerEndsStream, serverVars
<1>2. stream' \in Seq(Items) /\ Replies'
  <2>1. ASSUME NEW c \in Calls, received[c] > 0, Kind[c] = "request",
               stream' = Append(stream, Reply(c))
        PROVE  stream' \in Seq(Items) /\ Replies'
    <3>1. received[c] = 1
      BY <2>1 DEF OnePlace
    <3>2. stream' \in Seq(Items) /\ Range(stream') = Range(stream) \cup {Reply(c)}
      BY <2>1, EventFacts, AppendFacts DEF Typed
    <3> QED
      BY <1>1, <2>1, <3>1, <3>2, OutcomeFacts DEF Replies
  <2>2. ASSUME NEW n \in Events, stream' = Append(stream, Outcome(n, NoCall))
        PROVE  stream' \in Seq(Items) /\ Replies'
    <3>1. stream' \in Seq(Items) /\ Range(stream') = Range(stream) \cup {Outcome(n, NoCall)}
      BY <2>2, EventFacts, AppendFacts DEF Typed
    <3> QED
      BY <1>1, <3>1, EventFacts DEF Replies
  <2>3. CASE UNCHANGED stream
    BY <1>1, <2>3 DEF Typed, Replies
  <2> QED
    BY <1>1, <2>1, <2>2, <2>3
<1>3. Typed'
  BY <1>1, <1>2 DEF Typed, callerVars, startVars
<1>4. /\ OnePlace' /\ SentWasSubmitted' /\ Progress' /\ Filed' /\ Fresh' /\ Matched'
      /\ Answered' /\ Refused' /\ Returned' /\ NoLostReply'
  BY <1>1 DEF OnePlace, SentWasSubmitted, Progress, Active, Filed, Fresh, Matched, Answered,
     Refused, Returned, NoLostReply, Sent, callerVars, startVars
<1> QED
  BY <1>2, <1>3, <1>4

-----------------------------------------------------------------------------
(* The theorems. *)

\* SseTransport::start begins in the invariant.
LEMMA InitHolds == Init => IInv
<1> SUFFICES ASSUME Init PROVE IInv
  OBVIOUS
<1> USE DEF Init
<1>1. Typed
  <2>1. 0 \in 0..MaxAttempts
    BY SseAssumption
  <2>2. channel \in Seq(Calls) /\ stream \in Seq(Items)
    BY EmptyFacts
  <2> QED
    BY <2>1, <2>2, OutcomeFacts DEF Typed, NoPending
<1>2. OnePlace /\ SentWasSubmitted /\ Progress
  BY EmptyFacts, TransportAssumption DEF OnePlace, SentWasSubmitted, Sent, Progress, Active
<1>3. Filed /\ Fresh /\ NoLostReply
  BY EmptyFacts, TransportAssumption DEF Filed, Fresh, NoLostReply, NoPending
<1>4. Replies /\ Matched /\ Answered /\ Refused /\ Returned
  BY EmptyFacts, OutcomeFacts DEF Replies, Matched, Answered, Refused, Returned
<1> QED
  BY <1>1, <1>2, <1>3, <1>4 DEF IInv

\* A step that changes nothing keeps it.
LEMMA StutterKeeps == IInv /\ UNCHANGED vars => IInv'
  BY DEF IInv, vars, callerVars, startVars, serverVars, Typed, OnePlace, SentWasSubmitted, Sent,
         Progress, Active, Filed, Fresh, Replies, Matched, Answered, Refused, Returned, NoLostReply

\* Every step keeps it.
LEMMA NextKeeps == IInv /\ [Next]_vars => IInv'
<1> SUFFICES ASSUME IInv, [Next]_vars PROVE IInv'
  OBVIOUS
<1>1. ASSUME NEW c \in Calls, Caller(c) PROVE IInv'
  BY <1>1, SubmitKeeps, EnqueueKeeps, EnqueueFailsKeeps, ReturnKeeps, CancelKeeps DEF Caller
<1>2. CASE Start \/ DropHandle
  BY <1>2, StartKeeps, DropHandleKeeps
<1>3. CASE Outgoing
  BY <1>3, MessageTakenKeeps, MessageRefusedKeeps, OutgoingRecvNoneKeeps, OutgoingInsertKeeps,
     PostKeeps DEF Outgoing
<1>4. CASE Incoming
  BY <1>4, IncomingSkipsKeeps, IncomingEndsKeeps, BadEndpointPanicsKeeps, ReplyEventKeeps
     DEF Incoming
<1>5. CASE Server
  BY <1>5, ServerKeeps
<1>6. CASE UNCHANGED vars
  BY <1>6, StutterKeeps
<1> QED
  BY <1>1, <1>2, <1>3, <1>4, <1>5, <1>6 DEF Next

\* The inductive invariant holds in every reachable state.
THEOREM Invariance == Spec => []IInv
  BY InitHolds, NextKeeps, PTL DEF Spec

\* Every variable keeps its type and the table holds only senders of requests, each
\* under its own id and unused, whatever the calls, kinds, ids, capacities and polls.
THEOREM TypeCorrect == Spec => []TypeOK
<1>1. IInv => TypeOK
  BY DEF IInv, TypeOK, Usable, Filed
<1> QED
  BY <1>1, Invariance, PTL

\* A caller with an id of its own only ever gets the reply to its own request
\* (sse.rs:122-128).
THEOREM RepliesGoToTheirCallers == Spec => []NoCrossTalk
<1>1. IInv => NoCrossTalk
  <2> SUFFICES ASSUME IInv, NEW c \in Calls, NEW d \in Calls, OwnId(c), result[c] = Reply(d)
               PROVE  c = d
    BY DEF NoCrossTalk
  <2>1. answer[c] = Reply(d)
    BY OutcomeFacts DEF IInv, Returned
  <2>2. Kind[d] = "request" /\ IdOf[d] = IdOf[c]
    BY <2>1 DEF IInv, Matched
  <2> QED
    BY <2>2 DEF OwnId
<1> QED
  BY <1>1, Invariance, PTL

\* A request the server has got, or is being sent, can be answered: its caller is
\* filed before the POST (sse.rs:182), and as long as it waits nothing takes it out,
\* not even a loop that ends.
THEOREM RepliesFindTheirCallers == Spec => []NoLostReply
<1>1. IInv => NoLostReply
  BY DEF IInv
<1> QED
  BY <1>1, Invariance, PTL

\* A caller told "not connected" can send again: the server never gets the
\* message it gave up on (sse.rs:156-164).
THEOREM RefusedIsNeverPosted == Spec => []NotConnectedIsFinal
<1>1. IInv => NotConnectedIsFinal
  <2> SUFFICES ASSUME IInv, NEW c \in Calls, result[c] = NotConnected
               PROVE  received[c] = 0
    BY DEF NotConnectedIsFinal
  <2>1. answer[c] = NotConnected
    BY OutcomeFacts DEF IInv, Returned
  <2>2. ~(received[c] > 0) /\ received[c] \in Nat
    BY <2>1 DEF IInv, Refused, Sent, Typed
  <2> QED
    BY <2>2
<1> QED
  BY <1>1, Invariance, PTL

-----------------------------------------------------------------------------
(* The transport implements the promise of RequestReply. *)

\* The outcomes of the promise are those of the transport.
LEMMA SameOutcomes ==
    /\ Promise!Unresolved = Unresolved /\ Promise!Nil = Nil /\ Promise!Failures = Failures
    /\ \A d \in Calls : Promise!Reply(d) = Reply(d)
  BY DEF Promise!Unresolved, Promise!Nil, Promise!Failures, Promise!Reply, Promise!Outcome,
         Promise!Closed, Promise!ProcessError, Promise!NotConnected, Promise!Unsupported,
         Unresolved, Nil, Failures, Reply, Outcome, Closed, ProcessError, NotConnected, Unsupported

\* What a returned call may say: an answer the caller waits for is permitted.
LEMMA AnswersArePermitted ==
    ASSUME IInv, NEW c \in Calls, answer[c] # Unresolved
    PROVE  answer[c] \in Promise!Permitted(c)
<1> USE DEF IInv
<1>1. answer[c] \in {Nil} \cup Failures \cup {Reply(d) : d \in Calls}
  BY DEF Typed, Outcomes
<1>2. CASE answer[c] = Nil
  BY <1>2, OutcomeFacts, SameOutcomes DEF Answered, Promise!Permitted
<1>3. CASE answer[c] \in Failures
  BY <1>3, SameOutcomes DEF Promise!Permitted
<1>4. ASSUME NEW d \in Calls, answer[c] = Reply(d)
      PROVE  answer[c] \in Promise!Permitted(c)
  BY <1>4, OutcomeFacts, SameOutcomes DEF Matched, Promise!Permitted
<1> QED
  BY <1>1, <1>2, <1>3, <1>4

\* The steps of other tasks than the callers and the deliveries do not show.
LEMMA HiddenStep ==
    ASSUME UNCHANGED <<result, received>>,
           \A c \in Calls : phase'[c] = phase[c] \/ (Active(c) /\ Active(c)')
    PROVE  UNCHANGED Promise!vars
  BY DEF Promise!vars, Active

\* Under the invariant every step is a step of RequestReply, or a stutter there.
LEMMA StepsImplement ==
    ASSUME IInv, [Next]_vars
    PROVE  [Promise!Next]_(Promise!vars)
<1> USE DEF IInv, Typed
<1>1. ASSUME NEW c \in Calls, Submit(c)
      PROVE  Promise!Start(c)
  BY <1>1 DEF Submit, Active, Promise!Start, serverVars
<1>2. ASSUME NEW c \in Calls, Enqueue(c) \/ EnqueueFails(c)
      PROVE  UNCHANGED Promise!vars
  BY <1>2, HiddenStep DEF Enqueue, EnqueueFails, Active, serverVars
<1>3. ASSUME NEW c \in Calls, Return(c)
      PROVE  Promise!Return(c)
  <2>1. answer[c] \in Promise!Permitted(c)
    BY <1>3, AnswersArePermitted DEF Return
  <2>2. \E r \in Promise!Permitted(c) : result' = [result EXCEPT ![c] = r]
    BY <1>3, <2>1 DEF Return
  <2> QED
    BY <1>3, <2>2 DEF Return, Active, Promise!Return, serverVars
<1>4. ASSUME NEW c \in Calls, Cancel(c)
      PROVE  Promise!Cancel(c)
  BY <1>4 DEF Cancel, Active, Promise!Cancel, serverVars
<1>5. ASSUME PostDelivered
      PROVE  \E c \in Calls : Promise!Deliver(c)
  <2>1. current \in Calls /\ received[current] = 0
    BY <1>5 DEF PostDelivered, Posted, Progress, OnePlace
  <2>2. phase[current] # "idle" /\ Kind[current] # "other"
    BY <2>1 DEF SentWasSubmitted, Sent
  <2>3. received' = [received EXCEPT ![current] = 1] /\ UNCHANGED <<phase, result>>
    BY <1>5, <2>1 DEF PostDelivered, Posted, callerVars
  <2>4. Promise!Deliver(current)
    BY <2>1, <2>2, <2>3 DEF Promise!Deliver, Active
  <2> QED
    BY <2>1, <2>4
<1>6. CASE Start \/ DropHandle
  BY <1>6, HiddenStep DEF Start, PollAgain, StartReturns, StartTimesOut, DropHandle, callerVars,
     serverVars
<1>7. CASE Outgoing /\ ~PostDelivered
  BY <1>7, HiddenStep DEF Outgoing, OutgoingRecv, OutgoingRecvNone, OutgoingInsert, PostLost,
     Posted, callerVars, serverVars
<1>8. CASE Incoming
  BY <1>8, HiddenStep DEF Incoming, Connect, IncomingEnds, EndpointEvent, FirstLoopFails,
     BadEndpointPanics, ReplyEvent, SkippedEvent, callerVars, serverVars
<1>9. CASE Server
  BY <1>9, HiddenStep DEF Server, ServerAnswers, ServerSends, ServerEndsStream, callerVars,
     serverVars
<1>10. CASE UNCHANGED vars
  BY <1>10, HiddenStep DEF vars, callerVars, serverVars
<1> QED
  BY <1>1, <1>2, <1>3, <1>4, <1>5, <1>6, <1>7, <1>8, <1>9, <1>10
     DEF Next, Caller, Outgoing, Promise!Next

\* Whatever the web server does, and wherever the tasks are, send keeps the
\* promise of RequestReply: at most one delivery, and a request returns an error
\* or a reply to its id that the server gave after it got the request.
THEOREM TransportKeepsPromise == Spec => KeepsPromise
<1>1. Init => Promise!Init
  BY SameOutcomes DEF Init, Promise!Init, Active
<1> QED
  BY <1>1, StepsImplement, Invariance, PTL DEF Spec, KeepsPromise, Promise!Spec

=============================================================================
