--------------------------- MODULE SessionProofs ----------------------------
(***************************************************************************)
(* Machine-checked proofs about Session: what a message of one side means  *)
(* to the other, that each side is to the other what that other's own      *)
(* model assumes, and so that all that is proved of StdioTransport and of  *)
(* McpServer holds of the two together.                                    *)
(***************************************************************************)
EXTENDS Session, QueueFacts, TLAPS

\* What is proved of the two components, for the variables of the session.
ServerTheorems == INSTANCE McpServerProofs
    WITH Messages <- Calls, NoMessage <- NoCall, Form <- [c \in Calls |-> FormAtServer(c)],
         MaxErrors <- 0, output <- "open", current <- serving

-----------------------------------------------------------------------------
(* What the guess of try_from (mcp-core, protocol.rs) can and cannot make of a  *)
(* message that serialisation has stripped of its variant.                      *)

\* The fields that are read back are fields of the message; the method, the error
\* and the id are never null.
LEMMA FieldsAreSent ==
    ASSUME NEW m \in JsonRpcMessages
    PROVE  /\ AsReceived(m).fields \subseteq m.fields
           /\ m.variant # "Nil" =>
                /\ AsReceived(m) = Decode(m.fields \ m.nulls)
                /\ \A f \in {"id", "method", "error"} :
                      f \in m.fields \ m.nulls <=> f \in m.fields
<1>1. CASE m.variant = "Nil"
  BY <1>1 DEF AsReceived, Encode, Decode, Rejected, Message, NotAnObject
<1>2. CASE m.variant # "Nil"
  <2>1. AsReceived(m) = Decode(m.fields \ m.nulls)
    BY <1>2 DEF AsReceived, Encode
  <2>2. m.nulls \subseteq {"params", "result"}
    BY DEF JsonRpcMessages
  <2>3. AsReceived(m).fields \subseteq m.fields
    BY <2>1 DEF Decode, Taken, Rejected, Message
  <2> QED BY <2>1, <2>2, <2>3
<1> QED BY <1>1, <1>2

\* A peer never takes for a request what was not sent as one, with an id: no
\* response, notification or error makes Server::run call its service.
THEOREM OnlyRequestsAreServed ==
    ASSUME NEW m \in JsonRpcMessages, Served(AsReceived(m))
    PROVE  m.variant = "Request" /\ "id" \in m.fields
<1>1. m.variant # "Nil"
  BY DEF Served, AsReceived, Encode, Decode, Rejected, Message
<1>2. LET F == m.fields \ m.nulls
      IN  "method" \in F /\ "id" \in F
  BY <1>1, FieldsAreSent DEF Served, Decode, Taken, Rejected, Message, NotAnObject
<1>3. {"method", "id"} \subseteq Required(m.variant) \cup Optional(m.variant)
  BY <1>1, <1>2, FieldsAreSent DEF JsonRpcMessages
<1> QED BY <1>2, <1>3 DEF JsonRpcMessages, Required, Optional, Variants

\* What the client hands to a caller was sent as a response or an error, with the
\* id it is filed under.
THEOREM OnlyAnswersArePlaced ==
    ASSUME NEW m \in JsonRpcMessages, Placed(AsReceived(m))
    PROVE  m.variant \in {"Response", "Error"} /\ "id" \in m.fields
<1>1. m.variant # "Nil"
  BY DEF Placed, AsReceived, Encode, Decode, Rejected, Message
<1>2. "id" \in m.fields
  BY FieldsAreSent DEF Placed
<1>3. "error" \in m.fields \/ "result" \in m.fields
  BY <1>1, FieldsAreSent DEF Placed, Decode, Taken, Rejected, Message
<1> QED BY <1>2, <1>3 DEF JsonRpcMessages, Required, Optional, Variants

\* An answer reaches its caller exactly when it carries an error or a result that
\* is not null.
THEOREM AnswersThatArePlaced ==
    ASSUME NEW m \in JsonRpcMessages, m.variant \in {"Response", "Error"}, "id" \in m.fields
    PROVE  Placed(AsReceived(m)) <=> "error" \in m.fields \/ "result" \in m.fields \ m.nulls
<1> DEFINE F == m.fields \ m.nulls
<1>1. AsReceived(m) = Decode(F) /\ "id" \in F /\ ("error" \in F <=> "error" \in m.fields)
  BY FieldsAreSent
<1>2. "method" \notin F
  BY DEF JsonRpcMessages, Required, Optional
<1>3. F # NotAnObject
  BY <1>1 DEF NotAnObject
<1>4. CASE "error" \in F \/ "result" \in F
  BY <1>1, <1>3, <1>4 DEF Placed, Decode, Taken, Message, Required, Optional
<1>5. CASE ~("error" \in F \/ "result" \in F)
  BY <1>1, <1>2, <1>3, <1>5 DEF Placed, Decode, Rejected, Message
<1> QED BY <1>1, <1>4, <1>5

-----------------------------------------------------------------------------
(* What the session keeps from the client's side. *)

\* The outgoing loop has a message to write.
Handed ==
    /\ channel \in Seq(Calls)
    /\ actor = "select" /\ outgoing \in {"insert", "write"} => current \in Calls

\* A line is left half-written only where the loop is still to write the rest,
\* or where the process is gone.
WrittenWhole ==
    /\ input \in {"open", "closed"}
    /\ child = "running" /\ half # NoCall => outgoing = "write"
    /\ child = "running" /\ input = "closed" => half = NoCall

SInv == Handed /\ WrittenWhole

\* The steps of the outgoing loop, in the order of its positions.
LEMMA OutgoingKeeps ==
    ASSUME SInv, Outgoing
    PROVE  SInv'
<1> USE DEF SInv
<1>1. CASE Quietly /\ Client!OutgoingRecv
  <2>1. /\ channel # <<>> /\ channel' = Tail(channel) /\ current' = Head(channel)
        /\ outgoing = "recv" /\ outgoing' = "insert"
        /\ UNCHANGED <<actor, input, half, child>>
    BY <1>1 DEF Quietly, Client!OutgoingRecv, Client!OutgoingAt, Client!callerVars, serverVars
  <2>2. channel' \in Seq(Calls) /\ current' \in Calls
    BY <2>1, TailFacts DEF Handed
  <2> QED
    BY <2>1, <2>2 DEF Handed, WrittenWhole
<1>2. CASE Quietly /\ Client!OutgoingInsert
  <2>1. /\ outgoing = "insert" /\ outgoing' = "write"
        /\ UNCHANGED <<actor, channel, current, input, half, child>>
    BY <1>2 DEF Quietly, Client!OutgoingInsert, Client!OutgoingAt, Client!callerVars, serverVars
  <2> QED
    BY <1>2, <2>1 DEF Handed, WrittenWhole, Client!OutgoingInsert, Client!OutgoingAt
<1>3. CASE Quietly /\ Client!OutgoingFlush
  <2>1. /\ outgoing = "flush" /\ outgoing' = "recv"
        /\ UNCHANGED <<actor, channel, current, input, half, child>>
    BY <1>3 DEF Quietly, Client!OutgoingFlush, Client!OutgoingAt, Client!callerVars, serverVars
  <2> QED
    BY <2>1 DEF Handed, WrittenWhole
<1>4. CASE LoopEnds /\ Client!OutgoingRecvNone
  <2>1. /\ outgoing = "recv" /\ outgoing' = "ended" /\ actor' = "stderr" /\ input' = "closed"
        /\ UNCHANGED <<channel, current, half, child>>
    BY <1>4 DEF LoopEnds, Client!OutgoingRecvNone, Client!OutgoingAt, Client!callerVars, serverVars
  <2> QED
    BY <2>1 DEF Handed, WrittenWhole
<1>5. CASE LoopEnds /\ Client!OutgoingFails
  <2>1. /\ channel' = <<>> /\ outgoing' = "ended" /\ actor' = "stderr" /\ input' = "closed"
        /\ child # "running" /\ UNCHANGED child
    BY <1>5 DEF LoopEnds, Client!OutgoingFails
  <2> QED
    BY <2>1 DEF Handed, WrittenWhole
<1>6. CASE WriteLine
  <2>1. /\ outgoing' = "flush" /\ half = NoCall /\ UNCHANGED <<half, actor, channel, input, child>>
    BY <1>6 DEF WriteLine, Client!OutgoingWrite, Client!callerVars, Server!PeerWrites, Server!MayWrite
  <2> QED
    BY <2>1 DEF Handed, WrittenWhole
<1>7. CASE WriteFirstChunk
  <2>1. /\ outgoing = "write" /\ input = "open"
        /\ UNCHANGED <<outgoing, current, actor, channel, input, child>>
    BY <1>7 DEF WriteFirstChunk, Client!OutgoingAt, Server!PeerWritesFirstChunk, Server!MayWrite,
                clientVars
  <2> QED
    BY <2>1 DEF Handed, WrittenWhole
<1>8. CASE WriteRest
  <2>1. /\ outgoing' = "flush" /\ half' = NoCall /\ UNCHANGED <<actor, channel, input, child>>
    BY <1>8 DEF WriteRest, Client!OutgoingWrite, Client!callerVars, Server!PeerWritesRest
  <2> QED
    BY <2>1 DEF Handed, WrittenWhole
<1> QED
  BY <1>1, <1>2, <1>3, <1>4, <1>5, <1>6, <1>7, <1>8 DEF Outgoing


\* The steps of the callers and of the other branches.
LEMMA OthersKeep ==
    ASSUME SInv,
           \/ \E c \in Calls : Submit(c) \/ Enqueue(c) \/ EnqueueFails(c) \/ Return(c) \/ Cancel(c)
           \/ DropHandle \/ Incoming \/ ProcessExited \/ Teardown
    PROVE  SInv'
<1> USE DEF SInv
<1>1. CASE \E c \in Calls : Submit(c) \/ EnqueueFails(c) \/ Return(c) \/ Cancel(c)
  <2>1. UNCHANGED <<channel, current, actor, outgoing, input, half, child>>
    BY <1>1 DEF Submit, EnqueueFails, Return, Cancel, Quietly, Client!Submit, Client!EnqueueFails,
                Client!Return, Client!Cancel, Client!actorVars, serverVars
  <2> QED
    BY <2>1 DEF Handed, WrittenWhole
<1>2. ASSUME NEW c \in Calls, Enqueue(c)
      PROVE  SInv'
  <2>1. /\ channel' = Append(channel, c)
        /\ UNCHANGED <<current, actor, outgoing, input, half, child>>
    BY <1>2 DEF Enqueue, Quietly, Client!Enqueue, serverVars
  <2>2. channel' \in Seq(Calls)
    BY <2>1, AppendFacts DEF Handed
  <2> QED
    BY <2>1, <2>2 DEF Handed, WrittenWhole
<1>3. CASE DropHandle
  <2>1. UNCHANGED <<channel, current, actor, outgoing, input, half, child>>
    BY <1>3 DEF DropHandle, Quietly, Client!DropHandle, Client!actorVars, serverVars
  <2> QED
    BY <2>1 DEF Handed, WrittenWhole
<1>4. CASE Incoming \/ ProcessExited
  <2>1. /\ actor' \in {actor, "stderr"}
        /\ UNCHANGED <<channel, current, outgoing, input, half, child>>
    BY <1>4 DEF Incoming, ProcessExited, Quietly, Client!Incoming, Client!IncomingReply,
                Client!IncomingSkip, Client!IncomingEnds, Client!ProcessExited,
                Client!actorVars, serverVars
  <2> QED
    BY <2>1 DEF Handed, WrittenWhole
<1>5. CASE Quietly /\ (Client!ReadStderr \/ Client!ReportError \/ Client!ClearPending)
  <2>1. /\ actor' \in {"report", "clear", "drop"}
        /\ UNCHANGED <<channel, outgoing, input, half, child>>
    BY <1>5 DEF Quietly, Client!ReadStderr, Client!ReportError, Client!ClearPending, serverVars
  <2> QED
    BY <2>1 DEF Handed, WrittenWhole
<1>6. CASE UNCHANGED serverVars /\ input' = "closed" /\ child' = "exited" /\ Client!DropActor
  <2>1. actor' = "gone" /\ channel' = <<>> /\ input' = "closed" /\ child' = "exited"
    BY <1>6 DEF Client!DropActor
  <2> QED
    BY <2>1 DEF Handed, WrittenWhole
<1> QED
  BY <1>1, <1>2, <1>3, <1>4, <1>5, <1>6 DEF Teardown

\* The steps of the server write nothing to its input.
LEMMA ServerStepsKeep ==
    ASSUME SInv, ServerRuns \/ PollPending \/ ProcessExits \/ UNCHANGED vars
    PROVE  SInv'
<1>1. /\ UNCHANGED <<channel, current, actor, outgoing, input, half>>
      /\ child' \in {child, "exited"}
  <2>1. CASE ServerRuns
    BY <2>1 DEF ServerRuns, ServerWrites, Server!FillBuffer, Server!TakeLine, Server!TakePart,
                Server!ServiceAnswers, Server!Finish, Server!WriteMessage, Server!peerVars,
                clientVars
  <2>2. CASE PollPending
    BY <2>2 DEF PollPending, Server!PollPending, Server!peerVars, clientVars
  <2>3. CASE ProcessExits
    BY <2>3 DEF ProcessExits, serverVars, clientVars
  <2>4. CASE UNCHANGED vars
    BY <2>4 DEF vars, serverVars, clientVars
  <2> QED
    BY <2>1, <2>2, <2>3, <2>4
<1> QED
  BY <1>1 DEF SInv, Handed, WrittenWhole

LEMMA StepsKeepLines == Spec => []SInv
<1>1. Init => SInv
  BY EmptyFacts DEF Init, SInv, Handed, WrittenWhole
<1>2. SInv /\ [Next]_vars => SInv'
  BY OutgoingKeeps, OthersKeep, ServerStepsKeep DEF Next
<1> QED
  BY <1>1, <1>2, PTL DEF Spec

-----------------------------------------------------------------------------
(* The transport is to the server the peer that McpServer assumes. *)

LEMMA PeerSteps ==
    ASSUME SInv, Outgoing
    PROVE  [Server!Next]_(Server!vars)
<1> USE DEF Server!Next, Server!Peer
<1>1. CASE Quietly
  BY <1>1 DEF Quietly, serverVars, Server!vars, Server!peerVars, Server!readerVars,
              Server!loopVars
<1>2. CASE LoopEnds
  BY <1>2 DEF LoopEnds, serverVars, Server!vars, Server!peerVars, Server!readerVars,
              Server!loopVars, Server!InputEnds, SInv, WrittenWhole
<1>3. CASE WriteLine
  <2>1. current \in Calls
    BY <1>3 DEF WriteLine, Client!OutgoingAt, SInv, Handed
  <2>2. Server!PeerWrites(current)
    BY <1>3 DEF WriteLine
  <2> QED
    BY <2>1, <2>2
<1>4. CASE WriteFirstChunk
  <2>1. current \in Calls
    BY <1>4 DEF WriteFirstChunk, Client!OutgoingAt, SInv, Handed
  <2>2. Server!PeerWritesFirstChunk(current)
    BY <1>4 DEF WriteFirstChunk
  <2> QED
    BY <2>1, <2>2
<1>5. CASE WriteRest
  BY <1>5 DEF WriteRest
<1> QED
  BY <1>1, <1>2, <1>3, <1>4, <1>5 DEF Outgoing

\* Every step of the session is one of the server's model or leaves its state alone.
LEMMA ServerSteps ==
    ASSUME SInv, [Next]_vars
    PROVE  [Server!Next]_(Server!vars)
<1> USE DEF Server!Next, Server!Server
<1>1. CASE \/ \E c \in Calls : Submit(c) \/ Enqueue(c) \/ EnqueueFails(c) \/ Return(c) \/ Cancel(c)
           \/ DropHandle \/ Incoming \/ ProcessExited
  <2>1. Quietly
    BY <1>1 DEF Submit, Enqueue, EnqueueFails, Return, Cancel, DropHandle, Incoming, ProcessExited
  <2> QED
    BY <2>1 DEF Quietly, serverVars, Server!vars, Server!peerVars, Server!readerVars,
                Server!loopVars
<1>2. CASE Teardown
  BY <1>2 DEF Teardown, Quietly, serverVars, Server!vars, Server!peerVars, Server!readerVars,
              Server!loopVars, Server!InputEnds, Server!Peer, SInv, WrittenWhole
<1>3. CASE Outgoing
  BY <1>3, PeerSteps
<1>4. CASE ServerRuns \/ PollPending
  BY <1>4 DEF ServerRuns, ServerWrites, PollPending
<1>5. CASE ProcessExits \/ UNCHANGED vars
  BY <1>5 DEF ProcessExits, vars, serverVars, Server!vars, Server!peerVars, Server!readerVars,
              Server!loopVars
<1> QED
  BY <1>1, <1>2, <1>3, <1>4, <1>5 DEF Next

\* The session implements the server's specification: the transport, over the pipe,
\* writes whole lines one at a time, and ends its input but never breaks it.
THEOREM ClientIsAPeer == Spec => TransportIsAPeer
<1>1. Init => Server!Init
  BY DEF Init, Server!Init
<1>2. SInv /\ [Next]_vars => [Server!Next]_(Server!vars)
  BY ServerSteps
<1> QED
  BY <1>1, <1>2, StepsKeepLines, PTL DEF Spec, TransportIsAPeer, Server!Spec

-----------------------------------------------------------------------------
(* So what is proved of McpServer holds of the session. *)

LEMMA FormsAtServer == [c \in Calls |-> FormAtServer(c)] \in [Calls -> Server!Forms]
  BY DEF FormAtServer, Server!Forms

LEMMA ServerAssumed ==
    /\ NoCall \notin Calls
    /\ [c \in Calls |-> FormAtServer(c)] \in [Calls -> ServerTheorems!Forms]
    /\ Chunked \subseteq Calls
    /\ 0 \in Nat
  BY FormsAtServer, TransportAssumption, SessionAssumption DEF ServerTheorems!Forms, Server!Forms

\* The two names of one action are the same.
LEMMA SameSteps ==
    /\ Server!FillBuffer => ServerTheorems!FillBuffer
    /\ Server!TakeLine => ServerTheorems!TakeLine
    /\ Server!TakePart => ServerTheorems!TakePart
    /\ [Server!Next]_(Server!vars) => [ServerTheorems!Next]_(ServerTheorems!vars)
<1> USE DEF Server!peerVars, Server!readerVars, Server!loopVars, ServerTheorems!peerVars,
            ServerTheorems!readerVars, ServerTheorems!loopVars
<1>0. /\ \A m, b : Server!Piece(m, b) = ServerTheorems!Piece(m, b)
      /\ \A m : Server!WholeLine(m) = ServerTheorems!WholeLine(m)
      /\ \A m : Server!Answer(m) = ServerTheorems!Answer(m)
      /\ Server!LineError = ServerTheorems!LineError
  BY DEF Server!Piece, ServerTheorems!Piece, Server!WholeLine, ServerTheorems!WholeLine,
         Server!Answer, ServerTheorems!Answer, Server!LineError, ServerTheorems!LineError
<1>1. ASSUME NEW m \in Calls
      PROVE  /\ Server!PeerWrites(m) => ServerTheorems!PeerWrites(m)
             /\ Server!PeerWritesFirstChunk(m) => ServerTheorems!PeerWritesFirstChunk(m)
  BY <1>0 DEF Server!PeerWrites, ServerTheorems!PeerWrites, Server!PeerWritesFirstChunk,
              ServerTheorems!PeerWritesFirstChunk, Server!MayWrite, ServerTheorems!MayWrite,
              Server!Range, ServerTheorems!Range
<1>2. Server!PeerWritesRest => ServerTheorems!PeerWritesRest
  BY <1>0 DEF Server!PeerWritesRest, ServerTheorems!PeerWritesRest
<1>3. Server!FirstLine = ServerTheorems!FirstLine
  BY DEF Server!FirstLine, ServerTheorems!FirstLine, Server!SelectInSeq,
         ServerTheorems!SelectInSeq, Server!Min, ServerTheorems!Min
<1>4. \A b : Server!HandleLine(b) => ServerTheorems!HandleLine(b)
  BY <1>0 DEF Server!HandleLine, ServerTheorems!HandleLine
<1>5. Server!Starved <=> ServerTheorems!Starved
  BY DEF Server!Starved, ServerTheorems!Starved
<1>6. Server!EndOfInput <=> ServerTheorems!EndOfInput
  BY <1>5 DEF Server!EndOfInput, ServerTheorems!EndOfInput
<1>7. /\ Server!InputEnds => ServerTheorems!InputEnds
      /\ Server!OutputCloses => ServerTheorems!OutputCloses
  BY DEF Server!InputEnds, ServerTheorems!InputEnds, Server!OutputCloses,
         ServerTheorems!OutputCloses
<1>8. Server!Peer => ServerTheorems!Peer
  BY <1>1, <1>2, <1>7 DEF Server!Peer, ServerTheorems!Peer
<1>9. /\ Server!FillBuffer => ServerTheorems!FillBuffer
      /\ Server!PollPending => ServerTheorems!PollPending
  BY <1>5 DEF Server!FillBuffer, ServerTheorems!FillBuffer, Server!PollPending,
              ServerTheorems!PollPending
<1>10. Server!TakeLine => ServerTheorems!TakeLine
  BY <1>3, <1>4 DEF Server!TakeLine, ServerTheorems!TakeLine
<1>11. Server!TakePart => ServerTheorems!TakePart
  BY <1>3 DEF Server!TakePart, ServerTheorems!TakePart
<1>12. Server!TakeLastPart => ServerTheorems!TakeLastPart
  BY <1>0, <1>4, <1>6 DEF Server!TakeLastPart, ServerTheorems!TakeLastPart
<1>13. Server!Finish => ServerTheorems!Finish
  BY <1>6 DEF Server!Finish, ServerTheorems!Finish
<1>14. Server!ReadFails => ServerTheorems!ReadFails
  BY <1>0, <1>5 DEF Server!ReadFails, ServerTheorems!ReadFails
<1>15. Server!ServiceAnswers => ServerTheorems!ServiceAnswers
  BY <1>0 DEF Server!ServiceAnswers, ServerTheorems!ServiceAnswers
<1>16. /\ Server!WriteMessage => ServerTheorems!WriteMessage
       /\ Server!WriteFails => ServerTheorems!WriteFails
  BY DEF Server!WriteMessage, ServerTheorems!WriteMessage, Server!WriteFails,
         ServerTheorems!WriteFails
<1>17. Server!Server => ServerTheorems!Server
  BY <1>9, <1>10, <1>11, <1>12, <1>13, <1>14, <1>15, <1>16 DEF Server!Server,
     ServerTheorems!Server
<1>18. UNCHANGED Server!vars => UNCHANGED ServerTheorems!vars
  BY DEF Server!vars, ServerTheorems!vars
<1> QED
  BY <1>8, <1>9, <1>10, <1>11, <1>17, <1>18 DEF Server!Next, ServerTheorems!Next

LEMMA ServerHolds == Spec => ServerTheorems!Spec
<1>1. Server!Init => ServerTheorems!Init
  BY DEF Server!Init, ServerTheorems!Init, Server!LineError, ServerTheorems!LineError
<1>2. [Server!Next]_(Server!vars) => [ServerTheorems!Next]_(ServerTheorems!vars)
  BY SameSteps
<1> QED
  BY <1>1, <1>2, ClientIsAPeer, PTL DEF TransportIsAPeer, Server!Spec, ServerTheorems!Spec

LEMMA ServerInvariance == Spec => []ServerTheorems!IInv
<1>1. ServerTheorems!Spec => []ServerTheorems!IInv
  BY ServerAssumed, ServerTheorems!Invariance
<1> QED
  BY <1>1, ServerHolds, PTL

-----------------------------------------------------------------------------
(* The server is to the transport a child as StdioTransport assumes it. *)

\* The lines taken are counted as the server's model counts pieces.
LEMMA LineCounts ==
    ASSUME ServerTheorems!IInv
    PROVE  /\ sent \in Seq(Calls) /\ Len(sent) \in Nat /\ DOMAIN sent = 1..Len(sent)
           /\ \A i, j \in DOMAIN sent : sent[i] = sent[j] => i = j
           /\ Len(pipe) \in Nat /\ Len(readBuf) \in Nat
           /\ HalfWritten \in {0, 1}
           /\ ServerTheorems!Consumed = 2 * Len(sent) - HalfWritten - Len(pipe) - Len(readBuf)
           /\ ServerTheorems!Consumed \in Nat
           /\ LinesTaken \in Nat
           /\ 2 * LinesTaken <= ServerTheorems!Consumed
           /\ ServerTheorems!Consumed <= 2 * LinesTaken + 1
           /\ LinesWritten \in Nat /\ LinesWritten <= Len(sent) /\ LinesTaken <= LinesWritten
<1> DEFINE n == ServerTheorems!Consumed
<1>1. /\ sent \in Seq(Calls) /\ pipe \in Seq(ServerTheorems!Pieces)
      /\ readBuf \in Seq(ServerTheorems!Pieces)
  BY DEF ServerTheorems!IInv, ServerTheorems!TypeOK
<1>2. /\ Len(sent) \in Nat /\ DOMAIN sent = 1..Len(sent)
      /\ Len(pipe) \in Nat /\ Len(readBuf) \in Nat
  BY <1>1, LenProperties
<1>3. HalfWritten \in {0, 1} /\ (HalfWritten = 1 => half # NoCall)
  BY DEF HalfWritten
<1>4. n = 2 * Len(sent) - HalfWritten - Len(pipe) - Len(readBuf)
  BY DEF ServerTheorems!Consumed, ServerTheorems!Filled, ServerTheorems!PiecesWritten, HalfWritten
<1>5. n \in Nat /\ \A i, j \in DOMAIN sent : sent[i] = sent[j] => i = j
  BY DEF ServerTheorems!IInv, ServerTheorems!InSequence, IsInjective, ServerTheorems!IsInjective
<1>6. LinesTaken = n \div 2
  BY <1>4 DEF LinesTaken
<1> HIDE DEF n
<1>7. LinesTaken \in Nat /\ 2 * LinesTaken <= n /\ n <= 2 * LinesTaken + 1
  BY <1>5, <1>6
<1>8. n <= 2 * Len(sent) - HalfWritten
  BY <1>2, <1>3, <1>4
<1>9. half # NoCall => Len(sent) # 0
  BY <1>1, EmptySeq DEF ServerTheorems!IInv, ServerTheorems!InSequence
<1>10. LinesWritten \in Nat /\ LinesWritten <= Len(sent) /\ LinesTaken <= LinesWritten
  <2>1. LinesWritten = Len(sent) - HalfWritten
    BY DEF LinesWritten
  <2>2. HalfWritten = 1 => Len(sent) >= 1
    BY <1>2, <1>3, <1>9
  <2>3. ASSUME NEW l \in Nat, NEW t \in Nat, NEW h \in {0, 1}, 2 * t <= 2 * l - h
        PROVE  t <= l - h
    <3>1. CASE h = 0
      BY <2>3, <3>1
    <3>2. CASE h = 1
      BY <2>3, <3>2
    <3> QED
      BY <3>1, <3>2
  <2>4. 2 * LinesTaken <= 2 * Len(sent) - HalfWritten
    BY <1>2, <1>3, <1>5, <1>7, <1>8
  <2>5. LinesTaken <= Len(sent) - HalfWritten
    BY <1>2, <1>3, <1>7, <2>3, <2>4
  <2> QED
    BY <1>2, <1>3, <2>1, <2>2, <2>5
<1> QED
  BY <1>1, <1>2, <1>3, <1>4, <1>5, <1>7, <1>10 DEF n

\* A step that takes no line whole leaves what is unread as it is.
LEMMA NoLineTaken ==
    ASSUME UNCHANGED <<sent, half>>, LinesTaken' = LinesTaken
    PROVE  Unread' = Unread /\ \A c \in Calls : Read(c)' <=> Read(c)
  BY DEF Unread, Read, LinesWritten, HalfWritten

\* Moving pieces into the buffer, or the first piece of a line out of it.
LEMMA PiecesMove ==
    ASSUME ServerTheorems!IInv,
           \/ ServerTheorems!FillBuffer \/ ServerTheorems!TakePart
           \/ UNCHANGED <<sent, half, pipe, readBuf>>
    PROVE  Unread' = Unread /\ \A c \in Calls : Read(c)' <=> Read(c)
<1>1. CASE UNCHANGED <<sent, half, pipe, readBuf>>
  BY <1>1 DEF Unread, Read, LinesWritten, LinesTaken, HalfWritten
<1>2. CASE ServerTheorems!FillBuffer
  <2>1. readBuf = <<>> /\ readBuf' = pipe /\ pipe' = <<>> /\ UNCHANGED <<sent, half>>
    BY <1>2 DEF ServerTheorems!FillBuffer, ServerTheorems!Starved
  <2>2. HalfWritten' = HalfWritten
    BY <2>1 DEF HalfWritten
  <2>3. Len(<<>>) = 0
    OBVIOUS
  <2>4. 2 * Len(sent) - HalfWritten - Len(pipe) - 0 = 2 * Len(sent) - HalfWritten - 0 - Len(pipe)
    BY LineCounts
  <2>5. LinesTaken' = LinesTaken
    BY <2>1, <2>2, <2>3, <2>4, Zenon DEF LinesTaken
  <2> QED
    BY <2>1, <2>5, NoLineTaken
<1>3. CASE ServerTheorems!TakePart
  <2>1. /\ readBuf # <<>> /\ ServerTheorems!FirstLine = 0 /\ readBuf' = <<>>
        /\ UNCHANGED <<sent, half, pipe>>
    BY <1>3 DEF ServerTheorems!TakePart, ServerTheorems!peerVars
  <2>2. PICK i \in DOMAIN sent : /\ ServerTheorems!Consumed + 2 = 2 * i
                                 /\ readBuf = <<ServerTheorems!Piece(sent[i], FALSE)>>
    <3>1. \E i \in DOMAIN sent :
            \/ /\ ServerTheorems!Consumed = 2 * i - 1 /\ ServerTheorems!FirstLine = 1
               /\ readBuf[1] = ServerTheorems!Piece(sent[i], TRUE)
               /\ line \in {<<>>, <<ServerTheorems!Piece(sent[i], FALSE)>>}
            \/ /\ ServerTheorems!Consumed + 2 = 2 * i /\ ServerTheorems!FirstLine = 2
               /\ Len(readBuf) >= 2
               /\ readBuf[1] = ServerTheorems!Piece(sent[i], FALSE)
               /\ readBuf[2] = ServerTheorems!Piece(sent[i], TRUE)
               /\ line = <<>>
            \/ /\ ServerTheorems!Consumed + 2 = 2 * i /\ ServerTheorems!FirstLine = 0
               /\ readBuf = <<ServerTheorems!Piece(sent[i], FALSE)>>
               /\ line = <<>>
      BY <2>1, ServerAssumed, ServerTheorems!NextPiece, Zenon
    <3>2. 0 # 1 /\ 0 # 2
      OBVIOUS
    <3> QED
      BY <2>1, <3>1, <3>2, Zenon
  <2>3. Len(readBuf) = 1 /\ Len(readBuf') = 0
    BY <2>1, <2>2
  <2>4. HalfWritten' = HalfWritten
    BY <2>1 DEF HalfWritten
  <2>5. LinesTaken' = LinesTaken
    <3> DEFINE m == 2 * Len(sent) - HalfWritten - Len(pipe)
    <3>0. /\ Len(sent) \in Nat /\ Len(pipe) \in Nat /\ HalfWritten \in {0, 1}
          /\ ServerTheorems!Consumed = m - Len(readBuf) /\ DOMAIN sent = 1..Len(sent)
      BY LineCounts
    <3>1. m \in Int /\ m = 2 * i - 1 /\ i \in Nat
      <4>1. m \in Int /\ i \in Nat
        BY <3>0
      <4> HIDE DEF m
      <4> QED
        BY <2>2, <2>3, <3>0, <4>1
    <3>2. LinesTaken = (m - 1) \div 2
      BY <2>3, Zenon DEF LinesTaken
    <3>3. LinesTaken' = (m - 0) \div 2
      BY <2>1, <2>3, <2>4, Zenon DEF LinesTaken
    <3> HIDE DEF m
    <3> QED
      BY <3>1, <3>2, <3>3
  <2> QED
    BY <2>1, <2>5, NoLineTaken
<1> QED
  BY <1>1, <1>2, <1>3

\* Taking a line shortens what is unread by its head, and that line is read once.
LEMMA LineTaken ==
    ASSUME ServerTheorems!IInv, ServerTheorems!TakeLine
    PROVE  /\ Unread # <<>> /\ Unread' = Tail(Unread)
           /\ Head(Unread) \in Calls /\ ~Read(Head(Unread))
           /\ \A c \in Calls : Read(c)' <=> Read(c) \/ c = Head(Unread)
<1> DEFINE f == ServerTheorems!FirstLine
           n == ServerTheorems!Consumed
           m == 2 * Len(sent) - HalfWritten - Len(pipe)
<1>1. /\ f > 0 /\ readBuf' = SubSeq(readBuf, f + 1, Len(readBuf))
      /\ UNCHANGED <<sent, half, pipe>>
  BY DEF ServerTheorems!TakeLine, ServerTheorems!peerVars
<1>2. readBuf \in Seq(ServerTheorems!Pieces)
  BY DEF ServerTheorems!IInv, ServerTheorems!TypeOK
<1>3. readBuf # <<>>
  <2>1. readBuf = <<>> => f = 0
    BY <1>2, ServerAssumed, ServerTheorems!FirstLineFacts, Zenon
  <2> QED
    BY <1>1, <2>1
<1>4. PICK i \in DOMAIN sent : \/ n = 2 * i - 1 /\ f = 1
                               \/ n + 2 = 2 * i /\ f = 2 /\ Len(readBuf) >= 2
  <2>1. \E i \in DOMAIN sent :
          \/ /\ n = 2 * i - 1 /\ f = 1
             /\ readBuf[1] = ServerTheorems!Piece(sent[i], TRUE)
             /\ line \in {<<>>, <<ServerTheorems!Piece(sent[i], FALSE)>>}
          \/ /\ n + 2 = 2 * i /\ f = 2
             /\ Len(readBuf) >= 2
             /\ readBuf[1] = ServerTheorems!Piece(sent[i], FALSE)
             /\ readBuf[2] = ServerTheorems!Piece(sent[i], TRUE)
             /\ line = <<>>
          \/ /\ n + 2 = 2 * i /\ f = 0
             /\ readBuf = <<ServerTheorems!Piece(sent[i], FALSE)>>
             /\ line = <<>>
    BY <1>3, ServerAssumed, ServerTheorems!NextPiece, Zenon
  <2>2. f # 0
    BY <1>1
  <2> QED
    BY <2>1, <2>2, Zenon
<1>5. /\ n \in Nat /\ i \in Nat /\ Len(readBuf) \in Nat /\ m \in Int /\ n = m - Len(readBuf)
      /\ 2 * LinesTaken <= n /\ n <= 2 * LinesTaken + 1 /\ LinesTaken \in Nat
  BY LineCounts
<1>6. f \in Nat /\ f >= 1 /\ f <= Len(readBuf) /\ n + f = 2 * i
  BY <1>2, <1>3, <1>4, <1>5, EmptySeq
<1>7. Len(readBuf') = Len(readBuf) - f
  BY <1>1, <1>2, <1>5, <1>6, RestPlaces
<1>8. LinesTaken = i - 1
  BY <1>4, <1>5
<1>9. LinesTaken' = i
  <2>1. HalfWritten' = HalfWritten
    BY <1>1 DEF HalfWritten
  <2>2. LinesTaken' = (m - Len(readBuf')) \div 2
    BY <1>1, <2>1, Zenon DEF LinesTaken
  <2>3. m - Len(readBuf') = 2 * i
    BY <1>5, <1>6, <1>7
  <2> QED
    BY <1>5, <2>2, <2>3
<1> DEFINE t == LinesTaken
<1>10. t \in Nat /\ t + 1 <= LinesWritten /\ LinesTaken' = t + 1 /\ LinesWritten' = LinesWritten
  <2>1. 2 * i <= 2 * Len(sent) - HalfWritten
    <3>1. Len(sent) \in Nat /\ Len(pipe) \in Nat /\ HalfWritten \in {0, 1}
      BY LineCounts
    <3>2. Len(pipe) >= 0 /\ m <= 2 * Len(sent) - HalfWritten
      BY <3>1
    <3>3. 2 * i <= m
      <4> HIDE DEF m, n, f
      <4> QED
        BY <1>5, <1>6
    <3> QED
      BY <3>1, <3>2, <3>3
  <2>2. i <= Len(sent) - HalfWritten
    <3>1. CASE HalfWritten = 0
      BY <1>5, <2>1, <3>1, LineCounts
    <3>2. CASE HalfWritten = 1
      BY <1>5, <2>1, <3>2, LineCounts
    <3> QED
      BY <3>1, <3>2, LineCounts
  <2>3. LinesWritten' = LinesWritten
    BY <1>1 DEF LinesWritten, HalfWritten
  <2>4. t \in Nat /\ i = t + 1
    BY <1>5, <1>8
  <2>5. i <= LinesWritten
    BY <2>2 DEF LinesWritten
  <2> QED
    BY <1>9, <2>3, <2>4, <2>5
<1> HIDE DEF f, n, m, t
<1>11. /\ sent \in Seq(Calls) /\ LinesWritten \in Nat /\ LinesWritten <= Len(sent)
       /\ DOMAIN sent = 1..Len(sent) /\ Len(sent) \in Nat
       /\ \A k, j \in DOMAIN sent : sent[k] = sent[j] => k = j
  BY LineCounts
<1>12. LET u == SubSeq(sent, t + 1, LinesWritten)
       IN  /\ u # <<>> /\ Head(u) = sent[t + 1] /\ Tail(u) = SubSeq(sent, t + 1 + 1, LinesWritten)
           /\ Range(SubSeq(sent, 1, t + 1)) = Range(SubSeq(sent, 1, t)) \cup {sent[t + 1]}
  BY <1>10, <1>11, PartMoves
<1>13. Unread = SubSeq(sent, t + 1, LinesWritten) /\ Unread' = SubSeq(sent, t + 1 + 1, LinesWritten)
  BY <1>1, <1>10 DEF Unread, t
<1>14. \A c \in Calls : /\ Read(c) <=> c \in Range(SubSeq(sent, 1, t))
                        /\ Read(c)' <=> c \in Range(SubSeq(sent, 1, t + 1))
  BY <1>1, <1>10 DEF Read, t
<1>15. sent[t + 1] \in Calls
  BY <1>10, <1>11, ElementOfSeq
<1>16. sent[t + 1] \notin Range(SubSeq(sent, 1, t))
  <2>1. t <= Len(sent) /\ 1 <= t + 1 /\ t + 1 \in DOMAIN sent
    BY <1>10, <1>11
  <2>2. LET a == SubSeq(sent, 1, t)
        IN  DOMAIN a = 1..(t - 1 + 1) /\ \A k \in 1..(t - 1 + 1) : a[k] = sent[1 + k - 1]
    BY <1>10, <1>11, <2>1, PartPlaces
  <2>3. \A k \in DOMAIN SubSeq(sent, 1, t) :
          k \in DOMAIN sent /\ k # t + 1 /\ SubSeq(sent, 1, t)[k] = sent[k]
    BY <1>10, <1>11, <2>1, <2>2
  <2> QED
    BY <1>11, <2>1, <2>3 DEF Range
<1> QED
  BY <1>12, <1>13, <1>14, <1>15, <1>16

\* The first chunk of a line makes no line whole.
LEMMA FirstChunkIsNoLine ==
    ASSUME ServerTheorems!IInv, NEW m \in Calls, Server!PeerWritesFirstChunk(m)
    PROVE  Unread' = Unread /\ \A c \in Calls : Read(c)' <=> Read(c)
<1>1. /\ half = NoCall /\ half' = m /\ sent' = Append(sent, m)
      /\ pipe' = Append(pipe, Server!Piece(m, FALSE)) /\ UNCHANGED readBuf
  BY DEF Server!PeerWritesFirstChunk, Server!MayWrite, Server!readerVars
<1>2. HalfWritten = 0 /\ HalfWritten' = 1
  BY <1>1, TransportAssumption DEF HalfWritten
<1>3. /\ sent \in Seq(Calls) /\ Len(sent) \in Nat /\ Len(pipe) \in Nat /\ Len(readBuf) \in Nat
      /\ LinesTaken \in Nat /\ LinesTaken <= LinesWritten /\ LinesWritten <= Len(sent)
  BY LineCounts
<1>4. Len(sent') = Len(sent) + 1
  BY <1>1, <1>3, AppendProperties
<1>5. Len(pipe') = Len(pipe) + 1
  <2>1. pipe \in Seq(ServerTheorems!Pieces)
    BY DEF ServerTheorems!IInv, ServerTheorems!TypeOK
  <2>2. Server!Piece(m, FALSE) \in ServerTheorems!Pieces
    <3>1. ServerTheorems!Piece(m, FALSE) \in ServerTheorems!Pieces
      BY ServerAssumed, ServerTheorems!PieceFacts, Zenon
    <3> QED
      BY <3>1 DEF Server!Piece, ServerTheorems!Piece
  <2> QED
    BY <1>1, <2>1, <2>2, AppendProperties
<1>6. LinesWritten = Len(sent) /\ LinesWritten' = LinesWritten
  BY <1>2, <1>3, <1>4 DEF LinesWritten
<1>7. LinesTaken' = LinesTaken
  <2>1. 2 * Len(sent') - 1 - Len(pipe') - Len(readBuf) = 2 * Len(sent) - 0 - Len(pipe) - Len(readBuf)
    BY <1>3, <1>4, <1>5
  <2> QED
    BY <1>1, <1>2, <2>1, Zenon DEF LinesTaken
<1>8. SubSeq(Append(sent, m), LinesTaken + 1, LinesWritten) = SubSeq(sent, LinesTaken + 1, LinesWritten)
  <2>1. LinesTaken + 1 \in Nat /\ LinesTaken + 1 >= 1 /\ LinesWritten \in Nat
        /\ LinesTaken + 1 <= LinesWritten + 1
    BY <1>3, <1>6
  <2> QED
    BY <1>3, <2>1, PartOfAppend
<1>9. SubSeq(Append(sent, m), 1, LinesTaken) = SubSeq(sent, 1, LinesTaken)
  <2>1. 1 \in Nat /\ 1 >= 1 /\ LinesTaken <= Len(sent) /\ 1 <= LinesTaken + 1
    BY <1>3, <1>6
  <2> QED
    BY <1>3, <2>1, PartOfAppend
<1> QED
  BY <1>1, <1>6, <1>7, <1>8, <1>9 DEF Unread, Read

\* A response that the client can place answers a request, and one that was read:
\* when the process runs the end of the input cuts no line off.
LEMMA AnswersWereRead ==
    ASSUME ServerTheorems!IInv, SInv, child = "running", server = "writing",
           response.tag = "response", Resolves(response.to)
    PROVE  response.to \in Calls /\ Kind[response.to] = "request" /\ Read(response.to)
<1> DEFINE n == ServerTheorems!Consumed
<1>1. response = ServerTheorems!LineError
      \/ \E m \in Range(sent) : response = ServerTheorems!Answer(m)
  BY DEF ServerTheorems!IInv, ServerTheorems!Loop, ServerTheorems!Range, Range
<1>2. ServerTheorems!LineError.tag # "response"
  BY DEF ServerTheorems!LineError
<1>3. PICK m \in Range(sent) : response = ServerTheorems!Answer(m)
  BY <1>1, <1>2
<1>4. response.to = m
  BY <1>3 DEF ServerTheorems!Answer
<1>5. PICK i \in DOMAIN sent : sent[i] = m
  BY DEF Range
<1>6. 2 * i <= ServerTheorems!Reached
  BY <1>3, <1>5 DEF ServerTheorems!IInv, ServerTheorems!InOrder, ServerTheorems!Held
<1>7. ServerTheorems!Reached = n
  <2>1. CASE ServerTheorems!Exhausted
    <3>1. input = "closed" /\ Len(pipe) = 0 /\ Len(readBuf) = 0
      BY <2>1 DEF ServerTheorems!Exhausted
    <3>2. HalfWritten = 0
      BY <3>1 DEF HalfWritten, SInv, WrittenWhole
    <3>3. n = 2 * Len(sent)
      BY <3>1, <3>2, LineCounts
    <3> QED
      BY <2>1, <3>3 DEF ServerTheorems!Reached
  <2>2. CASE ~ServerTheorems!Exhausted
    BY <2>2 DEF ServerTheorems!Reached
  <2> QED
    BY <2>1, <2>2
<1>8. i \in Nat /\ i >= 1 /\ i <= LinesTaken
  BY <1>6, <1>7, LineCounts
<1>9. Read(m)
  <2>1. /\ LinesTaken \in Nat /\ LinesTaken <= Len(sent) /\ sent \in Seq(Calls)
        /\ 1 \in Nat /\ 1 >= 1 /\ 1 <= LinesTaken + 1
    BY LineCounts
  <2>2. LET a == SubSeq(sent, 1, LinesTaken)
        IN  /\ DOMAIN a = 1..(LinesTaken - 1 + 1)
            /\ \A k \in 1..(LinesTaken - 1 + 1) : a[k] = sent[1 + k - 1]
    BY <2>1, PartPlaces
  <2>3. i \in DOMAIN SubSeq(sent, 1, LinesTaken) /\ SubSeq(sent, 1, LinesTaken)[i] = m
    BY <1>5, <1>8, <2>1, <2>2
  <2> QED
    BY <2>3 DEF Read, Range
<1>10. m \in Calls
  BY <1>5, LineCounts, ElementOfSeq
<1>11. "id" \in SentAs(m).fields
  <2>1. ResponseTo(m).fields \subseteq (SentAs(m).fields \cap {"id"}) \cup {"result", "error"}
    BY DEF ResponseTo, Message
  <2>2. ResponseTo(m).variant = "Response"
    BY DEF ResponseTo, Message
  <2>3. AsReceived(ResponseTo(m)).fields \subseteq ResponseTo(m).fields
    BY <2>2 DEF AsReceived, Encode, Decode, Taken, Rejected, Message
  <2>4. "id" \in AsReceived(ResponseTo(m)).fields
    BY <1>4 DEF Resolves, Placed
  <2> QED
    BY <2>1, <2>3, <2>4
<1>12. Kind[m] = "request"
  BY <1>11 DEF SentAs, Message
<1> QED
  BY <1>4, <1>9, <1>10, <1>12

\* What the client's model sees of the child stays as it is.
Unseen ==
    /\ Unread' = Unread /\ \A c \in Calls : Read(c)' <=> Read(c)
    /\ child' = child

\* Steps that the two models share, and those the transport's model does not see.
LEMMA ClientOwnSteps ==
    ASSUME [Next]_vars, ~ServerRuns, ~WriteFirstChunk, ~PollPending
    PROVE  Client!Next \/ UNCHANGED vars
<1>1. CASE \E c \in Calls : Submit(c) \/ Enqueue(c) \/ EnqueueFails(c) \/ Return(c) \/ Cancel(c)
  BY <1>1 DEF Submit, Enqueue, EnqueueFails, Return, Cancel, Client!Next, Client!Caller
<1>2. CASE DropHandle \/ Incoming \/ ProcessExited
  BY <1>2 DEF DropHandle, Incoming, ProcessExited, Client!Next
<1>3. CASE Teardown
  BY <1>3 DEF Teardown, Client!Next, Client!Teardown
<1>4. CASE Outgoing
  BY <1>4 DEF Outgoing, WriteLine, WriteRest, Client!Next, Client!Outgoing
<1>5. CASE ProcessExits
  BY <1>5 DEF ProcessExits, Client!Next, Client!Child
<1> QED
  BY <1>1, <1>2, <1>3, <1>4, <1>5 DEF Next

LEMMA ClientStutters ==
    ASSUME Unseen, UNCHANGED <<clientVars, stdout>>
    PROVE  UNCHANGED Client!vars
<1>1. [c \in Calls |-> IF Read(c) THEN 1 ELSE 0]' = [c \in Calls |-> IF Read(c) THEN 1 ELSE 0]
  BY DEF Unseen
<1> QED
  BY <1>1 DEF Unseen, clientVars, Client!vars, Client!callerVars, Client!actorVars,
              Client!childVars

\* The server reads the lines in the order they were written.
LEMMA ServerReads ==
    ASSUME ServerTheorems!IInv, ServerTheorems!TakeLine, child = "running",
           UNCHANGED <<clientVars, stdout, child>>
    PROVE  Client!ChildReads
<1> DEFINE got == [c \in Calls |-> IF Read(c) THEN 1 ELSE 0]
           h == Head(Unread)
<1>1. /\ Unread # <<>> /\ Unread' = Tail(Unread) /\ h \in Calls /\ ~Read(h)
      /\ \A c \in Calls : Read(c)' <=> Read(c) \/ c = h
  BY LineTaken
<1>2. got' = [got EXCEPT ![h] = @ + 1]
  <2> DEFINE new == [got EXCEPT ![h] = @ + 1]
  <2>1. \A c \in Calls : got[c] = (IF Read(c) THEN 1 ELSE 0) /\ got'[c] = (IF Read(c)' THEN 1 ELSE 0)
    OBVIOUS
  <2>2. got[h] = 0
    BY <1>1
  <2>3. \A c \in Calls : got'[c] = IF c = h THEN 1 ELSE got[c]
    BY <1>1, <2>1
  <2>4. got' = [c \in Calls |-> IF c = h THEN 1 ELSE got[c]]
    BY <2>3
  <2>5. new = [c \in Calls |-> IF c = h THEN 1 ELSE got[c]]
    <3>1. got = [c \in Calls |-> got[c]] /\ h \in Calls
      BY <1>1
    <3> HIDE DEF got, h
    <3> QED
      BY <2>2, <3>1
  <2> QED
    BY <2>4, <2>5
<1>3. "stdin" \notin (IF child = "running" THEN {} ELSE {"stdin", "stdout", "stderr"})
  OBVIOUS
<1> HIDE DEF got, h
<1> QED
  BY <1>1, <1>2, <1>3 DEF Client!ChildReads, Client!callerVars, Client!actorVars, clientVars, got, h

\* What it writes is the answer to a request it has read, or noise.
LEMMA ServerSpeaks ==
    ASSUME ServerTheorems!IInv, SInv, child = "running", ServerWrites,
           UNCHANGED <<clientVars, child>>
    PROVE  Client!ChildPrints \/ \E c \in Calls : Client!ChildAnswers(c)
<1>1. /\ server = "writing" /\ Len(stdout) < StdoutCapacity
      /\ stdout' = Append(stdout, AtClient(response))
      /\ UNCHANGED <<sent, half, pipe, readBuf>>
  BY DEF ServerWrites, Server!WriteMessage, Server!peerVars, Server!readerVars
<1>2. Unread' = Unread /\ \A c \in Calls : Read(c)' <=> Read(c)
  BY <1>1, PiecesMove
<1>3. [c \in Calls |-> IF Read(c) THEN 1 ELSE 0]' = [c \in Calls |-> IF Read(c) THEN 1 ELSE 0]
  BY <1>2
<1>4. UNCHANGED <<Client!callerVars, answer, Client!actorVars, errors, Unread, Client!childVars>>
  BY <1>2, <1>3 DEF clientVars, Client!callerVars, Client!actorVars, Client!childVars
<1>5. Client!StdoutWritable
  BY <1>1 DEF Client!StdoutWritable
<1>6. CASE response.tag = "response" /\ Resolves(response.to)
  <2> DEFINE c == response.to
  <2>1. c \in Calls /\ Kind[c] = "request" /\ Read(c)
    BY <1>1, <1>6, AnswersWereRead
  <2>2. stdout' = Append(stdout, Client!Reply(c))
    BY <1>1, <1>6 DEF AtClient, Reply, Outcome, Client!Reply, Client!Outcome
  <2>3. [d \in Calls |-> IF Read(d) THEN 1 ELSE 0][c] > 0
    BY <2>1
  <2> HIDE DEF c
  <2>4. Client!ChildAnswers(c)
    BY <1>4, <1>5, <2>1, <2>2, <2>3 DEF Client!ChildAnswers
  <2> QED
    BY <2>1, <2>4
<1>7. CASE ~(response.tag = "response" /\ Resolves(response.to))
  <2>1. stdout' = Append(stdout, Client!Outcome("log", NoCall))
    BY <1>1, <1>7 DEF AtClient, Outcome, Client!Outcome
  <2> QED
    BY <1>4, <1>5, <2>1 DEF Client!ChildPrints
<1> QED
  BY <1>6, <1>7

LEMMA ClientSteps ==
    ASSUME ServerTheorems!IInv, SInv, [Next]_vars
    PROVE  [Client!Next]_(Client!vars)
<1>1. CASE UNCHANGED vars
  <2>1. Unseen /\ UNCHANGED <<clientVars, stdout>>
    BY <1>1, PiecesMove DEF vars, serverVars, Unseen
  <2> QED
    BY <2>1, ClientStutters
<1>2. CASE ~ServerRuns /\ ~WriteFirstChunk /\ ~PollPending
  BY <1>1, <1>2, ClientOwnSteps
<1>3. CASE WriteFirstChunk
  <2>1. current \in Calls /\ Server!PeerWritesFirstChunk(current)
    BY <1>3 DEF WriteFirstChunk, Client!OutgoingAt, SInv, Handed
  <2>2. Unseen /\ UNCHANGED <<clientVars, stdout>>
    BY <1>3, <2>1, FirstChunkIsNoLine DEF WriteFirstChunk, Unseen
  <2> QED
    BY <2>2, ClientStutters
<1>4. CASE PollPending
  <2>1. Unseen /\ UNCHANGED <<clientVars, stdout>>
    BY <1>4, PiecesMove DEF PollPending, Server!PollPending, Server!peerVars, Unseen
  <2> QED
    BY <2>1, ClientStutters
<1>5. CASE ServerRuns
  <2> USE <1>5
  <2>1. child = "running" /\ UNCHANGED <<clientVars, child>>
    BY DEF ServerRuns
  <2>2. CASE ServerWrites
    BY <2>1, <2>2, ServerSpeaks DEF Client!Next, Client!Child
  <2>3. CASE UNCHANGED stdout /\ Server!TakeLine
    BY <2>1, <2>3, SameSteps, ServerReads DEF Client!Next, Client!Child
  <2>4. CASE UNCHANGED stdout /\ (Server!FillBuffer \/ Server!TakePart)
    <3>1. Unseen /\ UNCHANGED <<clientVars, stdout>>
      BY <2>1, <2>4, SameSteps, PiecesMove DEF Unseen
    <3> QED
      BY <3>1, ClientStutters
  <2>5. CASE UNCHANGED stdout /\ (Server!ServiceAnswers \/ Server!Finish)
    <3>1. Unseen /\ UNCHANGED <<clientVars, stdout>>
      BY <2>1, <2>5, PiecesMove DEF Unseen, Server!ServiceAnswers, Server!Finish,
         Server!peerVars, Server!readerVars
    <3> QED
      BY <3>1, ClientStutters
  <2> QED
    BY <2>2, <2>3, <2>4, <2>5 DEF ServerRuns
<1> QED
  BY <1>2, <1>3, <1>4, <1>5

\* Nothing was written at the start.
LEMMA ClientStarts == Init => Client!Init
<1> SUFFICES ASSUME Init PROVE Client!Init
  OBVIOUS
<1>1. HalfWritten = 0 /\ LinesWritten = 0 /\ LinesTaken = 0
  BY DEF Init, HalfWritten, LinesWritten, LinesTaken
<1>2. Unread = <<>>
  BY <1>1 DEF Init, Unread
<1>3. \A c \in Calls : ~Read(c)
  <2>1. sent = <<>> /\ SubSeq(<<>>, 1, 0) = <<>>
    BY DEF Init
  <2> QED
    BY <1>1, <2>1, EmptyFacts, Zenon DEF Read
<1>4. [c \in Calls |-> IF Read(c) THEN 1 ELSE 0] = [c \in Calls |-> 0]
  BY <1>3
<1> QED
  BY <1>2, <1>4 DEF Init, Client!Init, NoPending, Client!NoPending, Unresolved, Client!Unresolved,
     Outcome, Client!Outcome

\* The server of mcp-server at the other end of the pipes is a child as the
\* transport's specification assumes it.
THEOREM ServerChild == Spec => ServerIsAChild
<1>1. ServerTheorems!IInv /\ SInv /\ [Next]_vars => [Client!Next]_(Client!vars)
  BY ClientSteps
<1> QED
  BY <1>1, ClientStarts, ServerInvariance, StepsKeepLines, PTL DEF Spec, ServerIsAChild, Client!Spec

-----------------------------------------------------------------------------
(* So what is proved of StdioTransport holds of the session. *)

TransportTheorems == INSTANCE StdioTransportProofs
    WITH Noise <- {"log"}, Closable <- {}, stdin <- Unread,
         received <- [c \in Calls |-> IF Read(c) THEN 1 ELSE 0],
         closed <- IF child = "running" THEN {} ELSE {"stdin", "stdout", "stderr"}

LEMMA TransportAssumed ==
    /\ /\ NoCall \notin Calls
       /\ Kind \in [Calls -> TransportTheorems!Kinds]
       /\ IdOf \in [Calls -> Ids]
       /\ Capacity \in Nat \ {0}
    /\ /\ StdoutCapacity \in Nat \ {0}
       /\ {"log"} \subseteq {"log", "garbled"}
       /\ {} \subseteq TransportTheorems!Streams
  BY TransportAssumption, SessionAssumption DEF Kinds, TransportTheorems!Kinds

\* The two names of one operator are the same,
LEMMA SameOperators ==
    /\ Client!Unresolved = TransportTheorems!Unresolved /\ Client!Nil = TransportTheorems!Nil
    /\ Client!Closed = TransportTheorems!Closed
    /\ Client!ProcessError = TransportTheorems!ProcessError
    /\ Client!Unsupported = TransportTheorems!Unsupported
    /\ \A d : Client!Reply(d) = TransportTheorems!Reply(d)
    /\ \A n, d : Client!Outcome(n, d) = TransportTheorems!Outcome(n, d)
    /\ \A a, S, o : Client!Resolve(a, S, o) = TransportTheorems!Resolve(a, S, o)
    /\ \A t, c : /\ Client!InsertPending(t, c) = TransportTheorems!InsertPending(t, c)
                 /\ Client!RemovePending(t, c) = TransportTheorems!RemovePending(t, c)
                 /\ Client!Displaced(t, c) = TransportTheorems!Displaced(t, c)
    /\ \A t : Client!Senders(t) = TransportTheorems!Senders(t)
    /\ Client!NoPending = TransportTheorems!NoPending
    /\ \A q : Client!Range(q) = TransportTheorems!Range(q)
    /\ \A c : Client!Active(c) <=> TransportTheorems!Active(c)
    /\ \A x : Client!OutgoingAt(x) <=> TransportTheorems!OutgoingAt(x)
    /\ Client!ReceiverAlive <=> TransportTheorems!ReceiverAlive
    /\ Client!StdoutWritable <=> TransportTheorems!StdoutWritable
    /\ Client!Streams = TransportTheorems!Streams
  BY DEF Client!Unresolved, TransportTheorems!Unresolved, Client!Nil,
     TransportTheorems!Nil, Client!Closed, TransportTheorems!Closed,
     Client!ProcessError, TransportTheorems!ProcessError, Client!Unsupported,
     TransportTheorems!Unsupported, Client!Reply, TransportTheorems!Reply,
     Client!Outcome, TransportTheorems!Outcome, Client!Resolve,
     TransportTheorems!Resolve, Client!InsertPending, TransportTheorems!InsertPending,
     Client!RemovePending, TransportTheorems!RemovePending, Client!Displaced,
     TransportTheorems!Displaced, Client!Senders, TransportTheorems!Senders,
     Client!NoPending, TransportTheorems!NoPending, Client!Range,
     TransportTheorems!Range, Client!Active, TransportTheorems!Active,
     Client!OutgoingAt, TransportTheorems!OutgoingAt, Client!ReceiverAlive,
     TransportTheorems!ReceiverAlive, Client!StdoutWritable,
     TransportTheorems!StdoutWritable, Client!Streams, TransportTheorems!Streams

\* and the two names of one step.
LEMMA SameClientSteps ==
    [Client!Next]_(Client!vars) => [TransportTheorems!Next]_(TransportTheorems!vars)
<1> USE SameOperators DEF Client!callerVars, TransportTheorems!callerVars, Client!actorVars,
        TransportTheorems!actorVars, Client!childVars, TransportTheorems!childVars
<1>1. ASSUME NEW c \in Calls
      PROVE  Client!Caller(c) => TransportTheorems!Caller(c)
  <2>1. Client!Submit(c) => TransportTheorems!Submit(c)
    BY DEF Client!Submit, TransportTheorems!Submit
  <2>2. Client!Enqueue(c) => TransportTheorems!Enqueue(c)
    BY DEF Client!Enqueue, TransportTheorems!Enqueue
  <2>3. Client!EnqueueFails(c) => TransportTheorems!EnqueueFails(c)
    BY DEF Client!EnqueueFails, TransportTheorems!EnqueueFails
  <2>4. Client!Return(c) => TransportTheorems!Return(c)
    BY DEF Client!Return, TransportTheorems!Return
  <2>5. Client!Cancel(c) => TransportTheorems!Cancel(c)
    BY DEF Client!Cancel, TransportTheorems!Cancel
  <2> QED
    BY <2>1, <2>2, <2>3, <2>4, <2>5 DEF Client!Caller, TransportTheorems!Caller
<1>2. Client!Outgoing => TransportTheorems!Outgoing
  <2>1. Client!OutgoingRecv => TransportTheorems!OutgoingRecv
    BY DEF Client!OutgoingRecv, TransportTheorems!OutgoingRecv
  <2>2. Client!OutgoingRecvNone => TransportTheorems!OutgoingRecvNone
    BY DEF Client!OutgoingRecvNone, TransportTheorems!OutgoingRecvNone
  <2>3. Client!OutgoingInsert => TransportTheorems!OutgoingInsert
    BY DEF Client!OutgoingInsert, TransportTheorems!OutgoingInsert
  <2>4. Client!OutgoingWrite => TransportTheorems!OutgoingWrite
    BY DEF Client!OutgoingWrite, TransportTheorems!OutgoingWrite
  <2>5. Client!OutgoingFlush => TransportTheorems!OutgoingFlush
    BY DEF Client!OutgoingFlush, TransportTheorems!OutgoingFlush
  <2>6. Client!OutgoingFails => TransportTheorems!OutgoingFails
    BY DEF Client!OutgoingFails, TransportTheorems!OutgoingFails
  <2> QED
    BY <2>1, <2>2, <2>3, <2>4, <2>5, <2>6 DEF Client!Outgoing, TransportTheorems!Outgoing
<1>3. Client!Incoming => TransportTheorems!Incoming
  <2>1. Client!IncomingReply => TransportTheorems!IncomingReply
    BY DEF Client!IncomingReply, TransportTheorems!IncomingReply
  <2>2. Client!IncomingSkip => TransportTheorems!IncomingSkip
    BY DEF Client!IncomingSkip, TransportTheorems!IncomingSkip
  <2>3. Client!IncomingEnds => TransportTheorems!IncomingEnds
    BY DEF Client!IncomingEnds, TransportTheorems!IncomingEnds
  <2> QED
    BY <2>1, <2>2, <2>3 DEF Client!Incoming, TransportTheorems!Incoming
<1>4. Client!Teardown => TransportTheorems!Teardown
  <2>1. Client!ReadStderr => TransportTheorems!ReadStderr
    BY DEF Client!ReadStderr, TransportTheorems!ReadStderr
  <2>2. Client!ReportError => TransportTheorems!ReportError
    BY DEF Client!ReportError, TransportTheorems!ReportError
  <2>3. Client!ClearPending => TransportTheorems!ClearPending
    BY DEF Client!ClearPending, TransportTheorems!ClearPending
  <2>4. Client!DropActor => TransportTheorems!DropActor
    BY DEF Client!DropActor, TransportTheorems!DropActor
  <2> QED
    BY <2>1, <2>2, <2>3, <2>4 DEF Client!Teardown, TransportTheorems!Teardown
<1>5. Client!Child => TransportTheorems!Child
  <2>1. Client!ChildReads => TransportTheorems!ChildReads
    BY DEF Client!ChildReads, TransportTheorems!ChildReads
  <2>2. Client!ChildPrints => TransportTheorems!ChildPrints
    BY DEF Client!ChildPrints, TransportTheorems!ChildPrints
  <2>3. Client!ChildExits => TransportTheorems!ChildExits
    BY DEF Client!ChildExits, TransportTheorems!ChildExits
  <2>4. ASSUME NEW c \in Calls
        PROVE  Client!ChildAnswers(c) => TransportTheorems!ChildAnswers(c)
    BY DEF Client!ChildAnswers, TransportTheorems!ChildAnswers
  <2> QED
    BY <2>1, <2>2, <2>3, <2>4 DEF Client!Child, TransportTheorems!Child
<1>6. /\ Client!DropHandle => TransportTheorems!DropHandle
      /\ Client!ProcessExited => TransportTheorems!ProcessExited
      /\ Client!ReadStderrFails => TransportTheorems!ReadStderrFails
  BY DEF Client!DropHandle, TransportTheorems!DropHandle, Client!ProcessExited,
         TransportTheorems!ProcessExited, Client!ReadStderrFails, TransportTheorems!ReadStderrFails
<1>7. UNCHANGED Client!vars => UNCHANGED TransportTheorems!vars
  BY DEF Client!vars, TransportTheorems!vars
<1> QED
  BY <1>1, <1>2, <1>3, <1>4, <1>5, <1>6, <1>7 DEF Client!Next, TransportTheorems!Next

LEMMA TransportHolds == Spec => TransportTheorems!Spec
<1>1. Client!Init => TransportTheorems!Init
  BY SameOperators DEF Client!Init, TransportTheorems!Init
<1>2. [Client!Next]_(Client!vars) => [TransportTheorems!Next]_(TransportTheorems!vars)
  BY SameClientSteps
<1> QED
  BY <1>1, <1>2, ServerChild, PTL DEF ServerIsAChild, Client!Spec, TransportTheorems!Spec

LEMMA TransportInvariance == Spec => []TransportTheorems!IInv
<1>1. TransportTheorems!Spec => []TransportTheorems!IInv
  BY TransportAssumed, TransportTheorems!Invariance
<1> QED
  BY <1>1, TransportHolds, PTL

-----------------------------------------------------------------------------
(* The two invariants together. *)

\* Every reply on its way, held for a caller or returned was written by the server.
Written ==
    /\ \A d \in Calls : Reply(d) \in Range(stdout) => Server!Answered(d)
    /\ \A c, d \in Calls : answer[c] = Reply(d) => Server!Answered(d)
    /\ \A c, d \in Calls : result[c] = Reply(d) => Server!Answered(d)

Typed ==
    /\ phase \in [Calls -> Client!Phases] /\ answer \in [Calls -> Outcomes]
    /\ result \in [Calls -> Outcomes] /\ stdout \in Seq(Client!Lines)
    /\ written \in Seq(Server!Replies) /\ response \in Server!Replies

LEMMA TypesHold == ServerTheorems!IInv /\ TransportTheorems!IInv => Typed
<1> SUFFICES ASSUME ServerTheorems!IInv, TransportTheorems!IInv PROVE Typed
  OBVIOUS
<1>1. /\ phase \in [Calls -> TransportTheorems!Phases] /\ answer \in [Calls -> TransportTheorems!Outcomes]
      /\ result \in [Calls -> TransportTheorems!Outcomes] /\ stdout \in Seq(TransportTheorems!Lines)
  BY DEF TransportTheorems!IInv, TransportTheorems!Typed
<1>2. written \in Seq(ServerTheorems!Replies) /\ response \in ServerTheorems!Replies
  BY DEF ServerTheorems!IInv, ServerTheorems!TypeOK
<1>3. /\ Client!Phases = TransportTheorems!Phases /\ Outcomes = TransportTheorems!Outcomes
      /\ Client!Lines = TransportTheorems!Lines /\ Server!Replies = ServerTheorems!Replies
  BY DEF Client!Phases, TransportTheorems!Phases, Outcomes, TransportTheorems!Outcomes, Client!Lines,
     TransportTheorems!Lines, Server!Replies, ServerTheorems!Replies, Reply, Client!Reply,
     TransportTheorems!Reply, Outcome, Client!Outcome, TransportTheorems!Outcome, Failures,
     TransportTheorems!Failures, Closed, TransportTheorems!Closed, ProcessError,
     TransportTheorems!ProcessError, NotConnected, TransportTheorems!NotConnected, Unsupported,
     TransportTheorems!Unsupported, Unresolved, TransportTheorems!Unresolved, Nil,
     TransportTheorems!Nil, Server!Answer, ServerTheorems!Answer, Server!LineError,
     ServerTheorems!LineError
<1> QED
  BY <1>1, <1>2, <1>3 DEF Typed

\* What a step of the client may do to the replies: hand one on, or resolve a call
\* with something else.
Handing ==
    /\ \A c \in Calls : answer'[c] \in {answer[c], Nil} \cup Failures \cup Range(stdout)
    /\ \A c \in Calls : result'[c] \in {result[c], answer[c]} \cup Failures
    /\ Range(stdout') \subseteq Range(stdout)

LEMMA OutcomesDiffer ==
    /\ \A d \in Calls : Reply(d) \notin {Nil, Unresolved} \cup Failures
    /\ \A d \in Calls : Client!Reply(d) = Reply(d)
    /\ Client!Nil = Nil /\ Client!Unresolved = Unresolved
    /\ Client!Closed \in Failures /\ Client!Unsupported \in Failures
    /\ Client!ProcessError \in Failures
  BY DEF Reply, Nil, Unresolved, Failures, Closed, ProcessError, NotConnected, Unsupported, Outcome,
         Client!Reply, Client!Nil, Client!Unresolved, Client!Closed, Client!Unsupported,
         Client!ProcessError, Client!Outcome

LEMMA HandingKeeps ==
    ASSUME Written, Handing, UNCHANGED written
    PROVE  Written'
  BY OutcomesDiffer DEF Written, Handing, Server!Answered

\* Resolving oneshots changes no other answer.
LEMMA ResolvedWith ==
    ASSUME NEW S, NEW o, answer' = Client!Resolve(answer, S, o)
    PROVE  \A c \in Calls : answer'[c] \in {answer[c], o}
  BY DEF Client!Resolve

LEMMA ClientHands ==
    ASSUME Typed,
           \/ \E c \in Calls : Client!Caller(c)
           \/ Client!DropHandle \/ Client!Outgoing \/ Client!Incoming \/ Client!ProcessExited
           \/ Client!Teardown \/ Client!ChildExits
    PROVE  Handing
<1> USE OutcomesDiffer
<1> USE DEF Handing, Typed
<1>1. CASE \E c \in Calls : Client!Caller(c)
  BY <1>1 DEF Client!Caller, Client!Submit, Client!Enqueue, Client!EnqueueFails, Client!Return,
              Client!Cancel
<1>2. CASE Client!DropHandle \/ Client!ProcessExited \/ Client!ChildExits
  BY <1>2 DEF Client!DropHandle, Client!ProcessExited, Client!ChildExits, Client!callerVars,
              Client!actorVars
<1>3. CASE Client!Outgoing
  <2>1. /\ UNCHANGED <<result, stdout>>
        /\ UNCHANGED answer \/ \E S : answer' = Client!Resolve(answer, S, Client!Closed)
    BY <1>3 DEF Client!Outgoing, Client!OutgoingRecv, Client!OutgoingRecvNone,
                Client!OutgoingInsert, Client!OutgoingWrite, Client!OutgoingFlush,
                Client!OutgoingFails, Client!callerVars
  <2> QED
    BY <2>1, ResolvedWith
<1>4. CASE Client!Incoming
  <2>1. /\ UNCHANGED result
        /\ \/ UNCHANGED <<answer, stdout>>
           \/ /\ stdout # <<>> /\ stdout' = Tail(stdout)
              /\ UNCHANGED answer \/ \E S : answer' = Client!Resolve(answer, S, Head(stdout))
    BY <1>4 DEF Client!Incoming, Client!IncomingReply, Client!IncomingSkip, Client!IncomingEnds,
                Client!callerVars
  <2>2. CASE UNCHANGED <<answer, stdout>>
    BY <2>1, <2>2
  <2>3. CASE stdout # <<>> /\ stdout' = Tail(stdout)
    <3>1. Head(stdout) \in Range(stdout) /\ Range(stdout') \subseteq Range(stdout)
      BY <2>3, TailFacts
    <3> QED
      BY <2>1, <2>3, <3>1, ResolvedWith
  <2> QED
    BY <2>1, <2>2, <2>3
<1>5. CASE Client!Teardown
  <2>1. /\ UNCHANGED <<result, stdout>>
        /\ UNCHANGED answer \/ \E S : answer' = Client!Resolve(answer, S, Client!Closed)
    BY <1>5 DEF Client!Teardown, Client!ReadStderr, Client!ReportError, Client!ClearPending,
                Client!DropActor, Client!callerVars
  <2> QED
    BY <2>1, ResolvedWith
<1> QED
  BY <1>1, <1>2, <1>3, <1>4, <1>5

\* A response and the line that carries it are written at once.
LEMMA WritingKeeps ==
    ASSUME Typed, Written, ServerWrites, UNCHANGED clientVars
    PROVE  Written'
<1>1. /\ written' = Append(written, response) /\ stdout' = Append(stdout, AtClient(response))
      /\ UNCHANGED <<answer, result>>
  BY DEF ServerWrites, Server!WriteMessage, clientVars
<1>2. Range(written') = Range(written) \cup {response}
  BY <1>1, AppendFacts DEF Typed
<1>3. \A d \in Calls : Server!Answered(d) => Server!Answered(d)'
  BY <1>2 DEF Server!Answered, Server!Answer, Server!Range, Range
<1>4. ASSUME NEW d \in Calls, AtClient(response) = Reply(d)
      PROVE  Server!Answered(d)'
  <2>1. response.tag = "response" /\ response.to = d
    BY <1>4 DEF AtClient, Reply, Outcome
  <2>2. response = Server!Answer(d)
    BY <2>1 DEF Typed, Server!Replies, Server!Answer, Server!LineError
  <2> QED
    BY <1>2, <2>2 DEF Server!Answered, Server!Answer, Server!Range, Range
<1>5. AtClient(response) \in Client!Lines
  <2>1. CASE response.tag = "response" /\ Resolves(response.to)
    <3>1. response.to \in Calls
      BY <2>1 DEF Typed, Server!Replies, Server!Answer, Server!LineError
    <3> QED
      BY <2>1, <3>1, OutcomesDiffer DEF AtClient, Client!Lines
  <2>2. CASE ~(response.tag = "response" /\ Resolves(response.to))
    BY <2>2 DEF AtClient, Client!Lines, Outcome, Client!Outcome
  <2> QED
    BY <2>1, <2>2
<1>6. Range(stdout') = Range(stdout) \cup {AtClient(response)}
  BY <1>1, <1>5, AppendFacts DEF Typed
<1> QED
  BY <1>1, <1>3, <1>4, <1>6 DEF Written

LEMMA WrittenHolds == Spec => []Written
<1>1. Init => Written
  BY OutcomesDiffer, EmptyFacts DEF Init, Written
<1>2. ASSUME Typed, Written, [Next]_vars
      PROVE  Written'
  <2>1. CASE UNCHANGED <<answer, result, stdout, written>>
    BY <1>2, <2>1 DEF Written, Server!Answered
  <2>2. CASE ServerRuns
    <3>1. CASE ServerWrites
      BY <1>2, <2>2, <3>1, WritingKeeps DEF ServerRuns
    <3>2. CASE ~ServerWrites
      BY <2>1, <2>2, <3>2 DEF ServerRuns, clientVars, Server!FillBuffer, Server!TakeLine,
         Server!TakePart, Server!ServiceAnswers, Server!Finish, Server!loopVars
    <3> QED
      BY <3>1, <3>2
  <2>3. CASE WriteFirstChunk \/ PollPending \/ UNCHANGED vars
    BY <2>1, <2>3 DEF WriteFirstChunk, PollPending, vars, clientVars, serverVars,
       Server!PeerWritesFirstChunk, Server!PollPending, Server!loopVars
  <2>4. CASE ~ServerRuns /\ ~WriteFirstChunk /\ ~PollPending /\ ~UNCHANGED vars
    <3>1. /\ UNCHANGED written
          /\ \/ \E c \in Calls : Client!Caller(c)
             \/ Client!DropHandle \/ Client!Outgoing \/ Client!Incoming \/ Client!ProcessExited
             \/ Client!Teardown \/ Client!ChildExits
      <4>1. CASE \E c \in Calls : Submit(c) \/ Enqueue(c) \/ EnqueueFails(c) \/ Return(c) \/ Cancel(c)
        BY <4>1 DEF Submit, Enqueue, EnqueueFails, Return, Cancel, Client!Caller, Quietly, serverVars
      <4>2. CASE DropHandle \/ Incoming \/ ProcessExited
        BY <4>2 DEF DropHandle, Incoming, ProcessExited, Quietly, serverVars
      <4>3. CASE Teardown
        BY <4>3 DEF Teardown, Client!Teardown, Quietly, serverVars
      <4>4. CASE Outgoing
        BY <2>4, <4>4 DEF Outgoing, LoopEnds, WriteLine, WriteRest, Client!Outgoing, Quietly,
           serverVars, Server!PeerWrites, Server!PeerWritesRest, Server!loopVars
      <4>5. CASE ProcessExits
        BY <4>5 DEF ProcessExits, serverVars
      <4> QED
        BY <1>2, <2>4, <4>1, <4>2, <4>3, <4>4, <4>5 DEF Next
    <3> QED
      BY <1>2, <3>1, ClientHands, HandingKeeps
  <2> QED
    BY <2>2, <2>3, <2>4
<1>3. ServerTheorems!IInv /\ TransportTheorems!IInv => Typed
  BY TypesHold
<1> QED
  BY <1>1, <1>2, <1>3, ServerInvariance, TransportInvariance, PTL DEF Spec

\* The reply a caller gets is what the server wrote for that very request.
THEOREM RepliesComeFromTheServer == Spec => []RepliesAreAnswers
<1>1. ASSUME TransportTheorems!IInv, Written, TransportTheorems!NoCrossTalk
      PROVE  RepliesAreAnswers
  <2> SUFFICES ASSUME NEW c \in Calls, NEW d \in Calls, OwnId(c), result[c] = Reply(d)
               PROVE  d = c /\ Kind[c] = "request" /\ Server!Answered(c)
    BY DEF RepliesAreAnswers
  <2>1. Server!Answered(d)
    BY <1>1 DEF Written
  <2>2. TransportTheorems!OwnId(c) /\ result[c] = TransportTheorems!Reply(d)
    BY DEF OwnId, TransportTheorems!OwnId, Reply, TransportTheorems!Reply, Outcome,
           TransportTheorems!Outcome
  <2>3. c = d
    BY <1>1, <2>2 DEF TransportTheorems!NoCrossTalk
  <2>4. answer[c] = Reply(d)
    <3>1. result[c] # Unresolved /\ result[c] # ProcessError
      BY OutcomesDiffer DEF Failures
    <3>2. /\ TransportTheorems!Unresolved = Unresolved
          /\ TransportTheorems!ProcessError = ProcessError
      BY DEF Unresolved, ProcessError, Outcome, TransportTheorems!Unresolved,
             TransportTheorems!ProcessError, TransportTheorems!Outcome
    <3> QED
      BY <1>1, <3>1, <3>2 DEF TransportTheorems!IInv, TransportTheorems!Returned
  <2>5. Kind[c] = "request"
    BY <1>1, <2>4 DEF TransportTheorems!IInv, TransportTheorems!Matched, Reply,
       TransportTheorems!Reply, Outcome, TransportTheorems!Outcome
  <2> QED
    BY <2>1, <2>3, <2>5
<1>2. TransportTheorems!Spec => []TransportTheorems!NoCrossTalk
  BY TransportAssumed, TransportTheorems!RepliesGoToTheirCallers
<1> QED
  BY <1>1, <1>2, WrittenHolds, TransportHolds, TransportInvariance, PTL

\* And all that is proved of the invariants of the two components holds while they
\* work together, over pipes that fill up and lines that are torn.
THEOREM PromisesHoldTogether ==
    Spec => [](/\ Client!NoCrossTalk /\ Client!NoLostReply /\ Client!NobodyLeftWaiting
               /\ Client!CauseReported /\ Client!ReturnedLeavesNoEntry
               /\ Server!AnswersInOrder /\ Server!WholeRequestsAnswered)
<1>1. TransportTheorems!Spec =>
        [](/\ TransportTheorems!NoCrossTalk /\ TransportTheorems!NoLostReply
           /\ TransportTheorems!NobodyLeftWaiting /\ TransportTheorems!CauseReported
           /\ TransportTheorems!ReturnedLeavesNoEntry)
  <2>1. TransportTheorems!Spec => []TransportTheorems!NoCrossTalk
    BY TransportAssumed, TransportTheorems!RepliesGoToTheirCallers
  <2>2. TransportTheorems!Spec => []TransportTheorems!NoLostReply
    BY TransportAssumed, TransportTheorems!RepliesFindTheirCallers
  <2>3. TransportTheorems!Spec => []TransportTheorems!NobodyLeftWaiting
    BY TransportAssumed, TransportTheorems!NoCallerIsStranded
  <2>4. TransportTheorems!Spec => []TransportTheorems!CauseReported
    BY TransportAssumed, TransportTheorems!ProcessErrorComesFirst
  <2>5. TransportTheorems!Spec => []TransportTheorems!ReturnedLeavesNoEntry
    BY TransportAssumed, TransportTheorems!ReturnedCallsAreForgotten
  <2> QED
    BY <2>1, <2>2, <2>3, <2>4, <2>5, PTL
<1>2. ServerTheorems!Spec =>
        [](ServerTheorems!AnswersInOrder /\ ServerTheorems!WholeRequestsAnswered)
  <2>1. ServerTheorems!Spec => []ServerTheorems!AnswersInOrder
    BY ServerAssumed, ServerTheorems!AnswersLeaveInOrder
  <2>2. ServerTheorems!Spec => []ServerTheorems!WholeRequestsAnswered
    BY ServerAssumed, ServerTheorems!NoRequestIsForgotten
  <2> QED
    BY <2>1, <2>2, PTL
<1>3. /\ Client!NoCrossTalk <=> TransportTheorems!NoCrossTalk
      /\ Client!NoLostReply <=> TransportTheorems!NoLostReply
      /\ Client!NobodyLeftWaiting <=> TransportTheorems!NobodyLeftWaiting
      /\ Client!CauseReported <=> TransportTheorems!CauseReported
      /\ Client!ReturnedLeavesNoEntry <=> TransportTheorems!ReturnedLeavesNoEntry
  <2>1. \A c : Client!OwnId(c) <=> TransportTheorems!OwnId(c)
    BY DEF Client!OwnId, TransportTheorems!OwnId
  <2> QED
    BY <2>1, SameOperators DEF Client!NoCrossTalk, TransportTheorems!NoCrossTalk,
       Client!NoLostReply, TransportTheorems!NoLostReply, Client!NobodyLeftWaiting,
       TransportTheorems!NobodyLeftWaiting, Client!CauseReported,
       TransportTheorems!CauseReported, Client!ReturnedLeavesNoEntry,
       TransportTheorems!ReturnedLeavesNoEntry
<1>4. /\ Server!AnswersInOrder <=> ServerTheorems!AnswersInOrder
      /\ Server!WholeRequestsAnswered <=> ServerTheorems!WholeRequestsAnswered
  <2>1. \A m : Server!Place(m) = ServerTheorems!Place(m)
    BY DEF Server!Place, ServerTheorems!Place, Server!SelectInSeq, ServerTheorems!SelectInSeq,
           Server!Min, ServerTheorems!Min
  <2>2. /\ \A m : Server!Answered(m) <=> ServerTheorems!Answered(m)
        /\ \A q : Server!Range(q) = ServerTheorems!Range(q)
    BY DEF Server!Answered, ServerTheorems!Answered, Server!Answer, ServerTheorems!Answer,
           Server!Range, ServerTheorems!Range
  <2> QED
    BY <2>1, <2>2 DEF Server!AnswersInOrder, ServerTheorems!AnswersInOrder,
       Server!WholeRequestsAnswered, ServerTheorems!WholeRequestsAnswered,
       Server!Starved, ServerTheorems!Starved
<1> QED
  BY <1>1, <1>2, <1>3, <1>4, TransportHolds, ServerHolds, PTL

=============================================================================
