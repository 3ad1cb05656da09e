-------------------------- MODULE McpClientProofs ---------------------------
(***************************************************************************)
(* Machine-checked proofs of the safety properties of McpClient, for any   *)
(* operations, any capabilities and any bound on the request ids.          *)
(***************************************************************************)
EXTENDS McpClient, QueueFacts, TLAPS

\* ClientTypeOK but for the queue of the mutex and the capabilities, which the
\* invariant of the calls does not need.
Types ==
    /\ phase \in [Calls -> {"idle", "active", "done", "cancelled"}]
    /\ delivered \in [Calls -> {0, 1}]
    /\ result \in [Calls -> Outcomes]
    /\ pc \in [Ops -> {"idle", "lock", "call", "notify_lock", "notify", "done", "cancelled"}]
    /\ call \in [Ops -> Calls \cup {0}]
    /\ outcome \in [Ops -> OpOutcomes]
    /\ holder \in Ops \cup {NoOp}
    /\ next_id \in 1..(MaxRequests + 1)
    /\ initialized \in BOOLEAN

\* The mutex is held by the operation that has a call in progress.
Locked == \A o \in Ops : Calling(o) <=> holder = o

\* A call that has returned has done so for good.
Final == \A c \in Calls : result[c] # Unresolved => phase[c] = "done"

\* The request k was answered by the server.
Replied(k) == delivered[k] = 1 /\ result[k] = Reply(k)

\* The calls of an operation, and what an initialize under way has achieved.
Numbers ==
    \A o \in Ops :
        /\ call[o] < next_id /\ -call[o] < next_id
        /\ Calling(o) => call[o] # 0
        /\ pc[o] = "call" => call[o] = next_id - 1
        /\ pc[o] = "notify_lock" => o \in Initializers /\ call[o] > 0 /\ Replied(call[o])
        /\ pc[o] = "notify" => o \in Initializers /\ call[o] < 0 /\ Replied(-call[o])

\* Other operations get past their gates after a handshake only.
Gated == \A o \in Ops \ Initializers : pc[o] = "lock" => initialized

IInv == /\ Types /\ Locked /\ Final /\ Numbers /\ Gated
        /\ IdCheckNeverRejects /\ OneInFlight /\ HandshakeFirst /\ InitializedMeansHandshake

-----------------------------------------------------------------------------

\* The calls are the ids and their negatives.
LEMMA CallFacts ==
    /\ Calls \subseteq Int /\ 0 \notin Calls
    /\ \A c \in Calls : /\ -c \in Calls
                        /\ Kind[c] = "request" <=> c > 0
                        /\ Kind[c] = "notification" <=> c < 0
                        /\ IdOf[c] = c
    /\ \A k \in 1..MaxRequests : k \in Calls
    /\ MaxRequests \in Nat /\ NoOp \notin Ops
  BY ClientAssumption

\* So is the call of an operation, or it is 0.
LEMMA CallOfAnOperation ==
    ASSUME Types
    PROVE  \A o \in Ops : call[o] \in Int /\ (call[o] # 0 => call[o] \in Calls)
<1>1. \A o \in Ops : call[o] \in Calls \cup {0}
  BY DEF Types
<1>2. \A c \in Calls : c \in Int
  BY CallFacts
<1> QED
  BY <1>1, <1>2

\* The outcomes of a call are told apart by their tags, replies by their calls.
LEMMA OutcomeFacts ==
    /\ {Unresolved, Nil} \cup Failures \subseteq Outcomes
    /\ \A c \in Calls : /\ Reply(c) \in Outcomes \ ({Unresolved, Nil} \cup Failures)
                        /\ Reply(c).to = c
    /\ Unresolved \notin {Nil} \cup Failures /\ Nil \notin Failures
  BY DEF Outcomes, Outcome, Reply, Unresolved, Nil, Closed, ProcessError,
         NotConnected, Unsupported, Failures

\* What a call may return: a failure, the reply to this very request, or Nil
\* for a notification.
LEMMA PermittedFacts ==
    ASSUME NEW c \in Calls, NEW r \in Permitted(c)
    PROVE  /\ r \in Outcomes \ {Unresolved}
           /\ \/ r \in Failures
              \/ c > 0 /\ r = Reply(c) /\ delivered[c] = 1
              \/ c < 0 /\ r = Nil
  BY CallFacts, OutcomeFacts DEF Permitted

\* The effect of the steps of the transport that the client takes part in.
LEMMA ReturnFacts ==
    ASSUME Types, Final, NEW c \in Calls, Return(c)
    PROVE  /\ phase[c] = "active" /\ phase' = [phase EXCEPT ![c] = "done"]
           /\ result[c] = Unresolved
           /\ \A d \in Calls : d # c => result'[d] = result[d]
           /\ result' \in [Calls -> Outcomes]
           /\ result'[c] \in Permitted(c)
           /\ delivered' = delivered
<1>1. PICK r \in Permitted(c) : result' = [result EXCEPT ![c] = r]
  BY DEF Return
<1>2. r \in Outcomes
  BY PermittedFacts
<1> QED
  BY <1>1, <1>2 DEF Types, Final, Return

-----------------------------------------------------------------------------

\* The client starts in the invariant.
LEMMA InitHolds == ClientInit => IInv
<1> SUFFICES ASSUME ClientInit PROVE IInv
  OBVIOUS
<1> USE DEF ClientInit, Init
<1>1. Types
  <2>1. next_id \in 1..(MaxRequests + 1)
    BY CallFacts
  <2>2. result \in [Calls -> Outcomes]
    BY OutcomeFacts
  <2> QED
    BY <2>1, <2>2 DEF Types, OpOutcomes
<1>2. Locked /\ Final /\ Numbers /\ Gated
  BY CallFacts DEF Locked, Final, Numbers, Gated, Calling
<1>3. IdCheckNeverRejects /\ OneInFlight /\ HandshakeFirst /\ InitializedMeansHandshake
  BY DEF IdCheckNeverRejects, OneInFlight, HandshakeFirst, InitializedMeansHandshake
<1> QED
  BY <1>1, <1>2, <1>3 DEF IInv

\* A gate lets an operation through to the mutex or ends it.
LEMMA BeginKeeps ==
    ASSUME IInv, NEW o \in Ops, Begin(o)
    PROVE  IInv'
<1> USE DEF IInv, Begin, Finish, transportVars, serverInfoVars
<1>1. Types'
  BY DEF Types, OpOutcomes
<1>2. \A p \in Ops : p # o => pc'[p] = pc[p] /\ outcome'[p] = outcome[p]
  BY DEF Types
<1>3. pc'[o] \in {"lock", "done"} /\ pc[o] = "idle"
  BY DEF Types
<1>4. Locked' /\ Final' /\ Numbers'
  BY <1>2, <1>3 DEF Locked, Final, Numbers, Calling, Replied
<1>5. Gated'
  BY <1>2, <1>3 DEF Gated, Types
<1>6. IdCheckNeverRejects'
  BY <1>2 DEF IdCheckNeverRejects, Types
<1>7. OneInFlight' /\ HandshakeFirst' /\ InitializedMeansHandshake'
  BY DEF OneInFlight, HandshakeFirst, InitializedMeansHandshake
<1> QED
  BY <1>1, <1>4, <1>5, <1>6, <1>7

\* What has returned stays returned, so handshakes are not undone.
LEMMA KeptHandshakes ==
    ASSUME Types, Types', call' = call, next_id' = next_id,
           \A d \in Calls : result[d] # Unresolved => result'[d] = result[d],
           \A d \in Calls : delivered[d] = 1 => delivered'[d] = 1
    PROVE  /\ \A k \in Calls : Replied(k) => Replied(k)'
           /\ HandshakeFirst => HandshakeFirst'
           /\ InitializedMeansHandshake /\ initialized' = initialized => InitializedMeansHandshake'
<1>1. \A k \in Calls : Replied(k) => Replied(k)'
  BY OutcomeFacts DEF Replied
<1>2. \A k \in Nat : k <= MaxRequests /\ k > 0 => k \in Calls /\ -k \in Calls
  BY CallFacts
<1>3. \A k \in Calls : /\ result[k] = Reply(k) => result'[k] = Reply(k)
                       /\ result[k] = Nil => result'[k] = Nil
  BY OutcomeFacts
<1>4. ASSUME HandshakeFirst PROVE HandshakeFirst'
  <2> SUFFICES ASSUME NEW o \in Ops \ Initializers, call[o] # 0
               PROVE  \E k \in 1..(call[o] - 1) : result'[k] = Reply(k) /\ result'[-k] = Nil
    BY DEF HandshakeFirst
  <2>1. PICK k \in 1..(call[o] - 1) : result[k] = Reply(k) /\ result[-k] = Nil
    BY <1>4 DEF HandshakeFirst
  <2>2. call[o] \in Int /\ call[o] <= MaxRequests
    BY ClientAssumption DEF Types
  <2>3. k \in Nat /\ k > 0 /\ k <= MaxRequests
    BY <2>1, <2>2, CallFacts
  <2> DEFINE n == -k
  <2>4. k \in Calls /\ n \in Calls
    BY <1>2, <2>3
  <2>5. result[k] = Reply(k) /\ result[n] = Nil
    BY <2>1
  <2> HIDE DEF n
  <2>6. result'[k] = Reply(k) /\ result'[n] = Nil
    BY <1>3, <2>4, <2>5
  <2> QED
    BY <2>1, <2>6 DEF n
<1>5. ASSUME InitializedMeansHandshake, initialized' = initialized
      PROVE  InitializedMeansHandshake'
  <2> SUFFICES ASSUME initialized
               PROVE  \E k \in 1..(next_id - 1) :
                        delivered'[k] = 1 /\ result'[k] = Reply(k) /\ result'[-k] = Nil
    BY <1>5 DEF InitializedMeansHandshake
  <2>1. PICK k \in 1..(next_id - 1) : delivered[k] = 1 /\ result[k] = Reply(k) /\ result[-k] = Nil
    BY <1>5 DEF InitializedMeansHandshake
  <2>2. k \in Nat /\ k > 0 /\ k <= MaxRequests
    BY <2>1, CallFacts DEF Types
  <2> DEFINE n == -k
  <2>3. k \in Calls /\ n \in Calls
    BY <1>2, <2>2
  <2>4. delivered[k] = 1 /\ result[k] = Reply(k) /\ result[n] = Nil
    BY <2>1
  <2> HIDE DEF n
  <2>5. delivered'[k] = 1 /\ result'[k] = Reply(k) /\ result'[n] = Nil
    BY <1>3, <2>3, <2>4
  <2> QED
    BY <2>1, <2>5 DEF n
<1> QED
  BY <1>1, <1>4, <1>5

\* The head of the queue draws an id and makes its request.
LEMMA SendRequestKeeps ==
    ASSUME IInv, NEW o \in Ops, SendRequest(o)
    PROVE  IInv'
<1> USE DEF IInv, SendRequest, Start, LockFree, serverInfoVars
<1>1. next_id \in Calls /\ next_id \in Nat /\ phase[next_id] = "idle"
  BY CallFacts DEF Types
<1>2. Types'
  BY <1>1, CallFacts DEF Types
<1>3. \A p \in Ops : p # o => pc'[p] = pc[p] /\ call'[p] = call[p]
  BY DEF Types
<1>4. pc'[o] = "call" /\ call'[o] = next_id /\ pc[o] = "lock" /\ next_id' = next_id + 1
  BY DEF Types
<1>5. Locked'
  BY <1>3, <1>4, CallFacts DEF Locked, Calling
<1>6. Final'
  BY <1>1 DEF Final, Types
<1>7. Numbers'
  <2> SUFFICES ASSUME NEW p \in Ops
               PROVE  /\ call'[p] < next_id' /\ -call'[p] < next_id'
                      /\ Calling(p)' => call'[p] # 0
                      /\ pc'[p] = "call" => call'[p] = next_id' - 1
                      /\ pc'[p] = "notify_lock" => /\ p \in Initializers /\ call'[p] > 0
                                                   /\ Replied(call'[p])
                      /\ pc'[p] = "notify" => /\ p \in Initializers /\ call'[p] < 0
                                              /\ Replied(-call'[p])
    BY DEF Numbers, Replied
  <2>1. CASE p = o
    <3>1. next_id > 0 /\ -next_id < next_id + 1
      BY <1>1, CallFacts DEF Types
    <3> QED
      BY <1>1, <1>4, <2>1, <3>1 DEF Calling
  <2>2. CASE p # o
    <3>1. pc[p] # "call"
      BY CallFacts DEF Locked, Calling
    <3>2. call[p] \in Int
      BY CallOfAnOperation
    <3> QED
      BY <1>1, <1>3, <1>4, <2>2, <3>1, <3>2 DEF Numbers, Calling, Replied
  <2> QED
    BY <2>1, <2>2
<1>8. Gated' /\ IdCheckNeverRejects'
  BY <1>3, <1>4 DEF Gated, IdCheckNeverRejects
<1>9. OneInFlight'
  BY <1>1, <1>4, CallFacts DEF OneInFlight, Types
<1>10. HandshakeFirst'
  <2> SUFFICES ASSUME NEW p \in Ops \ Initializers, call'[p] # 0
               PROVE  \E k \in 1..(call'[p] - 1) : result[k] = Reply(k) /\ result[-k] = Nil
    BY DEF HandshakeFirst
  <2>1. CASE p = o
    BY <1>4, <2>1 DEF Gated, InitializedMeansHandshake
  <2>2. CASE p # o
    BY <1>3, <2>2 DEF HandshakeFirst
  <2> QED
    BY <2>1, <2>2
<1>11. InitializedMeansHandshake'
  BY <1>1, <1>4 DEF InitializedMeansHandshake
<1> QED
  BY <1>2, <1>5, <1>6, <1>7, <1>8, <1>9, <1>10, <1>11

\* An initialize whose request succeeded makes its notification call.
LEMMA SendNotificationKeeps ==
    ASSUME IInv, NEW o \in Ops, SendNotification(o)
    PROVE  IInv'
<1> USE DEF IInv, SendNotification, Start, LockFree, serverInfoVars
<1>1. /\ call[o] \in Calls /\ -call[o] \in Calls /\ call[o] > 0 /\ o \in Initializers
      /\ Replied(call[o]) /\ call[o] \in Int /\ phase[-call[o]] = "idle"
  <2>1. call[o] > 0 /\ o \in Initializers /\ Replied(call[o])
    BY DEF Numbers
  <2>2. call[o] \in Calls
    BY <2>1 DEF Types
  <2>3. -call[o] \in Calls /\ call[o] \in Int
    BY <2>2, CallFacts
  <2> QED
    BY <2>1, <2>2, <2>3
<1>2. Types'
  BY <1>1 DEF Types
<1>3. \A p \in Ops : p # o => pc'[p] = pc[p] /\ call'[p] = call[p]
  BY DEF Types
<1>4. pc'[o] = "notify" /\ call'[o] = -call[o] /\ pc[o] = "notify_lock"
  BY DEF Types
<1>5. Locked'
  BY <1>3, <1>4, CallFacts DEF Locked, Calling
<1>6. Final'
  BY <1>1 DEF Final, Types
<1>7. Numbers'
  <2>1. -(-call[o]) = call[o]
    BY <1>1
  <2> QED
    BY <1>1, <1>3, <1>4, <2>1 DEF Numbers, Calling, Replied
<1>8. Gated' /\ IdCheckNeverRejects'
  BY <1>3, <1>4 DEF Gated, IdCheckNeverRejects
<1>9. OneInFlight'
  BY <1>1, <1>4, CallFacts DEF OneInFlight, Types
<1>10. HandshakeFirst' /\ InitializedMeansHandshake'
  BY <1>1, <1>3 DEF HandshakeFirst, InitializedMeansHandshake
<1> QED
  BY <1>2, <1>5, <1>6, <1>7, <1>8, <1>9, <1>10

\* A request returns to its operation, and its id passes the check.
LEMMA ReceiveReplyKeeps ==
    ASSUME IInv, NEW o \in Ops, ReceiveReply(o)
    PROVE  IInv'
<1> DEFINE c == call[o]
           r == result'[c]
<1> USE DEF IInv, serverInfoVars
<1>1. c \in Calls /\ c = next_id - 1 /\ c > 0 /\ c \in Int
  BY CallFacts DEF ReceiveReply, Types, Numbers, Calling
<1>2. Return(c) /\ pc[o] = "call" /\ holder = o
  BY DEF ReceiveReply, Locked, Calling
<1>3. /\ phase[c] = "active" /\ phase' = [phase EXCEPT ![c] = "done"]
      /\ result[c] = Unresolved /\ \A d \in Calls : d # c => result'[d] = result[d]
      /\ result' \in [Calls -> Outcomes] /\ delivered' = delivered
      /\ r \in Permitted(c)
  BY <1>1, <1>2, ReturnFacts
<1>4. r \in Failures \/ (r = Reply(c) /\ delivered[c] = 1)
  BY <1>1, <1>3, PermittedFacts
<1>5. r \notin Failures => IdMatches(r) /\ Replied(c)'
  <2>1. Reply(c).to = c
    BY <1>1, OutcomeFacts
  <2>2. r \notin Failures => r.to = next_id - 1
    BY <1>1, <1>4, <2>1
  <2>3. r \notin Failures => delivered'[c] = 1 /\ result'[c] = Reply(c)
    BY <1>3, <1>4
  <2>4. call' = call
    BY DEF ReceiveReply
  <2> QED
    BY <2>2, <2>3, <2>4 DEF IdMatches, Replied
<1> HIDE DEF c, r
<1>6. /\ holder' = NoOp /\ UNCHANGED <<call, next_id, initialized>>
      /\ \/ /\ pc' = [pc EXCEPT ![o] = "done"]
            /\ \E w \in {"McpServerError", "RpcError", "ok"} : outcome' = [outcome EXCEPT ![o] = w]
         \/ /\ o \in Initializers /\ Replied(c)' /\ UNCHANGED outcome
            /\ pc' = [pc EXCEPT ![o] = "notify_lock"]
  <2>1. holder' = NoOp /\ UNCHANGED <<call, next_id>>
    BY DEF ReceiveReply
  <2>2. CASE r \in Failures
    BY <2>1, <2>2 DEF ReceiveReply, Finish, r, c
  <2>3. CASE r \notin Failures
    BY <1>5, <2>1, <2>3 DEF ReceiveReply, Finish, KeepsResult, r, c
  <2> QED
    BY <2>2, <2>3
<1>7. \A d \in Calls : result[d] # Unresolved => result'[d] = result[d]
  BY <1>1, <1>3
<1>8. \A p \in Ops : p # o => pc'[p] = pc[p] /\ ~Calling(p)
  BY <1>2, <1>6 DEF Types, Locked
<1>9. pc'[o] \in {"done", "notify_lock"} /\ (pc'[o] = "notify_lock" => o \in Initializers /\ Replied(c)')
  BY <1>6 DEF Types
<1>10. Types'
  BY <1>1, <1>3, <1>6 DEF Types, OpOutcomes
<1>11. Locked'
  BY <1>6, <1>8, <1>9, CallFacts DEF Locked, Calling
<1>12. Final'
  BY <1>1, <1>3 DEF Final, Types
<1>13. \A k \in Calls : Replied(k) => Replied(k)'
  BY <1>3, <1>7, OutcomeFacts DEF Replied
<1>14. Numbers'
  <2>1. \A p \in Ops : p # o /\ pc[p] = "notify_lock" => call[p] \in Calls
    BY CallFacts DEF Types, Numbers
  <2>2. \A p \in Ops : p # o => pc'[p] \notin {"call", "notify"}
    BY <1>8 DEF Calling
  <2> QED
    BY <1>1, <1>6, <1>8, <1>9, <1>13, <2>1, <2>2 DEF Numbers, Calling, c
<1>15. Gated' /\ IdCheckNeverRejects'
  BY <1>6, <1>8, <1>9 DEF Gated, IdCheckNeverRejects, Types
<1>16. OneInFlight'
  BY <1>1, <1>2, <1>3 DEF OneInFlight, Types, c
<1>17. HandshakeFirst'
  BY <1>3, <1>6, <1>7, <1>10, KeptHandshakes
<1>18. InitializedMeansHandshake'
  BY <1>3, <1>6, <1>7, <1>10, KeptHandshakes
<1> QED
  BY <1>10, <1>11, <1>12, <1>14, <1>15, <1>16, <1>17, <1>18

\* The notification of an initialize returns.
LEMMA NotificationSentKeeps ==
    ASSUME IInv, NEW o \in Ops, NotificationSent(o)
    PROVE  IInv'
<1> DEFINE c == call[o]
           r == result'[c]
<1> USE DEF IInv
<1>1. c \in Calls /\ c < 0 /\ -c \in Calls /\ Replied(-c) /\ o \in Initializers /\ -c < next_id
  BY CallFacts, CallOfAnOperation DEF NotificationSent, Numbers
<1>2. Return(c) /\ pc[o] = "notify" /\ holder = o
  BY DEF NotificationSent, Locked, Calling
<1>3. /\ phase[c] = "active" /\ phase' = [phase EXCEPT ![c] = "done"]
      /\ result[c] = Unresolved /\ \A d \in Calls : d # c => result'[d] = result[d]
      /\ result' \in [Calls -> Outcomes] /\ delivered' = delivered
  BY <1>1, <1>2, ReturnFacts
<1> HIDE DEF c, r
<1>4. /\ holder' = NoOp /\ UNCHANGED <<call, next_id>>
      /\ pc' = [pc EXCEPT ![o] = "done"]
      /\ \E w \in {"McpServerError", "ok"} : outcome' = [outcome EXCEPT ![o] = w]
      /\ initialized' = initialized \/ (r = Nil /\ initialized' = TRUE)
  BY DEF NotificationSent, Finish, r, c
<1>5. \A d \in Calls : result[d] # Unresolved => result'[d] = result[d]
  BY <1>1, <1>3
<1>6. \A p \in Ops : p # o => pc'[p] = pc[p] /\ ~Calling(p)
  BY <1>2, <1>4 DEF Types, Locked
<1>7. pc'[o] = "done"
  BY <1>4 DEF Types
<1>8. Types'
  BY <1>1, <1>3, <1>4 DEF Types, OpOutcomes
<1>9. Locked'
  BY <1>4, <1>6, <1>7, CallFacts DEF Locked, Calling
<1>10. Final'
  BY <1>1, <1>3 DEF Final, Types
<1>11. \A k \in Calls : Replied(k) => Replied(k)'
  BY <1>3, <1>5, OutcomeFacts DEF Replied
<1>12. Numbers'
  <2>1. \A p \in Ops : p # o /\ pc[p] = "notify_lock" => call[p] \in Calls
    BY CallOfAnOperation DEF Numbers
  <2>2. \A p \in Ops : pc'[p] \notin {"call", "notify"}
    BY <1>6, <1>7 DEF Calling
  <2> QED
    BY <1>4, <1>6, <1>7, <1>11, <2>1, <2>2 DEF Numbers, Calling
<1>13. Gated' /\ IdCheckNeverRejects'
  BY <1>4, <1>6, <1>7 DEF Gated, IdCheckNeverRejects, Types
<1>14. OneInFlight'
  BY <1>1, <1>2, <1>3 DEF OneInFlight, Types, c
<1>15. HandshakeFirst'
  BY <1>3, <1>4, <1>5, <1>8, KeptHandshakes
<1>16. InitializedMeansHandshake'
  <2>1. CASE initialized' = initialized
    BY <1>3, <1>4, <1>5, <1>8, <2>1, KeptHandshakes
  <2>2. CASE r = Nil
    <3> DEFINE k == -c
    <3>1. k \in 1..(next_id' - 1) /\ -k = c
      BY <1>1, <1>4, CallFacts DEF Types
    <3>2. delivered'[k] = 1 /\ result'[k] = Reply(k)
      BY <1>1, <1>11 DEF Replied
    <3>3. result'[-k] = Nil
      BY <2>2, <3>1 DEF r
    <3> QED
      BY <3>1, <3>2, <3>3 DEF InitializedMeansHandshake
  <2> QED
    BY <1>4, <2>1, <2>2
<1> QED
  BY <1>8, <1>9, <1>10, <1>12, <1>13, <1>14, <1>15, <1>16

\* An operation that ends by a timeout, or whose future is dropped, gives up its
\* call and the mutex together, or waits for the mutex and has neither.
LEMMA GivingUpKeeps ==
    ASSUME IInv, NEW o \in Ops, Running(o),
           \E w \in {"done", "cancelled"} : pc' = [pc EXCEPT ![o] = w],
           UNCHANGED outcome \/ outcome' = [outcome EXCEPT ![o] = "Timeout"],
           \/ Calling(o) /\ Cancel(call[o]) /\ holder' = NoOp
           \/ ~Calling(o) /\ UNCHANGED <<transportVars, holder>>,
           UNCHANGED <<call, next_id, initialized>>
    PROVE  IInv'
<1> USE DEF IInv
<1>1. UNCHANGED <<delivered, result>>
  BY DEF Cancel, transportVars
<1>2. \A p \in Ops : p # o => pc'[p] = pc[p]
  BY DEF Types
<1>3. pc'[o] \in {"done", "cancelled"}
  BY DEF Types
<1>4. Calling(o) => call[o] \in Calls
  BY CallOfAnOperation DEF Numbers
<1>5. Types'
  BY <1>1, <1>4 DEF Types, Cancel, OpOutcomes, transportVars
<1>6. Locked'
  BY <1>2, <1>3, CallFacts DEF Locked, Calling
<1>7. Final'
  BY <1>1, <1>4 DEF Final, Cancel, Types, transportVars
<1>8. Numbers' /\ Gated'
  BY <1>1, <1>2, <1>3 DEF Numbers, Gated, Calling, Replied
<1>9. IdCheckNeverRejects'
  BY DEF IdCheckNeverRejects, Types
<1>10. OneInFlight'
  BY <1>4 DEF OneInFlight, Cancel, Types, Locked, transportVars
<1>11. HandshakeFirst' /\ InitializedMeansHandshake'
  BY <1>1 DEF HandshakeFirst, InitializedMeansHandshake
<1> QED
  BY <1>5, <1>6, <1>7, <1>8, <1>9, <1>10, <1>11

\* What the transport does on its own changes delivered only, from 0 to 1.
LEMMA TransportDeliversKeeps ==
    ASSUME IInv, TransportDelivers
    PROVE  IInv'
<1> USE DEF IInv
<1>1. PICK c \in Calls : Deliver(c)
  BY DEF TransportDelivers
<1>2. /\ UNCHANGED <<phase, result>> /\ delivered' = [delivered EXCEPT ![c] = 1]
  BY <1>1 DEF Deliver
<1>3. UNCHANGED <<pc, call, outcome, holder, next_id, initialized>>
  BY DEF TransportDelivers, clientVars, lockVars, serverInfoVars
<1>4. Types'
  BY <1>2, <1>3 DEF Types
<1>5. \A d \in Calls : delivered[d] = 1 => delivered'[d] = 1
  BY <1>2 DEF Types
<1>6. \A k \in Calls : Replied(k) => Replied(k)'
  BY <1>2, <1>5 DEF Replied
<1>7. Locked' /\ Final' /\ Gated' /\ IdCheckNeverRejects' /\ OneInFlight'
  BY <1>2, <1>3 DEF Locked, Calling, Final, Gated, IdCheckNeverRejects, OneInFlight
<1>8. Numbers'
  <2>1. \A p \in Ops : pc[p] \in {"notify_lock", "notify"} => call[p] \in Calls /\ -call[p] \in Calls
    BY CallOfAnOperation, CallFacts DEF Numbers
  <2> QED
    BY <1>3, <1>6, <2>1 DEF Numbers, Calling
<1>9. HandshakeFirst' /\ InitializedMeansHandshake'
  BY <1>2, <1>3, <1>4, <1>5, KeptHandshakes
<1> QED
  BY <1>4, <1>7, <1>8, <1>9

-----------------------------------------------------------------------------

\* Every step of the client and of the transport keeps the invariant.
LEMMA NextKeeps ==
    ASSUME IInv, [ClientNext]_allVars
    PROVE  IInv'
<1>1. CASE UNCHANGED allVars
  BY <1>1 DEF allVars, clientVars, transportVars, lockVars, serverInfoVars, IInv, Types, Locked,
     Final, Numbers, Gated, Calling, Replied, IdCheckNeverRejects, OneInFlight, HandshakeFirst,
     InitializedMeansHandshake
<1>2. CASE TransportDelivers
  BY <1>2, TransportDeliversKeeps
<1>3. ASSUME NEW o \in Ops, OpNext(o)
      PROVE  IInv'
  <2>1. CASE Begin(o) \/ SendRequest(o) \/ SendNotification(o)
    BY <2>1, BeginKeeps, SendRequestKeeps, SendNotificationKeeps
  <2>2. CASE ReceiveReply(o) \/ NotificationSent(o)
    BY <2>2, ReceiveReplyKeeps, NotificationSentKeeps
  <2>3. CASE TimesOut(o)
    BY <2>3, GivingUpKeeps DEF TimesOut, Finish, Running, serverInfoVars, IInv
  <2>4. CASE Abort(o)
    BY <2>4, GivingUpKeeps DEF Abort, serverInfoVars, IInv
  <2> QED
    BY <1>3, <2>1, <2>2, <2>3, <2>4 DEF OpNext
<1> QED
  BY <1>1, <1>2, <1>3 DEF ClientNext

\* The inductive invariant holds in every state of the client.
THEOREM Invariance == ClientSpec => []IInv
  BY InitHolds, NextKeeps, PTL DEF ClientSpec

\* The check of a reply's id never rejects the reply to the pending request
\* (client.rs:164).
THEOREM RepliesPassTheIdCheck == ClientSpec => []IdCheckNeverRejects
<1>1. IInv => IdCheckNeverRejects
  BY DEF IInv
<1> QED
  BY <1>1, Invariance, PTL

\* At most one call is in flight, that of the operation which holds the mutex
\* (client.rs:135).
THEOREM OneCallInFlight == ClientSpec => []OneInFlight
<1>1. IInv => OneInFlight
  BY DEF IInv
<1> QED
  BY <1>1, Invariance, PTL

\* No operation makes its request before a handshake was completed.
THEOREM HandshakeComesFirst == ClientSpec => []HandshakeFirst
<1>1. IInv => HandshakeFirst
  BY DEF IInv
<1> QED
  BY <1>1, Invariance, PTL

\* A client that reports itself initialized has completed a handshake.
THEOREM InitializedClientsShookHands == ClientSpec => []InitializedMeansHandshake
<1>1. IInv => InitializedMeansHandshake
  BY DEF IInv
<1> QED
  BY <1>1, Invariance, PTL

-----------------------------------------------------------------------------
(* The queue of the mutex. *)

\* Every operation that waits for the mutex is in its queue, once, and nobody
\* else is.
Queued ==
    /\ waiters \in Seq(Ops)
    /\ IsInjective(waiters)
    /\ Range(waiters) = {o \in Ops : Waiting(o)}

\* What the client knows the server to support it has asked for.
Known == capabilities \subseteq Capabilities /\ agreed \subseteq Capabilities

\* An operation that enters the queue was not in it.
LEMMA EntersQueue ==
    ASSUME Types, Queued, NEW o \in Ops, ~Waiting(o), waiters' = Append(waiters, o),
           \A p \in Ops : Waiting(p)' <=> Waiting(p) \/ p = o
    PROVE  Queued'
<1>1. o \notin Range(waiters)
  BY DEF Queued
<1>2. /\ waiters' \in Seq(Ops) /\ IsInjective(waiters')
      /\ Range(waiters') = Range(waiters) \cup {o}
  BY <1>1, AppendFacts DEF Queued
<1> QED
  BY <1>2 DEF Queued

\* One that gets the mutex leaves it at the head.
LEMMA LeavesQueue ==
    ASSUME Types, Queued, NEW o \in Ops, waiters # <<>>, Head(waiters) = o,
           waiters' = Tail(waiters), \A p \in Ops : Waiting(p)' <=> Waiting(p) /\ p # o
    PROVE  Queued'
<1>1. /\ waiters' \in Seq(Ops) /\ IsInjective(waiters')
      /\ Range(waiters) = Range(waiters') \cup {o} /\ o \notin Range(waiters')
  BY TailFacts DEF Queued
<1> QED
  BY <1>1 DEF Queued

\* One that is dropped leaves it wherever it is.
LEMMA DropsOutOfQueue ==
    ASSUME Types, Queued, NEW o \in Ops, NEW i \in DOMAIN waiters, waiters[i] = o,
           waiters' = RemoveAt(waiters, i), \A p \in Ops : Waiting(p)' <=> Waiting(p) /\ p # o
    PROVE  Queued'
<1>1. waiters \in Seq(Ops) /\ IsInjective(waiters)
  BY DEF Queued
<1>2. /\ waiters' \in Seq(Ops) /\ IsInjective(waiters')
      /\ Range(waiters') = Range(waiters) \ {o}
  BY <1>1, RemoveFacts DEF RemoveAt
<1> QED
  BY <1>2 DEF Queued

\* Every step keeps the queue exact.
LEMMA QueueKeeps ==
    ASSUME IInv, Queued, [ClientNext]_allVars
    PROVE  Queued'
<1> USE DEF IInv
<1>1. ASSUME NEW o \in Ops, Begin(o)
      PROVE  Queued'
  <2>1. CASE pc' = [pc EXCEPT ![o] = "lock"] /\ waiters' = Append(waiters, o)
    <3>1. ~Waiting(o) /\ \A p \in Ops : Waiting(p)' <=> Waiting(p) \/ p = o
      BY <1>1, <2>1 DEF Begin, Types, Waiting
    <3> QED
      BY <2>1, <3>1, EntersQueue
  <2>2. CASE pc' = [pc EXCEPT ![o] = "done"] /\ UNCHANGED waiters
    BY <1>1, <2>2 DEF Begin, Types, Queued, Waiting
  <2> QED
    BY <1>1, <2>1, <2>2 DEF Begin, Finish
<1>2. ASSUME NEW o \in Ops, SendRequest(o) \/ SendNotification(o)
      PROVE  Queued'
  <2>1. /\ waiters # <<>> /\ Head(waiters) = o /\ waiters' = Tail(waiters)
        /\ pc' \in {[pc EXCEPT ![o] = "call"], [pc EXCEPT ![o] = "notify"]}
    BY <1>2 DEF SendRequest, SendNotification
  <2>2. \A p \in Ops : Waiting(p)' <=> Waiting(p) /\ p # o
    BY <2>1 DEF Types, Waiting
  <2> QED
    BY <2>1, <2>2, LeavesQueue
<1>3. ASSUME NEW o \in Ops, ReceiveReply(o)
      PROVE  Queued'
  <2>1. CASE pc' = [pc EXCEPT ![o] = "done"] /\ UNCHANGED waiters
    BY <1>3, <2>1 DEF ReceiveReply, Types, Queued, Waiting
  <2>2. CASE pc' = [pc EXCEPT ![o] = "notify_lock"] /\ waiters' = Append(waiters, o)
    <3>1. ~Waiting(o) /\ \A p \in Ops : Waiting(p)' <=> Waiting(p) \/ p = o
      BY <1>3, <2>2 DEF ReceiveReply, Types, Waiting
    <3> QED
      BY <2>2, <3>1, EntersQueue
  <2> QED
    BY <1>3, <2>1, <2>2 DEF ReceiveReply, Finish, KeepsResult
<1>4. ASSUME NEW o \in Ops, NotificationSent(o) \/ TimesOut(o)
      PROVE  Queued'
  <2>1. Calling(o) /\ pc' = [pc EXCEPT ![o] = "done"] /\ UNCHANGED waiters
    BY <1>4 DEF NotificationSent, TimesOut, Finish, Calling
  <2> QED
    BY <2>1 DEF Types, Queued, Waiting, Calling
<1>5. ASSUME NEW o \in Ops, Abort(o)
      PROVE  Queued'
  <2>1. pc' = [pc EXCEPT ![o] = "cancelled"]
    BY <1>5 DEF Abort
  <2>2. \A p \in Ops : Waiting(p)' <=> Waiting(p) /\ p # o
    BY <2>1 DEF Types, Waiting
  <2>3. CASE Calling(o)
    <3>1. ~Waiting(o) /\ UNCHANGED waiters
      BY <1>5, <2>3 DEF Abort, Calling, Waiting
    <3> QED
      BY <2>2, <3>1 DEF Queued
  <2>4. CASE ~Calling(o)
    <3>1. PICK i \in DOMAIN waiters : waiters[i] = o /\ waiters' = RemoveAt(waiters, i)
      BY <1>5, <2>4 DEF Abort
    <3> QED
      BY <2>2, <3>1, DropsOutOfQueue
  <2> QED
    BY <2>3, <2>4
<1>6. CASE TransportDelivers \/ UNCHANGED allVars
  BY <1>6 DEF TransportDelivers, allVars, clientVars, lockVars, Queued, Waiting
<1> QED
  BY <1>1, <1>2, <1>3, <1>4, <1>5, <1>6 DEF ClientNext, OpNext

\* Capabilities come from replies and are kept as they came.
LEMMA KnownKeeps ==
    ASSUME Known, [ClientNext]_allVars
    PROVE  Known'
<1> USE DEF Known, serverInfoVars
<1>1. ASSUME NEW o \in Ops, OpNext(o)
      PROVE  Known'
  BY <1>1 DEF OpNext, Begin, SendRequest, SendNotification, ReceiveReply, KeepsResult,
     NotificationSent, TimesOut, Abort
<1>2. CASE TransportDelivers \/ UNCHANGED allVars
  BY <1>2 DEF TransportDelivers, allVars, clientVars
<1> QED
  BY <1>1, <1>2 DEF ClientNext

\* Who waits for the mutex is in its queue, once, however operations end
\* (client.rs:135): no wake-up is lost on one that was dropped.
THEOREM QueueIsExact == ClientSpec => []Queued
<1>1. ClientInit => Queued
  <2> SUFFICES ASSUME ClientInit PROVE Queued
    OBVIOUS
  <2>1. waiters = <<>> /\ \A o \in Ops : ~Waiting(o)
    BY DEF ClientInit, Waiting
  <2> QED
    BY <2>1, EmptyFacts DEF Queued
<1>2. IInv /\ Queued /\ [ClientNext]_allVars => Queued'
  BY QueueKeeps
<1> QED
  BY <1>1, <1>2, Invariance, PTL DEF ClientSpec

\* Every variable keeps its type, and the queue of the mutex holds operations that
\* wait for it.
THEOREM TypeCorrect == ClientSpec => []ClientTypeOK
<1>1. ClientInit => Known
  BY DEF ClientInit, Known
<1>2. Known /\ [ClientNext]_allVars => Known'
  BY KnownKeeps
<1>3. IInv /\ Queued /\ Known => ClientTypeOK
  <2> SUFFICES ASSUME IInv, Queued, Known PROVE ClientTypeOK
    OBVIOUS
  <2>1. waiters \in Seq({o \in Ops : Waiting(o)})
    BY QueueOfFacts DEF Queued
  <2> QED
    BY <2>1 DEF IInv, Types, Known, ClientTypeOK
<1> QED
  BY <1>1, <1>2, <1>3, Invariance, QueueIsExact, PTL DEF ClientSpec

=============================================================================
