----------------------------- MODULE McpClient -----------------------------
(***************************************************************************)
(* McpClient of mcp-client (client.rs) over a transport that keeps the     *)
(* promise of RequestReply: the mutex around the service, the id counter   *)
(* and the check of a reply's id against it, the initialize handshake, the *)
(* capability gates, the timeout of tower around a call (service.rs) and   *)
(* futures the application drops.                                          *)
(*                                                                         *)
(* An operation is one call of a method of McpClientTrait.  The request    *)
(* with id k is transport call k, and the notification that follows an     *)
(* initialize request with id k is transport call -k.                      *)
(***************************************************************************)
EXTENDS RequestReply, Integers, SequencesExt

CONSTANTS
    Ops,            \* the invocations of McpClientTrait methods
    Initializers,   \* those that call initialize
    NoOp,           \* no operation
    Needs,          \* Needs[o]: the capability operation o asks of the server
    Capabilities,   \* what a server can support: resources, tools, prompts
    MaxRequests     \* bound on next_id

ASSUME ClientAssumption ==
    /\ NoOp \notin Ops
    /\ Initializers \subseteq Ops
    /\ Needs \in [Ops -> Capabilities]
    /\ MaxRequests \in Nat
    /\ Calls = (-MaxRequests)..MaxRequests \ {0}
    /\ NoCall = 0
    /\ Kind = [c \in Calls |-> IF c > 0 THEN "request" ELSE "notification"]
    /\ IdOf = [c \in Calls |-> c]

VARIABLES
    pc,         \* progress of each operation
    call,       \* call[o]: the transport call operation o made last, or 0
    outcome,    \* outcome[o]: what the operation returned
    holder,     \* the operation that holds the mutex
    waiters,    \* the operations queued for the mutex
    next_id,    \* the id counter
    initialized,    \* whether server_capabilities is Some
    capabilities,   \* the capabilities in it
    agreed      \* those of the initialize result that waits for its notification

transportVars == <<phase, delivered, result>>
lockVars == <<holder, waiters>>
serverInfoVars == <<initialized, capabilities, agreed>>
clientVars == <<pc, call, outcome, lockVars, next_id, serverInfoVars>>
allVars == <<transportVars, clientVars>>

\* "RpcError" stands for any reply that is no result of the expected form.
OpOutcomes == {"none", "ok", "RpcError", "mismatch", "McpServerError", "Timeout",
               "NotInitialized", "unsupported"}

Waiting(o) == pc[o] \in {"lock", "notify_lock"}
Calling(o) == pc[o] \in {"call", "notify"}

\* The type invariant; the queue of the mutex holds operations that wait for it.
ClientTypeOK ==
    /\ phase \in [Calls -> {"idle", "active", "done", "cancelled"}]
    /\ delivered \in [Calls -> {0, 1}]
    /\ result \in [Calls -> Outcomes]
    /\ pc \in [Ops -> {"idle", "lock", "call", "notify_lock", "notify", "done", "cancelled"}]
    /\ call \in [Ops -> Calls \cup {0}]
    /\ outcome \in [Ops -> OpOutcomes]
    /\ holder \in Ops \cup {NoOp}
    /\ waiters \in Seq({o \in Ops : Waiting(o)})
    /\ next_id \in 1..(MaxRequests + 1)
    /\ initialized \in BOOLEAN
    /\ capabilities \subseteq Capabilities
    /\ agreed \subseteq Capabilities

\* McpClient::new.
ClientInit ==
    /\ Init
    /\ pc = [o \in Ops |-> "idle"]
    /\ call = [o \in Ops |-> 0]
    /\ outcome = [o \in Ops |-> "none"]
    /\ holder = NoOp
    /\ waiters = <<>>
    /\ next_id = 1
    /\ initialized = FALSE
    /\ capabilities = {}
    /\ agreed = {}

-----------------------------------------------------------------------------

Running(o) == Waiting(o) \/ Calling(o)

\* initialize borrows the client mutably: nothing else runs meanwhile.
Exclusive(o) ==
    \A p \in Ops \ {o} : Running(p) => o \notin Initializers /\ p \notin Initializers

Finish(o, what) ==
    /\ pc' = [pc EXCEPT ![o] = "done"]
    /\ outcome' = [outcome EXCEPT ![o] = what]

\* The gates of the six operations: without a handshake they fail, and without
\* the capability they return an empty list or METHOD_NOT_FOUND by themselves.
Begin(o) ==
    /\ pc[o] = "idle"
    /\ Exclusive(o)
    /\ IF o \in Initializers \/ (initialized /\ Needs[o] \in capabilities)
       THEN /\ pc' = [pc EXCEPT ![o] = "lock"]
            /\ waiters' = Append(waiters, o)
            /\ UNCHANGED outcome
       ELSE /\ Finish(o, IF initialized THEN "unsupported" ELSE "NotInitialized")
            /\ UNCHANGED waiters
    /\ UNCHANGED <<transportVars, call, holder, next_id, serverInfoVars>>

\* Fault: the lock is not held across the call.
NeverLocked == TRUE
LockFree == holder = NoOp

\* The head of the queue gets the mutex.  The service is always ready
\* (service.rs:33), so the id is drawn and the call made without an await.
SendRequest(o) ==
    /\ pc[o] = "lock"
    /\ LockFree
    /\ waiters # <<>> /\ Head(waiters) = o
    /\ next_id <= MaxRequests
    /\ holder' = o
    /\ waiters' = Tail(waiters)
    /\ next_id' = next_id + 1
    /\ call' = [call EXCEPT ![o] = next_id]
    /\ Start(next_id)
    /\ pc' = [pc EXCEPT ![o] = "call"]
    /\ UNCHANGED <<outcome, serverInfoVars>>

\* send_notification of "notifications/initialized".
SendNotification(o) ==
    /\ pc[o] = "notify_lock"
    /\ LockFree
    /\ waiters # <<>> /\ Head(waiters) = o
    /\ holder' = o
    /\ waiters' = Tail(waiters)
    /\ call' = [call EXCEPT ![o] = -call[o]]
    /\ Start(-call[o])
    /\ pc' = [pc EXCEPT ![o] = "notify"]
    /\ UNCHANGED <<outcome, next_id, serverInfoVars>>

\* "Verify id matches": the counter is read when the reply is there.
IdMatches(r) == r.to = next_id - 1

\* Fault: initialize keeps the capabilities before it sends the notification.
KeepsResultEarly(o) ==
    /\ o \in Initializers
    /\ \E s \in SUBSET Capabilities : agreed' = s /\ capabilities' = s
    /\ initialized' = TRUE
    /\ Finish(o, "ok")
    /\ UNCHANGED waiters

\* initialize goes on with its notification when the request has succeeded.
KeepsResult(o) ==
    /\ o \in Initializers
    /\ \E s \in SUBSET Capabilities : agreed' = s
    /\ pc' = [pc EXCEPT ![o] = "notify_lock"]
    /\ waiters' = Append(waiters, o)
    /\ UNCHANGED <<outcome, initialized, capabilities>>

\* The call of the holder returns: the checks of send_request, and the end of
\* the operation but for a successful initialize.  A reply is a result, an error
\* or malformed as the server likes.
ReceiveReply(o) ==
    /\ pc[o] = "call"
    /\ Return(call[o])
    /\ holder' = NoOp
    /\ LET r == result'[call[o]]
       IN  \/ r \in Failures /\ Finish(o, "McpServerError") /\ UNCHANGED <<waiters,
                                                                           serverInfoVars>>
           \/ /\ r \notin Failures /\ ~IdMatches(r)
              /\ Finish(o, "mismatch")
              /\ UNCHANGED <<waiters, serverInfoVars>>
           \/ /\ r \notin Failures /\ IdMatches(r)
              /\ \/ Finish(o, "RpcError") /\ UNCHANGED <<waiters, serverInfoVars>>
                 \/ o \notin Initializers /\ Finish(o, "ok") /\ UNCHANGED <<waiters,
                                                                            serverInfoVars>>
                 \/ KeepsResult(o)
    /\ UNCHANGED <<call, next_id>>

\* Only now is the client initialized.
NotificationSent(o) ==
    /\ pc[o] = "notify"
    /\ Return(call[o])
    /\ holder' = NoOp
    /\ IF result'[call[o]] = Nil
       THEN /\ Finish(o, "ok")
            /\ initialized' = TRUE
            /\ capabilities' = agreed
       ELSE /\ Finish(o, "McpServerError")
            /\ UNCHANGED <<initialized, capabilities>>
    /\ UNCHANGED <<call, waiters, next_id, agreed>>

\* Fault: the timeout returns to the caller but leaves the call running.
TimesOutKeepsCall(o) ==
    /\ Calling(o)
    /\ holder' = NoOp
    /\ Finish(o, "Timeout")
    /\ UNCHANGED <<transportVars, call, waiters, next_id, serverInfoVars>>

\* tower's Timeout drops the call, not the wait for the mutex.
TimesOut(o) ==
    /\ Calling(o)
    /\ Cancel(call[o])
    /\ holder' = NoOp
    /\ Finish(o, "Timeout")
    /\ UNCHANGED <<call, waiters, next_id, serverInfoVars>>

\* Fault: an operation that is dropped while it waits stays in the queue.
AbortKeepsPlace(o) ==
    /\ Running(o)
    /\ pc' = [pc EXCEPT ![o] = "cancelled"]
    /\ IF Calling(o)
       THEN Cancel(call[o]) /\ holder' = NoOp
       ELSE UNCHANGED <<transportVars, holder>>
    /\ UNCHANGED <<call, outcome, waiters, next_id, serverInfoVars>>

\* The application drops the future of the operation at an await.
Abort(o) ==
    /\ Running(o)
    /\ pc' = [pc EXCEPT ![o] = "cancelled"]
    /\ IF Calling(o)
       THEN Cancel(call[o]) /\ holder' = NoOp /\ UNCHANGED waiters
       ELSE /\ \E i \in DOMAIN waiters : waiters[i] = o /\ waiters' = RemoveAt(waiters, i)
            /\ UNCHANGED <<transportVars, holder>>
    /\ UNCHANGED <<call, outcome, next_id, serverInfoVars>>

\* The transport delivers on its own.
TransportDelivers == (\E c \in Calls : Deliver(c)) /\ UNCHANGED clientVars

OpNext(o) ==
    \/ Begin(o) \/ SendRequest(o) \/ SendNotification(o) \/ ReceiveReply(o) \/ NotificationSent(o)
    \/ TimesOut(o) \/ Abort(o)

ClientNext == (\E o \in Ops : OpNext(o)) \/ TransportDelivers

ClientSpec == ClientInit /\ [][ClientNext]_allVars

\* tokio wakes the head of a mutex's queue, and a timer that has elapsed.
ClientFairness ==
    \A o \in Ops : /\ WF_allVars(SendRequest(o))
                   /\ WF_allVars(SendNotification(o))
                   /\ WF_allVars(TimesOut(o))

FairClientSpec == ClientSpec /\ ClientFairness

-----------------------------------------------------------------------------
(* Safety *)

\* "Verify id matches" (client.rs:164) never rejects the reply to the request
\* that waits: whoever reads the counter holds the mutex since it drew its id.
IdCheckNeverRejects == \A o \in Ops : outcome[o] # "mismatch"

\* One request is in flight at a time, the lock holder's: timeouts and dropped
\* futures release the mutex only together with their call (client.rs:135).
OneInFlight ==
    \A c \in Calls : phase[c] = "active" => holder # NoOp /\ call[holder] = c

\* Every request but initialize follows a whole handshake: an earlier initialize
\* request was answered and its notification handed to the transport
\* (client.rs:252-261 before the gates at 270 and after).
HandshakeFirst ==
    \A o \in Ops \ Initializers :
        call[o] # 0 => \E k \in 1..(call[o] - 1) : result[k] = Reply(k) /\ result[-k] = Nil

\* A client that reports initialized has been through a handshake the server
\* took part in, even when later handshakes fail.
InitializedMeansHandshake ==
    initialized => \E k \in 1..(next_id - 1) : /\ delivered[k] = 1
                                               /\ result[k] = Reply(k) /\ result[-k] = Nil

-----------------------------------------------------------------------------
(* Liveness *)

\* With a timeout on every call, and ids left, every operation ends: the mutex
\* is fair and is never left locked.
EveryOpEnds ==
    \A o \in Ops : Running(o) ~> ~Running(o) \/ next_id > MaxRequests

=============================================================================
