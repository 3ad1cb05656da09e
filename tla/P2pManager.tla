----------------------------- MODULE P2pManager -----------------------------
(***************************************************************************)
(* P2pTransportManager of mcp-transport-p2p (lib.rs) over the WebTransport *)
(* and WebRTC wrappers of libp2p (transport/): the count of pending        *)
(* requests and its limit, the fallback from one transport to the other,   *)
(* start and shutdown.  send_content and send_resource do the same.        *)
(*                                                                         *)
(* The guard of state.write() lives until a send returns or its future is  *)
(* dropped, so `sending` is both the send in progress and the lock.  The   *)
(* limit is checked before, under a read guard that is gone at once.       *)
(* `peers` of the state is never filled and is_connected() of a transport  *)
(* is always true: with max_connections at least 1 neither stops a send.   *)
(***************************************************************************)
EXTENDS Naturals, FiniteSets

CONSTANTS
    Sends,      \* calls of send_content and send_resource
    NoSend,     \* nobody holds the write lock of the state
    Enabled,    \* the transports of the configuration
    MaxPending  \* max_pending_requests

Transports == {"web", "rtc"}

\* What P2pTransportManager::new admits: validate refuses a limit of zero, and new
\* itself a configuration without a transport.
ValidConfig ==
    /\ Enabled \subseteq Transports /\ Enabled # {}
    /\ MaxPending \in Nat \ {0}

ASSUME ManagerAssumption == NoSend \notin Sends /\ ValidConfig

VARIABLES
    at,         \* at[c]: the await the send is in, or how it ended
    result,     \* result[c]: what it returned
    sending,    \* the holder of state.write()
    counter,    \* pending_requests
    published,  \* published[c]: the transports that accepted the message
    starting,   \* the transport whose swarm start() holds
    leaked      \* sends dropped half-way since the last shutdown

managerVars == <<at, result, sending, counter, published, starting, leaked>>

ManagerTypeOK ==
    /\ at \in [Sends -> {"idle", "check", "lock", "done", "cancelled"} \cup Transports]
    /\ result \in [Sends -> {"none", "ok", "limit", "failed"}]
    /\ sending \in Sends \cup {NoSend}
    /\ counter \in Nat
    /\ published \in [Sends -> SUBSET Enabled]
    /\ starting \in Enabled \cup {"none"}
    /\ leaked \in Nat

ManagerInit ==
    /\ at = [c \in Sends |-> "idle"]
    /\ result = [c \in Sends |-> "none"]
    /\ sending = NoSend
    /\ counter = 0
    /\ published = [c \in Sends |-> {}]
    /\ starting = "none"
    /\ leaked = 0

-----------------------------------------------------------------------------
(* send_content, send_resource *)

Active(c) == at[c] \in {"check", "lock"} \cup Transports

Goto(c, place) == at' = [at EXCEPT ![c] = place]
Ends(c, r) == Goto(c, "done") /\ result' = [result EXCEPT ![c] = r]

Send(c) ==
    /\ at[c] = "idle"
    /\ Goto(c, "check")
    /\ UNCHANGED <<result, sending, counter, published, starting, leaked>>

\* check_resource_limits
Check(c) ==
    /\ at[c] = "check"
    /\ sending = NoSend
    /\ IF counter >= MaxPending
       THEN Ends(c, "limit")
       ELSE Goto(c, "lock") /\ UNCHANGED result
    /\ UNCHANGED <<sending, counter, published, starting, leaked>>

\* Fault: the request is counted before the lock that orders the sends is held.
EnterUnlocked(c) ==
    /\ at[c] = "lock"
    /\ sending' = c
    /\ counter' = counter + 1
    /\ Goto(c, IF "web" \in Enabled THEN "web" ELSE "rtc")
    /\ UNCHANGED <<result, published, starting, leaked>>

Enter(c) ==
    /\ at[c] = "lock"
    /\ sending = NoSend
    /\ sending' = c
    /\ counter' = counter + 1
    /\ Goto(c, IF "web" \in Enabled THEN "web" ELSE "rtc")
    /\ UNCHANGED <<result, published, starting, leaked>>

\* Fault: an early return that skips the decrement.
LeaveUncounted(c, r) ==
    /\ Ends(c, r)
    /\ counter' = IF r = "ok" THEN counter - 1 ELSE counter
    /\ sending' = NoSend

\* The end of send_content_internal and the rest of send_content.
Leave(c, r) ==
    /\ Ends(c, r)
    /\ counter' = counter - 1
    /\ sending' = NoSend

\* Fault: the next transport is tried also after a success.
PublishBoth(c, t) ==
    /\ at[c] = t
    /\ starting # t
    /\ published' = [published EXCEPT ![c] = @ \cup {t}]
    /\ IF t = "web" /\ "rtc" \in Enabled
       THEN Goto(c, "rtc") /\ UNCHANGED <<result, counter, sending>>
       ELSE Leave(c, "ok")
    /\ UNCHANGED <<starting, leaked>>

\* The transport takes its swarm's lock and publishes, without another await.
\* That gossipsub accepts the message is up to libp2p (external).
Publish(c, t) ==
    /\ at[c] = t
    /\ starting # t
    /\ published' = [published EXCEPT ![c] = @ \cup {t}]
    /\ Leave(c, "ok")
    /\ UNCHANGED <<starting, leaked>>

\* WebTransport first, WebRTC only if that failed.
PublishFails(c, t) ==
    /\ at[c] = t
    /\ starting # t
    /\ IF t = "web" /\ "rtc" \in Enabled
       THEN Goto(c, "rtc") /\ UNCHANGED <<result, counter, sending>>
       ELSE Leave(c, "failed")
    /\ UNCHANGED <<published, starting, leaked>>

\* Fault: the lock is not released with the future.
CancelKeepsGuard(c) ==
    /\ Active(c)
    /\ Goto(c, "cancelled")
    /\ UNCHANGED <<result, sending, counter, published, starting, leaked>>

\* The caller drops the future at an await: for a lock, or where tokio's budget
\* makes a lock that is free yield.  The guard goes with it, the count stays.
Cancel(c) ==
    /\ Active(c)
    /\ Goto(c, "cancelled")
    /\ IF sending = c
       THEN sending' = NoSend /\ leaked' = leaked + 1
       ELSE UNCHANGED <<sending, leaked>>
    /\ UNCHANGED <<result, counter, published, starting>>

-----------------------------------------------------------------------------
(* start, shutdown *)

\* A swarm's lock is held while start listens and dials, without an await, but
\* on another thread than the one a send is polled on.
StartNext(t) ==
    /\ t \in Enabled
    /\ starting = "none" \/ (starting = "web" /\ t = "rtc")
    /\ starting' = t
    /\ UNCHANGED <<at, result, sending, counter, published, leaked>>

\* All transports are started, or one could not listen.
StartEnds ==
    /\ starting # "none"
    /\ starting' = "none"
    /\ UNCHANGED <<at, result, sending, counter, published, leaked>>

\* Fault: the counter is reset without the lock.
ShutdownUnlocked ==
    /\ counter' = 0
    /\ leaked' = 0
    /\ UNCHANGED <<at, result, sending, published, starting>>

Shutdown ==
    /\ sending = NoSend
    /\ counter' = 0
    /\ leaked' = 0
    /\ UNCHANGED <<at, result, sending, published, starting>>

-----------------------------------------------------------------------------

SendStep(c) == Check(c) \/ Enter(c) \/ \E t \in Enabled : Publish(c, t) \/ PublishFails(c, t)

ManagerNext ==
    \/ \E c \in Sends : Send(c) \/ SendStep(c) \/ Cancel(c)
    \/ \E t \in Transports : StartNext(t)
    \/ StartEnds
    \/ Shutdown

ManagerSpec == ManagerInit /\ [][ManagerNext]_managerVars

\* tokio's RwLock serves its queue in turn, so a send gets a lock that is free
\* again and again; start does not wait for anything while it holds a swarm.
ManagerFairSpec ==
    /\ ManagerSpec
    /\ \A c \in Sends : SF_managerVars(SendStep(c))
    /\ WF_managerVars(StartEnds)

-----------------------------------------------------------------------------
(* Safety *)

\* pending_requests, read by whoever has the lock, counts the send in progress
\* and those dropped in the middle since the last shutdown, and nothing else: no
\* early end of a send and no shutdown lets it drift or fall below zero
\* (lib.rs:116, 171, 175).
CountIsExact == counter = leaked + (IF sending = NoSend THEN 0 ELSE 1)

\* A send that fails has published nothing and one that succeeds has published
\* through one transport, so a caller who repeats a failed send causes no second
\* delivery (lib.rs:186-216).  Only a dropped send leaves this open.
PublishedOnce ==
    \A c \in Sends :
        /\ Cardinality(published[c]) <= 1
        /\ at[c] = "done" => (result[c] = "ok" <=> published[c] # {})

\* The limit never holds back concurrent sends, as these wait for each other
\* anyway: whoever is refused (lib.rs:160) pays for earlier sends that were
\* dropped, as many as the limit.
RefusedByLeaks ==
    [][\A c \in Sends :
         result[c] = "none" /\ result'[c] = "limit" => leaked >= MaxPending]_managerVars

-----------------------------------------------------------------------------
(* Liveness *)

\* Every send ends, whatever start, shutdown and other sends do, the ones
\* dropped with the lock in hand included.
SendsEnd == \A c \in Sends : Active(c) ~> ~Active(c)

=============================================================================
