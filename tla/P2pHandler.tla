----------------------------- MODULE P2pHandler -----------------------------
(***************************************************************************)
(* P2pHandler of mcp-transport-p2p (protocol/handler.rs): what a peer does *)
(* with the messages of other peers, in any number of tasks at once.  Its  *)
(* state is four maps, each behind a tokio RwLock of its own.  An action   *)
(* is what a call does between two acquisitions.  A lock is held from one  *)
(* action to the next where the code keeps its guard over an await:        *)
(*   seen   by handle_gossipsub, from the duplicate check to its end;      *)
(*   peers  by clean_stale_peers, while it waits for seen;                 *)
(*   cache  by broadcast_resource, while it waits for peers.               *)
(* All other guards are dropped before the next await, so a reader needs   *)
(* what a writer needs: that nobody holds the lock.                        *)
(*                                                                         *)
(* A call stands for its arguments.  Of a peer's state only last_seen is   *)
(* kept, of a resource the call that stored it; what is sent to peers as   *)
(* an answer is left out.                                                  *)
(***************************************************************************)
EXTENDS Integers, SequencesExt

CONSTANTS
    Calls,          \* calls of the handler's methods, each made once
    Droppable,      \* those whose future may be dropped
    Op, Payload,    \* which method, and what its bytes or message hold
    Peers, Peer,    \* Peer[c]: who sent the message of c
    Ids, MsgId,     \* MsgId[c]: the msg_id of a gossip message
    Uris, Uri,      \* Uri[c]: the resource the message of c is about
    Requests, Request, \* Request[c]: the request_id of a response
    Asked,          \* Asked[r]: the URI request r asked for
    Nobody,         \* no call; an absent entry
    PeerTimeout,    \* the argument of the clean-ups
    Ttl,            \* how long a gossip message is remembered: 300 s
    MaxTime         \* bound on the clock

Ops == {"gossip",      \* handle_gossipsub
        "direct",      \* process_message, process_protocol_message
        "request",     \* handle_request
        "response",    \* handle_response
        "broadcast",   \* broadcast_resource
        "cleanup"}     \* clean_stale_peers

\* "resource", "content": both message formats have these; "answer": a
\* ResourceResponse with contents; "query": a ResourceRequest; "other": a ping,
\* a pong, an answer without contents, an empty or failed response; "garbled":
\* neither format.
Payloads == {"resource", "content", "answer", "query", "other", "garbled"}

Never == -1
Locks == {"seen", "peers", "cache"}

ASSUME HandlerAssumption ==
    /\ Droppable \subseteq Calls
    /\ Op \in [Calls -> Ops]
    /\ Payload \in [Calls -> Payloads]
    /\ Peer \in [Calls -> Peers]
    /\ MsgId \in [Calls -> Ids]
    /\ Uri \in [Calls -> Uris]
    /\ Request \in [Calls -> Requests]
    /\ Asked \in [Requests -> Uris]
    /\ Nobody \notin Calls \cup Uris
    /\ Calls \cap Uris = {}
    /\ PeerTimeout \in Nat /\ Ttl \in Nat /\ MaxTime \in Nat

VARIABLES
    (* P2pHandler *)
    lastSeen,   \* peer_states: when each peer was last seen, or Never
    pending,    \* pending_requests: the URI asked for, or Nobody
    cache,      \* resource_cache: the call that stored each entry, or Nobody
    seen,       \* seen_messages: when each id was marked, or Never
    held,       \* held[l]: the call that keeps the guard of l over an await
    (* the calls *)
    pc,         \* what each call waits for
    sweepNow,   \* now of a clean-up
    (* environment and history *)
    now,        \* Instant::now()
    unsent,     \* the requests not yet sent
    accepted    \* the gossip messages that passed the duplicate check

maps == <<lastSeen, pending, cache, seen>>
vars == <<maps, held, pc, sweepNow, now, unsent, accepted>>

Time == 0 .. MaxTime
Ended == {"done", "dropped"}

\* The first thing a call of each kind waits for.
Entry(op) ==
    CASE op = "gossip" -> "dedup"
      [] op = "direct" -> "process"
      [] op \in {"request", "response"} -> "update"
      [] op = "broadcast" -> "insert"
      [] op = "cleanup" -> "stale"

\* Content is stored under a fresh URI, for which the call stands.
Keys == Uris \cup Calls
Key(c) == IF Payload[c] = "content" /\ Op[c] # "broadcast" THEN c ELSE Uri[c]

Positions == {"idle", "dedup", "update", "process", "pending", "store", "lookup",
              "insert", "peers", "stale", "sweep"} \cup Ended

\* Which guards are held where.
Guarding(c) ==
    /\ held["seen"] = c <=>
          Op[c] = "gossip" /\ pc[c] \in {"update", "process", "store", "lookup"}
    /\ held["peers"] = c <=> pc[c] = "sweep"
    /\ held["cache"] = c <=> pc[c] = "peers"

\* The type invariant.
P2pTypeOK ==
    /\ lastSeen \in [Peers -> Time \cup {Never}]
    /\ pending \in [Requests -> Uris \cup {Nobody}]
    /\ cache \in [Keys -> Calls \cup {Nobody}]
    /\ seen \in [Ids -> Time \cup {Never}]
    /\ held \in [Locks -> Calls \cup {Nobody}]
    /\ pc \in [Calls -> Positions]
    /\ sweepNow \in [Calls -> Time]
    /\ now \in Time
    /\ unsent \subseteq Requests
    /\ accepted \in Seq([call : Calls, at : Time])
    /\ \A c \in Calls : Guarding(c)

\* P2pHandler::new.
Init ==
    /\ lastSeen = [p \in Peers |-> Never]
    /\ pending = [r \in Requests |-> Nobody]
    /\ cache = [k \in Keys |-> Nobody]
    /\ seen = [i \in Ids |-> Never]
    /\ held = [l \in Locks |-> Nobody]
    /\ pc = [c \in Calls |-> "idle"]
    /\ sweepNow = [c \in Calls |-> 0]
    /\ now = 0
    /\ unsent = Requests
    /\ accepted = <<>>

-----------------------------------------------------------------------------
(* Locks and positions. *)

Free(l) == held[l] = Nobody

\* A call that ends, or whose future is dropped, drops its guards.
Move(c, to) ==
    /\ pc' = [pc EXCEPT ![c] = to]
    /\ held' = IF to \in Ended
                 THEN [l \in Locks |-> IF held[l] = c THEN Nobody ELSE held[l]]
                 ELSE held

MoveHolding(c, to, lock) ==
    /\ pc' = [pc EXCEPT ![c] = to]
    /\ held' = [held EXCEPT ![lock] = c]

\* duration_since is zero for an instant that is not yet there.
Since(start, end) == IF end >= start THEN end - start ELSE 0

\* What the match on the message does with the cache, after a response has taken
\* want out of pending_requests.  A request is served only in the internal
\* format, and only two of its kinds.
Stores(c, want) ==
    CASE Op[c] \in {"gossip", "direct"} -> Payload[c] \in {"resource", "content", "answer"}
      [] Op[c] = "request" -> Payload[c] = "content"
      [] Op[c] = "response" -> \/ Payload[c] \in {"resource", "content"}
                               \/ Payload[c] = "answer" /\ want = Uri[c]
      [] OTHER -> FALSE

Reads(c) == Payload[c] = "query" /\ Op[c] # "response"

Effect(c, want) ==
    IF Stores(c, want) THEN "store" ELSE IF Reads(c) THEN "lookup" ELSE "done"

-----------------------------------------------------------------------------
(* The calls. *)

Begin(c) ==
    /\ pc[c] = "idle"
    /\ Move(c, Entry(Op[c]))
    /\ UNCHANGED <<maps, sweepNow, now, unsent, accepted>>

\* Fault: the guard of seen is dropped once the id is marked.
DedupDropsGuard(c) ==
    /\ pc[c] = "dedup"
    /\ Free("seen")
    /\ IF seen[MsgId[c]] # Never
         THEN Move(c, "done") /\ UNCHANGED <<seen, accepted>>
         ELSE /\ Move(c, "update")
              /\ seen' = [seen EXCEPT ![MsgId[c]] = now]
              /\ accepted' = Append(accepted, [call |-> c, at |-> now])
    /\ UNCHANGED <<lastSeen, pending, cache, sweepNow, now, unsent>>

\* handle_gossipsub up to update_peer_state; a duplicate ends here.
Dedup(c) ==
    /\ pc[c] = "dedup"
    /\ Free("seen")
    /\ IF seen[MsgId[c]] # Never
         THEN Move(c, "done") /\ UNCHANGED <<seen, accepted>>
         ELSE /\ MoveHolding(c, "update", "seen")
              /\ seen' = [seen EXCEPT ![MsgId[c]] = now]
              /\ accepted' = Append(accepted, [call |-> c, at |-> now])
    /\ UNCHANGED <<lastSeen, pending, cache, sweepNow, now, unsent>>

\* What follows update_peer_state: handle_gossipsub parses the message and lets
\* process_message or process_protocol_message do the same once more.
AfterUpdate(c) ==
    IF pc[c] = "process" THEN Effect(c, Nobody)
    ELSE CASE Op[c] = "gossip" -> IF Payload[c] = "garbled" THEN "done" ELSE "process"
           [] Op[c] = "response" -> "pending"
           [] OTHER -> Effect(c, Nobody)

\* Fault: the guard of peers is kept until the message is stored.
UpdatePeerKeepsGuard(c) ==
    /\ pc[c] \in {"update", "process"}
    /\ Free("peers")
    /\ lastSeen' = [lastSeen EXCEPT ![Peer[c]] = now]
    /\ IF AfterUpdate(c) = "store" THEN MoveHolding(c, "store", "peers")
                                   ELSE Move(c, AfterUpdate(c))
    /\ UNCHANGED <<pending, cache, seen, sweepNow, now, unsent, accepted>>

\* Fault: the guard of seen is dropped before the message is stored.
UpdatePeerDropsSeen(c) ==
    /\ pc[c] \in {"update", "process"}
    /\ Free("peers")
    /\ lastSeen' = [lastSeen EXCEPT ![Peer[c]] = now]
    /\ pc' = [pc EXCEPT ![c] = AfterUpdate(c)]
    /\ held' = [l \in Locks |-> IF held[l] = c THEN Nobody ELSE held[l]]
    /\ UNCHANGED <<pending, cache, seen, sweepNow, now, unsent, accepted>>

UpdatePeer(c) ==
    /\ pc[c] \in {"update", "process"}
    /\ Free("peers")
    /\ lastSeen' = [lastSeen EXCEPT ![Peer[c]] = now]
    /\ Move(c, AfterUpdate(c))
    /\ UNCHANGED <<pending, cache, seen, sweepNow, now, unsent, accepted>>

\* handle_response takes the request out of pending_requests.
TakePending(c) ==
    /\ pc[c] = "pending"
    /\ pending' = [pending EXCEPT ![Request[c]] = Nobody]
    /\ Move(c, Effect(c, pending[Request[c]]))
    /\ UNCHANGED <<lastSeen, cache, seen, sweepNow, now, unsent, accepted>>

Store(c) ==
    /\ pc[c] = "store"
    /\ Free("cache")
    /\ cache' = [cache EXCEPT ![Key(c)] = c]
    /\ Move(c, "done")
    /\ UNCHANGED <<lastSeen, pending, seen, sweepNow, now, unsent, accepted>>

Lookup(c) ==
    /\ pc[c] = "lookup"
    /\ Free("cache")
    /\ Move(c, "done")
    /\ UNCHANGED <<maps, sweepNow, now, unsent, accepted>>

\* broadcast_resource, which only logs what it would send.
BroadcastInsert(c) ==
    /\ pc[c] = "insert"
    /\ Free("cache")
    /\ cache' = [cache EXCEPT ![Key(c)] = c]
    /\ MoveHolding(c, "peers", "cache")
    /\ UNCHANGED <<lastSeen, pending, seen, sweepNow, now, unsent, accepted>>

BroadcastToPeers(c) ==
    /\ pc[c] = "peers"
    /\ Free("peers")
    /\ Move(c, "done")
    /\ UNCHANGED <<maps, sweepNow, now, unsent, accepted>>

\* clean_stale_peers: first the peers, then the messages, both at one instant.
RemoveStale(c) ==
    /\ pc[c] = "stale"
    /\ Free("peers")
    /\ sweepNow' = [sweepNow EXCEPT ![c] = now]
    /\ lastSeen' = [p \in Peers |-> IF Since(lastSeen[p], now) > PeerTimeout
                                      THEN Never ELSE lastSeen[p]]
    /\ MoveHolding(c, "sweep", "peers")
    /\ UNCHANGED <<pending, cache, seen, now, unsent, accepted>>

\* Fault: retain with the condition of a removal.
SweepKeepsOld(c) ==
    /\ pc[c] = "sweep"
    /\ Free("seen")
    /\ seen' = [i \in Ids |-> IF Since(seen[i], sweepNow[c]) >= Ttl
                                THEN seen[i] ELSE Never]
    /\ Move(c, "done")
    /\ UNCHANGED <<lastSeen, pending, cache, sweepNow, now, unsent, accepted>>

Sweep(c) ==
    /\ pc[c] = "sweep"
    /\ Free("seen")
    /\ seen' = [i \in Ids |-> IF Since(seen[i], sweepNow[c]) < Ttl
                                THEN seen[i] ELSE Never]
    /\ Move(c, "done")
    /\ UNCHANGED <<lastSeen, pending, cache, sweepNow, now, unsent, accepted>>

Step(c) ==
    \/ Dedup(c) \/ UpdatePeer(c) \/ TakePending(c) \/ Store(c) \/ Lookup(c)
    \/ BroadcastInsert(c) \/ BroadcastToPeers(c) \/ RemoveStale(c) \/ Sweep(c)

\* At any await.
DropCall(c) ==
    /\ c \in Droppable
    /\ pc[c] \notin {"idle"} \cup Ended
    /\ Move(c, "dropped")
    /\ UNCHANGED <<maps, sweepNow, now, unsent, accepted>>

-----------------------------------------------------------------------------
(* Calls that hold one lock for one action. *)

RegisterPeer(p) ==
    /\ Free("peers")
    /\ lastSeen' = [lastSeen EXCEPT ![p] = now]
    /\ UNCHANGED <<pending, cache, seen, held, pc, sweepNow, now, unsent, accepted>>

UnregisterPeer(p) ==
    /\ Free("peers")
    /\ lastSeen' = [lastSeen EXCEPT ![p] = Never]
    /\ UNCHANGED <<pending, cache, seen, held, pc, sweepNow, now, unsent, accepted>>

CleanupPeers ==
    /\ Free("peers")
    /\ lastSeen' = [p \in Peers |-> IF Since(lastSeen[p], now) < PeerTimeout
                                      THEN lastSeen[p] ELSE Never]
    /\ UNCHANGED <<pending, cache, seen, held, pc, sweepNow, now, unsent, accepted>>

\* External: the owner of the handler files what it sends in the public map.
RequestSent(r) ==
    /\ r \in unsent
    /\ unsent' = unsent \ {r}
    /\ pending' = [pending EXCEPT ![r] = Asked[r]]
    /\ UNCHANGED <<lastSeen, cache, seen, held, pc, sweepNow, now, accepted>>

Tick ==
    /\ now < MaxTime
    /\ now' = now + 1
    /\ UNCHANGED <<maps, held, pc, sweepNow, unsent, accepted>>

Next ==
    \/ \E c \in Calls : Begin(c) \/ Step(c) \/ DropCall(c)
    \/ \E p \in Peers : RegisterPeer(p) \/ UnregisterPeer(p)
    \/ CleanupPeers
    \/ \E r \in Requests : RequestSent(r)
    \/ Tick

Spec == Init /\ [][Next]_vars

\* tokio's RwLock is fair: its queue is served in order, so a call that waits
\* for a lock gets it unless somebody keeps it.
FairSpec == Spec /\ \A c \in Calls : SF_vars(Step(c))

-----------------------------------------------------------------------------
(* Properties. *)

\* Deduplication against the clean-up (handler.rs:457-464, 638-639): a message is
\* accepted again only when its time to live is over, although the clean-up
\* compares with an instant from before it got the lock.
OncePerTtl ==
    \A i, j \in DOMAIN accepted :
        i < j /\ MsgId[accepted[i].call] = MsgId[accepted[j].call]
            => accepted[j].at - accepted[i].at >= Ttl

\* What keeping the guard of seen over the whole of handle_gossipsub buys
\* (handler.rs:455-489): of two gossip messages about one resource the later one
\* is not overwritten by the earlier one, however their tasks interleave.
StoredInOrder ==
    \A i, j \in DOMAIN accepted :
        LET earlier == accepted[i].call
            later == accepted[j].call
        IN  i < j /\ Key(earlier) = Key(later) /\ Stores(later, Nobody) /\ pc[later] = "done"
                => cache[Key(later)] # earlier

Accepted(c) == \E i \in DOMAIN accepted : accepted[i].call = c

\* What a caller may conclude from the false that handle_gossipsub returns for a
\* duplicate (handler.rs:457-460): the copy that was marked is no longer in the
\* hands of another task.  It has been handled, and what it carried was cached, or
\* its task was dropped; the id is marked long before that (handler.rs:464).
DuplicatesWereHandled ==
    \A c \in Calls : Op[c] = "gossip" /\ pc[c] = "done" /\ ~Accepted(c) =>
        \E i \in DOMAIN accepted :
            LET copy == accepted[i].call
            IN  /\ MsgId[copy] = MsgId[c]
                /\ pc[copy] \in Ended
                /\ pc[copy] = "done" /\ Stores(copy, Nobody) => cache[Key(copy)] # Nobody

\* A gossip message that holds seen and a clean-up that holds peers wait for each
\* other (handler.rs:467 and 638), or for a broadcast that waits for the clean-up.
Deadlocked ==
    \E g, k \in Calls :
        /\ held["seen"] = g /\ pc[k] = "sweep"
        /\ \/ pc[g] \in {"update", "process"}
           \/ pc[g] \in {"store", "lookup"} /\ ~Free("cache")

\* The lock a call waits for; pending_requests is never held over an await.
Needs(c, lock) ==
    CASE lock = "seen" -> pc[c] \in {"dedup", "sweep"}
      [] lock = "peers" -> pc[c] \in {"update", "process", "peers", "stale"}
      [] lock = "cache" -> pc[c] \in {"store", "lookup", "insert"}

\* The locks are taken in one order but for that: as long as a call has not ended
\* some call can go on, so with finitely many calls all of them end.
OnlyCleanupDeadlocks ==
    \/ \A c \in Calls : pc[c] \in {"idle"} \cup Ended
    \/ \E c \in Calls : /\ pc[c] \notin {"idle"} \cup Ended
                        /\ \A l \in Locks : Needs(c, l) => Free(l)
    \/ Deadlocked

\* handler.rs:620 and 637, "Clean up stale peers" and "Clean up old seen messages":
\* a clean-up gets to its end.
CleanupEnds ==
    \A c \in Calls : Op[c] = "cleanup" => (pc[c] = "stale" ~> pc[c] \in Ended)

=============================================================================
