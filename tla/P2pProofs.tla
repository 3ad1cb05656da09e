----------------------------- MODULE P2pProofs ------------------------------
(***************************************************************************)
(* Proofs about the two components of mcp-transport-p2p.  Of P2pHandler,   *)
(* its safety for any calls, peers, messages and requests, and any times;  *)
(* of P2pManager, for any number of sends, either transport or both and    *)
(* any limit.  The two share no variable.                                  *)
(***************************************************************************)
EXTENDS P2pHandler, P2pManager, SequenceTheorems, FiniteSetTheorems, TLAPS

\* Only a call of the right method gets to a position.
Places ==
    \A c \in Calls :
        /\ pc[c] = "dedup" => Op[c] = "gossip"
        /\ pc[c] = "process" => Op[c] \in {"gossip", "direct"}
        /\ pc[c] = "update" => Op[c] \in {"gossip", "request", "response"}
        /\ pc[c] = "pending" => Op[c] = "response"
        /\ pc[c] \in {"insert", "peers"} => Op[c] = "broadcast"
        /\ pc[c] \in {"stale", "sweep"} => Op[c] = "cleanup"
        /\ pc[c] \in {"store", "lookup"} => Op[c] \notin {"broadcast", "cleanup"}
        /\ pc[c] = "lookup" => ~Stores(c, Nobody)

\* An id is remembered from the last message with it, or that message is old.
Remembered ==
    /\ \A c \in Calls : sweepNow[c] <= now
    /\ \A i \in DOMAIN accepted :
         LET time == accepted[i].at
             mark == seen[MsgId[accepted[i].call]]
         IN  /\ time <= now
             /\ mark = Never => now - time >= Ttl
             /\ mark # Never => mark >= time

\* One accepted message is handled at a time, so all but the last have ended.
Sequential ==
    /\ \A i \in DOMAIN accepted :
         /\ Op[accepted[i].call] = "gossip"
         /\ pc[accepted[i].call] \in {"update", "process", "store", "lookup"} \cup Ended
    /\ \A i, j \in DOMAIN accepted :
         i < j => /\ pc[accepted[i].call] \in Ended
                  /\ accepted[i].call # accepted[j].call

\* A message in the hands of handle_gossipsub was accepted, and whatever is marked
\* was accepted.
Marked ==
    /\ \A c \in Calls : Op[c] = "gossip" /\ pc[c] \in {"update", "process", "store", "lookup"}
                        => Accepted(c)
    /\ \A i \in Ids : seen[i] # Never =>
         \E n \in DOMAIN accepted : MsgId[accepted[n].call] = i

\* What an accepted message carried was cached before its call returned.
Cached ==
    \A i \in DOMAIN accepted :
        LET copy == accepted[i].call
        IN  pc[copy] = "done" /\ Stores(copy, Nobody) => cache[Key(copy)] # Nobody

\* A call that returned without having been accepted met a copy that had ended.
TurnedAway ==
    \A c \in Calls : Op[c] = "gossip" /\ pc[c] = "done" /\ ~Accepted(c) =>
        \E i \in DOMAIN accepted :
            MsgId[accepted[i].call] = MsgId[c] /\ pc[accepted[i].call] \in Ended

IInv == /\ P2pTypeOK /\ Places /\ Remembered /\ Sequential /\ Marked /\ Cached /\ TurnedAway
        /\ OncePerTtl /\ StoredInOrder

-----------------------------------------------------------------------------

\* What the assumptions say of a call.
LEMMA CallFacts ==
    /\ Nobody \notin Calls /\ Nobody \notin Uris
    /\ Ttl \in Nat /\ MaxTime \in Nat /\ PeerTimeout \in Nat
    /\ \A c \in Calls : /\ Op[c] \in Ops /\ Payload[c] \in Payloads
                        /\ Peer[c] \in Peers /\ MsgId[c] \in Ids
                        /\ Uri[c] \in Uris /\ Request[c] \in Requests
                        /\ Key(c) \in Keys
    /\ \A r \in Requests : Asked[r] \in Uris
<1>1. \A c \in Calls : Key(c) \in Keys
  BY HandlerAssumption DEF Key, Keys
<1> QED
  BY <1>1, HandlerAssumption

\* A call that moves on without a new guard keeps its guards, or drops them at
\* its end.
LEMMA MoveFacts ==
    ASSUME P2pTypeOK, NEW c \in Calls, NEW to \in Positions, Move(c, to)
    PROVE  /\ pc' \in [Calls -> Positions] /\ held' \in [Locks -> Calls \cup {Nobody}]
           /\ pc'[c] = to
           /\ \A d \in Calls : d # c => pc'[d] = pc[d]
           /\ \A l \in Locks : held'[l] = IF held[l] = c /\ to \in Ended
                                            THEN Nobody ELSE held[l]
  BY DEF P2pTypeOK, Move

\* A call that acquires a lock for good has the lock and its other guards.
LEMMA MoveHoldingFacts ==
    ASSUME P2pTypeOK, NEW c \in Calls, NEW to \in Positions, NEW lock \in Locks,
           MoveHolding(c, to, lock)
    PROVE  /\ pc' \in [Calls -> Positions] /\ held' \in [Locks -> Calls \cup {Nobody}]
           /\ pc'[c] = to
           /\ \A d \in Calls : d # c => pc'[d] = pc[d]
           /\ held'[lock] = c
           /\ \A l \in Locks \ {lock} : held'[l] = held[l]
  BY DEF P2pTypeOK, MoveHolding

\* Where a call gets to.
LEMMA EntryFacts ==
    ASSUME NEW c \in Calls
    PROVE  /\ Entry(Op[c]) \in {"dedup", "process", "update", "insert", "stale"}
           /\ Entry(Op[c]) = "dedup" => Op[c] = "gossip"
           /\ Entry(Op[c]) = "process" => Op[c] = "direct"
           /\ Entry(Op[c]) = "update" => Op[c] \in {"request", "response"}
           /\ Entry(Op[c]) = "insert" => Op[c] = "broadcast"
           /\ Entry(Op[c]) = "stale" => Op[c] = "cleanup"
  BY CallFacts DEF Entry, Ops

LEMMA EffectFacts ==
    ASSUME NEW c \in Calls, NEW want
    PROVE  /\ Effect(c, want) \in {"store", "lookup", "done"}
           /\ Effect(c, want) = "store" <=> Stores(c, want)
           /\ Effect(c, want) = "lookup" => Op[c] # "response"
  BY DEF Effect, Reads

LEMMA AfterUpdateFacts ==
    ASSUME NEW c \in Calls, Places, pc[c] \in {"update", "process"}
    PROVE  /\ AfterUpdate(c) \in {"process", "pending", "store", "lookup", "done"}
           /\ AfterUpdate(c) = "process" => Op[c] = "gossip"
           /\ AfterUpdate(c) = "pending" => Op[c] = "response"
           /\ AfterUpdate(c) = "store" => Stores(c, Nobody)
           /\ AfterUpdate(c) = "lookup" => ~Stores(c, Nobody)
           /\ AfterUpdate(c) = "done" => Op[c] # "gossip" \/ ~Stores(c, Nobody)
           /\ AfterUpdate(c) # "pending" => Op[c] # "response"
<1>1. Op[c] \in {"gossip", "direct", "request", "response"}
  BY DEF Places
<1>2. CASE pc[c] = "process"
  BY <1>2, EffectFacts DEF AfterUpdate, Places
<1>3. CASE pc[c] = "update" /\ Op[c] = "gossip"
  BY <1>3, EffectFacts DEF AfterUpdate, Stores
<1>4. CASE pc[c] = "update" /\ Op[c] = "request"
  <2>1. AfterUpdate(c) = Effect(c, Nobody)
    BY <1>4 DEF AfterUpdate
  <2> QED
    BY <1>4, <2>1, EffectFacts
<1>5. CASE pc[c] = "update" /\ Op[c] = "response"
  BY <1>5 DEF AfterUpdate
<1> QED
  BY <1>1, <1>2, <1>3, <1>4, <1>5 DEF Places

-----------------------------------------------------------------------------

\* Where handle_gossipsub holds the guard of seen.
Handling == {"update", "process", "store", "lookup"}

\* The guards fit the positions after a move: at the end of a call, and between
\* positions that need the same guards.
LEMMA GuardsAfterMove ==
    ASSUME P2pTypeOK, NEW c \in Calls, NEW to \in Positions, Move(c, to),
           \/ to \in Ended
           \/ /\ pc[c] \notin {"sweep", "peers"} /\ to \notin {"sweep", "peers"}
              /\ Op[c] = "gossip" => (pc[c] \in Handling <=> to \in Handling)
    PROVE  \A d \in Calls : Guarding(d)'
<1>1. \A d \in Calls : Guarding(d)
  BY DEF P2pTypeOK
<1>2. \A d \in Calls \ {c} : Guarding(d)'
  BY <1>1, MoveFacts, CallFacts DEF Guarding, Locks
<1>3. Guarding(c)'
  <2>1. CASE to \in Ended
    BY <2>1, MoveFacts, CallFacts DEF Guarding, Locks, Ended
  <2>2. CASE to \notin Ended
    BY <1>1, <2>2, MoveFacts, CallFacts DEF Guarding, Locks, Handling
  <2> QED
    BY <2>1, <2>2
<1> QED
  BY <1>2, <1>3

\* And after an acquisition from a position without a guard.
LEMMA GuardsAfterHolding ==
    ASSUME P2pTypeOK, NEW c \in Calls, NEW to \in Positions, NEW lock \in Locks,
           MoveHolding(c, to, lock), Free(lock),
           pc[c] \in {"dedup", "insert", "stale"},
           \/ lock = "seen" /\ to = "update" /\ Op[c] = "gossip"
           \/ lock = "peers" /\ to = "sweep"
           \/ lock = "cache" /\ to = "peers"
    PROVE  \A d \in Calls : Guarding(d)'
<1>1. \A d \in Calls : Guarding(d)
  BY DEF P2pTypeOK
<1>2. \A d \in Calls \ {c} : Guarding(d)'
  BY <1>1, MoveHoldingFacts, CallFacts DEF Guarding, Locks, Free
<1>3. Guarding(c)'
  BY <1>1, MoveHoldingFacts, CallFacts DEF Guarding, Locks, Free
<1> QED
  BY <1>2, <1>3

LEMMA InitHolds == Init => IInv
<1> SUFFICES ASSUME Init PROVE IInv
  OBVIOUS
<1> USE DEF Init
<1>1. P2pTypeOK
  <2>1. accepted \in Seq([call : Calls, at : Time])
    OBVIOUS
  <2>2. \A c \in Calls : Guarding(c)
    BY CallFacts DEF Guarding, Locks
  <2> QED
    BY <2>1, <2>2, CallFacts DEF P2pTypeOK, Time, Positions, Keys
<1>2. DOMAIN accepted = {}
  OBVIOUS
<1>3. Places /\ Remembered /\ Sequential /\ OncePerTtl /\ StoredInOrder
  BY <1>2 DEF Places, Remembered, Sequential, OncePerTtl, StoredInOrder
<1>4. Marked /\ Cached /\ TurnedAway
  BY <1>2 DEF Marked, Cached, TurnedAway
<1> QED
  BY <1>1, <1>3, <1>4 DEF IInv

\* Every step keeps the types and the guards.
LEMMA TypesKept ==
    ASSUME P2pTypeOK, Places, [Next]_vars
    PROVE  P2pTypeOK'
<1> USE DEF vars, maps
<1>1. ASSUME NEW c \in Calls, Begin(c) PROVE P2pTypeOK'
  <2>1. Entry(Op[c]) \in Positions /\ Move(c, Entry(Op[c]))
    BY <1>1, EntryFacts DEF Begin, Positions
  <2>2. \A d \in Calls : Guarding(d)'
    BY <1>1, <2>1, EntryFacts, GuardsAfterMove DEF Begin, Handling
  <2> QED
    BY <1>1, <2>1, <2>2, MoveFacts DEF Begin, P2pTypeOK
<1>2. ASSUME NEW c \in Calls, Dedup(c) PROVE P2pTypeOK'
  <2>1. CASE seen[MsgId[c]] # Never
    <3>1. \A d \in Calls : Guarding(d)'
      BY <1>2, <2>1, GuardsAfterMove DEF Dedup, Positions, Ended
    <3> QED
      BY <1>2, <2>1, <3>1, MoveFacts DEF Dedup, P2pTypeOK, Positions, Ended
  <2>2. CASE seen[MsgId[c]] = Never
    <3>1. \A d \in Calls : Guarding(d)'
      BY <1>2, <2>2, GuardsAfterHolding DEF Dedup, Positions, Locks, Places
    <3>2. accepted' \in Seq([call : Calls, at : Time])
      <4>1. [call |-> c, at |-> now] \in [call : Calls, at : Time]
        BY DEF P2pTypeOK
      <4>2. accepted' = Append(accepted, [call |-> c, at |-> now])
        BY <1>2, <2>2 DEF Dedup
      <4>3. accepted \in Seq([call : Calls, at : Time])
        BY DEF P2pTypeOK
      <4> QED
        BY <4>1, <4>2, <4>3, AppendProperties
    <3>3. seen' \in [Ids -> Time \cup {Never}]
      BY <1>2, <2>2 DEF Dedup, P2pTypeOK
    <3>4. pc' \in [Calls -> Positions] /\ held' \in [Locks -> Calls \cup {Nobody}]
      BY <1>2, <2>2, MoveHoldingFacts DEF Dedup, Positions, Locks
    <3> QED
      BY <1>2, <3>1, <3>2, <3>3, <3>4 DEF Dedup, P2pTypeOK
  <2> QED
    BY <2>1, <2>2
<1>3. ASSUME NEW c \in Calls, UpdatePeer(c) PROVE P2pTypeOK'
  <2>1. AfterUpdate(c) \in Positions /\ Move(c, AfterUpdate(c))
    BY <1>3, AfterUpdateFacts DEF UpdatePeer, Positions, Ended
  <2>2. \A d \in Calls : Guarding(d)'
    BY <1>3, <2>1, AfterUpdateFacts, GuardsAfterMove DEF UpdatePeer, Handling, Ended
  <2> QED
    BY <1>3, <2>1, <2>2, MoveFacts DEF UpdatePeer, P2pTypeOK
<1>4. ASSUME NEW c \in Calls, TakePending(c) PROVE P2pTypeOK'
  <2> DEFINE to == Effect(c, pending[Request[c]])
  <2>1. to \in {"store", "lookup", "done"} /\ to \in Positions /\ Move(c, to)
    BY <1>4, EffectFacts DEF TakePending, Positions, Ended
  <2> HIDE DEF to
  <2>2. \A d \in Calls : Guarding(d)'
    BY <1>4, <2>1, GuardsAfterMove DEF TakePending, Handling, Places
  <2>3. pending' \in [Requests -> Uris \cup {Nobody}]
    BY <1>4, CallFacts DEF TakePending, P2pTypeOK
  <2> QED
    BY <1>4, <2>1, <2>2, <2>3, MoveFacts DEF TakePending, P2pTypeOK
<1>5. ASSUME NEW c \in Calls, Store(c) PROVE P2pTypeOK'
  <2>1. \A d \in Calls : Guarding(d)'
    BY <1>5, GuardsAfterMove DEF Store, Positions, Ended
  <2> QED
    BY <1>5, <2>1, MoveFacts DEF Store, P2pTypeOK, Positions, Ended
<1>6. ASSUME NEW c \in Calls, Lookup(c) PROVE P2pTypeOK'
  <2>1. \A d \in Calls : Guarding(d)'
    BY <1>6, GuardsAfterMove DEF Lookup, Positions, Ended
  <2> QED
    BY <1>6, <2>1, MoveFacts DEF Lookup, P2pTypeOK, Positions, Ended
<1>7. ASSUME NEW c \in Calls, BroadcastInsert(c) PROVE P2pTypeOK'
  <2>1. \A d \in Calls : Guarding(d)'
    BY <1>7, GuardsAfterHolding DEF BroadcastInsert, Positions, Locks
  <2> QED
    BY <1>7, <2>1, MoveHoldingFacts DEF BroadcastInsert, P2pTypeOK, Positions, Locks
<1>8. ASSUME NEW c \in Calls, BroadcastToPeers(c) PROVE P2pTypeOK'
  <2>1. \A d \in Calls : Guarding(d)'
    BY <1>8, GuardsAfterMove DEF BroadcastToPeers, Positions, Ended
  <2> QED
    BY <1>8, <2>1, MoveFacts DEF BroadcastToPeers, P2pTypeOK, Positions, Ended
<1>9. ASSUME NEW c \in Calls, RemoveStale(c) PROVE P2pTypeOK'
  <2>1. \A d \in Calls : Guarding(d)'
    BY <1>9, GuardsAfterHolding DEF RemoveStale, Positions, Locks
  <2>2. lastSeen' \in [Peers -> Time \cup {Never}] /\ sweepNow' \in [Calls -> Time]
    BY <1>9 DEF RemoveStale, P2pTypeOK
  <2> QED
    BY <1>9, <2>1, <2>2, MoveHoldingFacts DEF RemoveStale, P2pTypeOK, Positions, Locks
<1>10. ASSUME NEW c \in Calls, Sweep(c) PROVE P2pTypeOK'
  <2>1. \A d \in Calls : Guarding(d)'
    BY <1>10, GuardsAfterMove DEF Sweep, Positions, Ended
  <2>2. seen' \in [Ids -> Time \cup {Never}]
    BY <1>10 DEF Sweep, P2pTypeOK
  <2> QED
    BY <1>10, <2>1, <2>2, MoveFacts DEF Sweep, P2pTypeOK, Positions, Ended
<1>11. ASSUME NEW c \in Calls, DropCall(c) PROVE P2pTypeOK'
  <2>1. \A d \in Calls : Guarding(d)'
    BY <1>11, GuardsAfterMove DEF DropCall, Positions, Ended
  <2> QED
    BY <1>11, <2>1, MoveFacts DEF DropCall, P2pTypeOK, Positions, Ended
<1>12. ASSUME NEW p \in Peers, RegisterPeer(p) \/ UnregisterPeer(p) PROVE P2pTypeOK'
  <2>1. lastSeen' \in [Peers -> Time \cup {Never}]
    BY <1>12 DEF RegisterPeer, UnregisterPeer, P2pTypeOK
  <2> QED
    BY <1>12, <2>1 DEF RegisterPeer, UnregisterPeer, P2pTypeOK, Guarding
<1>13. CASE CleanupPeers
  <2>1. lastSeen' \in [Peers -> Time \cup {Never}]
    BY <1>13 DEF CleanupPeers, P2pTypeOK
  <2> QED
    BY <1>13, <2>1 DEF CleanupPeers, P2pTypeOK, Guarding
<1>14. ASSUME NEW r \in Requests, RequestSent(r) PROVE P2pTypeOK'
  BY <1>14, CallFacts DEF RequestSent, P2pTypeOK, Guarding
<1>15. CASE Tick
  BY <1>15, CallFacts DEF Tick, P2pTypeOK, Guarding, Time
<1>16. CASE UNCHANGED vars
  BY <1>16 DEF P2pTypeOK, Guarding
<1> QED
  BY <1>1, <1>2, <1>3, <1>4, <1>5, <1>6, <1>7, <1>8, <1>9, <1>10, <1>11, <1>12,
     <1>13, <1>14, <1>15, <1>16 DEF Next, Step

\* And the places.
LEMMA PlacesKept ==
    ASSUME P2pTypeOK, Places, [Next]_vars
    PROVE  Places'
<1> USE DEF vars, maps
<1>1. ASSUME NEW c \in Calls, Begin(c) PROVE Places'
  <2>1. Entry(Op[c]) \in Positions /\ Move(c, Entry(Op[c]))
    BY <1>1, EntryFacts DEF Begin, Positions
  <2> QED
    BY <2>1, EntryFacts, MoveFacts DEF Places
<1>2. ASSUME NEW c \in Calls, Dedup(c) PROVE Places'
  <2>1. CASE seen[MsgId[c]] # Never
    BY <1>2, <2>1, MoveFacts DEF Dedup, Places, Positions, Ended
  <2>2. CASE seen[MsgId[c]] = Never
    BY <1>2, <2>2, MoveHoldingFacts DEF Dedup, Places, Positions, Locks
  <2> QED
    BY <2>1, <2>2
<1>3. ASSUME NEW c \in Calls, UpdatePeer(c) PROVE Places'
  <2>1. AfterUpdate(c) \in Positions /\ Move(c, AfterUpdate(c))
    BY <1>3, AfterUpdateFacts DEF UpdatePeer, Positions, Ended
  <2>2. Op[c] \notin {"broadcast", "cleanup"}
    BY <1>3 DEF UpdatePeer, Places
  <2> QED
    BY <1>3, <2>1, <2>2, AfterUpdateFacts, MoveFacts DEF UpdatePeer, Places
<1>4. ASSUME NEW c \in Calls, TakePending(c) PROVE Places'
  <2> DEFINE to == Effect(c, pending[Request[c]])
  <2>1. /\ to \in {"store", "lookup", "done"} /\ to \in Positions /\ Move(c, to)
        /\ Op[c] = "response" /\ to # "lookup"
    BY <1>4, EffectFacts DEF TakePending, Positions, Ended, Places
  <2> HIDE DEF to
  <2> QED
    BY <2>1, MoveFacts DEF Places
<1>5. ASSUME NEW c \in Calls,
             Store(c) \/ Lookup(c) \/ BroadcastToPeers(c) \/ Sweep(c) \/ DropCall(c)
      PROVE  Places'
  <2>1. PICK to \in Ended : Move(c, to)
    BY <1>5 DEF Store, Lookup, BroadcastToPeers, Sweep, DropCall, Ended
  <2> QED
    BY <2>1, MoveFacts DEF Places, Positions, Ended
<1>6. ASSUME NEW c \in Calls, BroadcastInsert(c) PROVE Places'
  BY <1>6, MoveHoldingFacts DEF BroadcastInsert, Places, Positions, Locks
<1>7. ASSUME NEW c \in Calls, RemoveStale(c) PROVE Places'
  BY <1>7, MoveHoldingFacts DEF RemoveStale, Places, Positions, Locks
<1>8. ASSUME pc' = pc PROVE Places'
  BY <1>8 DEF Places
<1> QED
  BY <1>1, <1>2, <1>3, <1>4, <1>5, <1>6, <1>7, <1>8 DEF Next, Step, RegisterPeer,
     UnregisterPeer, CleanupPeers, RequestSent, Tick

\* What an accepted message adds to the history.
LEMMA AcceptedFacts ==
    ASSUME P2pTypeOK, NEW c \in Calls, accepted' = Append(accepted, [call |-> c, at |-> now])
    PROVE  \E n \in Nat :
             /\ n \notin DOMAIN accepted /\ DOMAIN accepted' = DOMAIN accepted \cup {n}
             /\ \A i \in DOMAIN accepted : i < n /\ accepted'[i] = accepted[i]
             /\ accepted'[n] = [call |-> c, at |-> now]
<1>1. accepted \in Seq([call : Calls, at : Time]) /\ [call |-> c, at |-> now] \in [call : Calls, at : Time]
  BY DEF P2pTypeOK
<1>2. /\ Len(accepted') = Len(accepted) + 1
      /\ \A i \in 1..Len(accepted) : accepted'[i] = accepted[i]
      /\ accepted'[Len(accepted) + 1] = [call |-> c, at |-> now]
      /\ accepted' \in Seq([call : Calls, at : Time])
  BY <1>1, AppendProperties
<1>3. /\ DOMAIN accepted = 1..Len(accepted) /\ DOMAIN accepted' = 1..Len(accepted')
      /\ Len(accepted) \in Nat
  BY <1>1, <1>2, LenProperties
<1> WITNESS Len(accepted) + 1 \in Nat
<1> QED
  BY <1>2, <1>3

\* The history holds calls and times, in order.
LEMMA HistoryFacts ==
    ASSUME P2pTypeOK
    PROVE  /\ DOMAIN accepted \subseteq Nat
           /\ \A i \in DOMAIN accepted : accepted[i].call \in Calls /\ accepted[i].at \in Time
<1>1. DOMAIN accepted = 1..Len(accepted) /\ Len(accepted) \in Nat
  BY LenProperties DEF P2pTypeOK
<1>2. \A i \in DOMAIN accepted : accepted[i] \in [call : Calls, at : Time]
  BY <1>1, ElementOfSeq DEF P2pTypeOK
<1> QED
  BY <1>1, <1>2

-----------------------------------------------------------------------------

\* Deduplication.  Of the steps that the history does not notice only the clock
\* and the clean-up matter.
LEMMA RememberedKept ==
    ASSUME P2pTypeOK, P2pTypeOK', Remembered, OncePerTtl, [Next]_vars
    PROVE  Remembered' /\ OncePerTtl'
<1> USE DEF vars, maps
<1> DEFINE Mark(i) == seen[MsgId[accepted[i].call]]
<1>1. \A i \in DOMAIN accepted : Mark(i) \in Time \cup {Never} /\ accepted[i].at \in Time
  BY HistoryFacts, CallFacts DEF P2pTypeOK
<1>2. Time \subseteq Nat /\ Never = -1 /\ now \in Time /\ now' \in Time
  BY CallFacts DEF Time, Never, P2pTypeOK
<1>3. ASSUME NEW c \in Calls, Dedup(c), seen[MsgId[c]] = Never
      PROVE  Remembered' /\ OncePerTtl'
  <2>1. accepted' = Append(accepted, [call |-> c, at |-> now]) /\ now' = now
        /\ sweepNow' = sweepNow /\ seen' = [seen EXCEPT ![MsgId[c]] = now]
    BY <1>3 DEF Dedup
  <2>2. PICK n \in Nat :
          /\ n \notin DOMAIN accepted /\ DOMAIN accepted' = DOMAIN accepted \cup {n}
          /\ \A i \in DOMAIN accepted : i < n /\ accepted'[i] = accepted[i]
          /\ accepted'[n] = [call |-> c, at |-> now]
    BY <2>1, AcceptedFacts
  <2>3. \A i \in Ids : seen'[i] = IF i = MsgId[c] THEN now ELSE seen[i]
    BY <2>1 DEF P2pTypeOK
  <2>4. \A i \in DOMAIN accepted : MsgId[accepted[i].call] \in Ids
    BY HistoryFacts, CallFacts
  <2>5. \A i \in DOMAIN accepted : MsgId[accepted[i].call] = MsgId[c] => now - accepted[i].at >= Ttl
    BY <1>3 DEF Remembered
  <2>6. Remembered'
    <3>1. \A d \in Calls : sweepNow'[d] <= now'
      BY <2>1 DEF Remembered
    <3>2. \A i \in DOMAIN accepted : /\ accepted[i].at <= now
                                     /\ Mark(i) = Never => now - accepted[i].at >= Ttl
                                     /\ Mark(i) # Never => Mark(i) >= accepted[i].at
      BY DEF Remembered
    <3>3. \A i \in DOMAIN accepted :
            LET mark == seen'[MsgId[accepted[i].call]]
            IN  /\ mark = Never => now - accepted[i].at >= Ttl
                /\ mark # Never => mark >= accepted[i].at
      BY <1>2, <2>3, <2>4, <3>2
    <3>4. MsgId[c] \in Ids /\ seen'[MsgId[c]] = now
      BY <2>3, CallFacts
    <3>5. \A i \in DOMAIN accepted' :
            LET mark == seen'[MsgId[accepted'[i].call]]
            IN  /\ accepted'[i].at <= now'
                /\ mark = Never => now' - accepted'[i].at >= Ttl
                /\ mark # Never => mark >= accepted'[i].at
      <4> TAKE i \in DOMAIN accepted'
      <4>1. CASE i \in DOMAIN accepted
        BY <2>1, <2>2, <3>2, <3>3, <4>1
      <4>2. CASE i = n
        <5>1. accepted'[i].call = c /\ accepted'[i].at = now
          BY <2>2, <4>2
        <5>2. now' = now /\ now \in Nat /\ now # Never
          BY <1>2, <2>1
        <5> QED
          BY <3>4, <5>1, <5>2
      <4> QED
        BY <2>2, <4>1, <4>2
    <3> QED
      BY <3>1, <3>5 DEF Remembered
  <2>7. OncePerTtl'
    <3>1. \A i, j \in DOMAIN accepted' : i < j => i \in DOMAIN accepted
      BY <2>2, HistoryFacts
    <3> QED
      BY <2>2, <2>5, <3>1 DEF OncePerTtl
  <2> QED
    BY <2>6, <2>7
<1>4. ASSUME accepted' = accepted, now' = now, seen' = seen,
             \A d \in Calls : sweepNow'[d] <= now
      PROVE  Remembered' /\ OncePerTtl'
  BY <1>4 DEF Remembered, OncePerTtl
<1>5. ASSUME NEW c \in Calls, RemoveStale(c) PROVE Remembered' /\ OncePerTtl'
  <2>1. \A d \in Calls : sweepNow'[d] = IF d = c THEN now ELSE sweepNow[d]
    BY <1>5 DEF RemoveStale, P2pTypeOK
  <2>2. \A d \in Calls : sweepNow'[d] <= now
    BY <1>2, <2>1 DEF Remembered
  <2> QED
    BY <1>4, <1>5, <2>2 DEF RemoveStale
<1>6. ASSUME NEW c \in Calls, Sweep(c) PROVE Remembered' /\ OncePerTtl'
  <2>1. accepted' = accepted /\ now' = now /\ sweepNow' = sweepNow
    BY <1>6 DEF Sweep
  <2>2. \A i \in Ids : seen'[i] = IF Since(seen[i], sweepNow[c]) < Ttl THEN seen[i] ELSE Never
    BY <1>6 DEF Sweep
  <2>3. sweepNow[c] \in Nat /\ sweepNow[c] <= now /\ Ttl \in Nat
    BY <1>2, CallFacts DEF Remembered, P2pTypeOK
  <2>4. ASSUME NEW i \in DOMAIN accepted
        PROVE  LET mark == seen'[MsgId[accepted[i].call]]
               IN  /\ mark = Never => now - accepted[i].at >= Ttl
                   /\ mark # Never => mark >= accepted[i].at
    <3>1. MsgId[accepted[i].call] \in Ids
      BY HistoryFacts, CallFacts
    <3>2. /\ accepted[i].at <= now
          /\ Mark(i) = Never => now - accepted[i].at >= Ttl
          /\ Mark(i) # Never => Mark(i) >= accepted[i].at
      BY DEF Remembered
    <3>3. accepted[i].at \in Nat /\ Mark(i) \in Nat \cup {Never} /\ now \in Nat
      BY <1>1, <1>2
    <3>4. seen'[MsgId[accepted[i].call]] =
            IF Since(Mark(i), sweepNow[c]) < Ttl THEN Mark(i) ELSE Never
      BY <2>2, <3>1
    <3> HIDE DEF Mark
    <3> QED
      BY <1>2, <2>3, <3>2, <3>3, <3>4 DEF Since
  <2> QED
    BY <2>1, <2>4 DEF Remembered, OncePerTtl
<1>7. CASE Tick
  <2>1. UNCHANGED <<accepted, seen, sweepNow>> /\ now' = now + 1 /\ now \in Nat /\ Ttl \in Nat
    BY <1>2, <1>7, CallFacts DEF Tick
  <2>2. \A c \in Calls : sweepNow'[c] <= now'
    <3>1. \A c \in Calls : sweepNow[c] \in Nat
      BY <1>2, CallFacts DEF P2pTypeOK
    <3> QED
      BY <2>1, <3>1 DEF Remembered
  <2>3. ASSUME NEW i \in DOMAIN accepted
        PROVE  /\ accepted[i].at <= now'
               /\ Mark(i) = Never => now' - accepted[i].at >= Ttl
               /\ Mark(i) # Never => Mark(i) >= accepted[i].at
    <3>1. /\ accepted[i].at \in Nat
          /\ accepted[i].at <= now
          /\ Mark(i) = Never => now - accepted[i].at >= Ttl
          /\ Mark(i) # Never => Mark(i) >= accepted[i].at
      BY <1>1, <1>2 DEF Remembered
    <3> HIDE DEF Mark
    <3> QED
      BY <2>1, <3>1
  <2> QED
    BY <2>1, <2>2, <2>3 DEF Remembered, OncePerTtl
<1>8. ASSUME UNCHANGED <<accepted, now, seen, sweepNow>> PROVE Remembered' /\ OncePerTtl'
  BY <1>4, <1>8 DEF Remembered
<1>9. ASSUME NEW c \in Calls, Begin(c) \/ Step(c) \/ DropCall(c)
      PROVE  Remembered' /\ OncePerTtl'
  BY <1>3, <1>5, <1>6, <1>8, <1>9 DEF Begin, Step, DropCall, Dedup, UpdatePeer,
     TakePending, Store, Lookup, BroadcastInsert, BroadcastToPeers
<1> QED
  BY <1>7, <1>8, <1>9 DEF Next, RegisterPeer, UnregisterPeer, CleanupPeers, RequestSent

-----------------------------------------------------------------------------

\* A call that has ended does nothing, and an accepted message goes on being
\* handled until its call ends.
LEMMA StepFacts ==
    ASSUME P2pTypeOK, Places, NEW c \in Calls, Begin(c) \/ Step(c) \/ DropCall(c)
    PROVE  /\ pc[c] \notin Ended
           /\ \A d \in Calls : d # c => pc'[d] = pc[d]
           /\ Op[c] = "gossip" /\ pc[c] \in Handling => pc'[c] \in Handling \cup Ended
<1>1. CASE Begin(c)
  BY <1>1, EntryFacts, MoveFacts DEF Begin, Positions, Ended, Handling
<1>2. CASE Dedup(c) /\ seen[MsgId[c]] # Never
  BY <1>2, MoveFacts DEF Dedup, Positions, Ended, Handling
<1>3. CASE Dedup(c) /\ seen[MsgId[c]] = Never
  BY <1>3, MoveHoldingFacts DEF Dedup, Positions, Locks, Ended, Handling
<1>4. CASE UpdatePeer(c)
  <2>1. AfterUpdate(c) \in Positions /\ Move(c, AfterUpdate(c))
    BY <1>4, AfterUpdateFacts DEF UpdatePeer, Positions, Ended
  <2> QED
    BY <1>4, <2>1, AfterUpdateFacts, MoveFacts DEF UpdatePeer, Ended, Handling
<1>5. CASE TakePending(c)
  <2> DEFINE to == Effect(c, pending[Request[c]])
  <2>1. to \in Positions /\ Move(c, to)
    BY <1>5, EffectFacts DEF TakePending, Positions, Ended
  <2> HIDE DEF to
  <2> QED
    BY <1>5, <2>1, MoveFacts DEF TakePending, Handling, Ended
<1>6. CASE Store(c) \/ Lookup(c) \/ BroadcastToPeers(c) \/ Sweep(c) \/ DropCall(c)
  <2>1. PICK to \in Ended : Move(c, to)
    BY <1>6 DEF Store, Lookup, BroadcastToPeers, Sweep, DropCall, Ended
  <2>2. pc[c] \notin Ended
    BY <1>6 DEF Store, Lookup, BroadcastToPeers, Sweep, DropCall, Ended
  <2> QED
    BY <2>1, <2>2, MoveFacts DEF Positions, Ended
<1>7. CASE BroadcastInsert(c)
  BY <1>7, MoveHoldingFacts DEF BroadcastInsert, Positions, Locks, Ended, Handling
<1>8. CASE RemoveStale(c)
  BY <1>8, MoveHoldingFacts DEF RemoveStale, Positions, Locks, Ended, Handling
<1> QED
  BY <1>1, <1>2, <1>3, <1>4, <1>5, <1>6, <1>7, <1>8 DEF Step

\* While nobody holds seen, every accepted message has been handled.
LEMMA FreeMeansHandled ==
    ASSUME P2pTypeOK, Sequential, Free("seen")
    PROVE  \A i \in DOMAIN accepted : pc[accepted[i].call] \in Ended
<1> SUFFICES ASSUME NEW i \in DOMAIN accepted, pc[accepted[i].call] \notin Ended
             PROVE  FALSE
  OBVIOUS
<1>1. accepted[i].call \in Calls
  BY HistoryFacts
<1>2. held["seen"] = accepted[i].call
  BY <1>1 DEF Sequential, P2pTypeOK, Guarding
<1> QED
  BY <1>1, <1>2, CallFacts DEF Free

LEMMA SequentialKept ==
    ASSUME P2pTypeOK, Places, Sequential, [Next]_vars
    PROVE  Sequential'
<1> USE DEF vars, maps
<1>1. ASSUME NEW c \in Calls, Dedup(c), seen[MsgId[c]] = Never
      PROVE  Sequential'
  <2>1. accepted' = Append(accepted, [call |-> c, at |-> now]) /\ MoveHolding(c, "update", "seen")
    BY <1>1 DEF Dedup
  <2>2. PICK n \in Nat :
          /\ n \notin DOMAIN accepted /\ DOMAIN accepted' = DOMAIN accepted \cup {n}
          /\ \A i \in DOMAIN accepted : i < n /\ accepted'[i] = accepted[i]
          /\ accepted'[n] = [call |-> c, at |-> now]
    BY <2>1, AcceptedFacts
  <2>3. accepted'[n].call = c
    BY <2>2
  <2>4. \A i \in DOMAIN accepted : /\ accepted[i].call \in Calls \ {c}
                                   /\ pc[accepted[i].call] \in Ended
    BY <1>1, HistoryFacts, FreeMeansHandled DEF Dedup, Ended
  <2>5. \A d \in Calls : d # c => pc'[d] = pc[d]
    BY <2>1, MoveHoldingFacts DEF Positions, Locks
  <2>6. pc'[c] = "update" /\ Op[c] = "gossip"
    BY <1>1, <2>1, MoveHoldingFacts DEF Positions, Locks, Places, Dedup
  <2>7. \A i \in DOMAIN accepted' :
          /\ Op[accepted'[i].call] = "gossip"
          /\ pc'[accepted'[i].call] \in {"update", "process", "store", "lookup"} \cup Ended
    BY <2>2, <2>3, <2>4, <2>5, <2>6 DEF Sequential
  <2>8. ASSUME NEW i \in DOMAIN accepted', NEW j \in DOMAIN accepted', i < j
        PROVE  pc'[accepted'[i].call] \in Ended /\ accepted'[i].call # accepted'[j].call
    <3>1. i \in DOMAIN accepted
      BY <2>2, <2>8, HistoryFacts
    <3>2. CASE j \in DOMAIN accepted
      BY <2>2, <2>4, <2>5, <2>8, <3>1, <3>2 DEF Sequential
    <3>3. CASE j = n
      BY <2>2, <2>3, <2>4, <2>5, <3>1, <3>3
    <3> QED
      BY <2>2, <3>2, <3>3
  <2> QED
    BY <2>7, <2>8 DEF Sequential
<1>2. ASSUME NEW c \in Calls, Begin(c) \/ Step(c) \/ DropCall(c), accepted' = accepted
      PROVE  Sequential'
  <2>1. \A i \in DOMAIN accepted : accepted[i].call \in Calls
    BY HistoryFacts
  <2>2. /\ \A d \in Calls : pc[d] \in Ended => pc'[d] \in Ended
        /\ \A d \in Calls : Op[d] = "gossip" /\ pc[d] \in Handling \cup Ended
                              => pc'[d] \in Handling \cup Ended
    BY <1>2, StepFacts
  <2> QED
    BY <1>2, <2>1, <2>2 DEF Sequential, Handling
<1>3. ASSUME accepted' = accepted, pc' = pc PROVE Sequential'
  BY <1>3 DEF Sequential
<1>4. ASSUME NEW c \in Calls, Begin(c) \/ Step(c) \/ DropCall(c)
      PROVE  Sequential'
  <2>1. accepted' = accepted \/ (Dedup(c) /\ seen[MsgId[c]] = Never)
    BY <1>4 DEF Begin, Step, DropCall, Dedup, UpdatePeer, TakePending, Store, Lookup,
       BroadcastInsert, BroadcastToPeers, RemoveStale, Sweep
  <2> QED
    BY <1>1, <1>2, <1>4, <2>1
<1> QED
  BY <1>3, <1>4 DEF Next, RegisterPeer, UnregisterPeer, CleanupPeers, RequestSent, Tick

\* A message with something to store returns by storing it.
LEMMA LastStepStores ==
    ASSUME P2pTypeOK, Places, NEW c \in Calls, Begin(c) \/ Step(c) \/ DropCall(c),
           Op[c] = "gossip", pc[c] \in Handling, Stores(c, Nobody), pc'[c] = "done"
    PROVE  Store(c)
<1>1. ~Lookup(c)
  BY DEF Lookup, Places
<1>2. ~UpdatePeer(c)
  <2> SUFFICES ASSUME UpdatePeer(c) PROVE FALSE
    OBVIOUS
  <2>1. AfterUpdate(c) \in Positions /\ Move(c, AfterUpdate(c))
    BY AfterUpdateFacts DEF UpdatePeer, Positions, Ended
  <2>2. AfterUpdate(c) # "done"
    BY AfterUpdateFacts DEF UpdatePeer
  <2> QED
    BY <2>1, <2>2, MoveFacts
<1>3. ~DropCall(c)
  BY MoveFacts DEF DropCall, Positions, Ended
<1> QED
  BY <1>1, <1>2, <1>3 DEF Handling, Begin, Step, Dedup, TakePending, BroadcastInsert,
     BroadcastToPeers, RemoveStale, Sweep

\* An earlier message has ended and stores nothing any more; a later one ends by
\* storing, or by having nothing to store.
LEMMA OrderKept ==
    ASSUME P2pTypeOK, Places, Sequential, StoredInOrder, [Next]_vars
    PROVE  StoredInOrder'
<1> USE DEF vars, maps
<1>1. \A i \in DOMAIN accepted : accepted[i].call \in Calls /\ Op[accepted[i].call] = "gossip"
  BY HistoryFacts DEF Sequential
<1>2. ASSUME NEW c \in Calls, Dedup(c), seen[MsgId[c]] = Never
      PROVE  StoredInOrder'
  <2>1. /\ accepted' = Append(accepted, [call |-> c, at |-> now]) /\ cache' = cache
        /\ MoveHolding(c, "update", "seen")
    BY <1>2 DEF Dedup
  <2>2. PICK n \in Nat :
          /\ n \notin DOMAIN accepted /\ DOMAIN accepted' = DOMAIN accepted \cup {n}
          /\ \A i \in DOMAIN accepted : i < n /\ accepted'[i] = accepted[i]
          /\ accepted'[n] = [call |-> c, at |-> now]
    BY <2>1, AcceptedFacts
  <2>3. accepted'[n].call = c /\ pc'[c] = "update"
    BY <2>1, <2>2, MoveHoldingFacts DEF Positions, Locks
  <2>4. \A d \in Calls : d # c => pc'[d] = pc[d]
    BY <2>1, MoveHoldingFacts DEF Positions, Locks
  <2>5. ASSUME NEW i \in DOMAIN accepted', NEW j \in DOMAIN accepted', i < j,
               pc'[accepted'[j].call] = "done"
        PROVE  i \in DOMAIN accepted /\ j \in DOMAIN accepted /\ pc[accepted[j].call] = "done"
    BY <1>1, <2>2, <2>3, <2>4, <2>5, HistoryFacts
  <2> QED
    BY <2>1, <2>2, <2>5 DEF StoredInOrder
<1>3. ASSUME NEW c \in Calls, Begin(c) \/ Step(c) \/ DropCall(c), accepted' = accepted
      PROVE  StoredInOrder'
  <2>1. cache' = cache \/ (cache' = [cache EXCEPT ![Key(c)] = c] /\ (Store(c) \/ BroadcastInsert(c)))
    BY <1>3 DEF Begin, Step, DropCall, Dedup, UpdatePeer, TakePending, Store, Lookup,
       BroadcastInsert, BroadcastToPeers, RemoveStale, Sweep
  <2>2. ASSUME NEW i \in DOMAIN accepted, NEW j \in DOMAIN accepted, i < j,
               Key(accepted[i].call) = Key(accepted[j].call),
               Stores(accepted[j].call, Nobody), pc'[accepted[j].call] = "done"
        PROVE  cache'[Key(accepted[j].call)] # accepted[i].call
    <3> DEFINE earlier == accepted[i].call
               later == accepted[j].call
    <3>1. earlier \in Calls /\ later \in Calls /\ Op[later] = "gossip" /\ earlier # c
      BY <1>1, <1>3, <2>2, StepFacts DEF Sequential
    <3>2. pc[later] \in Handling \cup Ended
      BY DEF Sequential, Handling
    <3>3. CASE pc[later] = "done"
      <4>1. cache[Key(later)] # earlier
        BY <2>2, <3>3 DEF StoredInOrder
      <4> QED
        BY <2>1, <3>1, <4>1, CallFacts DEF P2pTypeOK
    <3>4. CASE pc[later] # "done"
      <4>1. later = c
        BY <1>3, <2>2, <3>1, <3>4, StepFacts
      <4>2. Store(c)
        <5>1. pc'[c] = "done" /\ pc[c] \in Handling /\ Stores(c, Nobody) /\ Op[c] = "gossip"
          BY <1>3, <2>2, <3>1, <3>2, <4>1, StepFacts
        <5> QED
          BY <1>3, <5>1, LastStepStores
      <4>3. cache'[Key(later)] = c
        BY <4>1, <4>2, CallFacts DEF Store, P2pTypeOK
      <4> QED
        BY <3>1, <4>3
    <3> QED
      BY <3>3, <3>4
  <2> QED
    BY <1>3, <2>2 DEF StoredInOrder
<1>4. ASSUME accepted' = accepted, pc' = pc, cache' = cache PROVE StoredInOrder'
  BY <1>4 DEF StoredInOrder
<1>5. ASSUME NEW c \in Calls, Begin(c) \/ Step(c) \/ DropCall(c)
      PROVE  StoredInOrder'
  <2>1. accepted' = accepted \/ (Dedup(c) /\ seen[MsgId[c]] = Never)
    BY <1>5 DEF Begin, Step, DropCall, Dedup, UpdatePeer, TakePending, Store, Lookup,
       BroadcastInsert, BroadcastToPeers, RemoveStale, Sweep
  <2> QED
    BY <1>2, <1>3, <1>5, <2>1
<1> QED
  BY <1>4, <1>5 DEF Next, RegisterPeer, UnregisterPeer, CleanupPeers, RequestSent, Tick

-----------------------------------------------------------------------------

\* What is accepted stays accepted.
LEMMA HistoryGrows ==
    ASSUME P2pTypeOK, [Next]_vars
    PROVE  /\ \A i \in DOMAIN accepted : i \in DOMAIN accepted' /\ accepted'[i] = accepted[i]
           /\ \A c \in Calls : Accepted(c) => Accepted(c)'
<1>1. \A i \in DOMAIN accepted : i \in DOMAIN accepted' /\ accepted'[i] = accepted[i]
  <2>1. CASE accepted' = accepted
    BY <2>1
  <2>2. ASSUME NEW c \in Calls, Dedup(c), seen[MsgId[c]] = Never
        PROVE  \A i \in DOMAIN accepted : i \in DOMAIN accepted' /\ accepted'[i] = accepted[i]
    <3>1. accepted' = Append(accepted, [call |-> c, at |-> now])
      BY <2>2 DEF Dedup
    <3> QED
      BY <3>1, AcceptedFacts
  <2> QED
    BY <2>1, <2>2 DEF Next, Begin, Step, DropCall, Dedup, UpdatePeer, TakePending, Store, Lookup,
       BroadcastInsert, BroadcastToPeers, RemoveStale, Sweep, RegisterPeer, UnregisterPeer,
       CleanupPeers, RequestSent, Tick, vars, maps
<1> QED
  BY <1>1 DEF Accepted

\* A gossip message comes into the hands of handle_gossipsub by being accepted.
LEMMA OnlyAcceptedAreHandled ==
    ASSUME P2pTypeOK, Places, NEW c \in Calls, Begin(c) \/ Step(c) \/ DropCall(c),
           Op[c] = "gossip", pc[c] \notin Handling
    PROVE  \/ pc'[c] \notin Handling /\ pc'[c] # "done"
           \/ Dedup(c)
<1>1. CASE Begin(c)
  BY <1>1, EntryFacts, MoveFacts DEF Begin, Positions, Handling
<1>2. CASE DropCall(c)
  BY <1>2, MoveFacts DEF DropCall, Positions, Ended, Handling
<1>3. CASE Step(c)
  BY <1>3 DEF Step, UpdatePeer, TakePending, Store, Lookup, BroadcastInsert, BroadcastToPeers,
     RemoveStale, Sweep, Places, Handling
<1> QED
  BY <1>1, <1>2, <1>3

LEMMA MarkedKept ==
    ASSUME P2pTypeOK, Places, Marked, [Next]_vars
    PROVE  Marked'
<1> USE DEF vars, maps
<1>1. /\ \A i \in DOMAIN accepted : i \in DOMAIN accepted' /\ accepted'[i] = accepted[i]
      /\ \A c \in Calls : Accepted(c) => Accepted(c)'
  BY HistoryGrows
<1>2. ASSUME NEW c \in Calls, Dedup(c), seen[MsgId[c]] = Never
      PROVE  /\ Accepted(c)'
             /\ \E n \in DOMAIN accepted' : MsgId[accepted'[n].call] = MsgId[c]
             /\ \A i \in Ids \ {MsgId[c]} : seen'[i] = seen[i]
  <2>1. accepted' = Append(accepted, [call |-> c, at |-> now])
    BY <1>2 DEF Dedup
  <2>2. PICK n \in DOMAIN accepted' : accepted'[n] = [call |-> c, at |-> now]
    BY <2>1, AcceptedFacts
  <2>3. accepted'[n].call = c
    BY <2>2
  <2>4. \A i \in Ids \ {MsgId[c]} : seen'[i] = seen[i]
    BY <1>2 DEF Dedup, P2pTypeOK
  <2> QED
    BY <2>3, <2>4 DEF Accepted
<1>3. ASSUME NEW c \in Calls, Op[c] = "gossip", pc'[c] \in Handling
      PROVE  Accepted(c)'
  <2>1. CASE pc[c] \in Handling
    BY <1>1, <1>3, <2>1 DEF Marked, Handling
  <2>2. CASE pc[c] \notin Handling
    <3>1. Begin(c) \/ Step(c) \/ DropCall(c)
      BY <1>3, <2>2, StepFacts DEF Next, RegisterPeer, UnregisterPeer, CleanupPeers,
         RequestSent, Tick
    <3>2. Dedup(c)
      BY <1>3, <2>2, <3>1, OnlyAcceptedAreHandled
    <3>3. CASE seen[MsgId[c]] = Never
      BY <1>2, <3>2, <3>3
    <3>4. CASE seen[MsgId[c]] # Never
      BY <1>3, <3>2, <3>4, MoveFacts DEF Dedup, Positions, Ended, Handling
    <3> QED
      BY <3>3, <3>4
  <2> QED
    BY <2>1, <2>2
<1>4. ASSUME NEW i \in Ids, seen'[i] # Never
      PROVE  \E n \in DOMAIN accepted' : MsgId[accepted'[n].call] = i
  <2>1. CASE seen[i] # Never
    BY <1>1, <2>1 DEF Marked
  <2>2. CASE seen[i] = Never
    <3>1. ASSUME NEW c \in Calls, Sweep(c) PROVE seen'[i] = Never
      BY <2>2, <3>1 DEF Sweep
    <3>2. PICK c \in Calls : Dedup(c) /\ seen[MsgId[c]] = Never
      BY <1>4, <2>2, <3>1 DEF Next, Begin, Step, DropCall, Dedup, UpdatePeer, TakePending, Store,
         Lookup, BroadcastInsert, BroadcastToPeers, RemoveStale, RegisterPeer, UnregisterPeer,
         CleanupPeers, RequestSent, Tick
    <3> QED
      BY <1>2, <1>4, <2>2, <3>2
  <2> QED
    BY <2>1, <2>2
<1> QED
  BY <1>3, <1>4 DEF Marked, Handling

\* An entry of the cache is replaced and never removed.
LEMMA CacheGrows ==
    ASSUME P2pTypeOK, [Next]_vars, NEW k \in Keys, cache[k] # Nobody
    PROVE  cache'[k] # Nobody
<1>1. ASSUME NEW c \in Calls, Store(c) \/ BroadcastInsert(c) PROVE cache'[k] # Nobody
  <2>1. cache' = [cache EXCEPT ![Key(c)] = c]
    BY <1>1 DEF Store, BroadcastInsert
  <2> QED
    BY <2>1, CallFacts DEF P2pTypeOK
<1>2. CASE cache' = cache
  BY <1>2
<1> QED
  BY <1>1, <1>2 DEF Next, Begin, Step, DropCall, Dedup, UpdatePeer, TakePending, Lookup,
     BroadcastToPeers, RemoveStale, Sweep, RegisterPeer, UnregisterPeer,
     CleanupPeers, RequestSent, Tick, vars, maps

LEMMA CachedKept ==
    ASSUME P2pTypeOK, Places, Sequential, Sequential', Cached, [Next]_vars
    PROVE  Cached'
<1> USE DEF vars, maps
<1> SUFFICES ASSUME NEW i \in DOMAIN accepted', pc'[accepted'[i].call] = "done",
                    Stores(accepted'[i].call, Nobody)
             PROVE  cache'[Key(accepted'[i].call)] # Nobody
  BY DEF Cached
<1>1. CASE i \in DOMAIN accepted
  <2> DEFINE copy == accepted[i].call
  <2>1. copy \in Calls /\ Op[copy] = "gossip" /\ pc[copy] \in Handling \cup Ended
    BY <1>1, HistoryFacts DEF Sequential, Handling
  <2>2. accepted'[i].call = copy
    BY <1>1, HistoryGrows
  <2> HIDE DEF copy
  <2>3. pc'[copy] = "done" /\ Stores(copy, Nobody)
    BY <2>2
  <2>4. CASE pc[copy] = "done"
    <3>1. cache[Key(copy)] # Nobody
      BY <1>1, <2>3, <2>4 DEF Cached, copy
    <3> QED
      BY <2>1, <2>2, <3>1, CacheGrows, CallFacts
  <2>5. CASE pc[copy] # "done"
    <3>1. Begin(copy) \/ Step(copy) \/ DropCall(copy)
      BY <2>1, <2>3, <2>5, StepFacts DEF Next, RegisterPeer, UnregisterPeer, CleanupPeers,
         RequestSent, Tick
    <3>2. pc[copy] \in Handling
      BY <2>1, <3>1, StepFacts
    <3>3. Store(copy)
      BY <2>1, <2>3, <3>1, <3>2, LastStepStores
    <3> QED
      BY <2>1, <2>2, <3>3, CallFacts DEF Store, P2pTypeOK
  <2> QED
    BY <2>4, <2>5
<1>2. CASE i \notin DOMAIN accepted
  <2>1. PICK c \in Calls : Dedup(c) /\ seen[MsgId[c]] = Never
    BY <1>2 DEF Next, Begin, Step, DropCall, Dedup, UpdatePeer, TakePending, Store, Lookup,
       BroadcastInsert, BroadcastToPeers, RemoveStale, Sweep, RegisterPeer, UnregisterPeer,
       CleanupPeers, RequestSent, Tick
  <2>2. accepted' = Append(accepted, [call |-> c, at |-> now])
    BY <2>1 DEF Dedup
  <2>3. accepted'[i] = [call |-> c, at |-> now]
    BY <1>2, <2>2, AcceptedFacts
  <2>4. pc'[c] = "update"
    BY <2>1, MoveHoldingFacts DEF Dedup, Positions, Locks
  <2> QED
    BY <2>3, <2>4
<1> QED
  BY <1>1, <1>2

\* A duplicate meets a mark and a free lock: the copy that was marked has ended.
LEMMA TurnedAwayKept ==
    ASSUME P2pTypeOK, Places, Sequential, Marked, TurnedAway, [Next]_vars
    PROVE  TurnedAway'
<1> USE DEF vars, maps
<1> SUFFICES ASSUME NEW c \in Calls, Op[c] = "gossip", pc'[c] = "done", ~Accepted(c)'
             PROVE  \E i \in DOMAIN accepted' : /\ MsgId[accepted'[i].call] = MsgId[c]
                                               /\ pc'[accepted'[i].call] \in Ended
  BY DEF TurnedAway
<1>1. /\ \A i \in DOMAIN accepted : i \in DOMAIN accepted' /\ accepted'[i] = accepted[i]
      /\ ~Accepted(c)
  BY HistoryGrows
<1>2. \E i \in DOMAIN accepted : MsgId[accepted[i].call] = MsgId[c] /\ pc[accepted[i].call] \in Ended
  <2>1. CASE pc[c] = "done"
    BY <1>1, <2>1 DEF TurnedAway
  <2>2. CASE pc[c] # "done"
    <3>1. Begin(c) \/ Step(c) \/ DropCall(c)
      BY <2>2, StepFacts DEF Next, RegisterPeer, UnregisterPeer, CleanupPeers, RequestSent, Tick
    <3>2. pc[c] \notin Handling
      BY <1>1 DEF Marked, Handling
    <3>3. Dedup(c)
      BY <3>1, <3>2, OnlyAcceptedAreHandled
    <3>4. seen[MsgId[c]] # Never
      BY <3>3, MoveHoldingFacts DEF Dedup, Positions, Locks
    <3>5. PICK i \in DOMAIN accepted : MsgId[accepted[i].call] = MsgId[c]
      BY <3>4, CallFacts DEF Marked
    <3>6. pc[accepted[i].call] \in Ended
      BY <3>3, FreeMeansHandled DEF Dedup
    <3> QED
      BY <3>5, <3>6
  <2> QED
    BY <2>1, <2>2
<1>3. \A d \in Calls : pc[d] \in Ended => pc'[d] \in Ended
  BY StepFacts DEF Next, RegisterPeer, UnregisterPeer, CleanupPeers, RequestSent, Tick
<1> QED
  BY <1>1, <1>2, <1>3, HistoryFacts

-----------------------------------------------------------------------------

\* The conjunction is inductive.
LEMMA StepKeeps == IInv /\ [Next]_vars => IInv'
<1> SUFFICES ASSUME IInv, [Next]_vars PROVE IInv'
  OBVIOUS
<1>1. P2pTypeOK' /\ Places'
  BY TypesKept, PlacesKept DEF IInv
<1>2. Remembered' /\ OncePerTtl'
  BY <1>1, RememberedKept DEF IInv
<1>3. Sequential' /\ StoredInOrder'
  BY SequentialKept, OrderKept DEF IInv
<1>4. Marked' /\ Cached' /\ TurnedAway'
  BY <1>3, MarkedKept, CachedKept, TurnedAwayKept DEF IInv
<1> QED
  BY <1>1, <1>2, <1>3, <1>4 DEF IInv

LEMMA Invariance == Spec => []IInv
<1>1. IInv /\ [Next]_vars => IInv'
  BY StepKeeps
<1> QED
  BY InitHolds, <1>1, PTL DEF Spec

\* Every state of the handler has its types, and the guards are where the code
\* keeps them.
THEOREM TypeCorrect == Spec => []P2pTypeOK
<1>1. IInv => P2pTypeOK
  BY DEF IInv
<1> QED
  BY <1>1, Invariance, PTL

\* handle_gossipsub accepts an id at most once in a time to live, whatever clean-ups
\* run beside it.
THEOREM DuplicatesAreIgnored == Spec => []OncePerTtl
<1>1. IInv => OncePerTtl
  BY DEF IInv
<1> QED
  BY <1>1, Invariance, PTL

\* Gossip about one resource is stored in the order in which it was accepted.
THEOREM LaterGossipPrevails == Spec => []StoredInOrder
<1>1. IInv => StoredInOrder
  BY DEF IInv
<1> QED
  BY <1>1, Invariance, PTL

\* handle_gossipsub turns a duplicate away only when the copy it marked is no longer
\* being handled, and then what that copy carried is cached unless it was dropped.
THEOREM DuplicatesFindTheirContent == Spec => []DuplicatesWereHandled
<1>1. IInv => DuplicatesWereHandled
  BY DEF IInv, TurnedAway, Cached, DuplicatesWereHandled
<1> QED
  BY <1>1, Invariance, PTL

\* A call that needs no lock that is held can go on.
LEMMA SomeCallGoesOn ==
    ASSUME P2pTypeOK, Places,
           NEW w \in Calls, pc[w] \notin {"idle"} \cup Ended,
           ~Deadlocked
    PROVE  \E c \in Calls : /\ pc[c] \notin {"idle"} \cup Ended
                            /\ \A l \in Locks : Needs(c, l) => Free(l)
<1> USE DEF Locks, Needs, Free, Ended
<1>1. \A c \in Calls : Guarding(c)
  BY DEF P2pTypeOK
<1>2. \A l \in Locks : held[l] \in Calls \cup {Nobody}
  BY DEF P2pTypeOK
<1>3. CASE Free("seen") /\ ~Free("peers")
  <2>1. held["peers"] \in Calls /\ pc[held["peers"]] = "sweep"
    BY <1>1, <1>2, <1>3 DEF Guarding
  <2> QED
    BY <1>3, <2>1
<1>4. CASE Free("peers") /\ ~Free("cache")
  <2>1. held["cache"] \in Calls /\ pc[held["cache"]] = "peers"
    BY <1>1, <1>2, <1>4 DEF Guarding
  <2> QED
    BY <1>4, <2>1
<1>5. CASE ~Free("seen")
  <2>1. /\ held["seen"] \in Calls
        /\ pc[held["seen"]] \in {"update", "process", "store", "lookup"}
    BY <1>1, <1>2, <1>5 DEF Guarding
  <2>2. CASE ~Free("peers")
    <3>1. held["peers"] \in Calls /\ pc[held["peers"]] = "sweep"
      BY <1>1, <1>2, <2>2 DEF Guarding
    <3>2. pc[held["seen"]] \in {"store", "lookup"} /\ Free("cache")
      BY <2>1, <3>1 DEF Deadlocked
    <3> QED
      BY <2>1, <3>2
  <2>3. CASE Free("peers") /\ Free("cache")
    BY <2>1, <2>3
  <2> QED
    BY <1>4, <2>2, <2>3
<1>6. CASE Free("seen") /\ Free("peers") /\ Free("cache")
  BY <1>6
<1> QED
  BY <1>3, <1>4, <1>5, <1>6

\* The calls block each other in no other way than gossip and a clean-up do.
THEOREM LocksBlockOnlyCleanups == Spec => []OnlyCleanupDeadlocks
<1>1. IInv => OnlyCleanupDeadlocks
  BY SomeCallGoesOn DEF IInv, OnlyCleanupDeadlocks
<1> QED
  BY <1>1, Invariance, PTL

-----------------------------------------------------------------------------
(* The manager. *)

LEMMA ConfigFacts ==
    NoSend \notin Sends /\ Enabled \subseteq Transports /\ MaxPending \in Nat \ {0}
BY ManagerAssumption DEF ValidConfig

\* The lock is with the one send that is at a transport.
LockHeld ==
    /\ \A c \in Sends : at[c] \in Transports => sending = c
    /\ sending # NoSend => at[sending] \in Transports

\* Only a send that succeeded has published, through one transport.
OnlySuccessPublishes ==
    \A c \in Sends :
        IF at[c] = "done" /\ result[c] = "ok"
        THEN \E t \in Enabled : published[c] = {t}
        ELSE published[c] = {}

ManagerInv == ManagerTypeOK /\ LockHeld /\ OnlySuccessPublishes /\ CountIsExact

LEMMA InitInv == ManagerInit => ManagerInv
BY ConfigFacts DEF ManagerInit, ManagerInv, ManagerTypeOK, LockHeld, OnlySuccessPublishes, CountIsExact, Transports

-----------------------------------------------------------------------------
(* One lemma per step of a send. *)

LEMMA SendInv == ASSUME ManagerInv, NEW c \in Sends, Send(c) PROVE ManagerInv'
BY ConfigFacts
   DEF Send, Goto, ManagerInv, ManagerTypeOK, LockHeld, OnlySuccessPublishes, CountIsExact, Transports

LEMMA CheckInv == ASSUME ManagerInv, NEW c \in Sends, Check(c) PROVE ManagerInv'
BY ConfigFacts
   DEF Check, Ends, Goto, ManagerInv, ManagerTypeOK, LockHeld, OnlySuccessPublishes, CountIsExact, Transports

LEMMA EnterInv == ASSUME ManagerInv, NEW c \in Sends, Enter(c) PROVE ManagerInv'
BY ConfigFacts
   DEF Enter, Goto, ManagerInv, ManagerTypeOK, LockHeld, OnlySuccessPublishes, CountIsExact, Transports

\* A send at a transport has the lock, so it is counted and the count is positive.
LEMMA Counted ==
    ASSUME ManagerInv, NEW c \in Sends, at[c] \in Transports
    PROVE  sending = c /\ sending # NoSend /\ counter = leaked + 1
BY ConfigFacts DEF ManagerInv, ManagerTypeOK, LockHeld, CountIsExact

\* A fact the backends need spelled out.
LEMMA AddZero == \A n \in Nat : n + 0 = n
OBVIOUS

LEMMA PublishInv == ASSUME ManagerInv, NEW c \in Sends, NEW t \in Enabled, Publish(c, t) PROVE ManagerInv'
<1>1. at[c] \in Transports /\ at[c] # "done"
  BY ConfigFacts DEF Publish, Transports
<1>2. counter' = leaked' /\ sending' = NoSend /\ counter' \in Nat
  BY <1>1, Counted DEF Publish, Leave, ManagerInv, ManagerTypeOK
<1>3. ManagerTypeOK'
  BY <1>2, ConfigFacts DEF Publish, Leave, Ends, Goto, ManagerInv, ManagerTypeOK
<1>4. LockHeld'
  BY <1>1, <1>2, ConfigFacts, Counted
     DEF Publish, Leave, Ends, Goto, ManagerInv, ManagerTypeOK, LockHeld, Transports
<1>5. OnlySuccessPublishes'
  BY <1>1 DEF Publish, Leave, Ends, Goto, ManagerInv, ManagerTypeOK, OnlySuccessPublishes
<1>6. CountIsExact'
  <2>1. leaked' \in Nat
    BY <1>3 DEF ManagerTypeOK
  <2>2. leaked' + 0 = leaked'
    BY <2>1, AddZero
  <2> QED BY <1>2, <2>2, Zenon DEF CountIsExact
<1> QED BY <1>3, <1>4, <1>5, <1>6 DEF ManagerInv

LEMMA PublishFailsInv ==
    ASSUME ManagerInv, NEW c \in Sends, NEW t \in Enabled, PublishFails(c, t)
    PROVE  ManagerInv'
<1>1. at[c] \in Transports /\ at[c] # "done"
  BY ConfigFacts DEF PublishFails, Transports
<1>2. sending = c /\ sending # NoSend /\ counter = leaked + 1
  BY <1>1, Counted
<1>3. CASE t = "web" /\ "rtc" \in Enabled
  BY <1>1, <1>2, <1>3, ConfigFacts
     DEF PublishFails, Goto, ManagerInv, ManagerTypeOK, LockHeld, OnlySuccessPublishes, CountIsExact, Transports
<1>4. CASE ~(t = "web" /\ "rtc" \in Enabled)
  <2>1. counter' = leaked' /\ sending' = NoSend /\ counter' \in Nat
    BY <1>2, <1>4 DEF PublishFails, Leave, ManagerInv, ManagerTypeOK
  <2>2. ManagerTypeOK'
    BY <1>4, <2>1 DEF PublishFails, Leave, Ends, Goto, ManagerInv, ManagerTypeOK
  <2>3. LockHeld'
    BY <1>1, <1>2, <1>4, <2>1
       DEF PublishFails, Leave, Ends, Goto, ManagerInv, ManagerTypeOK, LockHeld, Transports
  <2>4. OnlySuccessPublishes'
    BY <1>1, <1>4 DEF PublishFails, Leave, Ends, Goto, ManagerInv, ManagerTypeOK, OnlySuccessPublishes
  <2>5. CountIsExact'
    <3>1. leaked' \in Nat
      BY <2>2 DEF ManagerTypeOK
    <3>2. leaked' + 0 = leaked'
      BY <3>1, AddZero
    <3> QED BY <2>1, <3>2, Zenon DEF CountIsExact
  <2> QED BY <2>2, <2>3, <2>4, <2>5 DEF ManagerInv
<1> QED BY <1>3, <1>4

LEMMA CancelInv == ASSUME ManagerInv, NEW c \in Sends, Cancel(c) PROVE ManagerInv'
<1>1. ManagerTypeOK'
  BY DEF Cancel, Goto, ManagerInv, ManagerTypeOK
<1>2. LockHeld'
  BY DEF Cancel, Goto, Active, ManagerInv, ManagerTypeOK, LockHeld, Transports
<1>3. OnlySuccessPublishes'
  BY DEF Cancel, Goto, Active, ManagerInv, ManagerTypeOK, OnlySuccessPublishes, Transports
<1>4. CountIsExact'
  BY ConfigFacts DEF Cancel, ManagerInv, ManagerTypeOK, CountIsExact
<1> QED BY <1>1, <1>2, <1>3, <1>4 DEF ManagerInv

LEMMA NextInv == ManagerInv /\ [ManagerNext]_managerVars => ManagerInv'
<1> SUFFICES ASSUME ManagerInv, [ManagerNext]_managerVars PROVE ManagerInv' OBVIOUS
<1>1. ASSUME NEW c \in Sends, Send(c) \/ SendStep(c) \/ Cancel(c) PROVE ManagerInv'
  BY <1>1, SendInv, CheckInv, EnterInv, PublishInv, PublishFailsInv, CancelInv DEF SendStep
<1>2. ASSUME NEW t \in Transports, StartNext(t) PROVE ManagerInv'
  BY <1>2 DEF StartNext, ManagerInv, ManagerTypeOK, LockHeld, OnlySuccessPublishes, CountIsExact
<1>3. CASE StartEnds
  BY <1>3 DEF StartEnds, ManagerInv, ManagerTypeOK, LockHeld, OnlySuccessPublishes, CountIsExact
<1>4. CASE Shutdown
  BY <1>4 DEF Shutdown, ManagerInv, ManagerTypeOK, LockHeld, OnlySuccessPublishes, CountIsExact
<1>5. CASE UNCHANGED managerVars
  BY <1>5 DEF managerVars, ManagerInv, ManagerTypeOK, LockHeld, OnlySuccessPublishes, CountIsExact
<1> QED BY <1>1, <1>2, <1>3, <1>4, <1>5 DEF ManagerNext

-----------------------------------------------------------------------------

\* The invariant that the results below rest on.
THEOREM ManagerInvariance == ManagerSpec => []ManagerInv
BY InitInv, NextInv, PTL DEF ManagerSpec

\* Every state is well typed; the counter, a usize, never falls below zero.
THEOREM ManagerTypeCorrect == ManagerSpec => []ManagerTypeOK
BY ManagerInvariance, PTL DEF ManagerInv

\* The counter is the send in progress and the sends that were dropped, however
\* sends fail, are dropped or meet a shutdown (lib.rs:116, 171, 175).
THEOREM CounterNeverDrifts == ManagerSpec => []CountIsExact
BY ManagerInvariance, PTL DEF ManagerInv

\* A failed send published nothing, a successful one once (lib.rs:186-216).
THEOREM FallbackPublishesOnce == ManagerSpec => []PublishedOnce
<1>1. ManagerInv => PublishedOnce
  <2> SUFFICES ASSUME ManagerInv, NEW c \in Sends
               PROVE  /\ Cardinality(published[c]) <= 1
                      /\ at[c] = "done" => (result[c] = "ok" <=> published[c] # {})
    BY DEF PublishedOnce
  <2>1. published[c] = {} \/ \E t \in Enabled : published[c] = {t}
    BY DEF ManagerInv, OnlySuccessPublishes
  <2>2. published[c] = {} => Cardinality(published[c]) <= 1
    BY FS_EmptySet
  <2>3. ASSUME NEW t \in Enabled, published[c] = {t}
        PROVE  Cardinality(published[c]) <= 1
    BY <2>3, FS_Singleton
  <2> QED BY <2>1, <2>2, <2>3 DEF ManagerInv, OnlySuccessPublishes
<1> QED BY <1>1, ManagerInvariance, PTL

\* Without dropped sends nobody is ever refused: the limit only ever shows the
\* sends that were dropped (lib.rs:160, 171).
THEOREM LimitOnlyCountsLeaks == ManagerSpec => RefusedByLeaks
<1>1. ASSUME ManagerInv, [ManagerNext]_managerVars, NEW c \in Sends,
             result[c] = "none", result'[c] = "limit"
      PROVE  leaked >= MaxPending
  <2>1. PICK d \in Sends : Check(d) /\ counter >= MaxPending
    BY <1>1 DEF ManagerNext, SendStep, Send, Check, Enter, Publish, PublishFails, Cancel, StartNext, StartEnds,
                Shutdown, Leave, Ends, Goto, managerVars, ManagerInv, ManagerTypeOK
  <2> QED BY <1>1, <2>1, ConfigFacts DEF Check, ManagerInv, CountIsExact, ManagerTypeOK
<1>2. ManagerInv /\ [ManagerNext]_managerVars
      => [\A c \in Sends :
            result[c] = "none" /\ result'[c] = "limit" => leaked >= MaxPending]_managerVars
  BY <1>1
<1> QED BY <1>2, ManagerInvariance, PTL DEF ManagerSpec, RefusedByLeaks

=============================================================================
