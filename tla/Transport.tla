----------------------------- MODULE Transport -----------------------------
(***************************************************************************)
(* What the stdio and the SSE transport of mcp-client share                *)
(* (crates/mcp-client/src/transport/mod.rs): the messages callers hand to  *)
(* TransportHandle::send, the outcome of a call, and the PendingRequests   *)
(* table that pairs a reply with the oneshot sender of its request.        *)
(*                                                                         *)
(* A call is one invocation of TransportHandle::send; it stands for its    *)
(* message and for its oneshot channel at once.                            *)
(***************************************************************************)
EXTENDS Naturals, Sequences

CONSTANTS
    Calls,      \* the invocations of send
    NoCall,     \* "nothing here": an empty slot, or the addressee of a failure
    Ids,        \* JSON-RPC ids
    Kind,       \* Kind[c]: the variant of JsonRpcMessage that call c sends
    IdOf,       \* IdOf[c]: the id of the request that call c sends
    Capacity    \* the capacity of the mpsc channel to the actor (32 in the code)

\* An "anonymous" request has no id; "other" is every variant send refuses.
Kinds == {"request", "anonymous", "notification", "other"}

ASSUME TransportAssumption ==
    /\ NoCall \notin Calls
    /\ Kind \in [Calls -> Kinds]
    /\ IdOf \in [Calls -> Ids]
    /\ Capacity \in Nat \ {0}

\* No other request on this transport carries the id of c.  A client counts its
\* ids up, but clones of a handle can be given to several clients.
OwnId(c) == \A d \in Calls : Kind[d] = "request" /\ IdOf[d] = IdOf[c] => d = c

-----------------------------------------------------------------------------
(* Outcomes: what the oneshot holds, and what send returns. *)

Outcome(tag, to) == [tag |-> tag, to |-> to]

\* The message the peer sent in answer to the request of call d.
Reply(d) == Outcome("reply", d)
Unresolved == Outcome("unresolved", NoCall)
Nil == Outcome("nil", NoCall)

Closed == Outcome("ChannelClosed", NoCall)
ProcessError == Outcome("StdioProcessError", NoCall)
NotConnected == Outcome("NotConnected", NoCall)
Unsupported == Outcome("UnsupportedMessage", NoCall)
Failures == {Closed, ProcessError, NotConnected, Unsupported}

Outcomes == {Reply(d) : d \in Calls} \cup Failures \cup {Unresolved, Nil}

-----------------------------------------------------------------------------
(* PendingRequests: a map from ids to oneshot senders. *)

NoPending == [i \in Ids |-> NoCall]

Senders(table) == {c \in Calls : \E i \in Ids : table[i] = c}

\* Resolving a set of oneshots with one outcome; a call that was resolved or
\* whose receiver is gone does not notice.
Resolve(answer, S, outcome) ==
    [c \in Calls |-> IF c \in S /\ answer[c] = Unresolved THEN outcome ELSE answer[c]]

\* HashMap::insert: a sender already filed under the id is dropped.
Displaced(table, c) == {table[IdOf[c]]} \ {c}
InsertPending(table, c) == [table EXCEPT ![IdOf[c]] = c]

\* Fault: a lookup that removes nothing.
RemoveKeepsEntry(table, i) == table

RemovePending(table, i) == [table EXCEPT ![i] = NoCall]

=============================================================================
