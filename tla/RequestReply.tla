--------------------------- MODULE RequestReply ----------------------------
(***************************************************************************)
(* What TransportHandle::send promises, whatever the transport does:       *)
(* a message reaches the peer at most once, and a request returns an error *)
(* or the reply to a request that carries its id, its own if ids are not   *)
(* shared, and that the peer received.  Delivery may happen after the      *)
(* caller gave up or got an error.                                         *)
(***************************************************************************)
EXTENDS Transport

VARIABLES
    phase,      \* phase[c]: the progress of the caller of c
    delivered,  \* delivered[c]: how often the peer received the message of c
    result      \* result[c]: what send returned

vars == <<phase, delivered, result>>

Init ==
    /\ phase = [c \in Calls |-> "idle"]
    /\ delivered = [c \in Calls |-> 0]
    /\ result = [c \in Calls |-> Unresolved]

Start(c) ==
    /\ phase[c] = "idle"
    /\ phase' = [phase EXCEPT ![c] = "active"]
    /\ UNCHANGED <<delivered, result>>

Deliver(c) ==
    /\ phase[c] # "idle"
    /\ Kind[c] # "other"
    /\ delivered[c] = 0
    /\ delivered' = [delivered EXCEPT ![c] = 1]
    /\ UNCHANGED <<phase, result>>

Permitted(c) ==
    Failures
    \cup {Reply(d) : d \in {e \in Calls : /\ Kind[c] = "request" /\ Kind[e] = "request"
                                         /\ IdOf[e] = IdOf[c] /\ delivered[e] = 1}}
    \cup {r \in {Nil} : Kind[c] = "notification"}

Return(c) ==
    /\ phase[c] = "active"
    /\ phase' = [phase EXCEPT ![c] = "done"]
    /\ \E r \in Permitted(c) : result' = [result EXCEPT ![c] = r]
    /\ UNCHANGED delivered

Cancel(c) ==
    /\ phase[c] = "active"
    /\ phase' = [phase EXCEPT ![c] = "cancelled"]
    /\ UNCHANGED <<delivered, result>>

Next == \E c \in Calls : Start(c) \/ Deliver(c) \/ Return(c) \/ Cancel(c)

Spec == Init /\ [][Next]_vars

=============================================================================
