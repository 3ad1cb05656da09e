------------------------------ MODULE JsonRpc -------------------------------
(***************************************************************************)
(* JsonRpcMessage of mcp-core (protocol.rs): what a message of one side    *)
(* becomes on the other.  Serialisation is untagged, it writes the fields  *)
(* that are Some and nothing of the variant; JsonRpcRaw reads the fields   *)
(* back, and try_from guesses the variant from those it finds.             *)
(*                                                                         *)
(* A message is its variant, the optional or telling fields it has, and    *)
(* which of these hold the JSON value null: Some(Null) is written, but an  *)
(* Option reads a null as None.                                            *)
(***************************************************************************)

Fields == {"id", "method", "params", "result", "error"}

\* The fields each variant must and may have.
Required(v) == CASE v \in {"Request", "Notification"} -> {"method"}
                 [] v = "Error" -> {"error"}
                 [] OTHER -> {}
Optional(v) == CASE v = "Request" -> {"id", "params"}
                 [] v = "Notification" -> {"params"}
                 [] v = "Response" -> {"id", "result", "error"}
                 [] v = "Error" -> {"id"}
                 [] OTHER -> {}
Variants == {"Request", "Response", "Notification", "Error", "Nil"}

Message(v, fields, nulls) == [variant |-> v, fields |-> fields, nulls |-> nulls]

\* Only params and result are arbitrary JSON values.
JsonRpcMessages ==
    {m \in [variant : Variants, fields : SUBSET Fields, nulls : SUBSET {"params", "result"}] :
        /\ Required(m.variant) \subseteq m.fields
        /\ m.fields \subseteq Required(m.variant) \cup Optional(m.variant)
        /\ m.nulls \subseteq m.fields}

\* Serialize: Nil becomes null, every other variant an object.
NotAnObject == {"null"}
Encode(m) == IF m.variant = "Nil" THEN NotAnObject ELSE m.fields \ m.nulls

\* No variant: the line does not parse.
Rejected == Message("Rejected", {}, {})

Taken(F, v) == Message(v, F \cap (Required(v) \cup Optional(v)), {})

\* JsonRpcRaw and try_from, in its order; what is not an object has failed before.
Decode(F) ==
    IF F = NotAnObject THEN Rejected
    ELSE IF "error" \in F THEN Taken(F, "Error")
    ELSE IF "result" \in F THEN Taken(F, "Response")
    ELSE IF "method" \in F THEN Taken(F, IF "id" \in F THEN "Request" ELSE "Notification")
    ELSE IF "id" \in F THEN Rejected
    ELSE Taken(F, "Nil")

AsReceived(m) == Decode(Encode(m))

\* What Server::run hands to the service, and what the client's transports hand
\* to a caller.
Served(m) == m.variant = "Request"
Placed(m) == m.variant \in {"Response", "Error"} /\ "id" \in m.fields

=============================================================================
