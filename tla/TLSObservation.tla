--------------------------- MODULE TLSObservation ---------------------------
(***************************************************************************)
(* internal/tlsobservation: one hostname-free TLS handshake.               *)
(***************************************************************************)
EXTENDS DirectProbe

CONSTANT LeafOrders  \* how the dates of a certificate may lie: "before", "same"

Locals == DirectLocals({})
Init == Start(Locals)

Reasons == {"timeout", "connection_closed", "connection_reset",
            "handshake_failure", "exchange_failure"}

\* HandshakeContext returns the error of a context that ended; as a reason a
\* cancellation is any other failure.
ContextReason == IF attempt = "deadline" THEN "timeout" ELSE "handshake_failure"

\* classifyUnconfirmedReason of what the peer or the connection did.
HandshakeFails ==
  /\ phase = "exchange"
  /\ \E reason \in {"connection_closed", "connection_reset", "handshake_failure"} :
       Exchanged("peer", Unconfirmed(reason, {}))

HandshakeEnds ==
  /\ phase = "exchange"
  /\ \/ local.conn = "expired" /\ Exchanged("own", Unconfirmed("timeout", {}))
     \/ Ended(attempt) /\ Exchanged("own", Unconfirmed(ContextReason, {}))

\* completedTLS refuses a state without a certificate or with a server name; the
\* dates of the leaf are copied as they are.
HandshakeCompletes ==
  /\ phase = "exchange"
  /\ \/ Exchanged("peer", Unconfirmed("exchange_failure", {}))
     \/ \E order \in LeafOrders : Exchanged("peer", Confirmed([dates |-> order], {}))

Observe == DirectStep \/ HandshakeFails \/ HandshakeEnds \/ HandshakeCompletes

Progress == DirectProgress \/ HandshakeEnds
Spec == Init /\ [][Observe \/ CallerEnds]_vars /\ WF_vars(Progress)

\* tlsobservation.Validate.
ValidResult(r) ==
  /\ ValidDirect(r, Reasons)
  /\ \A e \in r.evidence : \A leaf \in e.found : leaf.dates = "before"
=============================================================================
