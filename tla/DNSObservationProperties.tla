---------------------- MODULE DNSObservationProperties ----------------------
(***************************************************************************)
(* What must hold of one DNS observation.                                  *)
(***************************************************************************)
EXTENDS DNSObservation

\* validateInputContract: which inputs go with which failure.
ValidInput(r, input) ==
  LET strict == r.code # "invalid_input"
      named == r.outcome = "succeeded"
                 \/ r.code \in {"dns_transport_failure", "dns_protocol_failure", "doh_rule_failure"}
  IN /\ input.hostname # "unstable"
     /\ strict =>
          /\ input.hostname = "valid"
          /\ input.type # "unknown"
          /\ input.transport # "unknown"
          /\ input.resolver # ""
          /\ named => input.endpoint
          /\ input.endpoint => (input.transport = "doh") = (input.resolver = "doh")

ValidResult(r) ==
  /\ ValidEnvelope(r)
  /\ r.code \in {"none", "invalid_input", "timeout", "cancelled",
                 "dns_transport_failure", "dns_protocol_failure", "doh_rule_failure"}
  /\ \A input \in r.input :
       /\ ValidInput(r, input)
       /\ \A e \in r.evidence : ValidEvidence(e, input.type)

\* Every Result satisfies the package's own Validate: what the decoder, the CNAME
\* walk and the classification agree on is what Validate recomputes, and the
\* endpoint is in the input whenever a failure names the resolver.
EmittedResultValid == Returned => ValidResult(result)

\* The paths along the aliases of records from the name asked for, without a
\* repetition: the reference for followCNAMEs.
AliasPaths(records) ==
  LET Mentioned == {Hostname} \cup {records[k].name : k \in Aliases(records)}
                            \cup {records[k].target : k \in Aliases(records)}
      Paths == UNION {[1..n -> Mentioned] : n \in 1..(Len(records) + 1)}
  IN {p \in Paths :
        /\ p[1] = Hostname
        /\ \A i, j \in DOMAIN p : p[i] = p[j] => i = j
        /\ \A i \in 1..(Len(p) - 1) : p[i] \in Owners(records) /\ TargetOf(records, p[i]) = p[i + 1]}

\* The effective name is the end of the longest path without a repetition, and an
\* observation that is not incomplete saw no loop, no second target for a name, no
\* truncation and no damage: dnshttpspath builds its chain on this.
ChainEndIsReached ==
  \A e \in result.evidence :
    LET paths == AliasPaths(e.records)
        longest == CHOOSE p \in paths : \A q \in paths : Len(q) <= Len(p)
    IN /\ e.effective = longest[Len(longest)]
       /\ e.kind # "incomplete" =>
            /\ e.effective \notin Owners(e.records)
            /\ \A j, k \in Aliases(e.records) :
                 e.records[j].name = e.records[k].name => e.records[j].target = e.records[k].target
            /\ \A r \in local.response : ~r.truncated /\ ~r.damaged

\* The probe closes its connection itself when its context ends; the error the
\* read then returns is never reported as a failure of the network.
OwnCloseNotBlamed ==
  Returned /\ result.code = "dns_transport_failure"
    => \A e \in local.error : e.cause # "own"

\* Once the attempt has ended Observe returns, whatever the server does, and does
\* not report the answer that came late.
EndedAttemptReturns ==
  Ended(attempt) /\ ~Returned ~> Returned /\ result.outcome # "succeeded"
=============================================================================
