------------------------ MODULE DNSHTTPSPathProperties ------------------------
(***************************************************************************)
(* The properties of dnshttpspath.Observe.  Validate, the package's own    *)
(* contract, is translated on its own; it recomputes the chain, the        *)
(* bindings and the targets from the HTTPS observations.                   *)
(***************************************************************************)
EXTENDS DNSHTTPSPath

LastHTTPS == https[Len(https)]

\* The names of the observed chain.
QueriedNames ==
  {https[i].host : i \in DOMAIN https}
  \cup {https[i].effective : i \in {j \in DOMAIN https : https[j].outcome = "succeeded"}}

\* validateTerminalShape.
ValidShape ==
  \/ result.status = "completed" /\ result.completion \in CompletionKinds /\ result.reason = "none"
  \/ result.status = "stopped" /\ result.completion = "none"
     /\ result.reason \in StopReasons \ {"cancelled"}
  \/ result.status = "cancelled" /\ result.completion = "none" /\ result.reason = "cancelled"

\* Nothing was observed.
ValidWithoutEvidence ==
  /\ followed = 0 /\ omitted = 0
  /\ result.status # "completed"
  /\ result.status = "stopped" => result.reason \in {"path_timeout", "invalid_probe_evidence"}

\* Every observation but the last leads to the next one; a followed alias that
\* was not observed explains itself.
ValidChain ==
  /\ followed \in {Len(https) - 1, Len(https)}
  /\ followed = Len(https) =>
       /\ result.status # "completed"
       /\ result.reason \in {"cancelled", "path_timeout", "invalid_probe_evidence"}
  /\ https[1].host = Origin
  /\ \A i \in DOMAIN https : https[i].adapter = https[1].adapter
  /\ \A i \in 1 .. Len(https) - 1 :
       /\ https[i].outcome = "succeeded" /\ https[i].complete
       /\ https[i].alias = https[i + 1].host

\* validateStopEvidence.
ValidStopEvidence ==
  /\ result.reason = "dns_observation_failed" =>
       (\E i \in DOMAIN https : Failed(https[i])) \/ Holds(targets, Failed)
  /\ result.reason = "dns_observation_incomplete" =>
       (\E i \in DOMAIN https : Incomplete(https[i])) \/ Holds(targets, Incomplete)
  /\ result.reason \in {"alias_loop", "alias_limit"} =>
       /\ LastHTTPS.outcome = "succeeded"
       /\ LastHTTPS.alias \notin {NoAlias, Root}
       /\ result.reason = "alias_loop" => LastHTTPS.alias \in QueriedNames
       /\ result.reason = "alias_limit" => LastHTTPS.alias \notin QueriedNames /\ followed = AliasLimit

ExpectedDecisions ==
  IF LastHTTPS.alias = NoAlias THEN Decisions(LastHTTPS.services) ELSE <<>>

AllTargets ==
  IF LastHTTPS.alias # NoAlias THEN <<>>
  ELSE IF LastHTTPS.services # <<>> THEN ServiceTargets(ExpectedDecisions)
  ELSE IF LastHTTPS.effective = Root THEN <<>>
  ELSE <<[host |-> LastHTTPS.effective, source |-> Fallback, priority |-> 0, observations |-> <<>>]>>

ExpectedOmitted ==
  LET total == Len(AllTargets)
  IN  IF total > ServiceTargetLimit THEN total - ServiceTargetLimit ELSE 0

\* validateAddressTargets.
ValidTargets ==
  LET all == AllTargets
  IN  /\ Len(targets) = Len(all) - ExpectedOmitted
      /\ \A t \in DOMAIN targets :
           /\ targets[t].host = all[t].host
           /\ targets[t].source = all[t].source
           /\ targets[t].priority = all[t].priority
           /\ Len(targets[t].observations) <= 2
           /\ \A k \in DOMAIN targets[t].observations :
                /\ targets[t].observations[k].host = targets[t].host
                /\ targets[t].observations[k].adapter = https[1].adapter
           /\ result.status = "completed" =>
                /\ Len(targets[t].observations) = 2
                /\ \A k \in 1 .. 2 : targets[t].observations[k].outcome = "succeeded"
                                     /\ targets[t].observations[k].complete

\* validateCompletion.
ValidCompletion ==
  CASE result.completion = "service_mode" ->
         LastHTTPS.alias = NoAlias /\ Usable(ExpectedDecisions) # {} /\ targets # <<>>
    [] result.completion = "unsupported_service_mode" ->
         /\ LastHTTPS.alias = NoAlias /\ LastHTTPS.services # <<>>
         /\ Usable(ExpectedDecisions) = {} /\ targets = <<>>
    [] result.completion = "service_unavailable" ->
         (LastHTTPS.effective = Root \/ LastHTTPS.alias = Root) /\ targets = <<>>
    [] OTHER ->
         /\ result.completion = Fallback /\ LastHTTPS.alias = NoAlias /\ LastHTTPS.services = <<>>
         /\ Len(targets) = 1 /\ targets[1].source = Fallback

\* What Validate says of the conclusion, whatever the request was.
ValidConclusion ==
  /\ ValidShape
  /\ IF result.reason = "invalid_input"
     THEN https = <<>> /\ bindings = <<>> /\ targets = <<>> /\ followed = 0 /\ omitted = 0
     ELSE IF https = <<>> THEN ValidWithoutEvidence
     ELSE /\ followed \in 0 .. AliasLimit
          /\ ValidChain
          /\ IF LastHTTPS.outcome # "succeeded" \/ Incomplete(LastHTTPS)
             THEN /\ result.status # "completed"
                  /\ bindings = <<>> /\ targets = <<>> /\ omitted = 0
                  /\ ValidStopEvidence
             ELSE /\ bindings = ExpectedDecisions
                  /\ omitted = ExpectedOmitted
                  /\ ValidTargets
                  /\ IF result.status = "completed" THEN ValidCompletion ELSE ValidStopEvidence

\* Validate.  It normalizes the request again, which must leave it as it is.
ValidResult ==
  /\ request # "unstable"
  /\ result.reason = "invalid_input" <=> request = "invalid"
  /\ ValidConclusion

\* Whatever the DNS observer returns and wherever the path is cut, the Result of
\* Observe satisfies the package's Validate.
EmittedResultValid == Returned => ValidResult

\* No name of the chain, whether it was asked for or a CNAME led there, is ever
\* asked for again: AliasMode and CNAME records together cannot send Observe in a
\* circle.
ChainNeverRevisits ==
  \A i \in DOMAIN https : \A j \in DOMAIN https :
    i < j => /\ https[i].host # https[j].host
             /\ https[i].outcome = "succeeded" => https[i].effective # https[j].host

\* A failed address question is never hidden behind an incomplete one, in whichever
\* order the targets were asked.
FailureOutranksIncomplete ==
  Returned /\ result.reason = "dns_observation_incomplete" => ~Holds(targets, Failed)

\* The hosts that are asked for are those the records prefer: no usable record of a
\* lower priority number is left out, and every host left out is counted once.
PreferredTargets ==
  bindings # <<>> =>
    LET kept == {targets[t].host : t \in DOMAIN targets}
        left == {i \in Usable(bindings) : bindings[i].host \notin kept}
    IN  /\ omitted = Cardinality({bindings[i].host : i \in left})
        /\ \A t \in DOMAIN targets : \A i \in left : targets[t].priority <= bindings[i].priority
        /\ Cardinality(kept) = Len(targets)

\* A path is completed only while both contexts are live, however many questions
\* it took: no late answer completes it.  IsBounded, below, has this among others.
CompletedInTime ==
  [][result'.status = "completed" /\ result.status = "none" =>
       callerErr = "active" /\ pathErr = "active"]_vars

\* With the DNS observer of New the evidence of a path whose context the caller
\* cancelled is never refused: its Status says that it was cancelled.
CancellationIsReported ==
  Returned /\ pathErr = "canceled" => result.reason # "invalid_probe_evidence"

-----------------------------------------------------------------------------
(***************************************************************************)
(* What a bounded observation promises.                                    *)
(***************************************************************************)
\* The HTTPS questions are place 0, the address questions that of their target.
Places ==
  {<<0, i>> : i \in DOMAIN https}
  \cup UNION {{<<t, k>> : k \in DOMAIN targets[t].observations} : t \in DOMAIN targets}

Evidence ==
  [place \in Places |->
     IF place[1] = 0 THEN https[place[2]].outcome
     ELSE targets[place[1]].observations[place[2]].outcome]

Reported ==
  IF result.status \in {"none", "completed"} THEN result.status
  ELSE CASE result.reason = "invalid_input"          -> "refused"
         [] result.reason = "path_timeout"           -> "timeout"
         [] result.reason = "cancelled"              -> "cancelled"
         [] result.reason = "invalid_probe_evidence" -> "broken"
         [] OTHER                                    -> "stopped"

Bounded == INSTANCE BoundedObservation WITH
  caller <- callerErr, own <- pathErr, evidence <- Evidence, verdict <- Reported,
  AnyAdapter <- AnyObserver, KeepsLate <- FALSE

\* Observe is a bounded observation, over the alias chain and all the targets: a late
\* answer is dropped and completes nothing, no question follows a cancelled one, and
\* a timeout is not reported when its last look at the contexts began after the
\* caller cancelled.
IsBounded == Bounded!Spec
=============================================================================
