----------------------------- MODULE DNSHTTPSPath -----------------------------
(***************************************************************************)
(* internal/dnshttpspath: one call of Observe.                             *)
(*                                                                         *)
(* HTTPS questions follow AliasMode records up to AliasLimit times.  The   *)
(* last answer names the hosts whose A and AAAA records are then asked     *)
(* for: those of its usable ServiceMode records, or the name itself.       *)
(* Every question is one call of the DNS observer, with the contexts read  *)
(* before and after it.                                                    *)
(***************************************************************************)
EXTENDS Integers, Sequences, ServiceBindings

CONSTANTS
  Requests,            \* what may be asked for: "valid", "invalid", "unstable"
  Names,               \* host names
  Origin,              \* the host name of the request
  Root,                \* the name "."
  NoAlias,             \* stands for an answer without AliasMode records
  CanonicalNames,      \* where the CNAME records of an answer may lead
  BindingRecords,      \* what the HTTPS records of an answer may be
  Adapters,            \* resolver endpoint and source of an observation
  Unselected,          \* the one of an observation made before the endpoint is known
  AnyObserver,         \* TRUE for an injected DNS observer, FALSE for the one of New
  AliasLimit,          \* aliasLimit
  ServiceTargetLimit,  \* serviceTargetLimit
  CallerErrors         \* how the caller's context may end

\* normalizeRequest accepts a Request, refuses it and would refuse again what it
\* keeps of it, or refuses it and keeps a host name it would normalize otherwise.
ASSUME RequestAssumption == Requests \subseteq {"valid", "invalid", "unstable"}
ASSUME NameAssumption ==
  /\ Origin \in Names /\ Root \notin Names /\ NoAlias \notin Names \cup {Root}
  /\ CanonicalNames \subseteq Names \cup {Root}
  /\ \A records \in BindingRecords : records.alias \in Names \cup {Root, NoAlias}
\* A ServiceMode record; priority 0 is AliasMode.
ServiceRecords == [host : Names \cup {Root}, priority : Nat \ {0}, params : Parameters]

ASSUME RecordAssumption ==
  \A records \in BindingRecords : records.services \in Seq(ServiceRecords)
ASSUME ObserverAssumption == AnyObserver \in BOOLEAN /\ Unselected \notin Adapters
ASSUME LimitAssumption == AliasLimit \in Nat /\ ServiceTargetLimit \in Nat \ {0}
ASSUME CallerAssumption == CallerErrors \subseteq {"canceled", "deadline"}

VARIABLES
  phase,      \* where Observe is
  callerErr,  \* ctx.Err()
  pathErr,    \* pathCtx.Err()
  glance,     \* terminalContext: its first read of the caller's error, or "unread"
  request,    \* what normalizeRequest makes of the Request
  current,    \* the name of the next HTTPS question
  seen,       \* the names of the chain
  answer,     \* the observation of the question under way
  accepted,   \* the resolver identity of the report as a set, {} while it has none
  https,      \* HTTPSObservations
  followed,   \* AliasesFollowed
  bindings,   \* ServiceBindings
  targets,    \* AddressTargets
  omitted,    \* ServiceTargetsOmitted
  result      \* status, completion and reason, status "none" before Observe returns

contexts == <<callerErr, pathErr>>
chain == <<current, seen, https, followed>>
serving == <<bindings, targets, omitted>>
vars == <<phase, contexts, glance, request, chain, answer, accepted, serving, result>>

-----------------------------------------------------------------------------
(***************************************************************************)
(* What the DNS observer returns.                                          *)
(***************************************************************************)
\* An observation dnsobservation.Validate refuses, or one of another question.  The
\* observer of New is taken to return none, so its answers hold only names that
\* normalizeHostname accepts; the wire format allows others.
Broken == [outcome |-> "broken"]

\* A question the observer of New is asked under an ended context fails, or is
\* cancelled, before it has looked up the endpoint of its resolver; a resolver it
\* does not know fails the first one.  Later its own timeout may fail it, but only
\* a cancelled context cancels it.
Failures(host) ==
  [outcome : {"failed", "cancelled"}, host : {host}, adapter : Adapters \cup {Unselected}]

Possible(failure) ==
  \/ AnyObserver
  \/ /\ failure.outcome = "cancelled" => pathErr = "canceled"
     /\ failure.adapter = Unselected /\ failure.outcome = "failed" =>
          pathErr = "deadline" \/ accepted = {}

Unusable(host) ==
  {f \in Failures(host) : Possible(f)} \cup (IF AnyObserver THEN {Broken} ELSE {})

\* An answer carries its effective name and the records of that name: the first
\* AliasMode target, ServiceMode records, both or neither.
HTTPSAnswers(host) ==
  {[outcome |-> "succeeded", host |-> host, adapter |-> adapter, complete |-> complete,
    effective |-> effective, alias |-> records.alias, services |-> records.services] :
     adapter \in Adapters, complete \in BOOLEAN,
     effective \in {host} \cup CanonicalNames, records \in BindingRecords}

AddressAnswers(host) ==
  [outcome : {"succeeded"}, host : {host}, adapter : Adapters, complete : BOOLEAN]

Incomplete(o) == o.outcome = "succeeded" /\ ~o.complete

StopReasons ==
  {"invalid_input", "dns_observation_failed", "dns_observation_incomplete", "alias_loop",
   "alias_limit", "path_timeout", "cancelled", "invalid_probe_evidence"}

CompletionKinds ==
  {"service_mode", "alias_fallback", "origin_fallback", "service_unavailable",
   "unsupported_service_mode"}

TypeOK ==
  /\ phase \in {"start", "ask", "question", "judge", "next", "lookup", "weigh", "returned"}
  /\ callerErr \in {"active", "canceled", "deadline"}
  /\ pathErr \in {"active", "canceled", "deadline"}
  /\ glance \in {"unread", "canceled", "not_canceled"}
  /\ request \in {"valid", "invalid", "unstable"}
  /\ current \in Names
  /\ seen \subseteq Names \cup {Root}
  /\ accepted \subseteq Adapters \cup {Unselected}
  /\ followed \in 0 .. AliasLimit
  /\ Len(https) <= AliasLimit + 1
  /\ Len(targets) <= ServiceTargetLimit
  /\ \A t \in DOMAIN targets : Len(targets[t].observations) <= 2
  /\ omitted \in Nat
  /\ result.status \in {"none", "completed", "stopped", "cancelled"}
  /\ result.completion \in CompletionKinds \cup {"none"}
  /\ result.reason \in StopReasons \cup {"none"}

Init ==
  /\ phase = "start"
  /\ callerErr \in {"active"} \cup CallerErrors
  /\ pathErr = "active"
  /\ glance = "unread"
  /\ request \in Requests
  /\ current = Origin
  /\ seen = {Origin}
  /\ answer = Broken
  /\ accepted = {}
  /\ https = <<>>
  /\ followed = 0
  /\ bindings = <<>>
  /\ targets = <<>>
  /\ omitted = 0
  /\ result = [status |-> "none", completion |-> "none", reason |-> "none"]

-----------------------------------------------------------------------------
(***************************************************************************)
(* Contexts: pathCtx is a child of the caller's, with a deadline.          *)
(***************************************************************************)
Live == phase \notin {"start", "returned"}

CallerEnds ==
  /\ phase # "returned"
  /\ callerErr = "active"
  /\ callerErr' \in CallerErrors
  /\ UNCHANGED <<phase, pathErr, glance, request, chain, answer, accepted, serving, result>>

Propagate ==
  /\ Live
  /\ callerErr # "active"
  /\ pathErr = "active"
  /\ pathErr' = callerErr
  /\ UNCHANGED <<phase, callerErr, glance, request, chain, answer, accepted, serving, result>>

PathDeadline ==
  /\ Live
  /\ pathErr = "active"
  /\ pathErr' = "deadline"
  /\ UNCHANGED <<phase, callerErr, glance, request, chain, answer, accepted, serving, result>>

\* terminalContext: a cancellation in the first read of the caller's error, then any
\* error in the second read or a deadline, then the rest; "none" while both are live.
TerminalContext(first, second, attempt) ==
  IF first = "canceled" THEN "cancelled"
  ELSE IF second # "active" \/ attempt = "deadline" THEN "path_timeout"
  ELSE IF attempt = "canceled" THEN "cancelled"
  ELSE "none"

\* What the look under way comes to; before pathCtx exists the caller's context
\* stands for it.
Looked == glance # "unread"
Ended == TerminalContext(glance, callerErr, IF phase = "start" THEN callerErr ELSE pathErr)

\* validateObservation.
Acceptable == answer.outcome # "broken" /\ accepted \subseteq {answer.adapter}

\* Where Observe and observeAddressTargets call terminalContext.
Looks ==
  \/ phase = "start" /\ request = "valid"
  \/ phase \in {"ask", "next"}
  \/ phase \in {"judge", "weigh"} /\ Acceptable

\* The first read of terminalContext; the others are part of what it decides.
Look ==
  /\ Looks
  /\ glance = "unread"
  /\ glance' = IF callerErr = "canceled" THEN "canceled" ELSE "not_canceled"
  /\ UNCHANGED <<phase, contexts, request, chain, answer, accepted, serving, result>>

\* What was looked at is used up by whatever Observe does next.
Return(status, completion, reason) ==
  /\ phase' = "returned"
  /\ glance' = "unread"
  /\ result' = [status |-> status, completion |-> completion, reason |-> reason]

Stop(reason) ==
  Return(IF reason = "cancelled" THEN "cancelled" ELSE "stopped", "none", reason)

Complete(completion) == Return("completed", completion, "none")

GoOn(next) == phase' = next /\ glance' = "unread" /\ UNCHANGED result

-----------------------------------------------------------------------------
(***************************************************************************)
(* Observe: the alias chain.                                               *)
(***************************************************************************)
Start ==
  /\ phase = "start"
  /\ \/ request # "valid" /\ Stop("invalid_input")
     \/ request = "valid" /\ Looked /\ Ended # "none" /\ Stop(Ended)
     \/ request = "valid" /\ Looked /\ Ended = "none" /\ GoOn("ask")
  /\ UNCHANGED <<contexts, request, chain, answer, accepted, serving>>

Ask ==
  /\ phase = "ask"
  /\ Looked
  /\ \/ Ended # "none" /\ Stop(Ended)
     \/ Ended = "none" /\ GoOn("question")
  /\ UNCHANGED <<contexts, request, chain, answer, accepted, serving>>

Answered ==
  /\ phase = "question"
  /\ answer' \in HTTPSAnswers(current) \cup Unusable(current)
  /\ phase' = "judge"
  /\ UNCHANGED <<contexts, glance, request, chain, accepted, serving, result>>

Reject ==
  /\ phase \in {"judge", "weigh"}
  /\ ~Acceptable
  /\ Stop("invalid_probe_evidence")
  /\ UNCHANGED <<contexts, request, chain, answer, accepted, serving>>

Judged(place) ==
  /\ phase = place
  /\ Acceptable
  /\ Looked
  /\ accepted' = {answer.adapter}
  /\ UNCHANGED <<contexts, request, answer>>

\* Why the answer ends the path, if it does.
Early ==
  IF Ended # "none" THEN Ended
  ELSE IF answer.outcome = "cancelled" THEN "cancelled"
  ELSE IF answer.outcome = "failed" THEN "dns_observation_failed"
  ELSE IF Incomplete(answer) THEN "dns_observation_incomplete"
  ELSE "none"

\* A late success is dropped, any other late outcome is kept.
TooLate == Ended # "none" /\ answer.outcome = "succeeded"

StopEarly ==
  /\ Judged("judge")
  /\ Early # "none"
  /\ https' = IF TooLate THEN https ELSE Append(https, answer)
  /\ Stop(Early)
  /\ UNCHANGED <<current, seen, followed, serving>>

Conclusive ==
  /\ Judged("judge")
  /\ Early = "none"
  /\ https' = Append(https, answer)

\* Mutant: only the names that were asked for count as seen.
SeenAsked(names) == names

\* The effective name joins the names of the chain.
SeenWith(names) == names \cup {answer.effective}

\* Mutant: the limit is looked at before the loop.
AliasReasonLimitFirst ==
  IF followed >= AliasLimit THEN "alias_limit"
  ELSE IF answer.alias \in SeenWith(seen) THEN "alias_loop"
  ELSE "none"

\* Why an AliasMode target is not followed; the loop is looked for first.
AliasReason ==
  IF answer.alias \in SeenWith(seen) THEN "alias_loop"
  ELSE IF followed >= AliasLimit THEN "alias_limit"
  ELSE "none"

AliasEnds ==
  /\ Conclusive
  /\ answer.alias # NoAlias
  /\ seen' = SeenWith(seen)
  /\ \/ answer.alias = Root /\ Complete("service_unavailable")
     \/ answer.alias # Root /\ AliasReason # "none" /\ Stop(AliasReason)
  /\ UNCHANGED <<current, followed, serving>>

Follow ==
  /\ Conclusive
  /\ answer.alias \notin {NoAlias, Root}
  /\ AliasReason = "none"
  /\ followed' = followed + 1
  /\ seen' = SeenWith(seen) \cup {answer.alias}
  /\ current' = answer.alias
  /\ GoOn("ask")
  /\ UNCHANGED serving

-----------------------------------------------------------------------------
(***************************************************************************)
(* Observe: the final targets.                                             *)
(***************************************************************************)
ServiceMode ==
  /\ Conclusive
  /\ answer.alias = NoAlias
  /\ answer.services # <<>>
  /\ bindings' = Decisions(answer.services)
  /\ LET all == ServiceTargets(bindings')
     IN  IF Len(all) > ServiceTargetLimit
         THEN omitted' = Len(all) - ServiceTargetLimit /\ targets' = SubSeq(all, 1, ServiceTargetLimit)
         ELSE omitted' = 0 /\ targets' = all
  /\ \/ targets' = <<>> /\ Complete("unsupported_service_mode")
     \/ targets' # <<>> /\ GoOn("next")
  /\ seen' = SeenWith(seen)
  /\ UNCHANGED <<current, followed>>

Fallback == IF followed > 0 THEN "alias_fallback" ELSE "origin_fallback"

FallBack ==
  /\ Conclusive
  /\ answer.alias = NoAlias
  /\ answer.services = <<>>
  /\ \/ /\ answer.effective = Root
        /\ Complete("service_unavailable")
        /\ UNCHANGED targets
     \/ /\ answer.effective # Root
        /\ targets' = <<[host |-> answer.effective, source |-> Fallback, priority |-> 0,
                        observations |-> <<>>]>>
        /\ GoOn("next")
  /\ seen' = SeenWith(seen)
  /\ UNCHANGED <<current, followed, bindings, omitted>>

-----------------------------------------------------------------------------
(***************************************************************************)
(* observeAddressTargets: A, then AAAA, target by target.                  *)
(***************************************************************************)
\* Targets that lack an observation; the loop is at the first of them.
Open(list) == {t \in DOMAIN list : Len(list[t].observations) < 2}
At == CHOOSE t \in Open(targets) : \A other \in Open(targets) : t <= other

NextQuestion ==
  /\ phase = "next"
  /\ Looked
  /\ \/ Ended # "none" /\ Stop(Ended)
     \/ Ended = "none" /\ GoOn("lookup")
  /\ UNCHANGED <<contexts, request, chain, answer, accepted, serving>>

LookedUp ==
  /\ phase = "lookup"
  /\ answer' \in AddressAnswers(targets[At].host) \cup Unusable(targets[At].host)
  /\ phase' = "weigh"
  /\ UNCHANGED <<contexts, glance, request, chain, accepted, serving, result>>

WithAnswer ==
  [targets EXCEPT ![At].observations = Append(@, answer)]

Holds(list, test(_)) ==
  \E t \in DOMAIN list : \E k \in DOMAIN list[t].observations : test(list[t].observations[k])

Failed(o) == o.outcome = "failed"

\* Mutant: the incomplete observation is reported although another one failed.
VerdictIncompleteFirst(list) ==
  IF Holds(list, Incomplete) THEN "dns_observation_incomplete"
  ELSE IF Holds(list, Failed) THEN "dns_observation_failed"
  ELSE "none"

\* hadFailure before hadIncomplete.
Verdict(list) ==
  IF Holds(list, Failed) THEN "dns_observation_failed"
  ELSE IF Holds(list, Incomplete) THEN "dns_observation_incomplete"
  ELSE "none"

Completion ==
  IF bindings # <<>> THEN "service_mode" ELSE Fallback

\* Mutant: the context is not looked at after an address observation.
WeighUnchecked ==
  /\ Judged("weigh")
  /\ targets' = WithAnswer
  /\ \/ answer.outcome = "cancelled" /\ Stop("cancelled")
     \/ answer.outcome # "cancelled" /\ Open(targets') # {} /\ GoOn("next")
     \/ /\ answer.outcome # "cancelled"
        /\ Open(targets') = {}
        /\ IF Verdict(targets') # "none" THEN Stop(Verdict(targets')) ELSE Complete(Completion)
  /\ UNCHANGED <<chain, bindings, omitted>>

Weigh ==
  /\ Judged("weigh")
  /\ targets' = IF TooLate THEN targets ELSE WithAnswer
  /\ \/ Ended # "none" /\ Stop(Ended)
     \/ Ended = "none" /\ answer.outcome = "cancelled" /\ Stop("cancelled")
     \/ /\ Ended = "none"
        /\ answer.outcome # "cancelled"
        /\ \/ Open(targets') # {} /\ GoOn("next")
           \/ Open(targets') = {} /\ Verdict(targets') # "none" /\ Stop(Verdict(targets'))
           \/ Open(targets') = {} /\ Verdict(targets') = "none" /\ Complete(Completion)
  /\ UNCHANGED <<chain, bindings, omitted>>

Returned == phase = "returned"

Done == Returned /\ UNCHANGED vars

Step ==
  \/ Look \/ Start \/ Ask \/ Answered \/ Reject \/ StopEarly \/ AliasEnds \/ Follow
  \/ ServiceMode \/ FallBack \/ NextQuestion \/ LookedUp \/ Weigh

Next == CallerEnds \/ Propagate \/ PathDeadline \/ Step \/ Done

Spec == Init /\ [][Next]_vars
=============================================================================
