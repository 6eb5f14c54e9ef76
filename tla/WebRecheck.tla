----------------------------- MODULE WebRecheck -----------------------------
(***************************************************************************)
(* internal/webrecheck: one call of Observe.                               *)
(*                                                                         *)
(* Two lists of addresses for one hostname, one from the local resolver    *)
(* and one from a reference, are compared by one web request to each of    *)
(* the first CandidateLimit addresses of both, in alternation.  No answer  *)
(* ends the comparison early; a broken observation, the deadline and the   *)
(* caller do.                                                              *)
(***************************************************************************)
EXTENDS Integers, Sequences

CONSTANTS
  Hostnames,       \* what may be asked for: "valid", "invalid", "unstable"
  Addresses,       \* canonical addresses, with their family and policy
  Lists,           \* the lists that normalizeCandidates returns
  CandidateLimit,  \* candidateLimitPerSource
  Adapters,        \* the probe.Source values an observation may carry
  CallerErrors,    \* how the caller's context may end
  AnyAdapter       \* TRUE for an injected web adapter, FALSE for the one of New

\* NormalizeWebHostname keeps of a name what it would accept, keeps what it refuses,
\* or refuses a name and keeps one that it would accept ("unstable").
ASSUME HostnameAssumption == Hostnames \subseteq {"valid", "invalid", "unstable"}
\* normalizeCandidates drops repetitions before anything else is done.
ASSUME ListAssumption ==
  /\ Lists \subseteq Seq(Addresses)
  /\ \A list \in Lists : \A i, j \in DOMAIN list : list[i] = list[j] => i = j
ASSUME AdapterAssumption == AnyAdapter \in BOOLEAN
ASSUME LimitAssumption == CandidateLimit \in Nat \ {0}
ASSUME CallerAssumption == CallerErrors \subseteq {"canceled", "deadline"}

VARIABLES
  phase,       \* where Observe is
  callerErr,   \* ctx.Err()
  recheckErr,  \* recheckCtx.Err()
  glance,      \* terminalContext: its first read of the caller's error, or "unread"
  hostname,    \* what NormalizeWebHostname makes of Request.Hostname
  local,       \* Input.LocalCandidates
  reference,   \* Input.ReferenceCandidates
  observed,    \* the observation of the candidate under way
  accepted,    \* reportBuilder.webSource as a set, {} while hasWebSource is false
  attempts,    \* reportBuilder.attempts
  result       \* the Result, status "none" before Observe returns

contexts == <<callerErr, recheckErr>>
input == <<hostname, local, reference>>
vars == <<phase, contexts, glance, input, observed, accepted, attempts, result>>

-----------------------------------------------------------------------------
(***************************************************************************)
(* The request.                                                            *)
(***************************************************************************)
\* normalizeCandidates refuses an empty list, an address that is not public, and two families.
BadList(list) ==
  \/ list = <<>>
  \/ \E i \in DOMAIN list : ~list[i].public
  \/ \E i, j \in DOMAIN list : list[i].family # list[j].family

\* normalizeRequest also compares the two families.
BadRequest(name, ours, theirs) ==
  \/ name # "valid"
  \/ BadList(ours) \/ BadList(theirs)
  \/ {ours[i].family : i \in DOMAIN ours} # {theirs[i].family : i \in DOMAIN theirs}

\* boundedCandidates and omittedCandidates.
Bound(list) == IF Len(list) < CandidateLimit THEN Len(list) ELSE CandidateLimit
Omitted(list) == Len(list) - Bound(list)

\* Mutant: the schedule goes through one list after the other.
ScheduleInBlocks(ours, theirs) ==
  [k \in 1 .. Bound(ours) + Bound(theirs) |->
     IF k <= Bound(ours) THEN [origin |-> "local", ip |-> ours[k]]
     ELSE [origin |-> "reference", ip |-> theirs[k - Bound(ours)]]]

\* schedule: in turns while both lists have candidates, then the longer one.
Schedule(ours, theirs) ==
  LET rounds == IF Bound(ours) < Bound(theirs) THEN Bound(ours) ELSE Bound(theirs)
      localTurn(k) == IF k <= 2 * rounds THEN k % 2 = 1 ELSE Bound(ours) > Bound(theirs)
      place(k) == IF k <= 2 * rounds THEN (k + 1) \div 2 ELSE k - rounds
  IN  [k \in 1 .. Bound(ours) + Bound(theirs) |->
         IF localTurn(k) THEN [origin |-> "local", ip |-> ours[place(k)]]
         ELSE [origin |-> "reference", ip |-> theirs[place(k)]]]

-----------------------------------------------------------------------------
Outcomes == {"succeeded", "failed", "cancelled"}

\* What the web adapter returns: an outcome and its source, or a Result that
\* does not validate or is not about the request.
Observations == [outcome : Outcomes, source : Adapters]
Broken == [outcome |-> "broken"]

Attempts == [origin : {"local", "reference"}, ip : Addresses,
             outcome : Outcomes, source : Adapters]

NoResult == [status |-> "none", reason |-> "none", attempts |-> <<>>,
             localOmitted |-> 0, referenceOmitted |-> 0]

StopReasons == {"invalid_input", "recheck_timeout", "cancelled", "invalid_probe_evidence"}

TypeOK ==
  /\ phase \in {"start", "check", "observe", "judge", "final", "returned"}
  /\ callerErr \in {"active", "canceled", "deadline"}
  /\ recheckErr \in {"active", "canceled", "deadline"}
  /\ glance \in {"unread", "canceled", "not_canceled"}
  /\ hostname \in {"valid", "invalid", "unstable"}
  /\ local \in Seq(Addresses) /\ reference \in Seq(Addresses)
  /\ observed \in Observations \cup {Broken}
  /\ accepted \subseteq Adapters
  /\ attempts \in Seq(Attempts)
  /\ Len(attempts) <= 2 * CandidateLimit
  /\ result.status \in {"none", "completed", "stopped", "cancelled"}
  /\ result.reason \in StopReasons \cup {"none"}

Init ==
  /\ phase = "start"
  /\ callerErr \in {"active"} \cup CallerErrors
  /\ recheckErr = "active"
  /\ glance = "unread"
  /\ hostname \in Hostnames
  /\ local \in Lists /\ reference \in Lists
  /\ observed = Broken
  /\ accepted = {}
  /\ attempts = <<>>
  /\ result = NoResult

(***************************************************************************)
(* Contexts: recheckCtx is a child of the caller's, with a deadline.       *)
(***************************************************************************)
Live == phase \notin {"start", "returned"}

CallerEnds ==
  /\ phase # "returned"
  /\ callerErr = "active"
  /\ callerErr' \in CallerErrors
  /\ UNCHANGED <<phase, recheckErr, glance, input, observed, accepted, attempts, result>>

Propagate ==
  /\ Live
  /\ callerErr # "active"
  /\ recheckErr = "active"
  /\ recheckErr' = callerErr
  /\ UNCHANGED <<phase, callerErr, glance, input, observed, accepted, attempts, result>>

RecheckDeadline ==
  /\ Live
  /\ recheckErr = "active"
  /\ recheckErr' = "deadline"
  /\ UNCHANGED <<phase, callerErr, glance, input, observed, accepted, attempts, result>>

\* terminalContext: a cancellation in the first read of the caller's error, then any
\* error in the second read or a deadline, then the rest.
TerminalContext(first, second, recheck) ==
  IF first = "canceled" THEN "cancelled"
  ELSE IF second # "active" \/ recheck = "deadline" THEN "recheck_timeout"
  ELSE IF recheck = "canceled" THEN "cancelled"
  ELSE "none"

\* What the look under way comes to; before recheckCtx exists the caller's context
\* stands for it.
Looked == glance # "unread"
Ended == TerminalContext(glance, callerErr, IF phase = "start" THEN callerErr ELSE recheckErr)

-----------------------------------------------------------------------------
(***************************************************************************)
(* Observe.                                                                *)
(***************************************************************************)
StatusOf(reason) ==
  IF reason = "none" THEN "completed" ELSE IF reason = "cancelled" THEN "cancelled" ELSE "stopped"

Finish(reason, evidence) ==
  /\ phase' = "returned"
  /\ glance' = "unread"
  /\ attempts' = evidence
  /\ result' = [status |-> StatusOf(reason), reason |-> reason, attempts |-> evidence,
                localOmitted |-> IF reason = "invalid_input" THEN 0 ELSE Omitted(local),
                referenceOmitted |-> IF reason = "invalid_input" THEN 0 ELSE Omitted(reference)]

GoOn(next) == phase' = next /\ glance' = "unread" /\ UNCHANGED result

Refused == BadRequest(hostname, local, reference)

Remaining == Len(attempts) < Len(Schedule(local, reference))

\* Mutant: only the first observation's adapter is looked at.
AcceptsAnyAdapter == observed.outcome # "broken"

\* validateObservation.
Acceptable == observed.outcome # "broken" /\ accepted \subseteq {observed.source}

\* Where Observe calls terminalContext.
Looks ==
  \/ phase = "start" /\ ~Refused
  \/ phase = "check" /\ Remaining
  \/ phase = "judge" /\ Acceptable
  \/ phase = "final"

\* The first read of terminalContext; the others are part of what it decides.
Look ==
  /\ Looks
  /\ glance = "unread"
  /\ glance' = IF callerErr = "canceled" THEN "canceled" ELSE "not_canceled"
  /\ UNCHANGED <<phase, contexts, input, observed, accepted, attempts, result>>

Start ==
  /\ phase = "start"
  /\ \/ Refused /\ Finish("invalid_input", <<>>)
     \/ ~Refused /\ Looked /\ Ended # "none" /\ Finish(Ended, <<>>)
     \/ ~Refused /\ Looked /\ Ended = "none" /\ GoOn("check") /\ UNCHANGED attempts
  /\ UNCHANGED <<contexts, input, observed, accepted>>

\* The head of the loop, with the check before each observation.
Check ==
  /\ phase = "check"
  /\ \/ Remaining /\ Looked /\ Ended # "none" /\ Finish(Ended, attempts)
     \/ Remaining /\ Looked /\ Ended = "none" /\ GoOn("observe") /\ UNCHANGED attempts
     \/ ~Remaining /\ GoOn("final") /\ UNCHANGED attempts
  /\ UNCHANGED <<contexts, input, observed, accepted>>

\* The web adapter, under a context of its own that ends with recheckCtx or by
\* its own timeout.  The one of New reports a cancellation only under a cancelled
\* context.
ObserveReturns ==
  /\ phase = "observe"
  /\ observed' \in Observations \cup {Broken}
  /\ observed'.outcome = "cancelled" => AnyAdapter \/ recheckErr = "canceled"
  /\ phase' = "judge"
  /\ UNCHANGED <<contexts, glance, input, accepted, attempts, result>>

Recorded ==
  Append(attempts, [origin |-> Schedule(local, reference)[Len(attempts) + 1].origin,
                    ip |-> Schedule(local, reference)[Len(attempts) + 1].ip,
                    outcome |-> observed.outcome, source |-> observed.source])

Reject ==
  /\ phase = "judge"
  /\ ~Acceptable
  /\ Finish("invalid_probe_evidence", attempts)
  /\ UNCHANGED <<contexts, input, observed, accepted>>

\* An ended context ends the recheck, and so does a cancelled observation.
Ends(late) ==
  \/ Ended # "none" /\ Finish(Ended, late)
  \/ Ended = "none" /\ observed.outcome = "cancelled" /\ Finish("cancelled", Recorded)

GoesOn == Ended = "none" /\ observed.outcome # "cancelled"

\* A late success is dropped, any other late outcome is kept.
Late == IF observed.outcome = "succeeded" THEN attempts ELSE Recorded

\* Mutant: what is late is recorded like everything else.
JudgeKeepsLate ==
  /\ phase = "judge"
  /\ Acceptable /\ Looked
  /\ accepted' = {observed.source}
  /\ \/ Ends(Recorded)
     \/ GoesOn /\ attempts' = Recorded /\ GoOn("check")
  /\ UNCHANGED <<contexts, input, observed>>

\* Mutant: a failed observation is tried again.
JudgeTriesAgain ==
  /\ phase = "judge"
  /\ Acceptable /\ Looked
  /\ accepted' = {observed.source}
  /\ \/ Ends(Late)
     \/ /\ GoesOn
        /\ attempts' = IF observed.outcome = "failed" THEN attempts ELSE Recorded
        /\ GoOn("check")
  /\ UNCHANGED <<contexts, input, observed>>

Judge ==
  /\ phase = "judge"
  /\ Acceptable /\ Looked
  /\ accepted' = {observed.source}
  /\ \/ Ends(Late)
     \/ GoesOn /\ attempts' = Recorded /\ GoOn("check")
  /\ UNCHANGED <<contexts, input, observed>>

\* Mutant: the context is not looked at after the last observation.
FinalUnchecked ==
  /\ phase = "final"
  /\ Looked
  /\ Finish("none", attempts)
  /\ UNCHANGED <<contexts, input, observed, accepted>>

Final ==
  /\ phase = "final"
  /\ Looked
  /\ Finish(Ended, attempts)
  /\ UNCHANGED <<contexts, input, observed, accepted>>

Returned == phase = "returned"

Done == Returned /\ UNCHANGED vars

Step == Look \/ Start \/ Check \/ ObserveReturns \/ Reject \/ Judge \/ Final

Next == CallerEnds \/ Propagate \/ RecheckDeadline \/ Step \/ Done

Spec == Init /\ [][Next]_vars

(***************************************************************************)
(* Observe is one goroutine, and every attempt has a timeout of its own.   *)
(***************************************************************************)
FairSpec == Spec /\ WF_vars(Step) /\ WF_vars(Propagate)
=============================================================================
