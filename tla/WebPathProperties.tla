-------------------------- MODULE WebPathProperties --------------------------
(***************************************************************************)
(* The properties of webpath.Observe.  Validate, the package's own         *)
(* contract for a Result, is translated on its own from validate.go: it    *)
(* recomputes every conclusion of the Result from the evidence in it.      *)
(***************************************************************************)
EXTENDS WebPath

HopNumbers == DOMAIN result.hops

AttemptNumbers(h) == DOMAIN h.attempts

\* successfulAttempt: the last attempt, when it succeeded.
Succeeded(h) == h.attempts # <<>> /\ Last(h.attempts).outcome = "succeeded"

\* isRedirectStatus of the successful attempt.
Redirects(h) == Succeeded(h) /\ Last(h.attempts).location # "final"

\* exhaustedPublicCandidates.
Exhausted(h) ==
  /\ h.outcome = "succeeded"
  /\ h.attempts # <<>>
  /\ Len(h.attempts) = Len(SelectedCandidates(h.addresses))
  /\ \A k \in AttemptNumbers(h) : h.attempts[k].outcome = "failed"

\* validateHop.
ValidHop(h) ==
  LET candidates == SelectedCandidates(h.addresses)
  IN  /\ h.outcome # "succeeded" => h.attempts = <<>>
      /\ Len(h.attempts) <= Len(candidates)
      /\ \A k \in AttemptNumbers(h) :
           /\ h.attempts[k].address = candidates[k]
           /\ h.attempts[k].outcome # "failed" => k = Len(h.attempts)

\* A hop of the first chain after a redirect, or the first hop of the fallback.
ValidTransition(k) ==
  IF result.fallback /\ k = 2
  THEN result.hops[2].url = FallbackURL /\ Exhausted(result.hops[1])
  ELSE /\ Redirects(result.hops[k - 1])
       /\ result.hops[k].url = Last(result.hops[k - 1].attempts).location

Transitions == Cardinality(HopNumbers \ (IF result.fallback THEN {1, 2} ELSE {1}))

\* validateTerminalEvidence.
ValidEvidence ==
  LET last == Last(result.hops)
  IN  \/ result.reason \in {"invalid_probe_evidence", "path_timeout", "cancelled"}
      \/ /\ result.hops # <<>>
         /\ \/ result.reason = "final_response" /\ Succeeded(last) /\ ~Redirects(last)
            \/ result.reason = "resolution_failed" /\ last.outcome = "failed"
            \/ /\ result.reason = "no_public_candidates"
               /\ last.outcome = "succeeded"
               /\ SelectedCandidates(last.addresses) = <<>>
            \/ result.reason = "all_candidates_failed" /\ Exhausted(last)
            \/ /\ result.reason \in TargetFaults
               /\ Redirects(last) /\ Last(last.attempts).location = result.reason
            \/ /\ result.reason = "redirect_loop"
               /\ Redirects(last)
               /\ \E k \in HopNumbers : result.hops[k].url = Last(last.attempts).location
            \/ /\ result.reason = "redirect_limit"
               /\ Redirects(last) /\ result.redirects = RedirectLimit

\* Of a hostname that is not refused.
ValidConclusion ==
  /\ result.reason # "invalid_input"
  /\ result.redirects <= RedirectLimit
  /\ Len(result.hops) <= RedirectLimit + (IF result.fallback THEN 2 ELSE 1)
  /\ result.hops # <<>> => result.hops[1].url = InitialURL
  /\ \A k \in HopNumbers : ValidHop(result.hops[k])
  /\ result.fallback => result.hops # <<>> /\ Exhausted(result.hops[1])
  /\ \A k \in HopNumbers \ {1} : ValidTransition(k)
  /\ result.redirects = Transitions
  /\ \/ ~result.fallback \/ Len(result.hops) >= 2
     \/ result.reason \in {"cancelled", "path_timeout", "invalid_probe_evidence"}
  /\ ValidEvidence

\* Validate.  It normalizes the hostname again, which must leave it as it is.
ValidResult ==
  /\ hostname # "unstable"
  /\ IF hostname = "invalid"
     THEN /\ result.reason = "invalid_input"
          /\ result.hops = <<>> /\ result.redirects = 0 /\ ~result.fallback
     ELSE ValidConclusion

\* The Result Observe returns satisfies the package's Validate wherever the
\* path stopped: its conclusion, its count of redirects and its fallback can be
\* recomputed from the hops it carries.
EmittedResultValid == Returned => ValidResult

\* A chain of redirects never asks for the same URL twice; only the fallback
\* may come back to a URL of the chain before it.
ChainsNeverRevisit ==
  \A i, j \in DOMAIN hops :
    i < j /\ (fallbackUsed => i > 1) => hops[i].url # hops[j].url

\* The path is bounded without its deadline: redirects, fallback and candidates
\* alone bring Observe to its end.
Terminates == <>Returned

-----------------------------------------------------------------------------
(***************************************************************************)
(* What a bounded observation promises.                                    *)
(***************************************************************************)
\* The last observation of a hop: its resolution, or its last attempt.
HopOutcome(h) == IF h.attempts = <<>> THEN h.outcome ELSE Last(h.attempts).outcome

Evidence == [i \in DOMAIN hops |-> HopOutcome(hops[i])]

Verdict ==
  CASE result.reason = "none"                      -> "none"
    [] result.reason = "invalid_input"             -> "refused"
    [] result.reason = "final_response"            -> "completed"
    [] result.reason = "path_timeout"              -> "timeout"
    [] result.reason = "cancelled"                 -> "cancelled"
    [] result.reason = "invalid_probe_evidence"    -> "broken"
    [] OTHER                                       -> "stopped"

\* A hop is kept with what came late in it.
Bounded == INSTANCE BoundedObservation WITH
  caller <- callerErr, own <- pathErr, evidence <- Evidence, verdict <- Verdict,
  KeepsLate <- TRUE

\* Observe is a bounded observation: a response that came late does not complete
\* it, no hop follows a cancelled one, not even that of the fallback, and a timeout
\* is not reported when its last look at the contexts began after the caller cancelled.
IsBounded == Bounded!Spec
=============================================================================
