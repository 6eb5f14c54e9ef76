------------------------------- MODULE WebPath -------------------------------
(***************************************************************************)
(* internal/webpath: one call of Observe.                                  *)
(*                                                                         *)
(* Observe follows the public website path of one hostname.  A chain of    *)
(* hops starts at https://hostname/; every hop resolves its host, dials a  *)
(* bounded number of public addresses in resolver order, and a redirect    *)
(* leads to the next hop.  When the first hop of the first chain has only  *)
(* failed attempts, one more chain starts at http://hostname/.  The caller *)
(* and the path's own deadline may end the contexts between any two steps. *)
(***************************************************************************)
EXTENDS Naturals, Sequences, SequencesExt, FiniteSets, Enumeration

CONSTANTS
  Hostnames,       \* what may be asked for: "valid", "invalid", "unstable"
  URLs,            \* canonical URLs a redirect may lead to
  InitialURL,      \* https://hostname/
  FallbackURL,     \* http://hostname/
  RedirectLimit,   \* redirectLimit
  CandidateLimit,  \* candidateLimitPerFamily
  Answers,         \* address lists of a successful system resolution
  CallerErrors,    \* how the caller's context may end
  AnyAdapter       \* FALSE: the production adapters; TRUE: any injected ones

\* NormalizeWebHostname keeps of a name what it would accept, keeps what it refuses,
\* or refuses a name and keeps one that it would accept ("unstable").
ASSUME HostnameAssumption == Hostnames \subseteq {"valid", "invalid", "unstable"}
ASSUME URLAssumption == InitialURL \in URLs /\ FallbackURL \in URLs /\ InitialURL # FallbackURL
ASSUME LimitAssumption == RedirectLimit \in Nat /\ CandidateLimit \in Nat \ {0}
ASSUME AnswerAssumption == Answers \subseteq Seq([family : {"ipv4", "ipv6"}, public : BOOLEAN])
ASSUME CallerAssumption == CallerErrors \subseteq {"canceled", "deadline"}
ASSUME AdapterAssumption == AnyAdapter \in BOOLEAN

VARIABLES
  phase,         \* where Observe is
  callerErr,     \* ctx.Err()
  pathErr,       \* pathCtx.Err()
  glance,        \* terminalContext: its first read of the caller's error, or "unread"
  hostname,      \* what NormalizeWebHostname makes of Request.Hostname
  current,       \* observeChain: the URL of the hop under way
  seen,          \* observeChain: the URLs of this chain
  pending,       \* observeChain: pendingRedirect
  hadResponse,   \* observeChain: hadResponse
  hop,           \* observeHop: the Hop being filled
  hops,          \* reportBuilder.hops
  redirects,     \* reportBuilder.redirectsFollowed
  fallbackUsed,  \* reportBuilder.fallbackUsed
  chain,         \* chainResult.reason, "none" while the chain runs
  result         \* the Result, reason "none" before Observe returns

contexts == <<callerErr, pathErr>>
walk == <<current, seen, pending, hadResponse>>
report == <<hops, redirects, fallbackUsed>>
vars == <<phase, contexts, glance, hostname, walk, hop, report, chain, result>>

TargetFaults == {"redirect_location_unavailable", "redirect_target_invalid",
                 "redirect_target_unsafe"}
ContextReasons == {"cancelled", "path_timeout"}
StopReasons == TargetFaults \cup ContextReasons \cup
  {"final_response", "invalid_input", "resolution_failed", "no_public_candidates",
   "all_candidates_failed", "redirect_loop", "redirect_limit", "invalid_probe_evidence"}

StatusOf(reason) ==
  CASE reason = "final_response" -> "completed"
    [] reason = "cancelled"      -> "cancelled"
    [] OTHER                     -> "stopped"

\* What redirectTarget makes of an HTTP response: "final" when its status is no
\* redirect, the next canonical URL, or the reason the Location is refused.
Locations == URLs \cup TargetFaults \cup {"final"}

(***************************************************************************)
(* selectPublicCandidates: the positions of the public addresses that are  *)
(* among the first CandidateLimit public ones of their family.             *)
(***************************************************************************)
SelectedCandidates(addresses) ==
  LET selected ==
        {i \in DOMAIN addresses :
           /\ addresses[i].public
           /\ Cardinality({j \in 1 .. i - 1 : /\ addresses[j].public
                                              /\ addresses[j].family = addresses[i].family})
                < CandidateLimit}
  IN  Enumerate(selected, {pair \in selected \X selected : pair[1] < pair[2]})

Attempts == [address : Nat, outcome : {"failed", "cancelled"}, location : {"none"}]
              \cup [address : Nat, outcome : {"succeeded"}, location : Locations]

Hops == [url : URLs, outcome : {"succeeded", "failed", "cancelled"},
         addresses : Answers \cup {<<>>}, attempts : Seq(Attempts)]

NoHop == [url |-> InitialURL, outcome |-> "failed", addresses |-> <<>>, attempts |-> <<>>]

NoResult == [reason |-> "none", redirects |-> 0, fallback |-> FALSE, hops |-> <<>>]

TypeOK ==
  /\ phase \in {"start", "enter", "resolve", "resolved", "dial", "dialled", "chain_end",
                "returned"}
  /\ callerErr \in {"active", "canceled", "deadline"}
  /\ pathErr \in {"active", "canceled", "deadline"}
  /\ glance \in {"unread", "canceled", "not_canceled"}
  /\ hostname \in {"valid", "invalid", "unstable"}
  /\ current \in URLs /\ seen \subseteq URLs
  /\ pending \in BOOLEAN /\ hadResponse \in BOOLEAN
  /\ hop \in Hops
  /\ hops \in Seq(Hops) /\ Len(hops) <= RedirectLimit + 2
  /\ redirects \in 0 .. RedirectLimit
  /\ fallbackUsed \in BOOLEAN
  /\ chain \in StopReasons \cup {"none"}
  /\ result \in [reason : StopReasons \cup {"none"}, redirects : 0 .. RedirectLimit,
                 fallback : BOOLEAN, hops : Seq(Hops)]

Init ==
  /\ phase = "start"
  /\ callerErr \in {"active"} \cup CallerErrors
  /\ pathErr = "active"
  /\ glance = "unread"
  /\ hostname \in Hostnames
  /\ current = InitialURL
  /\ seen = {InitialURL}
  /\ pending = FALSE
  /\ hadResponse = FALSE
  /\ hop = NoHop
  /\ hops = <<>>
  /\ redirects = 0
  /\ fallbackUsed = FALSE
  /\ chain = "none"
  /\ result = NoResult

-----------------------------------------------------------------------------
(***************************************************************************)
(* Contexts: pathCtx is a child of the caller's, with a deadline.          *)
(***************************************************************************)
PathLive == phase \notin {"start", "returned"}

CallerEnds ==
  /\ phase # "returned"
  /\ callerErr = "active"
  /\ callerErr' \in CallerErrors
  /\ UNCHANGED <<phase, pathErr, glance, hostname, walk, hop, report, chain, result>>

Propagate ==
  /\ PathLive
  /\ callerErr # "active"
  /\ pathErr = "active"
  /\ pathErr' = callerErr
  /\ UNCHANGED <<phase, callerErr, glance, hostname, walk, hop, report, chain, result>>

PathDeadline ==
  /\ PathLive
  /\ pathErr = "active"
  /\ pathErr' = "deadline"
  /\ UNCHANGED <<phase, callerErr, glance, hostname, walk, hop, report, chain, result>>

\* terminalContext: a cancellation in the first read of the caller's error, then any
\* error in the second read or a deadline, then the rest; "none" while both are live.
TerminalContext(first, second, attempt) ==
  IF first = "canceled" THEN "cancelled"
  ELSE IF second # "active" \/ attempt = "deadline" THEN "path_timeout"
  ELSE IF attempt = "canceled" THEN "cancelled"
  ELSE "none"

\* What the look under way comes to; before pathCtx exists the caller's context
\* stands for it.
Looked == glance # "unread"
Ended == TerminalContext(glance, callerErr, IF phase = "start" THEN callerErr ELSE pathErr)

\* Mutant: a chain that failed after a redirect falls back too.
FallbackAfterResponse ==
  /\ chain = "all_candidates_failed"
  /\ ~fallbackUsed

FallsBack ==
  /\ chain = "all_candidates_failed"
  /\ ~fallbackUsed
  /\ ~hadResponse

\* Where Observe and its helpers call terminalContext.
Looks ==
  \/ phase = "start" /\ hostname = "valid"
  \/ phase \in {"enter", "resolved", "dialled"}
  \/ phase = "chain_end" /\ (~FallsBack \/ pathErr # "active")

\* The first read of terminalContext; the others are part of what it decides.
Look ==
  /\ Looks
  /\ glance = "unread"
  /\ glance' = IF callerErr = "canceled" THEN "canceled" ELSE "not_canceled"
  /\ UNCHANGED <<phase, contexts, hostname, walk, hop, report, chain, result>>

-----------------------------------------------------------------------------
(***************************************************************************)
(* Observe: the checks before the path context exists.                     *)
(***************************************************************************)
Finish(reason) ==
  /\ phase' = "returned"
  /\ result' = [reason |-> reason, redirects |-> redirects,
                fallback |-> fallbackUsed, hops |-> hops]

Start ==
  /\ phase = "start"
  /\ \/ hostname # "valid" /\ Finish("invalid_input")
     \/ hostname = "valid" /\ Looked /\ Ended # "none" /\ Finish(Ended)
     \/ /\ hostname = "valid" /\ Looked /\ Ended = "none"
        /\ phase' = "enter"
        /\ UNCHANGED result
  /\ glance' = "unread"
  /\ UNCHANGED <<contexts, hostname, walk, hop, report, chain>>

(***************************************************************************)
(* observeHop, up to the resolution.                                       *)
(***************************************************************************)
EndChain(reason) ==
  /\ phase' = "chain_end"
  /\ chain' = reason

EnterHop ==
  /\ phase = "enter"
  /\ Looked
  /\ IF Ended # "none"
     THEN EndChain(Ended)
     ELSE phase' = "resolve" /\ UNCHANGED chain
  /\ glance' = "unread"
  /\ UNCHANGED <<contexts, hostname, walk, hop, report, result>>

\* An adapter may report a cancellation nobody asked for only if it is injected.
MayCancel == AnyAdapter \/ pathErr = "canceled"

NewHop(outcome, addresses) ==
  /\ outcome = "cancelled" => MayCancel
  /\ hop' = [url |-> current, outcome |-> outcome, addresses |-> addresses,
             attempts |-> <<>>]
  /\ phase' = "resolved"
  /\ UNCHANGED chain

Resolve ==
  /\ phase = "resolve"
  /\ \/ \E answer \in Answers : NewHop("succeeded", answer)
     \/ \E outcome \in {"failed", "cancelled"} : NewHop(outcome, <<>>)
     \/ EndChain("invalid_probe_evidence") /\ UNCHANGED hop
  /\ glance' = "unread"
  /\ UNCHANGED <<contexts, hostname, walk, report, result>>

(***************************************************************************)
(* observeHop after the resolution; observeChain keeps the hop it returns. *)
(***************************************************************************)
KeepHop ==
  /\ hops' = Append(hops, hop)
  /\ redirects' = IF pending THEN redirects + 1 ELSE redirects

EndHop(reason) ==
  /\ KeepHop
  /\ pending' = FALSE
  /\ EndChain(reason)
  /\ UNCHANGED <<current, seen, hadResponse>>

ResolutionReason ==
  IF Ended # "none" THEN Ended
  ELSE IF hop.outcome = "cancelled" THEN "cancelled"
  ELSE IF hop.outcome = "failed" THEN "resolution_failed"
  ELSE IF SelectedCandidates(hop.addresses) = <<>> THEN "no_public_candidates"
  ELSE "none"

Resolved ==
  /\ phase = "resolved"
  /\ Looked
  /\ \/ ResolutionReason # "none" /\ EndHop(ResolutionReason)
     \/ /\ ResolutionReason = "none"
        /\ phase' = "dial"
        /\ UNCHANGED <<walk, hops, redirects, chain>>
  /\ glance' = "unread"
  /\ UNCHANGED <<contexts, hostname, hop, fallbackUsed, result>>

NextCandidate == SelectedCandidates(hop.addresses)[Len(hop.attempts) + 1]

Untried == Len(hop.attempts) < Len(SelectedCandidates(hop.addresses))

\* The web adapter's observation of the next candidate is added to the hop.
Record(outcome, location) ==
  /\ outcome = "cancelled" => MayCancel
  /\ hop' = [hop EXCEPT !.attempts = Append(@,
               [address |-> NextCandidate, outcome |-> outcome, location |-> location])]

Dial ==
  /\ phase = "dial"
  /\ Untried
  /\ \/ /\ phase' = "dialled"
        /\ \/ \E outcome \in {"failed", "cancelled"} : Record(outcome, "none")
           \/ \E location \in Locations : Record("succeeded", location)
        /\ UNCHANGED <<walk, hops, redirects, chain>>
     \/ EndHop("invalid_probe_evidence") /\ UNCHANGED hop
  /\ glance' = "unread"
  /\ UNCHANGED <<contexts, hostname, fallbackUsed, result>>

CandidatesSpent ==
  /\ phase = "dial"
  /\ ~Untried
  /\ EndHop("all_candidates_failed")
  /\ glance' = "unread"
  /\ UNCHANGED <<contexts, hostname, hop, fallbackUsed, result>>

(***************************************************************************)
(* observeChain: a response ends the chain or leads to the next hop.       *)
(***************************************************************************)
LastAttempt == Last(hop.attempts)

\* Mutant: the loop check is left out.
LoopUnchecked(location, followed) ==
  IF location = "final" THEN "final_response"
  ELSE IF followed >= RedirectLimit THEN "redirect_limit"
  ELSE IF location \in TargetFaults THEN location
  ELSE "none"

\* Why a response ends the chain, "none" for a redirect that is followed.
ResponseReason(location, followed) ==
  IF location = "final" THEN "final_response"
  ELSE IF followed >= RedirectLimit THEN "redirect_limit"
  ELSE IF location \in TargetFaults THEN location
  ELSE IF location \in seen THEN "redirect_loop"
  ELSE "none"

Respond(location) ==
  LET reason == ResponseReason(location, redirects')
  IN  /\ KeepHop
      /\ hadResponse' = TRUE
      /\ \/ /\ reason # "none"
            /\ EndChain(reason)
            /\ pending' = FALSE
            /\ UNCHANGED <<current, seen>>
         \/ /\ reason = "none"
            /\ pending' = TRUE
            /\ seen' = seen \cup {location}
            /\ current' = location
            /\ phase' = "enter"
            /\ UNCHANGED chain

AttemptReason ==
  IF Ended # "none" THEN Ended
  ELSE IF LastAttempt.outcome = "cancelled" THEN "cancelled"
  ELSE "none"

Dialled ==
  /\ phase = "dialled"
  /\ Looked
  /\ \/ AttemptReason # "none" /\ EndHop(AttemptReason)
     \/ /\ AttemptReason = "none"
        /\ LastAttempt.outcome = "succeeded"
        /\ Respond(LastAttempt.location)
     \/ /\ AttemptReason = "none"
        /\ LastAttempt.outcome = "failed"
        /\ phase' = "dial"
        /\ UNCHANGED <<walk, hops, redirects, chain>>
  /\ glance' = "unread"
  /\ UNCHANGED <<contexts, hostname, hop, fallbackUsed, result>>

-----------------------------------------------------------------------------
(***************************************************************************)
(* Observe after a chain: the HTTP fallback, or the end of the path.       *)
(***************************************************************************)
\* Mutant: the fallback starts the path afresh, with a new report.
FallbackAfresh ==
  /\ phase = "chain_end"
  /\ FallsBack
  /\ pathErr = "active"
  /\ current' = FallbackURL
  /\ seen' = {FallbackURL}
  /\ pending' = FALSE
  /\ hops' = <<>>
  /\ redirects' = 0
  /\ chain' = "none"
  /\ phase' = "enter"
  /\ glance' = "unread"
  /\ UNCHANGED <<contexts, hostname, hadResponse, hop, fallbackUsed, result>>

Fallback ==
  /\ phase = "chain_end"
  /\ FallsBack
  /\ pathErr = "active"
  /\ fallbackUsed' = TRUE
  /\ current' = FallbackURL
  /\ seen' = {FallbackURL}
  /\ pending' = FALSE
  /\ hadResponse' = FALSE
  /\ chain' = "none"
  /\ phase' = "enter"
  /\ glance' = "unread"
  /\ UNCHANGED <<contexts, hostname, hop, hops, redirects, result>>

\* Mutant: the chain's reason stands whatever happened to the context since.
FinishUnchecked ==
  /\ phase = "chain_end"
  /\ Looked
  /\ ~FallsBack \/ pathErr # "active"
  /\ Finish(chain)
  /\ glance' = "unread"
  /\ UNCHANGED <<contexts, hostname, walk, hop, report, chain>>

\* The context is looked at once more: a path that has ended is not completed.
FinishPath ==
  /\ phase = "chain_end"
  /\ Looked
  /\ ~FallsBack \/ pathErr # "active"
  /\ Finish(IF Ended # "none" THEN Ended ELSE chain)
  /\ glance' = "unread"
  /\ UNCHANGED <<contexts, hostname, walk, hop, report, chain>>

Returned == phase = "returned"

Done == Returned /\ UNCHANGED vars

Step ==
  \/ Look \/ Start \/ EnterHop \/ Resolve \/ Resolved \/ Dial \/ CandidatesSpent \/ Dialled
  \/ Fallback \/ FinishPath

Next == CallerEnds \/ Propagate \/ PathDeadline \/ Step \/ Done

Spec == Init /\ [][Next]_vars

(***************************************************************************)
(* Observe is one goroutine, and every resolution and every attempt runs   *)
(* under a context of perProbeTimeout: its next step always comes.         *)
(***************************************************************************)
FairSpec == Spec /\ WF_vars(Step) /\ WF_vars(Propagate)
=============================================================================
