------------------------- MODULE WebRecheckProperties -------------------------
(***************************************************************************)
(* The properties of webrecheck.Observe.  Validate, the package's own      *)
(* contract, is translated on its own.                                     *)
(***************************************************************************)
EXTENDS WebRecheck, FiniteSets

\* validateTerminalShape.
ValidShape ==
  \/ result.status = "completed" /\ result.reason = "none"
  \/ result.status = "stopped" /\ result.reason \in {"recheck_timeout", "invalid_probe_evidence"}
  \/ result.status = "cancelled" /\ result.reason = "cancelled"

\* The attempts follow the schedule, from one adapter, and only the last one of
\* a cancelled recheck is cancelled.
ValidAttempts ==
  LET expected == Schedule(local, reference)
      tried == result.attempts
  IN  /\ Len(tried) <= Len(expected)
      /\ \A k \in DOMAIN tried :
           /\ tried[k].origin = expected[k].origin
           /\ tried[k].ip = expected[k].ip
           /\ tried[k].source = tried[1].source
           /\ tried[k].outcome = "cancelled" =>
                result.status = "cancelled" /\ k = Len(tried)
      /\ result.status = "completed" => Len(tried) = Len(expected)
      /\ result.reason = "invalid_probe_evidence" => Len(tried) < Len(expected)

\* Of an input that is not refused; the shape has no place for invalid_input.
ValidConclusion ==
  /\ ValidShape
  /\ result.localOmitted = Omitted(local)
  /\ result.referenceOmitted = Omitted(reference)
  /\ ValidAttempts

\* Validate.  It normalizes the input again, which must leave it as it is; the lists
\* always stay as normalizeCandidates left them, the hostname may not.
ValidResult ==
  /\ hostname # "unstable"
  /\ IF Refused
     THEN /\ result.status = "stopped" /\ result.reason = "invalid_input"
          /\ result.attempts = <<>>
          /\ result.localOmitted = 0 /\ result.referenceOmitted = 0
     ELSE ValidConclusion

\* The Result that Observe returns satisfies the package's Validate, whatever the
\* observations are and wherever the deadline or the caller cut the schedule.
EmittedResultValid == Returned => ValidResult

\* A success counts only if the context was live when it was judged: once the
\* context has ended, no attempt is recorded as succeeded.  IsBounded, below, has
\* this among other things.
NoLateSuccess ==
  [][\A k \in DOMAIN attempts' \ DOMAIN attempts :
       attempts'[k].outcome = "succeeded" => recheckErr = "active"]_vars

\* A cancellation by the caller that came before the contexts are looked at next is
\* what is reported, or the broken observation: never a completed recheck and never
\* a timeout, even if a deadline has passed as well.  One that comes between the two
\* reads of a look is taken for a timeout.
CancellationWins ==
  callerErr = "canceled" /\ Live /\ glance # "not_canceled"
    ~> Returned /\ result.reason \in {"cancelled", "invalid_probe_evidence"}

\* However the recheck ends, one source was not tried more than once ahead of the
\* other, unless the other's candidates were used up: what is left can be compared.
Tried(origin) == {k \in DOMAIN attempts : attempts[k].origin = origin}
Balanced ==
  LET ours == Cardinality(Tried("local"))
      theirs == Cardinality(Tried("reference"))
  IN  /\ ours <= theirs + 1 \/ theirs = Bound(reference)
      /\ theirs <= ours \/ ours = Bound(local)

\* Observe returns without help from the deadline: the schedule bounds it.
Terminates == <>Returned

-----------------------------------------------------------------------------
(***************************************************************************)
(* What a bounded observation promises.                                    *)
(***************************************************************************)
Evidence == [k \in DOMAIN attempts |-> attempts[k].outcome]

Verdict ==
  IF result.status \in {"none", "completed"} THEN result.status
  ELSE CASE result.reason = "invalid_input"          -> "refused"
         [] result.reason = "recheck_timeout"        -> "timeout"
         [] result.reason = "invalid_probe_evidence" -> "broken"
         [] OTHER                                    -> "cancelled"

Bounded == INSTANCE BoundedObservation WITH
  caller <- callerErr, own <- recheckErr, evidence <- Evidence, verdict <- Verdict,
  KeepsLate <- FALSE

\* Observe is a bounded observation: it drops a late success, records nothing after
\* a cancelled attempt, completes only under live contexts, and does not report a
\* timeout when its last look at the contexts began after the caller cancelled.
IsBounded == Bounded!Spec

-----------------------------------------------------------------------------
(***************************************************************************)
(* The inductive invariant.                                                *)
(***************************************************************************)
\* Only the caller's cancellation cancels the recheck, or is seen.
ContextInv == "canceled" \in {recheckErr, glance} => callerErr = "canceled"

\* Once past Start the request is good, and the loop knows what is left.
LoopInv ==
  /\ Live => ~Refused
  /\ phase = "start" => attempts = <<>>
  /\ phase \in {"observe", "judge"} => Remaining
  /\ phase = "final" => ~Remaining

\* Until Observe returns, the attempts follow the schedule, come from the one
\* accepted adapter and none is cancelled.
EvidenceInv ==
  /\ \A s1, s2 \in accepted : s1 = s2
  /\ Len(attempts) <= Len(Schedule(local, reference))
  /\ ~Returned =>
       \A k \in DOMAIN attempts :
         /\ attempts[k].origin = Schedule(local, reference)[k].origin
         /\ attempts[k].ip = Schedule(local, reference)[k].ip
         /\ attempts[k].source \in accepted
         /\ attempts[k].outcome # "cancelled"

\* The adapter of New reports a cancellation only under a cancelled context, which the
\* look after it then sees.
AdapterInv ==
  /\ phase = "observe" => ~Looked
  /\ phase = "judge" /\ observed.outcome = "cancelled" /\ ~AnyAdapter =>
       recheckErr = "canceled" /\ glance # "not_canceled"

\* It holds with any adapter; with the one of New every result is valid, because
\* of what it says of the state in which Observe returned.
IInv == TypeOK /\ ContextInv /\ LoopInv /\ EvidenceInv /\ AdapterInv
=============================================================================
