------------------------------- MODULE Probe -------------------------------
(***************************************************************************)
(* What every probe of one observation shares: the caller's context, the   *)
(* attempt's context below it, and the envelope of internal/probe in which *)
(* the one Result is returned.                                             *)
(*                                                                         *)
(* A probe is one call Observe(ctx, request).  Its module says what each   *)
(* phase does; local holds what the call keeps in its own variables, with  *)
(* the normalised input under "input".                                     *)
(***************************************************************************)
EXTENDS Naturals, FiniteSets

CONSTANT CallerErrors  \* how the caller's context may end

ASSUME CallerAssumption == CallerErrors \subseteq {"canceled", "deadline"}

VARIABLES
  parent,   \* ctx.Err() of the caller's context
  attempt,  \* attemptContext.Err(), "none" before it is made
  phase,    \* where Observe is
  local,    \* what the call holds in its variables
  result    \* the Result, outcome "none" before Observe returns

contexts == <<parent, attempt>>
vars == <<contexts, phase, local, result>>

ContextErrors == {"active", "canceled", "deadline"}
NoResult == [outcome |-> "none", code |-> "none", input |-> {}, evidence |-> {}]

Start(locals) ==
  /\ parent \in {"active"} \cup CallerErrors
  /\ attempt = "none"
  /\ phase = "start"
  /\ local \in locals
  /\ result = NoResult

-----------------------------------------------------------------------------
(***************************************************************************)
(* Contexts.  The attempt's context is a child of the caller's with a      *)
(* timeout of its own; a parent that ends reaches it a moment later.       *)
(***************************************************************************)
CallerEnds ==
  /\ phase # "returned"
  /\ parent = "active"
  /\ parent' \in CallerErrors
  /\ UNCHANGED <<attempt, phase, local, result>>

\* context.WithTimeout(ctx, timeout).
BeginAttempt == attempt' = parent

AttemptEnds ==
  /\ phase # "returned"
  /\ attempt = "active"
  /\ attempt' \in {"deadline"} \cup ({parent} \ {"active"})
  /\ UNCHANGED <<parent, phase, local, result>>

Ended(error) == error \in {"canceled", "deadline"}

\* Which end of a context is reported before anything else; a cancellation of
\* either outranks a deadline of either.
ContextFailure(inner) ==
  IF "canceled" \in {parent, inner} THEN "cancelled"
  ELSE IF "deadline" \in {parent, inner} THEN "timeout"
  ELSE "none"

-----------------------------------------------------------------------------
(***************************************************************************)
(* The envelope.                                                           *)
(***************************************************************************)
Return(outcome, code, evidence) ==
  /\ phase' = "returned"
  /\ result' = [outcome |-> outcome, code |-> code, input |-> {local.input}, evidence |-> evidence]
  /\ UNCHANGED <<contexts, local>>

Fail(code) == Return(IF code = "cancelled" THEN "cancelled" ELSE "failed", code, {})
Succeed(evidence) == Return("succeeded", "none", {evidence})

GoTo(place) ==
  /\ phase' = place
  /\ UNCHANGED <<contexts, local, result>>

Returned == phase = "returned"

\* Envelope.Validate.
ValidEnvelope(r) ==
  \/ r.outcome = "succeeded" /\ Cardinality(r.evidence) = 1 /\ r.code = "none"
  \/ r.outcome = "failed" /\ r.evidence = {} /\ r.code \notin {"none", "cancelled"}
  \/ r.outcome = "cancelled" /\ r.evidence = {} /\ r.code = "cancelled"
=============================================================================
