--------------------------- MODULE SystemResolver ---------------------------
(***************************************************************************)
(* internal/platform/systemresolver: one lookup under the caller's own     *)
(* context; there is no attempt below it.                                  *)
(***************************************************************************)
EXTENDS Probe

Locals == [input : [hostname : {"valid", "invalid"}], cause : {"none"}, addresses : {"none"}]
Init == Start(Locals)

Normalize ==
  /\ phase = "start"
  /\ \/ local.input.hostname = "invalid" /\ Fail("invalid_input")
     \/ local.input.hostname = "valid" /\ GoTo("lookup")

LookupReturns(cause, addresses) ==
  /\ phase' = "found"
  /\ local' = [local EXCEPT !.cause = cause, !.addresses = addresses]
  /\ UNCHANGED <<contexts, result>>

LookupFails ==
  /\ phase = "lookup"
  /\ \E cause \in {"not_found", "timeout", "other"} : LookupReturns(cause, "none")

GiveUp ==
  /\ phase = "lookup"
  /\ Ended(parent)
  /\ LookupReturns("own", "none")

LookupSucceeds ==
  /\ phase = "lookup"
  /\ \E addresses \in {"some", "empty", "invalid"} : LookupReturns("none", addresses)

\* classifyFailure.
LookupCode ==
  CASE parent = "canceled" -> "cancelled"
    [] parent = "deadline" -> "timeout"
    [] parent = "active" /\ local.cause = "not_found" -> "name_unresolved"
    [] parent = "active" /\ local.cause = "timeout" -> "timeout"
    [] OTHER -> "resolution_failure"

\* Mutant: a lookup that found nothing is a success.
JudgeEmpty ==
  /\ phase = "found"
  /\ IF local.cause = "none" /\ parent = "active" /\ local.addresses # "invalid"
     THEN Succeed([addresses |-> local.addresses])
     ELSE Fail(LookupCode)

\* The context decides; the addresses are only worked on after it was found live.
Judge ==
  /\ phase = "found"
  /\ IF local.cause = "none" /\ parent = "active" /\ local.addresses = "some"
     THEN Succeed([addresses |-> local.addresses])
     ELSE Fail(LookupCode)

Steps == Normalize \/ GiveUp \/ Judge
Observe == Steps \/ LookupFails \/ LookupSucceeds

Spec == Init /\ [][Observe \/ CallerEnds]_vars /\ WF_vars(Steps)

\* systemresolver.Validate.
ValidResult(r) ==
  /\ ValidEnvelope(r)
  /\ r.code \in {"none", "invalid_input", "name_unresolved", "timeout",
                 "resolution_failure", "cancelled"}
  /\ \A input \in r.input : (input.hostname = "invalid") = (r.code = "invalid_input")
  /\ \A e \in r.evidence : e.addresses = "some"
=============================================================================
