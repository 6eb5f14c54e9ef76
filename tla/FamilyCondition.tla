--------------------------- MODULE FamilyCondition ---------------------------
(***************************************************************************)
(* internal/platform/familycondition: which address family has a route.    *)
(* An error that says "unavailable" is evidence only while both contexts   *)
(* are live; after that it may be the ended context's.                     *)
(***************************************************************************)
EXTENDS Probe, Sequences

Routes == 2  \* routeSpecs: IPv4, then IPv6

Locals == [input : {"empty"}, cause : {"none"}, conditions : {<<>>}]
Init == Start(Locals)

Timely == parent = "active" /\ attempt = "active"

\* contextFailure; the cause "own" is the error of a context that ended.
RouteFailure(inner, cause) ==
  IF parent = "canceled" THEN "cancelled"
  ELSE IF "deadline" \in {parent, inner} \/ cause = "timeout" THEN "timeout"
  ELSE IF inner = "canceled" THEN "cancelled"
  ELSE "route_check_failure"

Enter ==
  /\ phase = "start"
  /\ \/ Ended(parent) /\ Fail(RouteFailure(parent, "own"))
     \/ /\ ~Ended(parent)
        /\ BeginAttempt
        /\ phase' = "route"
        /\ UNCHANGED <<parent, local, result>>

Add(condition) ==
  /\ local' = [local EXCEPT !.conditions = Append(@, condition)]
  /\ phase' = IF Len(local.conditions) + 1 < Routes THEN "route" ELSE "commit"
  /\ UNCHANGED <<contexts, result>>

RouteSelected ==
  /\ phase = "route"
  /\ Add("route_selected")

RouteReturns(cause) ==
  /\ phase' = "failed"
  /\ local' = [local EXCEPT !.cause = cause]
  /\ UNCHANGED <<contexts, result>>

\* Also a socket whose endpoints are not those asked for.
RouteFails ==
  /\ phase = "route"
  /\ \E cause \in {"unavailable", "timeout", "other"} : RouteReturns(cause)

GiveUp ==
  /\ phase = "route"
  /\ Ended(attempt)
  /\ RouteReturns("own")

JudgeRoute ==
  /\ phase = "failed"
  /\ \/ local.cause = "unavailable" /\ Timely /\ Add("unavailable")
     \/ ~(local.cause = "unavailable" /\ Timely) /\ Fail(RouteFailure(attempt, local.cause))

Commit ==
  /\ phase = "commit"
  /\ \/ Timely /\ Succeed(local.conditions)
     \/ ~Timely /\ Fail(RouteFailure(attempt, "own"))

Steps == Enter \/ GiveUp \/ JudgeRoute \/ Commit
Observe == Steps \/ RouteSelected \/ RouteFails \/ AttemptEnds

Progress == Steps \/ AttemptEnds
Spec == Init /\ [][Observe \/ CallerEnds]_vars /\ WF_vars(Progress)

\* familycondition.Validate.
ValidResult(r) ==
  /\ ValidEnvelope(r)
  /\ r.code \in {"none", "route_check_failure", "timeout", "cancelled"}
  /\ r.input = {"empty"}
  /\ \A e \in r.evidence :
       Len(e) = Routes /\ \A k \in DOMAIN e : e[k] \in {"route_selected", "unavailable"}
=============================================================================
