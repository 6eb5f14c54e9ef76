-------------------------- MODULE ResolverInventory --------------------------
(***************************************************************************)
(* internal/platform/resolverinventory: which resolvers the system is      *)
(* configured with, collected under the caller's own context.              *)
(*                                                                         *)
(* A server is "usable" for a query on port 53, "rejected" as a target, or *)
(* on another port; "malformed" ones make the inventory invalid.           *)
(***************************************************************************)
EXTENDS Probe, Sequences

CONSTANT Inventories  \* the lists of servers a system may report

Locals == [input : {"empty"}, cause : {"none"}, servers : {<<>>}]
Init == Start(Locals)

Returns(cause, servers) ==
  /\ phase' = "collected"
  /\ local' = [local EXCEPT !.cause = cause, !.servers = servers]
  /\ UNCHANGED <<contexts, result>>

\* collectPlatform looks at the context itself, or runs a command under it.
CollectFails ==
  /\ phase = "start"
  /\ \E cause \in {"unavailable", "invalid"} : Returns(cause, <<>>)

GiveUp ==
  /\ phase = "start"
  /\ Ended(parent)
  /\ Returns("own", <<>>)

Collect ==
  /\ phase = "start"
  /\ \E servers \in Inventories : Returns("none", servers)

\* normalizeEvidence: an inventory without a server is no inventory.
Normal(servers) == servers # <<>> /\ \A k \in DOMAIN servers : servers[k] # "malformed"

FailureCode(cause) ==
  CASE parent = "canceled" -> "cancelled"
    [] parent = "deadline" -> "timeout"
    [] parent = "active" /\ cause = "invalid" -> "resolver_inventory_invalid"
    [] OTHER -> "resolver_inventory_unavailable"

Judge ==
  /\ phase = "collected"
  /\ CASE local.cause # "none" -> Fail(FailureCode(local.cause))
       [] local.cause = "none" /\ Ended(parent) -> Fail(FailureCode("own"))
       [] OTHER -> IF Normal(local.servers) THEN GoTo("commit") ELSE Fail(FailureCode("invalid"))

Commit ==
  /\ phase = "commit"
  /\ \/ Ended(parent) /\ Fail(FailureCode("own"))
     \/ ~Ended(parent) /\ Succeed(local.servers)

Steps == GiveUp \/ Judge \/ Commit
Observe == Steps \/ CollectFails \/ Collect

\* What the system is asked for is always answered.
Progress == Steps \/ CollectFails \/ Collect

Spec == Init /\ [][Observe \/ CallerEnds]_vars /\ WF_vars(Progress)

\* resolverinventory.Validate.
ValidResult(r) ==
  /\ ValidEnvelope(r)
  /\ r.code \in {"none", "resolver_inventory_unavailable",
                 "resolver_inventory_invalid", "timeout", "cancelled"}
  /\ r.input = {"empty"}
  /\ \A e \in r.evidence : Normal(e)
=============================================================================
