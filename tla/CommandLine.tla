----------------------------- MODULE CommandLine -----------------------------
(***************************************************************************)
(* cmd/reachrun/main.go: one run of the program.                           *)
(*                                                                         *)
(* A command makes its context (the signal's, with a timeout), runs one    *)
(* probe under it, validates the Result and prints it.  With the provider  *)
(* "current" the command "dns-observe" runs a second probe first, the      *)
(* resolver inventory, under the same context.  The five commands that run *)
(* a path or a batch are one command "path" here, with a request that may  *)
(* be refused; what their Results may be is the subject of modules of      *)
(* their own.  Of these, "dns-https-path" takes a resolver configuration   *)
(* too (main.go:497) and with the provider "current" runs the inventory    *)
(* first, as "dns-observe current" does here; "path" leaves that out.      *)
(***************************************************************************)
EXTENDS Probe, SSHIdentification

CONSTANTS
  Commands,                                \* the commands that may be given
  LeafOrders, Streams, Protocols,          \* what servers may send
  Inventories, Responses,
  Hostnames, Inputs,                       \* what may be asked for
  Hostname, Unhostable, MaxRecords

Probes == {"tls-observe", "ssh-observe", "web-observe", "family-conditions",
           "resolve", "resolver-inventory", "dns-observe", "path"}

ASSUME CommandsAssumption == Commands \subseteq Probes \cup {"dns-observe current"}

\* parseDNSObservationArgs lets no other type or transport through, and the
\* resolvers it names are configured, each for the transports it is named with.
ASSUME ArgumentsAssumption ==
  /\ Hostnames \subseteq {"valid", "invalid", "unstable"}
  /\ \A i \in Inputs :
       /\ i.hostname \in {"valid", "invalid", "unstable"}
       /\ i.type \in {"A", "CNAME"}
       /\ i.transport \in {"udp", "tcp", "doh"}
       /\ i.resolver = IF i.transport = "doh" THEN "doh" ELSE "wire"

ASSUME PeersAssumption ==
  /\ LeafOrders \subseteq {"before", "same"}
  /\ Protocols \subseteq {"1.0", "1.1", "other"}
  /\ Streams \subseteq Seq(Lines)
  /\ \A i \in Inventories : \A k \in DOMAIN i :
       i[k] \in {"usable", "rejected", "other_port", "malformed"}
  /\ \A r \in Responses :
       /\ r.rcode \in {"noerror", "nxdomain", "other"}
       /\ {r.truncated, r.damaged} \subseteq BOOLEAN
       /\ Len(r.answers) \in Nat /\ DOMAIN r.answers = 1..Len(r.answers)
       /\ r.others \in Nat
       /\ IsFiniteSet(r.soa)

ASSUME RecordsAssumption == MaxRecords \in Nat

VARIABLES
  command,  \* the command given
  task,     \* the probe at work
  output,   \* stdout: "nothing", "document", "broken"; "refused" if Validate was
  exit      \* {} or {the exit code}

run == <<command, task, output, exit>>
clVars == <<vars, run>>

TLS == INSTANCE TLSObservation
SSH == INSTANCE SSHObservation
Web == INSTANCE WebObservation
Family == INSTANCE FamilyCondition
System == INSTANCE SystemResolver
Inventory == INSTANCE ResolverInventory
DNS == INSTANCE DNSObservationProperties

-----------------------------------------------------------------------------
PathLocals == [input : [hostname : Hostnames], cause : {"none"}]

LocalsOf(t) ==
  CASE t = "tls-observe" -> TLS!Locals
    [] t = "ssh-observe" -> SSH!Locals
    [] t = "web-observe" -> Web!Locals
    [] t = "family-conditions" -> Family!Locals
    [] t = "resolve" -> System!Locals
    [] t = "resolver-inventory" -> Inventory!Locals
    [] t = "dns-observe" -> DNS!Locals
    [] t = "path" -> PathLocals

Init ==
  /\ command \in Commands
  /\ task = IF command = "dns-observe current" THEN "resolver-inventory" ELSE command
  /\ Start(LocalsOf(task))
  /\ output = "nothing"
  /\ exit = {}

-----------------------------------------------------------------------------
(***************************************************************************)
(* The probes.                                                             *)
(***************************************************************************)
\* The switch that turns a status into an outcome; a path whose request is refused
\* can only have stopped.
PathReturns ==
  /\ phase = "start"
  /\ \/ Fail("stopped")
     \/ /\ local.input.hostname = "valid"
        /\ \/ parent = "active" /\ Return("succeeded", "none", {"completed"})
           \/ parent = "canceled" /\ Fail("cancelled")

Runs(t) == task = t /\ UNCHANGED run

Observe ==
  \/ Runs("tls-observe") /\ TLS!Observe
  \/ Runs("ssh-observe") /\ SSH!Observe
  \/ Runs("web-observe") /\ Web!Observe
  \/ Runs("family-conditions") /\ Family!Observe
  \/ Runs("resolve") /\ System!Observe
  \/ Runs("resolver-inventory") /\ Inventory!Observe
  \/ Runs("dns-observe") /\ DNS!Observe
  \/ Runs("path") /\ PathReturns

ValidResult(r) ==
  CASE task = "tls-observe" -> TLS!ValidResult(r)
    [] task = "ssh-observe" -> SSH!ValidResult(r)
    [] task = "web-observe" -> Web!ValidResult(r)
    [] task = "family-conditions" -> Family!ValidResult(r)
    [] task = "resolve" -> System!ValidResult(r)
    [] task = "resolver-inventory" -> Inventory!ValidResult(r)
    [] task = "dns-observe" -> DNS!ValidResult(r)
    [] task = "path" -> ValidEnvelope(r) /\ \A input \in r.input : input.hostname # "unstable"

-----------------------------------------------------------------------------
(***************************************************************************)
(* resolverConfigForProvider.                                              *)
(***************************************************************************)
\* currentResolverEndpoint: some server on port 53 can be dialled.
CurrentResolver ==
  IF /\ ValidResult(result)
     /\ \E servers \in result.evidence : \E k \in DOMAIN servers : servers[k] = "usable"
  THEN "wire" ELSE "missing"

\* An inventory that was cancelled cancels the command; any other one leaves the
\* DNS observer to say that its resolver is unknown.
UseInventory ==
  /\ command = "dns-observe current"
  /\ task = "resolver-inventory"
  /\ Returned
  /\ task' = "dns-observe"
  /\ parent' = IF parent = "active" /\ ValidResult(result) /\ result.outcome = "cancelled"
               THEN "canceled" ELSE parent
  /\ attempt' = "none"
  /\ phase' = "start"
  /\ \E l \in {l \in DNS!Locals : l.input.transport # "doh"} :
       local' = [l EXCEPT !.input.resolver = CurrentResolver]
  /\ result' = NoResult
  /\ UNCHANGED <<command, output, exit>>

-----------------------------------------------------------------------------
(***************************************************************************)
(* The end of every command.                                               *)
(***************************************************************************)
Concluded == Returned /\ ~(command = "dns-observe current" /\ task = "resolver-inventory")

ExitCode ==
  CASE result.outcome = "succeeded" -> 0
    [] result.outcome = "cancelled" -> 130
    [] OTHER -> 1

\* A Result that Validate refuses is not printed; a write to stdout may fail.
Endings ==
  IF ValidResult(result)
  THEN {[output |-> "document", code |-> ExitCode], [output |-> "broken", code |-> 1]}
  ELSE {[output |-> "refused", code |-> 1]}

EmitResult ==
  /\ Concluded
  /\ exit = {}
  /\ \E ending \in Endings :
       /\ output' = ending.output
       /\ exit' = {ending.code}
  /\ UNCHANGED <<vars, command, task>>

-----------------------------------------------------------------------------
Done == exit # {} /\ UNCHANGED clVars

Next ==
  \/ Observe
  \/ CallerEnds /\ UNCHANGED run
  \/ UseInventory \/ EmitResult
  \/ Done

\* What the program and its timers do by themselves.
Progress ==
  \/ Runs("tls-observe") /\ TLS!Progress
  \/ Runs("ssh-observe") /\ SSH!Progress
  \/ Runs("web-observe") /\ Web!Progress
  \/ Runs("family-conditions") /\ Family!Progress
  \/ Runs("resolve") /\ System!Steps
  \/ Runs("resolver-inventory") /\ Inventory!Progress
  \/ Runs("dns-observe") /\ DNS!Progress
  \/ Runs("path") /\ PathReturns
  \/ UseInventory \/ EmitResult

Spec == Init /\ [][Next]_clVars
FairSpec == Spec /\ WF_clVars(Progress)
=============================================================================
