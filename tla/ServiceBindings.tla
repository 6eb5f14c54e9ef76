--------------------------- MODULE ServiceBindings ---------------------------
(***************************************************************************)
(* internal/dnshttpspath/service.go: what the HTTPS client can make of the *)
(* ServiceMode records of an answer, and where it would connect to.        *)
(*                                                                         *)
(* A record is its priority, its host (the record's own name if the target *)
(* is the root) and its parameters.  dnsobservation.Validate has already   *)
(* refused keys that repeat or do not increase and values that are not     *)
(* hexadecimal, so the parameters are a set of keys and what each of the   *)
(* values that parse says.                                                 *)
(***************************************************************************)
EXTENDS Integers, Sequences, FiniteSets, Enumeration

mandatory == 0
alpn == 1
noDefaultALPN == 2
port == 3
ipv4hint == 4
ipv6hint == 6

\* The keys that are there, those whose value does not parse, and what the others say.
Parameters ==
  [present : SUBSET Nat, bad : SUBSET Nat, mandatoryKeys : SUBSET Nat,
   alpnIDs : SUBSET STRING, port : Nat]

\* No parameters at all: the record of a plain HTTPS service.
NoParameters ==
  [present |-> {}, bad |-> {}, mandatoryKeys |-> {}, alpnIDs |-> {}, port |-> 443]

\* Keys whose value does not parse (the first loop of evaluateBinding),
\* no-default-alpn without alpn, and a mandatory list that names itself or a key
\* that is not there.
Malformed(p) ==
  p.bad
  \cup {k \in {noDefaultALPN} : k \in p.present /\ alpn \notin p.present}
  \cup {k \in p.mandatoryKeys : mandatory \in p.present \ p.bad
                                /\ (k = mandatory \/ k \notin p.present)}

\* What the client would have to understand and does not.
Unsupported(p) ==
  {k \in p.mandatoryKeys : mandatory \in p.present /\ k \notin {alpn, noDefaultALPN, port}}
  \cup {k \in {port} : k \in p.present /\ p.port # 443}
  \cup {k \in {alpn, noDefaultALPN} : noDefaultALPN \in p.present /\ "http/1.1" \notin p.alpnIDs}

\* evaluateBinding; normalizedKeys makes a set of the keys.
Decision(service) ==
  LET verdict ==
        IF Malformed(service.params) # {}
        THEN [reason |-> "malformed_parameters", keys |-> Malformed(service.params)]
        ELSE IF Unsupported(service.params) # {}
        THEN [reason |-> "unsupported_parameters", keys |-> Unsupported(service.params)]
        ELSE [reason |-> "usable", keys |-> {}]
  IN  [host |-> service.host, priority |-> service.priority,
       reason |-> verdict.reason, keys |-> verdict.keys]

\* evaluateBindings.
Decisions(services) == [i \in DOMAIN services |-> Decision(services[i])]

Usable(decisions) == {i \in DOMAIN decisions : decisions[i].reason = "usable"}

\* Mutant: the records are taken in wire order.
WireOrder(decisions, i, j) == i < j

\* The stable sort by priority.
Before(decisions, i, j) ==
  \/ decisions[i].priority < decisions[j].priority
  \/ decisions[i].priority = decisions[j].priority /\ i < j

\* serviceAddressTargets: the usable records by priority, the first of each host.
ServiceTargets(decisions) ==
  LET first == {i \in Usable(decisions) :
                  ~\E j \in Usable(decisions) :
                     decisions[j].host = decisions[i].host /\ Before(decisions, j, i)}
      order == Enumerate(first, {pair \in first \X first : Before(decisions, pair[1], pair[2])})
  IN  [k \in DOMAIN order |->
         [host |-> decisions[order[k]].host, source |-> "service_mode",
          priority |-> decisions[order[k]].priority, observations |-> <<>>]]
=============================================================================
