---------------------------- MODULE MCDNSHTTPSPath ----------------------------
(***************************************************************************)
(* The records TLC lets the answers hold.                                  *)
(***************************************************************************)
EXTENDS DNSHTTPSPathProperties, TLC

CONSTANTS resolver, other

\* A resolver is only ever compared with another one, and no property is about
\* liveness.
Resolvers == Permutations(Adapters)

\* HTTP/3 only, a port of its own, no-default-alpn without alpn, a mandatory
\* address hint that is there, and a mandatory key that is not.
http3 == [NoParameters EXCEPT !.present = {alpn, noDefaultALPN}, !.alpnIDs = {"h3"}]
otherPort == [NoParameters EXCEPT !.present = {port}, !.port = 8443]
alpnMissing == [NoParameters EXCEPT !.present = {noDefaultALPN}]
needsHint == [NoParameters EXCEPT !.present = {mandatory, ipv4hint}, !.mandatoryKeys = {ipv4hint}]
needsAbsent == [NoParameters EXCEPT !.present = {mandatory}, !.mandatoryKeys = {port}]

service(host, priority, params) == [host |-> host, priority |-> priority, params |-> params]

\* None of them is usable.
notUsable ==
  <<service("a", 1, otherPort), service("b", 1, alpnMissing), service("c", 2, needsHint)>>

\* Four usable ones for three hosts, the preferred one last, the first host twice,
\* between two that are not usable.
someUsable ==
  <<service("a", 2, NoParameters), service("d", 1, http3), service("b", 2, NoParameters),
    service("a", 3, NoParameters), service("d", 1, needsAbsent), service("c", 1, NoParameters)>>

\* An answer without HTTPS records, with ServiceMode records, with an AliasMode
\* record, with both.
records(target, services) == [alias |-> target, services |-> services]
SomeRecords ==
  {records(NoAlias, <<>>), records(NoAlias, notUsable), records(NoAlias, someUsable),
   records(Root, someUsable)} \cup {records(target, <<>>) : target \in Names \cup {Root}}
=============================================================================
