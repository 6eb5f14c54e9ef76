----------------------------- MODULE DNSMessage -----------------------------
(***************************************************************************)
(* internal/dnsobservation/message.go and validate.go: what a DNS response *)
(* says, and what Validate asks of the evidence made from it.              *)
(*                                                                         *)
(* A response is what can be read of it before the first damaged byte:     *)
(*   identified  its header and its one question are those of the query    *)
(*   rcode       "noerror", "nxdomain" or "other", with the OPT extension  *)
(*   truncated   the TC flag                                               *)
(*   damaged     some section cannot be parsed to its end                  *)
(*   answers     the typed answer records of class IN, in wire order       *)
(*   soa         the mailbox names of the SOA among the authorities        *)
(*   ns          an NS record among the authorities                        *)
(*   others      how many further records there are                        *)
(* A record has an owner name, a type and, for a CNAME, a target.          *)
(***************************************************************************)
EXTENDS Naturals, Sequences, FiniteSets

CONSTANTS
  Hostname,    \* the name asked for
  Unhostable,  \* names legal on the wire that normalizeHostname refuses
  MaxRecords   \* maxResponseRecords

ASSUME RecordsAssumption == MaxRecords \in Nat

NoTarget == "none"

-----------------------------------------------------------------------------
(***************************************************************************)
(* Decoding.                                                               *)
(***************************************************************************)
RecordCount(r) ==
  Len(r.answers) + Cardinality(r.soa) + (IF r.ns THEN 1 ELSE 0) + r.others

\* Mutant: a damaged section is always taken for the end of the message.
ForgivesDamage(r) == r.identified /\ RecordCount(r) <= MaxRecords

\* Damage is forgiven where the header says that the message was cut; too many
\* records never are.
Decodable(r) ==
  /\ r.identified
  /\ RecordCount(r) <= MaxRecords
  /\ r.damaged => r.truncated

-----------------------------------------------------------------------------
(***************************************************************************)
(* The CNAME chain.  The first record of an owner counts; a second one     *)
(* with another target leaves the chain in doubt.                          *)
(***************************************************************************)
Aliases(records) == {k \in DOMAIN records : records[k].type = "CNAME"}
Owners(records) == {records[k].name : k \in Aliases(records)}

TargetOf(records, name) ==
  LET own == {k \in Aliases(records) : records[k].name = name}
      first == CHOOSE k \in own : \A j \in own : k <= j
  IN records[first].target

Unambiguous(records) ==
  \A j, k \in Aliases(records) :
    records[j].name = records[k].name => records[j].target = records[k].target

\* Mutant: the name reached is not remembered.
FollowForgetful(walk, records) ==
  IF walk.loops \/ walk.name \notin Owners(records) THEN walk
  ELSE LET target == TargetOf(records, walk.name)
       IN IF target \in walk.seen THEN [walk EXCEPT !.loops = TRUE]
          ELSE [walk EXCEPT !.name = target]

\* One turn of the loop; a target seen before stops it short of that target.
Follow(walk, records) ==
  IF walk.loops \/ walk.name \notin Owners(records) THEN walk
  ELSE LET target == TargetOf(records, walk.name)
       IN IF target \in walk.seen THEN [walk EXCEPT !.loops = TRUE]
          ELSE [walk EXCEPT !.name = target, !.seen = @ \cup {target}]

FollowCNAMEs(records) ==
  LET walk[n \in 0..Len(records)] ==
        IF n = 0 THEN [name |-> Hostname, seen |-> {Hostname}, loops |-> FALSE]
        ELSE Follow(walk[n - 1], records)
      end == walk[Len(records)]
  IN [name |-> end.name,
      complete |-> Unambiguous(records) /\ ~end.loops /\ end.name \notin Owners(records)]

-----------------------------------------------------------------------------
(***************************************************************************)
(* Classification and evidence.                                            *)
(***************************************************************************)
Answers(records, type, effective) ==
  \E k \in DOMAIN records :
    /\ records[k].type = type
    /\ records[k].name = (IF type = "CNAME" THEN Hostname ELSE effective)

\* The order of the early returns.
ClassifyAnswer(r, type, chain) ==
  IF r.truncated \/ r.damaged \/ ~chain.complete THEN "incomplete"
  ELSE IF r.rcode = "nxdomain" THEN "name_error"
  ELSE IF r.rcode = "other" THEN "rcode_error"
  ELSE IF Answers(r.answers, type, chain.name) THEN "answer"
  ELSE IF r.soa = {} /\ r.ns THEN "referral"
  ELSE "no_data"

EvidenceFromResponse(r, type) ==
  LET chain == FollowCNAMEs(r.answers)
      kind == ClassifyAnswer(r, type, chain)
  IN [kind |-> kind, rcode |-> r.rcode, truncated |-> r.truncated,
      effective |-> chain.name, records |-> r.answers,
      soa |-> IF kind \in {"no_data", "name_error"} THEN r.soa ELSE {}, ns |-> r.ns]

-----------------------------------------------------------------------------
(***************************************************************************)
(* What Validate asks of evidence.                                         *)
(***************************************************************************)
IsCanonicalDNSName(name) == name \notin Unhostable

ValidRecord(record) ==
  /\ IsCanonicalDNSName(record.name)
  /\ record.type = "CNAME" => IsCanonicalDNSName(record.target)

ValidAnswerKind(e) ==
  /\ e.kind \in {"answer", "no_data", "referral"} => e.rcode = "noerror"
  /\ e.kind = "name_error" => e.rcode = "nxdomain"
  /\ e.kind = "rcode_error" => e.rcode = "other"

ValidClassification(e, type) ==
  LET chain == FollowCNAMEs(e.records)
      requested == Answers(e.records, type, chain.name)
  IN /\ IsCanonicalDNSName(e.effective)
     /\ e.effective = chain.name
     /\ ValidAnswerKind(e)
     /\ (e.kind = "incomplete") = (e.truncated \/ ~chain.complete)
     /\ e.soa # {} => e.kind \in {"no_data", "name_error"}
     /\ \A mailbox \in e.soa : IsCanonicalDNSName(mailbox)
     /\ e.kind = "answer" => requested
     /\ e.kind \in {"no_data", "referral"} => ~requested
     /\ e.kind = "no_data" /\ e.ns => e.soa # {}
     /\ e.kind = "referral" => e.ns

ValidEvidence(e, type) ==
  /\ Len(e.records) <= MaxRecords
  /\ \A k \in DOMAIN e.records : ValidRecord(e.records[k])
  /\ ValidClassification(e, type)
=============================================================================
