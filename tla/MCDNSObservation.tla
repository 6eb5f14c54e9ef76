-------------------------- MODULE MCDNSObservation --------------------------
(***************************************************************************)
(* The requests and responses TLC explores.                                *)
(***************************************************************************)
EXTENDS DNSObservationProperties

CONSTANT Names

Record == [name : Names, type : {"A"}, target : {NoTarget}]
            \cup [name : Names, type : {"CNAME"}, target : Names]

SeqsUpTo(n) == UNION {[1..k -> Record] : k \in 0..n}

\* Three records in any order with a plain header; at most one record with every
\* header, authority section and kind of damage, and one record too many.
SomeResponses ==
  [identified : {TRUE}, rcode : {"noerror"}, truncated : {FALSE}, damaged : {FALSE},
   answers : SeqsUpTo(3), soa : {{}}, ns : {FALSE}, others : {0}]
  \cup
  [identified : BOOLEAN, rcode : {"noerror", "nxdomain", "other"}, truncated : BOOLEAN,
   damaged : BOOLEAN, answers : {s \in SeqsUpTo(1) : \A k \in DOMAIN s : s[k].name = Hostname},
   soa : {{}, {"mailbox"}}, ns : BOOLEAN, others : {0, 3}]

\* A few, for the runs that are not about the message.
FewResponses == {r \in SomeResponses : Len(r.answers) = 1 /\ r.others = 0 /\ r.soa = {} /\ ~r.ns}

Valid == [hostname : {"valid"}, type : {"A", "CNAME"}, transport : {"udp", "tcp", "doh"},
          resolver : {"wire", "doh"}]

SomeInputs ==
  {i \in Valid : i.transport = "udp" \/ i.type = "A"} \cup
  {[hostname |-> "invalid", type |-> "A", transport |-> "udp", resolver |-> "wire"],
   [hostname |-> "valid", type |-> "unknown", transport |-> "udp", resolver |-> "wire"],
   [hostname |-> "valid", type |-> "A", transport |-> "unknown", resolver |-> "wire"],
   [hostname |-> "valid", type |-> "A", transport |-> "udp", resolver |-> "missing"],
   [hostname |-> "valid", type |-> "A", transport |-> "udp", resolver |-> ""]}
=============================================================================
