------------------------- MODULE DNSHTTPSPathProofs -------------------------
(***************************************************************************)
(* What dnshttpspath.Observe keeps while it follows the alias chain and    *)
(* asks for addresses, and that Validate, which recomputes chain, bindings *)
(* and targets from the Result, finds the same.                            *)
(***************************************************************************)
EXTENDS DNSHTTPSPathProperties, EnumerationProofs

-----------------------------------------------------------------------------
(***************************************************************************)
(* The targets of the ServiceMode records.                                 *)
(***************************************************************************)
\* A finite set that is put in order has a first element.
LEMMA FirstInOrder ==
  ASSUME NEW S, IsFiniteSet(S), S # {}, NEW R, StrictTotalOrder(R, S)
  PROVE  \E i \in S : \A j \in S : j = i \/ <<i, j>> \in R
<1> DEFINE s == Enumerate(S, R)
<1>1. Lists(s, S, R)
  BY EnumerateLists
<1> HIDE DEF s
<1>2. PICK j \in S : TRUE
  OBVIOUS
<1>3. Len(s) \in Nat /\ 1 \in 1..Len(s) /\ s[1] \in S
  BY <1>1, <1>2 DEF Lists
<1>4. ASSUME NEW i \in S PROVE i = s[1] \/ <<s[1], i>> \in R
  <2>1. PICK k \in 1..Len(s) : s[k] = i
    BY <1>1 DEF Lists
  <2>2. k = 1 \/ 1 < k
    BY <1>3
  <2> QED
    BY <1>1, <1>3, <2>1, <2>2 DEF Lists
<1> QED
  BY <1>3, <1>4

\* The priorities are numbers; the records have places.
Ranked(decisions) ==
  /\ \E n \in Nat : DOMAIN decisions = 1..n
  /\ \A i \in DOMAIN decisions : decisions[i].priority \in Nat

\* The stable sort leaves no two records on the same place.
LEMMA BeforeOrders ==
  ASSUME NEW d, Ranked(d), NEW S, S \subseteq DOMAIN d
  PROVE  /\ IsFiniteSet(S)
         /\ StrictTotalOrder({pair \in S \X S : Before(d, pair[1], pair[2])}, S)
<1> DEFINE R == {pair \in S \X S : Before(d, pair[1], pair[2])}
<1>1. PICK n \in Nat : DOMAIN d = 1..n
  BY DEF Ranked
<1>2. IsFiniteSet(S)
  <2>1. IsFiniteSet(1..n)
    BY <1>1, FS_Interval
  <2> QED
    BY <1>1, <2>1, FS_Subset
<1>3. \A i, j : <<i, j>> \in R <=> i \in S /\ j \in S /\ Before(d, i, j)
  OBVIOUS
<1>4. \A i \in S : i \in Nat /\ d[i].priority \in Nat
  BY <1>1 DEF Ranked
<1> HIDE DEF R
<1>5. StrictTotalOrder(R, S)
  BY <1>3, <1>4 DEF StrictTotalOrder, Before
<1> QED
  BY <1>2, <1>5 DEF R

\* What serviceAddressTargets promises: every usable host once, under its preferred
\* record, and the preferred hosts first.
TargetsOf(d, all) ==
  /\ Len(all) \in Nat /\ all = [k \in 1..Len(all) |-> all[k]]
  /\ \A k \in 1..Len(all) : \E i \in Usable(d) :
       all[k] = [host |-> d[i].host, source |-> "service_mode", priority |-> d[i].priority,
                 observations |-> <<>>]
  /\ \A k, l \in 1..Len(all) : k < l => /\ all[k].host # all[l].host
                                       /\ all[k].priority <= all[l].priority
  /\ \A i \in Usable(d) : \E k \in 1..Len(all) :
       all[k].host = d[i].host /\ all[k].priority <= d[i].priority

LEMMA ServiceTargetsListed ==
  ASSUME NEW d, Ranked(d)
  PROVE  TargetsOf(d, ServiceTargets(d))
<1> DEFINE first == {i \in Usable(d) :
                       ~\E j \in Usable(d) : d[j].host = d[i].host /\ Before(d, j, i)}
           R == {pair \in first \X first : Before(d, pair[1], pair[2])}
           order == Enumerate(first, R)
           all == ServiceTargets(d)
           entry(i) == [host |-> d[i].host, source |-> "service_mode",
                        priority |-> d[i].priority, observations |-> <<>>]
<1>1. all = [k \in DOMAIN order |-> entry(order[k])]
  BY DEF ServiceTargets
<1>2. Usable(d) \subseteq DOMAIN d /\ first \subseteq DOMAIN d
  BY DEF Usable
<1>3. \A i \in DOMAIN d : i \in Nat /\ d[i].priority \in Nat
  BY DEF Ranked
<1>4. IsFiniteSet(first) /\ StrictTotalOrder(R, first)
  BY <1>2, BeforeOrders
<1>5. \A i, j : <<i, j>> \in R => Before(d, i, j)
  OBVIOUS
<1>6. \A i, j \in first : d[i].host = d[j].host => ~Before(d, i, j)
  OBVIOUS
<1>7. ASSUME NEW i \in Usable(d)
      PROVE  \E j \in first : d[j].host = d[i].host /\ d[j].priority <= d[i].priority
  <2> DEFINE H == {j \in Usable(d) : d[j].host = d[i].host}
             RH == {pair \in H \X H : Before(d, pair[1], pair[2])}
  <2>1. H \subseteq DOMAIN d /\ i \in H
    BY <1>2
  <2>2. IsFiniteSet(H) /\ StrictTotalOrder(RH, H)
    BY <2>1, BeforeOrders
  <2>3. PICK j \in H : \A k \in H : k = j \/ <<j, k>> \in RH
    <3> HIDE DEF H, RH
    <3> QED
      BY <2>1, <2>2, FirstInOrder
  <2>4. \A k \in H : k = j \/ Before(d, j, k)
    BY <2>3
  <2>5. j \in first
    <3>1. ASSUME NEW k \in Usable(d), d[k].host = d[j].host PROVE ~Before(d, k, j)
      <4>1. k \in H
        BY <3>1
      <4> QED
        BY <1>2, <1>3, <2>4, <4>1 DEF Before
    <3> QED
      BY <3>1
  <2> QED
    BY <1>2, <1>3, <2>1, <2>4, <2>5 DEF Before
<1>8. first \subseteq Usable(d)
  OBVIOUS
<1> HIDE DEF first, R
<1>9. Lists(order, first, R)
  BY <1>4, EnumerateLists
<1> HIDE DEF order, entry
<1>10. Len(order) \in Nat /\ DOMAIN order = 1..Len(order) /\ order \in [1..Len(order) -> first]
  BY <1>9 DEF Lists
<1>11. Len(all) = Len(order) /\ all = [k \in 1..Len(order) |-> all[k]]
  <2>1. DOMAIN all = 1..Len(order) /\ all = [k \in 1..Len(order) |-> all[k]]
    BY <1>1, <1>10
  <2> HIDE DEF all
  <2> QED
    BY <1>10, <2>1
<1>12. \A k \in 1..Len(order) : order[k] \in first /\ all[k] = entry(order[k])
  BY <1>1, <1>10
<1>13. \A k, l \in 1..Len(order) : k < l => Before(d, order[k], order[l])
  BY <1>5, <1>9 DEF Lists
<1>14. \A i \in first : \E k \in 1..Len(order) : order[k] = i
  BY <1>9 DEF Lists
<1> HIDE DEF all
<1>15. \A i : entry(i).host = d[i].host /\ entry(i).priority = d[i].priority
  BY DEF entry
<1>16. ASSUME NEW k \in 1..Len(order), NEW l \in 1..Len(order), k < l
       PROVE  all[k].host # all[l].host /\ all[k].priority <= all[l].priority
  <2>1. order[k] \in first /\ order[l] \in first /\ Before(d, order[k], order[l])
    BY <1>12, <1>13, <1>16
  <2>2. all[k] = entry(order[k]) /\ all[l] = entry(order[l])
    BY <1>12
  <2>3. d[order[k]].host # d[order[l]].host
    BY <1>6, <2>1
  <2>4. d[order[k]].priority <= d[order[l]].priority
    BY <1>2, <1>3, <2>1 DEF Before
  <2> QED
    BY <1>15, <2>2, <2>3, <2>4
<1>17. ASSUME NEW i \in Usable(d)
       PROVE  \E k \in 1..Len(order) :
                all[k].host = d[i].host /\ all[k].priority <= d[i].priority
  <2>1. PICK j \in first : d[j].host = d[i].host /\ d[j].priority <= d[i].priority
    BY <1>7
  <2>2. PICK k \in 1..Len(order) : order[k] = j
    BY <1>14
  <2> QED
    BY <1>12, <1>15, <2>1, <2>2
<1>18. \A k \in 1..Len(order) : order[k] \in Usable(d) /\ all[k] = entry(order[k])
  BY <1>8, <1>12
<1> QED
  BY <1>10, <1>11, <1>16, <1>17, <1>18 DEF TargetsOf, entry, all

\* Only the first n targets are kept: their hosts, the usable records that are left
\* out, and the hosts of those.
Split(d, all, n, kept, left, hosts) ==
  /\ n \in 0..Len(all)
  /\ \A h : h \in kept <=> \E k \in 1..n : all[k].host = h
  /\ \A i : i \in left <=> i \in Usable(d) /\ d[i].host \notin kept
  /\ \A h : h \in hosts <=> \E i \in left : d[i].host = h

\* If only the first n of them are kept, what is left out is as many hosts as are
\* missing, and none of them is preferred to one that is kept.
LEMMA PrefixPreferred ==
  ASSUME NEW d, NEW all, NEW n, NEW kept, NEW left, NEW hosts,
         Ranked(d), TargetsOf(d, all), Split(d, all, n, kept, left, hosts)
  PROVE  /\ Cardinality(hosts) = Len(all) - n
         /\ \A k \in 1..n : \A i \in left : all[k].priority <= d[i].priority
         /\ Cardinality(kept) = n
<1> USE DEF Split
<1>1. /\ Len(all) \in Nat /\ n \in Nat /\ n <= Len(all)
      /\ \A k \in 1..Len(all) : \E i \in Usable(d) :
           all[k].host = d[i].host /\ all[k].priority = d[i].priority
      /\ \A k, l \in 1..Len(all) : k < l => all[k].host # all[l].host
      /\ \A k, l \in 1..Len(all) : k < l => all[k].priority <= all[l].priority
      /\ \A i \in Usable(d) : \E k \in 1..Len(all) :
           all[k].host = d[i].host /\ all[k].priority <= d[i].priority
  BY DEF TargetsOf
<1>2. \A k, l \in 1..Len(all) : all[k].host = all[l].host => k = l
  <2> SUFFICES ASSUME NEW k \in 1..Len(all), NEW l \in 1..Len(all), all[k].host = all[l].host
               PROVE  k = l
    OBVIOUS
  <2>1. ~(k < l) /\ ~(l < k)
    BY <1>1
  <2> QED
    BY <1>1, <2>1
<1>3. Cardinality(kept) = n
  <2> DEFINE g == [k \in 1..n |-> all[k].host]
  <2>1. IsFiniteSet(1..n) /\ Cardinality(1..n) = n
    <3>1. /\ IsFiniteSet(1..n)
          /\ Cardinality(1..n) = IF 1 > n THEN 0 ELSE n - 1 + 1
      BY <1>1, FS_Interval
    <3> QED
      BY <1>1, <3>1
  <2>2. \A k, l \in 1..n : g[k] = g[l] => k = l
    BY <1>1, <1>2
  <2>3. /\ \A k \in 1..n : g[k] \in kept
        /\ \A h \in kept : \E k \in 1..n : g[k] = h
    OBVIOUS
  <2>4. g \in Surjection(1..n, kept) /\ g \in Injection(1..n, kept)
    BY <2>2, <2>3 DEF Surjection, Injection, IsInjective
  <2> HIDE DEF g
  <2>5. Cardinality(kept) = Cardinality(1..n)
    BY <2>1, <2>4, FS_Surjection
  <2> QED
    BY <2>1, <2>5
<1>4. ASSUME NEW i \in left
      PROVE  \E k \in n + 1..Len(all) : all[k].host = d[i].host /\ all[k].priority <= d[i].priority
  <2>1. PICK k \in 1..Len(all) : all[k].host = d[i].host /\ all[k].priority <= d[i].priority
    BY <1>1
  <2>2. k \notin 1..n
    BY <2>1
  <2>3. k \in n + 1..Len(all)
    BY <1>1, <2>2
  <2> QED
    BY <2>1, <2>3
<1>5. Cardinality(hosts) = Len(all) - n
  <2> DEFINE g == [k \in n + 1..Len(all) |-> all[k].host]
  <2>1. /\ IsFiniteSet(n + 1..Len(all))
        /\ Cardinality(n + 1..Len(all)) = Len(all) - n
    <3>1. /\ IsFiniteSet(n + 1..Len(all))
          /\ Cardinality(n + 1..Len(all)) =
               IF n + 1 > Len(all) THEN 0 ELSE Len(all) - (n + 1) + 1
      <4>1. n + 1 \in Int /\ Len(all) \in Int
        BY <1>1
      <4> QED
        BY <4>1, FS_Interval
    <3> QED
      BY <1>1, <3>1
  <2>2. \A k, l \in n + 1..Len(all) : g[k] = g[l] => k = l
    BY <1>1, <1>2
  <2>3. ASSUME NEW h \in hosts PROVE \E k \in n + 1..Len(all) : g[k] = h
    BY <1>4
  <2>4. ASSUME NEW k \in n + 1..Len(all) PROVE g[k] \in hosts
    <3>1. k \in 1..Len(all)
      BY <1>1
    <3>2. PICK i \in Usable(d) : all[k].host = d[i].host
      BY <1>1, <3>1
    <3>3. \A l \in 1..n : all[l].host # all[k].host
      BY <1>1, <1>2, <3>1
    <3>4. i \in left
      BY <3>2, <3>3
    <3> QED
      BY <3>2, <3>4
  <2> DEFINE rest == n + 1..Len(all)
  <2>5. g \in Surjection(rest, hosts) /\ g \in Injection(rest, hosts)
    BY <2>2, <2>3, <2>4 DEF Surjection, Injection, IsInjective
  <2> HIDE DEF g, rest
  <2>6. Cardinality(hosts) = Cardinality(rest)
    <3>1. IsFiniteSet(rest)
      BY <2>1 DEF rest
    <3> QED
      BY <2>5, <3>1, FS_Surjection
  <2> QED
    BY <2>1, <2>6 DEF rest
<1>6. ASSUME NEW k \in 1..n, NEW i \in left PROVE all[k].priority <= d[i].priority
  <2>1. PICK l \in n + 1..Len(all) : all[l].host = d[i].host /\ all[l].priority <= d[i].priority
    BY <1>4
  <2>2. k \in 1..Len(all) /\ l \in 1..Len(all) /\ k < l
    BY <1>1
  <2>3. all[k].priority <= all[l].priority
    BY <1>1, <2>2
  <2>4. PICK j \in Usable(d) : all[k].priority = d[j].priority
    BY <1>1, <2>2
  <2>5. PICK m \in Usable(d) : all[l].priority = d[m].priority
    BY <1>1, <2>2
  <2>6. d[i].priority \in Nat /\ d[j].priority \in Nat /\ d[m].priority \in Nat
    BY DEF Ranked, Usable
  <2> QED
    BY <2>1, <2>3, <2>4, <2>5, <2>6
<1> QED
  BY <1>3, <1>5, <1>6

-----------------------------------------------------------------------------
(***************************************************************************)
(* The inductive invariant.                                                *)
(***************************************************************************)
HTTPSObservations == UNION {HTTPSAnswers(host) \cup Failures(host) : host \in Names}

AddressObservations ==
  UNION {AddressAnswers(host) \cup Failures(host) : host \in Names \cup {Root}}

AddressTargets ==
  [host : Names \cup {Root}, source : {"service_mode", "alias_fallback", "origin_fallback"},
   priority : Nat, observations : Seq(AddressObservations)]

TypeInv ==
  /\ TypeOK
  /\ https \in Seq(HTTPSObservations)
  /\ targets \in Seq(AddressTargets)

\* Observe follows the chain, and then asks for the addresses of the targets.
Walking == phase \in {"start", "ask", "question", "judge"}
Asking == phase \in {"next", "lookup", "weigh"}

\* seen holds the names of the chain, and the next question is about a new one.
VisitInv ==
  /\ ChainNeverRevisits
  /\ Walking => seen = QueriedNames \cup {current} /\ current \notin QueriedNames

\* Until Observe returns, every answer led to the next one, from one resolver.
LinkInv ==
  ~Returned =>
    /\ \A s1, s2 \in accepted : s1 = s2
    /\ \A i \in DOMAIN https :
         https[i].adapter \in accepted /\ https[i].outcome = "succeeded" /\ https[i].complete
    /\ \A i \in 1 .. Len(https) - 1 : https[i].alias = https[i + 1].host
    /\ https # <<>> => https[1].host = Origin

\* While the chain is followed there is an alias for every answer, and no target.
WalkInv ==
  Walking =>
    /\ followed = Len(https)
    /\ current = IF https = <<>> THEN Origin ELSE LastHTTPS.alias
    /\ bindings = <<>> /\ targets = <<>> /\ omitted = 0
    /\ phase = "start" => https = <<>>

\* The list is the one Validate recomputes, and every observation in it is a
\* target's own.
TargetsKept(list, resolvers, outcomes) ==
  /\ list \in Seq(AddressTargets)
  /\ Len(list) = Len(AllTargets) - ExpectedOmitted
  /\ \A t \in DOMAIN list :
       /\ list[t].host = AllTargets[t].host
       /\ list[t].source = AllTargets[t].source
       /\ list[t].priority = AllTargets[t].priority
       /\ Len(list[t].observations) <= 2
       /\ \A k \in DOMAIN list[t].observations :
            /\ list[t].observations[k].host = list[t].host
            /\ list[t].observations[k].adapter \in resolvers
            /\ list[t].observations[k].outcome \in outcomes

TargetInv ==
  Asking =>
    /\ https # <<>> /\ followed = Len(https) - 1
    /\ LastHTTPS.alias = NoAlias
    /\ LastHTTPS.services = <<>> => LastHTTPS.effective # Root
    /\ bindings = ExpectedDecisions
    /\ omitted = ExpectedOmitted
    /\ TargetsKept(targets, accepted, {"succeeded", "failed"})
    /\ Open(targets) # {}

\* An answer that can be judged is one to the question.
AnswerInv ==
  answer.outcome # "broken" =>
    /\ phase = "judge" => answer \in HTTPSAnswers(current) \cup Failures(current)
    /\ phase = "weigh" =>
         answer \in AddressAnswers(targets[At].host) \cup Failures(targets[At].host)

IInv == TypeInv /\ VisitInv /\ LinkInv /\ WalkInv /\ TargetInv /\ AnswerInv

-----------------------------------------------------------------------------
(***************************************************************************)
(* The answers.                                                            *)
(***************************************************************************)
\* What an answer to an HTTPS question says, if it is one.
LEMMA HTTPSAnswer ==
  ASSUME NEW host \in Names, NEW o \in HTTPSAnswers(host) \cup Failures(host)
  PROVE  /\ o \in HTTPSObservations
         /\ o.host = host
         /\ o.outcome \in {"succeeded", "failed", "cancelled"}
         /\ o.adapter \in Adapters \cup {Unselected}
         /\ o.outcome = "succeeded" =>
              /\ o.complete \in BOOLEAN
              /\ o.effective \in Names \cup {Root}
              /\ o.alias \in Names \cup {Root, NoAlias}
              /\ o.services \in Seq(ServiceRecords)
<1>1. o \in HTTPSObservations
  BY DEF HTTPSObservations
<1>2. CASE o \in Failures(host)
  BY <1>1, <1>2 DEF Failures
<1>3. CASE o \in HTTPSAnswers(host)
  <2>1. PICK adapter \in Adapters, complete \in BOOLEAN, effective \in {host} \cup CanonicalNames,
             records \in BindingRecords :
          o = [outcome |-> "succeeded", host |-> host, adapter |-> adapter,
               complete |-> complete, effective |-> effective, alias |-> records.alias,
               services |-> records.services]
    BY <1>3 DEF HTTPSAnswers
  <2>2. /\ records.alias \in Names \cup {Root, NoAlias}
        /\ records.services \in Seq(ServiceRecords)
        /\ effective \in Names \cup {Root}
    BY NameAssumption, RecordAssumption
  <2> QED
    BY <1>1, <2>1, <2>2
<1> QED
  BY <1>2, <1>3

\* What an answer to an address question says.
LEMMA AddressAnswer ==
  ASSUME NEW host \in Names \cup {Root}, NEW o \in AddressAnswers(host) \cup Failures(host)
  PROVE  /\ o \in AddressObservations
         /\ o.host = host
         /\ o.outcome \in {"succeeded", "failed", "cancelled"}
         /\ o.outcome = "succeeded" => o.complete \in BOOLEAN
         /\ o.adapter \in Adapters \cup {Unselected}
BY DEF AddressObservations, AddressAnswers, Failures

LEMMA AddressObservationFacts ==
  ASSUME NEW o \in AddressObservations
  PROVE  o.outcome = "succeeded" => o.complete \in BOOLEAN
<1>1. PICK host \in Names \cup {Root} : o \in AddressAnswers(host) \cup Failures(host)
  BY DEF AddressObservations
<1> QED
  BY <1>1, AddressAnswer

\* There is a decision for every record, with its host and priority.
LEMMA DecisionsRanked ==
  ASSUME NEW services \in Seq(ServiceRecords)
  PROVE  LET d == Decisions(services)
         IN  /\ Ranked(d)
             /\ services = <<>> => d = <<>>
             /\ services # <<>> => d # <<>>
             /\ \A i \in DOMAIN d : d[i].host \in Names \cup {Root}
<1> DEFINE d == Decisions(services)
<1>1. /\ Len(services) \in Nat /\ DOMAIN services = 1..Len(services)
      /\ \A i \in 1..Len(services) : services[i] \in ServiceRecords
  OBVIOUS
<1>2. DOMAIN d = 1..Len(services)
  BY <1>1 DEF Decisions
<1>3. ASSUME NEW i \in 1..Len(services)
      PROVE  d[i].host \in Names \cup {Root} /\ d[i].priority \in Nat
  <2>1. services[i].host \in Names \cup {Root} /\ services[i].priority \in Nat
    BY <1>1 DEF ServiceRecords
  <2>2. d[i] = Decision(services[i])
    BY <1>1 DEF Decisions
  <2>3. d[i].host = services[i].host /\ d[i].priority = services[i].priority
    BY <2>2 DEF Decision
  <2> QED
    BY <2>1, <2>3
<1>4. ASSUME services = <<>> PROVE d = <<>>
  BY <1>4 DEF Decisions
<1>5. ASSUME services # <<>> PROVE d # <<>>
  <2>1. 1 \in DOMAIN d
    BY <1>1, <1>2, <1>5
  <2> HIDE DEF d
  <2> QED
    BY <2>1
<1> HIDE DEF d
<1>6. Ranked(d)
  BY <1>1, <1>2, <1>3 DEF Ranked
<1> QED
  BY <1>2, <1>3, <1>4, <1>5, <1>6 DEF d

\* Why a context ends the path.
LEMMA EndedReasons == Ended \in {"none", "cancelled", "path_timeout"}
BY DEF Ended, TerminalContext

-----------------------------------------------------------------------------
(***************************************************************************)
(* The steps of the chain.                                                 *)
(***************************************************************************)
\* An acceptable answer goes to the end of the chain it continues.
LEMMA Appended ==
  ASSUME IInv, phase = "judge", Acceptable, https' = Append(https, answer)
  PROVE  /\ current \in Names
         /\ answer \in HTTPSAnswers(current) \cup Failures(current)
         /\ https' \in Seq(HTTPSObservations)
         /\ Len(https) \in Nat /\ Len(https') = Len(https) + 1
         /\ \A i \in 1..Len(https) : https'[i] = https[i]
         /\ https'[Len(https) + 1] = answer
         /\ LastHTTPS' = answer
         /\ \A i \in 1..Len(https') : https'[i].adapter = answer.adapter
         /\ \A i \in 1..Len(https') - 1 :
              /\ https'[i].outcome = "succeeded" /\ https'[i].complete
              /\ https'[i].alias = https'[i + 1].host
         /\ https'[1].host = Origin
         /\ ChainNeverRevisits'
<1>1. current \in Names /\ https \in Seq(HTTPSObservations)
  BY DEF IInv, TypeInv, TypeOK
<1>2. answer \in HTTPSAnswers(current) \cup Failures(current)
  BY DEF IInv, AnswerInv, Acceptable
<1>3. answer \in HTTPSObservations /\ answer.host = current
  BY <1>1, <1>2, HTTPSAnswer
<1>4. /\ https' \in Seq(HTTPSObservations)
      /\ Len(https) \in Nat /\ Len(https') = Len(https) + 1
      /\ \A i \in 1..Len(https) : https'[i] = https[i]
      /\ https'[Len(https) + 1] = answer
  BY <1>1, <1>3
<1>5. LastHTTPS' = answer
  BY <1>4 DEF LastHTTPS
<1>6. DOMAIN https = 1..Len(https) /\ DOMAIN https' = 1..Len(https) + 1
  BY <1>1, <1>4
<1>7. /\ \A i \in DOMAIN https :
           https[i].adapter \in accepted /\ https[i].outcome = "succeeded" /\ https[i].complete
      /\ \A i \in 1..Len(https) - 1 : https[i].alias = https[i + 1].host
      /\ https # <<>> => https[1].host = Origin
      /\ current = IF https = <<>> THEN Origin ELSE https[Len(https)].alias
      /\ accepted \subseteq {answer.adapter}
  BY DEF IInv, LinkInv, WalkInv, Walking, Returned, LastHTTPS, Acceptable
<1>8. \A i \in 1..Len(https') : https'[i].adapter = answer.adapter
  <2> TAKE i \in 1..Len(https')
  <2>1. CASE i = Len(https) + 1
    BY <1>4, <2>1
  <2>2. CASE i # Len(https) + 1
    BY <1>4, <1>6, <1>7, <2>2
  <2> QED
    BY <2>1, <2>2
<1>9. ASSUME NEW i \in 1..Len(https') - 1
      PROVE  /\ https'[i].outcome = "succeeded" /\ https'[i].complete
             /\ https'[i].alias = https'[i + 1].host
  <2>1. i \in 1..Len(https) /\ https'[i] = https[i] /\ https # <<>>
    BY <1>4, <1>9
  <2>2. CASE i = Len(https)
    BY <1>3, <1>4, <1>6, <1>7, <2>1, <2>2
  <2>3. CASE i # Len(https)
    <3>1. i \in 1..Len(https) - 1 /\ i + 1 \in 1..Len(https)
      BY <1>4, <2>1, <2>3
    <3> QED
      BY <1>4, <1>6, <1>7, <2>1, <3>1
  <2> QED
    BY <2>2, <2>3
<1>10. https'[1].host = Origin
  <2>1. CASE https = <<>>
    BY <1>3, <1>4, <1>7, <2>1
  <2>2. CASE https # <<>>
    <3>1. 1 \in 1..Len(https)
      BY <1>1, <2>2
    <3> QED
      BY <1>4, <1>7, <2>2, <3>1
  <2> QED
    BY <2>1, <2>2
<1>11. ChainNeverRevisits'
  <2>1. /\ ChainNeverRevisits
        /\ \A i \in DOMAIN https : /\ https[i].host # current
                                   /\ https[i].outcome = "succeeded" => https[i].effective # current
    BY DEF IInv, VisitInv, Walking, QueriedNames
  <2> SUFFICES ASSUME NEW i \in 1..Len(https) + 1, NEW j \in 1..Len(https) + 1, i < j
               PROVE  /\ https'[i].host # https'[j].host
                      /\ https'[i].outcome = "succeeded" => https'[i].effective # https'[j].host
    BY <1>6 DEF ChainNeverRevisits
  <2>2. i \in DOMAIN https /\ https'[i] = https[i]
    BY <1>4, <1>6
  <2>3. CASE j = Len(https) + 1
    BY <1>3, <1>4, <2>1, <2>2, <2>3
  <2>4. CASE j # Len(https) + 1
    <3>1. j \in DOMAIN https /\ https'[j] = https[j]
      BY <1>4, <1>6, <2>4
    <3> QED
      BY <2>1, <2>2, <3>1 DEF ChainNeverRevisits
  <2> QED
    BY <2>3, <2>4
<1> QED
  BY <1>1, <1>2, <1>4, <1>5, <1>8, <1>9, <1>10, <1>11

\* A conclusive answer adds its effective name to those of the chain.
LEMMA Concluded ==
  ASSUME IInv, Conclusive
  PROVE  /\ answer \in HTTPSAnswers(current) \cup Failures(current)
         /\ answer.outcome = "succeeded" /\ answer.complete = TRUE /\ Ended = "none"
         /\ QueriedNames' = SeenWith(seen)
<1>1. phase = "judge" /\ Acceptable /\ https' = Append(https, answer) /\ Early = "none"
  BY DEF Conclusive, Judged
<1>2. /\ current \in Names
      /\ answer \in HTTPSAnswers(current) \cup Failures(current)
      /\ https \in Seq(HTTPSObservations)
      /\ https' \in Seq(HTTPSObservations)
      /\ Len(https) \in Nat /\ Len(https') = Len(https) + 1
      /\ \A i \in 1..Len(https) : https'[i] = https[i]
      /\ https'[Len(https) + 1] = answer
  BY <1>1, Appended DEF IInv, TypeInv
<1>3. /\ answer.outcome \in {"succeeded", "failed", "cancelled"}
      /\ answer.outcome = "succeeded" => answer.complete \in BOOLEAN
      /\ answer.host = current
  BY <1>2, HTTPSAnswer
<1>4. answer.outcome = "succeeded" /\ answer.complete = TRUE /\ Ended = "none"
  BY <1>1, <1>3, EndedReasons DEF Early, Incomplete
<1>5. DOMAIN https = 1..Len(https) /\ DOMAIN https' = 1..Len(https) + 1
  BY <1>2
<1>6. \A i \in DOMAIN https : https[i].outcome = "succeeded"
  BY <1>1 DEF IInv, LinkInv, Returned
<1>7. QueriedNames = {https[i].host : i \in 1..Len(https)}
                       \cup {https[i].effective : i \in 1..Len(https)}
  BY <1>5, <1>6 DEF QueriedNames
<1>8. ASSUME NEW i \in 1..Len(https) + 1
      PROVE  https'[i].outcome = "succeeded"
  BY <1>2, <1>4, <1>5, <1>6, <1>8
<1>9. QueriedNames' = {https'[i].host : i \in 1..Len(https) + 1}
                        \cup {https'[i].effective : i \in 1..Len(https) + 1}
  BY <1>5, <1>8 DEF QueriedNames
<1>10. {https'[i].host : i \in 1..Len(https) + 1}
         = {https[i].host : i \in 1..Len(https)} \cup {answer.host}
  BY <1>2
<1>11. {https'[i].effective : i \in 1..Len(https) + 1}
         = {https[i].effective : i \in 1..Len(https)} \cup {answer.effective}
  BY <1>2
<1>12. seen = QueriedNames \cup {current}
  BY <1>1 DEF IInv, VisitInv, Walking
<1>13. QueriedNames' = QueriedNames \cup {current} \cup {answer.effective}
  BY <1>3, <1>7, <1>9, <1>10, <1>11
<1> QED
  BY <1>2, <1>4, <1>12, <1>13 DEF SeenWith

-----------------------------------------------------------------------------
(***************************************************************************)
(* The steps that leave chain and targets alone.                           *)
(***************************************************************************)
LEMMA Quiet ==
  ASSUME IInv, UNCHANGED <<chain, serving, accepted>>,
         \/ phase' = "returned"
         \/ /\ phase' = "start" => phase = "start"
            /\ phase' \in {"start", "ask", "question", "judge"} => Walking
            /\ phase' \in {"next", "lookup", "weigh"} => Asking
            /\ phase # "returned"
  PROVE  VisitInv' /\ LinkInv' /\ WalkInv' /\ TargetInv'
<1>1. /\ current' = current /\ seen' = seen /\ https' = https /\ followed' = followed
      /\ bindings' = bindings /\ targets' = targets /\ omitted' = omitted
      /\ accepted' = accepted
  BY DEF chain, serving
<1>2. VisitInv'
  BY <1>1 DEF IInv, VisitInv, ChainNeverRevisits, QueriedNames, Walking
<1>3. LinkInv'
  BY <1>1 DEF IInv, LinkInv, Returned
<1>4. WalkInv'
  BY <1>1 DEF IInv, WalkInv, Walking, LastHTTPS
<1>5. TargetInv'
  <2> SUFFICES ASSUME Asking'
               PROVE  TargetInv'
    BY DEF TargetInv
  <2>1. Asking
    BY DEF Asking
  <2>2. /\ LastHTTPS' = LastHTTPS /\ ExpectedDecisions' = ExpectedDecisions
        /\ AllTargets' = AllTargets /\ ExpectedOmitted' = ExpectedOmitted
    BY <1>1 DEF LastHTTPS, ExpectedDecisions, AllTargets, ExpectedOmitted, Fallback
  <2>3. TargetsKept(targets, accepted, {"succeeded", "failed"})'
          <=> TargetsKept(targets, accepted, {"succeeded", "failed"})
    BY <1>1, <2>2 DEF TargetsKept
  <2>4. Open(targets)' = Open(targets)
    BY <1>1 DEF Open
  <2> QED
    BY <1>1, <2>1, <2>2, <2>3, <2>4 DEF IInv, TargetInv
<1> QED
  BY <1>2, <1>3, <1>4, <1>5

\* The loop over the targets is at one that lacks an observation.
LEMMA AtOpen ==
  ASSUME IInv, Asking
  PROVE  /\ At \in DOMAIN targets /\ Len(targets[At].observations) < 2
         /\ targets[At] \in AddressTargets /\ targets[At].host \in Names \cup {Root}
<1> DEFINE S == Open(targets)
           R == {pair \in S \X S : pair[1] < pair[2]}
<1>1. /\ targets \in Seq(AddressTargets) /\ Len(targets) \in Nat
      /\ DOMAIN targets = 1..Len(targets)
  BY DEF IInv, TypeInv
<1>2. S \subseteq 1..Len(targets) /\ S # {}
  BY <1>1 DEF IInv, TargetInv, Open
<1>3. IsFiniteSet(S)
  <2>1. IsFiniteSet(1..Len(targets))
    BY <1>1, FS_Interval
  <2> QED
    BY <1>2, <2>1, FS_Subset
<1>4. \A i, j : <<i, j>> \in R <=> i \in S /\ j \in S /\ i < j
  OBVIOUS
<1>5. \A i \in S : i \in Nat
  BY <1>2
<1>6. At \in Open(targets)
  <2> HIDE DEF S, R
  <2>1. StrictTotalOrder(R, S)
    BY <1>4, <1>5 DEF StrictTotalOrder
  <2>2. PICK t \in S : \A j \in S : j = t \/ <<t, j>> \in R
    BY <1>2, <1>3, <2>1, FirstInOrder
  <2>3. ASSUME NEW j \in S PROVE t <= j
    <3>1. j \in Nat /\ t \in Nat
      BY <1>5
    <3>2. j = t \/ t < j
      BY <1>4, <2>2
    <3> QED
      BY <3>1, <3>2
  <2>4. At \in S
    BY <2>3 DEF At, S
  <2> QED
    BY <2>4 DEF S
<1>7. At \in DOMAIN targets /\ Len(targets[At].observations) < 2
  BY <1>6 DEF Open
<1>8. targets[At] \in AddressTargets
  BY <1>1, <1>7
<1> QED
  BY <1>7, <1>8 DEF AddressTargets

-----------------------------------------------------------------------------
(***************************************************************************)
(* What is returned.                                                       *)
(***************************************************************************)
\* A stop keeps the shape of a Result.
LEMMA StopShape ==
  ASSUME NEW reason \in StopReasons, Stop(reason)
  PROVE  /\ ValidShape' /\ Returned'
         /\ result'.status # "completed" /\ result'.reason = reason
         /\ result'.status = "stopped" <=> reason # "cancelled"
<1>1. /\ result' = [status |-> IF reason = "cancelled" THEN "cancelled" ELSE "stopped",
                    completion |-> "none", reason |-> reason]
      /\ phase' = "returned"
  BY DEF Stop, Return
<1> QED
  BY <1>1 DEF ValidShape, Returned

\* A path that is cut off while the chain is followed reports the chain so far.
LEMMA StoppedWalk ==
  ASSUME IInv, Walking, UNCHANGED <<chain, serving>>,
         NEW reason \in {"cancelled", "path_timeout", "invalid_probe_evidence"}, Stop(reason)
  PROVE  ValidConclusion'
<1>1. /\ ValidShape' /\ result'.status # "completed" /\ result'.reason = reason
      /\ result'.status = "stopped" <=> reason # "cancelled"
  BY StopShape DEF StopReasons
<1>2. /\ https' = https /\ followed' = followed
      /\ bindings' = <<>> /\ targets' = <<>> /\ omitted' = 0 /\ followed = Len(https)
  BY DEF IInv, WalkInv, chain, serving
<1>3. CASE https = <<>>
  <2>1. Len(https) = 0
    BY <1>3
  <2> QED
    BY <1>1, <1>2, <1>3, <2>1 DEF ValidConclusion, ValidWithoutEvidence
<1>4. CASE https # <<>>
  <2>1. /\ https \in Seq(HTTPSObservations) /\ Len(https) \in Nat /\ Len(https) # 0
        /\ DOMAIN https = 1..Len(https)
    BY <1>4 DEF IInv, TypeInv
  <2>2. /\ \A i \in 1..Len(https) :
             https[i].adapter \in accepted /\ https[i].outcome = "succeeded" /\ https[i].complete
        /\ \A s1, s2 \in accepted : s1 = s2
        /\ \A i \in 1 .. Len(https) - 1 : https[i].alias = https[i + 1].host
        /\ https[1].host = Origin
    BY <1>4, <2>1 DEF IInv, LinkInv, Walking, Returned
  <2>3. LastHTTPS.alias # NoAlias /\ LastHTTPS' = LastHTTPS
    <3>1. current \in Names /\ current = LastHTTPS.alias
      BY <1>4 DEF IInv, TypeInv, TypeOK, WalkInv
    <3> QED
      BY <1>2, <3>1, NameAssumption DEF LastHTTPS
  <2>4. ExpectedDecisions' = <<>> /\ AllTargets' = <<>> /\ ExpectedOmitted' = 0
    <3>1. ExpectedDecisions' = <<>> /\ AllTargets' = <<>>
      BY <2>3 DEF ExpectedDecisions, AllTargets
    <3>2. Len(AllTargets') = 0
      BY <3>1
    <3> QED
      BY <3>1, <3>2, LimitAssumption DEF ExpectedOmitted
  <2>5. ValidTargets'
    <3>1. Len(targets') = 0 /\ DOMAIN targets' = {} /\ Len(AllTargets') = 0
      BY <1>2, <2>4
    <3> QED
      BY <2>4, <3>1 DEF ValidTargets
  <2>6. ValidChain'
    <3>1. \A i \in 1..Len(https) : https[i].adapter = https[1].adapter
      BY <2>1, <2>2
    <3>2. \A i \in 1..Len(https) - 1 : i \in 1..Len(https)
      BY <2>1
    <3> QED
      BY <1>1, <1>2, <2>1, <2>2, <3>1, <3>2 DEF ValidChain
  <2>7. followed' \in 0..AliasLimit
    BY <1>2 DEF IInv, TypeInv, TypeOK
  <2>8. ValidStopEvidence'
    BY <1>1 DEF ValidStopEvidence
  <2>9. LastHTTPS'.outcome = "succeeded" /\ ~Incomplete(LastHTTPS)'
    <3>1. Len(https) \in 1..Len(https)
      BY <2>1
    <3> QED
      BY <2>2, <2>3, <3>1 DEF LastHTTPS, Incomplete
  <2> QED
    BY <1>1, <1>2, <1>4, <2>4, <2>5, <2>6, <2>7, <2>8, <2>9 DEF ValidConclusion
<1> QED
  BY <1>3, <1>4

\* Once Observe asks for addresses the chain is complete.
LEMMA ChainComplete ==
  ASSUME IInv, Asking
  PROVE  /\ https # <<>> /\ followed = Len(https) - 1 /\ followed \in 0..AliasLimit
         /\ Len(https) \in Nat \ {0} /\ DOMAIN https = 1..Len(https)
         /\ LastHTTPS.outcome = "succeeded" /\ ~Incomplete(LastHTTPS)
         /\ LastHTTPS \in HTTPSObservations
         /\ https[1].host = Origin /\ accepted = {https[1].adapter}
         /\ \A i \in DOMAIN https : https[i].adapter = https[1].adapter
         /\ \A i \in 1 .. Len(https) - 1 :
              /\ https[i].outcome = "succeeded" /\ https[i].complete
              /\ https[i].alias = https[i + 1].host
<1>1. https # <<>> /\ followed = Len(https) - 1 /\ followed \in 0..AliasLimit
  BY DEF IInv, TargetInv, TypeInv, TypeOK
<1>2. /\ https \in Seq(HTTPSObservations) /\ Len(https) \in Nat \ {0}
      /\ DOMAIN https = 1..Len(https)
  BY <1>1 DEF IInv, TypeInv
<1>3. /\ \A i \in 1..Len(https) :
           https[i].adapter \in accepted /\ https[i].outcome = "succeeded" /\ https[i].complete
      /\ \A s1, s2 \in accepted : s1 = s2
      /\ \A i \in 1 .. Len(https) - 1 : https[i].alias = https[i + 1].host
      /\ https[1].host = Origin
  BY <1>1, <1>2 DEF IInv, LinkInv, Asking, Returned
<1>4. 1 \in 1..Len(https) /\ Len(https) \in 1..Len(https)
  BY <1>2
<1>5. \A i \in 1..Len(https) - 1 : i \in 1..Len(https)
  BY <1>2
<1>6. LastHTTPS \in HTTPSObservations
  BY <1>2, <1>4 DEF LastHTTPS
<1>7. accepted = {https[1].adapter}
  BY <1>3, <1>4
<1> QED
  BY <1>1, <1>2, <1>3, <1>4, <1>5, <1>6, <1>7 DEF LastHTTPS, Incomplete

\* A Result that ends with address questions is what Validate recomputes.
LEMMA AskedReturns ==
  ASSUME IInv, Asking, UNCHANGED <<chain, bindings, omitted>>,
         TargetsKept(targets', accepted, {"succeeded", "failed", "cancelled"}),
         ValidShape', result'.reason \notin {"invalid_input", "alias_loop", "alias_limit"},
         result'.reason = "dns_observation_failed" => Holds(targets, Failed)',
         result'.reason = "dns_observation_incomplete" => Holds(targets, Incomplete)',
         result'.status = "completed" =>
           /\ result'.completion = Completion
           /\ \A t \in DOMAIN targets' :
                /\ Len(targets'[t].observations) = 2
                /\ \A k \in 1..2 : targets'[t].observations[k].outcome = "succeeded"
                                   /\ targets'[t].observations[k].complete
  PROVE  ValidConclusion'
<1>1. /\ current' = current /\ seen' = seen /\ https' = https /\ followed' = followed
      /\ bindings' = bindings /\ omitted' = omitted
  BY DEF chain
<1>2. /\ https # <<>> /\ followed = Len(https) - 1 /\ followed \in 0..AliasLimit
      /\ Len(https) \in Nat \ {0} /\ DOMAIN https = 1..Len(https)
      /\ LastHTTPS.outcome = "succeeded" /\ ~Incomplete(LastHTTPS)
      /\ LastHTTPS \in HTTPSObservations
      /\ https[1].host = Origin /\ accepted = {https[1].adapter}
      /\ \A i \in DOMAIN https : https[i].adapter = https[1].adapter
      /\ \A i \in 1 .. Len(https) - 1 :
           /\ https[i].outcome = "succeeded" /\ https[i].complete
           /\ https[i].alias = https[i + 1].host
  BY ChainComplete
<1>3. /\ LastHTTPS' = LastHTTPS /\ ExpectedDecisions' = ExpectedDecisions
      /\ AllTargets' = AllTargets /\ ExpectedOmitted' = ExpectedOmitted
      /\ Incomplete(LastHTTPS)' = Incomplete(LastHTTPS)
  BY <1>1 DEF LastHTTPS, ExpectedDecisions, AllTargets, ExpectedOmitted, Fallback, Incomplete
<1>4. /\ bindings = ExpectedDecisions /\ omitted = ExpectedOmitted
      /\ LastHTTPS.alias = NoAlias
      /\ LastHTTPS.services = <<>> => LastHTTPS.effective # Root
  BY DEF IInv, TargetInv
<1>5. ValidChain'
  <2>1. followed # Len(https)
    BY <1>2
  <2> QED
    BY <1>1, <1>2, <2>1 DEF ValidChain
<1>6. ValidTargets'
  <2>1. TargetsKept(targets', accepted, {"succeeded", "failed", "cancelled"})
    OBVIOUS
  <2> QED
    BY <1>1, <1>2, <1>3, <2>1 DEF ValidTargets, TargetsKept
<1>7. ASSUME result'.status = "completed" PROVE ValidCompletion'
  <2>1. result'.completion = Completion /\ Fallback' = Fallback
    BY <1>1, <1>7 DEF Fallback
  <2>2. Len(targets') = Len(AllTargets) - ExpectedOmitted
    BY DEF TargetsKept
  <2>3. CASE LastHTTPS.services = <<>>
    <3>1. bindings = <<>>
      BY <1>4, <2>3 DEF ExpectedDecisions, Decisions
    <3>2. AllTargets = <<[host |-> LastHTTPS.effective, source |-> Fallback, priority |-> 0,
                          observations |-> <<>>]>>
      BY <1>4, <2>3 DEF AllTargets
    <3>3. Len(AllTargets) = 1 /\ AllTargets[1].source = Fallback /\ ExpectedOmitted = 0
      BY <3>2, LimitAssumption DEF ExpectedOmitted
    <3>4. Len(targets') = 1 /\ targets'[1].source = Fallback
      <4>1. Len(targets') = 1
        BY <2>2, <3>3
      <4>2. 1 \in DOMAIN targets'
        BY <4>1 DEF TargetsKept
      <4> QED
        BY <3>3, <4>1, <4>2 DEF TargetsKept
    <3>5. result'.completion = Fallback /\ Fallback \in {"alias_fallback", "origin_fallback"}
      BY <2>1, <3>1 DEF Completion, Fallback
    <3> QED
      BY <1>3, <1>4, <2>1, <2>3, <3>4, <3>5 DEF ValidCompletion
  <2>4. CASE LastHTTPS.services # <<>>
    <3>1. LastHTTPS.services \in Seq(ServiceRecords)
      <4>1. PICK host \in Names : LastHTTPS \in HTTPSAnswers(host) \cup Failures(host)
        BY <1>2 DEF HTTPSObservations
      <4> QED
        BY <1>2, <4>1, HTTPSAnswer
    <3>2. /\ ExpectedDecisions = Decisions(LastHTTPS.services)
          /\ Ranked(ExpectedDecisions) /\ ExpectedDecisions # <<>>
      BY <1>4, <2>4, <3>1, DecisionsRanked DEF ExpectedDecisions
    <3>3. AllTargets = ServiceTargets(ExpectedDecisions)
      BY <1>4, <2>4 DEF AllTargets
    <3>4. TargetsOf(ExpectedDecisions, AllTargets)
      BY <3>2, <3>3, ServiceTargetsListed
    <3>5. result'.completion = "service_mode"
      BY <1>4, <2>1, <3>2 DEF Completion
    <3>6. Open(targets) # {} /\ Len(targets) = Len(targets') /\ Len(targets') <= Len(AllTargets)
      <4>1. Len(targets) = Len(AllTargets) - ExpectedOmitted /\ Open(targets) # {}
        BY DEF IInv, TargetInv, TargetsKept
      <4>2. ExpectedOmitted \in Nat /\ Len(AllTargets) \in Nat
        BY <1>4, <3>4 DEF IInv, TypeInv, TypeOK, TargetsOf
      <4> QED
        BY <2>2, <4>1, <4>2
    <3>7. Len(targets) \in Nat /\ Len(targets) # 0
      BY <3>6 DEF IInv, TypeInv, Open
    <3>8. targets' # <<>>
      BY <3>6, <3>7
    <3>9. Usable(ExpectedDecisions) # {}
      <4>1. 1 \in 1..Len(AllTargets)
        BY <3>4, <3>6, <3>7 DEF TargetsOf
      <4> QED
        BY <3>4, <4>1 DEF TargetsOf
    <3> QED
      BY <1>3, <1>4, <3>5, <3>8, <3>9 DEF ValidCompletion
  <2> QED
    BY <2>3, <2>4
<1>8. ValidStopEvidence'
  BY DEF ValidStopEvidence
<1> QED
  BY <1>1, <1>2, <1>3, <1>4, <1>5, <1>6, <1>7, <1>8 DEF ValidConclusion

-----------------------------------------------------------------------------
(***************************************************************************)
(* The address questions.                                                  *)
(***************************************************************************)
\* The list of targets stays what it is but for what is observed.
SameTargets(list, other) ==
  /\ DOMAIN other = DOMAIN list /\ Len(other) = Len(list)
  /\ \A t \in DOMAIN list : other[t].host = list[t].host /\ other[t].priority = list[t].priority

\* An acceptable answer comes from the resolver of all the others.
LEMMA SameResolver ==
  ASSUME IInv, phase = "weigh", Acceptable
  PROVE  accepted = {answer.adapter} /\ accepted # {}
<1>1. accepted = {https[1].adapter}
  BY ChainComplete DEF Asking
<1> QED
  BY <1>1 DEF Acceptable

\* The answer is kept with the target it was asked for.
LEMMA Weighed ==
  ASSUME IInv, phase = "weigh", Acceptable,
         NEW outcomes, {"succeeded", "failed"} \subseteq outcomes, answer.outcome \in outcomes
  PROVE  /\ TargetsKept(WithAnswer, accepted, outcomes)
         /\ SameTargets(targets, WithAnswer)
         /\ At \in DOMAIN WithAnswer
         /\ \E k \in DOMAIN WithAnswer[At].observations : WithAnswer[At].observations[k] = answer
<1> DEFINE list == WithAnswer
           before == targets[At].observations
<1>1. /\ At \in DOMAIN targets /\ Len(before) < 2
      /\ targets[At] \in AddressTargets /\ targets[At].host \in Names \cup {Root}
  BY AtOpen DEF Asking
<1>2. answer \in AddressAnswers(targets[At].host) \cup Failures(targets[At].host)
  BY DEF IInv, AnswerInv, Acceptable
<1>3. answer \in AddressObservations /\ answer.host = targets[At].host
  BY <1>1, <1>2, AddressAnswer
<1>4. targets \in Seq(AddressTargets) /\ Len(targets) \in Nat /\ DOMAIN targets = 1..Len(targets)
  BY DEF IInv, TypeInv
<1>5. before \in Seq(AddressObservations)
  BY <1>1 DEF AddressTargets
<1>6. /\ Append(before, answer) \in Seq(AddressObservations)
      /\ Len(Append(before, answer)) = Len(before) + 1 /\ Len(before) \in Nat
      /\ DOMAIN Append(before, answer) = 1..Len(before) + 1 /\ DOMAIN before = 1..Len(before)
      /\ \A k \in 1..Len(before) : Append(before, answer)[k] = before[k]
      /\ Append(before, answer)[Len(before) + 1] = answer
  BY <1>3, <1>5
<1>7. list = [targets EXCEPT ![At] = [targets[At] EXCEPT !.observations = Append(before, answer)]]
  BY DEF WithAnswer
<1> DEFINE entry == [targets[At] EXCEPT !.observations = Append(before, answer)]
<1>8. /\ entry \in AddressTargets
      /\ entry.host = targets[At].host /\ entry.source = targets[At].source
      /\ entry.priority = targets[At].priority
      /\ entry.observations = Append(before, answer)
  BY <1>1, <1>6 DEF AddressTargets
<1> HIDE DEF entry
<1>9. /\ list \in Seq(AddressTargets) /\ Len(list) = Len(targets) /\ DOMAIN list = DOMAIN targets
      /\ list[At] = entry
      /\ \A t \in DOMAIN targets : t # At => list[t] = targets[t]
  BY <1>1, <1>4, <1>7, <1>8 DEF entry
<1> HIDE DEF list
<1>10. SameTargets(targets, list)
  BY <1>8, <1>9 DEF SameTargets
<1>11. TargetsKept(targets, accepted, {"succeeded", "failed"})
  BY DEF IInv, TargetInv, Asking
<1>12. answer.adapter \in accepted
  BY SameResolver
<1>13. TargetsKept(list, accepted, outcomes)
  <2>1. ASSUME NEW t \in DOMAIN list
        PROVE  /\ list[t].host = AllTargets[t].host
               /\ list[t].source = AllTargets[t].source
               /\ list[t].priority = AllTargets[t].priority
               /\ Len(list[t].observations) <= 2
    BY <1>1, <1>6, <1>8, <1>9, <1>11, <2>1 DEF TargetsKept
  <2>2. ASSUME NEW t \in DOMAIN list, NEW k \in DOMAIN list[t].observations
        PROVE  /\ list[t].observations[k].host = list[t].host
               /\ list[t].observations[k].adapter \in accepted
               /\ list[t].observations[k].outcome \in outcomes
    <3>1. CASE t # At
      BY <1>9, <1>11, <2>2, <3>1 DEF TargetsKept
    <3>2. CASE t = At
      <4>1. list[t].observations = Append(before, answer) /\ list[t].host = targets[At].host
        BY <1>8, <1>9, <3>2
      <4>2. CASE k = Len(before) + 1
        BY <1>3, <1>6, <1>12, <4>1, <4>2
      <4>3. CASE k # Len(before) + 1
        <5>1. k \in DOMAIN before /\ list[t].observations[k] = before[k]
          BY <1>6, <2>2, <4>1, <4>3
        <5>2. /\ before[k].host = targets[At].host
              /\ before[k].adapter \in accepted
              /\ before[k].outcome \in {"succeeded", "failed"}
          BY <1>1, <1>11, <5>1 DEF TargetsKept
        <5> QED
          BY <4>1, <5>1, <5>2
      <4> QED
        BY <4>2, <4>3
    <3> QED
      BY <3>1, <3>2
  <2>3. Len(list) = Len(AllTargets) - ExpectedOmitted
    BY <1>9, <1>11 DEF TargetsKept
  <2> QED
    BY <1>9, <2>1, <2>2, <2>3 DEF TargetsKept
<1>14. \E k \in DOMAIN list[At].observations : list[At].observations[k] = answer
  BY <1>6, <1>8, <1>9
<1> QED
  BY <1>1, <1>9, <1>10, <1>13, <1>14 DEF list

\* With every question asked and none failed or incomplete, all of them were
\* answered completely.
LEMMA AllAnswered ==
  ASSUME NEW list, NEW resolvers, TargetsKept(list, resolvers, {"succeeded", "failed"}),
         Open(list) = {}, Verdict(list) = "none"
  PROVE  \A t \in DOMAIN list :
           /\ Len(list[t].observations) = 2
           /\ \A k \in 1..2 : list[t].observations[k].outcome = "succeeded"
                              /\ list[t].observations[k].complete
<1> TAKE t \in DOMAIN list
<1>1. list \in Seq(AddressTargets) /\ list[t] \in AddressTargets
  BY DEF TargetsKept
<1> DEFINE asked == list[t].observations
<1>2. /\ Len(asked) \in Nat /\ DOMAIN asked = 1..Len(asked)
      /\ \A k \in 1..Len(asked) : asked[k] \in AddressObservations
  <2>1. asked \in Seq(AddressObservations)
    BY <1>1 DEF AddressTargets
  <2> HIDE DEF asked
  <2> QED
    BY <2>1
<1>3. Len(asked) = 2
  <2>1. Len(asked) <= 2 /\ ~(Len(asked) < 2)
    BY DEF TargetsKept, Open
  <2> HIDE DEF asked
  <2> QED
    BY <1>2, <2>1
<1>4. ~Holds(list, Failed) /\ ~Holds(list, Incomplete)
  BY DEF Verdict
<1>5. ASSUME NEW k \in 1..2
      PROVE  list[t].observations[k].outcome = "succeeded" /\ list[t].observations[k].complete
  <2>1. k \in DOMAIN list[t].observations /\ list[t].observations[k] \in AddressObservations
    BY <1>2, <1>3
  <2>2. list[t].observations[k].outcome \in {"succeeded", "failed"}
    BY <2>1 DEF TargetsKept
  <2>3. list[t].observations[k].outcome # "failed" /\ ~Incomplete(list[t].observations[k])
    BY <1>4, <2>1 DEF Holds, Failed
  <2> QED
    BY <2>1, <2>2, <2>3, AddressObservationFacts DEF Incomplete
<1> QED
  BY <1>3, <1>5

\* An observation is kept with its target; the last one decides what is reported.
LEMMA WeighStep ==
  ASSUME IInv, Weigh
  PROVE  /\ VisitInv' /\ LinkInv' /\ WalkInv' /\ TargetInv'
         /\ SameTargets(targets, targets') /\ accepted' = accepted
         /\ targets' \in Seq(AddressTargets)
         /\ \A t \in DOMAIN targets' : Len(targets'[t].observations) <= 2
         /\ Returned' => ValidConclusion'
         /\ Returned' /\ result'.reason = "dns_observation_incomplete" =>
              ~Holds(targets, Failed)'
<1>1. phase = "weigh" /\ Acceptable /\ accepted' = {answer.adapter}
  BY DEF Weigh, Judged
<1>2. /\ current' = current /\ seen' = seen /\ https' = https /\ followed' = followed
      /\ bindings' = bindings /\ omitted' = omitted
  BY DEF Weigh, chain
<1>3. accepted' = accepted
  BY <1>1, SameResolver
<1>4. Asking
  BY <1>1 DEF Asking
<1>5. TargetsKept(targets, accepted, {"succeeded", "failed"})
  BY <1>4 DEF IInv, TargetInv
<1>6. answer \in AddressAnswers(targets[At].host) \cup Failures(targets[At].host)
  BY <1>1 DEF IInv, AnswerInv, Acceptable
<1>7. answer.outcome \in {"succeeded", "failed", "cancelled"}
  BY <1>4, <1>6, AtOpen, AddressAnswer
<1>8. TargetsKept(targets', accepted, {"succeeded", "failed", "cancelled"})
  <2>1. CASE TooLate
    BY <1>5, <2>1 DEF Weigh, TargetsKept
  <2>2. CASE ~TooLate
    BY <1>1, <1>7, <2>2, Weighed DEF Weigh
  <2> QED
    BY <2>1, <2>2
<1>9. SameTargets(targets, targets')
  <2>1. CASE TooLate
    BY <2>1 DEF Weigh, SameTargets
  <2>2. CASE ~TooLate
    <3>1. SameTargets(targets, WithAnswer)
      BY <1>1, <1>7, Weighed
    <3> QED
      BY <2>2, <3>1 DEF Weigh
  <2> QED
    BY <2>1, <2>2
<1>10. ASSUME Ended = "none", answer.outcome # "cancelled"
       PROVE  TargetsKept(targets', accepted, {"succeeded", "failed"})
  <2>1. targets' = WithAnswer /\ answer.outcome \in {"succeeded", "failed"}
    BY <1>7, <1>10 DEF Weigh, TooLate
  <2> QED
    BY <1>1, <2>1, Weighed
<1>11. VisitInv'
  <2>1. ~Walking'
    BY DEF Weigh, Stop, Complete, Return, GoOn, Walking
  <2> QED
    BY <1>2, <2>1 DEF IInv, VisitInv, ChainNeverRevisits
<1>12. LinkInv'
  BY <1>1, <1>2, <1>3 DEF IInv, LinkInv, Returned
<1>13. WalkInv'
  BY DEF Weigh, Stop, Complete, Return, GoOn, Walking, WalkInv
<1>14. TargetInv'
  <2> SUFFICES ASSUME Asking' PROVE TargetInv'
    BY DEF TargetInv
  <2>1. Ended = "none" /\ answer.outcome # "cancelled" /\ Open(targets') # {}
    BY DEF Weigh, Stop, Complete, Return, GoOn, Asking
  <2>2. TargetsKept(targets', accepted, {"succeeded", "failed"})
    BY <1>10, <2>1
  <2>3. /\ LastHTTPS' = LastHTTPS /\ ExpectedDecisions' = ExpectedDecisions
        /\ AllTargets' = AllTargets /\ ExpectedOmitted' = ExpectedOmitted
    BY <1>2 DEF LastHTTPS, ExpectedDecisions, AllTargets, ExpectedOmitted, Fallback
  <2>4. TargetsKept(targets, accepted, {"succeeded", "failed"})'
    BY <1>3, <2>2, <2>3 DEF TargetsKept
  <2>5. Open(targets)' # {}
    BY <2>1 DEF Open
  <2> QED
    BY <1>2, <1>4, <2>3, <2>4, <2>5 DEF IInv, TargetInv
<1>15. ASSUME Returned'
       PROVE  /\ ValidConclusion'
              /\ result'.reason = "dns_observation_incomplete" => ~Holds(targets, Failed)'
  <2>1. UNCHANGED <<chain, bindings, omitted>>
    BY DEF Weigh
  <2>2. CASE Ended # "none" /\ Stop(Ended)
    <3>1. Ended \in {"cancelled", "path_timeout"} /\ Ended \in StopReasons
      BY <2>2, EndedReasons DEF StopReasons
    <3>2. ValidShape' /\ result'.status # "completed" /\ result'.reason = Ended
      BY <2>2, <3>1, StopShape
    <3> QED
      BY <1>4, <1>8, <2>1, <3>1, <3>2, AskedReturns
  <2>3. CASE Ended = "none" /\ answer.outcome = "cancelled" /\ Stop("cancelled")
    <3>1. "cancelled" \in StopReasons
      BY DEF StopReasons
    <3>2. ValidShape' /\ result'.status # "completed" /\ result'.reason = "cancelled"
      BY <2>3, <3>1, StopShape
    <3> QED
      BY <1>4, <1>8, <2>1, <3>2, AskedReturns
  <2>4. CASE /\ Ended = "none" /\ answer.outcome # "cancelled"
             /\ Open(targets') = {} /\ Verdict(targets') # "none" /\ Stop(Verdict(targets'))
    <3>1. Verdict(targets') \in {"dns_observation_failed", "dns_observation_incomplete"}
      BY <2>4 DEF Verdict
    <3>2. Verdict(targets') \in StopReasons
      BY <3>1 DEF StopReasons
    <3>3. ValidShape' /\ result'.status # "completed" /\ result'.reason = Verdict(targets')
      BY <2>4, <3>2, StopShape
    <3>4. /\ result'.reason = "dns_observation_failed" => Holds(targets, Failed)'
          /\ result'.reason = "dns_observation_incomplete" =>
               ~Holds(targets, Failed)' /\ Holds(targets, Incomplete)'
      BY <3>1, <3>3 DEF Verdict, Holds, Failed, Incomplete
    <3> QED
      BY <1>4, <1>8, <2>1, <3>1, <3>3, <3>4, AskedReturns
  <2>5. CASE /\ Ended = "none" /\ answer.outcome # "cancelled"
             /\ Open(targets') = {} /\ Verdict(targets') = "none" /\ Complete(Completion)
    <3>1. \A t \in DOMAIN targets' :
            /\ Len(targets'[t].observations) = 2
            /\ \A k \in 1..2 : targets'[t].observations[k].outcome = "succeeded"
                               /\ targets'[t].observations[k].complete
      BY <1>10, <2>5, AllAnswered
    <3>2. /\ result' = [status |-> "completed", completion |-> Completion, reason |-> "none"]
          /\ Completion \in CompletionKinds
      BY <2>5 DEF Complete, Return, Completion, Fallback, CompletionKinds
    <3>3. ValidShape' /\ result'.reason = "none" /\ result'.completion = Completion
      BY <3>2 DEF ValidShape
    <3> QED
      BY <1>4, <1>8, <2>1, <3>1, <3>3, AskedReturns
  <2> QED
    BY <1>15, <2>2, <2>3, <2>4, <2>5 DEF Weigh, Returned, GoOn
<1>16. /\ targets' \in Seq(AddressTargets)
       /\ \A t \in DOMAIN targets' : Len(targets'[t].observations) <= 2
  BY <1>8 DEF TargetsKept
<1> QED
  BY <1>3, <1>9, <1>11, <1>12, <1>13, <1>14, <1>15, <1>16

\* A conclusive answer extends a chain whose answers are all conclusive.
LEMMA ConclusiveChain ==
  ASSUME IInv, Conclusive
  PROVE  /\ phase = "judge" /\ Walking /\ Ended = "none"
         /\ bindings = <<>> /\ targets = <<>> /\ omitted = 0
         /\ followed = Len(https) /\ followed \in 0..AliasLimit
         /\ accepted' = {answer.adapter} /\ answer.adapter \in Adapters \cup {Unselected}
         /\ answer.outcome = "succeeded" /\ answer.complete = TRUE
         /\ answer.effective \in Names \cup {Root}
         /\ answer.alias \in Names \cup {Root, NoAlias}
         /\ answer.services \in Seq(ServiceRecords)
         /\ https' \in Seq(HTTPSObservations) /\ LastHTTPS' = answer
         /\ Len(https) \in Nat /\ Len(https') = Len(https) + 1 /\ https' # <<>>
         /\ DOMAIN https' = 1..Len(https')
         /\ https'[1].host = Origin
         /\ \A i \in DOMAIN https' :
              /\ https'[i].adapter = answer.adapter
              /\ https'[i].outcome = "succeeded" /\ https'[i].complete
         /\ \A i \in 1 .. Len(https') - 1 : https'[i].alias = https'[i + 1].host
         /\ ChainNeverRevisits'
         /\ QueriedNames' = SeenWith(seen)
         /\ ~Incomplete(LastHTTPS)'
<1>1. /\ phase = "judge" /\ Acceptable /\ https' = Append(https, answer)
      /\ accepted' = {answer.adapter}
  BY DEF Conclusive, Judged
<1>2. Walking
  BY <1>1 DEF Walking
<1>3. /\ bindings = <<>> /\ targets = <<>> /\ omitted = 0
      /\ followed = Len(https) /\ followed \in 0..AliasLimit
  BY <1>2 DEF IInv, WalkInv, TypeInv, TypeOK
<1>4. /\ current \in Names
      /\ answer \in HTTPSAnswers(current) \cup Failures(current)
      /\ https' \in Seq(HTTPSObservations)
      /\ Len(https) \in Nat /\ Len(https') = Len(https) + 1
      /\ \A i \in 1..Len(https) : https'[i] = https[i]
      /\ https'[Len(https) + 1] = answer
      /\ LastHTTPS' = answer
      /\ \A i \in 1..Len(https') : https'[i].adapter = answer.adapter
      /\ \A i \in 1..Len(https') - 1 :
           /\ https'[i].outcome = "succeeded" /\ https'[i].complete
           /\ https'[i].alias = https'[i + 1].host
      /\ https'[1].host = Origin
      /\ ChainNeverRevisits'
  BY <1>1, Appended
<1>5. /\ answer.outcome = "succeeded" /\ answer.complete = TRUE /\ Ended = "none"
      /\ QueriedNames' = SeenWith(seen)
  BY Concluded
<1>6. /\ answer.effective \in Names \cup {Root}
      /\ answer.alias \in Names \cup {Root, NoAlias}
      /\ answer.services \in Seq(ServiceRecords)
      /\ answer.adapter \in Adapters \cup {Unselected}
  BY <1>4, <1>5, HTTPSAnswer
<1>7. DOMAIN https' = 1..Len(https') /\ https' # <<>> /\ Len(https') \in Nat
  BY <1>4
<1>8. ASSUME NEW i \in DOMAIN https'
      PROVE  https'[i].outcome = "succeeded" /\ https'[i].complete
  <2>1. i = Len(https) + 1 \/ i \in 1..Len(https') - 1
    BY <1>4, <1>7, <1>8
  <2> QED
    BY <1>4, <1>5, <2>1
<1>9. ~Incomplete(LastHTTPS)'
  BY <1>4, <1>5 DEF Incomplete
<1> QED
  BY <1>1, <1>2, <1>3, <1>4, <1>5, <1>6, <1>7, <1>8, <1>9

\* An answer that ends the path is kept unless it comes too late.
LEMMA EarlyStep ==
  ASSUME IInv, StopEarly
  PROVE  /\ VisitInv' /\ LinkInv' /\ WalkInv' /\ TargetInv'
         /\ https' \in Seq(HTTPSObservations) /\ Len(https') <= AliasLimit + 1
         /\ ValidConclusion'
         /\ targets' = <<>>
<1>1. /\ phase = "judge" /\ Acceptable /\ Early # "none" /\ Stop(Early)
      /\ UNCHANGED <<current, seen, followed, serving>>
  BY DEF StopEarly, Judged
<1>2. Walking
  BY <1>1 DEF Walking
<1>3. /\ followed = Len(https) /\ followed \in 0..AliasLimit /\ https \in Seq(HTTPSObservations)
      /\ bindings = <<>> /\ targets = <<>> /\ omitted = 0
      /\ current \in Names
  BY <1>2 DEF IInv, WalkInv, TypeInv, TypeOK
<1>4. answer \in HTTPSAnswers(current) \cup Failures(current)
  BY <1>1 DEF IInv, AnswerInv, Acceptable
<1>5. /\ answer.outcome \in {"succeeded", "failed", "cancelled"}
      /\ answer.outcome = "succeeded" => answer.complete \in BOOLEAN
  BY <1>3, <1>4, HTTPSAnswer
<1>6. Early \in {"cancelled", "path_timeout", "dns_observation_failed",
                 "dns_observation_incomplete"}
  BY <1>1, EndedReasons DEF Early
<1>7. /\ ValidShape' /\ Returned' /\ result'.status # "completed" /\ result'.reason = Early
  BY <1>1, <1>6, StopShape DEF StopReasons
<1>8. ~Walking' /\ ~Asking'
  BY <1>7 DEF Returned, Walking, Asking
<1>9. CASE TooLate
  <2>1. UNCHANGED <<chain, serving>>
    BY <1>1, <1>9 DEF StopEarly, chain
  <2>2. Early \in {"cancelled", "path_timeout", "invalid_probe_evidence"}
    BY <1>9, EndedReasons DEF Early, TooLate
  <2>3. ValidConclusion'
    BY <1>1, <1>2, <2>1, <2>2, StoppedWalk
  <2>4. https' = https /\ Len(https') \in Nat /\ Len(https') <= AliasLimit + 1
    BY <1>3, <2>1, LimitAssumption DEF chain
  <2>5. ChainNeverRevisits'
    BY <2>4 DEF IInv, VisitInv, ChainNeverRevisits
  <2> QED
    BY <1>1, <1>3, <1>7, <1>8, <2>3, <2>4, <2>5
    DEF VisitInv, LinkInv, WalkInv, TargetInv, serving
<1>10. CASE ~TooLate
  <2>1. https' = Append(https, answer)
    BY <1>10 DEF StopEarly
  <2>2. /\ https' \in Seq(HTTPSObservations)
        /\ Len(https) \in Nat /\ Len(https') = Len(https) + 1
        /\ https'[Len(https) + 1] = answer
        /\ LastHTTPS' = answer
        /\ \A i \in 1..Len(https') : https'[i].adapter = answer.adapter
        /\ \A i \in 1..Len(https') - 1 :
             /\ https'[i].outcome = "succeeded" /\ https'[i].complete
             /\ https'[i].alias = https'[i + 1].host
        /\ https'[1].host = Origin
        /\ ChainNeverRevisits'
    BY <1>1, <2>1, Appended
  <2>3. DOMAIN https' = 1..Len(https') /\ https' # <<>> /\ Len(https') <= AliasLimit + 1
    BY <1>3, <2>2, LimitAssumption
  <2>4. ValidChain'
    <3>1. 1 \in 1..Len(https') /\ followed' = Len(https') - 1 /\ followed' # Len(https')
      BY <1>1, <1>3, <2>2
    <3> QED
      BY <2>2, <2>3, <3>1 DEF ValidChain
  <2>5. LastHTTPS'.outcome # "succeeded" \/ Incomplete(LastHTTPS)'
    BY <1>1, <1>5, <1>10, <2>2 DEF Early, TooLate, Incomplete
  <2>6. ValidStopEvidence'
    <3>1. Len(https) + 1 \in DOMAIN https'
      BY <2>2, <2>3
    <3>2. Early = "dns_observation_failed" => Failed(https'[Len(https) + 1])
      BY <1>1, <2>2, EndedReasons DEF Early, Failed
    <3>3. Early = "dns_observation_incomplete" => Incomplete(https'[Len(https) + 1])
      BY <1>1, <2>2, EndedReasons DEF Early, Incomplete
    <3>4. /\ Early = "dns_observation_failed" => \E i \in DOMAIN https' : Failed(https'[i])
          /\ Early = "dns_observation_incomplete" => \E i \in DOMAIN https' : Incomplete(https'[i])
      BY <3>1, <3>2, <3>3
    <3>5. Early \notin {"alias_loop", "alias_limit"}
      BY <1>6
    <3> QED
      BY <1>7, <3>4, <3>5 DEF ValidStopEvidence, Failed, Incomplete
  <2>7. ValidConclusion'
    <3>1. /\ bindings' = <<>> /\ targets' = <<>> /\ omitted' = 0 /\ followed' \in 0..AliasLimit
      BY <1>1, <1>3 DEF serving
    <3> QED
      BY <1>6, <1>7, <2>3, <2>4, <2>5, <2>6, <3>1 DEF ValidConclusion
  <2> QED
    BY <1>1, <1>3, <1>7, <1>8, <2>2, <2>3, <2>7
    DEF VisitInv, LinkInv, WalkInv, TargetInv, serving
<1> QED
  BY <1>9, <1>10

\* An alias that is not followed ends the path.
LEMMA AliasEndsStep ==
  ASSUME IInv, AliasEnds
  PROVE  VisitInv' /\ LinkInv' /\ WalkInv' /\ TargetInv' /\ Returned' /\ ValidConclusion'
<1>1. /\ Conclusive /\ answer.alias # NoAlias
      /\ current' = current /\ followed' = followed
      /\ bindings' = bindings /\ targets' = targets /\ omitted' = omitted
  BY DEF AliasEnds, serving
<1>2. /\ bindings' = <<>> /\ targets' = <<>> /\ omitted' = 0
      /\ followed' = Len(https) /\ followed' \in 0..AliasLimit
      /\ LastHTTPS' = answer /\ answer.outcome = "succeeded" /\ answer.complete = TRUE
      /\ Len(https) \in Nat /\ Len(https') = Len(https) + 1 /\ https' # <<>>
      /\ DOMAIN https' = 1..Len(https')
      /\ https'[1].host = Origin
      /\ \A i \in DOMAIN https' :
           /\ https'[i].adapter = answer.adapter
           /\ https'[i].outcome = "succeeded" /\ https'[i].complete
      /\ \A i \in 1 .. Len(https') - 1 : https'[i].alias = https'[i + 1].host
      /\ ChainNeverRevisits'
      /\ QueriedNames' = SeenWith(seen)
      /\ ~Incomplete(LastHTTPS)'
  BY <1>1, ConclusiveChain
<1>3. AliasReason \in {"none", "alias_loop", "alias_limit"}
  BY DEF AliasReason
<1>4. \/ answer.alias = Root /\ Complete("service_unavailable")
      \/ answer.alias # Root /\ AliasReason # "none" /\ Stop(AliasReason)
  BY DEF AliasEnds
<1>5. Returned' /\ ~Walking' /\ ~Asking'
  BY <1>4 DEF Complete, Stop, Return, Returned, Walking, Asking
<1>6. ValidChain'
  <2>1. 1 \in 1..Len(https') /\ followed' = Len(https') - 1 /\ followed' # Len(https')
    BY <1>2
  <2>2. \A i \in 1..Len(https') - 1 : i \in DOMAIN https'
    BY <1>2
  <2> QED
    BY <1>2, <2>1, <2>2 DEF ValidChain
<1>7. ExpectedDecisions' = <<>> /\ AllTargets' = <<>> /\ ExpectedOmitted' = 0
  <2>1. ExpectedDecisions' = <<>> /\ AllTargets' = <<>>
    BY <1>1, <1>2 DEF ExpectedDecisions, AllTargets
  <2>2. Len(AllTargets') = 0
    BY <2>1
  <2> QED
    BY <2>1, <2>2, LimitAssumption DEF ExpectedOmitted
<1>8. ValidTargets'
  <2>1. Len(targets') = 0 /\ DOMAIN targets' = {} /\ Len(AllTargets') = 0
    BY <1>2, <1>7
  <2> QED
    BY <1>7, <2>1 DEF ValidTargets
<1>9. CASE answer.alias = Root
  <2>1. result' = [status |-> "completed", completion |-> "service_unavailable",
                   reason |-> "none"]
    BY <1>4, <1>9 DEF Complete, Return
  <2>2. ValidShape' /\ ValidCompletion'
    BY <1>2, <1>9, <2>1 DEF ValidShape, CompletionKinds, ValidCompletion
  <2> QED
    BY <1>2, <1>5, <1>6, <1>7, <1>8, <2>1, <2>2
    DEF ValidConclusion, VisitInv, LinkInv, WalkInv, TargetInv
<1>10. CASE answer.alias # Root
  <2>1. AliasReason \in {"alias_loop", "alias_limit"} /\ Stop(AliasReason)
    BY <1>3, <1>4, <1>10
  <2>2. ValidShape' /\ result'.status # "completed" /\ result'.reason = AliasReason
    BY <2>1, StopShape DEF StopReasons
  <2>3. ValidStopEvidence'
    <3>1. AliasReason = "alias_loop" => answer.alias \in QueriedNames'
      BY <1>2 DEF AliasReason
    <3>2. AliasReason = "alias_limit" =>
            answer.alias \notin QueriedNames' /\ followed' = AliasLimit
      BY <1>1, <1>2, LimitAssumption DEF AliasReason
    <3> QED
      BY <1>1, <1>2, <1>10, <2>1, <2>2, <3>1, <3>2 DEF ValidStopEvidence
  <2> QED
    BY <1>2, <1>5, <1>6, <1>7, <1>8, <2>1, <2>2, <2>3
    DEF ValidConclusion, VisitInv, LinkInv, WalkInv, TargetInv
<1> QED
  BY <1>9, <1>10

\* A followed alias is a name nobody asked for.
LEMMA FollowStep ==
  ASSUME IInv, Follow
  PROVE  /\ VisitInv' /\ LinkInv' /\ WalkInv' /\ TargetInv' /\ ~Returned'
         /\ current' \in Names /\ followed' \in 0..AliasLimit
<1>1. /\ Conclusive /\ answer.alias \notin {NoAlias, Root} /\ AliasReason = "none"
      /\ followed' = followed + 1 /\ current' = answer.alias
      /\ seen' = SeenWith(seen) \cup {answer.alias}
      /\ bindings' = bindings /\ targets' = targets /\ omitted' = omitted
      /\ phase' = "ask"
  BY DEF Follow, serving, GoOn
<1>2. /\ bindings' = <<>> /\ targets' = <<>> /\ omitted' = 0
      /\ followed = Len(https) /\ followed \in 0..AliasLimit
      /\ answer.alias \in Names \cup {Root, NoAlias}
      /\ accepted' = {answer.adapter}
      /\ LastHTTPS' = answer
      /\ Len(https) \in Nat /\ Len(https') = Len(https) + 1 /\ https' # <<>>
      /\ https'[1].host = Origin
      /\ \A i \in DOMAIN https' :
           /\ https'[i].adapter = answer.adapter
           /\ https'[i].outcome = "succeeded" /\ https'[i].complete
      /\ \A i \in 1 .. Len(https') - 1 : https'[i].alias = https'[i + 1].host
      /\ ChainNeverRevisits'
      /\ QueriedNames' = SeenWith(seen)
  BY <1>1, ConclusiveChain
<1>3. answer.alias \notin SeenWith(seen) /\ followed < AliasLimit
  BY <1>1, <1>2, LimitAssumption DEF AliasReason
<1>4. current' \in Names /\ followed' \in 0..AliasLimit
  BY <1>1, <1>2, <1>3, LimitAssumption
<1>5. ~Asking' /\ ~Returned' /\ phase' # "start"
  BY <1>1 DEF Asking, Returned
<1>6. VisitInv'
  BY <1>1, <1>2, <1>3 DEF VisitInv
<1>7. LinkInv'
  BY <1>2 DEF LinkInv
<1>8. WalkInv'
  BY <1>1, <1>2, <1>5 DEF WalkInv
<1> QED
  BY <1>4, <1>5, <1>6, <1>7, <1>8 DEF TargetInv

\* What the two ways to the addresses share: the chain is complete.
LEMMA ChainEnds ==
  ASSUME IInv, Conclusive, answer.alias = NoAlias, followed' = followed, ~Walking'
  PROVE  /\ VisitInv' /\ LinkInv' /\ WalkInv' /\ ValidChain'
         /\ https' # <<>> /\ followed' = Len(https') - 1 /\ followed' \in 0..AliasLimit
         /\ LastHTTPS' = answer /\ answer.outcome = "succeeded" /\ ~Incomplete(LastHTTPS)'
         /\ ExpectedDecisions' = Decisions(answer.services)
<1>1. /\ followed = Len(https) /\ followed \in 0..AliasLimit
      /\ LastHTTPS' = answer /\ answer.outcome = "succeeded" /\ ~Incomplete(LastHTTPS)'
      /\ accepted' = {answer.adapter}
      /\ Len(https) \in Nat /\ Len(https') = Len(https) + 1 /\ https' # <<>>
      /\ DOMAIN https' = 1..Len(https')
      /\ https'[1].host = Origin
      /\ \A i \in DOMAIN https' :
           /\ https'[i].adapter = answer.adapter
           /\ https'[i].outcome = "succeeded" /\ https'[i].complete
      /\ \A i \in 1 .. Len(https') - 1 : https'[i].alias = https'[i + 1].host
      /\ ChainNeverRevisits'
  BY ConclusiveChain
<1>2. ValidChain'
  <2>1. 1 \in 1..Len(https') /\ followed' = Len(https') - 1 /\ followed' # Len(https')
    BY <1>1
  <2>2. \A i \in 1..Len(https') - 1 : i \in DOMAIN https'
    BY <1>1
  <2> QED
    BY <1>1, <2>1, <2>2 DEF ValidChain
<1>3. VisitInv' /\ LinkInv' /\ WalkInv'
  BY <1>1 DEF VisitInv, LinkInv, WalkInv
<1>4. ExpectedDecisions' = Decisions(answer.services)
  BY <1>1 DEF ExpectedDecisions
<1> QED
  BY <1>1, <1>2, <1>3, <1>4

\* The first targets of the ServiceMode records, and how many are left out.
LEMMA ServiceModeStep ==
  ASSUME IInv, ServiceMode
  PROVE  /\ VisitInv' /\ LinkInv' /\ WalkInv' /\ TargetInv' /\ PreferredTargets'
         /\ targets' \in Seq(AddressTargets) /\ Len(targets') <= ServiceTargetLimit
         /\ \A t \in DOMAIN targets' : Len(targets'[t].observations) <= 2
         /\ \A t \in DOMAIN targets' : targets'[t].observations = <<>>
         /\ omitted' \in Nat
         /\ Returned' => ValidConclusion' /\ targets' = <<>>
<1> DEFINE d == Decisions(answer.services)
           all == ServiceTargets(d)
           n == IF Len(all) > ServiceTargetLimit THEN ServiceTargetLimit ELSE Len(all)
<1>1. /\ Conclusive /\ answer.alias = NoAlias /\ answer.services # <<>>
      /\ bindings' = d /\ current' = current /\ followed' = followed
      /\ targets' = IF Len(all) > ServiceTargetLimit THEN SubSeq(all, 1, ServiceTargetLimit)
                    ELSE all
      /\ omitted' = IF Len(all) > ServiceTargetLimit THEN Len(all) - ServiceTargetLimit ELSE 0
  BY DEF ServiceMode
<1>2. /\ answer.services \in Seq(ServiceRecords) /\ accepted' = {answer.adapter}
      /\ answer.effective \in Names \cup {Root}
  BY <1>1, ConclusiveChain
<1>3. Ranked(d) /\ d # <<>> /\ \A i \in DOMAIN d : d[i].host \in Names \cup {Root}
  BY <1>1, <1>2, DecisionsRanked
<1>4. TargetsOf(d, all)
  BY <1>3, ServiceTargetsListed
<1>5. LastHTTPS' = answer
  BY <1>1, ConclusiveChain
<1>6. /\ ExpectedDecisions' = d
      /\ AllTargets' = all
      /\ ExpectedOmitted' =
           IF Len(all) > ServiceTargetLimit THEN Len(all) - ServiceTargetLimit ELSE 0
  BY <1>1, <1>5 DEF ExpectedDecisions, AllTargets, ExpectedOmitted
<1> HIDE DEF all, d
<1>7. /\ Len(all) \in Nat /\ all = [k \in 1..Len(all) |-> all[k]]
      /\ \A k \in 1..Len(all) : \E i \in Usable(d) :
           all[k] = [host |-> d[i].host, source |-> "service_mode", priority |-> d[i].priority,
                     observations |-> <<>>]
  BY <1>4 DEF TargetsOf
<1>8. all \in Seq(AddressTargets)
  <2>1. ASSUME NEW k \in 1..Len(all) PROVE all[k] \in AddressTargets
    <3>1. PICK i \in Usable(d) :
            all[k] = [host |-> d[i].host, source |-> "service_mode",
                      priority |-> d[i].priority, observations |-> <<>>]
      BY <1>7
    <3>2. d[i].host \in Names \cup {Root} /\ d[i].priority \in Nat
      BY <1>3 DEF Usable, Ranked
    <3>3. <<>> \in Seq(AddressObservations)
      OBVIOUS
    <3> QED
      BY <3>1, <3>2, <3>3 DEF AddressTargets
  <2> QED
    BY <1>7, <2>1
<1>9. /\ n \in Nat /\ n <= Len(all) /\ n <= ServiceTargetLimit
      /\ omitted' \in Nat /\ omitted' = Len(all) - n
      /\ n = 0 => Len(all) = 0
  BY <1>1, <1>7, LimitAssumption
<1>10. /\ targets' \in Seq(AddressTargets) /\ Len(targets') = n /\ DOMAIN targets' = 1..n
       /\ \A k \in 1..n : targets'[k] = all[k]
  <2>1. CASE Len(all) > ServiceTargetLimit
    BY <1>1, <1>7, <1>8, <2>1, LimitAssumption
  <2>2. CASE ~(Len(all) > ServiceTargetLimit)
    BY <1>1, <1>7, <1>8, <2>2
  <2> QED
    BY <2>1, <2>2
<1> HIDE DEF n
<1>11. \A t \in DOMAIN targets' : targets'[t].observations = <<>>
  BY <1>7, <1>9, <1>10
<1>12. \A t \in DOMAIN targets' : Len(targets'[t].observations) = 0
  BY <1>11
<1>13. TargetsKept(targets, accepted, {"succeeded", "failed"})'
  <2>1. ExpectedOmitted' = omitted'
    BY <1>1, <1>6
  <2>2. Len(targets') = Len(AllTargets') - ExpectedOmitted'
    BY <1>6, <1>7, <1>9, <1>10, <2>1
  <2>3. \A t \in DOMAIN targets' : DOMAIN targets'[t].observations = {}
    BY <1>11
  <2> QED
    BY <1>6, <1>10, <1>12, <2>2, <2>3 DEF TargetsKept
<1>14. PreferredTargets'
  <2> DEFINE kept == {targets'[t].host : t \in DOMAIN targets'}
             left == {i \in Usable(d) : d[i].host \notin kept}
             hosts == {d[i].host : i \in left}
  <2>1. \A h : h \in kept <=> \E k \in 1..n : all[k].host = h
    BY <1>10
  <2>2. /\ \A i : i \in left <=> i \in Usable(d) /\ d[i].host \notin kept
        /\ \A h : h \in hosts <=> \E i \in left : d[i].host = h
    OBVIOUS
  <2> HIDE DEF kept, left, hosts
  <2>3. Split(d, all, n, kept, left, hosts)
    BY <1>7, <1>9, <2>1, <2>2 DEF Split
  <2>4. /\ Cardinality(hosts) = Len(all) - n
        /\ \A k \in 1..n : \A i \in left : all[k].priority <= d[i].priority
        /\ Cardinality(kept) = n
    BY <1>3, <1>4, <2>3, PrefixPreferred
  <2>5. /\ omitted' = Cardinality(hosts)
        /\ \A t \in DOMAIN targets' : \A i \in left : targets'[t].priority <= d[i].priority
        /\ Cardinality(kept) = Len(targets')
    BY <1>9, <1>10, <2>4
  <2> QED
    BY <1>1, <2>5 DEF PreferredTargets, kept, left, hosts
<1>15. \/ targets' = <<>> /\ Complete("unsupported_service_mode")
       \/ targets' # <<>> /\ phase' = "next"
  BY DEF ServiceMode, GoOn
<1>16. ~Walking'
  BY <1>15 DEF Complete, Return, Walking
<1>17. /\ VisitInv' /\ LinkInv' /\ WalkInv' /\ ValidChain'
       /\ https' # <<>> /\ followed' = Len(https') - 1 /\ followed' \in 0..AliasLimit
       /\ answer.outcome = "succeeded" /\ ~Incomplete(LastHTTPS)'
  BY <1>1, <1>16, ChainEnds
<1>18. TargetInv'
  <2> SUFFICES ASSUME Asking' PROVE TargetInv'
    BY DEF TargetInv
  <2>1. targets' # <<>>
    BY <1>15 DEF Complete, Return, Asking
  <2>2. 1 \in DOMAIN targets' /\ Len(targets'[1].observations) = 0
    BY <1>9, <1>10, <1>12, <2>1
  <2>3. Open(targets)' # {}
    BY <2>2 DEF Open
  <2> QED
    BY <1>1, <1>5, <1>6, <1>13, <1>17, <2>3 DEF TargetInv
<1>19. ASSUME Returned' PROVE ValidConclusion' /\ targets' = <<>>
  <2>1. /\ targets' = <<>>
        /\ result' = [status |-> "completed", completion |-> "unsupported_service_mode",
                      reason |-> "none"]
    BY <1>15, <1>19 DEF Complete, Return, Returned
  <2>2. Usable(d) = {}
    <3>1. Len(all) = 0
      BY <1>9, <1>10, <2>1
    <3> QED
      BY <1>4, <3>1 DEF TargetsOf
  <2>3. ValidShape' /\ ValidCompletion'
    BY <1>1, <1>5, <1>6, <2>1, <2>2 DEF ValidShape, CompletionKinds, ValidCompletion
  <2>4. ValidTargets'
    <3>1. DOMAIN targets' = {}
      BY <2>1
    <3> QED
      BY <1>13, <3>1 DEF ValidTargets, TargetsKept
  <2> QED
    BY <1>1, <1>5, <1>6, <1>17, <2>1, <2>3, <2>4 DEF ValidConclusion
<1> QED
  BY <1>9, <1>10, <1>11, <1>12, <1>14, <1>17, <1>18, <1>19

\* Without ServiceMode records the name itself is the only target.
LEMMA FallBackStep ==
  ASSUME IInv, FallBack
  PROVE  /\ VisitInv' /\ LinkInv' /\ WalkInv' /\ TargetInv' /\ PreferredTargets'
         /\ targets' \in Seq(AddressTargets) /\ Len(targets') <= ServiceTargetLimit
         /\ \A t \in DOMAIN targets' : Len(targets'[t].observations) <= 2
         /\ Returned' => ValidConclusion' /\ targets' = <<>>
<1> DEFINE target == [host |-> answer.effective, source |-> Fallback, priority |-> 0,
                      observations |-> <<>>]
<1>1. /\ Conclusive /\ answer.alias = NoAlias /\ answer.services = <<>>
      /\ current' = current /\ followed' = followed
      /\ bindings' = bindings /\ omitted' = omitted
      /\ \/ answer.effective = Root /\ Complete("service_unavailable") /\ targets' = targets
         \/ answer.effective # Root /\ targets' = <<target>> /\ phase' = "next"
  BY DEF FallBack, GoOn
<1>2. /\ bindings = <<>> /\ targets = <<>> /\ omitted = 0
      /\ answer.effective \in Names \cup {Root} /\ LastHTTPS' = answer
      /\ accepted' = {answer.adapter}
  BY <1>1, ConclusiveChain
<1>3. ~Walking'
  BY <1>1 DEF Complete, Return, Walking
<1>4. /\ VisitInv' /\ LinkInv' /\ WalkInv' /\ ValidChain'
      /\ https' # <<>> /\ followed' = Len(https') - 1 /\ followed' \in 0..AliasLimit
      /\ answer.outcome = "succeeded" /\ ~Incomplete(LastHTTPS)'
      /\ ExpectedDecisions' = Decisions(answer.services)
  BY <1>1, <1>3, ChainEnds
<1>5. ExpectedDecisions' = <<>>
  BY <1>1, <1>4 DEF Decisions
<1>6. PreferredTargets'
  BY <1>1, <1>2 DEF PreferredTargets
<1>7. Fallback' = Fallback /\ Fallback \in {"alias_fallback", "origin_fallback"}
  BY <1>1 DEF Fallback
<1>8. CASE answer.effective = Root
  <2>1. /\ targets' = <<>>
        /\ result' = [status |-> "completed", completion |-> "service_unavailable",
                      reason |-> "none"]
        /\ phase' = "returned"
    BY <1>1, <1>2, <1>8 DEF Complete, Return
  <2>2. Len(targets') = 0 /\ DOMAIN targets' = {} /\ targets' \in Seq(AddressTargets)
    BY <2>1
  <2>3. AllTargets' = <<>>
    BY <1>1, <1>2, <1>8 DEF AllTargets
  <2>4. Len(AllTargets') = 0 /\ ExpectedOmitted' = 0
    BY <2>3, LimitAssumption DEF ExpectedOmitted
  <2>5. ValidTargets'
    BY <2>2, <2>4 DEF ValidTargets
  <2>6. ValidShape' /\ ValidCompletion'
    BY <1>2, <1>8, <2>1 DEF ValidShape, CompletionKinds, ValidCompletion
  <2>7. ValidConclusion'
    BY <1>1, <1>2, <1>4, <1>5, <2>1, <2>4, <2>5, <2>6 DEF ValidConclusion
  <2>8. TargetInv'
    BY <2>1 DEF TargetInv, Asking
  <2> QED
    BY <1>4, <1>6, <2>1, <2>2, <2>7, <2>8, LimitAssumption
<1>9. CASE answer.effective # Root
  <2>1. targets' = <<target>> /\ phase' = "next"
    BY <1>1, <1>9
  <2>2. target \in AddressTargets
    <3>1. <<>> \in Seq(AddressObservations)
      OBVIOUS
    <3> QED
      BY <1>2, <1>7, <3>1 DEF AddressTargets
  <2>3. /\ target.host = answer.effective /\ target.source = Fallback /\ target.priority = 0
        /\ Len(target.observations) = 0 /\ DOMAIN target.observations = {}
    OBVIOUS
  <2>4. AllTargets' = <<target>>
    BY <1>1, <1>2, <1>7, <1>9 DEF AllTargets
  <2> HIDE DEF target
  <2>5. /\ targets' \in Seq(AddressTargets) /\ Len(targets') = 1 /\ DOMAIN targets' = {1}
        /\ targets'[1] = target
        /\ AllTargets'[1] = target /\ Len(AllTargets') = 1
    BY <2>1, <2>2, <2>4
  <2>6. ExpectedOmitted' = 0
    BY <2>5, LimitAssumption DEF ExpectedOmitted
  <2>7. TargetsKept(targets, accepted, {"succeeded", "failed"})'
    BY <2>3, <2>5, <2>6 DEF TargetsKept
  <2>8. Open(targets)' # {}
    <3>1. 1 \in DOMAIN targets' /\ Len(targets'[1].observations) < 2
      BY <2>3, <2>5
    <3> QED
      BY <3>1 DEF Open
  <2>9. TargetInv'
    BY <1>1, <1>2, <1>4, <1>5, <1>9, <2>6, <2>7, <2>8 DEF TargetInv
  <2>10. \A t \in DOMAIN targets' : Len(targets'[t].observations) <= 2
    BY <2>3, <2>5
  <2> QED
    BY <1>4, <1>6, <2>1, <2>5, <2>9, <2>10, LimitAssumption DEF Returned
<1> QED
  BY <1>8, <1>9

-----------------------------------------------------------------------------
(***************************************************************************)
(* The invariant.                                                          *)
(***************************************************************************)
\* A path that is cut between two questions reports what it has.
LEMMA CutOff ==
  ASSUME IInv, phase # "returned", UNCHANGED <<chain, serving>>,
         NEW reason \in {"cancelled", "path_timeout", "invalid_probe_evidence"}, Stop(reason)
  PROVE  ValidConclusion' /\ result'.reason = reason
<1>1. /\ ValidShape' /\ result'.status # "completed" /\ result'.reason = reason
  BY StopShape DEF StopReasons
<1>2. CASE Walking
  BY <1>1, <1>2, StoppedWalk
<1>3. CASE Asking
  <2>1. TargetsKept(targets, accepted, {"succeeded", "failed"})
    BY <1>3 DEF IInv, TargetInv
  <2>2. TargetsKept(targets', accepted, {"succeeded", "failed", "cancelled"})
    BY <2>1 DEF TargetsKept, serving
  <2>3. UNCHANGED <<chain, bindings, omitted>>
    BY DEF serving
  <2> QED
    BY <1>1, <1>3, <2>2, <2>3, AskedReturns
<1> QED
  BY <1>2, <1>3 DEF IInv, TypeInv, TypeOK, Walking, Asking

\* An observation of another question is refused.
LEMMA UsableAnswer ==
  ASSUME NEW host, NEW o \in Unusable(host), o.outcome # "broken"
  PROVE  o \in Failures(host)
BY DEF Unusable, Broken

\* The steps that change neither chain nor targets.
LEMMA QuietStep ==
  ASSUME IInv,
         CallerEnds \/ Propagate \/ PathDeadline \/ Look \/ Start \/ Ask \/ Answered \/ Reject
           \/ NextQuestion \/ LookedUp
  PROVE  /\ UNCHANGED <<chain, serving, accepted>>
         /\ VisitInv' /\ LinkInv' /\ WalkInv' /\ TargetInv'
         /\ Returned' => ValidConclusion' /\ result'.reason # "dns_observation_incomplete"
<1>1. UNCHANGED <<chain, serving, accepted>> /\ phase # "returned"
  BY DEF CallerEnds, Propagate, PathDeadline, Look, Looks, Start, Ask, Answered, Reject,
         NextQuestion, LookedUp, Live
<1>2. \/ phase' = "returned"
      \/ /\ phase' = "start" => phase = "start"
         /\ phase' \in {"start", "ask", "question", "judge"} => Walking
         /\ phase' \in {"next", "lookup", "weigh"} => Asking
         /\ phase # "returned"
  BY <1>1 DEF CallerEnds, Propagate, PathDeadline, Look, Start, Ask, Answered, Reject,
              NextQuestion, LookedUp, Stop, Return, GoOn, Walking, Asking
<1>3. VisitInv' /\ LinkInv' /\ WalkInv' /\ TargetInv'
  BY <1>1, <1>2, Quiet
<1>4. ASSUME Returned'
      PROVE  ValidConclusion' /\ result'.reason # "dns_observation_incomplete"
  <2>1. \/ \E reason \in {"cancelled", "path_timeout", "invalid_probe_evidence"} : Stop(reason)
        \/ phase = "start" /\ Stop("invalid_input")
    <3>1. CASE Start
      BY <1>4, <3>1, EndedReasons DEF Start, GoOn, Returned
    <3>2. CASE Ask \/ NextQuestion
      BY <1>4, <3>2, EndedReasons DEF Ask, NextQuestion, GoOn, Returned
    <3>3. CASE Reject
      BY <3>3 DEF Reject
    <3>4. CASE CallerEnds \/ Propagate \/ PathDeadline \/ Look \/ Answered \/ LookedUp
      BY <1>1, <1>4, <3>4
      DEF CallerEnds, Propagate, PathDeadline, Look, Answered, LookedUp, Returned
    <3> QED
      BY <3>1, <3>2, <3>3, <3>4
  <2>2. CASE \E reason \in {"cancelled", "path_timeout", "invalid_probe_evidence"} : Stop(reason)
    <3>1. PICK reason \in {"cancelled", "path_timeout", "invalid_probe_evidence"} : Stop(reason)
      BY <2>2
    <3> QED
      BY <1>1, <3>1, CutOff
  <2>3. CASE phase = "start" /\ Stop("invalid_input")
    <3>1. ValidShape' /\ result'.reason = "invalid_input"
      BY <2>3, StopShape DEF StopReasons
    <3>2. /\ https' = <<>> /\ bindings' = <<>> /\ targets' = <<>> /\ omitted' = 0
          /\ followed' = Len(https)
      BY <1>1, <2>3 DEF IInv, WalkInv, Walking, chain, serving
    <3>3. Len(https) = 0
      BY <1>1, <3>2 DEF chain
    <3> QED
      BY <3>1, <3>2, <3>3 DEF ValidConclusion
  <2> QED
    BY <2>1, <2>2, <2>3
<1> QED
  BY <1>1, <1>3, <1>4

\* Every result that can be returned is of the right type.
LEMMA ResultTyped ==
  ASSUME \/ \E reason \in StopReasons : Stop(reason)
         \/ \E completion \in CompletionKinds : Complete(completion)
         \/ IInv /\ UNCHANGED result
  PROVE  /\ result'.status \in {"none", "completed", "stopped", "cancelled"}
         /\ result'.completion \in CompletionKinds \cup {"none"}
         /\ result'.reason \in StopReasons \cup {"none"}
BY DEF Stop, Complete, Return, IInv, TypeInv, TypeOK

\* The contexts are read by the steps of Observe and not ended by them, and the request
\* stays what it is.
LEMMA ResultsTyped ==
  ASSUME IInv, Step
  PROVE  /\ result'.status \in {"none", "completed", "stopped", "cancelled"}
         /\ result'.completion \in CompletionKinds \cup {"none"}
         /\ result'.reason \in StopReasons \cup {"none"}
         /\ phase' \in {"start", "ask", "question", "judge", "next", "lookup", "weigh",
                        "returned"}
         /\ UNCHANGED contexts /\ request' = request
         /\ glance' \in {"unread", "canceled", "not_canceled"}
<1>1. UNCHANGED contexts /\ request' = request
  BY DEF Step, Look, Start, Ask, Answered, Reject, StopEarly, AliasEnds, Follow, ServiceMode,
         FallBack, NextQuestion, LookedUp, Weigh, Conclusive, Judged
<1>2. /\ phase' \in {"start", "ask", "question", "judge", "next", "lookup", "weigh", "returned"}
      /\ glance' \in {"unread", "canceled", "not_canceled"}
  BY DEF Step, Look, Looks, Start, Ask, Answered, Reject, StopEarly, AliasEnds, Follow,
         ServiceMode, FallBack, NextQuestion, LookedUp, Weigh, Stop, Complete, Return, GoOn, IInv,
         TypeInv, TypeOK
<1>3. Ended \in StopReasons \cup {"none"}
  BY EndedReasons DEF StopReasons
<1>4. \/ \E reason \in StopReasons : Stop(reason)
      \/ \E completion \in CompletionKinds : Complete(completion)
      \/ UNCHANGED result
  <2>1. CASE Start
    BY <1>3, <2>1 DEF Start, GoOn, StopReasons
  <2>2. CASE Ask \/ NextQuestion
    BY <1>3, <2>2 DEF Ask, NextQuestion, GoOn
  <2>3. CASE Look \/ Answered \/ LookedUp
    BY <2>3 DEF Look, Answered, LookedUp
  <2>4. CASE Reject
    BY <2>4 DEF Reject, StopReasons
  <2>5. CASE StopEarly
    <3>1. Early \in StopReasons \cup {"none"}
      BY <1>3 DEF Early, StopReasons
    <3> QED
      BY <2>5, <3>1 DEF StopEarly
  <2>6. CASE AliasEnds
    BY <2>6 DEF AliasEnds, AliasReason, StopReasons, CompletionKinds
  <2>7. CASE Follow
    BY <2>7 DEF Follow, GoOn
  <2>8. CASE ServiceMode
    BY <2>8 DEF ServiceMode, GoOn, CompletionKinds
  <2>9. CASE FallBack
    BY <2>9 DEF FallBack, GoOn, CompletionKinds
  <2>10. CASE Weigh
    <3>1. Verdict(targets') \in StopReasons \cup {"none"} /\ Completion \in CompletionKinds
      BY DEF Verdict, Completion, Fallback, StopReasons, CompletionKinds
    <3> QED
      BY <1>3, <2>10, <3>1 DEF Weigh, GoOn, StopReasons
  <2> QED
    BY <2>1, <2>2, <2>3, <2>4, <2>5, <2>6, <2>7, <2>8, <2>9, <2>10 DEF Step
<1>5. /\ result'.status \in {"none", "completed", "stopped", "cancelled"}
      /\ result'.completion \in CompletionKinds \cup {"none"}
      /\ result'.reason \in StopReasons \cup {"none"}
  BY <1>4, ResultTyped
<1> QED
  BY <1>1, <1>2, <1>5

LEMMA AnswerKept ==
  ASSUME IInv, Next
  PROVE  AnswerInv'
<1>1. CASE CallerEnds \/ Propagate \/ PathDeadline \/ Look
  <2>1. phase' = phase /\ answer' = answer /\ current' = current /\ targets' = targets
    BY <1>1 DEF CallerEnds, Propagate, PathDeadline, Look, chain, serving
  <2>2. At' = At
    BY <2>1 DEF At, Open
  <2> QED
    BY <2>1, <2>2 DEF IInv, AnswerInv
<1>2. CASE Answered
  <2>1. /\ answer' \in HTTPSAnswers(current) \cup Unusable(current) /\ phase' = "judge"
        /\ current' = current
    BY <1>2 DEF Answered, chain
  <2>2. answer'.outcome # "broken" => answer' \in HTTPSAnswers(current) \cup Failures(current)
    BY <2>1, UsableAnswer
  <2> QED
    BY <2>1, <2>2 DEF AnswerInv, HTTPSAnswers, Failures
<1>3. CASE LookedUp
  <2>1. /\ answer' \in AddressAnswers(targets[At].host) \cup Unusable(targets[At].host)
        /\ phase' = "weigh" /\ targets' = targets
    BY <1>3 DEF LookedUp, serving
  <2>2. answer'.outcome # "broken" =>
          answer' \in AddressAnswers(targets[At].host) \cup Failures(targets[At].host)
    BY <2>1, UsableAnswer
  <2>3. At' = At
    BY <2>1 DEF At, Open
  <2> QED
    BY <2>1, <2>2, <2>3 DEF AnswerInv, AddressAnswers, Failures
<1>4. CASE Start \/ Ask \/ Reject \/ StopEarly \/ AliasEnds \/ Follow \/ ServiceMode \/ FallBack
             \/ NextQuestion \/ Weigh \/ Done
  <2>1. phase' \notin {"judge", "weigh"}
    BY <1>4 DEF Start, Ask, Reject, StopEarly, AliasEnds, Follow, ServiceMode, FallBack,
                NextQuestion, Weigh, Done, Returned, vars, Stop, Complete, Return, GoOn
  <2> QED
    BY <2>1 DEF AnswerInv
<1> QED
  BY <1>1, <1>2, <1>3, <1>4 DEF Next, Step

LEMMA TypesKept ==
  ASSUME IInv, Next
  PROVE  TypeInv'
<1>1. TypeInv /\ TypeOK
  BY DEF IInv, TypeInv
<1>2. CASE CallerEnds \/ Propagate \/ PathDeadline
  <2>1. UNCHANGED <<phase, chain, accepted, serving, result>>
    BY <1>2 DEF CallerEnds, Propagate, PathDeadline
  <2>2. /\ callerErr' \in {"active", "canceled", "deadline"}
        /\ pathErr' \in {"active", "canceled", "deadline"}
        /\ glance' = glance /\ request' = request
    BY <1>1, <1>2, CallerAssumption DEF CallerEnds, Propagate, PathDeadline, TypeOK
  <2> QED
    BY <1>1, <2>1, <2>2 DEF TypeInv, TypeOK, chain, serving
<1>3. CASE Done
  BY <1>1, <1>3 DEF Done, vars, contexts, chain, serving, TypeInv, TypeOK
<1>4. CASE Step
  <2>1. /\ result'.status \in {"none", "completed", "stopped", "cancelled"}
        /\ result'.completion \in CompletionKinds \cup {"none"}
        /\ result'.reason \in StopReasons \cup {"none"}
        /\ phase' \in {"start", "ask", "question", "judge", "next", "lookup", "weigh", "returned"}
        /\ callerErr' = callerErr /\ pathErr' = pathErr /\ request' = request
        /\ glance' \in {"unread", "canceled", "not_canceled"}
    BY <1>4, ResultsTyped DEF contexts
  <2>2. SUFFICES /\ current' \in Names /\ seen' \subseteq Names \cup {Root}
                 /\ accepted' \subseteq Adapters \cup {Unselected}
                 /\ followed' \in 0 .. AliasLimit
                 /\ https' \in Seq(HTTPSObservations) /\ Len(https') <= AliasLimit + 1
                 /\ targets' \in Seq(AddressTargets) /\ Len(targets') <= ServiceTargetLimit
                 /\ \A t \in DOMAIN targets' : Len(targets'[t].observations) <= 2
                 /\ omitted' \in Nat
    BY <1>1, <2>1 DEF TypeInv, TypeOK
  <2>3. CASE Look \/ Start \/ Ask \/ Answered \/ Reject \/ NextQuestion \/ LookedUp
    <3>1. UNCHANGED <<chain, serving, accepted>>
      BY <2>3, QuietStep
    <3> QED
      BY <1>1, <3>1 DEF TypeInv, TypeOK, chain, serving
  <2>4. CASE StopEarly
    <3>1. /\ UNCHANGED <<current, seen, followed, omitted>> /\ accepted' = {answer.adapter}
          /\ phase = "judge" /\ Acceptable
      BY <2>4 DEF StopEarly, Judged, serving
    <3>2. /\ https' \in Seq(HTTPSObservations) /\ Len(https') <= AliasLimit + 1 /\ targets' = <<>>
      BY <2>4, EarlyStep
    <3>3. answer.adapter \in Adapters \cup {Unselected}
      <4>1. current \in Names /\ answer \in HTTPSAnswers(current) \cup Failures(current)
        BY <1>1, <3>1 DEF IInv, AnswerInv, Acceptable, TypeOK
      <4> QED
        BY <4>1, HTTPSAnswer
    <3>4. Len(targets') = 0 /\ DOMAIN targets' = {} /\ targets' \in Seq(AddressTargets)
      BY <3>2
    <3> QED
      BY <1>1, <3>1, <3>2, <3>3, <3>4, LimitAssumption DEF TypeOK
  <2>5. CASE AliasEnds \/ Follow \/ ServiceMode \/ FallBack
    <3>1. Conclusive
      BY <2>5 DEF AliasEnds, Follow, ServiceMode, FallBack
    <3>2. /\ followed = Len(https) /\ followed \in 0..AliasLimit
          /\ accepted' = {answer.adapter} /\ answer.adapter \in Adapters \cup {Unselected}
          /\ answer.effective \in Names \cup {Root}
          /\ answer.alias \in Names \cup {Root, NoAlias}
          /\ https' \in Seq(HTTPSObservations) /\ Len(https') = Len(https) + 1
      BY <3>1, ConclusiveChain
    <3>3. Len(https') <= AliasLimit + 1 /\ SeenWith(seen) \subseteq Names \cup {Root}
      BY <1>1, <3>2, LimitAssumption DEF SeenWith, TypeOK
    <3>4. CASE AliasEnds
      BY <1>1, <3>2, <3>3, <3>4 DEF AliasEnds, TypeInv, TypeOK, serving
    <3>5. CASE Follow
      <4>1. current' \in Names /\ followed' \in 0..AliasLimit
        BY <3>5, FollowStep
      <4>2. seen' = SeenWith(seen) \cup {current'} /\ targets' = targets /\ omitted' = omitted
        BY <3>5 DEF Follow, serving
      <4> QED
        BY <1>1, <3>2, <3>3, <4>1, <4>2 DEF TypeInv, TypeOK
    <3>6. CASE ServiceMode
      <4>1. /\ targets' \in Seq(AddressTargets) /\ Len(targets') <= ServiceTargetLimit
            /\ \A t \in DOMAIN targets' : Len(targets'[t].observations) <= 2
            /\ omitted' \in Nat
        BY <3>6, ServiceModeStep
      <4>2. current' = current /\ followed' = followed /\ seen' = SeenWith(seen)
        BY <3>6 DEF ServiceMode
      <4> QED
        BY <1>1, <3>2, <3>3, <4>1, <4>2 DEF TypeOK
    <3>7. CASE FallBack
      <4>1. /\ targets' \in Seq(AddressTargets) /\ Len(targets') <= ServiceTargetLimit
            /\ \A t \in DOMAIN targets' : Len(targets'[t].observations) <= 2
        BY <3>7, FallBackStep
      <4>2. /\ current' = current /\ followed' = followed /\ seen' = SeenWith(seen)
            /\ omitted' = omitted
        BY <3>7 DEF FallBack
      <4> QED
        BY <1>1, <3>2, <3>3, <4>1, <4>2 DEF TypeOK
    <3> QED
      BY <2>5, <3>4, <3>5, <3>6, <3>7
  <2>6. CASE Weigh
    <3>1. /\ targets' \in Seq(AddressTargets) /\ Len(targets') = Len(targets)
          /\ \A t \in DOMAIN targets' : Len(targets'[t].observations) <= 2
          /\ accepted' = accepted
      BY <2>6, WeighStep DEF SameTargets
    <3>2. UNCHANGED <<current, seen, https, followed, omitted>>
      BY <2>6 DEF Weigh, chain
    <3> QED
      BY <1>1, <3>1, <3>2 DEF TypeInv, TypeOK
  <2> QED
    BY <1>4, <2>3, <2>4, <2>5, <2>6 DEF Step
<1> QED
  BY <1>2, <1>3, <1>4 DEF Next

\* Only a request that is not refused gets past the start, and only one that is
\* refused is reported as such.
RequestInv ==
  /\ phase \notin {"start", "returned"} => request = "valid"
  /\ Returned => (result.reason = "invalid_input" <=> request # "valid")

\* The inductive invariant with what is true of every Result.
FullInv ==
  /\ IInv
  /\ PreferredTargets
  /\ Returned => ValidConclusion
  /\ RequestInv
  /\ FailureOutranksIncomplete

LEMMA InvariantStarts == Init => FullInv
<1> SUFFICES ASSUME Init PROVE FullInv
  OBVIOUS
<1>1. /\ https = <<>> /\ targets = <<>> /\ bindings = <<>> /\ Len(https) = 0 /\ Len(targets) = 0
      /\ DOMAIN https = {} /\ DOMAIN targets = {}
      /\ phase = "start" /\ accepted = {} /\ followed = 0 /\ omitted = 0
      /\ current = Origin /\ seen = {Origin}
      /\ result = [status |-> "none", completion |-> "none", reason |-> "none"]
  BY DEF Init
<1>2. TypeInv
  <2>1. TypeOK
    BY <1>1, RequestAssumption, NameAssumption, LimitAssumption, CallerAssumption
       DEF Init, TypeOK
  <2> QED
    BY <1>1, <2>1 DEF TypeInv
<1>3. VisitInv
  BY <1>1 DEF VisitInv, ChainNeverRevisits, QueriedNames
<1>4. LinkInv /\ WalkInv
  BY <1>1 DEF LinkInv, WalkInv
<1>5. TargetInv /\ AnswerInv
  BY <1>1 DEF TargetInv, AnswerInv, Asking
<1>6. ~Returned /\ PreferredTargets /\ RequestInv /\ FailureOutranksIncomplete
  BY <1>1 DEF PreferredTargets, RequestInv, FailureOutranksIncomplete, Returned
<1> QED
  BY <1>2, <1>3, <1>4, <1>5, <1>6 DEF FullInv, IInv

\* Bindings, the number of hosts left out, and the hosts with their priorities decide
\* what is preferred.
LEMMA PreferredKept ==
  ASSUME PreferredTargets, bindings' = bindings, omitted' = omitted, SameTargets(targets, targets')
  PROVE  PreferredTargets'
<1>1. /\ DOMAIN targets' = DOMAIN targets /\ Len(targets') = Len(targets)
      /\ \A t \in DOMAIN targets : /\ targets'[t].host = targets[t].host
                                   /\ targets'[t].priority = targets[t].priority
  BY DEF SameTargets
<1>2. {targets'[t].host : t \in DOMAIN targets'} = {targets[t].host : t \in DOMAIN targets}
  BY <1>1
<1> QED
  BY <1>1, <1>2 DEF PreferredTargets

\* No step but the first refuses the request.
LEMMA RequestKept ==
  ASSUME RequestInv, [Next]_vars
  PROVE  RequestInv'
<1>1. CASE CallerEnds \/ Propagate \/ PathDeadline \/ Look \/ Answered \/ LookedUp
  BY <1>1 DEF CallerEnds, Propagate, PathDeadline, Look, Looks, Answered, LookedUp, RequestInv,
              Returned, Live
<1>2. CASE Start
  BY <1>2, EndedReasons DEF Start, Stop, Return, GoOn, RequestInv, Returned
<1>3. CASE Ask \/ Reject \/ StopEarly \/ AliasEnds \/ Follow \/ ServiceMode \/ FallBack
             \/ NextQuestion \/ Weigh
  <2>1. phase \notin {"start", "returned"} /\ request' = request
    BY <1>3 DEF Ask, Reject, StopEarly, AliasEnds, Follow, ServiceMode, FallBack, NextQuestion,
                Weigh, Conclusive, Judged
  <2>2. phase' # "returned" \/ result'.reason # "invalid_input"
    <3>1. CASE Ask \/ Reject \/ StopEarly \/ NextQuestion
      BY <3>1, EndedReasons DEF Ask, Reject, StopEarly, NextQuestion, Early, Stop, Return, GoOn
    <3>2. CASE AliasEnds \/ Follow \/ ServiceMode \/ FallBack
      BY <3>2 DEF AliasEnds, Follow, ServiceMode, FallBack, AliasReason, Stop, Complete, Return,
                  GoOn
    <3>3. CASE Weigh
      <4>1. Ended # "invalid_input" /\ Verdict(targets') # "invalid_input"
        BY EndedReasons DEF Verdict
      <4> QED
        BY <3>3, <4>1 DEF Weigh, Stop, Complete, Return, GoOn
    <3> QED
      BY <1>3, <3>1, <3>2, <3>3
  <2> QED
    BY <2>1, <2>2 DEF RequestInv, Returned
<1>4. CASE Done \/ UNCHANGED vars
  BY <1>4 DEF Done, vars, RequestInv, Returned
<1> QED
  BY <1>1, <1>2, <1>3, <1>4 DEF Next, Step

LEMMA InvariantKept ==
  ASSUME FullInv, [Next]_vars
  PROVE  FullInv'
<1>1. IInv /\ PreferredTargets /\ RequestInv'
  BY RequestKept DEF FullInv
<1>2. CASE UNCHANGED vars
  <2>1. /\ current' = current /\ seen' = seen /\ https' = https /\ followed' = followed
        /\ bindings' = bindings /\ targets' = targets /\ omitted' = omitted
        /\ accepted' = accepted /\ phase' = phase /\ answer' = answer /\ result' = result
        /\ callerErr' = callerErr /\ pathErr' = pathErr /\ glance' = glance
        /\ request' = request
    BY <1>2 DEF vars, contexts, chain, serving
  <2>2. TypeInv'
    BY <1>1, <2>1 DEF IInv, TypeInv, TypeOK
  <2>3. VisitInv' /\ LinkInv' /\ WalkInv' /\ TargetInv'
    BY <1>1, <2>1, Quiet DEF chain, serving, Walking, Asking
  <2>4. AnswerInv'
    <3>1. At' = At
      BY <2>1 DEF At, Open
    <3> QED
      BY <1>1, <2>1, <3>1 DEF IInv, AnswerInv
  <2>5. PreferredTargets'
    BY <1>1, <2>1 DEF PreferredTargets
  <2>6. FailureOutranksIncomplete'
    BY <2>1 DEF FullInv, FailureOutranksIncomplete, Returned, Holds, Failed
  <2>7. ValidConclusion' <=> ValidConclusion
    <3>1. /\ LastHTTPS' = LastHTTPS /\ ExpectedDecisions' = ExpectedDecisions
          /\ AllTargets' = AllTargets /\ ExpectedOmitted' = ExpectedOmitted
          /\ Fallback' = Fallback /\ QueriedNames' = QueriedNames
          /\ Incomplete(LastHTTPS)' = Incomplete(LastHTTPS)
      BY <2>1 DEF LastHTTPS, ExpectedDecisions, AllTargets, ExpectedOmitted, Fallback,
                  QueriedNames, Incomplete
    <3>2. /\ ValidShape' <=> ValidShape
          /\ ValidWithoutEvidence' <=> ValidWithoutEvidence
          /\ ValidChain' <=> ValidChain
      BY <2>1 DEF ValidShape, ValidWithoutEvidence, ValidChain
    <3>3. ValidStopEvidence' <=> ValidStopEvidence
      BY <2>1, <3>1 DEF ValidStopEvidence, Holds, Failed, Incomplete
    <3>4. ValidTargets' <=> ValidTargets
      BY <2>1, <3>1 DEF ValidTargets
    <3>5. ValidCompletion' <=> ValidCompletion
      BY <2>1, <3>1 DEF ValidCompletion
    <3> QED
      BY <2>1, <3>1, <3>2, <3>3, <3>4, <3>5 DEF ValidConclusion
  <2>8. Returned' => ValidConclusion'
    BY <2>1, <2>7 DEF FullInv, Returned
  <2> QED
    BY <1>1, <2>2, <2>3, <2>4, <2>5, <2>6, <2>8 DEF FullInv, IInv
<1>3. CASE Next /\ ~UNCHANGED vars
  <2>1. TypeInv' /\ AnswerInv'
    BY <1>1, <1>3, TypesKept, AnswerKept
  <2>2. SUFFICES /\ VisitInv' /\ LinkInv' /\ WalkInv' /\ TargetInv' /\ PreferredTargets'
                 /\ Returned' =>
                      /\ ValidConclusion'
                      /\ result'.reason = "dns_observation_incomplete" => ~Holds(targets, Failed)'
    BY <1>1, <2>1 DEF FullInv, IInv, FailureOutranksIncomplete
  <2>3. CASE CallerEnds \/ Propagate \/ PathDeadline \/ Look \/ Start \/ Ask \/ Answered \/ Reject
               \/ NextQuestion \/ LookedUp
    <3>1. /\ UNCHANGED serving
          /\ VisitInv' /\ LinkInv' /\ WalkInv' /\ TargetInv'
          /\ Returned' => ValidConclusion' /\ result'.reason # "dns_observation_incomplete"
      BY <1>1, <2>3, QuietStep
    <3>2. PreferredTargets'
      BY <1>1, <3>1 DEF PreferredTargets, serving
    <3> QED
      BY <3>1, <3>2
  <2>4. CASE StopEarly
    <3>1. /\ VisitInv' /\ LinkInv' /\ WalkInv' /\ TargetInv' /\ ValidConclusion' /\ targets' = <<>>
      BY <1>1, <2>4, EarlyStep
    <3>2. PreferredTargets'
      BY <1>1, <2>4 DEF StopEarly, PreferredTargets, serving
    <3> QED
      BY <3>1, <3>2 DEF Holds
  <2>5. CASE AliasEnds
    <3>1. /\ VisitInv' /\ LinkInv' /\ WalkInv' /\ TargetInv' /\ ValidConclusion'
      BY <1>1, <2>5, AliasEndsStep
    <3>2. bindings' = bindings /\ omitted' = omitted /\ targets' = targets
      BY <2>5 DEF AliasEnds, serving
    <3>3. PreferredTargets'
      BY <1>1, <3>2 DEF PreferredTargets
    <3>4. result'.reason # "dns_observation_incomplete"
      BY <2>5 DEF AliasEnds, AliasReason, Complete, Stop, Return
    <3> QED
      BY <3>1, <3>3, <3>4
  <2>6. CASE Follow
    <3>1. VisitInv' /\ LinkInv' /\ WalkInv' /\ TargetInv' /\ ~Returned'
      BY <1>1, <2>6, FollowStep
    <3>2. PreferredTargets'
      BY <1>1, <2>6 DEF Follow, PreferredTargets, serving
    <3> QED
      BY <3>1, <3>2
  <2>7. CASE ServiceMode
    <3>1. /\ VisitInv' /\ LinkInv' /\ WalkInv' /\ TargetInv' /\ PreferredTargets'
          /\ Returned' => ValidConclusion' /\ targets' = <<>>
      BY <1>1, <2>7, ServiceModeStep
    <3> QED
      BY <3>1 DEF Holds
  <2>8. CASE FallBack
    <3>1. /\ VisitInv' /\ LinkInv' /\ WalkInv' /\ TargetInv' /\ PreferredTargets'
          /\ Returned' => ValidConclusion' /\ targets' = <<>>
      BY <1>1, <2>8, FallBackStep
    <3> QED
      BY <3>1 DEF Holds
  <2>9. CASE Weigh
    <3>1. /\ VisitInv' /\ LinkInv' /\ WalkInv' /\ TargetInv' /\ SameTargets(targets, targets')
          /\ Returned' => ValidConclusion'
          /\ Returned' /\ result'.reason = "dns_observation_incomplete" =>
               ~Holds(targets, Failed)'
      BY <1>1, <2>9, WeighStep
    <3>2. bindings' = bindings /\ omitted' = omitted
      BY <2>9 DEF Weigh
    <3> QED
      BY <1>1, <3>1, <3>2, PreferredKept
  <2>10. CASE Done
    BY <1>3, <2>10 DEF Done
  <2> QED
    BY <1>3, <2>3, <2>4, <2>5, <2>6, <2>7, <2>8, <2>9, <2>10 DEF Next, Step
<1> QED
  BY <1>2, <1>3

-----------------------------------------------------------------------------
(***************************************************************************)
(* The theorems.                                                           *)
(***************************************************************************)
\* The invariant: the chain is linked and names no name twice, every observation in
\* it but the last is conclusive, and the targets are those Validate recomputes.
THEOREM InvariantHolds == Spec => []FullInv
<1>1. Init => FullInv
  BY InvariantStarts
<1>2. FullInv /\ [Next]_vars => FullInv'
  BY InvariantKept
<1> QED
  BY <1>1, <1>2, PTL DEF Spec

\* Whatever the DNS observer returns and wherever the path is cut off, Validate accepts
\* the Result that Observe builds, if no host name is asked for that is refused although
\* what is kept of it is not: such a Result is refused, as commandline_hostname shows.
THEOREM ResultIsValid == "unstable" \notin Requests => (Spec => []EmittedResultValid)
<1> SUFFICES ASSUME "unstable" \notin Requests PROVE Spec => []EmittedResultValid
  OBVIOUS
<1> DEFINE Stable == request # "unstable"
<1>1. Init => Stable
  BY DEF Init
<1>2. FullInv /\ Stable /\ [Next]_vars => Stable'
  <2> SUFFICES ASSUME FullInv, Stable, [Next]_vars PROVE Stable'
    OBVIOUS
  <2>1. CASE Step
    BY <2>1, ResultsTyped DEF FullInv
  <2> QED
    BY <2>1 DEF Next, CallerEnds, Propagate, PathDeadline, Done, vars
<1>3. FullInv /\ Stable => EmittedResultValid
  BY DEF FullInv, IInv, TypeInv, TypeOK, RequestInv, EmittedResultValid, ValidResult
<1> QED
  BY <1>1, <1>2, <1>3, InvariantHolds, PTL DEF Spec

\* AliasMode and CNAME records together never lead Observe to a name it has asked for.
THEOREM ChainIsStraight == Spec => []ChainNeverRevisits
<1>1. FullInv => ChainNeverRevisits
  BY DEF FullInv, IInv, VisitInv
<1> QED
  BY <1>1, InvariantHolds, PTL

\* observeAddressTargets reports a failed question before an incomplete one.
THEOREM FailureIsReported == Spec => []FailureOutranksIncomplete
<1>1. FullInv => FailureOutranksIncomplete
  BY DEF FullInv
<1> QED
  BY <1>1, InvariantHolds, PTL

\* serviceAddressTargets and its limit: the hosts that are asked for are the preferred
\* ones, and the ones left out are counted once each.
THEOREM TargetsArePreferred == Spec => []PreferredTargets
<1>1. FullInv => PreferredTargets
  BY DEF FullInv
<1> QED
  BY <1>1, InvariantHolds, PTL

\* terminalContext is looked at after the last answer: with a context over by then no
\* step completes the path.
THEOREM CompletionIsInTime == Spec => CompletedInTime
<1>1. ASSUME FullInv, Next, result'.status = "completed", result.status = "none"
      PROVE  callerErr = "active" /\ pathErr = "active"
  <2>1. /\ callerErr \in {"active", "canceled", "deadline"}
        /\ pathErr \in {"active", "canceled", "deadline"}
    BY <1>1 DEF FullInv, IInv, TypeInv, TypeOK
  <2>2. SUFFICES Ended = "none" /\ phase # "start"
    BY <2>1 DEF Ended, TerminalContext
  <2>3. \/ UNCHANGED result
        \/ \E reason \in {"invalid_input", "invalid_probe_evidence"} : Stop(reason)
        \/ Stop(Ended)
        \/ StopEarly \/ AliasEnds \/ Follow \/ ServiceMode \/ FallBack \/ Weigh
    BY <1>1 DEF Next, Step, Look, Start, Ask, Answered, Reject, NextQuestion, LookedUp,
                CallerEnds, Propagate, PathDeadline, Done, vars, GoOn
  <2>4. \A reason : ~Stop(reason)
    BY <1>1 DEF Stop, Return
  <2>5. CASE StopEarly
    BY <2>4, <2>5 DEF StopEarly
  <2>6. CASE AliasEnds \/ Follow \/ ServiceMode \/ FallBack
    <3>1. Conclusive /\ phase # "start"
      BY <2>6 DEF AliasEnds, Follow, ServiceMode, FallBack, Conclusive, Judged
    <3> QED
      BY <1>1, <3>1, Concluded DEF FullInv
  <2>7. CASE Weigh
    BY <2>4, <2>7 DEF Weigh, Judged
  <2> QED
    BY <1>1, <2>3, <2>4, <2>5, <2>6, <2>7
<1>2. FullInv /\ [Next]_vars =>
        [result'.status = "completed" /\ result.status = "none" =>
           callerErr = "active" /\ pathErr = "active"]_vars
  BY <1>1
<1> QED
  BY <1>2, InvariantHolds, PTL DEF Spec, CompletedInTime
-----------------------------------------------------------------------------
(***************************************************************************)
(* The refinement.                                                         *)
(***************************************************************************)
\* While Observe runs there is no Result, and a cancelled answer has somebody who
\* cancelled, or comes from an injected observer.
CutInv ==
  /\ "canceled" \in {pathErr, glance} => callerErr = "canceled"
  /\ phase = "start" => pathErr = "active"
  /\ ~Returned => result.status = "none"
  /\ phase \in {"judge", "weigh"} /\ answer.outcome = "cancelled" =>
       AnyObserver \/ pathErr = "canceled"

\* Every step keeps it.
LEMMA CutStep == FullInv /\ CutInv /\ [Next]_vars => CutInv'
<1> SUFFICES ASSUME FullInv, CutInv, [Next]_vars PROVE CutInv'
  OBVIOUS
<1>1. CASE CallerEnds \/ Propagate \/ PathDeadline \/ Look
  BY <1>1 DEF CallerEnds, Propagate, PathDeadline, Look, CutInv, Returned, Live, contexts
<1>2. CASE Answered \/ LookedUp
  <2>1. answer'.outcome = "cancelled" => AnyObserver \/ pathErr = "canceled"
    <3> SUFFICES ASSUME answer'.outcome = "cancelled", ~AnyObserver PROVE pathErr = "canceled"
      OBVIOUS
    <3>1. PICK host : answer' \in Unusable(host) \/ answer' \in HTTPSAnswers(host)
                        \/ answer' \in AddressAnswers(host)
      BY <1>2 DEF Answered, LookedUp
    <3>2. answer' \in Unusable(host)
      BY <3>1 DEF HTTPSAnswers, AddressAnswers
    <3> QED
      BY <3>2 DEF Unusable, Possible, Broken
  <2>2. /\ phase' \notin {"start", "returned"} /\ phase # "returned"
        /\ UNCHANGED <<contexts, glance, result>>
    BY <1>2 DEF Answered, LookedUp
  <2> QED
    BY <2>1, <2>2 DEF CutInv, Returned, contexts
<1>3. CASE Start \/ Ask \/ Reject \/ StopEarly \/ AliasEnds \/ Follow \/ ServiceMode \/ FallBack
             \/ NextQuestion \/ Weigh
  <2>1. UNCHANGED contexts /\ phase # "returned" /\ phase' \notin {"start", "judge", "weigh"}
        /\ glance' = "unread" /\ (phase' = "returned" \/ UNCHANGED result)
    BY <1>3 DEF Start, Ask, Reject, StopEarly, AliasEnds, Follow, ServiceMode, FallBack,
                NextQuestion, Weigh, Conclusive, Judged, Stop, Complete, Return, GoOn
  <2> QED
    BY <2>1 DEF CutInv, Returned, contexts
<1>4. CASE Done \/ UNCHANGED vars
  BY <1>4 DEF Done, vars, contexts, CutInv, Returned
<1> QED
  BY <1>1, <1>2, <1>3, <1>4 DEF Next, Step

\* The places of the evidence.
LEMMA InPlaces ==
  ASSUME NEW p
  PROVE  p \in Places <=> \/ \E i \in DOMAIN https : p = <<0, i>>
                          \/ \E t \in DOMAIN targets :
                               \E k \in DOMAIN targets[t].observations : p = <<t, k>>
BY DEF Places

\* Until Observe returns, no observation it keeps is a cancelled one.
LEMMA Uncancelled ==
  ASSUME IInv, ~Returned
  PROVE  ~Bounded!Cancelled
<1>1. \A i \in DOMAIN https : https[i].outcome = "succeeded"
  BY DEF IInv, LinkInv
<1>2. ASSUME NEW t \in DOMAIN targets, NEW k \in DOMAIN targets[t].observations
      PROVE  t # 0 /\ targets[t].observations[k].outcome # "cancelled"
  <2>1. Asking
    BY <1>2 DEF IInv, TypeInv, TypeOK, WalkInv, Walking, Asking, Returned
  <2>2. targets \in Seq(AddressTargets)
    BY DEF IInv, TypeInv
  <2> QED
    BY <1>2, <2>1, <2>2 DEF IInv, TargetInv, TargetsKept
<1>3. ASSUME NEW p \in Places PROVE Evidence[p] # "cancelled"
  <2>1. CASE \E i \in DOMAIN https : p = <<0, i>>
    BY <1>1, <1>3, <2>1 DEF Evidence
  <2>2. CASE \E t \in DOMAIN targets : \E k \in DOMAIN targets[t].observations : p = <<t, k>>
    BY <1>2, <1>3, <2>2 DEF Evidence
  <2> QED
    BY <1>3, <2>1, <2>2, InPlaces
<1> QED
  BY <1>3 DEF Bounded!Cancelled, Evidence

\* An observation at a new place is recorded.
LEMMA RecordsAt ==
  ASSUME IInv, CutInv, ~Returned, NEW place, place \notin Places, Places' = Places \cup {place},
         \A p \in Places : Evidence'[p] = Evidence[p],
         NEW outcome \in {"succeeded", "failed", "cancelled"}, Evidence'[place] = outcome,
         phase # "start", outcome = "succeeded" => Ended = "none",
         outcome = "cancelled" => AnyObserver \/ pathErr = "canceled"
  PROVE  /\ outcome \in Bounded!Outcomes /\ Bounded!Record(outcome)
         /\ Bounded!Cancelled' <=> outcome = "cancelled"
         /\ DOMAIN Evidence' # {}
<1>1. DOMAIN Evidence = Places /\ DOMAIN Evidence' = Places'
  BY DEF Evidence
<1>2. Evidence' = [p \in Places' |-> Evidence'[p]]
  BY DEF Evidence
<1>3. Evidence' = [p \in Places \cup {place} |-> IF p = place THEN outcome ELSE Evidence[p]]
  <2> DEFINE after == Evidence'
             before == Evidence
  <2>1. after = [p \in Places \cup {place} |-> after[p]]
    BY <1>2
  <2>2. \A p \in Places \cup {place} : after[p] = IF p = place THEN outcome ELSE before[p]
    OBVIOUS
  <2> HIDE DEF after, before
  <2>3. after = [p \in Places \cup {place} |-> IF p = place THEN outcome ELSE before[p]]
    BY <2>1, <2>2
  <2> QED
    BY <2>3 DEF after, before
<1>4. ~Bounded!Cancelled
  BY Uncancelled
<1>5. outcome = "succeeded" => Bounded!Live
  BY DEF IInv, TypeInv, TypeOK, Ended, TerminalContext, Bounded!Live
<1>6. place \in DOMAIN Evidence' \ DOMAIN Evidence
  BY <1>1
<1>7. Bounded!Record(outcome)
  BY <1>1, <1>3, <1>4, <1>5, <1>6 DEF Bounded!Record
<1>8. Bounded!Cancelled' <=> outcome = "cancelled"
  <2>1. \A p \in Places : Evidence[p] # "cancelled"
    BY <1>1, <1>4 DEF Bounded!Cancelled
  <2>2. Bounded!Cancelled' <=> \E p \in DOMAIN Evidence' : Evidence'[p] = "cancelled"
    BY DEF Bounded!Cancelled
  <2>3. \A p \in Places : Evidence'[p] # "cancelled"
    BY <2>1
  <2> QED
    BY <1>1, <2>2, <2>3
<1> QED
  BY <1>6, <1>7, <1>8 DEF Bounded!Outcomes

\* What is judged joins the chain.
LEMMA ChainRecords ==
  ASSUME IInv, CutInv, phase = "judge", Acceptable, https' = Append(https, answer),
         \A t \in DOMAIN targets' : targets'[t].observations = <<>>,
         answer.outcome = "succeeded" => Ended = "none"
  PROVE  /\ answer.outcome \in Bounded!Outcomes /\ Bounded!Record(answer.outcome)
         /\ Bounded!Cancelled' <=> answer.outcome = "cancelled"
         /\ DOMAIN Evidence' # {}
<1> DEFINE n == Len(https) + 1
           place == <<0, n>>
<1>1. /\ current \in Names /\ answer \in HTTPSAnswers(current) \cup Failures(current)
      /\ https' \in Seq(HTTPSObservations) /\ https \in Seq(HTTPSObservations)
      /\ Len(https) \in Nat /\ Len(https') = n
      /\ \A i \in 1..Len(https) : https'[i] = https[i]
      /\ https'[n] = answer
  BY Appended DEF IInv, TypeInv
<1>2. answer.outcome \in {"succeeded", "failed", "cancelled"}
  BY <1>1, HTTPSAnswer
<1>3. targets = <<>> /\ ~Returned
  BY DEF IInv, WalkInv, Walking, Returned
<1>4. DOMAIN https = 1..Len(https) /\ DOMAIN https' = 1..n /\ n \notin DOMAIN https
  BY <1>1
<1>5. DOMAIN targets = {}
  BY <1>3
<1>6. \A t \in DOMAIN targets' : DOMAIN targets'[t].observations = {}
  OBVIOUS
<1>7. \A p : p \in Places <=> \E i \in 1..Len(https) : p = <<0, i>>
  BY <1>4, <1>5, InPlaces
<1>8. \A p : p \in Places' <=> \E i \in 1..n : p = <<0, i>>
  BY <1>4, <1>6 DEF Places
<1>9. Places' = Places \cup {place} /\ place \notin Places
  <2>1. \A i : i \in 1..n <=> i \in 1..Len(https) \/ i = n
    BY <1>1
  <2>2. n \notin 1..Len(https)
    BY <1>1
  <2> HIDE DEF n
  <2> QED
    BY <1>7, <1>8, <2>1, <2>2
<1>10. ASSUME NEW i \in 1..n PROVE Evidence'[<<0, i>>] = https'[i].outcome
  BY <1>8, <1>10 DEF Evidence
<1>11. ASSUME NEW i \in 1..Len(https) PROVE Evidence[<<0, i>>] = https[i].outcome
  BY <1>7, <1>11 DEF Evidence
<1>12. ASSUME NEW p \in Places PROVE Evidence'[p] = Evidence[p]
  <2>1. PICK i \in 1..Len(https) : p = <<0, i>>
    BY <1>7, <1>12
  <2>2. i \in 1..n /\ https'[i] = https[i]
    BY <1>1, <2>1
  <2> QED
    BY <1>10, <1>11, <2>1, <2>2
<1>13. Evidence'[place] = answer.outcome
  <2>1. n \in 1..n
    BY <1>1
  <2> HIDE DEF n
  <2> QED
    BY <1>1, <1>10, <2>1
<1>14. answer.outcome = "cancelled" => AnyObserver \/ pathErr = "canceled"
  BY DEF CutInv
<1> HIDE DEF place
<1> QED
  BY <1>2, <1>3, <1>9, <1>12, <1>13, <1>14, RecordsAt

\* What is weighed joins the observations of the target it is about.
LEMMA TargetRecords ==
  ASSUME IInv, CutInv, phase = "weigh", Acceptable, targets' = WithAnswer, https' = https,
         answer.outcome = "succeeded" => Ended = "none"
  PROVE  /\ answer.outcome \in Bounded!Outcomes /\ Bounded!Record(answer.outcome)
         /\ Bounded!Cancelled' <=> answer.outcome = "cancelled"
         /\ DOMAIN Evidence' # {}
<1> DEFINE before == targets[At].observations
           n == Len(before) + 1
           place == <<At, n>>
<1>1. /\ At \in DOMAIN targets /\ targets[At] \in AddressTargets
      /\ targets[At].host \in Names \cup {Root}
  BY AtOpen DEF Asking
<1>2. answer \in AddressAnswers(targets[At].host) \cup Failures(targets[At].host)
  BY DEF IInv, AnswerInv, Acceptable
<1>3. answer.outcome \in {"succeeded", "failed", "cancelled"} /\ answer \in AddressObservations
  BY <1>1, <1>2, AddressAnswer
<1>4. targets \in Seq(AddressTargets) /\ Len(targets) \in Nat /\ DOMAIN targets = 1..Len(targets)
  BY DEF IInv, TypeInv
<1>5. before \in Seq(AddressObservations)
  BY <1>1 DEF AddressTargets
<1>6. /\ Len(before) \in Nat /\ DOMAIN before = 1..Len(before)
      /\ DOMAIN Append(before, answer) = 1..n
      /\ \A k \in 1..Len(before) : Append(before, answer)[k] = before[k]
      /\ Append(before, answer)[n] = answer
  BY <1>3, <1>5
<1>7. /\ DOMAIN targets' = DOMAIN targets
      /\ targets'[At].observations = Append(before, answer)
      /\ \A t \in DOMAIN targets : t # At => targets'[t] = targets[t]
  BY <1>1, <1>4 DEF WithAnswer, AddressTargets
<1>8. 0 \notin DOMAIN targets /\ At # 0
  BY <1>1, <1>4
<1>9. ~Returned
  BY DEF Returned
<1> HIDE DEF before, n
<1>10. DOMAIN targets'[At].observations = DOMAIN before \cup {n} /\ n \notin DOMAIN before
  BY <1>6, <1>7 DEF n
<1>11. \A p : p \in Places' <=> \/ \E i \in DOMAIN https : p = <<0, i>>
                                \/ \E t \in DOMAIN targets :
                                     \E k \in DOMAIN targets'[t].observations : p = <<t, k>>
  BY <1>7 DEF Places
<1>12. /\ \A p : p \in Places' <=> p \in Places \/ p = place
       /\ place \notin Places
  <2>1. \A t \in DOMAIN targets : \A k :
          k \in DOMAIN targets'[t].observations <=>
            k \in DOMAIN targets[t].observations \/ (t = At /\ k = n)
    BY <1>7, <1>10 DEF before
  <2>2. n \notin DOMAIN targets[At].observations
    BY <1>10 DEF before
  <2> QED
    BY <1>1, <1>8, <1>11, <2>1, <2>2, InPlaces
<1>13. \A i \in DOMAIN https :
         Evidence'[<<0, i>>] = https[i].outcome /\ Evidence[<<0, i>>] = https[i].outcome
  BY <1>11, InPlaces DEF Evidence
<1>14. ASSUME NEW t \in DOMAIN targets, NEW k \in DOMAIN targets[t].observations
       PROVE  /\ Evidence'[<<t, k>>] = targets'[t].observations[k].outcome
              /\ Evidence[<<t, k>>] = targets[t].observations[k].outcome
              /\ targets'[t].observations[k] = targets[t].observations[k]
  <2>1. <<t, k>> \in Places /\ t # 0
    BY <1>8, <1>14, InPlaces
  <2>2. <<t, k>> \in Places'
    BY <1>12, <2>1
  <2>3. targets'[t].observations[k] = targets[t].observations[k]
    <3>1. CASE t = At
      BY <1>6, <1>7, <1>14, <3>1 DEF before
    <3>2. CASE t # At
      BY <1>7, <1>14, <3>2
    <3> QED
      BY <3>1, <3>2
  <2> QED
    BY <2>1, <2>2, <2>3 DEF Evidence
<1>15. ASSUME NEW p \in Places PROVE Evidence'[p] = Evidence[p]
  <2>1. CASE \E i \in DOMAIN https : p = <<0, i>>
    BY <1>13, <2>1
  <2>2. CASE \E t \in DOMAIN targets : \E k \in DOMAIN targets[t].observations : p = <<t, k>>
    <3>1. PICK t \in DOMAIN targets : \E k \in DOMAIN targets[t].observations : p = <<t, k>>
      BY <2>2
    <3>2. PICK k \in DOMAIN targets[t].observations : p = <<t, k>>
      BY <3>1
    <3> QED
      BY <1>14, <3>1, <3>2
  <2> QED
    BY <1>15, <2>1, <2>2, InPlaces
<1>16. Evidence'[place] = answer.outcome
  <2>1. place \in Places'
    BY <1>12
  <2>2. targets'[At].observations[n] = answer
    BY <1>6, <1>7
  <2> QED
    BY <1>8, <2>1, <2>2 DEF Evidence
<1>17. Places' = Places \cup {place}
  BY <1>12
<1>18. answer.outcome = "cancelled" => AnyObserver \/ pathErr = "canceled"
  BY DEF CutInv
<1> HIDE DEF place
<1> QED
  BY <1>3, <1>9, <1>12, <1>15, <1>16, <1>17, <1>18, RecordsAt

\* What a return makes of the verdict.
LEMMA Reports ==
  ASSUME CutInv, ~Returned
  PROVE  /\ Reported = "none"
         /\ \A completion : Complete(completion) => Reported' = "completed"
         /\ Stop("invalid_input") => Reported' = "refused"
         /\ Stop("path_timeout") => Reported' = "timeout"
         /\ Stop("cancelled") => Reported' = "cancelled"
         /\ Stop("invalid_probe_evidence") => Reported' = "broken"
         /\ \A reason \in {"dns_observation_failed", "dns_observation_incomplete", "alias_loop",
                           "alias_limit"} : Stop(reason) => Reported' = "stopped"
BY DEF CutInv, Reported, Complete, Stop, Return

\* A context that has ended is reported as what ended it.
LEMMA EndedContexts ==
  ASSUME IInv, CutInv
  PROVE  /\ Ended \in {"none", "cancelled", "path_timeout"}
         /\ Ended = "none" <=> callerErr = "active" /\ pathErr = "active"
         /\ Ended = "cancelled" => callerErr = "canceled"
         /\ Ended = "path_timeout" /\ Looked =>
              glance = "not_canceled" /\ (callerErr # "active" \/ pathErr = "deadline")
<1>1. /\ callerErr \in {"active", "canceled", "deadline"}
      /\ pathErr \in {"active", "canceled", "deadline"}
      /\ glance \in {"unread", "canceled", "not_canceled"}
      /\ "canceled" \in {pathErr, glance} => callerErr = "canceled"
      /\ phase = "start" => pathErr = "active"
  BY DEF IInv, TypeInv, TypeOK, CutInv
<1> QED
  BY <1>1 DEF Ended, TerminalContext, Looked

\* Observe returns the ended context, with or without a last observation.
LEMMA CutShort ==
  ASSUME IInv, CutInv, ~Returned, UNCHANGED contexts, Looked, Ended # "none", Stop(Ended),
         \/ UNCHANGED Evidence
         \/ \E outcome \in Bounded!Outcomes : Bounded!Record(outcome)
  PROVE  Bounded!Next
<1>1. /\ Reported = "none" /\ callerErr' = callerErr /\ pathErr' = pathErr
      /\ Bounded!Evidenced
  BY Reports DEF contexts, Stop, Return, Bounded!Evidenced
<1>2. CASE Ended = "cancelled"
  <2>1. Reported' = "cancelled" /\ callerErr = "canceled"
    BY <1>2, Reports, EndedContexts
  <2> QED
    BY <1>1, <2>1 DEF Bounded!Next, Bounded!Report, Bounded!Supported, Bounded!Verdicts
<1>3. CASE Ended = "path_timeout"
  <2>1. /\ Reported' = "timeout" /\ glance = "not_canceled"
        /\ callerErr # "active" \/ pathErr = "deadline"
    BY <1>3, Reports, EndedContexts
  <2> QED
    BY <1>1, <2>1 DEF Bounded!Next, Bounded!Report, Bounded!Supported, Bounded!Verdicts
<1> QED
  BY <1>2, <1>3, EndedReasons

\* With live contexts Observe goes on, concludes or reports a cancelled observation.
LEMMA RecordsLive ==
  ASSUME IInv, CutInv, ~Returned, UNCHANGED contexts, Ended = "none", glance' = "unread",
         NEW outcome \in Bounded!Outcomes, Bounded!Record(outcome),
         Bounded!Cancelled' <=> outcome = "cancelled", DOMAIN Evidence' # {},
         IF outcome = "cancelled" THEN Stop("cancelled")
         ELSE \/ UNCHANGED result
              \/ \E completion : Complete(completion)
              \/ \E reason \in {"dns_observation_failed", "dns_observation_incomplete",
                                "alias_loop", "alias_limit"} : Stop(reason)
  PROVE  Bounded!Next
<1>1. /\ Reported = "none" /\ callerErr' = callerErr /\ pathErr' = pathErr /\ Bounded!Live
      /\ Bounded!Evidenced
  BY Reports, EndedContexts DEF contexts, Bounded!Live, Bounded!Evidenced
<1>2. CASE outcome = "cancelled"
  <2>1. Reported' = "cancelled" /\ Bounded!Cancelled'
    BY <1>2, Reports
  <2> QED
    BY <1>1, <2>1 DEF Bounded!Next, Bounded!Report, Bounded!Supported, Bounded!Verdicts
<1>3. CASE outcome # "cancelled" /\ UNCHANGED result
  <2>1. Reported' = Reported
    BY <1>3 DEF Reported
  <2> QED
    BY <1>1, <2>1 DEF Bounded!Next, Bounded!Observe
<1>4. CASE outcome # "cancelled" /\ ~UNCHANGED result
  <2>1. Reported' \in {"completed", "stopped"}
    BY <1>4, Reports
  <2>2. ~Bounded!Cancelled'
    BY <1>4
  <2> QED
    BY <1>1, <2>1, <2>2 DEF Bounded!Next, Bounded!Report, Bounded!Supported, Bounded!Verdicts
<1> QED
  BY <1>2, <1>3, <1>4

\* Every step of Observe is one of a bounded observation, or changes nothing of it.
LEMMA BoundedStep == FullInv /\ CutInv /\ [Next]_vars => [Bounded!Next]_(Bounded!vars)
<1> SUFFICES ASSUME FullInv, CutInv, [Next]_vars PROVE [Bounded!Next]_(Bounded!vars)
  OBVIOUS
<1>0. IInv
  BY DEF FullInv
<1>1. ASSUME UNCHANGED <<chain, serving>> PROVE UNCHANGED Evidence
  <2>1. https' = https /\ targets' = targets
    BY <1>1 DEF chain, serving
  <2>2. Places' = Places
    BY <2>1 DEF Places
  <2> QED
    BY <2>1, <2>2 DEF Evidence
<1>2. CASE CallerEnds
  <2>1. Evidence' = Evidence /\ Reported' = Reported
    BY <1>1, <1>2 DEF CallerEnds, Reported
  <2> QED
    BY <1>2, <2>1 DEF CallerEnds, Bounded!Next, Bounded!CallerEnds
<1>3. CASE Propagate \/ PathDeadline
  <2>1. Evidence' = Evidence /\ Reported' = Reported
    BY <1>1, <1>3 DEF Propagate, PathDeadline, Reported
  <2>2. Bounded!OwnEnds
    BY <1>3, <2>1 DEF Propagate, PathDeadline, Bounded!OwnEnds
  <2> QED
    BY <2>2 DEF Bounded!Next
<1>4. ASSUME ~Returned, glance' = "unread", UNCHANGED <<contexts, chain, serving, result>>
      PROVE  Bounded!Next
  <2>1. Evidence' = Evidence /\ Reported' = Reported /\ Reported = "none"
    BY <1>1, <1>4, Reports DEF Reported
  <2> QED
    BY <1>4, <2>1 DEF contexts, Bounded!Next, Bounded!Observe, Bounded!Evidenced
<1>5. CASE Start
  <2>1. ~Returned /\ UNCHANGED <<contexts, chain, serving>> /\ UNCHANGED Evidence
    BY <1>1, <1>5 DEF Start, Returned
  <2>2. CASE Stop("invalid_input")
    <3>1. https = <<>> /\ targets = <<>>
      BY <1>0, <1>5 DEF Start, IInv, WalkInv, Walking
    <3>2. Places = {}
      BY <3>1 DEF Places
    <3>3. DOMAIN Evidence' = {} /\ ~Bounded!Cancelled'
      BY <2>1, <3>2 DEF Evidence, Bounded!Cancelled
    <3>4. Reported = "none" /\ Reported' = "refused" /\ glance' = "unread"
      BY <2>1, <2>2, Reports DEF Stop, Return
    <3> QED
      BY <2>1, <3>3, <3>4
         DEF contexts, Bounded!Next, Bounded!Report, Bounded!Supported, Bounded!Verdicts,
             Bounded!Evidenced
  <2>3. CASE Looked /\ Ended # "none" /\ Stop(Ended)
    BY <1>0, <2>1, <2>3, CutShort
  <2>4. CASE GoOn("ask")
    BY <1>4, <2>1, <2>4 DEF GoOn
  <2> QED
    BY <1>5, <2>2, <2>3, <2>4 DEF Start
<1>6. CASE Ask \/ NextQuestion
  <2>1. /\ ~Returned /\ UNCHANGED <<contexts, chain, serving>> /\ Looked /\ glance' = "unread"
        /\ UNCHANGED result \/ (Ended # "none" /\ Stop(Ended))
    BY <1>6 DEF Ask, NextQuestion, Returned, GoOn, Stop, Return
  <2> QED
    BY <1>0, <1>1, <1>4, <2>1, CutShort
<1>7. CASE Answered \/ LookedUp \/ Done \/ UNCHANGED vars
  <2>1. UNCHANGED <<contexts, glance, chain, serving, result>>
    BY <1>7 DEF Answered, LookedUp, Done, vars
  <2>2. Evidence' = Evidence /\ Reported' = Reported
    BY <1>1, <2>1 DEF Reported
  <2> QED
    BY <2>1, <2>2 DEF contexts, Bounded!vars
<1>12. CASE Look
  <2>1. ~Returned /\ UNCHANGED <<contexts, chain, serving, result>>
    BY <1>12 DEF Look, Looks, Returned
  <2>2. Evidence' = Evidence /\ Reported' = Reported /\ Reported = "none"
    BY <1>1, <2>1, Reports DEF Reported
  <2> QED
    BY <1>12, <2>1, <2>2 DEF Look, contexts, Bounded!Next, Bounded!Look
<1>8. CASE Reject
  <2>1. ~Returned /\ UNCHANGED <<contexts, chain, serving>> /\ Stop("invalid_probe_evidence")
    BY <1>8 DEF Reject, Returned
  <2>2. ~Bounded!Cancelled
    BY <1>0, <2>1, Uncancelled
  <2>3. Evidence' = Evidence /\ ~Bounded!Cancelled'
    BY <1>1, <2>1, <2>2 DEF Bounded!Cancelled
  <2>4. Reported = "none" /\ Reported' = "broken" /\ glance' = "unread"
    BY <2>1, Reports DEF Stop, Return
  <2> QED
    BY <2>1, <2>3, <2>4
       DEF contexts, Bounded!Next, Bounded!Report, Bounded!Supported, Bounded!Verdicts,
           Bounded!Evidenced
<1>9. CASE StopEarly
  <2>1. /\ ~Returned /\ phase = "judge" /\ Acceptable /\ UNCHANGED contexts /\ Early # "none"
        /\ Stop(Early) /\ UNCHANGED serving
        /\ https' = IF TooLate THEN https ELSE Append(https, answer)
        /\ UNCHANGED <<current, seen, followed>> /\ Looked /\ glance' = "unread"
    BY <1>9 DEF StopEarly, Judged, Returned, Stop, Return
  <2>2. CASE TooLate
    <3>1. UNCHANGED <<chain, serving>> /\ Ended # "none" /\ Stop(Ended)
      BY <2>1, <2>2 DEF TooLate, Early, chain
    <3> QED
      BY <1>0, <1>1, <2>1, <3>1, CutShort
  <2>3. CASE ~TooLate
    <3>1. https' = Append(https, answer) /\ (answer.outcome = "succeeded" => Ended = "none")
      BY <2>1, <2>3 DEF TooLate
    <3>2. \A t \in DOMAIN targets' : targets'[t].observations = <<>>
      BY <1>0, <2>1 DEF serving, IInv, WalkInv, Walking
    <3>3. /\ answer.outcome \in Bounded!Outcomes /\ Bounded!Record(answer.outcome)
          /\ Bounded!Cancelled' <=> answer.outcome = "cancelled"
          /\ DOMAIN Evidence' # {}
      BY <1>0, <2>1, <3>1, <3>2, ChainRecords
    <3>4. CASE Ended # "none"
      <4>1. Stop(Ended)
        BY <2>1, <3>4 DEF Early
      <4> QED
        BY <1>0, <2>1, <3>3, <3>4, <4>1, CutShort
    <3>5. CASE Ended = "none"
      <4>1. \/ answer.outcome = "cancelled" /\ Stop("cancelled")
            \/ answer.outcome # "cancelled" /\ Stop("dns_observation_failed")
            \/ answer.outcome # "cancelled" /\ Stop("dns_observation_incomplete")
        BY <2>1, <3>5 DEF Early
      <4> QED
        BY <1>0, <2>1, <3>3, <3>5, <4>1, RecordsLive
    <3> QED
      BY <3>4, <3>5
  <2> QED
    BY <2>2, <2>3
<1>10. CASE AliasEnds \/ Follow \/ ServiceMode \/ FallBack
  <2>1. Conclusive
    BY <1>10 DEF AliasEnds, Follow, ServiceMode, FallBack
  <2>2. /\ phase = "judge" /\ Acceptable /\ UNCHANGED contexts /\ https' = Append(https, answer)
        /\ ~Returned /\ glance' = "unread"
    BY <1>10, <2>1 DEF Conclusive, Judged, Returned, AliasEnds, Follow, ServiceMode, FallBack,
                       Stop, Complete, Return, GoOn
  <2>3. Ended = "none" /\ answer.outcome = "succeeded" /\ targets = <<>>
    BY <1>0, <2>1, ConclusiveChain
  <2>4. \A t \in DOMAIN targets' : targets'[t].observations = <<>>
    <3>1. CASE AliasEnds \/ Follow
      BY <2>3, <3>1 DEF AliasEnds, Follow, serving
    <3>2. CASE ServiceMode
      BY <1>0, <3>2, ServiceModeStep
    <3>3. CASE FallBack
      BY <2>3, <3>3 DEF FallBack
    <3> QED
      BY <1>10, <3>1, <3>2, <3>3
  <2>5. /\ answer.outcome \in Bounded!Outcomes /\ Bounded!Record(answer.outcome)
        /\ Bounded!Cancelled' <=> answer.outcome = "cancelled"
        /\ DOMAIN Evidence' # {}
    BY <1>0, <2>2, <2>3, <2>4, ChainRecords
  <2>6. \/ UNCHANGED result
        \/ \E completion : Complete(completion)
        \/ \E reason \in {"alias_loop", "alias_limit"} : Stop(reason)
    BY <1>10 DEF AliasEnds, AliasReason, Follow, ServiceMode, FallBack, GoOn
  <2> QED
    BY <1>0, <2>2, <2>3, <2>5, <2>6, RecordsLive
<1>11. CASE Weigh
  <2>1. /\ phase = "weigh" /\ Acceptable /\ UNCHANGED contexts /\ UNCHANGED chain /\ ~Returned
        /\ targets' = IF TooLate THEN targets ELSE WithAnswer
        /\ bindings' = bindings /\ omitted' = omitted /\ Looked /\ glance' = "unread"
    BY <1>11 DEF Weigh, Judged, Returned, Stop, Complete, Return, GoOn
  <2>2. CASE TooLate
    <3>1. UNCHANGED <<chain, serving>> /\ Ended # "none" /\ Stop(Ended)
      BY <1>11, <2>1, <2>2 DEF Weigh, TooLate, serving
    <3> QED
      BY <1>0, <1>1, <2>1, <3>1, CutShort
  <2>3. CASE ~TooLate
    <3>1. targets' = WithAnswer /\ https' = https
          /\ (answer.outcome = "succeeded" => Ended = "none")
      BY <2>1, <2>3 DEF TooLate, chain
    <3>2. /\ answer.outcome \in Bounded!Outcomes /\ Bounded!Record(answer.outcome)
          /\ Bounded!Cancelled' <=> answer.outcome = "cancelled"
          /\ DOMAIN Evidence' # {}
      BY <1>0, <2>1, <3>1, TargetRecords
    <3>3. CASE Ended # "none"
      <4>1. Stop(Ended)
        BY <1>11, <3>3 DEF Weigh
      <4> QED
        BY <1>0, <2>1, <3>2, <3>3, <4>1, CutShort
    <3>4. CASE Ended = "none"
      <4>1. IF answer.outcome = "cancelled" THEN Stop("cancelled")
            ELSE \/ UNCHANGED result
                 \/ \E completion : Complete(completion)
                 \/ \E reason \in {"dns_observation_failed", "dns_observation_incomplete",
                                   "alias_loop", "alias_limit"} : Stop(reason)
        BY <1>11, <3>4 DEF Weigh, GoOn, Verdict
      <4> QED
        BY <1>0, <2>1, <3>2, <3>4, <4>1, RecordsLive
    <3> QED
      BY <3>3, <3>4
  <2> QED
    BY <2>2, <2>3
<1> QED
  BY <1>2, <1>3, <1>5, <1>6, <1>7, <1>8, <1>9, <1>10, <1>11, <1>12 DEF Next, Step

\* With any observer, whatever the chain and the targets, Observe is a bounded
\* observation.
THEOREM ObserveIsBounded == Spec => IsBounded
<1>1. Init => Bounded!Init /\ CutInv
  <2> SUFFICES ASSUME Init PROVE Bounded!Init /\ CutInv
    OBVIOUS
  <2>1. Places = {}
    BY DEF Init, Places
  <2>2. DOMAIN Evidence = {}
    BY <2>1 DEF Evidence
  <2> QED
    BY <2>2 DEF Init, Bounded!Init, Reported, CutInv, Returned
<1> QED
  BY <1>1, CutStep, BoundedStep, InvariantHolds, PTL DEF Spec, IsBounded, Bounded!Spec
=============================================================================
