---------------------------- MODULE WebPathProofs ----------------------------
(***************************************************************************)
(* What webpath.Observe keeps while it walks, and that Validate, which     *)
(* sees only the Result, finds all of it again.                            *)
(*                                                                         *)
(* The chain under way begins at ChainStart, the second hop once the       *)
(* fallback is used.  Every hop was led to by the one before it, the count *)
(* of redirects is the length of the chain less one, and a chain that has  *)
(* ended is explained by its last hop.                                     *)
(***************************************************************************)
EXTENDS WebPathProperties, EnumerationProofs

ChainStart == IF fallbackUsed THEN 2 ELSE 1
InChain == ChainStart..Len(hops)
Walking == phase \notin {"chain_end", "returned"}

\* A step of Observe itself leaves the contexts alone, and no look goes on after it.
Decided == glance' = "unread" /\ UNCHANGED <<contexts, hostname>>

\* hops[k] was asked for because of hops[k - 1].
Follows(k) ==
  IF fallbackUsed /\ k = 2
  THEN hops[2].url = FallbackURL
  ELSE Redirects(hops[k - 1]) /\ hops[k].url = Last(hops[k - 1].attempts).location

HopsInv ==
  /\ \A k \in DOMAIN hops : ValidHop(hops[k])
  /\ hops # <<>> => hops[1].url = InitialURL
  /\ fallbackUsed => hops # <<>> /\ Exhausted(hops[1])
  /\ \A k \in DOMAIN hops \ {1} : Follows(k)
  /\ redirects = IF Len(hops) < ChainStart THEN 0 ELSE Len(hops) - ChainStart

SeenInv ==
  /\ \A i, j \in InChain : i < j => hops[i].url # hops[j].url
  /\ \A k \in InChain : hops[k].url \in seen
  /\ \A url \in seen : url = current \/ \E k \in InChain : hops[k].url = url

\* Where the hop under way comes from, and that there is room for it.
WalkInv ==
  /\ PathLive => hostname = "valid"
  /\ phase = "start" => hops = <<>> /\ ~fallbackUsed
  /\ Walking =>
       /\ chain = "none"
       /\ current \in seen
       /\ \A k \in InChain : hops[k].url # current
       /\ IF Len(hops) < ChainStart
          THEN ~pending /\ current = IF fallbackUsed THEN FallbackURL ELSE InitialURL
          ELSE /\ pending /\ hadResponse /\ redirects < RedirectLimit
               /\ Redirects(hops[Len(hops)])
               /\ current = Last(hops[Len(hops)].attempts).location

\* The hop under way may be kept whenever the chain ends.
HopInv ==
  /\ phase \in {"resolved", "dial", "dialled"} => hop.url = current /\ ValidHop(hop)
  /\ phase = "resolved" => hop.attempts = <<>>
  /\ phase \in {"dial", "dialled"} =>
       hop.outcome = "succeeded" /\ SelectedCandidates(hop.addresses) # <<>>
  /\ phase = "dial" => \A k \in AttemptNumbers(hop) : hop.attempts[k].outcome = "failed"
  /\ phase = "dialled" => hop.attempts # <<>>

\* Reasons for which the hop under way may be left out of the report.
Sudden == {"invalid_probe_evidence", "path_timeout", "cancelled"}

\* The reason a chain ended for, as its hops show it.
Explained(reason) ==
  LET last == Last(hops)
  IN  \/ reason \in Sudden
      \/ /\ hops # <<>>
         /\ \/ reason = "final_response" /\ Succeeded(last) /\ ~Redirects(last)
            \/ reason = "resolution_failed" /\ last.outcome = "failed"
            \/ /\ reason = "no_public_candidates"
               /\ last.outcome = "succeeded"
               /\ SelectedCandidates(last.addresses) = <<>>
            \/ reason = "all_candidates_failed" /\ Exhausted(last)
            \/ /\ reason \in TargetFaults
               /\ Redirects(last) /\ Last(last.attempts).location = reason
            \/ /\ reason = "redirect_loop"
               /\ Redirects(last)
               /\ \E k \in DOMAIN hops : hops[k].url = Last(last.attempts).location
            \/ /\ reason = "redirect_limit"
               /\ Redirects(last) /\ redirects = RedirectLimit

EndInv ==
  phase = "chain_end" =>
    /\ chain \in StopReasons \ {"invalid_input"}
    /\ Explained(chain)
    /\ Len(hops) < ChainStart => chain \in Sudden
    /\ ~hadResponse /\ ~fallbackUsed => Len(hops) <= 1

IInv ==
  /\ TypeOK /\ HopsInv /\ SeenInv /\ WalkInv /\ HopInv /\ EndInv
  /\ hostname # "unstable" => EmittedResultValid

-----------------------------------------------------------------------------
(***************************************************************************)
(* The candidates of a hop.                                                *)
(***************************************************************************)
Addresses == Seq([family : {"ipv4", "ipv6"}, public : BOOLEAN])

LEMMA SeqOfMore ==
  ASSUME NEW S, NEW T, S \subseteq T, NEW s \in Seq(S)
  PROVE  s \in Seq(T)
<1>1. Len(s) \in Nat /\ s \in [1..Len(s) -> T]
  OBVIOUS
<1> QED
  BY <1>1

\* selectPublicCandidates gives positions in the resolver's list, in its order.
LEMMA CandidatesSelected ==
  ASSUME NEW addresses \in Addresses
  PROVE  /\ SelectedCandidates(addresses) \in Seq(1..Len(addresses))
         /\ \A k, l \in DOMAIN SelectedCandidates(addresses) :
              k < l => SelectedCandidates(addresses)[k] < SelectedCandidates(addresses)[l]
<1> DEFINE S == {i \in DOMAIN addresses :
                   /\ addresses[i].public
                   /\ Cardinality({j \in 1 .. i - 1 : /\ addresses[j].public
                                                      /\ addresses[j].family = addresses[i].family})
                        < CandidateLimit}
           R == {pair \in S \X S : pair[1] < pair[2]}
           s == SelectedCandidates(addresses)
<1>1. Len(addresses) \in Nat /\ DOMAIN addresses = 1..Len(addresses)
  BY DEF Addresses
<1>2. S \subseteq 1..Len(addresses)
  BY <1>1
<1>3. s = Enumerate(S, R)
  BY DEF SelectedCandidates
<1> HIDE DEF s, S
<1>4. IsFiniteSet(S)
  <2>1. IsFiniteSet(1..Len(addresses))
    BY <1>1, FS_Interval
  <2> QED
    BY <1>2, <2>1, FS_Subset
<1>5. \A i, j : <<i, j>> \in R <=> i \in S /\ j \in S /\ i < j
  OBVIOUS
<1>6. StrictTotalOrder(R, S)
  <2>1. S \subseteq Nat
    BY <1>1, <1>2
  <2> HIDE DEF R
  <2> QED
    BY <1>5, <2>1 DEF StrictTotalOrder
<1> HIDE DEF R
<1>7. Lists(s, S, R)
  BY <1>3, <1>4, <1>6, EnumerateLists
<1>8. s \in Seq(1..Len(addresses))
  BY <1>2, <1>7, SeqOfMore DEF Lists
<1>9. \A k, l \in 1..Len(s) : k < l => s[k] < s[l]
  BY <1>5, <1>7 DEF Lists
<1> QED
  BY <1>8, <1>9 DEF s

LEMMA NoAddresses == <<>> \in Addresses
BY DEF Addresses

LEMMA CandidatesOfHop ==
  ASSUME NEW h \in Hops
  PROVE  /\ SelectedCandidates(h.addresses) \in Seq(Nat)
         /\ Len(SelectedCandidates(h.addresses)) \in Nat
         /\ h.attempts \in Seq(Attempts) /\ Len(h.attempts) \in Nat
<1>1. h.addresses \in Addresses
  <2>1. h.addresses \in Answers \cup {<<>>}
    BY DEF Hops
  <2>2. Answers \subseteq Addresses
    BY AnswerAssumption DEF Addresses
  <2> QED
    BY <2>1, <2>2, NoAddresses
<1>2. SelectedCandidates(h.addresses) \in Seq(1..Len(h.addresses))
  BY <1>1, CandidatesSelected
<1>3. 1..Len(h.addresses) \subseteq Nat
  BY <1>1 DEF Addresses
<1> HIDE DEF Addresses
<1> QED
  BY <1>2, <1>3, SeqOfMore DEF Hops

\* What a context that has ended is reported as.
LEMMA EndedReasons ==
  Ended \in ContextReasons \cup {"none"}
BY DEF Ended, TerminalContext, ContextReasons

USE DEF Decided

-----------------------------------------------------------------------------
(***************************************************************************)
(* A hop is kept.                                                          *)
(***************************************************************************)
LEMMA HopsOfReport ==
  ASSUME TypeOK
  PROVE  /\ Len(hops) \in Nat /\ DOMAIN hops = 1..Len(hops)
         /\ \A k \in DOMAIN hops : hops[k] \in Hops
         /\ hops = <<>> <=> Len(hops) = 0
         /\ redirects \in Nat /\ RedirectLimit \in Nat
BY LimitAssumption DEF TypeOK

LEMMA Kept ==
  ASSUME IInv, phase \in {"resolved", "dial", "dialled"}, KeepHop, UNCHANGED fallbackUsed
  PROVE  /\ Len(hops') = Len(hops) + 1 /\ hops'[Len(hops')] = hop /\ Last(hops') = hop
         /\ hops' # <<>>
         /\ hops' \in Seq(Hops) /\ Len(hops') <= RedirectLimit + 2
         /\ redirects' \in 0..RedirectLimit
         /\ Len(hops') >= ChainStart'
         /\ HopsInv'
         /\ \A i, j \in InChain' : i < j => hops'[i].url # hops'[j].url
         /\ \A k \in InChain' : hops'[k].url \in seen
         /\ \A url \in seen : \E k \in InChain' : hops'[k].url = url
<1> DEFINE n == Len(hops)
<1>1. /\ n \in Nat /\ DOMAIN hops = 1..n /\ hops \in Seq(Hops)
      /\ hops = <<>> <=> n = 0
      /\ redirects \in 0..RedirectLimit /\ RedirectLimit \in Nat /\ fallbackUsed \in BOOLEAN
      /\ pending \in BOOLEAN
  BY HopsOfReport DEF IInv, TypeOK
<1>2. hop \in Hops /\ ValidHop(hop) /\ hop.url = current
  BY DEF IInv, TypeOK, HopInv
<1>3. /\ hops' \in Seq(Hops) /\ Len(hops') = n + 1 /\ DOMAIN hops' = 1..(n + 1)
      /\ hops'[n + 1] = hop
      /\ \A k \in 1..n : hops'[k] = hops[k]
      /\ hops' # <<>>
  BY <1>1, <1>2 DEF KeepHop
<1>4. Last(hops') = hop
  BY <1>3 DEF Last
<1>5. Walking
  BY DEF Walking
<1>6. ChainStart \in {1, 2} /\ ChainStart' = ChainStart /\ n + 1 >= ChainStart
  <2>1. fallbackUsed => hops # <<>>
    BY DEF IInv, HopsInv
  <2> QED
    BY <1>1, <2>1 DEF ChainStart
<1>7. /\ redirects' = n + 1 - ChainStart
      /\ redirects' \in 0..RedirectLimit
  <2>1. CASE n < ChainStart
    <3>1. ~pending /\ redirects = 0 /\ n + 1 = ChainStart
      BY <1>1, <1>5, <1>6, <2>1 DEF IInv, HopsInv, WalkInv
    <3> QED
      BY <1>1, <3>1 DEF KeepHop
  <2>2. CASE ~(n < ChainStart)
    <3>1. pending /\ redirects = n - ChainStart /\ redirects < RedirectLimit
      BY <1>1, <1>5, <1>6, <2>2 DEF IInv, HopsInv, WalkInv
    <3> QED
      BY <1>1, <1>6, <2>2, <3>1 DEF KeepHop
  <2> QED
    BY <2>1, <2>2
<1>8. Len(hops') <= RedirectLimit + 2
  BY <1>1, <1>3, <1>6, <1>7
<1>9. HopsInv'
  <2>1. \A k \in DOMAIN hops' : ValidHop(hops'[k])
    BY <1>1, <1>2, <1>3 DEF IInv, HopsInv
  <2>2. hops'[1].url = InitialURL
    <3>1. CASE n = 0
      BY <1>1, <1>2, <1>3, <1>5, <1>6, <3>1 DEF IInv, HopsInv, WalkInv, ChainStart
    <3>2. CASE n # 0
      BY <1>1, <1>3, <3>2 DEF IInv, HopsInv
    <3> QED
      BY <3>1, <3>2
  <2>3. fallbackUsed' => hops' # <<>> /\ Exhausted(hops'[1])
    BY <1>1, <1>3 DEF IInv, HopsInv
  <2>4. ASSUME NEW k \in DOMAIN hops' \ {1}
        PROVE  Follows(k)'
    <3>1. CASE k \in 1..n
      <4>1. k \in DOMAIN hops \ {1} /\ k - 1 \in 1..n
        BY <1>1, <2>4, <3>1
      <4>2. Follows(k)
        BY <4>1 DEF IInv, HopsInv
      <4>3. hops'[k] = hops[k] /\ hops'[k - 1] = hops[k - 1]
        BY <1>3, <3>1, <4>1
      <4> QED
        BY <4>2, <4>3 DEF Follows
    <3>2. CASE k = n + 1
      <4>1. n >= 1 /\ hops'[k] = hop /\ k - 1 = n /\ hops'[n] = hops[n]
        BY <1>1, <1>3, <2>4, <3>2
      <4>2. CASE fallbackUsed /\ k = 2
        BY <1>1, <1>2, <1>5, <3>2, <4>1, <4>2 DEF IInv, WalkInv, ChainStart, Follows
      <4>3. CASE ~(fallbackUsed /\ k = 2)
        <5>1. ~(n < ChainStart)
          BY <1>1, <3>2, <4>1, <4>3 DEF ChainStart
        <5>2. Redirects(hops[n]) /\ current = Last(hops[n].attempts).location
          BY <1>5, <5>1 DEF IInv, WalkInv
        <5> QED
          BY <1>2, <4>1, <4>3, <5>2 DEF Follows
      <4> QED
        BY <4>2, <4>3
    <3> QED
      BY <1>1, <1>3, <2>4, <3>1, <3>2
  <2>5. redirects' = IF Len(hops') < ChainStart' THEN 0 ELSE Len(hops') - ChainStart'
    BY <1>1, <1>3, <1>6, <1>7
  <2> QED
    BY <2>1, <2>2, <2>3, <2>4, <2>5 DEF HopsInv
<1>10. /\ InChain' = InChain \cup {n + 1} /\ n + 1 \notin InChain
       /\ \A k \in InChain : k \in 1..n /\ hops'[k] = hops[k]
  BY <1>1, <1>3, <1>6 DEF InChain
<1>11. /\ \A k \in InChain : hops[k].url # current /\ hops[k].url \in seen
       /\ current \in seen
       /\ \A i, j \in InChain : i < j => hops[i].url # hops[j].url
       /\ \A url \in seen : url = current \/ \E k \in InChain : hops[k].url = url
  BY <1>5 DEF IInv, SeenInv, WalkInv
<1>12. \A i, j \in InChain' : i < j => hops'[i].url # hops'[j].url
  BY <1>1, <1>2, <1>3, <1>10, <1>11
<1>13. \A k \in InChain' : hops'[k].url \in seen
  BY <1>2, <1>3, <1>10, <1>11
<1>14. \A url \in seen : \E k \in InChain' : hops'[k].url = url
  BY <1>2, <1>3, <1>10, <1>11
<1> QED
  BY <1>3, <1>4, <1>6, <1>7, <1>8, <1>9, <1>12, <1>13, <1>14

LEMMA HopEnds ==
  ASSUME IInv, phase \in {"resolved", "dial", "dialled"},
         NEW reason \in StopReasons \ {"invalid_input"}, KeepHop, EndChain(reason),
         ~pending', pending' \in BOOLEAN, hadResponse' \in BOOLEAN, hadResponse => hadResponse',
         Decided, UNCHANGED <<current, seen, hop, fallbackUsed, result>>,
         Explained(reason)'
  PROVE  IInv'
<1>1. phase' = "chain_end" /\ chain' = reason /\ UNCHANGED <<current, seen>>
  BY DEF EndChain
<1>2. /\ Len(hops') = Len(hops) + 1 /\ Len(hops') >= ChainStart'
      /\ HopsInv' /\ hops' \in Seq(Hops) /\ Len(hops') <= RedirectLimit + 2
      /\ redirects' \in 0..RedirectLimit
  BY <1>1, Kept
<1>3. SeenInv'
  BY <1>1, Kept DEF SeenInv
<1>4. TypeOK'
  BY <1>1, <1>2 DEF IInv, TypeOK, contexts
<1>5. ~hadResponse' /\ ~fallbackUsed' => Len(hops') <= 1
  <2>1. Walking /\ Len(hops) \in Nat
    BY HopsOfReport DEF Walking, IInv
  <2> QED
    BY <1>1, <1>2, <2>1 DEF IInv, WalkInv, ChainStart
<1>6. EndInv'
  <2>1. ~(Len(hops') < ChainStart')
    BY <1>2 DEF ChainStart
  <2> QED
    BY <1>1, <1>5, <2>1 DEF EndInv
<1>7. WalkInv' /\ HopInv' /\ EmittedResultValid'
  BY <1>1 DEF IInv, WalkInv, Walking, PathLive, HopInv, EmittedResultValid, Returned
<1> QED
  BY <1>2, <1>3, <1>4, <1>6, <1>7 DEF IInv

LEMMA EndsHop ==
  ASSUME IInv, phase \in {"resolved", "dial", "dialled"},
         NEW reason \in StopReasons \ {"invalid_input"}, EndHop(reason),
         Decided, UNCHANGED <<hop, fallbackUsed, result>>,
         Explained(reason)'
  PROVE  IInv'
<1>1. KeepHop /\ EndChain(reason) /\ pending' = FALSE /\ UNCHANGED <<current, seen, hadResponse>>
  BY DEF EndHop
<1>2. hadResponse' \in BOOLEAN
  BY <1>1 DEF IInv, TypeOK
<1> QED
  BY <1>1, <1>2, HopEnds

-----------------------------------------------------------------------------
(***************************************************************************)
(* The steps of a chain.                                                   *)
(***************************************************************************)
LEMMA InitInv == Init => IInv
<1> SUFFICES ASSUME Init PROVE IInv
  OBVIOUS
<1>1. hops = <<>> /\ Len(hops) = 0 /\ fallbackUsed = FALSE /\ phase = "start" /\ redirects = 0
  BY DEF Init
<1>2. NoHop \in Hops
  BY URLAssumption DEF NoHop, Hops, Attempts
<1>3. NoResult \in [reason : StopReasons \cup {"none"}, redirects : 0..RedirectLimit,
                    fallback : BOOLEAN, hops : Seq(Hops)]
  BY LimitAssumption DEF NoResult
<1>4. TypeOK
  <2>1. hops \in Seq(Hops) /\ Len(hops) <= RedirectLimit + 2 /\ redirects \in 0..RedirectLimit
    BY <1>1, LimitAssumption
  <2>2. callerErr \in {"active", "canceled", "deadline"}
    BY CallerAssumption DEF Init
  <2>3. result \in [reason : StopReasons \cup {"none"}, redirects : 0..RedirectLimit,
                    fallback : BOOLEAN, hops : Seq(Hops)] /\ hop \in Hops
    BY <1>2, <1>3 DEF Init
  <2> QED
    BY <1>1, <2>1, <2>2, <2>3, URLAssumption, HostnameAssumption DEF Init, TypeOK
<1>5. InChain = {} /\ ChainStart = 1
  BY <1>1 DEF InChain, ChainStart
<1>6. HopsInv
  BY <1>1, <1>5 DEF HopsInv
<1>7. SeenInv /\ WalkInv
  BY <1>1, <1>5 DEF Init, SeenInv, WalkInv, PathLive
<1>8. HopInv /\ EndInv /\ EmittedResultValid
  BY <1>1 DEF HopInv, EndInv, EmittedResultValid, Returned
<1> QED
  BY <1>4, <1>6, <1>7, <1>8 DEF IInv

\* What the hops and the names say does not depend on where Observe is.
LEMMA SameReport ==
  ASSUME UNCHANGED <<walk, report>>
  PROVE  /\ HopsInv => HopsInv'
         /\ SeenInv => SeenInv'
         /\ \A reason : Explained(reason) => Explained(reason)'
         /\ InChain' = InChain /\ ChainStart' = ChainStart
<1>1. /\ hops' = hops /\ redirects' = redirects /\ fallbackUsed' = fallbackUsed
      /\ current' = current /\ seen' = seen
  BY DEF walk, report
<1>2. ChainStart' = ChainStart /\ InChain' = InChain
  BY <1>1 DEF ChainStart, InChain
<1>3. \A k : Follows(k) => Follows(k)'
  BY <1>1 DEF Follows
<1>4. HopsInv => HopsInv'
  BY <1>1, <1>2, <1>3 DEF HopsInv
<1>5. SeenInv => SeenInv'
  BY <1>1, <1>2 DEF SeenInv
<1>6. \A reason : Explained(reason) => Explained(reason)'
  BY <1>1 DEF Explained
<1> QED
  BY <1>2, <1>4, <1>5, <1>6

LEMMA ContextsInv ==
  ASSUME IInv, CallerEnds \/ Propagate \/ PathDeadline \/ Look \/ Done \/ UNCHANGED vars
  PROVE  IInv'
<1>1. UNCHANGED <<phase, hostname, walk, hop, report, chain, result>>
  BY DEF CallerEnds, Propagate, PathDeadline, Look, Done, vars
<1>2. /\ callerErr' \in {"active", "canceled", "deadline"}
      /\ pathErr' \in {"active", "canceled", "deadline"}
      /\ glance' \in {"unread", "canceled", "not_canceled"}
  BY CallerAssumption
     DEF IInv, TypeOK, CallerEnds, Propagate, PathDeadline, Look, Done, vars, contexts
<1>3. TypeOK'
  BY <1>1, <1>2 DEF IInv, TypeOK, walk, report
<1>4. HopsInv' /\ SeenInv'
  BY <1>1, SameReport DEF IInv
<1>5. WalkInv'
  BY <1>1, SameReport DEF IInv, WalkInv, Walking, PathLive, walk, report
<1>6. HopInv'
  BY <1>1 DEF IInv, HopInv, walk
<1>7. EndInv'
  BY <1>1, SameReport DEF IInv, EndInv, walk, report
<1>8. hostname' # "unstable" => EmittedResultValid'
  <2>1. ValidResult => ValidResult'
    BY <1>1
       DEF ValidResult, ValidConclusion, HopNumbers, ValidTransition, Transitions, ValidEvidence
  <2> QED
    BY <1>1, <2>1 DEF IInv, EmittedResultValid, Returned
<1> QED
  BY <1>3, <1>4, <1>5, <1>6, <1>7, <1>8 DEF IInv

\* Observe goes on within the hop under way.
LEMMA WalksOn ==
  ASSUME IInv, Walking, Walking', Decided, UNCHANGED <<walk, report, chain, result>>,
         phase' \in {"enter", "resolve", "resolved", "dial", "dialled"}, hop' \in Hops, HopInv',
         hostname = "valid"
  PROVE  IInv'
<1>0. PathLive' => hostname' = "valid"
  OBVIOUS
<1>1. TypeOK'
  BY DEF IInv, TypeOK, contexts, walk, report
<1>2. HopsInv' /\ SeenInv'
  BY SameReport DEF IInv
<1>3. WalkInv'
  BY <1>0, SameReport DEF IInv, WalkInv, walk, report
<1>4. EndInv' /\ EmittedResultValid'
  BY DEF EndInv, EmittedResultValid, Returned, Walking
<1> QED
  BY <1>1, <1>2, <1>3, <1>4 DEF IInv

\* The chain ends with the hop under way left out.
LEMMA EndsSuddenly ==
  ASSUME IInv, Walking, NEW reason \in Sudden, EndChain(reason),
         Decided, UNCHANGED <<walk, hop, report, result>>, hostname = "valid"
  PROVE  IInv'
<1>1. phase' = "chain_end" /\ chain' = reason /\ reason \in StopReasons \ {"invalid_input"}
  BY DEF EndChain, Sudden, StopReasons, ContextReasons
<1>2. TypeOK'
  BY <1>1 DEF IInv, TypeOK, contexts, walk, report
<1>3. HopsInv' /\ SeenInv' /\ ChainStart' = ChainStart
  BY SameReport DEF IInv
<1>4. WalkInv' /\ HopInv' /\ EmittedResultValid'
  BY <1>1 DEF WalkInv, Walking, PathLive, HopInv, EmittedResultValid, Returned
<1>5. ~hadResponse' /\ ~fallbackUsed' => Len(hops') <= 1
  <2>1. Len(hops) \in Nat /\ Len(hops') = Len(hops)
    BY HopsOfReport DEF IInv, report
  <2> QED
    BY <2>1 DEF IInv, WalkInv, ChainStart, walk, report
<1>6. EndInv'
  BY <1>1, <1>5 DEF EndInv, Explained
<1> QED
  BY <1>2, <1>3, <1>4, <1>6 DEF IInv

LEMMA EnterInv ==
  ASSUME IInv, EnterHop PROVE IInv'
<1>1. CASE Ended # "none"
  <2>1. Ended \in Sudden
    BY <1>1, EndedReasons DEF ContextReasons, Sudden
  <2> QED
    BY <1>1, <2>1, EndsSuddenly DEF EnterHop, Walking, IInv, WalkInv, PathLive
<1>2. CASE Ended = "none"
  <2>1. phase' = "resolve" /\ Decided /\ UNCHANGED <<walk, hop, report, chain, result>>
    BY <1>2 DEF EnterHop
  <2>2. hop' \in Hops /\ HopInv'
    BY <2>1 DEF IInv, TypeOK, HopInv
  <2> QED
    BY <2>1, <2>2, WalksOn DEF EnterHop, Walking, IInv, WalkInv, PathLive
<1> QED
  BY <1>1, <1>2

LEMMA ResolveInv ==
  ASSUME IInv, Resolve PROVE IInv'
<1>1. ASSUME NEW outcome \in {"succeeded", "failed", "cancelled"},
             NEW addresses \in Answers \cup {<<>>}, NewHop(outcome, addresses)
      PROVE  IInv'
  <2>1. /\ phase = "resolve" /\ phase' = "resolved"
        /\ Decided /\ UNCHANGED <<walk, report, chain, result>>
    BY <1>1 DEF NewHop, Resolve
  <2>2. hop' = [url |-> current, outcome |-> outcome, addresses |-> addresses, attempts |-> <<>>]
    BY <1>1 DEF NewHop
  <2>3. hop' \in Hops /\ hop'.attempts = <<>> /\ hop'.url = current'
    BY <2>1, <2>2 DEF IInv, TypeOK, Hops, walk
  <2>4. ValidHop(hop')
    <3>1. Len(SelectedCandidates(hop'.addresses)) \in Nat
      BY <2>3, CandidatesOfHop
    <3> QED
      BY <2>3, <3>1 DEF ValidHop, AttemptNumbers
  <2>5. HopInv'
    BY <2>1, <2>3, <2>4 DEF HopInv
  <2> QED
    BY <2>1, <2>3, <2>5, WalksOn DEF Walking, IInv, WalkInv, PathLive
<1>2. ASSUME EndChain("invalid_probe_evidence"), UNCHANGED hop
      PROVE  IInv'
  BY <1>2, EndsSuddenly DEF Resolve, Walking, Sudden, IInv, WalkInv, PathLive
<1> QED
  BY <1>1, <1>2 DEF Resolve

LEMMA ResolvedInv ==
  ASSUME IInv, Resolved PROVE IInv'
<1>1. phase = "resolved" /\ Decided /\ UNCHANGED <<hop, fallbackUsed, result>>
  BY DEF Resolved
<1>2. /\ hop \in Hops /\ ValidHop(hop) /\ hop.url = current /\ hop.attempts = <<>>
      /\ hop.outcome \in {"succeeded", "failed", "cancelled"}
  BY <1>1 DEF IInv, TypeOK, HopInv, Hops
<1>3. CASE ResolutionReason # "none" /\ EndHop(ResolutionReason)
  <2>1. PICK reason : reason = ResolutionReason
    OBVIOUS
  <2>2. KeepHop /\ EndHop(reason)
    BY <1>3, <2>1 DEF EndHop
  <2>3. Last(hops') = hop /\ hops' # <<>>
    BY <1>1, <2>2, Kept
  <2>4. Ended \in {"cancelled", "path_timeout", "none"}
    BY EndedReasons DEF ContextReasons
  <2>5. \/ reason \in {"cancelled", "path_timeout"}
        \/ reason = "resolution_failed" /\ hop.outcome = "failed"
        \/ /\ reason = "no_public_candidates" /\ hop.outcome = "succeeded"
           /\ SelectedCandidates(hop.addresses) = <<>>
    BY <1>2, <1>3, <2>1, <2>4 DEF ResolutionReason
  <2>6. reason \in StopReasons \ {"invalid_input"}
    BY <2>5 DEF StopReasons, ContextReasons
  <2>7. Explained(reason)'
    BY <2>3, <2>5 DEF Explained, Sudden
  <2> QED
    BY <1>1, <2>2, <2>6, <2>7, EndsHop
<1>4. CASE ResolutionReason = "none"
  <2>1. phase' = "dial" /\ Decided /\ UNCHANGED <<walk, hop, report, chain, result>>
    BY <1>4 DEF Resolved, report
  <2>2. hop.outcome = "succeeded" /\ SelectedCandidates(hop.addresses) # <<>>
    BY <1>2, <1>4 DEF ResolutionReason
  <2>3. HopInv'
    BY <1>2, <2>1, <2>2 DEF HopInv, AttemptNumbers, walk
  <2> QED
    BY <1>1, <1>2, <2>1, <2>3, WalksOn DEF Walking, IInv, WalkInv, PathLive
<1> QED
  BY <1>3, <1>4 DEF Resolved

\* An attempt is added to the hop under way.
LEMMA Recorded ==
  ASSUME IInv, phase = "dial", Untried,
         NEW outcome \in {"failed", "cancelled", "succeeded"}, NEW location,
         IF outcome = "succeeded" THEN location \in Locations ELSE location = "none",
         Record(outcome, location), current' = current, phase' = "dialled"
  PROVE  hop' \in Hops /\ HopInv'
<1> DEFINE list == SelectedCandidates(hop.addresses)
           m == Len(hop.attempts)
           attempt == [address |-> NextCandidate, outcome |-> outcome, location |-> location]
<1>1. /\ hop \in Hops /\ ValidHop(hop) /\ hop.url = current
      /\ hop.outcome = "succeeded" /\ list # <<>>
      /\ \A k \in AttemptNumbers(hop) : hop.attempts[k].outcome = "failed"
  BY DEF IInv, TypeOK, HopInv
<1>2. /\ list \in Seq(Nat) /\ Len(list) \in Nat
      /\ hop.attempts \in Seq(Attempts) /\ m \in Nat /\ DOMAIN hop.attempts = 1..m
  BY <1>1, CandidatesOfHop
<1>3. m < Len(list) /\ NextCandidate = list[m + 1]
  BY DEF Untried, NextCandidate
<1> HIDE DEF list, m
<1>4. NextCandidate \in Nat
  BY <1>2, <1>3
<1>5. attempt \in Attempts
  BY <1>4 DEF Attempts
<1>6. hop' = [hop EXCEPT !.attempts = Append(hop.attempts, attempt)]
  BY DEF Record
<1> HIDE DEF attempt
<1>7. /\ hop' = [url |-> hop.url, outcome |-> hop.outcome, addresses |-> hop.addresses,
                 attempts |-> hop'.attempts]
      /\ hop'.url = hop.url /\ hop'.outcome = hop.outcome /\ hop'.addresses = hop.addresses
      /\ hop'.attempts = Append(hop.attempts, attempt)
  BY <1>1, <1>6 DEF Hops
<1>8. /\ hop'.attempts \in Seq(Attempts) /\ Len(hop'.attempts) = m + 1
      /\ hop'.attempts # <<>>
      /\ DOMAIN hop'.attempts = 1..(m + 1)
      /\ hop'.attempts[m + 1] = attempt
      /\ \A k \in 1..m : hop'.attempts[k] = hop.attempts[k]
  <2>1. DOMAIN hop.attempts = 1..m /\ Len(hop.attempts) = m
    BY <1>2 DEF m
  <2>2. /\ Append(hop.attempts, attempt) \in Seq(Attempts)
        /\ Len(Append(hop.attempts, attempt)) = m + 1
    BY <1>2, <1>5, <2>1
  <2>3. DOMAIN Append(hop.attempts, attempt) = 1..(m + 1)
    BY <1>2, <2>2
  <2>4. /\ Append(hop.attempts, attempt)[m + 1] = attempt
        /\ \A k \in 1..m : Append(hop.attempts, attempt)[k] = hop.attempts[k]
    BY <1>2, <1>5, <2>1
  <2>5. Append(hop.attempts, attempt) # <<>>
    BY <1>2, <2>2
  <2> QED
    BY <1>7, <2>2, <2>3, <2>4, <2>5
<1>9. hop' \in Hops
  BY <1>1, <1>7, <1>8 DEF Hops
<1>10. ValidHop(hop')
  <2>1. \A k \in 1..m : hop.attempts[k].address = list[k] /\ hop.attempts[k].outcome = "failed"
    BY <1>1, <1>2 DEF ValidHop, AttemptNumbers, list
  <2>2. attempt.address = list[m + 1]
    BY <1>3 DEF attempt
  <2>3. m + 1 <= Len(list)
    BY <1>2, <1>3
  <2>4. \A k \in 1..(m + 1) :
          /\ hop'.attempts[k].address = list[k]
          /\ hop'.attempts[k].outcome # "failed" => k = m + 1
    <3> SUFFICES ASSUME NEW k \in 1..(m + 1)
                 PROVE  /\ hop'.attempts[k].address = list[k]
                        /\ hop'.attempts[k].outcome # "failed" => k = m + 1
      OBVIOUS
    <3>1. CASE k = m + 1
      BY <1>8, <2>2, <3>1
    <3>2. CASE k \in 1..m
      BY <1>8, <2>1, <3>2
    <3> QED
      BY <1>2, <3>1, <3>2
  <2> QED
    BY <1>1, <1>7, <1>8, <2>3, <2>4 DEF ValidHop, AttemptNumbers, list
<1> QED
  BY <1>1, <1>7, <1>8, <1>9, <1>10 DEF HopInv, list

LEMMA DialInv ==
  ASSUME IInv, Dial PROVE IInv'
<1>1. phase = "dial" /\ Untried /\ Decided /\ UNCHANGED <<fallbackUsed, result>>
  BY DEF Dial
<1>2. ASSUME NEW outcome \in {"failed", "cancelled", "succeeded"}, NEW location,
             IF outcome = "succeeded" THEN location \in Locations ELSE location = "none",
             Record(outcome, location), phase' = "dialled",
             UNCHANGED <<walk, hops, redirects, chain>>
      PROVE  IInv'
  <2>1. hop' \in Hops /\ HopInv'
    BY <1>1, <1>2, Recorded DEF walk
  <2> QED
    BY <1>1, <1>2, <2>1, WalksOn DEF Walking, IInv, WalkInv, PathLive, report
<1>3. CASE EndHop("invalid_probe_evidence") /\ UNCHANGED hop
  <2>1. Explained("invalid_probe_evidence")'
    BY DEF Explained, Sudden
  <2>2. "invalid_probe_evidence" \in StopReasons \ {"invalid_input"}
    BY DEF StopReasons
  <2> QED
    BY <1>1, <1>3, <2>1, <2>2, EndsHop
<1>4. ASSUME NEW outcome \in {"failed", "cancelled"}, Record(outcome, "none"),
             phase' = "dialled", UNCHANGED <<walk, hops, redirects, chain>>
      PROVE  IInv'
  <2>1. outcome # "succeeded" /\ outcome \in {"failed", "cancelled", "succeeded"}
    OBVIOUS
  <2> QED
    BY <1>2, <1>4, <2>1
<1>5. ASSUME NEW location \in Locations, Record("succeeded", location),
             phase' = "dialled", UNCHANGED <<walk, hops, redirects, chain>>
      PROVE  IInv'
  BY <1>2, <1>5
<1> QED
  BY <1>3, <1>4, <1>5 DEF Dial

LEMMA SpentInv ==
  ASSUME IInv, CandidatesSpent PROVE IInv'
<1>1. /\ phase = "dial" /\ ~Untried /\ EndHop("all_candidates_failed")
      /\ Decided /\ UNCHANGED <<hop, fallbackUsed, result>>
  BY DEF CandidatesSpent
<1>2. Last(hops') = hop /\ hops' # <<>>
  BY <1>1, Kept DEF EndHop
<1>3. Exhausted(hop)
  <2>1. /\ hop \in Hops /\ ValidHop(hop) /\ hop.outcome = "succeeded"
        /\ SelectedCandidates(hop.addresses) # <<>>
        /\ \A k \in AttemptNumbers(hop) : hop.attempts[k].outcome = "failed"
    BY <1>1 DEF IInv, TypeOK, HopInv
  <2>2. /\ SelectedCandidates(hop.addresses) \in Seq(Nat)
        /\ Len(SelectedCandidates(hop.addresses)) \in Nat
        /\ hop.attempts \in Seq(Attempts) /\ Len(hop.attempts) \in Nat
    BY <2>1, CandidatesOfHop
  <2>3. Len(hop.attempts) = Len(SelectedCandidates(hop.addresses))
    BY <1>1, <2>1, <2>2 DEF Untried, ValidHop
  <2>4. hop.attempts # <<>>
    BY <2>1, <2>2, <2>3
  <2> QED
    BY <2>1, <2>3, <2>4 DEF Exhausted
<1>4. /\ Explained("all_candidates_failed")'
      /\ "all_candidates_failed" \in StopReasons \ {"invalid_input"}
  BY <1>2, <1>3 DEF Explained, StopReasons
<1> QED
  BY <1>1, <1>4, EndsHop

LEMMA LastAttempted ==
  ASSUME IInv, phase = "dialled"
  PROVE  /\ hop \in Hops /\ ValidHop(hop) /\ hop.url = current /\ hop.outcome = "succeeded"
         /\ LastAttempt = hop.attempts[Len(hop.attempts)]
         /\ LastAttempt.outcome \in {"failed", "cancelled", "succeeded"}
         /\ LastAttempt.outcome = "succeeded" => LastAttempt.location \in Locations
         /\ \A k \in AttemptNumbers(hop) :
              k # Len(hop.attempts) => hop.attempts[k].outcome = "failed"
         /\ Len(hop.attempts) \in AttemptNumbers(hop)
<1>1. /\ hop \in Hops /\ ValidHop(hop) /\ hop.url = current /\ hop.outcome = "succeeded"
      /\ hop.attempts # <<>>
  BY DEF IInv, TypeOK, HopInv
<1>2. hop.attempts \in Seq(Attempts) /\ Len(hop.attempts) \in AttemptNumbers(hop)
  BY <1>1, CandidatesOfHop DEF AttemptNumbers
<1>3. hop.attempts[Len(hop.attempts)] \in Attempts
  BY <1>2 DEF AttemptNumbers
<1>4. LastAttempt = hop.attempts[Len(hop.attempts)]
  BY DEF LastAttempt, Last
<1>5. /\ LastAttempt.outcome \in {"failed", "cancelled", "succeeded"}
      /\ LastAttempt.outcome = "succeeded" => LastAttempt.location \in Locations
  BY <1>3, <1>4 DEF Attempts
<1>6. \A k \in AttemptNumbers(hop) : k # Len(hop.attempts) => hop.attempts[k].outcome = "failed"
  <2>1. \A k \in AttemptNumbers(hop) :
          hop.attempts[k].outcome # "failed" => k = Len(hop.attempts)
    BY <1>1 DEF ValidHop
  <2> QED
    BY <2>1
<1> QED
  BY <1>1, <1>2, <1>4, <1>5, <1>6

LEMMA RespondInv ==
  ASSUME IInv, phase = "dialled", LastAttempt.outcome = "succeeded",
         Respond(LastAttempt.location), Decided, UNCHANGED <<hop, fallbackUsed, result>>
  PROVE  IInv'
<1>1. PICK location \in Locations : location = LastAttempt.location
  BY LastAttempted
<1>2. PICK reason : reason = ResponseReason(location, redirects')
  OBVIOUS
<1>3. KeepHop /\ hadResponse' = TRUE
  BY DEF Respond
<1>4. /\ Last(hops') = hop /\ hops'[Len(hops')] = hop /\ hops' # <<>>
      /\ hops' \in Seq(Hops) /\ Len(hops') <= RedirectLimit + 2
      /\ Len(hops') >= ChainStart' /\ redirects' \in 0..RedirectLimit /\ HopsInv'
      /\ \A i, j \in InChain' : i < j => hops'[i].url # hops'[j].url
      /\ \A k \in InChain' : hops'[k].url \in seen
      /\ \A url \in seen : \E k \in InChain' : hops'[k].url = url
  BY <1>3, Kept
<1>5. Succeeded(hop) /\ Last(hop.attempts).location = location
      /\ (Redirects(hop) <=> location # "final")
  BY <1>1, LastAttempted DEF Succeeded, Redirects, LastAttempt, IInv, HopInv
<1>6. InChain' \subseteq DOMAIN hops'
  <2>1. ChainStart' \in {1, 2} /\ Len(hops') \in Nat /\ DOMAIN hops' = 1..Len(hops')
    BY <1>4 DEF ChainStart
  <2> QED
    BY <2>1 DEF InChain
<1>7. CASE reason # "none"
  <2>1. EndChain(reason) /\ pending' = FALSE /\ UNCHANGED <<current, seen>>
    BY <1>1, <1>2, <1>7 DEF Respond
  <2>2. \/ reason = "final_response" /\ location = "final"
        \/ reason = "redirect_limit" /\ location # "final" /\ redirects' >= RedirectLimit
        \/ reason \in TargetFaults /\ location = reason
        \/ reason = "redirect_loop" /\ location # "final" /\ location \in seen
    BY <1>2, <1>7 DEF ResponseReason
  <2>3. reason \in StopReasons \ {"invalid_input"}
    BY <2>2 DEF StopReasons, TargetFaults
  <2>4. Explained(reason)'
    <3>1. CASE reason = "final_response" /\ location = "final"
      BY <1>4, <1>5, <3>1 DEF Explained
    <3>2. CASE reason = "redirect_limit" /\ location # "final" /\ redirects' >= RedirectLimit
      <4>1. redirects' = RedirectLimit
        BY <1>4, <3>2, LimitAssumption
      <4> QED
        BY <1>4, <1>5, <3>2, <4>1 DEF Explained
    <3>3. CASE reason \in TargetFaults /\ location = reason
      BY <1>4, <1>5, <3>3 DEF Explained, TargetFaults
    <3>4. CASE reason = "redirect_loop" /\ location # "final" /\ location \in seen
      <4>1. \E k \in DOMAIN hops' : hops'[k].url = location
        BY <1>4, <1>6, <3>4
      <4> QED
        BY <1>4, <1>5, <3>4, <4>1 DEF Explained
    <3> QED
      BY <2>2, <3>1, <3>2, <3>3, <3>4
  <2> QED
    BY <1>3, <2>1, <2>3, <2>4, HopEnds
<1>8. CASE reason = "none"
  <2>1. /\ pending' = TRUE /\ seen' = seen \cup {location} /\ current' = location
        /\ phase' = "enter" /\ chain' = chain
    BY <1>1, <1>2, <1>8 DEF Respond
  <2>2. /\ location \in URLs /\ location # "final" /\ location \notin seen
        /\ redirects' < RedirectLimit
    BY <1>1, <1>2, <1>4, <1>8, LimitAssumption
       DEF ResponseReason, Locations, TargetFaults
  <2>3. TypeOK'
    BY <1>3, <1>4, <2>1, <2>2 DEF IInv, TypeOK, contexts
  <2>4. SeenInv'
    BY <1>4, <2>1 DEF SeenInv
  <2>5. WalkInv'
    <3>1. \A k \in InChain' : hops'[k].url # current'
      BY <1>4, <2>1, <2>2
    <3>2. Redirects(hops'[Len(hops')]) /\ current' = Last(hops'[Len(hops')].attempts).location
      BY <1>4, <1>5, <2>1, <2>2
    <3>3. chain' = "none"
      BY <2>1 DEF IInv, WalkInv, Walking
    <3>4. ~(Len(hops') < ChainStart')
      BY <1>4 DEF ChainStart
    <3> QED
      BY <1>3, <2>1, <2>2, <3>1, <3>2, <3>3, <3>4 DEF IInv, WalkInv, PathLive
  <2>6. HopInv' /\ EndInv' /\ EmittedResultValid'
    BY <2>1 DEF HopInv, EndInv, EmittedResultValid, Returned
  <2> QED
    BY <1>4, <2>3, <2>4, <2>5, <2>6 DEF IInv
<1> QED
  BY <1>7, <1>8

LEMMA DialledInv ==
  ASSUME IInv, Dialled PROVE IInv'
<1>1. phase = "dialled" /\ Decided /\ UNCHANGED <<hop, fallbackUsed, result>>
  BY DEF Dialled
<1>2. CASE AttemptReason # "none" /\ EndHop(AttemptReason)
  <2>1. PICK reason : reason = AttemptReason
    OBVIOUS
  <2>2. Ended \in {"cancelled", "path_timeout", "none"}
    BY EndedReasons DEF ContextReasons
  <2>3. reason \in {"cancelled", "path_timeout"}
    BY <1>2, <2>1, <2>2 DEF AttemptReason
  <2>4. reason \in StopReasons \ {"invalid_input"} /\ Explained(reason)' /\ EndHop(reason)
    BY <1>2, <2>1, <2>3 DEF StopReasons, ContextReasons, Explained, Sudden
  <2> QED
    BY <1>1, <2>4, EndsHop
<1>3. CASE LastAttempt.outcome = "succeeded" /\ Respond(LastAttempt.location)
  BY <1>1, <1>3, RespondInv
<1>4. CASE /\ LastAttempt.outcome = "failed" /\ phase' = "dial"
           /\ UNCHANGED <<walk, hops, redirects, chain>>
  <2>1. \A k \in AttemptNumbers(hop) : hop.attempts[k].outcome = "failed"
    BY <1>1, <1>4, LastAttempted
  <2>2. hop' \in Hops /\ HopInv'
    BY <1>1, <1>4, <2>1 DEF IInv, TypeOK, HopInv, walk
  <2> QED
    BY <1>1, <1>4, <2>2, WalksOn DEF Walking, IInv, WalkInv, PathLive, report
<1> QED
  BY <1>2, <1>3, <1>4 DEF Dialled

-----------------------------------------------------------------------------
(***************************************************************************)
(* Observe before and after its chains.                                    *)
(***************************************************************************)
LEMMA FallbackInv ==
  ASSUME IInv, Fallback PROVE IInv'
<1>1. /\ phase = "chain_end" /\ chain = "all_candidates_failed" /\ ~fallbackUsed /\ ~hadResponse
      /\ fallbackUsed' = TRUE /\ current' = FallbackURL /\ seen' = {FallbackURL}
      /\ pending' = FALSE /\ hadResponse' = FALSE /\ chain' = "none" /\ phase' = "enter"
      /\ Decided /\ UNCHANGED <<hop, hops, redirects, result>>
  BY DEF Fallback, FallsBack
<1>2. Len(hops) = 1 /\ DOMAIN hops = {1} /\ hops # <<>>
  <2>1. Len(hops) <= 1 /\ ~(Len(hops) < 1)
    BY <1>1 DEF IInv, EndInv, ChainStart, Sudden
  <2> QED
    BY <2>1, HopsOfReport DEF IInv
<1>3. Exhausted(hops[1])
  <2>1. Exhausted(Last(hops))
    BY <1>1 DEF IInv, EndInv, Explained, Sudden, TargetFaults
  <2> QED
    BY <1>2, <2>1 DEF Last
<1>4. ChainStart' = 2 /\ InChain' = {} /\ redirects = 0
  BY <1>1, <1>2 DEF IInv, HopsInv, ChainStart, InChain
<1>5. TypeOK'
  BY <1>1, URLAssumption DEF IInv, TypeOK, contexts
<1>6. HopsInv'
  <2>1. /\ \A k \in DOMAIN hops : ValidHop(hops[k])
        /\ hops[1].url = InitialURL
    BY <1>2 DEF IInv, HopsInv
  <2> QED
    BY <1>1, <1>2, <1>3, <1>4, <2>1 DEF HopsInv
<1>7. SeenInv'
  BY <1>1, <1>4 DEF SeenInv
<1>8. WalkInv'
  BY <1>1, <1>2, <1>4 DEF IInv, WalkInv, PathLive
<1>9. HopInv' /\ EndInv' /\ EmittedResultValid'
  BY <1>1 DEF HopInv, EndInv, EmittedResultValid, Returned
<1> QED
  BY <1>5, <1>6, <1>7, <1>8, <1>9 DEF IInv

\* Validate counts the redirects of the Result anew.
LEMMA RedirectsCounted ==
  ASSUME NEW n \in Nat
  PROVE  /\ Cardinality(1..n \ {1}) = IF n = 0 THEN 0 ELSE n - 1
         /\ Cardinality(1..n \ {1, 2}) = IF n <= 1 THEN 0 ELSE n - 2
<1>1. 1..n \ {1} = 2..n /\ 1..n \ {1, 2} = 3..n
  OBVIOUS
<1>2. Cardinality(2..n) = IF 2 > n THEN 0 ELSE n - 2 + 1
  BY FS_Interval
<1>3. Cardinality(3..n) = IF 3 > n THEN 0 ELSE n - 3 + 1
  BY FS_Interval
<1>4. /\ Cardinality(1..n \ {1}) = Cardinality(2..n)
      /\ Cardinality(1..n \ {1, 2}) = Cardinality(3..n)
  BY <1>1, Zenon
<1>5. Cardinality(1..n \ {1}) = IF n = 0 THEN 0 ELSE n - 1
  BY <1>2, <1>4
<1>6. Cardinality(1..n \ {1, 2}) = IF n <= 1 THEN 0 ELSE n - 2
  BY <1>3, <1>4
<1> QED
  BY <1>5, <1>6

\* A Result with the hops of the report, and a reason that they explain, passes Validate.
LEMMA FinishedValid ==
  ASSUME TypeOK, HopsInv, NEW reason \in StopReasons \ {"invalid_input"}, Explained(reason),
         Len(hops) < ChainStart => reason \in Sudden,
         Finish(reason), UNCHANGED report, hostname' = "valid"
  PROVE  ValidResult'
<1> DEFINE n == Len(hops)
           r == result'
<1>1. /\ r.reason = reason /\ r.redirects = redirects /\ r.fallback = fallbackUsed
      /\ r.hops = hops
  BY DEF Finish
<1>2. /\ n \in Nat /\ DOMAIN hops = 1..n
      /\ hops = <<>> <=> n = 0
      /\ redirects \in 0..RedirectLimit /\ RedirectLimit \in Nat /\ fallbackUsed \in BOOLEAN
  BY HopsOfReport DEF TypeOK
<1>n. n \in Nat /\ redirects \in Nat /\ redirects <= RedirectLimit /\ RedirectLimit \in Nat
  BY <1>2
<1>3. fallbackUsed => hops # <<>> /\ Exhausted(hops[1])
  BY DEF HopsInv
<1>4. redirects = IF n < ChainStart THEN 0 ELSE n - ChainStart
  BY DEF HopsInv
<1>5. Len(r.hops) <= RedirectLimit + (IF r.fallback THEN 2 ELSE 1)
  <2>1. ChainStart \in {1, 2} /\ ChainStart = IF r.fallback THEN 2 ELSE 1
    BY <1>1, <1>2 DEF ChainStart
  <2>2. n <= RedirectLimit + ChainStart
    <3> HIDE DEF n
    <3> QED
      BY <1>n, <1>4, <2>1
  <2> QED
    BY <1>1, <2>1, <2>2
<1>6. r.hops # <<>> => r.hops[1].url = InitialURL
  BY <1>1 DEF HopsInv
<1>7. \A k \in HopNumbers' : ValidHop(r.hops[k])
  BY <1>1 DEF HopsInv, HopNumbers
<1>8. ASSUME NEW k \in HopNumbers' \ {1}
      PROVE  ValidTransition(k)'
  <2>1. k \in DOMAIN hops \ {1}
    BY <1>1, <1>8 DEF HopNumbers
  <2>2. Follows(k)
    BY <2>1 DEF HopsInv
  <2> QED
    BY <1>1, <1>3, <2>2 DEF Follows, ValidTransition
<1>9. r.redirects = Transitions'
  <2>1. HopNumbers' = 1..n
    BY <1>1, <1>2 DEF HopNumbers
  <2>2. CASE fallbackUsed
    <3>1. n >= 1 /\ ChainStart = 2
      BY <1>2, <1>3, <2>2 DEF ChainStart
    <3>2. Transitions' = Cardinality(HopNumbers' \ {1, 2})
      BY <1>1, <2>2 DEF Transitions
    <3>3. Cardinality(1..n \ {1, 2}) = IF n <= 1 THEN 0 ELSE n - 2
      BY <1>2, RedirectsCounted
    <3> QED
      <4>1. Transitions' = redirects
        <5> HIDE DEF n
        <5> QED
          BY <1>n, <1>4, <2>1, <3>1, <3>2, <3>3
      <4> QED
        BY <1>1, <4>1
  <2>3. CASE ~fallbackUsed
    <3>1. ChainStart = 1
      BY <2>3 DEF ChainStart
    <3>2. Transitions' = Cardinality(HopNumbers' \ {1})
      BY <1>1, <2>3 DEF Transitions
    <3>3. Cardinality(1..n \ {1}) = IF n = 0 THEN 0 ELSE n - 1
      BY <1>2, RedirectsCounted
    <3> QED
      <4>1. Transitions' = redirects
        <5> HIDE DEF n
        <5> QED
          BY <1>n, <1>4, <2>1, <3>1, <3>2, <3>3
      <4> QED
        BY <1>1, <4>1
  <2> QED
    BY <2>2, <2>3
<1>10. \/ ~r.fallback \/ Len(r.hops) >= 2
       \/ r.reason \in {"cancelled", "path_timeout", "invalid_probe_evidence"}
  BY <1>1, <1>2 DEF ChainStart, Sudden
<1>11. ValidEvidence'
  BY <1>1 DEF ValidEvidence, Explained, Sudden, HopNumbers
<1> HIDE DEF r
<1>12. r.redirects <= RedirectLimit
  BY <1>1, <1>2
<1>13. r.fallback => r.hops # <<>> /\ Exhausted(r.hops[1])
  BY <1>1, <1>3
<1> QED
  BY <1>1, <1>5, <1>6, <1>7, <1>8, <1>9, <1>10, <1>11, <1>12, <1>13
     DEF ValidResult, ValidConclusion, r

LEMMA FinishInv ==
  ASSUME IInv, phase' = "returned", result'.reason \in StopReasons,
         result' = [reason |-> result'.reason, redirects |-> redirects,
                    fallback |-> fallbackUsed, hops |-> hops],
         Decided, UNCHANGED <<walk, hop, report, chain>>,
         hostname # "unstable" => ValidResult'
  PROVE  IInv'
<1>1. TypeOK'
  BY DEF IInv, TypeOK, contexts, walk, report
<1>2. HopsInv' /\ SeenInv'
  BY SameReport DEF IInv
<1>3. WalkInv' /\ HopInv' /\ EndInv' /\ (hostname' # "unstable" => EmittedResultValid')
  BY DEF WalkInv, Walking, PathLive, HopInv, EndInv, EmittedResultValid
<1> QED
  BY <1>1, <1>2, <1>3 DEF IInv

LEMMA FinishPathInv ==
  ASSUME IInv, FinishPath PROVE IInv'
<1>1. PICK reason : reason = IF Ended # "none" THEN Ended ELSE chain
  OBVIOUS
<1>2. /\ phase = "chain_end" /\ Finish(reason)
      /\ Decided /\ UNCHANGED <<walk, hop, report, chain>>
  BY <1>1 DEF FinishPath, Finish
<1>3. Ended # "none" => Ended \in Sudden
  BY EndedReasons DEF ContextReasons, Sudden
<1>4. /\ reason \in StopReasons \ {"invalid_input"} /\ Explained(reason)
      /\ Len(hops) < ChainStart => reason \in Sudden
  <2>1. /\ chain \in StopReasons \ {"invalid_input"} /\ Explained(chain)
        /\ Len(hops) < ChainStart => chain \in Sudden
    BY <1>2 DEF IInv, EndInv
  <2>2. CASE Ended # "none"
    BY <1>1, <1>3, <2>2 DEF Sudden, StopReasons, ContextReasons, Explained
  <2>3. CASE Ended = "none"
    BY <1>1, <2>1, <2>3
  <2> QED
    BY <2>2, <2>3
<1>5. ValidResult'
  BY <1>2, <1>4, FinishedValid DEF IInv, WalkInv, PathLive
<1>6. /\ result' = [reason |-> reason, redirects |-> redirects,
                    fallback |-> fallbackUsed, hops |-> hops]
      /\ phase' = "returned"
  BY <1>2 DEF Finish
<1> QED
  BY <1>2, <1>4, <1>5, <1>6, FinishInv

LEMMA StartInv ==
  ASSUME IInv, Start PROVE IInv'
<1>1. phase = "start" /\ Decided /\ UNCHANGED <<walk, hop, report, chain>>
  BY DEF Start
<1>2. hops = <<>> /\ ~fallbackUsed /\ redirects = 0 /\ Len(hops) = 0
  <2>1. hops = <<>> /\ ~fallbackUsed
    BY <1>1 DEF IInv, WalkInv
  <2> QED
    BY <2>1 DEF IInv, HopsInv, ChainStart
<1>3. CASE hostname # "valid" /\ Finish("invalid_input")
  <2>1. /\ result' = [reason |-> "invalid_input", redirects |-> redirects,
                      fallback |-> fallbackUsed, hops |-> hops]
        /\ phase' = "returned"
    BY <1>3 DEF Finish
  <2>2. hostname' = hostname /\ hostname \in {"valid", "invalid", "unstable"}
    BY <1>1 DEF IInv, TypeOK
  <2>3. hostname # "unstable" => ValidResult'
    BY <1>2, <1>3, <2>1, <2>2 DEF ValidResult
  <2>4. "invalid_input" \in StopReasons
    BY DEF StopReasons
  <2> QED
    BY <1>1, <2>1, <2>3, <2>4, FinishInv
<1>4. CASE hostname = "valid" /\ Ended # "none" /\ Finish(Ended)
  <2>1. PICK reason : reason = Ended
    OBVIOUS
  <2>2. reason \in Sudden /\ reason \in StopReasons \ {"invalid_input"}
    BY <1>4, <2>1, EndedReasons DEF Sudden, StopReasons, ContextReasons
  <2>3. Finish(reason) /\ Explained(reason)
    BY <1>4, <2>1, <2>2 DEF Finish, Explained
  <2>4. ValidResult'
    BY <1>1, <1>4, <2>2, <2>3, FinishedValid DEF IInv
  <2>5. /\ result' = [reason |-> reason, redirects |-> redirects,
                      fallback |-> fallbackUsed, hops |-> hops]
        /\ phase' = "returned"
    BY <2>3 DEF Finish
  <2> QED
    BY <1>1, <2>2, <2>4, <2>5, FinishInv
<1>5. CASE hostname = "valid" /\ phase' = "enter" /\ UNCHANGED result
  <2>1. hop' \in Hops /\ HopInv'
    BY <1>1, <1>5 DEF IInv, TypeOK, HopInv
  <2> QED
    BY <1>1, <1>5, <2>1, WalksOn DEF Walking
<1> QED
  BY <1>3, <1>4, <1>5 DEF Start

LEMMA NextInv == IInv /\ [Next]_vars => IInv'
<1> SUFFICES ASSUME IInv, [Next]_vars PROVE IInv'
  OBVIOUS
<1>1. CASE CallerEnds \/ Propagate \/ PathDeadline \/ Look \/ Done \/ UNCHANGED vars
  BY <1>1, ContextsInv
<1>2. CASE Start
  BY <1>2, StartInv
<1>3. CASE EnterHop
  BY <1>3, EnterInv
<1>4. CASE Resolve
  BY <1>4, ResolveInv
<1>5. CASE Resolved
  BY <1>5, ResolvedInv
<1>6. CASE Dial
  BY <1>6, DialInv
<1>7. CASE CandidatesSpent
  BY <1>7, SpentInv
<1>8. CASE Dialled
  BY <1>8, DialledInv
<1>9. CASE Fallback
  BY <1>9, FallbackInv
<1>10. CASE FinishPath
  BY <1>10, FinishPathInv
<1> QED
  BY <1>1, <1>2, <1>3, <1>4, <1>5, <1>6, <1>7, <1>8, <1>9, <1>10 DEF Next, Step

-----------------------------------------------------------------------------
\* Every hop was led to by the one before it and is explained by its own attempts, and
\* the chain that ends says why, wherever the contexts end.
THEOREM InvariantHolds == Spec => []IInv
BY InitInv, NextInv, PTL DEF Spec

\* The variables of Observe keep their types: the report never holds more than
\* RedirectLimit redirects and two hops more, and every attempt is one of the
\* resolver's addresses.
THEOREM TypeCorrect == Spec => []TypeOK
<1>1. IInv => TypeOK
  BY DEF IInv
<1> QED
  BY <1>1, InvariantHolds, PTL

\* Observe never returns a Result that Validate refuses: whatever the resolver, the
\* servers and injected adapters answer, whenever a context ends, and for any limits,
\* if no hostname is asked for that is refused although what is kept of it is not: such
\* a Result is refused, as commandline_hostname shows.
THEOREM ResultIsValid == "unstable" \notin Hostnames => (Spec => []EmittedResultValid)
<1> SUFFICES ASSUME "unstable" \notin Hostnames PROVE Spec => []EmittedResultValid
  OBVIOUS
<1> DEFINE Stable == hostname # "unstable"
<1>1. Init => Stable
  BY DEF Init
<1>2. Stable /\ [Next]_vars => Stable'
  BY DEF Next, Step, Done, CallerEnds, Propagate, PathDeadline, Look, Start, EnterHop, Resolve,
         Resolved, Dial, CandidatesSpent, Dialled, Fallback, FinishPath, vars
<1>3. IInv /\ Stable => EmittedResultValid
  BY DEF IInv
<1> QED
  BY <1>1, <1>2, <1>3, InvariantHolds, PTL DEF Spec

\* No chain of redirects asks for a URL twice, for any set of URLs.
THEOREM ChainsAreStraight == Spec => []ChainsNeverRevisit
<1>1. IInv => ChainsNeverRevisit
  <2> SUFFICES ASSUME IInv, NEW i \in DOMAIN hops, NEW j \in DOMAIN hops,
                      i < j, fallbackUsed => i > 1
               PROVE  hops[i].url # hops[j].url
    BY DEF ChainsNeverRevisit
  <2>1. DOMAIN hops = 1..Len(hops) /\ Len(hops) \in Nat
    BY HopsOfReport DEF IInv
  <2>2. i \in InChain /\ j \in InChain
    BY <2>1 DEF InChain, ChainStart
  <2> QED
    BY <2>2 DEF IInv, SeenInv
<1> QED
  BY <1>1, InvariantHolds, PTL
-----------------------------------------------------------------------------
(***************************************************************************)
(* The refinement.                                                         *)
(***************************************************************************)
\* While Observe runs there is no Result, the hop under way was cancelled by
\* somebody who may, and a cancelled hop or a context that has ended is why the
\* chain ended, if it ended for one of them.
CutInv ==
  /\ "canceled" \in {pathErr, glance} => callerErr = "canceled"
  /\ phase = "start" => pathErr = "active"
  /\ ~Returned => result.reason = "none"
  /\ phase \in {"resolved", "dialled"} /\ HopOutcome(hop) = "cancelled" => MayCancel
  /\ Bounded!Cancelled /\ ~Returned => phase = "chain_end" /\ chain \in ContextReasons
  /\ phase = "chain_end" /\ chain = "path_timeout" => ~Bounded!Live
  /\ phase = "chain_end" /\ chain = "cancelled" => ~Bounded!Live \/ Bounded!Cancelled

\* A hop that is kept takes the next place of the evidence.
LEMMA KeepsEvidence ==
  ASSUME IInv, CutInv, phase \in {"resolved", "dial", "dialled"}, KeepHop
  PROVE  /\ HopOutcome(hop) \in Bounded!Outcomes
         /\ Bounded!Record(HopOutcome(hop))
         /\ Bounded!Cancelled' <=> HopOutcome(hop) = "cancelled"
         /\ phase = "dial" => HopOutcome(hop) # "cancelled"
<1> DEFINE n == Len(hops) + 1
           outcome == HopOutcome(hop)
<1>1. /\ Len(hops) \in Nat /\ DOMAIN hops = 1 .. Len(hops) /\ hops \in Seq(Hops)
      /\ hop \in Hops /\ hop.attempts \in Seq(Attempts)
  BY HopsOfReport, CandidatesOfHop DEF IInv, TypeOK
<1>2. /\ DOMAIN hops' = 1 .. n /\ hops'[n] = hop
      /\ \A k \in 1 .. Len(hops) : hops'[k] = hops[k]
  BY <1>1 DEF KeepHop
<1>3. hop.attempts # <<>> =>
        Len(hop.attempts) \in DOMAIN hop.attempts /\ Last(hop.attempts) \in Attempts
          /\ Last(hop.attempts) = hop.attempts[Len(hop.attempts)]
  BY <1>1 DEF Last
<1>4. outcome \in Bounded!Outcomes
  <2>1. CASE hop.attempts = <<>>
    BY <1>1, <2>1 DEF HopOutcome, Hops, Bounded!Outcomes
  <2>2. CASE hop.attempts # <<>>
    BY <1>3, <2>2 DEF HopOutcome, Attempts, Bounded!Outcomes
  <2> QED
    BY <2>1, <2>2
<1>5. phase = "dial" => outcome # "cancelled"
  BY <1>3 DEF IInv, HopInv, HopOutcome, AttemptNumbers
<1>6. outcome = "cancelled" => AnyAdapter \/ pathErr = "canceled"
  BY <1>5 DEF CutInv, MayCancel
<1>7. ~Bounded!Cancelled
  BY DEF CutInv, Returned
<1>8. /\ DOMAIN Evidence = 1 .. Len(hops)
      /\ \A k \in 1 .. Len(hops) : Evidence[k] = HopOutcome(hops[k])
  BY <1>1 DEF Evidence
<1>9. Evidence' = [k \in 1 .. n |-> HopOutcome(hops'[k])]
  BY <1>2 DEF Evidence, HopOutcome
<1>10. n \in DOMAIN Evidence' \ DOMAIN Evidence
  BY <1>1, <1>8, <1>9
<1>11. Evidence' = [k \in DOMAIN Evidence \cup {n} |-> IF k = n THEN outcome ELSE Evidence[k]]
  <2>1. DOMAIN Evidence \cup {n} = 1 .. n
    BY <1>1, <1>8
  <2>2. \A k \in 1 .. n : HopOutcome(hops'[k]) = IF k = n THEN outcome ELSE Evidence[k]
    BY <1>1, <1>2, <1>8
  <2> HIDE DEF n, outcome
  <2> QED
    BY <1>9, <2>1, <2>2
<1>12. Bounded!Record(outcome)
  BY <1>6, <1>7, <1>10, <1>11 DEF Bounded!Record
<1>13. Bounded!Cancelled' <=> outcome = "cancelled"
  <2> HIDE DEF n, outcome
  <2> QED
    BY <1>7, <1>10, <1>11 DEF Bounded!Cancelled
<1> QED
  BY <1>4, <1>5, <1>12, <1>13

\* A context that has ended is reported as what ended it.
LEMMA EndedContexts ==
  ASSUME IInv, CutInv
  PROVE  /\ Ended \in {"none", "cancelled", "path_timeout"}
         /\ Ended = "none" <=> Bounded!Live
         /\ Ended = "cancelled" => callerErr = "canceled"
         /\ Ended = "path_timeout" /\ Looked =>
              glance = "not_canceled" /\ (callerErr # "active" \/ pathErr = "deadline")
<1>1. /\ callerErr \in {"active", "canceled", "deadline"}
      /\ pathErr \in {"active", "canceled", "deadline"}
      /\ glance \in {"unread", "canceled", "not_canceled"}
      /\ "canceled" \in {pathErr, glance} => callerErr = "canceled"
      /\ phase = "start" => pathErr = "active"
  BY DEF IInv, TypeOK, CutInv
<1> QED
  BY <1>1 DEF Ended, TerminalContext, Looked, Bounded!Live

\* A chain that keeps its last hop ends for a context or a cancellation only if there
\* was one, and always if there was.
LEMMA CutEnds ==
  ASSUME IInv, CutInv, phase \in {"resolved", "dial", "dialled"}, KeepHop,
         NEW reason, EndChain(reason), Decided, UNCHANGED result,
         HopOutcome(hop) = "cancelled" => reason \in ContextReasons,
         reason = "path_timeout" => ~Bounded!Live,
         reason = "cancelled" => ~Bounded!Live \/ HopOutcome(hop) = "cancelled"
  PROVE  CutInv'
<1>1. Bounded!Cancelled' <=> HopOutcome(hop) = "cancelled"
  BY KeepsEvidence
<1>2. phase' = "chain_end" /\ chain' = reason /\ (Bounded!Live' <=> Bounded!Live)
      /\ pathErr' = pathErr /\ callerErr' = callerErr /\ result' = result
      /\ glance' = "unread"
  BY DEF EndChain, contexts, Bounded!Live
<1> QED
  BY <1>1, <1>2 DEF CutInv, Returned

\* A step that leaves the report and the chain alone leaves what cuts it.
LEMMA CutWalksOn ==
  ASSUME IInv, CutInv, ~Returned, phase # "chain_end", Decided, UNCHANGED <<hops, result>>,
         \/ phase' \notin {"start", "resolved", "dialled", "chain_end", "returned"}
         \/ phase' = "chain_end" /\ chain' \in {Ended, "invalid_probe_evidence"} \ {"none"}
         \/ /\ phase' \in {"resolved", "dialled"}
            /\ HopOutcome(hop') = "cancelled" => MayCancel
  PROVE  CutInv'
<1>1. ~Bounded!Cancelled
  BY DEF CutInv
<1>2. ~Bounded!Cancelled'
  BY <1>1 DEF Bounded!Cancelled, Evidence
<1>3. /\ Bounded!Live' <=> Bounded!Live
      /\ pathErr' = pathErr /\ callerErr' = callerErr /\ result' = result
      /\ glance' = "unread" /\ (Ended # "none" => ~Bounded!Live)
  BY EndedContexts DEF contexts, Bounded!Live
<1>4. HopOutcome(hop)' = HopOutcome(hop')
  BY DEF HopOutcome
<1>5. MayCancel' <=> MayCancel
  BY <1>3 DEF MayCancel
<1> QED
  BY <1>2, <1>3, <1>4, <1>5 DEF CutInv, Returned

\* Every step keeps what cuts a path.
LEMMA CutStep == IInv /\ CutInv /\ [Next]_vars => CutInv'
<1> SUFFICES ASSUME IInv, CutInv, [Next]_vars PROVE CutInv'
  OBVIOUS
<1>1. CASE CallerEnds \/ Propagate \/ PathDeadline \/ Look
  <2>1. /\ UNCHANGED <<phase, hop, hops, chain, result>>
        /\ pathErr = "canceled" => pathErr' = "canceled"
        /\ callerErr = "canceled" => callerErr' = "canceled"
        /\ "canceled" \in {pathErr', glance'} => callerErr' = "canceled"
        /\ callerErr # "active" => callerErr' # "active"
        /\ pathErr # "active" => pathErr' # "active"
        /\ phase = "start" => pathErr' = "active"
    BY <1>1, CallerAssumption
       DEF CallerEnds, Propagate, PathDeadline, PathLive, Look, CutInv, IInv, TypeOK, report,
           contexts
  <2>2. ~Bounded!Live => ~Bounded!Live'
    BY <2>1 DEF Bounded!Live
  <2>3. Bounded!Cancelled' <=> Bounded!Cancelled
    BY <2>1 DEF Bounded!Cancelled, Evidence
  <2>4. HopOutcome(hop)' = HopOutcome(hop) /\ (MayCancel => MayCancel')
    BY <2>1 DEF HopOutcome, MayCancel
  <2>5. phase' = phase /\ chain' = chain /\ result' = result
    BY <2>1
  <2> QED
    BY <2>1, <2>2, <2>3, <2>4, <2>5 DEF CutInv, Returned
<1>2. CASE Start
  <2>1. ~Returned /\ phase # "chain_end" /\ Decided /\ UNCHANGED hops
    BY <1>2 DEF Start, Returned, report
  <2>2. CASE phase' = "enter" /\ UNCHANGED result
    BY <2>1, <2>2, CutWalksOn
  <2>3. CASE phase' = "returned"
    BY <2>1, <2>3 DEF CutInv, Returned, contexts
  <2> QED
    BY <1>2, <2>2, <2>3 DEF Start, Finish
<1>3. CASE EnterHop
  <2>1. ~Returned /\ phase # "chain_end" /\ Decided /\ UNCHANGED <<hops, result>>
    BY <1>3 DEF EnterHop, Returned, report
  <2> QED
    BY <1>3, <2>1, CutWalksOn DEF EnterHop, EndChain
<1>4. CASE Resolve
  <2>1. ~Returned /\ phase # "chain_end" /\ Decided /\ UNCHANGED <<hops, result>>
    BY <1>4 DEF Resolve, Returned, report
  <2>2. ASSUME NEW outcome, NEW addresses, NewHop(outcome, addresses)
        PROVE  CutInv'
    <3>1. phase' = "resolved" /\ HopOutcome(hop') = outcome
      BY <2>2 DEF NewHop, HopOutcome
    <3> QED
      BY <2>1, <2>2, <3>1, CutWalksOn DEF NewHop
  <2>3. CASE EndChain("invalid_probe_evidence")
    BY <2>1, <2>3, CutWalksOn DEF EndChain
  <2> QED
    BY <1>4, <2>2, <2>3 DEF Resolve
<1>5. CASE Resolved
  <2>1. CASE ResolutionReason # "none" /\ EndHop(ResolutionReason)
    <3>1. hop.attempts = <<>>
      BY <1>5 DEF Resolved, IInv, HopInv
    <3>2. KeepHop /\ EndChain(ResolutionReason) /\ phase = "resolved"
          /\ Decided /\ UNCHANGED result
      BY <1>5, <2>1 DEF Resolved, EndHop
    <3>3. /\ HopOutcome(hop) = "cancelled" => ResolutionReason \in ContextReasons
          /\ ResolutionReason = "path_timeout" => ~Bounded!Live
          /\ ResolutionReason = "cancelled" =>
               ~Bounded!Live \/ HopOutcome(hop) = "cancelled"
      BY <3>1, EndedContexts DEF ResolutionReason, HopOutcome, ContextReasons
    <3> QED
      BY <3>2, <3>3, CutEnds
  <2>2. CASE phase' = "dial" /\ UNCHANGED hops
    BY <1>5, <2>2, CutWalksOn DEF Resolved, Returned
  <2> QED
    BY <1>5, <2>1, <2>2 DEF Resolved
<1>6. CASE Dial
  <2>1. CASE EndHop("invalid_probe_evidence")
    <3>1. KeepHop /\ EndChain("invalid_probe_evidence") /\ phase = "dial"
          /\ Decided /\ UNCHANGED result
      BY <1>6, <2>1 DEF Dial, EndHop
    <3>2. HopOutcome(hop) # "cancelled"
      BY <3>1, KeepsEvidence
    <3> QED
      BY <3>1, <3>2, CutEnds
  <2>2. ASSUME NEW outcome, NEW location, Record(outcome, location),
               phase' = "dialled", UNCHANGED hops
        PROVE  CutInv'
    <3>1. hop.attempts \in Seq(Attempts) /\ hop \in Hops
      BY CandidatesOfHop DEF IInv, TypeOK
    <3>2. HopOutcome(hop') = outcome
      BY <2>2, <3>1 DEF Record, HopOutcome, Hops, Last
    <3> QED
      BY <1>6, <2>2, <3>2, CutWalksOn DEF Dial, Record, Returned
  <2> QED
    BY <1>6, <2>1, <2>2 DEF Dial
<1>7. CASE CandidatesSpent
  <2>1. KeepHop /\ EndChain("all_candidates_failed") /\ phase = "dial"
        /\ Decided /\ UNCHANGED result
    BY <1>7 DEF CandidatesSpent, EndHop
  <2>2. HopOutcome(hop) # "cancelled"
    BY <2>1, KeepsEvidence
  <2> QED
    BY <2>1, <2>2, CutEnds
<1>8. CASE Dialled
  <2>0. phase = "dialled" /\ Decided /\ UNCHANGED result
    BY <1>8 DEF Dialled
  <2>1. HopOutcome(hop) = LastAttempt.outcome
    BY <2>0 DEF HopOutcome, LastAttempt, IInv, HopInv
  <2>2. CASE AttemptReason # "none" /\ EndHop(AttemptReason)
    <3>1. KeepHop /\ EndChain(AttemptReason)
      BY <2>2 DEF EndHop
    <3>2. /\ HopOutcome(hop) = "cancelled" => AttemptReason \in ContextReasons
          /\ AttemptReason = "path_timeout" => ~Bounded!Live
          /\ AttemptReason = "cancelled" => ~Bounded!Live \/ HopOutcome(hop) = "cancelled"
      BY <2>1, EndedContexts DEF AttemptReason, ContextReasons
    <3> QED
      BY <2>0, <3>1, <3>2, CutEnds
  <2>3. CASE LastAttempt.outcome = "succeeded" /\ Respond(LastAttempt.location)
    <3>1. KeepHop /\ HopOutcome(hop) # "cancelled"
      BY <2>1, <2>3 DEF Respond
    <3>2. ASSUME NEW reason, reason = ResponseReason(LastAttempt.location, redirects'),
                 reason # "none", EndChain(reason)
          PROVE  CutInv'
      <4>1. reason \notin ContextReasons
        BY <3>2 DEF ResponseReason, TargetFaults, ContextReasons
      <4> QED
        BY <2>0, <3>1, <3>2, <4>1, CutEnds DEF ContextReasons
    <3>3. CASE phase' = "enter"
      <4>1. ~Bounded!Cancelled'
        BY <2>0, <3>1, KeepsEvidence
      <4> QED
        BY <2>0, <3>3, <4>1 DEF CutInv, Returned, contexts
    <3> QED
      BY <2>3, <3>2, <3>3 DEF Respond
  <2>4. CASE phase' = "dial" /\ UNCHANGED hops
    BY <2>0, <2>4, CutWalksOn DEF Returned
  <2> QED
    BY <1>8, <2>2, <2>3, <2>4 DEF Dialled
<1>9. CASE Fallback
  <2>1. chain = "all_candidates_failed" /\ phase = "chain_end" /\ phase' = "enter"
        /\ Decided /\ UNCHANGED <<hops, result>>
    BY <1>9 DEF Fallback, FallsBack
  <2>2. ~Bounded!Cancelled'
    BY <2>1 DEF CutInv, Returned, ContextReasons, Bounded!Cancelled, Evidence
  <2> QED
    BY <2>1, <2>2 DEF CutInv, Returned, contexts
<1>10. CASE FinishPath
  BY <1>10 DEF FinishPath, Finish, CutInv, Returned, contexts
<1>11. CASE Done \/ UNCHANGED vars
  <2>1. UNCHANGED <<phase, hop, hops, chain, result, glance>> /\ UNCHANGED contexts
    BY <1>11 DEF Done, vars, report
  <2>2. /\ Bounded!Cancelled' <=> Bounded!Cancelled
        /\ Bounded!Live' <=> Bounded!Live
        /\ HopOutcome(hop)' = HopOutcome(hop) /\ (MayCancel' <=> MayCancel)
    BY <2>1 DEF Bounded!Cancelled, Evidence, Bounded!Live, HopOutcome, MayCancel, contexts
  <2> QED
    BY <2>1, <2>2 DEF CutInv, Returned, contexts
<1> QED
  BY <1>1, <1>2, <1>3, <1>4, <1>5, <1>6, <1>7, <1>8, <1>9, <1>10, <1>11 DEF Next, Step

\* What a return makes of the verdict.
LEMMA Reports ==
  ASSUME CutInv, ~Returned, NEW reason \in StopReasons, Finish(reason)
  PROVE  /\ Verdict = "none" /\ Verdict' \in Bounded!Verdicts
         /\ reason = "invalid_input" => Verdict' = "refused"
         /\ reason = "final_response" <=> Verdict' = "completed"
         /\ reason = "path_timeout" <=> Verdict' = "timeout"
         /\ reason = "cancelled" <=> Verdict' = "cancelled"
         /\ Verdict' = "refused" => reason = "invalid_input"
BY DEF CutInv, Verdict, Finish, Bounded!Verdicts, StopReasons, TargetFaults, ContextReasons

\* Every step of Observe is one of a bounded observation, or changes nothing of it.
LEMMA BoundedStep == IInv /\ CutInv /\ [Next]_vars => [Bounded!Next]_(Bounded!vars)
<1> SUFFICES ASSUME IInv, CutInv, [Next]_vars PROVE [Bounded!Next]_(Bounded!vars)
  OBVIOUS
<1> USE DEF Bounded!vars
<1>1. CASE CallerEnds
  <2>1. Evidence' = Evidence /\ Verdict' = Verdict
    BY <1>1 DEF CallerEnds, report, Evidence, HopOutcome, Verdict
  <2> QED
    BY <1>1, <2>1 DEF CallerEnds, Bounded!Next, Bounded!CallerEnds
<1>2. CASE Propagate \/ PathDeadline
  <2>1. Evidence' = Evidence /\ Verdict' = Verdict
    BY <1>2 DEF Propagate, PathDeadline, report, Evidence, HopOutcome, Verdict
  <2>2. Bounded!OwnEnds
    BY <1>2, <2>1 DEF Propagate, PathDeadline, Bounded!OwnEnds
  <2> QED
    BY <2>2 DEF Bounded!Next
<1>3. ASSUME ~Returned, Decided, UNCHANGED <<hops, result>>
      PROVE  Bounded!Next
  <2>1. Verdict = "none" /\ UNCHANGED <<Verdict, Evidence>>
    BY <1>3 DEF CutInv, Verdict, Evidence, HopOutcome
  <2> QED
    BY <1>3, <2>1 DEF contexts, Bounded!Next, Bounded!Observe, Bounded!Evidenced
<1>4. ASSUME phase \in {"resolved", "dial", "dialled"}, KeepHop, Decided, UNCHANGED result
      PROVE  Bounded!Next
  <2>1. HopOutcome(hop) \in Bounded!Outcomes /\ Bounded!Record(HopOutcome(hop))
    BY <1>4, KeepsEvidence
  <2>2. Verdict = "none" /\ Verdict' = Verdict
    BY <1>4 DEF CutInv, Returned, Verdict
  <2> QED
    BY <1>4, <2>1, <2>2 DEF contexts, Bounded!Next, Bounded!Observe, Bounded!Evidenced
<1>5. CASE Resolved \/ Dial \/ CandidatesSpent \/ Dialled
  BY <1>3, <1>4, <1>5
     DEF Resolved, Dial, CandidatesSpent, Dialled, EndHop, Respond, Returned
<1>6. CASE EnterHop \/ Resolve \/ Fallback
  BY <1>3, <1>6 DEF EnterHop, Resolve, Fallback, Returned, report
<1>7. ASSUME Decided /\ UNCHANGED hops, Verdict = "none", Verdict' \in Bounded!Verdicts,
             Bounded!Supported(Verdict')
      PROVE  Bounded!Next
  BY <1>7 DEF contexts, Evidence, HopOutcome, Bounded!Report, Bounded!Evidenced, Bounded!Next
<1>8. ASSUME ~Returned, Decided, UNCHANGED hops, Looked, Ended # "none", Finish(Ended)
      PROVE  Bounded!Next
  <2>1. CASE Ended = "cancelled"
    <3>1. Verdict = "none" /\ Verdict' = "cancelled" /\ Verdict' \in Bounded!Verdicts
      BY <1>8, <2>1, Reports DEF StopReasons, ContextReasons
    <3> QED
      BY <1>7, <1>8, <2>1, <3>1, EndedContexts DEF Bounded!Supported
  <2>2. CASE Ended = "path_timeout"
    <3>1. Verdict = "none" /\ Verdict' = "timeout" /\ Verdict' \in Bounded!Verdicts
      BY <1>8, <2>2, Reports DEF StopReasons, ContextReasons
    <3> QED
      BY <1>7, <1>8, <2>2, <3>1, EndedContexts DEF Bounded!Supported
  <2> QED
    BY <1>8, <2>1, <2>2, EndedContexts
<1>9. CASE Look
  <2>1. ~Returned /\ UNCHANGED <<hops, result>>
    BY <1>9 DEF Look, Looks, Returned, report
  <2>2. Verdict = "none" /\ UNCHANGED <<Verdict, Evidence>>
    BY <2>1 DEF CutInv, Verdict, Evidence, HopOutcome
  <2> QED
    BY <1>9, <2>2 DEF Look, contexts, Bounded!Look, Bounded!Next
<1>10. CASE Done \/ UNCHANGED vars
  BY <1>10 DEF Done, vars, contexts, report, Evidence, HopOutcome, Verdict
<1>11. CASE Start
  <2>1. ~Returned /\ Decided /\ UNCHANGED hops /\ hops = <<>>
    BY <1>11 DEF Start, Returned, report, IInv, WalkInv
  <2>2. DOMAIN Evidence' = {}
    BY <2>1 DEF Evidence
  <2>3. CASE Finish("invalid_input")
    <3>1. Verdict = "none" /\ Verdict' = "refused" /\ Verdict' \in Bounded!Verdicts
      BY <2>1, <2>3, Reports DEF StopReasons
    <3> QED
      BY <1>7, <2>1, <2>2, <3>1 DEF Bounded!Supported
  <2>4. CASE Looked /\ Ended # "none" /\ Finish(Ended)
    BY <1>8, <2>1, <2>4
  <2>5. CASE UNCHANGED result
    BY <1>3, <2>1, <2>5
  <2> QED
    BY <1>11, <2>3, <2>4, <2>5 DEF Start
<1>12. CASE FinishPath
  <2>1. phase = "chain_end" /\ ~Returned /\ Decided /\ UNCHANGED hops
        /\ Finish(IF Ended # "none" THEN Ended ELSE chain)
        /\ Looked
    BY <1>12 DEF FinishPath, Returned, report
  <2>2. Bounded!Cancelled' <=> Bounded!Cancelled
    BY <2>1 DEF Bounded!Cancelled, Evidence, HopOutcome
  <2>3. CASE Ended # "none"
    BY <1>8, <2>1, <2>3
  <2>4. CASE Ended = "none"
    <3>1. Bounded!Live
      BY <2>4, EndedContexts
    <3>2. chain \in StopReasons \ {"invalid_input", "path_timeout"} /\ Finish(chain)
      BY <2>1, <2>4, <3>1 DEF IInv, EndInv, CutInv
    <3>3. /\ Verdict = "none" /\ Verdict' \in Bounded!Verdicts \ {"refused", "timeout"}
          /\ chain = "final_response" <=> Verdict' = "completed"
          /\ chain = "cancelled" <=> Verdict' = "cancelled"
      BY <2>1, <3>2, Reports
    <3>4. CASE chain = "cancelled"
      BY <1>7, <2>1, <2>2, <3>1, <3>3, <3>4 DEF CutInv, Bounded!Supported
    <3>5. CASE chain # "cancelled"
      <4>1. ~Bounded!Cancelled'
        BY <2>1, <2>2, <3>2, <3>5 DEF CutInv, ContextReasons
      <4>2. chain = "final_response" => DOMAIN Evidence' # {}
        <5> SUFFICES ASSUME chain = "final_response" PROVE DOMAIN Evidence' # {}
          OBVIOUS
        <5>1. hops # <<>>
          BY <2>1 DEF IInv, EndInv, Explained, Sudden
        <5>2. 1 \in DOMAIN hops
          BY <5>1, HopsOfReport DEF IInv
        <5> QED
          BY <2>1, <5>2 DEF Evidence
      <4> QED
        BY <1>7, <2>1, <3>1, <3>3, <3>5, <4>1, <4>2 DEF Bounded!Supported
    <3> QED
      BY <3>4, <3>5
  <2> QED
    BY <2>3, <2>4
<1> QED
  BY <1>1, <1>2, <1>5, <1>6, <1>9, <1>10, <1>11, <1>12 DEF Next, Step

\* With any adapters, whatever the redirects and wherever the fallback, Observe is a
\* bounded observation.
THEOREM ObserveIsBounded == Spec => IsBounded
<1>1. Init => Bounded!Init /\ CutInv
  <2> SUFFICES ASSUME Init PROVE Bounded!Init /\ CutInv
    OBVIOUS
  <2>1. DOMAIN Evidence = {}
    BY DEF Init, Evidence
  <2>2. ~Bounded!Cancelled
    BY <2>1 DEF Bounded!Cancelled
  <2> QED
    BY <2>1, <2>2 DEF Init, Bounded!Init, Verdict, NoResult, CutInv, Returned
<1> QED
  BY <1>1, CutStep, BoundedStep, InvariantHolds, PTL DEF Spec, IsBounded, Bounded!Spec
=============================================================================
