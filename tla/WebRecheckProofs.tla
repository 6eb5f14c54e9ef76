--------------------------- MODULE WebRecheckProofs ---------------------------
(***************************************************************************)
(* The safety properties of webrecheck.Observe, for any candidate lists,   *)
(* any limit and any number of adapters.                                   *)
(***************************************************************************)
EXTENDS WebRecheckProperties, FiniteSetTheorems, TLAPS

-----------------------------------------------------------------------------
(***************************************************************************)
(* The schedule.                                                           *)
(***************************************************************************)
\* The bound of a list is the smaller of its length and the limit.
LEMMA BoundFacts ==
  ASSUME NEW list \in Seq(Addresses)
  PROVE  Bound(list) \in 0 .. CandidateLimit /\ Bound(list) <= Len(list)
BY LimitAssumption DEF Bound

\* The schedule has a place for every bounded candidate, and its entries are
\* candidates of the lists.
LEMMA ScheduleFacts ==
  ASSUME NEW ours \in Seq(Addresses), NEW theirs \in Seq(Addresses)
  PROVE  /\ Len(Schedule(ours, theirs)) = Bound(ours) + Bound(theirs)
         /\ Len(Schedule(ours, theirs)) \in 0 .. 2 * CandidateLimit
         /\ \A k \in 1 .. Len(Schedule(ours, theirs)) :
              /\ Schedule(ours, theirs)[k].origin \in {"local", "reference"}
              /\ Schedule(ours, theirs)[k].ip \in Addresses
<1> DEFINE a == Bound(ours)
           b == Bound(theirs)
           rounds == IF a < b THEN a ELSE b
           localTurn(k) == IF k <= 2 * rounds THEN k % 2 = 1 ELSE a > b
           place(k) == IF k <= 2 * rounds THEN (k + 1) \div 2 ELSE k - rounds
           entry(k) == IF localTurn(k) THEN [origin |-> "local", ip |-> ours[place(k)]]
                       ELSE [origin |-> "reference", ip |-> theirs[place(k)]]
<1>1. Schedule(ours, theirs) = [k \in 1 .. a + b |-> entry(k)]
  BY DEF Schedule
<1>2. a \in 0 .. CandidateLimit /\ b \in 0 .. CandidateLimit /\ a <= Len(ours) /\ b <= Len(theirs)
  BY BoundFacts
<1>3. CandidateLimit \in Nat
  BY LimitAssumption
<1>4. Len(Schedule(ours, theirs)) = a + b
  <2> HIDE DEF a, b, entry
  <2>1. a + b \in Nat
    BY <1>2, <1>3
  <2> QED
    BY <1>1, <2>1
<1>5. ASSUME NEW k \in 1 .. a + b
      PROVE  /\ localTurn(k) => place(k) \in 1 .. a
             /\ ~localTurn(k) => place(k) \in 1 .. b
  <2> HIDE DEF a, b
  <2>1. a \in Nat /\ b \in Nat /\ k \in Nat \ {0}
    BY <1>2, <1>3, <1>5
  <2>2. CASE k <= 2 * rounds
    <3>1. (k + 1) \div 2 \in 1 .. rounds
      BY <2>1, <2>2
    <3> QED
      BY <2>1, <2>2, <3>1
  <2>3. CASE ~(k <= 2 * rounds)
    BY <2>1, <2>3
  <2> QED
    BY <2>2, <2>3
<1>6. ASSUME NEW k \in 1 .. a + b
      PROVE  /\ entry(k).origin \in {"local", "reference"}
             /\ entry(k).ip \in Addresses
  <2> HIDE DEF a, b, localTurn, place
  <2>1. CASE localTurn(k)
    <3>1. place(k) \in 1 .. Len(ours)
      BY <1>2, <1>3, <1>5, <2>1
    <3> QED
      BY <2>1, <3>1
  <2>2. CASE ~localTurn(k)
    <3>1. place(k) \in 1 .. Len(theirs)
      BY <1>2, <1>3, <1>5, <2>2
    <3> QED
      BY <2>2, <3>1
  <2> QED
    BY <2>1, <2>2
<1> HIDE DEF a, b, entry
<1>7. a + b \in 0 .. 2 * CandidateLimit
  BY <1>2, <1>3
<1>8. ASSUME NEW k \in 1 .. a + b PROVE Schedule(ours, theirs)[k] = entry(k)
  BY <1>1
<1> QED
  BY <1>4, <1>6, <1>7, <1>8 DEF a, b

-----------------------------------------------------------------------------
(***************************************************************************)
(* The inductive invariant.                                                *)
(***************************************************************************)
\* What is recorded is the candidate whose turn it was.
LEMMA RecordedFacts ==
  ASSUME TypeOK, Remaining, observed \in Observations
  PROVE  /\ Recorded \in Seq(Attempts)
         /\ Len(Recorded) = Len(attempts) + 1
         /\ Len(Recorded) <= Len(Schedule(local, reference))
         /\ Len(Recorded) <= 2 * CandidateLimit
         /\ \A k \in 1 .. Len(attempts) : Recorded[k] = attempts[k]
         /\ LET k == Len(attempts) + 1
            IN  /\ Recorded[k].origin = Schedule(local, reference)[k].origin
                /\ Recorded[k].ip = Schedule(local, reference)[k].ip
                /\ Recorded[k].outcome = observed.outcome
                /\ Recorded[k].source = observed.source
<1> DEFINE plan == Schedule(local, reference)
           n == Len(attempts) + 1
           last == [origin |-> plan[n].origin, ip |-> plan[n].ip,
                    outcome |-> observed.outcome, source |-> observed.source]
<1>1. local \in Seq(Addresses) /\ reference \in Seq(Addresses) /\ attempts \in Seq(Attempts)
  BY DEF TypeOK
<1>2. CandidateLimit \in Nat
  BY LimitAssumption
<1>3. /\ Len(plan) \in 0 .. 2 * CandidateLimit
      /\ \A k \in 1 .. Len(plan) :
           plan[k].origin \in {"local", "reference"} /\ plan[k].ip \in Addresses
  BY <1>1, ScheduleFacts
<1>4. Len(attempts) \in Nat /\ Len(attempts) < Len(plan)
  BY <1>1 DEF Remaining
<1>5. n \in 1 .. Len(plan)
  BY <1>2, <1>3, <1>4
<1>6. last \in Attempts
  BY <1>3, <1>5 DEF Attempts, Observations
<1>7. Recorded = Append(attempts, last)
  BY DEF Recorded
<1> HIDE DEF last, plan
<1>8. /\ Recorded \in Seq(Attempts)
      /\ Len(Recorded) = n
      /\ \A k \in 1 .. Len(attempts) : Recorded[k] = attempts[k]
      /\ Recorded[n] = last
  BY <1>1, <1>6, <1>7
<1> QED
  BY <1>2, <1>3, <1>5, <1>8 DEF last, plan

\* Every step keeps the types.
LEMMA TypeStep == IInv /\ [Next]_vars => TypeOK'
<1> SUFFICES ASSUME IInv, [Next]_vars PROVE TypeOK'
  OBVIOUS
<1> USE LimitAssumption, CallerAssumption DEF IInv, TypeOK, input, contexts, vars
<1>0. <<>> \in Seq(Attempts) /\ Len(<<>>) = 0 /\ 0 <= 2 * CandidateLimit
  OBVIOUS
<1>1. CASE CallerEnds
  BY <1>1 DEF CallerEnds
<1>2. CASE Propagate
  BY <1>2 DEF Propagate
<1>3. CASE RecheckDeadline
  BY <1>3 DEF RecheckDeadline
<1>4. CASE Start
  <2>1. attempts' = <<>> \/ attempts' = attempts
    BY <1>4 DEF Start, Finish
  <2>2. attempts' \in Seq(Attempts) /\ Len(attempts') <= 2 * CandidateLimit
    BY <1>0, <2>1
  <2>3. /\ phase' \in {"check", "returned"} /\ glance' = "unread"
        /\ result'.status \in {"none", "completed", "stopped", "cancelled"}
        /\ result'.reason \in StopReasons \cup {"none"}
    BY <1>4 DEF Start, Finish, StatusOf, Ended, TerminalContext, GoOn, StopReasons
  <2> QED
    BY <1>4, <2>2, <2>3 DEF Start
<1>5. CASE Check
  BY <1>5 DEF Check, Finish, StatusOf, Ended, TerminalContext, GoOn, StopReasons
<1>6. CASE ObserveReturns
  BY <1>6 DEF ObserveReturns
<1>7. CASE Reject
  BY <1>7 DEF Reject, Finish, StatusOf, StopReasons
<1>8. CASE Judge
  <2>1. observed \in Observations
    BY <1>8 DEF Judge, Acceptable, Broken
  <2>2. accepted' \subseteq Adapters
    BY <1>8, <2>1 DEF Judge, Observations
  <2>3. Recorded \in Seq(Attempts) /\ Len(Recorded) <= 2 * CandidateLimit
    BY <1>8, <2>1, RecordedFacts DEF Judge, LoopInv
  <2>4. attempts' \in {attempts, Recorded}
    BY <1>8 DEF Judge, Ends, Late, GoesOn, Finish
  <2>5. attempts' \in Seq(Attempts) /\ Len(attempts') <= 2 * CandidateLimit
    BY <2>3, <2>4
  <2>6. /\ phase' \in {"check", "returned"} /\ glance' = "unread"
        /\ result'.status \in {"none", "completed", "stopped", "cancelled"}
        /\ result'.reason \in StopReasons \cup {"none"}
    BY <1>8
       DEF Judge, Ends, Late, GoesOn, Finish, StatusOf, Ended, TerminalContext, GoOn,
           StopReasons
  <2> QED
    BY <1>8, <2>2, <2>5, <2>6 DEF Judge
<1>9. CASE Final
  BY <1>9 DEF Final, Finish, StatusOf, Ended, TerminalContext, StopReasons
<1>10. CASE Done
  BY <1>10 DEF Done
<1>11. CASE Look
  BY <1>11 DEF Look
<1>12. CASE UNCHANGED vars
  BY <1>12
<1> QED
  BY <1>1, <1>2, <1>3, <1>4, <1>5, <1>6, <1>7, <1>8, <1>9, <1>10, <1>11, <1>12 DEF Next, Step

\* Every step keeps the attempts on the schedule.
LEMMA EvidenceStep == IInv /\ [Next]_vars => EvidenceInv'
<1> SUFFICES ASSUME IInv, [Next]_vars PROVE EvidenceInv'
  OBVIOUS
<1> USE DEF IInv, EvidenceInv, Returned, input, contexts, vars
<1>0. local' = local /\ reference' = reference
  BY DEF Next, Step, CallerEnds, Propagate, RecheckDeadline, Look, Start, Check, ObserveReturns,
         Reject, Judge, Final, Done
<1>1. CASE CallerEnds
  BY <1>1 DEF CallerEnds
<1>2. CASE Propagate
  BY <1>2 DEF Propagate
<1>3. CASE RecheckDeadline
  BY <1>3 DEF RecheckDeadline
<1>4. CASE Start
  <2>1. attempts = <<>> /\ attempts' = <<>>
    BY <1>4 DEF Start, Finish, LoopInv
  <2> QED
    BY <1>0, <1>4, <2>1 DEF Start
<1>5. CASE Check
  <2>1. attempts' = attempts /\ accepted' = accepted /\ phase # "returned"
    BY <1>5 DEF Check, Finish
  <2> QED
    BY <1>0, <2>1
<1>6. CASE ObserveReturns
  BY <1>6 DEF ObserveReturns
<1>7. CASE Reject
  BY <1>0, <1>7 DEF Reject, Finish
<1>8. CASE Judge
  <2>1. observed \in Observations
    BY <1>8 DEF Judge, Acceptable, Broken, TypeOK
  <2>2. accepted \subseteq {observed.source} /\ accepted' = {observed.source}
    BY <1>8 DEF Judge, Acceptable
  <2>3. attempts' \in {attempts, Recorded}
    BY <1>8 DEF Judge, Ends, Late, GoesOn, Finish
  <2>4. Remaining /\ TypeOK
    BY <1>8 DEF Judge, LoopInv
  <2>5. Len(attempts') <= Len(Schedule(local, reference))
    BY <2>1, <2>3, <2>4, RecordedFacts
  <2>6. ASSUME phase' # "returned"
        PROVE  attempts' = Recorded /\ observed.outcome # "cancelled"
    BY <1>8, <2>6 DEF Judge, Ends, Late, GoesOn, Finish
  <2>7. ASSUME phase' # "returned", NEW k \in DOMAIN attempts'
        PROVE  /\ attempts'[k].origin = Schedule(local, reference)[k].origin
               /\ attempts'[k].ip = Schedule(local, reference)[k].ip
               /\ attempts'[k].source \in accepted'
               /\ attempts'[k].outcome # "cancelled"
    <3>1. attempts' = Recorded /\ Recorded \in Seq(Attempts) /\ Len(Recorded) = Len(attempts) + 1
      BY <2>1, <2>4, <2>6, <2>7, RecordedFacts
    <3>2. attempts \in Seq(Attempts)
      BY <2>4 DEF TypeOK
    <3>3. k \in 1 .. Len(attempts) + 1 /\ Len(attempts) \in Nat
      BY <2>7, <3>1, <3>2
    <3>4. CASE k = Len(attempts) + 1
      BY <2>1, <2>2, <2>4, <2>6, <2>7, <3>1, <3>4, RecordedFacts
    <3>5. CASE k # Len(attempts) + 1
      <4>1. k \in 1 .. Len(attempts) /\ k \in DOMAIN attempts
        BY <3>2, <3>3, <3>5
      <4>2. attempts'[k] = attempts[k]
        BY <2>1, <2>4, <3>1, <4>1, RecordedFacts
      <4>3. phase = "judge"
        BY <1>8 DEF Judge
      <4> QED
        BY <2>2, <4>1, <4>2, <4>3
    <3> QED
      BY <3>4, <3>5
  <2> QED
    BY <1>0, <2>2, <2>5, <2>7
<1>9. CASE Final
  BY <1>0, <1>9 DEF Final, Finish
<1>10. CASE Done
  BY <1>10 DEF Done
<1>11. CASE Look
  BY <1>11 DEF Look
<1>12. CASE UNCHANGED vars
  BY <1>12
<1> QED
  BY <1>1, <1>2, <1>3, <1>4, <1>5, <1>6, <1>7, <1>8, <1>9, <1>10, <1>11, <1>12 DEF Next, Step

\* Every step keeps what Observe knows of the request and of what is left of it.
LEMMA LoopStep == IInv /\ [Next]_vars => LoopInv'
<1> SUFFICES ASSUME IInv, [Next]_vars PROVE LoopInv'
  OBVIOUS
<1> USE DEF IInv, LoopInv, Live, Remaining, Refused, input, contexts, vars
<1>1. CASE CallerEnds
  BY <1>1 DEF CallerEnds
<1>2. CASE Propagate
  BY <1>2 DEF Propagate
<1>3. CASE RecheckDeadline
  BY <1>3 DEF RecheckDeadline
<1>4. CASE Start
  BY <1>4 DEF Start, Finish, GoOn
<1>5. CASE Check
  BY <1>5 DEF Check, Finish, GoOn
<1>6. CASE ObserveReturns
  BY <1>6 DEF ObserveReturns
<1>7. CASE Reject
  BY <1>7 DEF Reject, Finish
<1>8. CASE Judge
  BY <1>8 DEF Judge, Ends, Late, GoesOn, Finish, GoOn
<1>9. CASE Final
  BY <1>9 DEF Final, Finish
<1>10. CASE Done
  BY <1>10 DEF Done
<1>11. CASE Look
  BY <1>11 DEF Look
<1>12. CASE UNCHANGED vars
  BY <1>12
<1> QED
  BY <1>1, <1>2, <1>3, <1>4, <1>5, <1>6, <1>7, <1>8, <1>9, <1>10, <1>11, <1>12 DEF Next, Step

\* Cancellation comes from the caller, and reaches the adapter through the recheck.
LEMMA CancellationStep == IInv /\ [Next]_vars => ContextInv' /\ AdapterInv'
<1> SUFFICES ASSUME IInv, [Next]_vars PROVE ContextInv' /\ AdapterInv'
  OBVIOUS
<1> USE DEF IInv, TypeOK, ContextInv, AdapterInv, Looked, input, contexts, vars
<1>1. CASE CallerEnds
  BY <1>1 DEF CallerEnds
<1>2. CASE Propagate
  BY <1>2 DEF Propagate
<1>3. CASE RecheckDeadline
  BY <1>3 DEF RecheckDeadline
<1>4. CASE Start
  BY <1>4 DEF Start, Finish, GoOn
<1>5. CASE Check
  BY <1>5 DEF Check, Finish, GoOn
<1>6. CASE ObserveReturns
  BY <1>6 DEF ObserveReturns
<1>7. CASE Reject
  BY <1>7 DEF Reject, Finish
<1>8. CASE Judge
  BY <1>8 DEF Judge, Ends, Late, GoesOn, Finish, GoOn
<1>9. CASE Final
  BY <1>9 DEF Final, Finish
<1>10. CASE Done
  BY <1>10 DEF Done
<1>11. CASE Look
  BY <1>11 DEF Look, Looks
<1>12. CASE UNCHANGED vars
  BY <1>12
<1> QED
  BY <1>1, <1>2, <1>3, <1>4, <1>5, <1>6, <1>7, <1>8, <1>9, <1>10, <1>11, <1>12 DEF Next, Step

\* The invariant holds with any adapter.
THEOREM InvariantHolds == Spec => []IInv
<1>1. Init => IInv
  BY LimitAssumption, ListAssumption, CallerAssumption, HostnameAssumption, ScheduleFacts
     DEF Init, IInv, TypeOK, ContextInv, LoopInv, EvidenceInv, AdapterInv, Live, Returned,
         Looked, Broken, NoResult
<1>2. IInv /\ [Next]_vars => IInv'
  BY TypeStep, EvidenceStep, LoopStep, CancellationStep DEF IInv
<1> QED
  BY <1>1, <1>2, PTL DEF Spec

\* The variables of Observe keep their types with any adapter.
THEOREM TypeCorrect == Spec => []TypeOK
<1>1. IInv => TypeOK
  BY DEF IInv
<1> QED
  BY <1>1, InvariantHolds, PTL

-----------------------------------------------------------------------------
(***************************************************************************)
(* The result.                                                             *)
(***************************************************************************)
\* What evidence a reason may come with.
Supports(evidence, reason) ==
  /\ Len(evidence) <= Len(Schedule(local, reference))
  /\ \A k \in DOMAIN evidence :
       /\ evidence[k].origin = Schedule(local, reference)[k].origin
       /\ evidence[k].ip = Schedule(local, reference)[k].ip
       /\ evidence[k].source = evidence[1].source
       /\ evidence[k].outcome = "cancelled" => reason = "cancelled" /\ k = Len(evidence)
  /\ reason = "none" => Len(evidence) = Len(Schedule(local, reference))
  /\ reason = "invalid_probe_evidence" => Len(evidence) < Len(Schedule(local, reference))

\* Whatever Observe returns is valid if its evidence supports its reason.
LEMMA FinishIsValid ==
  ASSUME NEW reason \in {"none", "cancelled", "recheck_timeout", "invalid_probe_evidence"},
         NEW evidence, Supports(evidence, reason),
         Finish(reason, evidence), UNCHANGED input, ~Refused
  PROVE  EmittedResultValid'
<1>1. local' = local /\ reference' = reference /\ hostname' = hostname
  BY DEF input
<1>2. /\ result'.reason = reason
      /\ result'.attempts = evidence
      /\ result'.status = StatusOf(reason)
      /\ result'.localOmitted = Omitted(local)
      /\ result'.referenceOmitted = Omitted(reference)
  BY DEF Finish
<1>3. ValidShape'
  BY <1>2 DEF ValidShape, StatusOf
<1>4. ValidAttempts'
  BY <1>1, <1>2 DEF ValidAttempts, Supports, StatusOf
<1> QED
  BY <1>1, <1>2, <1>3, <1>4
     DEF EmittedResultValid, ValidResult, ValidConclusion, Refused, BadRequest

\* In the loop the attempts support every reason but completion.
LEMMA AttemptsSupport ==
  ASSUME IInv, ~Returned, NEW reason \in {"cancelled", "recheck_timeout"}
  PROVE  Supports(attempts, reason)
<1>1. attempts \in Seq(Attempts)
  BY DEF IInv, TypeOK
<1>2. ASSUME NEW k \in DOMAIN attempts PROVE attempts[k].source = attempts[1].source
  <2>1. 1 \in DOMAIN attempts
    BY <1>1, <1>2
  <2> QED
    BY <1>2, <2>1 DEF IInv, EvidenceInv
<1> QED
  BY <1>2 DEF IInv, EvidenceInv, Supports

\* In judgement so does what is recorded; a cancelled observation supports only
\* a cancelled recheck.
LEMMA RecordedSupports ==
  ASSUME IInv, phase = "judge", Acceptable, NEW reason \in {"cancelled", "recheck_timeout"},
         observed.outcome = "cancelled" => reason = "cancelled"
  PROVE  Supports(Recorded, reason)
<1> DEFINE n == Len(attempts) + 1
<1>1. TypeOK /\ Remaining /\ observed \in Observations
  BY DEF IInv, LoopInv, TypeOK, Acceptable, Broken
<1>2. /\ Recorded \in Seq(Attempts)
      /\ Len(Recorded) = n
      /\ Len(Recorded) <= Len(Schedule(local, reference))
      /\ \A k \in 1 .. Len(attempts) : Recorded[k] = attempts[k]
      /\ Recorded[n].origin = Schedule(local, reference)[n].origin
      /\ Recorded[n].ip = Schedule(local, reference)[n].ip
      /\ Recorded[n].outcome = observed.outcome
      /\ Recorded[n].source = observed.source
  BY <1>1, RecordedFacts
<1>3. attempts \in Seq(Attempts)
  BY <1>1 DEF TypeOK
<1>4. DOMAIN Recorded = 1 .. n /\ Len(attempts) \in Nat
  BY <1>2, <1>3
<1>5. ASSUME NEW k \in 1 .. Len(attempts)
      PROVE  /\ Recorded[k].origin = Schedule(local, reference)[k].origin
             /\ Recorded[k].ip = Schedule(local, reference)[k].ip
             /\ Recorded[k].source = observed.source
             /\ Recorded[k].outcome # "cancelled"
  <2>1. k \in DOMAIN attempts /\ Recorded[k] = attempts[k]
    BY <1>2, <1>3, <1>5
  <2> QED
    BY <2>1 DEF IInv, EvidenceInv, Returned, Acceptable
<1>6. ASSUME NEW k \in 1 .. n
      PROVE  /\ Recorded[k].origin = Schedule(local, reference)[k].origin
             /\ Recorded[k].ip = Schedule(local, reference)[k].ip
             /\ Recorded[k].source = observed.source
             /\ Recorded[k].outcome = "cancelled" => reason = "cancelled" /\ k = n
  <2>1. CASE k = n
    BY <1>2, <2>1
  <2>2. CASE k # n
    BY <1>4, <1>5, <1>6, <2>2
  <2> QED
    BY <2>1, <2>2
<1>7. 1 \in 1 .. n
  BY <1>4
<1> QED
  BY <1>2, <1>4, <1>6, <1>7 DEF Supports

\* With the adapter of New a step that returns leaves a valid result, unless the
\* hostname that it keeps is another one than it refused.
LEMMA ValidStep ==
  ~AnyAdapter /\ hostname # "unstable" /\ IInv /\ EmittedResultValid /\ [Next]_vars
    => EmittedResultValid'
<1> SUFFICES ASSUME ~AnyAdapter, hostname # "unstable", IInv, EmittedResultValid, [Next]_vars
             PROVE  EmittedResultValid'
  OBVIOUS
<1>1. CASE phase' # "returned"
  BY <1>1 DEF EmittedResultValid, Returned
<1>2. CASE Start /\ Refused /\ Finish("invalid_input", <<>>)
  BY <1>2 DEF Start, input, Finish, StatusOf, EmittedResultValid, ValidResult, Refused
<1>3. CASE Start /\ Finish(Ended, <<>>) /\ ~Refused /\ Ended # "none"
  <2>1. Ended \in {"cancelled", "recheck_timeout"}
    BY <1>3 DEF Ended, TerminalContext
  <2>2. attempts = <<>> /\ ~Returned
    BY <1>3 DEF Start, IInv, LoopInv, Returned
  <2>3. Supports(<<>>, Ended)
    BY <2>1, <2>2, AttemptsSupport
  <2> QED
    BY <1>3, <2>1, <2>3, FinishIsValid DEF Start
<1>4. CASE Check /\ Finish(Ended, attempts) /\ Ended # "none"
  <2>1. Ended \in {"cancelled", "recheck_timeout"}
    BY <1>4 DEF Ended, TerminalContext
  <2>2. Supports(attempts, Ended) /\ ~Refused
    BY <1>4, <2>1, AttemptsSupport DEF Check, Returned, IInv, LoopInv, Live
  <2> QED
    BY <1>4, <2>1, <2>2, FinishIsValid DEF Check
<1>5. CASE Reject
  <2>1. Supports(attempts, "cancelled") /\ ~Refused
    BY <1>5, AttemptsSupport DEF Reject, Returned, IInv, LoopInv, Live
  <2>2. Len(attempts) < Len(Schedule(local, reference))
    BY <1>5 DEF Reject, IInv, LoopInv, Remaining
  <2>3. \A k \in DOMAIN attempts : attempts[k].outcome # "cancelled"
    BY <1>5 DEF Reject, Returned, IInv, EvidenceInv
  <2>4. Supports(attempts, "invalid_probe_evidence")
    BY <2>1, <2>2, <2>3 DEF Supports
  <2> QED
    BY <1>5, <2>1, <2>4, FinishIsValid DEF Reject
<1>6. CASE Judge /\ phase' = "returned"
  <2>1. ~Returned /\ ~Refused /\ phase = "judge" /\ Acceptable
    BY <1>6 DEF Judge, Returned, IInv, LoopInv, Live
  <2>2. ASSUME observed.outcome = "cancelled" PROVE Ended = "cancelled"
    BY <1>6, <2>1, <2>2
       DEF IInv, TypeOK, Judge, AdapterInv, ContextInv, Looked, Ended, TerminalContext
  <2>3. Ended \in {"none", "cancelled", "recheck_timeout"}
    BY DEF Ended, TerminalContext
  <2>4. CASE Ended # "none" /\ observed.outcome = "succeeded"
    <3>1. Finish(Ended, attempts) /\ UNCHANGED input
      BY <1>6, <2>4 DEF Judge, Ends, Late, GoesOn
    <3>2. Supports(attempts, Ended)
      BY <2>1, <2>3, <2>4, AttemptsSupport
    <3> QED
      BY <2>1, <2>3, <3>1, <3>2, FinishIsValid
  <2>5. CASE Ended # "none" /\ observed.outcome # "succeeded"
    <3>1. Finish(Ended, Recorded) /\ UNCHANGED input
      BY <1>6, <2>5 DEF Judge, Ends, Late, GoesOn
    <3>2. Supports(Recorded, Ended)
      BY <2>1, <2>2, <2>3, <2>5, RecordedSupports
    <3> QED
      BY <2>1, <2>3, <3>1, <3>2, FinishIsValid
  <2>6. CASE Ended = "none"
    BY <1>6, <2>2, <2>6 DEF Judge, Ends, Late, GoesOn, GoOn
  <2> QED
    BY <2>4, <2>5, <2>6
<1>7. CASE Final
  <2>1. Ended \in {"none", "cancelled", "recheck_timeout"}
    BY DEF Ended, TerminalContext
  <2>2. Supports(attempts, "cancelled") /\ ~Refused
    BY <1>7, AttemptsSupport DEF Final, Returned, IInv, LoopInv, Live
  <2>3. /\ ~(Len(attempts) < Len(Schedule(local, reference)))
        /\ \A k \in DOMAIN attempts : attempts[k].outcome # "cancelled"
    BY <1>7 DEF Final, Returned, IInv, LoopInv, EvidenceInv, Remaining
  <2>4. Len(attempts) \in Nat /\ Len(Schedule(local, reference)) \in Nat
    BY ScheduleFacts, LimitAssumption DEF IInv, TypeOK
  <2>5. Supports(attempts, Ended)
    BY <2>1, <2>2, <2>3, <2>4 DEF Supports
  <2> QED
    BY <1>7, <2>1, <2>2, <2>5, FinishIsValid DEF Final
<1>8. CASE UNCHANGED vars
  BY <1>8 DEF vars, input, contexts, EmittedResultValid, Returned, ValidResult, Refused,
              ValidConclusion, ValidShape, ValidAttempts
<1> QED
  BY <1>1, <1>2, <1>3, <1>4, <1>5, <1>6, <1>7, <1>8
     DEF Next, Step, Done, CallerEnds, Propagate, RecheckDeadline, Look, Looks, Start, Check,
         ObserveReturns, GoOn, Returned, Live

\* With the adapter of New every Result satisfies the package's Validate, if no
\* hostname is asked for that is refused although what is kept of it is not: such a
\* Result is refused, as commandline_hostname shows.
THEOREM ResultIsValid ==
  ~AnyAdapter /\ "unstable" \notin Hostnames => (Spec => []EmittedResultValid)
<1> SUFFICES ASSUME ~AnyAdapter, "unstable" \notin Hostnames PROVE Spec => []EmittedResultValid
  OBVIOUS
<1> DEFINE Kept == hostname # "unstable"
<1>1. Init => EmittedResultValid /\ Kept
  BY DEF Init, EmittedResultValid, Returned
<1>2. Kept /\ [Next]_vars => Kept'
  BY DEF Next, Step, Done, CallerEnds, Propagate, RecheckDeadline, Look, Start, Check,
         ObserveReturns, Reject, Judge, Final, vars, input
<1>3. Kept /\ IInv /\ EmittedResultValid /\ [Next]_vars => EmittedResultValid'
  BY ValidStep
<1> QED
  BY <1>1, <1>2, <1>3, InvariantHolds, PTL DEF Spec

\* With any adapter no success is recorded once the recheck's context has ended.
THEOREM LateSuccessIsDropped == Spec => NoLateSuccess
<1>1. ASSUME IInv, Next, NEW k \in DOMAIN attempts' \ DOMAIN attempts,
             attempts'[k].outcome = "succeeded"
      PROVE  recheckErr = "active"
  <2>1. attempts \in Seq(Attempts)
    BY <1>1 DEF IInv, TypeOK
  <2>2. Judge
    <3>1. attempts' # attempts /\ attempts' # <<>>
      BY <1>1, <2>1
    <3> QED
      BY <1>1, <3>1 DEF Next, Step, Done, CallerEnds, Propagate, RecheckDeadline, Look, Start,
         Check, ObserveReturns, Reject, Final, Finish, vars
  <2>3. observed \in Observations /\ Remaining /\ TypeOK
    BY <1>1, <2>2 DEF Judge, Acceptable, IInv, LoopInv, TypeOK, Broken
  <2>4. attempts' = Recorded
    BY <1>1, <2>2 DEF Judge, Ends, Late, GoesOn, Finish
  <2>5. k = Len(attempts) + 1
    BY <1>1, <2>1, <2>3, <2>4, RecordedFacts
  <2>6. observed.outcome = "succeeded"
    BY <1>1, <2>3, <2>4, <2>5, RecordedFacts
  <2>7. attempts # Recorded
    BY <1>1, <2>4
  <2>8. Ended = "none"
    BY <2>2, <2>4, <2>6, <2>7 DEF Judge, Ends, Late, GoesOn, Finish
  <2> QED
    BY <2>2, <2>3, <2>8 DEF Judge, Ended, TerminalContext, TypeOK
<1>2. IInv /\ [Next]_vars =>
        [\A k \in DOMAIN attempts' \ DOMAIN attempts :
           attempts'[k].outcome = "succeeded" => recheckErr = "active"]_vars
  BY <1>1
<1> QED
  BY <1>2, InvariantHolds, PTL DEF Spec, NoLateSuccess
-----------------------------------------------------------------------------
(***************************************************************************)
(* The alternation.                                                        *)
(***************************************************************************)
\* How many of the first n places of the schedule are the local list's.
LocalTurns(n) ==
  LET a == Bound(local)
      b == Bound(reference)
      rounds == IF a < b THEN a ELSE b
  IN  IF n <= 2 * rounds THEN (n + 1) \div 2 ELSE IF a > b THEN n - rounds ELSE rounds

\* Each list was tried as often as it had a turn.
TurnsInv ==
  /\ IsFiniteSet(Tried("local")) /\ IsFiniteSet(Tried("reference"))
  /\ Cardinality(Tried("local")) = LocalTurns(Len(attempts))
  /\ Cardinality(Tried("reference")) = Len(attempts) - LocalTurns(Len(attempts))

\* A place of the schedule adds a turn of its own list, and none of the other.
LEMMA NextTurn ==
  ASSUME TypeOK, Remaining
  PROVE  LET n == Len(attempts)
             origin == Schedule(local, reference)[n + 1].origin
         IN  /\ LocalTurns(n) \in Nat
             /\ origin = "local" => LocalTurns(n + 1) = LocalTurns(n) + 1
             /\ origin # "local" => origin = "reference" /\ LocalTurns(n + 1) = LocalTurns(n)
<1> DEFINE n == Len(attempts)
           a == Bound(local)
           b == Bound(reference)
           rounds == IF a < b THEN a ELSE b
           localTurn(k) == IF k <= 2 * rounds THEN k % 2 = 1 ELSE a > b
           place(k) == IF k <= 2 * rounds THEN (k + 1) \div 2 ELSE k - rounds
           entry(k) == IF localTurn(k) THEN [origin |-> "local", ip |-> local[place(k)]]
                       ELSE [origin |-> "reference", ip |-> reference[place(k)]]
           turns(k) == IF k <= 2 * rounds THEN (k + 1) \div 2
                       ELSE IF a > b THEN k - rounds ELSE rounds
<1>1. Schedule(local, reference) = [k \in 1 .. a + b |-> entry(k)]
  BY DEF Schedule
<1>2. a \in Nat /\ b \in Nat
  BY LimitAssumption, BoundFacts DEF TypeOK
<1>3. n \in Nat /\ n + 1 \in 1 .. a + b
  BY <1>2, ScheduleFacts DEF TypeOK, Remaining
<1>4. /\ localTurn(n + 1) => turns(n + 1) = turns(n) + 1
      /\ ~localTurn(n + 1) => turns(n + 1) = turns(n)
      /\ turns(n) \in Nat
  <2> HIDE DEF a, b, n
  <2>1. CASE n + 1 <= 2 * rounds
    BY <1>2, <1>3, <2>1
  <2>2. CASE n = 2 * rounds
    BY <1>2, <1>3, <2>2
  <2>3. CASE n > 2 * rounds
    BY <1>2, <1>3, <2>3
  <2>4. 2 * rounds \in Nat
    BY <1>2
  <2> QED
    BY <1>3, <2>1, <2>2, <2>3, <2>4
<1>5. LocalTurns(n) = turns(n) /\ LocalTurns(n + 1) = turns(n + 1)
  BY DEF LocalTurns
<1>6. Schedule(local, reference)[n + 1] = entry(n + 1)
  <2> HIDE DEF a, b, n, entry
  <2> QED
    BY <1>1, <1>3
<1> HIDE DEF a, b, n, turns, localTurn, place
<1>7. /\ entry(n + 1).origin = "local" => localTurn(n + 1)
      /\ entry(n + 1).origin # "local" =>
           entry(n + 1).origin = "reference" /\ ~localTurn(n + 1)
  OBVIOUS
<1> QED
  BY <1>4, <1>5, <1>6, <1>7 DEF n

\* A recorded attempt counts for the list whose turn it was.
LEMMA RecordedCounts ==
  ASSUME TypeOK, Remaining, observed \in Observations, TurnsInv,
         UNCHANGED input, attempts' = Recorded
  PROVE  TurnsInv'
<1> DEFINE n == Len(attempts)
           turn == Schedule(local, reference)[n + 1].origin
<1>1. /\ Recorded \in Seq(Attempts) /\ Len(Recorded) = n + 1
      /\ \A k \in 1 .. n : Recorded[k] = attempts[k]
      /\ Recorded[n + 1].origin = turn
  BY RecordedFacts
<1>2. attempts \in Seq(Attempts) /\ n \in Nat
  BY DEF TypeOK
<1>3. DOMAIN attempts = 1 .. n /\ DOMAIN attempts' = 1 .. n + 1
  BY <1>1, <1>2
<1> HIDE DEF n, turn
<1>4. ASSUME NEW origin
      PROVE  /\ turn = origin => Tried(origin)' = Tried(origin) \cup {n + 1}
             /\ turn # origin => Tried(origin)' = Tried(origin)
             /\ n + 1 \notin Tried(origin)
  <2>1. Tried(origin)' = {k \in 1 .. n + 1 : attempts'[k].origin = origin}
    BY <1>3 DEF Tried
  <2>2. Tried(origin) = {k \in 1 .. n : attempts[k].origin = origin}
    BY <1>3 DEF Tried
  <2>3. /\ \A k \in 1 .. n : attempts'[k] = attempts[k]
        /\ attempts'[n + 1].origin = turn
    BY <1>1
  <2> QED
    BY <1>2, <2>1, <2>2, <2>3
<1>5. Len(attempts)' = n + 1
  BY <1>1
<1>6. ASSUME NEW origin, IsFiniteSet(Tried(origin))
      PROVE  /\ IsFiniteSet(Tried(origin)')
             /\ turn = origin => Cardinality(Tried(origin)') = Cardinality(Tried(origin)) + 1
             /\ turn # origin => Cardinality(Tried(origin)') = Cardinality(Tried(origin))
  <2>1. CASE turn = origin
    BY <1>4, <1>6, <2>1, FS_AddElement
  <2>2. CASE turn # origin
    BY <1>4, <1>6, <2>2
  <2> QED
    BY <2>1, <2>2
<1>7. /\ LocalTurns(n) \in Nat
      /\ turn = "local" => LocalTurns(n + 1) = LocalTurns(n) + 1
      /\ turn # "local" => turn = "reference" /\ LocalTurns(n + 1) = LocalTurns(n)
  BY NextTurn DEF n, turn
<1>8. LocalTurns(Len(attempts))' = LocalTurns(n + 1)
  BY <1>5 DEF LocalTurns, Bound, input
<1>9. /\ IsFiniteSet(Tried("local")) /\ IsFiniteSet(Tried("reference"))
      /\ Cardinality(Tried("local")) = LocalTurns(n)
      /\ Cardinality(Tried("reference")) = n - LocalTurns(n)
  BY DEF TurnsInv, n
<1>10. /\ IsFiniteSet(Tried("local")') /\ IsFiniteSet(Tried("reference")')
       /\ Cardinality(Tried("local")') = LocalTurns(n + 1)
       /\ Cardinality(Tried("reference")') = n + 1 - LocalTurns(n + 1)
  <2>1. CASE turn = "local"
    BY <1>2, <1>6, <1>7, <1>9, <2>1
  <2>2. CASE turn # "local"
    BY <1>2, <1>6, <1>7, <1>9, <2>2
  <2> QED
    BY <2>1, <2>2
<1> QED
  BY <1>2, <1>5, <1>7, <1>8, <1>10 DEF TurnsInv

\* Every step keeps the count, which only Judge changes.
LEMMA TurnsStep == IInv /\ TurnsInv /\ [Next]_vars => TurnsInv'
<1> SUFFICES ASSUME IInv, TurnsInv, [Next]_vars PROVE TurnsInv'
  OBVIOUS
<1>1. UNCHANGED input
  BY DEF Next, Step, CallerEnds, Propagate, RecheckDeadline, Look, Start, Check, ObserveReturns,
         Reject, Judge, Final, Done, vars, input
<1>2. CASE attempts' = attempts
  BY <1>1, <1>2 DEF TurnsInv, Tried, LocalTurns, Bound, input
<1>3. CASE attempts' # attempts
  <2>1. Judge
    <3>1. ~Start
      BY <1>3 DEF Start, Finish, GoOn, IInv, LoopInv
    <3> QED
      BY <1>3, <3>1 DEF Next, Step, Done, CallerEnds, Propagate, RecheckDeadline, Look, Check,
         ObserveReturns, Reject, Final, Finish, GoOn, vars
  <2>2. observed \in Observations /\ Remaining /\ TypeOK
    BY <2>1 DEF Judge, Acceptable, IInv, LoopInv, TypeOK, Broken
  <2>3. attempts' = Recorded
    BY <1>3, <2>1 DEF Judge, Ends, Late, GoesOn, Finish
  <2> QED
    BY <1>1, <2>2, <2>3, RecordedCounts
<1> QED
  BY <1>2, <1>3

\* With any adapter, neither list is tried more than once ahead of the other unless
\* the other is used up.
THEOREM SourcesAreBalanced == Spec => []Balanced
<1>1. Init => TurnsInv
  <2> SUFFICES ASSUME Init PROVE TurnsInv
    OBVIOUS
  <2>1. Tried("local") = {} /\ Tried("reference") = {} /\ Len(attempts) = 0
    BY DEF Init, Tried
  <2>2. Bound(local) \in Nat /\ Bound(reference) \in Nat
    BY ListAssumption, LimitAssumption, BoundFacts DEF Init
  <2>3. LocalTurns(0) = 0
    BY <2>2 DEF LocalTurns
  <2>4. LocalTurns(Len(attempts)) = 0
    BY <2>1, <2>3
  <2>5. /\ IsFiniteSet(Tried("local")) /\ Cardinality(Tried("local")) = 0
        /\ IsFiniteSet(Tried("reference")) /\ Cardinality(Tried("reference")) = 0
    BY <2>1, FS_EmptySet
  <2> QED
    BY <2>1, <2>4, <2>5 DEF TurnsInv
<1>2. IInv /\ TurnsInv => Balanced
  <2> SUFFICES ASSUME IInv, TurnsInv PROVE Balanced
    OBVIOUS
  <2> DEFINE n == Len(attempts)
             a == Bound(local)
             b == Bound(reference)
  <2>1. a \in Nat /\ b \in Nat /\ n \in Nat /\ n <= a + b
    BY LimitAssumption, BoundFacts, ScheduleFacts DEF IInv, TypeOK, EvidenceInv
  <2>2. LET rounds == IF a < b THEN a ELSE b
            turns == IF n <= 2 * rounds THEN (n + 1) \div 2
                     ELSE IF a > b THEN n - rounds ELSE rounds
        IN  /\ turns <= n - turns + 1 \/ n - turns = b
            /\ n - turns <= turns \/ turns = a
    <3> HIDE DEF n, a, b
    <3> QED
      BY <2>1
  <2> QED
    BY <2>2 DEF Balanced, TurnsInv, LocalTurns
<1> QED
  BY <1>1, <1>2, TurnsStep, InvariantHolds, PTL DEF Spec
-----------------------------------------------------------------------------
(***************************************************************************)
(* The refinement.                                                         *)
(***************************************************************************)
\* There is no Result before Observe returns.
VerdictInv == ~Returned => result.status = "none"

\* What is under judgement, recorded in time, takes the next place of the evidence.
LEMMA RecordsEvidence ==
  ASSUME IInv, phase = "judge", Acceptable, attempts' = Recorded,
         observed.outcome = "succeeded" => Ended = "none"
  PROVE  observed.outcome \in Bounded!Outcomes /\ Bounded!Record(observed.outcome)
<1> DEFINE n == Len(attempts) + 1
<1>1. observed \in Observations /\ Remaining /\ TypeOK
  BY DEF Acceptable, IInv, LoopInv, TypeOK, Broken
<1>2. attempts \in Seq(Attempts) /\ Len(attempts) \in Nat
  BY <1>1 DEF TypeOK
<1>3. /\ Recorded \in Seq(Attempts) /\ Len(Recorded) = n
      /\ \A k \in 1 .. Len(attempts) : Recorded[k] = attempts[k]
      /\ Recorded[n].outcome = observed.outcome
  BY <1>1, RecordedFacts
<1>4. /\ DOMAIN Evidence = 1 .. Len(attempts)
      /\ \A k \in 1 .. Len(attempts) : Evidence[k] = attempts[k].outcome
  BY <1>2 DEF Evidence
<1>5. Evidence' = [k \in 1 .. n |-> Recorded[k].outcome]
  BY <1>3 DEF Evidence
<1>6. DOMAIN Evidence' = 1 .. n
  BY <1>5
<1>7. ~Bounded!Cancelled
  <2>1. \A k \in DOMAIN attempts : attempts[k].outcome # "cancelled"
    BY DEF IInv, EvidenceInv, Returned
  <2> QED
    BY <1>2, <1>4, <2>1 DEF Bounded!Cancelled
<1>8. /\ observed.outcome = "succeeded" => Bounded!Live
      /\ observed.outcome = "cancelled" => AnyAdapter \/ recheckErr = "canceled"
  BY DEF Bounded!Live, IInv, TypeOK, AdapterInv, Ended, TerminalContext
<1>9. n \in DOMAIN Evidence' \ DOMAIN Evidence
  BY <1>2, <1>4, <1>6
<1>10. Evidence' = [k \in DOMAIN Evidence \cup {n} |->
                      IF k = n THEN observed.outcome ELSE Evidence[k]]
  <2>1. DOMAIN Evidence \cup {n} = 1 .. n
    BY <1>2, <1>4
  <2>2. \A k \in 1 .. n : Recorded[k].outcome =
                            IF k = n THEN observed.outcome ELSE Evidence[k]
    BY <1>2, <1>3, <1>4
  <2> HIDE DEF n
  <2> QED
    BY <1>5, <2>1, <2>2
<1>11. observed.outcome \in Bounded!Outcomes
  BY <1>1 DEF Observations, Outcomes, Bounded!Outcomes
<1> QED
  BY <1>7, <1>8, <1>9, <1>10, <1>11 DEF Bounded!Record

\* Every step of Observe is one of a bounded observation, or changes nothing of it.
LEMMA BoundedStep ==
  IInv /\ VerdictInv /\ [Next]_vars => [Bounded!Next]_(Bounded!vars)
<1> SUFFICES ASSUME IInv, VerdictInv, [Next]_vars PROVE [Bounded!Next]_(Bounded!vars)
  OBVIOUS
<1> USE DEF Bounded!vars
<1>1. CASE CallerEnds
  <2>1. Evidence' = Evidence /\ Verdict' = Verdict
    BY <1>1 DEF CallerEnds, Evidence, Verdict
  <2> QED
    BY <1>1, <2>1 DEF CallerEnds, Bounded!Next, Bounded!CallerEnds
<1>2. CASE Propagate \/ RecheckDeadline
  <2>1. Evidence' = Evidence /\ Verdict' = Verdict
    BY <1>2 DEF Propagate, RecheckDeadline, Evidence, Verdict
  <2>2. Bounded!OwnEnds
    BY <1>2, <2>1 DEF Propagate, RecheckDeadline, Bounded!OwnEnds
  <2> QED
    BY <2>2 DEF Bounded!Next
<1>3. CASE UNCHANGED <<contexts, glance, attempts, result>>
  BY <1>3 DEF contexts, Evidence, Verdict
<1>4. ASSUME ~Returned, NEW reason \in StopReasons \cup {"none"}, NEW evidence,
             Finish(reason, evidence)
      PROVE  /\ Verdict = "none" /\ Verdict' \in Bounded!Verdicts
             /\ reason = "none" => Verdict' = "completed"
             /\ reason = "invalid_input" => Verdict' = "refused"
             /\ reason = "recheck_timeout" => Verdict' = "timeout"
             /\ reason = "cancelled" => Verdict' = "cancelled"
             /\ reason = "invalid_probe_evidence" => Verdict' = "broken"
  BY <1>4 DEF VerdictInv, Verdict, Finish, StatusOf, StopReasons, Bounded!Verdicts
<1>5. Ended \in {"none", "cancelled", "recheck_timeout"}
  BY DEF Ended, TerminalContext
<1>6. ASSUME Looked
      PROVE  /\ Ended = "none" => callerErr = "active" /\ (phase # "start" => recheckErr = "active")
             /\ Ended = "cancelled" => callerErr = "canceled"
             /\ Ended = "recheck_timeout" =>
                  glance = "not_canceled" /\ (callerErr # "active" \/ recheckErr = "deadline")
  BY <1>6 DEF Looked, Ended, TerminalContext, IInv, TypeOK, ContextInv
<1>7. ASSUME ~Returned, UNCHANGED attempts
      PROVE  UNCHANGED Evidence /\ ~Bounded!Cancelled'
  <2>1. \A k \in DOMAIN attempts : attempts[k].outcome # "cancelled"
    BY <1>7 DEF IInv, EvidenceInv
  <2>2. UNCHANGED Evidence
    BY <1>7 DEF Evidence
  <2> QED
    BY <2>1, <2>2 DEF Evidence, Bounded!Cancelled
<1>8. ASSUME UNCHANGED contexts, glance' = "unread", Verdict = "none",
             Verdict' \in Bounded!Verdicts,
             \/ UNCHANGED Evidence
             \/ \E outcome \in Bounded!Outcomes : Bounded!Record(outcome),
             Bounded!Supported(Verdict')
      PROVE  Bounded!Next
  BY <1>8 DEF contexts, Bounded!Evidenced, Bounded!Report, Bounded!Next
<1>9. ASSUME ~Returned, UNCHANGED <<contexts, attempts>>, Looked, Ended # "none",
             Finish(Ended, attempts)
      PROVE  Bounded!Next
  <2>1. glance' = "unread"
    BY <1>9 DEF Finish
  <2>2. CASE Ended = "cancelled"
    <3>1. Verdict = "none" /\ Verdict' = "cancelled" /\ Verdict' \in Bounded!Verdicts
      BY <1>4, <1>9, <2>2 DEF StopReasons
    <3> QED
      BY <1>6, <1>7, <1>8, <1>9, <2>1, <2>2, <3>1 DEF Bounded!Supported
  <2>3. CASE Ended = "recheck_timeout"
    <3>1. Verdict = "none" /\ Verdict' = "timeout" /\ Verdict' \in Bounded!Verdicts
      BY <1>4, <1>9, <2>3 DEF StopReasons
    <3> QED
      BY <1>6, <1>7, <1>8, <1>9, <2>1, <2>3, <3>1 DEF Bounded!Supported
  <2> QED
    BY <1>5, <1>9, <2>2, <2>3
<1>10. CASE Start /\ phase' = "returned"
  <2>1. ~Returned /\ UNCHANGED contexts
    BY <1>10 DEF Start, Returned
  <2>2. attempts = <<>> /\ attempts' = <<>>
    BY <1>10 DEF Start, Finish, GoOn, IInv, LoopInv
  <2>3. CASE Finish("invalid_input", <<>>)
    <3>1. Verdict = "none" /\ Verdict' = "refused" /\ Verdict' \in Bounded!Verdicts
      BY <1>4, <2>1, <2>3 DEF StopReasons
    <3>2. DOMAIN Evidence' = {} /\ glance' = "unread"
      BY <2>2, <2>3 DEF Evidence, Finish
    <3> QED
      BY <1>7, <1>8, <2>1, <2>2, <3>1, <3>2 DEF Bounded!Supported
  <2>4. CASE Looked /\ Ended # "none" /\ Finish(Ended, <<>>)
    BY <1>9, <2>1, <2>2, <2>4
  <2> QED
    BY <1>10, <2>3, <2>4 DEF Start, GoOn
<1>11. CASE Check /\ phase' = "returned"
  BY <1>9, <1>11 DEF Check, GoOn, Finish, Returned
<1>12. CASE Reject
  <2>1. /\ ~Returned /\ UNCHANGED <<contexts, attempts>> /\ glance' = "unread"
        /\ Finish("invalid_probe_evidence", attempts)
    BY <1>12 DEF Reject, Returned, Finish
  <2>2. Verdict = "none" /\ Verdict' = "broken" /\ Verdict' \in Bounded!Verdicts
    BY <1>4, <2>1 DEF StopReasons
  <2> QED
    BY <1>7, <1>8, <2>1, <2>2 DEF Bounded!Supported
<1>13. CASE Judge
  <2>1. /\ ~Returned /\ phase = "judge" /\ Acceptable /\ UNCHANGED contexts
        /\ Looked /\ glance' = "unread"
    BY <1>13 DEF Judge, Returned, Ends, GoesOn, Finish, GoOn
  <2>2. CASE Ended # "none" /\ observed.outcome = "succeeded"
    BY <1>9, <1>13, <2>1, <2>2 DEF Judge, Ends, Late, GoesOn, Finish
  <2>3. CASE Ended # "none" /\ observed.outcome # "succeeded"
    <3>1. attempts' = Recorded /\ Finish(Ended, Recorded)
      BY <1>13, <2>3 DEF Judge, Ends, Late, GoesOn, Finish
    <3>2. observed.outcome \in Bounded!Outcomes /\ Bounded!Record(observed.outcome)
      BY <2>1, <2>3, <3>1, RecordsEvidence
    <3>3. Ended \in StopReasons \cup {"none"}
      BY <1>5 DEF StopReasons
    <3>4. /\ Verdict = "none" /\ Verdict' \in Bounded!Verdicts
          /\ Ended = "cancelled" => Verdict' = "cancelled"
          /\ Ended = "recheck_timeout" => Verdict' = "timeout"
      BY <1>4, <2>1, <3>1, <3>3
    <3>5. Bounded!Supported(Verdict')
      BY <1>5, <1>6, <2>1, <2>3, <3>4 DEF Bounded!Supported
    <3> QED
      BY <1>8, <2>1, <3>2, <3>4, <3>5
  <2>4. CASE Ended = "none" /\ observed.outcome = "cancelled"
    <3>1. attempts' = Recorded /\ Finish("cancelled", Recorded)
      BY <1>13, <2>4 DEF Judge, Ends, Late, GoesOn, Finish
    <3>2. observed.outcome \in Bounded!Outcomes /\ Bounded!Record(observed.outcome)
      BY <2>1, <2>4, <3>1, RecordsEvidence
    <3>3. Verdict = "none" /\ Verdict' = "cancelled" /\ Verdict' \in Bounded!Verdicts
      BY <1>4, <2>1, <3>1 DEF StopReasons
    <3>4. Bounded!Cancelled'
      BY <2>4, <3>2 DEF Bounded!Record, Bounded!Cancelled
    <3> QED
      BY <1>8, <2>1, <3>2, <3>3, <3>4 DEF Bounded!Supported
  <2>5. CASE Ended = "none" /\ observed.outcome # "cancelled"
    <3>1. attempts' = Recorded /\ UNCHANGED result
      BY <1>13, <2>5 DEF Judge, Ends, Late, GoesOn, GoOn, Finish
    <3>2. observed.outcome \in Bounded!Outcomes /\ Bounded!Record(observed.outcome)
      BY <2>1, <2>5, <3>1, RecordsEvidence
    <3>3. Verdict = "none" /\ Verdict' = Verdict
      BY <2>1, <3>1 DEF Verdict, VerdictInv
    <3> QED
      BY <2>1, <3>2, <3>3 DEF contexts, Bounded!Next, Bounded!Observe, Bounded!Evidenced
  <2> QED
    BY <2>2, <2>3, <2>4, <2>5
<1>14. CASE Final
  <2>1. /\ ~Returned /\ phase = "final" /\ Looked /\ UNCHANGED <<contexts, attempts>>
        /\ Finish(Ended, attempts) /\ glance' = "unread"
    BY <1>14 DEF Final, Returned, Finish
  <2>2. CASE Ended # "none"
    BY <1>9, <2>1, <2>2
  <2>3. CASE Ended = "none"
    <3>1. Verdict = "none" /\ Verdict' = "completed" /\ Verdict' \in Bounded!Verdicts
      BY <1>4, <2>1, <2>3 DEF StopReasons
    <3>2. DOMAIN Evidence' # {}
      <4>1. local \in Seq(Addresses) /\ local # <<>>
        BY <1>14 DEF Final, IInv, TypeOK, LoopInv, Live, Refused, BadRequest, BadList
      <4>2. Bound(local) \in Nat \ {0}
        BY <4>1, LimitAssumption DEF Bound
      <4>3. Bound(reference) \in Nat
        BY BoundFacts, LimitAssumption DEF IInv, TypeOK
      <4>4. Len(Schedule(local, reference)) > 0
        BY <4>2, <4>3, ScheduleFacts DEF IInv, TypeOK
      <4>5. attempts \in Seq(Attempts) /\ ~Remaining
        BY <1>14 DEF Final, IInv, TypeOK, LoopInv
      <4>6. 1 \in DOMAIN attempts
        BY <4>4, <4>5, ScheduleFacts, LimitAssumption DEF Remaining, IInv, TypeOK
      <4> QED
        BY <2>1, <4>6 DEF Evidence
    <3> QED
      BY <1>6, <1>7, <1>8, <2>1, <2>3, <3>1, <3>2 DEF Bounded!Supported, Bounded!Live
  <2> QED
    BY <2>2, <2>3
<1>15. CASE (Start \/ Check) /\ phase' # "returned"
  <2>1. ~Returned /\ UNCHANGED <<contexts, result>> /\ glance' = "unread"
    BY <1>15 DEF Start, Check, Finish, GoOn, Returned
  <2>2. UNCHANGED attempts
    BY <1>15 DEF Start, Check, Finish
  <2>3. Verdict = "none" /\ UNCHANGED <<Evidence, Verdict>>
    BY <2>1, <2>2 DEF Verdict, VerdictInv, Evidence
  <2> QED
    BY <2>1, <2>3 DEF contexts, Bounded!Next, Bounded!Observe, Bounded!Evidenced
<1>16. CASE Look
  <2>1. ~Returned /\ UNCHANGED <<contexts, result, attempts>>
    BY <1>16 DEF Look, Looks, Returned
  <2>2. Verdict = "none" /\ UNCHANGED <<Evidence, Verdict>>
    BY <2>1 DEF Verdict, VerdictInv, Evidence
  <2> QED
    BY <1>16, <2>1, <2>2 DEF Look, contexts, Bounded!Next, Bounded!Look
<1>17. CASE ObserveReturns \/ Done \/ UNCHANGED vars
  BY <1>3, <1>17 DEF ObserveReturns, Done, vars, contexts
<1> QED
  BY <1>1, <1>2, <1>10, <1>11, <1>12, <1>13, <1>14, <1>15, <1>16, <1>17
  DEF Next, Step

\* With any adapter, any lists and any limit, Observe is a bounded observation.
THEOREM ObserveIsBounded == Spec => IsBounded
<1>1. Init => Bounded!Init /\ VerdictInv
  BY DEF Init, Bounded!Init, Evidence, Verdict, NoResult, VerdictInv
<1>2. VerdictInv /\ [Next]_vars => VerdictInv'
  BY DEF VerdictInv, Returned, Next, Step, Done, CallerEnds, Propagate, RecheckDeadline, Look,
         Start, Check, ObserveReturns, Reject, Judge, Ends, GoesOn, Final, Finish, GoOn, vars
<1> QED
  BY <1>1, <1>2, BoundedStep, InvariantHolds, PTL DEF Spec, IsBounded, Bounded!Spec
=============================================================================
