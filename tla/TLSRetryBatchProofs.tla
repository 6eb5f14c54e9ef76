------------------------ MODULE TLSRetryBatchProofs ------------------------
(***************************************************************************)
(* Theorems about one call of tlsretrybatch.Observe, for every number of   *)
(* targets, workers and attempts, every set of delays, codes and adapters. *)
(***************************************************************************)
EXTENDS TLSRetryBatchInvariant, TLAPS

\* The number of scheduled targets is a natural number, bounded as in
\* boundedTargets.
LEMMA ScheduledNat ==
  ASSUME request \in Requests
  PROVE  /\ Scheduled \in Nat
         /\ Scheduled <= request.unique
         /\ request.unique \in Nat
<1>1. request.unique \in 0..MaxUnique
  BY DEF Requests
<1> QED
  BY <1>1, LimitAssumption DEF Scheduled

-----------------------------------------------------------------------------
(***************************************************************************)
(* The ways a step changes the variables of a worker or of a target.       *)
(***************************************************************************)
LEMMA LeaveType ==
  ASSUME WorkersTypeOK, NEW w \in Workers, NEW place \in {"take", "done"}, Leave(w, place)
  PROVE  WorkersTypeOK'
BY LimitAssumption DEF WorkersTypeOK, Leave, Goto, Places

LEMMA GotoType ==
  ASSUME WorkersTypeOK, NEW w \in Workers, NEW place \in Places, Goto(w, place),
         place \in {"observed", "validating", "recheck"} => obs[w] \in Observations,
         UNCHANGED locals
  PROVE  WorkersTypeOK'
BY DEF WorkersTypeOK, Goto, Places, locals

LEMMA WorkersStay ==
  ASSUME WorkersTypeOK, UNCHANGED workerVars
  PROVE  WorkersTypeOK'
BY DEF WorkersTypeOK, workerVars, locals

LEMMA TargetsStay ==
  ASSUME TargetsTypeOK, UNCHANGED request, UNCHANGED targetVars
  PROVE  TargetsTypeOK'
BY DEF TargetsTypeOK, Targets, Scheduled, targetVars

LEMMA MarkType ==
  ASSUME TargetsTypeOK, NEW t, NEW mark \in TargetStatuses, UNCHANGED <<request, attempts>>,
         status' = [status EXCEPT ![t] = mark]
  PROVE  TargetsTypeOK'
BY DEF TargetsTypeOK, Targets, Scheduled

LEMMA AppendType ==
  ASSUME TargetsTypeOK, NEW t, NEW a \in Attempts, UNCHANGED <<request, status>>,
         attempts' = [attempts EXCEPT ![t] = Append(@, a)]
  PROVE  TargetsTypeOK'
<1>1. Targets' = Targets
  BY DEF Targets, Scheduled
<1>2. \A u \in Targets : Append(attempts[u], a) \in Seq(Attempts)
  BY DEF TargetsTypeOK
<1> QED
  BY <1>1, <1>2 DEF TargetsTypeOK

LEMMA InterruptType ==
  ASSUME WorkersTypeOK, TargetsTypeOK, NEW w \in Workers, Interrupt(w),
         UNCHANGED <<request, attempts>>
  PROVE  WorkersTypeOK' /\ TargetsTypeOK'
<1>1. WorkersTypeOK'
  BY LeaveType DEF Interrupt
<1>2. PICK mark \in TargetStatuses : status' = [status EXCEPT ![job[w]] = mark]
  BY DEF Interrupt, TargetStatuses
<1> QED
  BY <1>1, <1>2, MarkType

\* A step that leaves main's own variables alone keeps their types.
LEMMA MainStays ==
  ASSUME MainTypeOK, UNCHANGED <<request, phase, contextVars, next, stateVars, result>>
  PROVE  MainTypeOK'
BY DEF MainTypeOK, Scheduled, contextVars, stateVars

-----------------------------------------------------------------------------
\* The variables of Observe and of its workers keep their types.
LEMMA InitType == Init => TypeOK
<1> SUFFICES ASSUME Init PROVE TypeOK
  OBVIOUS
<1>1. MainTypeOK
  <2>1. next \in 1..(Scheduled + 1)
    BY ScheduledNat DEF Init
  <2>2. result.status = "none" /\ result.reason = "none"
    BY DEF Init, EmptyResult
  <2> QED
    BY <2>1, <2>2 DEF Init, MainTypeOK, ContextErrors
<1>2. WorkersTypeOK
  BY LimitAssumption DEF Init, WorkersTypeOK, Places
<1>3. TargetsTypeOK
  BY DEF Init, TargetsTypeOK, TargetStatuses
<1> QED
  BY <1>1, <1>2, <1>3 DEF TypeOK

\* What main reports has the type of a Result.
LEMMA FinishType ==
  ASSUME MainTypeOK, UNCHANGED <<request, contextVars, next, stateVars>>,
         NEW reason \in StopReasons \cup {"none"},
         \/ Stop(reason)
         \/ Finish("completed", reason)
  PROVE  MainTypeOK'
BY DEF MainTypeOK, Stop, Finish, Scheduled, contextVars, stateVars

LEMMA MainType == TypeOK /\ Main => TypeOK'
<1> SUFFICES ASSUME TypeOK, Main PROVE TypeOK'
  OBVIOUS
<1>1. TargetsTypeOK'
  BY TargetsStay DEF TypeOK, Main, Start, Launch, Join, Settle, Commit
<1>2. WorkersTypeOK'
  <2>1. CASE Launch
    BY <2>1 DEF Launch, TypeOK, WorkersTypeOK, Places, locals
  <2> QED
    BY <2>1, WorkersStay DEF TypeOK, Main, Start, Join, Settle, Commit
<1>3. MainTypeOK'
  <2>1. TerminalReason \in StopReasons \cup {"none"}
    BY DEF TerminalReason, StopReasons
  <2>2. SettleReason \in StopReasons \cup {"none"}
    BY <2>1 DEF SettleReason, StopReasons, FailureReasons
  <2>3. failure \in StopReasons \cup {"none"}
    BY DEF TypeOK, MainTypeOK, StopReasons
  <2>4. "invalid_input" \in StopReasons
    BY DEF StopReasons
  <2>5. CASE Start
    <3>1. CASE \E reason \in StopReasons \cup {"none"} : Stop(reason)
      BY <2>5, <3>1, FinishType DEF Start, TypeOK
    <3>2. CASE phase' = "launch" /\ UNCHANGED result
      BY <2>5, <3>2 DEF Start, TypeOK, MainTypeOK, Scheduled, contextVars, stateVars
    <3> QED
      BY <2>1, <2>4, <2>5, <3>1, <3>2 DEF Start
  <2>6. CASE Launch
    BY <2>6 DEF Launch, TypeOK, MainTypeOK, Scheduled, stateVars
  <2>7. CASE Join
    <3>1. CASE Stop(failure)
      BY <2>3, <2>7, <3>1, FinishType DEF Join, TypeOK
    <3>2. CASE phase' = "joined" /\ UNCHANGED result
      BY <2>7, <3>2 DEF Join, TypeOK, MainTypeOK, Scheduled, contextVars, stateVars
    <3> QED
      BY <2>7, <3>1, <3>2 DEF Join
  <2>8. CASE Settle
    <3>1. CASE Stop(SettleReason)
      BY <2>2, <2>8, <3>1, FinishType DEF Settle, TypeOK
    <3>2. CASE phase' = "committing" /\ UNCHANGED result
      BY <2>8, <3>2 DEF Settle, TypeOK, MainTypeOK, Scheduled, contextVars, stateVars
    <3> QED
      BY <2>8, <3>1, <3>2 DEF Settle
  <2>9. CASE Commit
    BY <2>1, <2>9, FinishType DEF Commit, TypeOK
  <2> QED
    BY <2>5, <2>6, <2>7, <2>8, <2>9 DEF Main
<1> QED
  BY <1>1, <1>2, <1>3 DEF TypeOK

LEMMA ContextType == TypeOK /\ Context => TypeOK'
<1> SUFFICES ASSUME TypeOK, Context PROVE TypeOK'
  OBVIOUS
<1>1. WorkersTypeOK' /\ TargetsTypeOK'
  BY WorkersStay, TargetsStay DEF TypeOK, Context, CallerEnds, Propagate, BatchDeadline
<1>2. MainTypeOK'
  BY DEF TypeOK, MainTypeOK, Context, CallerEnds, Propagate, BatchDeadline,
    ContextErrors, Scheduled, stateVars
<1> QED
  BY <1>1, <1>2 DEF TypeOK

LEMMA WorkerType == ASSUME TypeOK, NEW w \in Workers, Worker(w) PROVE TypeOK'
<1> USE DEF TypeOK
<1>1. CASE Take(w)
  <2>1. WorkersTypeOK'
    BY <1>1 DEF Take, WorkersTypeOK, Goto, Places, MainTypeOK, contextVars
  <2>2. MainTypeOK'
    BY <1>1, ScheduledNat DEF Take, MainTypeOK, Scheduled, contextVars, stateVars
  <2> QED
    BY <1>1, <2>1, <2>2, TargetsStay DEF Take
<1>2. CASE Admit(w)
  BY <1>2, LeaveType, GotoType, TargetsStay, MainStays DEF Admit, Places
<1>3. CASE Begin(w)
  BY <1>3, InterruptType, GotoType, TargetsStay, MainStays DEF Begin, Places, targetVars
<1>4. CASE Backoff(w)
  <2>1. WorkersTypeOK'
    BY <1>4, DependencyAssumption DEF Backoff, Fail, Goto, Places, WorkersTypeOK
  <2>2. MainTypeOK'
    BY <1>4 DEF Backoff, Fail, MainTypeOK, FailureReasons, Scheduled, contextVars
  <2> QED
    BY <1>4, <2>1, <2>2, TargetsStay DEF Backoff
<1>5. CASE WaitElapsed(w)
  BY <1>5, GotoType, TargetsStay, MainStays DEF WaitElapsed, Places
<1>6. CASE WaitFails(w)
  <2>1. MainTypeOK'
    BY <1>6 DEF WaitFails, Fail, MainTypeOK, FailureReasons, Scheduled, contextVars
  <2> QED
    BY <1>6, <2>1, InterruptType, GotoType, TargetsStay DEF WaitFails, Fail, Places, targetVars
<1>7. CASE ObserveReturns(w)
  <2>1. WorkersTypeOK'
    BY <1>7 DEF ObserveReturns, Goto, Places, WorkersTypeOK
  <2> QED
    BY <1>7, <2>1, TargetsStay, MainStays DEF ObserveReturns
<1>8. CASE DiscardLate(w)
  <2>1. obs[w] \in Observations
    BY <1>8 DEF DiscardLate, WorkersTypeOK
  <2> QED
    BY <1>8, <2>1, InterruptType, GotoType, TargetsStay, MainStays
    DEF DiscardLate, Places, targetVars
<1>9. CASE Record(w)
  <2>1. obs[w] \in Observations
    BY <1>9 DEF Record, WorkersTypeOK
  <2>2. WorkersTypeOK'
    BY <1>9, <2>1, GotoType DEF Record, Fail, Places
  <2>3. MainTypeOK'
    BY <1>9, <2>1 DEF Record, Fail, MainTypeOK, FailureReasons, Observations, Scheduled, contextVars
  <2>4. TargetsTypeOK'
    <3>1. [number |-> number[w], delay |-> delay[w],
           code |-> obs[w].code, source |-> obs[w].source] \in Attempts
      <4>1. number[w] \in Nat /\ delay[w] \in Nat
        BY LimitAssumption DEF WorkersTypeOK
      <4>2. obs[w].code \in Codes /\ obs[w].source \in Sources
        BY <2>1 DEF Observations
      <4> QED
        BY <4>1, <4>2 DEF Attempts
    <3> QED
      BY <1>9, <3>1, AppendType, TargetsStay DEF Record, Fail, targetVars
  <2> QED
    BY <2>2, <2>3, <2>4
<1>10. CASE Recheck(w)
  <2>1. obs[w] \in Observations
    BY <1>10 DEF Recheck, WorkersTypeOK
  <2>2. MainTypeOK'
    BY <1>10 DEF Recheck, Fail, MainTypeOK, FailureReasons, Scheduled, contextVars
  <2>3. CASE Interrupt(w)
    BY <1>10, <2>2, <2>3, InterruptType DEF Recheck
  <2>4. CASE Fail(w, "invalid_probe_evidence") /\ UNCHANGED <<locals, status>>
    BY <1>10, <2>2, <2>4, GotoType, TargetsStay DEF Recheck, Fail, Places, targetVars
  <2>5. CASE status' = [status EXCEPT ![job[w]] = "completed"] /\ Leave(w, "take")
    BY <1>10, <2>2, <2>5, LeaveType, MarkType DEF Recheck, TargetStatuses
  <2>6. CASE /\ ~Exhausted(w)
             /\ number' = [number EXCEPT ![w] = @ + 1]
             /\ Goto(w, "begin")
             /\ UNCHANGED <<job, delay, obs, status, failure>>
    <3>1. WorkersTypeOK'
      BY <2>6, LimitAssumption DEF Exhausted, Goto, Places, WorkersTypeOK
    <3> QED
      BY <1>10, <2>2, <2>6, <3>1, TargetsStay DEF Recheck, targetVars
  <2> QED
    BY <1>10, <2>3, <2>4, <2>5, <2>6 DEF Recheck
<1>11. CASE CancelBatch(w)
  <2>1. MainTypeOK'
    BY <1>11 DEF CancelBatch, MainTypeOK, ContextErrors, Scheduled, stateVars
  <2> QED
    BY <1>11, <2>1, InterruptType DEF CancelBatch
<1> QED
  BY <1>1, <1>2, <1>3, <1>4, <1>5, <1>6, <1>7, <1>8, <1>9, <1>10, <1>11 DEF Worker, RunTarget

LEMMA NextType == TypeOK /\ [Next]_vars => TypeOK'
<1>1. ASSUME TypeOK, UNCHANGED vars PROVE TypeOK'
  BY <1>1, MainStays, WorkersStay, TargetsStay DEF TypeOK, vars
<1> QED
  BY <1>1, MainType, ContextType, WorkerType DEF Next, Done

\* Every reachable state is well typed.
THEOREM TypeCorrect == Spec => []TypeOK
BY InitType, NextType, PTL DEF Spec

-----------------------------------------------------------------------------
(***************************************************************************)
(* The steps of the workers and the inductive invariant.                   *)
(***************************************************************************)
\* The targets that running workers hold are scheduled targets.
LEMMA JobInTargets ==
  ASSUME TypeOK, OwnershipInv, NEW w \in Workers, Busy(w)
  PROVE  job[w] \in Targets /\ job[w] < next
BY ScheduledNat DEF TypeOK, MainTypeOK, OwnershipInv, Targets

\* A worker moves on within runTarget: who holds what does not change.
LEMMA MoveKeepsOwners ==
  ASSUME TypeOK, OwnershipInv, NEW w \in Workers, NEW place \in Places, Goto(w, place),
         Busy(w), place \notin {"idle", "take", "done"},
         UNCHANGED <<request, next, job>>
  PROVE  /\ \A v \in Workers : Busy(v)' <=> Busy(v)
         /\ \A t \in Targets : Owned(t)' <=> Owned(t)
<1>1. \A v \in Workers : Busy(v)' <=> Busy(v)
  BY DEF TypeOK, WorkersTypeOK, Goto, Busy
<1> QED
  BY <1>1 DEF Owned, Workers

LEMMA MoveInv ==
  ASSUME TypeOK, OwnershipInv, TargetInv, ContextInv,
         NEW w \in Workers, NEW place \in Places, Goto(w, place),
         Busy(w), place \notin {"idle", "take", "done"},
         failure # "none" => failure' # "none",
         UNCHANGED <<request, contextVars, next, job, targetVars>>
  PROVE  OwnershipInv' /\ TargetInv' /\ ContextInv'
<1>1. \A v \in Workers : Busy(v)' <=> Busy(v)
  BY MoveKeepsOwners
<1>2. Targets' = Targets /\ Scheduled' = Scheduled
  BY DEF Targets, Scheduled
<1>3. \A t \in Targets : Owned(t)' <=> Owned(t)
  BY MoveKeepsOwners
<1>4. OwnershipInv'
  BY <1>1, <1>2 DEF OwnershipInv, targetVars
<1>5. TargetInv'
  BY <1>2, <1>3 DEF TargetInv, targetVars
<1>6. ContextInv'
  BY <1>2, <1>3 DEF ContextInv, targetVars, contextVars, Goto, TypeOK, WorkersTypeOK
<1> QED
  BY <1>4, <1>5, <1>6

\* A worker leaves its target: the target must look settled, and be completed
\* unless the batch context has ended.
LEMMA LeaveInv ==
  ASSUME TypeOK, OwnershipInv, TargetInv, ContextInv,
         NEW w \in Workers, NEW place \in {"take", "done"}, Leave(w, place), Busy(w),
         NEW mark, status' = [status EXCEPT ![job[w]] = mark],
         Settled(mark, attempts[job[w]]),
         mark # "completed" => batchErr' # "active",
         place = "done" => batchErr' # "active",
         \/ batchErr' = batchErr
         \/ batchErr = "active" /\ failure # "none",
         UNCHANGED <<request, callerErr, next, attempts, failure>>
  PROVE  OwnershipInv' /\ TargetInv' /\ ContextInv'
<1>1. ~Busy(w)' /\ \A v \in Workers \ {w} : (Busy(v)' <=> Busy(v)) /\ job'[v] = job[v]
  BY DEF TypeOK, WorkersTypeOK, Leave, Goto, Busy
<1>2. Targets' = Targets /\ Scheduled' = Scheduled
  BY DEF Targets, Scheduled
<1>3. job[w] \in Targets /\ job[w] < next
  BY JobInTargets
<1>4. status'[job[w]] = mark /\ \A t \in Targets \ {job[w]} : status'[t] = status[t]
  BY <1>3 DEF TypeOK, TargetsTypeOK
<1>5. Workers' = Workers
  BY DEF Workers
<1>6. \A t \in Targets \ {job[w]} : Owned(t)' <=> Owned(t)
  BY <1>1, <1>5 DEF Owned
<1>7. OwnershipInv'
  <2>1. \A v \in Workers : Busy(v)' => job'[v] \in 1..(next - 1)
    BY <1>1 DEF OwnershipInv
  <2>2. \A v1, v2 \in Workers : Busy(v1)' /\ Busy(v2)' /\ v1 # v2 => job'[v1] # job'[v2]
    BY <1>1 DEF OwnershipInv
  <2>3. \A t \in Targets : t >= next => status'[t] = "not_started" /\ attempts'[t] = <<>>
    <3> SUFFICES ASSUME NEW t \in Targets, t >= next
                 PROVE  status'[t] = "not_started" /\ attempts'[t] = <<>>
      OBVIOUS
    <3>1. t # job[w]
      BY <1>3, ScheduledNat DEF Targets, TypeOK, MainTypeOK
    <3> QED
      BY <1>4, <3>1 DEF OwnershipInv
  <2> QED
    BY <1>2, <1>5, <2>1, <2>2, <2>3 DEF OwnershipInv
<1>8. TargetInv'
  BY <1>2, <1>4, <1>6 DEF TargetInv
<1>9. ContextInv'
  <2>1. batchErr' = "canceled" => callerErr' = "canceled" \/ failure' # "none"
    BY DEF ContextInv
  <2>2. \A t \in Targets : t < next /\ ~Owned(t)' /\ status'[t] # "completed" => batchErr' # "active"
    BY <1>4, <1>6 DEF ContextInv
  <2>3. \A v \in Workers : wpc'[v] = "done" /\ v <= Scheduled => next > Scheduled \/ batchErr' # "active"
    BY DEF ContextInv, Leave, Goto, TypeOK, WorkersTypeOK
  <2> QED
    BY <1>2, <1>5, <2>1, <2>2, <2>3 DEF ContextInv
<1> QED
  BY <1>7, <1>8, <1>9

\* Whatever a step of w does to the target w runs, the others do not see it.
LEMMA OthersKeep ==
  ASSUME TypeOK, OwnershipInv, WorkerInv, NEW w \in Workers, NEW v \in Workers, v # w,
         wpc'[v] = wpc[v], job'[v] = job[v], number'[v] = number[v],
         delay'[v] = delay[v], obs'[v] = obs[v],
         \A t \in Targets : t # job[w] => status'[t] = status[t] /\ attempts'[t] = attempts[t],
         Busy(w), failure # "none" => failure' # "none"
  PROVE  WorkerOK(v)'
<1>1. Busy(v) => job[v] # job[w] /\ job[v] \in Targets
  BY JobInTargets DEF OwnershipInv
<1>2. Busy(v) => status'[job[v]] = status[job[v]] /\ attempts'[job[v]] = attempts[job[v]]
  BY <1>1
<1>3. WorkerOK(v)
  BY DEF WorkerInv
<1> QED
  BY <1>2, <1>3 DEF WorkerOK, Busy, BeforeAttempt

-----------------------------------------------------------------------------
(***************************************************************************)
(* The part of the invariant about workers and targets.                    *)
(***************************************************************************)
Core == OwnershipInv /\ EvidenceInv /\ WorkerInv /\ TargetInv /\ ContextInv

LEMMA EvidenceStays ==
  ASSUME EvidenceInv, UNCHANGED <<request, attempts, accepted>>
  PROVE  EvidenceInv'
BY DEF EvidenceInv, Targets, Scheduled, ValidLog

\* A worker moves on and what it must know at the new place is true.
LEMMA MoveCore ==
  ASSUME TypeOK, Core, NEW w \in Workers, NEW place \in Places, Goto(w, place),
         Busy(w), place \notin {"idle", "take", "done"},
         failure # "none" => failure' # "none",
         UNCHANGED <<request, contextVars, next, job, targetVars, accepted>>,
         \A v \in Workers \ {w} : number'[v] = number[v] /\ delay'[v] = delay[v] /\ obs'[v] = obs[v],
         WorkerOK(w)'
  PROVE  Core'
<1>1. OwnershipInv' /\ TargetInv' /\ ContextInv'
  BY MoveInv DEF Core
<1>2. EvidenceInv'
  BY EvidenceStays DEF Core, targetVars
<1>3. \A v \in Workers \ {w} : wpc'[v] = wpc[v]
  BY DEF Goto, TypeOK, WorkersTypeOK
<1>4. \A v \in Workers \ {w} : WorkerOK(v)'
  BY <1>3, OthersKeep DEF Core, targetVars
<1>5. WorkerInv'
  BY <1>4 DEF WorkerInv, Workers
<1> QED
  BY <1>1, <1>2, <1>5 DEF Core

\* A worker leaves its target in order.
LEMMA LeaveCore ==
  ASSUME TypeOK, Core,
         NEW w \in Workers, NEW place \in {"take", "done"}, Leave(w, place), Busy(w),
         NEW mark, status' = [status EXCEPT ![job[w]] = mark],
         Settled(mark, attempts[job[w]]),
         mark # "completed" => batchErr' # "active",
         place = "done" => batchErr' # "active",
         \/ batchErr' = batchErr
         \/ batchErr = "active" /\ failure # "none",
         UNCHANGED <<request, callerErr, next, attempts, failure, accepted>>
  PROVE  Core'
<1>1. OwnershipInv' /\ TargetInv' /\ ContextInv'
  BY LeaveInv DEF Core
<1>2. EvidenceInv'
  BY EvidenceStays DEF Core
<1>3. /\ wpc'[w] = place /\ number'[w] = 1 /\ delay'[w] = 0
      /\ \A v \in Workers \ {w} : /\ wpc'[v] = wpc[v] /\ job'[v] = job[v]
                                  /\ number'[v] = number[v] /\ delay'[v] = delay[v]
                                  /\ obs'[v] = obs[v]
  BY DEF Leave, Goto, TypeOK, WorkersTypeOK
<1>4. \A v \in Workers \ {w} : WorkerOK(v)'
  <2>1. \A t \in Targets : t # job[w] => status'[t] = status[t] /\ attempts'[t] = attempts[t]
    BY DEF TypeOK, TargetsTypeOK
  <2> QED
    BY <1>3, <2>1, OthersKeep DEF Core
<1>5. WorkerOK(w)'
  BY <1>3 DEF WorkerOK, Busy
<1>6. WorkerInv'
  BY <1>4, <1>5 DEF WorkerInv, Workers
<1> QED
  BY <1>1, <1>2, <1>6 DEF Core

\* interruptTarget is called only once the batch context has ended.
LEMMA InterruptCore ==
  ASSUME TypeOK, Core, NEW w \in Workers, Interrupt(w), Busy(w),
         batchErr' # "active",
         \/ batchErr' = batchErr
         \/ batchErr = "active" /\ failure # "none",
         UNCHANGED <<request, callerErr, next, attempts, failure, accepted>>
  PROVE  Core'
<1> DEFINE mark == IF attempts[job[w]] = <<>> THEN "not_started" ELSE "interrupted"
<1>1. status' = [status EXCEPT ![job[w]] = mark] /\ Leave(w, "take")
  BY DEF Interrupt
<1>2. Settled(mark, attempts[job[w]]) /\ mark # "completed"
  BY DEF Settled
<1> HIDE DEF mark
<1> QED
  BY <1>1, <1>2, LeaveCore

LEMMA TakeCore ==
  ASSUME TypeOK, Core, NEW w \in Workers, Take(w)
  PROVE  Core'
<1>1. Targets' = Targets /\ Scheduled' = Scheduled /\ Scheduled \in Nat
  BY ScheduledNat DEF Take, Targets, Scheduled, TypeOK, MainTypeOK
<1>2. next \in Nat /\ next <= Scheduled + 1 /\ next >= 1
  BY <1>1 DEF TypeOK, MainTypeOK
<1>3. EvidenceInv'
  BY EvidenceStays DEF Core, Take, targetVars, stateVars
<1>4. /\ ~Busy(w) /\ number[w] = 1 /\ delay[w] = 0
      /\ UNCHANGED <<number, delay, obs, status, attempts, callerErr, batchErr, failure>>
  BY DEF Take, Busy, Core, WorkerInv, WorkerOK, targetVars, contextVars, stateVars
<1>5. CASE /\ next <= Scheduled
           /\ job' = [job EXCEPT ![w] = next]
           /\ next' = next + 1
           /\ Goto(w, "admit")
  <2>0. Workers' = Workers
    BY DEF Workers
  <2>1. /\ wpc'[w] = "admit" /\ job'[w] = next /\ Busy(w)'
        /\ \A v \in Workers \ {w} : wpc'[v] = wpc[v] /\ job'[v] = job[v] /\ (Busy(v)' <=> Busy(v))
    BY <1>5 DEF Goto, Busy, TypeOK, WorkersTypeOK
  <2>2. next \in Targets /\ status[next] = "not_started" /\ attempts[next] = <<>>
    BY <1>2, <1>5, <1>1 DEF Targets, Core, OwnershipInv
  <2>3. \A v \in Workers : Busy(v) => job[v] \in 1..(next - 1)
    BY DEF Core, OwnershipInv
  <2>4. \A t \in Targets : t # next => (Owned(t)' <=> Owned(t))
    BY <2>1, <2>0, <1>4 DEF Owned
  <2>5. \A t \in Targets : t = next => Owned(t)'
    BY <2>1, <2>0 DEF Owned
  <2>6. OwnershipInv'
    <3>1. \A v \in Workers : Busy(v)' => job'[v] \in 1..(next' - 1)
      BY <2>1, <2>3, <1>2, <1>5
    <3>2. ASSUME NEW v1 \in Workers, NEW v2 \in Workers, Busy(v1)', Busy(v2)', v1 # v2
          PROVE  job'[v1] # job'[v2]
      <4>1. CASE v1 # w /\ v2 # w
        BY <3>2, <4>1, <2>1 DEF Core, OwnershipInv
      <4>2. \A v \in Workers \ {w} : Busy(v) => job'[v] # next
        BY <2>1, <2>3, <1>2
      <4> QED
        BY <3>2, <4>1, <4>2, <2>1
    <3>3. \A t \in Targets : t >= next' => status'[t] = "not_started" /\ attempts'[t] = <<>>
      BY <1>1, <1>2, <1>4, <1>5 DEF Core, OwnershipInv, Targets
    <3> QED
      BY <3>1, <3>2, <3>3, <1>1 DEF OwnershipInv, Workers
  <2>7. TargetInv'
    BY <2>4, <2>5, <1>1, <1>4 DEF Core, TargetInv
  <2>8. ContextInv'
    <3>1. ASSUME NEW t \in Targets, t < next', ~Owned(t)', status'[t] # "completed"
          PROVE  batchErr' # "active"
      <4>1. t # next /\ ~Owned(t)
        BY <3>1, <2>4, <2>5
      <4>2. t < next
        BY <3>1, <4>1, <1>1, <1>2, <1>5 DEF Targets
      <4> QED
        BY <3>1, <4>1, <4>2, <1>4 DEF Core, ContextInv
    <3>2. \A v \in Workers : wpc'[v] = "done" /\ v <= Scheduled =>
            next' > Scheduled \/ batchErr' # "active"
      BY <2>1, <1>2, <1>4, <1>5, <1>1 DEF Core, ContextInv
    <3> QED
      BY <3>1, <3>2, <1>1, <1>4 DEF Core, ContextInv, Workers
  <2>9. WorkerInv'
    <3>1. WorkerOK(w)'
      BY <2>1, <2>2, <1>4 DEF WorkerOK
    <3>2. \A v \in Workers \ {w} : WorkerOK(v)'
      BY <2>1, <1>4 DEF Core, WorkerInv, WorkerOK, BeforeAttempt
    <3> QED
      BY <3>1, <3>2 DEF WorkerInv, Workers
  <2> QED
    BY <1>3, <2>6, <2>7, <2>8, <2>9 DEF Core
<1>6. CASE next > Scheduled /\ Goto(w, "done") /\ UNCHANGED <<job, next>>
  <2>1. /\ wpc'[w] = "done"
        /\ \A v \in Workers \ {w} : wpc'[v] = wpc[v]
        /\ \A v \in Workers : Busy(v)' <=> Busy(v)
    BY <1>4, <1>6 DEF Goto, Busy, TypeOK, WorkersTypeOK
  <2>2. \A t \in Targets : Owned(t)' <=> Owned(t)
    BY <2>1, <1>6 DEF Owned, Workers
  <2>3. OwnershipInv'
    BY <2>1, <1>1, <1>4, <1>6 DEF Core, OwnershipInv, Workers
  <2>4. TargetInv'
    BY <2>2, <1>1, <1>4 DEF Core, TargetInv
  <2>5. ContextInv'
    BY <2>1, <2>2, <1>1, <1>4, <1>6 DEF Core, ContextInv, Workers
  <2>6. WorkerInv'
    <3>1. WorkerOK(w)'
      BY <2>1, <1>4 DEF WorkerOK, Busy
    <3>2. \A v \in Workers \ {w} : WorkerOK(v)'
      BY <2>1, <1>4, <1>6 DEF Core, WorkerInv, WorkerOK, BeforeAttempt
    <3> QED
      BY <3>1, <3>2 DEF WorkerInv, Workers
  <2> QED
    BY <1>3, <2>3, <2>4, <2>5, <2>6 DEF Core
<1> QED
  BY <1>5, <1>6 DEF Take

\* A valid observation is appended to the log of the target that w runs.
LEMMA AppendValid ==
  ASSUME NEW log \in Seq(Attempts), ValidLog(log), NEW a \in Attempts,
         Len(log) < AttemptLimit, a.number = Len(log) + 1, Fits(a.code),
         Len(log) = 0 => a.delay = 0,
         Len(log) > 0 => a.delay \in BackoffMin..BackoffMax /\ ShouldRetry(LastCode(log))
  PROVE  ValidLog(Append(log, a))
<1> DEFINE longer == Append(log, a)
<1>1. /\ Len(longer) = Len(log) + 1
      /\ \A i \in 1..Len(log) : longer[i] = log[i]
      /\ longer[Len(log) + 1] = a
      /\ Len(log) \in Nat
  OBVIOUS
<1> HIDE DEF longer
<1>2. Len(longer) <= AttemptLimit
  BY <1>1, LimitAssumption
<1>3. ASSUME NEW i \in 1..Len(longer)
      PROVE  /\ longer[i].number = i
             /\ i = 1 => longer[i].delay = 0
             /\ i > 1 => /\ longer[i].delay \in BackoffMin..BackoffMax
                         /\ ShouldRetry(longer[i - 1].code)
             /\ Fits(longer[i].code)
  <2>1. CASE i \in 1..Len(log)
    <3>1. longer[i] = log[i] /\ (i > 1 => longer[i - 1] = log[i - 1])
      BY <1>1, <2>1
    <3> QED
      BY <2>1, <3>1 DEF ValidLog
  <2>2. CASE i = Len(log) + 1
    <3>1. longer[i] = a /\ (i > 1 => longer[i - 1] = log[Len(log)])
      BY <1>1, <2>2
    <3> QED
      BY <1>1, <2>2, <3>1 DEF LastCode
  <2> QED
    BY <1>1, <2>1, <2>2
<1>4. ValidLog(longer)
  BY <1>2, <1>3 DEF ValidLog
<1> QED
  BY <1>4 DEF longer

LEMMA RecordCore ==
  ASSUME TypeOK, Core, NEW w \in Workers, Record(w)
  PROVE  Core'
<1>1. /\ wpc[w] = "validating" /\ Busy(w) /\ obs[w] \in Observations
      /\ WorkerOK(w) /\ job[w] \in Targets
  BY JobInTargets DEF Record, Busy, TypeOK, WorkersTypeOK, Core, WorkerInv
<1>2. CASE ~Acceptable(obs[w])
  <2>1. Goto(w, "cancelling") /\ failure' # "none"
    BY <1>2 DEF Record, Fail, FailureReasons
  <2>2. UNCHANGED <<request, contextVars, next, locals, targetVars, accepted>>
    BY <1>2 DEF Record, targetVars
  <2>3. WorkerOK(w)'
    BY <1>1, <2>1, <2>2 DEF WorkerOK, Busy, Goto, TypeOK, WorkersTypeOK, locals, targetVars
  <2> QED
    BY <1>1, <2>1, <2>2, <2>3, MoveCore DEF Places, locals
<1>3. CASE Acceptable(obs[w])
  <2> DEFINE a == [number |-> number[w], delay |-> delay[w],
                   code |-> obs[w].code, source |-> obs[w].source]
  <2>1. /\ a \in Attempts
        /\ a.number = number[w] /\ a.delay = delay[w]
        /\ a.code = obs[w].code /\ a.source = obs[w].source
    BY <1>1, LimitAssumption DEF Attempts, Observations, TypeOK, WorkersTypeOK
  <2>2. /\ attempts' = [attempts EXCEPT ![job[w]] = Append(@, a)]
        /\ accepted' = {a.source} /\ accepted \subseteq {a.source} /\ Fits(a.code)
        /\ Goto(w, "recheck")
        /\ UNCHANGED <<request, contextVars, next, locals, status, failure>>
    BY <1>3 DEF Record, Acceptable
  <2> HIDE DEF a
  <2> DEFINE log == attempts[job[w]]
  <2>3. /\ log \in Seq(Attempts) /\ attempts'[job[w]] = Append(log, a)
        /\ \A t \in Targets \ {job[w]} : attempts'[t] = attempts[t]
    BY <1>1, <2>2 DEF TypeOK, TargetsTypeOK
  <2>4. Len(log) = number[w] - 1 /\ (number[w] > 1 => ShouldRetry(LastCode(log)))
    BY <1>1 DEF WorkerOK, BeforeAttempt
  <2>5. number[w] \in 1..AttemptLimit
    BY DEF TypeOK, WorkersTypeOK
  <2>6. ValidLog(log) /\ (\A i \in 1..Len(log) : log[i].source \in accepted)
    BY <1>1 DEF Core, EvidenceInv
  <2>7. ValidLog(Append(log, a))
    <3>1. Len(log) < AttemptLimit /\ a.number = Len(log) + 1
      BY <2>1, <2>4, <2>5, LimitAssumption
    <3>2. number[w] = 1 => a.delay = 0
      BY <1>1, <2>1 DEF WorkerOK
    <3>3. number[w] > 1 => a.delay \in BackoffMin..BackoffMax
      BY <1>1, <2>1 DEF WorkerOK
    <3>4. (Len(log) = 0 => number[w] = 1) /\ (Len(log) > 0 => number[w] > 1)
      BY <2>4, <2>5, LimitAssumption
    <3> QED
      BY <2>1, <2>2, <2>3, <2>4, <2>6, <3>1, <3>2, <3>3, <3>4, AppendValid
  <2>8. /\ Append(log, a) # <<>>
        /\ Len(Append(log, a)) = number[w]
        /\ LastCode(Append(log, a)) = obs[w].code
        /\ \A i \in 1..Len(Append(log, a)) : Append(log, a)[i].source \in accepted'
    <3>1. Len(log) \in Nat /\ Len(Append(log, a)) = Len(log) + 1
      BY <2>3
    <3>2. \A i \in 1..Len(log) : Append(log, a)[i] = log[i]
      BY <2>3
    <3>3. Append(log, a)[Len(log) + 1] = a
      BY <2>3
    <3> QED
      BY <2>1, <2>2, <2>4, <2>5, <2>6, <3>1, <3>2, <3>3 DEF LastCode
  <2> HIDE DEF log
  <2>9. Targets' = Targets /\ Scheduled' = Scheduled /\ Workers' = Workers
    BY <2>2 DEF Targets, Scheduled, Workers
  <2>10. (\A v \in Workers : Busy(v)' <=> Busy(v)) /\ (\A t \in Targets : Owned(t)' <=> Owned(t))
    BY <1>1, <2>2, MoveKeepsOwners DEF Places, locals, Core
  <2>11. EvidenceInv'
    <3>1. ASSUME NEW t \in Targets
          PROVE  /\ ValidLog(attempts'[t])
                 /\ \A i \in 1..Len(attempts'[t]) : attempts'[t][i].source \in accepted'
      <4>1. CASE t = job[w]
        BY <2>3, <2>7, <2>8, <4>1 DEF log
      <4>2. CASE t # job[w]
        BY <2>2, <2>3, <4>2 DEF Core, EvidenceInv
      <4> QED
        BY <4>1, <4>2
    <3>2. \A t \in Targets : ValidLog(attempts[t])' <=> ValidLog(attempts'[t])
      BY DEF ValidLog
    <3> QED
      BY <2>2, <2>9, <3>1, <3>2 DEF EvidenceInv
  <2>12. OwnershipInv'
    <3>1. \A t \in Targets : t >= next => t # job[w]
      BY <1>1, JobInTargets, ScheduledNat DEF Targets, TypeOK, MainTypeOK, Core
    <3> QED
      BY <2>2, <2>3, <2>9, <2>10, <3>1 DEF Core, OwnershipInv, locals
  <2>13. TargetInv'
    <3>1. Owned(job[w])
      BY <1>1 DEF Owned
    <3> QED
      BY <2>2, <2>3, <2>9, <2>10, <3>1 DEF Core, TargetInv
  <2>14. ContextInv'
    <3>1. \A v \in Workers : wpc'[v] = "done" => wpc[v] = "done"
      BY <2>2 DEF Goto, TypeOK, WorkersTypeOK
    <3> QED
      BY <2>2, <2>9, <2>10, <3>1 DEF Core, ContextInv, contextVars
  <2>15. WorkerInv'
    <3>1. WorkerOK(w)'
      <4>1. wpc'[w] = "recheck" /\ Busy(w)'
        BY <2>2 DEF Goto, Busy, TypeOK, WorkersTypeOK
      <4>2. /\ status'[job'[w]] = "not_started"
            /\ Len(attempts'[job'[w]]) = number'[w]
            /\ LastCode(attempts'[job'[w]]) = obs'[w].code
        BY <1>1, <2>2, <2>3, <2>8 DEF WorkerOK, locals, log
      <4> QED
        BY <4>1, <4>2 DEF WorkerOK, LastCode
    <3>2. \A v \in Workers \ {w} : WorkerOK(v)'
      <4>1. \A v \in Workers \ {w} : wpc'[v] = wpc[v]
        BY <2>2 DEF Goto, TypeOK, WorkersTypeOK
      <4> QED
        BY <1>1, <2>2, <2>3, <4>1, OthersKeep DEF Core, locals
    <3> QED
      BY <2>9, <3>1, <3>2 DEF WorkerInv
  <2> QED
    BY <2>11, <2>12, <2>13, <2>14, <2>15 DEF Core
<1> QED
  BY <1>2, <1>3

\* Every step of a worker keeps what relates the workers to the targets.
LEMMA WorkerCore == ASSUME TypeOK, Core, NEW w \in Workers, Worker(w) PROVE Core'
<1>1. WorkerOK(w) /\ (Busy(w) => job[w] \in Targets)
  BY JobInTargets DEF Core, WorkerInv
<1> USE DEF locals, targetVars, stateVars, contextVars
<1>2. CASE Take(w)
  BY <1>2, TakeCore
<1>3. CASE Admit(w)
  <2>1. Busy(w) /\ wpc[w] = "admit"
    BY <1>3 DEF Admit, Busy
  <2>2. status[job[w]] = "not_started" /\ attempts[job[w]] = <<>>
    BY <1>1, <2>1 DEF WorkerOK
  <2>3. CASE batchErr # "active" /\ Leave(w, "done")
    <3>1. status' = [status EXCEPT ![job[w]] = "not_started"]
      BY <1>1, <1>3, <2>1, <2>2 DEF Admit, TypeOK, TargetsTypeOK
    <3> QED
      BY <1>3, <2>1, <2>2, <2>3, <3>1, LeaveCore DEF Admit, Settled
  <2>4. CASE Goto(w, "begin") /\ UNCHANGED locals
    <3>1. WorkerOK(w)'
      BY <1>1, <1>3, <2>1, <2>2, <2>4
      DEF Admit, WorkerOK, BeforeAttempt, Busy, Goto, TypeOK, WorkersTypeOK
    <3> QED
      BY <1>3, <2>1, <2>4, <3>1, MoveCore DEF Admit, Places
  <2> QED
    BY <1>3, <2>3, <2>4 DEF Admit
<1>4. CASE Begin(w)
  <2>1. Busy(w)
    BY <1>4 DEF Begin, Busy
  <2>2. CASE batchErr # "active" /\ Interrupt(w)
    BY <1>4, <2>1, <2>2, InterruptCore DEF Begin
  <2>3. ASSUME Goto(w, IF number[w] > 1 THEN "backoff" ELSE "observing"),
               UNCHANGED <<locals, status>>
        PROVE  Core'
    <3>1. WorkerOK(w)'
      BY <1>1, <1>4, <2>3, LimitAssumption
      DEF Begin, WorkerOK, BeforeAttempt, Busy, Goto, TypeOK, WorkersTypeOK
    <3> QED
      BY <1>4, <2>1, <2>3, <3>1, MoveCore DEF Begin, Places
  <2> QED
    BY <1>4, <2>2, <2>3 DEF Begin
<1>5. CASE Backoff(w)
  <2>1. Busy(w) /\ wpc[w] = "backoff"
    BY <1>5 DEF Backoff, Busy
  <2>2. PICK d \in Delays :
          /\ delay' = [delay EXCEPT ![w] = d]
          /\ \/ d \in BackoffMin..BackoffMax /\ Goto(w, "waiting") /\ UNCHANGED failure
             \/ d \notin BackoffMin..BackoffMax /\ Fail(w, "scheduler_failure")
    BY <1>5 DEF Backoff
  <2>3. PICK place \in {"waiting", "cancelling"} :
          /\ Goto(w, place)
          /\ place = "waiting" => d \in BackoffMin..BackoffMax
          /\ place = "cancelling" => failure' # "none"
          /\ failure # "none" => failure' # "none"
    BY <2>2 DEF Fail
  <2>4. WorkerOK(w)'
    BY <1>1, <1>5, <2>1, <2>2, <2>3
    DEF Backoff, WorkerOK, BeforeAttempt, Busy, Goto, TypeOK, WorkersTypeOK
  <2>5. \A v \in Workers \ {w} : delay'[v] = delay[v]
    BY <2>2 DEF TypeOK, WorkersTypeOK
  <2> QED
    BY <1>5, <2>1, <2>3, <2>4, <2>5, MoveCore DEF Backoff, Places
<1>6. CASE WaitElapsed(w)
  <2>1. Busy(w)
    BY <1>6 DEF WaitElapsed, Busy
  <2>2. WorkerOK(w)'
    BY <1>1, <1>6 DEF WaitElapsed, WorkerOK, BeforeAttempt, Busy, Goto, TypeOK, WorkersTypeOK
  <2> QED
    BY <1>6, <2>1, <2>2, MoveCore DEF WaitElapsed, Places
<1>7. CASE WaitFails(w)
  <2>1. Busy(w) /\ wpc[w] = "waiting"
    BY <1>7 DEF WaitFails, Busy
  <2>2. CASE batchErr # "active" /\ Interrupt(w) /\ UNCHANGED failure
    BY <1>7, <2>1, <2>2, InterruptCore DEF WaitFails
  <2>3. CASE Fail(w, "scheduler_failure") /\ UNCHANGED <<locals, status>>
    <3>1. WorkerOK(w)'
      BY <1>1, <1>7, <2>1, <2>3 DEF WaitFails, Fail, WorkerOK, Busy, Goto, TypeOK, WorkersTypeOK
    <3> QED
      BY <1>7, <2>1, <2>3, <3>1, MoveCore DEF WaitFails, Fail, Places
  <2> QED
    BY <1>7, <2>2, <2>3 DEF WaitFails
<1>8. CASE ObserveReturns(w)
  <2>1. Busy(w) /\ wpc[w] = "observing"
    BY <1>8 DEF ObserveReturns, Busy
  <2>2. WorkerOK(w)'
    BY <1>1, <1>8, <2>1
    DEF ObserveReturns, WorkerOK, BeforeAttempt, Busy, Goto, TypeOK, WorkersTypeOK
  <2>3. \A v \in Workers \ {w} : obs'[v] = obs[v]
    BY <1>8 DEF ObserveReturns, TypeOK, WorkersTypeOK
  <2> QED
    BY <1>8, <2>1, <2>2, <2>3, MoveCore DEF ObserveReturns, Places
<1>9. CASE DiscardLate(w)
  <2>1. Busy(w) /\ wpc[w] = "observed"
    BY <1>9 DEF DiscardLate, Busy
  <2>2. CASE LateSuccess(w) /\ Interrupt(w)
    BY <1>9, <2>1, <2>2, InterruptCore DEF DiscardLate, LateSuccess
  <2>3. CASE Goto(w, "validating") /\ UNCHANGED <<locals, status>>
    <3>1. WorkerOK(w)'
      BY <1>1, <1>9, <2>1, <2>3
      DEF DiscardLate, WorkerOK, BeforeAttempt, Busy, Goto, TypeOK, WorkersTypeOK
    <3> QED
      BY <1>9, <2>1, <2>3, <3>1, MoveCore DEF DiscardLate, Places
  <2> QED
    BY <1>9, <2>2, <2>3 DEF DiscardLate
<1>10. CASE Record(w)
  BY <1>10, RecordCore
<1>11. CASE Recheck(w)
  <2>1. Busy(w) /\ wpc[w] = "recheck"
    BY <1>11 DEF Recheck, Busy
  <2>2. Len(attempts[job[w]]) = number[w] /\ LastCode(attempts[job[w]]) = obs[w].code
    BY <1>1, <2>1 DEF WorkerOK
  <2>3. number[w] \in 1..AttemptLimit
    BY DEF TypeOK, WorkersTypeOK
  <2>4. CASE batchErr # "active" /\ Interrupt(w) /\ UNCHANGED failure
    BY <1>11, <2>1, <2>4, InterruptCore DEF Recheck
  <2>5. CASE Fail(w, "invalid_probe_evidence") /\ UNCHANGED <<locals, status>>
    <3>1. WorkerOK(w)'
      BY <1>1, <1>11, <2>1, <2>5 DEF Recheck, Fail, WorkerOK, Busy, Goto, TypeOK, WorkersTypeOK
    <3> QED
      BY <1>11, <2>1, <2>5, <3>1, MoveCore DEF Recheck, Fail, Places
  <2>6. CASE /\ obs[w].code # "cancelled"
             /\ Exhausted(w)
             /\ status' = [status EXCEPT ![job[w]] = "completed"]
             /\ Leave(w, "take")
             /\ UNCHANGED failure
    <3>1. attempts[job[w]] # <<>>
      BY <2>2, <2>3, LimitAssumption
    <3>2. Settled("completed", attempts[job[w]])
      BY <2>2, <2>3, <2>6, <3>1, LimitAssumption DEF Settled, Exhausted
    <3> QED
      BY <1>11, <2>1, <2>6, <3>2, LeaveCore DEF Recheck
  <2>7. CASE /\ ~Exhausted(w)
             /\ number' = [number EXCEPT ![w] = @ + 1]
             /\ Goto(w, "begin")
             /\ UNCHANGED <<job, delay, obs, status, failure>>
    <3>1. ShouldRetry(LastCode(attempts[job[w]]))
      BY <2>2, <2>7 DEF Exhausted
    <3>2. /\ wpc'[w] = "begin" /\ number'[w] = number[w] + 1 /\ job'[w] = job[w]
          /\ \A v \in Workers \ {w} : number'[v] = number[v]
      BY <2>7 DEF Goto, TypeOK, WorkersTypeOK
    <3>3. status'[job'[w]] = "not_started" /\ attempts'[job'[w]] = attempts[job[w]]
      BY <1>1, <1>11, <2>1, <2>7, <3>2 DEF Recheck, WorkerOK
    <3>4. number'[w] > 1 /\ Len(attempts'[job'[w]]) = number'[w] - 1
      BY <2>2, <2>3, <3>2, <3>3, LimitAssumption
    <3>5. ShouldRetry(LastCode(attempts[job[w]]))'
      BY <3>1, <3>3 DEF LastCode
    <3>6. WorkerOK(w)'
      BY <3>2, <3>3, <3>4, <3>5 DEF WorkerOK, BeforeAttempt
    <3> QED
      BY <1>11, <2>1, <2>7, <3>2, <3>6, MoveCore DEF Recheck, Places
  <2> QED
    BY <1>11, <2>4, <2>5, <2>6, <2>7 DEF Recheck
<1>12. CASE CancelBatch(w)
  <2>1. Busy(w) /\ failure # "none"
    BY <1>1, <1>12 DEF CancelBatch, Busy, WorkerOK
  <2> QED
    BY <1>12, <2>1, InterruptCore DEF CancelBatch
<1> QED
  BY <1>2, <1>3, <1>4, <1>5, <1>6, <1>7, <1>8, <1>9, <1>10, <1>11, <1>12 DEF Worker, RunTarget

-----------------------------------------------------------------------------
\* The steps of the caller's and the batch's context.
LEMMA ContextCore ==
  ASSUME TypeOK, Core, UNCHANGED <<request, next, workerVars, targetVars, stateVars>>,
         batchErr # "active" => batchErr' # "active",
         batchErr' = "canceled" => callerErr' = "canceled" \/ failure # "none"
  PROVE  Core'
<1>1. Targets' = Targets /\ Scheduled' = Scheduled /\ Workers' = Workers
  BY DEF Targets, Scheduled, Workers
<1>2. \A w \in Workers : Busy(w)' <=> Busy(w)
  BY DEF Busy, workerVars
<1>3. \A t \in Targets : Owned(t)' <=> Owned(t)
  BY <1>1, <1>2 DEF Owned, workerVars, locals
<1>4. EvidenceInv'
  BY EvidenceStays DEF Core, targetVars, stateVars
<1>5. OwnershipInv' /\ TargetInv'
  BY <1>1, <1>2, <1>3 DEF Core, OwnershipInv, TargetInv, workerVars, locals, targetVars
<1>6. ContextInv'
  BY <1>1, <1>3 DEF Core, ContextInv, workerVars, targetVars, stateVars
<1>7. WorkerInv'
  BY <1>1, <1>2 DEF Core, WorkerInv, WorkerOK, BeforeAttempt, workerVars, locals, targetVars, stateVars
<1> QED
  BY <1>4, <1>5, <1>6, <1>7 DEF Core

\* Only a running Observe has working goroutines.
LEMMA WorkerPhase ==
  ASSUME TypeOK, PhaseInv, ResultInv, NEW w \in Workers, Worker(w)
  PROVE  PhaseInv' /\ ResultInv'
<1>1. wpc[w] \notin {"idle", "done"}
  BY DEF Worker, RunTarget, Take, Admit, Begin, Backoff, WaitElapsed, WaitFails,
     ObserveReturns, DiscardLate, Record, Recheck, CancelBatch
<1>2. phase = "running"
  BY <1>1 DEF PhaseInv, TypeOK, MainTypeOK
<1>3. UNCHANGED <<request, phase>>
  BY DEF Worker, RunTarget, Take, Admit, Begin, Backoff, WaitElapsed, WaitFails,
     ObserveReturns, DiscardLate, Record, Recheck, CancelBatch
<1> QED
  BY <1>2, <1>3 DEF PhaseInv, ResultInv, Returned, InvalidInput

LEMMA ContextSteps == IInv /\ Context => IInv'
<1> SUFFICES ASSUME IInv, Context PROVE IInv'
  OBVIOUS
<1>1. TypeOK'
  BY ContextType DEF IInv
<1>2. /\ UNCHANGED <<request, phase, next, workerVars, targetVars, stateVars, result>>
      /\ phase # "returned"
      /\ batchErr # "active" => batchErr' # "active"
      /\ batchErr' = "canceled" => callerErr' = "canceled" \/ failure # "none"
  BY DEF Context, CallerEnds, Propagate, BatchDeadline, BatchLive, IInv, ContextInv
<1>3. Core'
  BY <1>2, ContextCore DEF IInv, Core
<1>4. PhaseInv'
  BY <1>2 DEF IInv, PhaseInv, InvalidInput, Targets, Scheduled, workerVars, targetVars, stateVars
<1>5. ResultInv'
  BY <1>2 DEF ResultInv, Returned
<1> QED
  BY <1>1, <1>3, <1>4, <1>5 DEF IInv, Core

-----------------------------------------------------------------------------
(***************************************************************************)
(* The steps of main.                                                      *)
(***************************************************************************)
\* A Result that is not completed, for a request that was scheduled.
LEMMA StopResult ==
  ASSUME TypeOK, ~InvalidInput, NEW reason \in {"cancelled", "batch_timeout"} \cup FailureReasons,
         Stop(reason),
         reason = "cancelled" => callerErr = "canceled",
         reason \in FailureReasons => reason = failure,
         UNCHANGED <<request, contextVars, targetVars, stateVars>>
  PROVE  ResultInv'
<1>1. reason # "invalid_input" /\ (reason \in FailureReasons => reason # "cancelled")
  BY DEF FailureReasons
<1>2. ~InvalidInput' /\ Omitted' = Omitted
  BY DEF InvalidInput, Omitted, Scheduled
<1>3. /\ result'.status = IF reason = "cancelled" THEN "cancelled" ELSE "stopped"
      /\ result'.reason = reason /\ result'.omitted = Omitted
      /\ result'.targets = status /\ result'.attempts = attempts
  BY <1>1 DEF Stop, Finish
<1>4. ValidTerminal'
  BY <1>3 DEF ValidTerminal
<1> QED
  BY <1>2, <1>3, <1>4 DEF ResultInv, contextVars, targetVars, stateVars

\* The parts of the invariant a step of main does not touch.
LEMMA MainCore ==
  ASSUME TypeOK, Core, UNCHANGED <<request, contextVars, next, workerVars, targetVars, stateVars>>
  PROVE  Core'
BY ContextCore DEF Core, ContextInv, contextVars

LEMMA StartStep == IInv /\ Start => IInv'
<1> SUFFICES ASSUME IInv, Start PROVE IInv'
  OBVIOUS
<1>1. TypeOK' /\ Core'
  BY MainType, MainCore DEF IInv, Core, Main, Start
<1>2. CASE InvalidInput /\ Stop("invalid_input")
  <2>1. /\ result'.status = "stopped" /\ result'.reason = "invalid_input"
        /\ result'.omitted = 0 /\ result'.targets = <<>> /\ result'.attempts = <<>>
    BY <1>2 DEF Stop, Finish
  <2>2. InvalidInput'
    BY <1>2 DEF Start, InvalidInput
  <2>3. ResultInv'
    BY <2>1, <2>2 DEF ResultInv
  <2>4. PhaseInv'
    BY <1>2 DEF Start, Stop, Finish, IInv, PhaseInv, workerVars
  <2> QED
    BY <1>1, <2>3, <2>4 DEF IInv, Core
<1>3. CASE ~InvalidInput /\ callerErr # "active" /\ Stop(TerminalReason)
  <2>1. TerminalReason \in {"cancelled", "batch_timeout"}
        /\ (TerminalReason = "cancelled" => callerErr = "canceled")
    BY <1>3 DEF TerminalReason, IInv, TypeOK, MainTypeOK, ContextErrors
  <2>2. ResultInv'
    BY <1>3, <2>1, StopResult DEF Start, IInv, FailureReasons
  <2>3. PhaseInv'
    BY <1>3 DEF Start, Stop, Finish, IInv, PhaseInv, workerVars
  <2> QED
    BY <1>1, <2>2, <2>3 DEF IInv, Core
<1>4. CASE ~InvalidInput /\ phase' = "launch"
  <2>1. PhaseInv'
    BY <1>4 DEF Start, IInv, PhaseInv, InvalidInput, workerVars
  <2> QED
    BY <1>1, <1>4, <2>1 DEF IInv, Core, ResultInv, Returned
<1> QED
  BY <1>2, <1>3, <1>4 DEF Start

LEMMA LaunchStep == IInv /\ Launch => IInv'
<1> SUFFICES ASSUME IInv, Launch PROVE IInv'
  OBVIOUS
<1>1. TypeOK'
  BY MainType DEF IInv, Main
<1>2. Targets' = Targets /\ Scheduled' = Scheduled /\ Workers' = Workers /\ Scheduled \in Nat
  BY ScheduledNat DEF Launch, Targets, Scheduled, Workers, IInv, TypeOK, MainTypeOK
<1>3. next = 1 /\ (\A w \in Workers : wpc[w] = "idle") /\ ~InvalidInput
  BY DEF Launch, IInv, PhaseInv
<1>4. \A w \in Workers : /\ ~Busy(w) /\ ~Busy(w)'
                         /\ wpc'[w] \in {"take", "done"}
                         /\ wpc'[w] = "done" => ~(w <= Scheduled)
  BY <1>3 DEF Launch, Busy
<1>5. \A t \in Targets : ~Owned(t) /\ ~Owned(t)'
  BY <1>2, <1>4 DEF Owned
<1>6. OwnershipInv' /\ EvidenceInv' /\ TargetInv'
  <2>1. EvidenceInv'
    BY EvidenceStays DEF IInv, Launch, targetVars, stateVars
  <2>2. OwnershipInv'
    BY <1>2, <1>4 DEF IInv, OwnershipInv, Launch, targetVars
  <2>3. TargetInv'
    BY <1>2, <1>5 DEF IInv, TargetInv, Launch, targetVars
  <2> QED
    BY <2>1, <2>2, <2>3
<1>7. ContextInv'
  BY <1>2, <1>3, <1>4 DEF ContextInv, Launch, Targets
<1>8. WorkerInv'
  BY <1>2, <1>3, <1>4 DEF IInv, WorkerInv, WorkerOK, Launch, locals
<1>9. PhaseInv' /\ ResultInv'
  BY <1>3 DEF Launch, PhaseInv, ResultInv, Returned, InvalidInput
<1> QED
  BY <1>1, <1>6, <1>7, <1>8, <1>9 DEF IInv

LEMMA JoinStep == IInv /\ Join => IInv'
<1> SUFFICES ASSUME IInv, Join PROVE IInv'
  OBVIOUS
<1>1. TypeOK' /\ Core'
  BY MainType, MainCore DEF IInv, Core, Main, Join
<1>2. ~InvalidInput
  BY DEF Join, IInv, PhaseInv
<1>3. CASE failure # "none" /\ Stop(failure)
  <2>1. failure \in FailureReasons /\ failure # "cancelled"
    BY <1>3 DEF IInv, TypeOK, MainTypeOK, FailureReasons
  <2>2. ResultInv'
    BY <1>2, <1>3, <2>1, StopResult DEF Join, IInv
  <2>3. PhaseInv'
    BY <1>2, <1>3 DEF Join, Stop, Finish, PhaseInv, workerVars
  <2> QED
    BY <1>1, <2>2, <2>3 DEF IInv, Core
<1>4. CASE failure = "none" /\ phase' = "joined"
  <2>1. PhaseInv'
    BY <1>2, <1>4 DEF Join, PhaseInv, InvalidInput, workerVars, stateVars
  <2> QED
    BY <1>1, <1>4, <2>1 DEF IInv, Core, ResultInv, Returned
<1> QED
  BY <1>3, <1>4 DEF Join

\* Once every worker is done and no failure was recorded, a batch context that
\* ended by cancellation was cancelled by the caller, and work was left undone
\* only if it ended: the scheduler_failure of Observe's last check is dead code.
LEMMA TerminalMeaning ==
  ASSUME IInv, phase \in {"joined", "committing"}
  PROVE  /\ TerminalReason \in {"none", "cancelled", "batch_timeout"}
         /\ TerminalReason = "cancelled" => callerErr = "canceled"
         /\ TerminalReason = "none" => \A t \in Targets : status[t] = "completed"
<1>1. failure = "none" /\ (\A w \in Workers : wpc[w] = "done") /\ ~InvalidInput
  BY DEF IInv, PhaseInv
<1>2. callerErr \in ContextErrors /\ batchErr \in ContextErrors
  BY DEF IInv, TypeOK, MainTypeOK
<1>3. batchErr = "canceled" => callerErr = "canceled"
  BY <1>1 DEF IInv, ContextInv
<1>4. TerminalReason = "none" => batchErr = "active"
  BY <1>2 DEF TerminalReason, ContextErrors
<1>5. ASSUME batchErr = "active", NEW t \in Targets PROVE status[t] = "completed"
  <2>1. 1 \in Workers /\ 1 <= Scheduled /\ Scheduled \in Nat /\ next \in Nat
    BY <1>1, ScheduledNat, LimitAssumption
    DEF Workers, Scheduled, InvalidInput, IInv, TypeOK, MainTypeOK
  <2>2. next > Scheduled
    BY <1>1, <1>5, <2>1 DEF IInv, ContextInv
  <2>3. ~Owned(t)
    BY <1>1 DEF Owned, Busy
  <2>4. t < next
    BY <2>1, <2>2 DEF Targets
  <2> QED
    BY <1>5, <2>3, <2>4 DEF IInv, ContextInv
<1> QED
  BY <1>2, <1>3, <1>4, <1>5 DEF TerminalReason, ContextErrors

LEMMA SettleStep == IInv /\ Settle => IInv'
<1> SUFFICES ASSUME IInv, Settle PROVE IInv'
  OBVIOUS
<1>1. TypeOK' /\ Core'
  BY MainType, MainCore DEF IInv, Core, Main, Settle
<1>2. phase = "joined" /\ ~InvalidInput /\ SettleReason = TerminalReason
  BY TerminalMeaning DEF Settle, IInv, PhaseInv, SettleReason
<1>3. CASE SettleReason # "none" /\ Stop(SettleReason)
  <2>1. ResultInv'
    BY <1>2, <1>3, TerminalMeaning, StopResult DEF Settle, IInv, FailureReasons
  <2>2. PhaseInv'
    BY <1>2, <1>3 DEF Settle, Stop, Finish, IInv, PhaseInv, workerVars
  <2> QED
    BY <1>1, <2>1, <2>2 DEF IInv, Core
<1>4. CASE SettleReason = "none" /\ phase' = "committing"
  <2>1. PhaseInv'
    BY <1>2, <1>4, TerminalMeaning
    DEF Settle, IInv, PhaseInv, InvalidInput, Targets, Scheduled, workerVars, targetVars, stateVars
  <2> QED
    BY <1>1, <1>4, <2>1 DEF IInv, Core, ResultInv, Returned
<1> QED
  BY <1>3, <1>4 DEF Settle

LEMMA CommitStep == IInv /\ Commit => IInv'
<1> SUFFICES ASSUME IInv, Commit PROVE IInv'
  OBVIOUS
<1>1. TypeOK' /\ Core'
  BY MainType, MainCore DEF IInv, Core, Main, Commit
<1>2. phase = "committing" /\ ~InvalidInput
  BY DEF Commit, IInv, PhaseInv
<1>3. PhaseInv'
  BY <1>2 DEF Commit, Stop, Finish, IInv, PhaseInv, workerVars
<1>4. CASE TerminalReason # "none" /\ Stop(TerminalReason)
  BY <1>1, <1>2, <1>3, <1>4, TerminalMeaning, StopResult DEF Commit, IInv, Core, FailureReasons
<1>5. CASE TerminalReason = "none" /\ Finish("completed", "none")
  <2>1. \A t \in Targets : status[t] = "completed"
    BY <1>2, <1>5, TerminalMeaning
  <2>2. /\ result'.status = "completed" /\ result'.reason = "none"
        /\ result'.omitted = Omitted /\ result'.targets = status /\ result'.attempts = attempts
        /\ UNCHANGED <<request, status, attempts>>
    BY <1>5 DEF Commit, Finish, targetVars
  <2>3. ResultInv'
    BY <1>2, <2>1, <2>2 DEF ResultInv, ValidTerminal, InvalidInput, Omitted, Scheduled, Targets, FailureReasons
  <2> QED
    BY <1>1, <1>3, <2>3 DEF IInv, Core
<1> QED
  BY <1>4, <1>5 DEF Commit

-----------------------------------------------------------------------------
LEMMA InitInvariant == Init => IInv
<1> SUFFICES ASSUME Init PROVE IInv
  OBVIOUS
<1>1. TypeOK
  BY InitType
<1>2. \A w \in Workers : ~Busy(w)
  BY DEF Init, Busy
<1>3. OwnershipInv /\ TargetInv /\ WorkerInv /\ ContextInv
  BY <1>2 DEF Init, OwnershipInv, TargetInv, Settled, WorkerInv, WorkerOK, ContextInv, Targets
<1>4. EvidenceInv
  BY LimitAssumption DEF Init, EvidenceInv, ValidLog
<1>5. PhaseInv /\ ResultInv
  BY DEF Init, PhaseInv, ResultInv, Returned
<1> QED
  BY <1>1, <1>3, <1>4, <1>5 DEF IInv

LEMMA NextInvariant == IInv /\ [Next]_vars => IInv'
<1>1. ASSUME IInv, NEW w \in Workers, Worker(w) PROVE IInv'
  BY <1>1, WorkerType, WorkerCore, WorkerPhase DEF IInv, Core
<1>2. ASSUME IInv, UNCHANGED vars PROVE IInv'
  <2>1. TypeOK'
    BY <1>2, NextType DEF IInv
  <2>2. Core'
    BY <1>2, MainCore DEF IInv, Core, vars
  <2>3. PhaseInv' /\ ResultInv'
    BY <1>2 DEF vars, IInv, PhaseInv, ResultInv, Returned, InvalidInput, Omitted, Targets,
                Scheduled, ValidTerminal, contextVars, workerVars, targetVars, stateVars
  <2> QED
    BY <2>1, <2>2, <2>3 DEF IInv, Core
<1> QED
  BY <1>1, <1>2, ContextSteps, StartStep, LaunchStep, JoinStep, SettleStep, CommitStep
  DEF Next, Main, Done

\* The invariant holds in every reachable state.
THEOREM InvariantHolds == Spec => []IInv
BY InitInvariant, NextInvariant, PTL DEF Spec

\* Whatever the adapters, the delays, the wait and the contexts do, the Result
\* that Observe returns satisfies Validate.
LEMMA ValidFromInvariant == IInv => EmittedResultValid
<1> SUFFICES ASSUME IInv, Returned PROVE ValidResult
  BY DEF EmittedResultValid
<1>1. CASE InvalidInput
  BY <1>1 DEF IInv, ResultInv, ValidResult
<1>2. CASE ~InvalidInput
  <2>1. /\ ValidTerminal
        /\ result.omitted = Omitted
        /\ result.targets = status /\ result.attempts = attempts
        /\ result.status = "completed" => \A t \in Targets : status[t] = "completed"
    BY <1>2 DEF IInv, ResultInv
  <2>2. DOMAIN status = Targets /\ DOMAIN attempts = Targets
    BY DEF IInv, TypeOK, TargetsTypeOK
  <2>3. \A t \in Targets : Settled(status[t], attempts[t]) /\ ValidLog(attempts[t])
    <3>1. \A w \in Workers : ~Busy(w)
      BY DEF IInv, PhaseInv, Returned, Busy
    <3> QED
      BY <3>1 DEF IInv, TargetInv, EvidenceInv, Owned
  <2>4. ASSUME NEW t \in Targets PROVE ValidTarget(status[t], attempts[t])
    <3>1. \A i \in 1..Len(attempts[t]) :
            attempts[t][i].code = "cancelled" => status[t] = "interrupted" /\ i = Len(attempts[t])
      <4> SUFFICES ASSUME NEW i \in 1..Len(attempts[t]), attempts[t][i].code = "cancelled"
                   PROVE  status[t] = "interrupted" /\ i = Len(attempts[t])
        OBVIOUS
      <4>1. Len(attempts[t]) \in Nat /\ attempts[t] # <<>>
        BY DEF IInv, TypeOK, TargetsTypeOK
      <4>2. ~(i < Len(attempts[t]))
        <5>1. ~ShouldRetry(attempts[t][i].code)
          BY DEF ShouldRetry
        <5> SUFFICES ASSUME i < Len(attempts[t]) PROVE FALSE
          OBVIOUS
        <5>2. i + 1 \in 1..Len(attempts[t]) /\ i + 1 > 1 /\ (i + 1) - 1 = i
          BY <4>1
        <5> QED
          BY <2>3, <5>1, <5>2 DEF ValidLog
      <4>3. i = Len(attempts[t])
        BY <4>1, <4>2
      <4> QED
        BY <2>3, <4>1, <4>3 DEF Settled, LastCode
    <3> QED
      BY <2>1, <2>3, <3>1 DEF ValidTarget, Settled, LastCode
  <2>5. SameSource
    BY <2>1, <2>2 DEF SameSource, IInv, EvidenceInv
  <2> QED
    BY <1>2, <2>1, <2>2, <2>4, <2>5 DEF ValidResult
<1> QED
  BY <1>1, <1>2

THEOREM ResultIsValid == Spec => []EmittedResultValid
BY InvariantHolds, ValidFromInvariant, PTL

\* No two goroutines ever write the same TargetResult.
THEOREM TargetsHaveOneOwner == Spec => []TargetsOwned
<1>1. IInv => TargetsOwned
  BY DEF IInv, OwnershipInv, PhaseInv, Returned, TargetsOwned, Busy
<1> QED
  BY <1>1, InvariantHolds, PTL

\* The cancellation that runState.fail causes is never reported as the user's.
THEOREM CancelledMeansCaller == Spec => []CancelledOnlyByCaller
<1>1. IInv => CancelledOnlyByCaller
  BY DEF IInv, ResultInv, CancelledOnlyByCaller
<1> QED
  BY <1>1, InvariantHolds, PTL

\* A failure reason always names a recorded failure.
THEOREM FaultsAreRecorded == Spec => []FaultIsRecorded
<1>1. IInv => FaultIsRecorded
  BY DEF IInv, ResultInv, FailureReasons, FaultIsRecorded
<1> QED
  BY <1>1, InvariantHolds, PTL

\* Attempts follow the retry policy, in every state and for every target.
THEOREM RetryPolicyHolds == Spec => []RetryPolicy
<1>1. ASSUME IInv PROVE RetryPolicy
  <2>1. ASSUME NEW t \in Targets, NEW i \in 1..(Len(attempts[t]) - 1)
        PROVE  attempts[t][i].code \in Transient
    <3>1. Len(attempts[t]) \in Nat
      BY <1>1 DEF IInv, TypeOK, TargetsTypeOK
    <3>2. i + 1 \in 1..Len(attempts[t]) /\ i + 1 > 1 /\ (i + 1) - 1 = i
      BY <3>1
    <3>3. ShouldRetry(attempts[t][i].code)
      BY <1>1, <3>2 DEF IInv, EvidenceInv, ValidLog
    <3> QED
      BY <3>3 DEF ShouldRetry, Transient
  <2>2. ASSUME NEW t \in Targets, status[t] = "completed", Len(attempts[t]) < AttemptLimit
        PROVE  attempts[t][Len(attempts[t])].code \notin Transient
    <3>1. ~ShouldRetry(attempts[t][Len(attempts[t])].code)
      <4>1. CASE Owned(t)
        BY <1>1, <2>2, <4>1 DEF IInv, WorkerInv, WorkerOK, Owned
      <4>2. CASE ~Owned(t)
        BY <1>1, <2>2, <4>2 DEF IInv, TargetInv, Settled, LastCode
      <4> QED
        BY <4>1, <4>2
    <3> QED
      BY <3>1 DEF ShouldRetry, OutcomeOf, FailureCodes, Transient
  <2> QED
    BY <2>1, <2>2 DEF RetryPolicy
<1> QED
  BY <1>1, InvariantHolds, PTL
-----------------------------------------------------------------------------
(***************************************************************************)
(* The dependencies that New installs.                                     *)
(***************************************************************************)
\* Nothing has failed, and what a worker holds is its own request's observation,
\* cancelled only under a cancelled context.
NoFaultInv ==
  /\ failure = "none"
  /\ \A w \in Workers :
       /\ wpc[w] # "cancelling"
       /\ wpc[w] \in {"observed", "validating", "recheck"} =>
            /\ Fits(obs[w].code)
            /\ obs[w].code = "cancelled" => batchErr = "canceled"

\* A step that leaves the other workers where they are and the context as it is
\* has to look at one worker only.
LEMMA NoFaultLocal ==
  ASSUME TypeOK, NoFaultInv, NEW w \in Workers,
         failure' = "none", batchErr' = batchErr,
         \A v \in Workers \ {w} : wpc'[v] = wpc[v] /\ obs'[v] = obs[v],
         wpc'[w] # "cancelling",
         wpc'[w] \in {"observed", "validating", "recheck"} =>
           Fits(obs'[w].code) /\ (obs'[w].code = "cancelled" => batchErr = "canceled")
  PROVE  NoFaultInv'
BY DEF NoFaultInv, Workers

\* With the dependencies of New no step of a worker is a fault.
LEMMA NoFaultWorker ==
  ASSUME Production, "malformed_leaf" \notin Codes, TypeOK, NoFaultInv,
         NEW w \in Workers, Worker(w)
  PROVE  NoFaultInv'
<1>1. wpc \in [Workers -> Places] /\ obs \in [Workers -> Observations \cup {NoObservation}]
  BY DEF TypeOK, WorkersTypeOK
<1>2. ASSUME NEW place, Goto(w, place)
      PROVE  wpc'[w] = place /\ \A v \in Workers \ {w} : wpc'[v] = wpc[v]
  BY <1>1, <1>2 DEF Goto
<1>3. ASSUME NEW place, Leave(w, place)
      PROVE  /\ wpc'[w] = place
             /\ \A v \in Workers \ {w} : wpc'[v] = wpc[v] /\ obs'[v] = obs[v]
  BY <1>1, <1>2, <1>3 DEF Leave, Goto
<1>4. /\ failure = "none" /\ wpc[w] # "cancelling"
      /\ wpc[w] \in {"observed", "validating", "recheck"} =>
           Fits(obs[w].code) /\ (obs[w].code = "cancelled" => batchErr = "canceled")
  BY DEF NoFaultInv
<1> USE DEF locals, targetVars, stateVars, contextVars
<1>5. CASE Take(w)
  BY <1>2, <1>4, <1>5, NoFaultLocal DEF Take
<1>6. CASE Admit(w)
  BY <1>2, <1>3, <1>4, <1>6, NoFaultLocal DEF Admit
<1>7. CASE Begin(w)
  <2>1. PICK place \in {"take", "backoff", "observing"} :
          /\ wpc'[w] = place
          /\ \A v \in Workers \ {w} : wpc'[v] = wpc[v] /\ obs'[v] = obs[v]
    BY <1>2, <1>3, <1>7 DEF Begin, Interrupt
  <2> QED
    BY <1>4, <1>7, <2>1, NoFaultLocal DEF Begin
<1>8. CASE Backoff(w)
  <2>1. Goto(w, "waiting") /\ UNCHANGED failure
    BY <1>8, DependencyAssumption DEF Backoff
  <2> QED
    BY <1>2, <1>4, <1>8, <2>1, NoFaultLocal DEF Backoff
<1>9. CASE WaitElapsed(w)
  BY <1>2, <1>4, <1>9, NoFaultLocal DEF WaitElapsed
<1>10. CASE WaitFails(w)
  BY <1>3, <1>4, <1>10, NoFaultLocal DEF WaitFails, Interrupt
<1>11. CASE ObserveReturns(w)
  <2>1. PICK o \in Observations : MayReturn(o) /\ obs' = [obs EXCEPT ![w] = o]
    BY <1>11 DEF ObserveReturns
  <2>2. obs'[w] = o /\ \A v \in Workers \ {w} : obs'[v] = obs[v]
    BY <1>1, <2>1
  <2>3. Fits(o.code) /\ (o.code = "cancelled" => batchErr = "canceled")
    BY <2>1 DEF MayReturn, Fits, RejectedCodes, Observations
  <2> QED
    BY <1>2, <1>4, <1>11, <2>2, <2>3, NoFaultLocal DEF ObserveReturns
<1>12. CASE DiscardLate(w)
  <2>1. CASE Interrupt(w)
    BY <1>3, <1>4, <1>12, <2>1, NoFaultLocal DEF DiscardLate, Interrupt
  <2>2. CASE Goto(w, "validating") /\ UNCHANGED <<locals, status>>
    BY <1>2, <1>4, <1>12, <2>2, NoFaultLocal DEF DiscardLate
  <2> QED
    BY <1>12, <2>1, <2>2 DEF DiscardLate
<1>13. CASE Record(w)
  <2>1. obs[w] \in Observations /\ accepted \subseteq Sources
    BY <1>13 DEF Record, TypeOK, MainTypeOK, WorkersTypeOK
  <2>2. accepted \subseteq {obs[w].source}
    BY <2>1, DependencyAssumption DEF Observations
  <2>3. Acceptable(obs[w])
    BY <1>4, <1>13, <2>2 DEF Record, Acceptable
  <2> QED
    BY <1>2, <1>4, <1>13, <2>3, NoFaultLocal DEF Record
<1>14. CASE Recheck(w)
  <2>1. ~SpuriousCancel(w)
    BY <1>4, <1>14 DEF Recheck, SpuriousCancel
  <2>2. PICK place \in {"take", "begin"} :
          /\ wpc'[w] = place
          /\ \A v \in Workers \ {w} : wpc'[v] = wpc[v] /\ obs'[v] = obs[v]
    BY <1>2, <1>3, <1>14, <2>1 DEF Recheck, Interrupt
  <2> QED
    BY <1>4, <1>14, <2>1, <2>2, NoFaultLocal DEF Recheck
<1>15. CASE CancelBatch(w)
  BY <1>4, <1>15 DEF CancelBatch
<1> QED
  BY <1>5, <1>6, <1>7, <1>8, <1>9, <1>10, <1>11, <1>12, <1>13, <1>14, <1>15 DEF Worker, RunTarget

\* Nor is any other step.
LEMMA NoFaultStep ==
  ASSUME Production, "malformed_leaf" \notin Codes, IInv, NoFaultInv, [Next]_vars
  PROVE  NoFaultInv'
<1> USE DEF vars, workerVars, locals, contextVars, stateVars
<1>1. CASE UNCHANGED vars \/ Done
  BY <1>1 DEF Done, NoFaultInv
<1>2. CASE Context
  BY <1>2 DEF Context, CallerEnds, Propagate, BatchDeadline, NoFaultInv
<1>3. CASE Launch
  <2>1. \A w \in Workers : wpc'[w] \in {"take", "done"}
    BY <1>3 DEF Launch
  <2> QED
    BY <1>3, <2>1 DEF Launch, NoFaultInv
<1>4. CASE Start \/ Join \/ Settle \/ Commit
  BY <1>4 DEF Start, Join, Settle, Commit, NoFaultInv
<1>5. CASE \E w \in Workers : Worker(w)
  BY <1>5, NoFaultWorker DEF IInv
<1> QED
  BY <1>1, <1>2, <1>3, <1>4, <1>5 DEF Next, Main

\* With what New installs, no race between workers, deadline and cancellation is
\* recorded as a fault, for any limits and any codes that validate.
THEOREM ProductionHasNoFaults == Spec => []ProductionNeverFails
<1>1. CASE Production /\ "malformed_leaf" \notin Codes
  <2>1. Init => NoFaultInv
    BY DEF Init, NoFaultInv
  <2>2. IInv /\ NoFaultInv /\ [Next]_vars => NoFaultInv'
    BY <1>1, NoFaultStep
  <2>3. NoFaultInv => ProductionNeverFails
    BY DEF NoFaultInv, ProductionNeverFails
  <2> QED
    BY <2>1, <2>2, <2>3, InvariantHolds, PTL DEF Spec
<1>2. CASE ~(Production /\ "malformed_leaf" \notin Codes)
  <2>1. ProductionNeverFails
    BY <1>2 DEF ProductionNeverFails
  <2> QED
    BY <2>1, PTL
<1> QED
  BY <1>1, <1>2

-----------------------------------------------------------------------------
(***************************************************************************)
(* The refinement: one call of tlsretrybatch.Observe implements            *)
(* TLSRetryBatchContract.  The initial states map to initial states, and   *)
(* every step of main, of a worker or of a context maps to a step of the   *)
(* contract or to a stutter.                                               *)
(***************************************************************************)
\* Before it returns main has published nothing, and before it starts the workers
\* nothing has failed and the batch context has not ended.
QuietInv ==
  /\ phase # "returned" => result.status = "none"
  /\ phase \in {"start", "launch"} => failure = "none" /\ batchErr = "active"

LEMMA QuietWorkers ==
  ASSUME IInv, QuietInv, NEW w \in Workers, Worker(w)
  PROVE  QuietInv'
<1>1. UNCHANGED <<phase, result>>
  BY DEF Worker, Take, Admit, RunTarget, Begin, Backoff, WaitElapsed, WaitFails, ObserveReturns,
         DiscardLate, Record, Recheck, CancelBatch
<1>2. phase \notin {"start", "launch"}
  BY DEF IInv, PhaseInv, Worker, Take, Admit, RunTarget, Begin, Backoff, WaitElapsed, WaitFails,
         ObserveReturns, DiscardLate, Record, Recheck, CancelBatch
<1> QED
  BY <1>1, <1>2 DEF QuietInv

LEMMA QuietHolds == Spec => []QuietInv
<1>1. Init => QuietInv
  BY DEF Init, QuietInv, EmptyResult
<1>2. IInv /\ QuietInv /\ [Next]_vars => QuietInv'
  <2> SUFFICES ASSUME IInv, QuietInv, [Next]_vars PROVE QuietInv'
    OBVIOUS
  <2>1. CASE Main
    BY <2>1 DEF Main, Start, Launch, Join, Settle, Commit, Stop, Finish, QuietInv, contextVars,
                stateVars
  <2>2. CASE Context
    BY <2>2 DEF Context, CallerEnds, Propagate, BatchDeadline, BatchLive, QuietInv, stateVars
  <2>3. CASE UNCHANGED vars
    BY <2>3 DEF vars, QuietInv, contextVars, stateVars
  <2> QED
    BY <2>1, <2>2, <2>3, QuietWorkers DEF Next, Done
<1> QED
  BY <1>1, <1>2, InvariantHolds, PTL DEF Spec

-----------------------------------------------------------------------------
(***************************************************************************)
(* The mapping.                                                            *)
(***************************************************************************)
TimeUp == callerErr = "deadline" \/ batchErr = "deadline"

\* The contract's words for codes and reasons are those of TLSCodes.
LEMMA SameWords ==
  /\ \A code : Contract!Fits(code) = Fits(code)
  /\ \A code : Contract!ShouldRetry(code) = ShouldRetry(code)
  /\ Contract!FailureReasons = FailureReasons
<1>1. \A code : Contract!OutcomeOf(code) = OutcomeOf(code)
  BY DEF Contract!OutcomeOf, OutcomeOf, Contract!FailureCodes, FailureCodes
<1>2. \A code : Contract!Fits(code) = Fits(code)
  BY DEF Contract!Fits, Fits, Contract!RejectedCodes, RejectedCodes, Contract!ForeignCodes,
         ForeignCodes
<1> QED
  BY <1>1, <1>2 DEF Contract!ShouldRetry, ShouldRetry, Contract!FailureReasons, FailureReasons

LEMMA InitMaps == Init => Contract!Init
<1> SUFFICES ASSUME Init PROVE Contract!Init
  OBVIOUS
<1>1. Scheduled \in 0..TargetLimit
  BY ScheduledNat, LimitAssumption DEF Init, Scheduled
<1>2. TimeUp = (callerErr = "deadline")
  BY DEF Init, TimeUp
<1> QED
  BY <1>1, <1>2 DEF Init, Contract!Init, Contract!Open, Targets, TimeUp, ContextErrors, EmptyResult

-----------------------------------------------------------------------------
(***************************************************************************)
(* The workers.                                                            *)
(***************************************************************************)
\* A worker that holds a target runs before the report, on an unsettled target.
LEMMA RunsOpen ==
  ASSUME IInv, QuietInv, NEW w \in Workers, Busy(w)
  PROVE  /\ Contract!Open
         /\ job[w] \in Targets
         /\ job[w] \in DOMAIN attempts
         /\ job[w] \in DOMAIN status
         /\ status[job[w]] = "not_started"
         /\ number[w] \in 1..AttemptLimit
<1>1. job[w] \in Targets
  BY ScheduledNat DEF IInv, OwnershipInv, TypeOK, MainTypeOK, Targets
<1>2. phase # "returned"
  BY DEF IInv, PhaseInv, Busy
<1> QED
  BY <1>1, <1>2 DEF IInv, TypeOK, TargetsTypeOK, WorkersTypeOK, WorkerInv, WorkerOK, QuietInv,
                    Contract!Open

\* A recorded fault is the contract's, a second one is nothing new.
LEMMA FailMaps ==
  ASSUME IInv, QuietInv, NEW w \in Workers, Busy(w), NEW reason \in FailureReasons,
         Fail(w, reason), UNCHANGED <<attempts, status, accepted, contextVars, result>>
  PROVE  [Contract!Next]_(Contract!vars)
<1>1. CASE failure = "none"
  <2>1. Contract!Break
    BY <1>1, RunsOpen, SameWords DEF Contract!Break, Fail, contextVars
  <2> QED
    BY <2>1 DEF Contract!Next
<1>2. CASE failure # "none"
  BY <1>2 DEF Fail, Contract!vars, contextVars
<1> QED
  BY <1>1, <1>2

\* A target is given up only once the batch has ended for a reason the contract
\* knows; one without an attempt stays as it is.
LEMMA InterruptMaps ==
  ASSUME IInv, QuietInv, NEW w \in Workers, Busy(w), Interrupt(w),
         batchErr # "active" \/ failure # "none",
         UNCHANGED <<attempts, stateVars, callerErr, result>>, TimeUp' = TimeUp
  PROVE  [Contract!Next]_(Contract!vars)
<1> DEFINE t == job[w]
<1>1. CASE attempts[t] = <<>>
  <2>1. status' = status
    BY <1>1, RunsOpen DEF Interrupt, IInv, TypeOK, TargetsTypeOK
  <2> QED
    BY <2>1 DEF Contract!vars, stateVars, TimeUp
<1>2. CASE attempts[t] # <<>>
  <2>1. failure # "none" \/ callerErr # "active" \/ TimeUp
    BY DEF IInv, TypeOK, MainTypeOK, ContextErrors, ContextInv, TimeUp
  <2>2. Contract!InterruptTarget(t)
    BY <1>2, <2>1, RunsOpen DEF Contract!InterruptTarget, Interrupt, stateVars, TimeUp
  <2> QED
    BY <2>2, RunsOpen DEF Contract!Next
<1> QED
  BY <1>1, <1>2

LEMMA RecordMaps ==
  ASSUME IInv, QuietInv, NEW w \in Workers, Record(w)
  PROVE  [Contract!Next]_(Contract!vars)
<1> DEFINE t == job[w]
           o == obs[w]
<1>0. wpc[w] = "validating" /\ Busy(w) /\ o \in Observations
  BY DEF Record, Busy, IInv, TypeOK, WorkersTypeOK
<1>1. CASE Acceptable(o)
  <2>1. /\ accepted' = {o.source}
        /\ attempts' = [attempts EXCEPT ![t] =
             Append(@, [number |-> number[w], delay |-> delay[w], code |-> o.code, source |-> o.source])]
        /\ UNCHANGED <<status, failure, callerErr, batchErr, result>>
    BY <1>0, <1>1 DEF Record, contextVars
  <2>2. /\ Len(attempts[t]) = number[w] - 1
        /\ number[w] > 1 => ShouldRetry(attempts[t][Len(attempts[t])].code)
        /\ number[w] = 1 => delay[w] = 0
        /\ number[w] > 1 => delay[w] \in BackoffMin..BackoffMax
    BY <1>0 DEF IInv, WorkerInv, WorkerOK, BeforeAttempt, LastCode
  <2>3. attempts[t] \in Seq(Attempts) /\ number[w] \in 1..AttemptLimit
    BY <1>0, RunsOpen DEF IInv, TypeOK, TargetsTypeOK
  <2>4. /\ Len(attempts[t]) < AttemptLimit
        /\ number[w] = Len(attempts[t]) + 1
        /\ attempts[t] = <<>> => number[w] = 1
        /\ attempts[t] # <<>> => number[w] > 1
    BY <2>2, <2>3, LimitAssumption
  <2>5. /\ delay[w] \in {0} \cup BackoffMin..BackoffMax
        /\ attempts[t] = <<>> => delay[w] = 0
        /\ attempts[t] # <<>> => delay[w] # 0 /\ Contract!ShouldRetry(attempts[t][Len(attempts[t])].code)
    BY <2>2, <2>3, <2>4, SameWords, DependencyAssumption
  <2>6. Contract!Fits(o.code) /\ accepted \subseteq {o.source}
    BY <1>1, SameWords DEF Acceptable
  <2>7. o.code \in Codes /\ o.source \in Sources
    BY <1>0 DEF Observations
  <2>8. Contract!Open /\ status[t] = "not_started" /\ t \in DOMAIN attempts
    BY <1>0, RunsOpen
  <2>9. Contract!Attempt(t)
    BY <2>1, <2>4, <2>5, <2>6, <2>7, <2>8 DEF Contract!Attempt
  <2> QED
    BY <2>8, <2>9 DEF Contract!Next
<1>2. CASE ~Acceptable(o)
  BY <1>0, <1>2, FailMaps DEF Record, FailureReasons
<1> QED
  BY <1>1, <1>2

LEMMA RecheckMaps ==
  ASSUME IInv, QuietInv, NEW w \in Workers, Recheck(w)
  PROVE  [Contract!Next]_(Contract!vars)
<1> DEFINE t == job[w]
<1>0. /\ wpc[w] = "recheck" /\ Busy(w)
      /\ UNCHANGED <<attempts, accepted, contextVars, result>>
  BY DEF Recheck, Busy
<1>1. CASE batchErr # "active" /\ Interrupt(w) /\ UNCHANGED failure
  BY <1>0, <1>1, InterruptMaps DEF contextVars, stateVars, TimeUp
<1>2. CASE Fail(w, "invalid_probe_evidence") /\ UNCHANGED status
  BY <1>0, <1>2, FailMaps DEF FailureReasons
<1>3. CASE /\ obs[w].code # "cancelled"
           /\ Exhausted(w)
           /\ status' = [status EXCEPT ![t] = "completed"]
           /\ UNCHANGED failure
  <2>1. Len(attempts[t]) = number[w] /\ attempts[t][Len(attempts[t])].code = obs[w].code
    BY <1>0 DEF IInv, WorkerInv, WorkerOK, LastCode
  <2>2. attempts[t] # <<>>
    BY <1>0, <2>1, RunsOpen
  <2>3. /\ attempts[t][Len(attempts[t])].code # "cancelled"
        /\ \/ ~Contract!ShouldRetry(attempts[t][Len(attempts[t])].code)
           \/ Len(attempts[t]) = AttemptLimit
    BY <1>3, <2>1, SameWords DEF Exhausted
  <2>4. Contract!SettleTarget(t)
    BY <1>0, <1>3, <2>2, <2>3, RunsOpen DEF Contract!SettleTarget, contextVars
  <2> QED
    BY <1>0, <2>4, RunsOpen DEF Contract!Next
<1>4. CASE UNCHANGED <<status, failure>>
  BY <1>0, <1>4 DEF Contract!vars, contextVars
<1> QED
  BY <1>1, <1>2, <1>3, <1>4 DEF Recheck, locals

LEMMA WorkerMaps ==
  ASSUME IInv, QuietInv, NEW w \in Workers, Worker(w)
  PROVE  [Contract!Next]_(Contract!vars)
<1>1. CASE Take(w) \/ Admit(w) \/ WaitElapsed(w) \/ ObserveReturns(w)
  BY <1>1 DEF Take, Admit, WaitElapsed, ObserveReturns, Contract!vars, contextVars, targetVars,
              stateVars
<1>2. CASE Begin(w)
  <2>1. CASE batchErr # "active"
    BY <1>2, <2>1, InterruptMaps DEF Begin, Busy, contextVars, stateVars, TimeUp
  <2>2. CASE batchErr = "active"
    BY <1>2, <2>2 DEF Begin, Contract!vars, contextVars, stateVars
  <2> QED
    BY <2>1, <2>2
<1>3. CASE Backoff(w)
  <2>1. CASE UNCHANGED failure
    BY <1>3, <2>1 DEF Backoff, Contract!vars, contextVars, targetVars
  <2>2. CASE Fail(w, "scheduler_failure")
    BY <1>3, <2>2, FailMaps DEF Backoff, Busy, FailureReasons, targetVars
  <2> QED
    BY <1>3, <2>1, <2>2 DEF Backoff
<1>4. CASE WaitFails(w)
  <2>1. CASE batchErr # "active" /\ Interrupt(w) /\ UNCHANGED failure
    BY <1>4, <2>1, InterruptMaps DEF WaitFails, Busy, contextVars, stateVars, TimeUp
  <2>2. CASE Fail(w, "scheduler_failure") /\ UNCHANGED status
    BY <1>4, <2>2, FailMaps DEF WaitFails, Busy, FailureReasons
  <2> QED
    BY <1>4, <2>1, <2>2 DEF WaitFails
<1>5. CASE DiscardLate(w)
  <2>1. CASE LateSuccess(w)
    BY <1>5, <2>1, InterruptMaps DEF DiscardLate, LateSuccess, Busy, contextVars, stateVars, TimeUp
  <2>2. CASE ~LateSuccess(w)
    BY <1>5, <2>2 DEF DiscardLate, Contract!vars, contextVars, stateVars
  <2> QED
    BY <2>1, <2>2
<1>6. CASE CancelBatch(w)
  <2>1. failure # "none" /\ Busy(w)
    BY <1>6 DEF CancelBatch, Busy, IInv, WorkerInv, WorkerOK
  <2>2. TimeUp' = TimeUp
    BY <1>6 DEF CancelBatch, TimeUp
  <2> QED
    BY <1>6, <2>1, <2>2, InterruptMaps DEF CancelBatch
<1> QED
  BY <1>1, <1>2, <1>3, <1>4, <1>5, <1>6, RecordMaps, RecheckMaps DEF Worker, RunTarget

-----------------------------------------------------------------------------
(***************************************************************************)
(* Main and the contexts.                                                  *)
(***************************************************************************)
\* A report with the contract's verdict, which repeats the targets as they are.
LEMMA PublishMaps ==
  ASSUME QuietInv, phase # "returned", Contract!Verdict = <<result'.status, result'.reason>>,
         result'.targets = status, result'.attempts = attempts,
         result'.status = "completed" => \A t \in DOMAIN status : status[t] = "completed",
         UNCHANGED <<contextVars, targetVars, stateVars>>
  PROVE  Contract!Next
<1>1. Contract!Publish
  BY DEF Contract!Publish, Contract!Open, QuietInv, contextVars, targetVars, stateVars
<1> QED
  BY <1>1 DEF Contract!Next

\* What is stopped with a reason of the contexts follows from them.
LEMMA TerminalVerdict ==
  ASSUME IInv, failure = "none", TerminalReason # "none"
  PROVE  Contract!Verdict =
           <<IF TerminalReason = "cancelled" THEN "cancelled" ELSE "stopped", TerminalReason>>
BY DEF IInv, TypeOK, MainTypeOK, ContextErrors, ContextInv, TerminalReason, Contract!Verdict

LEMMA StopMaps ==
  ASSUME IInv, QuietInv, phase # "returned", failure = "none", TerminalReason # "none",
         Stop(TerminalReason), UNCHANGED <<contextVars, targetVars, stateVars>>
  PROVE  Contract!Next
<1>1. TerminalReason # "invalid_input"
  BY DEF TerminalReason
<1>2. /\ result'.status = IF TerminalReason = "cancelled" THEN "cancelled" ELSE "stopped"
      /\ result'.reason = TerminalReason
      /\ result'.targets = status /\ result'.attempts = attempts
  BY <1>1 DEF Stop, Finish
<1>3. result'.status # "completed"
  BY <1>2
<1> QED
  BY <1>2, <1>3, TerminalVerdict, PublishMaps

LEMMA MainMaps ==
  ASSUME IInv, IInv', QuietInv, Main
  PROVE  [Contract!Next]_(Contract!vars)
<1>0. IInv /\ QuietInv /\ UNCHANGED <<targetVars, stateVars>>
  BY DEF Main, Start, Launch, Join, Settle, Commit
<1>1. CASE Start
  <2>1. CASE InvalidInput /\ Stop("invalid_input")
    <3>1. \A t \in DOMAIN attempts : attempts[t] = <<>>
      BY <1>1 DEF Start, IInv, PhaseInv, OwnershipInv, TypeOK, TargetsTypeOK, Targets
    <3>2. /\ result'.status = "stopped" /\ result'.reason = "invalid_input"
          /\ result'.attempts = <<>>
      BY <2>1 DEF Stop, Finish
    <3>3. Contract!Refuse
      BY <1>1, <3>1, <3>2 DEF Start, QuietInv, Contract!Refuse, Contract!Open, contextVars,
                              targetVars, stateVars
    <3> QED
      BY <3>3 DEF Contract!Next
  <2>2. CASE callerErr # "active" /\ Stop(TerminalReason)
    <3>1. failure = "none" /\ TerminalReason # "none" /\ phase # "returned"
      BY <1>1, <2>2 DEF Start, QuietInv, IInv, TypeOK, MainTypeOK, ContextErrors, TerminalReason
    <3> QED
      BY <1>1, <2>2, <3>1, StopMaps DEF Start
  <2>3. CASE UNCHANGED result
    BY <1>1, <2>3 DEF Start, Contract!vars, contextVars, targetVars, stateVars
  <2> QED
    BY <1>1, <2>1, <2>2, <2>3 DEF Start
<1>2. CASE Launch
  <2>1. TimeUp' = TimeUp
    BY <1>2 DEF Launch, QuietInv, TimeUp
  <2> QED
    BY <1>2, <2>1 DEF Launch, TimeUp, Contract!vars, targetVars, stateVars
<1>3. CASE Join
  <2>1. CASE failure # "none" /\ Stop(failure)
    <3>1. failure \in FailureReasons
      BY <2>1 DEF IInv, TypeOK, MainTypeOK
    <3>2. /\ result'.status = "stopped" /\ result'.reason = failure
          /\ result'.targets = status /\ result'.attempts = attempts
      BY <2>1, <3>1 DEF Stop, Finish, FailureReasons
    <3>3. Contract!Verdict = <<"stopped", failure>>
      BY <2>1 DEF Contract!Verdict
    <3> QED
      BY <1>3, <3>2, <3>3, PublishMaps DEF Join
  <2>2. CASE UNCHANGED result
    BY <1>3, <2>2 DEF Join, Contract!vars, contextVars, targetVars, stateVars
  <2> QED
    BY <1>3, <2>1, <2>2 DEF Join
<1>4. CASE Settle
  <2>0. failure = "none" /\ phase # "returned"
    BY <1>4 DEF Settle, IInv, PhaseInv
  <2>1. CASE SettleReason # "none" /\ Stop(SettleReason)
    <3>1. SettleReason # "scheduler_failure"
      <4> SUFFICES ASSUME SettleReason = "scheduler_failure" PROVE FALSE
        OBVIOUS
      <4>1. Returned' /\ result'.reason = "scheduler_failure"
        BY <2>1 DEF Stop, Finish, Returned
      <4>2. ~InvalidInput'
        BY <1>4 DEF Settle, IInv, PhaseInv, InvalidInput
      <4>3. result'.reason = failure'
        BY <4>1, <4>2 DEF IInv, ResultInv, FailureReasons
      <4> QED
        BY <2>0, <4>1, <4>3, <1>0 DEF stateVars
    <3>2. SettleReason = TerminalReason
      BY <2>1, <3>1 DEF SettleReason
    <3> QED
      BY <1>4, <2>0, <2>1, <3>2, StopMaps DEF Settle
  <2>2. CASE UNCHANGED result
    BY <1>4, <2>2 DEF Settle, Contract!vars, contextVars, targetVars, stateVars
  <2> QED
    BY <1>4, <2>1, <2>2 DEF Settle
<1>5. CASE Commit
  <2>0. failure = "none" /\ phase # "returned"
    BY <1>5 DEF Commit, IInv, PhaseInv
  <2>1. CASE TerminalReason # "none" /\ Stop(TerminalReason)
    BY <1>5, <2>0, <2>1, StopMaps DEF Commit
  <2>2. CASE TerminalReason = "none" /\ Finish("completed", "none")
    <3>1. Contract!Verdict = <<"completed", "none">>
      BY <2>0, <2>2 DEF Contract!Verdict, TerminalReason
    <3>2. /\ result'.status = "completed" /\ result'.reason = "none"
          /\ result'.targets = status /\ result'.attempts = attempts
      BY <2>2 DEF Finish
    <3>3. \A t \in DOMAIN status : status[t] = "completed"
      BY <1>5 DEF Commit, IInv, PhaseInv, TypeOK, TargetsTypeOK
    <3> QED
      BY <1>5, <2>0, <3>1, <3>2, <3>3, PublishMaps DEF Commit
  <2> QED
    BY <1>5, <2>1, <2>2 DEF Commit
<1> QED
  BY <1>1, <1>2, <1>3, <1>4, <1>5 DEF Main

LEMMA ContextMaps ==
  ASSUME IInv, QuietInv, Context
  PROVE  [Contract!Next]_(Contract!vars)
<1>1. CASE CallerEnds
  <2>1. TimeUp' = (TimeUp \/ callerErr' = "deadline")
    BY <1>1 DEF CallerEnds, TimeUp
  <2>2. Contract!EndCaller
    BY <1>1, <2>1 DEF CallerEnds, TimeUp, QuietInv, Contract!EndCaller, Contract!Open, targetVars,
                      stateVars
  <2> QED
    BY <2>2 DEF Contract!Next
<1>2. CASE Propagate
  <2>1. TimeUp' = TimeUp
    BY <1>2 DEF Propagate, TimeUp
  <2> QED
    BY <1>2, <2>1 DEF Propagate, TimeUp, Contract!vars, targetVars, stateVars
<1>3. CASE BatchDeadline
  <2>1. CASE TimeUp
    <3>1. TimeUp' = TimeUp
      BY <1>3, <2>1 DEF BatchDeadline, TimeUp
    <3> QED
      BY <1>3, <3>1 DEF BatchDeadline, TimeUp, Contract!vars, targetVars, stateVars
  <2>2. CASE ~TimeUp
    <3>1. Contract!Expire
      BY <1>3, <2>2 DEF BatchDeadline, BatchLive, TimeUp, QuietInv, Contract!Expire,
                        Contract!Open, targetVars, stateVars
    <3> QED
      BY <3>1 DEF Contract!Next
  <2> QED
    BY <2>1, <2>2
<1> QED
  BY <1>1, <1>2, <1>3 DEF Context

-----------------------------------------------------------------------------
LEMMA NextMaps == IInv /\ IInv' /\ QuietInv /\ [Next]_vars => [Contract!Next]_(Contract!vars)
<1> SUFFICES ASSUME IInv, IInv', QuietInv, [Next]_vars PROVE [Contract!Next]_(Contract!vars)
  OBVIOUS
<1>1. CASE UNCHANGED vars
  BY <1>1 DEF vars, Contract!vars, contextVars, targetVars, stateVars
<1> QED
  BY <1>1, MainMaps, ContextMaps, WorkerMaps DEF Next, Done

\* Observe keeps its contract, for any number of targets, workers and attempts and
\* any adapter: evidence only grows, by the retry policy and from one adapter, and
\* the one report follows from the first fault, the caller's context and the clock.
THEOREM ObserveImplementsContract == Spec => ImplementsContract
BY InitMaps, NextMaps, InvariantHolds, QuietHolds, PTL DEF Spec, ImplementsContract, Contract!Spec
=============================================================================
