--------------------------- MODULE TLSRetryBatch ---------------------------
(***************************************************************************)
(* internal/tlsretrybatch: one call of Observe.                            *)
(*                                                                         *)
(* A bounded batch of hostname-free TLS observations.  The goroutine that  *)
(* called Observe ("main" below) fills a closed channel with the indices   *)
(* of the scheduled targets and starts at most ConcurrencyLimit worker     *)
(* goroutines; each worker drains the channel and runs every target it     *)
(* receives through the retry loop of runTarget.  The workers share the    *)
(* batch context and a runState (first failure, accepted adapter).  After  *)
(* workers.Wait main decides the terminal status and publishes one Result. *)
(*                                                                         *)
(* Every read of a context is a step of its own, because the caller may    *)
(* cancel, and the batch deadline may pass, between any two of them.       *)
(***************************************************************************)
EXTENDS Naturals, Sequences, TLSCodes

CONSTANTS
  TargetLimit,        \* targets that are scheduled, the others are omitted
  RequestTargetLimit, \* unique targets a request may name
  ConcurrencyLimit,   \* worker goroutines
  AttemptLimit,       \* first attempt and retries of one target
  BackoffMin,         \* the fixed jitter bounds (milliseconds in the code)
  BackoffMax,
  Delays,             \* what retryDelay() may return
  Codes,              \* the observations the TLS adapter may produce
  Sources,            \* the probe.Source values an adapter may report
  MaxUnique,          \* bound of the model: unique targets in a request
  Production          \* TRUE: the dependencies New installs; FALSE: any
                      \* implementation of the injectable dependencies

ASSUME LimitAssumption ==
  /\ TargetLimit \in Nat \ {0}
  /\ RequestTargetLimit \in Nat \ {0}
  /\ ConcurrencyLimit \in Nat \ {0}
  /\ AttemptLimit \in Nat \ {0}
  /\ MaxUnique \in Nat

ASSUME DependencyAssumption ==
  /\ BackoffMin \in Nat \ {0}
  /\ BackoffMax \in Nat
  /\ BackoffMin <= BackoffMax
  /\ Delays \subseteq Nat
  /\ Codes \subseteq AllCodes
  /\ Production \in BOOLEAN
  /\ Production => /\ Delays \subseteq BackoffMin..BackoffMax
                   /\ \A s1, s2 \in Sources : s1 = s2

Observations == [code : Codes, source : Sources]
NoObservation == [code |-> "none", source |-> "none"]
Attempts == [number : Nat, delay : Nat, code : Codes, source : Sources]
Workers == 1..ConcurrencyLimit
ContextErrors == {"active", "canceled", "deadline"}
Requests == {r \in [unique : 0..MaxUnique, firstErr : {"none", "not_public"}] :
               r.unique = 0 => r.firstErr = "none"}

VARIABLES
  request,    \* the normalized request: unique targets, the first error
  phase,      \* where main is
  callerErr,  \* ctx.Err() of the caller's context
  batchErr,   \* batchCtx.Err()
  next,       \* the first index still in the jobs channel
  wpc,        \* where each worker goroutine is
  job,        \* the index a worker received last
  number,     \* attemptNumber of the worker's runTarget
  delay,      \* retryDelay of the worker's runTarget
  obs,        \* the observation the worker holds
  status,     \* targets[i].Status
  attempts,   \* targets[i].Attempts
  failure,    \* runState.failureReason, "none" while runState.failure is nil
  accepted,   \* {} or {runState.source}
  result      \* the Result returned, status "none" before

contextVars == <<callerErr, batchErr>>
locals == <<job, number, delay, obs>>
workerVars == <<wpc, locals>>
targetVars == <<status, attempts>>
stateVars == <<failure, accepted>>
vars == <<request, phase, contextVars, next, workerVars, targetVars, stateVars, result>>

-----------------------------------------------------------------------------
(***************************************************************************)
(* normalizeRequest, boundedTargets, omittedTargets.                       *)
(***************************************************************************)
InvalidInput ==
  \/ request.unique = 0
  \/ request.firstErr # "none"
  \/ request.unique > RequestTargetLimit

Scheduled == IF request.unique < TargetLimit THEN request.unique ELSE TargetLimit
Omitted == request.unique - Scheduled
Targets == 1..Scheduled

EmptyResult == [status |-> "none", reason |-> "none", omitted |-> 0,
                targets |-> <<>>, attempts |-> <<>>]

Places == {"idle", "take", "admit", "begin", "backoff", "waiting", "observing",
           "observed", "validating", "recheck", "cancelling", "done"}

MainTypeOK ==
  /\ request \in Requests
  /\ phase \in {"start", "launch", "running", "joined", "committing", "returned"}
  /\ callerErr \in ContextErrors
  /\ batchErr \in ContextErrors
  /\ next \in 1..(Scheduled + 1)
  /\ failure \in FailureReasons \cup {"none"}
  /\ accepted \subseteq Sources
  /\ result.status \in {"none", "completed", "stopped", "cancelled"}
  /\ result.reason \in StopReasons \cup {"none"}

WorkersTypeOK ==
  /\ wpc \in [Workers -> Places]
  /\ job \in [Workers -> Nat]
  /\ number \in [Workers -> 1..AttemptLimit]
  /\ delay \in [Workers -> Nat]
  /\ obs \in [Workers -> Observations \cup {NoObservation}]
  /\ \A w \in Workers :
       wpc[w] \in {"observed", "validating", "recheck"} => obs[w] \in Observations

TargetsTypeOK ==
  /\ status \in [Targets -> TargetStatuses]
  /\ attempts \in [Targets -> Seq(Attempts)]

TypeOK == MainTypeOK /\ WorkersTypeOK /\ TargetsTypeOK

Init ==
  /\ request \in Requests
  /\ phase = "start"
  /\ callerErr \in ContextErrors
  /\ batchErr = "active"
  /\ next = 1
  /\ wpc = [w \in Workers |-> "idle"]
  /\ job = [w \in Workers |-> 0]
  /\ number = [w \in Workers |-> 1]
  /\ delay = [w \in Workers |-> 0]
  /\ obs = [w \in Workers |-> NoObservation]
  /\ status = [t \in Targets |-> "not_started"]
  /\ attempts = [t \in Targets |-> <<>>]
  /\ failure = "none"
  /\ accepted = {}
  /\ result = EmptyResult

-----------------------------------------------------------------------------
(***************************************************************************)
(* Contexts.  A context error is set once.  The batch context is a child   *)
(* of the caller's: cancel() of the parent sets the parent's error first   *)
(* and reaches the child afterwards, and the child also has a deadline.    *)
(***************************************************************************)
CallerEnds ==
  /\ phase # "returned"
  /\ callerErr = "active"
  /\ callerErr' \in {"canceled", "deadline"}
  /\ UNCHANGED <<request, phase, batchErr, next, workerVars, targetVars, stateVars, result>>

BatchLive == phase \in {"running", "joined", "committing"}

Propagate ==
  /\ BatchLive
  /\ callerErr # "active"
  /\ batchErr = "active"
  /\ batchErr' = callerErr
  /\ UNCHANGED <<request, phase, callerErr, next, workerVars, targetVars, stateVars, result>>

\* Mutant: the batch context is made without a deadline.
NoBatchDeadline == FALSE

BatchDeadline ==
  /\ BatchLive
  /\ batchErr = "active"
  /\ batchErr' = "deadline"
  /\ UNCHANGED <<request, phase, callerErr, next, workerVars, targetVars, stateVars, result>>

\* parentTerminal and batchTerminal: the parent is looked at first.
TerminalReason ==
  IF callerErr = "canceled" THEN "cancelled"
  ELSE IF callerErr = "deadline" THEN "batch_timeout"
  ELSE IF batchErr = "deadline" THEN "batch_timeout"
  ELSE IF batchErr = "canceled" THEN "cancelled" ELSE "none"

-----------------------------------------------------------------------------
(***************************************************************************)
(* Main: the goroutine that called Observe.                                *)
(***************************************************************************)
\* finish copies the targets into the Result.
Finish(verdict, reason) ==
  /\ phase' = "returned"
  /\ result' = [status |-> verdict, reason |-> reason,
                omitted |-> IF reason = "invalid_input" THEN 0 ELSE Omitted,
                targets |-> IF reason = "invalid_input" THEN <<>> ELSE status,
                attempts |-> IF reason = "invalid_input" THEN <<>> ELSE attempts]

Stop(reason) ==
  Finish(IF reason = "cancelled" THEN "cancelled" ELSE "stopped", reason)

\* Input check and the parentTerminal check before any work.
Start ==
  /\ phase = "start"
  /\ \/ InvalidInput /\ Stop("invalid_input")
     \/ ~InvalidInput /\ callerErr # "active" /\ Stop(TerminalReason)
     \/ ~InvalidInput /\ callerErr = "active" /\ phase' = "launch" /\ UNCHANGED result
  /\ UNCHANGED <<request, contextVars, next, workerVars, targetVars, stateVars>>

\* context.WithTimeout, the filled and closed jobs channel, and go func().
Launch ==
  /\ phase = "launch"
  /\ phase' = "running"
  /\ batchErr' = callerErr
  /\ wpc' = [w \in Workers |-> IF w <= Scheduled THEN "take" ELSE "done"]
  /\ UNCHANGED <<request, callerErr, next, locals, targetVars, stateVars, result>>

\* Mutant: Wait is not called.
JoinEarly ==
  /\ phase = "running"
  /\ \/ failure # "none" /\ Stop(failure)
     \/ failure = "none" /\ phase' = "joined" /\ UNCHANGED result
  /\ UNCHANGED <<request, contextVars, next, workerVars, targetVars, stateVars>>

\* Mutant: getFailure is not consulted.
JoinIgnoresFailure ==
  /\ phase = "running"
  /\ \A w \in Workers : wpc[w] = "done"
  /\ phase' = "joined"
  /\ UNCHANGED <<request, contextVars, next, workerVars, targetVars, stateVars, result>>

\* workers.Wait, then getFailure.
Join ==
  /\ phase = "running"
  /\ \A w \in Workers : wpc[w] = "done"
  /\ \/ failure # "none" /\ Stop(failure)
     \/ failure = "none" /\ phase' = "joined" /\ UNCHANGED result
  /\ UNCHANGED <<request, contextVars, next, workerVars, targetVars, stateVars>>

\* batchTerminal, then the check that every target settled.
SettleReason ==
  IF TerminalReason # "none" THEN TerminalReason
  ELSE IF \E t \in Targets : status[t] # "completed" THEN "scheduler_failure" ELSE "none"

Settle ==
  /\ phase = "joined"
  /\ \/ SettleReason # "none" /\ Stop(SettleReason)
     \/ SettleReason = "none" /\ phase' = "committing" /\ UNCHANGED result
  /\ UNCHANGED <<request, contextVars, next, workerVars, targetVars, stateVars>>

\* Mutant: the context is not looked at again before the commit.
CommitUnchecked ==
  /\ phase = "committing"
  /\ Finish("completed", "none")
  /\ UNCHANGED <<request, contextVars, next, workerVars, targetVars, stateVars>>

\* beforeSuccessCommit has run; batchTerminal once more, then completed.
Commit ==
  /\ phase = "committing"
  /\ \/ TerminalReason # "none" /\ Stop(TerminalReason)
     \/ TerminalReason = "none" /\ Finish("completed", "none")
  /\ UNCHANGED <<request, contextVars, next, workerVars, targetVars, stateVars>>

-----------------------------------------------------------------------------
(***************************************************************************)
(* Workers: the goroutine body and runTarget.                              *)
(***************************************************************************)
Goto(w, place) == wpc' = [wpc EXCEPT ![w] = place]

\* The end of an iteration of the range loop: its variables go out of scope.
Leave(w, place) ==
  /\ Goto(w, place)
  /\ job' = [job EXCEPT ![w] = 0]
  /\ number' = [number EXCEPT ![w] = 1]
  /\ delay' = [delay EXCEPT ![w] = 0]
  /\ obs' = [obs EXCEPT ![w] = NoObservation]

\* Mutant: a target without attempts is marked interrupted too.
InterruptAlways(w) ==
  /\ status' = [status EXCEPT ![job[w]] = "interrupted"]
  /\ Leave(w, "take")

\* interruptTarget, then back to the range over the jobs channel.
Interrupt(w) ==
  /\ status' = [status EXCEPT ![job[w]] =
                  IF attempts[job[w]] = <<>> THEN "not_started" ELSE "interrupted"]
  /\ Leave(w, "take")

\* Mutant: the last failure wins.
FailOverwrites(w, reason) == failure' = reason /\ Goto(w, "cancelling")

\* The first half of runState.fail: under the mutex the first failure wins.
Fail(w, reason) ==
  /\ failure' = IF failure = "none" THEN reason ELSE failure
  /\ Goto(w, "cancelling")

\* for index := range jobs
Take(w) ==
  /\ wpc[w] = "take"
  /\ \/ /\ next <= Scheduled
        /\ job' = [job EXCEPT ![w] = next]
        /\ next' = next + 1
        /\ Goto(w, "admit")
     \/ /\ next > Scheduled
        /\ Goto(w, "done")
        /\ UNCHANGED <<job, next>>
  /\ UNCHANGED <<request, phase, contextVars, number, delay, obs, targetVars, stateVars, result>>

\* if batchCtx.Err() != nil { return }, else runTarget starts.
Admit(w) ==
  /\ wpc[w] = "admit"
  /\ \/ batchErr # "active" /\ Leave(w, "done")
     \/ batchErr = "active" /\ Goto(w, "begin") /\ UNCHANGED locals
  /\ UNCHANGED <<request, phase, contextVars, next, targetVars, stateVars, result>>

\* The head of the attempt loop.
Begin(w) ==
  /\ wpc[w] = "begin"
  /\ \/ batchErr # "active" /\ Interrupt(w)
     \/ /\ batchErr = "active"
        /\ Goto(w, IF number[w] > 1 THEN "backoff" ELSE "observing")
        /\ UNCHANGED <<locals, status>>
  /\ UNCHANGED <<request, phase, contextVars, next, attempts, stateVars, result>>

\* retryDelay() and the check of its bounds.
Backoff(w) ==
  /\ wpc[w] = "backoff"
  /\ \E d \in Delays :
       /\ delay' = [delay EXCEPT ![w] = d]
       /\ \/ d \in BackoffMin..BackoffMax /\ Goto(w, "waiting") /\ UNCHANGED failure
          \/ d \notin BackoffMin..BackoffMax /\ Fail(w, "scheduler_failure")
  /\ UNCHANGED <<request, phase, contextVars, next, job, number, obs,
                 targetVars, accepted, result>>

\* The wait ends with the timer.
WaitElapsed(w) ==
  /\ wpc[w] = "waiting"
  /\ Goto(w, "observing")
  /\ UNCHANGED <<request, phase, contextVars, next, locals, targetVars, stateVars, result>>

\* Mutant: a wait that fails in an active batch is not recorded as a failure.
WaitFailsSilently(w) ==
  /\ wpc[w] = "waiting"
  /\ batchErr # "active" \/ ~Production
  /\ Interrupt(w)
  /\ UNCHANGED <<request, phase, contextVars, next, attempts, stateVars, result>>

\* The wait returns an error: because the context ended or, with an injected
\* wait, for no such reason, which is a scheduler failure.
WaitFails(w) ==
  /\ wpc[w] = "waiting"
  /\ \/ batchErr # "active" /\ Interrupt(w) /\ UNCHANGED failure
     \/ /\ batchErr = "active"
        /\ ~Production
        /\ Fail(w, "scheduler_failure")
        /\ UNCHANGED <<locals, status>>
  /\ UNCHANGED <<request, phase, contextVars, next, attempts, accepted, result>>

\* What tls.Observe may answer now.  The production observer returns its own
\* input and source, and a cancellation only when its context was cancelled.
MayReturn(o) ==
  Production => /\ o.code \notin ForeignCodes
                /\ o.code = "cancelled" => batchErr = "canceled"

ObserveReturns(w) ==
  /\ wpc[w] = "observing"
  /\ \E o \in Observations : MayReturn(o) /\ obs' = [obs EXCEPT ![w] = o]
  /\ Goto(w, "observed")
  /\ UNCHANGED <<request, phase, contextVars, next, job, number, delay,
                 targetVars, stateVars, result>>

\* A success that is late, after the batch context ended, is discarded.
LateSuccess(w) == batchErr # "active" /\ OutcomeOf(obs[w].code) = "succeeded"

DiscardLate(w) ==
  /\ wpc[w] = "observed"
  /\ \/ LateSuccess(w) /\ Interrupt(w)
     \/ ~LateSuccess(w) /\ Goto(w, "validating") /\ UNCHANGED <<locals, status>>
  /\ UNCHANGED <<request, phase, contextVars, next, attempts, stateVars, result>>

\* validateObservation with acceptSource; a valid observation is appended.
Acceptable(o) == Fits(o.code) /\ accepted \subseteq {o.source}

Record(w) ==
  /\ wpc[w] = "validating"
  /\ \/ /\ Acceptable(obs[w])
        /\ accepted' = {obs[w].source}
        /\ attempts' = [attempts EXCEPT ![job[w]] =
             Append(@, [number |-> number[w], delay |-> delay[w],
                        code |-> obs[w].code, source |-> obs[w].source])]
        /\ Goto(w, "recheck")
        /\ UNCHANGED failure
     \/ /\ ~Acceptable(obs[w])
        /\ Fail(w, "invalid_probe_evidence")
        /\ UNCHANGED <<accepted, attempts>>
  /\ UNCHANGED <<request, phase, contextVars, next, locals, status, result>>

\* The retry sequence is over.
Exhausted(w) == ~ShouldRetry(obs[w].code) \/ number[w] = AttemptLimit

\* Mutant: a cancelled observation is blamed on the adapter before the context
\* is looked at.
CancelledIsSpurious(w) == obs[w].code = "cancelled"

\* A cancellation while the batch is active.
SpuriousCancel(w) == batchErr = "active" /\ obs[w].code = "cancelled"

\* After the append: the context again, a spurious cancellation, the retry.
Recheck(w) ==
  /\ wpc[w] = "recheck"
  /\ \/ batchErr # "active" /\ Interrupt(w) /\ UNCHANGED failure
     \/ /\ SpuriousCancel(w)
        /\ Fail(w, "invalid_probe_evidence")
        /\ UNCHANGED <<locals, status>>
     \/ /\ batchErr = "active"
        /\ obs[w].code # "cancelled"
        /\ Exhausted(w)
        /\ status' = [status EXCEPT ![job[w]] = "completed"]
        /\ Leave(w, "take")
        /\ UNCHANGED failure
     \/ /\ batchErr = "active"
        /\ obs[w].code # "cancelled"
        /\ ~Exhausted(w)
        /\ number' = [number EXCEPT ![w] = @ + 1]
        /\ Goto(w, "begin")
        /\ UNCHANGED <<job, delay, obs, status, failure>>
  /\ UNCHANGED <<request, phase, contextVars, next, attempts, accepted, result>>

\* The second half of runState.fail, s.cancel(), and interruptTarget.
CancelBatch(w) ==
  /\ wpc[w] = "cancelling"
  /\ batchErr' = IF batchErr = "active" THEN "canceled" ELSE batchErr
  /\ Interrupt(w)
  /\ UNCHANGED <<request, phase, callerErr, next, attempts, stateVars, result>>

-----------------------------------------------------------------------------
RunTarget(w) ==
  \/ Begin(w) \/ Backoff(w) \/ WaitElapsed(w) \/ WaitFails(w) \/ ObserveReturns(w)
  \/ DiscardLate(w) \/ Record(w) \/ Recheck(w) \/ CancelBatch(w)

Worker(w) == Take(w) \/ Admit(w) \/ RunTarget(w)

Main == Start \/ Launch \/ Join \/ Settle \/ Commit

Context == CallerEnds \/ Propagate \/ BatchDeadline

\* Observe has returned.
Done == phase = "returned" /\ UNCHANGED vars

Next == Main \/ Context \/ (\E w \in Workers : Worker(w)) \/ Done

Spec == Init /\ [][Next]_vars

(***************************************************************************)
(* Fairness.  Goroutines that can run do run, timers fire, a cancelled     *)
(* parent reaches its children.  tls.Observe is trusted to return only     *)
(* once its context has ended: nothing is assumed of an attempt while the  *)
(* batch context is active, and of the wait no more than its own timer.    *)
(***************************************************************************)
WorkerSteps(w) ==
  \/ Take(w) \/ Admit(w) \/ Begin(w) \/ Backoff(w) \/ WaitElapsed(w)
  \/ DiscardLate(w) \/ Record(w) \/ Recheck(w) \/ CancelBatch(w)
  \/ (batchErr # "active" /\ ObserveReturns(w))

Fairness ==
  /\ WF_vars(Main)
  /\ WF_vars(Propagate)
  /\ WF_vars(BatchDeadline)
  /\ \A w \in Workers : WF_vars(WorkerSteps(w))

FairSpec == Spec /\ Fairness
=============================================================================
