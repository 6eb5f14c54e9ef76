----------------------- MODULE TLSRetryBatchInvariant -----------------------
(***************************************************************************)
(* The inductive invariant behind the theorems of TLSRetryBatchProofs.     *)
(* None of the properties is inductive alone: a Result is valid because of *)
(* what held of every target while a worker ran it.                        *)
(***************************************************************************)
EXTENDS TLSRetryBatchProperties

Owned(t) == \E w \in Workers : Busy(w) /\ job[w] = t

LastCode(log) == log[Len(log)].code

\* Running workers hold different targets, all of them taken from the channel;
\* a target still in the channel is untouched.
OwnershipInv ==
  /\ \A w \in Workers : Busy(w) => job[w] \in 1..(next - 1)
  /\ \A w1, w2 \in Workers : Busy(w1) /\ Busy(w2) /\ w1 # w2 => job[w1] # job[w2]
  /\ \A t \in Targets : t >= next => status[t] = "not_started" /\ attempts[t] = <<>>

\* The attempts of every target follow the policy, from the accepted adapter.
EvidenceInv ==
  /\ \A s1, s2 \in accepted : s1 = s2
  /\ \A t \in Targets :
       /\ ValidLog(attempts[t])
       /\ \A i \in 1..Len(attempts[t]) : attempts[t][i].source \in accepted

\* What a worker knows of the target it runs, at each place of runTarget.
BeforeAttempt(w) ==
  /\ Len(attempts[job[w]]) = number[w] - 1
  /\ number[w] > 1 => ShouldRetry(LastCode(attempts[job[w]]))

WorkerOK(w) ==
  /\ Busy(w) => status[job[w]] = "not_started"
  /\ wpc[w] \in {"idle", "take", "admit"} => number[w] = 1 /\ delay[w] = 0
  /\ wpc[w] = "admit" => attempts[job[w]] = <<>>
  /\ wpc[w] \in {"begin", "backoff", "waiting", "observing", "observed", "validating"}
       => BeforeAttempt(w)
  /\ wpc[w] \in {"begin", "observing", "observed", "validating"} /\ number[w] = 1
       => delay[w] = 0
  /\ wpc[w] \in {"backoff", "waiting"} => number[w] > 1
  /\ wpc[w] \in {"waiting", "observing", "observed", "validating"} /\ number[w] > 1
       => delay[w] \in BackoffMin..BackoffMax
  /\ wpc[w] = "recheck" => /\ Len(attempts[job[w]]) = number[w]
                           /\ LastCode(attempts[job[w]]) = obs[w].code
  /\ wpc[w] = "cancelling" => failure # "none"

WorkerInv == \A w \in Workers : WorkerOK(w)

\* What a target that no worker runs looks like.
Settled(mark, log) ==
  \/ mark = "completed" /\ log # <<>> /\ LastCode(log) # "cancelled"
       /\ (Len(log) < AttemptLimit => ~ShouldRetry(LastCode(log)))
  \/ mark = "interrupted" /\ log # <<>>
  \/ mark = "not_started" /\ log = <<>>

TargetInv == \A t \in Targets : ~Owned(t) => Settled(status[t], attempts[t])

\* Work is left undone only once the batch context has ended, and that ends by
\* cancellation only with the caller's or after a recorded failure.
ContextInv ==
  /\ batchErr = "canceled" => callerErr = "canceled" \/ failure # "none"
  /\ \A t \in Targets : t < next /\ ~Owned(t) /\ status[t] # "completed" => batchErr # "active"
  /\ \A w \in Workers : wpc[w] = "done" /\ w <= Scheduled =>
       next > Scheduled \/ batchErr # "active"

\* Where main is, where the workers are.
PhaseInv ==
  /\ phase \in {"start", "launch"} => next = 1 /\ \A w \in Workers : wpc[w] = "idle"
  /\ phase \in {"joined", "committing", "returned"} =>
       \A w \in Workers : wpc[w] \in {"idle", "done"}
  /\ phase \in {"joined", "committing"} => \A w \in Workers : wpc[w] = "done"
  /\ phase \in {"joined", "committing"} => failure = "none"
  /\ phase \notin {"start", "returned"} => ~InvalidInput
  /\ phase = "committing" => \A t \in Targets : status[t] = "completed"

\* The Result repeats what the workers left.
ResultInv ==
  Returned =>
    IF InvalidInput
    THEN /\ result.status = "stopped" /\ result.reason = "invalid_input"
         /\ result.omitted = 0 /\ result.targets = <<>> /\ result.attempts = <<>>
    ELSE /\ ValidTerminal
         /\ result.omitted = Omitted
         /\ result.targets = status
         /\ result.attempts = attempts
         /\ result.status = "completed" => \A t \in Targets : status[t] = "completed"
         /\ result.status = "cancelled" => callerErr = "canceled"
         /\ result.reason \in FailureReasons => result.reason = failure

IInv ==
  /\ TypeOK
  /\ OwnershipInv
  /\ EvidenceInv
  /\ WorkerInv
  /\ TargetInv
  /\ ContextInv
  /\ PhaseInv
  /\ ResultInv
=============================================================================
