---------------------- MODULE TLSRetryBatchProperties ----------------------
(***************************************************************************)
(* The properties of tlsretrybatch.Observe.  Validate is the package's own *)
(* contract, translated on its own: the command line refuses to print a    *)
(* result that fails it.                                                   *)
(***************************************************************************)
EXTENDS TLSRetryBatch

Returned == phase = "returned"

-----------------------------------------------------------------------------
(***************************************************************************)
(* Validate.                                                               *)
(***************************************************************************)
\* validateTerminalShape, and the shape of an invalid request.
ValidTerminal ==
  \/ result.status = "completed" /\ result.reason = "none"
  \/ result.status = "stopped" /\ result.reason \in {"batch_timeout"} \cup FailureReasons
  \/ result.status = "cancelled" /\ result.reason = "cancelled"

\* The attempts of one target: numbers, delays, retry policy, embedded result.
ValidLog(log) ==
  /\ Len(log) <= AttemptLimit
  /\ \A i \in 1..Len(log) :
       /\ log[i].number = i
       /\ i = 1 => log[i].delay = 0
       /\ i > 1 => /\ log[i].delay \in BackoffMin..BackoffMax
                   /\ ShouldRetry(log[i - 1].code)
       /\ Fits(log[i].code)

\* The status of one target against its attempts and against the batch.
ValidTarget(mark, log) ==
  /\ \/ mark = "completed" /\ log # <<>>
     \/ mark = "interrupted" /\ log # <<>> /\ result.status # "completed"
     \/ mark = "not_started" /\ log = <<>> /\ result.status # "completed"
  /\ ValidLog(log)
  /\ \A i \in 1..Len(log) :
       log[i].code = "cancelled" => mark = "interrupted" /\ i = Len(log)
  /\ mark = "completed" /\ Len(log) < AttemptLimit => ~ShouldRetry(log[Len(log)].code)

\* Every embedded result names the same adapter.
SameSource ==
  \A t, u \in DOMAIN result.attempts :
    \A i \in 1..Len(result.attempts[t]), j \in 1..Len(result.attempts[u]) :
      result.attempts[t][i].source = result.attempts[u][j].source

ValidResult ==
  IF InvalidInput
  THEN /\ result.status = "stopped"
       /\ result.reason = "invalid_input"
       /\ result.omitted = 0
       /\ result.targets = <<>>
  ELSE /\ ValidTerminal
       /\ result.omitted = Omitted
       /\ DOMAIN result.targets = Targets
       /\ \A t \in Targets : ValidTarget(result.targets[t], result.attempts[t])
       /\ SameSource
       /\ result.status = "completed" => \A t \in Targets : result.targets[t] = "completed"

-----------------------------------------------------------------------------
\* Whatever the adapter, the delays, the wait and the caller do, and however
\* the workers, the deadline and the cancellation interleave, the Result that
\* Observe returns satisfies the package's Validate.
EmittedResultValid == Returned => ValidResult

\* Workers that run a target run different targets, and every target that was
\* left is in its final status: no two goroutines ever write the same
\* TargetResult, and none writes one that finish copies.
Busy(w) == wpc[w] \notin {"idle", "take", "done"}
TargetsOwned ==
  /\ \A w1, w2 \in Workers : Busy(w1) /\ Busy(w2) /\ w1 # w2 => job[w1] # job[w2]
  /\ Returned => \A w \in Workers : ~Busy(w)

\* The batch is reported as cancelled only if the caller cancelled: the
\* cancel() of runState.fail, which cancels the same batch context, is never
\* mistaken for the user, nor is the deadline.
CancelledOnlyByCaller ==
  Returned /\ result.status = "cancelled" => callerErr = "canceled"

\* scheduler_failure and invalid_probe_evidence name a dependency that broke
\* its contract: the last check of Observe, for a target that ended "without a
\* terminal context", never is the reason.
FaultIsRecorded ==
  Returned /\ result.reason \in FailureReasons => result.reason = failure

\* With the dependencies New installs, and TLS observations that validate, no
\* interleaving of cancellation, deadline and late answers is ever taken for
\* broken evidence or a broken scheduler.
ProductionNeverFails ==
  Production /\ "malformed_leaf" \notin Codes => failure = "none"

\* A target is observed again only after a TCP timeout or reset or a handshake
\* timeout or reset, and settles on one of these only when its attempts are
\* used up; every other class of result settles the target at once.
Transient == {"tcp_timeout", "tcp_connection_reset", "handshake_timeout", "connection_reset"}
RetryPolicy ==
  \A t \in Targets :
    /\ \A i \in 1..(Len(attempts[t]) - 1) : attempts[t][i].code \in Transient
    /\ status[t] = "completed" /\ Len(attempts[t]) < AttemptLimit =>
         attempts[t][Len(attempts[t])].code \notin Transient

-----------------------------------------------------------------------------
\* Observe returns, although an attempt may hang until its context ends.
Terminates == <>Returned

\* A cancellation that comes before the verdict ends the batch, and the batch
\* is then not completed: no answer that is late turns into a success.
CancelEndsBatch ==
  callerErr = "canceled" /\ ~Returned ~> Returned /\ result.status # "completed"

-----------------------------------------------------------------------------
(***************************************************************************)
(* Observe implements the contract: evidence only grows, by the policy and *)
(* from one adapter, and the one report follows from fault, caller, clock. *)
(***************************************************************************)
Contract == INSTANCE TLSRetryBatchContract WITH
  log <- attempts,
  mark <- status,
  adapter <- accepted,
  fault <- failure,
  caller <- callerErr,
  timeUp <- callerErr = "deadline" \/ batchErr = "deadline",
  report <- result

\* Every step of the workers, of main and of the contexts is a step of the
\* contract or leaves what it describes unchanged.
ImplementsContract == Contract!Spec
=============================================================================
