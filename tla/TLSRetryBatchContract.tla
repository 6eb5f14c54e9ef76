----------------------- MODULE TLSRetryBatchContract -----------------------
(***************************************************************************)
(* What one call of tlsretrybatch.Observe promises, without goroutines,    *)
(* channels or locks: per scheduled target a log of attempts that only     *)
(* grows, by the fixed retry policy and from one adapter; and one report,  *)
(* published once, whose verdict follows from the recorded fault, the      *)
(* caller's context and the clock, and which repeats the logs as they are. *)
(***************************************************************************)
EXTENDS Naturals, Sequences, TLSCodes

CONSTANTS TargetLimit, AttemptLimit, BackoffMin, BackoffMax, Codes, Sources

VARIABLES
  log,      \* attempts of each scheduled target, oldest first
  mark,     \* the status of each scheduled target
  adapter,  \* the adapter the evidence comes from, {} before the first
  fault,    \* the first broken dependency, "none" while there is none
  caller,   \* the caller's context
  timeUp,   \* a deadline, the batch's or the caller's, has passed
  report    \* the verdict and what is published with it

vars == <<log, mark, adapter, fault, caller, timeUp, report>>

Open == report.status = "none"

Init ==
  /\ \E n \in 0..TargetLimit :
       /\ log = [t \in 1..n |-> <<>>]
       /\ mark = [t \in 1..n |-> "not_started"]
  /\ adapter = {}
  /\ fault = "none"
  /\ caller \in {"active", "canceled", "deadline"}
  /\ timeUp = (caller = "deadline")
  /\ Open

\* One more attempt: the first without delay, a later one after a delay within
\* bounds and after a transient result only.
Attempt(t) ==
  /\ Open
  /\ mark[t] = "not_started"
  /\ Len(log[t]) < AttemptLimit
  /\ \E code \in Codes, source \in Sources, d \in {0} \cup BackoffMin..BackoffMax :
       /\ Fits(code)
       /\ adapter \subseteq {source}
       /\ IF log[t] = <<>> THEN d = 0
          ELSE d # 0 /\ ShouldRetry(log[t][Len(log[t])].code)
       /\ log' = [log EXCEPT ![t] = Append(@,
            [number |-> Len(@) + 1, delay |-> d, code |-> code, source |-> source])]
       /\ adapter' = {source}
  /\ UNCHANGED <<mark, fault, caller, timeUp, report>>

\* A target settles on a final result or on the last attempt it may make.
SettleTarget(t) ==
  /\ Open
  /\ mark[t] = "not_started"
  /\ log[t] # <<>>
  /\ LET last == log[t][Len(log[t])].code
     IN  /\ last # "cancelled"
         /\ ~ShouldRetry(last) \/ Len(log[t]) = AttemptLimit
  /\ mark' = [mark EXCEPT ![t] = "completed"]
  /\ UNCHANGED <<log, adapter, fault, caller, timeUp, report>>

\* A target is given up, with the evidence it has, only once something ended
\* the batch.
InterruptTarget(t) ==
  /\ Open
  /\ mark[t] = "not_started"
  /\ log[t] # <<>>
  /\ fault # "none" \/ caller # "active" \/ timeUp
  /\ mark' = [mark EXCEPT ![t] = "interrupted"]
  /\ UNCHANGED <<log, adapter, fault, caller, timeUp, report>>

\* A dependency breaks its contract; the first one is remembered.
Break ==
  /\ Open
  /\ fault = "none"
  /\ fault' \in FailureReasons
  /\ UNCHANGED <<log, mark, adapter, caller, timeUp, report>>

\* The caller's context ends; a deadline passes.
EndCaller ==
  /\ Open
  /\ caller = "active"
  /\ caller' \in {"canceled", "deadline"}
  /\ timeUp' = (timeUp \/ caller' = "deadline")
  /\ UNCHANGED <<log, mark, adapter, fault, report>>

Expire ==
  /\ Open
  /\ ~timeUp
  /\ timeUp'
  /\ UNCHANGED <<log, mark, adapter, fault, caller, report>>

\* The verdict: a fault first, then the user, then the clock.
Verdict ==
  IF fault # "none" THEN <<"stopped", fault>>
  ELSE IF caller = "canceled" THEN <<"cancelled", "cancelled">>
  ELSE IF timeUp THEN <<"stopped", "batch_timeout">>
  ELSE <<"completed", "none">>

Publish ==
  /\ Open
  /\ report'.status = Verdict[1]
  /\ report'.reason = Verdict[2]
  /\ report'.targets = mark
  /\ report'.attempts = log
  /\ Verdict[1] = "completed" => \A t \in DOMAIN mark : mark[t] = "completed"
  /\ UNCHANGED <<log, mark, adapter, fault, caller, timeUp>>

\* A request that cannot be scheduled is refused before any attempt.
Refuse ==
  /\ Open
  /\ \A t \in DOMAIN log : log[t] = <<>>
  /\ report'.status = "stopped"
  /\ report'.reason = "invalid_input"
  /\ report'.attempts = <<>>
  /\ UNCHANGED <<log, mark, adapter, fault, caller, timeUp>>

Next ==
  \/ \E t \in DOMAIN log : Attempt(t) \/ SettleTarget(t) \/ InterruptTarget(t)
  \/ Break \/ EndCaller \/ Expire \/ Publish \/ Refuse

Spec == Init /\ [][Next]_vars
=============================================================================
