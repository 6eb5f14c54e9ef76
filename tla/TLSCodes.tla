------------------------------ MODULE TLSCodes ------------------------------
(***************************************************************************)
(* What a retry batch distinguishes in a tlsobservation.Result: the        *)
(* failure code of a failed TCP connection, the unconfirmed reason of a    *)
(* failed handshake, a completed handshake, a cancellation; and envelopes  *)
(* that tlsobservation.Validate, or the comparison with the fixed platform *)
(* and request, rejects.  "malformed_leaf" is the one of those the         *)
(* production observer can return: a completed handshake whose leaf        *)
(* certificate has not_after <= not_before.                                *)
(***************************************************************************)
FailureCodes == {"tcp_connection_refused", "tcp_no_route", "tcp_timeout",
                 "tcp_connection_reset", "tcp_failure", "foreign_failure"}
UnconfirmedReasons == {"handshake_timeout", "connection_closed", "connection_reset",
                       "handshake_failure", "exchange_failure"}
ForeignCodes == {"foreign_failure", "foreign_success"}
RejectedCodes == ForeignCodes \cup {"malformed_leaf"}
AllCodes == FailureCodes \cup UnconfirmedReasons \cup RejectedCodes
              \cup {"completed", "cancelled"}

OutcomeOf(code) ==
  IF code \in FailureCodes THEN "failed"
  ELSE IF code = "cancelled" THEN "cancelled" ELSE "succeeded"

\* Mutant: a refused connection is retried.
RetryRefused(code) ==
  code \in {"tcp_timeout", "tcp_connection_reset", "tcp_connection_refused",
            "handshake_timeout", "connection_reset"}

\* shouldRetry: a TCP timeout or reset, a handshake timeout or reset.
ShouldRetry(code) ==
  \/ OutcomeOf(code) = "failed" /\ code \in {"tcp_timeout", "tcp_connection_reset"}
  \/ OutcomeOf(code) = "succeeded" /\ code \in {"handshake_timeout", "connection_reset"}

\* tlsobservation.Validate and the comparison with the fixed request.
Fits(code) == code \notin RejectedCodes

FailureReasons == {"invalid_probe_evidence", "scheduler_failure"}
StopReasons == FailureReasons \cup {"invalid_input", "batch_timeout", "cancelled"}
TargetStatuses == {"completed", "interrupted", "not_started"}
=============================================================================
