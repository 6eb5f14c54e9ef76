--------------------------- MODULE WebObservation ---------------------------
(***************************************************************************)
(* internal/webobservation: one HTTP/1.1 request to a literal address.     *)
(*                                                                         *)
(* RoundTrip runs in net/http, which calls back into a trace when it has   *)
(* connected, finished the TLS handshake and written the request.  When    *)
(* the context ends RoundTrip returns at once, and the dial it started     *)
(* goes on in a goroutine of its own and may still move the trace.         *)
(***************************************************************************)
EXTENDS Probe

CONSTANTS
  Hostnames,  \* what may be asked for: "valid", "invalid", "unstable"
  Protocols   \* the HTTP versions servers answer with: "1.0", "1.1", "other"

NoTrace == [connected |-> FALSE, secured |-> FALSE, written |-> FALSE]

Locals ==
  [input : [scheme : {"http", "https"}, hostname : Hostnames,
            target : {"public", "refused"}],
   trace : {NoTrace}, cause : {"none"}, response : {{}}, evidence : {{}}]

Init == Start(Locals)

Secure == local.input.scheme = "https"

-----------------------------------------------------------------------------
(***************************************************************************)
(* failure.go.                                                             *)
(***************************************************************************)
TimeoutCode == [tcp |-> "tcp_timeout", tls |-> "tls_timeout", http |-> "http_timeout"]
ResetCode == [tcp |-> "tcp_connection_reset", tls |-> "tls_connection_reset",
              http |-> "http_connection_reset"]
FallbackCode == [tcp |-> "tcp_failure", tls |-> "tls_handshake_failure", http |-> "http_protocol_failure"]

\* classifyContext, then classifyAttemptContext: the caller's context first.
EndedCode(error, stage) ==
  CASE error = "canceled" -> "cancelled"
    [] error = "deadline" -> TimeoutCode[stage]
    [] OTHER -> "none"

AttemptCode(stage) ==
  IF EndedCode(parent, stage) # "none" THEN EndedCode(parent, stage) ELSE EndedCode(attempt, stage)

ExchangeCode(cause, stage) ==
  CASE cause = "timeout" -> TimeoutCode[stage]
    [] cause = "certificate" -> "tls_certificate_failure"
    [] cause = "refused" -> "tcp_connection_refused"
    [] cause = "no_route" -> "tcp_no_route"
    [] cause = "reset" -> ResetCode[stage]
    [] OTHER -> FallbackCode[stage]

\* failureStage.
Stage ==
  IF ~local.trace.connected THEN "tcp"
  ELSE IF Secure /\ ~local.trace.secured THEN "tls"
  ELSE "http"

-----------------------------------------------------------------------------
Rejected(input) == input.hostname # "valid" \/ input.target = "refused"

Normalize ==
  /\ phase = "start"
  /\ \/ Rejected(local.input) /\ Fail("invalid_input")
     \/ ~Rejected(local.input) /\ GoTo("entered")

Enter ==
  /\ phase = "entered"
  /\ \/ Ended(parent) /\ Fail(EndedCode(parent, "tcp"))
     \/ /\ ~Ended(parent)
        /\ BeginAttempt
        /\ phase' = "exchange"
        /\ UNCHANGED <<parent, local, result>>

-----------------------------------------------------------------------------
(***************************************************************************)
(* The exchange.                                                           *)
(***************************************************************************)
Underway == phase = "exchange" \/ (phase = "failed" /\ local.cause = "own")

\* The callbacks of the trace, in their order.
Trace ==
  /\ Underway
  /\ LET t == local.trace
         ready == t.connected /\ (Secure => t.secured)
     IN \/ ~t.connected /\ local' = [local EXCEPT !.trace.connected = TRUE]
        \/ /\ Secure /\ t.connected /\ ~t.secured
           /\ local' = [local EXCEPT !.trace.secured = TRUE]
        \/ ready /\ ~t.written /\ local' = [local EXCEPT !.trace.written = TRUE]
  /\ UNCHANGED <<contexts, phase, result>>

ExchangeReturns(cause) ==
  /\ phase' = "failed"
  /\ local' = [local EXCEPT !.cause = cause]
  /\ UNCHANGED <<contexts, result>>

\* The literal dialer's own refusals come when the trace has the connection.
ExchangeFails ==
  /\ phase = "exchange"
  /\ \E cause \in {"timeout", "refused", "no_route", "reset", "other", "certificate"} :
       /\ cause = "certificate" => Stage = "tls"
       /\ ExchangeReturns(cause)

GiveUp ==
  /\ phase = "exchange"
  /\ Ended(attempt)
  /\ ExchangeReturns("own")

\* A server may answer before it has seen the whole request.
Respond ==
  /\ phase = "exchange"
  /\ Stage = "http"
  /\ phase' = "answered"
  /\ \E sound \in BOOLEAN, protocol \in Protocols :
       local' = [local EXCEPT !.response = {[sound |-> sound, protocol |-> protocol]}]
  /\ UNCHANGED <<contexts, result>>

-----------------------------------------------------------------------------
(***************************************************************************)
(* After the exchange.                                                     *)
(***************************************************************************)
\* Mutant: the error is classified before the contexts are looked at.
ClassifyErrorFirst ==
  /\ phase = "failed"
  /\ Fail(ExchangeCode(local.cause, Stage))

Classify ==
  /\ phase = "failed"
  /\ Fail(IF AttemptCode(Stage) # "none" THEN AttemptCode(Stage)
          ELSE ExchangeCode(local.cause, Stage))

\* successDurations, then evidenceFromResponse.
Inspect ==
  /\ phase = "answered"
  /\ \E response \in local.response :
       IF local.trace.written /\ response.sound
       THEN /\ phase' = "commit"
            /\ local' = [local EXCEPT
                 !.evidence = {[protocol |-> response.protocol, tls |-> Secure]}]
            /\ UNCHANGED <<contexts, result>>
       ELSE Fail("http_protocol_failure")

Commit ==
  /\ phase = "commit"
  /\ \/ AttemptCode("http") # "none" /\ Fail(AttemptCode("http"))
     \/ AttemptCode("http") = "none" /\ \E e \in local.evidence : Succeed(e)

Steps == Normalize \/ Enter \/ GiveUp \/ Classify \/ Inspect \/ Commit
Observe == Steps \/ Trace \/ ExchangeFails \/ Respond \/ AttemptEnds

Progress == Steps \/ AttemptEnds
Spec == Init /\ [][Observe \/ CallerEnds]_vars /\ WF_vars(Progress)

-----------------------------------------------------------------------------
(***************************************************************************)
(* validate.go.                                                            *)
(***************************************************************************)
TLSCodes == {"tls_timeout", "tls_connection_reset", "tls_certificate_failure", "tls_handshake_failure"}

FailureCodes ==
  {"invalid_input", "cancelled", "tcp_connection_refused", "tcp_no_route", "tcp_timeout",
   "tcp_connection_reset", "tcp_failure", "http_timeout", "http_connection_reset",
   "http_protocol_failure"} \cup TLSCodes

ValidResult(r) ==
  /\ ValidEnvelope(r)
  /\ r.code \in FailureCodes \cup {"none"}
  /\ \A input \in r.input :
       /\ input.hostname # "unstable"
       /\ Rejected(input) = (r.code = "invalid_input")
       /\ input.scheme = "http" => r.code \notin TLSCodes
       /\ \A e \in r.evidence :
            /\ e.protocol \in {"1.0", "1.1"}
            /\ e.tls = (input.scheme = "https")
=============================================================================
