----------------------------- MODULE DirectProbe -----------------------------
(***************************************************************************)
(* What tlsobservation and sshobservation do alike: one TCP connection to  *)
(* one literal address, an exchange on it, and a commit that reads the     *)
(* contexts once more.  A probe that reached its target succeeds; its      *)
(* evidence is confirmed only if the exchange was finished in time:        *)
(*   status   "confirmed" or "unconfirmed"                                 *)
(*   reason   why it is unconfirmed, "none" if it is confirmed             *)
(*   found    what a confirmed exchange found, {} otherwise                *)
(*   kept     what is reported of the exchange in either case              *)
(***************************************************************************)
EXTENDS Probe

DirectLocals(kept) ==
  [input : [target : {"public", "refused"}], conn : {"none"}, cause : {"none"},
   evidence : {{}}, kept : {kept}]

Confirmed(found, kept) ==
  [status |-> "confirmed", reason |-> "none", found |-> {found}, kept |-> kept]
Unconfirmed(reason, kept) ==
  [status |-> "unconfirmed", reason |-> reason, found |-> {}, kept |-> kept]

-----------------------------------------------------------------------------
(***************************************************************************)
(* TCP.                                                                    *)
(***************************************************************************)
TCPCode == [refused |-> "tcp_connection_refused", no_route |-> "tcp_no_route",
            reset |-> "tcp_connection_reset", other |-> "tcp_failure", own |-> "tcp_failure"]

\* classifyTCPFailure; the cause "own" is the error of a context that ended.
TCPFailure(inner, cause) ==
  IF parent = "canceled" THEN "cancelled"
  ELSE IF "deadline" \in {parent, inner} \/ cause = "timeout" THEN "tcp_timeout"
  ELSE IF inner = "canceled" THEN "cancelled"
  ELSE TCPCode[cause]

Normalize ==
  /\ phase = "start"
  /\ \/ local.input.target = "refused" /\ Fail("invalid_input")
     \/ local.input.target = "public" /\ GoTo("entered")

Enter ==
  /\ phase = "entered"
  /\ \/ Ended(parent) /\ Fail(TCPFailure(parent, "own"))
     \/ /\ ~Ended(parent)
        /\ BeginAttempt
        /\ phase' = "dial"
        /\ UNCHANGED <<parent, local, result>>

DialReturns(cause) ==
  /\ phase' = "dialFailed"
  /\ local' = [local EXCEPT !.cause = cause]
  /\ UNCHANGED <<contexts, result>>

DialFails ==
  /\ phase = "dial"
  /\ \E cause \in {"timeout", "refused", "no_route", "reset", "other"} : DialReturns(cause)

DialGivesUp ==
  /\ phase = "dial"
  /\ Ended(attempt)
  /\ DialReturns("own")

ReportDial ==
  /\ phase = "dialFailed"
  /\ Fail(TCPFailure(attempt, local.cause))

\* The socket's remote address is compared with the target, then the attempt's
\* deadline is set on the connection.
Dialled ==
  /\ phase = "dial"
  /\ \/ Fail("tcp_failure")
     \/ /\ phase' = "commit"
        /\ local' = [local EXCEPT !.evidence = {Unconfirmed("exchange_failure", local.kept)}]
        /\ UNCHANGED <<contexts, result>>
     \/ /\ phase' = "exchange"
        /\ local' = [local EXCEPT !.conn = "open"]
        /\ UNCHANGED <<contexts, result>>

-----------------------------------------------------------------------------
(***************************************************************************)
(* The connection's deadline: that of the attempt, or at once when the     *)
(* attempt ends (AfterFunc).  The first may run out before the context's   *)
(* own timer.                                                              *)
(***************************************************************************)
Expire ==
  /\ local.conn = "open"
  /\ local' = [local EXCEPT !.conn = "expired"]
  /\ UNCHANGED <<contexts, phase, result>>

ConnectionDeadline == Expire

\* Mutant: only the attempt's deadline interrupts the exchange.
InterruptOnDeadline == attempt = "deadline" /\ Expire

Interrupt == Ended(attempt) /\ Expire

Exchanged(cause, evidence) ==
  /\ phase' = "commit"
  /\ local' = [local EXCEPT !.conn = "none", !.cause = cause, !.evidence = {evidence}]
  /\ UNCHANGED <<contexts, result>>

-----------------------------------------------------------------------------
(***************************************************************************)
(* commitEvidence, which reads the caller's context twice.                 *)
(***************************************************************************)
CheckCancelled ==
  /\ phase = "commit"
  /\ \/ parent = "canceled" /\ Fail("cancelled")
     \/ parent # "canceled" /\ GoTo("settle")

\* Mutant: what was found is kept although the time is over.
SettleAsFound ==
  /\ phase = "settle"
  /\ \E e \in local.evidence : Succeed(e)

Settle ==
  /\ phase = "settle"
  /\ \E e \in local.evidence :
       Succeed(IF Ended(parent) \/ Ended(attempt) THEN Unconfirmed("timeout", e.kept) ELSE e)

Connect == Normalize \/ Enter \/ DialGivesUp \/ ReportDial
CommitEvidence == CheckCancelled \/ Settle

DirectStep ==
  \/ Connect \/ DialFails \/ Dialled
  \/ ConnectionDeadline \/ Interrupt
  \/ CommitEvidence \/ AttemptEnds

\* What the code and its timers do whatever the peer does; each of these steps
\* is taken finitely often, so one weak fairness for all of them is enough.
DirectProgress == Connect \/ Interrupt \/ CommitEvidence \/ AttemptEnds

TCPCodes == {"invalid_input", "cancelled", "tcp_timeout", "tcp_connection_refused",
             "tcp_no_route", "tcp_connection_reset", "tcp_failure"}

\* The part of the two packages' Validate that is the same.
ValidDirect(r, reasons) ==
  /\ ValidEnvelope(r)
  /\ r.code \in TCPCodes \cup {"none"}
  /\ \A input \in r.input : (input.target = "refused") = (r.code = "invalid_input")
  /\ \A e \in r.evidence :
       \/ e.status = "confirmed" /\ e.reason = "none" /\ e.found # {}
       \/ e.status = "unconfirmed" /\ e.reason \in reasons /\ e.found = {}
=============================================================================
