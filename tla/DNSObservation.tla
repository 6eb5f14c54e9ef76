--------------------------- MODULE DNSObservation ---------------------------
(***************************************************************************)
(* internal/dnsobservation: one call of Observe, over UDP, TCP or DoH.     *)
(*                                                                         *)
(* The blocking calls of the exchange (dial, write, read, the HTTP request *)
(* and its body) are phases of their own.  A goroutine of AfterFunc closes *)
(* the connection when the attempt's context has ended, which is how a     *)
(* read that waits for a silent server comes back.                         *)
(***************************************************************************)
EXTENDS DNSMessage, Probe

CONSTANTS
  Inputs,     \* the requests: [hostname, type, transport, resolver]
  Responses   \* what servers may answer

ASSUME InputAssumption ==
  \A i \in Inputs :
    /\ i.hostname \in {"valid", "invalid", "unstable"}
    /\ i.type \in {"A", "CNAME", "unknown"}
    /\ i.transport \in {"udp", "tcp", "doh", "unknown"}
    /\ i.resolver \in {"wire", "doh", "missing", ""}

ASSUME ResponseAssumption ==
  \A r \in Responses :
    /\ r.rcode \in {"noerror", "nxdomain", "other"}
    /\ {r.truncated, r.damaged} \subseteq BOOLEAN
    /\ Len(r.answers) \in Nat /\ DOMAIN r.answers = 1..Len(r.answers)
    /\ r.others \in Nat
    /\ IsFiniteSet(r.soa)

\* endpoint: input.Resolver.Endpoint; conn: the wire connection; error: the
\* exchangeFailure, {} for none, its cause being "network" (also a peer's
\* close), "timeout" (a net.Error that says so), "rule" or "own" (the context
\* ended, or the connection was closed for that).
Locals ==
  {[input |-> [hostname |-> i.hostname, type |-> i.type, transport |-> i.transport,
               resolver |-> i.resolver, endpoint |-> FALSE],
    conn |-> "none", error |-> {}, response |-> {}, evidence |-> {}] : i \in Inputs}

Init == Start(Locals)

Input == local.input
Wire == Input.transport \in {"udp", "tcp"}

-----------------------------------------------------------------------------
(***************************************************************************)
(* Before the exchange.                                                    *)
(***************************************************************************)
\* normalizeRequest.
Rejected ==
  \/ Input.hostname # "valid"
  \/ Input.type = "unknown"
  \/ Input.transport = "unknown"
  \/ Input.resolver = ""

Normalize ==
  /\ phase = "start"
  /\ \/ Rejected /\ Fail("invalid_input")
     \/ ~Rejected /\ GoTo("entered")

\* Mutant: the resolver is looked up whatever became of the context.
EnterUnchecked == phase = "entered" /\ GoTo("lookup")

Enter ==
  /\ phase = "entered"
  /\ LET ended == ContextFailure(parent)
     IN \/ ended # "none" /\ Fail(ended)
        \/ ended = "none" /\ GoTo("lookup")

UnknownResolver ==
  /\ phase = "lookup"
  /\ Input.resolver = "missing"
  /\ Fail("invalid_input")

\* The endpoint is written into the input before anything else can fail.
SelectEndpoint ==
  /\ phase = "lookup"
  /\ Input.resolver # "missing"
  /\ phase' = "endpoint"
  /\ local' = [local EXCEPT !.input.endpoint = TRUE]
  /\ UNCHANGED <<contexts, result>>

\* validateTransportEndpoint.
Mismatch == Wire # (Input.resolver = "wire")

WrongEndpoint ==
  /\ phase = "endpoint"
  /\ Mismatch
  /\ Fail("invalid_input")

\* The random source of the message id fails.
NoMessageID ==
  /\ phase = "endpoint"
  /\ ~Mismatch
  /\ Wire
  /\ Fail("dns_protocol_failure")

StartAttempt ==
  /\ phase = "endpoint"
  /\ ~Mismatch
  /\ BeginAttempt
  /\ phase' = IF Wire THEN "dial" ELSE "request"
  /\ UNCHANGED <<parent, local, result>>

-----------------------------------------------------------------------------
(***************************************************************************)
(* The exchange.                                                           *)
(***************************************************************************)
Blocking == {"dial", "write", "read", "length", "body", "request", "content"}

\* The exchange returns: the connection is closed, AfterFunc stopped.
Exchanged(error, response) ==
  /\ phase' = "exchanged"
  /\ local' = [local EXCEPT !.conn = "none", !.error = error, !.response = response]
  /\ UNCHANGED <<contexts, result>>

ExchangeFails(code, cause) == Exchanged({[code |-> code, cause |-> cause]}, {})

NetworkFails ==
  /\ phase \in Blocking
  /\ \E cause \in {"network", "timeout"} : ExchangeFails("dns_transport_failure", cause)

\* Dialling and the HTTP client watch the context themselves; reads and writes
\* see the connection closed.
EndedUnderway ==
  \/ phase \in {"dial", "request", "content"} /\ Ended(attempt)
  \/ phase \in {"write", "read", "length", "body"} /\ local.conn = "closed"

GiveUp ==
  /\ EndedUnderway
  /\ ExchangeFails("dns_transport_failure", "own")

Dialled ==
  /\ phase = "dial"
  /\ phase' = "write"
  /\ local' = [local EXCEPT !.conn = "open"]
  /\ UNCHANGED <<contexts, result>>

\* Mutant: only a deadline closes the connection.
CloseOnDeadline == attempt = "deadline" /\ local.conn = "open"
  /\ local' = [local EXCEPT !.conn = "closed"] /\ UNCHANGED <<contexts, phase, result>>

\* context.AfterFunc(ctx, conn.Close).
CloseConnection ==
  /\ local.conn = "open"
  /\ Ended(attempt)
  /\ local' = [local EXCEPT !.conn = "closed"]
  /\ UNCHANGED <<contexts, phase, result>>

Written ==
  /\ phase = "write"
  /\ local.conn = "open"
  /\ GoTo(IF Input.transport = "udp" THEN "read" ELSE "length")

ReadLength ==
  /\ phase = "length"
  /\ local.conn = "open"
  /\ \/ GoTo("body")
     \/ ExchangeFails("dns_protocol_failure", "rule")

\* A message has arrived; the context is read once more before it is returned.
Arrives ==
  \/ Ended(attempt) /\ ExchangeFails("dns_transport_failure", "own")
  \/ ~Ended(attempt) /\ \E r \in Responses : Exchanged({}, {r})

ReadMessage ==
  /\ phase \in {"read", "body"}
  /\ local.conn = "open"
  /\ Arrives

\* The status and the content type of the HTTP response.
Requested ==
  /\ phase = "request"
  /\ \/ GoTo("content")
     \/ ExchangeFails("doh_rule_failure", "rule")

ReadContent ==
  /\ phase = "content"
  /\ \/ Arrives
     \/ ExchangeFails("doh_rule_failure", "rule")

-----------------------------------------------------------------------------
(***************************************************************************)
(* After the exchange: every step reads the contexts first.                *)
(***************************************************************************)
\* What the exchange came to, for a context that has not ended.
ExchangeCode ==
  LET error == CHOOSE e \in local.error : TRUE
      response == CHOOSE r \in local.response : TRUE
  IN CASE local.error # {} /\ error.cause = "timeout" -> "timeout"
       [] local.error # {} /\ error.cause # "timeout" -> error.code
       [] local.error = {} -> IF Decodable(response) THEN "none" ELSE "dns_protocol_failure"

\* Mutant: the exchange's error is judged before the contexts.
JudgeErrorFirst ==
  /\ phase = "exchanged"
  /\ LET code == IF ExchangeCode # "none" THEN ExchangeCode ELSE ContextFailure(attempt)
     IN \/ code # "none" /\ Fail(code)
        \/ code = "none" /\ GoTo("decoded")

Judge ==
  /\ phase = "exchanged"
  /\ LET ended == ContextFailure(attempt)
         code == IF ended # "none" THEN ended ELSE ExchangeCode
     IN \/ code # "none" /\ Fail(code)
        \/ code = "none" /\ GoTo("decoded")

BuildEvidence ==
  /\ phase = "decoded"
  /\ LET ended == ContextFailure(attempt)
     IN \/ ended # "none" /\ Fail(ended)
        \/ /\ ended = "none"
           /\ phase' = "commit"
           /\ local' = [local EXCEPT !.evidence =
                {EvidenceFromResponse(r, Input.type) : r \in local.response}]
           /\ UNCHANGED <<contexts, result>>

Commit ==
  /\ phase = "commit"
  /\ LET ended == ContextFailure(attempt)
     IN \/ ended # "none" /\ Fail(ended)
        \/ ended = "none" /\ \E e \in local.evidence : Succeed(e)

-----------------------------------------------------------------------------
Prepare ==
  \/ Normalize \/ Enter \/ UnknownResolver \/ SelectEndpoint
  \/ WrongEndpoint \/ NoMessageID \/ StartAttempt

Exchange ==
  \/ NetworkFails \/ GiveUp \/ Dialled \/ Written \/ ReadLength
  \/ ReadMessage \/ Requested \/ ReadContent

Conclude == Judge \/ BuildEvidence \/ Commit

Observe == Prepare \/ Exchange \/ Conclude \/ CloseConnection \/ AttemptEnds

Done == Returned /\ UNCHANGED vars
Next == Observe \/ CallerEnds \/ Done

Spec == Init /\ [][Next]_vars

\* The code keeps running, the attempt's timer fires, a closed connection or an
\* ended context brings blocking calls back.  No server has to answer, and the
\* deadline set on the connection is not relied on.
Progress == Prepare \/ Conclude \/ GiveUp \/ CloseConnection \/ AttemptEnds

FairSpec == Spec /\ WF_vars(Progress)
=============================================================================
