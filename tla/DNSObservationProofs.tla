------------------------ MODULE DNSObservationProofs ------------------------
(***************************************************************************)
(* Theorems about one DNS observation, for all requests and all messages a *)
(* server may answer with, of any number of records.                       *)
(***************************************************************************)
EXTENDS DNSObservationProperties, EnumerationProofs

-----------------------------------------------------------------------------
(***************************************************************************)
(* The inductive invariant.                                                *)
(***************************************************************************)
Types == {"A", "CNAME", "unknown"}

Requests ==
  [hostname : {"valid", "invalid", "unstable"}, type : Types,
   transport : {"udp", "tcp", "doh", "unknown"},
   resolver : {"wire", "doh", "missing", ""}, endpoint : BOOLEAN]

FailedExchanges ==
  [code : {"dns_transport_failure", "dns_protocol_failure", "doh_rule_failure"},
   cause : {"network", "timeout", "rule", "own"}]

Observed == {EvidenceFromResponse(r, type) : r \in Responses, type \in Types}

Phases == Blocking \cup {"start", "entered", "lookup", "endpoint", "exchanged", "decoded",
                         "commit", "returned"}

TypeOK ==
  /\ parent \in ContextErrors
  /\ attempt \in ContextErrors \cup {"none"}
  /\ phase \in Phases
  /\ local \in [input : Requests, conn : {"none", "open", "closed"},
                error : SUBSET FailedExchanges, response : SUBSET Responses,
                evidence : SUBSET Observed]

\* The connection is closed, and an error is the probe's own doing, only after the
\* attempt has ended.
OwnInv ==
  /\ phase \in {"start", "entered", "lookup", "endpoint"} =>
       attempt = "none" /\ local.conn = "none" /\ local.error = {}
  /\ local.conn = "closed" => Ended(attempt)
  /\ (\E e \in local.error : e.cause = "own") => Ended(attempt)
  /\ OwnCloseNotBlamed

\* What is known of the request at each place, and what Validate asks of it then.
Looked == phase \in Blocking \cup {"endpoint", "exchanged", "decoded", "commit"}

RequestInv ==
  /\ phase \in {"start", "entered", "lookup"} => ~Input.endpoint
  /\ phase \notin {"start", "returned"} => ~Rejected
  /\ Looked => Input.endpoint /\ Input.resolver # "missing"
  /\ Looked /\ phase # "endpoint" => ~Mismatch

\* What an exchange leaves behind, on the way to evidence.
EvidenceInv ==
  /\ phase = "exchanged" =>
       \/ \E e \in FailedExchanges : local.error = {e}
       \/ local.error = {} /\ \E r \in Responses : local.response = {r}
  /\ phase = "decoded" => \E r \in Responses : local.response = {r} /\ Decodable(r)
  /\ phase = "commit" => \E r \in Responses :
       Decodable(r) /\ local.evidence = {EvidenceFromResponse(r, Input.type)}

\* Every name of every request and message is one that normalizeHostname leaves
\* alone.
Stable == Unhostable = {} /\ \A i \in Inputs : i.hostname # "unstable"

-----------------------------------------------------------------------------
LEMMA InitType == Init => TypeOK
<1> SUFFICES ASSUME Init PROVE TypeOK
  OBVIOUS
<1>1. PICK i \in Inputs :
        local = [input |-> [hostname |-> i.hostname, type |-> i.type, transport |-> i.transport,
                            resolver |-> i.resolver, endpoint |-> FALSE],
                 conn |-> "none", error |-> {}, response |-> {}, evidence |-> {}]
  BY DEF Init, Start, Locals
<1>2. local.input \in Requests
  BY <1>1, InputAssumption DEF Requests, Types
<1> QED
  BY <1>1, <1>2, CallerAssumption DEF Init, Start, TypeOK, ContextErrors, Phases

LEMMA RequestFields ==
  ASSUME TypeOK
  PROVE  Input \in Requests
BY DEF TypeOK, Input

\* The ways in which a step changes the variables.
LEMMA GoToType ==
  ASSUME TypeOK, NEW place \in Phases, GoTo(place)
  PROVE  TypeOK'
BY DEF TypeOK, GoTo, contexts

LEMMA ReturnType ==
  ASSUME TypeOK, NEW outcome, NEW code, NEW evidence, Return(outcome, code, evidence)
  PROVE  TypeOK'
BY DEF TypeOK, Return, contexts, Phases

LEMMA ExchangedType ==
  ASSUME TypeOK, NEW error \in SUBSET FailedExchanges, NEW response \in SUBSET Responses,
         Exchanged(error, response)
  PROVE  TypeOK'
BY DEF TypeOK, Exchanged, contexts, Phases

-----------------------------------------------------------------------------
(***************************************************************************)
(* Every step, seen as what it does to the variables.                      *)
(***************************************************************************)
\* The failures of an exchange.
LEMMA ExchangeSteps ==
  ASSUME TypeOK, Exchange
  PROVE  \/ /\ phase \in Blocking
            /\ \E e \in FailedExchanges :
                 /\ e.cause = "own" => Ended(attempt) \/ local.conn = "closed"
                 /\ Exchanged({e}, {})
         \/ phase \in Blocking /\ \E r \in Responses : Exchanged({}, {r})
         \/ phase \in Blocking /\ \E place \in Blocking : GoTo(place)
         \/ Dialled
<1>1. CASE NetworkFails
  BY <1>1 DEF NetworkFails, ExchangeFails, FailedExchanges
<1>2. CASE GiveUp
  BY <1>2 DEF GiveUp, EndedUnderway, ExchangeFails, FailedExchanges, Blocking
<1>3. CASE Dialled
  BY <1>3
<1>4. CASE Written \/ ReadLength
  BY <1>4 DEF Written, ReadLength, ExchangeFails, FailedExchanges, Blocking
<1>5. CASE ReadMessage
  BY <1>5 DEF ReadMessage, Arrives, ExchangeFails, FailedExchanges, Blocking
<1>6. CASE Requested \/ ReadContent
  BY <1>6 DEF Requested, ReadContent, Arrives, ExchangeFails, FailedExchanges, Blocking
<1> QED
  BY <1>1, <1>2, <1>3, <1>4, <1>5, <1>6 DEF Exchange

LEMMA NextType == TypeOK /\ [Next]_vars => TypeOK'
<1> SUFFICES ASSUME TypeOK, [Next]_vars PROVE TypeOK'
  OBVIOUS
<1>1. CASE Prepare
  <2>1. CASE Normalize
    BY <2>1, GoToType, ReturnType DEF Normalize, Fail, Phases
  <2>2. CASE Enter
    BY <2>2, GoToType, ReturnType DEF Enter, Fail, Phases
  <2>3. CASE UnknownResolver \/ WrongEndpoint \/ NoMessageID
    BY <2>3, ReturnType DEF UnknownResolver, WrongEndpoint, NoMessageID, Fail
  <2>4. CASE SelectEndpoint
    <3>1. [Input EXCEPT !.endpoint = TRUE] \in Requests
      BY RequestFields DEF Requests
    <3>2. local' = [local EXCEPT !.input = [Input EXCEPT !.endpoint = TRUE]]
      BY <2>4 DEF SelectEndpoint, Input, TypeOK
    <3> QED
      BY <2>4, <3>1, <3>2 DEF SelectEndpoint, TypeOK, contexts, Phases
  <2>5. CASE StartAttempt
    BY <2>5 DEF StartAttempt, BeginAttempt, TypeOK, Phases, Blocking
  <2> QED
    BY <1>1, <2>1, <2>2, <2>3, <2>4, <2>5 DEF Prepare
<1>2. CASE Exchange
  <2>1. CASE Dialled
    BY <2>1 DEF Dialled, TypeOK, contexts, Phases, Blocking
  <2> QED
    BY <1>2, <2>1, ExchangeSteps, ExchangedType, GoToType DEF Phases
<1>3. CASE Conclude
  <2>1. CASE Judge
    BY <2>1, GoToType, ReturnType DEF Judge, Fail, Phases
  <2>2. CASE BuildEvidence
    <3>1. CASE phase' = "commit"
      <4>1. {EvidenceFromResponse(r, Input.type) : r \in local.response} \in SUBSET Observed
        <5>1. Input.type \in Types /\ local.response \subseteq Responses
          BY RequestFields DEF TypeOK, Requests
        <5>2. \A r \in Responses : EvidenceFromResponse(r, Input.type) \in Observed
          BY <5>1 DEF Observed
        <5> QED
          BY <5>1, <5>2
      <4> QED
        BY <2>2, <3>1, <4>1 DEF BuildEvidence, Fail, Return, TypeOK, contexts, Phases
    <3>2. CASE phase' # "commit"
      BY <2>2, <3>2, ReturnType DEF BuildEvidence, Fail
    <3> QED
      BY <3>1, <3>2
  <2>3. CASE Commit
    BY <2>3, ReturnType DEF Commit, Fail, Succeed
  <2> QED
    BY <1>3, <2>1, <2>2, <2>3 DEF Conclude
<1>4. CASE CloseConnection \/ AttemptEnds \/ CallerEnds
  BY <1>4, CallerAssumption DEF CloseConnection, AttemptEnds, CallerEnds, TypeOK, contexts,
                                ContextErrors
<1>5. CASE UNCHANGED vars
  BY <1>5 DEF vars, contexts, TypeOK
<1> QED
  BY <1>1, <1>2, <1>3, <1>4, <1>5 DEF Next, Observe, Done

-----------------------------------------------------------------------------
(***************************************************************************)
(* What the probe broke off itself is not blamed on the network.           *)
(***************************************************************************)
LEMMA EndedFailure ==
  ASSUME Ended(attempt)
  PROVE  ContextFailure(attempt) \in {"cancelled", "timeout"}
BY DEF Ended, ContextFailure

LEMMA OwnStays ==
  ASSUME OwnInv, UNCHANGED <<attempt, local>>, phase \in Phases,
         phase' \in {"start", "entered", "lookup", "endpoint"} =>
           phase \in {"start", "entered", "lookup", "endpoint"},
         Returned' => Returned /\ UNCHANGED result
  PROVE  OwnInv'
BY DEF OwnInv, OwnCloseNotBlamed, Returned, Ended

LEMMA OwnReturns ==
  ASSUME OwnInv, NEW outcome, NEW code, NEW evidence, Return(outcome, code, evidence),
         code = "dns_transport_failure" => \A e \in local.error : e.cause # "own"
  PROVE  OwnInv'
BY DEF OwnInv, OwnCloseNotBlamed, Return, Returned, Ended, contexts

LEMMA OwnNext == TypeOK /\ OwnInv /\ [Next]_vars => OwnInv'
<1> SUFFICES ASSUME TypeOK, OwnInv, [Next]_vars PROVE OwnInv'
  OBVIOUS
<1>1. CASE Prepare
  <2>1. CASE Normalize
    BY <2>1, OwnReturns, OwnStays DEF Normalize, Fail, GoTo, contexts, TypeOK, Returned
  <2>2. CASE Enter
    BY <2>2, OwnReturns, OwnStays DEF Enter, Fail, GoTo, contexts, TypeOK, Returned, ContextFailure
  <2>3. CASE UnknownResolver \/ WrongEndpoint \/ NoMessageID
    BY <2>3, OwnReturns DEF UnknownResolver, WrongEndpoint, NoMessageID, Fail
  <2>4. CASE SelectEndpoint
    BY <2>4 DEF SelectEndpoint, OwnInv, OwnCloseNotBlamed, Returned, Ended, TypeOK, contexts
  <2>5. CASE StartAttempt
    BY <2>5 DEF StartAttempt, OwnInv, OwnCloseNotBlamed, Returned, Ended, BeginAttempt
  <2> QED
    BY <1>1, <2>1, <2>2, <2>3, <2>4, <2>5 DEF Prepare
<1>2. CASE Exchange
  <2>1. CASE Dialled
    BY <2>1 DEF Dialled, OwnInv, OwnCloseNotBlamed, Returned, Ended, TypeOK, contexts
  <2>2. ASSUME NEW place \in Blocking, phase \in Blocking, GoTo(place) PROVE OwnInv'
    BY <2>2, OwnStays DEF GoTo, Blocking, Phases, Returned, contexts
  <2>3. ASSUME NEW e \in FailedExchanges, Exchanged({e}, {}),
               e.cause = "own" => Ended(attempt) \/ local.conn = "closed"
        PROVE  OwnInv'
    BY <2>3 DEF Exchanged, OwnInv, OwnCloseNotBlamed, Returned, Ended, TypeOK, contexts
  <2>4. ASSUME NEW r \in Responses, Exchanged({}, {r}) PROVE OwnInv'
    BY <2>4 DEF Exchanged, OwnInv, OwnCloseNotBlamed, Returned, Ended, TypeOK, contexts
  <2> QED
    BY <1>2, <2>1, <2>2, <2>3, <2>4, ExchangeSteps
<1>3. CASE Conclude
  <2>1. CASE Judge
    <3>1. CASE GoTo("decoded")
      BY <2>1, <3>1, OwnStays DEF Judge, GoTo, Phases, Returned, contexts
    <3>2. CASE ~GoTo("decoded")
      <4>1. PICK code : /\ Fail(code)
                        /\ code = IF ContextFailure(attempt) # "none" THEN ContextFailure(attempt)
                                  ELSE ExchangeCode
        BY <2>1, <3>2 DEF Judge
      <4>2. code = "dns_transport_failure" => ~Ended(attempt)
        BY <4>1, EndedFailure
      <4>3. code = "dns_transport_failure" => \A e \in local.error : e.cause # "own"
        BY <4>2 DEF OwnInv
      <4> QED
        BY <4>1, <4>3, OwnReturns DEF Fail
    <3> QED
      BY <3>1, <3>2
  <2>2. CASE BuildEvidence
    <3>1. CASE phase' = "commit"
      BY <2>2, <3>1 DEF BuildEvidence, Fail, Return, OwnInv, OwnCloseNotBlamed, Returned, Ended,
                        TypeOK, contexts
    <3>2. CASE phase' # "commit"
      BY <2>2, <3>2, OwnReturns DEF BuildEvidence, Fail, ContextFailure
    <3> QED
      BY <3>1, <3>2
  <2>3. CASE Commit
    BY <2>3, OwnReturns DEF Commit, Fail, Succeed, ContextFailure
  <2> QED
    BY <1>3, <2>1, <2>2, <2>3 DEF Conclude
<1>4. CASE CloseConnection
  BY <1>4 DEF CloseConnection, OwnInv, OwnCloseNotBlamed, Returned, Ended, TypeOK, contexts
<1>5. CASE AttemptEnds
  BY <1>5 DEF AttemptEnds, OwnInv, OwnCloseNotBlamed, Returned, Ended
<1>6. CASE CallerEnds \/ UNCHANGED vars
  BY <1>6 DEF CallerEnds, vars, contexts, OwnInv, OwnCloseNotBlamed, Returned, Ended
<1> QED
  BY <1>1, <1>2, <1>3, <1>4, <1>5, <1>6 DEF Next, Observe, Done

\* The variables of an observation keep their types, for all requests and messages.
THEOREM TypeCorrect == Spec => []TypeOK
BY InitType, NextType, PTL DEF Spec

LEMMA OwnHolds == Spec => []OwnInv
<1>1. Init => OwnInv
  BY DEF Init, Start, Locals, OwnInv, OwnCloseNotBlamed, Returned
<1> QED
  BY <1>1, OwnNext, TypeCorrect, PTL DEF Spec

\* The error that a closed connection or an ended context gives to a blocking call is
\* never reported as a failure of the network, whatever races with the close.
THEOREM OwnCloseIsNotBlamed == Spec => []OwnCloseNotBlamed
<1>1. OwnInv => OwnCloseNotBlamed
  BY DEF OwnInv
<1> QED
  BY <1>1, OwnHolds, PTL

-----------------------------------------------------------------------------
(***************************************************************************)
(* Every Result satisfies Validate.                                        *)
(***************************************************************************)
\* What the decoder, the CNAME walk and the classification make of a message is what
\* Validate accepts, if every name of it may be a host name.
LEMMA EvidenceValid ==
  ASSUME Unhostable = {}, NEW r \in Responses, NEW type, Decodable(r)
  PROVE  ValidEvidence(EvidenceFromResponse(r, type), type)
<1> DEFINE chain == FollowCNAMEs(r.answers)
           e == EvidenceFromResponse(r, type)
<1>1. /\ e.kind = ClassifyAnswer(r, type, chain)
      /\ e.rcode = r.rcode /\ e.truncated = r.truncated
      /\ e.effective = chain.name /\ e.records = r.answers /\ e.ns = r.ns
      /\ e.soa = IF e.kind \in {"no_data", "name_error"} THEN r.soa ELSE {}
  BY DEF EvidenceFromResponse
<1>2. Len(r.answers) <= MaxRecords
  <2>1. Cardinality(r.soa) \in Nat /\ Len(r.answers) \in Nat /\ r.others \in Nat
    BY ResponseAssumption, FS_CardinalityType
  <2> QED
    BY <2>1, RecordsAssumption DEF Decodable, RecordCount
<1>3. \A name : IsCanonicalDNSName(name)
  BY DEF IsCanonicalDNSName
<1>4. ValidAnswerKind(e)
  <2>1. r.rcode \in {"noerror", "nxdomain", "other"}
    BY ResponseAssumption
  <2> HIDE DEF chain, e
  <2> QED
    BY <1>1, <2>1 DEF ValidAnswerKind, ClassifyAnswer
<1>5. (e.kind = "incomplete") = (e.truncated \/ ~chain.complete)
  <2>1. r.damaged => r.truncated
    BY DEF Decodable
  <2> HIDE DEF chain, e
  <2> QED
    BY <1>1, <2>1 DEF ClassifyAnswer
<1>6. /\ e.kind = "answer" => Answers(r.answers, type, chain.name)
      /\ e.kind \in {"no_data", "referral"} => ~Answers(r.answers, type, chain.name)
      /\ e.kind = "no_data" /\ e.ns => e.soa # {}
      /\ e.kind = "referral" => e.ns
      /\ e.soa # {} => e.kind \in {"no_data", "name_error"}
  <2> HIDE DEF chain, e
  <2> QED
    BY <1>1 DEF ClassifyAnswer
<1>7. ValidClassification(e, type)
  <2> HIDE DEF e
  <2> QED
    BY <1>1, <1>3, <1>4, <1>5, <1>6 DEF ValidClassification
<1>8. \A k \in DOMAIN e.records : ValidRecord(e.records[k])
  BY <1>3 DEF ValidRecord
<1>9. ValidEvidence(e, type)
  <2> HIDE DEF e
  <2> QED
    BY <1>1, <1>2, <1>7, <1>8 DEF ValidEvidence
<1> QED
  BY <1>9

\* The request, the evidence on its way, and what was returned.
ValidInv ==
  /\ Input.hostname # "unstable"
  /\ RequestInv
  /\ EvidenceInv
  /\ EmittedResultValid

\* A failure without evidence, with a code that fits what is known of the request.
LEMMA FailValid ==
  ASSUME TypeOK, ValidInv,
         NEW code \in {"invalid_input", "timeout", "cancelled", "dns_transport_failure",
                       "dns_protocol_failure", "doh_rule_failure"},
         Fail(code),
         code # "invalid_input" =>
           /\ phase \notin {"start", "returned"}
           /\ phase = "endpoint" => ~Mismatch,
         code \in {"dns_transport_failure", "dns_protocol_failure", "doh_rule_failure"} => Looked
  PROVE  ValidInv'
<1> DEFINE r == result'
<1>1. /\ phase' = "returned" /\ local' = local
      /\ r.outcome = (IF code = "cancelled" THEN "cancelled" ELSE "failed")
      /\ r.code = code /\ r.input = {Input} /\ r.evidence = {}
  BY DEF Fail, Return, Input
<1> HIDE DEF r
<1>2. ValidEnvelope(r)
  BY <1>1 DEF ValidEnvelope
<1>3. ValidInput(r, Input)
  <2>1. Input \in Requests
    BY RequestFields
  <2>2. CASE code = "invalid_input"
    BY <1>1, <2>2 DEF ValidInput, ValidInv
  <2>3. CASE code # "invalid_input"
    <3>1. ~Rejected
      BY <2>3 DEF ValidInv, RequestInv
    <3>2. Input.endpoint => Looked
      BY <2>1, <2>3 DEF ValidInv, RequestInv, Looked, TypeOK, Phases
    <3>3. Looked => Input.endpoint /\ ~Mismatch /\ Input.resolver # "missing"
      BY <2>3 DEF ValidInv, RequestInv
    <3>4. Input.endpoint => (Input.transport = "doh") = (Input.resolver = "doh")
      BY <2>1, <3>1, <3>2, <3>3 DEF Mismatch, Wire, Rejected, Requests
    <3>5. r.outcome # "succeeded"
      BY <1>1
    <3> QED
      BY <1>1, <2>1, <2>3, <3>1, <3>3, <3>4, <3>5 DEF ValidInput, Rejected, ValidInv
  <2> QED
    BY <2>2, <2>3
<1>4. ValidResult(r)
  BY <1>1, <1>2, <1>3 DEF ValidResult
<1>5. EmittedResultValid'
  BY <1>4 DEF EmittedResultValid, r
<1> QED
  BY <1>1, <1>5 DEF ValidInv, RequestInv, EvidenceInv, Input, Looked, Blocking

\* A step that neither returns nor reaches a place where more is known.
LEMMA Stays ==
  ASSUME ValidInv, ~Returned', Input' = Input, Input'.hostname # "unstable",
         RequestInv', EvidenceInv'
  PROVE  ValidInv'
BY DEF ValidInv, EmittedResultValid

LEMMA PrepareValid ==
  ASSUME TypeOK, TypeOK', ValidInv, Prepare
  PROVE  ValidInv'
<1>1. CASE Normalize
  <2>1. CASE Rejected /\ Fail("invalid_input")
    BY <2>1, FailValid
  <2>2. CASE ~Rejected /\ GoTo("entered")
    BY <1>1, <2>2 DEF Normalize, GoTo, ValidInv, RequestInv, EvidenceInv, EmittedResultValid,
                      Returned, Rejected, Looked, Blocking, Input
  <2> QED
    BY <1>1, <2>1, <2>2 DEF Normalize
<1>2. CASE Enter
  <2>1. CASE ContextFailure(parent) # "none" /\ Fail(ContextFailure(parent))
    <3>1. ContextFailure(parent) \in {"timeout", "cancelled"}
      BY <2>1 DEF ContextFailure
    <3> QED
      BY <1>2, <2>1, <3>1, FailValid DEF Enter
  <2>2. CASE GoTo("lookup")
    BY <1>2, <2>2 DEF Enter, GoTo, ValidInv, RequestInv, EvidenceInv, EmittedResultValid, Returned,
                      Rejected, Looked, Blocking, Input
  <2> QED
    BY <1>2, <2>1, <2>2 DEF Enter
<1>3. CASE UnknownResolver \/ WrongEndpoint
  BY <1>3, FailValid DEF UnknownResolver, WrongEndpoint
<1>4. CASE NoMessageID
  BY <1>4, FailValid DEF NoMessageID, Looked
<1>5. CASE SelectEndpoint
  <2>1. /\ phase = "lookup" /\ phase' = "endpoint"
        /\ Input.resolver # "missing"
        /\ Input' = [Input EXCEPT !.endpoint = TRUE]
    BY <1>5 DEF SelectEndpoint, Input, TypeOK
  <2>2. Input \in Requests
    BY RequestFields
  <2>3. /\ Input'.endpoint /\ Input'.hostname = Input.hostname /\ Input'.type = Input.type
        /\ Input'.transport = Input.transport /\ Input'.resolver = Input.resolver
    BY <2>1, <2>2 DEF Requests
  <2> QED
    BY <2>1, <2>3 DEF ValidInv, RequestInv, EvidenceInv, EmittedResultValid, Returned, Rejected,
                      Looked, Blocking
<1>6. CASE StartAttempt
  BY <1>6 DEF StartAttempt, ValidInv, RequestInv, EvidenceInv, EmittedResultValid, Returned,
              Rejected, Looked, Blocking, Input, Mismatch, Wire
<1> QED
  BY <1>1, <1>2, <1>3, <1>4, <1>5, <1>6 DEF Prepare

LEMMA ExchangeValid ==
  ASSUME TypeOK, TypeOK', ValidInv, Exchange
  PROVE  ValidInv'
<1>1. Looked /\ phase # "endpoint" /\ phase \notin {"start", "entered", "lookup", "returned"}
  BY DEF Exchange, NetworkFails, GiveUp, EndedUnderway, Dialled, Written, ReadLength, ReadMessage,
         Requested, ReadContent, Looked, Blocking
<1>2. CASE \/ Dialled
           \/ \E place \in Blocking : GoTo(place)
  <2>1. phase' \in Blocking /\ Input' = Input
    BY <1>2 DEF Dialled, GoTo, Blocking, Input, TypeOK
  <2> QED
    BY <1>1, <2>1 DEF ValidInv, RequestInv, EvidenceInv, EmittedResultValid, Returned, Rejected,
                      Looked, Blocking, Mismatch, Wire
<1>3. ASSUME NEW error, NEW response, Exchanged(error, response),
             \/ \E e \in FailedExchanges : error = {e}
             \/ error = {} /\ \E r \in Responses : response = {r}
      PROVE  ValidInv'
  <2>1. /\ phase' = "exchanged" /\ Input' = Input
        /\ local'.error = error /\ local'.response = response
    BY <1>3 DEF Exchanged, Input, TypeOK
  <2> QED
    BY <1>1, <1>3, <2>1 DEF ValidInv, RequestInv, EvidenceInv, EmittedResultValid, Returned,
                            Rejected, Looked, Blocking, Mismatch, Wire
<1> QED
  BY <1>2, <1>3, ExchangeSteps

LEMMA CommitValid ==
  ASSUME TypeOK, Stable, ValidInv, phase = "commit", NEW e \in local.evidence, Succeed(e)
  PROVE  ValidInv'
<1> DEFINE r == result'
<1>1. /\ phase' = "returned" /\ local' = local
      /\ r.outcome = "succeeded" /\ r.code = "none" /\ r.input = {Input} /\ r.evidence = {e}
  BY DEF Succeed, Return, Input
<1> HIDE DEF r
<1>2. ValidEnvelope(r)
  BY <1>1, FS_Singleton DEF ValidEnvelope
<1>3. Input \in Requests /\ ~Rejected /\ Input.endpoint /\ Input.resolver # "missing" /\ ~Mismatch
  BY RequestFields DEF ValidInv, RequestInv, Looked
<1>4. ValidInput(r, Input)
  BY <1>1, <1>3 DEF ValidInput, Rejected, Mismatch, Wire, Requests
<1>5. ValidEvidence(e, Input.type)
  BY EvidenceValid DEF ValidInv, EvidenceInv, Stable
<1>6. ValidResult(r)
  BY <1>1, <1>2, <1>4, <1>5 DEF ValidResult
<1>7. EmittedResultValid'
  BY <1>6 DEF EmittedResultValid, r
<1> QED
  BY <1>1, <1>7 DEF ValidInv, RequestInv, EvidenceInv, Input, Looked, Blocking

LEMMA ConcludeValid ==
  ASSUME TypeOK, TypeOK', Stable, ValidInv, Conclude
  PROVE  ValidInv'
<1> DEFINE ended == ContextFailure(attempt)
<1>1. ended \in {"cancelled", "timeout", "none"}
  BY DEF ContextFailure
<1>2. /\ phase \in {"exchanged", "decoded", "commit"}
      /\ Looked /\ ~Mismatch
  BY DEF Conclude, Judge, BuildEvidence, Commit, Looked, ValidInv, RequestInv
<1>3. ASSUME ended # "none", Fail(ended) PROVE ValidInv'
  BY <1>1, <1>2, <1>3, FailValid
<1>4. CASE Judge
  <2>1. CASE ended = "none" /\ ExchangeCode # "none" /\ Fail(ExchangeCode)
    <3>1. ExchangeCode \in {"timeout", "dns_transport_failure", "dns_protocol_failure",
                            "doh_rule_failure"}
      <4>1. CASE \E e \in FailedExchanges : local.error = {e}
        BY <2>1, <4>1 DEF ExchangeCode, FailedExchanges
      <4>2. CASE local.error = {}
        BY <2>1, <4>2 DEF ExchangeCode
      <4> QED
        BY <1>4, <4>1, <4>2 DEF Judge, ValidInv, EvidenceInv
    <3> QED
      BY <1>2, <2>1, <3>1, FailValid
  <2>2. CASE ExchangeCode = "none" /\ GoTo("decoded")
    <3>1. \E r \in Responses : local.response = {r} /\ Decodable(r)
      <4>1. CASE \E e \in FailedExchanges : local.error = {e}
        BY <2>2, <4>1 DEF ExchangeCode, FailedExchanges
      <4>2. CASE local.error = {} /\ \E r \in Responses : local.response = {r}
        BY <2>2, <4>2 DEF ExchangeCode
      <4> QED
        BY <1>4, <4>1, <4>2 DEF Judge, ValidInv, EvidenceInv
    <3> QED
      BY <1>2, <2>2, <3>1 DEF GoTo, ValidInv, RequestInv, EvidenceInv, EmittedResultValid, Returned,
                              Rejected, Looked, Blocking, Mismatch, Wire, Input
  <2> QED
    BY <1>3, <1>4, <2>1, <2>2 DEF Judge
<1>5. CASE BuildEvidence
  <2>1. CASE ended = "none" /\ phase' = "commit"
    <3>1. PICK r \in Responses : local.response = {r} /\ Decodable(r)
      BY <1>5 DEF BuildEvidence, ValidInv, EvidenceInv
    <3>2. /\ local'.evidence = {EvidenceFromResponse(q, Input.type) : q \in local.response}
          /\ Input' = Input
      BY <1>5, <2>1 DEF BuildEvidence, Input, TypeOK, Fail, Return
    <3>3. local'.evidence = {EvidenceFromResponse(r, Input.type)}
      BY <3>1, <3>2
    <3> QED
      BY <1>2, <2>1, <3>1, <3>2, <3>3 DEF ValidInv, RequestInv, EvidenceInv, EmittedResultValid,
            Returned, Rejected, Looked, Blocking, Mismatch, Wire
  <2>2. CASE ~(ended = "none" /\ phase' = "commit")
    BY <1>3, <1>5, <2>2 DEF BuildEvidence
  <2> QED
    BY <2>1, <2>2
<1>6. CASE Commit
  BY <1>3, <1>6, CommitValid DEF Commit
<1> QED
  BY <1>4, <1>5, <1>6 DEF Conclude

LEMMA NextValid == TypeOK /\ TypeOK' /\ Stable /\ ValidInv /\ [Next]_vars => ValidInv'
<1> SUFFICES ASSUME TypeOK, TypeOK', Stable, ValidInv, [Next]_vars PROVE ValidInv'
  OBVIOUS
<1>1. CASE CloseConnection
  <2>1. /\ UNCHANGED <<phase, result>>
        /\ Input' = Input /\ local'.error = local.error /\ local'.response = local.response
        /\ local'.evidence = local.evidence
    BY <1>1 DEF CloseConnection, Input, TypeOK
  <2> QED
    BY <2>1 DEF ValidInv, RequestInv, EvidenceInv, EmittedResultValid, Returned, Rejected, Looked,
                Mismatch, Wire
<1>2. CASE AttemptEnds \/ CallerEnds \/ UNCHANGED vars
  BY <1>2 DEF AttemptEnds, CallerEnds, vars, contexts, ValidInv, RequestInv, EvidenceInv,
              EmittedResultValid, Returned, Rejected, Looked, Mismatch, Wire, Input
<1> QED
  BY <1>1, <1>2, PrepareValid, ExchangeValid, ConcludeValid DEF Next, Observe, Done

\* If every name can be a host name and is stable under normalization, every Result
\* satisfies Validate, for all requests and messages of any length.  The findings show
\* that both assumptions are needed.
THEOREM ResultIsValid == Stable => (Spec => []EmittedResultValid)
<1> SUFFICES ASSUME Stable PROVE Spec => []EmittedResultValid
  OBVIOUS
<1>1. Init => ValidInv
  <2> SUFFICES ASSUME Init PROVE ValidInv
    OBVIOUS
  <2>1. PICK i \in Inputs :
          local = [input |-> [hostname |-> i.hostname, type |-> i.type, transport |-> i.transport,
                              resolver |-> i.resolver, endpoint |-> FALSE],
                   conn |-> "none", error |-> {}, response |-> {}, evidence |-> {}]
    BY DEF Init, Start, Locals
  <2>2. Input.hostname # "unstable" /\ ~Input.endpoint
    BY <2>1 DEF Stable, Input
  <2> QED
    BY <2>2 DEF Init, Start, ValidInv, RequestInv, EvidenceInv, EmittedResultValid, Returned,
                Looked, Blocking
<1>2. ValidInv => EmittedResultValid
  BY DEF ValidInv
<1> QED
  BY <1>1, <1>2, NextValid, TypeCorrect, PTL DEF Spec
-----------------------------------------------------------------------------
(***************************************************************************)
(* The name a chain of aliases ends at.                                    *)
(***************************************************************************)
IsSequence(records) == Len(records) \in Nat /\ DOMAIN records = 1..Len(records)

Mentioned(records) ==
  {Hostname} \cup {records[k].name : k \in Aliases(records)}
             \cup {records[k].target : k \in Aliases(records)}

\* p goes along the aliases of records for k names, none of them twice.
Straight(records, p, k) ==
  /\ k \in Nat \ {0}
  /\ p \in [1..k -> Mentioned(records)]
  /\ p[1] = Hostname
  /\ \A i, j \in 1..k : p[i] = p[j] => i = j
  /\ \A i \in 1..(k - 1) : p[i] \in Owners(records) /\ TargetOf(records, p[i]) = p[i + 1]

\* The paths of AliasPaths are those of this length at most.
LEMMA PathsAreStraight ==
  ASSUME NEW records, IsSequence(records)
  PROVE  /\ \A p \in AliasPaths(records) :
              Len(p) \in 1..(Len(records) + 1) /\ Straight(records, p, Len(p))
         /\ \A p, k : k <= Len(records) + 1 /\ Straight(records, p, k)
              => p \in AliasPaths(records) /\ Len(p) = k
<1> DEFINE N == Len(records)
           M == Mentioned(records)
           Paths == UNION {[1..n -> M] : n \in 1..(N + 1)}
           Good(p) == /\ p[1] = Hostname
                      /\ \A i, j \in DOMAIN p : p[i] = p[j] => i = j
                      /\ \A i \in 1..(Len(p) - 1) :
                           p[i] \in Owners(records) /\ TargetOf(records, p[i]) = p[i + 1]
<1>1. AliasPaths(records) = {p \in Paths : Good(p)}
  BY DEF AliasPaths, Mentioned
<1>2. N \in Nat
  BY DEF IsSequence
<1>3. \A n \in Nat : \A p \in [1..n -> M] : Len(p) = n /\ DOMAIN p = 1..n
  <2> SUFFICES ASSUME NEW n \in Nat, NEW p \in [1..n -> M] PROVE Len(p) = n /\ DOMAIN p = 1..n
    OBVIOUS
  <2>1. p \in Seq(M)
    OBVIOUS
  <2> QED
    BY <2>1
<1>4. ASSUME NEW p \in AliasPaths(records)
      PROVE  Len(p) \in 1..(N + 1) /\ Straight(records, p, Len(p))
  <2>1. p \in Paths /\ Good(p)
    BY <1>1, <1>4
  <2>2. PICK n \in 1..(N + 1) : p \in [1..n -> M]
    BY <2>1
  <2>3. n \in Nat \ {0} /\ Len(p) = n /\ DOMAIN p = 1..n
    BY <1>2, <1>3, <2>2
  <2> QED
    BY <2>1, <2>2, <2>3 DEF Straight
<1>5. ASSUME NEW p, NEW k, k <= N + 1, Straight(records, p, k)
      PROVE  p \in AliasPaths(records) /\ Len(p) = k
  <2>1. k \in 1..(N + 1) /\ p \in [1..k -> M]
    BY <1>2, <1>5 DEF Straight
  <2>2. Len(p) = k /\ DOMAIN p = 1..k
    BY <1>2, <1>3, <2>1
  <2>3. Good(p)
    BY <1>5, <2>2 DEF Straight
  <2> QED
    BY <1>1, <2>1, <2>2, <2>3
<1> QED
  BY <1>4, <1>5

\* Each name has one target: of two paths, the longer one goes on from the other.
LEMMA PathsAgree ==
  ASSUME NEW records, NEW p, NEW k, Straight(records, p, k),
         NEW q, NEW n, Straight(records, q, n), k <= n
  PROVE  \A i \in 1..k : p[i] = q[i]
<1> DEFINE Differ == {i \in 1..k : p[i] # q[i]}
<1> SUFFICES ASSUME Differ # {} PROVE FALSE
  OBVIOUS
<1>1. k \in Nat /\ n \in Nat
  BY DEF Straight
<1>2. PICK i \in Differ : \A j \in Differ : i <= j
  <2>1. Differ \subseteq Nat
    BY <1>1
  <2> HIDE DEF Differ
  <2> QED
    BY <2>1, Least
<1>3. i \in 1..k /\ p[i] # q[i]
  BY <1>2
<1>4. i # 1
  BY <1>3 DEF Straight
<1>5. i - 1 \in 1..(k - 1) /\ i - 1 \in 1..(n - 1) /\ i - 1 \in 1..k /\ ~(i <= i - 1)
  BY <1>1, <1>3, <1>4
<1>6. p[i - 1] = q[i - 1]
  BY <1>2, <1>5
<1>7. /\ TargetOf(records, p[i - 1]) = p[(i - 1) + 1]
      /\ TargetOf(records, q[i - 1]) = q[(i - 1) + 1]
  BY <1>5 DEF Straight
<1>8. (i - 1) + 1 = i
  BY <1>1, <1>3
<1> QED
  BY <1>3, <1>6, <1>7, <1>8

\* A path that nothing follows, or only a name it has been at, is the longest.
LEMMA DeadEnd ==
  ASSUME NEW records, IsSequence(records), NEW p, NEW k, Straight(records, p, k),
         k <= Len(records) + 1,
         \/ k = Len(records) + 1
         \/ p[k] \notin Owners(records)
         \/ \E i \in 1..k : TargetOf(records, p[k]) = p[i]
  PROVE  /\ p \in AliasPaths(records) /\ Len(p) = k
         /\ \A q \in AliasPaths(records) : Len(q) <= k
<1>1. p \in AliasPaths(records) /\ Len(p) = k
  BY PathsAreStraight
<1>2. ASSUME NEW q \in AliasPaths(records), ~(Len(q) <= k) PROVE FALSE
  <2> DEFINE n == Len(q)
  <2>1. n \in 1..(Len(records) + 1) /\ Straight(records, q, n)
    BY PathsAreStraight
  <2> HIDE DEF n
  <2>2. k \in Nat \ {0} /\ n \in Nat /\ Len(records) \in Nat
    BY <2>1 DEF Straight, IsSequence
  <2>3. k < n
    BY <1>2, <2>2 DEF n
  <2>4. \A i \in 1..k : p[i] = q[i]
    BY <2>1, <2>2, <2>3, PathsAgree
  <2>5. k \in 1..(n - 1) /\ k \in 1..k /\ k + 1 \in 1..n /\ k # Len(records) + 1
    BY <2>1, <2>2, <2>3
  <2>6. q[k] \in Owners(records) /\ TargetOf(records, q[k]) = q[k + 1]
    BY <2>1, <2>5 DEF Straight
  <2>7. PICK i \in 1..k : q[k + 1] = q[i]
    BY <2>4, <2>5, <2>6
  <2>8. i \in 1..n /\ k + 1 # i
    BY <2>2, <2>3, <2>7
  <2> QED
    BY <2>1, <2>5, <2>7, <2>8 DEF Straight
<1> QED
  BY <1>1, <1>2

\* An owner has a target among the names of the records.
LEMMA TargetIsMentioned ==
  ASSUME NEW records, IsSequence(records), NEW name \in Owners(records)
  PROVE  TargetOf(records, name) \in Mentioned(records)
<1> DEFINE own == {k \in Aliases(records) : records[k].name = name}
<1>1. own \subseteq Nat /\ own # {}
  BY DEF Owners, Aliases, IsSequence
<1>2. \E k \in own : \A j \in own : k <= j
  <2> HIDE DEF own
  <2> QED
    BY <1>1, Least
<1>3. PICK k \in own : TargetOf(records, name) = records[k].target
  BY <1>2 DEF TargetOf
<1> QED
  BY <1>3 DEF Mentioned

\* What followCNAMEs knows after n turns: the path it has gone, and why it is not longer.
Gone(records, w, n) ==
  \E k, p :
    /\ k \in 1..(n + 1)
    /\ Straight(records, p, k)
    /\ w.name = p[k]
    /\ w.seen = {p[i] : i \in 1..k}
    /\ w.loops => w.name \in Owners(records) /\ TargetOf(records, w.name) \in w.seen
    /\ k = n + 1 \/ w.loops \/ w.name \notin Owners(records)

Walks(records) ==
  [name : Mentioned(records), seen : SUBSET Mentioned(records), loops : BOOLEAN]

LEMMA GoesOn ==
  ASSUME NEW records, IsSequence(records), NEW w \in Walks(records), NEW n \in Nat,
         Gone(records, w, n)
  PROVE  /\ Follow(w, records) \in Walks(records)
         /\ Gone(records, Follow(w, records), n + 1)
<1> DEFINE v == Follow(w, records)
           target == TargetOf(records, w.name)
<1>1. PICK k, p :
        /\ k \in 1..(n + 1)
        /\ Straight(records, p, k)
        /\ w.name = p[k]
        /\ w.seen = {p[i] : i \in 1..k}
        /\ w.loops => w.name \in Owners(records) /\ target \in w.seen
        /\ k = n + 1 \/ w.loops \/ w.name \notin Owners(records)
  BY DEF Gone
<1>2. k \in 1..(n + 2) /\ k + 1 \in 1..(n + 2) /\ k \in Nat \ {0} /\ (n + 1) + 1 = n + 2
  BY <1>1
<1>3. CASE w.loops \/ w.name \notin Owners(records)
  <2>1. v = w
    BY <1>3 DEF Follow
  <2> QED
    BY <1>1, <1>2, <1>3, <2>1 DEF Gone
<1>4. CASE ~w.loops /\ w.name \in Owners(records) /\ target \in w.seen
  <2>1. v = [w EXCEPT !.loops = TRUE]
    BY <1>4 DEF Follow
  <2>2. v \in Walks(records) /\ v.name = w.name /\ v.seen = w.seen /\ v.loops
    BY <2>1 DEF Walks
  <2> HIDE DEF v
  <2>3. Gone(records, v, n + 1)
    BY <1>1, <1>2, <1>4, <2>2 DEF Gone
  <2> QED
    BY <2>2, <2>3 DEF v
<1>5. CASE ~w.loops /\ w.name \in Owners(records) /\ target \notin w.seen
  <2>1. v = [w EXCEPT !.name = target, !.seen = @ \cup {target}]
    BY <1>5 DEF Follow
  <2>2. target \in Mentioned(records)
    BY <1>5, TargetIsMentioned
  <2>3. /\ v \in Walks(records)
        /\ v.name = target /\ v.seen = w.seen \cup {target} /\ ~v.loops
    BY <1>5, <2>1, <2>2 DEF Walks
  <2> HIDE DEF v
  <2> DEFINE q == [i \in 1..(k + 1) |-> IF i = k + 1 THEN target ELSE p[i]]
  <2>4. k = n + 1
    BY <1>1, <1>5
  <2>5. /\ \A i \in 1..k : q[i] = p[i] /\ i \in 1..(k + 1) /\ i # k + 1
        /\ q[k + 1] = target
        /\ 1..(k + 1) = 1..k \cup {k + 1}
        /\ q \in [1..(k + 1) -> Mentioned(records)]
    BY <1>1, <1>2, <2>2 DEF Straight
  <2>6. \A i \in 1..k : p[i] # target
    BY <1>1, <1>5
  <2> HIDE DEF q
  <2>7. Straight(records, q, k + 1)
    <3>1. \A i, j \in 1..(k + 1) : q[i] = q[j] => i = j
      BY <1>1, <2>5, <2>6 DEF Straight
    <3>2. ASSUME NEW i \in 1..((k + 1) - 1)
          PROVE  q[i] \in Owners(records) /\ TargetOf(records, q[i]) = q[i + 1]
      <4>1. i \in 1..k
        BY <1>2, <3>2
      <4>2. CASE i = k
        BY <1>1, <1>5, <2>5, <4>1, <4>2
      <4>3. CASE i # k
        <5>1. i \in 1..(k - 1) /\ i + 1 \in 1..k
          BY <1>2, <4>1, <4>3
        <5> QED
          BY <1>1, <2>5, <4>1, <5>1 DEF Straight
      <4> QED
        BY <4>2, <4>3
    <3>3. q[1] = Hostname
      BY <1>1, <1>2, <2>5 DEF Straight
    <3> QED
      BY <1>2, <2>5, <3>1, <3>2, <3>3 DEF Straight
  <2>8. v.seen = {q[i] : i \in 1..(k + 1)}
    <3>1. {q[i] : i \in 1..(k + 1)} = {q[i] : i \in 1..k} \cup {q[k + 1]}
      BY <2>5
    <3>2. {q[i] : i \in 1..k} = {p[i] : i \in 1..k}
      BY <2>5
    <3> QED
      BY <1>1, <2>3, <2>5, <3>1, <3>2
  <2>9. Gone(records, v, n + 1)
    BY <1>2, <2>3, <2>4, <2>5, <2>7, <2>8 DEF Gone
  <2> QED
    BY <2>3, <2>9 DEF v
<1> QED
  BY <1>3, <1>4, <1>5

\* f holds the first m turns of the loop.
Turns(records, f, m) ==
  /\ DOMAIN f = 0..m
  /\ f[0] = [name |-> Hostname, seen |-> {Hostname}, loops |-> FALSE]
  /\ \A n \in 1..m : f[n] = Follow(f[n - 1], records)

LEMMA TurnsExist ==
  ASSUME NEW records, NEW m \in Nat
  PROVE  \E f : Turns(records, f, m)
<1> DEFINE Bad == {n \in Nat : ~\E f : Turns(records, f, n)}
<1> SUFFICES ASSUME Bad # {} PROVE FALSE
  OBVIOUS
<1>1. PICK n \in Bad : \A j \in Bad : n <= j
  <2>1. Bad \subseteq Nat
    OBVIOUS
  <2> HIDE DEF Bad
  <2> QED
    BY <2>1, Least
<1>2. n \in Nat /\ ~\E f : Turns(records, f, n)
  BY <1>1
<1>3. CASE n = 0
  <2> DEFINE f == [j \in 0..0 |-> [name |-> Hostname, seen |-> {Hostname}, loops |-> FALSE]]
  <2>1. Turns(records, f, 0)
    BY DEF Turns
  <2> QED
    BY <1>2, <1>3, <2>1
<1>4. CASE n # 0
  <2>1. n - 1 \in Nat /\ n - 1 \notin Bad
    BY <1>1, <1>2, <1>4
  <2>2. PICK f : Turns(records, f, n - 1)
    BY <2>1
  <2> DEFINE g == [j \in 0..n |-> IF j = n THEN Follow(f[n - 1], records) ELSE f[j]]
  <2>3. /\ DOMAIN g = 0..n /\ g[n] = Follow(f[n - 1], records)
        /\ \A j \in 0..(n - 1) : g[j] = f[j]
    BY <1>2, <1>4
  <2> HIDE DEF g
  <2>4. \A j \in 1..n : g[j] = Follow(g[j - 1], records)
    <3> SUFFICES ASSUME NEW j \in 1..n PROVE g[j] = Follow(g[j - 1], records)
      OBVIOUS
    <3>1. j - 1 \in 0..(n - 1) /\ g[j - 1] = f[j - 1]
      BY <1>2, <2>3
    <3>2. CASE j = n
      BY <2>3, <3>1, <3>2
    <3>3. CASE j # n
      <4>1. j \in 1..(n - 1) /\ j \in 0..(n - 1)
        BY <1>2, <3>3
      <4> QED
        BY <2>2, <2>3, <3>1, <4>1 DEF Turns
    <3> QED
      BY <3>2, <3>3
  <2>5. g[0] = f[0]
    BY <2>1, <2>3
  <2>6. Turns(records, g, n)
    BY <2>2, <2>3, <2>4, <2>5 DEF Turns
  <2> QED
    BY <1>2, <2>6
<1> QED
  BY <1>3, <1>4

LEMMA TurnsGo ==
  ASSUME NEW records, IsSequence(records), NEW m \in Nat, NEW f, Turns(records, f, m)
  PROVE  f[m] \in Walks(records) /\ Gone(records, f[m], m)
<1> DEFINE Lost == {n \in 0..m : ~(f[n] \in Walks(records) /\ Gone(records, f[n], n))}
<1> SUFFICES ASSUME Lost # {} PROVE FALSE
  OBVIOUS
<1>1. PICK n \in Lost : \A j \in Lost : n <= j
  <2>1. Lost \subseteq Nat
    OBVIOUS
  <2> HIDE DEF Lost
  <2> QED
    BY <2>1, Least
<1>2. n \in 0..m /\ ~(f[n] \in Walks(records) /\ Gone(records, f[n], n))
  BY <1>1
<1>3. CASE n = 0
  <2>1. f[0] = [name |-> Hostname, seen |-> {Hostname}, loops |-> FALSE]
    BY DEF Turns
  <2>2. f[0] \in Walks(records)
    BY <2>1 DEF Walks, Mentioned
  <2> DEFINE p == [i \in 1..1 |-> Hostname]
  <2>3. Straight(records, p, 1)
    BY DEF Straight, Mentioned
  <2>4. {p[i] : i \in 1..1} = {Hostname} /\ p[1] = Hostname
    OBVIOUS
  <2> HIDE DEF p
  <2>5. Gone(records, f[0], 0)
    BY <2>1, <2>3, <2>4 DEF Gone
  <2> QED
    BY <1>2, <1>3, <2>2, <2>5
<1>4. CASE n # 0
  <2>1. n - 1 \in Nat /\ n - 1 \in 0..m /\ n \in 1..m /\ ~(n <= n - 1) /\ (n - 1) + 1 = n
    BY <1>2, <1>4
  <2>2. f[n - 1] \in Walks(records) /\ Gone(records, f[n - 1], n - 1)
    BY <1>1, <2>1
  <2>3. f[n] = Follow(f[n - 1], records)
    BY <2>1 DEF Turns
  <2> QED
    BY <1>2, <2>1, <2>2, <2>3, GoesOn
<1> QED
  BY <1>3, <1>4

\* followCNAMEs says what the loop knows after as many turns as there are records.
LEMMA FollowCNAMEsTurns ==
  ASSUME NEW records, IsSequence(records)
  PROVE  \E f :
           /\ Turns(records, f, Len(records))
           /\ FollowCNAMEs(records).name = f[Len(records)].name
           /\ FollowCNAMEs(records).complete =
                (Unambiguous(records) /\ ~f[Len(records)].loops
                   /\ f[Len(records)].name \notin Owners(records))
<1> DEFINE N == Len(records)
           Def(f) == [n \in 0..N |->
                        IF n = 0 THEN [name |-> Hostname, seen |-> {Hostname}, loops |-> FALSE]
                        ELSE Follow(f[n - 1], records)]
           walk == CHOOSE f : f = Def(f)
<1>1. N \in Nat
  BY DEF IsSequence
<1>2. PICK f : Turns(records, f, N)
  BY <1>1, TurnsExist
<1> DEFINE g == [n \in 0..N |-> f[n]]
<1>3. g = Def(g)
  <2>1. \A n \in 0..N : g[n] = f[n]
    OBVIOUS
  <2>2. \A n \in 0..N : g[n] = Def(g)[n]
    BY <1>1, <1>2, <2>1 DEF Turns
  <2> QED
    BY <2>2
<1>4. walk = Def(walk)
  BY <1>3
<1>5. Turns(records, walk, N)
  <2> HIDE DEF walk
  <2>1. /\ DOMAIN walk = 0..N
        /\ \A n \in 0..N :
             walk[n] = IF n = 0 THEN [name |-> Hostname, seen |-> {Hostname}, loops |-> FALSE]
                       ELSE Follow(walk[n - 1], records)
    <3>1. \A h : h = Def(h) =>
            /\ DOMAIN h = 0..N
            /\ \A n \in 0..N :
                 h[n] = IF n = 0 THEN [name |-> Hostname, seen |-> {Hostname}, loops |-> FALSE]
                        ELSE Follow(h[n - 1], records)
      BY Zenon
    <3> QED
      BY <1>4, <3>1
  <2>2. 0 \in 0..N /\ \A n \in 1..N : n \in 0..N /\ n # 0
    BY <1>1
  <2> QED
    BY <2>1, <2>2 DEF Turns
<1> HIDE DEF walk
<1> DEFINE whole == Unambiguous(records) /\ ~walk[N].loops /\ walk[N].name \notin Owners(records)
<1>6. FollowCNAMEs(records) = [name |-> walk[N].name, complete |-> whole]
  BY DEF FollowCNAMEs, walk
<1>7. FollowCNAMEs(records).name = walk[N].name /\ FollowCNAMEs(records).complete = whole
  <2> HIDE DEF whole
  <2> QED
    BY <1>6
<1> QED
  BY <1>5, <1>7

\* The name reached is the end of the longest path.
LEMMA ChainEnd ==
  ASSUME NEW records, IsSequence(records)
  PROVE  LET paths == AliasPaths(records)
             longest == CHOOSE p \in paths : \A q \in paths : Len(q) <= Len(p)
             chain == FollowCNAMEs(records)
         IN  /\ chain.name = longest[Len(longest)]
             /\ chain.complete => chain.name \notin Owners(records) /\ Unambiguous(records)
<1> DEFINE paths == AliasPaths(records)
           longest == CHOOSE p \in paths : \A q \in paths : Len(q) <= Len(p)
           chain == FollowCNAMEs(records)
           N == Len(records)
<1>1. PICK f : /\ Turns(records, f, N)
               /\ chain.name = f[N].name
               /\ chain.complete =
                    (Unambiguous(records) /\ ~f[N].loops /\ f[N].name \notin Owners(records))
  BY FollowCNAMEsTurns
<1>2. N \in Nat
  BY DEF IsSequence
<1>3. Gone(records, f[N], N)
  BY <1>1, <1>2, TurnsGo
<1>4. PICK k, p :
        /\ k \in 1..(N + 1)
        /\ Straight(records, p, k)
        /\ f[N].name = p[k]
        /\ f[N].seen = {p[i] : i \in 1..k}
        /\ f[N].loops => TargetOf(records, f[N].name) \in f[N].seen
        /\ k = N + 1 \/ f[N].loops \/ f[N].name \notin Owners(records)
  BY <1>3 DEF Gone
<1>5. \/ k = N + 1
      \/ p[k] \notin Owners(records)
      \/ \E i \in 1..k : TargetOf(records, p[k]) = p[i]
  BY <1>4
<1>6. p \in paths /\ Len(p) = k /\ \A q \in paths : Len(q) <= k
  BY <1>2, <1>4, <1>5, DeadEnd
<1>7. longest \in paths /\ \A q \in paths : Len(q) <= Len(longest)
  <2> HIDE DEF paths
  <2>1. \E q \in paths : \A s \in paths : Len(s) <= Len(q)
    BY <1>6
  <2> QED
    BY <2>1
<1> HIDE DEF longest
<1>8. Len(longest) \in 1..(N + 1) /\ Straight(records, longest, Len(longest))
  BY <1>7, PathsAreStraight
<1>9. Len(longest) = k
  BY <1>2, <1>6, <1>7, <1>8
<1>10. longest[k] = p[k]
  <2>1. k \in 1..k /\ k <= k
    BY <1>2, <1>4
  <2> QED
    BY <1>4, <1>8, <1>9, <2>1, PathsAgree
<1>11. chain.name = longest[Len(longest)]
  BY <1>1, <1>4, <1>9, <1>10
<1>12. chain.complete => chain.name \notin Owners(records) /\ Unambiguous(records)
  BY <1>1
<1> HIDE DEF chain, paths
<1> QED
  BY <1>11, <1>12 DEF longest, chain, paths

-----------------------------------------------------------------------------
(***************************************************************************)
(* The evidence is made from the one response that arrived.                *)
(***************************************************************************)
MadeFrom(e) ==
  \E r \in Responses, type \in Types :
    local.response = {r} /\ e = EvidenceFromResponse(r, type)

MadeInv ==
  /\ local.response = {} \/ \E r \in Responses : local.response = {r}
  /\ phase \notin {"commit", "returned"} => local.evidence = {}
  /\ phase # "returned" => result.evidence = {}
  /\ result.evidence \subseteq local.evidence
  /\ \A e \in local.evidence : MadeFrom(e)

LEMMA MadeNext == TypeOK /\ MadeInv /\ [Next]_vars => MadeInv'
<1> SUFFICES ASSUME TypeOK, MadeInv, [Next]_vars PROVE MadeInv'
  OBVIOUS
<1>1. ASSUME NEW place, GoTo(place), phase \notin {"commit", "returned"}
      PROVE  MadeInv'
  BY <1>1 DEF GoTo, MadeInv, MadeFrom
<1>2. ASSUME NEW code, Fail(code) PROVE MadeInv'
  BY <1>2 DEF Fail, Return, MadeInv, MadeFrom
<1>3. CASE Prepare
  <2>1. CASE SelectEndpoint
    BY <2>1 DEF SelectEndpoint, MadeInv, MadeFrom, TypeOK
  <2>2. CASE StartAttempt
    BY <2>2 DEF StartAttempt, MadeInv, MadeFrom, Wire
  <2>3. CASE Normalize \/ Enter
    BY <1>1, <1>2, <2>3 DEF Normalize, Enter
  <2>4. CASE UnknownResolver \/ WrongEndpoint \/ NoMessageID
    BY <1>2, <2>4 DEF UnknownResolver, WrongEndpoint, NoMessageID
  <2> QED
    BY <1>3, <2>1, <2>2, <2>3, <2>4 DEF Prepare
<1>4. CASE Exchange
  <2>1. ASSUME NEW error, NEW response, Exchanged(error, response), phase \in Blocking,
               response = {} \/ \E r \in Responses : response = {r}
        PROVE  MadeInv'
    <3>1. /\ local'.response = response /\ local'.evidence = local.evidence
          /\ phase' = "exchanged" /\ result' = result
      BY <2>1 DEF Exchanged, TypeOK
    <3>2. local.evidence = {} /\ result.evidence = {}
      BY <2>1 DEF MadeInv, Blocking
    <3> QED
      BY <2>1, <3>1, <3>2 DEF MadeInv
  <2>2. CASE Dialled
    BY <2>2 DEF Dialled, MadeInv, MadeFrom, TypeOK
  <2> QED
    BY <1>1, <1>4, <2>1, <2>2, ExchangeSteps DEF Blocking
<1>5. CASE Judge
  BY <1>1, <1>2, <1>5 DEF Judge
<1>6. CASE BuildEvidence
  <2>1. CASE phase' = "commit"
    <3>1. /\ phase = "decoded" /\ result' = result /\ local'.response = local.response
          /\ local'.evidence = {EvidenceFromResponse(r, Input.type) : r \in local.response}
      BY <1>6, <2>1 DEF BuildEvidence, Fail, Return, TypeOK
    <3>2. Input.type \in Types
      BY RequestFields DEF Requests
    <3>3. \A e \in local'.evidence : MadeFrom(e)'
      BY <3>1, <3>2 DEF MadeInv, MadeFrom
    <3> QED
      BY <2>1, <3>1, <3>3 DEF MadeInv
  <2>2. CASE phase' # "commit"
    BY <1>2, <1>6, <2>2 DEF BuildEvidence
  <2> QED
    BY <2>1, <2>2
<1>7. CASE Commit
  <2>1. CASE \E e \in local.evidence : Succeed(e)
    BY <2>1 DEF Succeed, Return, MadeInv, MadeFrom
  <2> QED
    BY <1>2, <1>7, <2>1 DEF Commit
<1>8. CASE CloseConnection
  BY <1>8 DEF CloseConnection, MadeInv, MadeFrom, TypeOK
<1>9. CASE AttemptEnds \/ CallerEnds \/ UNCHANGED vars
  BY <1>9 DEF AttemptEnds, CallerEnds, vars, MadeInv, MadeFrom
<1> QED
  BY <1>3, <1>4, <1>5, <1>6, <1>7, <1>8, <1>9 DEF Next, Observe, Conclude, Done

LEMMA MadeChainEnd == MadeInv => ChainEndIsReached
<1> SUFFICES ASSUME MadeInv, NEW e \in result.evidence
             PROVE  LET paths == AliasPaths(e.records)
                        longest == CHOOSE p \in paths : \A q \in paths : Len(q) <= Len(p)
                    IN /\ e.effective = longest[Len(longest)]
                       /\ e.kind # "incomplete" =>
                            /\ e.effective \notin Owners(e.records)
                            /\ Unambiguous(e.records)
                            /\ \A r \in local.response : ~r.truncated /\ ~r.damaged
  BY DEF ChainEndIsReached, Unambiguous
<1>1. PICK r \in Responses, type \in Types :
        local.response = {r} /\ e = EvidenceFromResponse(r, type)
  BY DEF MadeInv, MadeFrom
<1> DEFINE chain == FollowCNAMEs(r.answers)
<1>2. /\ e.records = r.answers /\ e.effective = chain.name
      /\ e.kind = ClassifyAnswer(r, type, chain)
  BY <1>1 DEF EvidenceFromResponse
<1>3. IsSequence(r.answers)
  BY ResponseAssumption DEF IsSequence
<1>4. e.kind # "incomplete" => chain.complete /\ ~r.truncated /\ ~r.damaged
  <2> HIDE DEF chain
  <2> QED
    BY <1>2 DEF ClassifyAnswer
<1> QED
  BY <1>1, <1>2, <1>3, <1>4, ChainEnd

\* The effective name of an answer is the end of the longest path along its aliases that
\* does not repeat a name, and an answer is only called complete if it is not cut,
\* damaged, in a loop or of two minds, for messages of any number of records in any order.
THEOREM ChainEndHolds == Spec => []ChainEndIsReached
<1>1. Init => MadeInv
  BY DEF Init, Start, Locals, NoResult, MadeInv
<1> QED
  BY <1>1, MadeNext, MadeChainEnd, TypeCorrect, PTL DEF Spec
=============================================================================
