-------------------------- MODULE CommandLineProofs --------------------------
(***************************************************************************)
(* Theorems about one run of the program, for all commands, requests and   *)
(* peers.  There is one lemma per probe about what its steps keep; the     *)
(* steps of the command line itself are then few.                          *)
(***************************************************************************)
EXTENDS CommandLineProperties, EnumerationProofs

DNSProofs == INSTANCE DNSObservationProofs

-----------------------------------------------------------------------------
(***************************************************************************)
(* The inductive invariant.                                                *)
(***************************************************************************)
\* The attempt's context is cancelled only by the caller's.
ContextInv ==
  /\ parent \in ContextErrors
  /\ attempt \in ContextErrors \cup {"none"}
  /\ attempt = "canceled" => parent = "canceled"

\* What the two probes with a dial know at each place.  A cause is the program's own
\* doing only when a context has ended, or when the evidence says so already.
DialCauses == {"timeout", "refused", "no_route", "reset", "other", "own"}

Sightings(reasons, found, kept) ==
  [status : {"confirmed"}, reason : {"none"}, found : (SUBSET found) \ {{}}, kept : kept]
    \cup [status : {"unconfirmed"}, reason : reasons, found : {{}}, kept : kept]

DirectFields(sightings, kept) ==
  [input : [target : {"public", "refused"}], conn : {"none", "open", "expired"},
   cause : DialCauses \cup {"none", "peer"}, evidence : SUBSET sightings, kept : kept]

OutOfTime(e) == e.status = "unconfirmed" /\ e.reason = "timeout"

DirectInv ==
  /\ phase \notin {"start", "returned"} => local.input.target = "public"
  /\ phase \in {"start", "entered", "dial", "exchange", "receive"} => local.cause = "none"
  /\ phase = "dialFailed" =>
       local.cause \in DialCauses /\ (local.cause = "own" => Ended(attempt))
  /\ phase \in {"commit", "settle"} /\ local.cause = "own" =>
       Ended(attempt) \/ \A e \in local.evidence : OutOfTime(e)

TLSSightings == Sightings(TLS!Reasons, [dates : LeafOrders], {{}})
TLSInv == local \in DirectFields(TLSSightings, {{}}) /\ DirectInv

\* Reading lines: what was passed is within the limit, what was received parses.
StreamLines == UNION {{s[k] : k \in DOMAIN s} : s \in Streams}
KeptLines == [preamble : 0..MaxPreambleLines, sent : BOOLEAN]
Kinds == {"more", "partial", "received", "invalid_identification", "preamble_limit"}

SSHSightings == Sightings(SSH!Reasons, StreamLines, KeptLines)

SSHFields ==
  [input : [target : {"public", "refused"}], conn : {"none", "open", "expired"},
   cause : DialCauses \cup {"none", "peer"}, evidence : SUBSET SSHSightings, kept : KeptLines,
   seen : [kind : Kinds, preamble : 0..MaxPreambleLines, bytes : Nat],
   taken : Nat, stream : Streams \cup {<<>>}]

SSHInv ==
  /\ local \in SSHFields
  /\ DirectInv
  /\ phase \in {"start", "entered", "dial", "exchange"} =>
       local.seen = SSH!NothingRead /\ local.taken = 0
  /\ local.seen.kind = "received" =>
       local.taken \in DOMAIN local.stream /\ SSH!Parses(local.stream[local.taken])
  /\ \A e \in local.evidence : e.status = "confirmed" =>
       e.kept.sent /\ \A line \in e.found : SSH!Parses(line)

WebInv ==
  /\ local \in [input : [scheme : {"http", "https"}, hostname : Hostnames,
                         target : {"public", "refused"}],
                trace : [connected : BOOLEAN, secured : BOOLEAN, written : BOOLEAN],
                cause : {"none", "timeout", "refused", "no_route", "reset", "other",
                         "certificate", "own"},
                response : SUBSET [sound : BOOLEAN, protocol : Protocols],
                evidence : SUBSET [protocol : Protocols, tls : BOOLEAN]]
  /\ phase \notin {"start", "returned"} => ~Web!Rejected(local.input)
  /\ local.cause = "own" => Ended(attempt) /\ phase \in {"failed", "returned"}
  /\ local.cause = "certificate" => Web!Secure
  /\ \A e \in local.evidence : e.tls = Web!Secure

FamilyInv ==
  /\ local \in [input : {"empty"}, cause : {"none", "unavailable", "timeout", "other", "own"},
                conditions : Seq({"route_selected", "unavailable"})]
  /\ local.cause = "own" => Ended(attempt) /\ phase \in {"failed", "returned"}
  /\ phase \in {"start", "route", "failed"} => Len(local.conditions) < Family!Routes
  /\ phase = "commit" => Len(local.conditions) = Family!Routes

SystemInv ==
  /\ local \in [input : [hostname : {"valid", "invalid"}],
                cause : {"none", "not_found", "timeout", "other", "own"},
                addresses : {"none", "some", "empty", "invalid"}]
  /\ phase \notin {"start", "returned"} => local.input.hostname = "valid"
  /\ local.cause = "own" => Ended(parent) /\ phase \in {"found", "returned"}

InventoryInv ==
  /\ local \in [input : {"empty"}, cause : {"none", "unavailable", "invalid", "own"},
                servers : Inventories \cup {<<>>}]
  /\ local.cause = "own" => Ended(parent) /\ phase \in {"collected", "returned"}
  /\ phase = "commit" => Inventory!Normal(local.servers)

DNSInv == DNSProofs!TypeOK /\ DNSProofs!OwnInv

LocalInv ==
  /\ task = "tls-observe" => TLSInv
  /\ task = "ssh-observe" => SSHInv
  /\ task = "web-observe" => WebInv
  /\ task = "family-conditions" => FamilyInv
  /\ task = "resolve" => SystemInv
  /\ task = "resolver-inventory" => InventoryInv
  /\ task = "dns-observe" => DNSInv
  /\ task = "path" => local \in PathLocals

\* What was returned: a cancellation only to a caller that cancelled, and never
\* another's blame for what the program ended.
ResultInv ==
  Returned =>
    /\ result.outcome \in {"succeeded", "failed", "cancelled"}
    /\ result.outcome = "cancelled" => parent = "canceled"
    /\ EndedItself =>
         \/ result.code \in TimeCodes
         \/ Unconfirmed /\ \A e \in result.evidence : e.reason = "timeout"

IInv ==
  /\ task \in Probes
  /\ exit # {} => Concluded
  /\ ContextInv
  /\ LocalInv
  /\ ResultInv

-----------------------------------------------------------------------------
(***************************************************************************)
(* The steps of the probes, as the command line sees them.                 *)
(***************************************************************************)
\* A step that does not return leaves the Result and the caller's context alone.
Quiet == UNCHANGED <<parent, result>> /\ Returned' = Returned

\* A return: only for a live caller is it a success, unless it is an unconfirmed one.
Returns ==
  /\ ~Returned /\ Returned'
  /\ UNCHANGED contexts
  /\ result'.outcome = "succeeded" => parent = "active" \/ Unconfirmed'

Moves == ContextInv' /\ ResultInv' /\ (Quiet \/ Returns)

LEMMA TLSSteps ==
  ASSUME ContextInv, TLSInv, task = "tls-observe", task' = task, TLS!Observe, ResultInv
  PROVE  Moves /\ TLSInv'
<1> USE DEF Moves, Quiet, Returns, Returned, contexts, ContextInv, ContextErrors, TLSInv,
            DirectInv,
            DirectFields, TLS!contexts, TLS!Ended, Ended, ResultInv, EndedItself, TimeCodes,
            Unconfirmed
<1>1. CASE TLS!Connect
  <2>1. CASE TLS!Normalize
    BY <2>1 DEF TLS!Normalize, TLS!Fail, TLS!Return, TLS!GoTo
  <2>2. CASE TLS!Enter
    BY <2>2 DEF TLS!Enter, TLS!TCPFailure, TLS!TCPCode, TLS!Fail, TLS!Return, TLS!BeginAttempt
  <2>3. CASE TLS!DialGivesUp
    BY <2>3 DEF TLS!DialGivesUp, TLS!DialReturns, DialCauses
  <2>4. CASE TLS!ReportDial
    BY <2>4 DEF TLS!ReportDial, TLS!TCPFailure, TLS!TCPCode, TLS!Fail, TLS!Return, DialCauses
  <2> QED
    BY <1>1, <2>1, <2>2, <2>3, <2>4 DEF TLS!Connect
<1>2. CASE TLS!DialFails
  BY <1>2 DEF TLS!DialFails, TLS!DialReturns, DialCauses
<1>3. CASE TLS!Dialled
  <2>1. TLS!Unconfirmed("exchange_failure", local.kept) \in TLSSightings
    BY DEF TLS!Unconfirmed, TLSSightings, Sightings, TLS!Reasons
  <2> QED
    BY <1>3, <2>1 DEF TLS!Dialled, TLS!Fail, TLS!Return, DialCauses
<1>4. CASE TLS!ConnectionDeadline \/ TLS!Interrupt \/ TLS!AttemptEnds
  BY <1>4 DEF TLS!ConnectionDeadline, TLS!Interrupt, TLS!Expire, TLS!AttemptEnds
<1>5. CASE TLS!CheckCancelled
  BY <1>5 DEF TLS!CheckCancelled, TLS!Fail, TLS!Return, TLS!GoTo
<1>6. CASE TLS!Settle
  <2>1. PICK e \in local.evidence :
          TLS!Succeed(
            IF Ended(parent) \/ Ended(attempt) THEN TLS!Unconfirmed("timeout", e.kept) ELSE e)
    BY <1>6 DEF TLS!Settle
  <2> DEFINE f == IF Ended(parent) \/ Ended(attempt) THEN TLS!Unconfirmed("timeout", e.kept) ELSE e
  <2>2. /\ phase = "settle" /\ phase' = "returned" /\ UNCHANGED <<contexts, local>>
        /\ result'.outcome = "succeeded" /\ result'.evidence = {f}
    BY <1>6, <2>1 DEF TLS!Settle, TLS!Succeed, TLS!Return
  <2>3. Ended(parent) \/ Ended(attempt) => OutOfTime(f)
    BY DEF TLS!Unconfirmed, OutOfTime
  <2>4. ~(Ended(parent) \/ Ended(attempt)) => f = e /\ parent = "active"
    OBVIOUS
  <2> HIDE DEF f
  <2>5. local.cause = "own" => OutOfTime(f)
    BY <2>2, <2>3, <2>4
  <2> QED
    BY <2>2, <2>3, <2>4, <2>5 DEF OutOfTime
<1>7. ASSUME NEW cause \in {"own", "peer"}, NEW e \in TLSSightings, phase = "exchange",
             TLS!Exchanged(cause, e), cause = "own" => Ended(attempt) \/ OutOfTime(e)
      PROVE  Moves /\ TLSInv'
  <2>1. /\ phase' = "commit" /\ UNCHANGED <<contexts, result>>
        /\ local' = [local EXCEPT !.conn = "none", !.cause = cause, !.evidence = {e}]
    BY <1>7 DEF TLS!Exchanged
  <2>2. /\ local' \in DirectFields(TLSSightings, {{}})
        /\ local'.cause = cause /\ local'.evidence = {e} /\ local'.input = local.input
    BY <1>7, <2>1 DEF DialCauses
  <2> QED
    BY <1>7, <2>1, <2>2
<1>8. \A reason \in TLS!Reasons : TLS!Unconfirmed(reason, {}) \in TLSSightings
  BY DEF TLS!Unconfirmed, TLSSightings, Sightings
<1>9. CASE TLS!HandshakeFails
  BY <1>7, <1>8, <1>9 DEF TLS!HandshakeFails, TLS!Reasons
<1>10. CASE TLS!HandshakeEnds
  <2>1. OutOfTime(TLS!Unconfirmed("timeout", {}))
    BY DEF OutOfTime, TLS!Unconfirmed
  <2> QED
    BY <1>7, <1>8, <1>10, <2>1 DEF TLS!HandshakeEnds, TLS!ContextReason, TLS!Reasons
<1>11. CASE TLS!HandshakeCompletes
  <2>1. \A order \in LeafOrders : TLS!Confirmed([dates |-> order], {}) \in TLSSightings
    <3> SUFFICES ASSUME NEW order \in LeafOrders
                 PROVE  TLS!Confirmed([dates |-> order], {}) \in TLSSightings
      OBVIOUS
    <3>1. [dates |-> order] \in [dates : LeafOrders]
      OBVIOUS
    <3>2. {[dates |-> order]} \in (SUBSET [dates : LeafOrders]) \ {{}}
      BY <3>1
    <3> QED
      BY <3>2 DEF TLS!Confirmed, TLSSightings, Sightings
  <2> QED
    BY <1>7, <1>8, <1>11, <2>1 DEF TLS!HandshakeCompletes, TLS!Reasons
<1> QED
  BY <1>1, <1>2, <1>3, <1>4, <1>5, <1>6, <1>9, <1>10, <1>11
     DEF TLS!Observe, TLS!DirectStep, TLS!CommitEvidence

\* One turn of the loop keeps within the limits, and receives only what parses.
LEMMA Turns ==
  ASSUME NEW seen \in [kind : Kinds, preamble : 0..MaxPreambleLines, bytes : Nat],
         NEW line, line.bytes \in Nat
  PROVE  /\ SSH!Turn(seen, line) \in [kind : Kinds, preamble : 0..MaxPreambleLines, bytes : Nat]
         /\ SSH!Turn(seen, line).kind = "received" => SSH!Parses(line)
<1>1. SSH!PreambleLine(seen, line) \in [kind : {"more", "preamble_limit"},
                                        preamble : 0..MaxPreambleLines, bytes : Nat]
  BY LimitsAssumption DEF SSH!PreambleLine, SSH!Reading
<1> QED
  BY <1>1 DEF SSH!Turn, SSH!Reading, Kinds

LEMMA SSHSteps ==
  ASSUME ContextInv, SSHInv, task = "ssh-observe", task' = task, SSH!Observe, ResultInv
  PROVE  Moves /\ SSHInv'
<1> USE DEF Moves, Quiet, Returns, Returned, contexts, ContextInv, ContextErrors, SSHInv,
            DirectInv,
            SSHFields, SSH!contexts, SSH!Ended, Ended, ResultInv, EndedItself, TimeCodes,
            Unconfirmed
<1>1. CASE SSH!Connect
  <2>1. CASE SSH!Normalize
    BY <2>1 DEF SSH!Normalize, SSH!Fail, SSH!Return, SSH!GoTo
  <2>2. CASE SSH!Enter
    BY <2>2 DEF SSH!Enter, SSH!TCPFailure, SSH!TCPCode, SSH!Fail, SSH!Return, SSH!BeginAttempt
  <2>3. CASE SSH!DialGivesUp
    BY <2>3 DEF SSH!DialGivesUp, SSH!DialReturns, DialCauses
  <2>4. CASE SSH!ReportDial
    BY <2>4 DEF SSH!ReportDial, SSH!TCPFailure, SSH!TCPCode, SSH!Fail, SSH!Return, DialCauses
  <2> QED
    BY <1>1, <2>1, <2>2, <2>3, <2>4 DEF SSH!Connect
<1>2. CASE SSH!DialFails
  BY <1>2 DEF SSH!DialFails, SSH!DialReturns, DialCauses
<1>3. CASE SSH!Dialled
  <2>1. CASE SSH!Fail("tcp_failure")
    BY <1>3, <2>1 DEF SSH!Dialled, SSH!Fail, SSH!Return
  <2>2. CASE local' = [local EXCEPT !.evidence = {SSH!Unconfirmed("exchange_failure",
  local.kept)}]
             /\ phase' = "commit" /\ UNCHANGED <<contexts, result>>
    <3>1. SSH!Unconfirmed("exchange_failure", local.kept) \in SSHSightings
      BY DEF SSH!Unconfirmed, SSHSightings, Sightings, SSH!Reasons, DialCauses
    <3>2. /\ local' \in SSHFields /\ local'.input = local.input /\ local'.cause = local.cause
          /\ local'.evidence = {SSH!Unconfirmed("exchange_failure", local.kept)}
          /\ local'.seen = local.seen /\ local'.taken = local.taken /\ local'.stream = local.stream
      BY <2>2, <3>1
    <3> QED
      BY <1>3, <2>2, <3>2 DEF SSH!Dialled, SSH!Unconfirmed
  <2>3. CASE local' = [local EXCEPT !.conn = "open"]
             /\ phase' = "exchange" /\ UNCHANGED <<contexts, result>>
    BY <1>3, <2>3 DEF SSH!Dialled
  <2> QED
    BY <1>3, <2>1, <2>2, <2>3 DEF SSH!Dialled
<1>4. CASE SSH!ConnectionDeadline \/ SSH!Interrupt \/ SSH!AttemptEnds
  BY <1>4 DEF SSH!ConnectionDeadline, SSH!Interrupt, SSH!Expire, SSH!AttemptEnds
<1>5. CASE SSH!CheckCancelled
  BY <1>5 DEF SSH!CheckCancelled, SSH!Fail, SSH!Return, SSH!GoTo
<1>6. CASE SSH!Settle
  <2>1. PICK e \in local.evidence :
          SSH!Succeed(
            IF Ended(parent) \/ Ended(attempt) THEN SSH!Unconfirmed("timeout", e.kept) ELSE e)
    BY <1>6 DEF SSH!Settle
  <2> DEFINE f == IF Ended(parent) \/ Ended(attempt) THEN SSH!Unconfirmed("timeout", e.kept) ELSE e
  <2>2. /\ phase = "settle" /\ phase' = "returned" /\ UNCHANGED <<contexts, local>>
        /\ result'.outcome = "succeeded" /\ result'.evidence = {f}
    BY <1>6, <2>1 DEF SSH!Settle, SSH!Succeed, SSH!Return
  <2>3. Ended(parent) \/ Ended(attempt) => OutOfTime(f)
    BY DEF SSH!Unconfirmed, OutOfTime
  <2>4. ~(Ended(parent) \/ Ended(attempt)) => f = e /\ parent = "active"
    OBVIOUS
  <2> HIDE DEF f
  <2>5. local.cause = "own" => OutOfTime(f)
    BY <2>2, <2>3, <2>4
  <2> QED
    BY <2>2, <2>3, <2>4, <2>5 DEF OutOfTime
<1>7. ASSUME NEW cause \in {"own", "peer"}, NEW e \in SSHSightings,
             phase \in {"exchange", "receive"}, SSH!Exchanged(cause, e),
             cause = "own" => Ended(attempt) \/ OutOfTime(e),
             e.status = "confirmed" => e.kept.sent /\ \A line \in e.found : SSH!Parses(line)
      PROVE  Moves /\ SSHInv'
  <2>1. /\ phase' = "commit" /\ UNCHANGED <<contexts, result>>
        /\ local' = [local EXCEPT !.conn = "none", !.cause = cause, !.evidence = {e}]
    BY <1>7 DEF SSH!Exchanged
  <2>2. /\ local' \in SSHFields
        /\ local'.cause = cause /\ local'.evidence = {e} /\ local'.input = local.input
        /\ local'.seen = local.seen /\ local'.taken = local.taken /\ local'.stream = local.stream
    BY <1>7, <2>1 DEF DialCauses, SSHFields
  <2> QED
    BY <1>7, <2>1, <2>2
<1>8. \A reason \in SSH!Reasons, kept \in KeptLines :
        /\ SSH!Unconfirmed(reason, kept) \in SSHSightings
        /\ SSH!Unconfirmed(reason, kept).status = "unconfirmed"
        /\ reason = "timeout" => OutOfTime(SSH!Unconfirmed(reason, kept))
  BY DEF SSH!Unconfirmed, SSHSightings, Sightings, OutOfTime
<1>9. \A preamble \in 0..MaxPreambleLines, sent \in BOOLEAN : SSH!Kept(preamble, sent) \in KeptLines
  BY DEF SSH!Kept, KeptLines
<1>10. SSH!Passed \in KeptLines /\ SSH!Passed.sent
  BY DEF SSH!Passed, SSH!Kept, KeptLines, SSHFields
<1>11. CASE SSH!SendFails \/ SSH!SendExpires
  BY <1>7, <1>8, <1>9, <1>11, LimitsAssumption
     DEF SSH!SendFails, SSH!SendExpires, SSH!Peer, SSH!Reasons
<1>12. CASE SSH!ReadFails \/ SSH!ReadExpires
  BY <1>7, <1>8, <1>10, <1>12 DEF SSH!ReadFails, SSH!ReadExpires, SSH!Peer, SSH!Reasons
<1>13. CASE SSH!Send
  <2>1. SSH!Kept(0, TRUE) \in KeptLines
    <3>1. 0 \in 0..MaxPreambleLines
      BY LimitsAssumption
    <3> QED
      BY <1>9, <3>1
  <2>2. PICK stream \in Streams :
          local' = [local EXCEPT !.kept = SSH!Kept(0, TRUE), !.stream = stream]
    BY <1>13 DEF SSH!Send
  <2>3. /\ local' \in SSHFields /\ local'.input = local.input /\ local'.cause = local.cause
        /\ local'.evidence = local.evidence /\ local'.seen = local.seen
    BY <2>1, <2>2
  <2> QED
    BY <1>13, <2>3 DEF SSH!Send, SSH!NothingRead, SSH!Reading
<1>14. CASE SSH!NextLine
  <2> DEFINE line == local.stream[local.taken + 1]
             turn == SSH!Turn(local.seen, line)
  <2>1. local.stream \in Seq(Lines)
    <3>1. <<>> \in Seq(Lines) /\ Streams \subseteq Seq(Lines)
      BY PeersAssumption
    <3>2. local.stream \in Streams \cup {<<>>}
      BY DEF SSHFields
    <3> QED
      BY <3>1, <3>2
  <2>2. /\ local.taken + 1 \in DOMAIN local.stream /\ line \in Lines
        /\ local' = [local EXCEPT !.seen = turn, !.taken = local.taken + 1]
        /\ UNCHANGED <<contexts, phase, result>> /\ phase = "receive"
    BY <1>14, <2>1 DEF SSH!NextLine
  <2>3. line.bytes \in Nat
    BY <2>2 DEF Lines
  <2>4. turn \in [kind : Kinds, preamble : 0..MaxPreambleLines, bytes : Nat]
        /\ (turn.kind = "received" => SSH!Parses(line))
    BY <2>3, LimitsAssumption, Turns
  <2> HIDE DEF line, turn
  <2>5. /\ local' \in SSHFields /\ local'.input = local.input /\ local'.cause = local.cause
        /\ local'.evidence = local.evidence /\ local'.seen = turn
        /\ local'.taken = local.taken + 1 /\ local'.stream = local.stream
    <3> DEFINE l == [local EXCEPT !.seen = turn, !.taken = local.taken + 1]
    <3>1. turn \in [kind : Kinds, preamble : 0..MaxPreambleLines, bytes : Nat]
          /\ local.taken + 1 \in Nat /\ local \in SSHFields
      BY <2>4
    <3>2. l \in SSHFields
      BY <3>1 DEF SSHFields
    <3> QED
      BY <2>2, <3>2 DEF SSHFields
  <2> QED
    BY <2>2, <2>4, <2>5 DEF line
<1>15. CASE SSH!Identified
  <2>1. CASE local.seen.kind = "received"
    <3> DEFINE e == SSH!Confirmed(local.stream[local.taken], SSH!Passed)
    <3>1. /\ SSH!Exchanged("peer", e) /\ phase = "receive"
          /\ local.taken \in DOMAIN local.stream /\ SSH!Parses(local.stream[local.taken])
      BY <1>15, <2>1 DEF SSH!Identified
    <3>2. local.stream[local.taken] \in StreamLines
      BY <3>1 DEF StreamLines
    <3>3. /\ e \in SSHSightings /\ e.kept = SSH!Passed /\ e.found = {local.stream[local.taken]}
      BY <1>10, <3>2 DEF SSH!Confirmed, SSHSightings, Sightings
    <3> QED
      BY <1>7, <1>10, <3>1, <3>3
  <2>2. CASE local.seen.kind # "received"
    BY <1>7, <1>8, <1>10, <1>15, <2>2 DEF SSH!Identified, SSH!Reasons
  <2> QED
    BY <2>1, <2>2
<1> QED
  BY <1>1, <1>2, <1>3, <1>4, <1>5, <1>6, <1>11, <1>12, <1>13, <1>14, <1>15
     DEF SSH!Observe, SSH!DirectStep, SSH!CommitEvidence

LEMMA WebSteps ==
  ASSUME ContextInv, WebInv, task = "web-observe", task' = task, Web!Observe, ResultInv
  PROVE  Moves /\ WebInv'
<1> USE DEF Moves, Quiet, Returns, Returned, contexts, ContextInv, ContextErrors, WebInv,
            Web!contexts,
            Web!Ended, Ended, ResultInv, EndedItself, TimeCodes, Unconfirmed, Web!Secure
<1>1. /\ \A stage \in {"tcp", "tls", "http"} :
           /\ Web!AttemptCode(stage) = "cancelled" => parent = "canceled"
           /\ Web!AttemptCode(stage) = "none" => parent = "active" /\ ~Ended(attempt)
           /\ Web!AttemptCode(stage) \in TimeCodes \cup {"none"}
      /\ Web!Stage \in {"tcp", "tls", "http"}
  BY DEF Web!AttemptCode, Web!EndedCode, Web!TimeoutCode, Web!Stage
<1>2. \A cause : Web!ExchangeCode(cause, Web!Stage) # "cancelled"
  BY <1>1 DEF Web!ExchangeCode, Web!TimeoutCode, Web!ResetCode, Web!FallbackCode
<1>3. CASE Web!Normalize \/ Web!Enter
  BY <1>3 DEF Web!Normalize, Web!Enter, Web!EndedCode, Web!TimeoutCode, Web!Fail, Web!Return,
              Web!GoTo,
              Web!BeginAttempt
<1>4. CASE Web!Classify
  BY <1>1, <1>2, <1>4 DEF Web!Classify, Web!Fail, Web!Return
<1>5. CASE Web!Commit
  BY <1>1, <1>5 DEF Web!Commit, Web!Fail, Web!Succeed, Web!Return
<1>6. CASE Web!Inspect
  <2>1. PICK response \in local.response :
          IF local.trace.written /\ response.sound
          THEN /\ phase' = "commit"
               /\ local' = [local EXCEPT !.evidence = {[protocol |-> response.protocol,
                                                       tls |-> Web!Secure]}]
               /\ UNCHANGED <<contexts, result>>
          ELSE Web!Fail("http_protocol_failure")
    BY <1>6 DEF Web!Inspect
  <2>2. phase = "answered"
    BY <1>6 DEF Web!Inspect
  <2>3. CASE local.trace.written /\ response.sound
    <3>1. [protocol |-> response.protocol, tls |-> Web!Secure]
            \in [protocol : Protocols, tls : BOOLEAN]
      OBVIOUS
    <3> DEFINE e == [protocol |-> response.protocol, tls |-> Web!Secure]
    <3>2. e.tls = Web!Secure
      OBVIOUS
    <3>3. /\ local' = [local EXCEPT !.evidence = {e}]
          /\ phase' = "commit" /\ UNCHANGED <<contexts, result>>
      BY <2>1, <2>3
    <3> HIDE DEF e
    <3> QED
      BY <2>2, <3>1, <3>2, <3>3 DEF e
  <2>4. CASE ~(local.trace.written /\ response.sound)
    BY <2>1, <2>2, <2>4 DEF Web!Fail, Web!Return
  <2> QED
    BY <2>3, <2>4
<1>7. CASE Web!Trace
  <2>1. phase \in {"exchange", "failed"} /\ UNCHANGED <<contexts, phase, result>>
    BY <1>7 DEF Web!Trace, Web!Underway
  <2>2. \E t \in [connected : BOOLEAN, secured : BOOLEAN, written : BOOLEAN] :
          local' = [local EXCEPT !.trace = t]
    BY <1>7 DEF Web!Trace
  <2> QED
    BY <2>1, <2>2
<1>8. CASE Web!GiveUp \/ Web!ExchangeFails
  BY <1>8 DEF Web!GiveUp, Web!ExchangeFails, Web!ExchangeReturns, Web!Stage
<1>9. CASE Web!Respond \/ Web!AttemptEnds
  BY <1>9 DEF Web!Respond, Web!AttemptEnds
<1> QED
  BY <1>3, <1>4, <1>5, <1>6, <1>7, <1>8, <1>9 DEF Web!Observe, Web!Steps

LEMMA FamilySteps ==
  ASSUME ContextInv, FamilyInv, task = "family-conditions", task' = task, Family!Observe,
  ResultInv
  PROVE  Moves /\ FamilyInv'
<1> USE DEF Moves, Quiet, Returns, Returned, contexts, ContextInv, ContextErrors, FamilyInv,
            Ended,
            Family!contexts, Family!Ended, ResultInv, EndedItself, TimeCodes, Unconfirmed,
            Family!Routes
<1>1. CASE Family!Enter
  BY <1>1 DEF Family!Enter, Family!RouteFailure, Family!BeginAttempt, Family!Fail, Family!Return
<1>2. ASSUME NEW condition \in {"route_selected", "unavailable"}, Family!Add(condition),
             phase \in {"route", "failed"}, local.cause # "own"
      PROVE  Moves /\ FamilyInv'
  BY <1>2 DEF Family!Add
<1>3. CASE Family!RouteSelected
  BY <1>2, <1>3 DEF Family!RouteSelected
<1>4. CASE Family!RouteFails \/ Family!GiveUp \/ Family!AttemptEnds
  BY <1>4 DEF Family!RouteFails, Family!GiveUp, Family!RouteReturns, Family!AttemptEnds
<1>5. CASE Family!JudgeRoute
  BY <1>2, <1>5 DEF Family!JudgeRoute, Family!Timely, Family!RouteFailure, Family!Fail,
                    Family!Return
<1>6. CASE Family!Commit
  BY <1>6 DEF Family!Commit, Family!Timely, Family!RouteFailure, Family!Fail, Family!Succeed,
              Family!Return
<1> QED
  BY <1>1, <1>3, <1>4, <1>5, <1>6 DEF Family!Observe, Family!Steps

LEMMA SystemSteps ==
  ASSUME ContextInv, SystemInv, task = "resolve", task' = task, System!Observe, ResultInv
  PROVE  Moves /\ SystemInv'
<1> USE DEF Moves, Quiet, Returns, Returned, contexts, ContextInv, ContextErrors, SystemInv,
            Ended,
            ResultInv, EndedItself, TimeCodes, Unconfirmed, System!contexts, System!Ended
<1>1. CASE System!Normalize
  BY <1>1 DEF System!Normalize, System!Fail, System!Return, System!GoTo
<1>2. CASE System!GiveUp \/ System!LookupFails \/ System!LookupSucceeds
  BY <1>2 DEF System!GiveUp, System!LookupFails, System!LookupSucceeds, System!LookupReturns
<1>3. CASE System!Judge
  BY <1>3 DEF System!Judge, System!LookupCode, System!Fail, System!Succeed, System!Return
<1> QED
  BY <1>1, <1>2, <1>3 DEF System!Observe, System!Steps

LEMMA InventorySteps ==
  ASSUME ContextInv, InventoryInv, task = "resolver-inventory", task' = task, Inventory!Observe,
         ResultInv
  PROVE  Moves /\ InventoryInv'
<1> USE DEF Moves, Quiet, Returns, Returned, contexts, ContextInv, ContextErrors, InventoryInv,
            Ended,
            ResultInv, EndedItself, TimeCodes, Unconfirmed, Inventory!contexts, Inventory!Ended
<1>1. \A cause : /\ Inventory!FailureCode(cause) = "cancelled" => parent = "canceled"
                 /\ Ended(parent) => Inventory!FailureCode(cause) \in TimeCodes
  BY DEF Inventory!FailureCode
<1>2. CASE Inventory!GiveUp \/ Inventory!CollectFails \/ Inventory!Collect
  BY <1>2 DEF Inventory!GiveUp, Inventory!CollectFails, Inventory!Collect, Inventory!Returns
<1>3. CASE Inventory!Judge \/ Inventory!Commit
  BY <1>1, <1>3 DEF Inventory!Judge, Inventory!Commit, Inventory!Fail, Inventory!Succeed,
                    Inventory!Return, Inventory!GoTo
<1> QED
  BY <1>2, <1>3 DEF Inventory!Observe, Inventory!Steps

LEMMA PathSteps ==
  ASSUME ContextInv, local \in PathLocals, task = "path", task' = task, PathReturns, ResultInv
  PROVE  Moves /\ (local \in PathLocals)'
BY DEF Moves, Quiet, Returns, Returned, contexts, ContextInv, ContextErrors, ResultInv,
       EndedItself, Unconfirmed, PathLocals, PathReturns, Fail, Return

-----------------------------------------------------------------------------
(***************************************************************************)
(* A DNS observation is the one that DNSObservationProofs is about: each   *)
(* instance has definitions of its own, which are alike.                   *)
(***************************************************************************)
LEMMA SameChain ==
  ASSUME NEW records
  PROVE  DNS!FollowCNAMEs(records) = DNSProofs!FollowCNAMEs(records)
BY ZenonT(30)
   DEF DNS!Aliases, DNSProofs!Aliases, DNS!Owners, DNSProofs!Owners, DNS!TargetOf,
        DNSProofs!TargetOf, DNS!Unambiguous, DNSProofs!Unambiguous, DNS!Follow, DNSProofs!Follow,
        DNS!FollowCNAMEs, DNSProofs!FollowCNAMEs

LEMMA SameCardinality ==
  ASSUME NEW S
  PROVE  DNS!Cardinality(S) = DNSProofs!Cardinality(S)
BY Zenon DEF DNS!Cardinality, DNSProofs!Cardinality

LEMMA SameEvidence ==
  \A r, type :
    /\ DNS!EvidenceFromResponse(r, type) = DNSProofs!EvidenceFromResponse(r, type)
    /\ DNS!Decodable(r) = DNSProofs!Decodable(r)
BY SameChain, SameCardinality
   DEF DNS!Answers, DNSProofs!Answers, DNS!ClassifyAnswer, DNSProofs!ClassifyAnswer,
       DNS!EvidenceFromResponse, DNSProofs!EvidenceFromResponse, DNS!RecordCount,
       DNSProofs!RecordCount, DNS!Decodable, DNSProofs!Decodable

LEMMA SamePrepare == DNS!Prepare = DNSProofs!Prepare
BY DEF DNS!Prepare, DNSProofs!Prepare, DNS!Normalize, DNSProofs!Normalize, DNS!Rejected,
       DNSProofs!Rejected, DNS!Enter, DNSProofs!Enter, DNS!UnknownResolver,
       DNSProofs!UnknownResolver, DNS!SelectEndpoint, DNSProofs!SelectEndpoint,
       DNS!WrongEndpoint, DNSProofs!WrongEndpoint, DNS!NoMessageID, DNSProofs!NoMessageID,
       DNS!StartAttempt, DNSProofs!StartAttempt, DNS!Mismatch, DNSProofs!Mismatch, DNS!Wire,
       DNSProofs!Wire, DNS!Input, DNSProofs!Input, DNS!BeginAttempt, DNSProofs!BeginAttempt,
       DNS!contexts, DNSProofs!contexts, DNS!BeginAttempt, DNSProofs!BeginAttempt, DNS!Ended,
       DNSProofs!Ended, DNS!ContextFailure, DNSProofs!ContextFailure, DNS!Return,
       DNSProofs!Return, DNS!Fail, DNSProofs!Fail, DNS!Succeed, DNSProofs!Succeed, DNS!GoTo,
       DNSProofs!GoTo

LEMMA SameExchange == DNS!Exchange = DNSProofs!Exchange
BY DEF DNS!Exchange, DNSProofs!Exchange, DNS!NetworkFails, DNSProofs!NetworkFails, DNS!GiveUp,
       DNSProofs!GiveUp, DNS!EndedUnderway, DNSProofs!EndedUnderway, DNS!Dialled,
       DNSProofs!Dialled, DNS!Written, DNSProofs!Written, DNS!ReadLength, DNSProofs!ReadLength,
       DNS!ReadMessage, DNSProofs!ReadMessage, DNS!Requested, DNSProofs!Requested,
       DNS!ReadContent, DNSProofs!ReadContent, DNS!Arrives, DNSProofs!Arrives, DNS!ExchangeFails,
       DNSProofs!ExchangeFails, DNS!Exchanged, DNSProofs!Exchanged, DNS!Blocking,
       DNSProofs!Blocking, DNS!Input, DNSProofs!Input, DNS!contexts, DNSProofs!contexts,
       DNS!BeginAttempt, DNSProofs!BeginAttempt, DNS!Ended, DNSProofs!Ended, DNS!ContextFailure,
       DNSProofs!ContextFailure, DNS!Return, DNSProofs!Return, DNS!Fail, DNSProofs!Fail,
       DNS!Succeed, DNSProofs!Succeed, DNS!GoTo, DNSProofs!GoTo

LEMMA SameConclude == DNS!Conclude = DNSProofs!Conclude
BY SameEvidence
   DEF DNS!Conclude, DNSProofs!Conclude, DNS!Judge, DNSProofs!Judge, DNS!ExchangeCode,
       DNSProofs!ExchangeCode, DNS!BuildEvidence, DNSProofs!BuildEvidence, DNS!Commit,
       DNSProofs!Commit, DNS!Input, DNSProofs!Input, DNS!contexts, DNSProofs!contexts,
       DNS!BeginAttempt, DNSProofs!BeginAttempt, DNS!Ended, DNSProofs!Ended, DNS!ContextFailure,
       DNSProofs!ContextFailure, DNS!Return, DNSProofs!Return, DNS!Fail, DNSProofs!Fail,
       DNS!Succeed, DNSProofs!Succeed, DNS!GoTo, DNSProofs!GoTo

LEMMA SameObserve == DNS!Observe => DNSProofs!Observe
BY SamePrepare, SameExchange, SameConclude
   DEF DNS!Observe, DNSProofs!Observe, DNS!CloseConnection, DNSProofs!CloseConnection,
       DNS!AttemptEnds, DNSProofs!AttemptEnds, DNS!Ended, DNSProofs!Ended, DNS!contexts,
       DNSProofs!contexts

LEMMA SameValid == \A r : DNS!ValidResult(r) = DNSProofs!ValidResult(r)
<1> SUFFICES ASSUME NEW r PROVE DNS!ValidResult(r) = DNSProofs!ValidResult(r)
  OBVIOUS
<1>1. DNS!ValidEnvelope(r) = DNSProofs!ValidEnvelope(r)
  BY SameCardinality DEF DNS!ValidEnvelope, DNSProofs!ValidEnvelope
<1>2. \A input : DNS!ValidInput(r, input) = DNSProofs!ValidInput(r, input)
  BY DEF DNS!ValidInput, DNSProofs!ValidInput
<1>3. \A e, type : DNS!ValidClassification(e, type) = DNSProofs!ValidClassification(e, type)
  BY SameChain
     DEF DNS!ValidClassification, DNSProofs!ValidClassification, DNS!ValidAnswerKind,
         DNSProofs!ValidAnswerKind, DNS!Answers, DNSProofs!Answers, DNS!IsCanonicalDNSName,
         DNSProofs!IsCanonicalDNSName
<1>4. \A e, type : DNS!ValidEvidence(e, type) = DNSProofs!ValidEvidence(e, type)
  BY <1>3 DEF DNS!ValidEvidence, DNSProofs!ValidEvidence, DNS!ValidRecord, DNSProofs!ValidRecord,
         DNS!IsCanonicalDNSName, DNSProofs!IsCanonicalDNSName
<1> QED
  BY <1>1, <1>2, <1>4 DEF DNS!ValidResult, DNSProofs!ValidResult

\* What the module on DNS observations assumes of its constants holds here.
LEMMA DNSAssumptions ==
  /\ DNSProofs!InputAssumption
  /\ DNSProofs!ResponseAssumption
  /\ DNSProofs!RecordsAssumption
  /\ DNSProofs!CallerAssumption
BY ArgumentsAssumption, PeersAssumption, RecordsAssumption, CallerAssumption
   DEF DNSProofs!InputAssumption, DNSProofs!ResponseAssumption, DNSProofs!RecordsAssumption,
       DNSProofs!CallerAssumption, IsFiniteSet, DNSProofs!IsFiniteSet

LEMMA DNSSteps ==
  ASSUME ContextInv, DNSInv, task = "dns-observe", task' = task, DNS!Observe, ResultInv
  PROVE  Moves /\ DNSInv'
<1>1. DNSInv'
  <2>1. DNSProofs!Next
    BY SameObserve DEF DNSProofs!Next
  <2>2. DNSProofs!TypeOK'
    BY <2>1, DNSAssumptions, DNSProofs!NextType DEF DNSInv
  <2>3. DNSProofs!OwnInv'
    BY <2>1, <2>2, DNSAssumptions, DNSProofs!OwnNext DEF DNSInv
  <2> QED
    BY <2>2, <2>3 DEF DNSInv
<1> SUFFICES Moves
  BY <1>1
<1> USE DEF Moves, Quiet, Returns, Returned, contexts, ContextInv, ContextErrors, ResultInv,
            EndedItself, TimeCodes, Unconfirmed, DNS!contexts, DNS!Ended
<1>2. \A inner \in {parent, attempt} :
        /\ DNS!ContextFailure(inner) = "cancelled" => parent = "canceled"
        /\ DNS!ContextFailure(inner) = "none" => parent = "active" /\ ~Ended(inner)
        /\ DNS!ContextFailure(inner) \in {"cancelled", "timeout", "none"}
  BY DEF DNS!ContextFailure, Ended
<1>3. /\ phase \in {"start", "entered", "lookup", "endpoint"} => local.error = {}
      /\ (\E e \in local.error : e.cause = "own") => Ended(attempt)
      /\ local.error \subseteq DNSProofs!FailedExchanges
  BY DEF DNSInv, DNSProofs!OwnInv, DNSProofs!TypeOK, Ended, DNSProofs!Ended
<1>4. CASE DNS!Prepare
  BY <1>2, <1>3, <1>4
     DEF DNS!Prepare, DNS!Normalize, DNS!Enter, DNS!UnknownResolver, DNS!SelectEndpoint,
         DNS!WrongEndpoint, DNS!NoMessageID, DNS!StartAttempt, DNS!BeginAttempt, DNS!Fail,
         DNS!Return, DNS!GoTo
<1>5. CASE DNS!Exchange
  BY <1>5 DEF DNS!Exchange, DNS!NetworkFails, DNS!GiveUp, DNS!EndedUnderway, DNS!Dialled,
              DNS!Written, DNS!ReadLength, DNS!ReadMessage, DNS!Requested, DNS!ReadContent,
              DNS!Arrives, DNS!ExchangeFails, DNS!Exchanged, DNS!Blocking, DNS!GoTo
<1>6. CASE DNS!Judge
  <2>1. DNS!ExchangeCode # "cancelled"
    <3>1. \A e \in local.error : e.code # "cancelled"
      BY <1>3 DEF DNSProofs!FailedExchanges
    <3> QED
      BY <3>1 DEF DNS!ExchangeCode
  <2> QED
    BY <1>2, <1>3, <1>6, <2>1 DEF DNS!Judge, DNS!Fail, DNS!Return, DNS!GoTo
<1>7. CASE DNS!BuildEvidence \/ DNS!Commit
  BY <1>2, <1>3, <1>7 DEF DNS!BuildEvidence, DNS!Commit, DNS!Fail, DNS!Succeed, DNS!Return
<1>8. CASE DNS!CloseConnection \/ DNS!AttemptEnds
  <2>1. local'.error = local.error
    BY <1>8 DEF DNS!CloseConnection, DNS!AttemptEnds, DNSInv, DNSProofs!TypeOK
  <2> QED
    BY <1>8, <2>1 DEF DNS!CloseConnection, DNS!AttemptEnds
<1> QED
  BY <1>1, <1>4, <1>5, <1>6, <1>7, <1>8 DEF DNS!Observe, DNS!Conclude

\* What the variables of a DNS observation are at its start.
DNSStart(l) ==
  /\ l \in [input : DNSProofs!Requests, conn : {"none"}, error : {{}}, response : {{}},
            evidence : {{}}]
  /\ ~l.input.endpoint
  /\ l.input.hostname = "unstable" => ~DNSProofs!Stable

LEMMA DNSLocals == \A l \in DNS!Locals : DNSStart(l)
<1> SUFFICES ASSUME NEW i \in Inputs,
                    NEW l, l = [input |-> [hostname |-> i.hostname, type |-> i.type,
                                           transport |-> i.transport, resolver |-> i.resolver,
                                           endpoint |-> FALSE],
                                conn |-> "none", error |-> {}, response |-> {}, evidence |-> {}]
             PROVE  DNSStart(l)
  BY DEF DNS!Locals
<1>1. l.input \in DNSProofs!Requests
  BY ArgumentsAssumption DEF DNSProofs!Requests, DNSProofs!Types
<1> QED
  BY <1>1 DEF DNSStart, DNSProofs!Stable

LEMMA StartsDNS == 
  /\ parent \in ContextErrors /\ attempt = "none" /\ phase = "start" /\ DNSStart(local)
     => DNSInv
  /\ parent' \in ContextErrors /\ attempt' = "none" /\ phase' = "start" /\ DNSStart(local')
     => DNSInv'
BY DEF DNSStart, DNSInv, DNSProofs!TypeOK, DNSProofs!OwnInv, DNSProofs!OwnCloseNotBlamed,
       DNSProofs!Returned, DNSProofs!Phases, ContextErrors, DNSProofs!ContextErrors

-----------------------------------------------------------------------------
(***************************************************************************)
(* The run of the program.                                                 *)
(***************************************************************************)
LEMMA InitInv == Init => IInv
<1> SUFFICES ASSUME Init PROVE IInv
  OBVIOUS
<1>1. /\ phase = "start" /\ attempt = "none" /\ local \in LocalsOf(task) /\ exit = {}
      /\ parent \in {"active"} \cup CallerErrors
  BY DEF Init, Start
<1>2. task \in Probes
  BY CommandsAssumption DEF Init, Probes
<1>3. ContextInv
  BY <1>1, CallerAssumption DEF ContextInv, ContextErrors
<1>4. ASSUME task = "tls-observe" PROVE TLSInv
  BY <1>1, <1>4 DEF LocalsOf, TLS!Locals, TLS!DirectLocals, TLSInv, DirectFields, DirectInv
<1>5. ASSUME task = "ssh-observe" PROVE SSHInv
  <2>1. PICK l \in SSH!DirectLocals(SSH!Kept(0, FALSE)) :
          local = [input |-> l.input, conn |-> l.conn, cause |-> l.cause, evidence |-> l.evidence,
                   kept |-> l.kept, seen |-> SSH!NothingRead, taken |-> 0, stream |-> <<>>]
    BY <1>1, <1>5 DEF LocalsOf, SSH!Locals
  <2>2. 0 \in 0..MaxPreambleLines
    BY LimitsAssumption
  <2>3. /\ SSH!NothingRead \in [kind : Kinds, preamble : 0..MaxPreambleLines, bytes : Nat]
        /\ SSH!NothingRead.kind = "more"
        /\ SSH!Kept(0, FALSE) \in KeptLines
    BY <2>2 DEF SSH!NothingRead, SSH!Reading, Kinds, SSH!Kept, KeptLines
  <2>4. /\ local \in SSHFields /\ local.cause = "none" /\ local.evidence = {} /\ local.taken = 0
        /\ local.seen = SSH!NothingRead
    BY <2>1, <2>3 DEF SSH!DirectLocals, SSHFields
  <2> QED
    BY <1>1, <2>3, <2>4 DEF SSHInv, DirectInv
<1>6. ASSUME task = "web-observe" PROVE WebInv
  <2>1. local \in Web!Locals /\ phase = "start"
    BY <1>1, <1>6 DEF LocalsOf
  <2> QED
    <3>1. Web!NoTrace \in [connected : BOOLEAN, secured : BOOLEAN, written : BOOLEAN]
      BY DEF Web!NoTrace
    <3>2. local.cause = "none" /\ local.evidence = {}
      BY <2>1 DEF Web!Locals
    <3> QED
      BY <2>1, <3>1, <3>2 DEF Web!Locals, WebInv
<1>7. ASSUME task = "family-conditions" PROVE FamilyInv
  <2>1. local \in Family!Locals /\ phase = "start"
    BY <1>1, <1>7 DEF LocalsOf
  <2>2. <<>> \in Seq({"route_selected", "unavailable"}) /\ Len(<<>>) = 0
    OBVIOUS
  <2> QED
    <3>1. local.cause = "none" /\ local.conditions = <<>>
      BY <2>1 DEF Family!Locals
    <3>2. local \in [input : {"empty"}, cause : {"none", "unavailable", "timeout", "other", "own"},
                    conditions : Seq({"route_selected", "unavailable"})]
      BY <2>1, <2>2 DEF Family!Locals
    <3> QED
      BY <2>1, <2>2, <3>1, <3>2 DEF Family!Routes, FamilyInv
<1>8. ASSUME task = "resolve" PROVE SystemInv
  BY <1>1, <1>8 DEF LocalsOf, System!Locals, SystemInv
<1>9. ASSUME task = "resolver-inventory" PROVE InventoryInv
  BY <1>1, <1>9 DEF LocalsOf, Inventory!Locals, InventoryInv
<1>10. ASSUME task = "dns-observe" PROVE DNSInv
  <2>1. local \in DNS!Locals
    BY <1>1, <1>10 DEF LocalsOf
  <2>2. parent \in ContextErrors
    BY <1>3 DEF ContextInv
  <2> QED
    BY <1>1, <2>1, <2>2, DNSLocals, StartsDNS
<1>11. ASSUME task = "path" PROVE local \in PathLocals
  BY <1>1, <1>11 DEF LocalsOf
<1>12. ResultInv
  BY <1>1 DEF ResultInv, Returned
<1> QED
  BY <1>1, <1>2, <1>3, <1>4, <1>5, <1>6, <1>7, <1>8, <1>9, <1>10, <1>11, <1>12 DEF IInv, LocalInv

\* The steps of whichever probe is at work.
LEMMA ObserveSteps ==
  ASSUME IInv, Observe
  PROVE  UNCHANGED run /\ Moves /\ LocalInv'
<1> USE DEF IInv, LocalInv, Runs, run
<1>1. CASE Runs("tls-observe") /\ TLS!Observe
  BY <1>1, TLSSteps
<1>2. CASE Runs("ssh-observe") /\ SSH!Observe
  BY <1>2, SSHSteps
<1>3. CASE Runs("web-observe") /\ Web!Observe
  BY <1>3, WebSteps
<1>4. CASE Runs("family-conditions") /\ Family!Observe
  BY <1>4, FamilySteps
<1>5. CASE Runs("resolve") /\ System!Observe
  BY <1>5, SystemSteps
<1>6. CASE Runs("resolver-inventory") /\ Inventory!Observe
  BY <1>6, InventorySteps
<1>7. CASE Runs("dns-observe") /\ DNS!Observe
  BY <1>7, DNSSteps
<1>8. CASE Runs("path") /\ PathReturns
  BY <1>8, PathSteps
<1> QED
  BY <1>1, <1>2, <1>3, <1>4, <1>5, <1>6, <1>7, <1>8 DEF Observe

\* A caller that ends leaves everything else as it was.
LEMMA CallerEndsInv ==
  ASSUME IInv, CallerEnds, UNCHANGED run
  PROVE  IInv'
<1>1. /\ phase # "returned" /\ parent = "active" /\ parent' \in {"canceled", "deadline"}
      /\ UNCHANGED <<attempt, phase, local, result, command, task, output, exit>>
  BY CallerAssumption DEF CallerEnds, run
<1>2. ContextInv' /\ ResultInv'
  BY <1>1 DEF IInv, ContextInv, ContextErrors, ResultInv, Returned
<1>3. ASSUME task = "tls-observe" PROVE TLSInv'
  BY <1>1, <1>3 DEF IInv, LocalInv, TLSInv, DirectInv
<1>4. ASSUME task = "ssh-observe" PROVE SSHInv'
  BY <1>1, <1>4 DEF IInv, LocalInv, SSHInv, DirectInv
<1>5. ASSUME task = "web-observe" PROVE WebInv'
  BY <1>1, <1>5 DEF IInv, LocalInv, WebInv, Web!Secure
<1>6. ASSUME task \in {"family-conditions", "resolve", "resolver-inventory"}
      PROVE  /\ task = "family-conditions" => FamilyInv'
             /\ task = "resolve" => SystemInv'
             /\ task = "resolver-inventory" => InventoryInv'
  BY <1>1, <1>6 DEF IInv, LocalInv, FamilyInv, SystemInv, InventoryInv, Ended
<1>7. ASSUME task = "dns-observe" PROVE DNSInv'
  BY <1>1, <1>2, <1>7 DEF IInv, LocalInv, DNSInv, DNSProofs!TypeOK, DNSProofs!OwnInv,
     DNSProofs!OwnCloseNotBlamed, DNSProofs!Returned, DNSProofs!Ended, DNSProofs!ContextErrors,
     ContextInv, ContextErrors
<1> QED
  BY <1>1, <1>2, <1>3, <1>4, <1>5, <1>6, <1>7 DEF IInv, LocalInv, Concluded, Returned, Probes

\* The second probe starts afresh, for the caller there was: an inventory is cancelled
\* only if the caller cancelled.
LEMMA UseInventoryInv ==
  ASSUME IInv, UseInventory
  PROVE  IInv' /\ UNCHANGED <<parent, exit>> /\ ~Returned' /\ DNSStart(local')
<1>1. /\ task' = "dns-observe" /\ phase' = "start" /\ attempt' = "none"
      /\ UNCHANGED <<command, exit>>
  BY DEF UseInventory
<1>2. parent' = parent
  BY DEF UseInventory, IInv, ResultInv
<1>3. ~Returned' /\ exit = {}
  BY <1>1 DEF UseInventory, Returned, IInv, Concluded
<1>4. PICK l \in DNS!Locals :
        /\ l.input.transport # "doh"
        /\ local' = [l EXCEPT !.input.resolver = CurrentResolver]
  BY DEF UseInventory
<1>5. DNSStart(local')
  <2>1. CurrentResolver \in {"wire", "missing"}
    BY DEF CurrentResolver
  <2>2. DNSStart(l)
    BY <1>4, DNSLocals
  <2> QED
    BY <1>4, <2>1, <2>2 DEF DNSStart, DNSProofs!Requests
<1>6. DNSInv'
  <2>1. parent' \in ContextErrors
    BY <1>2 DEF IInv, ContextInv
  <2> QED
    BY <1>1, <1>5, <2>1, StartsDNS
<1> QED
  BY <1>1, <1>2, <1>3, <1>5, <1>6 DEF IInv, LocalInv, ContextInv, ResultInv, Probes

\* The end of the command is none of the probe's.
LEMMA SameInv ==
  ASSUME IInv, UNCHANGED <<vars, command, task>>
  PROVE  LocalInv' /\ ContextInv' /\ ResultInv' /\ Concluded' = Concluded
<1> USE DEF vars, contexts
<1>1. LocalInv'
  BY DEF IInv, LocalInv, TLSInv, SSHInv, DirectInv, WebInv, Web!Secure, FamilyInv, SystemInv,
         InventoryInv, DNSInv, DNSProofs!TypeOK, DNSProofs!OwnInv, DNSProofs!OwnCloseNotBlamed,
         DNSProofs!Returned
<1>2. ContextInv' /\ ResultInv' /\ Concluded' = Concluded
  BY DEF IInv, ContextInv, ResultInv, Returned, EndedItself, Unconfirmed, Concluded
<1> QED
  BY <1>1, <1>2

LEMMA NextInv == IInv /\ [Next]_clVars => IInv'
<1> SUFFICES ASSUME IInv, [Next]_clVars PROVE IInv'
  OBVIOUS
<1>1. CASE Observe
  <2>1. UNCHANGED run /\ Moves /\ LocalInv'
    BY <1>1, ObserveSteps
  <2>3. Concluded => Concluded'
    BY <2>1 DEF Moves, Quiet, Returns, Concluded, run
  <2> QED
    BY <2>1, <2>3 DEF Moves, IInv, run
<1>2. CASE CallerEnds /\ UNCHANGED run
  BY <1>2, CallerEndsInv
<1>3. CASE UseInventory
  BY <1>3, UseInventoryInv
<1>4. CASE EmitResult
  <2>1. UNCHANGED <<vars, command, task>> /\ Concluded
    BY <1>4 DEF EmitResult
  <2>2. LocalInv' /\ ContextInv' /\ ResultInv' /\ Concluded'
    BY <2>1, SameInv DEF IInv
  <2> QED
    BY <2>1, <2>2 DEF IInv
<1>5. CASE UNCHANGED clVars
  <2>1. UNCHANGED <<vars, command, task>> /\ UNCHANGED exit
    BY <1>5 DEF clVars, run
  <2> QED
    BY <2>1, SameInv DEF IInv
<1> QED
  BY <1>1, <1>2, <1>3, <1>4, <1>5 DEF Next, Done

\* What every probe knows at each place, and what its Result may say.
THEOREM InvariantHolds == Spec => []IInv
BY InitInv, NextInv, PTL DEF Spec

\* What the program broke off itself is never reported as a failure of the network or
\* the server, whatever the probe, the peer and the timers do.
THEOREM OwnEndIsNotBlamed == Spec => []OwnEndNotBlamed
<1>1. IInv => OwnEndNotBlamed
  BY DEF IInv, ResultInv, OwnEndNotBlamed, Concluded
<1> QED
  BY <1>1, InvariantHolds, PTL

-----------------------------------------------------------------------------
(***************************************************************************)
(* Every command keeps the contract.                                       *)
(***************************************************************************)
LEMMA VerdictOfReturn ==
  ASSUME IInv, Concluded
  PROVE  /\ Verdict \in {"confirmed", "unconfirmed", "failed", "cancelled"}
         /\ Verdict = "cancelled" => parent = "canceled"
         /\ ExitCode \in Contract!ExitCodes(Verdict)
<1>1. Returned
  BY DEF Concluded
<1> QED
  BY <1>1 DEF IInv, ResultInv, Verdict, ExitCode, Contract!ExitCodes

LEMMA ContractStep == IInv /\ IInv' /\ [Next]_clVars => [Contract!ContractNext]_(Contract!vars)
<1> SUFFICES ASSUME IInv, IInv', [Next]_clVars
             PROVE  Contract!ContractNext \/ UNCHANGED <<parent, Verdict, exit>>
  BY DEF Contract!vars
<1>1. ASSUME Observe
      PROVE  Contract!ContractNext \/ UNCHANGED <<parent, Verdict, exit>>
  <2>1. UNCHANGED <<command, task, exit>> /\ (Quiet \/ Returns)
    BY <1>1, ObserveSteps DEF run, Moves
  <2>2. CASE Quiet
    BY <2>1, <2>2 DEF Quiet, Verdict, Concluded, Unconfirmed
  <2>3. CASE Returns
    <3>1. ~Concluded /\ parent' = parent
      BY <2>3 DEF Returns, Concluded, contexts
    <3>2. CASE Concluded'
      <4>1. /\ Verdict' \in {"confirmed", "unconfirmed", "failed", "cancelled"}
            /\ Verdict' = "cancelled" => parent' = "canceled"
        BY <3>2 DEF IInv, ResultInv, Verdict, Concluded
      <4>2. Verdict' = "confirmed" => parent = "active"
        BY <2>3, <3>2 DEF IInv, ResultInv, Returns, Verdict, Concluded
      <4> QED
        BY <2>1, <3>1, <4>1, <4>2 DEF Contract!ContractNext, Contract!Conclude, Verdict
    <3>3. CASE ~Concluded'
      BY <2>1, <3>1, <3>3 DEF Verdict
    <3> QED
      BY <3>2, <3>3
  <2> QED
    BY <2>1, <2>2, <2>3
<1>2. ASSUME CallerEnds, UNCHANGED run
      PROVE  Contract!ContractNext
  <2>1. ~Concluded /\ ~Concluded'
    BY <1>2 DEF CallerEnds, Concluded, Returned
  <2> QED
    BY <1>2, <2>1 DEF CallerEnds, run, Contract!ContractNext, Contract!CallerEnds, Verdict
<1>3. ASSUME UseInventory
      PROVE  UNCHANGED <<parent, Verdict, exit>>
  <2>1. UNCHANGED <<parent, exit>> /\ ~Returned'
    BY <1>3, UseInventoryInv
  <2> QED
    BY <1>3, <2>1 DEF UseInventory, Verdict, Concluded
<1>4. ASSUME EmitResult
      PROVE  Contract!ContractNext
  <2>1. /\ Concluded /\ exit = {} /\ UNCHANGED <<parent, Verdict>>
        /\ \E code \in {ExitCode, 1} : exit' = {code}
    <3>1. Concluded /\ exit = {} /\ UNCHANGED <<vars, command, task>>
      BY <1>4 DEF EmitResult
    <3>2. PICK ending \in Endings : exit' = {ending.code}
      BY <1>4 DEF EmitResult
    <3>3. ending.code \in {ExitCode, 1}
      BY DEF Endings
    <3> QED
      BY <3>1, <3>2, <3>3 DEF vars, contexts, Verdict, Concluded, Returned, Unconfirmed
  <2>2. ExitCode \in Contract!ExitCodes(Verdict) /\ Verdict # "none"
    BY <2>1, VerdictOfReturn
  <2> QED
    BY <2>1, <2>2 DEF Contract!ContractNext, Contract!Exit
<1>5. ASSUME UNCHANGED clVars
      PROVE  UNCHANGED <<parent, Verdict, exit>>
  BY <1>5 DEF clVars, run, vars, contexts, Verdict, Concluded, Returned, Unconfirmed
<1> QED
  BY <1>1, <1>2, <1>3, <1>4, <1>5 DEF Next, Done

\* Nothing is confirmed for a caller whose context has ended, a cancellation is reported
\* to the caller that cancelled and to no other, and the exit code is the verdict's, for
\* every command and whatever the peers send.
THEOREM CommandsKeepContract == Spec => ImplementsContract
<1>1. Init => Contract!ContractInit
  BY DEF Init, Start, Contract!ContractInit, Verdict, Concluded, Returned
<1> QED
  BY <1>1, ContractStep, InvariantHolds, PTL DEF Spec, ImplementsContract, Contract!ContractSpec

-----------------------------------------------------------------------------
(***************************************************************************)
(* Every command prints its document.                                      *)
(***************************************************************************)
\* The cases in which a Result is refused, all of them reported as findings: the dates
\* of a certificate are the same, an HTTP version is neither 1.0 nor 1.1, a line is too
\* long with both line-end bytes, a name is no host name or not stable under
\* normalization.
Sound ==
  /\ LeafOrders \subseteq {"before"}
  /\ Protocols \subseteq {"1.0", "1.1"}
  /\ \A line \in StreamLines : SSH!Parses(line) => SSH!Parses(SSH!Reported(line))
  /\ "unstable" \notin Hostnames
  /\ DNSProofs!Stable

\* One element of evidence, whichever instance counts it.
LEMMA SingleEvidence ==
  ASSUME NEW e
  PROVE  /\ Cardinality({e}) = 1 /\ TLS!Cardinality({e}) = 1 /\ SSH!Cardinality({e}) = 1
         /\ Web!Cardinality({e}) = 1 /\ Family!Cardinality({e}) = 1
         /\ System!Cardinality({e}) = 1 /\ Inventory!Cardinality({e}) = 1
<1>1. Cardinality({e}) = 1
  BY FS_Singleton
<1>2. TLS!Cardinality({e}) = Cardinality({e})
  BY Zenon DEF TLS!Cardinality, Cardinality
<1>3. SSH!Cardinality({e}) = Cardinality({e})
  BY Zenon DEF SSH!Cardinality, Cardinality
<1>4. Web!Cardinality({e}) = Cardinality({e})
  BY Zenon DEF Web!Cardinality, Cardinality
<1>5. Family!Cardinality({e}) = Cardinality({e})
  BY Zenon DEF Family!Cardinality, Cardinality
<1>6. System!Cardinality({e}) = Cardinality({e})
  BY Zenon DEF System!Cardinality, Cardinality
<1>7. Inventory!Cardinality({e}) = Cardinality({e})
  BY Zenon DEF Inventory!Cardinality, Cardinality
<1> QED
  BY <1>1, <1>2, <1>3, <1>4, <1>5, <1>6, <1>7

LEMMA TLSValid ==
  ASSUME Sound, TLSInv, TLS!Observe, ~Returned, Returned'
  PROVE  TLS!ValidResult(result')
<1>1. ASSUME NEW code \in TLS!TCPCodes, TLS!Fail(code),
             (local.input.target = "refused") = (code = "invalid_input")
      PROVE  TLS!ValidResult(result')
  <2> DEFINE r == result'
  <2>1. /\ r.outcome = (IF code = "cancelled" THEN "cancelled" ELSE "failed")
        /\ r.code = code /\ r.input = {local.input} /\ r.evidence = {}
    BY <1>1 DEF TLS!Fail, TLS!Return
  <2> HIDE DEF r
  <2>2. TLS!ValidResult(r)
    BY <1>1, <2>1 DEF TLS!ValidResult, TLS!ValidDirect, TLS!ValidEnvelope, TLS!TCPCodes
  <2> QED
    BY <2>2 DEF r
<1>2. /\ phase = "dialFailed" =>
           TLS!TCPFailure(attempt, local.cause) \in TLS!TCPCodes \ {"invalid_input"}
      /\ TLS!TCPFailure(parent, "own") \in TLS!TCPCodes \ {"invalid_input"}
  BY DEF TLS!TCPFailure, TLS!TCPCode, TLS!TCPCodes, TLSInv, DirectInv, DialCauses
<1>3. CASE TLS!Connect \/ TLS!Dialled \/ TLS!CheckCancelled
  BY <1>1, <1>2, <1>3
     DEF TLS!Connect, TLS!Normalize, TLS!Enter, TLS!DialGivesUp, TLS!DialReturns, TLS!ReportDial,
         TLS!Dialled, TLS!CheckCancelled, TLS!GoTo, TLS!TCPCodes, TLSInv, DirectInv, Returned
<1>4. CASE TLS!Settle
  <2>1. PICK e \in local.evidence :
          TLS!Succeed(IF TLS!Ended(parent) \/ TLS!Ended(attempt)
                      THEN TLS!Unconfirmed("timeout", e.kept) ELSE e)
    BY <1>4 DEF TLS!Settle
  <2> DEFINE f == IF TLS!Ended(parent) \/ TLS!Ended(attempt)
                  THEN TLS!Unconfirmed("timeout", e.kept) ELSE e
             r == result'
  <2>2. e \in TLSSightings
    BY DEF TLSInv, DirectFields
  <2>3. f \in TLSSightings
    BY <2>2 DEF TLS!Unconfirmed, TLSSightings, Sightings, TLS!Reasons
  <2>4. /\ r.outcome = "succeeded" /\ r.code = "none" /\ r.input = {local.input} /\ r.evidence = {f}
        /\ local.input.target = "public"
    BY <1>4, <2>1 DEF TLS!Settle, TLS!Succeed, TLS!Return, TLSInv, DirectInv
  <2> HIDE DEF f, r
  <2>5. TLS!ValidEnvelope(r)
    BY <2>4, SingleEvidence DEF TLS!ValidEnvelope
  <2>6. TLS!ValidDirect(r, TLS!Reasons)
    BY <2>3, <2>4, <2>5 DEF TLS!ValidDirect, TLSSightings, Sightings
  <2>7. \A g \in r.evidence : \A leaf \in g.found : leaf.dates = "before"
    BY <2>3, <2>4 DEF TLSSightings, Sightings, Sound
  <2> QED
    BY <2>4, <2>6, <2>7 DEF TLS!ValidResult, r
<1> QED
  BY <1>3, <1>4 DEF TLS!Observe, TLS!DirectStep, TLS!CommitEvidence, TLS!DialFails,
                    TLS!DialReturns,
     TLS!ConnectionDeadline, TLS!Interrupt, TLS!Expire, TLS!AttemptEnds, TLS!Exchanged, Returned,
     TLS!HandshakeFails, TLS!HandshakeEnds, TLS!HandshakeCompletes

LEMMA SSHValid ==
  ASSUME Sound, SSHInv, SSH!Observe, ~Returned, Returned'
  PROVE  SSH!ValidResult(result')
<1>1. ASSUME NEW code \in SSH!TCPCodes, SSH!Fail(code),
             (local.input.target = "refused") = (code = "invalid_input")
      PROVE  SSH!ValidResult(result')
  <2> DEFINE r == result'
  <2>1. /\ r.outcome = (IF code = "cancelled" THEN "cancelled" ELSE "failed")
        /\ r.code = code /\ r.input = {local.input} /\ r.evidence = {}
    BY <1>1 DEF SSH!Fail, SSH!Return
  <2> HIDE DEF r
  <2>2. SSH!ValidResult(r)
    BY <1>1, <2>1 DEF SSH!ValidResult, SSH!ValidDirect, SSH!ValidEnvelope, SSH!TCPCodes
  <2> QED
    BY <2>2 DEF r
<1>2. /\ phase = "dialFailed" =>
           SSH!TCPFailure(attempt, local.cause) \in SSH!TCPCodes \ {"invalid_input"}
      /\ SSH!TCPFailure(parent, "own") \in SSH!TCPCodes \ {"invalid_input"}
  BY DEF SSH!TCPFailure, SSH!TCPCode, SSH!TCPCodes, SSHInv, DirectInv, DialCauses
<1>3. CASE SSH!Connect \/ SSH!Dialled \/ SSH!CheckCancelled
  BY <1>1, <1>2, <1>3
     DEF SSH!Connect, SSH!Normalize, SSH!Enter, SSH!DialGivesUp, SSH!DialReturns, SSH!ReportDial,
         SSH!Dialled, SSH!CheckCancelled, SSH!GoTo, SSH!TCPCodes, SSHInv, DirectInv, Returned
<1>4. CASE SSH!Settle
  <2>1. PICK e \in local.evidence :
          SSH!Succeed(IF SSH!Ended(parent) \/ SSH!Ended(attempt)
                      THEN SSH!Unconfirmed("timeout", e.kept) ELSE e)
    BY <1>4 DEF SSH!Settle
  <2> DEFINE f == IF SSH!Ended(parent) \/ SSH!Ended(attempt)
                  THEN SSH!Unconfirmed("timeout", e.kept) ELSE e
             r == result'
  <2>2. e \in SSHSightings
    BY DEF SSHInv, SSHFields
  <2>3. f \in SSHSightings /\ (f.status = "confirmed" => f = e)
    BY <2>2 DEF SSH!Unconfirmed, SSHSightings, Sightings, SSH!Reasons
  <2>4. /\ r.outcome = "succeeded" /\ r.code = "none" /\ r.input = {local.input} /\ r.evidence = {f}
        /\ local.input.target = "public"
    BY <1>4, <2>1 DEF SSH!Settle, SSH!Succeed, SSH!Return, SSHInv, DirectInv
  <2> HIDE DEF f, r
  <2>5. SSH!ValidEnvelope(r)
    BY <2>4, SingleEvidence DEF SSH!ValidEnvelope
  <2>6. SSH!ValidDirect(r, SSH!Reasons)
    BY <2>3, <2>4, <2>5 DEF SSH!ValidDirect, SSHSightings, Sightings
  <2>7. \A g \in r.evidence :
          /\ g.kept.preamble <= MaxPreambleLines
          /\ g.status = "confirmed" =>
               g.kept.sent /\ \A line \in g.found : SSH!Parses(SSH!Reported(line))
    <3>1. f.kept.preamble <= MaxPreambleLines
      BY <2>3, LimitsAssumption DEF SSHSightings, Sightings, KeptLines
    <3>2. ASSUME f.status = "confirmed"
          PROVE  f.kept.sent /\ \A line \in f.found : SSH!Parses(SSH!Reported(line))
      <4>1. f.kept.sent /\ \A line \in f.found : SSH!Parses(line)
        BY <2>3, <3>2 DEF SSHInv
      <4>2. f.found \subseteq StreamLines
        BY <2>3 DEF SSHSightings, Sightings
      <4> QED
        BY <4>1, <4>2 DEF Sound
    <3> QED
      BY <2>4, <3>1, <3>2
  <2> QED
    BY <2>4, <2>6, <2>7 DEF SSH!ValidResult, r
<1> QED
  BY <1>3, <1>4 DEF SSH!Observe, SSH!DirectStep, SSH!CommitEvidence, SSH!DialFails,
                    SSH!DialReturns,
     SSH!ConnectionDeadline, SSH!Interrupt, SSH!Expire, SSH!AttemptEnds, SSH!Exchanged, Returned,
     SSH!Send, SSH!SendFails, SSH!SendExpires, SSH!NextLine, SSH!Identified,
     SSH!ReadFails, SSH!ReadExpires

LEMMA WebValid ==
  ASSUME Sound, WebInv, Web!Observe, ~Returned, Returned'
  PROVE  Web!ValidResult(result')
<1>1. local.input.hostname # "unstable"
  BY DEF WebInv, Sound
<1>2. ASSUME NEW code \in Web!FailureCodes, Web!Fail(code),
             Web!Rejected(local.input) <=> code = "invalid_input",
             code \in Web!TLSCodes => Web!Secure
      PROVE  Web!ValidResult(result')
  <2> DEFINE r == result'
  <2>1. /\ r.outcome = (IF code = "cancelled" THEN "cancelled" ELSE "failed")
        /\ r.code = code /\ r.input = {local.input} /\ r.evidence = {}
    BY <1>2 DEF Web!Fail, Web!Return
  <2> HIDE DEF r
  <2>2. Web!ValidResult(r)
    BY <1>1, <1>2, <2>1
       DEF Web!ValidResult, Web!ValidEnvelope, Web!Rejected, Web!FailureCodes, Web!TLSCodes,
           Web!Secure
  <2> QED
    BY <2>2 DEF r
<1>3. /\ Web!Stage \in {"tcp", "tls", "http"}
      /\ Web!Stage = "tls" => Web!Secure
  BY DEF Web!Stage
<1>4. \A stage \in {"tcp", "tls", "http"} :
        LET code == Web!AttemptCode(stage)
        IN code # "none" => /\ code \in Web!FailureCodes \ {"invalid_input"}
                            /\ code \in Web!TLSCodes => stage = "tls"
  BY DEF Web!AttemptCode, Web!EndedCode, Web!TimeoutCode, Web!FailureCodes, Web!TLSCodes
<1>5. LET code == Web!ExchangeCode(local.cause, Web!Stage)
      IN /\ code \in Web!FailureCodes \ {"invalid_input"}
         /\ code \in Web!TLSCodes => Web!Secure
  BY <1>3 DEF Web!ExchangeCode, Web!TimeoutCode, Web!ResetCode, Web!FallbackCode,
              Web!FailureCodes,
              Web!TLSCodes, WebInv
<1>6. CASE Web!Normalize
  BY <1>2, <1>6 DEF Web!Normalize, Web!GoTo, Web!FailureCodes, Web!TLSCodes, Returned
<1>7. CASE Web!Enter
  <2>1. CASE Ended(parent)
    <3>1. Web!EndedCode(parent, "tcp") \in {"cancelled", "tcp_timeout"}
      BY <2>1 DEF Web!EndedCode, Web!TimeoutCode, Ended
    <3> QED
      BY <1>2, <1>7, <2>1, <3>1 DEF Web!Enter, Ended, Web!Ended, Web!FailureCodes, Web!TLSCodes,
                                    WebInv
  <2>2. CASE ~Ended(parent)
    BY <1>7, <2>2 DEF Web!Enter, Ended, Web!Ended, Returned
  <2> QED
    BY <2>1, <2>2
<1>8. CASE Web!Classify
  BY <1>2, <1>3, <1>4, <1>5, <1>8 DEF Web!Classify, WebInv
<1>9. CASE Web!Inspect
  <2>1. phase = "answered" /\ Web!Fail("http_protocol_failure")
    BY <1>9 DEF Web!Inspect, Returned
  <2> QED
    BY <1>2, <2>1 DEF Web!FailureCodes, Web!TLSCodes, WebInv
<1>10. CASE Web!Commit
  <2>1. CASE Web!AttemptCode("http") # "none" /\ Web!Fail(Web!AttemptCode("http"))
    BY <1>2, <1>4, <1>10, <2>1 DEF Web!Commit, WebInv
  <2>2. CASE \E e \in local.evidence : Web!Succeed(e)
    <3>1. PICK e \in local.evidence : Web!Succeed(e)
      BY <2>2
    <3> DEFINE r == result'
    <3>2. /\ r.outcome = "succeeded" /\ r.code = "none"
          /\ r.input = {local.input} /\ r.evidence = {e}
      BY <3>1 DEF Web!Succeed, Web!Return
    <3> HIDE DEF r
    <3>3. /\ ~Web!Rejected(local.input) /\ e.protocol \in {"1.0", "1.1"}
          /\ e.tls = (local.input.scheme = "https")
      BY <1>10 DEF Web!Commit, WebInv, Sound, Web!Secure
    <3>4. Web!ValidEnvelope(r)
      BY <3>2, SingleEvidence DEF Web!ValidEnvelope
    <3>5. r.code \notin Web!TLSCodes /\ r.code \in Web!FailureCodes \cup {"none"}
      BY <3>2 DEF Web!TLSCodes
    <3> QED
      BY <1>1, <3>2, <3>3, <3>4, <3>5 DEF Web!ValidResult, Web!Rejected, r
  <2> QED
    BY <1>10, <2>1, <2>2 DEF Web!Commit
<1> QED
  BY <1>6, <1>7, <1>8, <1>9, <1>10
     DEF Web!Observe, Web!Steps, Web!GiveUp, Web!Trace, Web!Underway, Web!ExchangeFails,
         Web!ExchangeReturns, Web!Respond, Web!AttemptEnds, Returned

LEMMA FamilyValid ==
  ASSUME FamilyInv, Family!Observe, ~Returned, Returned'
  PROVE  Family!ValidResult(result')
<1> DEFINE r == result'
<1>1. CASE \E code \in {"route_check_failure", "timeout", "cancelled"} : Family!Fail(code)
  <2>1. PICK code \in {"route_check_failure", "timeout", "cancelled"} : Family!Fail(code)
    BY <1>1
  <2>2. /\ r.outcome = (IF code = "cancelled" THEN "cancelled" ELSE "failed")
        /\ r.code = code /\ r.input = {"empty"} /\ r.evidence = {}
    BY <2>1 DEF Family!Fail, Family!Return, FamilyInv
  <2> HIDE DEF r
  <2>3. Family!ValidResult(r)
    BY <2>2 DEF Family!ValidResult, Family!ValidEnvelope
  <2> QED
    BY <2>3 DEF r
<1>2. CASE phase = "commit" /\ Family!Succeed(local.conditions)
  <2>1. /\ r.outcome = "succeeded" /\ r.code = "none" /\ r.input = {"empty"}
        /\ r.evidence = {local.conditions}
    BY <1>2 DEF Family!Succeed, Family!Return, FamilyInv
  <2>2. /\ Len(local.conditions) = Family!Routes
        /\ local.conditions \in Seq({"route_selected", "unavailable"})
    BY <1>2 DEF FamilyInv
  <2> HIDE DEF r
  <2>3. Family!ValidEnvelope(r)
    BY <2>1, SingleEvidence DEF Family!ValidEnvelope
  <2> QED
    BY <2>1, <2>2, <2>3 DEF Family!ValidResult, r
<1>3. \A inner, cause :
        Family!RouteFailure(inner, cause) \in {"route_check_failure", "timeout", "cancelled"}
  BY DEF Family!RouteFailure
<1> HIDE DEF r
<1> QED
  BY <1>1, <1>2, <1>3
     DEF r, Family!Observe, Family!Steps, Family!Enter, Family!GiveUp, Family!RouteSelected,
         Family!RouteFails, Family!RouteReturns, Family!JudgeRoute, Family!Commit, Family!Add,
         Family!AttemptEnds, Returned

LEMMA SystemValid ==
  ASSUME SystemInv, System!Observe, ~Returned, Returned'
  PROVE  System!ValidResult(result')
<1> DEFINE r == result'
<1>1. ASSUME NEW code \in {"invalid_input", "name_unresolved", "timeout", "resolution_failure",
                           "cancelled"},
             System!Fail(code), (local.input.hostname = "invalid") = (code = "invalid_input")
      PROVE  System!ValidResult(r)
  <2>1. /\ r.outcome = (IF code = "cancelled" THEN "cancelled" ELSE "failed")
        /\ r.code = code /\ r.input = {local.input} /\ r.evidence = {}
    BY <1>1 DEF System!Fail, System!Return
  <2> HIDE DEF r
  <2> QED
    BY <1>1, <2>1 DEF System!ValidResult, System!ValidEnvelope
<1>2. ASSUME local.addresses = "some", System!Succeed([addresses |-> local.addresses]),
             local.input.hostname # "invalid"
      PROVE  System!ValidResult(r)
  <2> DEFINE e == [addresses |-> local.addresses]
  <2>1. /\ r.outcome = "succeeded" /\ r.code = "none" /\ r.input = {local.input} /\ r.evidence = {e}
    BY <1>2 DEF System!Succeed, System!Return
  <2>2. e.addresses = "some"
    BY <1>2
  <2> HIDE DEF r, e
  <2>3. System!ValidEnvelope(r)
    BY <2>1, SingleEvidence DEF System!ValidEnvelope
  <2> QED
    BY <1>2, <2>1, <2>2, <2>3 DEF System!ValidResult
<1>3. System!LookupCode \in {"name_unresolved", "timeout", "resolution_failure", "cancelled"}
  BY DEF System!LookupCode
<1> HIDE DEF r
<1>4. CASE System!Normalize
  BY <1>1, <1>4 DEF System!Normalize, System!GoTo, Returned, r
<1>5. CASE System!Judge
  BY <1>1, <1>2, <1>3, <1>5 DEF System!Judge, SystemInv, r
<1> QED
  BY <1>4, <1>5 DEF System!Observe, System!Steps, System!GiveUp, System!LookupFails,
     System!LookupSucceeds, System!LookupReturns, Returned

LEMMA InventoryValid ==
  ASSUME InventoryInv, Inventory!Observe, ~Returned, Returned'
  PROVE  Inventory!ValidResult(result')
<1> DEFINE r == result'
<1>1. ASSUME NEW cause, Inventory!Fail(Inventory!FailureCode(cause))
      PROVE  Inventory!ValidResult(r)
  <2> DEFINE code == Inventory!FailureCode(cause)
  <2>1. /\ r.outcome = (IF code = "cancelled" THEN "cancelled" ELSE "failed")
        /\ r.code = code /\ r.input = {"empty"} /\ r.evidence = {}
    BY <1>1 DEF Inventory!Fail, Inventory!Return, InventoryInv
  <2>2. code \in {"resolver_inventory_unavailable", "resolver_inventory_invalid",
                  "timeout", "cancelled"}
    BY DEF Inventory!FailureCode
  <2> HIDE DEF r, code
  <2> QED
    BY <2>1, <2>2 DEF Inventory!ValidResult, Inventory!ValidEnvelope
<1>2. CASE phase = "commit" /\ Inventory!Succeed(local.servers)
  <2>1. /\ r.outcome = "succeeded" /\ r.code = "none" /\ r.input = {"empty"}
        /\ r.evidence = {local.servers} /\ Inventory!Normal(local.servers)
    BY <1>2 DEF Inventory!Succeed, Inventory!Return, InventoryInv
  <2> HIDE DEF r
  <2>2. Inventory!ValidEnvelope(r)
    BY <2>1, SingleEvidence DEF Inventory!ValidEnvelope
  <2> QED
    BY <2>1, <2>2 DEF Inventory!ValidResult, r
<1> HIDE DEF r
<1> QED
  BY <1>1, <1>2
     DEF r, Inventory!Observe, Inventory!Steps, Inventory!GiveUp, Inventory!Judge,
         Inventory!Commit,
         Inventory!CollectFails, Inventory!Collect, Inventory!Returns, Inventory!GoTo, Returned

LEMMA PathValid ==
  ASSUME Sound, local \in PathLocals, PathReturns
  PROVE  ValidEnvelope(result') /\ \A input \in result'.input : input.hostname # "unstable"
<1> DEFINE r == result'
<1>1. \/ r.outcome = "succeeded" /\ r.code = "none" /\ r.evidence = {"completed"}
      \/ r.outcome = "cancelled" /\ r.code = "cancelled" /\ r.evidence = {}
      \/ r.outcome = "failed" /\ r.code = "stopped" /\ r.evidence = {}
  BY DEF PathReturns, Return, Fail
<1>2. r.input = {local.input}
  BY DEF PathReturns, Return, Fail
<1>3. local.input.hostname # "unstable"
  BY DEF PathLocals, Sound
<1> HIDE DEF r
<1>4. ValidEnvelope(r)
  BY <1>1, SingleEvidence DEF ValidEnvelope
<1> QED
  BY <1>2, <1>3, <1>4 DEF r

\* The request and the evidence of a DNS observation on its way, with DNSObservationProofs.
LEMMA DNSValid ==
  ASSUME Sound, DNSInv, DNSInv', DNSProofs!ValidInv, DNS!Observe
  PROVE  DNSProofs!ValidInv'
<1>1. DNSProofs!Next
  BY SameObserve DEF DNSProofs!Next
<1> QED
  BY <1>1, DNSAssumptions, DNSProofs!NextValid DEF DNSInv, Sound

\* What is known of a run that prints its document.
DocumentInv ==
  /\ task = "dns-observe" => DNSProofs!ValidInv
  /\ Returned => ValidResult(result)
  /\ output # "refused"

LEMMA StartsValid ==
  ASSUME Sound
  PROVE  /\ phase = "start" /\ DNSStart(local) => DNSProofs!ValidInv
         /\ phase' = "start" /\ DNSStart(local') => DNSProofs!ValidInv'
BY DEF Sound, DNSStart, DNSProofs!ValidInv, DNSProofs!RequestInv, DNSProofs!EvidenceInv,
       DNSProofs!EmittedResultValid,
       DNSProofs!Returned, DNSProofs!Looked, DNSProofs!Blocking, DNSProofs!Input

LEMMA ObserveDocument ==
  ASSUME Sound, IInv, IInv', DocumentInv, Observe
  PROVE  DocumentInv'
<1>1. UNCHANGED run /\ (Quiet \/ Returns)
  BY ObserveSteps DEF Moves
<1>2. ASSUME task = "dns-observe" PROVE DNSProofs!ValidInv'
  <2>1. DNS!Observe
    BY <1>2 DEF Observe, Runs
  <2> QED
    BY <1>1, <1>2, <2>1, DNSValid DEF IInv, LocalInv, DocumentInv, run
<1>3. ASSUME Returned' PROVE ValidResult(result)'
  <2>1. CASE Quiet
    BY <1>1, <1>3, <2>1 DEF Quiet, DocumentInv, run, ValidResult
  <2>2. CASE Returns
    <3>1. ~Returned /\ Returned'
      BY <2>2 DEF Returns
    <3>2. CASE task = "tls-observe"
      BY <1>1, <3>1, <3>2, TLSValid DEF Observe, Runs, IInv, LocalInv, ValidResult, run
    <3>3. CASE task = "ssh-observe"
      BY <1>1, <3>1, <3>3, SSHValid DEF Observe, Runs, IInv, LocalInv, ValidResult, run
    <3>4. CASE task = "web-observe"
      BY <1>1, <3>1, <3>4, WebValid DEF Observe, Runs, IInv, LocalInv, ValidResult, run
    <3>5. CASE task = "family-conditions"
      BY <1>1, <3>1, <3>5, FamilyValid DEF Observe, Runs, IInv, LocalInv, ValidResult, run
    <3>6. CASE task = "resolve"
      BY <1>1, <3>1, <3>6, SystemValid DEF Observe, Runs, IInv, LocalInv, ValidResult, run
    <3>7. CASE task = "resolver-inventory"
      BY <1>1, <3>1, <3>7, InventoryValid DEF Observe, Runs, IInv, LocalInv, ValidResult, run
    <3>8. CASE task = "path"
      BY <1>1, <3>1, <3>8, PathValid DEF Observe, Runs, IInv, LocalInv, ValidResult, run
    <3>9. CASE task = "dns-observe"
      <4>1. DNSProofs!ValidResult(result')
        BY <1>2, <3>1, <3>9 DEF DNSProofs!ValidInv, DNSProofs!EmittedResultValid,
                                DNSProofs!Returned, Returned
      <4> QED
        BY <1>1, <3>9, <4>1, SameValid DEF ValidResult, run
    <3> QED
      BY <3>2, <3>3, <3>4, <3>5, <3>6, <3>7, <3>8, <3>9 DEF IInv, Probes
  <2> QED
    BY <1>1, <2>1, <2>2
<1> QED
  BY <1>1, <1>2, <1>3 DEF DocumentInv, run

LEMMA NextDocument == Sound /\ IInv /\ IInv' /\ DocumentInv /\ [Next]_clVars => DocumentInv'
<1> SUFFICES ASSUME Sound, IInv, IInv', DocumentInv, [Next]_clVars PROVE DocumentInv'
  OBVIOUS
<1>1. ASSUME Observe PROVE DocumentInv'
  BY <1>1, ObserveDocument
<1>2. ASSUME CallerEnds, UNCHANGED run PROVE DocumentInv'
  BY <1>2 DEF CallerEnds, run, DocumentInv, Returned, ValidResult, DNSProofs!ValidInv,
     DNSProofs!RequestInv, DNSProofs!EvidenceInv, DNSProofs!EmittedResultValid,
     DNSProofs!Returned,
     DNSProofs!Looked, DNSProofs!Input, DNSProofs!Rejected, DNSProofs!Mismatch, DNSProofs!Wire
<1>3. ASSUME UseInventory PROVE DocumentInv'
  <2>1. task' = "dns-observe" /\ phase' = "start" /\ DNSStart(local') /\ output' = output
    BY <1>3, UseInventoryInv DEF UseInventory
  <2> QED
    BY <2>1, StartsValid DEF DocumentInv, Returned
<1>4. ASSUME UNCHANGED <<vars, task>>, output' # "refused" PROVE DocumentInv'
  BY <1>4 DEF vars, contexts, DocumentInv, Returned, ValidResult, DNSProofs!ValidInv,
     DNSProofs!RequestInv, DNSProofs!EvidenceInv, DNSProofs!EmittedResultValid,
     DNSProofs!Returned,
     DNSProofs!Looked, DNSProofs!Input, DNSProofs!Rejected, DNSProofs!Mismatch, DNSProofs!Wire
<1>5. ASSUME EmitResult PROVE DocumentInv'
  <2>1. /\ UNCHANGED <<vars, task>> /\ ValidResult(result)
        /\ \E ending \in Endings : output' = ending.output
    BY <1>5 DEF EmitResult, DocumentInv, Concluded
  <2>2. output' # "refused"
    BY <2>1 DEF Endings
  <2> QED
    BY <1>4, <2>1, <2>2
<1>6. ASSUME UNCHANGED clVars PROVE DocumentInv'
  BY <1>4, <1>6 DEF clVars, run, DocumentInv
<1> QED
  BY <1>1, <1>2, <1>3, <1>5, <1>6 DEF Next, Done

\* README.md: "Each command prints one versioned JSON evidence document."  Every Result
\* satisfies its own Validate, for every command, request and peer, but for the cases
\* that the findings report.
THEOREM EveryDocumentIsPrinted == Sound => (Spec => []EachCommandPrintsOneDocument)
<1> SUFFICES ASSUME Sound PROVE Spec => []EachCommandPrintsOneDocument
  OBVIOUS
<1>1. Init => DocumentInv
  <2> SUFFICES ASSUME Init PROVE DocumentInv
    OBVIOUS
  <2>1. phase = "start" /\ local \in LocalsOf(task) /\ output = "nothing"
    BY DEF Init, Start
  <2>2. task = "dns-observe" => DNSProofs!ValidInv
    BY <2>1, DNSLocals, StartsValid DEF LocalsOf
  <2> QED
    BY <2>1, <2>2 DEF DocumentInv, Returned
<1>2. DocumentInv => EachCommandPrintsOneDocument
  BY DEF DocumentInv, EachCommandPrintsOneDocument
<1> QED
  BY <1>1, <1>2, NextDocument, InvariantHolds, PTL DEF Spec

-----------------------------------------------------------------------------
(***************************************************************************)
(* Finding the identification: the loop that reads byte by byte and line   *)
(* by line decides what Announces says of all the lines at once.           *)
(***************************************************************************)
Sums(lines, f, m) ==
  /\ f \in [0..m -> Nat]
  /\ f[0] = 0
  /\ \A j \in 1..m : f[j] = f[j - 1] + lines[j].bytes

LEMMA LineFields ==
  ASSUME NEW lines \in Seq(Lines)
  PROVE  /\ Len(lines) \in Nat /\ DOMAIN lines = 1..Len(lines)
         /\ \A j \in 1..Len(lines) :
              /\ lines[j] \in Lines /\ lines[j].bytes \in Nat \ {0} /\ lines[j].like \in 0..Prefix
              /\ lines[j].lf \in BOOLEAN
              /\ lines[j].lf => lines[j].like < lines[j].bytes
BY DEF Lines, Prefix

\* The recursion of BytesOf.
LEMMA BytesSum ==
  ASSUME NEW lines \in Seq(Lines)
  PROVE  Sums(lines, BytesOf(lines), Len(lines))
<1> DEFINE n == Len(lines)
           Bad == {m \in 0..n : ~\E f : Sums(lines, f, m)}
<1>1. n \in Nat
  BY LineFields
<1>2. Bad = {}
  <2> SUFFICES ASSUME Bad # {} PROVE FALSE
    OBVIOUS
  <2>1. PICK m \in Bad : \A j \in Bad : m <= j
    <3>1. Bad \subseteq Nat
      BY <1>1
    <3> HIDE DEF Bad
    <3> QED
      BY <3>1, Least
  <2>2. m \in 0..n /\ ~\E f : Sums(lines, f, m)
    BY <2>1
  <2>3. CASE m = 0
    <3>1. Sums(lines, [j \in 0..0 |-> 0], 0)
      BY DEF Sums
    <3> QED
      BY <2>2, <2>3, <3>1
  <2>4. CASE m # 0
    <3>1. m - 1 \in 0..n /\ ~(m <= m - 1)
      BY <1>1, <2>2, <2>4
    <3>2. m - 1 \notin Bad
      BY <2>1, <3>1
    <3>3. PICK f : Sums(lines, f, m - 1)
      BY <3>1, <3>2
    <3> DEFINE g == [j \in 0..m |-> IF j = m THEN f[m - 1] + lines[m].bytes ELSE f[j]]
    <3>4. m \in 1..n /\ lines[m].bytes \in Nat
      BY <1>1, <2>2, <2>4, LineFields
    <3>5. g \in [0..m -> Nat]
      BY <3>3, <3>4 DEF Sums
    <3>6. g[0] = 0
      BY <2>4, <3>3, <3>4 DEF Sums
    <3>7. \A j \in 1..m : g[j] = g[j - 1] + lines[j].bytes
      BY <3>3, <3>4 DEF Sums
    <3> QED
      BY <2>2, <3>5, <3>6, <3>7 DEF Sums
  <2> QED
    BY <2>3, <2>4
<1> DEFINE Def(f) == [j \in 0..n |-> IF j = 0 THEN 0 ELSE f[j - 1] + lines[j].bytes]
<1>3. PICK f : Sums(lines, f, n)
  BY <1>1, <1>2
<1>4. f = Def(f)
  BY <1>1, <1>3 DEF Sums
<1>5. BytesOf(lines) = CHOOSE b : b = Def(b)
  BY DEF BytesOf
<1>6. BytesOf(lines) = Def(BytesOf(lines))
  BY <1>4, <1>5
<1> DEFINE b == BytesOf(lines)
<1> HIDE DEF b
<1>7. /\ DOMAIN b = 0..n /\ b[0] = 0
      /\ \A j \in 1..n : b[j] = b[j - 1] + lines[j].bytes
  BY <1>1, <1>6 DEF b
<1>8. \A m \in 0..n : b[m] \in Nat
  <2> DEFINE Odd == {m \in 0..n : b[m] \notin Nat}
  <2> SUFFICES ASSUME Odd # {} PROVE FALSE
    OBVIOUS
  <2>1. PICK m \in Odd : \A j \in Odd : m <= j
    <3>1. Odd \subseteq Nat
      BY <1>1
    <3> HIDE DEF Odd
    <3> QED
      BY <3>1, Least
  <2>2. m \in 1..n /\ lines[m].bytes \in Nat
    BY <1>1, <1>7, <2>1, LineFields
  <2>3. m - 1 \in 0..n /\ m - 1 \notin Odd
    BY <1>1, <2>1, <2>2
  <2> QED
    BY <1>7, <2>1, <2>2, <2>3
<1> QED
  BY <1>6, <1>7, <1>8 DEF Sums, b

LEMMA BytesGrow ==
  ASSUME NEW lines \in Seq(Lines), NEW i \in 0..Len(lines), NEW k \in i..Len(lines)
  PROVE  BytesOf(lines)[i] <= BytesOf(lines)[k]
<1> DEFINE n == Len(lines)
           b == BytesOf(lines)
           Short == {m \in i..n : ~(b[i] <= b[m])}
<1>1. n \in Nat /\ b \in [0..n -> Nat] /\ \A j \in 1..n : b[j] = b[j - 1] + lines[j].bytes
  BY LineFields, BytesSum DEF Sums
<1> HIDE DEF b
<1> SUFFICES ASSUME Short # {} PROVE FALSE
  BY DEF b
<1>2. PICK m \in Short : \A j \in Short : m <= j
  <2>1. Short \subseteq Nat
    BY <1>1
  <2> HIDE DEF Short
  <2> QED
    BY <2>1, Least
<1>3. m \in 1..n /\ m # i /\ lines[m].bytes \in Nat /\ b[i] \in Nat /\ b[m - 1] \in Nat
  <2>1. i \in 0..n /\ m \in i..n /\ ~(b[i] <= b[m])
    BY <1>2
  <2>2. b[i] \in Nat /\ m # i
    BY <1>1, <2>1
  <2>3. m \in 1..n /\ m - 1 \in 0..n
    BY <1>1, <2>1, <2>2
  <2>4. lines[m].bytes \in Nat
    BY <2>3, LineFields
  <2> QED
    BY <1>1, <2>2, <2>3, <2>4
<1>4. m - 1 \in i..n /\ m - 1 \notin Short
  BY <1>1, <1>2, <1>3
<1> QED
  BY <1>1, <1>2, <1>3, <1>4

\* The first byte that decides, if there is one.
LEMMA FirstDecides ==
  ASSUME NEW line, line.bytes \in Nat, NEW remaining,
         ReadServerLine(line, remaining) # "partial"
  PROVE  \E k \in 1..line.bytes :
           /\ AfterByte(line, k, remaining) # "more"
           /\ ReadServerLine(line, remaining) = AfterByte(line, k, remaining)
<1> DEFINE decisive == {k \in 1..line.bytes : AfterByte(line, k, remaining) # "more"}
           first == CHOOSE k \in decisive : \A j \in decisive : k <= j
<1>1. decisive # {} /\ ReadServerLine(line, remaining) = AfterByte(line, first, remaining)
  BY DEF ReadServerLine
<1>2. decisive \subseteq Nat
  OBVIOUS
<1>3. first \in decisive
  <2> HIDE DEF decisive
  <2> QED
    BY <1>1, <1>2, Least
<1> QED
  BY <1>1, <1>3

\* What reading a line comes to says what the line is.
LEMMA ReadLine ==
  ASSUME NEW lines \in Seq(Lines), NEW k \in 1..Len(lines), NEW remaining \in Nat
  PROVE  LET line == lines[k]
             read == ReadServerLine(line, remaining)
         IN /\ read \in {"partial", "line", "limit"}
            /\ read = "line" => line.lf
            /\ read = "limit" /\ StartsSSH(line) => ~line.lf \/ line.bytes > MaxIdentification
            /\ read = "limit" /\ ~StartsSSH(line) => ~line.lf \/ line.bytes > remaining
<1> DEFINE line == lines[k]
           read == ReadServerLine(line, remaining)
<1>1. /\ line.bytes \in Nat \ {0} /\ line.like \in 0..4 /\ line.lf \in BOOLEAN
      /\ MaxIdentification \in Nat
  BY LineFields, LimitsAssumption DEF Prefix
<1>2. CASE read = "partial"
  BY <1>2
<1>3. CASE read # "partial"
  <2>1. PICK j \in 1..line.bytes : read = AfterByte(line, j, remaining) /\ read # "more"
    BY <1>1, <1>3, FirstDecides
  <2> HIDE DEF line, read
  <2> QED
    BY <1>1, <2>1 DEF AfterByte, StartsSSH, Prefix, line, read
<1> QED
  BY <1>2, <1>3

\* The first m lines may stand before an identification.
Before(lines, m) ==
  /\ \A j \in 1..m : lines[j].lf /\ ~StartsSSH(lines[j])
  /\ m <= MaxPreambleLines
  /\ BytesOf(lines)[m] <= MaxPreambleBytes

Unannounced(lines) == \A k \in DOMAIN lines : ~Announces(lines, k)

\* What the loop made of the first m lines is right.
SeenRight(lines, m, seen) ==
  /\ seen.kind = "more" =>
       Before(lines, m) /\ seen.preamble = m /\ seen.bytes = BytesOf(lines)[m]
  /\ seen.kind = "received" => m > 0 /\ Announces(lines, m) /\ seen.preamble = m - 1
  /\ seen.kind \in {"invalid_identification", "preamble_limit"} => Unannounced(lines)

\* Any other line that were the identification would have a line before it, or be one,
\* that may not stand before one.
LEMMA NoOther ==
  ASSUME NEW lines \in Seq(Lines), NEW m \in 1..Len(lines), NEW k \in 1..Len(lines),
         Before(lines, m - 1), Announces(lines, k)
  PROVE  /\ m <= k
         /\ StartsSSH(lines[m]) => k = m
         /\ ~StartsSSH(lines[m]) => /\ lines[m].lf /\ m <= MaxPreambleLines
                                    /\ BytesOf(lines)[m] <= MaxPreambleBytes
<1>1. /\ m \in Nat /\ k \in Nat /\ Len(lines) \in Nat
      /\ MaxPreambleLines \in Nat /\ MaxPreambleBytes \in Nat
  BY LineFields, LimitsAssumption
<1>2. m <= k
  BY <1>1 DEF Before, Announces
<1>3. ASSUME m < k
      PROVE  /\ ~StartsSSH(lines[m]) /\ lines[m].lf /\ m <= MaxPreambleLines
             /\ BytesOf(lines)[m] <= MaxPreambleBytes
  <2>1. m \in 1..(k - 1) /\ k - 1 \in m..Len(lines) /\ m \in 0..Len(lines)
    BY <1>1, <1>3
  <2>2. BytesOf(lines)[m] <= BytesOf(lines)[k - 1]
    BY <2>1, BytesGrow
  <2>3. BytesOf(lines)[m] \in Nat /\ BytesOf(lines)[k - 1] \in Nat
    BY <1>1, <2>1, BytesSum DEF Sums
  <2> QED
    BY <1>1, <2>1, <2>2, <2>3 DEF Announces
<1> QED
  BY <1>1, <1>2, <1>3 DEF Announces

LEMMA TurnRight ==
  ASSUME NEW lines \in Seq(Lines), NEW m \in 1..Len(lines), NEW seen,
         seen.kind = "more", SeenRight(lines, m - 1, seen)
  PROVE  SeenRight(lines, m, Turn(seen, lines[m]))
<1> DEFINE line == lines[m]
           remaining == MaxPreambleBytes - seen.bytes
           read == ReadServerLine(line, remaining)
           turn == Turn(seen, line)
<1>1. /\ Before(lines, m - 1) /\ seen.preamble = m - 1 /\ seen.bytes = BytesOf(lines)[m - 1]
      /\ m \in Nat /\ MaxPreambleLines \in Nat /\ MaxPreambleBytes \in Nat
  BY LineFields, LimitsAssumption DEF SeenRight
<1>2. /\ BytesOf(lines)[m] = seen.bytes + line.bytes
      /\ seen.bytes \in Nat /\ line.bytes \in Nat /\ remaining \in Nat
  <2>1. Sums(lines, BytesOf(lines), Len(lines)) /\ Len(lines) \in Nat /\ line.bytes \in Nat
    BY BytesSum, LineFields
  <2>2. m - 1 \in 0..Len(lines)
    BY <1>1, <2>1
  <2>3. seen.bytes \in Nat /\ BytesOf(lines)[m] = seen.bytes + line.bytes
    BY <1>1, <2>1, <2>2 DEF Sums
  <2>4. seen.bytes <= MaxPreambleBytes
    BY <1>1 DEF Before
  <2> QED
    BY <1>1, <2>1, <2>3, <2>4
<1>3. /\ read \in {"partial", "line", "limit"}
      /\ read = "line" => line.lf
      /\ read = "limit" /\ StartsSSH(line) => ~line.lf \/ line.bytes > MaxIdentification
      /\ read = "limit" /\ ~StartsSSH(line) => ~line.lf \/ line.bytes > remaining
  BY <1>2, ReadLine
<1>4. /\ turn.kind \in {"more", "partial", "received", "invalid_identification", "preamble_limit"}
      /\ turn.kind = "more" => /\ read = "line" /\ ~StartsSSH(line)
                               /\ ~(m - 1 >= MaxPreambleLines)
                               /\ ~(seen.bytes + line.bytes > MaxPreambleBytes)
                               /\ turn.preamble = m /\ turn.bytes = seen.bytes + line.bytes
      /\ turn.kind = "received" => Parses(line) /\ turn.preamble = m - 1
      /\ turn.kind = "invalid_identification" =>
           StartsSSH(line) /\ read \in {"limit", "line"} /\ (read = "line" => ~Parses(line))
      /\ turn.kind = "preamble_limit" =>
           /\ ~StartsSSH(line)
           /\ \/ read = "limit"
              \/ m - 1 >= MaxPreambleLines
              \/ seen.bytes + line.bytes > MaxPreambleBytes
  <2>1. /\ read = "partial" => turn = Reading("partial", seen.preamble, seen.bytes)
        /\ read = "limit" =>
             turn = Reading(IF StartsSSH(line) THEN "invalid_identification" ELSE "preamble_limit",
                            seen.preamble, seen.bytes)
        /\ read = "line" /\ StartsSSH(line) =>
             turn = Reading(IF Parses(line) THEN "received" ELSE "invalid_identification",
                            seen.preamble, seen.bytes)
        /\ read = "line" /\ ~StartsSSH(line) => turn = PreambleLine(seen, line)
    BY DEF Turn, Reading
  <2> HIDE DEF line, remaining, read, turn
  <2>2. CASE read = "line" /\ ~StartsSSH(line)
    BY <1>1, <2>1, <2>2 DEF PreambleLine, Reading
  <2>3. CASE ~(read = "line" /\ ~StartsSSH(line))
    BY <1>1, <1>3, <2>1, <2>3 DEF Reading
  <2> QED
    BY <2>2, <2>3
<1> HIDE DEF line, remaining, read, turn
<1>5. ASSUME turn.kind = "more"
      PROVE  Before(lines, m) /\ turn.preamble = m /\ turn.bytes = BytesOf(lines)[m]
  <2>1. \A j \in 1..m : j \in 1..(m - 1) \/ j = m
    BY <1>1
  <2>2. /\ line.lf /\ ~StartsSSH(line)
        /\ m <= MaxPreambleLines /\ BytesOf(lines)[m] <= MaxPreambleBytes
    BY <1>1, <1>2, <1>3, <1>4, <1>5
  <2> QED
    BY <1>1, <1>2, <1>4, <1>5, <2>1, <2>2 DEF Before, line
<1>6. ASSUME turn.kind = "received"
      PROVE  m > 0 /\ Announces(lines, m) /\ turn.preamble = m - 1
  BY <1>1, <1>4, <1>6 DEF Before, Announces, Parses, line
<1>7. ASSUME turn.kind = "invalid_identification", NEW k \in DOMAIN lines, Announces(lines, k)
      PROVE  FALSE
  <2>1. k \in 1..Len(lines)
    BY LineFields
  <2>2. k = m
    BY <1>1, <1>4, <1>7, <2>1, NoOther DEF line
  <2>3. /\ line.lf /\ line.bytes <= MaxIdentification /\ Parses(line)
        /\ MaxIdentification \in Nat
    BY <1>7, <2>2, LimitsAssumption DEF Announces, Parses, line
  <2> QED
    BY <1>2, <1>3, <1>4, <1>7, <2>3
<1>8. ASSUME turn.kind = "preamble_limit", NEW k \in DOMAIN lines, Announces(lines, k)
      PROVE  FALSE
  <2>1. k \in 1..Len(lines)
    BY LineFields
  <2>2. /\ line.lf /\ m <= MaxPreambleLines /\ BytesOf(lines)[m] <= MaxPreambleBytes
    BY <1>1, <1>4, <1>8, <2>1, NoOther DEF line
  <2> QED
    BY <1>1, <1>2, <1>3, <1>4, <1>8, <2>2 DEF remaining
<1> QED
  BY <1>5, <1>6, <1>7, <1>8 DEF SeenRight, Unannounced, turn, line

LEMMA SameTurn ==
  ASSUME NEW seen, NEW line
  PROVE  SSH!Turn(seen, line) = Turn(seen, line)
BY Zenon DEF SSH!Turn, Turn, SSH!ReadServerLine, ReadServerLine, SSH!AfterByte, AfterByte,
             SSH!StartsSSH, StartsSSH, SSH!Prefix, Prefix, SSH!Parses, Parses, SSH!PreambleLine,
             PreambleLine, SSH!Reading, Reading

\* Evidence that says of the lines what Announces does.
ByTheBook(e) ==
  /\ e.status = "confirmed" =>
       /\ Announces(local.stream, local.taken)
       /\ e.found = {local.stream[local.taken]}
       /\ e.kept = [preamble |-> local.taken - 1, sent |-> TRUE]
  /\ e.reason \in {"invalid_identification", "preamble_limit"} => Unannounced(local.stream)

BookInv ==
  /\ local.stream \in Seq(Lines) /\ local.taken \in 0..Len(local.stream)
  /\ SeenRight(local.stream, local.taken, local.seen)
  /\ phase \in {"start", "entered", "dial", "exchange", "receive"} => local.evidence = {}
  /\ \A e \in local.evidence : ByTheBook(e)
  /\ Returned => \A e \in result.evidence : ByTheBook(e)

LEMMA NothingSeen ==
  ASSUME NEW lines \in Seq(Lines)
  PROVE  0 \in 0..Len(lines) /\ SeenRight(lines, 0, SSH!NothingRead)
<1>1. BytesOf(lines)[0] = 0 /\ Len(lines) \in Nat
  BY BytesSum, LineFields DEF Sums
<1> QED
  BY <1>1, LimitsAssumption DEF SeenRight, Before, SSH!NothingRead, SSH!Reading

LEMMA BookSteps ==
  ASSUME SSHInv, BookInv, SSH!Observe
  PROVE  BookInv'
<1>1. ASSUME local'.stream = local.stream, local'.taken = local.taken, local'.seen = local.seen,
             phase' \in {"start", "entered", "dial", "exchange", "receive"} => local'.evidence = {},
             \A e \in local'.evidence : ByTheBook(e),
             Returned' => \A e \in result'.evidence : ByTheBook(e)
      PROVE  BookInv'
  BY <1>1 DEF BookInv, ByTheBook
<1>2. ASSUME UNCHANGED local,
             phase' \in {"start", "entered", "dial", "exchange", "receive"} => local.evidence = {},
             Returned' => \A e \in result'.evidence : ByTheBook(e)
      PROVE  BookInv'
  BY <1>1, <1>2 DEF BookInv, Returned
<1>3. ASSUME NEW code, SSH!Fail(code) PROVE BookInv'
  BY <1>2, <1>3 DEF SSH!Fail, SSH!Return
<1>4. CASE SSH!Connect
  <2>1. CASE SSH!Normalize \/ SSH!Enter \/ SSH!ReportDial
    BY <1>2, <1>3, <2>1 DEF SSH!Normalize, SSH!Enter, SSH!ReportDial, SSH!GoTo, BookInv, Returned
  <2>2. CASE SSH!DialGivesUp
    BY <1>1, <2>2 DEF SSH!DialGivesUp, SSH!DialReturns, SSHInv, SSHFields, BookInv, Returned
  <2> QED
    BY <1>4, <2>1, <2>2 DEF SSH!Connect
<1>5. CASE SSH!DialFails
  BY <1>1, <1>5 DEF SSH!DialFails, SSH!DialReturns, SSHInv, SSHFields, BookInv, Returned
<1>6. ASSUME NEW e, ByTheBook(e), phase' = "commit",
             local' = [local EXCEPT !.conn = local'.conn, !.cause = local'.cause,
             !.evidence = {e}]
      PROVE  BookInv'
  <2>1. /\ local'.stream = local.stream /\ local'.taken = local.taken /\ local'.seen = local.seen
        /\ local'.evidence = {e}
    BY <1>6 DEF SSHInv, SSHFields
  <2> QED
    BY <1>1, <1>6, <2>1 DEF Returned
<1>7. ASSUME NEW cause, NEW e, SSH!Exchanged(cause, e), ByTheBook(e) PROVE BookInv'
  <2>1. /\ phase' = "commit"
        /\ local' = [local EXCEPT !.conn = "none", !.cause = cause, !.evidence = {e}]
    BY <1>7 DEF SSH!Exchanged
  <2>2. local'.conn = "none" /\ local'.cause = cause
    BY <2>1 DEF SSHInv, SSHFields
  <2> QED
    BY <1>6, <1>7, <2>1, <2>2
<1>8. \A reason, kept : reason \notin {"invalid_identification", "preamble_limit"}
        => ByTheBook(SSH!Unconfirmed(reason, kept))
  BY DEF SSH!Unconfirmed, ByTheBook
<1>9. CASE SSH!Dialled
  <2>1. CASE SSH!Fail("tcp_failure")
    BY <1>3, <2>1
  <2>2. CASE local' = [local EXCEPT !.evidence = {SSH!Unconfirmed("exchange_failure",
  local.kept)}]
             /\ phase' = "commit"
    <3>1. local'.conn = local.conn /\ local'.cause = local.cause
      BY <2>2 DEF SSHInv, SSHFields
    <3>2. local' = [local EXCEPT !.conn = local'.conn, !.cause = local'.cause,
                                 !.evidence = {SSH!Unconfirmed("exchange_failure", local.kept)}]
      BY <2>2, <3>1 DEF SSHInv, SSHFields
    <3> QED
      BY <1>6, <1>8, <2>2, <3>2
  <2>3. CASE local' = [local EXCEPT !.conn = "open"] /\ phase' = "exchange" /\ phase = "dial"
    BY <1>1, <2>3 DEF SSHInv, SSHFields, BookInv, Returned
  <2> QED
    BY <1>9, <2>1, <2>2, <2>3 DEF SSH!Dialled
<1>10. CASE SSH!ConnectionDeadline \/ SSH!Interrupt
  <2>1. local' = [local EXCEPT !.conn = "expired"] /\ UNCHANGED <<phase, result>>
    BY <1>10 DEF SSH!ConnectionDeadline, SSH!Interrupt, SSH!Expire
  <2> QED
    BY <1>1, <2>1 DEF SSHInv, SSHFields, BookInv, Returned
<1>11. CASE SSH!AttemptEnds
  BY <1>2, <1>11 DEF SSH!AttemptEnds, BookInv, Returned
<1>12. CASE SSH!CheckCancelled
  BY <1>2, <1>3, <1>12 DEF SSH!CheckCancelled, SSH!GoTo, Returned
<1>13. CASE SSH!Settle
  <2>1. PICK e \in local.evidence :
          SSH!Succeed(IF SSH!Ended(parent) \/ SSH!Ended(attempt)
                      THEN SSH!Unconfirmed("timeout", e.kept) ELSE e)
    BY <1>13 DEF SSH!Settle
  <2> DEFINE f == IF SSH!Ended(parent) \/ SSH!Ended(attempt)
                  THEN SSH!Unconfirmed("timeout", e.kept) ELSE e
  <2>2. ByTheBook(f)
    BY <1>8 DEF BookInv
  <2>3. UNCHANGED local /\ phase' = "returned" /\ result'.evidence = {f}
    BY <2>1 DEF SSH!Succeed, SSH!Return
  <2> HIDE DEF f
  <2> QED
    BY <1>2, <2>2, <2>3
<1>14. CASE SSH!SendFails \/ SSH!SendExpires \/ SSH!ReadFails \/ SSH!ReadExpires
  BY <1>7, <1>8, <1>14 DEF SSH!SendFails, SSH!SendExpires, SSH!ReadFails, SSH!ReadExpires,
                           SSH!Peer
<1>15. CASE SSH!Send
  <2>1. PICK stream \in Streams :
          local' = [local EXCEPT !.kept = SSH!Kept(0, TRUE), !.stream = stream]
    BY <1>15 DEF SSH!Send
  <2>2. /\ local'.stream = stream /\ local'.taken = 0 /\ local'.seen = SSH!NothingRead
        /\ local'.evidence = {} /\ phase' = "receive"
    BY <1>15, <2>1 DEF SSH!Send, SSHInv, SSHFields, BookInv
  <2>3. stream \in Seq(Lines)
    BY PeersAssumption
  <2> QED
    BY <2>2, <2>3, NothingSeen DEF BookInv, Returned
<1>16. CASE SSH!NextLine
  <2> DEFINE lines == local.stream
             m == local.taken + 1
  <2>1. /\ phase = "receive" /\ UNCHANGED <<phase, result>> /\ local.seen.kind = "more"
        /\ local.taken < Len(lines)
        /\ local' = [local EXCEPT !.seen = SSH!Turn(local.seen, lines[m]), !.taken = m]
    BY <1>16 DEF SSH!NextLine
  <2>2. /\ local'.stream = lines /\ local'.taken = m /\ local'.evidence = local.evidence
        /\ local'.seen = Turn(local.seen, lines[m])
    BY <2>1, SameTurn DEF SSHInv, SSHFields
  <2>3. lines \in Seq(Lines) /\ m \in 1..Len(lines) /\ m - 1 = local.taken /\ m \in 0..Len(lines)
    BY <2>1, LineFields DEF BookInv
  <2>4. SeenRight(lines, m, Turn(local.seen, lines[m]))
    BY <2>1, <2>3, TurnRight DEF BookInv
  <2> HIDE DEF lines, m
  <2> QED
    BY <2>1, <2>2, <2>3, <2>4 DEF BookInv, Returned
<1>17. CASE SSH!Identified
  <2>1. CASE local.seen.kind = "received"
    <3> DEFINE e == SSH!Confirmed(local.stream[local.taken], SSH!Passed)
    <3>1. SSH!Exchanged("peer", e)
      BY <1>17, <2>1 DEF SSH!Identified
    <3>2. ByTheBook(e)
      BY <2>1 DEF BookInv, SeenRight, ByTheBook, SSH!Confirmed, SSH!Passed, SSH!Kept
    <3> QED
      BY <1>7, <3>1, <3>2
  <2>2. CASE local.seen.kind # "received"
    <3> DEFINE e == SSH!Unconfirmed(local.seen.kind, SSH!Passed)
    <3>1. /\ SSH!Exchanged("peer", e)
          /\ local.seen.kind \in {"invalid_identification", "preamble_limit"}
      BY <1>17, <2>2 DEF SSH!Identified
    <3>2. ByTheBook(e)
      BY <3>1 DEF BookInv, SeenRight, ByTheBook, SSH!Unconfirmed
    <3> QED
      BY <1>7, <3>1, <3>2
  <2> QED
    BY <2>1, <2>2
<1> QED
  BY <1>4, <1>5, <1>9, <1>10, <1>11, <1>12, <1>13, <1>14, <1>15, <1>16, <1>17
     DEF SSH!Observe, SSH!DirectStep, SSH!CommitEvidence

LEMMA NextBook ==
  IInv /\ (task = "ssh-observe" => BookInv) /\ [Next]_clVars => (task = "ssh-observe" => BookInv)'
<1> SUFFICES ASSUME IInv, task = "ssh-observe" => BookInv, [Next]_clVars, task' = "ssh-observe"
             PROVE  BookInv'
  OBVIOUS
<1> USE DEF BookInv, ByTheBook, Returned
<1>1. CASE Observe
  BY <1>1, BookSteps DEF Observe, Runs, run, IInv, LocalInv
<1>2. CASE CallerEnds /\ UNCHANGED run
  BY <1>2 DEF CallerEnds, run
<1>3. CASE UseInventory
  BY <1>3 DEF UseInventory
<1>4. CASE EmitResult \/ UNCHANGED clVars
  BY <1>4 DEF EmitResult, vars, clVars, run
<1> QED
  BY <1>1, <1>2, <1>3, <1>4 DEF Next, Done

\* An identification is confirmed only if it is the first line with the prefix and it
\* and the lines before it are within all limits, and a server whose lines are refused
\* had sent no such line: for streams of any length and limits of any size.
THEOREM IdentificationIsByTheBook == Spec => []IdentificationByTheBook
<1> DEFINE Book == task = "ssh-observe" => BookInv
<1>1. Init => Book
  <2> SUFFICES ASSUME Init, task = "ssh-observe" PROVE BookInv
    OBVIOUS
  <2>1. PICK l \in SSH!DirectLocals(SSH!Kept(0, FALSE)) :
          local = [input |-> l.input, conn |-> l.conn, cause |-> l.cause, evidence |-> l.evidence,
                   kept |-> l.kept, seen |-> SSH!NothingRead, taken |-> 0, stream |-> <<>>]
    BY DEF Init, Start, LocalsOf, SSH!Locals
  <2>2. <<>> \in Seq(Lines) /\ local.evidence = {} /\ phase = "start"
    <3>1. <<>> \in Seq(Lines)
      OBVIOUS
    <3>2. l.evidence = {}
      BY <2>1 DEF SSH!DirectLocals
    <3>3. local.evidence = l.evidence
      BY <2>1
    <3>4. phase = "start"
      BY DEF Init, Start
    <3> QED
      BY <3>1, <3>2, <3>3, <3>4
  <2> QED
    BY <2>1, <2>2, NothingSeen DEF BookInv, Returned
<1>2. Book => IdentificationByTheBook
  BY DEF BookInv, ByTheBook, IdentificationByTheBook, Concluded, Unannounced
<1>3. IInv /\ Book /\ [Next]_clVars => Book'
  BY NextBook
<1> HIDE DEF Book
<1> QED
  BY <1>1, <1>2, <1>3, InvariantHolds, PTL DEF Spec
==============================================================================
