--------------------------- MODULE SSHObservation ---------------------------
(***************************************************************************)
(* internal/sshobservation: one exchange of SSH identifications.           *)
(*                                                                         *)
(* The server's lines are chosen when the client's line was sent; they     *)
(* arrive one by one: taken of them have, and seen is what the loop made   *)
(* of those.  kept holds how many preamble lines were passed and whether   *)
(* the client's line was sent.                                             *)
(***************************************************************************)
EXTENDS DirectProbe, SSHIdentification

CONSTANT Streams  \* the sequences of lines a server may send

Kept(preamble, sent) == [preamble |-> preamble, sent |-> sent]

Locals ==
  {[input |-> l.input, conn |-> l.conn, cause |-> l.cause, evidence |-> l.evidence,
    kept |-> l.kept, seen |-> NothingRead, taken |-> 0, stream |-> <<>>] : l \in DirectLocals(Kept(0, FALSE))}

Init == Start(Locals)

Reasons == {"invalid_identification", "timeout", "connection_closed", "connection_reset",
            "preamble_limit", "exchange_failure"}

-----------------------------------------------------------------------------
\* writeAll; a write error may come with the last byte already written.
Send ==
  /\ phase = "exchange"
  /\ local.conn = "open"
  /\ phase' = "receive"
  /\ \E stream \in Streams :
       local' = [local EXCEPT !.kept = Kept(0, TRUE), !.stream = stream]
  /\ UNCHANGED <<contexts, result>>

Peer == {"connection_closed", "connection_reset", "exchange_failure"}

SendFails ==
  /\ phase = "exchange"
  /\ \E sent \in BOOLEAN, reason \in Peer : Exchanged("peer", Unconfirmed(reason, Kept(0, sent)))

SendExpires ==
  /\ phase = "exchange"
  /\ local.conn = "expired"
  /\ \E sent \in BOOLEAN : Exchanged("own", Unconfirmed("timeout", Kept(0, sent)))

Passed == Kept(local.seen.preamble, TRUE)

NextLine ==
  /\ phase = "receive"
  /\ local.conn = "open"
  /\ local.seen.kind = "more"
  /\ local.taken < Len(local.stream)
  /\ local' = [local EXCEPT !.seen = Turn(@, local.stream[local.taken + 1]), !.taken = @ + 1]
  /\ UNCHANGED <<contexts, phase, result>>

\* The loop returns with a verdict on the lines.
Identified ==
  /\ phase = "receive"
  /\ \/ /\ local.seen.kind = "received"
        /\ Exchanged("peer", Confirmed(local.stream[local.taken], Passed))
     \/ /\ local.seen.kind \in {"invalid_identification", "preamble_limit"}
        /\ Exchanged("peer", Unconfirmed(local.seen.kind, Passed))

ReadFails ==
  /\ phase = "receive"
  /\ local.seen.kind \in {"more", "partial"}
  /\ \E reason \in Peer : Exchanged("peer", Unconfirmed(reason, Passed))

\* A read on the expired connection.
ReadExpires ==
  /\ phase = "receive"
  /\ local.conn = "expired"
  /\ local.seen.kind \in {"more", "partial"}
  /\ Exchanged("own", Unconfirmed("timeout", Passed))

Observe ==
  \/ DirectStep \/ Send \/ SendFails \/ SendExpires \/ NextLine
  \/ Identified \/ ReadFails \/ ReadExpires

Progress == DirectProgress \/ SendExpires \/ Identified \/ ReadExpires
Spec == Init /\ [][Observe \/ CallerEnds]_vars /\ WF_vars(Progress)

\* sshobservation.Validate.
ValidResult(r) ==
  /\ ValidDirect(r, Reasons)
  /\ \A e \in r.evidence :
       /\ e.kept.preamble <= MaxPreambleLines
       /\ e.status = "confirmed" =>
            e.kept.sent /\ \A line \in e.found : Parses(Reported(line))
=============================================================================
