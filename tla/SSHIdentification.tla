-------------------------- MODULE SSHIdentification --------------------------
(***************************************************************************)
(* internal/sshobservation/identification.go: finding the server's         *)
(* identification among the lines it sends.                                *)
(*                                                                         *)
(* A line is what arrives up to a line feed, or up to the end of what the  *)
(* server sends:                                                           *)
(*   bytes   its length, line feed included                                *)
(*   like    how many of its first bytes agree with "SSH-", at most 4      *)
(*   lf      it ends with a line feed                                      *)
(*   cr      a carriage return stands before the line feed                 *)
(*   form    "2.0" or "1.99" for well-formed fields, "malformed" otherwise *)
(***************************************************************************)
EXTENDS Naturals, Sequences

CONSTANTS
  MaxIdentification,  \* maxIdentificationBytes
  MaxPreambleLines,   \* maxPreambleLines
  MaxPreambleBytes    \* maxPreambleBytes

ASSUME LimitsAssumption ==
  /\ MaxIdentification \in Nat \ {0}
  /\ MaxPreambleLines \in Nat
  /\ MaxPreambleBytes \in Nat

Prefix == 4  \* Len("SSH-")

\* A byte that agrees is no line end, and fields that are well-formed follow "SSH-".
Lines ==
  {line \in [bytes : Nat \ {0}, like : 0..Prefix, lf : BOOLEAN, cr : BOOLEAN,
             form : {"2.0", "1.99", "malformed"}] :
     IF line.lf THEN line.like < line.bytes ELSE line.like <= line.bytes}

StartsSSH(line) == line.like = Prefix

-----------------------------------------------------------------------------
(***************************************************************************)
(* readServerLine, one byte at a time.                                     *)
(***************************************************************************)
\* What the loop says after k bytes, "more" if it reads on.
AfterByte(line, k, remaining) ==
  LET ended == k = line.bytes /\ line.lf
  IN CASE k >= Prefix /\ StartsSSH(line) ->
            IF ended THEN "line" ELSE IF k >= MaxIdentification THEN "limit" ELSE "more"
       [] k < Prefix /\ line.like >= k -> "more"
       [] OTHER ->
            IF k > remaining THEN "limit"
            ELSE IF ended THEN "line"
            ELSE IF k >= remaining THEN "limit" ELSE "more"

\* The first byte that decides, or "partial" when the server sends no more.
ReadServerLine(line, remaining) ==
  LET decisive == {k \in 1..line.bytes : AfterByte(line, k, remaining) # "more"}
      first == CHOOSE k \in decisive : \A j \in decisive : k <= j
  IN IF decisive = {} THEN "partial" ELSE AfterByte(line, first, remaining)

-----------------------------------------------------------------------------
(***************************************************************************)
(* parseIdentificationLine.                                                *)
(***************************************************************************)
Parses(line) ==
  /\ line.lf
  /\ line.bytes <= MaxIdentification
  /\ StartsSSH(line)
  /\ line.form \in {"2.0", "1.99"}
  /\ line.form = "2.0" => line.cr

\* The line Validate parses again: the content with both line-end bytes.
Reported(line) ==
  [line EXCEPT !.bytes = IF line.cr THEN @ ELSE @ + 1, !.cr = TRUE]

-----------------------------------------------------------------------------
(***************************************************************************)
(* The loop of exchangeIdentification, as far as the server's lines go.    *)
(***************************************************************************)
Reading(kind, preamble, bytes) == [kind |-> kind, preamble |-> preamble, bytes |-> bytes]
NothingRead == Reading("more", 0, 0)

\* Mutant: the limit of lines is looked at after the line is counted.
PreambleLineLate(seen, line) ==
  IF seen.preamble > MaxPreambleLines \/ seen.bytes + line.bytes > MaxPreambleBytes
  THEN Reading("preamble_limit", seen.preamble, seen.bytes)
  ELSE Reading("more", seen.preamble + 1, seen.bytes + line.bytes)

PreambleLine(seen, line) ==
  IF seen.preamble >= MaxPreambleLines \/ seen.bytes + line.bytes > MaxPreambleBytes
  THEN Reading("preamble_limit", seen.preamble, seen.bytes)
  ELSE Reading("more", seen.preamble + 1, seen.bytes + line.bytes)

\* One turn of the loop; "more" waits for the next line.
Turn(seen, line) ==
  LET read == ReadServerLine(line, MaxPreambleBytes - seen.bytes)
      kind == CASE read = "limit" ->
                     IF StartsSSH(line) THEN "invalid_identification" ELSE "preamble_limit"
                [] read = "partial" -> "partial"
                [] read = "line" /\ StartsSSH(line) ->
                     IF Parses(line) THEN "received" ELSE "invalid_identification"
                [] OTHER -> "preamble"
  IN IF kind = "preamble" THEN PreambleLine(seen, line)
     ELSE Reading(kind, seen.preamble, seen.bytes)
=============================================================================
