------------------------ MODULE CommandLineProperties ------------------------
(***************************************************************************)
(* What must hold of one run of the program, whichever command it is.      *)
(***************************************************************************)
EXTENDS CommandLine

\* README.md: "Each command prints one versioned JSON evidence document."  The
\* Result of every probe passes that probe's own Validate; one that does not is
\* refused, and nothing is printed.
EachCommandPrintsOneDocument == output # "refused"

-----------------------------------------------------------------------------
Unconfirmed ==
  /\ task \in {"tls-observe", "ssh-observe"}
  /\ \E e \in result.evidence : e.status = "unconfirmed"

Verdict ==
  IF ~Concluded THEN "none"
  ELSE IF result.outcome = "succeeded" THEN IF Unconfirmed THEN "unconfirmed" ELSE "confirmed"
  ELSE result.outcome

Contract == INSTANCE ProbeContract WITH caller <- parent, verdict <- Verdict

\* Every command keeps the contract: nothing is confirmed for a caller whose
\* context has ended, only the caller's cancellation is reported as one, and the
\* exit code is that of the verdict.
ImplementsContract == Contract!ContractSpec

-----------------------------------------------------------------------------
\* A dial, read, handshake or lookup came back because a context of the program
\* ended, or because it expired the connection itself for that.
EndedItself ==
  IF task = "dns-observe" THEN \E e \in local.error : e.cause = "own" ELSE local.cause = "own"

TimeCodes == {"cancelled", "timeout", "tcp_timeout", "tls_timeout", "http_timeout"}

\* What the program broke off itself is reported as a timeout or a cancellation,
\* never as a refusal, a reset or another failure of the network or the server.
OwnEndNotBlamed ==
  Concluded /\ EndedItself =>
    \/ result.code \in TimeCodes
    \/ Unconfirmed /\ \A e \in result.evidence : e.reason = "timeout"

-----------------------------------------------------------------------------
\* How many bytes the first n lines have together.
BytesOf(lines) ==
  LET bytes[n \in 0..Len(lines)] == IF n = 0 THEN 0 ELSE bytes[n - 1] + lines[n].bytes
  IN bytes

\* What a server may send before its identification, and the identification
\* itself, said of all the lines at once; Turn decides it line by line and byte
\* by byte.
Announces(lines, k) ==
  /\ StartsSSH(lines[k])
  /\ lines[k].lf
  /\ lines[k].bytes <= MaxIdentification
  /\ lines[k].form = "1.99" \/ (lines[k].form = "2.0" /\ lines[k].cr)
  /\ \A j \in 1..(k - 1) : lines[j].lf /\ ~StartsSSH(lines[j])
  /\ k - 1 <= MaxPreambleLines
  /\ BytesOf(lines)[k - 1] <= MaxPreambleBytes

\* An identification is confirmed only if it is the first line with the prefix,
\* well-formed and within all limits, and then with the right number of lines
\* before it; a server whose lines are refused had sent no such line.
IdentificationByTheBook ==
  Concluded /\ task = "ssh-observe" =>
    \A e \in result.evidence :
      /\ e.status = "confirmed" =>
           /\ Announces(local.stream, local.taken)
           /\ e.found = {local.stream[local.taken]}
           /\ e.kept = [preamble |-> local.taken - 1, sent |-> TRUE]
      /\ e.reason \in {"invalid_identification", "preamble_limit"} =>
           \A k \in DOMAIN local.stream : ~Announces(local.stream, k)

-----------------------------------------------------------------------------
\* Once the user interrupts it the program ends, however silent the peer is.
InterruptEndsCommand == parent = "canceled" /\ exit = {} ~> exit # {}

InventoryCancelled ==
  task = "resolver-inventory" /\ command # task /\ result.outcome = "cancelled"

\* A name that is refused is refused before any context is looked at.
CommandCancelled ==
  IF Concluded /\ task = "dns-observe"
  THEN local.input.hostname = "valid" => result.code = "cancelled"
  ELSE FALSE

\* The comment in resolverConfigForProvider: a cancellation during the inventory
\* outranks the failure to find the current resolver, which it causes.
CancelledInventoryCancels == InventoryCancelled ~> CommandCancelled
=============================================================================
