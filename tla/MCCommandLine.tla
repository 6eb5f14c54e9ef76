--------------------------- MODULE MCCommandLine ---------------------------
(***************************************************************************)
(* The commands, their arguments and what the peers may send, for TLC.     *)
(***************************************************************************)
EXTENDS CommandLineProperties, TLC

AllCommands == Probes \cup {"dns-observe current"}

-----------------------------------------------------------------------------
Line(bytes, like, lf, cr, form) ==
  [bytes |-> bytes, like |-> like, lf |-> lf, cr |-> cr, form |-> form]

\* A short line, one that agrees with part of the prefix, one that is longer than
\* the prefix, and one that the server never ends.
PreambleLines ==
  {Line(1, 0, TRUE, FALSE, "malformed"), Line(2, 1, TRUE, FALSE, "malformed"),
   Line(5, 3, TRUE, TRUE, "malformed"), Line(1, 0, FALSE, FALSE, "malformed")}

\* With a MaxIdentification of 8: at the limit, over it, without the carriage
\* return, malformed, and never ended.
IdentificationLines ==
  {Line(8, 4, TRUE, TRUE, "2.0"), Line(9, 4, TRUE, TRUE, "2.0"), Line(8, 4, TRUE, FALSE, "2.0"),
   Line(7, 4, TRUE, FALSE, "1.99"), Line(8, 4, TRUE, TRUE, "1.99"),
   Line(8, 4, TRUE, TRUE, "malformed"), Line(6, 4, FALSE, FALSE, "2.0")}

SomeStreams ==
  LET Before == UNION {[1..n -> PreambleLines] : n \in 0..3}
  IN {<<>>} \cup {before \o <<line>> : before \in Before, line \in IdentificationLines}

\* And one at the limit only as long as its missing carriage return is not counted.
AnyStreams == SomeStreams \cup {<<Line(8, 4, TRUE, FALSE, "1.99")>>}

-----------------------------------------------------------------------------
SomeInventories ==
  LET Servers == {"usable", "rejected", "other_port", "malformed"}
  IN UNION {[1..n -> Servers] : n \in 0..2}

Alias == [name |-> "h", type |-> "CNAME", target |-> "b"]
Address(name) == [name |-> name, type |-> "A", target |-> "none"]

\* An address behind an alias, no such name with the SOA's mailbox, a cut message,
\* and one that cannot be decoded.
SomeResponses ==
  LET plain == [identified |-> TRUE, rcode |-> "noerror", truncated |-> FALSE, damaged |-> FALSE,
                answers |-> <<Alias, Address("b")>>, soa |-> {}, ns |-> FALSE, others |-> 0]
  IN {plain,
      [plain EXCEPT !.rcode = "nxdomain", !.answers = <<>>, !.soa = {"mailbox"}],
      [plain EXCEPT !.answers = <<Alias>>, !.truncated = TRUE, !.damaged = TRUE],
      [plain EXCEPT !.damaged = TRUE]}

Arguments(hostnames) ==
  {[hostname |-> name, type |-> "A", transport |-> transport,
    resolver |-> IF transport = "doh" THEN "doh" ELSE "wire"] :
     name \in hostnames, transport \in {"udp", "tcp", "doh"}}

SoundNames == {"valid", "invalid"}
SoundInputs == Arguments(SoundNames)
AnyName == SoundNames \cup {"unstable"}
AnyInputs == Arguments(AnyName)
=============================================================================
