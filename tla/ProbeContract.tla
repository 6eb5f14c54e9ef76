--------------------------- MODULE ProbeContract ---------------------------
(***************************************************************************)
(* What one command promises to whoever ran it, whichever probe or path it *)
(* runs: one verdict, and an exit code that follows from it.               *)
(*                                                                         *)
(*   confirmed    the observation was made while the caller still waited   *)
(*   unconfirmed  the target was reached, no more is known                 *)
(*   failed       there is no observation                                  *)
(*   cancelled    the caller cancelled                                     *)
(***************************************************************************)
CONSTANT CallerErrors

VARIABLES
  caller,   \* the caller's context: "active", or how it ended
  verdict,  \* "none" while the command runs
  exit      \* {} or {the exit code}

vars == <<caller, verdict, exit>>

ContractInit ==
  /\ caller \in {"active"} \cup CallerErrors
  /\ verdict = "none"
  /\ exit = {}

CallerEnds ==
  /\ verdict = "none"
  /\ caller = "active"
  /\ caller' \in CallerErrors
  /\ UNCHANGED <<verdict, exit>>

\* Only a live caller gets a confirmed observation, and only one that cancelled is
\* told that it did; a deadline is a failure.
Conclude(v) ==
  /\ verdict = "none"
  /\ v = "confirmed" => caller = "active"
  /\ v = "cancelled" => caller = "canceled"
  /\ verdict' = v
  /\ UNCHANGED <<caller, exit>>

ExitCodes(v) ==
  CASE v \in {"confirmed", "unconfirmed"} -> {0}
    [] v = "cancelled" -> {130}
    [] OTHER -> {1}

\* A document that cannot be printed makes any verdict a failure.
Exit ==
  /\ verdict # "none"
  /\ exit = {}
  /\ \E code \in ExitCodes(verdict) \cup {1} : exit' = {code}
  /\ UNCHANGED <<caller, verdict>>

ContractNext ==
  \/ CallerEnds
  \/ \E v \in {"confirmed", "unconfirmed", "failed", "cancelled"} : Conclude(v)
  \/ Exit

ContractSpec == ContractInit /\ [][ContractNext]_vars
=============================================================================
