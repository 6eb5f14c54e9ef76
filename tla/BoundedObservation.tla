------------------------- MODULE BoundedObservation -------------------------
(***************************************************************************)
(* What one call of Observe of webpath, webrecheck and dnshttpspath        *)
(* promises: observations are made one at a time, under the caller's       *)
(* context and a deadline of the call's own, and the call reports one      *)
(* verdict, which the contexts and the recorded evidence support.          *)
(*                                                                         *)
(* How many observations there are, in which order and about what, is left *)
(* to the three packages.  A look at the contexts is two steps, because    *)
(* terminalContext reads the caller's twice: whether it was cancelled, and *)
(* then whether it ended at all.                                           *)
(***************************************************************************)
CONSTANTS
  CallerErrors,  \* how the caller's context may end
  AnyAdapter,    \* TRUE if an observation may be cancelled although no context is
  KeepsLate      \* TRUE if a success that came after the end of a context is recorded

VARIABLES
  caller,    \* the error of the caller's context, "active" while it is live
  own,       \* the error of the context of the call, its child
  glance,    \* the first read of the look under way, "unread" while there is none
  evidence,  \* what the recorded observations came to, by place in the Result
  verdict    \* what the Result says, "none" before the call returns

vars == <<caller, own, glance, evidence, verdict>>

Outcomes == {"succeeded", "failed", "cancelled"}

Verdicts == {"refused", "completed", "stopped", "timeout", "cancelled", "broken"}

Live == caller = "active" /\ own = "active"

\* A cancelled observation is the last one.
Cancelled == \E place \in DOMAIN evidence : evidence[place] = "cancelled"

Init ==
  /\ caller \in {"active"} \cup CallerErrors
  /\ own = "active"
  /\ glance = "unread"
  /\ DOMAIN evidence = {}
  /\ verdict = "none"

CallerEnds ==
  /\ caller = "active"
  /\ caller' \in CallerErrors
  /\ UNCHANGED <<own, glance, evidence, verdict>>

\* By its deadline, or with the caller's context.
OwnEnds ==
  /\ own = "active"
  /\ own' \in {"deadline", caller} \ {"active"}
  /\ UNCHANGED <<caller, glance, evidence, verdict>>

Look ==
  /\ verdict = "none"
  /\ glance = "unread"
  /\ glance' = IF caller = "canceled" THEN "canceled" ELSE "not_canceled"
  /\ UNCHANGED <<caller, own, evidence, verdict>>

\* An observation takes a new place in the evidence; what is there stays.
Record(outcome) ==
  /\ ~Cancelled
  /\ outcome = "succeeded" => Live \/ KeepsLate
  /\ outcome = "cancelled" => AnyAdapter \/ own = "canceled"
  /\ \E place \in DOMAIN evidence' \ DOMAIN evidence :
       evidence' = [p \in DOMAIN evidence \cup {place} |->
                      IF p = place THEN outcome ELSE evidence[p]]

\* Nothing or one more observation is recorded, and a look is over.
Evidenced ==
  /\ UNCHANGED evidence \/ \E outcome \in Outcomes : Record(outcome)
  /\ glance' = "unread"

Observe ==
  /\ verdict = "none"
  /\ Evidenced
  /\ UNCHANGED <<caller, own, verdict>>

\* A conclusion needs live contexts, a timeout an ended one whose look began before
\* any cancellation of the caller, a cancellation one that was seen.
Supported(reported) ==
  /\ reported = "refused" => DOMAIN evidence' = {}
  /\ reported = "completed" => DOMAIN evidence' # {}
  /\ reported \in {"completed", "stopped"} => Live
  /\ reported \in {"completed", "stopped", "broken"} => ~Cancelled'
  /\ reported = "timeout" =>
       glance = "not_canceled" /\ (caller # "active" \/ own = "deadline")
  /\ reported = "cancelled" => caller = "canceled" \/ Cancelled'

\* The call returns, after its last observation or without another one.
Report ==
  /\ verdict = "none"
  /\ Evidenced
  /\ verdict' \in Verdicts
  /\ Supported(verdict')
  /\ UNCHANGED <<caller, own>>

Next == CallerEnds \/ OwnEnds \/ Look \/ Observe \/ Report

Spec == Init /\ [][Next]_vars
=============================================================================
