--------------------- MODULE BrowserPlaceholderInvariant ---------------------
(***************************************************************************)
(* Why the safety properties of browserplaceholder.Run hold: four          *)
(* inductive strengthenings.                                               *)
(***************************************************************************)
EXTENDS BrowserPlaceholderProperties

\* Where Run stands, what the server goroutine does and whether its one value
\* is still in the channel: Run leaves the middle phases only by receiving it.
ServerInv ==
  /\ phase \in {"start", "listen"} => server = "none"
  /\ phase \notin {"start", "listen", "returned"} => server # "none"
  /\ serveErrors # "empty" => server = "ended"
  /\ phase \notin {"start", "listen", "page", "commit", "returned"} =>
       server # "ended" \/ serveErrors # "empty"
  /\ phase \in {"page", "commit"} => server = "ended"
  /\ phase = "returned" => server \in {"none", "ended"}

\* Everything on the way from the handler to the completed result, the channel,
\* closeServer and the commit, comes from a request whose page the response took.
RequestedInv ==
  \/ Accepted # {}
  \/ /\ pageRequests = "empty"
     /\ afterClose # "page"
     /\ phase \notin {"page", "commit"}
     /\ result.status # "completed"

\* Where the attempt stands in every phase.
AttemptInv ==
  /\ phase \in {"start", "listen", "serve", "open", "launch", "launched", "commit_open"} =>
       attempt = "none"
  /\ phase = "opened" => attempt \in {"opened", "failed", "cancelled", "invalid"}
  /\ phase \in {"check_server", "select", "page", "commit"} => attempt \in {"opened", "failed"}
  /\ phase = "notify" => attempt = "failed"
  /\ phase # "returned" => (fallback = "notified" => attempt = "failed")
  /\ phase \in {"select", "page", "commit"} =>
       (attempt = "failed" => fallback = "notified")
  /\ phase \in {"start", "listen", "serve", "open", "launch", "launched", "commit_open",
                "opened", "check_server", "notify"} => fallback = "none"

\* Why the server is being closed.
ClosingInv ==
  phase = "closing" =>
    \/ /\ afterClose = "page" /\ attempt \in {"opened", "failed"}
       /\ attempt = "failed" => fallback = "notified"
    \/ afterClose = "done" /\ attempt \in {"opened", "failed"} /\ runErr # "active"
    \/ afterClose = "invalid_opener_evidence" /\ fallback = "none"
    \/ afterClose = "cancelled" /\ attempt \in {"opened", "failed", "cancelled"}
    \/ afterClose = "placeholder_timeout" /\ attempt \in {"opened", "failed"}
    \/ /\ afterClose = "fallback_notification_failure"
       /\ attempt = "failed" /\ fallback = "none"

\* Which context ended, while the server is being closed and afterwards.
CauseInv ==
  /\ runErr = "canceled" => callerErr = "canceled"
  /\ phase = "start" => runErr = "active"
  /\ afterClose = "done" => runErr # "active"
  /\ afterClose = "cancelled" => runErr = "canceled"
  /\ afterClose = "placeholder_timeout" => runErr = "deadline"
  /\ phase # "returned" => result.status = "none" /\ result.reason = "none"
  /\ VerdictHasCause

\* When no opener claims a cancellation of its own and the caller's deadline has
\* not passed before the start.
ResultInv ==
  /\ phase = "start" => callerErr # "deadline"
  /\ phase = "start" => openErr = "active"
  /\ openErr = "canceled" => runErr = "canceled"
  /\ attempt = "cancelled" => runErr = "canceled"
  /\ AttemptInv
  /\ ClosingInv
  /\ EmittedResultValid

\* The whole strengthening; its last part needs an opener that reports a
\* cancellation only of its context, and a deadline that has not passed yet.
IInv ==
  /\ ServerInv
  /\ RequestedInv
  /\ "cancelled" \notin InjectedOutcomes /\ "deadline" \notin EndedAtStart => ResultInv
=============================================================================
