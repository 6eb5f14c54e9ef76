--------------------- MODULE BrowserPlaceholderProperties ---------------------
(***************************************************************************)
(* The properties of browserplaceholder.Run.  Validate is the package's    *)
(* own contract, translated on its own.                                    *)
(***************************************************************************)
EXTENDS BrowserPlaceholder

Returned == phase = "returned"

\* validateTerminalShape.
ValidShape ==
  \/ /\ result.status = "completed"
     /\ result.reason = "none"
     /\ result.url = "bound"
     /\ result.attempt # "none"
     /\ result.page = "requested"
     /\ result.attempt = "failed" => result.fallback = "notified"
     /\ result.attempt = "opened" => result.fallback = "none"
  \/ /\ result.status = "stopped"
     /\ result.page = "none"
     /\ \/ /\ result.reason \in {"listener_failure", "invalid_fallback_notifier"}
           /\ result.url = "none" /\ result.attempt = "none" /\ result.fallback = "none"
        \/ /\ result.reason = "placeholder_timeout"
           /\ result.url = "bound" /\ result.attempt # "none"
        \/ /\ result.reason = "fallback_notification_failure"
           /\ result.url = "bound" /\ result.attempt = "failed" /\ result.fallback = "none"
        \/ result.reason = "server_failure" /\ result.url = "bound"
        \/ /\ result.reason = "invalid_opener_evidence"
           /\ result.url = "bound" /\ result.attempt = "none" /\ result.fallback = "none"
  \/ result.status = "cancelled" /\ result.reason = "cancelled" /\ result.page = "none"

\* Validate: the shape, the opener evidence, the notification.
ValidResult ==
  /\ ValidShape
  /\ result.attempt # "none" => result.url = "bound" /\ result.attempt # "invalid"
  /\ result.attempt = "cancelled" => result.status = "cancelled"
  /\ result.fallback = "notified" => result.attempt = "failed"

\* The Result that Run returns satisfies the package's Validate, however the
\* browser, the requests, the server, the deadlines and the user interleave.
EmittedResultValid == Returned => ValidResult

\* Once Run has returned nothing listens on the loopback address any more, and
\* the server goroutine is gone, whichever of its returns Run took.
ListenerReleased == Returned => server \in {"none", "ended"}

\* The requests whose page the response took without an error.
Accepted == {r \in Requests : handler[r] \in {"delivered", "sent", "cut"}}

\* A run is completed only if a client asked for exactly the placeholder URL and the
\* response took the whole page.  Not that the client has it: Run may close the
\* server before net/http sends a byte.
CompletedMeansRequested == Returned /\ result.status = "completed" => Accepted # {}

\* Serve sends one value, and five places of Run receive it: neither the
\* select nor closeServer ever waits for a value that was received before.
NeverWaitsInVain ==
  phase \in {"select", "closing"} => server # "ended" \/ serveErrors # "empty"

\* The verdict names what ended the run.  A completed one had a live context until
\* the page was committed, however late the request came; a cancelled one was
\* cancelled by the user, never by a deadline or the launch; a timeout is a deadline
\* that passed.
VerdictHasCause ==
  /\ result.status = "completed" => runErr = "active"
  /\ result.status = "cancelled" => callerErr = "canceled"
  /\ result.reason = "placeholder_timeout" => "deadline" \in {callerErr, runErr}

\* Run returns although no request comes and the launch command hangs.
Terminates == <>Returned

\* No handler goroutine is left behind on the channel, even when Run returns
\* without receiving from it: every response comes to its end.
HandlersFinish ==
  \A r \in Requests : handler[r] = "received" ~> handler[r] \in {"sent", "cut", "dropped"}
=============================================================================
