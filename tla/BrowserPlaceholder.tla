------------------------- MODULE BrowserPlaceholder -------------------------
(***************************************************************************)
(* internal/browserplaceholder and internal/platform/browseropener: one    *)
(* call of Run.                                                            *)
(*                                                                         *)
(* Run binds a loopback listener, starts a goroutine that serves the page, *)
(* asks the platform to open the URL, tells the user the URL when that     *)
(* fails, and waits for the first of: a valid page request, the end of the *)
(* server, the end of its context.  Four kinds of goroutine meet here: Run *)
(* itself, the server, one handler per request, and the caller, through    *)
(* two channels of capacity one and a tree of three contexts.              *)
(***************************************************************************)
EXTENDS Naturals

CONSTANTS
  Requests,         \* the HTTP requests that may reach the listener
  CallerErrors,     \* how the caller's context may end
  EndedAtStart,     \* how it may have ended before Run reads it
  InjectedOutcomes  \* what an injected opener may answer, whatever its context says

ASSUME CallerAssumption ==
  CallerErrors \subseteq {"canceled", "deadline"} /\ EndedAtStart \subseteq CallerErrors
ASSUME OpenerAssumption ==
  InjectedOutcomes \subseteq {"opened", "failed", "cancelled", "invalid"}

VARIABLES
  phase,        \* where Run is
  callerErr,    \* ctx.Err()
  runErr,       \* runContext.Err()
  openErr,      \* openContext.Err()
  server,       \* the goroutine that calls server.Serve
  shut,         \* server.Close was called
  serveErrors,  \* the channel of capacity one: what Serve returned
  handler,      \* the handler goroutine of each request
  pageRequests, \* the channel of capacity one: the accepted page request
  complete,     \* the sync.Once of the handler has run
  attempt,      \* openAttempt
  fallback,     \* fallbackNotified
  afterClose,   \* what Run does once closeServer returns
  result        \* the Result, status "none" before Run returns

contexts == <<callerErr, runErr, openErr>>
serving == <<server, shut, serveErrors>>
pages == <<handler, pageRequests, complete>>
vars == <<phase, contexts, serving, pages, attempt, fallback, afterClose, result>>

ContextErrors == {"active", "canceled", "deadline"}
\* The last three have passed complete.Do: their handler is done, and the page it
\* left in the response was sent, or cut off with the connection.
HandlerStates == {"idle", "received", "written", "dropped", "delivered", "sent", "cut"}
AttemptStates == {"none", "opened", "failed", "cancelled", "invalid"}
StopReasons == {"listener_failure", "placeholder_timeout", "cancelled",
                "invalid_fallback_notifier", "invalid_opener_evidence",
                "fallback_notification_failure", "server_failure"}
Phases == {"start", "listen", "serve", "open", "launch", "launched", "commit_open",
           "opened", "check_server", "notify", "select", "closing", "page",
           "commit", "returned"}

TypeOK ==
  /\ phase \in Phases
  /\ callerErr \in ContextErrors /\ runErr \in ContextErrors /\ openErr \in ContextErrors
  /\ server \in {"none", "starting", "serving", "ended"}
  /\ shut \in BOOLEAN
  /\ serveErrors \in {"empty", "failure", "closed"}
  /\ handler \in [Requests -> HandlerStates]
  /\ pageRequests \in {"empty", "request"}
  /\ complete \in BOOLEAN
  /\ attempt \in AttemptStates
  /\ fallback \in {"none", "notified"}
  /\ afterClose \in StopReasons \cup {"none", "page", "done"}
  /\ result \in [status : {"none", "completed", "stopped", "cancelled"},
                 reason : StopReasons \cup {"none"}, url : {"none", "bound"},
                 attempt : AttemptStates, fallback : {"none", "notified"},
                 page : {"none", "requested"}]

Init ==
  /\ phase = "start"
  /\ callerErr \in {"active"} \cup EndedAtStart
  /\ runErr = "active"
  /\ openErr = "active"
  /\ server = "none"
  /\ shut = FALSE
  /\ serveErrors = "empty"
  /\ handler = [r \in Requests |-> "idle"]
  /\ pageRequests = "empty"
  /\ complete = FALSE
  /\ attempt = "none"
  /\ fallback = "none"
  /\ afterClose = "none"
  /\ result = [status |-> "none", reason |-> "none", url |-> "none",
               attempt |-> "none", fallback |-> "none", page |-> "none"]

-----------------------------------------------------------------------------
(***************************************************************************)
(* Contexts: the open context is a child of the run context, which is a    *)
(* child of the caller's; each child has a deadline of its own.            *)
(***************************************************************************)
RunLive == phase \notin {"start", "returned"}
Opening == phase \in {"open", "launch", "launched", "commit_open"}

CallerEnds ==
  /\ phase # "returned"
  /\ callerErr = "active"
  /\ callerErr' \in (IF phase = "start" THEN EndedAtStart ELSE CallerErrors)
  /\ UNCHANGED <<phase, runErr, openErr, serving, pages, attempt, fallback, afterClose, result>>

PropagateToRun ==
  /\ RunLive
  /\ callerErr # "active"
  /\ runErr = "active"
  /\ runErr' = callerErr
  /\ UNCHANGED <<phase, callerErr, openErr, serving, pages, attempt, fallback, afterClose, result>>

\* Mutant: the run context is made without a deadline.
NoRunDeadline == FALSE

RunDeadline ==
  /\ RunLive
  /\ runErr = "active"
  /\ runErr' = "deadline"
  /\ UNCHANGED <<phase, callerErr, openErr, serving, pages, attempt, fallback, afterClose, result>>

OpenContextEnds ==
  /\ Opening
  /\ openErr = "active"
  /\ \/ openErr' = "deadline"
     \/ runErr # "active" /\ openErr' = runErr
  /\ UNCHANGED <<phase, callerErr, runErr, serving, pages, attempt, fallback, afterClose, result>>

\* contextTerminal: the stop reason of an ended context, "none" of a live one.
TerminalOf(err) ==
  CASE err = "canceled" -> "cancelled"
    [] err = "deadline" -> "placeholder_timeout"
    [] OTHER            -> "none"

-----------------------------------------------------------------------------
(***************************************************************************)
(* The end of Run: finish, and closeServer.                                *)
(***************************************************************************)
Finish(verdict, reason, url, opened, page) ==
  /\ phase' = "returned"
  /\ result' = [status |-> verdict, reason |-> reason, url |-> url,
                attempt |-> opened, fallback |-> fallback, page |-> page]

Stop(reason, url, opened) ==
  Finish(IF reason = "cancelled" THEN "cancelled" ELSE "stopped", reason, url, opened, "none")

\* server.Close(): the listener and the connections are closed; Run then waits
\* for what Serve returns.
Close(next) ==
  /\ phase' = "closing"
  /\ shut' = TRUE
  /\ afterClose' = next

\* <-serveErrors, then what the caller of closeServer does next.
Closed ==
  /\ phase = "closing"
  /\ serveErrors # "empty"
  /\ serveErrors' = "empty"
  /\ \/ afterClose = "page" /\ phase' = "page" /\ UNCHANGED result
     \/ afterClose = "done" /\ Stop(TerminalOf(runErr), "bound", attempt)
     \/ afterClose = "invalid_opener_evidence" /\ Stop(afterClose, "bound", "none")
     \/ /\ afterClose \notin {"page", "done", "invalid_opener_evidence"}
        /\ Stop(afterClose, "bound", attempt)
  /\ UNCHANGED <<contexts, server, shut, pages, attempt, fallback, afterClose>>

-----------------------------------------------------------------------------
(***************************************************************************)
(* Run, up to the browser.                                                 *)
(***************************************************************************)
\* The notifier check, the context check, and the run context.
Start ==
  /\ phase = "start"
  /\ \/ Stop("invalid_fallback_notifier", "none", "none") /\ UNCHANGED runErr
     \/ callerErr # "active" /\ Stop(TerminalOf(callerErr), "none", "none") /\ UNCHANGED runErr
     \/ callerErr = "active" /\ phase' = "listen" /\ runErr' = callerErr /\ UNCHANGED result
  /\ UNCHANGED <<callerErr, openErr, serving, pages, attempt, fallback, afterClose>>

\* r.listen and listenerURL, then the server goroutine.
Listen ==
  /\ phase = "listen"
  /\ \/ Stop("listener_failure", "none", "none") /\ UNCHANGED server
     \/ phase' = "serve" /\ server' = "starting" /\ UNCHANGED result
  /\ UNCHANGED <<contexts, shut, serveErrors, pages, attempt, fallback, afterClose>>

\* immediateServeFailure, then the open context.
CheckServeStart ==
  /\ phase = "serve"
  /\ \/ /\ serveErrors # "empty"
        /\ serveErrors' = "empty"
        /\ Stop("server_failure", "bound", "none")
        /\ UNCHANGED openErr
     \/ /\ serveErrors = "empty"
        /\ phase' = "open"
        /\ openErr' = runErr
        /\ UNCHANGED <<serveErrors, result>>
  /\ UNCHANGED <<callerErr, runErr, server, shut, pages, attempt, fallback, afterClose>>

-----------------------------------------------------------------------------
(***************************************************************************)
(* opener.Open: the context is read before and after the launch and before *)
(* the success is committed.                                               *)
(***************************************************************************)
Opened(outcome) == phase' = "opened" /\ attempt' = outcome

\* contextResult: a deadline is a failed attempt, a cancellation a cancelled one.
ContextResult == Opened(IF openErr = "deadline" THEN "failed" ELSE "cancelled")

OpenChecks ==
  /\ phase = "open"
  /\ \/ openErr # "active" /\ ContextResult
     \/ openErr = "active" /\ phase' = "launch" /\ UNCHANGED attempt
  /\ UNCHANGED <<contexts, serving, pages, fallback, afterClose, result>>

\* The launch command runs for as long as it likes.
LaunchReturns ==
  /\ phase = "launch"
  /\ phase' = "launched"
  /\ UNCHANGED <<contexts, serving, pages, attempt, fallback, afterClose, result>>

Launched ==
  /\ phase = "launched"
  /\ \/ openErr # "active" /\ ContextResult
     \/ openErr = "active" /\ Opened("failed")
     \/ openErr = "active" /\ phase' = "commit_open" /\ UNCHANGED attempt
  /\ UNCHANGED <<contexts, serving, pages, fallback, afterClose, result>>

CommitOpen ==
  /\ phase = "commit_open"
  /\ \/ openErr # "active" /\ ContextResult
     \/ openErr = "active" /\ Opened("opened")
  /\ UNCHANGED <<contexts, serving, pages, fallback, afterClose, result>>

\* An opener of the configuration: all that is known is what it may answer.
InjectedOpen ==
  /\ phase = "open"
  /\ \E outcome \in InjectedOutcomes : Opened(outcome)
  /\ UNCHANGED <<contexts, serving, pages, fallback, afterClose, result>>

-----------------------------------------------------------------------------
(***************************************************************************)
(* Run, after the browser.                                                 *)
(***************************************************************************)
\* The opener evidence, then the context, then a cancellation out of nowhere.
JudgeAttempt ==
  /\ phase = "opened"
  /\ \/ attempt = "invalid" /\ Close("invalid_opener_evidence")
     \/ /\ attempt # "invalid"
        /\ runErr # "active"
        /\ Close(TerminalOf(runErr))
     \/ /\ attempt = "cancelled"
        /\ runErr = "active"
        /\ Close("invalid_opener_evidence")
     \/ /\ attempt \in {"opened", "failed"}
        /\ runErr = "active"
        /\ phase' = "check_server"
        /\ UNCHANGED <<shut, afterClose>>
  /\ UNCHANGED <<contexts, server, serveErrors, pages, attempt, fallback, result>>

\* Mutant: what Serve returned while the browser was opening is thrown away.
ForgetServeFailure ==
  /\ phase = "check_server"
  /\ serveErrors' = "empty"
  /\ phase' = IF attempt = "failed" THEN "notify" ELSE "select"
  /\ UNCHANGED <<contexts, server, shut, pages, attempt, fallback, afterClose, result>>

\* immediateServeFailure again.
CheckServer ==
  /\ phase = "check_server"
  /\ \/ /\ serveErrors # "empty"
        /\ serveErrors' = "empty"
        /\ Stop("server_failure", "bound", attempt)
     \/ /\ serveErrors = "empty"
        /\ phase' = IF attempt = "failed" THEN "notify" ELSE "select"
        /\ UNCHANGED <<serveErrors, result>>
  /\ UNCHANGED <<contexts, server, shut, pages, attempt, fallback, afterClose>>

\* Mutant: the notification counts before the notifier has answered.
NotifyEagerly ==
  /\ phase = "notify"
  /\ fallback' = "notified"
  /\ \/ Close("fallback_notification_failure")
     \/ phase' = "select" /\ UNCHANGED <<shut, afterClose>>
  /\ UNCHANGED <<contexts, server, serveErrors, pages, attempt, result>>

\* Mutant: Run returns on a notifier error without closing the server.
NotifyLeavesServer ==
  /\ phase = "notify"
  /\ \/ /\ Stop("fallback_notification_failure", "bound", attempt)
        /\ UNCHANGED fallback
     \/ phase' = "select" /\ fallback' = "notified" /\ UNCHANGED result
  /\ UNCHANGED <<contexts, serving, pages, attempt, afterClose>>

\* The fallback notifier answers, with an error or without.
Notify ==
  /\ phase = "notify"
  /\ \/ Close("fallback_notification_failure") /\ UNCHANGED fallback
     \/ phase' = "select" /\ fallback' = "notified" /\ UNCHANGED <<shut, afterClose>>
  /\ UNCHANGED <<contexts, server, serveErrors, pages, attempt, result>>

\* The select: whatever is ready, in no order.
SelectPage ==
  /\ phase = "select"
  /\ pageRequests = "request"
  /\ pageRequests' = "empty"
  /\ Close("page")
  /\ UNCHANGED <<contexts, server, serveErrors, handler, complete, attempt, fallback, result>>

SelectServeError ==
  /\ phase = "select"
  /\ serveErrors # "empty"
  /\ serveErrors' = "empty"
  /\ Stop("server_failure", "bound", attempt)
  /\ UNCHANGED <<contexts, server, shut, pages, attempt, fallback, afterClose>>

SelectDone ==
  /\ phase = "select"
  /\ runErr # "active"
  /\ Close("done")
  /\ UNCHANGED <<contexts, server, serveErrors, pages, attempt, fallback, result>>

\* contextTerminal after the server is closed, beforeSuccessCommit, and once more.
PageRequested ==
  /\ phase = "page"
  /\ \/ runErr # "active" /\ Stop(TerminalOf(runErr), "bound", attempt)
     \/ runErr = "active" /\ phase' = "commit" /\ UNCHANGED result
  /\ UNCHANGED <<contexts, serving, pages, attempt, fallback, afterClose>>

\* Mutant: the context is not looked at again before the commit.
CommitUnchecked ==
  /\ phase = "commit"
  /\ Finish("completed", "none", "bound", attempt, "requested")
  /\ UNCHANGED <<contexts, serving, pages, attempt, fallback, afterClose>>

Commit ==
  /\ phase = "commit"
  /\ \/ runErr # "active" /\ Stop(TerminalOf(runErr), "bound", attempt)
     \/ runErr = "active" /\ Finish("completed", "none", "bound", attempt, "requested")
  /\ UNCHANGED <<contexts, serving, pages, attempt, fallback, afterClose>>

-----------------------------------------------------------------------------
(***************************************************************************)
(* The server goroutine.  Serve registers the listener, accepts until the  *)
(* listener breaks or the server is closed, and closes the listener before *)
(* it returns.                                                             *)
(***************************************************************************)
Serve ==
  /\ server = "starting"
  /\ \/ ~shut /\ server' = "serving" /\ UNCHANGED serveErrors
     \/ shut /\ server' = "ended" /\ serveErrors' = "closed"
  /\ UNCHANGED <<phase, contexts, shut, pages, attempt, fallback, afterClose, result>>

ServeReturns ==
  /\ server = "serving"
  /\ server' = "ended"
  /\ serveErrors' = IF shut THEN "closed" ELSE "failure"
  /\ UNCHANGED <<phase, contexts, shut, pages, attempt, fallback, afterClose, result>>

-----------------------------------------------------------------------------
(***************************************************************************)
(* placeholderHandler, one goroutine per request, and the end of the       *)
(* response, which is the work of net/http.                                *)
(***************************************************************************)
\* A request arrives; one with a wrong host, method, path or query is refused.
Receive(r) ==
  /\ server = "serving"
  /\ handler[r] = "idle"
  /\ \E next \in {"received", "dropped"} : handler' = [handler EXCEPT ![r] = next]
  /\ UNCHANGED <<phase, contexts, serving, pageRequests, complete, attempt, fallback,
                 afterClose, result>>

\* Mutant: the request is reported before the page is written.
ReportFirst(r) ==
  /\ handler[r] = "received"
  /\ pageRequests' = IF complete THEN pageRequests ELSE "request"
  /\ complete' = TRUE
  /\ \E next \in {"written", "dropped"} : handler' = [handler EXCEPT ![r] = next]
  /\ UNCHANGED <<phase, contexts, serving, attempt, fallback, afterClose, result>>

\* The page is written to the response, which may refuse it.  A page this short stays
\* in the response's buffer for now: no byte of it is on the connection.
WritePage(r) ==
  /\ handler[r] = "received"
  /\ \E next \in {"written", "dropped"} : handler' = [handler EXCEPT ![r] = next]
  /\ UNCHANGED <<phase, contexts, serving, pageRequests, complete, attempt, fallback,
                 afterClose, result>>

\* Mutant: every request is sent, not only the first.
DeliverEvery(r) ==
  /\ handler[r] = "written"
  /\ pageRequests = "empty"
  /\ pageRequests' = "request"
  /\ handler' = [handler EXCEPT ![r] = "delivered"]
  /\ UNCHANGED <<phase, contexts, serving, complete, attempt, fallback, afterClose, result>>

\* complete.Do: the first one is sent, and waits while the channel is full.
Deliver(r) ==
  /\ handler[r] = "written"
  /\ \/ complete /\ UNCHANGED <<pageRequests, complete>>
     \/ /\ ~complete
        /\ pageRequests = "empty"
        /\ pageRequests' = "request"
        /\ complete' = TRUE
  /\ handler' = [handler EXCEPT ![r] = "delivered"]
  /\ UNCHANGED <<phase, contexts, serving, attempt, fallback, afterClose, result>>

\* Only when the handler has returned does net/http flush the response, to a client
\* that may have left; a server that was closed meanwhile has closed the connection.
Flush(r) ==
  /\ handler[r] = "delivered"
  /\ \E end \in (IF shut THEN {"cut"} ELSE {"sent", "cut"}) :
       handler' = [handler EXCEPT ![r] = end]
  /\ UNCHANGED <<phase, contexts, serving, pageRequests, complete, attempt, fallback,
                 afterClose, result>>

-----------------------------------------------------------------------------
Open == OpenChecks \/ LaunchReturns \/ Launched \/ CommitOpen \/ InjectedOpen

Wait == SelectPage \/ SelectServeError \/ SelectDone

Run ==
  \/ Start \/ Listen \/ CheckServeStart \/ Open \/ JudgeAttempt \/ CheckServer
  \/ Notify \/ Wait \/ Closed \/ PageRequested \/ Commit

Handle(r) == Receive(r) \/ WritePage(r) \/ Deliver(r) \/ Flush(r)

Context == CallerEnds \/ PropagateToRun \/ RunDeadline \/ OpenContextEnds

\* Run has returned and no goroutine of it is left.
Done ==
  /\ phase = "returned"
  /\ server \in {"none", "ended"}
  /\ UNCHANGED vars

Next ==
  \/ Run \/ Serve \/ ServeReturns \/ (\E r \in Requests : Handle(r)) \/ Context \/ Done

Spec == Init /\ [][Next]_vars

(***************************************************************************)
(* Fairness: goroutines that can run do run; deadlines fire; the launch    *)
(* command, started with the open context, ends once that has; the server  *)
(* returns once it is closed.  Nothing makes a request come or the server  *)
(* fail, and nothing makes an injected opener or the caller do anything    *)
(* but answer.                                                             *)
(***************************************************************************)
Fairness ==
  /\ WF_vars(Run /\ ~LaunchReturns)
  /\ WF_vars(openErr # "active" /\ LaunchReturns)
  /\ WF_vars(PropagateToRun)
  /\ WF_vars(RunDeadline)
  /\ WF_vars(OpenContextEnds)
  /\ WF_vars(Serve)
  /\ WF_vars(shut /\ ServeReturns)
  /\ \A r \in Requests : WF_vars(WritePage(r)) /\ WF_vars(Deliver(r)) /\ WF_vars(Flush(r))

FairSpec == Spec /\ Fairness
=============================================================================
