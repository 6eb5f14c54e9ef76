----------------------- MODULE BrowserPlaceholderProofs -----------------------
(***************************************************************************)
(* The safety properties of browserplaceholder.Run, for any number of      *)
(* requests.                                                               *)
(***************************************************************************)
EXTENDS BrowserPlaceholderInvariant, TLAPS

-----------------------------------------------------------------------------
(***************************************************************************)
(* The types.                                                              *)
(***************************************************************************)
\* Every step of Run keeps the types.
LEMMA RunTypes == TypeOK /\ Run => TypeOK'
<1> USE CallerAssumption DEF TypeOK, ContextErrors, HandlerStates, AttemptStates, StopReasons,
      Phases, contexts, serving, pages
<1> SUFFICES ASSUME TypeOK, Run PROVE TypeOK'
    OBVIOUS
<1>1. CASE Start
      BY <1>1 DEF Start, Stop, Finish, TerminalOf
<1>2. CASE Listen
      BY <1>2 DEF Listen, Stop, Finish
<1>3. CASE CheckServeStart
      BY <1>3 DEF CheckServeStart, Stop, Finish
<1>4. CASE OpenChecks
      BY <1>4 DEF OpenChecks, ContextResult, Opened
<1>5. CASE LaunchReturns
      BY <1>5 DEF LaunchReturns
<1>6. CASE Launched
      BY <1>6 DEF Launched, ContextResult, Opened
<1>7. CASE CommitOpen
      BY <1>7 DEF CommitOpen, ContextResult, Opened
<1>8. CASE InjectedOpen
      BY <1>8, OpenerAssumption DEF InjectedOpen, Opened
<1>9. CASE JudgeAttempt
  <2>1. shut' \in BOOLEAN
        BY <1>9, Zenon DEF JudgeAttempt, Close
  <2> QED
      BY <1>9, <2>1 DEF JudgeAttempt, Close, TerminalOf
<1>10. CASE CheckServer
      BY <1>10 DEF CheckServer, Stop, Finish
<1>11. CASE Notify
  <2>1. CASE Close("fallback_notification_failure")
        BY <1>11, <2>1 DEF Notify, Close
  <2>2. CASE UNCHANGED shut /\ afterClose' = afterClose /\ phase' = "select"
        BY <1>11, <2>2 DEF Notify
  <2> QED
      BY <1>11, <2>1, <2>2 DEF Notify
<1>12. CASE SelectPage
      BY <1>12 DEF SelectPage, Close
<1>13. CASE SelectServeError
      BY <1>13 DEF SelectServeError, Stop, Finish
<1>14. CASE SelectDone
      BY <1>14 DEF SelectDone, Close
<1>15. CASE Closed
      BY <1>15 DEF Closed, Stop, Finish, TerminalOf
<1>16. CASE PageRequested
      BY <1>16 DEF PageRequested, Stop, Finish, TerminalOf
<1>17. CASE Commit
      BY <1>17 DEF Commit, Stop, Finish, TerminalOf
<1> QED
    BY <1>1, <1>2, <1>3, <1>4, <1>5, <1>6, <1>7, <1>8, <1>9, <1>10, <1>11, <1>12, <1>13,
       <1>14, <1>15, <1>16, <1>17 DEF Run, Open, Wait

\* The other goroutines keep the types.
LEMMA OtherTypes ==
  TypeOK /\ (Serve \/ ServeReturns \/ (\E r \in Requests : Handle(r)) \/ Context) => TypeOK'
<1> USE CallerAssumption DEF TypeOK, ContextErrors, HandlerStates, AttemptStates, StopReasons,
      Phases, contexts, serving, pages
<1>1. ASSUME TypeOK, Serve PROVE TypeOK'
      BY <1>1 DEF Serve
<1>2. ASSUME TypeOK, ServeReturns PROVE TypeOK'
      BY <1>2 DEF ServeReturns
<1>3. ASSUME TypeOK, NEW r \in Requests, Receive(r) PROVE TypeOK'
      BY <1>3 DEF Receive
<1>4. ASSUME TypeOK, NEW r \in Requests, WritePage(r) PROVE TypeOK'
      BY <1>4 DEF WritePage
<1>5. ASSUME TypeOK, NEW r \in Requests, Deliver(r) PROVE TypeOK'
  <2>1. CASE complete /\ UNCHANGED <<pageRequests, complete>>
        BY <1>5, <2>1 DEF Deliver
  <2>2. CASE ~complete /\ pageRequests' = "request" /\ complete' = TRUE
        BY <1>5, <2>2 DEF Deliver
  <2> QED
      BY <1>5, <2>1, <2>2 DEF Deliver
<1>6. ASSUME TypeOK, NEW r \in Requests, Flush(r) PROVE TypeOK'
      BY <1>6 DEF Flush
<1>7. ASSUME TypeOK, Context PROVE TypeOK'
  <2>1. CASE CallerEnds
    <3>1. callerErr' \in CallerErrors
      <4>1. CASE phase = "start"
            BY <2>1, <4>1 DEF CallerEnds
      <4>2. CASE phase # "start"
            BY <2>1, <4>2 DEF CallerEnds
      <4> QED
          BY <4>1, <4>2
    <3> QED
        BY <1>7, <2>1, <3>1 DEF CallerEnds
  <2>2. CASE PropagateToRun \/ RunDeadline \/ OpenContextEnds
        BY <1>7, <2>2 DEF PropagateToRun, RunDeadline, OpenContextEnds
  <2> QED
      BY <1>7, <2>1, <2>2 DEF Context
<1> QED
    BY <1>1, <1>2, <1>3, <1>4, <1>5, <1>6, <1>7 DEF Handle

\* Type correctness of the whole state.
THEOREM TypeCorrect == Spec => []TypeOK
<1>1. Init => TypeOK
  <2> SUFFICES ASSUME Init PROVE TypeOK
      OBVIOUS
  <2>1. shut \in BOOLEAN /\ complete \in BOOLEAN
        BY DEF Init
  <2>2. handler \in [Requests -> HandlerStates]
        BY DEF Init, HandlerStates
  <2>3. callerErr \in ContextErrors
        BY CallerAssumption DEF Init, ContextErrors
  <2> QED
      BY <2>1, <2>2, <2>3 DEF Init, TypeOK, ContextErrors, AttemptStates, StopReasons, Phases
<1>2. TypeOK /\ [Next]_vars => TypeOK'
  <2>1. TypeOK /\ UNCHANGED vars => TypeOK'
        BY DEF TypeOK, vars, contexts, serving, pages
  <2> QED
      BY <2>1, RunTypes, OtherTypes DEF Next, Done
<1> QED
    BY <1>1, <1>2, PTL DEF Spec

-----------------------------------------------------------------------------
(***************************************************************************)
(* The server and its channel.                                             *)
(***************************************************************************)
\* Every step of Run keeps the server invariant.
LEMMA RunServer == TypeOK /\ ServerInv /\ Run => ServerInv'
<1> USE DEF TypeOK, ServerInv, contexts, serving, pages
<1> SUFFICES ASSUME TypeOK, ServerInv, Run PROVE ServerInv'
    OBVIOUS
<1>1. CASE Start
      BY <1>1 DEF Start, Stop, Finish, TerminalOf
<1>2. CASE Listen
      BY <1>2 DEF Listen, Stop, Finish
<1>3. CASE CheckServeStart
      BY <1>3 DEF CheckServeStart, Stop, Finish
<1>4. CASE OpenChecks
      BY <1>4 DEF OpenChecks, ContextResult, Opened
<1>5. CASE LaunchReturns
      BY <1>5 DEF LaunchReturns
<1>6. CASE Launched
      BY <1>6 DEF Launched, ContextResult, Opened
<1>7. CASE CommitOpen
      BY <1>7 DEF CommitOpen, ContextResult, Opened
<1>8. CASE InjectedOpen
      BY <1>8, OpenerAssumption DEF InjectedOpen, Opened
<1>9. CASE JudgeAttempt
      BY <1>9 DEF JudgeAttempt, Close, TerminalOf
<1>10. CASE CheckServer
      BY <1>10 DEF CheckServer, Stop, Finish
<1>11. CASE Notify
      BY <1>11 DEF Notify, Close
<1>12. CASE SelectPage
      BY <1>12 DEF SelectPage, Close
<1>13. CASE SelectServeError
      BY <1>13 DEF SelectServeError, Stop, Finish
<1>14. CASE SelectDone
      BY <1>14 DEF SelectDone, Close
<1>15. CASE Closed
      BY <1>15 DEF Closed, Stop, Finish, TerminalOf
<1>16. CASE PageRequested
      BY <1>16 DEF PageRequested, Stop, Finish, TerminalOf
<1>17. CASE Commit
      BY <1>17 DEF Commit, Stop, Finish, TerminalOf
<1> QED
    BY <1>1, <1>2, <1>3, <1>4, <1>5, <1>6, <1>7, <1>8,
       <1>9, <1>10, <1>11, <1>12, <1>13, <1>14, <1>15, <1>16, <1>17
    DEF Run, Open, Wait

\* The other goroutines keep the server invariant.
LEMMA OtherServer ==
  ServerInv /\ (Serve \/ ServeReturns \/ (\E r \in Requests : Handle(r)) \/ Context)
    => ServerInv'
BY DEF ServerInv, Serve, ServeReturns, Handle, Receive, WritePage, Deliver, Flush, Context,
       CallerEnds, PropagateToRun, RunDeadline, OpenContextEnds, contexts, serving, pages

\* The server invariant holds throughout.
LEMMA ServerHolds == Spec => []ServerInv
<1>1. Init => ServerInv
      BY DEF Init, ServerInv
<1>2. TypeOK /\ ServerInv /\ [Next]_vars => ServerInv'
  <2>1. ServerInv /\ UNCHANGED vars => ServerInv'
        BY DEF ServerInv, vars, contexts, serving, pages
  <2> QED
      BY <2>1, RunServer, OtherServer DEF Next, Done
<1> QED
    BY <1>1, <1>2, TypeCorrect, PTL DEF Spec

\* Run never waits for the value of Serve after it was received.
THEOREM NeverWaitsInVainHolds == Spec => []NeverWaitsInVain
<1>1. ServerInv => NeverWaitsInVain
      BY DEF ServerInv, NeverWaitsInVain
<1> QED
    BY <1>1, ServerHolds, PTL

\* When Run has returned, the server goroutine and its listener are gone.
THEOREM ListenerIsReleased == Spec => []ListenerReleased
<1>1. ServerInv => ListenerReleased
      BY DEF ServerInv, ListenerReleased, Returned
<1> QED
    BY <1>1, ServerHolds, PTL

-----------------------------------------------------------------------------
(***************************************************************************)
(* The page that completes a run.                                          *)
(***************************************************************************)
\* A request that was accepted stays accepted.
LEMMA AcceptedStays ==
  ASSUME TypeOK, NEW r \in Requests, Handle(r)
  PROVE  Accepted \subseteq Accepted'
<1> SUFFICES ASSUME NEW q \in Accepted PROVE q \in Accepted'
    OBVIOUS
<1>1. handler'[q] \in {"delivered", "sent", "cut"}
      BY DEF TypeOK, Accepted, Handle, Receive, WritePage, Deliver, Flush
<1> QED
    BY <1>1 DEF Accepted

\* Every step of Run keeps the requested invariant.
LEMMA RunRequested == RequestedInv /\ Run => RequestedInv'
<1> USE DEF RequestedInv, Accepted, contexts, serving, pages
<1> SUFFICES ASSUME RequestedInv, Run PROVE RequestedInv'
    OBVIOUS
<1>1. CASE Start
      BY <1>1 DEF Start, Stop, Finish, TerminalOf
<1>2. CASE Listen
      BY <1>2 DEF Listen, Stop, Finish
<1>3. CASE CheckServeStart
      BY <1>3 DEF CheckServeStart, Stop, Finish
<1>4. CASE OpenChecks
      BY <1>4 DEF OpenChecks, ContextResult, Opened
<1>5. CASE LaunchReturns
      BY <1>5 DEF LaunchReturns
<1>6. CASE Launched
      BY <1>6 DEF Launched, ContextResult, Opened
<1>7. CASE CommitOpen
      BY <1>7 DEF CommitOpen, ContextResult, Opened
<1>8. CASE InjectedOpen
      BY <1>8, OpenerAssumption DEF InjectedOpen, Opened
<1>9. CASE JudgeAttempt
      BY <1>9 DEF JudgeAttempt, Close, TerminalOf
<1>10. CASE CheckServer
      BY <1>10 DEF CheckServer, Stop, Finish
<1>11. CASE Notify
      BY <1>11 DEF Notify, Close
<1>12. CASE SelectPage
      BY <1>12 DEF SelectPage, Close
<1>13. CASE SelectServeError
      BY <1>13 DEF SelectServeError, Stop, Finish
<1>14. CASE SelectDone
      BY <1>14 DEF SelectDone, Close
<1>15. CASE Closed
      BY <1>15 DEF Closed, Stop, Finish, TerminalOf
<1>16. CASE PageRequested
      BY <1>16 DEF PageRequested, Stop, Finish, TerminalOf
<1>17. CASE Commit
      BY <1>17 DEF Commit, Stop, Finish, TerminalOf
<1> QED
    BY <1>1, <1>2, <1>3, <1>4, <1>5, <1>6, <1>7, <1>8,
       <1>9, <1>10, <1>11, <1>12, <1>13, <1>14, <1>15, <1>16, <1>17
    DEF Run, Open, Wait

\* The handlers keep the requested invariant: the channel is filled together with
\* the request that is accepted.
LEMMA HandlerRequested ==
  ASSUME TypeOK, RequestedInv, NEW r \in Requests, Handle(r)
  PROVE  RequestedInv'
<1>1. CASE Accepted # {}
      BY <1>1, AcceptedStays DEF RequestedInv
<1>2. CASE Accepted = {} /\ (Receive(r) \/ WritePage(r))
      BY <1>2 DEF RequestedInv, Receive, WritePage, serving
<1>3. CASE Deliver(r)
  <2>1. handler'[r] = "delivered"
        BY <1>3 DEF TypeOK, Deliver
  <2> QED
      BY <2>1 DEF RequestedInv, Accepted
<1>4. CASE Flush(r)
      BY <1>1, <1>4 DEF Flush, Accepted
<1> QED
    BY <1>1, <1>2, <1>3, <1>4 DEF Handle

\* The requested invariant holds throughout.
LEMMA RequestedHolds == Spec => []RequestedInv
<1>1. Init => RequestedInv
      BY DEF Init, RequestedInv
<1>2. TypeOK /\ RequestedInv /\ [Next]_vars => RequestedInv'
  <2>1. RequestedInv /\ (UNCHANGED vars \/ Serve \/ ServeReturns \/ Context) => RequestedInv'
        BY DEF RequestedInv, Accepted, vars, contexts, serving, pages, Serve, ServeReturns, Context,
               CallerEnds, PropagateToRun, RunDeadline, OpenContextEnds
  <2> QED
      BY <2>1, RunRequested, HandlerRequested DEF Next, Done
<1> QED
    BY <1>1, <1>2, TypeCorrect, PTL DEF Spec

\* A completed run means that a client asked for exactly the placeholder URL and that
\* the response took the whole page, whether or not the client ever got it.
THEOREM CompletedMeansRequestedHolds == Spec => []CompletedMeansRequested
<1>1. RequestedInv => CompletedMeansRequested
      BY DEF RequestedInv, CompletedMeansRequested
<1> QED
    BY <1>1, RequestedHolds, PTL

-----------------------------------------------------------------------------
(***************************************************************************)
(* The contexts and the verdict, for any opener and any caller.            *)
(***************************************************************************)
\* Every step of Run keeps the cause invariant.
LEMMA RunCause ==
  ASSUME TypeOK, CauseInv, Run
  PROVE  CauseInv'
<1> USE DEF TypeOK, CauseInv, VerdictHasCause, contexts, serving, pages, ContextErrors
<1>1. CASE Start
      BY <1>1 DEF Start, Stop, Finish, TerminalOf
<1>2. CASE Listen
      BY <1>2 DEF Listen, Stop, Finish
<1>3. CASE CheckServeStart
      BY <1>3 DEF CheckServeStart, Stop, Finish
<1>4. CASE Open
      BY <1>4 DEF Open, OpenChecks, LaunchReturns, Launched, CommitOpen, InjectedOpen,
                  ContextResult, Opened
<1>5. CASE JudgeAttempt
      BY <1>5 DEF JudgeAttempt, Close, TerminalOf
<1>6. CASE CheckServer
      BY <1>6 DEF CheckServer, Stop, Finish
<1>7. CASE Notify
      BY <1>7 DEF Notify, Close
<1>8. CASE Wait
      BY <1>8 DEF Wait, SelectPage, SelectServeError, SelectDone, Close, Stop, Finish
<1>9. CASE Closed
      BY <1>9 DEF Closed, Stop, Finish, TerminalOf
<1>10. CASE PageRequested \/ Commit
      BY <1>10 DEF PageRequested, Commit, Stop, Finish, TerminalOf
<1> QED
    BY <1>1, <1>2, <1>3, <1>4, <1>5, <1>6, <1>7, <1>8, <1>9, <1>10 DEF Run

\* A context that ends keeps it, because it ends only once.
LEMMA ContextCause ==
  ASSUME TypeOK, CauseInv, Context
  PROVE  CauseInv'
<1> USE DEF TypeOK, CauseInv, VerdictHasCause, contexts, serving, pages, ContextErrors, RunLive
<1>1. CASE CallerEnds
      BY <1>1 DEF CallerEnds
<1>2. CASE PropagateToRun \/ RunDeadline \/ OpenContextEnds
      BY <1>2 DEF PropagateToRun, RunDeadline, OpenContextEnds
<1> QED
    BY <1>1, <1>2 DEF Context

\* contextTerminal, at each place where Run asks it, and the commit of the page: a
\* late page does not complete the run, and only the user cancels it.
THEOREM VerdictHasCauseHolds == Spec => []VerdictHasCause
<1>1. Init => CauseInv
      BY DEF Init, CauseInv, VerdictHasCause
<1>2. TypeOK /\ CauseInv /\ [Next]_vars => CauseInv'
  <2>1. CauseInv /\ (UNCHANGED vars \/ Serve \/ ServeReturns \/ \E r \in Requests : Handle(r))
          => CauseInv'
        BY DEF CauseInv, VerdictHasCause, vars, contexts, serving, pages, Serve, ServeReturns,
               Handle, Receive, WritePage, Deliver, Flush
  <2> QED
      BY <2>1, RunCause, ContextCause DEF Next, Done
<1>3. CauseInv => VerdictHasCause
      BY DEF CauseInv
<1> QED
    BY <1>1, <1>2, <1>3, TypeCorrect, PTL DEF Spec

-----------------------------------------------------------------------------
(***************************************************************************)
(* The Result, for an opener that reports only its own cancellation.        *)
(***************************************************************************)
\* Every step of Run keeps the result invariant.
LEMMA RunResult ==
  ASSUME "cancelled" \notin InjectedOutcomes, TypeOK, ResultInv, Run
  PROVE  ResultInv'
<1> USE DEF TypeOK, ResultInv, AttemptInv, ClosingInv, EmittedResultValid, Returned, ValidResult,
      ValidShape, contexts, serving, pages, ContextErrors, AttemptStates, Phases
<1>1. CASE Start
      BY <1>1 DEF Start, Stop, Finish, TerminalOf
<1>2. CASE Listen
      BY <1>2 DEF Listen, Stop, Finish
<1>3. CASE CheckServeStart
      BY <1>3 DEF CheckServeStart, Stop, Finish
<1>4. CASE OpenChecks
      BY <1>4 DEF OpenChecks, ContextResult, Opened
<1>5. CASE LaunchReturns
      BY <1>5 DEF LaunchReturns
<1>6. CASE Launched
      BY <1>6 DEF Launched, ContextResult, Opened
<1>7. CASE CommitOpen
      BY <1>7 DEF CommitOpen, ContextResult, Opened
<1>8. CASE InjectedOpen
      BY <1>8, OpenerAssumption DEF InjectedOpen, Opened
<1>9. CASE JudgeAttempt
      BY <1>9 DEF JudgeAttempt, Close, TerminalOf
<1>10. CASE CheckServer
      BY <1>10 DEF CheckServer, Stop, Finish
<1>11. CASE Notify
      BY <1>11 DEF Notify, Close
<1>12. CASE SelectPage
      BY <1>12 DEF SelectPage, Close
<1>13. CASE SelectServeError
      BY <1>13 DEF SelectServeError, Stop, Finish
<1>14. CASE SelectDone
      BY <1>14 DEF SelectDone, Close
<1>15. CASE Closed
      BY <1>15 DEF Closed, Stop, Finish, TerminalOf
<1>16. CASE PageRequested
      BY <1>16 DEF PageRequested, Stop, Finish, TerminalOf
<1>17. CASE Commit
      BY <1>17 DEF Commit, Stop, Finish, TerminalOf
<1> QED
    BY <1>1, <1>2, <1>3, <1>4, <1>5, <1>6, <1>7, <1>8,
       <1>9, <1>10, <1>11, <1>12, <1>13, <1>14, <1>15, <1>16, <1>17
    DEF Run, Open, Wait

\* The other goroutines keep the result invariant.
LEMMA OtherResult ==
  ASSUME "deadline" \notin EndedAtStart, TypeOK, ResultInv,
         Serve \/ ServeReturns \/ (\E r \in Requests : Handle(r)) \/ Context
  PROVE  ResultInv'
<1> USE DEF TypeOK, ResultInv, AttemptInv, ClosingInv, EmittedResultValid, Returned, ValidResult,
      ValidShape, contexts, serving, pages
<1>1. CASE Serve \/ ServeReturns
      BY <1>1 DEF Serve, ServeReturns
<1>2. ASSUME NEW r \in Requests, Handle(r) PROVE ResultInv'
      BY <1>2 DEF Handle, Receive, WritePage, Deliver, Flush
<1>3. CASE Context
      BY <1>3 DEF Context, CallerEnds, PropagateToRun, RunDeadline, OpenContextEnds,
                  Opening, ContextErrors
<1> QED
    BY <1>1, <1>2, <1>3

\* For the platform opener and every opener that reports a cancellation only of its
\* context, and a caller whose deadline has not passed when Run reads it first,
\* every Result satisfies Validate, however the caller's context ends later.
THEOREM ResultIsValid ==
  ASSUME "cancelled" \notin InjectedOutcomes, "deadline" \notin EndedAtStart
  PROVE  Spec => []EmittedResultValid
<1>1. Init => ResultInv
  <2>1. Init => AttemptInv /\ ClosingInv /\ EmittedResultValid
        BY DEF Init, AttemptInv, ClosingInv, EmittedResultValid, Returned
  <2>2. Init => callerErr # "deadline" /\ openErr = "active" /\ attempt = "none"
        BY CallerAssumption DEF Init
  <2> QED
      BY <2>1, <2>2 DEF ResultInv
<1>2. TypeOK /\ ResultInv /\ [Next]_vars => ResultInv'
  <2>1. ResultInv /\ UNCHANGED vars => ResultInv'
        BY DEF ResultInv, AttemptInv, ClosingInv, EmittedResultValid, Returned, ValidResult,
               ValidShape, vars, contexts, serving, pages
  <2> QED
      BY <2>1, RunResult, OtherResult DEF Next, Done
<1>3. ResultInv => EmittedResultValid
      BY DEF ResultInv
<1> QED
    BY <1>1, <1>2, <1>3, TypeCorrect, PTL DEF Spec
=============================================================================
