# Formal models of reachrun

`reachrun` is a command-line tool that takes one bounded network observation per
call and prints one JSON result: it resolves, dials, shakes hands, follows
redirects or opens a page in the browser, and says what it saw. These modules
model its probes, which make one observation each, its orchestrators, which
schedule observations, retry, race with deadlines and cancellation, and then claim
something about what happened, and the command line that runs them.

All of them follow one pattern, and the models follow it too. A part
has an `Observe` (or `Run`) that always returns a `Result`; its package has a
`Validate(Result)`, written separately, that recomputes from the evidence in the
result whether its conclusion is right; the command line refuses to print a
result that does not validate. So `Validate` is the package's own specification.
Each model translates both, on their own, and asks whether *every* result, under
every interleaving, satisfies it.

## The system and its parts

| part | state it keeps | operations | hard behaviour | module |
|---|---|---|---|---|
| `tlsretrybatch` | targets, a job channel, a recorded fault, accepted source, two contexts | `Observe`: a pool of workers, `runTarget` per target with backoff and retry | workers share a slice; a fault cancels the others; late success; deadline or cancellation at any point | `TLSRetryBatch` and its satellites |
| `tlsobservation`, `sshobservation` | none between calls | a dial, then a TLS handshake or an exchange of identification lines | a silent peer; contexts read again, twice, before the commit; line and preamble limits | `DirectProbe`, `TLSObservation`, `SSHObservation`, `SSHIdentification` |
| `browserplaceholder` | listener, server goroutine, two channels of capacity one, `sync.Once` | `Run`, one handler per request | `select` over page, server end and context; five receives of one value | `BrowserPlaceholder` |
| `platform/browseropener` | none | `Open`: context, launch, context, commit | a launch that hangs | inside `BrowserPlaceholder` |
| `webpath` | the report: hops, redirects, fallback | `Observe`: a chain of hops, an HTTP fallback | conclusions recomputed by `Validate`; contexts between any two steps | `WebPath` |
| `webrecheck` | the report | all candidates of two lists in alternation | a late success is dropped, any other late outcome kept | `WebRecheck` |
| `dnshttpspath` | the report | HTTPS alias chain, service bindings, address queries | alias loops and limits, late answers, one resolver for all of them | `DNSHTTPSPath`, `ServiceBindings` |
| `dnsobservation` | none | one DNS exchange over UDP, TCP or DoH | a goroutine closes the connection under a read; contexts before errors, in order; the CNAME walk | `DNSMessage`, `DNSObservation` |
| `webobservation` | a trace that `net/http` writes | one HTTP/1.1 request | the trace may move after the request was given up | `WebObservation` |
| `platform/familycondition`, `systemresolver`, `resolverinventory` | none | two route lookups, one name lookup, one collection | an error of an ended context must not be blamed on the platform | `FamilyCondition`, `SystemResolver`, `ResolverInventory` |
| `probe` | none | the envelope all probes return | outcome, failure and evidence must fit together | `Probe` |
| `nettarget` | none | normalization of targets | character rules | inputs |
| `cmd/reachrun` | the process: stdout, exit code | arguments, one or two calls under one context, `Validate`, print, exit code | a result that `Validate` refuses is not printed; two probes share one cancellation | `CommandLine` |

How they interact: `cmd/reachrun` makes one `signal.NotifyContext` and a timeout on
it, calls one probe or orchestrator, validates and prints; for `dns-observe` with
the resolver `current` it calls `resolverinventory` first and `dnsobservation`
after it, both under one context. `tlsretrybatch` calls `tlsobservation` from
several goroutines at once; `browserplaceholder` calls `browseropener` while its
server and handlers run; `webpath` calls `systemresolver` and `webobservation`
in sequence, `webrecheck` calls `webobservation`, `dnshttpspath` calls
`dnsobservation`. Everything shared between goroutines lives in
`tlsretrybatch` and `browserplaceholder`; elsewhere the concurrency is that of
the contexts, which may end between any two steps.

What makes each part correct: the batch gives every target to one worker, keeps
to the retry policy, tells a fault from a cancellation and a cancellation from a
deadline, and returns; the placeholder releases its listener, leaves no goroutine
waiting, completes only when its page was asked for, and returns; the web path is
bounded, repeats nothing over HTTP that answered over HTTPS, and concludes only
what its hops show; the recheck tries every candidate of both lists in
alternation, whatever the earlier ones say; the DNS path never asks for a name of
its chain again, prefers what the records prefer, and hides no failure; a probe
confirms nothing for a caller that has gone, blames nobody else for what it broke
off itself, and returns when its context ends, however silent the peer is; the
command line prints one document and exits with the code of its verdict. The
hazards that threaten these, with the lines where they
bite, are the list `hazards` of `PROJECT.json`.

## Modules

### The TLS retry batch

* `TLSCodes` - the classes of a TLS result (`FailureCode`, `UnconfirmedReason`),
  which of them are tried again (`retry.go`), which results can validate at all.
* `TLSRetryBatch` - one call of `Observe`. `phase` is where `Observe` stands,
  `wpc[w]` where worker `w` does; `next` is the job channel, `status` and
  `attempts` the shared `TargetResult`s, `failure` and `accepted` the fields of
  `runState` under its mutex, `callerErr` and `batchErr` the two contexts. Each
  action is the code between two points where another goroutine, a timer or the
  caller can be seen: taking a job (`Take`), the two context checks around an
  observation (`Begin`, `Recheck`), the wait (`Backoff`, `WaitElapsed`,
  `WaitFails`), the observation (`ObserveReturns`), dropping a late success
  (`DiscardLate`), recording (`Record`), and the failure in two steps, as the code
  has it: the fault under the mutex (`Fail`), the `cancel()` after it
  (`CancelBatch`). With `Production = FALSE` the adapter, delay and wait behind
  the seams of `newObserver` may do anything; with `TRUE` they do what `New`
  installs.
* `TLSRetryBatchContract` - the abstract specification: logs that only grow, by
  policy and from one adapter, and one published verdict that follows from
  fault, caller and clock. No workers, channel or locks.
* `TLSRetryBatchProperties` - `Validate` as `ValidResult`, the properties and the
  refinement mapping.
* `TLSRetryBatchInvariant`, `TLSRetryBatchProofs` - the inductive invariant and
  the theorems, the proof that `Observe` implements the contract among them.
* `MCTLSRetryBatch` - values for TLC.

### The browser placeholder

* `BrowserPlaceholder` - `Run` (one action between two blocking or observable
  points), the goroutine in `server.Serve`, one handler per request, and the
  caller; `serveErrors` and `pageRequests` are the channels of capacity one,
  `complete` the `sync.Once`, `runErr` and `openErr` the derived contexts. The
  opener's own steps are actions too, because its deadline and the server race
  with them. `InjectedOutcomes` adds an opener of which only the set of its answers
  is known, `EndedAtStart` says how the caller's context may have ended before `Run`
  reads it. A handler leaves its page in the buffer of the response (`WritePage`) and
  signals (`Deliver`); `net/http` sends the page when the handler has returned (`Flush`).
  `Run` may close the server in between, so that a run is completed although no byte of
  the page reached the client: the result claims a page request, and so does
  `CompletedMeansRequested`.
* `BrowserPlaceholderProperties`, `BrowserPlaceholderInvariant`,
  `BrowserPlaceholderProofs` - as above.

### The bounded observation

* `BoundedObservation` - the abstract specification of `webpath`, `webrecheck` and
  `dnshttpspath`, which observe one thing after the other under the caller's context and
  a deadline of their own. Its state is the two contexts, the evidence (what each
  recorded observation came to, by place) and the verdict. A place is never changed and
  nothing follows a cancelled observation; completing or stopping on the evidence needs
  live contexts, and a cancelled verdict a cancellation. `terminalContext` of all three
  reads the caller's error twice, whether it was cancelled and then whether it ended at
  all, so a look at the contexts is two steps here and in the three models: `Look` keeps
  the first read in `glance`, and the step that decides makes the others. A timeout
  needs a context that has ended and a first read that saw no cancellation of the
  caller. So a cancellation that comes between the two reads of the last look is
  reported as a timeout. The comments on `Status` (`webpath/types.go:28`,
  `webrecheck/types.go:30`, `dnshttpspath/types.go:26`) call a path cancelled whose
  caller cancelled it; they do not say by when. `KeepsLate` says whether a success that
  came after the end of a context is recorded: `webpath` keeps the hop it is in, the
  other two drop the success. `AnyAdapter` is an injected adapter that may claim a
  cancellation. The schedules, chains and targets are not part of it.
* Each of the three has its mapping at the end of its `...Properties` module: `Evidence`,
  `Verdict` (`Reported` in the DNS path) and `IsBounded`. The place of an observation is
  its hop, its turn of the schedule, or, in the DNS path, its target and its number in it.

### The web path

* `WebPath` - `Observe`, `observeChain` and `observeHop` as one sequential
  process whose contexts may end between any two of its steps. A URL is an atom,
  a response carries what `redirectTarget` makes of its `Location`: a URL, one of
  the three refusals, or no redirect at all. `SelectedCandidates` is the bounded
  choice of addresses. `hostname` is what normalization makes of the name asked for:
  one it accepts, one it refuses and keeps, or one it refuses and keeps in a form it
  would accept ("unstable", a name that ends in two dots).
* `WebPathProperties` - `Validate`, which recomputes redirects, fallback and
  conclusion from the hops, and the properties.
* `WebPathProofs` - the theorems.
* `Enumeration`, `EnumerationProofs` - a finite set as a sequence in a given order,
  for the two places that sort (`SelectedCandidates` here, `serviceAddressTargets` of
  the DNS path), and the proof that it is one.
* `MCWebPath` - the resolver answers TLC uses.

### The web recheck

* `WebRecheck` - `Observe`: `Schedule` takes the two candidate lists in turn, each
  attempt is one call of the web adapter between two context checks, and `Judge`
  does what follows it (refuse broken evidence, drop a late success, keep any other
  late outcome, go on). The lists are those `normalizeCandidates` leaves, without
  repetitions (`ListAssumption`); a bad list or host name is a bad request. A host name
  is one of the three kinds of `WebPath`.
* `WebRecheckProperties` - `Validate`, the inductive invariant and the properties.
* `WebRecheckProofs`, `MCWebRecheck` - as above.

### The DNS path of HTTPS

* `ServiceBindings` - `service.go`: which ServiceMode records the client could use,
  and the hosts they lead to. A parameter value is what its parse says.
* `DNSHTTPSPath` - `Observe` and `observeAddressTargets`. `ask` and `next` are the
  context checks before a question, `question` and `lookup` the question itself,
  `judge` and `weigh` what is made of the answer, so that a context can end on
  either side of each check. `accepted` is the resolver identity (endpoint and
  source) that the first answer fixes for all others. An answer is reduced to its
  effective name, its first AliasMode target and its ServiceMode records. `request` is
  one of the three kinds a host name is in `WebPath`.
* `DNSHTTPSPathProperties` - `Validate`, which recomputes chain, bindings and
  targets, and the properties. `DNSHTTPSPathProofs` - the theorems. `MCDNSHTTPSPath` -
  the records TLC uses.

### The probes

* `Probe` - what all probes share: the caller's context and the attempt's, which is
  its child with a timer of its own; the Result; and `Envelope.Validate`. `local`
  holds the variables of the `Observe` at work, a record that each probe fills as it
  needs, so that the command line can compose them over the same variables.
* `DirectProbe` - the dial, the interruption of the connection and `commitEvidence`,
  which `tlsobservation` and `sshobservation` have in common, line for line.
  `ConnectionDeadline` (the connection's own deadline) and `Interrupt` (the
  `AfterFunc` under which a handshake comes back when the context ends) are apart,
  because only the second reacts to a cancellation.
* `TLSObservation`, `SSHObservation` - the exchange after the dial and the
  package's `Validate`. A line of a server is its length, how far it agrees with
  the prefix `SSH-`, how it ends and what form it has; `SSHIdentification` reads
  such lines byte by byte as `readServerLine` does, with both limits, and has the
  parser and the rule of `Validate`, which adds the line end again.
* `WebObservation` - the trace callbacks of `net/http` are steps of their own, and
  go on after `RoundTrip` has given up.
* `FamilyCondition`, `SystemResolver`, `ResolverInventory` - the calls and the
  classification of their errors. What the platform answers is an input.
* `DNSMessage` - what a message is to the decoder (identified, cut short, damaged,
  answers, SOA, NS), the CNAME walk, the classification of the answer, and their
  counterparts in `Validate`. `DNSObservation` - `Observe` over the three
  transports; every blocking call is a phase, the closing goroutine an action.
  `DNSObservationProperties`, `DNSObservationProofs`, `MCDNSObservation` - as above.

### The command line

* `CommandLine` - one run of the program. `task` is the probe at work, over the
  variables of `Probe`; `UseInventory` is `resolverConfigForProvider`, which ends one
  probe and starts the next under the same context; `EmitResult` validates, prints
  and sets the exit code. The five commands that run a path or a batch are one
  command `path` here, which takes a host name that may be refused and returns any
  outcome its status may be turned into. `dns-https-path` also takes a resolver
  configuration (`main.go:497`) and with the provider `current` runs the inventory
  first; that step is modelled for `dns-observe` only, and `path` leaves it out.
* `ProbeContract` - the abstract specification: a caller, one verdict, one exit code.
  A confirmed verdict needs a live caller, a cancelled one a caller that cancelled.
* `CommandLineProperties` - the properties and the refinement mapping. A completed
  TLS or SSH exchange maps to `confirmed`, one that reached its target and learnt
  no more to `unconfirmed`, although the code calls both a success.
* `MCCommandLine` - the streams, messages and arguments TLC uses.

## Runs

| run | question | bounds |
|---|---|---|
| `tls_batch_seams` | Is every result valid, every target owned by one worker, every verdict the right one, and does `Observe` implement the contract, with anything behind the seams? | 2 targets on 2 workers, 2 attempts, requests of up to 3 targets (so that one is omitted) and one more distinct than that (refused); one code of each kind the scheduler tells apart; two adapter sources; a delay in and one out of the policy |
| `tls_batch_production` | With what `New` installs: no fault out of a race, the retry policy, termination, a cancellation is never lost | 3 targets on 2 workers, so that a worker takes a second job; 2 attempts; one code of each kind |
| `placeholder_platform` | Everything about the placeholder, safety and liveness, with the platform opener or an injected one | 2 requests: one to be accepted and one to be too many; a caller who may have cancelled before the start, and cancel or run out of time later |
| `placeholder_expired` | The first finding below | the same, and a deadline that has passed before the start |
| `webpath_adapters` | Is every result valid, whatever resolver and web adapter answer? Do the limits alone end the path, and is it a bounded observation? | 4 URLs and 2 redirects, so that limit and loop are both reached; 1 candidate per family out of 4 addresses (one private, one too many), or none public; a name that is accepted and one that is refused |
| `webrecheck_production` | With the adapter of `New`: valid results, the alternating schedule, the bounded observation (late successes), cancellation, termination | 5 addresses, lists of up to one candidate more than the limit of 2, refused ones among them; a name that is accepted and one that is refused; two adapter sources |
| `dnshttpspath_observers` | Is every result valid, with any DNS observer? Chains and targets; is it a bounded observation? | 4 names and 2 followed aliases, so that loop and limit are both reached, over CNAMEs too; 3 usable hosts for 2 targets; 2 resolvers up to symmetry; a request that is accepted and one that is refused; a caller who may cancel |
| `dnshttpspath_cancelled` | The second finding below | the same, 1 resolver |
| `dnsobservation` | Is the evidence of every message valid, does the CNAME walk end where it must, does the probe come back? | all sequences of up to 3 records over 3 names, which has every loop, fork and dangling alias of two hops; every header, section and damage with up to one record; one record more than the limit; all three transports, every kind of refused request |
| `commandline` | Do all probes keep the contract of the command line, whatever races? | every command; SSH limits of 8 bytes, 2 preamble lines and 6 preamble bytes, with lines on, under and over each; up to 2 resolvers; four DNS messages |
| `commandline_hostname` | The third finding below | the same, and host names that are not stable under normalization |
| `commandline_server` | The fourth finding below | the same, and unusual certificates, mailboxes, HTTP versions and line ends |

The passing runs of the three paths and of the command line leave out host names that
are not stable under normalization: `Validate` normalizes the input of a result again
and refuses it then, which is what `commandline_hostname` shows.

In `dnshttpspath_observers` the caller has no deadline of its own. The command line
gives it one equal to the path's; `terminalContext` treats both alike.

Two workers and two targets are enough for the races of the batch: its shared
state is touched by one worker per target, and a third worker adds nothing that
two do not show to each other; the theorems do not depend on it. Time is not
counted: a delay is inside or outside its bounds, a deadline passes or does not.
The SSH limits are small so that TLC reaches both sides of each; the reader
compares lengths with them and with nothing else.

`CHECK_DEADLOCK` is left on everywhere. `Done` lets a finished model stutter, and
in the placeholder only when the server goroutine is gone too, so a goroutine
left waiting would be a deadlock.

### Fairness

* Goroutines that can run do run, a cancelled parent reaches its children, timers
  fire: weak fairness on the steps of `Observe`, `Run`, workers, server, handlers,
  and on `Propagate`/`BatchDeadline`/`RunDeadline`. `net/http` ends every response whose
  handler has returned (`Flush`).
* `tls.Observe` is trusted to return only once its context has ended; nothing is
  assumed of an attempt while the batch context is active.
* The launch command of the opener is trusted to end once its context has:
  `exec.CommandContext` does that on macOS and Linux. `ShellExecute` on Windows
  does not take the context; there termination rests on the shell answering.
* The caller need not cancel, a browser need not come, an injected observer owes
  nothing. `webpath` has fairness on its own steps only (each probe has a timeout
  of its own) and none on the path deadline: `Terminates` shows that the limits
  alone bound the path. `webrecheck` is alike: its schedule alone bounds it. No
  liveness is checked of `dnshttpspath`.
* Probes: weak fairness on what the code, its timers and the `AfterFunc`s do by
  themselves (`Progress`), which no `Observe` can do for ever. No server has to answer
  or to close, and the deadline that is set on a connection is not relied on, so that
  `InterruptEndsCommand` and `EndedAttemptReturns` rest on the interruption alone. The
  dialer, the resolver and the HTTP client are trusted to return once their context
  has ended.

## What is proved

The theorems hold for every value of the constants: any number of targets,
workers, attempts and requests, any set of codes and sources.

`TLSRetryBatchProofs` proves `IInv`, checked by TLC first, and from it type
correctness, validity of every result, ownership, the two theorems about
verdicts and the retry policy. None of these is inductive alone. A result is
valid because of what held of each target while a worker ran it, hence
`WorkerInv` (what a worker knows at each place of `runTarget`) and `TargetInv`
(what a target looks like that nobody runs); these need `OwnershipInv`, because a
step of one worker must not disturb another's target; that a completed verdict
covers every target needs `ContextInv` (work is left undone only once the context
ended, and that ended by cancellation only with the caller or after a fault) and
`PhaseInv`. `Validate` asks that the evidence come from one source, which is
`EvidenceInv`. The proof has one lemma per action and conjunct it can disturb,
with frame lemmas for the rest.

The second half of `TLSRetryBatchProofs` proves that the batch implements its
contract. Each
action of the batch maps to one step of the contract or to none: a recorded attempt
to an entry of a log, a fault under the mutex to the fault, the return to the
verdict, and taking a job, waiting or `cancel()` to nothing. The step lemmas use
`IInv` in both states, because the contract speaks of whole logs where a worker
knows its own target, and `QuietInv`: nothing is published before `Observe` returns,
and nothing has failed or ended before the workers start. `ProductionHasNoFaults` says
that with what `New` installs the batch never reports `invalid_probe_evidence` or
`scheduler_failure` by mistake; its `NoFaultInv` adds to `IInv` that nothing has
failed and that an answer on its way to `Record` is one `validateObservation` accepts.

`ObserveIsBounded` of `WebPathProofs`, `WebRecheckProofs` and `DNSHTTPSPathProofs` says
that each of the three implements `BoundedObservation`: every step maps to one of its
steps or changes nothing it sees. A hop, attempt or answer that is kept takes the next
place of the evidence, a step that returns maps to the verdict, in the DNS path together
with the answer that caused it, and asking, dialling and following map to nothing. What
these proofs need beyond the `IInv` of each module is in `CutInv` (`VerdictInv` in the
recheck, whose loop knows enough): while `Observe` runs there is no verdict yet, and
what was cancelled was cancelled by somebody who could. In the web path two functions
and a fallback lie between the observation and the verdict, so there `CutInv` also says
that a cancelled hop, or a context that has ended, is what ended the chain, and
nothing can follow it. A `glance` maps to itself: a look of the three models is a look of
the abstract one, and that no verdict has been given is what `CutInv` and `VerdictInv`
say. Two consequences have theorems of their own,
`LateSuccessIsDropped` and `CompletionIsInTime`.

`WebPathProofs` proves that every result of the web path passes `Validate` if the host
name is stable under normalization, and that no chain asks a URL twice. `Validate`
recomputes redirects, fallback and conclusion from the recorded hops, so `IInv` says
where each hop comes from: the hops of a chain lead to one another (`HopsInv`), the URLs
seen are those of its hops and the current one (`SeenInv`), the current one follows from
the last hop and there is room for it (`WalkInv`), a hop under way is valid and only
failed attempts precede the next one (`HopInv`), and a chain that has ended did so for a
reason its hops explain (`EndInv`).

`EnumerationProofs` proves that `Enumerate` lists a finite set, each member once and in
the given order: the rank of a member is the number of those before it, and ranks are
a one-to-one map onto the places of the sequence. `Least`, that a set of numbers has a
least member, stands in for induction in the modules that use it.

`DNSHTTPSPathProofs` proves the same for the DNS path, under the same assumption on its
request. While `Observe` follows the chain
every answer but the last led to the next one and came from one resolver (`LinkInv`),
there is one alias for each of them (`WalkInv`), and what is `seen` are the names asked
for and the names CNAME records led to, with the next name not among them (`VisitInv`),
which gives `ChainNeverRevisits`. Once it asks for addresses the list of targets is the
one `Validate` recomputes from the last HTTPS answer, and every observation in it is
its target's own and from that resolver (`TargetInv`, `AnswerInv`). `PreferredTargets`
rests on lemmas about `service.go`: the stable sort is a strict total order
(`BeforeOrders`), the targets have each usable host once, under its preferred record
(`ServiceTargetsListed`), and if only a prefix is kept then none of the hosts left out
is preferred to a host that is kept, and their number is what `ServiceTargetsOmitted`
says (`PrefixPreferred`). That a failure outranks an incomplete answer follows from the
same invariant.

`BrowserPlaceholderProofs` proves type correctness and four independent strengthenings.
`ServerInv` ties the place of `Run` to the server goroutine and to whether its one value
is still in the channel, which gives `NeverWaitsInVain` and `ListenerReleased`.
`RequestedInv` says that everything on the way to a completed result comes from a
request whose page the response took. `CauseInv` ties the reason of closing to the
context that ended, which gives `VerdictHasCause`: for any opener and any caller, a page
that comes late does not complete the run, and only the user cancels it. `ResultInv`
follows the attempt, the notification and the reason of closing through the phases; it
needs an opener that reports a cancellation only of its context, as the platform opener
does, and a caller whose deadline has not passed when `Run` starts. The finding shows
that the second assumption cannot be dropped.

`WebRecheckProofs` proves `IInv`, which says that the attempts are a prefix of the
schedule from one adapter and what is known at each place of the loop, and from it
type correctness and validity of every
result for any lists and limits. The last needs a host name that is stable under
normalization, as in the two paths, and the adapter of `New`: a web
adapter that reports a cancellation although only a deadline passed would make a
result that `Validate` refuses. `SourcesAreBalanced` compares how often the two lists
were tried: `TurnsInv` counts the turns of each list in a prefix of the schedule, step
by step, since the attempts are such a prefix.

`DNSObservationProofs` proves type correctness, that the probe's own closing of the
connection is never blamed on network or server, and validity of every result. The
second needs `OwnInv`: while the error of a call is being looked at, its cause is the
probe's own only if the attempt's context has ended, and `classifyContextFailure` is
asked before the error is (`transport.go:93`). The third follows request, message and
evidence through the phases (`RequestInv`, `EvidenceInv`); the CNAME walk itself may
stay closed, because `Observe` and `Validate` ask the same function. It assumes
`Stable`, that every name is left alone by normalization; `commandline_hostname` and
`commandline_server` show that this assumption cannot be dropped.

`ChainEndHolds` needs no such assumption. It compares `followCNAMEs`, which walks with a
set of names seen and a bound on its turns, with a definition by paths: the longest
sequence of names along the aliases that repeats none. `Gone` says of the walk after n
turns that the names seen are those of a path, how long it is, and why it is not
longer (`GoesOn`, `TurnsGo`). Of two paths the longer continues the other, because the
first record of a name decides its target (`PathsAgree`), so a path is the longest when
nothing follows its end, or only a name on it (`DeadEnd`). The steps over numbers of
turns and of names are searches for a least counterexample (`Least`). `MadeInv` adds
that the evidence is made from the one response that arrived.

`CommandLineProofs` proves that every behaviour of the command line, whichever probe it
runs, is one of `ProbeContract`, and four properties. `IInv` says for each probe what is
known at each of its places: which context may have ended by then (`ContextInv`), what
its local variables hold (`LocalInv`), and what its result says of both (`ResultInv`). A
verdict of confirmed then has a live caller, and a probe's own end is not blamed on the
network. `EveryDocumentIsPrinted` proves that `Validate` accepts every result under
`Sound`: names are stable under normalization, the dates of a certificate are in order,
a server speaks HTTP/1.0 or 1.1, and an identification line that parses still does as it
is reported. These are the cases of `commandline_hostname` and `commandline_server`, and
without any of them the property is false. `IdentificationIsByTheBook` compares the
byte-wise reader of SSH lines with the rule about whole lines, for all streams and
limits: the invariant of the reader is about the lines it has passed, and the first line
that decides is a least counterexample, so that no induction over the stream is needed.

The named `ASSUME`s on the constants (limits are natural numbers, the backoff
interval is not empty, context errors are the two of the `context` package, a DNS
message has flags, a response code, counts and a sequence of answers, and the
arguments, peers, answers and ServiceMode records are of the types the decoders
return) are evaluated by TLC in the runs.

## What is only model-checked

* Liveness: the prover cannot reason about fairness and ENABLED. This concerns the
  properties with `<>` and `~>`: `Terminates` of four components, `CancelEndsBatch`,
  `HandlersFinish`, `CancellationWins`, `EndedAttemptReturns`, `InterruptEndsCommand`
  and `CancelledInventoryCancels`. Every invariant, every action property and every
  refinement of the passing runs is also proved. The safe half of `CancellationWins`,
  that a cancellation before the last look is not reported as a completion or a timeout,
  is part of `IsBounded`; that of
  `CancelEndsBatch` is part of the batch's contract.
* In general, induction over data and `RECURSIVE` operators are out of the
  prover's reach; modules meant for proofs use neither.

## Findings

`placeholder_expired`: `Run` called with a context whose own deadline has passed
returns `stopped/placeholder_timeout` without URL and opener evidence
(`runner.go:115`), and `Validate` rejects exactly that
(`validate.go:107`). The command line makes its deadline of 60 seconds just before
the call (`main.go:213`), so its users do not meet it; another caller of the
`Runner` interface may.

`dnshttpspath_cancelled`: the context may end after the check of
`dnshttpspath.Observe` (`observer.go:152`, `280`) and before
`dnsobservation.Observe` reads it (`transport.go:44`). The observation then has
no resolver endpoint, because that is set later (`transport.go:58`); its own
`Validate` allows that. `validateObservation` (`observer.go:357`) compares it with
the endpoint of the first answer and `Observe` stops with `invalid_probe_evidence`,
before it looks at the context that was cancelled. A user who interrupts at that
moment is told that the evidence is broken; a path timeout is lost in the same way.
`CancellationIsReported` asks for the least the comment on `Status` (`types.go:26`) can
mean: a path whose own context the caller cancelled does not stop for broken evidence.

`commandline_hostname`: for `dns-observe ... example.com..` the package trims one dot
and refuses the rest. The result that says so carries `example.com.`, which
`Validate` (`dnsobservation/validate.go:91`) normalizes once more, and refuses because
it changes. The program prints an error and no document, where `README.md:48` and
the usage text (`main.go:843`) promise one for each valid command. `web-observe` does
the same (`webobservation/validate.go:74`), and so do `web-path`
(`webpath/validate.go:44`), `web-recheck` (`webrecheck/validate.go:41`) and
`dns-https-path` (`dnshttpspath/validate.go:38`).

`commandline_server`: four things a server may send give a successful observation
that `Validate` refuses, so that nothing is printed: a certificate whose dates are
equal or reversed (`tlsobservation/validate.go:126`), an SOA mailbox that
`normalizeHostname` refuses (`dnsobservation/validate.go:391`), an HTTP/1.x version
other than 1.0 and 1.1 (`webobservation/validate.go:169`), and an SSH-1.99 line at the
length limit without its carriage return, because `Validate` parses it with one
added (`sshobservation/validate.go:88`). Each of the constants `LeafOrders`,
`Unhostable`, `Protocols` and `Streams` violates the property alone, with the others
as in `commandline.cfg`; the run has them together.

A remark on the code that needs no run: the last check of `tlsretrybatch.Observe`
(`observer.go:184`), for targets left "without a terminal context", is unreachable;
`FaultIsRecorded` and its theorem say so.

## What is not modelled

Message decoding, address and host-name character rules, TLS and HTTP wire
details, HTML, the platform's resolver configuration: byte work or pure input and
output, whose results are inputs of the models. The platform collectors of
`resolverinventory` are commands and system calls with a parser each. Durations,
details, timestamps and the platform field of a result are left out. Of `dnsobservation`
the configuration of resolvers and the parameters of service bindings are left out;
the command line names only resolvers that are configured, except `current`.

Of the command line: usage errors, which exit with 2 before anything runs; errors of
the factories, which the fixed configurations cannot cause; a broken pipe, which
may end the process by a signal; the resolver inventory that `dns-https-path` may run
first. A write to stdout that fails is modelled.

`DNSHTTPSPath` takes any observation its observer may return and does not depend on
the model of `dnsobservation`. The zone of a link-local resolver (`main.go:792`) is
listed as a hazard without a property: addresses are opaque here.

## Plan

1. `TLSRetryBatch`, contract, invariant, proofs; `BrowserPlaceholder`; `WebPath` -
   done. These hold all goroutines and channels of the system and its most
   intricate `Validate`s.
2. `WebRecheck` (schedule and late success, with proofs), then `DNSHTTPSPath` (alias
   chain and address observations) - done. What the
   sequential orchestrators share is the abstract specification `BoundedObservation`,
   which all three are proved to implement. The batch, whose observations overlap, has
   a contract of its own.
3. The probes, one exchange each, with the commit checks and the classification of
   errors - done. The SSH line reader is checked against a rule about whole lines, the
   CNAME walk against the longest path without a repetition.
4. `CommandLine` over all probes, exit codes included, and the contract that every
   command implements - done.
5. Proofs: `ImplementsContract` of the batch and of the command line, and the safety
   invariants and action properties of all components - done, and so are the safe
   halves of the liveness properties about contexts that ended: what returns after an
   end is not a success.
6. The adapter assumptions of the orchestrators as properties of the probes they call.
   One of them, a cancelled observation only under a cancelled context, is already part
   of `ProbeContract`.
