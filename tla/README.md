# Specifications of the Kalki filing radar

TLA+ models of Kalki Market Intelligence, a local-first radar for SEC filings: Python worker
processes over one PostgreSQL database, a local model server, and Discord. The modules are written
from the code in `src/kalki_market_intelligence/` and from the constraints and triggers of
`migrations/`; where a document and the code disagree, the module follows the code and the
disagreement is a run that ends in a counterexample.

Every model follows the same conventions. One action is one database transaction, or one stretch of
worker code between two transactions, with everything it changes. Processes have a stage (`pc`) named
for what they are about to do. Clock readings are kept as the comparisons the SQL makes with them:
a row is `due` (`next_attempt_at <= now`) or `stale`/`expired` (older than its lease), and separate
actions let time pass. Model answers, HTTP results and parsing are nondeterministic outcomes. A
definition that no specification uses, placed before one it resembles (`ClaimableAnyStatus` before
`Claimable`), is that operator with a plausible mistake in it; PROJECT.json names the property that
notices each one.

## 1. The system

### Components

| Component | State it keeps | Operations | Interacts with |
|---|---|---|---|
| Candidate queue and radar worker (`radar/worker.py`, `radar/store.py`) | `research_candidates` (status, attempts, next attempt, updated at), retry reservations, screening decisions, verification reviews and dispositions, briefs, counters | discover, requeue expired, claim, store the tier decision, reserve the analyst retry, record a terminal outcome, retry or exhaust, count | SEC source, analyst, verifier, notifications, human leads (same process, same loop) |
| Human leads (`research/`, `radar/research.py`) | `research_human_leads`, `research_analyst_attempts`, results and delivery heads | enqueue, claim, start and finish an attempt, recover stale attempts, record the result, deliver it | Discord gateway, analyst, radar worker |
| Notifications (`notifications/`) | `research_notification_deliveries`, suppressed keys in memory | list pending briefs, send, record the delivery | Discord webhook, briefs |
| Ownership, financing and accounting sidecars (`radar/*_worker.py`, `providers/sec/*_store.py`) | one job table each with receipts and routing decisions | recover stale, discover within a backlog, claim, complete, complete without intelligence, fail | SEC daily index, convergence service, filing change store |
| Prospective outcomes (`prospective/`) | plans, jobs, attempts, outcomes | enrol, claim due, retry, complete, requeue stale | briefs, market data provider |
| Resource governor, adaptive compute (`radar/resource_governor.py`, `radar/adaptive_compute.py`) | a chain of receipts | observe, decide | none: shadow only |
| Analysis cache and amendment delta (`radar/analysis_cache.py`) | cache receipts, section manifests | decide reuse, decide delta | filing change comparison |
| Filing change (`radar/filing_change_lifecycle.py`, `forensics/filing_change.py`, `providers/sec/filing_change.py`) | claims, comparisons and receipts | select a prior filing, compare, persist, replay | sidecars |
| Focus universe (`radar/focus.py`) | append-only membership events | add, remove, project | order of the candidate claim |
| Evidence budget, extraction, screening (`radar/evidence_budget.py`, ...) | none | select sections, qualify | radar worker |
| Measurements and telemetry (`radar/measurements.py`, ...) | hourly measurement receipts, pipeline events | reconcile, append | every store operation |
| Event novelty, tiers, contradictions, convergence (`forensics/`) | lineage receipts, contradiction receipts | fingerprint, compare, route | radar worker, sidecars |
| Analyst pipeline and providers (`analysis/`) | attempt receipts (through the store) | ask a role, repair once, validate | Ollama or llama.cpp |
| Verifier (`verification/`) | reviews (through the store) | review, arbitrate | radar worker |
| Web application (`web/`) | sessions, login attempts, operation ledger | log in, admit a request, read | every table, read only |
| Predictions, signals, quantitative engine, backtesting | append-only ledgers or none | pure calculations over evidence in knowledge order | each other |
| Providers, benchmarks, configuration, scripts | files, settings | fetch, measure, back up | - |

### How they interact

The radar worker is one loop (`run_once`): poll the SEC index, requeue expired candidates, process at
most `worker_batch_size` candidates, process one human lead, deliver pending notifications. Every step
is its own transaction; nothing is held in memory across cycles except the notifier's suppressed
keys. The sidecars, the prospective worker and the Discord listener are further processes over the same
database. Compose restarts all of them (`restart: unless-stopped`). Nothing prevents two containers of
the same service, and the SQL (`FOR UPDATE SKIP LOCKED`, leases) is written for that, so the
models take the set of processes as a constant and the safety properties that should survive two
processes are checked and proved with two and with any number.

### What is hard

* A process loses its row and does not know it: leases (30 minutes for candidates and attempts,
  15 minutes for outcomes, one per sidecar store) expire while a slow model call runs.
* A crash between two transactions: between a claim and its outcome, a post and its ledger row, an attempt
  row and its completion.
* A failure after the commit that already decided the item, inside the same `try`.
* The same rule written twice, in Python and in a trigger, that must accept the same things.
* Counters at their limits: attempts at the CHECK bound, batch windows (`LIMIT 20`, `LIMIT 100`,
  `LIMIT 24`) whose head is occupied, a backlog bound.
* Eventually something must happen to every filing, lead, job and brief.

The full list, each at its line with the properties that watch it, is under `hazards` in
PROJECT.json.

### What makes each component correct

* Candidate queue: a filing is decided at most once; decision, disposition and brief agree; the worker on a filing owns its row; the semantic retry is
  spent once; every filing is decided.
* Human leads: a hypothesis is investigated once; roles and repairs happen in order; a completed attempt
  never changes and the result lists the attempts that led to it; recovery resolves the lead of what it
  closes; results are delivered, once.
* Notifications: a brief is posted once; a settled brief is never sent again; every brief is settled.
* Sidecars: a receipt exists exactly for a completed job; every row change is one the lifecycle trigger
  admits; every listed job is decided.
* Prospective outcomes: one immutable outcome per publication and horizon that retains every attempt; six
  attempts at most; every enrolled plan gets an outcome; every eligible publication is enrolled.
* Governor: inference resumes only after three readings in a row without a blocker; the decision always
  satisfies the contract of its receipt.
* Routing: no compute without a reason, and none refused that the tier asked for.
* Analysis cache and delta: reuse only of a boundary that agrees in every field a call fills in and was known in time; a delta only
  when applying it to the prior gives the current filing.
* Filing change: a comparison is with the latest related prior of those listed, stored once, and complete within its
  bounds; a better prior is missed only when newer snapshots fill the listing.
* Novelty: facts are withheld from the model only if an earlier disclosure showed them; all attempts on a
  filing use one decision.
* Evidence and sections: within the budget, not overlapping, and nothing dropped without a reason.
* Financing terms and accounting events: each rests on quoted evidence, a refusal has a cause in the
  text, evidence is left out only for want of room, a comparison looks back only.
* Contradiction receipts: retried receipts agree, a trade counts once, absence is claimed only when proved.
* Web: a nonce admits one login, an ended session stays ended, the log and the sessions agree.
* Predictions, outcome science, measurements: no look-ahead, nothing counted twice, what was stored stays true, and what
  refuses a measurement set is known.
* Signals: high risk is never concealed, and the traces name the evidence.

## 2. Modules

| Module | Of | Theorems in |
|---|---|---|
| `FilingLifecycle` | abstract promise of the candidate queue, implemented by `FilingQueue` | `FilingQueueProofs` |
| `FilingQueue` | candidate queue, worker, verifier protocol | `FilingQueueProofs` |
| `BoundedRetries` | abstract promise of a queue of jobs with limited attempts, implemented by `SidecarQueue` and by `ProspectiveOutcomes` | `SidecarQueueProofs`, `ProspectiveOutcomesProofs` |
| `HumanLeads` | leads, attempts, results, delivery | `HumanLeadsProofs` |
| `Notifications` | webhook notifications | `NotificationsProofs` |
| `SidecarQueue` | the three sidecar queues | `SidecarQueueProofs` |
| `ProspectiveOutcomes` | outcome jobs | `ProspectiveOutcomesProofs` |
| `ResourceGovernor` | the governor's decisions over observations | `ComponentProofs` |
| `EventNovelty` | disclosures, lineage, what a filing may withhold | `ComponentProofs` |
| `ComputeRouting` | tier and compute route | `ComponentProofs` |
| `AnalysisReuse` | cache reuse and amendment deltas | `ComponentProofs` |
| `FilingChange` (extends `AnalysisReuse`) | snapshots, prior selection, comparison receipts | `FilingTextProofs` |
| `SectionExtraction` | sections of a text, for comparison and for evidence | `FilingTextProofs` |
| `EvidenceSelection` | keyword windows and budgeted windows | `FilingTextProofs` |
| `Convergence` | contradiction receipts and the job that persists them | `ComponentProofs` |
| `FinancingEvidence` | financing excerpts, terms, receipts | `FilingTextProofs` |
| `AccountingEvents` | accounting evidence, events, comparison over time | `ComponentProofs` |
| `WebSessions` | nonces, limiters, sessions, audit log | `ComponentProofs` |
| `Predictions` | ledger, evaluation, due job, report | `ComponentProofs` |
| `Signals` | ruleset of the ordinal signal | `ComponentProofs` |
| `OutcomeScience` | snapshots and strata over outcomes | `ComponentProofs` |
| `Measurements` | hourly sets and latency receipts | `ComponentProofs` |
| `MCComponents` | one instance of the fifteen modules that share no state with the queues | `FilingTextProofs` |

`InductionLemmas` holds what several proof modules need: induction over the naturals, recursive functions, sums
over a finite set.

Left for later: the delivery of a result at least once as an abstract specification, and the SEC client's rate limit and
retry loop.

## 3. Modules and code

### FilingQueue

`status`, `attempts`, `due`, `expired`, `aged`, `escalated` are columns of `research_candidates`;
`reserved`, `decision`, `disposition`, `brief` are the append-only ledgers keyed by the accession number.
Each worker has a stage, a `job` (the claimed filing, the attempt number, whether a reconsideration was
loaded, the outcome it is about to write, the verdict of its last review, the kind of its last
error), the verifier setting it started with and the claims of its batch.

`Start`, `Discover`, `Requeue` are the beginning of a process and of a cycle; `Claim` takes the head of
the queue in the order of the SQL (aged first, then focus and escalation, then discovery order),
`ClaimFails` is the CHECK on `attempts`. `Screen`, `Analyze`, `FirstReview`, `ReserveRetry`, `Reanalyze`,
`SecondReview` are the stretches of `run_once` up to the terminal transaction `Write`, whose plan is one of
seven outcomes (`SkipPlan`, `DeterministicPublication`, ...); `LedgersAccept` collects the unique keys
and the triggers of migrations 0004, 0005 and 0013, and `WriteRefused` is their exception.
`Count` is `increment_counter` after the commit. `HandleRetry`, `HandleExhausted`, `HandleRefused` are
the `except` block. `Crash` and `HandlerAborts` lose the job, `LeaseExpires`, `RetryFallsDue` and `Ages`
are time.

### HumanLeads

A message is its lead and its result, which share its identity. `Post`, `OnMessage`, `Connect`,
`ReplayMessage` are the gateway and the one history replay of a process; `Claim` to `Complete` are
`_process_one_human_lead`; `StartAttempt`/`FinishAttempt` bracket each model call with the rows of
`research_analyst_attempts`; `Recover` is `_recover_stale_analyst_attempts`; `ClaimDelivery`,
`SendResult`, `ConfirmDelivery` are the delivery loop. `replay`, `inbox`, `sending` die with the
listener, `job` with the worker.

### Notifications

A brief is its place in the order of publication and `published` counts them; `recorded` holds the
ledger rows, `suppressed` the notifier's memory. Rows that settle nothing (deferred, failed, uncertain) are one
kind, `unsettled`: no query tells them apart. `BeginPass` reads the pending briefs with their limit, `Check` is `notification_is_terminal`,
`Duplicate`, `Settle`, `Defer`, `Refuse` are the branches of the notifier, `Record` and `RecordFails`
`append_delivery` with its partial unique index.

### SidecarQueue

`status`, `attempts`, `due`, `stale` are a job row, `pair` the receipt with its routing row. `room` is the
capacity `discover` counted, so that the count and the insert are two steps. `Current(w)` is the
`WHERE status = 'processing' AND attempts = %s` of every outcome. The three stores differ in
whether a document may hold nothing (`AbsentOutcomes`), in limits and in names.

`Retries` is `BoundedRetries` seen in a row: the attempts are those spent, a terminal status is the result, and
the receipt pair is the record of a completed job. `JobsEndOnce` says that everything else a process does is a stutter.

### ProspectiveOutcomes

A plan is a publication and a horizon; `status`, `attempts`, `due`, `stale` are its job row, `receipts` and
`outcome` its append-only ledgers, `passed` the plans whose target close is twelve hours past. `RequeueStale`,
`List`, `Enroll`, `EndEnrollment` are the start of `run_once`: `Window` is the query of
`publications_for_enrollment`, and each horizon is enrolled in a transaction of its own. `Claim` marks the row
and leaves its attempts; the attempt is spent by its receipt, in `Retry` or `Complete`. `ReadAttempts` reads the
earlier receipts in a transaction before the one that writes the outcome, so `CompleteAccepted` collects the
unique keys, the trigger that compares the retained attempts (`RetainsAttempts`) and the `WHERE` of the final
update (`Current`). `Dies` is the exception nothing catches: the transaction rolls back, the process ends and is
started again.

Here too `Retries` is `BoundedRetries` seen in the rows of a plan, with its immutable outcome as the record of either result
(`PlansEndOnce`). The two queues have different code and different tables and keep the same promise, except that
no result of a plan is tied to the last attempt: a failure may be terminal at once.

### The other components

Those modules are of two kinds. A pure rule is a variable that holds the call in progress, a step that returns
from it for every argument in its bounds, and the result computed by the operators of the module, which
carry the source's names (`ChooseRoute`, `DecideAmendmentDelta`, `SelectWindows`, ...). A component with state has its
tables or dictionaries as variables and a step per transaction or locked section.

* `ResourceGovernor`: a reading is its place between two limits; the receipt is the `gov...` variables, `Observe`
  one call of `decide_resource_governor`, `GovernorReceiptReconciles` the validator of the receipt. `goodStreak`
  and `swapSteady` are history: what the observations were, not what the governor counted.
* `ComputeRouting`: `ChooseTier` and `ChooseRoute`, with the validators of the input and of the receipt.
* `AnalysisReuse`: `LookUp` is `decide_cache_reuse` over candidates, `DecideDelta` is `decide_amendment_delta`
  over section manifests; `DecisionReconciles` is the validator of its result.
* `FilingChange`: `FcFetch`, `FcLookUp`, `FcList`, `FcAppend`, `FcComplete` are one attempt of a worker on a
  filing, each in the transaction the code uses; `Listings` is what the query with its `LIMIT` may return of the candidates; `FcLeaseExpires` takes the job from a live worker and `FcCrash`
  ends one.
* `SectionExtraction` and `EvidenceSelection`: a text is a sequence of tokens, or its length and its spaces.
  What a pattern matches is part of the input, so that every arrangement of matches is tried. Candidates of one rank are
  taken in any order (`Rankings`): the code's sort keeps the order in which they were found.
* `EventNovelty`: `NvRetrieve` to `NvNextAttempt` are `_apply_event_novelty`; `NvInsertLineage` is the transaction
  over both ledgers, `ReplayConflicts` its exception. Time is the order of retrievals.
* `Convergence`: `CvProduce` builds the requests of a filing, `CvPersist` appends one receipt, `CvComplete` ends the
  job; `CvMidnight` moves the knowledge cutoff of the next attempt. `CvAssess` evaluates a dilution claim directly.
* `FinancingEvidence` and `AccountingEvents`: excerpts from hits, then terms or events from excerpts. A text says which phrases
  start at which of its words; a phrase has a length (`FtPhrase`) and may run over several words. `ParseResult` includes the
  first step of the worker, which validates the receipt again from its record: that is where an excerpt of too many signals,
  which `model_copy` had let through, is refused. The second module reads a text character by character: `Regions`,
  `HitWindow` and `KeptWindows` are the stretches read, the window around a hit and the windows the budget leaves, passing over
  those that do not fit. It also has the two processes that fetch, read the earlier receipts and append, in any order of filings.
* `WebSessions`: each thread is a request between its clock reading and its answer; `webStore` says which of the
  two backends is used. `AuditFails` is an append of the database log that raises after the session was changed. `webIssued`, `webEnded` are history.
* `Predictions`: `AppendPrediction`, `AppendCorrection`, `AppendOutcome` are the ledger; `EvaluationReport` and
  `OutcomeJob` are computed from it.
* `Signals`: the request grows by metrics and analyses, `Signal` is computed for each. A finding is known by where it was
  `Said`, and `Rank` is its place among those kept, in the order the engine reads them.
* `OutcomeScience`: rows are stamped in one step and committed in another, a snapshot reads what is committed.
* `Measurements`: `BeginMeasurement` reads the clock, `CommitMeasurement` is the transaction; the other steps are
  the rows the radar stores in between, a delivery with the time of its post, which may be long past. Time is in milliseconds:
  `Milliseconds` is the conversion in Python, which loses one for the durations in `MeShort`, and `DurationsMatch` the exact
  one of the trigger of migration 0021.

## 4. Runs

| Run | Module, configuration | Checks | Shows |
|---|---|---|---|
| `queue_one_worker` | `MCFilingQueue`, `FilingQueueOneWorker.cfg` | `TypeOK`, `HolderOwnsRow`, `EveryFilingDecided` | Two filings, one worker process that may crash or abort a cycle at any point, the verifier on or off at each start: a working process always owns its row, never repeats an analysis whose retry is reserved, and every filing is decided unless a crash in the last attempt strands one. |
| `queue_two_workers` | `MCFilingQueue`, `FilingQueueTwoWorkers.cfg` | `LedgersAgree`, `DecidedOnce` | Two processes that may take the same filing from each other when the lease expires, with crashes and failed counter updates: the append-only ledgers stay consistent and implement the abstract lifecycle. |
| `queue_exhaustion` | `MCFilingQueue`, `FilingQueueExhaustion.cfg` | `ExhaustionIsDecided` (violated) | A crash during the last attempt leaves a filing that can neither be claimed nor be decided. |
| `queue_refutation` | `MCFilingQueue`, `FilingQueueRefutation.cfg` | `ArbitrationApprovalStands` (violated) | An approval reached by refuting a challenge deterministically is refused by the disposition trigger. |
| `leads` | `MCHumanLeads`, `HumanLeads.cfg` | `InvestigatedOnce`, `DeliveriesFollowResults`, `LineageStands`, `InterruptedLeadsAreResolved`, `AttemptsCloseOnce`, `LeadsComeToAnEnd` | Two messages with one hypothesis, two workers either of which may be slower than its lease, a listener, and one crash, restart, failed call or lost event anywhere: one investigation, whose recorded result lists attempts that never change and is never lost, every attempt is closed, and a listener restart alone loses no message. |
| `leads_stranded` | `MCHumanLeads`, `HumanLeadsStranded.cfg` | `LeadsAreResolved` (violated) | A worker that crashes while it holds a lead with no open attempt leaves the lead analyzing for ever. |
| `notify` | `MCNotifications`, `Notifications.cfg` | `PostedOncePerProcess`, `SettledStaysQuiet`, `BriefsAreNotified` | Two processes and two briefs, refusals, ambiguous responses, a lost ledger row and a crash anywhere: one post per brief and process life, no send begun after a terminal row, and no brief waits for ever. |
| `sidecar` | `MCSidecarQueue`, `SidecarQueue.cfg` | `ReceiptsMatchOutcomes`, `JobsEndOnce`, `TriggerAdmits`, `JobsAreDecided` | Two jobs, a backlog of one, two processes that take a job from each other when the lease expires, a crash and an index entry that conflicts with a stored row: each job is one series of attempts that ends once, no update is one the lifecycle trigger refuses, receipts exist exactly for completed jobs, and every listed job is decided once leases stop expiring under live workers. |
| `prospective` | `MCProspectiveOutcomes`, `ProspectiveOutcomes.cfg` | `AttemptsAreGapFree`, `OutcomeRetainsAttempts`, `PlansEndOnce`, `OutcomesAreFinal`, `PlansAreEvaluated`, `EnrolledUnlessCrowdedOut` | Two processes that can hold the same attempt number of a plan when a lease expires, one crash, and a publication that cannot be mapped: each plan is one series of attempts that ends once, attempts stay gap-free, outcomes retain them all and stand, every plan is evaluated, and a crash between two horizons loses neither. |
| `prospective_crowded` | `MCProspectiveOutcomes`, `ProspectiveOutcomesCrowded.cfg` | `EveryDossierEnrolled` (violated) | As many unmappable publications as the enrolment window holds keep every later publication out for ever. |
| `components` | `MCComponents`, `Components.cfg` | `ComponentTypesOK`, `AdmissionIsEarned`, `RoutingIsJustified`, `ReuseLosesNothing`, `FilingChangesAreSound`, `ShownEvidenceIsSound`, `SectionsAreDisjoint`, `NoveltyStands`, `ConvergenceIsSound`, `FinancingIsTraceable`, `AccountingIsTraceable`, `SessionsAreAccountedFor`, `PredictionsAreAccountedFor`, `SignalIsSupported`, `ScienceIsSound`, `MeasurementsAreHonest` | The fifteen components that share no state with one another, one per behaviour: the governor admits work only after the readings it promises, routes and reuse lose no evidence, filing changes, novelty and convergence receipts survive races, replays and crashes, excerpts and sections fit and are traceable, sessions and nonces are used once, and predictions, science reports and measurement sets say only what was known. |
| `convergence_planned_sale` | `Convergence`, `ConvergencePlannedSale.cfg` | `PlannedSaleIsRetained` (violated) | A Form 144 notice of a sale planned for a day after the cutoff is refused by the receipt contract, and the ownership job fails instead of retaining it. |

A component that shares no state with the others needs no run of its own: in `MCComponents` a behaviour runs the
one that `part` names, the variables of the others keep their initial values, and the run visits the state spaces of
all of them side by side. Deadlock is not checked there, because most parts end when their bounded input
is used up. It is checked in every other run.

### Bounds

Filings, messages, briefs and jobs are interchangeable up to their order and, in the candidate queue, their
focus; two of them show everything the claim order can do to a neighbour (one waits, one is taken), and one
suffices where the question is about one row and two processes. `MaxCrashes`, `MaxRestarts`,
`MaxStoreFaults`, `MaxFaults` and `MaxAmendments` bound how often a fault occurs, not where: a fault
may hit every stage. In `HumanLeads`, `MaxMishaps` bounds crashes, restarts and faults together, and each has its own
bound. `MaxBriefs` and `MaxPublications` bound what is published. `MaxSlow` bounds
the leases that expire under a live worker: without a bound two processes slower than the lease could take a plan
from each other for ever, and no liveness property would hold of the code either. Attempt limits are the code's
or smaller (2 and 3 for 3 and 6) where processes or filings multiply the states; the guards compare with the
constant, so the smaller instance exercises each comparison on both sides.

The bounds of `Components.cfg` are chosen the same way. Four filings of one issuer, two of them with
overlapping facts, and a window of two priors are the least in which a prior falls out of the window; three filings in two
scenarios cover an amendment, its base missing, and a prospectus update. Texts are as long as it takes for two windows to touch
and a third to be refused; the financing text (`FtLength`, `FtSpaces`) has three spaces and a phrase of four characters,
so that a window can be cut inside a phrase, two signals can share an excerpt and a third find the budget used up. One login per client and one session token fill the limiter and make the token
contested; two threads suffice for every race, because each is between two requests. A snapshot of three
plans has two versions and one plan more than a sample needs. The code's limits are scaled to these inputs:

* The listing of prior snapshots holds two of them (`FcPriorLimit`, 64 in the code), which
  two snapshots of one filing fill, so that they hide the prior; an excerpt takes one signal (`FtMaxSignals`, 6).
* A text of accounting evidence has five characters, a window three, the budget four (`AcLength`, `AcWindow`, `AcBudget`;
  900 and 9,000): one window may be passed over and a smaller one behind it kept. What a form's rules do not read is one character.
* One boundary is asked of the cache (`ReuseCurrent`), because `decide_cache_reuse` only compares its fields; the cached
  receipt has any boundary. The proof is about all.
* A duration of two milliseconds is one that falls short (`MeShort`); in the code the odd ones from 1001 to 1023 do, and others. Time is a whole number of milliseconds, because a duration with a fraction is truncated alike on both sides.
* Case folding is taken to keep the positions of a text: financing phrases are found in the folded text, and the windows cut
  from the original (`forensics/financing.py:449`).

Some bounds leave a case to the proofs or to the reader. Within `MaxWebClock` = 1 a session expires by idleness; that it also
ends at its absolute age is in `SessionsAccounted`, which has no such bound. With as many briefs as the pending query returns
(`MaxBriefs` = `Limit`), a brief outside the window is not reached: what a full window of unsettled briefs does
to later ones is not checked. The replay of the Discord history counts its messages; those of other authors, which count towards
the same twenty in the code, are not modelled. `SidecarQueue` claims in one order where the three stores have slightly different
ones (the financing store also sorts by the number of issuers): no property depends on it.

### Fairness

Worker steps are weakly fair: Compose restarts a process that ended and the loop polls for ever. Time is
weakly fair. Faults are not fair: nothing makes them happen. `Notifications` asks strong fairness of
`Settle` for each brief: Discord may refuse a brief any number of times but not for ever.
`SidecarQueue` asks strong fairness of `Poll`: the index may be unavailable any number of times but
not for ever. Its two processes could also take a job from each other for ever, if each outlived its lease each
time; `LeasesHold` says that this stops, because a deterministic job takes seconds and its lease is
measured in minutes. No fairness is assumed on user messages or on publication.

Some liveness properties name the cases in which the code does not keep the promise. `EveryFilingDecided` excuses
a filing stranded at the attempt limit by a crash (run `queue_exhaustion`), which can also block the queue behind it;
`LeadsComeToAnEnd` asks that every started attempt is closed whoever dies, and excuses a message whose lead a crash or
a lost call left behind (run `leads_stranded`);
`EnrolledUnlessCrowdedOut` excuses a publication behind a full window (run `prospective_crowded`).
`PostedOncePerProcess` speaks of one process: the memory that prevents a second post dies with it.

## 5. Proofs

Where `PROJECT.json` names a property for a theorem, a run checks the same property on a small instance; the rest are
type correctness and lemmas of interest by themselves.

`FilingQueueProofs` proves, for every set of filings and workers, every batch size and all limits that
satisfy `QueueAssumption`:

* `TypeCorrect`: `Spec => []TypeOK`. `TypeOK` is inductive. One lemma says that the seven outcomes are
  plans, three that the in-place updates of a job keep it a job, and the step has one case per action.
* `LedgerSafety`: `Spec => []LedgersAgree`. `LedgersAgree` is not inductive: `Write` copies whatever
  plan the job holds into the ledgers. The strengthening `LedgerInv` adds that every job's plan is one of the
  seven outcomes (`PlansAreOutcomes`) and that a worker past its claim has a filing
  (`WorkHasFiling`). `OutcomeShape` says what every outcome has in common, `LedgerWriters` that only `Write`
  and `HandleExhausted` touch the ledgers, `JobsChange` what a step may do to a job.
* `ImplementsLifecycle`: `Spec => DecidedOnce`. Initial states map to initial states; a `Write` or
  `HandleExhausted` is a `Qualify` or a `Reject` of its filing because the unique key requires
  `decision[f] = "none"`; every other step stutters.
* `OneWorkerOwnsItsRow`: `Alone => (Spec => []HolderOwnsRow)`. Two processes do take rows from each other, and a counter
  that fails does reopen a row, so the theorem is about one process and a counter that works (`Alone`), with any number
  of crashes and expired leases. The strengthening `HolderInv` adds that a decided row is terminal (so that it is never
  claimed), that an idle worker holds nothing, and that until it screens its filing a job knows whether
  the retry is reserved.

`HumanLeadsProofs` proves, for every set of messages, hypotheses and workers and all limits:

* `LeadsTypeCorrect`, `OneInvestigation`, `RecoveryResolves` from the invariant `LeadInv`: types (`LeadTyping`,
  with an explicit type for the job a worker holds), that a worker's lead has been claimed (`WorkIsKnown`), that the
  messages of one hypothesis have one lead at most (`OneLeadPerHypothesis`), that the delivery holds only results that exist
  (`DeliveryIsKnown`), and `InterruptedLeadsAreResolved` itself, which the result transaction could break and does not
  because it requires the lead to be still analyzing.
* `AttemptsAreFinal`: `Spec => AttemptsCloseOnce`, an action property from the same invariant.

* `ResultsStandByTheirAttempts` and `ResultsReachTheChannel` from the invariant `LineageInv`, which adds to `LeadInv` what
  the receipts of a lead have to do with its result (`LeadLineage`), what a worker knows of them stage by stage
  (`WorkerLineage`: what it is about to record lists the ledger), that no two workers hold one lead (`OneWorkerPerLead`, which
  holds because recovery fails the lead it takes from a slow worker and never queues it again), and what waits in the outbox
  (`DeliveryLineage`). `LineageStands` alone is not inductive: it says nothing of a lead that has no result yet.

`NotificationsProofs` proves, for every finite set of processes and every number of briefs:

* `NotificationsTypeCorrect`: `Spec => []TypeOK`, the batch of pending briefs included, whose order and length follow from a
  recursion over the briefs.
* `PostsSafe`: `Spec => []PostedOncePerProcess`. Each post of a brief is charged either to a crash or to a
  process that remembers the brief (`PostsAreCharged`), and only a live process remembers (`MemoryIsAlive`).
* `SettledIsQuiet`: `Spec => SettledStaysQuiet`, an action property from the same types.

`ComponentProofs` proves what the components that keep to themselves promise, each from an inductive invariant of its own.
`MCComponents` gives their constants small values; the theorems hold for all values that satisfy the assumptions.

* `ResourceGovernor`: `GovernorTypeCorrect`, `AdmissionSafe`, `DecisionsReconcile`. `AdmissionIsEarned` relates the governor's
  streak to the history of the observations; it needs that a streak counted over known swap readings was compared with
  a known one (`CountedSwapIsKnown`).
* `EventNovelty`: `NoveltySafe`, `LedgersAreAppendOnly`, `NoveltyTypeCorrect`, for any number of filings, processes, facts and
  retrievals. What an attempt is about to withhold must have been shown by a stored disclosure (`PendingRecapIsShown`); it
  holds for the decision an attempt computed and for the one it reads back, because retrievals have different times
  (`RetrievalsAreUnique`). Types need that no filing is in its own lineage (`NoFilingPrecedesItself`).
* `ComputeRouting`: `RoutingJustified`, by cases over tier and evidence.
* `AnalysisReuse`: `ReuseSafe`. Removing and adding what the delta says turns the prior manifest into the current one, and the
  sum that the budget is compared with splits over the selectors. A hit is shown to agree in every field because each of the ten
  is named by some miss reason.
* `WebSessions`: `WebTypeCorrect` and `SessionsAccounted`, for any number of threads, clients and tokens, both backends. `WebInv`
  says what each thread between two transactions may assume (`WebTargets`), that a nonce that admitted a request is spent
  (`SpentNonces`), that stored sessions were issued and open ones have not ended (`StoredSessions`,
  `EndedSessionsStayEnded`), that the log agrees with the sessions (`AuditStands`), and that the attempts inside the window
  stay within the limit (`AttemptsStayWithinTheLimit`, over the two ways of dropping old ones: a prefix or a
  selection). A failed append counts as the end of a process would: the log and the sessions part there and nowhere else.
* `AccountingEvents`: `AccountingTypeCorrect`, `AccountingTraceable`. `AcHeld` keeps what a worker read before what is stored
  now; `AcCompared` is the claim about each stored receipt. `KeptWindows` is shown to exist by induction over the
  windows in their order; a window left out did not fit beside those before it, hence not beside all that were kept.
* `Measurements`: `MeasurementsTypeCorrect`, `MeasurementsHonest`. `MeLatency` says of each stored latency receipt what it
  takes from its row; rows only gain values, so that the receipt computed later under the same key cannot conflict with it and only truncation is left
  as a reason to refuse one. A decided row whose duration is truncated stays in every later set, which is therefore refused too.
* `OutcomeScience`: `ScienceTypeCorrect`, `ScienceSound`. `SnapshotHolds` is the claim about one snapshot against the rows
  committed since. The strata are a partition of the cases, so that their sums are the report's.
* `Predictions`: `PredictionsAccountedFor`. `PdChained` says that the entries of the chain of one kind are that ledger, in its order;
  `PdForeseen` that every evaluated outcome came after its prediction.
* `Convergence`: `ConvergenceTypeCorrect`, `ConvergenceSound`. What is stored was produced at some cutoff no later than the
  attempt's (`ReceiptsAreProduced`), and two productions of one filing agree; `JobIsAccounted` says that what the
  attempt produced is still to be persisted or already stored.
* `Signals`: `SignalSupported`. The invariant keeps the request well formed; the rest is about the ruleset: the points of a
  score are a sum over its traces, which come from metrics, findings and contradictions, and one metric more only adds to it.

`FilingTextProofs` proves, for every set of filings and scenarios and any number of workers:

* `FilingChangeTypeCorrect` and `FilingChangesSound` from `FcInv`: a job that may be claimed has an attempt left
  (`AttemptIsLeft`), nothing is retrieved before it is available (`FetchedInTime`), what a worker alone on a filing has looked
  up is still so (`LookUpsStand`: without it two snapshots of a filing could follow from one worker), what it is about to
  store it has chosen (`WorkIsChosen`), and stored selections compare related snapshots (`SelectionsCompare`). A prior that the
  listing left out has as many newer snapshots before it as the listing holds, which is what `CrowdedOut` asks for. That a
  selection accounts for every section, and agrees with the delta gate, is then a fact about two manifests.
* `EvidenceSound`: `EvidenceSpec => []ShownEvidenceIsSound`, for texts, hits, candidates and limits of any size. A call is one
  step, so that the induction is over the loop in it: `KeywordSteps` and `SelectionSteps` unfold the recursive functions, and
  `AddWindowFits` and `AddCandidateFits` are one turn of them. The selection keeps `GoodSelection` (the receipt's contract, and
  room for one separator per window), and accounts for each candidate it has looked at (`AccountedFor`); `ReasonsStand`
  says that a reason for refusing a candidate outlasts every later window.
* `FinancingTraceable`: `FinancingSpec => []FinancingIsTraceable`. `GoodExcerpts` (limits, and each excerpt quotes its signals or is
  cut inside the phrase) is kept by each hit (`AddHitFits`); excerpts only grow in number and signals (`Grows`), so that the answer to
  a signal's first hit stands (`AnswersStand`). That a signal is lost to the number of excerpts only when as many
  signals are shown needs that the excerpts never outnumber the signals they carry while first hits are taken
  (`FirstExcerptsFit`). `ParsersSayProceeds` is what each of the parsers says of the proceeds, from which no term
  contradicts what it says of the proceeds; the other causes of a refusal are read off `ParseResult`.
* `SectionsDisjoint`: `SectionSpec => []SectionsAreDisjoint`, for texts of any length. Sections are cut between neighbouring
  headings, so two with different starts are apart; induction gives the last heading before and the first after a place.
* `PartsKeepTheirSpecifications`: the specification TLC runs for the union implements the specification of each of its fifteen
  components, so that each theorem above holds of the union; `ComponentTypesCorrect` and `ComponentsSound` follow, the
  types and the invariants that the run `components` checks. They are corollaries: they say that the union adds nothing, and
  rest on the theorems about the parts.

`SidecarQueueProofs` proves, for every finite set of jobs and every set of processes:

* `TypeCorrect` and `ReceiptsSafe`, from the invariant `Inv`: types, that a process past its claim holds a
  job and an attempt number in range (`Holding`), that an unlisted job has no history
  (`UnlistedIsFresh`), and `ReceiptsMatchOutcomes` itself. `Holding` is needed because a failure closes the row with
  the attempt number of the claim; `UnlistedIsFresh` because discovery opens a row with the attempts it
  has.
* `RowsAreLegal`: `Spec => TriggerAdmits`, an action property from the same invariant: a late outcome
  is accepted only in a state in which it is a legal step.
* `ImplementsRetries`: `Spec => JobsEndOnce`. An outcome of a current claim is a `Retry` or an `End` of its job
  (`OutcomeImplements`), because `Current` holds only on a row still processing whose next attempt is the claim's; recovery,
  listing and claims leave attempts, results and pairs alone (`OtherStepsStutter`).

`ProspectiveOutcomesProofs` proves, for every number of publications, every set of horizons and of processes:

* `TypeCorrect`, `AttemptsSafe`, `OutcomesSafe`, from the invariant `Inv`: types, that a process past its claim
  holds a plan, an attempt number in range and the verdict its stage implies (`Holding`), and what the rows
  say of each plan (`RowInv`). `AttemptsAreGapFree` and `OutcomeRetainsAttempts` need each other and
  `DecidedIsTerminal`: a late claim passes `Current` only on a row still processing, which therefore has no
  outcome, so its receipt is the next number (`ReceiptIsNext`).
* `DecidedIsFinal`: `Spec => OutcomesAreFinal`, an action property from the same invariant.
* `ImplementsRetries`: `Spec => PlansEndOnce`. A `Retry` spends the next attempt of an open plan, a `Complete` ends it with the
  outcome it inserts (`CompleteImplements`); every other step stutters.

`InductionLemmas` proves, from the well-foundedness of `<` on the naturals, induction over the *set* of the numbers that
have a property (`NaturalInduction`), which first-order provers can instantiate where the library's theorems, with an operator
as parameter, cannot be. From it: a function defined by recursion on `0..n` exists and has its equations (`RecursionSolved`),
and a sum over a finite set is bounded by its terms, splits into the sums of its parts and does not depend on any order.

### Assumptions on constants

They are the `ASSUME`s of the modules, which TLC evaluates on every run. Most are signs and bounds. The others:
a required streak of at least two readings (the code's type is `Literal[3]`); `MinimumSample \in 1..PowerSample` (30 and 194
in the code); finite sets of plans, filings, selectors and evidence, because the code counts and sums them; the
disclosed facts of accounting filings as one number per kind; `"no cookie" \notin WebToken`, the value of an absent
cookie; filings available no earlier than filed and one category per selector (what
`FilingChangeSnapshot` and the extraction validate); metrics with integer values and evidence seen by the cutoff (what the request's
validators demand). None restricts how many processes, filings or calls there are.

### Only model-checked

* Liveness under fairness and `ENABLED` (`EveryFilingDecided`, `LeadsComeToAnEnd`, ...) are out of the prover's reach.
* Every safety invariant and action property of a passing run is a theorem, the types of the queue, the leads and the notifications
  included; TLC checks the same formulas for small values.
* The runs that expect a violation show a behaviour; there is nothing to prove.

## 6. Disagreements between code and documents

* `queue_exhaustion` (radar/store.py:1388): claim increments attempts with no upper guard while the column has CHECK (attempts BETWEEN 0 AND 6): a crash or aborted handler during the sixth attempt leaves an undecided row whose every later claim raises, which also ends the cycle. docs/KALKI_COMPLETE_GUIDE.md:305 says "failure may retry; exhaustion produces `ANALYSIS_INCOMPLETE`".
* `queue_refutation` (src/migrations/0005_hierarchical_verifier.sql:140): arbitrate_verifier_report approves a report whose only concerns it refutes (verification/pipeline.py:161-180), but the report's verdict stays 'challenge' and validate_verification_disposition raises 'approved disposition requires an approving final review', so the publication fails as a persistence error. docs/PHASE17_HIERARCHICAL_VERIFIER.md says "A model concern cannot overrule a provable deterministic result."
* `leads_stranded` (radar/store.py:1010): A lead is claimed by setting status 'analyzing', and only _recover_stale_analyst_attempts ever takes it out of that state for a worker that is gone, by way of an attempt row still in state 'started'. A worker that crashes (or whose cycle is ended by a failed database call) before the first attempt row, between two attempts, or after the last one leaves no such row, so the lead stays 'analyzing', is never claimed again, and its dedupe_key suppresses a resubmission. research/queue.py:1 says 'Restart-safe queue semantics for human research leads.'
* `prospective_crowded` (prospective/store.py:109): publications_for_enrollment returns the 100 oldest briefs with fewer than three plans and _enroll_publications skips those without a US listing only afterwards (worker.py:102-105), so a skipped publication never leaves the window: after 100 OTC, Canadian or tickerless briefs no newer brief is ever enrolled. docs/PHASE37_PROSPECTIVE_OUTCOMES.md:45 says 'For each immutable filing dossier and each horizon T+1, T+5, and T+20' and :34 'OTC and Canadian listings are skipped.'
* `convergence_planned_sale` (forensics/contradictions.py:207): The Form 144 context uses period_or_event_date, which is the approximate sale date (providers/sec/ownership.py:590), as the claim's as-of date (forensics/convergence_producers.py:165), and ContradictionReceipt raises 'claim as-of date follows the knowledge cutoff' when the planned sale lies after the day of processing. The ValueError is caught as a failure 'other' (radar/ownership_worker.py:172), so each attempt before that day fails and nothing of the notice is stored. docs/PHASE43_CONVERGENCE_VALIDATION.md:80 says 'Form 144 is retained only as not-applicable planned-sale context'.

More are weaknesses the models contain and the properties are stated around; they have no run of their own:

* A fault of `increment_counter` after the commit that decided a filing (`radar/worker.py:669`) reaches the same
  `except` as a failed analysis, which reopens the row of a decided filing.
* The update that closes or postpones a candidate names only the accession number (`radar/store.py:1762`), so a
  process whose lease expired during a slow call overwrites the row its successor claimed; the ledgers still
  agree, because their unique keys and triggers refuse the second decision.
* A crash between a post and its ledger row posts the same brief or result again after the restart
  (`radar/worker.py:846`, `research/discord_listener.py:122`).

* Two workers that are on one accession at once, after a lost lease, store two snapshots of it with different retrieval
  times; every later attempt finds two sources and fails (`radar/filing_change_lifecycle.py:166`).
* The amendment of a periodic report whose base is not stored is related to an earlier prospectus
  (`radar/filing_change_lifecycle.py:344`), a relationship the comparison refuses: the parent job fails, although the docstring of
  `observe_sec_primary_filing_change` leaves such sources outside the sink.
* Two financing excerpts over the same characters get one identity and the bundle is refused
  (`forensics/financing.py:456`); two instruments read from one excerpt refuse the filing (`:281`).
* A financing window that ends before the text does is cut at its last space, which may lie inside the phrase it was cut
  for when a long word follows: the excerpt then carries a signal it does not quote.
* Seven signals in one excerpt are added unchecked and make the receipt, complete as it is, fail its validation in the worker's
  next step (`forensics/financing.py:140`, `:468`).
* Sixty-four newer snapshots of an issuer, of any form, hide the prior a filing should be compared with
  (`radar/filing_change_lifecycle.py:177`), although `persist_filing_change_snapshot` speaks of its latest admissible prior comparison.
* The evidence of a late notice begins 400 characters before its phrase and may end before the phrase does
  (`forensics/accounting.py:705`): the event is then not quoted by what it cites.
* A filing whose time to discovery, publication or alert is a whole number of milliseconds that the product of a float with
  1000 falls short of (1.005 seconds) is refused by the trigger, and every later measurement set with it (`radar/measurements.py:770`,
  migration 0021:369).
* A session whose audit record could not be inserted is valid and not in the log (`web/app.py:437`).
* The receipt of the no-model route admits no evidence, so that a filing with evidence and a tier without a model is refused
  (`radar/adaptive_compute.py:212`).
* Two workers that end a run together both store a measurement set; docs/FRESHNESS_EFFICIENCY_FOCUS_GATE.md:399
  says at most hourly (`radar/store.py:286`).
* Of several outcomes appended for a prediction at one time, the report keeps the first (`predictions/engine.py:152`).
* An open contradiction that cites many sources may raise research confidence (`signals/engine.py:308`).
* A science snapshot read again at its cutoff may hold rows that were stamped before it and committed after
  (`prospective/science_store.py:39`).

## 7. What is not modelled, and why

* Text: filing retrieval, HTML and XBRL parsing, prompts, report validation, Discord formatting. In
  every module they are outcomes.
* Cryptographic identities (SHA-256, UUIDv5): equality of the things they name.
* Arithmetic on decimals: formulas of the quantitative engine, backtesting, calibration bins, Wilson bounds. TLC has
  no decimals and the formulas keep no state. Where a number decides something (a swap limit, a price difference, a
  budget) it is a small integer.
* The SEC source and client, market data and SEDAR+ providers: I/O whose outcome the queues choose freely.
* The read queries and pages of the web application, the offline labs, configuration and shell scripts: they
  keep no state a model checker could say something about.
* The focus universe: nothing in `src/` appends its events; `FilingQueue` has the bands of the claim order they
  induce.
