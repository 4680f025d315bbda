# A TLA+ verification of IntelX

IntelX is a research service. A client submits an objective; the service keeps it as a row of
`research_runs`, a polling worker claims the row and drives it through a pipeline of agents (plan,
discover, retrieve, extract, verify, analyse, criticise, synthesise), and every stage leaves
evidence, events and audit records in one database. This directory holds TLA+ models of the parts
whose correctness depends on *order*: what several sessions, processes and requests do to the same
rows, and what a crash, a shutdown or a failing write leaves behind. All source paths below are
relative to `src/` of the repository.

## 1. The system

| part | code | state it keeps | modules |
|---|---|---|---|
| run lifecycle: submit, claim, execute, settle, cancel, review, resume | `intelx/orchestration/{engine,worker}.py`, RunRepo of `intelx/db/repos.py`, handlers of `api/v1/endpoints.py`, `api/v1/friday.py`, `api/router.py`, `web/routes.py`, `cli/main.py` | the run's row; in each worker and request a session with a private copy of it | `RunLifecycle` |
| submission and spawning | `endpoints.py:148`, `orchestration/autonomous_researcher.py` | the run table, `Idempotency-Key` | `Submission` |
| live events | `orchestration/events.py` | `events` rows, subscriber queues in memory | `EventStream` |
| handoff to the ecosystem | `integrations/*` | one outcome per recipient, the receivers' inboxes | `Handoff`, `Delivery` |
| answers for other systems | `api/router.py`, `api/v1/{friday,futuris,stratex,cortex}.py` | none of their own: they read the store while runs go on | `Answers` |
| scouting and fetching | `agents/{planner,scout,retriever}.py`, `connectors/*` | candidates, degradations | `Discovery` |
| source and document store | `agents/retriever.py`, `memory/normalize.py`, SourceRepo | sources by fingerprint, documents, chunks | `SourceStore` |
| claims, evidence, disputes | `agents/{extractor,verifier,synthesizer}.py`, ClaimRepo, `core/contradiction.py` | claims with verbatim spans, evidence, findings | `Evidence` |
| retention | `db/retention.py`, `core/retention.py` | the shared evidence store | `Evidence`, `Governance` |
| reports and citations | `core/report.py`, `agents/{synthesizer,report_gate,citations}.py`, `web/routes.py` | the rendered report, tokens handed out | `Reports` |
| models and budget | `models/{gateway,providers}.py`, the gate of `engine.py` | usage per process and run | `Gateway` |
| registry of propositions | `agents/claim_ledger.py`, `core/{contradiction,confidence,credibility}.py` | records with their evidence | `Ledger` |
| primitives | `core/{budget,checkpoint,persistence,scheduler,rate_limit}.py`, `connectors/providers.py` | sums, versions, windows, permits | `Library` |
| governance | AuditChain and policy of `db/repos.py`, `core/policy.py`, administrative handlers | hash-linked records; the policy row and its copy in each process | `Governance` |
| news crawler | `ingestion/news_ingester.py` | articles in the shared store; what a crawl is about to announce in memory | `News`, `SourceStore` |
| start and stop of a replica, keys, sessions | `app/lifespan.py`, `core/{settings,auth}.py`, `db/{engine,demo_seeder}.py`, `web/auth.py` | tables, API keys, demonstration data, cookies | `Startup` |
| research desk | `services/real_{investigation_pipeline,grounded_investigation,threat_intel_engine}.py` | bounded sessions, case files, one indicator file | `Investigation`, `Grounded`, `ThreatFile` |
| registries | `routers/*`, `services/*`, `api/v1/{signal_detection,subscriptions,expert_network}.py` | dictionaries of one process each | `RowStore`, `ThreatRegistries`, `IntelRegistries`, `FeedRegistries`, `Registries` |

How they interact. The API, the web pages, the worker and the CLI share nothing but the database,
except when the worker is embedded in the API process (`app/lifespan.py:EmbeddedWorkerHook`), where
an asyncio lock serialises *commits* (not read-modify-write sequences) and a shutdown cancels the
worker's task at whatever await it has reached. Sessions are created with `expire_on_commit=False`
and `autoflush=False` (`db/session.py:30-41`): an object stays as it was loaded until somebody
refreshes it, and a flush writes exactly the columns whose attributes differ from what was loaded.
Most of the behaviour below follows from these two facts.

What makes it hard: a row read before an `await` and written after it; a claim that is committed
before anything is prepared to handle its failure; `CancelledError`, which is not an `Exception`; a
JSON column changed in place; a transaction that a failing document takes along; review and cancel
handlers that disagree on what they check and what they write; a post that is given up and arrives
all the same; state that lives in one replica of several. The full list, at its lines, is under
`hazards` in `PROJECT.json`.

What correctness means, per part. *Run lifecycle*: one execution per queueing, a cancel that was
accepted is not undone, status and outcome agree, no run stuck. *Submission*: one run per key, a
bounded rate. *Events*: a reader misses nothing of one execution. *Handoff*: every recipient has one
truthful outcome. *Answers*: they rest on finished runs the caller may see. *Discovery*: it ends,
and what failed is told. *Store*: one source per fingerprint, whatever is reported as retrieved is
stored. *Evidence*: what is cited exists, a dispute is on record, nothing disputed is completed
without review. *Reports*: a citation opens what was cited. *Models*: spending ends near the
ceiling, no canned text passes for an answer. *Governance*: verification alarms about what it
should, a process enforces what somebody asked for. *News*: an article is announced once. *Startup*:
what is revoked stays revoked. *Desk*: a report quotes what was fetched, a file keeps what was
stored. *Registries*: what is derived rests on rows.

## 2. Modules

A component module `X` holds state, `Init`, one action per step and `Spec`. Its properties are in
`XProps`, or at the end of `X` where few; `MCX` and `X_*.cfg` are the instances for TLC; `XProofs`
holds the theorems. The smaller parts share a frame: `ServiceParts`, `DeskParts` and
`ExecutionParts` declare the parameters of several parts, instantiate them and name their
properties; an `MC` module gives the parameters small values, and `ServiceProofs`, `DeskProofs` and
`ExecutionProofs` prove the same properties for any values. Definitions introduced by "Mutant:" are
plausible bugs of the code, each of which a property is known to notice; no action uses them.

How the modules are composed:

* `Delivery` implements the abstract `Handoff` (`INSTANCE Handoff WITH got <- .., report <- ..`).
* `Evidence` composes executions, requests and the retention purge over one store of claims;
  `Registries` joins three modules of operations over `RowStore`.
* `ServiceParts`, `DeskParts` and `ExecutionParts` join parts that share no state; `MCService`,
  `MCDesk` and `MCExecution` let TLC explore each by itself in one run: `part` is chosen at the
  start and never changes, so no time is spent on interleavings that no property can tell apart.
* The larger seams are kept as abstractions with the same meaning on both sides. A retriever never
  writes the status of a run, so `SourceStore` and `RunLifecycle` have no common column; `Discovery`
  ends where `SourceStore` begins (a location with its bytes), `SourceStore` ends where `Evidence`
  begins (a stored document), and `Evidence` takes "executed by one worker at a time" from
  `RunLifecycle`, where `SharedAfterRequeue` says when that holds. A review decision has its row in
  `RunLifecycle` and its record in `Governance`; a run's age and purge, which `Submission` needs,
  are in `Evidence`.

Sections 3 to 10 take the parts one by one, section 11 says what is proved and what is only
model-checked, section 12 what is left out.

| run | what TLC explores | distinct states |
|---|---|---|
| `RunLifecycle_faults` | 2 workers, 1 deep run, 2 requests of any kind, or 1 request and 2 faults | 934 045 |
| `RunLifecycle_cli` | 1 worker and 1 CLI, 1 standard run, 1 cancel (API) or review (web), 1 fault | 2 470 093 |
| `RunLifecycle_live` | 1 fair worker, 2 runs, 1 slot, 1 request | 23 118 |
| `RunLifecycle_review` (violation) | 1 review of a deep run | about 230, up to the violation |
| `SourceStore_races` | 3 fair retrievers in 2 processes, a crawler, a changing page, a secret, 1 fault | 166 747 |
| `Evidence_purge` | a deep run and an earlier run, 2 conflicting documents, 1 requeue or replan, 1 fault | 765 513 |
| `Governance_ledger` | 3 requests in 2 processes, 2 ceilings, 2 tiers, 2 faults | 507 857 |
| `Service_parts` | handoff; events; answers; registries | 519 922 |
| `Service_visitors` (violation) | answers alone can break it | about 3 000, up to the violation |
| `Execution_parts` | discovery; gateway; primitives; news; reports; propositions | 902 992 |
| `Execution_outage` (violation) | discovery alone can break it | about 45 000, up to the violation |
| `Desk_parts` | submissions; staged and grounded investigations; indicator file; startup | 1 563 631 |

## 3. Run lifecycle

### Correspondence

| code | model |
|---|---|
| `RunRepo.create_run` + commit, called by the API, FRIDAY, the spawner | `Submit` |
| `cli/main.py:296-322`: create, commit, execute at once | `CliStart` |
| `get_or_claim_next_queued_job`: count, order, `FOR UPDATE SKIP LOCKED`, `UPDATE .. WHERE status = 'QUEUED'` | `Claim` (guards `SlotFree`, `Candidates`, `Before`) |
| the claim's commit in `run_once` | `ClaimCommit` |
| the second session's `get_run` | `Load` |
| `_check_gates` | `GateCancelled`, `GateBudget`, `GateTimeout`, `GatePass` |
| `transition_state` | `Transition` / `Forbidden`, used by `Advance`, `AdvanceForbidden`, `Pause`, `PauseForbidden`, `ResumeStart`, `ResumeComplete` |
| critic and replan | `Replan`, `Accept` |
| review gate, worker's commit | `Pause`, `PauseDone` |
| unconditional completion, dispatch to the ecosystem | `Complete`, `DispatchDone` |
| the `REVIEW_REQUIRED` branch at the top of `execute_run` | `Resume*` |
| `except` clauses, `_settle_terminal_state` | `Raise`, `Settle`, `SettleRetry`, `SettleGiveUp`, `Return` |
| the handler of `run_once` | `Escape`, `Rescue` |
| the process dies; `EmbeddedWorkerHook.stop` cancels the task | `Crash`, `Shutdown` |
| `endpoints.py` cancel and review, `web/routes.py` cancel and review, `friday.py` and `router.py` cancel | `Receive` (read, check, assign) and `Commit`, with a `kind` |

`Changes` and `Flush` are what SQLAlchemy does with `expire_on_commit=False`: an UPDATE sets the
columns whose attributes differ from the ones *loaded*, so a column that another session changed
meanwhile is overwritten if and only if this session changed it too. `worker[w].seen` is the object
in the identity map; `Fresh` is the `session.refresh` of a gate. `row[r].decided` says whether
`scope_json` holds a `review_decision`; the handlers assign it inside the loaded dictionary, which
the column type does not track, so only an empty scope (where `scope_json or {}` made a new
dictionary) is written: see `Requeued`.

The model's atomicity is that of the code: what an actor does between two of its commits is one
step, because nobody else can see it; reads that a later write relies on are steps of their own. An
uncommitted claim holds its row lock (`Locked`), and every other UPDATE of the row waits for it.
What the stages do to other tables is in the modules of sections 4, 5 and 8; the follow-up job of a
review and `worker.drain`, which only waits, are left out. Stage work is the choice between going
on, raising and running out of budget or time.

### What the runs show

`RunLifecycle_faults`: a queueing is claimed once, two executions of one run need a requeue between
them, `cancel_requested` is honoured unless it came after the last gate, `status` and `outcome`
agree, and a finished run restarts through a review only. Two workers are what it takes for two
claims or two executions to meet; two requests for a review to requeue a run that the second one
cancels, or for two cancels to interleave; two faults for both settle writes to fail, or for a
settle to fail and the process to die; a *deep* run is the only kind that parks. Two requests and
faults together are not explored (`RequestsOrFaults`): the theorems of this section cover them.
`RunLifecycle_cli` adds the executor that does not claim and has no handler around `execute_run`
(the fault lets an exception leave it); its run is standard because the CLI creates no other. The
worker may claim the queued row while the CLI already executes it, so two executions meet without a
requeue; there `CancelFlagHonoured` still holds, and `OutcomeAgrees` and `FinishedNeverRestarts` do
not (the row of a run that one executor failed is overwritten by the other), which is why they are
stated for workers only. The properties judge the cancel beside such an execution; that it happens
twice is what the code does. `RunLifecycle_live` has one worker because two can overshoot the limit
(below), and one slot so that the queue really waits.

Fairness is `WF_vars(Step(w))` and `WF_vars(\E r : Claim(w, r))` for each worker: `start` polls for
ever and every await in the pipeline has a deadline, an answer or an exception. Nothing is assumed
of requests, submissions or faults, and the instance has no CLI. Under it no run stays in the
pipeline (`NoRunStuck`) and no run stays queued unless parked runs hold all slots (`QueueProgress`):
REVIEW_REQUIRED counts against `MAX_CONCURRENT_RUNS`. With a fault `NoRunStuck` is false: after a
crash between claim and settlement nothing in the code ever looks at the row again (the repository
says so itself, REPO_ANALYSIS.md:211 and 372), and from then on it occupies a slot.

### Proved

For any runs, workers, requests, limit, scopes and number of faults:

* `TypeCorrect`: `TypeOK`.
* `ClaimedOnce`, `SharedAfterRequeue`, from `ClaimInv`. The two properties are not inductive: to see
  that a claim's commit may raise `claims[r]` one must know that the row it locked is still QUEUED
  and that a QUEUED row has no unused claim (`claims[r] <= requeues[r]`); to see that the other
  worker is not inside, that every executing worker has been paid for by a claim. That locked rows
  stay QUEUED is what the row lock and the conditional UPDATE give, and the last conjunct (a request
  writes CANCELLED, QUEUED or no status) rules out that a request makes up a stage.
* `CancelHonoured`, from `CancelInv`: an executor past its last gate of a flagged run makes the flag
  late, and a flag is only ever written together with CANCELLED.
* `OutcomesAgree`, `FinishedStaysFinished`, for `Clis = {}`, from `AgreeInv`. A run that was never
  requeued has one executor, and `Fits` relates that executor's copy of the row to the committed one
  while cancels change it behind its back: until the executor writes something terminal nobody has
  put a result on the row; a COMPLETED row was completed by this executor, so its settle, should it
  fail later, overwrites the status; what the copy says of a failure is also on the row. A request's
  update is `Harmless`: it cancels, requeues or changes nothing that counts.

### What the code does not do

* `RunLifecycle_review`: the review decision is not stored when the scope is not empty, so the
  requeued run asks for review again, for ever.
* A cancel through FRIDAY, the router or the web page writes CANCELLED and no flag; the executor's
  next stage write, made from the status it holds in memory, overwrites it, and the run completes.
  COMPLETED, FAILED and CANCELLED are therefore not final, and what is left of the idea is
  `FinishedNeverRestarts`.
* Two claims that overlap count the same committed rows and take two runs for one slot: with several
  workers `MAX_CONCURRENT_RUNS` is no bound.
* A shutdown during the dispatch relabels a COMPLETED run CANCELLED (engine.py:915); FAILED of an
  unclaimed CLI run may be overwritten (cli/main.py:312); `run.cancelled` is added after the
  handler's last commit and its row is lost (endpoints.py:320); the budget handler replaces the
  reason `budget_exceeded` by an error dictionary.

## 4. Sources: discovery and the store

### Discovery

One pass of an execution from its plan to stored locations: `Plan`, per target the scout's look into
the database (`LookUp`) and its queries (`Query`, `QueryForgiven`), `ScoutReturns` or `ScoutRaises`,
then per candidate `Bypass` (chunks are passed over, a stored location is a hit) or the fetch:
`Request`, and `Page`, `Denied`, `Rejected`, `Redirect`, `Broken`, `End`. A search asks the
configured providers in the order of `connectors/search.py` and stops at the first with results;
`Tavily` .. `DuckDuckGo` say what each makes of a response.

Bounds: two targets with two queries each (a branch can fail after another found something), two
tries and three hops, four locations: a chunk, a stored page, two of the web. One pass: a replan
repeats it from the start with nothing kept but the store. `FailuresAreTold` says that, when it is
over, whatever failed is among the degradations of the run, `DiscoveryEnds` that the pass ends under
`WF(Step)`: every request has a timeout and every loop a counter. `Execution_outage` checks the
assertion of engine.py:545 and finds it violated: when all searches failed, a known chunk is enough
for the run to be reported without evidence.

`ExecutionProofs` proves `FailuresAreTold` for any targets, locations and bounds. A failure is noted
long before it is told, so `DiscoveryInv` follows it: a target whose search raised is told, or its
scout has yet to return (`OutagesPend`); a candidate is still to be fetched, has its document, is
internal, or is told (`CandidatesSettle`).

What the code does not do: a DuckDuckGo page of unknown layout reads as "no results" (`DuckDuckGo`);
a collector's `unsupported_content` counts as a failed engine.

### The store

| code | model |
|---|---|
| `_fetch_single`, for one candidate after the other | `FetchCached`, `FetchNew`, `FetchFailed`, `FetchRaises`, `FetchDone` |
| `get_sqlite_write_lock()` and the write pass of `execute` | `Acquire`, `Commit` |
| the reads by fingerprint in `ingest_and_normalize` and `get_or_create_source` | `Look` |
| the INSERT and the unique index | `Insert`, `InsertLost`, `InsertDeadlocked` |
| document and chunks, the comparison with the unredacted text | `StoreDocument`, `StoreRefused` |
| `session.rollback()` in the write pass | `Refused` |
| cancellation, death | `Abort` |
| the news crawler's two sessions | `CrawlNew`, `CrawlStore` |

A text is a member of `Contents` and stands for its hash, the key of the table (hashes are taken as
injective); a location is not unique. An INSERT of a fingerprint that another open transaction has
inserted waits for it (`Blocks`) and is then refused or succeeds; a cycle of waiting inserts is
broken by the database.

`SourceStore_races`: three fair retrievers, two of them in one process, a crawler, a page that
changes between fetches and may carry a secret, one fault. Two in one process are needed for the
lock to matter, a third in another process for what it does not cover; the batches of the first and
third visit the two pages in opposite orders so that their inserts can wait for each other; the page
with two texts makes a location ambiguous; one fault is a retriever cancelled with the lock in its
hands. A source and its document come and go together (`StoredHasDocument`), only a plan that failed
has lost what it reported (`LostOnlyWithFailure`), and every batch ends (`EveryBatchEnds`).

Fairness is `WF_vars(Step(r))` for each retriever: the event loop, the lock's queue and the database
serve whoever can go on. Since `Acquire` is a disjunct of `Step`, weak fairness suffices only
because every holder of the lock finishes or is aborted and retrievers are not repeated; the crawler
gets none.

Proved for any retrievers, processes, pages, batches and number of faults: `StoreTyped`, `StoreSafe`
(`StoreInv`), and from it `Paired`, `LocalRacesSettled` (only another process can win a race),
`ReportsHonest` and the action property `WinnersKept`. `StoreInv` adds to the properties what they
rest on: who writes holds its process's lock and nobody of its process committed its text since it
looked (`LockInv`); a pending text is nobody else's and not committed (`UniqueInv`); a transaction
holds exactly the documents of its sources, except for the one it is storing (`PairInv`); what is
reported is stored or about to be (`ReportInv`).

What the code does not do: the rollback for one failing document takes along the documents the batch
flushed before, and the output still lists them as retrieved (retriever.py, the write pass); the
refused insert's exception is not the class that `get_or_create_source` catches (repos.py:353-395),
so the loser of a race does not re-read and carry on; the lookup of an ambiguous location raises out
of the fetch pass and ends the whole retrieval (retriever.py:127, `FetchRaises`); a text in which
redaction replaces something can never be stored (normalize.py:342, `StoreRefused`).

## 5. Evidence and retention

| code | model |
|---|---|
| the retriever's result, seen from the execution's session | `Retrieve` (`Fetch`, `Loaded`) |
| `ExtractorAgent.execute_many`, the engine's SELECT of the run's claims | `Extract` (`Extracted`) |
| the verifier's loop over targets, its searches and their commits | `VerifyTarget` (`Judged`) |
| `_record_deterministic_conflicts` and the commit after it | `RecordConflicts`, `RefuseEvidence` |
| replan, synthesis, the review gate | `Replan`, `Synthesize`, `SaveReport`, `Decide` |
| the handlers of `execute_run`, the death of the process | `Fail`, `Crash` |
| review and cancel of the row, `retract_claim` | `Requeue`, `CancelQueued`, `Retract` |
| `purge_expired_retention` | `Age`, `PurgeRefused`, `Purge` |

The model keeps the execution's session apart from the tables: `copy` and `view` are its identity
map, `list` the claims the engine hands to its agents, `rows`, `evidence`, `finding` and `report`
what it flushed and has not committed. That is where this part goes wrong or not: a quote is
compared with the text the session holds, not with the one the purge just replaced; a retraction by
a request is invisible to a session that loaded the claim; a commit inside the verifier's loop takes
along what earlier claims left flushed.

`Evidence_purge` shows, with a deep run that may use the document of an earlier run: everything
cited exists although the purge deletes sources that all runs share (`CitesWhatIsStored`; it holds
because an executed run can never be purged, which is `Refused`, see below); each dispute can be
traced to its evidence whatever a failure commits (`DisputesOnRecord`); a deep run is never
COMPLETED over a disputed claim of its own (`DisputedDeepRunIsReviewed`); a retraction gives way
only to a dispute (`RetractionYieldsOnlyToDispute`). Two runs and two documents are what a shared
source and a conflict take; the only verdict is CONTRADICTED, because the others add no dispute; two
claims per document and run let a second execution or pass meet the first one's; claims, requeues,
replans and faults share the bound `MaxWork` of four, of which at most one is a requeue or replan
and one a fault.

`EvidenceProofs` proves the four properties and type correctness for any runs, documents, offers,
verdicts, contradictions, earlier runs and bounds. None of them is inductive, because each speaks of
committed rows and a commit writes what a session gathered over many steps. `EvidenceInv` therefore
states of every session, before it commits, what its commit must not break: flushed rows are the
run's own and on a committed claim only dispute it (`RowsOf`); the identity map misses no dispute
the store has (`ViewOf`); each side of a conflict has its other side flushed or stored, or a text is
purged (`EvidenceOf`, `Balanced`); a loaded text is the stored one or the one the purge replaced
(`CopyOf`); a run's claims from a document are numbered without gap, so that a new claim is new;
from the verification on, a run with a disputed claim hands one to its agents (`Flagged`), which is
what the review gate looks at. `ExecutedInv` is why the purge is harmless: whatever the store holds
belongs to an executed run, and no executed run is ever deleted. What one run's commit does to the
other runs' sessions is the relation `Spared`, proved once to preserve all of it (`SparedSession`)
and used in every step; each operation on a session (load, extract, add evidence, dispute, commit)
has a lemma of its own that the steps combine. `RetractionYieldsOnlyToDispute` follows from
`RowsOf`: a commit writes over a committed claim only to dispute it.

What the code does not do: the database refuses to delete a run that has events or tasks, so every
run that was ever executed survives its retention and the purge that meets one fails as a whole,
after it removed the run's report directory (`PurgeRefused`; tests/test_retention.py:13 says "old
runs are completely purged" of runs without events); a claim disputed by a verdict keeps its
preliminary confidence; the second pass of a replan rescores claims that are DISPUTED already,
against the docstring of core/contradiction.py:263-267; the comment at verifier.py:531 is not what
the code below it does.

## 6. Governance

| code | model |
|---|---|
| the first reads of `update_policies`, `update_source_trust`, claim retraction and raw-file purge | `Load`, with a `kind` |
| `PolicyEngine.evaluate` denying `job.submit` (API and web form) | `Denied` |
| `GET /policies`, an allowed submission | `View` |
| `update_config`: `version + 1`, flush, cache | `FlushPolicy`, `FlushRefused` |
| `set_trust` and its flush | `FlushTrust` |
| `AuditChain.append_event`: newest record, hash, INSERT | `ReadLatest`, `InsertRecord` |
| the retracted claim's UPDATE in the same flush | `LockRow` |
| the handler's commit | `Commit` |
| the web form's page, returned without a commit | `Forget` |
| an error, a restart | `Fail`, `Restart` |
| `AuditChain.verify` | `BrokenLinks` |

The database is READ COMMITTED: reads see committed rows, a flushed UPDATE keeps its row until the
transaction ends, an id is consumed by its INSERT whether or not that is committed. A record's hash
is its id (injective hashing, and timestamps that survive the round trip through the database).
Nobody tampers: that is what makes an alarm false. A configuration is its `max_run_usd`, all of it
that `job.submit` meets.

`Governance_ledger`: three requests of any kind, two in one process and one in another, two
ceilings, two tiers, two faults. Two requests make a fork, the third extends one branch, comes late
with a smaller id, or restarts from a rolled back update; two processes separate the cached copies;
two faults let an update fail after it was cached *and* a process restart. The ledger is always a
tree rooted at the genesis hash (`ChainRooted`), `verify` complains exactly about forks
(`AlarmIsFork`: gaps and late commits are harmless), the newest record of a row tells what the row
holds (`LastRecordTells`: of the policy its version, and its ceiling if the request changed the one
it had loaded), a process enforces what somebody asked for (`EnforcedWasAskedFor`), and no circle of
waiting requests exists (`HolderIsOnItsWay`).

Proved for any requests, processes, configurations, tiers and number of faults: `LedgerSafe`
(`LedgerInv`) and from it `LedgerTyped`, `LedgerRooted`, `WritersOrdered` (requests that flush a row
before they append never fork against each other), `LastTells`, `EnforcedExplained`,
`NobodyWaitsInCircle` and `AlarmsAreForks`. `LedgerInv` adds to the properties: ids committed or on
their way are unique and links point below them (`IdsInv`); a row has one holder, and whoever writes
a policy or tier holds the row from its flush to its end (`LockInv`); such a holder has linked above
every record of its row (`SeeInv`), which is what makes its own record the newest when it commits
and so `LastRecordTells` inductive. `AlarmsAreForks` needs one idea more: `verify` compares
neighbours in the order of ids only, so a fork anywhere has to show up between two neighbours. Take
the smallest id above the forked record whose link is not its predecessor (`ForkBreaks`); conversely
a record that does not link to its predecessor links further down, where another record links
already (`BreakForks`).

What the code does not do: two appends that overlap link to the same record, and from then on
`verify` reports a broken link on a ledger nobody touched, for ever (repos.py:788,
docs/threat-model.md:101); two overlapping updates of the policy can commit the same version, and
one that read an old version sets the row back to its successor (policy.py:71 reads, increments and
writes without a condition); a request that asks for the ceiling it loaded leaves that column out of
its UPDATE, so the ceiling another request committed meanwhile stays under a newer record that says
otherwise (models.py:506); the web form's denials are rolled back with their audit records
(web/routes.py:223-240, against policy.py:108); the cached policy is set before the commit and is
never refreshed in a process that evaluates nothing (policy.py:86, connectors/base.py:15).

## 7. Around a run

### Submission and spawning

`Look`, `Deny` and `Create` are the handler with an `Idempotency-Key`, `CreatePlain` the one without
(web form, protocols); `Count`, `Spawn`, `Fail` one iteration of the autonomous loop or of its
manual trigger; `HourPasses`, `DayPasses`, `Purge` and `Switch` what goes on around. Key, lookup and
insert are separate steps, and so are counting and creating. `KeyNamesOneRun`: all submissions with
one key that are answered with a run are answered with the same one, unless retention removed it in
between; `SpawnRateBound`: the loops start at most one run more in an hour than the rule allows for
each process after the first. Bounds: three submissions with one key, the last by another caller;
three runs; two loops that stop at one recent run; a limit of two. Both are proved for any requests,
keys, callers, loops and limits (`OneRunPerKey`, `SpawnRateHolds`), from `JobsInv`: of the runs with
one key at most one is stored, and what a submission was answered was inserted for its key
(`KeyInv`); a loop that has counted is as good as a run it spawned (`QuotaInv`).

What the code does not do: two submissions with one key both find nothing, and the second insert
answers 500; a key older than a day is not found and cannot be inserted either
(endpoints.py:158-175); capacity is counted before the run is created, so several loops and
submissions exceed it (autonomous_researcher.py:141).

### Events

`AddEvent` and `EmitEvent` are the two ways to record (`repos.py:242`, `events.py:82`), each up to
its flush, which draws the id; `Broadcast` is the rest of `emit_event`, so other sessions draw and
broadcast, and clients come, while a flush is awaited. `Commit`, `Rollback` and `Crash` end a
session; `Subscribe` and `Unsubscribe` are a stream, which begins with nothing, `Poll` is the
endpoint with its cursor `after`. `EventsReachReaders` says that a poller misses a stored event only
when another session drew a later id and committed first, and that an open stream has exactly what
was broadcast in its process since it was subscribed, each event once and those of one session in
the order of their ids; an event of another session may overtake. Bounds: two events, three sessions
in two processes (the execution, a request beside it, a second replica), two clients. Proved for any
(`EventsTyped`, `ReadersReached`) from `EventInv`. What a poll returns may not yet be all that was
drawn below its last id, so the property alone is not inductive: `PollInv` says it of rows that are
still flushed too, and `WholeInv`, that a session with a stored row has no earlier row left to
commit, excludes that the poller's own last event hides one of the same session. What a session has
still to broadcast comes after all it has broadcast (`PendInv`), because it awaits one flush at a
time. `HubInv` relates the hub of a process to the streams open there, which is why a crash or
another stream's end takes no queue away. `Poll` returns the greatest id of its page; that a
nonempty set of ids has one (`GreatestFacts`) rests on `<` being well founded on the naturals.

What the code does not do: ids are taken before the commit, so a poller that saw the larger id never
sees the smaller one; the broadcast precedes the commit, and a rollback leaves subscribers with an
event that never happened; a stream hears nothing of what was recorded before it or in another
process; `run.cancelled` has no row (endpoints.py:320).

### Handoff

`Handoff` is what the engine's dispatch promises: recipients are served in order, each gets one
outcome that is never revised, nothing is reported delivered that did not arrive, and once the time
is up nobody is reached but the recipient the dispatch was busy with. `Delivery` is the code: one
shared deadline, one recipient after the other, each notice tried several times with a timeout
(`Start`, `Send`, `Read`, `Timeout`, `Deadline`, `Abandon`), posts that stay on the wire after they
were given up (`Peer`). `ImplementsHandoff` is the refinement `INSTANCE Handoff WITH got <- Arrived,
report <- outcome`, checked for one dispatch with three recipients and two attempts, and proved for
any (`DeliveryTyped`, `DeliveryImplementsHandoff`) from `HandoffInv`: the recipients before the one
at hand have been served and no others (`OrderInv`), a post on the wire was sent when all before its
recipient had been served (`WireInv`), and an answer that says "ok" stands for a post that a peer
took (`TakenInv`).

What the code does not do: a timed-out post may still arrive, so "skipped" and "failed" do not say
that the receiver has nothing; Memora reports `handoff_completed` in every case; Futuris and StrateX
share the message id `intelx-{run}-all`.

### Answers

Other systems ask while runs execute. Each kind is a request that reads in a few steps while claims
are disputed, findings saved and runs finished, cancelled, reopened by a review (`Reopen`: the
console's requeues a run of any status, web/routes.py:515-526) or, after they completed, relabelled
CANCELLED (`Relabel`, engine.py:915): the task protocol (`router.py`), peers and summaries
(`friday.py`), market signals (`stratex.py`), Futuris's context, website visitors (`cortex.py`),
FRIDAY's delegation. `AnswersHold` = `AnswersRestOnFinishedRuns` (everything the answer to a peer or
a task rests on was established by a run that is complete, or was when the request chose it and has
been reopened or relabelled since, and a task's by a run of its caller: the statements after the
first do not reach past the runs the first one chose) and `MarketMovesOnEvidence` (StrateX moves its
mood on evidence only and tells an outage); `DisputesComeWithTheirFinding`: what was disputed before
a task was asked gets into its answer, stated or in its provenance, only with a finding that
concludes from it. A finding's conclusion is restated whatever became of its claims
(router.py:233-260), so more than that would be false. Bounds: one request (they share nothing), two
runs, three claims, two findings, page limits of 2, 1, 2 and 1 so that limits cut off.
`ServiceProofs` proves both, for any requests, runs, claims, findings and limits, if the claims of a
finding are of one run. `AnswersInv` says that the claims and findings read belong to the runs
chosen first, which are complete or have moved since, as the ghost `moved` remembers
(`FromChosenRuns`); that a task reads a claim disputed at its first statement only together with a
finding that names it, and passes on no other (`ComesWithFinding`); and that the text of a market
report tells whether anything stored was read (`MovedByEvidence`). `Service_visitors` shows what
cortex.py does not do: it selects findings by their words alone.

What the code does not do: a cancel of an unknown run through the task protocol falls through to
research and returns SUCCESS (router.py:130, 161, 338 against its docstring 62-70); a limit of ten
claims and five sources may leave out the source of a listed claim; the task protocol's second
SELECT adds the DISPUTED claims its findings name, and their conclusions are stated all the same; an
answer under way may rest on a run that was reopened meanwhile; FRIDAY's delegation skips failing
scouts and answers an outage with SUCCESS, hashes the idempotency key into the run id without
looking for the run, and its cancel asks for no owner; the context of Futuris cites only sources
that the same runs created.

## 8. What an execution rests on

`Execution_parts` explores these together with discovery, each by itself.

* **`Gateway`**: the questions of two executions to the models, in one process: primary provider,
  fallback, one correction of an ill-formed answer, usage per run and the budget gate before each
  stage. `GatewayHolds` = `OverspendBounded` (the executions of a process overshoot the ceiling by
  one stage each at most) and `NoCannedAnswers` (no stage is given a canned text where that is not
  allowed, whichever retries, fallbacks and corrections failed). Two executions, ceiling 2, one
  question per stage, two tries. The code forgets the cost of answers that end in
  `StructuredOutputError`, and the run's `usd_cost` is overwritten by the usage of the process that
  completes it.
* **`Library`**: seven primitives of `core/` as tools with two callers: budget ledger, checkpoints,
  durable store with outbox (which reads a version and writes in two steps: the lock is one
  object's), scheduler, sliding window, token bucket, circuit breaker. `PrimitivesHold` =
  `LedgerBalances`, `LatestIsKept`, `LimitsHold`: the reserved sum is what callers hold and a ledger
  above its ceiling has told someone; the latest checkpoint is one that is kept, and kept ones are
  in order; a key that was not displaced is let through at most `Limit` times per window, and by its
  bucket at most `Limit` times and once per second. A window's history is the set of the numbers of
  the grants it still knows, a table's order of use a rank per key. Two callers who reserve up to 2
  (`Most`) below a ceiling of 4, two keys with room for one, limit 2, window 2, four seconds,
  threshold 2. The service itself uses few of them; tests and library callers the rest. Direct
  charges ignore reservations; a deletion resets the version (so an old writer's check passes
  again); windows of different lengths for one key delete each other's timestamps; a half-open
  circuit never lets its canary through.
* **`News`**: crawls of two replicas over two feeds and two articles, batches of one, two crawls.
  `AnnouncedOnceWhereRead`: no article is announced twice, by whichever replicas and crawls, and
  each is found in the feed of the agent it was announced for. An article of two feeds is tagged for
  the first only; a crash between store and announcement, or a notice not accepted, is never made up
  for; an article that is too short is fetched at every crawl.
* **`Reports`**: a draft is grounded, rendered with short tokens for claims and sources, between
  prose that carries tokens of its own, validated, exported, and its tokens are resolved later, when
  other runs have added rows and a purge has removed some. `CitationsHold` =
  `CitationsNameTheirRows` (every token that validation knows stands for one row of the run, the one
  meant), `ReportPassesGate` (the gate objects to a report with claims and sources if and only if
  its prose has a token that validation left and that names no row) and `TokensOpenTheirRow` (a
  token opens its row or none while that row is stored). Two runs, two claim and two source ids of
  two digits, least token length 1, two drafts, fallback of two findings, two tokens that prose may
  carry, one that validation knows and one that it leaves (`SomeProse`). A token is unique within
  the run but looked up in the whole table: a collision is answered 409, and after a purge it may
  open another run's row. Fallback findings take the first claims of any status;
  `validate_citations` never raises, so the CLI's smoke run prints "VALID" in any case; it strikes
  once and knows one form, so `[S1]`, or a token that the strike itself puts together, stays in the
  text, and the gate, which reads that form too, refuses it (report.py:80-102, citations.py:27-69).
  Nothing but tests calls the gate.
* **`Ledger`**: `claim_ledger.py` with contradiction resolution and confidence as exact arithmetic,
  three claims, five statements, two items. `PropositionsHold` = `EvidenceKeepsItsProposition`
  (evidence survives deduplication in one record, one that measures and denies what its claim did)
  and `DisputedStaysLow`. The registry is kept as a table by order of insertion, and a deduplication
  as the set of the records that stay, each with those it takes up.
  `apply_contradiction_resolutions` looks for `id`, so it never touches the records of the ledger
  (which have `claim_id`); applied twice it discounts twice.

`ExecutionProofs` proves all of these for any constants. For `GatewayHolds`, what a process has
spent says nothing of what its executions may still ask for, so `GatewayInv` bounds the sum
(`Affordable`): spent, plus the most each unanswered question of a stage that passed its gate may
cost, stays below the ceiling and one stage per execution. A question that is answered moves from
one summand to the other (`DebtShrinks`, which counts the open questions as a set); a gate lets an
execution pass only where the spent part alone is below the ceiling (`BelowCeiling`). For
`AnnouncedOnceWhereRead`, `NewsInv` says of the articles a replica has stored and not yet announced:
they are in the store under the feed's agent (`FreshIsStored`), no notice has told them
(`FreshIsUntold`), and no other replica has them (`Apart`), since the insertion has one winner. For
`CitationsHold`, two facts about the operators carry the proof: a token is as short as it may be
(`FormatIsBeginning`, by the well-foundedness of the numbers), and therefore resolves to what its
identifier resolves to, be that a row or nothing (`FormatResolves`). `CitationInv` keeps of a report
that its tokens name rows (`NamesRows`) and are not lacking (`CitesSome`), of what stands in its
prose that it was resolved among its own rows (`StandsForRows`), and of a token that it begins the
identifier it stands for (`Abbreviates`). Assumed is that no identifier begins another of its kind:
the code draws them with one length (`generate_uuid`), and those of the demonstration data are fixed
and differ.

For `PrimitivesHold`, `ToolsInv` adds to the properties what the limiters remember: a key's window
holds every grant that is not yet too old, and at most `Limit` (`Remembers`); and what a bucket
granted since any moment, with the tokens it has left, stays below its capacity and the refill since
(`Filled`), which is what a grant takes from and time adds to. For `PropositionsHold`,
`PropositionsInv` says that the records keep disjoint sets of evidence, none numbered beyond the
claims handed in (`EvidenceKept`), and that a row's score lies below the discount of its largest
number of clashes (`ClashesInv`). A deduplication splits the records into groups, each headed by the
one that stays: a record that goes is taken up by the first that can take it (`TakenBySome`) and by
no other (`TakenOnce`), so no evidence is lost or doubled; a disputed record can neither take nor be
taken. That a second reckoning never raises a score is `DiscountStays`: the discount keeps the order
of the scores and only lowers them (`DecayedLowers`).

## 9. Registries

The routers mount dictionaries that live as long as their process. `RowStore` says what a desk of
rows is (insertion, links, keys, in one of several processes); `ThreatRegistries`, `IntelRegistries`
and `FeedRegistries` hold the operations that store, over 16 desks in all, and `Registries` joins
them. `RegistriesHold` = `DerivedRestsOnRows` (what a route derives names rows of its own process,
except for the kinds in `OnTrust`), `WholeOrNothing` (a collection or a crawl that failed half way
left no parts, a completed collection has a fusion with each value it found exactly once, though
several sources find the same) and `NetworkAgrees` (partners among experts know of each other, and
what an expert knows is drawn in the graph). Two processes, two to seven rows per desk, one tag,
phases, depth, bursts and tops of one.

`ServiceProofs` proves it for any processes, desks, tags and bounds, if a request names finitely
many tags. `DerivedRestsOnRows` is not inductive: rows are deleted and replaced, and a row that is
looked up is the one with its identifier. `RegistryInv` therefore asks that what is derived rests on
rows of a kind that is never deleted (`Tidy`), that identifiers are drawn in their order
(`DrawnInv`) and, among the experts, name one row (`OneRowInv`). New rows go through a few lemmas on
sets of rows (`TidyAdd`, `TidySwap`, `NumberedCounts`), with one lemma per desk and operation above
them.

What the code does not do: the collector's `ord(x, 16)` fails for "api" sources, so the default
collection answers 500 and leaves its task running, with earlier sources counted; the crawler with
`max_depth=0` divides by zero and leaves its crawl running; targets, attributions and links are
accepted for unknown campaigns; fused signals list ids that do not exist; threat alerts list texts
in the place of ids; predictions and gaps are stored again by every GET; a sharing asks for no
agreement, and TLP:Red to a little trusted partner is only noted; the likelihood of an escalation
exceeds 1 from 15 events; the expert network's routes call methods that do not exist; nothing
executes subscriptions. `correlate_campaigns`, `add_attribution_indicator`, `add_source`,
`generate_report` and `create_policy` have no route; the modules have their actions, since whoever
holds the object may call them. `create_config` and `record_trend` have neither.

## 10. Research desk and startup

* **`Investigation`**: two callers search, filter and scrape through a bounded set of sessions, or
  `run()` chains the stages into a case. `CasesHold` = `OnlyFilteredScraped` (a session's sources
  were picked by one of its filters) and `FailedForAReason` (a case says "failed" only if something
  raised or its session was taken from it). One session kept, two searches, two hits, one scrape. A
  session may be evicted while a run goes on (KeyError); a crash leaves no case;
  `robin_llm.filter_results` (71-95) counts from one where its caller counts from zero.
* **`Grounded`**: one inquiry with an arbitrary model and arbitrary engines over two sites, a crash
  at any step. `ReportsAreGrounded`: each finding is a quote of the page it cites, that page was
  fetched and holds nothing excluded, and a report claims success exactly when it has findings.
* **`ThreatFile`**: two processes that load, change and save one indicator file. A save opens the
  file, which truncates it (`Change`), and then fills it (`Dump`); both may fail, and nobody is told
  (`Change`'s second branch, `DumpFails`). `OneWriterKeepsAll`: as long as engines ran one after the
  other and none went down inside a save or after one that failed, every indicator ever stored is in
  the memory of the one that is up; and in any case no *ingestion's* report of a state that loads
  cites an indicator that state lacks. Campaigns and callers' reports take any ids unchecked
  (`strays`, real_threat_intel_engine.py:329-347, 398-424); only `LinkIndicator` looks its id up.
  Otherwise things are lost: an unreadable file is loaded as empty and then overwritten, and
  processes overwrite each other. Two indicators, one report of an ingestion.
* **`Startup`**: three starts of two replicas in their real order (tables, keys, demonstration data,
  worker) with requests in between, two keys, three configurations. `RevocationLasts`: a key revoked
  at the database stays so through every later start, and nobody is let in with it, by header or
  cookie; `ServingIsSeeded`: a replica that serves finds every key of its settings and, when it
  seeds them, all demonstrations. The losers of `create_all`, key and demonstration races fail their
  start; production checks run in the seeding step only; the demonstration run that waits for review
  occupies a slot; its evidence `e4_2` quotes 90 characters with a span of 74; sessions of a
  development process end with it, because its secret does.

`DeskProofs` proves the properties of all four. `StagedInv` follows what one step hands to the next:
the ids about to be scraped were picked in that session (`Fetchable`), no other caller knows the
session of a chain (`OwnSession`), so nobody else's filter replaces what it picked, and therefore a
chain that found nothing to scrape without anything raised has lost its session (`FailsForAReason`).
Anything may be raised wherever the network is asked. `InquiryInv` says what an inquiry has at hand
before it concludes: nothing before it read, and then exactly the sentences of the pages it could
read. `ThreatInv` adds what each property needs of the moment before: reports of ingestions rest on
indicators of the same state, and what is yet to be reported cites only what the memory has or is
about to add (`Sound`), at most one engine is up unless engines overlapped (`OneUp`), and every kept
indicator is in the memory of the one that is up, and in the file unless that one is writing it or
could not (`Saved`, `KeptIsThere`). `BootInv` says of each replica what the steps of its start
behind it have established, and that no later step of another replica undoes (`Prepared`): past the
key step its keys are rows, past the demonstration step its demonstrations are; rows of keys are
only added, and a revoked one is never written again.

## 11. What is proved, what is only model-checked

TLAPS checks the theorems below for every value of the constants; the only hypotheses are the named
`ASSUME`s of the component modules (constants are sets and numbers of the right kind, orders and
batches well formed), which TLC evaluates in the runs. An induction needs facts about every
reachable state, so each module first states an invariant with the parts named above and proves
`Init => Inv` and one step per action and part; the properties follow from it.

| module | theorems |
|---|---|
| `RunLifecycleProofs` | `TypeCorrect`, `ClaimedOnce`, `SharedAfterRequeue`, `CancelHonoured`, `OutcomesAgree`, `FinishedStaysFinished` |
| `SourceStoreProofs` | `StoreTyped`, `StoreSafe`, `Paired`, `LocalRacesSettled`, `ReportsHonest`, `WinnersKept` |
| `GovernanceProofs` | `LedgerTyped`, `LedgerSafe`, `LedgerRooted`, `WritersOrdered`, `LastTells`, `EnforcedExplained`, `NobodyWaitsInCircle`, `AlarmsAreForks` |
| `DeliveryProofs` | `DeliveryTyped`, `DeliveryImplementsHandoff` |
| `ServiceProofs` | `RegistriesSafe`; `EventsTyped`, `ReadersReached`; `AnswersRest`, `DisputesCome` |
| `DeskProofs` | `OneRunPerKey`, `SpawnRateHolds`; `IndicatorsKept`; `RevokedForGood`, `ServedSeeded`; `FindingsGrounded`; `StagesHold` |
| `ExecutionProofs` | `DiscoveryTyped`, `FailuresTold`; `BudgetHolds`; `NewsToldOnce`; `CitationsOpen`; `PrimitivesKept`; `PropositionsKept` |
| `EvidenceProofs` | `EvidenceTyped`, `CitedIsStored`, `DisputesRecorded`, `DeepRunsReviewed`, `RetractionsYieldOnlyToDispute` |

Every invariant and action property that a passing run checks is stated by one of these theorems.
Only model-checked: liveness (`NoRunStuck`, `QueueProgress`, `EveryBatchEnds`, `DiscoveryEnds`),
which needs fairness and ENABLED, out of the prover's reach; and the violations, which are
counterexamples and need no more. The library's induction schemes take an operator as a parameter
and are out of reach too; where a value is computed over numbers (the discount for further clashes,
the record that stays) the proofs go by the least member of a set of numbers (`LeastNatural`), which
follows from a theorem that takes none.

Conventions of the instances. Every bound is a named constant with its value in the `.cfg`. Symmetry
is used only over workers, requests, callers, processes or indicators that the instance does not
tell apart, and never with a liveness property. Deadlock is not checked where an instance may stop:
requests, submissions and faults are finite in number, so a state where all is done is the normal
end. The type invariants of the parts that share a run are joined in `TypesOK` of the `MC` modules,
which can be added to a cfg.

## 12. Not modelled

* Logging, metrics, page layout, prompts, wire formats of model providers, text filters and
  sanitising: no state, or output only.
* The root scripts, `app/agents`, `intelx_upgrade`, `routers/real_osint_routes.py` and the unmounted
  `api/real_*` routers: stand-alone programs, an earlier copy of the core primitives, and objects
  that live within one request.
* Files: raw captures and the files a purge unlinks; entities and artifacts of a document, which are
  written with it in the transaction that `SourceStore` models as one step.
* Analyst and critic beyond their verdicts, which `RunLifecycle` takes as a choice.
* Middleware, tenant comparisons (stateless), Sentinel's policy text, `ledger.reset()`, independence
  groups.
* The domain, extension and connector-kind rules of `PolicyEngine.evaluate`, which `job.submit`
  never reaches, and the connector guard factory, which only tests use.
* Time, other than as steps that may happen: hours, days, deadlines and timeouts are actions.
