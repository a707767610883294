# Forecasting-Tool in TLA+

The program is a Streamlit app that forecasts uploaded or demo series with a
pre-trained Chronos-2 model, and a set of scripts that collect, publish and
verify the evidence a release rests on. The app runs in one process with a
small memory limit: there is one model pipeline, all browser sessions share it,
and a call into it cannot be cancelled. Most of what can go wrong sits there,
in the sharing, and in the evidence of tests that real browsers execute in no
particular order. The rest is sequential but long: a table goes through a dozen
checks before it is forecast, a bundle through as many before it is accepted.
This directory models those parts, checks them with TLC, and proves their safety
properties with TLAPS.

## The system

| Part | Source | State it keeps | Operations |
|---|---|---|---|
| Inference coordinator | `src/coordinator.py` | health, semaphore, waiter count, active request id, bounded request log, last failure category | `run()`, `clear_log()`, read accessors |
| Cached resources | `pages/_cloud_runtime.py` | one coordinator, one adapter and one telemetry store per process | three `st.cache_resource` accessors |
| Chronos-2 adapter | `src/forecasting/chronos2_adapter.py` | the lazily loaded pipeline, a call counter | `forecast()`, `load_pipeline()` |
| Forecast page | `pages/1_Forecast.py` | session state: `run_lifecycle`, answer, error, pending recovery flags, collection id, the cached upload with its digest and columns | one script execution per widget event |
| Memory sampler | `src/cloud_diagnostics.py` | `_running`, the peak so far, a daemon thread | `start`, `stop`, `to_sample` |
| Telemetry store | `src/cloud_diagnostics.py` | two bounded deques: request records, acceptance events | `record`, `snapshot`, `begin_collection_session`, `clear` |
| Cloud Diagnostics page | `pages/3_Cloud_Diagnostics.py` | session state: collection id, finalised session record | Begin, Finalise, import of a bundle, downloads |
| Collection session, receipts, bundles | `src/cloud_diagnostics.py` | none (functions over records) | grouping of ids, validation, merge, digest |
| Execution telemetry | `src/telemetry.py` | evidence files, receipts; reads git and the model cache | `ReceiptContext`, `run_with_receipt`, `ExecutionReceipt`, `write_evidence` |
| Smoke test | `scripts/chronos2_smoke_test.py` | none | loads the model, forecasts cold and warm, writes its evidence |
| Publisher and verifier | `scripts/publish_evidence.py`, `scripts/verify_evidence_manifest.py` | evidence files and a manifest on disk | publish one file; verify all |
| Evidence schemas, bundle builders, readiness verifier | `src/evidence_schemas.py`, `scripts/build_*`, `scripts/verify_stage0_*` | none | validation, assembly |
| Benchmark suite | `src/benchmarking.py`, `scripts/run_stage0_benchmark.py` | the results of four scenarios, one adapter | `run_benchmarks` |
| Backtests, baselines, metrics | `src/backtesting.py`, `src/baselines.py`, `src/metrics.py` | none | algorithms over one series |
| Ingestion, validation | `src/data_ingestion.py`, `src/validation.py`, `src/schemas.py` | none | a sequence of checks and normalisations |
| Redaction, storage policy, configuration, set-up scripts, MCP checks | `src/redaction.py`, `src/storage_policy.py`, `src/config.py`, `scripts/*` | none | text and path checks, installation |

How they meet. The Forecast page calls `coordinator.run()` from a script thread
and blocks in it. `run()` waits for a permit under a deadline, starts a daemon
thread that calls the adapter, and waits for that thread under a watchdog. If
the watchdog expires the thread cannot be stopped: the coordinator keeps the
permit for ever, declares itself poisoned, and refuses all later requests until
the process is rebooted. When `run()` is back, the page stores the answer in the
session state, writes a record and acceptance events to the process-wide store,
and clears its lifecycle. The Cloud Diagnostics page reads the same store,
turns the records of one collection (and, if the URL names one, of a peer's)
into a session record with a receipt, and lets the operator download a bundle
that is imported after the reboot at which the token is removed.

The adapter behind the coordinator loads its pipeline on the first call and has
no lock of its own: it relies on the permit. The page prepares its input itself;
the ingestion pipeline and the backtests are library code which no page calls
yet, and do the same preparation once more. On the operator's machine the smoke
test and the benchmark suite use the same adapter, one process each; their
evidence and receipts become a local bundle, which the publisher copies into the
repository.

What is hard here: a semaphore, two locks and an unlocked read that several
threads go through; a caller that is gone while its worker is not; scripts that
Streamlit stops at whatever access to the session state comes next, the
`finally` block included; time limits on both sides of the same event; deques
that evict independently of each other; a collection that changes while a run
of it is in flight; a reboot in the middle of an evidence collection; a
worktree and a model cache that move while something is measured in them; a
script stopped between two assignments that belong together.

What makes each part correct:

* coordinator: a permit is never lost, released twice or given to a second
  execution while the first still runs; every caller comes back; the
  diagnostics agree with what the callers and workers do;
* Forecast page: one request per session, the answer shown is that of the last
  run started (unless that was stopped before it cleared the one before), the
  Run button always comes back;
* collection: an acceptance test is marked passed only if it happened, in that
  collection; the session record binds each execution once, and only those of
  the collections it was asked for or of the imported bundle;
* form: the table a run takes is the one of the file on show;
* adapter: the model is loaded once, by one call, and says so once; an answer is
  a path that follows the uploaded history, as far as its rows have a time;
* preparation: page and ingestion pipeline make the same task of a table, but
  for the frequency, which only the pipeline infers;
* benchmark: the verdict is that of all calls, and a passing suite is one the
  schema accepts;
* backtest: no fold sees its own future, and the folds tile the end of the series;
* local bundle: what it binds was run to its end, at its commit, on the paths it
  claims, by executions of their own;
* publisher: whatever is interrupted, the manifest names complete files that
  verify; receipts belong to their evidence; an entry is lost only when reading
  the manifest raises, or when a copy over it is cut short.

## The modules

**Coordinator** models `InferenceCoordinator`. `pc[r]` is where the thread of
call `r` stands in `run()`, `worker[r]` its daemon thread, and the other
variables are the fields of the class. An action is the code between two points
at which another thread can see a difference: the semaphore, the section under
either lock, the unlocked read of `_health_state` (`Gate`), the start and the
end of a worker. Two orders of the code are kept apart because others can see
them: the unresponsive record is written *before* the coordinator is poisoned,
and a completed call is recorded *after* its permit was released.
`StartWorkerFails` is `Thread.start()` raising, which leaves `run()` with the
permit taken. `Recycle` is a reboot: the cached coordinator is new and all
threads are gone. `QueueTimeout` requires that no permit is free: CPython's
semaphore looks once more under its own lock before it gives up.

**InferenceGate** is what the coordinator promises the pipeline, in 5 actions
and a reboot: at most `Capacity` calls inside, a call whose end is not known
never gives its place back, and giving one up closes the gate.

**RunLifecycle** models one browser session of the Forecast page. An element of
`Run` is a script execution started by the Run button; clicking again tells the
old thread to stop, and it does so at its next access to the session state
(`ScriptStep` requires that the script was not told to stop, `Abort` is the
stop). Inside `coordinator.run()` it makes none. Time is counted in units of
which `MaxAge` make up the code's own limit (queue timeout + watchdog + margin,
lines 304-333). The three writes that open a run (lines 481-483: the phase, the
error, the result) are steps of their own, since a script may be stopped between
them. `latest` (the last run past the guard), `fresh` (the last one that took the
old answer away) and `expired` are history variables.

**CollectionSession** models the store, what the Forecast page writes to it, and
the Cloud Diagnostics page. Requests are numbered in the order they start, so
the number stands for `started_at_utc`, and `seen` for the completion time as
far as overlaps are concerned. The id groups, their validation, the merge of
cohorts and the treatment of imported ids are operators named after the
functions they translate. Two fields of the session record, `named` and
`imported`, are history: the collections it was asked for, and whether it took
ids over from the bundle.

**EvidencePublisher** models one run after another of `publish_evidence.py`, up
to its file operations: each `open`, each completed write and the final move is
an action, and `Crash` may end the process in front of any of them. The move is
`shutil.move`: where `os.rename` replaces a file it is one step (`MoveTmp`); where
it raises because the manifest exists, as on Windows (`RenameMayFail`), the
manifest is opened, filled and the temporary one removed (`CopyOver`,
`FinishCopy`, `UnlinkTmp`), and each of these may be the last. `LoadManifest`
starts from an empty manifest when there is none, when half of one is there, and
when reading it raises; `unread` remembers the last case. A document
is a record of what the validators tell apart; a file is absent, partial or
holds a document, which stands for its hash. A bundle's receipts have a quality
each: release ready, valid, broken, absent. Sanitisation is modelled by its
effect: it changes text, and where a digest covers that text the receipt binds no
longer; a path nested in another one survives the first pass. The verifier only
reads, so its verdict on an entry is the operator `EntryVerifies`, and a property
about it holds whenever it is run.

**EvidenceSchemas** and **EvidenceBundle** model how the local bundle comes
about. A job is a measurement of the checklist under one of the three receipt
writers; its steps are the moments at which it asks git, inspects the cache,
loads the model, forecasts, writes its file and its receipt. Between them the
worktree is edited, moved forward or restored, a download is interrupted, a run
is killed, a status query fails, a file is overwritten, copied or handed to the
builder in the wrong slot; each of these is a mishap of which a behaviour has
`MaxMishaps`. A document is a record of what the validators look at and
stands for its digest; `run` stands for the run id and the times of an
execution. `made` is history: what each measurement really was, against which
the accepted bundle is held. `Build` is the builder with its whole validation.

**ForecastInput** holds the operators from a table to a `ForecastTask`, twice:
`PagePrepare` (the page's own lines) and `RunIngestionPipeline`, check by check
in the order of the code, with blank cells, unparseable text and missing numbers
as values. Both return the task with its frequency, `Missing` on the page.
**ForecastPage** puts it in front of the gate and the adapter: it instantiates
`InferenceGate`, so what it assumes of the coordinator is what
`CoordinatorProofs` proves of it; the lazy loading is three steps
(`GetPipeline`, `Provide`, `Count`) and a fourth that compares the counter
(`Measure`). The model answers with any table of a set, whose times may be
empty, unreadable or NaT. A comparison with NaT is false, so the adapter takes
an answer with one such row, and does not compare the rows around it;
`AcceptsOutput` does the same, and `ValidPanel` in BenchmarkSuite.

**BenchmarkSuite** runs the four scenarios call by call, each call with any
outcome; **Backtest** scores fold by fold on integers, so that means stay sums.
**UploadForm** is the sidebar, one assignment to the session state per step.
**MemorySample** is the sampler of one request, its thread and the process's
memory. **ForecastProcesses** puts these next to each other: they share no
state, so a behaviour is about one of them, chosen at its start, and one run
checks them all.

`MC*` modules only name sets, symmetry, constraints and one view.
**Sublists** is the list comprehension with a condition, as a fold. The
`*Proofs` modules extend the modules they are about, and **SequenceLemmas** holds
the facts about sequences they share. The runs check a type invariant of
Coordinator and RunLifecycle; those of EvidencePublisher, EvidenceBundle and
CollectionSession stand, with the rest of the inductive invariants, beside their
proofs.
Operators marked *Slip* are plausible mistakes in the definition they are named
after; each property is shown to fail when its slip is put in place.

## The runs

| Run | Question | Bounds |
|---|---|---|
| `coordinator_deployed` | Capacity 1 as configured: exclusion, no entry once poisoned, an owner is always shown, an answered caller finds its record; with fairness: every call ends, a permit comes back, or the coordinator is poisoned, or the thread did not start | 3 calls, log of 3, failing threads |
| `coordinator_two` | Capacity 2: permits, poison, active id, queue depth, log; implements `InferenceGate` | 4 calls, log of 2, clearing and failing threads |
| `lifecycle_session` | one request per session, answer of the last run, button comes back | 3 executions, `MaxAge` 2 |
| `lifecycle_stale` | *violated:* "never misclassified" | 2 executions, `MaxAge` 3 |
| `collection_session` | a session record binds what it was asked for, once; recovery, concurrency and repetition are claimed only where they happened; why a record is invalid | 2 browsers, 2 requests, 1 further collection each; or 1 browser, 2 requests, 1 reboot and a bundle; or 1 browser and 4 requests; deques of 3 |
| `collection_schema` | *violated:* "never emits a session the schema would reject" | 3 requests |
| `publisher_serial` | a manifest that can be read is accepted by the verifier, forgets nothing, names the receipts of its evidence, sanitised and still bound | 6 files, 21 documents, any `--type`, dry runs, renaming, copying and failing reads |
| `publisher_atomic` | *violated:* "Updates `evidence_manifest.json` atomically" | 4 files |
| `publisher_receipts` | *violated:* "Each receipt is validated ..." | 4 files |
| `evidence_bundle` | an accepted bundle holds completed runs, of its commit, on the claimed paths, independent of each other | 3 commits, 5 measurements, 2 mishaps |
| `evidence_smoke` | *violated:* what the smoke test's docstring says of its result | 1 measurement, no mishap needed |
| `forecasting_all` | one load, answers that follow the upload, page and pipeline agree; verdicts of the suite; folds and baselines; the form's table; the sampler's numbers | 2 page runs, 1 reboot, 13 tables, a cap of 7; 2 series, 2 folds; series up to 8; 4 files; 3 memory sizes |

Why the bounds are enough. The coordinator's calls interact in pairs: one that
holds and one that waits, or one that was given up and one that comes later; a
third and fourth call fill the queue and, with capacity two, the second place.
The log of two evicts in `coordinator_two`; in `coordinator_deployed` it holds
every call, which is what `AnsweredIsLogged` speaks about. In RunLifecycle the
third execution is the one that overtakes a second that overtook a first. In
CollectionSession a recovery takes two requests, a shared recovery three, the
third warm run four (the first constructs the pipeline). Deques of three are
smaller than what one collection writes, so records and events are evicted in
all combinations. The constraint `Scope` puts three kinds of behaviour next to
each other: overlaps need two browsers, the carried-over bundle a reboot, the
third warm run four requests. What would take two of these together is left to
the theorems, which have no such bound; so is a fourth request after a
poisoning or a failure still to recover from. The request ids are interchangeable;
symmetry is used in safety runs only. Six files let a bundle with two receipts
replace another one, or two smaller publications interrupted at different places
precede a third. The view of `publisher_serial` does not tell apart what no step
and no property reads again: the content of files no entry and no running
publication names, and a temporary manifest that is not about to be moved.

In EvidenceBundle three commits let the worktree go on to one with the same
model revision and to one with another; the first is from before
`machine_summary` reported `os_name`. Five measurements are the checklist once;
two mishaps let one break something and another hide it (an edit and a failed
status, a killed run and a copied file). In ForecastPage two runs are enough for
one to load while the other, given up or not, still works; the tables of
`MCUploads` contain every kind of bad cell, both bad selections and a series
longer than the cap, `MCModelOutput` every violation the adapter looks
for, and answers with a NaT that it lets pass. A
backtest of eight observations is longer than the cap and holds three folds of a
horizon of two; seasons of up to three do not divide every horizon and window.

Deadlock is not checked for the coordinator, the bundle and the programs that
forecast: after the last call, measurement or fold nothing need happen.

## Fairness

Coordinator: weak fairness of `CallerStep(r)` alone. A thread inside `run()` is
scheduled, and both of its waits have a timer. Nothing is assumed of the
backend, which may hang for ever, and nothing of reboots. RunLifecycle: weak
fairness of time and of a script execution that can go on, which includes that
`coordinator.run()` comes back; this is what `EveryCallEnds` shows of the
coordinator. The user owes the page nothing.

## What is proved

Every invariant the passing runs check, the two action properties
`NoEntryWhilePoisoned` and `NothingIsForgotten`, and the refinement of
`InferenceGate` are theorems of their specifications, for every value of the
constants. Each rests on the named assumption of its module
(`CoordinatorAssumption`, `LifecycleAssumption`, ...), which says what the
constants are and little else; TLC evaluates it in every run. Where a theorem
needs more than that, it says so in an `ASSUME` of its own, named below.

**CoordinatorProofs.** The set of requests may be infinite; threads may fail to
start and the log may be cleared.

* `TypeCorrect`, `PermitsAreConserved`, `PipelineIsProtected`, `PoisonIsExact`,
  `ActiveIdIsCurrent`, `QueueDepthIsExact`, from one invariant. Beside these it
  says that a running worker belongs to a caller that is executing, overrun,
  poisoning or has given it up (`WorkerFitsCaller`); that the active id belongs
  to a caller between `_set_active` and `_clear_active_and_release`, or to one
  that kept its permit (`ActiveFitsCaller`); and that the callers in the queue
  are finitely many. With the first, running workers are a subset of the calls
  that hold permits, and `PermitAccounting` bounds those. The lemma `Moved` says
  how a set of callers changes when one of them moves; `AccountingMoved` and
  `QueueMoved` use it for the two counters.
* `LogTellsTheTruth`: `LogIsTruthful` is inductive with the types. Each step
  that is no reboot and no clearing either writes the entry of a caller that had
  none, or leaves the log and what was told alone (`LogEffect`).
* `EveryAnswerIsLogged`, *if* the requests are finitely many, the log holds that
  many and nobody clears it: then the log has exactly one entry for each caller
  that is recorded (`LogIsComplete`), so the next one evicts nothing. Without
  the hypothesis it is false, as a bounded log must be.
* `NoSecondEntry` and `BusyShowsItsOwner`, the two that are stated for one
  permit: then the call that holds it *is* the active id (`ActiveIsExact`), not
  just any of those that hold one, and nobody gets past the semaphore again.
* `CoordinatorImplementsGate`: with `Inside` the calls that own a permit they
  will give back and `Kept` those that will not, every step of every thread is a
  step of the gate or changes nothing it shows, for every capacity. `GateMoved`
  says what the move of one caller does to the two sets.

**RunLifecycleProofs.** `TypeCorrect`, `AnswerIsOfTheLatestRun`,
`SessionHasOneRequest`, for any number of runs and any age limit. At most one
script has not been told to stop (`OneScriptActs`), and if one acts it is the
last one started (`LatestActs`): so an old answer has no one left to store it.
The answer is of the last run that cleared the one before; that is the last one
past the guard unless it is still clearing or was stopped there, in which case
nobody is the latest.
For the request, a lifecycle older than `MaxAge` has expired (`OldIsExpired`),
who is in the coordinator owns a busy lifecycle unless one has expired
(`RequestIsBusy`), and a script that acts shares the coordinator with no other
(`ActsAlone`, `OneInCoordinator`).

**EvidencePublisherProofs.** `WhatIsPublishedVerifies`,
`ReceiptsAreOfTheirEvidence`, `PublishedIsSanitised`, `NothingIsLost`, for any
documents, any finite set of receipts, any number of publications and crashes,
and whether `os.rename` replaces a file or may raise. `WhatIsPublishedVerifies`
speaks of a manifest that can be read, and says that every one can where
renaming replaces; `NothingIsLost` states its two exceptions, a read that raised
and a copy cut short. The invariant has a part for each place the publication
lives in: the file at work is partial or the document, never one written before
(`OnDisk`), and the document is accepted and sanitised by then (`AtWork`); the
manifest in memory is the one on disk with what this publication has added, and
owes the receipts still to be written (`InMemory`); the one on disk owes none
(`OnRecord`). `RoomLeft` shows that a publication that was begun has the file
names it needs, so the bound `MaxFiles` never stops it half-way.

**EvidenceBundleProofs.** `MeasuredWithTheBundlesCode`, `TokenPathsRanTwice`,
`OnlyRunsThatEndedWell`, `ColdMeansFetched`, for any number of runs and mishaps
and any commits. The heart is a bracket: a file quotes no commit from before its
run, a receipt begun before it none from after (`FilesGood`, `ReceiptsGood`;
`JobGood`, `RunningGood` and `ContextGood` for what is still in a process), and
the worktree only moves forward; where both quote the bundle's commit, the run
is of it.

**CollectionSessionProofs.** For any number of browsers, requests, collections
and reboots, and any size of the store:

* `RecoveriesTookPlace`: the flag of a session is set for a timeout of its
  collection that happened (`PendingIsReal`), and a recovery on record has its
  pair in the history (`RecoveriesAreReal`).
* `RepeatsTookPlace`, `ConcurrencyTookTwo`, and half of `SessionsAreCoherent`,
  from one invariant (`EvidenceInvariant`). Evidence moves from the store to the
  session record, to the bundle and back into a session record after the reboot,
  so nothing can be said of one of them alone: what is kept anywhere is of the
  history (`KeptIsOfHistory`), what is bound to one token state anywhere is
  bound to the other nowhere (`TokensApart`), and a claim of repetition anywhere
  has its three requests (`RepeatsAreReal`). Two requests of one collection do
  not overlap (`OneAfterTheOther`), which is why two that do are of two
  collections.
* `InvalidIsExplained` and `SessionsAreCoherent`, *if*
  `OrderedSorts(Seq(Record))`, from a second invariant (`StoreInvariant`). That a
  record binds only ids of the collections it names or of the bundle
  (`BindsItsOwn`) is carried through the finding of groups, the merge of cohorts
  and the import. That repeated ids come
  from shared recoveries only is a fact about the derivation of the groups; that
  an execution without its record comes from eviction only needs that a token
  event is in its deque once (`TokensOnce`) and that its record is either held,
  no further from the end of the deque than the request is from the end of the
  history, or so many requests have ended since that it was evicted
  (`TokensAreHeld`).

**EvaluationProofs.**

* `NoFoldSeesItsFuture`, `TheEndIsTiled`, `SeasonalBaselineIsExact`, for every
  series and configuration, *if* `SortValuesSorts(BacktestUploads)`. The
  invariant describes every fold that was scored by its window of the ingested
  rows, which are in strict order of time; that windows tile the end, and that a
  value equals the one a season earlier, are arithmetic on it.
* `PassingSuitesValidate` and `NoFailureIsHidden`, for any number of folds, any
  panel, any answer to it and any outcome of the calls. The panel of a suite
  that passes has all its rows, in order as far as they have a time
  (`ValidIsComplete`). Failures are told by a sample of a scenario
  (`FailuresAreTold`), and what each verdict was judged from stays what the
  envelope shows (`WeeklyInv`, `PanelInv`, `RollingInv`, `RevisionsAreKnown`).

**ForecastPageProofs.**

* `OnePipelineForEachProcess`: with one permit (the property is stated for one)
  the calls inside or kept are one at most (`WorksAlone`), a call in the provider
  sees no pipeline and a count of zero (`LoadingProgress`), and a call whose
  count has yet to grow is the only one that will report the load (`ColdLoads`).
  It speaks of the gate's steps only; together with `CoordinatorImplementsGate`
  it holds of the coordinator.
* `BothPrepareTheSame`, for any table and settings, with nothing assumed of the
  sort: both sides call the same one on rows that are equal by then. The tasks
  are the same in all but the frequency.
* `AnswerFollowsTheFile`, *if* `SortValuesSorts(Uploads)`: the task of a run that
  was admitted is the one its upload prepares (`TaskInv`), and an answer the
  adapter accepted is of one item, has no time twice, and is a path that starts
  after the last row of that task as far as its rows have a time (`Timed`).
* `SampleFitsTogether`, for any memory sizes: whatever was read is within the
  high-water mark (`WithinHighWater`), a thread that was waited for to its end
  has made its last comparison (`NoLateReading`), and the peak of the process,
  read last, bounds the rest (`ProcessPeakIsLast`).
* `FormIsTruthful`, for any set of files: outside of its bookkeeping the digest
  stands for the table (`DigestStandsForTable`), how far the script has got
  within it (`BookkeepingProgress`), and a table is only there while the source
  is "Upload CSV" (`SourceIsNoted`). The property itself speaks of the moment the
  form is shown only, and a script that begins with a digest of one file beside
  a table of another would break it in its next run.

**SequenceLemmas** holds what these share. The library's induction is about an
operator, which the provers cannot instantiate; `Induction` is one about a set
of numbers, proved from the well-foundedness of finite subsets. With it the
folds of the community modules can be reasoned about for every length: what a
list comprehension (`Only`) keeps, in what order and how often, and what
flattening a list of lists holds (`Flattened`).

**The hypotheses on sorting.** `SortSeq` is a primitive of the proof system,
which knows nothing of it, so two hypotheses say what is needed: the result has
the elements of the list, in order (`SortValuesSorts`; `OrderedSorts` adds that
a list without repetition stays one). Both orders are written with `<=`: under
`<` the definition of `SortSeq` does not determine the result for a list with
two equal keys. TLC evaluates the hypotheses for the tables of the runs
(`UploadsAreSorted`) and for every list of up to four records over three ids
(`RecordsAreSorted`).

**What the proofs corrected in the model.** In EvidencePublisher a local bundle
may bring a receipt under a key of the cloud record and replace that record's
entry (`publish_evidence.py:227`, now part of finding 3); the verifier's
exception is exactly the receipts no validator has seen (`Unseen`). In
EvidenceBundle `MeasuredAtItsCommit` holds of receipts begun before their run:
`ReceiptContext` digests whatever component it is handed, so its receipt of
another run's file says nothing of that run. Both sorts got their `<=`, and list
comprehensions are folds, about which something can be proved.

**Model-checked only.** The three liveness properties (`EveryCallEnds`,
`PermitComesBackOrPoisoned`, `NeverDisabledForever`): fairness and ENABLED are
out of the proof system's reach. What the sorts compute. The five runs that
expect a violation.

## Findings

1. A rejected input leaves `started_at_utc` behind. A run started long after it
   is stale from its first moment: the button stays enabled during the run and
   a second click enters the coordinator with a second request
   (`lifecycle_stale`).
2. Two queue timeouts before one success give a session record with a repeated
   id, which validation and the evidence schema reject, but the page hands it
   out with a warning (`collection_schema`).
3. The publisher writes every receipt of a local bundle into the manifest, but
   only those a passing bundle must have are validated. The verifier then fails
   on what was published (`publisher_receipts`). Such a receipt may also replace
   an entry of the cloud record under the same key. The repository's own builder
   writes neither a bundle that did not pass nor other receipts;
   `tests/test_publish_evidence_e2e.py` publishes one that did not pass.
4. The smoke test sets `success` before it validates its evidence, and keeps it
   when the validation fails, which at this commit it always does
   (`machine_summary` reports an `os_name` that `SmokeEvidence` does not
   declare); the script exits with 0 (`evidence_smoke`). The builder would
   refuse the file.
5. On Windows, from where the project publishes, the manifest is not replaced but
   copied over: `os.rename` raises for a name that is taken, and `shutil.move`
   then copies. A crash in the copy leaves half a manifest, which the next
   publication takes for an empty one; an `OSError` in it removes the temporary
   manifest too, the last whole one (`publisher_atomic`).

## Observations

Seen while modelling; no run is about them.

* A `Thread.start()` that raises leaves the permit taken and the coordinator
  healthy: with one permit every later request times out in the queue until the
  process is rebooted (`coordinator.py:417`). `PermitComesBackOrPoisoned` states
  the exception.
* A run stopped after it passed the guard and before it cleared the result leaves
  an earlier answer on the page (`1_Forecast.py:481`). `AnswerIsLatest` states
  the exception.
* An `OSError` while the manifest is read counts as an empty manifest, and the
  publication that meets it replaces the whole one (`publish_evidence.py:192`).
  `NothingIsForgotten` states the exception.
* The adapter accepts an answer with a row whose time is NaT, once: its text is
  not empty, no order is seen around it, and an answer that begins with it is not
  compared with the history (`chronos2_adapter.py:285`, `:320`). The panel check of
  the benchmark lets one such row of each series pass (`benchmarking.py:130`).
* The page makes its task without a frequency (`1_Forecast.py:583`), the pipeline
  with the inferred one (`data_ingestion.py:444`).
* `last_failure_category` keeps its value while the coordinator is healthy
  (`coordinator.py:219`, `:381`, `:470`).
* Finalise turns validation errors into warnings, and hands out a receipt for a
  session record that names an execution whose record the store has evicted
  (`3_Cloud_Diagnostics.py:430`).
* A table of exactly two rows passes every check, and `pd.infer_freq` then raises
  out of `run_ingestion_pipeline`, which never raises for data problems by its
  docstring (`validation.py:339`, `data_ingestion.py:368`).
* The page notes the digest of a new file before it has parsed it. A widget used
  while a large file is parsed stops the script between the two, and from then
  on the form takes the table before it, or none, for that file, until another
  file is read (`1_Forecast.py:433`). `FormUsesTheOfferedFile` states exactly this
  exception. Line 14 says the table is "keyed by hash".
* Removing a file from the uploader leaves its table in use, with the column
  names fallen back to `timestamp` and `target`.
* `validate_backtest_parameters` admits a first training window of one
  observation, for which `_naive_mae` raises; missing targets are a warning, and
  `evaluate_fold` then raises or scales by NaN.
* A target column that happens to be called `item_id` is taken for several
  series by the adapter.
* The page accepts repeated timestamps, which the ingestion pipeline rejects.
* The builder checks neither the slot labels of its components nor that the two
  cold runs differ; a download-cold file with its token flags changed passes as
  the token-present run with a legacy receipt. Legacy receipts name no execution
  and are exempt in `MeasuredAtItsCommit`. `ReceiptContext` records exit code 0
  for a run that returned `success=False`; a document with an error text
  validates as a success after migration.
* An interrupted download leaves a snapshot directory that counts as present, so
  a process-cold run may still download; a download-cold run whose cache directory
  does not exist yet produces evidence that never validates, with `success=True`.
* `rss_after` of a memory sample may exceed its peak: no reading is compared
  after the thread has ended.

With capacity two, which the constructor accepts but the configuration does not
use, the model also shows that the end of one request blanks the active id of
the other and that a waiter may enter after the coordinator was poisoned; no run
claims otherwise (`BusyIsShown` and `NoEntryWhilePoisoned` are stated for the
deployed capacity).

## What is left out

* Streamlit itself is external: a widget event reruns the script in a new
  thread and stops the old one at its next access to the session state; a page
  switch stops the script of the page left.
* CollectionSession assumes demo data (tests of uploaded files are not
  recorded), a valid deployment identity, and that the peer named in the URL is
  not the session itself. `Conclude` is one step: the store has a lock, and what
  lies between its calls touches only the session's own state. A finalised
  record is dropped at the next step of anybody.
* EvidencePublisher: two publishers at a time (an operator runs the script by
  hand; they would share the temporary file and lose updates), entries an
  operator marks invalidated, `code_commit` (copied from the document into the
  entry and compared with it), and keys of dictionaries, which sanitisation does
  not change.
* EvidenceBundle: measurements taken at the same time (the checklist takes them
  one after another), a worktree that moves back to an earlier commit (which the
  code could not notice), the picking of the newest `benchmark_*.json`, the two
  component checks nothing calls, and the readiness verifier, which checks
  documents it makes itself. The builder of the cloud bundle assembles what
  CollectionSession produces and is not modelled.
* Forecasting: parsing of bytes and the guess of the columns
  (`parse_csv_bytes`, `ingest_upload`, `detect_column_mapping`, called by tests
  only), `build_forecast_task`, versions, warnings and durations, RMSE, the
  aggregate sample of the rolling scenario, the Markdown report. With more than
  one permit the pipeline could be loaded twice; `PipelineLoadedOnce` is
  stated for the deployed one. The order pandas gives rows of equal times is
  not specified; the model keeps theirs. Frequencies are the common step of
  evenly spaced times; the calendars of `pd.infer_freq` (months, business days)
  are left out.
* MemorySample: readings of 0.0 on a platform without `/proc` and psutil. The
  sampler of the benchmark (`telemetry.MemorySampler`) is the same loop and not
  modelled a second time.
* The cache of pip check is listed as a hazard without a property, with its reason.
* Digests, floating-point numbers, formatting and measurements.
* The parts listed as not modelled in `PROJECT.json`, each with its reason.

## Plan

1. (done) Coordinator with its gate and its first theorems; RunLifecycle;
   CollectionSession; EvidencePublisher.
2. (done) The local bundle; the form, the page and the adapter behind the gate;
   benchmark suite, backtests and ingestion; the memory sampler; the form's
   theorem.
3. (done) Every safety property of every module, and the refinement of the gate.
4. Next: `OnePipelineForEachProcess` without the sentence "together with": a
   module in which the page's calls go through the coordinator itself. The
   inductive invariants as invariants of small runs of their own. Facts about
   the sorts from the definition of `SortSeq`, should the proof system learn it.
