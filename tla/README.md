# Quant_Ashare: formal model of the data pipeline and the operator's runs

TLA+ modules, TLC configurations and TLAPS proofs about the parts of this
repository whose correctness depends on the order in which processes, crashes
and file operations happen. Paths below are relative to the repository root
(PROJECT.json names them with the directory the sources are checked out in).

## 1. Inventory

The system is a research pipeline for the A-share market. A scheduler, or the
operator UI, runs a **daily update** that fetches raw data, rebuilds a
point-in-time qlib bundle beside the live one, validates it and swaps it in.
Readers (the recommender, back-tests, the UI) open the bundle at one path. The
UI also launches **training jobs** as detached processes.

| Component | State it keeps | Operations | What is hard, and what must hold |
|---|---|---|---|
| Single-flight locks (`src/data_pipeline/single_flight.py`) | one advisory lock file per mutable root | `single_flight`: take all in sorted order, refuse on contention, release in reverse | overlapping but unequal resource sets; errors half-way; death while holding. Exclusion; not everybody refuses; no orphan |
| Bundle swap (`src/data_pipeline/bundle_swap.py`) | `<provider>`, `.new`, `.bak` | `swap`, `check_and_repair` | a crash between any two directory operations, torn `rmtree`. What is live is whole and validated; an interruption is repaired; no generation is lost |
| Orchestrator (`src/data_pipeline/daily_update.py`, `scripts/daily_update.py`) | dump, registry, bundle, status artifact, ledger | repair, calendar gate, fetch, snapshot check, 02/05/03/04/07, validate, swap, records | any stage fails, raises or is killed. Records tell the truth; success means readers are served; holes need a sanction |
| Bundle builder 05 (`src/data/pit/qlib_bin_builder.py`) | staging directory | completeness gate, promotion | builds from a dump another run may be changing |
| UI jobs (`web/operator_ui/job_*.py`) | `job.json`, runner and training process | start, runner, signal handler, stop, reconcile, delete | four kinds of writers merge into one file on stale snapshots. A recorded result is the real one; nobody clobbers it; a dead runner is noticed |
| UI launch/cancel of the update (`update_runner.py`, `pages/run_center.py`) | Popen handle, evidence by launch nonce, status record | launch, cancel, settle | a cancel racing the end of the run and the next run of the scheduler. Answers are true, a living run is never hidden |
| Recommender (`recommend_runner.py`, `provider_lock.py`) | process tree of the child, published artifacts, rollback ledger | lock, run child, time out, kill, drain, publish, roll back | no swap under a reader, the lock comes back although nothing can be assumed of the tree, a publication is whole or reported name by name |
| Fetch manifest (`fetch_manifest.py`, `01_fetch_tushare.py`, `fetcher.py`) | raw files, coverage and hole record, watermark | scan, skip, pull, merge, write, reset | killed between data and manifest; ranges that differ; the vendor publishes meanwhile. Coverage claims what is there, history is not clipped, holes are come back to |
| Quarantine publication (`quarantine_transaction.py`, `suspension_quarantine.py`) | journal, raw file, manifest, retained evidence | begin, prepare, finish, recover, retry | crash at each journal step, also of the recovery. The files stay a pair, recovery always knows the bytes, an obligation is only discharged by a complete history |
| Run ledger/status readers (`update_status.py`, `update_ledger.py`) | none | read | torn tail, symlinked ledger |
| Rotation and cutover (`rotate_ensemble_member.py`, `bootstrap_ensemble_cutover.py`, `ensemble_serving.py`) | serving set | rotate, cut over | several files replaced one by one |
| Walk-forward engine and resume (`walk_forward/engine.py`, `_resume.py`, `ensemble.py`) | per fold: model, positions, report, manifest | discover, decide, skip, train, average priors, backtest, verify, save | killed between two artifacts; the bundle swapped under the sweep. A report mixes nothing, what was saved is not done again |
| Run catalog (`run_catalog.py`, `prune_run_catalog.py`) | JSON lines | append, prune | read-modify-replace against append, lock timeout |
| Decision journal, basket, feature cache, promotion, retraining gate, preregistration | files | append/put/check | mostly sequential |
| Backtest, attribution, analysis, rendering | none | compute | numeric, no shared state |

How they interact. `scripts/daily_update.py` wraps the orchestrator in the
locks of its provider, dump and registry; the orchestrator calls the swap
module; the UI starts the same script as a child and the recommender takes the
provider's lock by the same file name, so that `RecommendRun` and `DailyUpdate`
both extend `SingleFlight`. Step 01 of an update is where the two models of the
raw dump play, `FetchLedger` for the endpoints with one file per security and
year, `QuarantinePublication` for the suspension history; the updater's lock on
the dump is why their runs do not overlap. The page that launches an update
and the scheduler meet in the status artifact. The walk-forward engine takes no
lock: it compares the identity of the bundle around every fold instead. The
training jobs are independent of the update: the UI, the runner and the
runner's signal handler share only `job.json` and signals.

The hazards these parts are exposed to are in PROJECT.json, each at its line,
with the properties that would catch it going wrong.

## 2. Modules

| Module | Models | Kind |
|---|---|---|
| `SingleFlight` | `single_flight.py` | component |
| `SingleFlight_proofs` | its theorems | proofs |
| `BundleSwap` | the directory operations of `bundle_swap.py` | operations used by `DailyUpdate` |
| `DailyUpdate` | the orchestrator; extends `SingleFlight` and `BundleSwap` | composition |
| `ServedBundle` | what readers are promised | abstract specification |
| `DailyUpdateRefines` | `DailyUpdate` implements `ServedBundle` | refinement |
| `DailyUpdateLoss` | the same with a live directory that gets deleted | environment |
| `DailyUpdate_proofs` | the inductive invariants of the update, with and without the loss, and the refinement | proofs |
| `FetchLedger` | 01's per-ticker endpoints and `fetch_manifest.py` | component |
| `FetchLedger_proofs` | its invariant | proofs |
| `QuarantinePublication` | the journaled publication of the suspension history | component |
| `PublishedHistory` | history and claim exchanged as one pair | abstract specification |
| `QuarantineRefines` | `QuarantinePublication` implements `PublishedHistory` | refinement |
| `QuarantinePublication_proofs` | its invariant, and the refinement | proofs |
| `RecommendRun` | `recommend_runner.py`; extends `SingleFlight` | composition |
| `RecommendRun_proofs` | its invariant | proofs |
| `UpdateCancel` | `update_runner.py` and its page, beside the scheduler | component |
| `UpdateCancel_proofs` | its invariant | proofs |
| `JobLifecycle` | `job_io`, `job_runner`, `job_manager` | component |
| `JobLifecycle_proofs` | its invariant | proofs |
| `FoldResume` | `walk_forward/engine.py`, `_resume.py`, `ensemble.py` | component |
| `FoldResume_proofs` | its invariant | proofs |
| `MC*` | instances for TLC | model checking |

### Locks
A resource is the rank of its lock file in the sorted order, so `NextLock` is
the next iteration of `for path in paths`. `pc` is where the process is in the
context manager, `outcome` how the acquisition ended and `blockedOn` the lock
named in `AlreadyRunningError`. `Kill` is the kernel's part: it frees what a
dead process held.

### Update
`stage[r]` is the next thing run `r` does. Each stage of
`_execute_daily_update` is one action for its success and one for each early
return; the swap and the repair are one action per directory operation. An
`rmtree` is two actions, with a torn directory in between. `BodyRaises` is the
`except BaseException` path, `RecordInterrupted` an interrupt outside that
`try`, `KillRun` a kill at any point. A directory is a record of what the
properties tell apart: the epoch (order of lock acquisition) of the run that
built it, the runs whose dump and registry went into it, holes, completeness
and validation. `epoch` and `clock` exist only in the model: they name
generations. Record writes are best effort in the code and may silently fail
in the model. All of this, failed record writes included, happens to the runs in
`Fallible`; the theorems hold for any such set.

Abstractions. A stage script is one step with its result; a fetch replaces the
dump as a whole (`FetchLedger` looks inside). The
staging promotion of 05 is one rename: the orchestrator's repair has removed
any older staging directory. Dry runs and configuration errors change nothing
and are left out; to the model they are a run that leaves at once. The
`_live_bundle_present` probe is "complete bundle": a torn live directory does
not have the skeleton in the worst case, and no reachable state shows one.

### Jobs
Every `write_job_json` is two steps, `Acquire` (lock, read) and `Commit` (compare,
merge, replace, unlock); the label of the write says what is merged and under
which guard. The handler is a process of its own with its own file descriptor, and
while it runs its runner is suspended. `stop` and the reconcile decide on what
they read earlier, with any step of the others in between. `SendSigterm` may or
may not kill the training process, which is in the same group, and so may
`TerminateChild`, which is best effort. A probe may be inconclusive. Handlers
nested by a second signal are left out, and so are reused pids.

### Raw dump
`FetchLedger`. A unit of work is a security and a year; `file` holds, per unit,
the days its file has. A run scans the freshness of a file, skips it blindly or
verified, or pulls it; an overwrite that would shorten history is refused; a
pull that fails is a hole; too many short answers at the end of a window are a
systemic failure. Nothing is recorded until the merge at the end, so a kill
leaves new files under the old record. Coverage is an interval, the watermark
follows from it. When the security list was not fetched in the same run the loop
is not entered at all (`PrerequisiteHole`): the run records one hole for the
endpoint. The vendor publishes sessions one by one while runs go on.
Ranges differ between runs, may be clipped, and `--reset` forgets the record.
One endpoint stands for the three of this kind.

`QuarantinePublication`. One endpoint with a single file. The bytes of a history
are `[full, upTo]`: whether it has the approved keys and on which day the query ended;
equal answers have equal digests. A manifest has a stamp besides, since
`fetched_at` makes the bytes of every manifest new. It binds digests of
candidate, reference and retained copies; the journal's phases are those of
`quarantine_transaction.py`. A run may recover first, reset, skip,
fetch, publish, prepare, write the manifest and finish, and is killed anywhere.
Retained copies are written in place under the name of their digest: a kill in
the middle of `_preserve` leaves an unfinished one (`torn`), which no later run
accepts or replaces. The copies of the recovery are atomic (`_copy_fsynced`).
The checks of paths, links and budgets only refuse and are left out.

### Recommendation
`pc` and `lock` are `SingleFlight`'s. `step[r]` is the runner's program point,
`child[r]` the process tree it started (the CLI and its workers): reading, done,
failed, killed but still holding the pipes. `_kill_tree` may fail; the drain has
a timeout, after which the runner gives up and says so. The publication works
on one set of artifacts with `.prior` copies, one action per `os.replace`, each
of which may fail, then the rollback, whose steps may fail too. "undone" and
"torn" are both the code's `run_failed`; "incomplete" is a result of kind
`timeout`. `crowded` and `was` are history variables: whether another
publication overlapped, and what the artifacts were before.

### Cancel
A frame of the page reads the status artifact, polls the handle, settles a late
end and offers the launch; `cancel_update` is one action per branch from the
poll to the confirmation after a kill, with any step of the processes between.
Signals are delivered late, refused, or taken by a process at a point of its
own. The evidence of a dead run is the nonce it wrote into its records; runs of
the scheduler have none. Left out: the arming click, the log markers, the
diagnosis of an interrupted swap, the second look at the record while
rendering, pids (the nonce decides), sessions from before the nonce. That a
record is older than six hours is a free choice. There is one session, which
may be lost.

### Fold resume
A stamp says what an artifact was made from: the configuration, every generation
of the bundle and all contents of the mask files that were read, and the commit. A
configuration is the dataclass, with both paths set; `mask` counts the contents of
`namechange_path` and `delisted_registry_path` together, each refresh giving new
ones. The fingerprint is that of the moment it is computed: at the start for the
run, again in `SaveManifest`, where the identities of the bundle are still those
of the start and the mask files are hashed anew. The registry is loaded at the
start, the name changes are read by each backtest. `Start` is one step.
`Discovered` is `FoldManifest.discover` with its check of the artifacts, done once
at the start; `MayResume` is `decide_fold`. Each artifact is written by a step of
its own, over what an earlier attempt left; the fold may fail at each, the run may
be killed at each, and bundle and mask files may be exchanged at any moment. A
prior that is gone, does not load or does not match its sidecar is any prior: the
averaged set is any subset of those that exist. The files of predictions and the
fold report exist whenever a manifest does, so only the model and the positions
can be missing. A checkout of another commit and a clean-up of models happen
between runs, since only the start looks at them. `saved` is a history variable:
under which fingerprint the last attempt at a fold was saved; and so is `mask` of
an entry of the report, what the mask files held when its fold was saved.

## 3. Runs

| Run | Shows | Bounds |
|---|---|---|
| `recommend` | exclusion, no mutual refusal, no swap under a reader, whole publications, everybody gets out | two updates of two locks, one recommendation of one, two artifacts: the least in which an update can be inside while a recommendation acquires, and a replace and then its rollback can fail with one artifact moved and one not |
| `update_pair` | six properties of the update, among them the refinement | two runs of one provider, both may be killed or interrupted anywhere; one allows holes, the other has a quarantine policy and an explicit end date. The first run builds the states the second must cope with: every crash of one run is followed by a repair of the other |
| `update_shared` | `BuiltFromOwnInputs` | two providers, one dump and registry; both runs may be killed or interrupted anywhere |
| `update_loss` | `ServiceRestored`, and `EveryRunEnds` under fairness | two runs, one loss of the live directory; stages fail at any point, and one of the runs may be killed, interrupted or have its body raise: what the other finds is then all a crash can leave |
| `ledger` | coverage is true, history survives, covered holes are retried, the ledger heals | two securities, one listed late; two years of two days, one a holiday; three ranges, of which one is inside another and one straddles the years; any number of runs, each with or without a security list |
| `quarantine` | pair, recovery, history, clean exit, obligation, discharge, and the refinement of `PublishedHistory` | one policy, two days, four stamps (one more than manifest and journal can refer to, so a fresh one is always there); any number of runs, also killed in the middle of a copy |
| `cancel` | answers are true, evidence hides only the dead | two launches of the page (the second meets the evidence of the first) and one run of the scheduler, either platform |
| `jobs` | compare-and-set writes clobber nothing, a healthy run is not failed, success is real, merges are kept, a dead runner is noticed | either platform, one stop call, one delete and a polling session that never ends |
| `resume` | a report mixes nothing, saved folds are kept | two folds (one prior), two configurations, one exchange of the bundle, the mask files or the commit, three runs: one leaves a result, one tears it, one resumes; the configurations are symmetric |
| `completion_unproven`, `job_start_clobbers`, `resume_foreign_prior` | disagreements, below | as the passing run of the same module |

The initial states of the update are a machine without a bundle, one with its
first bundle and one that has swapped before. No run has a state constraint.
The lock, update, recommendation, cancel and job models are finite because a
run, a stop or a delete happens once; the raw dump's runs come back for ever
over finite content; `FoldResume` counts its runs (`MaxRuns`) and the exchanges
of bundle, mask files and commit (`MaxChanges`). `CHECK_DEADLOCK FALSE` everywhere: all
these systems may come to rest.

### Disagreements found
Each is a run that TLC refutes, against a sentence of the repository.

* `completion_unproven`: `check_and_repair` takes a leftover `.bak` as proof
  that `.new` was validated. True after crashes of the updater alone
  (`LiveServable`), false once the live directory was deleted beside the
  staging directory of a killed build.
* `job_start_clobbers`: `start()` writes `running` after `Popen`,
  unconditionally, over the result of a runner that already ended.
* `resume_foreign_prior`: a fold that a killed run of another configuration had
  begun to overwrite is resumed on its older manifest, and the foreign model is
  averaged into the next fold. `ReportMixesNothing` is what does hold: the folds
  themselves are of one configuration, bundle and commit, and of one state of the
  mask files as long as these rest while a fold runs.

Seen while modelling, without a run of their own:

* Jobs. The SIGTERM handler ends the training process as well as it can and exits
  whether or not that worked, although its comment calls the child "guaranteed
  gone" by then (`job_runner.py:99-142`, `:145-162`). It writes `stopped` over
  `success`; `stopped` is recorded while the training process still lives; the
  handler waits for the `job.json` lock that the frame it interrupted holds;
  `delete` refuses only `running`. `CasNeverClobbers` is the part of "terminal is
  final" that holds.
* Cancel. The evidence of a dead run is one slot: a later launch that dies
  without a record overwrites it (`run_center.py:401`, called persistent at
  `:105-108`), and the orphaned record locks the launch again. `already_finished`
  gives up the handle without keeping evidence. "Finished before the cancel" may
  be said when the kill landed between the last look and the kill, of a run
  whose terminal record was written: this is why `AnswersAreEarned` asks for
  the record or an end of its own.
* Manifest. A run that only left holes, over a range wider than what is covered,
  parks holes outside the kept coverage; a later run over the old range drops them
  unattempted (`fetch_manifest.py:47-48`, `:270-273`, `:335`).
  `CoveredHolesAreRetried` therefore speaks of covered days. And a run whose
  security list failed comes back to no unit, yet its one endpoint-level hole
  replaces all unit holes under the coverage that is kept (`fetcher.py:1639-1657`,
  `fetch_manifest.py:300-307`), although a hole is to go only when "its exact
  `(endpoint, unit)` was re-attempted-and-succeeded this run" (`:48-49`). The
  property excludes merges that leave such a hole. No session is lost by it: the
  manifest is not complete, so the next run trusts no file, and `LedgerHeals`
  includes it.
* Quarantine. `_preserve` writes a retained copy in place and removes it on an
  error, but not when the process is killed (`suspension_quarantine.py:422-438`);
  every later `_preserve` of these bytes then refuses (`:415-418`). If the copy
  is that of the raw file, every later publication that has to preserve this file
  fails, so a quarantine could not be discharged until somebody removes the
  copy. `RecoveryKnowsTheBytes` and `PendingIsDischarged` speak of pending
  publications, which have got past their copies.
* Recommendation. The lock is given back before the publication, so two
  publications into one directory can mix their artifacts; the death of the UI
  frees the lock under a child that still reads, although the comment says it is
  held for the child's lifetime; death in mid-publication leaves a mixed set.
  `NoSwapUnderReader` and `PublicationIsWhole` say so in their preconditions.
* Resume. The mask files lie in the raw dump which the update rewrites
  (`config_walk.yaml:29`, `:34`), also when it then fails before its swap and the bundle
  stays what it was. A run that goes on across such a refresh computes its
  later folds under other masks than its first, and its report mixes them. The
  fingerprint is computed again at the save (`_resume.py:307-311`), so a fold
  that read the old masks is saved under the new fingerprint and resumed by the
  next run, which `_resume.py:157-159` and `:170-175` mean to exclude.
  `ReportMixesNothing` holds of folds under which nothing was refreshed.
  A fold that failed under `FORCE_RERUN` keeps its older manifest and is
  skipped by the next AUTO run, although failed folds are meant to have none
  (`engine.py:373-376`); a fold trained without the model of an earlier failed
  fold is resumed unchanged once that one succeeds; a positions file of an older
  attempt is recorded in a manifest without a digest; the report file a skipped
  fold points to may be the retry's (read for the comparison block only).

### Fairness
* `DailyUpdate`: weak fairness of each run as a whole (a scheduled process keeps
  executing, and a stage script returns at some point). Starting a run,
  failures, interrupts and kills are not fair.
* `RecommendRun`: weak fairness of acquiring and releasing, of an update leaving
  its body, and of the supervising runner. Nothing is assumed of the child's
  tree: the two waits of the runner have timeouts, which is the point of
  `StartedRunEnds`.
* `QuarantinePublication` and `FetchLedger`: runs are killed and vendors fail as
  often as they like; the liveness properties are about an environment that
  becomes quiet at some point (`Undisturbed`, the steps of a run that is not
  killed and is answered, is weakly fair, and so is the vendor's publishing).
* `JobLifecycle`: weak fairness of the runner, of a commit once the lock is held
  and of a polling page; strong fairness of getting the file lock, and of a
  conclusive probe of a dead pid (the code repeats the probe on every poll). The
  training process is fair since it ends one way or the other.
* `UpdateCancel` and `FoldResume` state safety only.

## 4. Proofs

`SingleFlight_proofs` proves, for any set of runs and any assignment of lock
files to them (`NeedsAssumption`: every run needs at least one, ranks are
positive naturals), `LockTypes`, `Exclusion`, `NeverAllRefused` and `NoOrphans`.
Exclusion alone needs `Owners`: a run in the body holds all it needs. That not
everybody is refused needs more: `HasWinner` says that once somebody was
refused there is a run that was not and that misses only locks beyond every
lock anybody was refused. When that run is refused itself, the holder of the
lock it met takes over: having got that lock it holds all its smaller ones.
This is where the sorted order is used.

The update is proved under `NeedsAssumption` and `ConfigAssumption` (providers,
dumps and registries are disjoint sets of lock files, and a run locks exactly
its own three, as `scripts/daily_update.py:129-130` does), for any number of
runs and providers, any sharing of dumps and registries and any set of
fallible runs.

All of it is in `DailyUpdate_proofs`, one section after the other:

* The disk. Every step of the update is a step of the locks or
  leaves them alone (`LockLift`), so the invariant proved of `SingleFlight`
  carries over, and at most one run is inside the locks of a provider
  (`OneInside`). `LiveServable` is not inductive: the renames are safe only
  because of what the run in the body established before. `Inv` therefore adds
  `Disk(p)`, what a crash can leave at any moment (with a backup and nothing
  live, the staging directory is whole, validated and newer: the reason why
  completing the swap is right), and `Body(r, p)`, what the run inside knows at
  each stage (staged from 05 on, validated from stage 4 on, no backup before
  the first rename, a live bundle beside any backup until then). `Local` reduces
  every step of the body to the run's own provider; one lemma per group of
  actions does the rest. From `Inv`: `LiveServable`, `RepairedAtGate`,
  `BackupIsOlder`, `SuccessIsServed`, and `NoRegression` as an action property
  (no run checks it: the refinement implies it).
  A by-product: `RestoreFromBackup` is unreachable as long as only the updater
  removes directories; `update_loss` is the run in which it fires.
* Records and readers. A run that has not yet had its turn at the ledger
  is newer than every line (`LedgerInv`), since epochs follow the lock; with
  `NoRegression`, a recorded success stays true. Each rename
  maps to `Withdraw` or `Publish` of `ServedBundle`, every other step to a
  stutter: `ReadersPromiseHolds`.
* Provenance. `Reads` says what the run inside relies on from
  its fetch on (dump and registry are its own, the staged bundle comes from
  them), `Sources` what is served. Exclusion per input (`AloneWithInputs`) is
  what keeps another provider's run away from them. The witness of a sanction
  is a run that entered, since an entered run never gets a second epoch.
* The lossy machine (`DailyUpdateLoss`), under the same assumptions. `Disk` is false
  there: a deleted live directory may leave a backup beside an unvalidated staging
  directory, which is what `completion_unproven` shows. `RestoredInv` keeps only the
  types, the locks and, per run inside, what `check_and_repair` established
  (`Restored`): while the stale staging directory is being removed, something live
  beside any backup; at the gate, something live or no directory at all. The
  directory is deleted only while nobody is inside the lock of the provider, and
  `BodyIsLocal` keeps the other runs out. From it `ServiceRestored` (`LossIsHealed`)
  and `RepairedAtGate` (`LossIsRepaired`).
* The holder of a lock. `HoldersAreAlone`: the directories and records of a provider,
  a dump and a registry change only in a step of the run inside their lock
  (`FrozenUnderLock`), which is why a reader under the lock needs no further
  protection. It takes what each step writes (`BodyWritesOwn`) together with `Owners`.

The other components are each proved from an inductive invariant of their own,
which TLC checked first on the instance of the run.

* `RecommendRun_proofs` (`RecommendAssumption`: some runs are recommendations,
  there is at least one artifact). `RecommendInv` adds to the lock invariant what
  the runner knows of its tree at each step (`Supervised`), that a tree it answers
  for reads only while its lock is held (`Separate`), and what the rollback ledger
  says of each artifact during an undisturbed publication (`Ledgered`).
  Exclusion then gives `ReadersAreSafe`, `Ledgered` gives `PublicationsAreWhole`.
* `QuarantinePublication_proofs` (`PublicationAssumption`). `PublicationInv`:
  `Paired` and `Admitted` for manifest and journal, `Untouched`, `Answered` and
  `Prepared` for what the run has and has not yet done at each point, `Promised`
  for the history. The core is that at any kill the file is either the bytes
  the journal began from or those it is bound to. `PublicationIsAtomic` maps the
  module to `PublishedHistory`: the history is `PublishedBytes`, the raw file or, while
  a journal is pending and its manifest is not written, the retained bytes recovery
  brings back. Replacing the raw file thus is a stutter, and writing the manifest the
  one step in which the pair changes. Beyond `PublicationInv` it needs `Lineage`,
  how evidence continues the evidence before it: of the candidate a run holds
  (`Offered`), of the journal (`Pending`) and of the manifest it is about to write
  (`Drafted`). `ClaimAssumption` says that the model value for "no manifest" is no
  manifest. `RecoveryIsPossible` also needs `Unfinished`: an
  unfinished copy is of no history longer than the raw file, and while a publication is
  pending of a shorter one than any it may have to put back or archive.
* `FetchLedger_proofs` (`LedgerAssumption`: finitely many tickers, numbered from
  one; ranges within the calendar). `LedgerInv`: `Files`, a file holds published
  sessions of its unit and no gap between them, and `Findings`, the run knows
  every session it was asked for of the units it left behind without a hole, and
  has come back to every earlier hole among them; with them `CoverageIsTrue` is
  inductive. A manifest with a hole for the endpoint, be it systemic or for want
  of a security list, claims nothing of its units. The core is the merge, where
  coverage is joined with the range of the run; which days fall into which year,
  and which units the loop has behind it, are lemmas of arithmetic.
  `HistorySurvives` and `CoveredHolesAreRetried` follow per action.
* `FoldResume_proofs` (`ResumeAssumption`: positive bounds, and `None` is none of
  the values). `ResumeInv`: `AtWork`, what the result of the current fold was made
  from at each program point; `Behind`, the folds the run has decided are
  placeholders or made from its own configuration and bundle; `Manifests`, a
  manifest says what its fold was made from, and what the run discovered is still
  there; `Kept`, a fold whose last attempt was saved can be resumed. Generations
  only grow, so the comparison before the save excludes a swap since the run
  began. Nothing compares the mask files, but their contents never come back
  either: a fold whose masks are those it was saved under, in a manifest with the
  fingerprint of the run, read what the run began with. From it
  `ReportMixesNothing` and, as an action property, `ProgressIsKept`.
* `UpdateCancel_proofs` (`CancelAssumption`). `CancelInv`: who may have written the
  record (`Recorded`), what the handle and the pending flag mean (`Handled`), that
  evidence and branch flags are only set for the dead (`KnownDead`), and how each
  end came about (`Accounted`, `Answered`).
* `JobLifecycle_proofs` (`JobAssumption`: the processes are distinct), for any
  number of stop, poll and delete calls. `JobInv`: which label each process may be
  at (`Roles`), that a holder of the lock has an up-to-date copy (`Holding`), when
  pid and child exist (`NotSpawned`, `ChildKnown`) and what a conclusive probe
  proves (`FoundDead`).

Proved, with no run of their own: `GateIsRepaired`, `BackupIsRollback`, `LedgerOrder`,
`PromotionsStay`, `HoldersAreAlone`, `LossIsRepaired` and `NoOrphans`. Every safety
property of a passing run is now a theorem. Out of the prover's reach, and so only
model-checked, is liveness: `StartedRunEnds`, `EveryRunEnds`, `ZombieIsReconciled`,
`PendingIsDischarged` and `LedgerHeals`. No proof assumes anything the modules do not
state as an `ASSUME`, and TLC evaluates each of those on a passing run.

## 5. Plan

Done: locks, swap, update, refinement, readers, raw dump, quarantine and its
refinement, cancel, recommendation, jobs, fold resume; proofs of the safety
properties of all of them. Left, in this order:

1. `RunLedger`: append with torn tails and concurrent readers, shared with the
   decision journal.
2. `RunCatalog`: append against prune under a lock with a timeout.
3. `EnsembleCutover`: rotation and bootstrap.
4. Two walk-forward runs at once in one directory, and two sessions of the page.
5. An abstract specification of the fetch manifest (coverage that only claims what
   is there) and of the resumed walk-forward run (as if never killed).

## 6. Not modelled

* Numeric code: bins, factors, mining, back-tests, attribution, analysis, the
  recommender's own computation. Floating point over data frames has no
  faithful finite model, and most of the repository's lines are of this kind;
  what of it touches shared files is modelled where the files are.
* The Tushare client (rate limit, retries), the other aggregate endpoints and a
  growing universe; corrupt manifests.
* Rendering, read-only pages, the comparison basket, configuration parsing, argv
  building, `--dry-run`, preregistration: no state shared between processes.
* The run ledger's torn tail, the run catalog, the cutover tools, the decision
  journal and the feature cache: see the plan.

PROJECT.json lists each part with its status and reason.
