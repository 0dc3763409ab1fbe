# A TLA+ model of the scoring system

The backend of this repository scores the works of a competition. A work arrives
as an evidence package, is imported and validated by a *preparation task*, scored
by an external provider in a *scoring task*, reviewed by people, and exported.
Everything the pipeline remembers lies in JSON files below one data directory, and
several threads and processes of the backend read and write them. These modules
model that part of the program: who writes which file in which order, what a crash
or a failing file operation leaves behind, and what a later reader may conclude.

## Inventory

| Component | State it keeps | Operations | What has to be true |
|---|---|---|---|
| Joint task transaction (`services/pipeline_task_store.py`) | per task: `task.json`, `items/*.json`, `events.ndjson`, `tmp/transactions/<uuid>/`, `locks/task.lock` | `run_task_transaction`, `recover_incomplete_transactions`, the lock context, single-file writes of resume files | task, items and event log agree; an event is logged once and its snapshots are never undone; an undone transaction leaves nothing; every call gives its locks back |
| Task manager (`services/pipeline_task_manager.py`, `models/pipeline_task.py`) | the state machine of tasks and items inside those files | create, start, pause, finalize, start/complete/fail/skip an item stage, manual review, resume | no stage is skipped, no attempt beyond the limit, counters and index follow the items, terminal states stay terminal |
| Scoring orchestrator (`services/scoring_pipeline_orchestrator.py`) | none of its own; drives manager, attempt store and review store | `execute_score_item`, `recover_score_item`, `apply_review_decision` | the provider is charged at most once for an answer that counts; a late answer, a crash or a retry does not lose or duplicate a score |
| Score attempt store (`services/score_attempt_store.py`) | create-only facts: attempts, dispatch marks, terminals, responses, snapshots | create, mark dispatched, publish terminal, verify bindings | one terminal per attempt, facts never change, a success has its response |
| Scoring task creator (`services/scoring_task_creator.py`) | a creation lock per idempotency key | `create_scoring_task` | one task per key |
| Provider switch (`services/provider_switch_service.py`, `_store.py`) | decisions with revisions, request, current pointer, events | create, approve, reject, cancel, execute | a decision can be read after any failed write; its events tell its life; it is approved for a provider that can do the work now |
| Provider gateway, registry, health (`scoring_provider_gateway.py`, `_registry.py`, `provider_health_service.py`) | a configuration document, a window of observations | load, preflight, call, compute the health | an answer of unknown outcome is an answer of its own kind; the health says what was observed |
| Evidence registration and validation (`evidence_registration_service.py`, `evidence_package_validator.py`, `evidence_query_service.py`) | records, validations, one index, one audit log | validate, register, update, rebuild the index, query | what is registered is sound and stays so; the index is about the records; a failed registration leaves nothing |
| Review case store (`services/review_case_store.py`, handlers in `routers/scoring_pipeline.py`) | cases, decisions, adoptions, final locks, adjustments, operations, events | move a case, decide, ask for evidence, reopen, resolve, adopt, lock | a request moves its case once each way; never two results, none lost, none changes under a final lock |
| Manual adjustment (`services/manual_adjustment_service.py`) | an operation record that spans several facts | `build_and_apply`, continued when called again | the old result or the new one, with its files |
| Review resolution, result derivation, authoritative export | none | resolve, derive, export | only a locked, adopted result is exported |
| Batch scoring and older routers (`task_manager.py`, `routers/batch_scoring.py`, `routers/scores_*.py`, `scorer.py`, SQLite) | jobs in memory and their files, rows of machine scores | run a batch, score one team, adopt a row or the best rows | every page takes an adopted row; a completed job has counted every team |
| Parsing, prompts, arithmetic, frontend, scripts | none | | pure functions, clients |

How they interact: the orchestrator, the creator and the HTTP routers call the manager;
the manager is the only caller of `run_task_transaction`; the orchestrator writes facts to
the attempt store and cases to the review store between two manager calls, never in one
transaction with them. Every store takes its own pair of locks, an in-process
`threading.Lock` and then a lock file; no component holds the locks of two stores while it
waits for a provider. What makes the system hard is therefore: reads made before a lock
and used under it, a crash between the writes of two stores, lock files that outlive
their process, create-only files met by a retry, and asynchronous provider calls that end
after somebody else has given them up. The list `hazards` in `PROJECT.json` names the lines.

## Modules

| Part | Modules | Composition |
|---|---|---|
| 1. joint transaction | `TaskTransaction`, `TaskHistory` | refines `TaskHistory` |
| 2. life of a task | `PipelineTask` | abstracts 1 to one step |
| 3. scoring executions | `ScoreExecution` | drives 2, and refines it |
| 4. providers | `ProviderGateway`, `ProviderSwitch` | the second extends the first |
| 5. evidence | `PackageValidation`, `EvidenceRegister`, `EvidenceRegistration` | registration extends the validation and refines the register |
| 6. review | `ReviewCase`, `ResultRegister`, `ResultAuthority` | authority refines the register |
| 7. creation of tasks | `TaskCreation` | between 5 and 2 |
| 8. machine scoring | `MachineScoring` | on its own, as in the program |

`MC<module>` instantiates a module for TLC, `<module>Proofs` proves theorems about it; the proofs about
`PipelineTask` and `EvidenceRegistration` share `PreparationProofs`. The
order is that of the plan: first what every later part writes through, then what calls
a provider, then what people decide, then the edges. The plan is done; what could
follow is under *Not modelled*.

Every module has a type invariant (`TypeOK`) and the proofs have inductive ones; TLC
checked them while the modules were written, and where they are proved no run repeats them.
`CHECK_DEADLOCK FALSE` is said where a bounded world comes to rest: calls, failures and
crashes are counted, and when they are used up and every call has returned nothing is
left to do. `TaskLife`, `ScoreRuns` and `ScoreLiveRecovery` check for deadlock.

## Module 1: the joint transaction

`TaskTransaction.tla` models one task directory and the threads that use it.

| Variable | In the code |
|---|---|
| `files[r]` | `task.json` and `items/<id>.json`; a snapshot keeps its revision, the transaction that wrote it (`by`), and for the task `last_event_sequence` (`seq`), the `item_index` and the snapshot it was computed from (`from`) |
| `log`, `torn` | the parsed lines of `events.ndjson`; `torn` when the last one does not parse |
| `stray` | a `.tmp` file left in `items/`, which the reconciliation counts as an unknown item |
| `txn[t]` | `tmp/transactions/<t>/`: `transaction.json` (phase, references), `event.json`, `old/`, `new/`; "husk" is a directory without `transaction.json` |
| `plock`, `flock` | the in-process lock and the owner of `locks/task.lock`; `Stale` when that owner died |
| `pc`, `mode`, `request`, `cur`, `todo`, `scan` | where a thread is, what it was called with, its transaction, and the references or transactions its loop still has to visit |

A call goes `ReadRevisions` (the caller), `LoadTask`, `LoadItems` (`_apply_item_transition`,
before any lock), the two locks, `MakeTxnDir`, `WriteTxnFiles`, `PrepareSnapshots` with the
compare-and-set, one `PublishSnapshot` per reference, `MarkPublished`, `AppendEvent`,
`MarkAppended`, `MarkCommitted`, `RemoveTxnDir`, `Release`. Failures go through
`EnterRollback`, one `RestoreSnapshot` per reference and `MarkRolledBack`. Recovery takes
the same locks, visits the directories in the order of their names (`RecoverNext`) and joins
the same steps. `WriteFails`, `AppendFails` and `RemoveFails` make one operation fail, the
last two with every partial effect the operation can have; `Crash` ends a process at any
point and leaves its lock file. Each file operation is atomic as `os.replace` makes it.

What is abstracted: contents of a snapshot other than what the checks compare; the transaction's
own files, nobody else reads them; the order of the items in the reference list; the
status checks of the manager (they belong to module 2). Task ids are fresh in
`create_task`; two creations of one directory are what the store guards against with
`expected_task_revision=None`, and the model lets them happen. A last line that is
complete but for its newline is not modelled.

`TaskHistory.tla` is the abstract specification: a sequence of transactions that grows by
one new transaction at a time. `HistorySpec` maps `log` to it.

### Runs

All runs use two threads; transaction ids are naturals because recovery sorts them.
`ReadRevisions` hands out any id that is left, so every order of the random names occurs.

- `TxnFaults` (two processes, one item, two transactions, one failing operation, one
  recovery): `NoLostUpdate`, `LoggedNeverReverted`, `HistorySpec`, `EveryCallEnds`, and, about a call that fails itself,
  `CallLeavesNoTrace` and `RollbackContained`. Two transactions are what a conflict needs, and one failure at
  every possible place of either is every single-failure scenario. The two threads belong to two processes, because each
  process has one: the in-process lock is taken and given back, with no other thread waiting for it.
- `TxnCrash` (two processes, two items, one crash, two recoveries): `NoTrace`,
  `SnapshotsInSync`. Two items make a
  publication of three files, so that a crash can fall between any two of them.

The properties hold there for one failure or one crash. With two, some of them
do not; what holds in general is said under *Proofs*.

Fairness (`FairSpec`, for `EveryCallEnds`): weak fairness of the next step of
each thread, because a thread inside the code is scheduled and the lock has a deadline, and of
a repeated `RequestRecovery`, because the conflict is reported as retryable. Calls, failures,
crashes and the operator who deletes a stale lock file are not fair.

### Proofs

`TaskTransactionProofs` proves, for any number of threads, processes, items, transactions, failures and crashes:

- `TypeCorrect`: `TypeOK`;
- `Mutex`: at most one thread between acquiring and releasing the lock;
- `GaplessLog`: the log is numbered without gaps and holds no transaction twice;
- `Refinement`: the log implements `TaskHistory`;
- `Invariance`: the inductive invariant `IInv` they follow from.

`IInv` is needed because none of the three is inductive. Mutual exclusion needs
`LockInv`: whoever is in the critical section owns the lock file; this is what a timeout, a release by
the owner only, and the removal of a stale file preserve. That an event is appended once needs
`CurInv` (a thread's transaction exists and is not one recovery has still to visit) and `LogInv` (a
logged transaction that is still on disk has exactly its own event in the log, and ids
are never reused). `RequestInv` gives each reference of a write set its snapshot, which typing needs.

The second part of the module is about the disk until the first failure, again for any number of threads, items,
transactions and recoveries. Its invariant is `OrderInv`: as long as nothing has failed, `Orderly` holds.

- `NothingLost`: `NoLostUpdate`, as the run checks it. A call's write set is at most one revision ahead of the task file, and if it is
  exactly one ahead it was computed from that file (`Reads`, `Writes`). So the compare-and-set, which looks at revisions
  only, lets nothing through but the successor of the present task, and the event is in sequence (`CasOrderly`).
- `InSync`: `Undisturbed => SnapshotsInSync`. The index can be wrong when the items were read during
  a publication; then the commit is refused and the transaction stays, which is why the theorem needs to know that an index
  is right once the last event's transaction is gone (`Reconciled`).

The third part is about a call that fails, with any number of other failures, crashes and recoveries before and beside it.

- `Traceless`: `CallLeavesNoTrace`. A call that has rolled its transaction back leaves none of its files.
- `Contained`: `RollbackContained`. While it rolls back, no file of a logged transaction changes: what it takes back is its own, and what it
  puts back replaces only that.
- `Known`: the invariant `CallInv` both rest on. Which files carry a call's transaction is known at each of its
  steps (`CallAt`): none before the publication, only those of its write set that it has reached during it, only those still to be
  put back in a roll-back, and it is in a roll-back only while its event is not in the log (`Ends`). A file staged as old is never one of the
  transaction itself, because numbers are handed out once (`HandedOut`). A recovery has no such knowledge, since it
  meets what others have left, and it does go wrong (below).

The assumptions are the named `ASSUME`s of `TaskTransaction`.

`SnapshotsInSync` with failures, `NoTrace` and `LoggedNeverReverted` stay with TLC, in the instances of `TxnFaults` and `TxnCrash`: they
include what a recovery does, and in general they are false. With two failures or two crashes a recovery rolls a superseded transaction back
(see the finding at `_event_already_appended`). With one crash, `LoggedNeverReverted` fails for a while in a behaviour of five transactions:
the revision number of a transaction rolled back by the recovery is given out again, a call that saw the
first one passes the compare-and-set, writes an older task file and is only refused when it appends its event. Liveness is out of the
prover's reach.

## Module 2: the life of a task

`PipelineTask.tla` models one task, all its items and the resume requests about it, as
`PipelineTaskManager` drives them. Every operation of the manager loads the task and the items,
checks them, and hands new snapshots to `run_task_transaction` with the revisions it has read;
module 1 is about how that call comes to pass, so here it is one step.

| Variable | In the code |
|---|---|
| `task` | `task.json`: type, status, `current_stage`, whether `started_at` is set |
| `items[i]` | `items/<i>.json`: evidence level, stage, status, attempts, `retryable`, `last_error`, heartbeat, review decision, output reference |
| `resume[r]` | the request and decision files of `r`, and what has changed since they were written |

| Action | In the code |
|---|---|
| `StartTask`, `PauseTask`, `FinalizeTask` | the methods of the same name; finalizing computes `_settled_status` |
| `HeartbeatItem`, `StartItemStage`, `CompleteItemStage`, `CompleteScoringItemStage`, `ResetScoringItem`, `FailItem`, `SendItemToManualReview`, `SkipItem` | the item operations; each ends in `CommitItem`, which is `_apply_item_transition` |
| `CreateResumeRequest`, `EvaluateResumeRequest`, `ApplyResumeDecision` | the three calls of a resume; any other call may come in between |
| `LeaseExpires` | 300 seconds pass without a heartbeat |

`Commit` is what every operation shares: all items of the index have to be readable
(`ItemsReadable`), the stage of the task is derived again (`Aggregate`), the new task
snapshot is validated before its event is appended (`TaskValid`), and the new items are not.
That the items are validated only when somebody reads them is the reason for
`SnapshotsReadable`.

Abstractions. Revisions are present as what has changed since somebody remembered one: a commit
closes every decision made before it (`Aged`), because `apply_resume_decision` compares the revision of
the task; `q.changed` holds the items whose revision is no longer the one a request pins, and `q.stale`
those whose heartbeat was too old at `requested_at` and has not been renewed. A decision that
cannot change anything any more (not approved, a dry run, outdated) is `Closed`. Of the error codes only
`PROVIDER_OUTCOME_UNKNOWN` is told apart. Counters and stage summaries are computed from the items where
a validator compares them. Fields nobody checks (timestamps other than the heartbeat, fingerprints,
configuration snapshots, actors) are left out. Two evaluations of one request are one.

An evaluation reads `task.json` and then the items, without the lock, and a publication replaces
`task.json` first: `TornDecision` is an evaluation in which both overlap, so that the decision carries the new
revision of the task and judges the old items. `TornEvaluations` names the kinds of
request for which the overlap is explored.

### Runs

- `TaskLife` (two items, one request, both task types, all evidence levels, the limit of three attempts of
  the code): `SnapshotsReadable`, `SettledCanFinalize`, `ClosedTaskFrozen`, `ResultsProtected`,
  `UnknownOutcomeHeld`. Two items are what the rules of a task need to differ from those
  of an item (one settled, one not; one completed, one failed), three attempts make every pattern of
  retries over three stages, and one request can be made, evaluated and applied around
  any other calls; requests do not read each other. Items are interchangeable, so the run
  uses symmetry. Callers hand over an output (`Outputs = {TRUE}`), and evaluations overlap a publication only
  when the request pins revisions. Deadlock is checked: heartbeats and resumes aside, every state has a
  step because a started task can be paused, finalized or driven on, and a closed one can still be finalized again.
  Dropping either restriction violates what the code says of itself, see below.

### Proofs

`PreparationProofs` proves all seven properties for any items, requests, task types, levels and limit of
attempts: `TypeCorrect`, `Finalizable`, `ClosedFrozen`, `ResultsKept`, `UnknownHeld`; `LeasesRespected` under
`TornEvaluations \subseteq {TRUE}` and `Readable` under `Outputs \subseteq {TRUE}`, the two
restrictions that are needed, see below. TLC agreed on all of them.

`IInv` joins the types to four facts that no single property states: only a running item has a lease, and it
has no retry flag and no unknown outcome (`ItemSound`); the task passes its validators and a closed one has the status its items
give it (`TaskInv`); what a request remembers as stale, and what an open decision may put back, is not alive
unless its revision has gone (`ResumeSafe`). The last one is why `LeaseRespected` needs an
invariant at all: the decision was made many steps before it is applied. The proof has one lemma per layer:
`AgedSafe`, `DecideSafe` and `TornSafe` for requests, `CommitEffect` for the commit, `ItemOperation` (every item operation moves
its item in one of the ways of `ItemMove`), `ApplyInv`, `LeaseExpiryInv`, and `StepInv`, from which each theorem follows.
The assumptions are the named `ASSUME`s of `PipelineTask`.

Liveness is not claimed: the manager has no
scheduler of its own, and whether a task ends depends on its callers.

## Module 3: scoring executions

`ScoreExecution.tla` models the orchestrator and the attempt store on the items of one scoring task:
calls of `execute_score_item` and `recover_score_item`, each a worker that moves from step to step, in any
number and on any item. The task and the items are those of `PipelineTask` (`M == INSTANCE PipelineTask`):
a step that calls the manager conjoins the manager's action, so the guards of the manager are
present whole, and `ManagerSpec` says that nothing else touches its state.

| Variable | In the code |
|---|---|
| `task`, `items`, `resume` | as in module 2 |
| `facts[i][a]` | the attempt `attempts/<a>.json` with its status, the `ATTEMPT_DISPATCHED` event, `responses/`, `snapshots/`, `validations/` |
| `worker[w]` | the locals of a call: phase, item, attempt, whether the item revision it holds is still current (`fresh`), how a recovery read the item (`seen`), how the call ended (`verdict`) |
| `faults` | interruptions and failed writes so far |

| Action | In the code |
|---|---|
| `Admit`, `ReadAgain` | the dry run, and the second reading of the item |
| `Start`, `CreateAttempt`, `Dispatch` | `start_item_stage`, `create_attempt`, `mark_attempt_dispatched` |
| `Answer`, `ProviderFails` | the gateway returns; a failure is final, retryable or of unknown outcome |
| `WriteResponse`, `WriteSnapshot`, `WriteValidation` | the create-only facts, in the order of the code |
| `Publish`, `Announce`, `AnnounceFails`, `PublishConflict` | `publish_attempt_terminal`: the file is replaced, then the event is appended, and the file put back if that fails |
| `Conclude` | `complete_scoring_item_stage` or `_safe_fail_item` |
| `Inspect`, `Judge`, `ResetItem` | `recover_score_item`: it reads the item, then the facts, and takes one of its branches |
| `Refused` | the manager rejects the call, and the orchestrator returns or swallows the error |
| `Interrupt` | the call ends where it is |
| `LeaseExpires`, `Heartbeat`, `ApplyResume`, `Manage` | what happens to the task meanwhile |

Abstractions.

- A write of the attempt store happens or does not; its file operations, and a lock file left by a dead
  process (nothing removes it), are not modelled.
- The lock of an item's facts is visible only while a terminal attempt is being announced: every other
  critical section is one step. Readers do not take it, as in the code.
- `fresh` stands for the expected item revision. An expected task revision that is overtaken ends the
  call like an `Interrupt`.
- The admission checks that cannot change during a call (bindings, configuration, profile, provider) hold;
  open review cases and final locks are not looked at.
- Review and export are not driven here, nor are skipping, manual review and closing, which no caller in `src/` uses on
  a scoring task; the items stop at `review/pending`.
- Attempt ids are random UUIDs, sorted by name when they are listed: a new attempt takes any unused
  element of `Names`, so it may sort before an older one.
- An execution is taken to end within the 300 seconds of its lease (the timeout of the
  provider is 120 seconds by default), so a lease expires only when no execution of the item is alive, and heartbeats are
  sent only for one that is.
- `Overtaken = FALSE` says that nothing runs between the dry run and the second reading,
  which have no `await` between them.

### Runs

- `ScoreRuns` (one item, two workers, two attempt ids, one resume request of the two modes for items at rest, one
  interruption or failed event): `NoFalseCompletion`, `CallsJustified`, `VerdictFinal`,
  `ManagerSpec`, `SuccessArrives`. Items share nothing but the status of the task, so one is enough for
  everything said of attempts; two workers are what an execution and a recovery, two
  executions, or two recoveries need; one fault at any place of either is every
  single-failure scenario, and a second attempt is what a retry or a resume leads to. Deadlock is checked:
  a recovery can always be asked for.
- `ScoreLiveRecovery` ends in a violation of `UnknownHasNoAnswer` without any fault: a recovery of an execution that is
  alive declares its outcome unknown beside a complete result. For the same reason the
  passing run has no `recover_stale`.

Outside these bounds, as TLC finds when they are widened, `CallsJustified` fails with a `recover_stale` resume (see the findings) and in two more ways: with
`Overtaken = TRUE`, which takes several server processes, an execution admitted before another one
succeeded starts the item in its next stage and calls again; and with two interruptions and three
names, an older attempt that sorts last hides the newer one from recovery. With three names and one
interruption it holds.

`VerdictFinal` exempts an attempt that is being announced, because `publish_attempt_terminal` takes it back when its event cannot be written.

Fairness (`SuccessArrives`): weak fairness of every step of a call that has begun, because the event loop runs it; of
`Inspect`, because the batch asks for recovery of every running item each time it is run; and strong
fairness of `Conclude`, because heartbeats can outdate the revision of a call any number of times, and the property assumes
that some recovery concludes between two of them. Interruptions, admissions, heartbeats, leases and operators are not fair.

### Proofs

`ScoreExecutionProofs` proves, the first four for any items, workers, names, resume modes and number of faults, and
whether or not items may be overtaken:

- `ManagerRefined`: `Spec => ManagerSpec`, so the theorems of module 2 hold of every execution;
- `CompletionHonest`: `NoFalseCompletion`;
- `UnknownExplained`: `UnknownOnRecord`;
- `VerdictsFinal`: `VerdictFinal`;
- `Justified`: `CallsJustified`, under `OneFault`: at most one interruption or failed write, no item overtaken between the dry
  run and the second reading, and no `recover_stale` resume. These are conditions of the run too, and the
  counterexamples above and among the findings show that none can be dropped; the numbers of items, calls, attempts and
  requests are arbitrary.

None is inductive. A stage is completed long after its attempt was checked, so `IInv` follows a call through its phases:
what it knows of the facts (`Known`), which only grow; that a started attempt is not there yet and a
published one has the status it was given (`Status`); and that a call about to mark an item unknown
has an attempt nobody can withdraw any more (`Owes`, `Declared`). The last two hold because no two calls
share a new name and only one of them announces at a time (`Apart`). A recovery goes on
from another call's attempt, so `FactsSound` says that a visible success is complete even before it is announced.
`TurnInv` reduces a step to what it does to the facts, to the items and to its own worker, with one lemma per kind of step
below it; `StepInv` collects them and also gives the action property. The assumptions are the
named `ASSUME`s of `ScoreExecution`; that a non-empty set of names has a last one is what finiteness is needed for.

`Justified` needs an invariant of its own, `CallInv`, which TLC confirmed first. Whoever executes an item has it to itself (`Exclusive`),
and every other call made for it has failed for good (`Safe`, `Lasting`); so has every call for an item
that waits to be executed (`Waits`), unless a result or an unknown outcome keeps the item from being admitted (`Blocked`).
A recovery puts an item back only if its last attempt has not called; why the older ones have not called either is where the single
fault enters: an attempt still running without the execution that made it (`Lost`) has cost one, so there
is at most one per item, and after it nothing can be withdrawn. `Bystander` and `CallInvKept` reduce a step to what it does to its own call
(`WorkTurn`, `CommitTurn`) or to the items (`OutsideCall`).

Model-checked only: `SuccessArrives`, which is liveness.

## Module 4: providers and switches

`ProviderGateway` has the pure parts as operators: which documents of providers the registry
loads (`Load`, `Distinct`, `Consistent`), whom it offers (`ProviderOf`, `Resolvable`, `Offers`), what the gateway refuses before it
calls (`Preflight`, `Refusal`), what an answer, a status or an error of the transport becomes (`Outcome`, `Extracted`,
`Classify`), and the health computed from a window of observations (`Age`, `Counts`, `Health`). Its variables are the loaded
document, the request that is with the provider, how the attempt ended, and the window.

`ProviderSwitch` extends it with the decisions to hand a failed attempt to another provider.

| Variable | In the code |
|---|---|
| `file[d]` | the directory of a decision: `idempotency.json`, `revisions/`, `current.json`, `request.json`, `events.ndjson` |
| `lockFile[d]`, `lock[d]` | the lock file and the lock of the process; "leaked" when nobody can give it back |
| `caller[c]` | the locals of a call |
| `known[d]` | the last revision a client has been told of |

| Action | In the code |
|---|---|
| `Create`, `Change` | `create_switch_request`; `approve_switch`, `reject_switch`, `cancel_switch`, `mark_executed` up to the lock |
| `TakeLock`, `Enter`, `GiveUp`, `Leave` | the two locks and the deadline of the second |
| `Compare`, `Recheck` | the revision expected and read; the new look at the provider before an approval |
| `Write`, `Fails`, `RolledBack` | the five files in their order; a write that fails and what is put back |
| `Restart` | the process ends; another document may be in place |

`SwitchRuns` (one decision, two callers, two providers in three documents, one failed write, one
restart, a window of two): `Readable`, `AuditTrail`, `ApprovedAvailable`. Two callers and
one decision are what two conflicting changes need; decisions share no file. The
documents differ in what an approval has to notice: a provider disabled, a capability unknown.

Taken as given: the three files of a decision are read in one step; a call that has its lock file finishes before
the deadline of another; a rollback is one step and does not fail; clients send revisions they were told;
ids are never reused; one process at a time. No router uses these services yet, so
who calls them, and how the attempt is looked up, is the environment.

### Proofs

`ProviderSwitchProofs` proves, for any decisions, callers, registry files, policies, failed writes and crashes:

- `AlwaysReadable`: `Readable`, also when an event whose append failed stays in its file;
- `Audited`: `AuditTrail`, unless such an event stays (`"kept" \notin Losses`; with it the property is false, see `findings`);
- `ApprovedIsAvailable`: `ApprovedAvailable`;
- `HealthOnlyMoves`: `HealthMoves` (no run repeats it), for a window of any length and every policy that `ProviderHealthPolicy` accepts;
- `TypeCorrect`, `Invariance`.

`Readable` speaks of decisions at rest only, so the invariant has to say what the files are at each write of a call (`Stage`): the revisions
up to the one it has read are a life that the state machine allows, and the new one is in those of `current.json` and `request.json` that
have been written. It also has to say that a call past the comparison writes to a revision no client knows. This is where the comparison of
both revisions is needed (`Current`): a client that knows a revision keeps reading the same status there. A life has three statuses at most
(`NeverFourth`). An approval stays available until it is written because the registry is read only when the process starts (`LookedUp`), and
then no call is carried on. The health is counted over the places of a window, so that one more observation adds one place (`OneMore`).
`CallsEnd` is false (`SwitchLeak`).

## Module 5: evidence

`PackageValidation` is the validator as one operator per gate over the facts of a package (`Boundary`,
`PublicationGate`, `SchemaReport`, `CrossFile`, `ManifestHash`, `FileIntegrity`, `PrivacyGate`, `Unapproved`,
`EvidenceLevel`), and `Passes`. `EvidenceRegister` is what registration promises. `EvidenceRegistration` is how:
validate first, then wait for the lock file, look at record and index, and write validation, record,
index and audit events one after the other, undoing the first ones when a later one fails.

| Variable | In the code |
|---|---|
| `record`, `validations` | `packages/<key>/record.json` and the validations beside it |
| `index`, `audit`, `torn` | the one index, the set of events (type and record) of the audit log, whether its last line is cut off |
| `lock` | the lock file: its holder, or `Left` by a call that is over |
| `call` | the locals of a call |

`Begin`, `GetLock`, `LockTimesOut`, `CheckFails`, `Reject`, `Vanished`, `Hit`, `Conflict` and `Accept` are the branches of `register` up to its
writes; `WriteValidation`, `WriteRecord`, `CommitIndex`, `AppendAudit` the writes, with `WriteFails` and `AppendFails`;
`Undo`, `UndoRest`, `UndoFails` the rollback; `BeginRebuild`, `Rebuild`, `CommitRebuild`, `RebuildFails` the
rebuilding of the index; `Crash` and `ClearLock` what happens from outside.

`EvidenceRuns` (two calls at a time, three in all, two names, two manifests, a rejected package and one package
for each gate of the validator that fails; one failing write; one crash or failing undo): `IndexTruthful`, `HitComplete`,
`RegisterSpec`. Three calls are a registration, its update by another validation, and a repetition
that has to notice what the second left. Callers, and versions, are interchangeable. `IndexTruthful` is claimed
until a process has ended, or an undo failed, in the middle: there is no log to recover from. `RegisterSpec` holds across that too.

Taken as given: two packages with one manifest are the same registration, whatever else differs; the batch
and submission read again from the manifest are those of the validated one (see `findings` for the gap);
answers are left out; queries read in one step; the comparison of
snapshots in `_write_index` cannot fail under the lock. An `OSError` of a validation or record write
that is not wrapped leaves a validation nobody names.

### Proofs

`PreparationProofs` proves, for any packages, validators, callers, failed writes, crashes and failed undos:

- `Truthful` (`IndexTruthful`) and `Explained` (`HitComplete`);
- `RegisterRefined`: `RegistrationSpec => RegisterSpec`, so no crash and no failed undo takes an entry out of the
  register, changes its manifest, or puts a package behind it that is not sound.

The assumptions are the `ASSUME`s of the module: `PackagesAssumption` (a package has the form the models of the documents
give it: each document missing, unreadable or read, each flag true or false), `NoneAssumption` (what is missing is
neither a record nor an index) and `RegistrationAssumption`.

None of the three is inductive: in the middle of a call, validation and record are ahead of the index, and what an undo will
restore is known to the call alone. `RegistrationInv` (`RegistrationInvariance`) says what holds there: each validation is of a
package that passed, and what a record or an entry points to is of its key (`FilesSound`); a logged hit has its trace
(`LogSound`); a call has a number that no file has yet (`Fresh`), the record it writes is its own (`Registers`), the one it restores has
not changed (`Remembers`), entries for a rebuilt index are still those of the records (`Rebuilds`), events about to be appended explain
the hit that ends them (`Explains`); and no call has the number of another, or of a validation another may restore (`Apart`). Until
a first crash or failed undo, each key agrees with its *base* (`Base`, `Agreed`): the record as it is, or, once
the holder of the lock has written it and not yet the index, as an undo would leave it.

That registered packages are sound is a lemma about the validator, with no step of the registration in it: `RegisterSound`, from what each gate
reports of a package it lets pass (`PassesStages`, `PassesDocuments`). The refinement rests on `Keeps`: a step takes no entry
away and changes the manifest of none, because the strict reading comes before every write under one lock. The proof has a lemma for the steps that touch no file
(`QuietStep`), one for those that end a call's hold on the lock (`LeaveStep`), one for each write, and `RegistrationNextStep`.

## Module 6: review

`ReviewCase` is one case: its transitions, decisions, requests for more evidence, and reopening. A call reads
the case without the lock and changes it later under the lock, where only the revision is compared.

| Variable | In the code |
|---|---|
| `case` | `cases/<id>.json`; times are the revisions at which they were taken |
| `decision`, `events`, `log` | `decisions/`; the requests named in `events.ndjson`; whether the log can be read and the lock be taken |
| `active`, `locked` | the decision of the active adoption; whether there is a final lock |
| `caller` | the locals of a call |
| `moves` | how often each request has sent the case away and brought it back |

`Move`, `Dismiss`, `Resolve` are `transition_review_case` for the reviewers; `Decide` and `Replay` the decision handler; `Act`
carries a call on (`RecordDecision`, `Advance`, `Return` under the lock), `Die` ends one, `Reopen` is the reopening handler. `Section`
has the ways a section under the lock may fail: nothing written ("lost"), a torn line of the log ("torn"), an event kept
though the append was reported as failed ("kept"), the lock never given back ("held").

`ReviewRuns` (two requests, one verdict, two callers, one failure of each kind but "kept", six revisions): `RequestMovesOnce`,
`WaitingAnswerable`, `ResolvedOnReview`, `RequestCompleted`. Two requests are what one overtaking another
needs; two verdicts give seventeen million states and no new case, because only their being recorded matters.
Fairness: a call in progress is carried on, and a client that got no answer repeats its request
(strong, because repetitions are taken turn by turn with other callers).

`ResultRegister` promises what the review of an item says of its result: at most one, replaced by a later
decision, fixed once final. `ResultAuthority` has the adoptions, adjustments and final lock that keep the
promise, one step per fact.

| Variable | In the code |
|---|---|
| `adoption`, `finalLock` | `adoptions/`, and the adoption named by the active final lock |
| `files`, `operation` | the snapshot, validation and record of an adjustment; the log of its operation |
| `review`, `item` | whether the blocking case is in review and how it was resolved; the review stage of the item |
| `caller`, `dead`, `holder`, `torn` | calls, those whose process has ended, the holder of the lock file, a torn log line |

`Apply` starts `apply_review_decision` (`Approve`, `StartItem`, `CompleteItem`); `Adjust` and `Continue` an adjustment: `OpenOperation`, `WriteSnapshot`,
`WriteValidation`, `Commit`, `RecordAdjustment`, `CheckAdoption`, `Supersede`, `WriteAdoption`, `AnnounceAdoption`, `Close`, and failing
`Restore`, `CleanUp`, `MarkFailed`; `LockResult` the final lock; `Resolve` the resolution; `Derivation` is `derive`.

- `ResultRuns` (one approval, two adjustments, two callers, one failure or crash; a request is sent again
  while its operation is prepared): `OneResult`, `ActiveBacked`, `AuthorityKept`, `ReviewedIsAdopted`, `FinalStands`,
  `RegisterSpec`. Two adjustments are what replacing a replaced result takes.
- `AdjustRetry` (a request sent again while its operation is committing) ends in a violation of `ActiveBacked`: the
  repetition deletes the files of the result that is adopted.

Taken as given: a live holder of the lock file finishes before another's deadline; of the two locks of the store only the file
is modelled, the in-process one (`_ReviewLockContext`) is taken before it and given back with it or when it cannot be had;
writing a case and its event is one
step in `ReviewCase` where nothing reads between them; nobody in `src/` reopens a resolved case. A final lock can be
made for an adoption that is superseded between the check and the lock; from then on the derivation refuses
(`LOCK_ADOPTION_BINDING_MISMATCH`), and `release_final_lock`, which would help, has no caller. `FinalStands` is
therefore about a result whose case is resolved as well.

### Proofs

`ReviewCaseProofs` proves, for any decisions, requests, callers and failures: `TypeCorrect`, `MovesOnce`,
`WaitsForSomething`, `Resolved`. What makes them inductive is what a call still knows when it comes to its section: as long as the case has the
revision it read, the package it asks for is newer than the one the case has (`Knows`); and that a request that has moved
the case lies behind its revision (`Used`), so the comparison under the lock refuses it a second time.

`ResultAuthorityProofs` proves for any results, callers, failures and crashes: `TypeCorrect`, `AtMostOne` and
`ReviewBacked`. A call that writes an adoption holds the lock file, and between its two writes the old adoption is
superseded and no other one adopted; that is also what a restoring call has to know.

It also proves three properties with an assumption under which alone they are true:

- `Kept`: `AuthorityKept`, with at most one failure. The second one can hit the restoring of the old adoption;
- `Backed` and `Final`: `ActiveBacked` and `FinalStands`, when a request is repeated only while its operation is prepared
  and no two calls work on one operation at a time, as in `ResultRuns`. `AdjustRetry` shows what happens otherwise.

Model-checked only: `RegisterSpec`, which does not hold with three adjustments, three callers and one failure (the finding at `restore_adoption_status`) and
which holds with two; `RequestCompleted`, which is liveness.

## Module 7: creation of tasks

`TaskCreation` has both creators over one table of tasks: `create_task` of the manager for registered packages, which takes no lock,
and `ScoringTaskCreator` for the completed items of a settled preparation task, under a lock named by the request.

| Variable | In the code |
|---|---|
| `ledger` | the validations of each package in their order |
| `record`, `index` | the validation named by `package-record.json`, and by the entry of the registration index |
| `registering` | a registration between its two writes, with what an undo puts back |
| `tasks` | the task directories; `logged` once the transaction has ended, `None` after a roll-back |
| `locks` | the creation locks; held by `None` when the process has ended |
| `caller`, `told` | the calls in progress; the scoring tasks some caller has been answered with |

A package is a pair of a package id and a revision. A call is `RequestPreparation` or `RequestScoring`, one `Check` per package (`Preflight`, or
`Eligible`), `Lock` or `LockConflict`, `Scan`, then `Show` (the new files are visible), `Commit` or `RollBack`, and `Leave`. `WriteRecord`, `WriteIndex`,
`UndoRecord` and `RebuildIndex` are module 5, `Settle` module 2, as far as they matter here.

The creator and the dry run share their checks (`EvidenceIdentity`, `ValidationBinding`) but not the look-up. The creator reads the record of the
item's own revision; the dry run goes through `RegisteredEvidenceLookup`, which knows the package id only: it reads the index, all of whose entries
have to agree with their records (`IndexReadable`), and takes the highest revision that has an entry (`LookUp`).

`CreationRuns` (two callers, one package with two revisions, either of them registered at the start or later, preparations of one item, two validations, two
tasks and one after the crash, one configuration, one crash): `OneTask`, `ToldStays`, `DryRunFollows`. Two equal requests are what a
creation lock is for, a validation made anew is what makes them unequal, and two revisions are what a look-up by id can
confuse. A task with two items multiplies the states and adds no order of events, because packages are checked
independently; the theorems are about any number of them. `told` holds scoring tasks only: for preparation tasks
neither property holds, see `findings`. That an unknown profile is refused never happens, there is one configuration and it matches.

`DryRunFollows` says that an item of a scoring task is taken by the dry run if the index can be read, its package is the one the look-up finds and the record names
its validation. Each premise stands for a refusal that happens in the run: a registration cut between its writes, a later revision, a package validated anew. The
shared header of `pipeline_evidence_checks.py` promises more, that creator and dry run judge alike: `OneJudgement`. With the constants of
`CreationRuns` it is violated: with revisions 1 and 2 registered, the creator takes an item of revision 1 and the dry run refuses it.

`TaskCreationProofs` proves `One` (`OneTask`), `Told` (`ToldStays`), `DryRun` (`DryRunFollows`) and `TypeCorrect` for any packages, revisions, configurations, callers,
roll-backs and crashes. None is inductive: from the scan to its answer a scoring call holds the lock of its key
(`Guarded`), so what the scan found is still so when the task is written (`Fresh`), a task that may still be taken back
is nobody else's answer (`Own`, `Found`), and two calls never show one task (`Apart`). A crash keeps that because it leaves the
lock file behind, held by nobody, and only an operator removes it.

Taken as given: one fact of a validation stands for its having passed and for its leave to register and to be shown
to a model, which the validator gives together; a validation names its record, so the comparisons of record ids (`_preflight`,
`pipeline_task_manager.py:709`, and `check_validation_binding`) hold; that the program never fills the name in is the finding about `RegisteredAdmissible`; every record says
that its package was published as ready, because `_create_record` writes nothing else; equal keys come from equal payloads. An undone registration also removes its validation, which nothing can
look up any more, because no record names it.

## Module 8: machine scoring

`MachineScoring` is the older path: rows of machine scores in SQLite, and batch jobs that fill them. The handlers of the routers are
coroutines without an `await`, so one runs at a time; a job is a thread with a pool and interleaves with them at every read and commit.

| Variable | In the code |
|---|---|
| `rows` | the table `machine_scores`; a row's place is its id and its age |
| `jobs`, `disk` | the task manager's memory with the place of each thread; `data/tasks/<id>.json`, `Torn` when a save was cut short |
| `best` | what `adopt_best_score` has read before it writes |

`ScoreNow`, `Adopt`, `ReadBest`, `WriteBest` are handlers; `Start` and `Thread` a job (`Begin`, `Score`, `CountResult`, `Complete`, `FailTask`); `Crash` the end of the process.

`SheetRuns` (two teams, one job, one score asked for one by one, two failing saves or commits, one crash, an empty table or one with two rows):
`ReadersTakeAdopted`, `CompletedCounts`, `JobsEnd`. Two failures are needed because the handler of the first saves again. Fairness: a
started thread and its workers are run by the interpreter, and each of their calls has a timeout.

Taken as given: which works are parsed does not change; a sequential job counts a team before it scores the next, a
parallel one leaves its pool when all workers have returned; after a crash a job is what its file says. Human and final scores are not modelled.

### Proofs

`MachineScoringProofs` proves, for any teams, jobs, totals, tables of earlier processes, failures and crashes: `Adopted` (`ReadersTakeAdopted`),
`Completed` (`CompletedCounts`) and `TypeCorrect`. The first rests on `HasAdopted`, a team with a row has an adopted one. What
`adopt_best_score` has read may be stale when it writes; it keeps `HasAdopted` because of `Keeps`: either it takes a row, or one stays
adopted that it does not drop, and rows that were stored since are adopted when they are stored. The second rests on what a job and its
file account for at each step of its thread (`Counted`, `FileTells`).
The assumption about the first table, `EarlierAssumption`, is that an earlier process left it with an adopted row for each team that has one.
The newest and the first row a page takes are the greatest and least number of a finite set (`Greatest`, `Least`); that these exist
is proved by well-founded induction on its finite subsets.
`JobsEnd` is liveness; `OneAdopted` is false, see `findings`.

## Statements of the code that do not hold

`findings` in `PROJECT.json` quotes each. Two have a run of their own (`ScoreLiveRecovery`, `AdjustRetry`). Of the others, those with a
definition can be seen by checking it with the constants named in the finding, on top of the `.cfg` of the module's passing run:

| Definition | Module | What changes |
|---|---|---|
| `AppendedIsCommittable` | `TaskTransaction` | `MaxFaults = MaxCrashes = 0` |
| `LoggedNeverReverted` | `TaskTransaction` | `MaxFaults = 2`, `MaxCrashes = 0`, `MaxRecoveries = 1` |
| `RecoveryFinishes` | `TaskTransaction` | one process (`SameProcess`), `MaxFaults = 1` |
| `RecoveryEventuallyRuns` | `TaskTransaction` | `FairSpec`, `MaxCrashes = 1` |
| `LeaseRespected` | `PipelineTask` | `TornEvaluations = {TRUE, FALSE}` |
| `SnapshotsReadable` | `PipelineTask` | `Outputs = {TRUE, FALSE}` |
| `CallsJustified` | `ScoreExecution` | `ResumeModes = {"recover_stale"}` |
| `CallsEnd` | `ProviderSwitch` | `FairSpec`, `MaxFaults = 0` |
| `AuditTrail` | `ProviderSwitch` | `Losses = {"kept"}` |
| `RegisteredAdmissible` | `EvidenceRegistration` | `MaxCalls = 1` |
| `OneJudgement` | `TaskCreation` | nothing |
| `WaitingReopenable` | `ReviewCase` | `Failures = {}` |
| `RegisterSpec` | `ResultAuthority` | three adjustments, three callers, one failure |
| `OneAdopted` | `MachineScoring` | `MaxFaults = MaxCrashes = 0` |

## Sizes

With two workers TLC needs, in distinct states and seconds: `ResultRuns` 258 thousand, 15; `ReviewRuns` 361 thousand, 39; `SheetRuns` 751 thousand, 52; `CreationRuns`
2.2 million, 83; `SwitchRuns` 1.5 million, 70; `EvidenceRuns` 1.3 million, 100. The bounds are the largest for which a run stays
within a few minutes, and each section says which case needs which of them.

What stays with TLC: liveness under fairness (`EveryCallEnds`, `RequestCompleted`, `JobsEnd` and that of module 3), which is out of the
prover's reach, and `RegisterSpec` of `ResultAuthority`, which is not true of every instance (see above).

## Not modelled

- *Parsing of works and teams, prompts, calibration, flags*: pure functions of documents and floating-point arithmetic. What `MachineScoring`
  takes from the scorer is when it reports completion and when its row is stored.
- *Human and final scores, teams, works, competitions, judge groups, export of the older path*: create, read, update and delete on single rows.
- *The HTTP interface* except for the handlers that decide something themselves (modules 2 and 6); containers and mappers translate.
- *The limit on concurrency and the counters of `scoring_batch_orchestrator.py`*: two batches of one task may together exceed
  the limit frozen in the task; nothing that is kept depends on it. Its choice between executing and recovering is in module 3.
- *Writing of spreadsheets* by the authoritative export; the derivation it relies on is in module 6.
- *`release_final_lock` and `transition_adoption`* of the review store: no caller. Hence the store counts as partly modelled.
- *Configuration, feature flags, frontend, demo, scripts, tests*: no state of their own; read as a reference for what is intended.
