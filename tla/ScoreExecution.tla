--------------------------- MODULE ScoreExecution ---------------------------
(* Scoring the items of one task: executions, which call the provider and     *)
(* record what it answered, and recoveries, which go on from what an          *)
(* interrupted execution has recorded. Both move the items through the        *)
(* operations of PipelineTask, and nothing but the expected revisions and the *)
(* recorded facts keeps them apart.                                           *)
EXTENDS Naturals, FiniteSets

CONSTANTS
  Items, Requests, MaxAttempts, \* as in PipelineTask
  Workers,     \* slots for calls of execute_score_item and recover_score_item
  Names,       \* attempt ids: random, and listed in this order
  ResumeModes, \* the modes of the resume requests that are made
  Overtaken,   \* whether an item may change between the dry run and its re-read
  MaxFaults    \* executions that are interrupted and writes that fail

ASSUME ItemsAssumption == Items # {}
ASSUME AttemptsAssumption == MaxAttempts \in Nat
ASSUME NamesAssumption ==
  /\ Names \subseteq Nat \ {0}
  /\ \A S \in SUBSET Names : S # {} => \E a \in S : \A b \in S : b <= a
ASSUME OvertakenAssumption == Overtaken \in BOOLEAN
ASSUME FaultsAssumption == MaxFaults \in Nat

VARIABLES
  task, items, resume, \* as in PipelineTask
  facts,   \* per item and attempt: attempts/, responses/, snapshots/, validations/
  worker,  \* what each call in progress knows
  faults

M == INSTANCE PipelineTask WITH
       Types <- {"scoring"}, Levels <- {"sufficient"},
       Outputs <- {TRUE}, Pins <- {TRUE}, TornEvaluations <- {}

ASSUME ResumeModesAssumption == ResumeModes \subseteq M!Modes

managed == <<task, items, resume>>
vars == <<task, items, resume, facts, worker, faults>>

----------------------------------------------------------------------------
(* Attempts and workers. *)

\* response, snapshot, validation: whether such a fact of the attempt exists.
Attempt ==
  [status : {"none", "running", "succeeded", "failed", "unknown"},
   dispatched : BOOLEAN, response : BOOLEAN, snapshot : BOOLEAN, validation : BOOLEAN]

NoAttempt ==
  [status |-> "none", dispatched |-> FALSE,
   response |-> FALSE, snapshot |-> FALSE, validation |-> FALSE]

\* How a call ends for the attempt and for its item; retry: failed, retryable.
Verdicts == {"success", "retry", "final", "unknown"}

StatusFor(verdict) ==
  CASE verdict = "success" -> "succeeded"
    [] verdict = "unknown" -> "unknown"
    [] OTHER               -> "failed"

Phases ==
  {"idle",
   "admitted", "ready", "started", "created", "calling", "answered", \* execution
   "judging", "resetting",                                           \* recovery
   "responded", "scored", "publishing", "announcing", "concluding"}  \* both

NoName == 0

\* fresh: the revision the worker knows of the item is still the item's.
\* seen: how a recovery has read the item. executing: the item is its own.
Idle(i) ==
  [phase |-> "idle", item |-> i, name |-> NoName, fresh |-> FALSE,
   seen |-> "other", verdict |-> "success", executing |-> FALSE]

WorkerState ==
  [phase : Phases, item : Items, name : Names \cup {NoName}, fresh : BOOLEAN,
   seen : {"alive", "stale", "other"}, verdict : Verdicts, executing : BOOLEAN]

TypeOK ==
  /\ M!TypeOK
  /\ facts \in [Items -> [Names -> Attempt]]
  /\ worker \in [Workers -> WorkerState]
  /\ faults \in 0 .. MaxFaults

Attempts(i) == {a \in Names : facts[i][a].status # "none"}

\* attempts[-1] of the sorted list
Latest(i) == CHOOSE a \in Attempts(i) : \A b \in Attempts(i) : b <= a

HasSnapshot(i) == \E a \in Names : facts[i][a].snapshot

Init ==
  /\ M!Init
  /\ facts = [i \in Items |-> [a \in Names |-> NoAttempt]]
  /\ \E i \in Items : worker = [w \in Workers |-> Idle(i)]
  /\ faults = 0

----------------------------------------------------------------------------
(* Steps of a worker. *)

At(w, phase) == worker[w].phase = phase

\* Every commit on item i by somebody else outdates the revision a worker knows.
Outdated(w, i) ==
  [v \in Workers |-> IF v # w /\ worker[v].item = i
                     THEN [worker[v] EXCEPT !.fresh = FALSE] ELSE worker[v]]

GoTo(w, new) == worker' = [worker EXCEPT ![w] = new]

Return(w) == GoTo(w, Idle(worker[w].item))

Moved(w, phase) == [worker[w] EXCEPT !.phase = phase]

\* No publication of a terminal attempt holds the lock of the facts of i.
Unlocked(i) == \A v \in Workers : ~(At(v, "announcing") /\ worker[v].item = i)

\* A write of one fact about the attempt of w, under the lock of the item.
Record(w, field) ==
  LET i == worker[w].item
      a == worker[w].name
  IN  /\ Unlocked(i)
      /\ facts' = [facts EXCEPT ![i][a][field] = TRUE]
      /\ UNCHANGED <<managed, faults>>

----------------------------------------------------------------------------
(* execute_score_item *)

\* The dry run, as far as it looks at what can change.
Admissible(i) ==
  /\ task.status \in {"pending", "running"} /\ task.stage = "score"
  /\ items[i].stage = "score" /\ items[i].status = "pending"
  /\ ~HasSnapshot(i)
  /\ \A a \in Attempts(i) : facts[i][a].status # "unknown"

Admit(w, i) ==
  /\ At(w, "idle")
  /\ Admissible(i)
  /\ GoTo(w, [Idle(i) EXCEPT !.phase = "admitted", !.fresh = TRUE])
  /\ UNCHANGED <<managed, facts, faults>>

\* The item is read again; only running is looked at.
ReadAgain(w) ==
  /\ At(w, "admitted")
  /\ worker[w].fresh \/ Overtaken
  /\ items[worker[w].item].status # "running"
  /\ GoTo(w, [Moved(w, "ready") EXCEPT !.fresh = TRUE])
  /\ UNCHANGED <<managed, facts, faults>>

\* What start_item_stage asks of an item that can be scored.
Startable(i) ==
  /\ task.status = "running"
  /\ \/ items[i].status = "pending"
     \/ items[i].status = "failed" /\ items[i].retryable
  /\ items[i].error # "unknown"
  /\ items[i].attempts < MaxAttempts

\* Mutant of Start: the item is put to running without counting the attempt.
StartUncounted(w) ==
  LET i == worker[w].item
  IN  /\ At(w, "ready")
      /\ worker[w].fresh
      /\ Startable(i)
      /\ M!CommitItem(i, [items[i] EXCEPT !.status = "running", !.lease = "fresh"])
      /\ \E a \in Names \ ({worker[v].name : v \in Workers} \cup Attempts(i)) :
           worker' = [Outdated(w, i) EXCEPT
                        ![w] = [@ EXCEPT !.phase = "started", !.name = a, !.executing = TRUE]]
      /\ UNCHANGED <<facts, faults>>

\* start_item_stage; the attempt gets its id before.
Start(w) ==
  LET i == worker[w].item
  IN  /\ At(w, "ready")
      /\ worker[w].fresh
      /\ M!StartItemStage(i)
      /\ \E a \in Names \ ({worker[v].name : v \in Workers} \cup Attempts(i)) :
           worker' = [Outdated(w, i) EXCEPT
                        ![w] = [@ EXCEPT !.phase = "started", !.name = a, !.executing = TRUE]]
      /\ UNCHANGED <<facts, faults>>

CreateAttempt(w) ==
  LET i == worker[w].item
  IN  /\ At(w, "started")
      /\ Unlocked(i)
      /\ facts' = [facts EXCEPT ![i][worker[w].name].status = "running"]
      /\ GoTo(w, Moved(w, "created"))
      /\ UNCHANGED <<managed, faults>>

\* mark_attempt_dispatched, and then the call.
Dispatch(w) ==
  /\ At(w, "created")
  /\ facts[worker[w].item][worker[w].name].status = "running"
  /\ Record(w, "dispatched")
  /\ GoTo(w, Moved(w, "calling"))

Answer(w) ==
  /\ At(w, "calling")
  /\ GoTo(w, Moved(w, "answered"))
  /\ UNCHANGED <<managed, facts, faults>>

\* The gateway returns an error; after a timeout or a network error nobody knows
\* whether the call was carried out.
ProviderFails(w, verdict) ==
  /\ At(w, "calling")
  /\ verdict # "success"
  /\ GoTo(w, [Moved(w, "publishing") EXCEPT !.verdict = verdict])
  /\ UNCHANGED <<managed, facts, faults>>

WriteResponse(w) ==
  /\ At(w, "answered")
  /\ Record(w, "response")
  /\ GoTo(w, Moved(w, "responded"))

----------------------------------------------------------------------------
(* recover_score_item *)

Inspect(w, i) ==
  /\ At(w, "idle")
  /\ GoTo(w, [Idle(i) EXCEPT !.phase = "judging", !.fresh = TRUE,
                !.seen = IF items[i].status # "running" THEN "other"
                         ELSE IF items[i].lease = "stale" THEN "stale" ELSE "alive"])
  /\ UNCHANGED <<managed, facts, faults>>

\* Mutant of Succeeded: only the last attempt is looked at.
LastSucceeded(i) ==
  {a \in Attempts(i) : a = Latest(i) /\ facts[i][a].status = "succeeded"}

Succeeded(i) == {a \in Attempts(i) : facts[i][a].status = "succeeded"}

\* No attempt has come to an end since the item was last started.
Undecided(i) ==
  /\ Succeeded(i) = {}
  /\ Attempts(i) # {} => facts[i][Latest(i)].status = "running"

\* Mutant of Called: a call counts when it was answered.
CalledAndAnswered(i) == Attempts(i) # {} /\ facts[i][Latest(i)].response

\* The last attempt has its dispatch mark: the provider may have been called.
Called(i) == Attempts(i) # {} /\ facts[i][Latest(i)].dispatched

\* An interrupted call: its answer is recorded, or its outcome is unknown.
GoOnWith(w, a) ==
  \/ /\ facts[worker[w].item][a].response
     /\ GoTo(w, [Moved(w, "responded") EXCEPT !.name = a])
  \/ /\ ~facts[worker[w].item][a].response
     /\ GoTo(w, [Moved(w, "publishing") EXCEPT !.name = a, !.verdict = "unknown"])

\* The facts are read after the item. A success is only carried over to the item;
\* otherwise the last attempt decides. A failed or unknown one is left alone, and
\* so is an execution that has not called and whose lease is alive.
Judge(w) ==
  LET i     == worker[w].item
      carry == Succeeded(i) # {} /\ worker[w].seen # "other"
      reset == Undecided(i) /\ ~Called(i) /\ worker[w].seen = "stale"
      go    == Undecided(i) /\ Called(i)
  IN  /\ At(w, "judging")
      /\ \/ carry /\ GoTo(w, Moved(w, "concluding"))
         \/ reset /\ GoTo(w, Moved(w, "resetting"))
         \/ go /\ GoOnWith(w, Latest(i))
         \/ ~carry /\ ~reset /\ ~go /\ Return(w)
      /\ UNCHANGED <<managed, facts, faults>>

ResetItem(w) ==
  LET i == worker[w].item
  IN  /\ At(w, "resetting")
      /\ worker[w].fresh
      /\ M!ResetScoringItem(i)
      /\ worker' = [Outdated(w, i) EXCEPT ![w] = Idle(i)]
      /\ UNCHANGED <<facts, faults>>

----------------------------------------------------------------------------
(* The way to the end, which both take. *)

WriteSnapshot(w) ==
  /\ At(w, "responded")
  /\ Record(w, "snapshot")
  /\ GoTo(w, Moved(w, "scored"))

WriteValidation(w) ==
  /\ At(w, "scored")
  /\ Record(w, "validation")
  /\ GoTo(w, [Moved(w, "publishing") EXCEPT !.verdict = "success"])

\* Mutant of Publish: whatever is there is replaced.
PublishOver(w) ==
  LET i == worker[w].item
  IN  /\ At(w, "publishing")
      /\ Unlocked(i)
      /\ facts' = [facts EXCEPT ![i][worker[w].name].status = StatusFor(worker[w].verdict)]
      /\ GoTo(w, Moved(w, "announcing"))
      /\ UNCHANGED <<managed, faults>>

\* publish_attempt_terminal replaces the attempt; readers do not take the lock.
Publish(w) ==
  LET i == worker[w].item
  IN  /\ At(w, "publishing")
      /\ Unlocked(i)
      /\ facts[i][worker[w].name].status = "running"
      /\ facts' = [facts EXCEPT ![i][worker[w].name].status = StatusFor(worker[w].verdict)]
      /\ GoTo(w, Moved(w, "announcing"))
      /\ UNCHANGED <<managed, faults>>

\* A terminal attempt has been published by somebody else.
PublishConflict(w) ==
  /\ At(w, "publishing")
  /\ Unlocked(worker[w].item)
  /\ facts[worker[w].item][worker[w].name].status # "running"
  /\ Return(w)
  /\ UNCHANGED <<managed, facts, faults>>

Announce(w) ==
  /\ At(w, "announcing")
  /\ GoTo(w, Moved(w, "concluding"))
  /\ UNCHANGED <<managed, facts, faults>>

\* The event cannot be appended: the attempt is put back to running.
AnnounceFails(w) ==
  /\ At(w, "announcing")
  /\ faults < MaxFaults
  /\ facts' = [facts EXCEPT ![worker[w].item][worker[w].name].status = "running"]
  /\ Return(w)
  /\ faults' = faults + 1
  /\ UNCHANGED managed

\* Mutant of Concludes: the stage is completed for a failed call too.
ConcludesAnyway(i, verdict) ==
  /\ items[i].stage = "score"
  /\ M!CompleteScoringItemStage(i)

\* complete_scoring_item_stage with an attempt id, or _safe_fail_item
Concludes(i, verdict) ==
  IF verdict = "success"
  THEN items[i].stage = "score" /\ M!CompleteScoringItemStage(i)
  ELSE M!FailItem(i, verdict = "retry", IF verdict = "unknown" THEN "unknown" ELSE "ordinary")

Conclude(w) ==
  LET i == worker[w].item
  IN  /\ At(w, "concluding")
      /\ worker[w].fresh
      /\ Concludes(i, worker[w].verdict)
      /\ worker' = [Outdated(w, i) EXCEPT ![w] = Idle(i)]
      /\ UNCHANGED <<facts, faults>>

\* The manager refuses the call: the item has changed since the worker read it,
\* or is not in a state for it. The orchestrator returns, or swallows the error.
Refused(w) ==
  LET i == worker[w].item
  IN  /\ \/ At(w, "admitted") /\ (~worker[w].fresh \/ items[i].status = "running")
         \/ At(w, "ready") /\ (~worker[w].fresh \/ ~Startable(i))
         \/ At(w, "resetting") /\ (~worker[w].fresh \/ items[i].lease # "stale")
         \/ /\ At(w, "concluding")
            /\ \/ ~worker[w].fresh
               \/ items[i].status # "running"
               \/ worker[w].verdict = "success" /\ items[i].stage # "score"
      /\ Return(w)
      /\ UNCHANGED <<managed, facts, faults>>

\* The process ends, a write fails, or the revision of the task is overtaken: in
\* every case the call ends where it is and undoes nothing. One that has written
\* nothing yet might as well not have been made.
Interrupt(w) ==
  /\ worker[w].phase \notin {"idle", "admitted", "ready", "judging", "resetting"}
  /\ faults < MaxFaults
  /\ Return(w)
  /\ faults' = faults + 1
  /\ UNCHANGED <<managed, facts>>

----------------------------------------------------------------------------
(* What else happens to the task and to its items. *)

\* No execution of i is alive. An execution ends within the 300 seconds of its
\* lease: the provider call has a timeout, of 120 seconds unless configured.
Abandoned(i) == \A w \in Workers : ~(worker[w].executing /\ worker[w].item = i)

LeaseExpires(i) ==
  /\ Abandoned(i)
  /\ M!LeaseExpires(i)
  /\ UNCHANGED <<facts, worker, faults>>

\* Sent for an execution that is alive.
Heartbeat(i) ==
  /\ ~Abandoned(i)
  /\ M!HeartbeatItem(i)
  /\ worker' = [w \in Workers |-> IF worker[w].item = i
                  THEN [worker[w] EXCEPT !.fresh = FALSE] ELSE worker[w]]
  /\ UNCHANGED <<facts, faults>>

\* The revisions of items that the decision puts back change with it.
ApplyResume(r) ==
  /\ M!ApplyResumeDecision(r)
  /\ worker' = [w \in Workers |-> IF items'[worker[w].item] # items[worker[w].item]
                  THEN [worker[w] EXCEPT !.fresh = FALSE] ELSE worker[w]]
  /\ UNCHANGED <<facts, faults>>

Manage ==
  /\ \/ M!StartTask
     \/ M!PauseTask
     \/ \E r \in Requests, mode \in ResumeModes, targets \in SUBSET Items \ {{}} :
          M!CreateResumeRequest(r, mode, targets, TRUE)
     \/ \E r \in Requests : M!EvaluateResumeRequest(r)
  /\ UNCHANGED <<facts, worker, faults>>

----------------------------------------------------------------------------
Goes(w) ==
  \/ ReadAgain(w) \/ Start(w) \/ CreateAttempt(w) \/ Dispatch(w) \/ Answer(w)
  \/ \E verdict \in Verdicts : ProviderFails(w, verdict)
  \/ WriteResponse(w) \/ Judge(w) \/ ResetItem(w) \/ WriteSnapshot(w)
  \/ WriteValidation(w) \/ Publish(w) \/ PublishConflict(w) \/ Announce(w)
  \/ Conclude(w) \/ Refused(w)

WorkerStep(w) ==
  \/ \E i \in Items : Admit(w, i) \/ Inspect(w, i)
  \/ Goes(w)
  \/ AnnounceFails(w) \/ Interrupt(w)

Next ==
  \/ \E w \in Workers : WorkerStep(w)
  \/ \E i \in Items : LeaseExpires(i) \/ Heartbeat(i)
  \/ \E r \in Requests : ApplyResume(r)
  \/ Manage

Spec == Init /\ [][Next]_vars

\* A call that has begun goes on, recoveries are asked for again and again, and
\* whoever can conclude again and again does so once.
FairSpec ==
  /\ Spec
  /\ \A w \in Workers :
       /\ WF_vars(Goes(w))
       /\ SF_vars(Conclude(w))
       /\ \A i \in Items : WF_vars(Inspect(w, i))

----------------------------------------------------------------------------
(* Properties. *)

\* Nobody calls the provider for an item while an earlier call for it may have
\* been carried out: every call that was made before has failed, and its failure
\* is on record. (scoring_pipeline_orchestrator.py, "blind retries are stopped")
CallsJustified ==
  [][\A i \in Items, a \in Names :
       facts'[i][a].dispatched /\ ~facts[i][a].dispatched =>
         \A b \in Names \ {a} : facts[i][b].dispatched => facts[i][b].status = "failed"]_vars

\* Everything of a successful attempt is on record: the call, its answer, the
\* result and the validation.
Complete(attempt) ==
  attempt.dispatched /\ attempt.response /\ attempt.snapshot /\ attempt.validation

\* No false completion: an item is beyond score only with a call that was made,
\* answered, and whose answer, result and validation are all on record.
\* (scoring_pipeline_orchestrator.py, execute_score_item)
NoFalseCompletion ==
  \A i \in Items : items[i].stage # "score" =>
    \E a \in Names : Complete(facts[i][a])

\* A terminal attempt that has been published and announced never changes again,
\* whoever else works on the item. (publish_attempt_terminal)
VerdictFinal ==
  [][\A i \in Items, a \in Names :
       /\ facts[i][a].status \in {"succeeded", "failed", "unknown"}
       /\ \A w \in Workers : At(w, "announcing") =>
            worker[w].item # i \/ worker[w].name # a
       => facts'[i][a].status = facts[i][a].status]_vars

\* An item that failed with an unknown outcome has an attempt that says so.
\* (_handle_provider_error, _recover_running)
UnknownOnRecord ==
  \A i \in Items :
    items[i].error = "unknown" => \E a \in Names : facts[i][a].status = "unknown"

\* Whatever executions and recoveries do, items and task only move by operations
\* of the task manager: every step is a step of PipelineTask, or changes nothing
\* of what PipelineTask describes. (PipelineTaskManager, its public operations)
ManagerSpec == M!Spec

\* Recovery carries every success over to the item. (recover_score_item)
SuccessArrives ==
  \A i \in Items :
    /\ items[i].stage = "score" /\ items[i].status = "running"
    /\ \E a \in Names :
         /\ facts[i][a].status = "succeeded"
         /\ \A w \in Workers : At(w, "announcing") =>
              worker[w].item # i \/ worker[w].name # a
    ~> items[i].stage = "review"

\* An attempt is declared of unknown outcome only when its answer is not on record.
\* (_recover_running, "no response fact: the outcome is unknown")
UnknownHasNoAnswer ==
  \A i \in Items, a \in Names : facts[i][a].status = "unknown" => ~facts[i][a].response
=============================================================================
