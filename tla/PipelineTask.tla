---------------------------- MODULE PipelineTask ----------------------------
(* The life of one task and of its items, as PipelineTaskManager drives it.   *)
(* Every operation is one compare-and-set of task.json and the item files it  *)
(* replaces; how such a transaction is carried out on disk is the subject of  *)
(* TaskTransaction. Here an operation is one step, and revisions are present  *)
(* only as what has changed since somebody remembered one.                    *)
EXTENDS Naturals, Sequences, FiniteSets

CONSTANTS
  Items,          \* the items of the task
  Requests,       \* ids of resume requests
  Types,          \* the task types explored: "evidence", "scoring"
  Levels,         \* evidence levels of the items of an evidence task
  MaxAttempts,    \* _MAX_ATTEMPTS
  Outputs,        \* whether a caller completes validate with an output
  Pins,           \* whether a resume request pins the revisions of its items
  TornEvaluations \* those of Pins whose evaluation may read during a publication

ASSUME ItemsAssumption == Items # {}
ASSUME AttemptsAssumption == MaxAttempts \in Nat
ASSUME TypesAssumption == Types \subseteq {"evidence", "scoring"}
ASSUME LevelsAssumption == Levels \subseteq {"sufficient", "limited", "manual_only"}
ASSUME BooleansAssumption ==
  Outputs \subseteq BOOLEAN /\ Pins \subseteq BOOLEAN /\ TornEvaluations \subseteq BOOLEAN

VARIABLES
  task,   \* task.json
  items,  \* items/<id>.json
  resume  \* per request id: the request and the decision written for it

vars == <<task, items, resume>>

----------------------------------------------------------------------------
(* Snapshots. *)

Terminal  == {"completed", "completed_with_errors"}
OpenTask  == {"pending", "running", "paused"}
Settled   == {"completed", "skipped", "manual_review"}
NoStage   == "none"
Modes     == {"recover_stale", "resume_retryable_failed", "resume_pending"}

StagesOf(type) ==
  IF type = "scoring" THEN <<"score", "review", "export">> ELSE <<"import", "validate">>

StageNames == {"import", "validate", "score", "review", "export"}

\* lease: "none" without heartbeat_updated_at, "stale" when it is over 300 s old.
\* error: last_error, of which only PROVIDER_OUTCOME_UNKNOWN is told apart.
ItemSnapshot ==
  [level : {"sufficient", "limited", "manual_only"},
   stage : StageNames,
   status : {"pending", "running", "failed"} \cup Settled,
   attempts : 0 .. MaxAttempts,
   retryable : BOOLEAN,
   error : {"none", "ordinary", "unknown"},
   lease : {"none", "fresh", "stale"},
   decided : BOOLEAN,
   output : BOOLEAN]

TaskSnapshot ==
  [type : {"evidence", "scoring"},
   status : OpenTask \cup Terminal,
   stage : StageNames \cup {NoStage},
   started : BOOLEAN]

NoResume ==
  [phase |-> "none", mode |-> "resume_pending", targets |-> {}, pinned |-> FALSE,
   stale |-> {}, changed |-> {}, eligible |-> {}]

\* A decision that is not approved, a dry run, or made at an earlier revision:
\* applying it changes nothing, so a dry-run request is not told apart.
Closed == [NoResume EXCEPT !.phase = "closed"]

Resumes ==
  [phase : {"none", "requested", "decided", "closed"}, mode : Modes,
   targets : SUBSET Items, pinned : BOOLEAN,
   stale : SUBSET Items, changed : SUBSET Items, eligible : SUBSET Items]

TypeOK ==
  /\ task \in TaskSnapshot
  /\ items \in [Items -> ItemSnapshot]
  /\ resume \in [Requests -> Resumes]

----------------------------------------------------------------------------
(* What the manager derives from the items. *)

StatusesAt(is, s) == {is[i].status : i \in {j \in Items : is[j].stage = s}}

\* The stages a scoring item in stage s has left behind.
Before(s) == CASE s = "review" -> {"score"}
               [] s = "export" -> {"score", "review"}
               [] OTHER        -> {}

Least(S) == CHOOSE n \in S : \A m \in S : n <= m

\* The status of a stage is the first of these that one of its items has.
StatusOrder == <<"running", "pending", "failed", "skipped">>

ScoringStageStatus(is, s) ==
  LET at   == StatusesAt(is, s)
      here == {n \in DOMAIN StatusOrder : StatusOrder[n] \in at}
  IN  IF here # {} THEN StatusOrder[Least(here)]
      ELSE IF "manual_review" \in at \/ \E i \in Items : s \in Before(is[i].stage)
      THEN "completed" ELSE "not_started"

\* The earliest stage that still has work; a paused task keeps its stage.
CurrentStage(t, is) ==
  LET order  == StagesOf(t.type)
      active == {n \in DOMAIN order :
                   StatusesAt(is, order[n]) \cap {"pending", "running", "failed"} # {}}
  IN  IF t.status \in Terminal THEN NoStage
      ELSE IF t.status = "paused" \/ active = {} THEN t.stage
      ELSE order[Least(active)]

Aggregate(t, is) == [t EXCEPT !.stage = CurrentStage(t, is)]

With(is, status) == {i \in Items : is[i].status = status}

IsSettled(is) == With(is, "pending") \cup With(is, "running") = {}

\* Mutant of SettledStatus: items left to people are not counted.
SettledStatusByFailures(is) ==
  IF With(is, "failed") = {} THEN "completed" ELSE "completed_with_errors"

SettledStatus(is) ==
  IF With(is, "failed") \cup With(is, "manual_review") = {}
  THEN "completed" ELSE "completed_with_errors"

----------------------------------------------------------------------------
(* The validators a snapshot has to pass when it is read back. *)

ItemValid(type, item) ==
  /\ item.stage \in {StagesOf(type)[n] : n \in DOMAIN StagesOf(type)}
  /\ item.attempts <= MaxAttempts
  /\ item.status = "completed" => item.output /\ ~item.retryable
  /\ item.status = "running" <=> item.lease # "none"

ScoringTaskValid(t, is) ==
  /\ t.status = "pending" =>
       /\ t.stage = "score"
       /\ ScoringStageStatus(is, "score") = "pending"
       /\ ScoringStageStatus(is, "review") = "not_started"
       /\ ScoringStageStatus(is, "export") = "not_started"
  /\ t.stage = "score" => ScoringStageStatus(is, "score") # "not_started"

\* Mutant of TaskValid: the counters of a task closed with errors are not checked.
TaskValidWithErrors(t, is) ==
  /\ t.status = "completed" =>
       IsSettled(is) /\ With(is, "failed") \cup With(is, "manual_review") = {}
  /\ t.started <=> t.status # "pending"
  /\ t.status \in {"running", "paused"} => t.stage # NoStage
  /\ t.type = "scoring" => ScoringTaskValid(t, is)

TaskValid(t, is) ==
  /\ t.status = "completed" =>
       IsSettled(is) /\ With(is, "failed") \cup With(is, "manual_review") = {}
  /\ t.status = "completed_with_errors" =>
       /\ IsSettled(is)
       /\ With(is, "failed") \cup With(is, "skipped") \cup With(is, "manual_review") # {}
  /\ t.started <=> t.status # "pending"
  /\ t.status \in {"running", "paused"} => t.stage # NoStage
  /\ t.type = "scoring" => ScoringTaskValid(t, is)

\* _load_item_required of every item of the index
ItemsReadable == \A i \in Items : ItemValid(task.type, items[i])

----------------------------------------------------------------------------
(* Resume requests: which items a decision finds eligible. *)

\* q.stale: the target items whose heartbeat was over 300 s old at requested_at
\* and has not been renewed; q.changed: those whose revision is not the pinned one.
Eligible(q, is) ==
  {i \in q.targets :
     /\ i \notin q.changed
     /\ \/ /\ is[i].status = "running" /\ q.mode = "recover_stale"
           /\ i \in q.stale
        \/ /\ is[i].status = "failed" /\ q.mode = "resume_retryable_failed"
           /\ is[i].error # "unknown"
           /\ is[i].retryable
           /\ is[i].attempts < MaxAttempts
        \/ is[i].status = "pending" /\ q.mode = "resume_pending"}

Decide(q) ==
  IF Eligible(q, items) = {} THEN Closed
  ELSE [NoResume EXCEPT !.phase = "decided", !.pinned = q.pinned,
                        !.eligible = Eligible(q, items)]

\* The items of w get a new revision.
Revised(q, w) ==
  [q EXCEPT !.stale = @ \ w,
            !.changed = IF q.pinned THEN @ \cup (w \cap (q.targets \cup q.eligible)) ELSE @]

\* Every decision made before a commit is outdated by it.
Aged(q, w) ==
  IF q.phase = "requested" THEN Revised(q, w)
  ELSE IF q.phase = "decided" THEN Closed ELSE q

\* An evaluation that runs while the commit is publishing: it has read the new
\* task.json and the item files that are not replaced yet.
TornDecision(q, w) == IF Eligible(q, items) = {} THEN Closed ELSE Revised(Decide(q), w)

\* run_task_transaction with fitting revisions; w: the items whose files it
\* replaces. The new task snapshot is validated before the event is appended,
\* the new items are not.
Commit(t, is, w) ==
  LET new  == Aggregate(t, is)
      aged == [r \in Requests |-> Aged(resume[r], w)]
  IN  /\ ItemsReadable
      /\ TaskValid(new, is)
      /\ task' = new
      /\ items' = is
      /\ \/ resume' = aged
         \/ \E r \in Requests :
              /\ resume[r].phase = "requested"
              /\ resume[r].pinned \in TornEvaluations
              /\ resume' = [aged EXCEPT ![r] = TornDecision(resume[r], w)]

\* _apply_item_transition
CommitItem(i, new) ==
  /\ task.status \in OpenTask
  /\ Commit(task, [items EXCEPT ![i] = new], {i})

----------------------------------------------------------------------------
(* Initial states: what create_task and create_scoring_task write. *)

NewItem(type, level) ==
  LET manual == level = "manual_only"
  IN  [level |-> level, stage |-> StagesOf(type)[1],
       status |-> IF manual THEN "manual_review" ELSE "pending",
       attempts |-> 0, retryable |-> FALSE,
       error |-> IF manual THEN "ordinary" ELSE "none",
       lease |-> "none", decided |-> FALSE, output |-> FALSE]

\* A scoring task takes completed items of an evidence task, which are all sufficient.
LevelsOf(type) == IF type = "scoring" THEN {"sufficient"} ELSE Levels

Init ==
  /\ \E type \in Types : \E level \in [Items -> LevelsOf(type)] :
       /\ items = [i \in Items |-> NewItem(type, level[i])]
       /\ task = [type |-> type, status |-> "pending", stage |-> StagesOf(type)[1],
                  started |-> FALSE]
  /\ resume = [r \in Requests |-> NoResume]

----------------------------------------------------------------------------
(* Operations on the task. *)

StartTask ==
  /\ task.status = "pending"
  /\ Commit([task EXCEPT !.status = "running", !.started = TRUE], items, {})

PauseTask ==
  /\ task.status = "running"
  /\ Commit([task EXCEPT !.status = "paused"], items, {})

FinalizeTask ==
  /\ IsSettled(items)
  /\ Commit([task EXCEPT !.status = SettledStatus(items), !.stage = NoStage], items, {})

----------------------------------------------------------------------------
(* Operations on an item. *)

HeartbeatItem(i) ==
  /\ task.status = "running"
  /\ items[i].status = "running"
  /\ CommitItem(i, [items[i] EXCEPT !.lease = "fresh"])

StartItemStage(i) ==
  /\ items[i].level # "manual_only"
  /\ task.type = "scoring" => task.status = "running" /\ items[i].error # "unknown"
  /\ \/ items[i].status = "pending"
     \/ items[i].status = "failed" /\ items[i].retryable
  /\ items[i].attempts + 1 <= MaxAttempts
  /\ CommitItem(i, [items[i] EXCEPT !.status = "running", !.attempts = @ + 1,
                      !.lease = "fresh", !.retryable = FALSE, !.error = "none"])

\* Leaving running always clears the heartbeat.
Leaving(item, status) == [item EXCEPT !.status = status, !.lease = "none"]

CompleteItemStage(i, output) ==
  /\ items[i].status = "running"
  /\ \/ /\ items[i].stage = "import"
        /\ CommitItem(i, [Leaving(items[i], "pending") EXCEPT !.stage = "validate"])
     \/ /\ items[i].stage = "validate" /\ items[i].level = "limited"
        /\ CommitItem(i, [Leaving(items[i], "manual_review") EXCEPT !.error = "ordinary"])
     \/ /\ items[i].stage = "validate" /\ items[i].level # "limited"
        /\ CommitItem(i, [Leaving(items[i], "completed") EXCEPT !.output = output])

CompleteScoringItemStage(i) ==
  /\ task.type = "scoring"
  /\ items[i].status = "running"
  /\ \/ /\ items[i].stage = "score"
        /\ CommitItem(i, [Leaving(items[i], "pending") EXCEPT !.stage = "review"])
     \/ /\ items[i].stage = "review"
        /\ CommitItem(i, [Leaving(items[i], "pending") EXCEPT
                            !.stage = "export", !.decided = TRUE])
     \/ /\ items[i].stage = "export"
        /\ CommitItem(i, [Leaving(items[i], "completed") EXCEPT !.output = TRUE])

\* Mutant of ResetScoringItem: the error is not kept for the audit.
ResetScoringItemClean(i) ==
  /\ task.type = "scoring"
  /\ \/ items[i].status = "running" /\ items[i].lease = "stale"
     \/ items[i].status = "failed" /\ items[i].retryable
  /\ CommitItem(i, [Leaving(items[i], "pending") EXCEPT !.retryable = FALSE, !.error = "none"])

ResetScoringItem(i) ==
  /\ task.type = "scoring"
  /\ \/ items[i].status = "running" /\ items[i].lease = "stale"
     \/ items[i].status = "failed" /\ items[i].retryable
  /\ CommitItem(i, [Leaving(items[i], "pending") EXCEPT !.retryable = FALSE])

\* Mutant of FailItem: the heartbeat of the failed execution stays.
FailItemWithHeartbeat(i, retryable, error) ==
  /\ items[i].status = "running"
  /\ error = "unknown" => task.type = "scoring"
  /\ CommitItem(i, [items[i] EXCEPT
                      !.status = "failed", !.retryable = retryable, !.error = error])

\* Only the orchestrator of a scoring task reports an unknown outcome.
FailItem(i, retryable, error) ==
  /\ items[i].status = "running"
  /\ error = "unknown" => task.type = "scoring"
  /\ CommitItem(i, [Leaving(items[i], "failed") EXCEPT
                      !.retryable = retryable, !.error = error])

\* Mutant of SendItemToManualReview: a completed item is taken back.
SendItemToManualReviewAnyway(i) ==
  /\ items[i].status \in {"pending", "running", "failed", "completed"}
  /\ CommitItem(i, [Leaving(items[i], "manual_review") EXCEPT !.error = "ordinary"])

SendItemToManualReview(i) ==
  /\ items[i].status \in {"pending", "running", "failed"}
  /\ CommitItem(i, [Leaving(items[i], "manual_review") EXCEPT !.error = "ordinary"])

SkipItem(i) ==
  /\ items[i].status \in {"pending", "failed"}
  /\ CommitItem(i, Leaving(items[i], "skipped"))

----------------------------------------------------------------------------
(* Pausing and resuming. *)

CreateResumeRequest(r, mode, targets, pinned) ==
  /\ resume[r].phase = "none"
  /\ resume' = [resume EXCEPT ![r] =
       [NoResume EXCEPT !.phase = "requested", !.mode = mode, !.targets = targets,
          !.pinned = pinned,
          !.stale = {i \in targets : mode = "recover_stale" /\ items[i].lease = "stale"}]]
  /\ UNCHANGED <<task, items>>

\* A second decision would have another decision_id and is refused as a conflict.
EvaluateResumeRequest(r) ==
  LET q == resume[r]
  IN  /\ q.phase = "requested"
      /\ ItemsReadable
      /\ resume' = [resume EXCEPT ![r] = Decide(q)]
      /\ UNCHANGED <<task, items>>

ApplyResumeDecision(r) ==
  LET q     == resume[r]
      moved == {i \in q.eligible : items[i].status \in {"failed", "running"}}
      new   == [i \in Items |-> IF i \in moved
                 THEN [Leaving(items[i], "pending") EXCEPT !.retryable = FALSE]
                 ELSE items[i]]
  IN  /\ q.phase = "decided"
      /\ \A i \in q.eligible :
           /\ i \notin q.changed
           /\ items[i].status \in {"pending", "failed", "running"}
      /\ moved # {} \/ task.status = "paused"
      /\ Commit([task EXCEPT !.status = IF @ = "paused" THEN "running" ELSE @], new, moved)

----------------------------------------------------------------------------
\* 300 seconds pass without a heartbeat of the item.
LeaseExpires(i) ==
  /\ items[i].lease = "fresh"
  /\ items' = [items EXCEPT ![i].lease = "stale"]
  /\ UNCHANGED <<task, resume>>

ItemStep(i) ==
  \/ HeartbeatItem(i)
  \/ StartItemStage(i)
  \/ \E output \in Outputs : CompleteItemStage(i, output)
  \/ CompleteScoringItemStage(i)
  \/ ResetScoringItem(i)
  \/ \E retryable \in BOOLEAN, error \in {"ordinary", "unknown"} : FailItem(i, retryable, error)
  \/ SendItemToManualReview(i)
  \/ SkipItem(i)
  \/ LeaseExpires(i)

ResumeStep(r) ==
  \/ \E mode \in Modes, targets \in SUBSET Items \ {{}}, pinned \in Pins :
       CreateResumeRequest(r, mode, targets, pinned)
  \/ EvaluateResumeRequest(r)
  \/ ApplyResumeDecision(r)

Next ==
  \/ StartTask \/ PauseTask \/ FinalizeTask
  \/ \E i \in Items : ItemStep(i)
  \/ \E r \in Requests : ResumeStep(r)

Spec == Init /\ [][Next]_vars

----------------------------------------------------------------------------
(* Properties. *)

\* Every published snapshot passes the validators it is read back with, so no
\* sequence of calls makes the task unreadable for the next one.
\* (models/pipeline_task.py, PipelineItem and PipelineTask validators)
SnapshotsReadable == ItemsReadable /\ TaskValid(task, items)

\* Once nothing is pending or running, a started task can be closed: its final
\* snapshot is one the validator accepts. (finalize_task_if_settled)
SettledCanFinalize ==
  task.started /\ IsSettled(items) =>
    TaskValid([task EXCEPT !.status = SettledStatus(items), !.stage = NoStage], items)

\* A closed task stays closed as it is: neither a late item operation nor a
\* resume decided before or after the end changes its status or its items.
\* Nothing checks this for a resume except the validation of the task it writes.
ClosedTaskFrozen ==
  [][task.status \in Terminal => task'.status = task.status /\ items' = items]_vars

\* A result that was reached, by success, by skipping or by handing the item to
\* people, is never replaced, not even by a decision made when the item was
\* still running. (evaluate_resume_request, SUCCESS_RESULT_PROTECTED)
ResultsProtected ==
  [][\A i \in Items : items[i].status \in Settled => items'[i] = items[i]]_vars

\* An item whose lease is alive is never put back to pending under the worker
\* that holds it: "failed/stale running" only. (apply_resume_decision,
\* reset_scoring_item_to_pending)
LeaseRespected ==
  [][\A i \in Items :
       items[i].status = "running" /\ items[i].lease = "fresh"
         /\ items'[i].status = "pending"
       => items'[i].stage # items[i].stage]_vars

\* After a provider call of unknown outcome the item is not executed again on
\* its own account: through failure, reset and resume it keeps the error until
\* people take it over or skip it. (start_item_stage, evaluate_resume_request)
UnknownOutcomeHeld ==
  [][\A i \in Items : items[i].error = "unknown" =>
       /\ items'[i].status # "running"
       /\ items'[i].error = "unknown" \/ items'[i].status = "manual_review"]_vars
=============================================================================
