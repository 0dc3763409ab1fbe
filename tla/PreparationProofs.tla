-------------------------- MODULE PreparationProofs --------------------------
(* Theorems about what a score is prepared from: the tasks with their items    *)
(* (PipelineTask) and the registration of evidence packages                    *)
(* (EvidenceRegistration). The two share nothing; each has its own invariant.  *)
EXTENDS PipelineTask, EvidenceRegistration, TLAPS

----------------------------------------------------------------------------
(* PipelineTask, for any items, requests and bounds. The inductive invariant.  *)

\* A lease belongs to a running item, which has no error and is not retryable;
\* an unknown outcome belongs to an item that waits.
ItemSound(type, item) ==
  /\ item.lease # "none" <=> item.status = "running"
  /\ item.status = "running" => ~item.retryable
  /\ item.error = "unknown" =>
       type = "scoring" /\ item.status \in {"pending", "failed", "skipped"}

TaskInv ==
  /\ TaskValid(task, items)
  /\ task.status \in Terminal => task.status = SettledStatus(items)

\* What a request remembers as stale still is; what a decision may put back is
\* not alive, unless the request pins a revision that has gone.
ResumeSafe(q, is) ==
  /\ q.phase = "requested" =>
       \A i \in q.stale : is[i].status = "running" => is[i].lease = "stale"
  /\ TornEvaluations \subseteq {TRUE} /\ q.phase = "decided" =>
       \A i \in q.eligible \ q.changed :
         is[i].status = "running" => is[i].lease = "stale"

IInv ==
  /\ TypeOK
  /\ \A i \in Items : ItemSound(task.type, items[i])
  /\ TaskInv
  /\ \A r \in Requests : ResumeSafe(resume[r], items)

----------------------------------------------------------------------------
(* Facts about the operators. *)

\* The stages of a task type are names of stages. (_STAGES, _TASK_SCOPES)
LEMMA StageNamed ==
  ASSUME NEW type, NEW n \in DOMAIN StagesOf(type)
  PROVE  StagesOf(type)[n] \in StageNames /\ n \in Nat
BY DEF StagesOf, StageNames

\* The stages of an evidence and of a scoring task. (_TASK_SCOPES)
LEMMA StagesInScope ==
  ASSUME NEW type
  PROVE  {StagesOf(type)[n] : n \in DOMAIN StagesOf(type)} =
           IF type = "scoring" THEN {"score", "review", "export"} ELSE {"import", "validate"}
<1>1. CASE type = "scoring"
  <2>1. DOMAIN StagesOf(type) = 1 .. 3
    BY <1>1 DEF StagesOf
  <2>2. 1 .. 3 = {1, 2, 3}
    OBVIOUS
  <2>3. StagesOf(type)[1] = "score" /\ StagesOf(type)[2] = "review"
        /\ StagesOf(type)[3] = "export"
    BY <1>1 DEF StagesOf
  <2> QED
    BY <1>1, <2>1, <2>2, <2>3
<1>2. CASE type # "scoring"
  <2>1. DOMAIN StagesOf(type) = 1 .. 2
    BY <1>2 DEF StagesOf
  <2>2. 1 .. 2 = {1, 2}
    OBVIOUS
  <2>3. StagesOf(type)[1] = "import" /\ StagesOf(type)[2] = "validate"
    BY <1>2 DEF StagesOf
  <2> QED
    BY <1>2, <2>1, <2>2, <2>3
<1> QED
  BY <1>1, <1>2

\* The derived stage is a stage name or none. (_derive_scoring_current_stage,
\* _derive_evidence_current_stage)
LEMMA CurrentStageNamed ==
  ASSUME NEW t \in TaskSnapshot, NEW is
  PROVE  CurrentStage(t, is) \in StageNames \cup {NoStage}
<1> DEFINE order  == StagesOf(t.type)
           active == {n \in DOMAIN order :
                        StatusesAt(is, order[n]) \cap {"pending", "running", "failed"} # {}}
<1>1. t.stage \in StageNames \cup {NoStage}
  BY DEF TaskSnapshot
<1>2. active # {} => order[Least(active)] \in StageNames
  <2>1. DOMAIN order \subseteq {1, 2, 3}
    BY DEF StagesOf
  <2>2. active \subseteq {1, 2, 3}
    BY <2>1
  <2>3. active # {} => \E n \in active : \A m \in active : n <= m
    <3>1. CASE 1 \in active
      BY <3>1, <2>2
    <3>2. CASE 1 \notin active /\ 2 \in active
      BY <3>2, <2>2
    <3>3. CASE 1 \notin active /\ 2 \notin active
      BY <3>3, <2>2
    <3> QED
      BY <3>1, <3>2, <3>3
  <2>4. active # {} => Least(active) \in active
    BY <2>3 DEF Least
  <2> QED
    BY <2>4, StageNamed
<1> QED
  <2>1. CASE t.status \in Terminal
    BY <2>1 DEF CurrentStage
  <2>2. CASE t.status \notin Terminal /\ (t.status = "paused" \/ active = {})
    BY <1>1, <2>2 DEF CurrentStage
  <2>3. CASE t.status \notin Terminal \cup {"paused"} /\ active # {}
    BY <1>2, <2>3 DEF CurrentStage
  <2> QED
    BY <2>1, <2>2, <2>3

\* Aggregation changes nothing but the stage. (_aggregate_task)
LEMMA AggregateKeeps ==
  ASSUME NEW t \in TaskSnapshot, NEW is
  PROVE  /\ Aggregate(t, is) \in TaskSnapshot
         /\ Aggregate(t, is).status = t.status
         /\ Aggregate(t, is).type = t.type
         /\ Aggregate(t, is).started = t.started
BY CurrentStageNamed DEF Aggregate, TaskSnapshot

\* A new snapshot of every item is typed, and those outside w are as before.
Rewrites(is, w) ==
  /\ is \in [Items -> ItemSnapshot]
  /\ w \subseteq Items
  /\ \A i \in Items \ w : is[i] = items[i]

\* Giving items new revisions keeps a request typed. (apply_resume_decision)
LEMMA RevisedTyped ==
  ASSUME NEW q \in Resumes, NEW w \in SUBSET Items
  PROVE  /\ Revised(q, w) \in Resumes
         /\ Revised(q, w).phase = q.phase
         /\ Revised(q, w).stale = q.stale \ w
         /\ Revised(q, w).eligible = q.eligible
         /\ q.pinned => q.eligible \cap w \subseteq Revised(q, w).changed
BY DEF Revised, Resumes

\* A request or decision that cannot do anything is typed and safe.
LEMMA ClosedSafe ==
  ASSUME NEW is
  PROVE  /\ Closed \in Resumes /\ ResumeSafe(Closed, is)
         /\ NoResume \in Resumes /\ ResumeSafe(NoResume, is)
BY DEF Closed, NoResume, Resumes, Modes, ResumeSafe

\* After any commit the requests are still safe, and the older decisions are
\* outdated. (apply_resume_decision)
LEMMA AgedSafe ==
  ASSUME NEW q \in Resumes, NEW is, NEW w, Rewrites(is, w), ResumeSafe(q, items)
  PROVE  Aged(q, w) \in Resumes /\ ResumeSafe(Aged(q, w), is)
<1>1. CASE q.phase = "requested"
  <2>1. Aged(q, w) = Revised(q, w)
    BY <1>1 DEF Aged
  <2>2. \A i \in q.stale \ w : is[i].status = "running" => is[i].lease = "stale"
    BY <1>1 DEF ResumeSafe, Rewrites, Resumes
  <2>3. /\ Revised(q, w) \in Resumes
        /\ Revised(q, w).phase = "requested"
        /\ Revised(q, w).stale = q.stale \ w
    BY <1>1, RevisedTyped DEF Rewrites
  <2> QED
    BY <2>1, <2>2, <2>3 DEF ResumeSafe
<1>2. CASE q.phase = "decided"
  BY <1>2, ClosedSafe DEF Aged
<1>3. CASE q.phase \notin {"requested", "decided"}
  BY <1>3 DEF Aged, ResumeSafe
<1> QED
  BY <1>1, <1>2, <1>3

\* A decision finds eligible only targets, and of the running ones only those
\* whose lease was stale when the resume was requested. (evaluate_resume_request)
LEMMA DecideSafe ==
  ASSUME NEW q \in Resumes, q.phase = "requested", ResumeSafe(q, items)
  PROVE  /\ Decide(q) \in Resumes
         /\ Decide(q).phase \in {"decided", "closed"}
         /\ Decide(q).phase = "decided" => Decide(q).pinned = q.pinned
         /\ \A i \in Decide(q).eligible :
              items[i].status = "running" => items[i].lease = "stale"
<1>1. Eligible(q, items) \in SUBSET Items
  BY DEF Eligible, Resumes
<1>2. \A i \in Eligible(q, items) : items[i].status = "running" => items[i].lease = "stale"
  BY DEF Eligible, ResumeSafe
<1>3. CASE Eligible(q, items) = {}
  BY <1>3, ClosedSafe DEF Decide, Closed, NoResume
<1>4. CASE Eligible(q, items) # {}
  <2>1. Decide(q) = [NoResume EXCEPT !.phase = "decided", !.pinned = q.pinned,
                                     !.eligible = Eligible(q, items)]
    BY <1>4 DEF Decide
  <2>2. /\ Decide(q) \in Resumes
        /\ Decide(q).phase = "decided"
        /\ Decide(q).pinned = q.pinned
        /\ Decide(q).eligible = Eligible(q, items)
    BY <1>1, <2>1 DEF NoResume, Resumes, Modes
  <2> QED
    BY <1>2, <2>2
<1> QED
  BY <1>3, <1>4

\* A decision made while the commit publishes is safe when the request pins the
\* revisions: the items it judged too early are those it pins. (evaluate_resume_request)
LEMMA TornSafe ==
  ASSUME NEW q \in Resumes, q.phase = "requested", ResumeSafe(q, items),
         q.pinned \in TornEvaluations, NEW is, NEW w, Rewrites(is, w)
  PROVE  TornDecision(q, w) \in Resumes /\ ResumeSafe(TornDecision(q, w), is)
<1>1. CASE Eligible(q, items) = {}
  BY <1>1, ClosedSafe DEF TornDecision
<1>2. CASE Eligible(q, items) # {}
  <2>1. TornDecision(q, w) = Revised(Decide(q), w)
    BY <1>2 DEF TornDecision
  <2>2. Decide(q) \in Resumes /\ Decide(q).phase = "decided" /\ Decide(q).pinned = q.pinned
    <3>1. Decide(q).phase = "decided"
      BY <1>2 DEF Decide, NoResume
    <3> QED
      BY <3>1, DecideSafe
  <2>3. /\ TornDecision(q, w) \in Resumes
        /\ TornDecision(q, w).phase = "decided"
        /\ TornDecision(q, w).eligible = Decide(q).eligible
        /\ q.pinned => Decide(q).eligible \cap w \subseteq TornDecision(q, w).changed
    BY <2>1, <2>2, RevisedTyped DEF Rewrites
  <2>4. ASSUME TornEvaluations \subseteq {TRUE},
               NEW i \in TornDecision(q, w).eligible \ TornDecision(q, w).changed,
               is[i].status = "running"
        PROVE  is[i].lease = "stale"
    <3>1. q.pinned
      BY <2>4
    <3>2. i \in Decide(q).eligible \ w
      BY <2>3, <2>4, <3>1
    <3>3. i \in Items /\ is[i] = items[i]
      BY <2>2, <3>2 DEF Resumes, Rewrites
    <3> QED
      BY <2>4, <3>2, <3>3, DecideSafe
  <2> QED
    BY <2>3, <2>4 DEF ResumeSafe
<1> QED
  BY <1>1, <1>2

\* What a commit does to the three kinds of files. (run_task_transaction)
LEMMA CommitEffect ==
  ASSUME IInv, NEW t \in TaskSnapshot, NEW is, NEW w, Rewrites(is, w), Commit(t, is, w)
  PROVE  /\ items' = is
         /\ task' \in TaskSnapshot
         /\ task'.status = t.status /\ task'.type = t.type /\ task'.started = t.started
         /\ TaskValid(task', is)
         /\ TypeOK'
         /\ \A r \in Requests : ResumeSafe(resume[r], items)'
<1> DEFINE aged == [r \in Requests |-> Aged(resume[r], w)]
<1>1. items' = is /\ task' = Aggregate(t, is) /\ TaskValid(task', is)
  BY DEF Commit
<1>2. \A r \in Requests : resume[r] \in Resumes /\ ResumeSafe(resume[r], items)
  BY DEF IInv, TypeOK
<1>3. \A r \in Requests : aged[r] \in Resumes /\ ResumeSafe(aged[r], is)
  BY <1>2, AgedSafe
<1>4. \A r \in Requests : resume'[r] \in Resumes /\ ResumeSafe(resume'[r], is)
  <2>1. CASE resume' = aged
    BY <2>1, <1>3
  <2>2. ASSUME NEW r \in Requests, resume[r].phase = "requested",
               resume[r].pinned \in TornEvaluations,
               resume' = [aged EXCEPT ![r] = TornDecision(resume[r], w)]
        PROVE  \A x \in Requests : resume'[x] \in Resumes /\ ResumeSafe(resume'[x], is)
    <3>1. TornDecision(resume[r], w) \in Resumes /\ ResumeSafe(TornDecision(resume[r], w), is)
      BY <1>2, <2>2, TornSafe
    <3> QED
      BY <1>3, <2>2, <3>1
  <2> QED
    BY <2>1, <2>2 DEF Commit
<1>5. \E f : resume' = [r \in Requests |-> f[r]]
  BY DEF Commit
<1>6. resume' \in [Requests -> Resumes]
  BY <1>4, <1>5
<1> QED
  BY <1>1, <1>4, <1>6, AggregateKeeps DEF TypeOK, Rewrites

----------------------------------------------------------------------------
(* Steps of an item. *)

\* How an item may change in one step.
ItemMove(type, old, new) ==
  /\ new \in ItemSnapshot
  /\ ItemSound(type, new)
  /\ old.status \notin Settled
  /\ old.error = "unknown" =>
       new.status # "running" /\ (new.error = "unknown" \/ new.status = "manual_review")
  /\ TornEvaluations \subseteq {TRUE} =>
       (old.status = "running" /\ old.lease = "fresh" /\ new.status = "pending"
          => new.stage # old.stage)
  /\ Outputs \subseteq {TRUE} => ItemValid(type, new)

\* Every item operation is a commit of one item that moves. (PipelineTaskManager)
LEMMA ItemOperation ==
  ASSUME IInv, NEW i \in Items, ItemStep(i), ~LeaseExpires(i)
  PROVE  \E new : CommitItem(i, new) /\ ItemMove(task.type, items[i], new)
<1> DEFINE old  == items[i]
           type == task.type
<1>1. /\ old \in ItemSnapshot /\ ItemSound(type, old) /\ MaxAttempts \in Nat
      /\ type \in {"evidence", "scoring"}
  BY AttemptsAssumption DEF IInv, TypeOK, TaskSnapshot
<1>2. ASSUME NEW new, CommitItem(i, new)
      PROVE  ItemValid(type, old)
  BY <1>2 DEF CommitItem, Commit, ItemsReadable
<1> USE <1>1 DEF ItemMove
<1>3. CASE HeartbeatItem(i)
  <2> DEFINE new == [old EXCEPT !.lease = "fresh"]
  <2>1. CommitItem(i, new) /\ old.status = "running"
    BY <1>3 DEF HeartbeatItem
  <2>2. ItemMove(type, old, new)
    BY <1>2, <2>1 DEF ItemSnapshot, ItemSound, ItemValid, Settled
  <2> QED
    BY <2>1, <2>2
<1>4. CASE StartItemStage(i)
  <2> DEFINE new == [old EXCEPT !.status = "running", !.attempts = @ + 1,
                      !.lease = "fresh", !.retryable = FALSE, !.error = "none"]
  <2>1. /\ CommitItem(i, new) /\ old.status \in {"pending", "failed"}
        /\ old.attempts + 1 <= MaxAttempts
        /\ type = "scoring" => old.error # "unknown"
    BY <1>4 DEF StartItemStage
  <2>3. old.attempts + 1 \in 0 .. MaxAttempts
    BY <2>1 DEF ItemSnapshot
  <2>2. ItemMove(type, old, new)
    BY <1>2, <2>1, <2>3 DEF ItemSnapshot, ItemSound, ItemValid, Settled
  <2> QED
    BY <2>1, <2>2
<1>5. ASSUME NEW output \in Outputs, CompleteItemStage(i, output)
      PROVE  \E new : CommitItem(i, new) /\ ItemMove(type, old, new)
  <2>1. old.status = "running" /\ output \in BOOLEAN
    BY <1>5, BooleansAssumption DEF CompleteItemStage
  <2> DEFINE first == [Leaving(old, "pending") EXCEPT !.stage = "validate"]
  <2>2. CASE old.stage = "import" /\ CommitItem(i, first)
    <3>0. ItemValid(type, old) /\ type = "evidence"
      <4>1. ItemValid(type, old)
        BY <1>2, <2>2
      <4>2. "import" \in {StagesOf(type)[n] : n \in DOMAIN StagesOf(type)}
        BY <2>2, <4>1 DEF ItemValid
      <4> QED
        BY <4>1, <4>2, StagesInScope
    <3>2. "validate" \in {StagesOf(type)[n] : n \in DOMAIN StagesOf(type)}
      BY <3>0, StagesInScope
    <3>3. first = [old EXCEPT !.status = "pending", !.lease = "none", !.stage = "validate"]
      BY DEF Leaving
    <3>4. first \in ItemSnapshot
      BY <3>3 DEF ItemSnapshot, StageNames
    <3>5. ItemValid(type, first)
      BY <3>0, <3>2, <3>3 DEF ItemValid, ItemSnapshot
    <3>1. ItemMove(type, old, first)
      BY <2>1, <2>2, <3>3, <3>4, <3>5 DEF ItemSnapshot, ItemSound, Settled
    <3> QED
      BY <2>2, <3>1
  <2> DEFINE second == [Leaving(old, "manual_review") EXCEPT !.error = "ordinary"]
  <2>3. CASE CommitItem(i, second)
    <3>1. ItemMove(type, old, second)
      BY <1>2, <2>1, <2>3
         DEF ItemSnapshot, ItemSound, ItemValid, Settled, Leaving
    <3> QED
      BY <2>3, <3>1
  <2> DEFINE third == [Leaving(old, "completed") EXCEPT !.output = output]
  <2>4. CASE CommitItem(i, third)
    <3>1. ItemMove(type, old, third)
      BY <1>2, <2>1, <2>4
         DEF ItemSnapshot, ItemSound, ItemValid, Settled, Leaving
    <3> QED
      BY <2>4, <3>1
  <2> QED
    BY <1>5, <2>2, <2>3, <2>4 DEF CompleteItemStage
<1>6. CASE CompleteScoringItemStage(i)
  <2>1. old.status = "running" /\ type = "scoring"
    BY <1>6 DEF CompleteScoringItemStage
  <2> DEFINE first == [Leaving(old, "pending") EXCEPT !.stage = "review"]
  <2>2. CASE old.stage = "score" /\ CommitItem(i, first)
    <3>1. ItemMove(type, old, first)
      BY <1>2, <2>1, <2>2, StagesInScope
         DEF ItemSnapshot, ItemSound, ItemValid, Settled, Leaving, StageNames
    <3> QED
      BY <2>2, <3>1
  <2> DEFINE second == [Leaving(old, "pending") EXCEPT !.stage = "export", !.decided = TRUE]
  <2>3. CASE old.stage = "review" /\ CommitItem(i, second)
    <3>1. ItemMove(type, old, second)
      BY <1>2, <2>1, <2>3, StagesInScope
         DEF ItemSnapshot, ItemSound, ItemValid, Settled, Leaving, StageNames
    <3> QED
      BY <2>3, <3>1
  <2> DEFINE third == [Leaving(old, "completed") EXCEPT !.output = TRUE]
  <2>4. CASE CommitItem(i, third)
    <3>1. ItemMove(type, old, third)
      BY <1>2, <2>1, <2>4
         DEF ItemSnapshot, ItemSound, ItemValid, Settled, Leaving
    <3> QED
      BY <2>4, <3>1
  <2> QED
    BY <1>6, <2>2, <2>3, <2>4 DEF CompleteScoringItemStage
<1>7. CASE ResetScoringItem(i)
  <2> DEFINE new == [Leaving(old, "pending") EXCEPT !.retryable = FALSE]
  <2>1. /\ CommitItem(i, new) /\ old.status \in {"running", "failed"}
        /\ old.status = "running" => old.lease = "stale"
    BY <1>7 DEF ResetScoringItem
  <2>2. ItemMove(type, old, new)
    BY <1>2, <2>1 DEF ItemSnapshot, ItemSound, ItemValid, Settled, Leaving
  <2> QED
    BY <2>1, <2>2
<1>8. ASSUME NEW retryable \in BOOLEAN, NEW error \in {"ordinary", "unknown"},
             FailItem(i, retryable, error)
      PROVE  \E new : CommitItem(i, new) /\ ItemMove(type, old, new)
  <2> DEFINE new == [Leaving(old, "failed") EXCEPT !.retryable = retryable, !.error = error]
  <2>1. /\ CommitItem(i, new) /\ old.status = "running"
        /\ error = "unknown" => type = "scoring"
    BY <1>8 DEF FailItem
  <2>2. ItemMove(type, old, new)
    BY <1>2, <2>1 DEF ItemSnapshot, ItemSound, ItemValid, Settled, Leaving
  <2> QED
    BY <2>1, <2>2
<1>9. CASE SendItemToManualReview(i)
  <2> DEFINE new == [Leaving(old, "manual_review") EXCEPT !.error = "ordinary"]
  <2>1. CommitItem(i, new) /\ old.status \in {"pending", "running", "failed"}
    BY <1>9 DEF SendItemToManualReview
  <2>2. ItemMove(type, old, new)
    BY <1>2, <2>1 DEF ItemSnapshot, ItemSound, ItemValid, Settled, Leaving
  <2> QED
    BY <2>1, <2>2
<1>10. CASE SkipItem(i)
  <2> DEFINE new == Leaving(old, "skipped")
  <2>1. CommitItem(i, new) /\ old.status \in {"pending", "failed"}
    BY <1>10 DEF SkipItem
  <2>2. ItemMove(type, old, new)
    BY <1>2, <2>1 DEF ItemSnapshot, ItemSound, ItemValid, Settled, Leaving
  <2> QED
    BY <2>1, <2>2
<1> QED
  BY <1>3, <1>4, <1>5, <1>6, <1>7, <1>8, <1>9, <1>10 DEF ItemStep

\* A lease that runs out touches nothing the task is judged by. (_is_stale)
LEMMA LeaseImmaterial ==
  ASSUME NEW t, NEW is, NEW js,
         \A i \in Items : js[i].status = is[i].status /\ js[i].stage = is[i].stage
  PROVE  /\ TaskValid(t, is) => TaskValid(t, js)
         /\ SettledStatus(js) = SettledStatus(is)
         /\ IsSettled(js) <=> IsSettled(is)
<1>1. \A st : With(js, st) = With(is, st)
  BY DEF With
<1>2. \A sg : StatusesAt(js, sg) = StatusesAt(is, sg)
  <2> TAKE sg
  <2>1. {j \in Items : js[j].stage = sg} = {j \in Items : is[j].stage = sg}
    OBVIOUS
  <2> QED
    BY <2>1 DEF StatusesAt
<1>3. ASSUME NEW sg
      PROVE  ScoringStageStatus(js, sg) = ScoringStageStatus(is, sg)
  <2>1. \A i \in Items : Before(js[i].stage) = Before(is[i].stage)
    OBVIOUS
  <2>2. (\E i \in Items : sg \in Before(js[i].stage))
          <=> (\E i \in Items : sg \in Before(is[i].stage))
    BY <2>1
  <2>3. StatusesAt(js, sg) = StatusesAt(is, sg)
    BY <1>2
  <2> QED
    BY <2>2, <2>3 DEF ScoringStageStatus
<1>5. IsSettled(js) <=> IsSettled(is)
  BY <1>1 DEF IsSettled
<1>6. ScoringTaskValid(t, is) => ScoringTaskValid(t, js)
  BY <1>3 DEF ScoringTaskValid
<1> QED
  BY <1>1, <1>5, <1>6 DEF TaskValid, SettledStatus

----------------------------------------------------------------------------
(* Steps of the whole task. *)

\* An item operation keeps the invariant. (_apply_item_transition)
LEMMA ItemCommitInv ==
  ASSUME IInv, NEW i \in Items, NEW new, CommitItem(i, new), ItemMove(task.type, items[i], new)
  PROVE  /\ IInv'
         /\ items' = [items EXCEPT ![i] = new]
         /\ task'.type = task.type /\ task'.status = task.status
<1> DEFINE is == [items EXCEPT ![i] = new]
<1>1. task \in TaskSnapshot /\ items \in [Items -> ItemSnapshot] /\ new \in ItemSnapshot
  BY DEF IInv, TypeOK, ItemMove
<1>2. Rewrites(is, {i}) /\ Commit(task, is, {i}) /\ task.status \in OpenTask
  BY <1>1 DEF Rewrites, CommitItem
<1> HIDE DEF is
<1>3. /\ items' = is /\ TaskValid(task', is) /\ TypeOK'
      /\ task'.status = task.status /\ task'.type = task.type
      /\ \A r \in Requests : ResumeSafe(resume[r], items)'
  BY <1>1, <1>2, CommitEffect
<1>4. \A j \in Items : ItemSound(task'.type, items'[j])
  BY <1>1, <1>3 DEF IInv, ItemMove, is
<1>5. task'.status \notin Terminal
  BY <1>2, <1>3 DEF OpenTask, Terminal
<1> QED
  BY <1>3, <1>4, <1>5 DEF IInv, TaskInv, is

\* Starting, pausing and finalizing change no item. (start_task, pause_task,
\* finalize_task_if_settled)
LEMMA TaskOperationInv ==
  ASSUME IInv, StartTask \/ PauseTask \/ FinalizeTask
  PROVE  /\ IInv'
         /\ items' = items /\ task'.type = task.type
         /\ task.status \in Terminal => task'.status = task.status
<1>1. task \in TaskSnapshot /\ items \in [Items -> ItemSnapshot]
  BY DEF IInv, TypeOK
<1>2. Rewrites(items, {})
  BY <1>1 DEF Rewrites
<1>3. ASSUME NEW t \in TaskSnapshot, Commit(t, items, {}), t.type = task.type,
             t.status \in Terminal => t.status = SettledStatus(items)
      PROVE  IInv' /\ items' = items /\ task'.type = task.type /\ task'.status = t.status
  <2>1. /\ items' = items /\ TaskValid(task', items) /\ TypeOK'
        /\ task'.status = t.status /\ task'.type = t.type
        /\ \A r \in Requests : ResumeSafe(resume[r], items)'
    BY <1>2, <1>3, CommitEffect
  <2> QED
    BY <1>3, <2>1 DEF IInv, TaskInv, SettledStatus
<1>4. CASE StartTask
  <2> DEFINE t == [task EXCEPT !.status = "running", !.started = TRUE]
  <2>1. t \in TaskSnapshot /\ t.type = task.type /\ t.status \notin Terminal
    BY <1>1 DEF TaskSnapshot, OpenTask, Terminal
  <2>2. Commit(t, items, {}) /\ task.status \notin Terminal
    BY <1>4 DEF StartTask, Terminal
  <2> QED
    BY <1>3, <2>1, <2>2
<1>5. CASE PauseTask
  <2> DEFINE t == [task EXCEPT !.status = "paused"]
  <2>1. t \in TaskSnapshot /\ t.type = task.type /\ t.status \notin Terminal
    BY <1>1 DEF TaskSnapshot, OpenTask, Terminal
  <2>2. Commit(t, items, {}) /\ task.status \notin Terminal
    BY <1>5 DEF PauseTask, Terminal
  <2> QED
    BY <1>3, <2>1, <2>2
<1>6. CASE FinalizeTask
  <2> DEFINE t == [task EXCEPT !.status = SettledStatus(items), !.stage = NoStage]
  <2>1. SettledStatus(items) \in Terminal
    BY DEF SettledStatus, Terminal
  <2>2. t \in TaskSnapshot /\ t.type = task.type /\ t.status = SettledStatus(items)
    BY <1>1, <2>1 DEF TaskSnapshot
  <2>3. Commit(t, items, {})
    BY <1>6 DEF FinalizeTask
  <2>4. task.status \in Terminal => task.status = SettledStatus(items)
    BY DEF IInv, TaskInv
  <2> QED
    BY <1>3, <2>2, <2>3, <2>4
<1> QED
  BY <1>4, <1>5, <1>6

\* Applying a decision moves only waiting items and running ones without a
\* live lease, and never changes a closed task. (apply_resume_decision)
LEMMA ApplyInv ==
  ASSUME IInv, NEW r \in Requests, ApplyResumeDecision(r)
  PROVE  /\ IInv'
         /\ \A i \in Items : items'[i] = items[i] \/ ItemMove(task.type, items[i], items'[i])
         /\ task'.type = task.type
         /\ task.status \notin Terminal
<1> DEFINE q     == resume[r]
           moved == {i \in q.eligible : items[i].status \in {"failed", "running"}}
           back  == [i \in Items |->
                       [Leaving(items[i], "pending") EXCEPT !.retryable = FALSE]]
           new   == [i \in Items |-> IF i \in moved
                      THEN [Leaving(items[i], "pending") EXCEPT !.retryable = FALSE]
                      ELSE items[i]]
           t     == [task EXCEPT !.status = IF @ = "paused" THEN "running" ELSE @]
<1>1. task \in TaskSnapshot /\ items \in [Items -> ItemSnapshot] /\ q \in Resumes
  BY DEF IInv, TypeOK
<1>2. /\ q.phase = "decided" /\ q.eligible \cap q.changed = {}
      /\ moved # {} \/ task.status = "paused"
      /\ Commit(t, new, moved)
  BY DEF ApplyResumeDecision
<1>3. moved \subseteq Items
  BY <1>1 DEF Resumes
<1>4. \A i \in moved :
        back[i] = [items[i] EXCEPT !.status = "pending", !.lease = "none", !.retryable = FALSE]
  BY <1>3 DEF Leaving
<1>5. \A i \in Items : new[i] \in ItemSnapshot
  <2>1. \A i \in moved : back[i] \in ItemSnapshot
    <3> TAKE i \in moved
    <3>1. items[i] \in ItemSnapshot
      BY <1>1, <1>3
    <3>2. back[i] = [items[i] EXCEPT !.status = "pending", !.lease = "none",
                                     !.retryable = FALSE]
      BY <1>4
    <3> HIDE DEF back
    <3> QED
      BY <3>1, <3>2 DEF ItemSnapshot
  <2>2. \A i \in Items : new[i] = IF i \in moved THEN back[i] ELSE items[i]
    OBVIOUS
  <2> QED
    BY <1>1, <2>1, <2>2
<1>6. Rewrites(new, moved) /\ t \in TaskSnapshot /\ t.type = task.type
  BY <1>1, <1>3, <1>5 DEF Rewrites, TaskSnapshot, OpenTask
<1> HIDE DEF new, t, moved
<1>7. /\ items' = new /\ TaskValid(task', new) /\ TypeOK'
      /\ task'.status = t.status /\ task'.type = t.type
      /\ \A x \in Requests : ResumeSafe(resume[x], items)'
  BY <1>2, <1>6, CommitEffect
<1> USE DEF new, t, moved
<1>8. task.status \notin Terminal
  <2> SUFFICES ASSUME task.status \in Terminal PROVE FALSE
    OBVIOUS
  <2>1. t.status = task.status /\ moved # {}
    BY <1>1, <1>2 DEF TaskSnapshot, Terminal
  <2>2. PICK i \in moved : TRUE
    BY <2>1
  <2>3. i \in Items /\ new[i].status = "pending"
    <3>1. items[i] \in ItemSnapshot /\ i \in Items
      BY <1>1, <1>3, <2>2
    <3> QED
      BY <1>4, <2>2, <3>1 DEF ItemSnapshot
  <2>4. ~IsSettled(new)
    BY <2>3 DEF IsSettled, With
  <2> QED
    BY <1>7, <2>1, <2>4 DEF TaskValid, Terminal
<1>9. \A i \in moved : ItemMove(task.type, items[i], new[i])
  <2> TAKE i \in moved
  <2>1. /\ i \in Items /\ items[i] \in ItemSnapshot /\ ItemSound(task.type, items[i])
        /\ new[i] \in ItemSnapshot
        /\ items[i].status \in {"failed", "running"}
        /\ new[i] = [items[i] EXCEPT !.status = "pending", !.lease = "none", !.retryable = FALSE]
    BY <1>1, <1>3, <1>4, <1>5 DEF IInv
  <2>2. ItemValid(task.type, items[i])
    BY <1>2, <2>1 DEF Commit, ItemsReadable
  <2>3. ItemValid(task.type, new[i]) /\ ItemSound(task.type, new[i])
    BY <2>1, <2>2 DEF ItemValid, ItemSound, ItemSnapshot
  <2>4. TornEvaluations \subseteq {TRUE} =>
          (items[i].status = "running" => items[i].lease = "stale")
    BY <1>2 DEF IInv, ResumeSafe
  <2> QED
    BY <2>1, <2>3, <2>4 DEF ItemMove, ItemSnapshot, Settled, ItemSound
<1>10. \A i \in Items : ItemSound(task'.type, items'[i])
  BY <1>6, <1>7, <1>9 DEF ItemMove, IInv
<1>11. task'.status \notin Terminal
  BY <1>1, <1>7, <1>8 DEF TaskSnapshot, Terminal
<1> QED
  BY <1>6, <1>7, <1>8, <1>9, <1>10, <1>11 DEF IInv, TaskInv
\* 300 seconds without a heartbeat cost an item its lease and nothing else.
\* (_is_stale)
LEMMA LeaseExpiryInv ==
  ASSUME IInv, NEW i \in Items, LeaseExpires(i)
  PROVE  /\ IInv'
         /\ task' = task
         /\ items[i].lease = "fresh"
         /\ items' = [items EXCEPT ![i] = [items[i] EXCEPT !.lease = "stale"]]
<1> DEFINE new == [items[i] EXCEPT !.lease = "stale"]
<1>1. /\ task' = task /\ resume' = resume
      /\ items[i].lease = "fresh"
      /\ items' = [items EXCEPT ![i] = new]
  BY DEF LeaseExpires
<1>2. /\ task \in TaskSnapshot /\ items \in [Items -> ItemSnapshot]
      /\ resume \in [Requests -> Resumes]
      /\ \A j \in Items : ItemSound(task.type, items[j])
  BY DEF IInv, TypeOK
<1>3. new \in ItemSnapshot /\ ItemSound(task.type, new)
  <2>1. items[i] \in ItemSnapshot /\ ItemSound(task.type, items[i])
    BY <1>2
  <2> QED
    BY <1>1, <2>1 DEF ItemSnapshot, ItemSound
<1>4. new.status = items[i].status /\ new.stage = items[i].stage /\ new.lease = "stale"
  <2>1. items[i] \in ItemSnapshot
    BY <1>2
  <2> QED
    BY <2>1 DEF ItemSnapshot
<1> HIDE DEF new
<1>5. items' \in [Items -> ItemSnapshot] /\ \A j \in Items : ItemSound(task'.type, items'[j])
  BY <1>1, <1>2, <1>3
<1>6. \A j \in Items : /\ items'[j].status = items[j].status
                       /\ items'[j].stage = items[j].stage
                       /\ items[j].lease = "stale" => items'[j].lease = "stale"
  BY <1>1, <1>2, <1>4
<1>7. TaskInv'
  <2>1. TaskValid(task, items') /\ SettledStatus(items') = SettledStatus(items)
    BY <1>6, LeaseImmaterial DEF IInv, TaskInv
  <2> QED
    BY <1>1, <2>1 DEF IInv, TaskInv
<1>8. \A r \in Requests : ResumeSafe(resume'[r], items')
  <2> TAKE r \in Requests
  <2>1. resume[r] \in Resumes /\ ResumeSafe(resume[r], items)
    BY <1>2 DEF IInv
  <2> QED
    BY <1>1, <1>6, <2>1 DEF ResumeSafe, Resumes
<1> QED
  BY <1>1, <1>2, <1>5, <1>7, <1>8 DEF IInv, TypeOK, new

\* Asking for a resume and deciding on it touch neither the task nor its items.
\* (create_resume_request, evaluate_resume_request)
LEMMA RequestInv ==
  ASSUME IInv, NEW r \in Requests,
         EvaluateResumeRequest(r)
           \/ \E mode \in Modes, targets \in SUBSET Items \ {{}}, pinned \in Pins :
                CreateResumeRequest(r, mode, targets, pinned)
  PROVE  IInv' /\ task' = task /\ items' = items
<1>1. resume \in [Requests -> Resumes] /\ \A x \in Requests : ResumeSafe(resume[x], items)
  BY DEF IInv, TypeOK
<1>2. ASSUME NEW q \in Resumes, ResumeSafe(q, items), resume' = [resume EXCEPT ![r] = q],
             UNCHANGED <<task, items>>
      PROVE  IInv' /\ task' = task /\ items' = items
  <2>1. resume' \in [Requests -> Resumes] /\ \A x \in Requests : ResumeSafe(resume'[x], items)
    BY <1>1, <1>2
  <2> QED
    BY <1>2, <2>1 DEF IInv, TypeOK, TaskInv
<1>3. CASE EvaluateResumeRequest(r)
  <2>1. /\ resume[r].phase = "requested" /\ UNCHANGED <<task, items>>
        /\ resume' = [resume EXCEPT ![r] = Decide(resume[r])]
    BY <1>3 DEF EvaluateResumeRequest
  <2>2. /\ Decide(resume[r]) \in Resumes
        /\ Decide(resume[r]).phase \in {"decided", "closed"}
        /\ \A i \in Decide(resume[r]).eligible :
             items[i].status = "running" => items[i].lease = "stale"
    BY <1>1, <2>1, DecideSafe
  <2>3. ResumeSafe(Decide(resume[r]), items)
    BY <2>2 DEF ResumeSafe
  <2> QED
    BY <1>2, <2>1, <2>2, <2>3
<1>4. ASSUME NEW mode \in Modes, NEW targets \in SUBSET Items, NEW pinned \in Pins,
             CreateResumeRequest(r, mode, targets, pinned)
      PROVE  IInv' /\ task' = task /\ items' = items
  <2> DEFINE late == {i \in targets : mode = "recover_stale" /\ items[i].lease = "stale"}
             q == [NoResume EXCEPT !.phase = "requested", !.mode = mode, !.targets = targets,
                     !.pinned = pinned, !.stale = late]
  <2>1. late \in SUBSET Items /\ pinned \in BOOLEAN
    BY BooleansAssumption
  <2>2. q \in Resumes /\ q.phase = "requested" /\ q.stale = late
    <3> HIDE DEF late
    <3> QED
      BY <2>1 DEF NoResume, Resumes
  <2>3. ResumeSafe(q, items)
    BY <2>2 DEF ResumeSafe
  <2>4. resume' = [resume EXCEPT ![r] = q] /\ UNCHANGED <<task, items>>
    BY <1>4 DEF CreateResumeRequest
  <2> HIDE DEF q
  <2> QED
    BY <1>2, <2>2, <2>3, <2>4
<1> QED
  BY <1>3, <1>4

----------------------------------------------------------------------------
(* The invariant. *)

\* A new task is pending in its first stage. (create_task, create_scoring_task)
LEMMA InitInv == ASSUME Init PROVE IInv /\ ItemsReadable
<1>0. PICK type \in Types : \E level \in [Items -> LevelsOf(type)] :
        /\ items = [i \in Items |-> NewItem(type, level[i])]
        /\ task = [type |-> type, status |-> "pending", stage |-> StagesOf(type)[1],
                   started |-> FALSE]
  BY DEF Init
<1>1. PICK level \in [Items -> LevelsOf(type)] :
        /\ items = [i \in Items |-> NewItem(type, level[i])]
        /\ task = [type |-> type, status |-> "pending", stage |-> StagesOf(type)[1],
                   started |-> FALSE]
  BY <1>0
<1>2. /\ type \in {"evidence", "scoring"}
      /\ StagesOf(type)[1] \in StageNames
      /\ StagesOf(type)[1] = IF type = "scoring" THEN "score" ELSE "import"
      /\ task.type = type /\ task.status = "pending"
  BY <1>1, TypesAssumption DEF StagesOf, StageNames
<1>3. task \in TaskSnapshot
  BY <1>1, <1>2 DEF TaskSnapshot, OpenTask
<1>4. ASSUME NEW i \in Items
      PROVE  /\ items[i] \in ItemSnapshot
             /\ ItemSound(type, items[i])
             /\ ItemValid(type, items[i])
             /\ items[i].stage = StagesOf(type)[1]
             /\ type = "scoring" => items[i].status = "pending"
  <2>1. /\ level[i] \in {"sufficient", "limited", "manual_only"}
        /\ type = "scoring" => level[i] = "sufficient"
    BY <1>4, LevelsAssumption DEF LevelsOf
  <2>2. items[i] = [level |-> level[i], stage |-> StagesOf(type)[1],
                    status |-> IF level[i] = "manual_only" THEN "manual_review" ELSE "pending",
                    attempts |-> 0, retryable |-> FALSE,
                    error |-> IF level[i] = "manual_only" THEN "ordinary" ELSE "none",
                    lease |-> "none", decided |-> FALSE, output |-> FALSE]
    BY <1>1, <1>4 DEF NewItem
  <2>3. 0 \in 0 .. MaxAttempts /\ 0 <= MaxAttempts
    BY AttemptsAssumption
  <2>4. items[i] \in ItemSnapshot
    <3>1. CASE level[i] = "manual_only"
      BY <1>2, <2>1, <2>2, <2>3, <3>1 DEF ItemSnapshot, Settled
    <3>2. CASE level[i] # "manual_only"
      BY <1>2, <2>1, <2>2, <2>3, <3>2 DEF ItemSnapshot, Settled
    <3> QED
      BY <3>1, <3>2
  <2>5. items[i].stage \in {StagesOf(type)[n] : n \in DOMAIN StagesOf(type)}
    <3>1. items[i].stage = IF type = "scoring" THEN "score" ELSE "import"
      BY <1>2, <2>2
    <3>2. {StagesOf(type)[n] : n \in DOMAIN StagesOf(type)} =
            IF type = "scoring" THEN {"score", "review", "export"} ELSE {"import", "validate"}
      BY StagesInScope
    <3>3. CASE type = "scoring"
      BY <3>1, <3>2, <3>3
    <3>4. CASE type # "scoring"
      BY <3>1, <3>2, <3>4
    <3> QED
      BY <3>3, <3>4
  <2>6. ItemSound(type, items[i]) /\ ItemValid(type, items[i])
    BY <2>2, <2>3, <2>5 DEF ItemSound, ItemValid
  <2> QED
    BY <2>1, <2>2, <2>4, <2>6
<1>5. \A r \in Requests : resume[r] \in Resumes /\ ResumeSafe(resume[r], items)
  BY ClosedSafe DEF Init
<1>6. TypeOK
  BY <1>1, <1>3, <1>4, <1>5 DEF TypeOK, Init
<1>7. type = "scoring" => ScoringTaskValid(task, items)
  <2> SUFFICES ASSUME type = "scoring" PROVE ScoringTaskValid(task, items)
    OBVIOUS
  <2>1. \A i \in Items : items[i].stage = "score" /\ items[i].status = "pending"
    BY <1>2, <1>4
  <2>2. StatusesAt(items, "score") = {"pending"} /\ StatusesAt(items, "review") = {}
        /\ StatusesAt(items, "export") = {}
    BY <2>1, ItemsAssumption DEF StatusesAt
  <2>3. \A s : ~\E i \in Items : s \in Before(items[i].stage)
    BY <2>1 DEF Before
  <2>4. ScoringStageStatus(items, "review") = "not_started"
        /\ ScoringStageStatus(items, "export") = "not_started"
    BY <2>2, <2>3 DEF ScoringStageStatus
  <2>5. ScoringStageStatus(items, "score") = "pending"
    <3>1. DOMAIN StatusOrder = 1 .. 4 /\ 1 .. 4 = {1, 2, 3, 4}
      BY DEF StatusOrder
    <3>2. /\ StatusOrder[1] = "running" /\ StatusOrder[2] = "pending"
          /\ StatusOrder[3] = "failed" /\ StatusOrder[4] = "skipped"
      BY DEF StatusOrder
    <3>3. {n \in DOMAIN StatusOrder : StatusOrder[n] \in {"pending"}} = {2}
      BY <3>1, <3>2
    <3>4. Least({2}) = 2
      BY DEF Least
    <3> QED
      BY <2>2, <3>2, <3>3, <3>4 DEF ScoringStageStatus
  <2>6. task.stage = "score"
    BY <1>1, <1>2
  <2> QED
    BY <1>2, <2>4, <2>5, <2>6 DEF ScoringTaskValid
<1>8. TaskInv
  BY <1>1, <1>2, <1>7 DEF TaskInv, TaskValid, Terminal
<1> QED
  BY <1>2, <1>4, <1>5, <1>6, <1>8 DEF IInv, ItemsReadable

\* How one step may change an item: not at all, by an operation, or by losing
\* its lease.
Moves(i) ==
  \/ items'[i] = items[i]
  \/ ItemMove(task.type, items[i], items'[i])
  \/ items[i].lease = "fresh" /\ items'[i] = [items[i] EXCEPT !.lease = "stale"]

\* Every step of the manager keeps the invariant, moves items only in these
\* ways, and changes a closed task in nothing. (PipelineTaskManager)
LEMMA StepInv ==
  ASSUME IInv, [Next]_vars
  PROVE  /\ IInv'
         /\ \A i \in Items : Moves(i)
         /\ task'.type = task.type
         /\ task.status \in Terminal => task'.status = task.status /\ items' = items
<1> DEFINE Goal == /\ IInv'
                   /\ \A i \in Items : Moves(i)
                   /\ task'.type = task.type
                   /\ task.status \in Terminal =>
                        task'.status = task.status /\ items' = items
<1>1. items \in [Items -> ItemSnapshot] /\ \A i \in Items : ItemSound(task.type, items[i])
  BY DEF IInv, TypeOK
<1>2. CASE StartTask \/ PauseTask \/ FinalizeTask
  BY <1>2, TaskOperationInv DEF Moves
<1>3. ASSUME NEW i \in Items, LeaseExpires(i)
      PROVE  Goal
  <2>1. /\ IInv' /\ task' = task /\ items[i].lease = "fresh"
        /\ items' = [items EXCEPT ![i] = [items[i] EXCEPT !.lease = "stale"]]
    BY <1>3, LeaseExpiryInv
  <2>2. task.status \notin Terminal
    <3>1. items[i].status = "running"
      BY <1>1, <2>1 DEF ItemSound
    <3>2. ~IsSettled(items)
      BY <3>1 DEF IsSettled, With
    <3> QED
      BY <3>2 DEF IInv, TaskInv, TaskValid, Terminal
  <2> QED
    BY <1>1, <2>1, <2>2 DEF Moves
<1>4. ASSUME NEW i \in Items, ItemStep(i), ~LeaseExpires(i)
      PROVE  Goal
  <2>1. PICK new : CommitItem(i, new) /\ ItemMove(task.type, items[i], new)
    BY <1>4, ItemOperation
  <2>2. /\ IInv' /\ items' = [items EXCEPT ![i] = new]
        /\ task'.type = task.type /\ task'.status = task.status
    BY <2>1, ItemCommitInv
  <2>3. task.status \notin Terminal
    BY <2>1 DEF CommitItem, OpenTask, Terminal
  <2> QED
    BY <1>1, <2>1, <2>2, <2>3 DEF Moves
<1>5. ASSUME NEW r \in Requests, ResumeStep(r)
      PROVE  Goal
  <2>1. CASE ApplyResumeDecision(r)
    BY <2>1, ApplyInv DEF Moves
  <2>2. CASE EvaluateResumeRequest(r)
             \/ \E mode \in Modes, targets \in SUBSET Items \ {{}}, pinned \in Pins :
                  CreateResumeRequest(r, mode, targets, pinned)
    <3>1. IInv' /\ task' = task /\ items' = items
      BY <2>2, RequestInv
    <3> QED
      BY <3>1 DEF Moves
  <2> QED
    BY <1>5, <2>1, <2>2 DEF ResumeStep
<1>6. CASE UNCHANGED vars
  <2>1. task' = task /\ items' = items /\ resume' = resume
    BY <1>6 DEF vars
  <2> QED
    BY <2>1 DEF IInv, TypeOK, TaskInv, Moves
<1> QED
  BY <1>2, <1>3, <1>4, <1>5, <1>6 DEF Next

\* The inductive invariant holds of the manager. (PipelineTaskManager)
THEOREM Invariance == Spec => []IInv
<1>1. Init => IInv
  BY InitInv
<1>2. IInv /\ [Next]_vars => IInv'
  BY StepInv
<1> QED
  BY <1>1, <1>2, PTL DEF Spec

\* Every snapshot the manager keeps has its type; in particular attempts never
\* exceed the limit. (start_item_stage)
THEOREM TypeCorrect == Spec => []TypeOK
<1>1. IInv => TypeOK
  BY DEF IInv
<1> QED
  BY <1>1, Invariance, PTL

----------------------------------------------------------------------------
(* The properties. *)

\* A started task whose items are all settled can be closed.
\* (finalize_task_if_settled)
THEOREM Finalizable == Spec => []SettledCanFinalize
<1>1. IInv => SettledCanFinalize
  <2> SUFFICES ASSUME IInv, task.started, IsSettled(items)
               PROVE  TaskValid([task EXCEPT !.status = SettledStatus(items),
                                             !.stage = NoStage], items)
    BY DEF SettledCanFinalize
  <2> DEFINE t == [task EXCEPT !.status = SettledStatus(items), !.stage = NoStage]
  <2>1. /\ t.status = SettledStatus(items) /\ t.stage = NoStage
        /\ t.started
    BY DEF IInv, TypeOK, TaskSnapshot
  <2>2. /\ t.status \in {"completed", "completed_with_errors"}
        /\ t.status = "completed" =>
             With(items, "failed") \cup With(items, "manual_review") = {}
        /\ t.status = "completed_with_errors" =>
             With(items, "failed") \cup With(items, "skipped")
               \cup With(items, "manual_review") # {}
    BY <2>1 DEF SettledStatus
  <2>3. ScoringTaskValid(t, items)
    BY <2>1, <2>2 DEF ScoringTaskValid, NoStage
  <2> HIDE DEF t
  <2> QED
    BY <2>1, <2>2, <2>3 DEF TaskValid, t
<1> QED
  BY <1>1, Invariance, PTL

\* A closed task stays as it was closed. (apply_resume_decision)
THEOREM ClosedFrozen == Spec => ClosedTaskFrozen
<1>1. IInv /\ [Next]_vars =>
        [task.status \in Terminal => task'.status = task.status /\ items' = items]_vars
  BY StepInv
<1> QED
  BY <1>1, Invariance, PTL DEF Spec, ClosedTaskFrozen

\* A result that was reached is never replaced. (SUCCESS_RESULT_PROTECTED)
THEOREM ResultsKept == Spec => ResultsProtected
<1>1. IInv /\ [Next]_vars =>
        [\A i \in Items : items[i].status \in Settled => items'[i] = items[i]]_vars
  <2> SUFFICES ASSUME IInv, [Next]_vars, NEW i \in Items, items[i].status \in Settled
               PROVE  items'[i] = items[i]
    OBVIOUS
  <2>1. Moves(i) /\ ItemSound(task.type, items[i])
    BY StepInv DEF IInv
  <2> QED
    BY <2>1 DEF Moves, ItemMove, ItemSound, Settled
<1> QED
  BY <1>1, Invariance, PTL DEF Spec, ResultsProtected

\* An item whose provider call has an unknown outcome is not executed again.
\* (start_item_stage, evaluate_resume_request)
THEOREM UnknownHeld == Spec => UnknownOutcomeHeld
<1> DEFINE Held(i) == items[i].error = "unknown" =>
             /\ items'[i].status # "running"
             /\ items'[i].error = "unknown" \/ items'[i].status = "manual_review"
<1>1. IInv /\ [Next]_vars => [\A i \in Items : Held(i)]_vars
  <2> SUFFICES ASSUME IInv, [Next]_vars, NEW i \in Items, items[i].error = "unknown"
               PROVE  /\ items'[i].status # "running"
                      /\ items'[i].error = "unknown" \/ items'[i].status = "manual_review"
    OBVIOUS
  <2>1. Moves(i) /\ ItemSound(task.type, items[i]) /\ items[i] \in ItemSnapshot
    BY StepInv DEF IInv, TypeOK
  <2> QED
    BY <2>1 DEF Moves, ItemMove, ItemSound, ItemSnapshot
<1> QED
  BY <1>1, Invariance, PTL DEF Spec, UnknownOutcomeHeld

\* When only a request that pins revisions may be judged while a commit is
\* published, no item is put back under a live worker. (apply_resume_decision)
THEOREM LeasesRespected ==
  ASSUME TornEvaluations \subseteq {TRUE}
  PROVE  Spec => LeaseRespected
<1> DEFINE Respected(i) ==
             items[i].status = "running" /\ items[i].lease = "fresh"
               /\ items'[i].status = "pending" => items'[i].stage # items[i].stage
<1>1. IInv /\ [Next]_vars => [\A i \in Items : Respected(i)]_vars
  <2> SUFFICES ASSUME IInv, [Next]_vars, NEW i \in Items,
                      items[i].status = "running", items[i].lease = "fresh",
                      items'[i].status = "pending"
               PROVE  items'[i].stage # items[i].stage
    OBVIOUS
  <2>1. Moves(i) /\ items[i] \in ItemSnapshot
    BY StepInv DEF IInv, TypeOK
  <2> QED
    BY <2>1 DEF Moves, ItemMove, ItemSnapshot
<1> QED
  BY <1>1, Invariance, PTL DEF Spec, LeaseRespected

\* When every caller that completes the last evidence stage hands over an
\* output, whatever is published can be read back. (PipelineItem, PipelineTask)
THEOREM Readable ==
  ASSUME Outputs \subseteq {TRUE}
  PROVE  Spec => []SnapshotsReadable
<1>1. Init => IInv /\ ItemsReadable
  BY InitInv
<1>2. IInv /\ ItemsReadable /\ [Next]_vars => IInv' /\ ItemsReadable'
  <2> SUFFICES ASSUME IInv, ItemsReadable, [Next]_vars, NEW i \in Items
               PROVE  IInv' /\ ItemValid(task'.type, items'[i])
    BY StepInv DEF ItemsReadable
  <2>1. /\ IInv' /\ Moves(i) /\ task'.type = task.type /\ ItemValid(task.type, items[i])
        /\ items[i] \in ItemSnapshot /\ ItemSound(task.type, items[i])
    BY StepInv DEF IInv, TypeOK, ItemsReadable
  <2>2. CASE items'[i] = items[i] \/ ItemMove(task.type, items[i], items'[i])
    BY <2>1, <2>2 DEF ItemMove
  <2>3. CASE items[i].lease = "fresh" /\ items'[i] = [items[i] EXCEPT !.lease = "stale"]
    <3>1. /\ items'[i].stage = items[i].stage /\ items'[i].attempts = items[i].attempts
          /\ items'[i].status = items[i].status /\ items'[i].output = items[i].output
          /\ items'[i].retryable = items[i].retryable /\ items'[i].lease = "stale"
          /\ items[i].status = "running"
      BY <2>1, <2>3 DEF ItemSnapshot, ItemSound
    <3> QED
      BY <2>1, <3>1 DEF ItemValid
  <2> QED
    BY <2>1, <2>2, <2>3 DEF Moves
<1>3. IInv /\ ItemsReadable => SnapshotsReadable
  BY DEF IInv, TaskInv, SnapshotsReadable
<1> QED
  BY <1>1, <1>2, <1>3, PTL DEF Spec

----------------------------------------------------------------------------
(* EvidenceRegistration, for any packages that have the form the models of the *)
(* documents give them, callers and bounds. The inductive invariant.           *)

Held == {"check", "validation", "record", "index", "undo", "undo rest", "audit", "release"}

Writing == {"validation", "record", "index", "undo", "undo rest"}

AuditTypes ==
  {"registration_rejected", "validation_created", "record_created", "record_updated",
   "index_updated", "recovery_performed", "idempotent_hit", "index_rebuilt"}

AuditEvents == [event : AuditTypes, record : Nat \cup {None}]

RegisterCalls ==
  [stage : {"lock"} \cup Held, kind : {"register"}, id : Nat, verdict : Verdicts,
   version : Versions, expected : Nat \cup {None}, old : EvidencePackageRecords \cup {None},
   entries : {<< >>}, pending : Seq(AuditEvents)]

RebuildCall(x) ==
  /\ x = [stage |-> x.stage, kind |-> "rebuild", id |-> x.id, expected |-> x.expected,
          entries |-> x.entries, pending |-> x.pending]
  /\ x.stage \in {"lock", "check", "index", "audit", "release"}
  /\ x.id \in Nat /\ x.pending \in Seq(AuditEvents)

IndexTyped ==
  index # None =>
    /\ index = RegistrationIndex(index.revision, index.entries)
    /\ index.revision \in Nat
    /\ DOMAIN index.entries \subseteq Keys
    /\ index.entries \in [DOMAIN index.entries -> RegistrationEntries]

\* A package with a validation passed it; what a record or an entry points to is
\* of its key, a record may have lost it.
FilesSound ==
  /\ record \in [Keys -> EvidencePackageRecords \cup {None}]
  /\ IndexTyped
  /\ \A i \in DOMAIN validations :
       /\ i \in Nat /\ i <= issued
       /\ validations[i].package \in Packages /\ Passes(validations[i].package)
  /\ \A k \in Recorded :
       /\ record[k].latest <= issued
       /\ record[k].latest \in DOMAIN validations =>
            validations[record[k].latest].package.manifest.key = k
  /\ \A k \in Keys : Listed(k) =>
       /\ index.entries[k].latest \in DOMAIN validations
       /\ validations[index.entries[k].latest].package.manifest.key = k

\* Everything a registration has to leave in the log for a record.
Traced(r, log) ==
  /\ \A type \in {"validation_created", "index_updated"} :
       \E e \in log : e.event = type /\ e.record = r
  /\ \E e \in log : e.event \in {"record_created", "record_updated"} /\ e.record = r

LogSound ==
  /\ audit \subseteq AuditEvents
  /\ \A hit \in audit : hit.event = "idempotent_hit" => Traced(hit.record, audit)

\* A number that no file has yet.
Fresh(c) ==
  /\ 0 < call[c].id /\ call[c].id <= issued
  /\ call[c].stage \in {"lock", "check", "validation"} => call[c].id \notin DOMAIN validations
  /\ call[c].stage \in {"lock", "check", "validation", "record"} =>
       \A k \in Recorded : record[k].latest # call[c].id

\* What a registration knows of the record it began with.
Remembers(c) ==
  call[c].old # None =>
    /\ call[c].old.latest <= issued /\ call[c].old.latest # call[c].id
    /\ call[c].old.manifest = call[c].verdict.package.manifest.sum
    /\ call[c].old.latest \in DOMAIN validations =>
         validations[call[c].old.latest].package.manifest.key = Key(c)

\* A registration that writes: the package may be registered, no entry is about
\* its validation, and the entry of the key, if there is one, has its manifest.
Registers(c) ==
  /\ call[c].verdict.allowed
  /\ Remembers(c)
  /\ \A k \in Keys : Listed(k) => index.entries[k].latest # call[c].id
  /\ (\/ call[c].stage \in {"validation", "record"}
      \/ call[c].stage = "undo rest" /\ call[c].old # None) => record[Key(c)] = call[c].old
  /\ call[c].stage \in {"validation", "record", "index"} /\ Listed(Key(c)) =>
       validations[index.entries[Key(c)].latest].package.manifest.sum
         = call[c].verdict.package.manifest.sum
  /\ call[c].stage \in {"record", "index"} =>
       call[c].id \in DOMAIN validations /\ validations[call[c].id] = Validation(c)
  /\ call[c].stage = "index" => record[Key(c)] = NewRecord(c)

\* A rebuilding that is about to write: the index and the records are as it read them.
Rebuilds(c) ==
  /\ IndexReadable /\ Rebuildable
  /\ call[c].entries = [k \in Recorded |-> Entry(record[k])]

\* An idempotent hit is the last event of a call and comes with what it needs.
Explains(c) ==
  \A i \in DOMAIN call[c].pending : call[c].pending[i].event = "idempotent_hit" =>
    /\ i = Len(call[c].pending)
    /\ Traced(call[c].pending[i].record, audit \cup ToSet(call[c].pending))

CallSound(c) ==
  call[c] # Idle =>
    /\ call[c] \in RegisterCalls \/ RebuildCall(call[c])
    /\ Fresh(c)
    /\ call[c].stage \in Held => lock = c
    /\ call[c].kind = "register" /\ call[c].stage \in Writing => Registers(c)
    /\ call[c].kind = "rebuild" /\ call[c].stage = "index" => Rebuilds(c)
    /\ call[c].stage = "audit" => Explains(c)

\* No two calls have one number, and none has that of a validation to be restored.
Apart(c, d) ==
  /\ call[c].id # call[d].id
  /\ call[d].kind = "register" /\ call[d].stage \in Writing /\ call[d].old # None =>
       call[d].old.latest # call[c].id

\* The record of a key as it is, or as a failing registration would restore it.
Base(k) ==
  IF /\ lock \in Callers
     /\ call[lock].stage \in {"index", "undo", "undo rest"} /\ call[lock].kind = "register"
     /\ k = Key(lock)
  THEN call[lock].old ELSE record[k]

\* A key without a record has no entry; a record has its entry and its validation.
Agreed(k, r) ==
  IF r = None THEN ~Listed(k)
  ELSE /\ Listed(k) /\ index.entries[k] = Entry(r)
       /\ r.latest \in DOMAIN validations
       /\ validations[r.latest].package.manifest.key = k
       /\ validations[r.latest].package.manifest.sum = r.manifest

Counters ==
  /\ torn \in BOOLEAN /\ lock \in Callers \cup {None, Left}
  /\ issued \in Nat /\ faults \in Nat /\ cuts \in Nat
  /\ call = [c \in Callers |-> call[c]]

RegistrationInv ==
  /\ Counters /\ FilesSound /\ LogSound
  /\ \A c \in Callers : CallSound(c)
  /\ \A c, d \in Callers : c # d /\ call[c] # Idle /\ call[d] # Idle => Apart(c, d)
  /\ cuts = 0 => \A k \in Keys : Agreed(k, Base(k))

----------------------------------------------------------------------------
(* The validator. *)

LEMMA NoReport == ASSUME NEW bad, NEW code, Report(bad, code) = {} PROVE ~bad
BY DEF Report

\* A package with no issue has nothing to report at any stage. (validate)
LEMMA PassesStages ==
  ASSUME NEW p, Passes(p)
  PROVE  /\ Boundary(p) = {} /\ PublicationGate(p) = {} /\ SchemaReport(p) = {}
         /\ CrossFile(p) = {} /\ ManifestHash(p) = {} /\ Unregistered(p) = {}
         /\ PrivacyGate(p) = {}
         /\ \A f \in Files(p) : FileIntegrity(p, f) = {}
<1>1. Boundary(p) = {} /\ PublicationGate(p) = {} /\ SchemaReport(p) = {}
  BY DEF Passes, Issues
<1>2. CrossFile(p) \cup ManifestHash(p) \cup (UNION {FileIntegrity(p, f) : f \in Files(p)})
        \cup Unregistered(p) \cup PrivacyGate(p) \cup EvidenceLevel(p) = {}
  BY <1>1 DEF Passes, Issues
<1>3. /\ CrossFile(p) = {} /\ ManifestHash(p) = {} /\ Unregistered(p) = {}
      /\ PrivacyGate(p) = {} /\ (UNION {FileIntegrity(p, f) : f \in Files(p)}) = {}
  BY <1>2
<1>4. \A f \in Files(p) : FileIntegrity(p, f) = {}
  BY <1>3
<1> QED  BY <1>1, <1>3, <1>4

LEMMA PassesDocuments ==
  ASSUME NEW p \in Packages, Passes(p)
  PROVE  /\ p.place = "inside"
         /\ p.evidence.form = "json" /\ p.manifest.form = "json"
         /\ p.evidence.schema = None /\ p.manifest.schema = None
         /\ p.evidence.status = p.manifest.status
         /\ p.evidence.status \in {"ready", "rejected"}
         /\ p.evidence.key = p.manifest.key
         /\ p.evidence.claimed = p.manifest.sum /\ p.manifest.claimed = p.manifest.sum
         /\ p.marker <=> p.evidence.status = "ready"
<1> USE PassesStages
<1>1. p.place = "inside"
  BY NoReport DEF Boundary
<1>2. Formed(p)
  BY PackagesAssumption
<1> DEFINE read == {e \in {p.evidence, p.manifest} : e.form = "json"}
           statuses == {d.status : d \in read}
<1>3. PublicationGate(p)
        = Report(p.evidence.form = "absent", "EVIDENCE_MISSING")
          \cup Report(p.manifest.form = "absent", "MANIFEST_MISSING")
          \cup Report("broken" \in {p.evidence.form, p.manifest.form}, "INVALID_JSON")
          \cup Report("staging" \in statuses, "PACKAGE_NOT_READY")
          \cup Report("ready" \in statuses /\ ~p.marker, "PACKAGE_NOT_READY")
          \cup Report(p.marker /\ statuses # {} /\ "ready" \notin statuses, "PACKAGE_NOT_READY")
  BY DEF PublicationGate
<1>4. /\ p.evidence.form # "absent" /\ p.manifest.form # "absent"
      /\ "broken" \notin {p.evidence.form, p.manifest.form}
      /\ "staging" \notin statuses
      /\ ~("ready" \in statuses /\ ~p.marker)
      /\ ~(p.marker /\ statuses # {} /\ "ready" \notin statuses)
  <2> HIDE DEF read, statuses
  <2>1. /\ Report(p.evidence.form = "absent", "EVIDENCE_MISSING") = {}
        /\ Report(p.manifest.form = "absent", "MANIFEST_MISSING") = {}
        /\ Report("broken" \in {p.evidence.form, p.manifest.form}, "INVALID_JSON") = {}
        /\ Report("staging" \in statuses, "PACKAGE_NOT_READY") = {}
        /\ Report("ready" \in statuses /\ ~p.marker, "PACKAGE_NOT_READY") = {}
        /\ Report(p.marker /\ statuses # {} /\ "ready" \notin statuses, "PACKAGE_NOT_READY") = {}
    BY <1>3
  <2>2. p.evidence.form # "absent" /\ p.manifest.form # "absent"
    BY <2>1, NoReport
  <2>3. "broken" \notin {p.evidence.form, p.manifest.form} /\ "staging" \notin statuses
    BY <2>1, NoReport
  <2>4. ~("ready" \in statuses /\ ~p.marker)
    BY <2>1, NoReport
  <2>5. ~(p.marker /\ statuses # {} /\ "ready" \notin statuses)
    BY <2>1, NoReport
  <2> QED  BY <2>2, <2>3, <2>4, <2>5
<1>5. p.evidence.form = "json" /\ p.manifest.form = "json"
  BY <1>2, <1>4 DEF Formed
<1>6. statuses = {p.evidence.status, p.manifest.status}
  <2>1. read = {p.evidence, p.manifest}
    BY <1>5
  <2> QED  BY <2>1
<1>7. /\ p.evidence.key = p.manifest.key
      /\ p.evidence.claimed = p.manifest.claimed /\ p.evidence.status = p.manifest.status
      /\ p.evidence.privacy = p.manifest.privacy
  BY NoReport DEF CrossFile
<1>8. p.manifest.sum = p.evidence.claimed
  BY NoReport DEF ManifestHash
<1>9. p.evidence.schema = None /\ p.manifest.schema = None
  BY NoReport DEF SchemaReport
<1>10. p.evidence.status \in {"ready", "rejected"}
  <2>1. p.evidence.status # "staging"
    BY <1>4, <1>6
  <2> QED  BY <1>2, <1>5, <2>1 DEF Formed
<1>11. p.marker <=> p.evidence.status = "ready"
  <2> HIDE DEF statuses
  <2>1. statuses = {p.evidence.status}
    BY <1>6, <1>7
  <2>2. p.marker \in BOOLEAN
    BY <1>2 DEF Formed
  <2>3. CASE p.evidence.status = "ready"
    BY <1>4, <2>1, <2>2, <2>3
  <2>4. CASE p.evidence.status # "ready"
    BY <1>4, <2>1, <2>2, <2>4
  <2> QED  BY <2>3, <2>4
<1> QED  BY <1>1, <1>5, <1>7, <1>8, <1>9, <1>10, <1>11

\* What the validator lets through is a package as it is to be, whatever else is
\* wrong with the packages that are handed in. (validate)
LEMMA PassesSound == ASSUME NEW p \in Packages, Passes(p) PROVE Sound(p)
<1>1. Formed(p)
  BY PackagesAssumption
<1>2. /\ p.evidence.privacy.status = "passed" /\ p.manifest.privacy.status = "passed"
      /\ ~p.evidence.privacy.identity /\ ~p.evidence.privacy.raw
      /\ \A f \in Files(p) : ~(f.input /\ f.privacy # "passed")
      /\ \A i \in p.evidence.items : ~(i.input /\ Unapproved(p, i))
  BY PassesStages, NoReport DEF PrivacyGate
<1>3. ASSUME NEW f \in Files(p)
      PROVE  /\ f.path \in DOMAIN p.disk
             /\ p.disk[f.path] = [kind |-> "plain", size |-> f.size, sum |-> f.sum]
  <2>1. FileIntegrity(p, f) = {}
    BY PassesStages
  <2>2. f.path \in DOMAIN p.disk
    BY <2>1 DEF FileIntegrity
  <2>3. Plain(p.disk[f.path])
    BY <2>1, <2>2 DEF FileIntegrity
  <2>4. Report(p.disk[f.path].size # f.size, "FILE_SIZE_MISMATCH")
        \cup Report(p.disk[f.path].sum # f.sum, "HASH_MISMATCH") = {}
    BY <2>1, <2>2, <2>3 DEF FileIntegrity
  <2>5. p.disk[f.path].size = f.size /\ p.disk[f.path].sum = f.sum
    BY <2>4, NoReport
  <2> QED  BY <1>1, <2>2, <2>3, <2>5 DEF Formed, Plain
<1>4. DOMAIN p.disk = {f.path : f \in Files(p)}
  <2> DEFINE listed == {f.path : f \in Files(p)}
             others == DOMAIN p.disk \ listed
             kind(o) == IF Plain(p.disk[o]) THEN "UNREGISTERED_PACKAGE_FILE"
                        ELSE "UNSUPPORTED_FILE_ROLE"
  <2>1. {kind(o) : o \in others} = {}
    BY PassesStages DEF Unregistered
  <2>2. others = {}
    <3> HIDE DEF others, kind
    <3> QED  BY <2>1
  <2>3. listed \subseteq DOMAIN p.disk
    BY <1>3
  <2>4. DOMAIN p.disk = listed
    <3> HIDE DEF listed
    <3> QED  BY <2>2, <2>3
  <2> QED  BY <2>4
<1>5. ASSUME NEW i \in p.evidence.items, i.input, NEW id \in i.sources
      PROVE  \E f \in Files(p) : f.id = id /\ f.input /\ f.privacy = "passed"
  <2>1. PICK n \in Named(p, id) : p.manifest.files[n].input
    BY <1>2, <1>5 DEF Unapproved
  <2>2. p.manifest.files[n] \in Files(p) /\ p.manifest.files[n].id = id
    BY DEF Files, ToSet, Named
  <2> QED  BY <1>2, <2>1, <2>2
<1> HIDE DEF Files
<1> QED  BY <1>2, <1>3, <1>4, <1>5, PassesDocuments DEF Sound

----------------------------------------------------------------------------
(* Facts about the data. *)

Shaped(x) == x \in RegisterCalls \/ RebuildCall(x)

LEMMA NotIdle == \A x : x.stage # "idle" => x # Idle
BY DEF Idle

LEMMA VerdictSound ==
  ASSUME NEW v \in Verdicts, v.allowed
  PROVE  v.package \in Packages /\ Passes(v.package) /\ v.package.manifest.key \in Keys
         /\ v.package.manifest.sum \in Sums
<1>1. PICK p \in Packages : v = Verdict(p)
  BY DEF Verdicts
<1>2. Passes(p) /\ v.package = p
  BY <1>1 DEF Verdict
<1> QED  BY <1>2 DEF Keys, Sums

\* A call that is about something is no idle one, and its stage is a known one.
LEMMA ShapedFacts ==
  ASSUME NEW x, Shaped(x)
  PROVE  /\ x # Idle
         /\ x.stage \in {"lock"} \cup Held /\ x.kind \in {"register", "rebuild"}
         /\ x.kind = "register" => x \in RegisterCalls
         /\ x.kind = "rebuild" => RebuildCall(x)
         /\ x.id \in Nat /\ x.pending \in Seq(AuditEvents)
<1>1. CASE x \in RegisterCalls
  <2>1. /\ x.stage \in {"lock"} \cup Held /\ x.kind = "register"
        /\ x.id \in Nat /\ x.pending \in Seq(AuditEvents)
    BY <1>1 DEF RegisterCalls
  <2>2. x.stage # "idle"
    BY <2>1 DEF Held
  <2>3. x # Idle
    BY <2>2 DEF Idle
  <2> QED  BY <1>1, <2>1, <2>3
<1>2. CASE RebuildCall(x)
  <2>1. /\ x.stage \in {"lock"} \cup Held /\ x.kind = "rebuild"
        /\ x.id \in Nat /\ x.pending \in Seq(AuditEvents)
    <3>1. x.stage \in {"lock", "check", "index", "audit", "release"} /\ x.id \in Nat
          /\ x.pending \in Seq(AuditEvents)
      BY <1>2 DEF RebuildCall
    <3>2. x.kind = "rebuild"
      BY <1>2 DEF RebuildCall
    <3> QED  BY <3>1, <3>2 DEF Held
  <2>2. x.stage # "idle"
    BY <2>1 DEF Held
  <2>3. x # Idle
    BY <2>2 DEF Idle
  <2> QED  BY <1>2, <2>1, <2>3
<1> QED  BY <1>1, <1>2 DEF Shaped

LEMMA RegistrationMoves ==
  ASSUME NEW x \in RegisterCalls, NEW stage \in {"lock"} \cup Held,
         NEW y, y = [x EXCEPT !.stage = stage]
  PROVE  /\ y \in RegisterCalls /\ y.stage = stage /\ y.kind = "register"
         /\ y.id = x.id /\ y.verdict = x.verdict /\ y.version = x.version /\ y.old = x.old
         /\ y.pending = x.pending /\ y.entries = x.entries
BY DEF RegisterCalls

LEMMA RebuildMoves ==
  ASSUME NEW x, RebuildCall(x), NEW stage \in {"lock", "check", "index", "audit", "release"},
         NEW y, y = [x EXCEPT !.stage = stage]
  PROVE  /\ RebuildCall(y) /\ y.stage = stage /\ y.kind = "rebuild"
         /\ y.id = x.id /\ y.pending = x.pending /\ y.entries = x.entries
<1>1. y = [stage |-> stage, kind |-> "rebuild", id |-> x.id, expected |-> x.expected,
           entries |-> x.entries, pending |-> x.pending]
  BY DEF RebuildCall
<1> QED  BY <1>1 DEF RebuildCall

\* What a call goes on with when only its stage changes.
LEMMA GoesFacts ==
  ASSUME Counters, NEW c \in Callers, Shaped(call[c]), NEW stage \in Held, Goes(c, stage),
         call[c].kind = "rebuild" => stage \in {"check", "index", "audit", "release"}
  PROVE  /\ call' = [e \in Callers |-> call'[e]]
         /\ \A d \in Callers : d # c => call'[d] = call[d]
         /\ Shaped(call'[c]) /\ call'[c].stage = stage /\ call'[c].kind = call[c].kind
         /\ call'[c].id = call[c].id /\ call'[c].pending = call[c].pending
         /\ call'[c].entries = call[c].entries
         /\ call[c].kind = "register" =>
              /\ call'[c].verdict = call[c].verdict /\ call'[c].version = call[c].version
              /\ call'[c].old = call[c].old
<1>1. call' = [call EXCEPT ![c] = [call[c] EXCEPT !.stage = stage]]
  BY DEF Goes
<1>2. /\ call' = [e \in Callers |-> call'[e]]
      /\ \A d \in Callers : d # c => call'[d] = call[d]
      /\ call'[c] = [call[c] EXCEPT !.stage = stage]
  BY <1>1 DEF Counters
<1>3. CASE call[c].kind = "register"
  BY <1>2, <1>3, ShapedFacts, RegistrationMoves DEF Shaped
<1>4. CASE call[c].kind = "rebuild"
  BY <1>2, <1>4, ShapedFacts, RebuildMoves DEF Shaped
<1> QED  BY <1>2, <1>3, <1>4, ShapedFacts

\* What was traced stays so.
LEMMA TracedGrows ==
  ASSUME NEW r, NEW log, NEW more, Traced(r, log), log \subseteq more
  PROVE  Traced(r, more)
BY DEF Traced

----------------------------------------------------------------------------
(* The first state, and what a step leaves alone. *)

LEMMA FirstInv == RegistrationInit => RegistrationInv
<1> SUFFICES ASSUME RegistrationInit PROVE RegistrationInv
  OBVIOUS
<1> USE DEF RegistrationInit
<1>1. Counters
  BY RegistrationAssumption DEF Counters
<1>2. DOMAIN validations = {} /\ Recorded = {} /\ \A k \in Keys : ~Listed(k)
  BY DEF Recorded, Listed
<1>3. FilesSound /\ LogSound
  <2>1. record \in [Keys -> EvidencePackageRecords \cup {None}]
    OBVIOUS
  <2> QED  BY <1>2, <2>1 DEF FilesSound, LogSound, IndexTyped
<1>4. \A c \in Callers : call[c] = Idle
  OBVIOUS
<1>5. \A c \in Callers : CallSound(c)
  BY <1>4 DEF CallSound
<1>6. \A k \in Keys : Base(k) = None
  BY RegistrationAssumption DEF Base
<1>7. \A k \in Keys : Agreed(k, Base(k))
  BY <1>2, <1>6 DEF Agreed
<1> QED  BY <1>1, <1>3, <1>4, <1>5, <1>7 DEF RegistrationInv

OnDisk == <<record, validations, index>>

\* Files that are not written are as they were for every reader.
LEMMA ReadersSame ==
  ASSUME UNCHANGED OnDisk
  PROVE  /\ Recorded' = Recorded /\ IndexReadable' = IndexReadable /\ Rebuildable' = Rebuildable
         /\ \A k : Listed(k)' = Listed(k)
         /\ \A k, r : Agreed(k, r)' = Agreed(k, r)
BY DEF OnDisk, Recorded, IndexReadable, Rebuildable, Listed, EntryHolds, Validated, Agreed, Entry

LEMMA FilesSame ==
  ASSUME FilesSound, UNCHANGED OnDisk, issued \in Nat, issued' \in {issued, issued + 1}
  PROVE  FilesSound'
<1>1. IndexTyped'
  BY DEF FilesSound, IndexTyped, OnDisk
<1>2. record' = record /\ validations' = validations /\ index' = index
  BY DEF OnDisk
<1>3. \A i \in DOMAIN validations : i <= issued'
  BY DEF FilesSound
<1>4. \A k \in Recorded : record[k].latest <= issued'
  BY DEF FilesSound, EvidencePackageRecords, Recorded
<1> QED  BY <1>1, <1>2, <1>3, <1>4, ReadersSame DEF FilesSound

\* A registration sees what it saw before when the files are the same.
LEMMA RegistersSame ==
  ASSUME NEW c \in Callers, Registers(c), UNCHANGED OnDisk,
         issued \in Nat, issued' \in {issued, issued + 1}, Shaped(call[c]),
         call[c].kind = "register", call'[c].id = call[c].id, call'[c].verdict = call[c].verdict,
         call'[c].version = call[c].version, call'[c].old = call[c].old,
         call'[c].stage \in {"undo", "audit", "release"} \/ call'[c].stage = call[c].stage
  PROVE  Registers(c)'
<1>1. Key(c)' = Key(c) /\ Validation(c)' = Validation(c) /\ NewRecord(c)' = NewRecord(c)
  BY DEF Key, Validation, NewRecord
<1>2. record' = record /\ validations' = validations /\ index' = index
  BY DEF OnDisk
<1>3. call[c].old # None => call[c].old.latest \in Nat
  BY ShapedFacts DEF RegisterCalls, EvidencePackageRecords
<1>4. Remembers(c)'
  <2>1. Remembers(c)
    BY DEF Registers
  <2> QED  BY <1>1, <1>2, <1>3, <2>1 DEF Remembers
<1>5. call'[c].stage = call[c].stage \/ call'[c].stage \in {"undo", "audit", "release"}
  OBVIOUS
<1>6. \A k : Listed(k)' = Listed(k)
  BY ReadersSame
<1>7. CASE call'[c].stage = call[c].stage
  BY <1>1, <1>2, <1>4, <1>6, <1>7 DEF Registers
<1>8. CASE call'[c].stage \in {"undo", "audit", "release"}
  BY <1>1, <1>2, <1>4, <1>6, <1>8 DEF Registers
<1> QED  BY <1>5, <1>7, <1>8

\* A call that does nothing while the files stay as they are.
LEMMA CallSame ==
  ASSUME NEW c \in Callers, CallSound(c), call'[c] = call[c], UNCHANGED OnDisk,
         issued \in Nat, issued' \in {issued, issued + 1}, audit \subseteq audit',
         lock = c => lock' = c
  PROVE  CallSound(c)'
<1>1. CASE call[c] = Idle
  BY <1>1 DEF CallSound
<1>2. CASE call[c] # Idle
  <2>1. Shaped(call[c])
    BY <1>2 DEF CallSound, Shaped
  <2>2. Fresh(c)'
    <3>1. call[c].id \in Nat
      BY <2>1, ShapedFacts
    <3> QED  BY <1>2, <3>1, ReadersSame DEF CallSound, Fresh, OnDisk
  <2>3. call[c].kind = "register" /\ call[c].stage \in Writing => Registers(c)'
    BY <1>2, <2>1, RegistersSame DEF CallSound
  <2>4. call[c].kind = "rebuild" /\ call[c].stage = "index" => Rebuilds(c)'
    <3>1. Rebuilds(c) => Rebuilds(c)'
      BY ReadersSame DEF Rebuilds, OnDisk, Entry
    <3> QED  BY <1>2, <3>1 DEF CallSound
  <2>5. call[c].stage = "audit" => Explains(c)'
    <3> SUFFICES ASSUME Explains(c) PROVE Explains(c)'
      BY <1>2 DEF CallSound
    <3>1. audit \cup ToSet(call[c].pending) \subseteq audit' \cup ToSet(call[c].pending)
      OBVIOUS
    <3> QED  BY <3>1, TracedGrows DEF Explains
  <2> QED  BY <1>2, <2>2, <2>3, <2>4, <2>5 DEF CallSound
<1> QED  BY <1>1, <1>2

----------------------------------------------------------------------------
(* Steps that leave the files as they are. *)

Undoable(c) ==
  call[c].stage \in {"index", "undo", "undo rest"} /\ call[c].kind = "register"

\* What would be restored stays the same when the call that holds the lock is
\* still to undo the same registration, and when there is none before or after.
LEMMA BaseSame ==
  ASSUME UNCHANGED record,
         \/ /\ UNCHANGED lock
            /\ lock \in Callers =>
                 /\ Undoable(lock)' <=> Undoable(lock)
                 /\ Undoable(lock) =>
                      call'[lock].verdict = call[lock].verdict /\ call'[lock].old = call[lock].old
         \/ /\ lock \in Callers => ~Undoable(lock)
            /\ lock' \in Callers => ~Undoable(lock)'
  PROVE  \A k : Base(k)' = Base(k)
<1> SUFFICES ASSUME NEW k PROVE Base(k)' = Base(k)
  OBVIOUS
<1>1. CASE lock \in Callers /\ Undoable(lock)
  <2>1. UNCHANGED lock /\ Undoable(lock)' /\ call'[lock].verdict = call[lock].verdict
        /\ call'[lock].old = call[lock].old
    BY <1>1
  <2>2. Key(lock)' = Key(lock)
    BY <2>1 DEF Key
  <2> QED  BY <1>1, <2>1, <2>2 DEF Base, Undoable
<1>2. CASE ~(lock \in Callers /\ Undoable(lock))
  <2>1. Base(k) = record[k]
    BY <1>2 DEF Base, Undoable
  <2>2. ~(lock' \in Callers /\ Undoable(lock)')
    BY <1>2
  <2>3. Base(k)' = record'[k]
    BY <2>2 DEF Base, Undoable
  <2> QED  BY <2>1, <2>3
<1> QED  BY <1>1, <1>2

\* A step of one call, or of none, that writes no file.
LEMMA QuietStep ==
  ASSUME RegistrationInv, NEW c \in Callers, UNCHANGED OnDisk, Counters', LogSound',
         issued' \in {issued, issued + 1}, audit \subseteq audit',
         \A d \in Callers : d # c => call'[d] = call[d] /\ (lock = d => lock' = d),
         CallSound(c)',
         \A d \in Callers : d # c /\ call[d] # Idle /\ call'[c] # Idle =>
           Apart(c, d)' /\ Apart(d, c)',
         cuts' = 0 => cuts = 0 /\ \A k \in Keys : Base(k)' = Base(k)
  PROVE  RegistrationInv'
<1> USE DEF RegistrationInv
<1>1. issued \in Nat
  BY DEF Counters
<1>2. FilesSound'
  BY <1>1, FilesSame
<1>3. \A d \in Callers : CallSound(d)'
  <2> SUFFICES ASSUME NEW d \in Callers, d # c PROVE CallSound(d)'
    OBVIOUS
  <2> QED  BY <1>1, CallSame
<1>4. ASSUME NEW d \in Callers, NEW e \in Callers, d # e, call'[d] # Idle, call'[e] # Idle
      PROVE  Apart(d, e)'
  <2>1. CASE d # c /\ e # c
    <3>1. call'[d] = call[d] /\ call'[e] = call[e]
      BY <2>1
    <3>2. Apart(d, e)
      BY <1>4, <3>1
    <3> QED  BY <3>1, <3>2 DEF Apart
  <2>2. CASE d = c
    <3>1. call'[e] = call[e]
      BY <1>4, <2>2
    <3> QED  BY <1>4, <2>2, <3>1
  <2>3. CASE e = c
    <3>1. call'[d] = call[d]
      BY <1>4, <2>3
    <3> QED  BY <1>4, <2>3, <3>1
  <2> QED  BY <2>1, <2>2, <2>3
<1>5. cuts' = 0 => \A k \in Keys : Agreed(k, Base(k))'
  <2> SUFFICES ASSUME cuts' = 0, NEW k \in Keys PROVE Agreed(k, Base(k))'
    OBVIOUS
  <2>1. Agreed(k, Base(k)) /\ Base(k)' = Base(k)
    OBVIOUS
  <2>2. record' = record /\ validations' = validations /\ index' = index
    BY DEF OnDisk
  <2> QED  BY <2>1, <2>2, ReadersSame DEF Agreed, Entry
<1> QED  BY <1>2, <1>3, <1>4, <1>5

\* A call is as far from the others as it was if it goes on under its number.
LEMMA ApartSame ==
  ASSUME RegistrationInv, NEW c \in Callers, call[c] # Idle,
         \A d \in Callers : d # c => call'[d] = call[d],
         call'[c].id = call[c].id, call'[c].kind = call[c].kind,
         call'[c].kind = "register" /\ call'[c].stage \in Writing =>
           call[c].stage \in Writing /\ call'[c].old = call[c].old
  PROVE  \A d \in Callers : d # c /\ call[d] # Idle => Apart(c, d)' /\ Apart(d, c)'
<1> SUFFICES ASSUME NEW d \in Callers, d # c, call[d] # Idle PROVE Apart(c, d)' /\ Apart(d, c)'
  OBVIOUS
<1>1. Apart(c, d) /\ Apart(d, c)
  BY DEF RegistrationInv
<1> QED  BY <1>1 DEF Apart

\* A call in one of the stages under the lock.
LEMMA HolderFacts ==
  ASSUME RegistrationInv, NEW c \in Callers, call[c].stage \in Held
  PROVE  /\ call[c] # Idle /\ Shaped(call[c]) /\ Fresh(c) /\ lock = c /\ Counters
         /\ c # None /\ c # Left
<1>1. call[c].stage # "idle"
  BY DEF Held
<1>2. call[c] # Idle /\ CallSound(c) /\ Counters
  BY <1>1, NotIdle DEF RegistrationInv
<1> QED  BY <1>2, RegistrationAssumption DEF CallSound, Shaped

\* A call that comes to its end, with nothing to be undone unless an undo failed.
LEMMA LeaveStep ==
  ASSUME RegistrationInv, NEW c \in Callers, call[c].stage \in Held, Goes(c, "release"),
         UNCHANGED <<record, validations, index, lock, issued>>,
         LogSound', audit \subseteq audit', torn' \in BOOLEAN, faults' \in Nat, cuts' \in Nat,
         cuts' = 0 => cuts = 0 /\ ~Undoable(c)
  PROVE  RegistrationInv'
<1>1. /\ call[c] # Idle /\ Shaped(call[c]) /\ Fresh(c) /\ lock = c /\ Counters
  BY HolderFacts
<1>2. /\ call' = [e \in Callers |-> call'[e]]
      /\ \A d \in Callers : d # c => call'[d] = call[d]
      /\ Shaped(call'[c]) /\ call'[c].stage = "release"
      /\ call'[c].kind = call[c].kind /\ call'[c].id = call[c].id
  BY <1>1, GoesFacts DEF Held
<1>3. UNCHANGED OnDisk
  BY DEF OnDisk
<1>4. CallSound(c)'
  <2>1. Fresh(c)'
    BY <1>1, <1>2 DEF Fresh
  <2> QED  BY <1>1, <1>2, <2>1 DEF CallSound, Shaped, Writing
<1>5. Counters'
  BY <1>1, <1>2 DEF Counters
<1>6. \A d \in Callers : d # c /\ call[d] # Idle => Apart(c, d)' /\ Apart(d, c)'
  BY <1>1, <1>2, ApartSame DEF Writing
<1>7. cuts' = 0 => cuts = 0 /\ \A k \in Keys : Base(k)' = Base(k)
  <2>1. ~Undoable(c)'
    BY <1>2 DEF Undoable
  <2> QED  BY <1>1, <2>1, BaseSame
<1> QED  BY <1>1, <1>2, <1>3, <1>4, <1>5, <1>6, <1>7, QuietStep

----------------------------------------------------------------------------
(* The audit log. *)

\* Sequences of events, one after the other.
LEMMA Joined ==
  ASSUME NEW s \in Seq(AuditEvents), NEW t \in Seq(AuditEvents)
  PROVE  /\ s \o t \in Seq(AuditEvents)
         /\ ToSet(s \o t) = ToSet(s) \cup ToSet(t)
         /\ \A type : ~(\E e \in ToSet(s) : e.event = type) /\ ~(\E e \in ToSet(t) : e.event = type)
              => ~(\E e \in ToSet(s \o t) : e.event = type)
<1>1. s \o t \in Seq(AuditEvents) /\ Len(s \o t) = Len(s) + Len(t)
      /\ \A i \in 1 .. Len(s) + Len(t) : (s \o t)[i] = IF i <= Len(s) THEN s[i] ELSE t[i - Len(s)]
  OBVIOUS
<1>2. ToSet(s \o t) \subseteq ToSet(s) \cup ToSet(t)
  <2> SUFFICES ASSUME NEW i \in DOMAIN (s \o t)
               PROVE  (s \o t)[i] \in ToSet(s) \cup ToSet(t)
    BY DEF ToSet
  <2>1. i \in 1 .. Len(s) + Len(t)
    BY <1>1
  <2>2. CASE i <= Len(s)
    BY <1>1, <2>1, <2>2 DEF ToSet
  <2>3. CASE ~(i <= Len(s))
    <3>1. i - Len(s) \in DOMAIN t /\ (s \o t)[i] = t[i - Len(s)]
      BY <1>1, <2>1, <2>3
    <3> QED  BY <3>1 DEF ToSet
  <2> QED  BY <2>2, <2>3
<1>3. ToSet(s) \subseteq ToSet(s \o t)
  BY <1>1 DEF ToSet
<1>4. ToSet(t) \subseteq ToSet(s \o t)
  <2> SUFFICES ASSUME NEW j \in DOMAIN t PROVE t[j] \in ToSet(s \o t)
    BY DEF ToSet
  <2>1. Len(s) + j \in DOMAIN (s \o t) /\ (s \o t)[Len(s) + j] = t[j]
    BY <1>1
  <2> QED  BY <2>1 DEF ToSet
<1> QED  BY <1>1, <1>2, <1>3, <1>4

LEMMA OneEvent ==
  ASSUME NEW e \in AuditEvents
  PROVE  <<e>> \in Seq(AuditEvents) /\ ToSet(<<e>>) = {e}
BY DEF ToSet

LEMMA NoEvent == << >> \in Seq(AuditEvents) /\ ToSet(<< >>) = {}
BY DEF ToSet

\* The events that are made up for are those the log lacks, none is a hit.
LEMMA MissingFacts ==
  ASSUME NEW r \in EvidencePackageRecords, NEW type \in AuditTypes
  PROVE  /\ Missing(r, type) \in Seq(AuditEvents)
         /\ \E e \in audit \cup ToSet(Missing(r, type)) : e.event = type /\ e.record = r.id
         /\ \A e \in ToSet(Missing(r, type)) : e.event = type
<1>1. Event(type, r.id) \in AuditEvents /\ Event(type, r.id).event = type
      /\ Event(type, r.id).record = r.id
  BY DEF Event, AuditEvents, EvidencePackageRecords
<1>2. CASE type \in Audited(r)
  <2>1. PICK e \in audit : e.record = r.id /\ e.event = type
    BY <1>2 DEF Audited
  <2> QED  BY <1>2, <2>1, NoEvent DEF Missing
<1>3. CASE type \notin Audited(r)
  BY <1>1, <1>3, OneEvent DEF Missing
<1> QED  BY <1>2, <1>3

\* A repetition writes its hit last, after all the log lacks of the registration.
\* (_recover_audit_gap)
LEMMA HitFacts ==
  ASSUME NEW r \in EvidencePackageRecords, NEW events,
         events = RecoverAuditGap(r) \o <<Event("idempotent_hit", r.id)>>
  PROVE  /\ events \in Seq(AuditEvents)
         /\ \A i \in DOMAIN events : events[i].event = "idempotent_hit" =>
              i = Len(events) /\ Traced(events[i].record, audit \cup ToSet(events))
<1> DEFINE first == Missing(r, Required(r)[1])
           second == Missing(r, Required(r)[2])
           third == Missing(r, Required(r)[3])
           missing == first \o second \o third
           opening == <<Event("recovery_performed", r.id)>>
           hit == Event("idempotent_hit", r.id)
           gap == RecoverAuditGap(r)
<1>1. /\ Required(r)[1] = "validation_created" /\ Required(r)[3] = "index_updated"
      /\ Required(r)[2] \in {"record_created", "record_updated"}
  BY DEF Required, RecordEvent
<1>2. /\ first \in Seq(AuditEvents) /\ second \in Seq(AuditEvents) /\ third \in Seq(AuditEvents)
      /\ \E e \in audit \cup ToSet(first) : e.event = "validation_created" /\ e.record = r.id
      /\ \E e \in audit \cup ToSet(second) :
           e.event \in {"record_created", "record_updated"} /\ e.record = r.id
      /\ \E e \in audit \cup ToSet(third) : e.event = "index_updated" /\ e.record = r.id
      /\ \A e \in ToSet(first) \cup ToSet(second) \cup ToSet(third) : e.event # "idempotent_hit"
  <2>1. \A type \in AuditTypes :
          /\ Missing(r, type) \in Seq(AuditEvents)
          /\ \E e \in audit \cup ToSet(Missing(r, type)) : e.event = type /\ e.record = r.id
          /\ \A e \in ToSet(Missing(r, type)) : e.event = type
    BY MissingFacts
  <2>2. /\ Required(r)[1] \in AuditTypes /\ Required(r)[2] \in AuditTypes
        /\ Required(r)[3] \in AuditTypes
    BY <1>1 DEF AuditTypes
  <2>3. \A e \in ToSet(first) \cup ToSet(second) \cup ToSet(third) : e.event # "idempotent_hit"
    BY <1>1, <2>1, <2>2
  <2>4. first \in Seq(AuditEvents) /\ second \in Seq(AuditEvents) /\ third \in Seq(AuditEvents)
    BY <2>1, <2>2
  <2>5. /\ \E e \in audit \cup ToSet(first) : e.event = Required(r)[1] /\ e.record = r.id
        /\ \E e \in audit \cup ToSet(second) : e.event = Required(r)[2] /\ e.record = r.id
        /\ \E e \in audit \cup ToSet(third) : e.event = Required(r)[3] /\ e.record = r.id
    BY <2>1, <2>2
  <2> QED  BY <1>1, <2>3, <2>4, <2>5
<1>3. /\ Event("recovery_performed", r.id) \in AuditEvents /\ hit \in AuditEvents
      /\ Event("recovery_performed", r.id).event # "idempotent_hit" /\ hit.record = r.id
  BY DEF Event, AuditEvents, AuditTypes, EvidencePackageRecords
<1>4. /\ opening \in Seq(AuditEvents) /\ \A e \in ToSet(opening) : e.event # "idempotent_hit"
      /\ <<hit>> \in Seq(AuditEvents) /\ ToSet(<<hit>>) = {hit}
  BY <1>3, OneEvent
<1>5. /\ missing \in Seq(AuditEvents)
      /\ ToSet(missing) = ToSet(first) \cup ToSet(second) \cup ToSet(third)
  <2> HIDE DEF first, second, third
  <2>1. /\ first \o second \in Seq(AuditEvents)
        /\ ToSet(first \o second) = ToSet(first) \cup ToSet(second)
    BY <1>2, Joined
  <2>2. missing \in Seq(AuditEvents) /\ ToSet(missing) = ToSet(first \o second) \cup ToSet(third)
    BY <1>2, <2>1, Joined
  <2> QED  BY <2>1, <2>2
<1>6. /\ gap \in Seq(AuditEvents) /\ ToSet(missing) \subseteq ToSet(gap)
      /\ \A e \in ToSet(gap) : e.event # "idempotent_hit"
  <2>1. gap = IF missing = << >> THEN << >> ELSE opening \o missing
    BY DEF RecoverAuditGap
  <2>2. \A e \in ToSet(missing) : e.event # "idempotent_hit"
    BY <1>2, <1>5
  <2> HIDE DEF missing, opening, gap
  <2>3. CASE missing = << >>
    BY <2>1, <2>3, NoEvent
  <2>4. CASE missing # << >>
    <3>1. gap = opening \o missing
      BY <2>1, <2>4
    <3>2. gap \in Seq(AuditEvents) /\ ToSet(gap) = ToSet(opening) \cup ToSet(missing)
      BY <1>4, <1>5, <3>1, Joined
    <3> QED  BY <1>4, <2>2, <3>2
  <2> QED  BY <2>3, <2>4
<1> HIDE DEF first, second, third, missing, opening, hit, gap
<1>7. events = gap \o <<hit>>
  BY DEF gap, hit
<1>8. events \in Seq(AuditEvents) /\ ToSet(events) = ToSet(gap) \cup {hit}
  <2>1. <<hit>> \in Seq(AuditEvents) /\ gap \in Seq(AuditEvents) /\ ToSet(<<hit>>) = {hit}
    BY <1>4, <1>6
  <2>2. events \in Seq(AuditEvents) /\ ToSet(events) = ToSet(gap) \cup ToSet(<<hit>>)
    BY <1>7, <2>1, Joined
  <2> QED  BY <2>1, <2>2
<1>9. Traced(r.id, audit \cup ToSet(events))
  BY <1>2, <1>5, <1>6, <1>8 DEF Traced
<1>10. ASSUME NEW i \in DOMAIN events, events[i].event = "idempotent_hit"
       PROVE  i = Len(events) /\ events[i] = hit
  <2>1. Len(events) = Len(gap) + 1 /\ i \in 1 .. Len(events)
    BY <1>4, <1>6, <1>7, <1>8
  <2>2. CASE i <= Len(gap)
    <3>1. events[i] = gap[i] /\ i \in DOMAIN gap
      BY <1>4, <1>6, <1>7, <2>1, <2>2
    <3> QED  BY <1>6, <1>10, <3>1 DEF ToSet
  <2>3. CASE i = Len(gap) + 1
    <3>1. events[i] = hit
      BY <1>4, <1>6, <1>7, <2>3
    <3> QED  BY <2>1, <2>3, <3>1
  <2> QED  BY <2>1, <2>2, <2>3, <1>6
<1> QED  BY <1>3, <1>8, <1>9, <1>10

\* However many of its events a call has written, the log explains its hits.
LEMMA WrittenFacts ==
  ASSUME LogSound, NEW c, call[c].pending \in Seq(AuditEvents), Explains(c),
         NEW n \in 0 .. Len(call[c].pending)
  PROVE  /\ audit \subseteq Written(c, n) /\ Written(c, n) \subseteq AuditEvents
         /\ \A hit \in Written(c, n) :
              hit.event = "idempotent_hit" => Traced(hit.record, Written(c, n))
<1> DEFINE events == call[c].pending
           part == SubSeq(events, 1, n)
<1>1. part \in Seq(AuditEvents) /\ Len(part) = n /\ \A i \in 1 .. n : part[i] = events[i]
  OBVIOUS
<1>2. audit \subseteq Written(c, n) /\ Written(c, n) \subseteq AuditEvents
  BY <1>1 DEF Written, ToSet, LogSound
<1>3. ASSUME NEW hit \in Written(c, n), hit.event = "idempotent_hit"
      PROVE  Traced(hit.record, Written(c, n))
  <2>1. CASE hit \in audit
    BY <1>2, <1>3, <2>1, TracedGrows DEF LogSound
  <2>2. CASE hit \in ToSet(part)
    <3>1. PICK i \in 1 .. n : hit = events[i]
      BY <1>1, <2>2 DEF ToSet
    <3>2. i \in DOMAIN events
      OBVIOUS
    <3>3. i = Len(events) /\ Traced(hit.record, audit \cup ToSet(events))
      BY <1>3, <3>1, <3>2 DEF Explains
    <3>4. n = Len(events)
      BY <3>1, <3>3
    <3>5. Len(part) = Len(events) /\ \A j \in 1 .. Len(events) : part[j] = events[j]
      BY <1>1, <3>4
    <3>6. ToSet(events) \subseteq ToSet(part)
      <4> SUFFICES ASSUME NEW j \in DOMAIN events PROVE events[j] \in ToSet(part)
        BY DEF ToSet
      <4>1. j \in 1 .. Len(events) /\ DOMAIN part = 1 .. Len(part)
        BY <1>1
      <4>2. j \in DOMAIN part /\ part[j] = events[j]
        BY <3>5, <4>1
      <4> QED  BY <4>2 DEF ToSet
    <3> QED  BY <3>3, <3>6, TracedGrows DEF Written
  <2> QED  BY <1>3, <2>1, <2>2 DEF Written
<1> QED  BY <1>2, <1>3

----------------------------------------------------------------------------
(* The steps of a call that write no record, validation or index. *)

LEMMA IndexRevisionNat == ASSUME FilesSound PROVE IndexRevision \in Nat
BY DEF FilesSound, IndexTyped, IndexRevision

\* A new call gets a number that nothing has.
LEMMA NewCall ==
  ASSUME RegistrationInv, NEW c \in Callers, call[c] = Idle, issued' = issued + 1,
         call' = [call EXCEPT ![c] = call'[c]],
         Shaped(call'[c]), call'[c].stage = "lock", call'[c].id = issued + 1,
         UNCHANGED <<record, validations, index, audit, torn, lock, faults, cuts>>
  PROVE  RegistrationInv'
<1>1. Counters /\ issued \in Nat /\ FilesSound
  BY DEF RegistrationInv, Counters
<1>2. \A d \in Callers : d # c => call'[d] = call[d]
  BY <1>1 DEF Counters
<1>3. UNCHANGED OnDisk
  BY DEF OnDisk
<1>4. Counters'
  BY <1>1 DEF Counters
<1>5. CallSound(c)'
  <2>1. issued + 1 \notin DOMAIN validations
    BY <1>1 DEF FilesSound
  <2>2. \A k \in Recorded : record[k].latest # issued + 1
    BY <1>1 DEF FilesSound, Recorded, EvidencePackageRecords
  <2>3. Fresh(c)'
    BY <1>1, <2>1, <2>2, ReadersSame, <1>3 DEF Fresh
  <2> QED  BY <2>3 DEF CallSound, Shaped, Held, Writing
<1>6. ASSUME NEW d \in Callers, d # c, call[d] # Idle PROVE Apart(c, d)' /\ Apart(d, c)'
  <2>1. CallSound(d) /\ call'[d] = call[d]
    BY <1>2, <1>6 DEF RegistrationInv
  <2>2. Shaped(call[d]) /\ Fresh(d)
    BY <1>6, <2>1 DEF CallSound, Shaped
  <2>3. call[d].id # issued + 1
    BY <1>1, <2>2, ShapedFacts DEF Fresh
  <2>4. call[d].kind = "register" /\ call[d].stage \in Writing /\ call[d].old # None =>
          call[d].old.latest # issued + 1
    <3> SUFFICES ASSUME call[d].kind = "register", call[d].stage \in Writing, call[d].old # None
                 PROVE  call[d].old.latest # issued + 1
      OBVIOUS
    <3>1. Remembers(d)
      BY <1>6, <2>1 DEF CallSound, Registers
    <3>2. call[d].old \in EvidencePackageRecords
      BY <2>2, ShapedFacts DEF RegisterCalls
    <3> QED  BY <1>1, <3>1, <3>2 DEF Remembers, EvidencePackageRecords
  <2> QED  BY <2>1, <2>3, <2>4 DEF Apart, Writing
<1>7. cuts' = 0 => cuts = 0 /\ \A k \in Keys : Base(k)' = Base(k)
  <2>1. ~Undoable(c)
    <3>1. call[c].stage = "idle"
      BY DEF Idle
    <3> QED  BY <3>1 DEF Undoable
  <2>2. ~Undoable(c)'
    BY DEF Undoable
  <2>3. lock \in Callers => (Undoable(lock)' <=> Undoable(lock)) /\
          (Undoable(lock) => call'[lock] = call[lock])
    BY <1>2, <2>1, <2>2 DEF Undoable
  <2> QED  BY <2>3, BaseSame
<1>8. LogSound'
  BY DEF RegistrationInv, LogSound, Traced
<1> QED  BY <1>2, <1>3, <1>4, <1>5, <1>6, <1>7, <1>8, QuietStep

LEMMA BeginStep ==
  ASSUME RegistrationInv, NEW c \in Callers, NEW expected \in {None, IndexRevision},
         NEW verdict \in Verdicts, NEW version \in Versions, Begin(c, verdict, version, expected)
  PROVE  RegistrationInv'
<1> DEFINE new == [stage |-> "lock", kind |-> "register", id |-> issued + 1, verdict |-> verdict,
                   version |-> version, expected |-> expected, old |-> None, entries |-> << >>,
                   pending |-> << >>]
<1>1. Counters /\ FilesSound /\ CallSound(c)
  BY DEF RegistrationInv
<1>2. call[c] = Idle
  <2>1. call[c].stage = "idle"
    BY DEF Begin, At
  <2>2. ~Shaped(call[c])
    BY <2>1, ShapedFacts DEF Held
  <2> QED  BY <1>1, <2>2 DEF CallSound, Shaped
<1>3. call' = [call EXCEPT ![c] = new]
  BY DEF Begin
<1>4. call'[c] = new /\ call' = [call EXCEPT ![c] = call'[c]]
  BY <1>1, <1>3 DEF Counters
<1>5. new \in RegisterCalls
  <2>1. << >> \in Seq(AuditEvents) /\ issued + 1 \in Nat /\ expected \in Nat \cup {None}
    BY <1>1, IndexRevisionNat DEF Counters
  <2> QED  BY <2>1 DEF RegisterCalls
<1>6. new.stage = "lock" /\ new.id = issued + 1
  OBVIOUS
<1> HIDE DEF new
<1>7. /\ issued' = issued + 1
      /\ UNCHANGED <<record, validations, index, audit, torn, lock, faults, cuts>>
  BY DEF Begin
<1> QED  BY <1>2, <1>4, <1>5, <1>6, <1>7, NewCall DEF Shaped

LEMMA BeginRebuildStep ==
  ASSUME RegistrationInv, NEW c \in Callers, NEW expected, BeginRebuild(c, expected)
  PROVE  RegistrationInv'
<1> DEFINE new == [stage |-> "lock", kind |-> "rebuild", id |-> issued + 1,
                   expected |-> expected, entries |-> << >>, pending |-> << >>]
<1>1. Counters /\ CallSound(c)
  BY DEF RegistrationInv
<1>2. call[c] = Idle
  <2>1. call[c].stage = "idle"
    BY DEF BeginRebuild, At
  <2>2. ~Shaped(call[c])
    BY <2>1, ShapedFacts DEF Held
  <2> QED  BY <1>1, <2>2 DEF CallSound, Shaped
<1>3. call' = [call EXCEPT ![c] = new]
  BY DEF BeginRebuild
<1>4. call'[c] = new /\ call' = [call EXCEPT ![c] = call'[c]]
  BY <1>1, <1>3 DEF Counters
<1>5. RebuildCall(new)
  <2>1. << >> \in Seq(AuditEvents) /\ issued + 1 \in Nat
    BY <1>1 DEF Counters
  <2> QED  BY <2>1 DEF RebuildCall
<1>6. new.stage = "lock" /\ new.id = issued + 1
  OBVIOUS
<1> HIDE DEF new
<1>7. /\ issued' = issued + 1
      /\ UNCHANGED <<record, validations, index, audit, torn, lock, faults, cuts>>
  BY DEF BeginRebuild
<1> QED  BY <1>2, <1>4, <1>5, <1>6, <1>7, NewCall DEF Shaped

\* A waiting call is neither idle nor the holder of the lock file.
LEMMA WaiterFacts ==
  ASSUME RegistrationInv, NEW c \in Callers, At(c, "lock")
  PROVE  call[c] # Idle /\ Shaped(call[c]) /\ Fresh(c) /\ Counters
<1>1. call[c].stage # "idle"
  BY DEF At
<1> QED  BY <1>1, NotIdle DEF RegistrationInv, CallSound, Shaped

LEMMA GetLockStep ==
  ASSUME RegistrationInv, NEW c \in Callers, GetLock(c)
  PROVE  RegistrationInv'
<1>1. call[c] # Idle /\ Shaped(call[c]) /\ Fresh(c) /\ Counters /\ call[c].stage = "lock"
  BY WaiterFacts DEF GetLock, At
<1>2. /\ lock = None /\ lock' = c /\ Goes(c, "check")
      /\ UNCHANGED <<record, validations, index, audit, torn, issued, faults, cuts>>
  BY DEF GetLock
<1>3. /\ call' = [e \in Callers |-> call'[e]]
      /\ \A d \in Callers : d # c => call'[d] = call[d]
      /\ Shaped(call'[c]) /\ call'[c].stage = "check"
      /\ call'[c].kind = call[c].kind /\ call'[c].id = call[c].id
  BY <1>1, <1>2, GoesFacts DEF Held
<1>4. UNCHANGED OnDisk
  BY <1>2 DEF OnDisk
<1>5. Counters' /\ LogSound'
  BY <1>1, <1>2, <1>3 DEF Counters, RegistrationInv, LogSound, Traced
<1>6. CallSound(c)'
  <2>1. Fresh(c)'
    BY <1>1, <1>2, <1>3, <1>4, ReadersSame DEF Fresh
  <2> QED  BY <1>2, <1>3, <2>1 DEF CallSound, Shaped, Writing
<1>7. \A d \in Callers : d # c /\ call[d] # Idle => Apart(c, d)' /\ Apart(d, c)'
  BY <1>1, <1>3, ApartSame DEF Writing
<1>8. cuts' = 0 => cuts = 0 /\ \A k \in Keys : Base(k)' = Base(k)
  <2>1. None \notin Callers
    BY RegistrationAssumption
  <2>2. ~Undoable(c)'
    BY <1>3 DEF Undoable
  <2> QED  BY <1>2, <2>1, <2>2, BaseSame
<1>9. \A d \in Callers : lock # d
  BY <1>2, RegistrationAssumption
<1> QED  BY <1>2, <1>3, <1>4, <1>5, <1>6, <1>7, <1>8, <1>9, QuietStep DEF Counters

\* A call that is over.
LEMMA OverStep ==
  ASSUME RegistrationInv, NEW c \in Callers, call' = [call EXCEPT ![c] = Idle],
         UNCHANGED <<record, validations, index, audit, torn, issued, cuts>>, faults' \in Nat,
         \/ call[c].stage = "lock" /\ UNCHANGED lock
         \/ call[c].stage = "release" /\ lock' \in {None, Left}
  PROVE  RegistrationInv'
<1>1. Counters
  BY DEF RegistrationInv
<1>2. call' = [e \in Callers |-> call'[e]] /\ call'[c] = Idle
      /\ \A d \in Callers : d # c => call'[d] = call[d]
  BY <1>1 DEF Counters
<1>3. UNCHANGED OnDisk
  BY DEF OnDisk
<1>4. Counters' /\ LogSound' /\ CallSound(c)'
  BY <1>1, <1>2 DEF Counters, RegistrationInv, LogSound, Traced, CallSound
<1>5. \A d \in Callers : d # c /\ lock = d => lock' = d
  <2>1. CASE UNCHANGED lock
    BY <2>1
  <2>2. CASE call[c].stage = "release"
    <3>1. lock = c
      BY <2>2, HolderFacts DEF Held
    <3> QED  BY <3>1
  <2> QED  BY <2>1, <2>2
<1>6. cuts' = 0 => cuts = 0 /\ \A k \in Keys : Base(k)' = Base(k)
  <2>1. ~Undoable(c)
    BY DEF Undoable
  <2>2. ~Undoable(c)'
    BY <1>2 DEF Undoable, Idle
  <2>3. CASE call[c].stage = "lock" /\ UNCHANGED lock
    <3>1. lock \in Callers => (Undoable(lock)' <=> Undoable(lock)) /\
            (Undoable(lock) => call'[lock] = call[lock])
      BY <1>2, <2>1, <2>2, <2>3 DEF Undoable
    <3> QED  BY <2>3, <3>1, BaseSame
  <2>4. CASE call[c].stage = "release" /\ lock' \in {None, Left}
    <3>1. lock = c
      BY <2>4, HolderFacts DEF Held
    <3>2. lock' \notin Callers
      BY <2>4, RegistrationAssumption
    <3> QED  BY <2>1, <3>1, <3>2, BaseSame
  <2> QED  BY <2>3, <2>4
<1> QED  BY <1>1, <1>2, <1>3, <1>4, <1>5, <1>6, QuietStep DEF Counters

LEMMA RegistrationReports ==
  ASSUME NEW x \in RegisterCalls, NEW events \in Seq(AuditEvents)
  PROVE  LET y == [x EXCEPT !.stage = "audit", !.pending = events]
         IN  /\ y \in RegisterCalls /\ y.stage = "audit"
             /\ y.kind = x.kind /\ y.id = x.id /\ y.pending = events
BY DEF RegisterCalls, Held

LEMMA RebuildReports ==
  ASSUME NEW x, RebuildCall(x), NEW events \in Seq(AuditEvents)
  PROVE  LET y == [x EXCEPT !.stage = "audit", !.pending = events]
         IN  /\ RebuildCall(y) /\ y.stage = "audit"
             /\ y.kind = x.kind /\ y.id = x.id /\ y.pending = events
<1> DEFINE z == [x EXCEPT !.stage = "audit"]
           y == [x EXCEPT !.stage = "audit", !.pending = events]
<1>1. x.kind = "rebuild" /\ x.id \in Nat
  BY DEF RebuildCall
<1>2. z = [stage |-> "audit", kind |-> "rebuild", id |-> x.id, expected |-> x.expected,
           entries |-> x.entries, pending |-> x.pending]
  BY DEF RebuildCall
<1>3. y = [z EXCEPT !.pending = events]
  OBVIOUS
<1> HIDE DEF z, y
<1>4. y = [stage |-> "audit", kind |-> "rebuild", id |-> x.id, expected |-> x.expected,
           entries |-> x.entries, pending |-> events]
  BY <1>2, <1>3
<1>5. RebuildCall(y) /\ y.stage = "audit" /\ y.kind = x.kind /\ y.id = x.id /\ y.pending = events
  BY <1>1, <1>4 DEF RebuildCall
<1> QED  BY <1>5 DEF y

\* What a call goes on with when it is to write its events.
LEMMA ReportsFacts ==
  ASSUME Counters, NEW c \in Callers, Shaped(call[c]), NEW events \in Seq(AuditEvents),
         call' = [call EXCEPT ![c].stage = "audit", ![c].pending = events]
  PROVE  /\ call' = [e \in Callers |-> call'[e]]
         /\ \A d \in Callers : d # c => call'[d] = call[d]
         /\ Shaped(call'[c]) /\ call'[c].stage = "audit" /\ call'[c].kind = call[c].kind
         /\ call'[c].id = call[c].id /\ call'[c].pending = events
<1>1. /\ call' = [e \in Callers |-> call'[e]]
      /\ \A d \in Callers : d # c => call'[d] = call[d]
      /\ call'[c] = [call[c] EXCEPT !.stage = "audit", !.pending = events]
  BY DEF Counters
<1> DEFINE y == [call[c] EXCEPT !.stage = "audit", !.pending = events]
<1>2. CASE call[c] \in RegisterCalls
  <2>1. /\ y \in RegisterCalls /\ y.stage = "audit"
        /\ y.kind = call[c].kind /\ y.id = call[c].id /\ y.pending = events
    BY <1>2, RegistrationReports
  <2> HIDE DEF y
  <2> QED  BY <1>1, <2>1 DEF Shaped, y
<1>3. CASE RebuildCall(call[c])
  <2>1. /\ RebuildCall(y) /\ y.stage = "audit"
        /\ y.kind = call[c].kind /\ y.id = call[c].id /\ y.pending = events
    BY <1>3, RebuildReports
  <2> QED  BY <1>1, <2>1 DEF Shaped
<1> QED  BY <1>2, <1>3 DEF Shaped

LEMMA ReportStep ==
  ASSUME RegistrationInv, NEW c \in Callers, At(c, "check"), NEW events \in Seq(AuditEvents),
         Reports(c, events),
         \A i \in DOMAIN events : events[i].event = "idempotent_hit" =>
           i = Len(events) /\ Traced(events[i].record, audit \cup ToSet(events))
  PROVE  RegistrationInv'
<1>1. call[c].stage = "check"
  BY DEF At
<1>2. /\ call[c] # Idle /\ Shaped(call[c]) /\ Fresh(c) /\ lock = c /\ Counters
  BY <1>1, HolderFacts DEF Held
<1>3. UNCHANGED <<record, validations, index, audit, torn, lock, issued, faults, cuts>>
  BY DEF Reports
<1>4. /\ call' = [e \in Callers |-> call'[e]]
      /\ \A d \in Callers : d # c => call'[d] = call[d]
      /\ Shaped(call'[c]) /\ call'[c].stage = "audit" /\ call'[c].kind = call[c].kind
      /\ call'[c].id = call[c].id /\ call'[c].pending = events
  BY <1>2, ReportsFacts DEF Reports
<1>5. Counters' /\ LogSound' /\ UNCHANGED OnDisk
  BY <1>2, <1>3, <1>4 DEF Counters, RegistrationInv, LogSound, Traced, OnDisk
<1>6. CallSound(c)'
  <2>1. Fresh(c)'
    BY <1>2, <1>3, <1>4 DEF Fresh
  <2>2. Explains(c)'
    BY <1>3, <1>4 DEF Explains, Traced
  <2> QED  BY <1>2, <1>3, <1>4, <2>1, <2>2 DEF CallSound, Shaped, Writing
<1>7. \A d \in Callers : d # c /\ call[d] # Idle => Apart(c, d)' /\ Apart(d, c)'
  BY <1>2, <1>4, ApartSame DEF Writing
<1>8. cuts' = 0 => cuts = 0 /\ \A k \in Keys : Base(k)' = Base(k)
  <2>1. ~Undoable(c) /\ ~Undoable(c)'
    BY <1>1, <1>4 DEF Undoable
  <2> QED  BY <1>2, <1>3, <2>1, BaseSame
<1> QED  BY <1>2, <1>3, <1>4, <1>5, <1>6, <1>7, <1>8, QuietStep DEF Counters

LEMMA RejectStep == ASSUME RegistrationInv, NEW c \in Callers, Reject(c) PROVE RegistrationInv'
<1> DEFINE event == Event("registration_rejected", None)
<1>1. event \in AuditEvents /\ event.event # "idempotent_hit"
  BY DEF Event, AuditEvents, AuditTypes
<1> HIDE DEF event
<1>2. <<event>> \in Seq(AuditEvents) /\ \A i \in DOMAIN <<event>> : <<event>>[i] = event
  BY <1>1
<1>3. At(c, "check") /\ Reports(c, <<event>>)
  BY DEF Reject, event
<1> QED  BY <1>1, <1>2, <1>3, ReportStep

\* A call that is checked for a registration: of a key, under the lock.
LEMMA ClearedFacts ==
  ASSUME RegistrationInv, NEW c \in Callers, Cleared(c)
  PROVE  /\ call[c].stage = "check" /\ call[c].kind = "register" /\ call[c] \in RegisterCalls
         /\ call[c] # Idle /\ Shaped(call[c]) /\ Fresh(c) /\ lock = c /\ Counters
         /\ call[c].verdict \in Verdicts /\ call[c].verdict.allowed
         /\ Key(c) \in Keys /\ call[c].verdict.package.manifest.sum \in Sums
         /\ Old(c) \in EvidencePackageRecords \cup {None} /\ IndexReadable
<1>1. call[c].stage = "check" /\ call[c].kind = "register" /\ call[c].verdict.allowed
      /\ IndexReadable
  BY DEF Cleared, At, Preflight
<1>2. /\ call[c] # Idle /\ Shaped(call[c]) /\ Fresh(c) /\ lock = c /\ Counters
  BY <1>1, HolderFacts DEF Held
<1>3. call[c] \in RegisterCalls
  BY <1>1, <1>2, ShapedFacts
<1>4. call[c].verdict \in Verdicts
  BY <1>3 DEF RegisterCalls
<1>5. Key(c) \in Keys /\ call[c].verdict.package.manifest.sum \in Sums
  BY <1>1, <1>4, VerdictSound DEF Key
<1>6. Old(c) \in EvidencePackageRecords \cup {None}
  BY <1>5 DEF Old, RegistrationInv, FilesSound
<1> QED  BY <1>1, <1>2, <1>3, <1>4, <1>5, <1>6

LEMMA HitStep == ASSUME RegistrationInv, NEW c \in Callers, Hit(c) PROVE RegistrationInv'
<1>1. Cleared(c) /\ Old(c) # None
      /\ Reports(c, RecoverAuditGap(Old(c)) \o <<Event("idempotent_hit", Old(c).id)>>)
  BY DEF Hit
<1>2. Old(c) \in EvidencePackageRecords
  BY <1>1, ClearedFacts
<1> DEFINE events == RecoverAuditGap(Old(c)) \o <<Event("idempotent_hit", Old(c).id)>>
<1>3. /\ events \in Seq(AuditEvents)
      /\ \A i \in DOMAIN events : events[i].event = "idempotent_hit" =>
           i = Len(events) /\ Traced(events[i].record, audit \cup ToSet(events))
  BY <1>2, HitFacts
<1>4. At(c, "check") /\ Reports(c, events)
  BY <1>1 DEF Cleared
<1> HIDE DEF events
<1> QED  BY <1>3, <1>4, ReportStep

\* A call that is refused, and one that cannot write or read what it has to.
LEMMA RefuseStep ==
  ASSUME RegistrationInv, NEW c \in Callers, At(c, "check"), Refuses(c)
  PROVE  RegistrationInv'
<1>1. call[c].stage = "check" /\ Goes(c, "release")
      /\ UNCHANGED <<record, validations, index, audit, torn, lock, issued, faults, cuts>>
  BY DEF At, Refuses
<1>2. Counters /\ Counters' /\ LogSound'
  <2>1. Counters /\ Shaped(call[c])
    BY <1>1, HolderFacts DEF Held
  <2>2. call' = [e \in Callers |-> call'[e]]
    BY <1>1, <2>1, GoesFacts DEF Held
  <2> QED  BY <1>1, <2>1, <2>2 DEF Counters, RegistrationInv, LogSound, Traced
<1>3. ~Undoable(c)
  BY <1>1 DEF Undoable
<1> QED  BY <1>1, <1>2, <1>3, LeaveStep DEF Held, Counters

LEMMA AcceptStep == ASSUME RegistrationInv, NEW c \in Callers, Accept(c) PROVE RegistrationInv'
<1>1. /\ Cleared(c) /\ Accepted(c)
      /\ call' = [call EXCEPT ![c].stage = "validation", ![c].old = Old(c)]
      /\ UNCHANGED <<record, validations, index, audit, torn, lock, issued, faults, cuts>>
  BY DEF Accept
<1>2. /\ call[c].stage = "check" /\ call[c].kind = "register" /\ call[c] \in RegisterCalls
      /\ call[c] # Idle /\ Shaped(call[c]) /\ Fresh(c) /\ lock = c /\ Counters
      /\ call[c].verdict \in Verdicts /\ call[c].verdict.allowed
      /\ Key(c) \in Keys /\ Old(c) \in EvidencePackageRecords \cup {None} /\ IndexReadable
  BY <1>1, ClearedFacts
<1>3. /\ call' = [e \in Callers |-> call'[e]]
      /\ \A d \in Callers : d # c => call'[d] = call[d]
      /\ call'[c] = [call[c] EXCEPT !.stage = "validation", !.old = Old(c)]
  BY <1>1, <1>2 DEF Counters
<1>4. /\ call'[c] \in RegisterCalls /\ call'[c].stage = "validation" /\ call'[c].old = Old(c)
      /\ call'[c].kind = "register" /\ call'[c].id = call[c].id
      /\ call'[c].verdict = call[c].verdict /\ call'[c].version = call[c].version
  BY <1>2, <1>3 DEF RegisterCalls, Held
<1>5. Counters' /\ LogSound' /\ UNCHANGED OnDisk
  BY <1>1, <1>2, <1>3 DEF Counters, RegistrationInv, LogSound, Traced, OnDisk
<1>6. FilesSound
  BY DEF RegistrationInv
<1>7. /\ Key(c)' = Key(c) /\ record' = record /\ validations' = validations
      /\ index' = index /\ issued' = issued
  BY <1>1, <1>4 DEF Key
<1>8. Old(c) # None => Key(c) \in Recorded /\ Old(c) = record[Key(c)]
  BY <1>2 DEF Recorded, Old
<1>9. Remembers(c)'
  <2> SUFFICES ASSUME Old(c) # None
               PROVE  /\ Old(c).latest <= issued /\ Old(c).latest # call[c].id
                      /\ Old(c).manifest = call[c].verdict.package.manifest.sum
                      /\ Old(c).latest \in DOMAIN validations =>
                           validations[Old(c).latest].package.manifest.key = Key(c)
    BY <1>4, <1>7 DEF Remembers
  <2>1. Old(c).latest # call[c].id
    BY <1>2, <1>8 DEF Fresh
  <2> QED  BY <1>1, <1>6, <1>8, <2>1 DEF Accepted, FilesSound
<1>10. Registers(c)'
  <2>1. \A k \in Keys : Listed(k) => index.entries[k].latest # call[c].id
    BY <1>2, <1>6 DEF FilesSound, Fresh
  <2>2. ASSUME Listed(Key(c))
        PROVE  validations[index.entries[Key(c)].latest].package.manifest.sum
                 = call[c].verdict.package.manifest.sum
    <3>1. EntryHolds(Key(c), index.entries[Key(c)])
      BY <1>2, <2>2 DEF IndexReadable, Listed
    <3>2. record[Key(c)] # None /\ Validated(record[Key(c)])
          /\ index.entries[Key(c)].latest = record[Key(c)].latest
      BY <3>1 DEF EntryHolds
    <3>3. Old(c) # None /\ Old(c) = record[Key(c)]
      BY <3>2 DEF Old
    <3>4. Old(c).manifest = call[c].verdict.package.manifest.sum
      BY <1>1, <3>3 DEF Accepted
    <3> QED  BY <3>2, <3>3, <3>4 DEF Validated
  <2>3. Listed(Key(c))' = Listed(Key(c)) /\ \A k : Listed(k)' = Listed(k)
    BY <1>7 DEF Listed
  <2> QED  BY <1>2, <1>4, <1>7, <1>9, <2>1, <2>2, <2>3 DEF Registers, Old
<1>11. CallSound(c)'
  <2>1. Fresh(c)'
    BY <1>2, <1>4, <1>5, <1>7, ReadersSame DEF Fresh
  <2> QED  BY <1>1, <1>2, <1>4, <1>10, <2>1 DEF CallSound
<1>12. ASSUME NEW d \in Callers, d # c, call[d] # Idle PROVE Apart(c, d)' /\ Apart(d, c)'
  <2>1. Apart(c, d) /\ Apart(d, c) /\ CallSound(d)
    BY <1>2, <1>12 DEF RegistrationInv
  <2>2. call[d].stage = "lock" /\ Fresh(d)
    BY <1>2, <1>12, <2>1, ShapedFacts DEF CallSound, Shaped
  <2>3. Old(c) # None => Old(c).latest # call[d].id
    BY <1>8, <2>2 DEF Fresh
  <2> QED  BY <1>3, <1>4, <1>12, <2>1, <2>3 DEF Apart
<1>13. cuts' = 0 => cuts = 0 /\ \A k \in Keys : Base(k)' = Base(k)
  <2>1. ~Undoable(c) /\ ~Undoable(c)'
    BY <1>2, <1>4 DEF Undoable
  <2> QED  BY <1>1, <1>2, <2>1, BaseSame
<1> QED  BY <1>1, <1>2, <1>3, <1>5, <1>11, <1>12, <1>13, QuietStep DEF Counters

\* The log stays sound as it is.
LEMMA LogSame == ASSUME RegistrationInv, UNCHANGED audit PROVE LogSound' /\ audit \subseteq audit'
BY DEF RegistrationInv, LogSound, Traced

LEMMA WriteFailsStep ==
  ASSUME RegistrationInv, NEW c \in Callers, WriteFails(c) PROVE RegistrationInv'
<1>1. /\ call[c].stage \in {"validation", "record", "index"} /\ faults' = faults + 1
      /\ UNCHANGED <<record, validations, index, audit, torn, lock, issued, cuts>>
  BY DEF WriteFails
<1>2. call[c] # Idle /\ Shaped(call[c]) /\ Fresh(c) /\ lock = c /\ Counters
  BY <1>1, HolderFacts DEF Held
<1>3. LogSound' /\ UNCHANGED OnDisk /\ torn' \in BOOLEAN /\ faults' \in Nat /\ cuts' \in Nat
  BY <1>1, <1>2, LogSame DEF Counters, OnDisk
<1>4. CASE call[c].stage = "index" /\ call[c].kind = "register"
  <2>1. Goes(c, "undo")
    BY <1>4 DEF WriteFails, At
  <2>2. /\ call' = [e \in Callers |-> call'[e]]
        /\ \A d \in Callers : d # c => call'[d] = call[d]
        /\ Shaped(call'[c]) /\ call'[c].stage = "undo" /\ call'[c].kind = "register"
        /\ call'[c].id = call[c].id
        /\ call'[c].verdict = call[c].verdict /\ call'[c].version = call[c].version
        /\ call'[c].old = call[c].old
    BY <1>2, <1>4, <2>1, GoesFacts DEF Held
  <2>3. Counters'
    BY <1>1, <1>2, <1>3, <2>2 DEF Counters
  <2>4. CallSound(c)'
    <3>1. Fresh(c)'
      BY <1>1, <1>2, <2>2 DEF Fresh
    <3>2. Registers(c)
      BY <1>2, <1>4 DEF RegistrationInv, CallSound, Writing
    <3>3. Registers(c)'
      BY <1>1, <1>2, <1>3, <1>4, <2>2, <3>2, RegistersSame DEF Counters
    <3> QED  BY <1>1, <1>2, <2>2, <3>1, <3>3 DEF CallSound, Shaped
  <2>5. \A d \in Callers : d # c /\ call[d] # Idle => Apart(c, d)' /\ Apart(d, c)'
    BY <1>2, <1>4, <2>2, ApartSame DEF Writing
  <2>6. \A k \in Keys : Base(k)' = Base(k)
    <3>1. Undoable(c) /\ Undoable(c)'
      BY <1>4, <2>2 DEF Undoable
    <3> QED  BY <1>1, <1>2, <2>2, <3>1, BaseSame
  <2> QED  BY <1>1, <1>2, <1>3, <2>2, <2>3, <2>4, <2>5, <2>6, QuietStep DEF Counters
<1>5. CASE ~(call[c].stage = "index" /\ call[c].kind = "register")
  <2>1. Goes(c, "release")
    BY <1>5 DEF WriteFails, At
  <2>2. ~Undoable(c)
    BY <1>1, <1>5 DEF Undoable
  <2> QED  BY <1>1, <1>3, <2>1, <2>2, LeaveStep DEF Held
<1> QED  BY <1>4, <1>5

LEMMA UndoFailsStep ==
  ASSUME RegistrationInv, NEW c \in Callers, UndoFails(c) PROVE RegistrationInv'
<1>1. /\ call[c].stage \in Held /\ Goes(c, "release") /\ cuts' = cuts + 1
      /\ UNCHANGED <<record, validations, index, audit, torn, lock, issued, faults>>
  BY DEF UndoFails, Held
<1>2. Counters
  BY DEF RegistrationInv
<1>3. torn' \in BOOLEAN /\ faults' \in Nat /\ cuts' \in Nat /\ cuts' # 0
  BY <1>1, <1>2 DEF Counters
<1> QED  BY <1>1, <1>3, LogSame, LeaveStep

LEMMA AppendAuditStep ==
  ASSUME RegistrationInv, NEW c \in Callers, AppendAudit(c) PROVE RegistrationInv'
<1>1. /\ call[c].stage = "audit" /\ Goes(c, "release")
      /\ audit' = audit \cup ToSet(call[c].pending)
      /\ UNCHANGED <<record, validations, index, torn, lock, issued, faults, cuts>>
  BY DEF AppendAudit, At
<1>2. call[c] # Idle /\ Shaped(call[c]) /\ Counters
  BY <1>1, HolderFacts DEF Held
<1>3. Explains(c) /\ LogSound
  BY <1>1, <1>2 DEF RegistrationInv, CallSound
<1>4. call[c].pending \in Seq(AuditEvents)
  BY <1>2, ShapedFacts
<1>5. LogSound'
  <2>1. audit' \subseteq AuditEvents
    BY <1>1, <1>3, <1>4 DEF LogSound, ToSet
  <2>2. ASSUME NEW hit \in audit', hit.event = "idempotent_hit" PROVE Traced(hit.record, audit')
    <3>1. CASE hit \in audit
      BY <1>1, <1>3, <2>2, <3>1, TracedGrows DEF LogSound
    <3>2. CASE hit \in ToSet(call[c].pending)
      BY <1>1, <1>3, <2>2, <3>2 DEF Explains, ToSet
    <3> QED  BY <1>1, <3>1, <3>2
  <2> QED  BY <2>1, <2>2 DEF LogSound, Traced
<1>6. ~Undoable(c)
  BY <1>1 DEF Undoable
<1> QED  BY <1>1, <1>2, <1>5, <1>6, LeaveStep DEF Held, Counters

LEMMA AppendFailsStep ==
  ASSUME RegistrationInv, NEW c \in Callers, AppendFails(c) PROVE RegistrationInv'
<1>1. /\ call[c].stage = "audit" /\ Goes(c, "release") /\ faults' = faults + 1
      /\ torn' \in BOOLEAN
      /\ UNCHANGED <<record, validations, index, lock, issued, cuts>>
  BY DEF AppendFails, At
<1>2. call[c] # Idle /\ Shaped(call[c]) /\ Counters
  BY <1>1, HolderFacts DEF Held
<1>3. Explains(c) /\ LogSound
  BY <1>1, <1>2 DEF RegistrationInv, CallSound
<1>4. call[c].pending \in Seq(AuditEvents)
  BY <1>2, ShapedFacts
<1>5. PICK n \in 0 .. Len(call[c].pending) - 1 : audit' = Written(c, n)
  BY DEF AppendFails
<1>6. LogSound' /\ audit \subseteq audit'
  <2>1. n \in 0 .. Len(call[c].pending)
    BY <1>4
  <2> QED  BY <1>3, <1>4, <1>5, <2>1, WrittenFacts DEF LogSound, Traced
<1>7. ~Undoable(c)
  BY <1>1 DEF Undoable
<1>8. faults' \in Nat /\ cuts' \in Nat
  BY <1>1, <1>2 DEF Counters
<1> QED  BY <1>1, <1>6, <1>7, <1>8, LeaveStep DEF Held

LEMMA CrashStep == ASSUME RegistrationInv, Crash PROVE RegistrationInv'
<1>1. /\ cuts' = cuts + 1 /\ call' = [c \in Callers |-> Idle]
      /\ UNCHANGED <<record, validations, index, torn, issued, faults>>
  BY DEF Crash
<1>2. Counters /\ FilesSound /\ LogSound
  BY DEF RegistrationInv
<1>3. LogSound'
  <2>1. CASE UNCHANGED audit
    BY <2>1, LogSame
  <2>2. CASE ~UNCHANGED audit
    <3>1. /\ lock \in Callers /\ call[lock].stage = "audit"
          /\ \E n \in 0 .. Len(call[lock].pending) : audit' = Written(lock, n)
      BY <2>2 DEF Crash, At
    <3>2. Explains(lock) /\ Shaped(call[lock])
      BY <3>1, HolderFacts DEF Held, RegistrationInv, CallSound
    <3>3. PICK n \in 0 .. Len(call[lock].pending) : audit' = Written(lock, n)
      BY <3>1
    <3>4. call[lock].pending \in Seq(AuditEvents)
      BY <3>2, ShapedFacts
    <3> QED  BY <1>2, <3>2, <3>3, <3>4, WrittenFacts DEF LogSound, Traced
  <2> QED  BY <2>1, <2>2
<1>4. lock' \in {lock, Left} /\ lock' \notin Callers
  BY RegistrationAssumption DEF Crash
<1>5. Counters'
  BY <1>1, <1>2, <1>4 DEF Counters
<1>6. FilesSound'
  BY <1>1, <1>2, FilesSame DEF Counters, OnDisk
<1>7. \A c \in Callers : call'[c] = Idle
  BY <1>1
<1>8. \A c \in Callers : CallSound(c)'
  BY <1>7 DEF CallSound
<1>9. cuts' # 0
  BY <1>1, <1>2 DEF Counters
<1> QED  BY <1>3, <1>5, <1>6, <1>7, <1>8, <1>9 DEF RegistrationInv

LEMMA ClearLockStep == ASSUME RegistrationInv, ClearLock PROVE RegistrationInv'
<1>1. /\ lock = Left /\ lock' = None
      /\ UNCHANGED <<record, validations, index, audit, torn, call, issued, faults, cuts>>
  BY DEF ClearLock
<1>2. Counters /\ Counters' /\ FilesSound
  BY <1>1 DEF RegistrationInv, Counters
<1>3. FilesSound'
  BY <1>1, <1>2, FilesSame DEF Counters, OnDisk
<1>4. lock \notin Callers /\ lock' \notin Callers
  BY <1>1, RegistrationAssumption
<1>5. \A c \in Callers : CallSound(c)'
  <2> SUFFICES ASSUME NEW c \in Callers PROVE CallSound(c)'
    OBVIOUS
  <2> QED  BY <1>1, <1>2, <1>4, CallSame DEF RegistrationInv, Counters, OnDisk
<1>6. \A k : Base(k)' = Base(k)
  BY <1>1, <1>4, BaseSame
<1>7. \A k : Agreed(k, Base(k))' = Agreed(k, Base(k))
  BY <1>1, <1>6 DEF Agreed, Listed, Entry
<1>8. \A c, d : Apart(c, d)' = Apart(c, d)
  BY <1>1 DEF Apart
<1> QED  BY <1>1, <1>2, <1>3, <1>5, <1>7, <1>8, LogSame DEF RegistrationInv

LEMMA RebuildStep == ASSUME RegistrationInv, NEW c \in Callers, Rebuild(c) PROVE RegistrationInv'
<1> DEFINE list == [k \in Recorded |-> Entry(record[k])]
<1>1. /\ call[c].stage = "check" /\ call[c].kind = "rebuild" /\ IndexReadable /\ Rebuildable
      /\ call' = [call EXCEPT ![c].stage = "index", ![c].entries = list]
      /\ UNCHANGED <<record, validations, index, audit, torn, lock, issued, faults, cuts>>
  BY DEF Rebuild, At, Preflight
<1>2. call[c] # Idle /\ Shaped(call[c]) /\ Fresh(c) /\ lock = c /\ Counters
  BY <1>1, HolderFacts DEF Held
<1>3. RebuildCall(call[c])
  BY <1>1, <1>2, ShapedFacts
<1> HIDE DEF list
<1>4. /\ call' = [e \in Callers |-> call'[e]]
      /\ \A d \in Callers : d # c => call'[d] = call[d]
      /\ call'[c] = [call[c] EXCEPT !.stage = "index", !.entries = list]
  BY <1>1, <1>2 DEF Counters
<1>5. /\ RebuildCall(call'[c]) /\ call'[c].stage = "index" /\ call'[c].kind = "rebuild"
      /\ call'[c].id = call[c].id /\ call'[c].entries = list
  <2> DEFINE x == call[c]
             z == [x EXCEPT !.stage = "index"]
             y == [x EXCEPT !.stage = "index", !.entries = list]
  <2>1. z = [stage |-> "index", kind |-> "rebuild", id |-> x.id, expected |-> x.expected,
             entries |-> x.entries, pending |-> x.pending]
    BY <1>3 DEF RebuildCall
  <2>2. y = [z EXCEPT !.entries = list]
    OBVIOUS
  <2>3. x.id \in Nat /\ x.pending \in Seq(AuditEvents)
    BY <1>3 DEF RebuildCall
  <2>4. call'[c] = y
    BY <1>4
  <2> HIDE DEF x, z, y
  <2>5. y = [stage |-> "index", kind |-> "rebuild", id |-> x.id, expected |-> x.expected,
             entries |-> list, pending |-> x.pending]
    BY <2>1, <2>2
  <2>6. RebuildCall(y) /\ y.stage = "index" /\ y.kind = "rebuild" /\ y.id = x.id
        /\ y.entries = list
    BY <2>3, <2>5 DEF RebuildCall
  <2> QED  BY <2>4, <2>6 DEF x
<1>6. Counters' /\ LogSound' /\ UNCHANGED OnDisk
  BY <1>1, <1>2, <1>4, LogSame DEF Counters, OnDisk
<1>7. CallSound(c)'
  <2>1. Fresh(c)'
    BY <1>1, <1>2, <1>5 DEF Fresh
  <2>2. Rebuilds(c)'
    <3>1. list' = list
      BY <1>1 DEF list, Recorded, Entry
    <3>2. IndexReadable' /\ Rebuildable'
      BY <1>1, <1>6, ReadersSame
    <3>3. call'[c].entries = list'
      BY <1>5, <3>1
    <3> QED  BY <3>2, <3>3 DEF Rebuilds, list
  <2> QED  BY <1>1, <1>2, <1>5, <2>1, <2>2 DEF CallSound
<1>8. \A d \in Callers : d # c /\ call[d] # Idle => Apart(c, d)' /\ Apart(d, c)'
  BY <1>1, <1>2, <1>4, <1>5, ApartSame
<1>9. \A k \in Keys : Base(k)' = Base(k)
  <2>1. ~Undoable(c) /\ ~Undoable(c)'
    BY <1>1, <1>5 DEF Undoable
  <2> QED  BY <1>1, <1>2, <2>1, BaseSame
<1> QED  BY <1>1, <1>2, <1>4, <1>6, <1>7, <1>8, <1>9, QuietStep DEF Counters

----------------------------------------------------------------------------
(* The steps of a call that write a file. *)

\* A step of the holder of the lock that writes a file. Whoever else has begun
\* waits, with a number that no file has.
LEMMA WritingStep ==
  ASSUME RegistrationInv, NEW c \in Callers, call[c].stage \in Held,
         UNCHANGED <<audit, torn, lock, issued, faults, cuts>>,
         call' = [e \in Callers |-> call'[e]],
         \A d \in Callers : d # c => call'[d] = call[d],
         FilesSound', CallSound(c)',
         call'[c].id = call[c].id, call'[c].kind = call[c].kind,
         call'[c].kind = "register" /\ call'[c].stage \in Writing =>
           call[c].stage \in Writing /\ call'[c].old = call[c].old,
         DOMAIN validations' \subseteq DOMAIN validations \cup {call[c].id},
         \A k \in Recorded' :
           \/ k \in Recorded /\ record'[k].latest = record[k].latest
           \/ record'[k].latest = call[c].id
           \/ /\ call[c].kind = "register" /\ call[c].stage \in Writing /\ call[c].old # None
              /\ record'[k].latest = call[c].old.latest,
         cuts = 0 => \A k \in Keys : Agreed(k, Base(k))'
  PROVE  RegistrationInv'
<1>1. call[c] # Idle /\ lock = c /\ Counters
  BY HolderFacts
<1>2. Counters' /\ LogSound'
  BY <1>1, LogSame DEF Counters
<1>3. \A d \in Callers : d # c /\ call[d] # Idle => Apart(c, d) /\ Apart(d, c)
  BY <1>1 DEF RegistrationInv
<1>4. \A d \in Callers : d # c /\ call[d] # Idle => Apart(c, d)' /\ Apart(d, c)'
  BY <1>1, ApartSame
<1>5. ASSUME NEW d \in Callers, d # c PROVE CallSound(d)'
  <2>1. call'[d] = call[d] /\ CallSound(d)
    BY <1>5 DEF RegistrationInv
  <2>2. CASE call[d] = Idle
    BY <2>1, <2>2 DEF CallSound
  <2>3. CASE call[d] # Idle
    <3>1. Shaped(call[d]) /\ Fresh(d) /\ call[d].stage = "lock"
      BY <1>1, <1>5, <2>1, <2>3, ShapedFacts DEF CallSound, Shaped
    <3>2. Apart(c, d) /\ Apart(d, c)
      BY <1>3, <1>5, <2>3
    <3>3. call[d].id \notin DOMAIN validations'
      BY <3>1, <3>2 DEF Fresh, Apart
    <3>4. \A k \in Recorded' : record'[k].latest # call[d].id
      BY <3>1, <3>2 DEF Fresh, Apart
    <3>5. Fresh(d)'
      BY <2>1, <3>1, <3>3, <3>4 DEF Fresh
    <3> QED  BY <2>1, <3>1, <3>5 DEF CallSound, Shaped, Held, Writing
  <2> QED  BY <2>2, <2>3
<1>6. ASSUME NEW d \in Callers, NEW e \in Callers, d # e, call'[d] # Idle, call'[e] # Idle
      PROVE  Apart(d, e)'
  <2>1. CASE d # c /\ e # c
    <3>1. call'[d] = call[d] /\ call'[e] = call[e]
      BY <2>1
    <3>2. Apart(d, e)
      BY <1>6, <3>1 DEF RegistrationInv
    <3> QED  BY <3>1, <3>2 DEF Apart
  <2>2. CASE d = c
    BY <1>4, <1>6, <2>2
  <2>3. CASE e = c
    BY <1>4, <1>6, <2>3
  <2> QED  BY <2>1, <2>2, <2>3
<1> QED  BY <1>2, <1>5, <1>6 DEF RegistrationInv

\* A registration that writes.
LEMMA WriterFacts ==
  ASSUME RegistrationInv, NEW c \in Callers, call[c].stage \in Writing,
         call[c].kind = "register" \/ call[c].stage # "index"
  PROVE  /\ call[c].stage \in Held /\ call[c].kind = "register" /\ call[c] \in RegisterCalls
         /\ call[c] # Idle /\ Shaped(call[c]) /\ Fresh(c) /\ lock = c /\ Counters
         /\ FilesSound /\ Registers(c) /\ call[c].id \in Nat
         /\ call[c].verdict.package \in Packages /\ Passes(call[c].verdict.package)
         /\ Key(c) \in Keys /\ call[c].verdict.package.manifest.sum \in Sums
         /\ call[c].verdict.package.manifest.key = Key(c)
         /\ call[c].old \in EvidencePackageRecords \cup {None}
<1>1. call[c].stage \in Held
  BY DEF Writing, Held
<1>2. call[c] # Idle /\ Shaped(call[c]) /\ Fresh(c) /\ lock = c /\ Counters
  BY <1>1, HolderFacts
<1>3. call[c].kind = "register"
  <2>1. call[c].kind = "rebuild" => call[c].stage \in {"lock", "check", "index", "audit", "release"}
    BY <1>2, ShapedFacts DEF RebuildCall
  <2> QED  BY <1>2, <2>1, ShapedFacts DEF Writing
<1>4. call[c] \in RegisterCalls
  BY <1>2, <1>3, ShapedFacts
<1>5. /\ call[c].verdict \in Verdicts /\ call[c].id \in Nat
      /\ call[c].old \in EvidencePackageRecords \cup {None}
  BY <1>4 DEF RegisterCalls
<1>6. FilesSound /\ Registers(c)
  BY <1>2, <1>3 DEF RegistrationInv, CallSound
<1>7. call[c].verdict.allowed
  BY <1>6 DEF Registers
<1>8. /\ call[c].verdict.package \in Packages /\ Passes(call[c].verdict.package)
      /\ Key(c) \in Keys /\ call[c].verdict.package.manifest.sum \in Sums
  BY <1>5, <1>7, VerdictSound DEF Key
<1> QED  BY <1>1, <1>2, <1>3, <1>4, <1>5, <1>6, <1>8 DEF Key

LEMMA WriteValidationStep ==
  ASSUME RegistrationInv, NEW c \in Callers, WriteValidation(c) PROVE RegistrationInv'
<1>1. /\ call[c].stage = "validation" /\ validations' = Put(validations, call[c].id, Validation(c))
      /\ Goes(c, "record")
      /\ UNCHANGED <<record, index, audit, torn, lock, issued, faults, cuts>>
  BY DEF WriteValidation, At
<1>2. /\ call[c].stage \in Held /\ call[c].stage \in Writing
      /\ call[c].kind = "register" /\ call[c] # Idle /\ Shaped(call[c]) /\ Fresh(c)
      /\ lock = c /\ Counters /\ FilesSound /\ Registers(c) /\ call[c].id \in Nat
      /\ call[c].verdict.package \in Packages /\ Passes(call[c].verdict.package)
  BY <1>1, WriterFacts DEF Writing
<1>3. /\ call' = [e \in Callers |-> call'[e]]
      /\ \A d \in Callers : d # c => call'[d] = call[d]
      /\ Shaped(call'[c]) /\ call'[c].stage = "record" /\ call'[c].kind = call[c].kind
      /\ call'[c].id = call[c].id /\ call'[c].verdict = call[c].verdict
      /\ call'[c].version = call[c].version /\ call'[c].old = call[c].old
  BY <1>1, <1>2, GoesFacts DEF Held
<1>4. /\ call[c].id \notin DOMAIN validations
      /\ DOMAIN validations' = DOMAIN validations \cup {call[c].id}
      /\ validations'[call[c].id] = Validation(c)
      /\ \A i \in DOMAIN validations : validations'[i] = validations[i]
  <2>1. call[c].id \notin DOMAIN validations
    BY <1>1, <1>2 DEF Fresh
  <2> DEFINE id == call[c].id
             v == Validation(c)
  <2>2. validations' = Put(validations, id, v)
    BY <1>1
  <2> HIDE DEF id, v
  <2>3. /\ DOMAIN validations' = DOMAIN validations \cup {id} /\ validations'[id] = v
        /\ \A i \in DOMAIN validations : i # id => validations'[i] = validations[i]
    BY <2>2 DEF Put
  <2>4. \A i \in DOMAIN validations : validations'[i] = validations[i]
    BY <2>1, <2>3 DEF id
  <2> QED  BY <2>1, <2>3, <2>4 DEF id, v
<1>5. Validation(c).package = call[c].verdict.package /\ Validation(c)' = Validation(c)
      /\ Key(c)' = Key(c) /\ Recorded' = Recorded /\ \A k : Listed(k)' = Listed(k)
  BY <1>1, <1>3 DEF Validation, ValidationResult, Key, Recorded, Listed
<1>6. FilesSound'
  <2>1. IndexTyped' /\ record' \in [Keys -> EvidencePackageRecords \cup {None}]
    BY <1>1, <1>2 DEF FilesSound, IndexTyped
  <2>2. ASSUME NEW i \in DOMAIN validations'
        PROVE  /\ i \in Nat /\ i <= issued
               /\ validations'[i].package \in Packages /\ Passes(validations'[i].package)
    BY <1>2, <1>4, <1>5 DEF FilesSound, Fresh
  <2>3. ASSUME NEW k \in Recorded
        PROVE  /\ record[k].latest <= issued
               /\ record[k].latest \in DOMAIN validations' =>
                    validations'[record[k].latest].package.manifest.key = k
    BY <1>1, <1>2, <1>4 DEF FilesSound, Fresh
  <2>4. ASSUME NEW k \in Keys, Listed(k)
        PROVE  /\ index.entries[k].latest \in DOMAIN validations'
               /\ validations'[index.entries[k].latest].package.manifest.key = k
    BY <1>2, <1>4, <2>4 DEF FilesSound
  <2> QED  BY <1>1, <1>5, <2>1, <2>2, <2>3, <2>4 DEF FilesSound
<1>7. CallSound(c)'
  <2>1. Fresh(c)'
    BY <1>1, <1>2, <1>3, <1>5 DEF Fresh
  <2>2. Remembers(c)'
    BY <1>1, <1>2, <1>3, <1>4, <1>5 DEF Registers, Remembers
  <2>3. \A k \in Keys : Listed(k) => index.entries[k].latest \in DOMAIN validations
    BY <1>2 DEF FilesSound
  <2>4. Key(c) \in Keys
    BY <1>1, WriterFacts DEF Writing
  <2>5. Listed(Key(c)) => validations'[index.entries[Key(c)].latest].package.manifest.sum
                            = call[c].verdict.package.manifest.sum
    BY <1>1, <1>2, <1>4, <2>3, <2>4 DEF Registers
  <2>6. Registers(c)'
    BY <1>1, <1>2, <1>3, <1>4, <1>5, <2>2, <2>5 DEF Registers
  <2> QED  BY <1>1, <1>2, <1>3, <2>1, <2>6 DEF CallSound, Shaped
<1>8. ASSUME cuts = 0, NEW k \in Keys PROVE Agreed(k, Base(k))'
  <2>1. ~Undoable(c) /\ ~Undoable(c)'
    BY <1>1, <1>3 DEF Undoable
  <2>2. Base(k)' = Base(k) /\ Agreed(k, Base(k))
    BY <1>1, <1>2, <1>8, <2>1, BaseSame DEF RegistrationInv
  <2> QED  BY <1>1, <1>4, <1>5, <2>2 DEF Agreed, Entry
<1> QED  BY <1>1, <1>2, <1>3, <1>4, <1>5, <1>6, <1>7, <1>8, WritingStep

\* The record a registration writes.
LEMMA NewRecordFacts ==
  ASSUME RegistrationInv, NEW c \in Callers, call[c].stage \in {"record", "index"},
         call[c].kind = "register"
  PROVE  /\ NewRecord(c) \in EvidencePackageRecords /\ NewRecord(c) # None
         /\ NewRecord(c).latest = call[c].id
         /\ NewRecord(c).manifest = call[c].verdict.package.manifest.sum
<1>1. /\ Registers(c) /\ call[c].id \in Nat /\ call[c].verdict.package.manifest.sum \in Sums
      /\ call[c].old \in EvidencePackageRecords \cup {None}
  BY WriterFacts DEF Writing
<1>2. CASE call[c].old = None
  BY <1>1, <1>2, NoneAssumption DEF NewRecord, EvidencePackageRecord, EvidencePackageRecords
<1>3. CASE call[c].old # None
  <2>1. call[c].old.manifest = call[c].verdict.package.manifest.sum
    BY <1>1, <1>3 DEF Registers, Remembers
  <2> DEFINE r == call[c].old
             s == [r EXCEPT !.latest = call[c].id]
             t == [s EXCEPT !.revision = r.revision + 1]
  <2>2. s \in EvidencePackageRecords /\ s.latest = call[c].id /\ s.manifest = r.manifest
    BY <1>1, <1>3 DEF EvidencePackageRecords
  <2>3. r.revision + 1 \in Nat
    BY <1>1, <1>3 DEF EvidencePackageRecords
  <2>4. NewRecord(c) = t
    BY <1>3 DEF NewRecord
  <2> HIDE DEF s
  <2>5. t \in EvidencePackageRecords /\ t.latest = s.latest /\ t.manifest = s.manifest
    BY <2>2, <2>3 DEF EvidencePackageRecords
  <2> QED  BY <2>1, <2>2, <2>4, <2>5, NoneAssumption
<1> QED  BY <1>2, <1>3

LEMMA WriteRecordStep ==
  ASSUME RegistrationInv, NEW c \in Callers, WriteRecord(c) PROVE RegistrationInv'
<1>1. /\ call[c].stage = "record" /\ record' = [record EXCEPT ![Key(c)] = NewRecord(c)]
      /\ Goes(c, "index")
      /\ UNCHANGED <<validations, index, audit, torn, lock, issued, faults, cuts>>
  BY DEF WriteRecord, At
<1>2. /\ call[c].stage \in Held /\ call[c].stage \in Writing
      /\ call[c].kind = "register" /\ call[c] # Idle /\ Shaped(call[c]) /\ Fresh(c)
      /\ lock = c /\ Counters /\ FilesSound /\ Registers(c) /\ call[c].id \in Nat
      /\ Key(c) \in Keys /\ call[c].verdict.package.manifest.key = Key(c)
  BY <1>1, WriterFacts DEF Writing
<1>3. /\ call' = [e \in Callers |-> call'[e]]
      /\ \A d \in Callers : d # c => call'[d] = call[d]
      /\ Shaped(call'[c]) /\ call'[c].stage = "index" /\ call'[c].kind = call[c].kind
      /\ call'[c].id = call[c].id /\ call'[c].verdict = call[c].verdict
      /\ call'[c].version = call[c].version /\ call'[c].old = call[c].old
  BY <1>1, <1>2, GoesFacts DEF Held
<1>4. /\ NewRecord(c) \in EvidencePackageRecords /\ NewRecord(c) # None
      /\ NewRecord(c).latest = call[c].id
  BY <1>1, <1>2, NewRecordFacts
<1>5. /\ record' \in [Keys -> EvidencePackageRecords \cup {None}]
      /\ record'[Key(c)] = NewRecord(c) /\ \A k \in Keys : k # Key(c) => record'[k] = record[k]
      /\ Recorded' = Recorded \cup {Key(c)}
  <2>1. record \in [Keys -> EvidencePackageRecords \cup {None}]
    BY <1>2 DEF FilesSound
  <2>2. record'[Key(c)] = NewRecord(c) /\ \A k \in Keys : k # Key(c) => record'[k] = record[k]
    BY <1>1, <1>2, <2>1
  <2> QED  BY <1>1, <1>2, <1>4, <2>1, <2>2 DEF Recorded
<1>6. Key(c)' = Key(c) /\ Validation(c)' = Validation(c) /\ NewRecord(c)' = NewRecord(c)
      /\ \A k : Listed(k)' = Listed(k)
  BY <1>1, <1>3 DEF Key, Validation, NewRecord, Listed
<1>7. call[c].id \in DOMAIN validations /\ validations[call[c].id] = Validation(c)
      /\ Validation(c).package.manifest.key = Key(c)
  BY <1>1, <1>2 DEF Registers, Validation, ValidationResult
<1>8. FilesSound'
  <2>1. IndexTyped'
    BY <1>1, <1>2 DEF FilesSound, IndexTyped
  <2>2. ASSUME NEW k \in Recorded'
        PROVE  /\ record'[k].latest <= issued
               /\ record'[k].latest \in DOMAIN validations =>
                    validations[record'[k].latest].package.manifest.key = k
    <3>1. CASE k = Key(c)
      BY <1>2, <1>4, <1>5, <1>7, <3>1 DEF Fresh
    <3>2. CASE k # Key(c)
      <4>1. k \in Recorded /\ record'[k] = record[k]
        BY <1>5, <3>2 DEF Recorded
      <4> QED  BY <1>2, <4>1 DEF FilesSound
    <3> QED  BY <3>1, <3>2
  <2> QED  BY <1>1, <1>2, <1>5, <1>6, <2>1, <2>2 DEF FilesSound
<1>9. CallSound(c)'
  <2>1. Fresh(c)'
    BY <1>1, <1>2, <1>3 DEF Fresh
  <2>2. Remembers(c)'
    BY <1>1, <1>2, <1>3, <1>6 DEF Registers, Remembers
  <2>3. Registers(c)'
    BY <1>1, <1>2, <1>3, <1>5, <1>6, <1>7, <2>2 DEF Registers
  <2> QED  BY <1>1, <1>2, <1>3, <2>1, <2>3 DEF CallSound, Shaped
<1>10. ASSUME cuts = 0, NEW k \in Keys PROVE Agreed(k, Base(k))'
  <2>1. Base(k) = record[k] /\ record[Key(c)] = call[c].old /\ Agreed(k, Base(k))
    BY <1>1, <1>2, <1>10 DEF Base, Registers, RegistrationInv
  <2>2. Base(k)' = IF k = Key(c) THEN call[c].old ELSE record'[k]
    BY <1>1, <1>2, <1>3, <1>6 DEF Base
  <2>3. Base(k)' = Base(k)
    BY <1>5, <2>1, <2>2
  <2> QED  BY <1>1, <1>6, <2>1, <2>3 DEF Agreed, Entry
<1>11. \A k \in Recorded' :
         \/ k \in Recorded /\ record'[k].latest = record[k].latest
         \/ record'[k].latest = call[c].id
  BY <1>4, <1>5 DEF Recorded
<1> QED  BY <1>1, <1>2, <1>3, <1>8, <1>9, <1>10, <1>11, WritingStep

\* Entries are typed, and so is an index of them.
LEMMA EntryTyped ==
  ASSUME NEW r \in EvidencePackageRecords
  PROVE  Entry(r) \in RegistrationEntries /\ Entry(r).latest = r.latest
BY DEF Entry, EvidencePackageRecords, RegistrationEntries

LEMMA IndexWritten ==
  ASSUME FilesSound, NEW c, NEW K \in SUBSET Keys, NEW entries \in [K -> RegistrationEntries],
         WriteIndex(c, entries)
  PROVE  /\ IndexTyped' /\ index' # None /\ index'.entries = entries
         /\ \A k : Listed(k)' <=> k \in K
<1>1. IndexRevision + 1 \in Nat
  BY IndexRevisionNat
<1> DEFINE n == IndexRevision + 1
<1>2. index' = RegistrationIndex(n, entries)
  BY DEF WriteIndex
<1> HIDE DEF n
<1>3. index'.revision = n /\ index'.entries = entries
  BY <1>2 DEF RegistrationIndex
<1>4. n \in Nat /\ DOMAIN entries = K
  BY <1>1 DEF n
<1>5. index' \in RegistrationIndexes
  <2>1. entries \in UNION {[S -> RegistrationEntries] : S \in SUBSET Keys}
    OBVIOUS
  <2> QED  BY <1>2, <1>4, <2>1 DEF RegistrationIndex, RegistrationIndexes
<1>6. index' # None
  BY <1>5, NoneAssumption
<1>7. index' = RegistrationIndex(index'.revision, index'.entries)
  BY <1>2, <1>3
<1>8. IndexTyped'
  <2>1. DOMAIN index'.entries \subseteq Keys
    BY <1>3, <1>4
  <2>2. index'.entries \in [DOMAIN index'.entries -> RegistrationEntries]
    BY <1>3, <1>4
  <2> QED  BY <1>3, <1>4, <1>7, <2>1, <2>2 DEF IndexTyped, RegistrationIndex
<1> QED  BY <1>3, <1>4, <1>6, <1>8 DEF Listed

\* The index with the entry of a registration in its place, which is about the
\* validation the call has written.
LEMMA CommitIndexFacts ==
  ASSUME RegistrationInv, NEW c \in Callers, CommitIndex(c)
  PROVE  LET r == record[Key(c)]
         IN  /\ r \in EvidencePackageRecords /\ r # None /\ r.latest = call[c].id
             /\ r.manifest = call[c].verdict.package.manifest.sum
             /\ call[c].id \in DOMAIN validations
             /\ validations[call[c].id].package = call[c].verdict.package
             /\ IndexTyped'
             /\ \A k \in Keys : k = Key(c) => Listed(k)' /\ index'.entries[k] = Entry(r)
             /\ \A k \in Keys : k # Key(c) =>
                  Listed(k)' = Listed(k) /\ (Listed(k) => index'.entries[k] = index.entries[k])
<1> DEFINE r == record[Key(c)]
           entries == UpsertEntry(c)
           K == {k \in Keys : Listed(k)} \cup {Key(c)}
<1>1. /\ call[c].stage = "index" /\ call[c].kind = "register" /\ WriteIndex(c, entries)
  BY DEF CommitIndex, At
<1>2. FilesSound /\ Registers(c) /\ Key(c) \in Keys
  BY <1>1, WriterFacts DEF Writing
<1>3. /\ r \in EvidencePackageRecords /\ r # None /\ r.latest = call[c].id
      /\ r.manifest = call[c].verdict.package.manifest.sum
  BY <1>1, <1>2, NewRecordFacts DEF Registers
<1>4. call[c].id \in DOMAIN validations
      /\ validations[call[c].id].package = call[c].verdict.package
  BY <1>1, <1>2 DEF Registers, Validation, ValidationResult
<1> HIDE DEF entries, r
<1>5. /\ entries \in [K -> RegistrationEntries] /\ entries[Key(c)] = Entry(r)
      /\ \A k \in Keys : k # Key(c) /\ Listed(k) => entries[k] = index.entries[k]
  <2> DEFINE now == IF index = None THEN << >> ELSE index.entries
             k0 == Key(c)
             e0 == Entry(r)
  <2>1. entries = Put(now, k0, e0)
    BY DEF entries, UpsertEntry, r
  <2>2. /\ DOMAIN now = {k \in Keys : Listed(k)}
        /\ \A k \in DOMAIN now : now[k] \in RegistrationEntries /\ now[k] = index.entries[k]
    BY <1>2 DEF FilesSound, IndexTyped, Listed
  <2>3. e0 \in RegistrationEntries
    BY <1>3, EntryTyped
  <2>4. K = DOMAIN now \cup {k0}
    BY <2>2
  <2> HIDE DEF now, k0, e0, K
  <2>5. entries \in [K -> RegistrationEntries] /\ entries[k0] = e0
        /\ \A k \in DOMAIN now : k # k0 => entries[k] = now[k]
    BY <2>1, <2>2, <2>3, <2>4 DEF Put
  <2> QED  BY <2>2, <2>5 DEF k0, e0
<1>6. K \in SUBSET Keys
  BY <1>2
<1>7. /\ IndexTyped' /\ index' # None /\ index'.entries = entries
      /\ \A k : Listed(k)' <=> k \in K
  BY <1>1, <1>2, <1>5, <1>6, IndexWritten
<1>8. ASSUME NEW k \in Keys, k # Key(c)
      PROVE  Listed(k)' = Listed(k) /\ (Listed(k) => index'.entries[k] = index.entries[k])
  BY <1>5, <1>7, <1>8 DEF Listed
<1>9. ASSUME NEW k \in Keys, k = Key(c) PROVE Listed(k)' /\ index'.entries[k] = Entry(r)
  BY <1>5, <1>7, <1>9
<1> QED  BY <1>3, <1>4, <1>7, <1>8, <1>9 DEF r

LEMMA CommitIndexStep ==
  ASSUME RegistrationInv, NEW c \in Callers, CommitIndex(c) PROVE RegistrationInv'
<1> DEFINE r == record[Key(c)]
           events == [i \in 1 .. 3 |-> Event(Required(r)[i], r.id)]
<1>1. /\ call[c].stage = "index" /\ call[c].kind = "register"
      /\ call' = [call EXCEPT ![c].stage = "audit", ![c].pending = events]
      /\ UNCHANGED <<record, validations, audit, torn, lock, issued, faults, cuts>>
  BY DEF CommitIndex, At
<1>2. /\ call[c].stage \in Held /\ call[c] # Idle /\ Shaped(call[c]) /\ Fresh(c)
      /\ lock = c /\ Counters /\ FilesSound /\ Registers(c) /\ call[c].id \in Nat
      /\ Key(c) \in Keys /\ call[c].verdict.package.manifest.key = Key(c)
  BY <1>1, WriterFacts DEF Writing
<1>3. /\ r \in EvidencePackageRecords /\ r # None /\ r.latest = call[c].id
      /\ r.manifest = call[c].verdict.package.manifest.sum
      /\ call[c].id \in DOMAIN validations
      /\ validations[call[c].id].package = call[c].verdict.package
      /\ IndexTyped'
      /\ \A k \in Keys : k = Key(c) => Listed(k)' /\ index'.entries[k] = Entry(r)
      /\ \A k \in Keys : k # Key(c) =>
           Listed(k)' = Listed(k) /\ (Listed(k) => index'.entries[k] = index.entries[k])
  BY CommitIndexFacts
<1>4. /\ events \in Seq(AuditEvents)
      /\ \A i \in DOMAIN events : events[i].event # "idempotent_hit"
  <2>1. Required(r) = <<"validation_created", RecordEvent(r), "index_updated">>
        /\ RecordEvent(r) \in {"record_updated", "record_created"}
    BY DEF Required, RecordEvent
  <2> DEFINE three == Required(r)
  <2>2. three[1] = "validation_created" /\ three[3] = "index_updated"
        /\ three[2] \in {"record_updated", "record_created"}
    BY <2>1
  <2> HIDE DEF three
  <2>3. \A i \in 1 .. 3 : three[i] \in AuditTypes /\ three[i] # "idempotent_hit"
    BY <2>2 DEF AuditTypes
  <2>4. r.id \in Nat
    BY <1>3 DEF EvidencePackageRecords
  <2>5. events = [i \in 1 .. 3 |-> Event(three[i], r.id)]
    BY DEF three
  <2> HIDE DEF events, r
  <2>6. \A i \in 1 .. 3 : Event(three[i], r.id) \in AuditEvents
          /\ Event(three[i], r.id).event # "idempotent_hit"
    BY <2>3, <2>4 DEF Event, AuditEvents
  <2> QED  BY <2>5, <2>6
<1> HIDE DEF events, r
<1>5. /\ call' = [e \in Callers |-> call'[e]]
      /\ \A d \in Callers : d # c => call'[d] = call[d]
      /\ Shaped(call'[c]) /\ call'[c].stage = "audit" /\ call'[c].kind = call[c].kind
      /\ call'[c].id = call[c].id /\ call'[c].pending = events
  BY <1>1, <1>2, <1>4, ReportsFacts
<1>6. Recorded' = Recorded /\ record' = record /\ validations' = validations
      /\ issued' = issued
  BY <1>1 DEF Recorded
<1>7. FilesSound'
  <2>1. ASSUME NEW k \in Keys, Listed(k)'
        PROVE  /\ index'.entries[k].latest \in DOMAIN validations
               /\ validations[index'.entries[k].latest].package.manifest.key = k
    <3>1. CASE k = Key(c)
      BY <1>2, <1>3, <3>1, EntryTyped
    <3>2. CASE k # Key(c)
      BY <1>2, <1>3, <2>1, <3>2 DEF FilesSound
    <3> QED  BY <3>1, <3>2
  <2> QED  BY <1>2, <1>3, <1>6, <2>1 DEF FilesSound
<1>8. CallSound(c)'
  <2>1. Fresh(c)'
    BY <1>1, <1>2, <1>5 DEF Fresh
  <2>2. Explains(c)'
    BY <1>4, <1>5 DEF Explains
  <2> QED  BY <1>1, <1>2, <1>5, <2>1, <2>2 DEF CallSound, Shaped, Writing
<1>9. ASSUME cuts = 0, NEW k \in Keys PROVE Agreed(k, Base(k))'
  <2>1. Base(k)' = record[k]
    BY <1>1, <1>2, <1>5 DEF Base
  <2>2. CASE k = Key(c)
    <3>1. record[k] = r
      BY <2>2 DEF r
    <3>2. Listed(k)' /\ index'.entries[k] = Entry(r)
      BY <1>3, <2>2
    <3> QED  BY <1>1, <1>2, <1>3, <2>1, <2>2, <3>1, <3>2 DEF Agreed, Entry
  <2>3. CASE k # Key(c)
    <3>1. Agreed(k, record[k])
      BY <1>1, <1>2, <1>9, <2>3 DEF RegistrationInv, Base
    <3> QED  BY <1>1, <1>3, <2>1, <2>3, <3>1 DEF Agreed, Entry
  <2> QED  BY <2>2, <2>3
<1>10. \A k \in Recorded' : k \in Recorded /\ record'[k].latest = record[k].latest
  BY <1>6
<1> QED  BY <1>1, <1>2, <1>5, <1>6, <1>7, <1>8, <1>9, <1>10, WritingStep DEF Writing

\* The index of a rebuilding has the records there are, each with its validation.
LEMMA CommitRebuildFacts ==
  ASSUME RegistrationInv, NEW c \in Callers, CommitRebuild(c)
  PROVE  /\ IndexTyped' /\ IndexReadable /\ \A k : Listed(k)' <=> k \in Recorded
         /\ \A k \in Recorded :
              /\ record[k].latest \in DOMAIN validations
              /\ validations[record[k].latest].package.manifest.key = k
              /\ index'.entries[k] = Entry(record[k])
              /\ index'.entries[k].latest = record[k].latest
<1> DEFINE entries == call[c].entries
<1>1. call[c].stage = "index" /\ call[c].kind = "rebuild" /\ WriteIndex(c, entries)
  BY DEF CommitRebuild, At
<1>2. FilesSound /\ Rebuilds(c)
  BY <1>1, HolderFacts DEF Held, RegistrationInv, CallSound
<1>3. \A k \in Recorded : record[k] \in EvidencePackageRecords /\ record[k] # None
  BY <1>2 DEF FilesSound, Recorded
<1>4. /\ entries \in [Recorded -> RegistrationEntries]
      /\ \A k \in Recorded : entries[k] = Entry(record[k])
  BY <1>2, <1>3, EntryTyped DEF Rebuilds
<1> HIDE DEF entries
<1>5. IndexTyped' /\ index'.entries = entries /\ \A k : Listed(k)' <=> k \in Recorded
  <2>1. Recorded \in SUBSET Keys
    BY DEF Recorded
  <2> QED  BY <1>1, <1>2, <1>4, <2>1, IndexWritten
<1>6. ASSUME NEW k \in Recorded
      PROVE  /\ record[k].latest \in DOMAIN validations
             /\ validations[record[k].latest].package.manifest.key = k
             /\ index'.entries[k] = Entry(record[k])
             /\ index'.entries[k].latest = record[k].latest
  BY <1>2, <1>3, <1>4, <1>5, EntryTyped DEF Rebuilds, Rebuildable, FilesSound
<1> QED  BY <1>2, <1>5, <1>6 DEF Rebuilds

LEMMA CommitRebuildStep ==
  ASSUME RegistrationInv, NEW c \in Callers, CommitRebuild(c) PROVE RegistrationInv'
<1> DEFINE event == Event("index_rebuilt", None)
<1>1. /\ call[c].stage = "index" /\ call[c].kind = "rebuild"
      /\ call' = [call EXCEPT ![c].stage = "audit", ![c].pending = <<event>>]
      /\ UNCHANGED <<record, validations, audit, torn, lock, issued, faults, cuts>>
  BY DEF CommitRebuild, At
<1>2. event \in AuditEvents /\ event.event # "idempotent_hit"
  BY DEF Event, AuditEvents, AuditTypes
<1> HIDE DEF event
<1>3. <<event>> \in Seq(AuditEvents) /\ \A i \in DOMAIN <<event>> : <<event>>[i] = event
  BY <1>2
<1>4. call[c] # Idle /\ Shaped(call[c]) /\ Fresh(c) /\ lock = c /\ Counters
      /\ call[c].stage \in Held /\ FilesSound
  BY <1>1, HolderFacts DEF Held, RegistrationInv
<1>5. /\ call' = [e \in Callers |-> call'[e]]
      /\ \A d \in Callers : d # c => call'[d] = call[d]
      /\ Shaped(call'[c]) /\ call'[c].stage = "audit" /\ call'[c].kind = call[c].kind
      /\ call'[c].id = call[c].id /\ call'[c].pending = <<event>>
  BY <1>1, <1>3, <1>4, ReportsFacts
<1>6. /\ IndexTyped' /\ \A k : Listed(k)' <=> k \in Recorded
      /\ \A k \in Recorded :
           /\ record[k].latest \in DOMAIN validations
           /\ validations[record[k].latest].package.manifest.key = k
           /\ index'.entries[k] = Entry(record[k])
           /\ index'.entries[k].latest = record[k].latest
  BY CommitRebuildFacts
<1>7. Recorded' = Recorded /\ record' = record /\ validations' = validations /\ issued' = issued
  BY <1>1 DEF Recorded
<1>8. FilesSound'
  BY <1>4, <1>6, <1>7 DEF FilesSound
<1>9. CallSound(c)'
  <2>1. Fresh(c)'
    BY <1>1, <1>4, <1>5 DEF Fresh
  <2>2. Explains(c)'
    BY <1>2, <1>3, <1>5 DEF Explains
  <2> QED  BY <1>1, <1>4, <1>5, <2>1, <2>2 DEF CallSound, Shaped, Writing
<1>10. ASSUME cuts = 0, NEW k \in Keys PROVE Agreed(k, Base(k))'
  <2>1. Base(k)' = record[k] /\ Agreed(k, record[k])
    BY <1>1, <1>4, <1>5, <1>10 DEF Base, RegistrationInv
  <2>2. CASE record[k] = None
    BY <1>6, <2>1, <2>2 DEF Agreed, Recorded
  <2>3. CASE record[k] # None
    <3>1. k \in Recorded
      BY <2>3 DEF Recorded
    <3>2. Listed(k)' /\ index'.entries[k] = Entry(record[k])
      BY <1>6, <3>1
    <3> QED  BY <1>1, <2>1, <2>3, <3>2 DEF Agreed, Entry
  <2> QED  BY <2>2, <2>3
<1>11. \A k \in Recorded' : k \in Recorded /\ record'[k].latest = record[k].latest
  BY <1>7
<1> QED  BY <1>1, <1>4, <1>5, <1>7, <1>8, <1>9, <1>10, <1>11, WritingStep DEF Writing

----------------------------------------------------------------------------
(* The undoing of a registration. *)

\* A validation that no entry is about is taken away. What is settled does not
\* need it.
LEMMA TakenAway ==
  ASSUME FilesSound, NEW id, validations' = Without(validations, id),
         UNCHANGED <<record, index, issued>>,
         \A k \in Keys : Listed(k) => index.entries[k].latest # id
  PROVE  /\ FilesSound' /\ Recorded' = Recorded /\ \A k : Listed(k)' = Listed(k)
         /\ DOMAIN validations' \subseteq DOMAIN validations
         /\ \A i \in DOMAIN validations' : validations'[i] = validations[i]
         /\ \A k \in Keys : Agreed(k, Base(k)) /\ Base(k)' = Base(k) => Agreed(k, Base(k))'
<1>1. /\ DOMAIN validations' = DOMAIN validations \ {id}
      /\ \A i \in DOMAIN validations' : validations'[i] = validations[i]
  BY DEF Without
<1>2. Recorded' = Recorded /\ \A k : Listed(k)' = Listed(k)
  BY DEF Recorded, Listed
<1>3. FilesSound'
  <2>1. IndexTyped'
    BY DEF FilesSound, IndexTyped
  <2>2. \A i \in DOMAIN validations' : i \in DOMAIN validations /\ validations'[i] = validations[i]
    BY <1>1
  <2>3. \A k \in Keys : Listed(k) => index.entries[k].latest \in DOMAIN validations'
    BY <1>1 DEF FilesSound
  <2> QED  BY <1>2, <2>1, <2>2, <2>3 DEF FilesSound
<1>4. ASSUME NEW k \in Keys, Agreed(k, Base(k)), Base(k)' = Base(k)
      PROVE  Agreed(k, Base(k))'
  <2>1. CASE Base(k) = None
    BY <1>2, <1>4, <2>1 DEF Agreed
  <2>2. CASE Base(k) # None
    <3>1. /\ Listed(k) /\ index.entries[k] = Entry(Base(k))
          /\ Base(k).latest \in DOMAIN validations
      BY <1>4, <2>2 DEF Agreed
    <3>2. Base(k).latest # id
      BY <3>1 DEF Entry
    <3>3. /\ Base(k).latest \in DOMAIN validations'
          /\ validations'[Base(k).latest] = validations[Base(k).latest]
      BY <1>1, <3>1, <3>2
    <3> QED  BY <1>2, <1>4, <2>2, <3>3 DEF Agreed, Entry
  <2> QED  BY <2>1, <2>2
<1> QED  BY <1>1, <1>2, <1>3, <1>4

\* What a registration knows stays true of fewer validations and of its records.
LEMMA RemembersLess ==
  ASSUME NEW c \in Callers, Remembers(c), call'[c].id = call[c].id,
         call'[c].verdict = call[c].verdict, call'[c].old = call[c].old, UNCHANGED issued,
         DOMAIN validations' \subseteq DOMAIN validations,
         \A i \in DOMAIN validations' : validations'[i] = validations[i]
  PROVE  Remembers(c)'
<1>1. Key(c)' = Key(c)
  BY DEF Key
<1> QED  BY <1>1 DEF Remembers

LEMMA UndoStep == ASSUME RegistrationInv, NEW c \in Callers, Undo(c) PROVE RegistrationInv'
<1>1. /\ call[c].stage = "undo" /\ UndoFirst(c) /\ Goes(c, "undo rest")
      /\ UNCHANGED <<index, audit, torn, lock, issued, faults, cuts>>
  BY DEF Undo, At
<1>2. /\ call[c].stage \in Held /\ call[c].stage \in Writing
      /\ call[c].kind = "register" /\ call[c] # Idle /\ Shaped(call[c]) /\ Fresh(c)
      /\ lock = c /\ Counters /\ FilesSound /\ Registers(c) /\ call[c].id \in Nat
      /\ Key(c) \in Keys /\ call[c].old \in EvidencePackageRecords \cup {None}
  BY <1>1, WriterFacts DEF Writing
<1>3. /\ call' = [e \in Callers |-> call'[e]]
      /\ \A d \in Callers : d # c => call'[d] = call[d]
      /\ Shaped(call'[c]) /\ call'[c].stage = "undo rest" /\ call'[c].kind = call[c].kind
      /\ call'[c].id = call[c].id /\ call'[c].verdict = call[c].verdict
      /\ call'[c].version = call[c].version /\ call'[c].old = call[c].old
  BY <1>1, <1>2, GoesFacts DEF Held
<1>4. Key(c)' = Key(c) /\ \A k : Listed(k)' = Listed(k)
  BY <1>1, <1>3 DEF Key, Listed
<1>5. Fresh(c)'
  BY <1>1, <1>2, <1>3 DEF Fresh
<1>6. Remembers(c) /\ \A k \in Keys : Listed(k) => index.entries[k].latest # call[c].id
  BY <1>2 DEF Registers
<1>7. \A k \in Keys : /\ Base(k) = IF k = Key(c) THEN call[c].old ELSE record[k]
                      /\ Base(k)' = IF k = Key(c) THEN call[c].old ELSE record'[k]
  BY <1>1, <1>2, <1>3, <1>4 DEF Base
<1>8. CASE call[c].old = None
  <2>1. validations' = Without(validations, call[c].id) /\ UNCHANGED record
    BY <1>1, <1>8 DEF UndoFirst
  <2>2. /\ FilesSound' /\ Recorded' = Recorded
        /\ DOMAIN validations' \subseteq DOMAIN validations
        /\ \A i \in DOMAIN validations' : validations'[i] = validations[i]
        /\ \A k \in Keys : Agreed(k, Base(k)) /\ Base(k)' = Base(k) => Agreed(k, Base(k))'
    BY <1>1, <1>2, <1>6, <2>1, TakenAway
  <2>3. Registers(c)'
    <3>1. Remembers(c)'
      BY <1>3, <1>8 DEF Remembers
    <3> QED  BY <1>1, <1>2, <1>3, <1>4, <1>6, <1>8, <3>1 DEF Registers
  <2>4. CallSound(c)'
    BY <1>1, <1>2, <1>3, <1>5, <2>3 DEF CallSound, Shaped
  <2>5. ASSUME cuts = 0, NEW k \in Keys PROVE Agreed(k, Base(k))'
    <3>1. Agreed(k, Base(k)) /\ Base(k)' = Base(k)
      BY <1>7, <2>1, <2>5 DEF RegistrationInv
    <3> QED  BY <2>2, <3>1
  <2>6. \A k \in Recorded' : k \in Recorded /\ record'[k].latest = record[k].latest
    BY <2>1, <2>2
  <2> QED  BY <1>1, <1>2, <1>3, <2>2, <2>4, <2>5, <2>6, WritingStep
<1>9. CASE call[c].old # None
  <2>1. record' = [record EXCEPT ![Key(c)] = call[c].old] /\ UNCHANGED validations
    BY <1>1, <1>9 DEF UndoFirst
  <2>2. /\ record' \in [Keys -> EvidencePackageRecords \cup {None}]
        /\ record'[Key(c)] = call[c].old /\ \A k \in Keys : k # Key(c) => record'[k] = record[k]
    BY <1>2, <2>1 DEF FilesSound
  <2>3. /\ call[c].old.latest <= issued
        /\ call[c].old.latest \in DOMAIN validations =>
             validations[call[c].old.latest].package.manifest.key = Key(c)
    BY <1>6, <1>9 DEF Remembers
  <2>4. Recorded' = Recorded \cup {Key(c)}
    BY <1>2, <1>9, <2>2 DEF Recorded
  <2>5. FilesSound'
    <3>1. IndexTyped'
      BY <1>1, <1>2 DEF FilesSound, IndexTyped
    <3>2. ASSUME NEW k \in Recorded'
          PROVE  /\ record'[k].latest <= issued
                 /\ record'[k].latest \in DOMAIN validations =>
                      validations[record'[k].latest].package.manifest.key = k
      <4>1. CASE k = Key(c)
        BY <2>2, <2>3, <4>1
      <4>2. CASE k # Key(c)
        <5>1. k \in Recorded /\ record'[k] = record[k]
          BY <2>2, <2>4, <4>2 DEF Recorded
        <5> QED  BY <1>2, <5>1 DEF FilesSound
      <4> QED  BY <4>1, <4>2
    <3>3. \A k \in Keys : Listed(k)' =>
            /\ index'.entries[k].latest \in DOMAIN validations'
            /\ validations'[index'.entries[k].latest].package.manifest.key = k
      BY <1>1, <1>2, <1>4, <2>1 DEF FilesSound
    <3>4. \A i \in DOMAIN validations : i \in Nat /\ i <= issued
            /\ validations[i].package \in Packages /\ Passes(validations[i].package)
      BY <1>2 DEF FilesSound
    <3>5. validations' = validations /\ issued' = issued
          /\ record' \in [Keys -> EvidencePackageRecords \cup {None}]
      BY <1>1, <2>1, <2>2
    <3> QED  BY <3>1, <3>2, <3>3, <3>4, <3>5 DEF FilesSound
  <2>6. CallSound(c)'
    <3>1. Remembers(c)'
      BY <1>1, <1>3, <1>6, <2>1, RemembersLess
    <3>2. Registers(c)'
      BY <1>1, <1>2, <1>3, <1>4, <1>6, <2>2, <3>1 DEF Registers
    <3> QED  BY <1>1, <1>2, <1>3, <1>5, <3>2 DEF CallSound, Shaped
  <2>7. ASSUME cuts = 0, NEW k \in Keys PROVE Agreed(k, Base(k))'
    <3>1. Agreed(k, Base(k)) /\ Base(k)' = Base(k)
      BY <1>7, <2>2, <2>7 DEF RegistrationInv
    <3> QED  BY <1>1, <1>4, <2>1, <3>1 DEF Agreed, Entry
  <2>8. \A k \in Recorded' :
          \/ k \in Recorded /\ record'[k].latest = record[k].latest
          \/ record'[k].latest = call[c].old.latest
    BY <2>2, <2>4 DEF Recorded
  <2> QED  BY <1>1, <1>2, <1>3, <1>9, <2>1, <2>5, <2>6, <2>7, <2>8, WritingStep
<1> QED  BY <1>8, <1>9

LEMMA UndoRestStep == ASSUME RegistrationInv, NEW c \in Callers, UndoRest(c) PROVE RegistrationInv'
<1>1. /\ call[c].stage = "undo rest" /\ Goes(c, "release")
      /\ UNCHANGED <<index, audit, torn, lock, issued, faults, cuts>>
  BY DEF UndoRest, At
<1>2. /\ call[c].stage \in Held
      /\ call[c].kind = "register" /\ call[c] # Idle /\ Shaped(call[c]) /\ Fresh(c)
      /\ lock = c /\ Counters /\ FilesSound /\ Registers(c) /\ Key(c) \in Keys
  BY <1>1, WriterFacts DEF Writing
<1>3. /\ call' = [e \in Callers |-> call'[e]]
      /\ \A d \in Callers : d # c => call'[d] = call[d]
      /\ Shaped(call'[c]) /\ call'[c].stage = "release" /\ call'[c].kind = call[c].kind
      /\ call'[c].id = call[c].id
  BY <1>1, <1>2, GoesFacts DEF Held
<1>4. CallSound(c)'
  <2>1. Fresh(c)'
    BY <1>1, <1>2, <1>3 DEF Fresh
  <2> QED  BY <1>1, <1>2, <1>3, <2>1 DEF CallSound, Shaped, Writing
<1>5. \A k \in Keys : /\ Base(k) = IF k = Key(c) THEN call[c].old ELSE record[k]
                      /\ Base(k)' = record'[k]
  BY <1>1, <1>2, <1>3 DEF Base
<1>6. CASE call[c].old = None
  <2>1. record' = [record EXCEPT ![Key(c)] = None] /\ UNCHANGED validations
    BY <1>1, <1>6 DEF UndoRest
  <2>2. /\ record' \in [Keys -> EvidencePackageRecords \cup {None}]
        /\ record'[Key(c)] = None /\ \A k \in Keys : k # Key(c) => record'[k] = record[k]
    BY <1>2, <2>1 DEF FilesSound
  <2>3. \A k \in Recorded' : k \in Recorded /\ record'[k] = record[k]
    BY <2>2 DEF Recorded
  <2>4. FilesSound'
    <3>1. IndexTyped'
      BY <1>1, <1>2 DEF FilesSound, IndexTyped
    <3>2. \A k \in Keys : Listed(k)' =>
            /\ index'.entries[k].latest \in DOMAIN validations'
            /\ validations'[index'.entries[k].latest].package.manifest.key = k
      BY <1>1, <1>2, <2>1 DEF FilesSound, Listed
    <3>3. validations' = validations /\ issued' = issued
      BY <1>1, <2>1
    <3>4. \A k \in Recorded' :
            /\ record'[k].latest <= issued'
            /\ record'[k].latest \in DOMAIN validations' =>
                 validations'[record'[k].latest].package.manifest.key = k
      BY <1>2, <2>3, <3>3 DEF FilesSound
    <3>5. \A i \in DOMAIN validations' : i \in Nat /\ i <= issued'
            /\ validations'[i].package \in Packages /\ Passes(validations'[i].package)
      BY <1>2, <3>3 DEF FilesSound
    <3>6. record' \in [Keys -> EvidencePackageRecords \cup {None}]
      BY <2>2
    <3> QED  BY <3>1, <3>2, <3>4, <3>5, <3>6 DEF FilesSound
  <2>5. ASSUME cuts = 0, NEW k \in Keys PROVE Agreed(k, Base(k))'
    <3>1. Agreed(k, Base(k)) /\ Base(k)' = Base(k)
      BY <1>5, <1>6, <2>2, <2>5 DEF RegistrationInv
    <3> QED  BY <1>1, <2>1, <3>1 DEF Agreed, Entry, Listed
  <2> QED  BY <1>1, <1>2, <1>3, <1>4, <2>1, <2>3, <2>4, <2>5, WritingStep DEF Writing
<1>7. CASE call[c].old # None
  <2>1. validations' = Without(validations, call[c].id) /\ UNCHANGED record
    BY <1>1, <1>7 DEF UndoRest
  <2>2. /\ record[Key(c)] = call[c].old
        /\ \A k \in Keys : Listed(k) => index.entries[k].latest # call[c].id
    BY <1>1, <1>2, <1>7 DEF Registers
  <2>3. /\ FilesSound' /\ Recorded' = Recorded
        /\ DOMAIN validations' \subseteq DOMAIN validations
        /\ \A k \in Keys : Agreed(k, Base(k)) /\ Base(k)' = Base(k) => Agreed(k, Base(k))'
    BY <1>1, <1>2, <2>1, <2>2, TakenAway
  <2>4. ASSUME cuts = 0, NEW k \in Keys PROVE Agreed(k, Base(k))'
    <3>1. Agreed(k, Base(k)) /\ Base(k)' = Base(k)
      BY <1>5, <2>1, <2>2, <2>4 DEF RegistrationInv
    <3> QED  BY <2>3, <3>1
  <2>5. \A k \in Recorded' : k \in Recorded /\ record'[k].latest = record[k].latest
    BY <2>1, <2>3
  <2> QED  BY <1>1, <1>2, <1>3, <1>4, <2>3, <2>4, <2>5, WritingStep DEF Writing
<1> QED  BY <1>6, <1>7

----------------------------------------------------------------------------
(* Every step. *)

CallStep(c) ==
  \/ \E expected \in {None, IndexRevision} :
       \/ \E verdict \in Verdicts, version \in Versions : Begin(c, verdict, version, expected)
       \/ BeginRebuild(c, expected)
  \/ GetLock(c) \/ LockTimesOut(c) \/ CheckFails(c) \/ Reject(c) \/ Vanished(c) \/ Hit(c)
  \/ Conflict(c) \/ Accept(c) \/ WriteValidation(c) \/ WriteRecord(c) \/ CommitIndex(c)
  \/ WriteFails(c) \/ Undo(c) \/ UndoRest(c) \/ UndoFails(c)
  \/ RebuildFails(c) \/ Rebuild(c) \/ CommitRebuild(c)
  \/ AppendAudit(c) \/ AppendFails(c) \/ Release(c) \/ ReleaseFails(c)

\* One case per operation of a call.
LEMMA CallStepInv == ASSUME RegistrationInv, NEW c \in Callers, CallStep(c) PROVE RegistrationInv'
<1>1. ASSUME NEW expected \in {None, IndexRevision}, NEW verdict \in Verdicts,
             NEW version \in Versions, Begin(c, verdict, version, expected)
      PROVE  RegistrationInv'
  BY <1>1, BeginStep
<1>2. ASSUME NEW expected, BeginRebuild(c, expected) PROVE RegistrationInv'
  BY <1>2, BeginRebuildStep
<1>3. CASE GetLock(c)
  BY <1>3, GetLockStep
<1>4. CASE LockTimesOut(c)
  BY <1>4, OverStep DEF LockTimesOut, At, RegistrationInv, Counters
<1>5. CASE CheckFails(c) \/ Vanished(c) \/ Conflict(c) \/ RebuildFails(c)
  BY <1>5, RefuseStep DEF CheckFails, Vanished, Conflict, RebuildFails, Cleared
<1>6. CASE Reject(c)
  BY <1>6, RejectStep
<1>7. CASE Hit(c)
  BY <1>7, HitStep
<1>8. CASE Accept(c)
  BY <1>8, AcceptStep
<1>9. CASE WriteValidation(c)
  BY <1>9, WriteValidationStep
<1>10. CASE WriteRecord(c)
  BY <1>10, WriteRecordStep
<1>11. CASE CommitIndex(c)
  BY <1>11, CommitIndexStep
<1>12. CASE WriteFails(c)
  BY <1>12, WriteFailsStep
<1>13. CASE Undo(c)
  BY <1>13, UndoStep
<1>14. CASE UndoRest(c)
  BY <1>14, UndoRestStep
<1>15. CASE UndoFails(c)
  BY <1>15, UndoFailsStep
<1>16. CASE Rebuild(c)
  BY <1>16, RebuildStep
<1>17. CASE CommitRebuild(c)
  BY <1>17, CommitRebuildStep
<1>18. CASE AppendAudit(c)
  BY <1>18, AppendAuditStep
<1>19. CASE AppendFails(c)
  BY <1>19, AppendFailsStep
<1>20. CASE Release(c) \/ ReleaseFails(c)
  <2>1. faults \in Nat
    BY DEF RegistrationInv, Counters
  <2>2. /\ call' = [call EXCEPT ![c] = Idle] /\ call[c].stage = "release"
        /\ UNCHANGED <<record, validations, index, audit, torn, issued, cuts>>
        /\ lock' \in {None, Left} /\ faults' \in Nat
    BY <1>20, <2>1 DEF Release, ReleaseFails, At
  <2> QED  BY <2>2, OverStep
<1> QED
  BY <1>1, <1>2, <1>3, <1>4, <1>5, <1>6, <1>7, <1>8, <1>9, <1>10, <1>11, <1>12, <1>13, <1>14,
     <1>15, <1>16, <1>17, <1>18, <1>19, <1>20 DEF CallStep

LEMMA StillInv == ASSUME RegistrationInv, UNCHANGED registrationVars PROVE RegistrationInv'
<1>1. UNCHANGED <<record, validations, index, audit, torn, lock, call, issued, faults, cuts>>
  BY DEF registrationVars
<1>2. Counters /\ Counters' /\ FilesSound /\ issued \in Nat
  BY <1>1 DEF RegistrationInv, Counters
<1>3. UNCHANGED OnDisk
  BY <1>1 DEF OnDisk
<1>4. FilesSound' /\ LogSound'
  BY <1>1, <1>2, <1>3, FilesSame, LogSame
<1>5. ASSUME NEW c \in Callers PROVE CallSound(c)'
  BY <1>1, <1>2, <1>3, CallSame DEF RegistrationInv
<1>6. \A c, d : Apart(c, d)' = Apart(c, d)
  BY <1>1 DEF Apart
<1>7. \A k : Base(k)' = Base(k)
  BY <1>1, BaseSame DEF Undoable
<1>8. \A k : Agreed(k, Base(k))' = Agreed(k, Base(k))
  BY <1>1, <1>7 DEF Agreed, Listed, Entry
<1> QED  BY <1>1, <1>2, <1>4, <1>5, <1>6, <1>8 DEF RegistrationInv

LEMMA RegistrationNextStep ==
  RegistrationInv /\ [RegistrationNext]_registrationVars => RegistrationInv'
<1> SUFFICES ASSUME RegistrationInv, [RegistrationNext]_registrationVars PROVE RegistrationInv'
  OBVIOUS
<1>1. ASSUME NEW c \in Callers, CallStep(c) PROVE RegistrationInv'
  BY <1>1, CallStepInv
<1>2. CASE Crash
  BY <1>2, CrashStep
<1>3. CASE ClearLock
  BY <1>3, ClearLockStep
<1>4. CASE UNCHANGED registrationVars
  BY <1>4, StillInv
<1> QED  BY <1>1, <1>2, <1>3, <1>4 DEF RegistrationNext, CallStep

\* What the files are to each other, and to the call that holds the lock, at every
\* step of register, of rebuild_index and of what goes wrong in them.
THEOREM RegistrationInvariance == RegistrationSpec => []RegistrationInv
BY FirstInv, RegistrationNextStep, PTL DEF RegistrationSpec

\* With the lock free, no crash and no failed undo, queries find exactly what has
\* a record, whatever file could not be written. (register, _restore_files)
THEOREM Truthful == RegistrationSpec => []IndexTruthful
<1>1. RegistrationInv => IndexTruthful
  <2> SUFFICES ASSUME RegistrationInv, lock = None, cuts = 0
               PROVE  /\ \A k \in Keys : Answer(k) = IF record[k] = None THEN "none" ELSE "found"
                      /\ \A k \in Recorded : index.entries[k] = Entry(record[k])
    BY DEF IndexTruthful
  <2>1. \A k \in Keys : Agreed(k, record[k])
    BY RegistrationAssumption DEF RegistrationInv, Base
  <2>2. \A k \in Keys : record[k] # None =>
          /\ Listed(k) /\ index.entries[k] = Entry(record[k])
          /\ record[k].latest \in DOMAIN validations
          /\ validations[record[k].latest].package.manifest.key = k
          /\ validations[record[k].latest].package.manifest.sum = record[k].manifest
    BY <2>1 DEF Agreed
  <2>3. \A k \in Keys : record[k] = None => ~Listed(k)
    BY <2>1 DEF Agreed
  <2>4. index # None => DOMAIN index.entries \subseteq Keys
    BY DEF RegistrationInv, FilesSound, IndexTyped
  <2>5. IndexReadable
    <3> SUFFICES ASSUME index # None, NEW k \in DOMAIN index.entries
                 PROVE  EntryHolds(k, index.entries[k])
      BY DEF IndexReadable
    <3>1. k \in Keys /\ Listed(k)
      BY <2>4 DEF Listed
    <3>2. /\ record[k] # None /\ index.entries[k] = Entry(record[k])
          /\ Validated(record[k])
      BY <2>2, <2>3, <3>1 DEF Validated
    <3> QED  BY <3>2 DEF EntryHolds, Entry
  <2>6. ASSUME NEW k \in Keys PROVE Answer(k) = IF record[k] = None THEN "none" ELSE "found"
    <3>1. k \in Registrations <=> Listed(k)
      BY DEF Registrations, Listed
    <3>2. record[k] # None => CanRead(k, record[k].latest)
      BY <2>2 DEF CanRead, Matches
    <3>3. CASE record[k] = None
      <4>1. k \notin Registrations /\ ~CanRead(k, record[k].latest)
        BY <2>3, <3>1, <3>3 DEF CanRead
      <4> QED  BY <2>5, <3>3, <4>1 DEF Answer
    <3>4. CASE record[k] # None
      <4>1. k \in Registrations /\ CanRead(k, record[k].latest)
        BY <2>2, <3>1, <3>2, <3>4
      <4> QED  BY <2>5, <3>4, <4>1 DEF Answer
    <3> QED  BY <3>3, <3>4
  <2> QED  BY <2>2, <2>6 DEF Recorded
<1> QED  BY <1>1, RegistrationInvariance, PTL

\* Whoever is told of an earlier registration leaves its whole trace in the log.
\* (_recover_audit_gap, _append_audit)
THEOREM Explained == RegistrationSpec => []HitComplete
<1>1. RegistrationInv => HitComplete
  <2> SUFFICES ASSUME RegistrationInv, NEW hit \in audit, hit.event = "idempotent_hit"
               PROVE  LET types == {e.event : e \in {f \in audit : f.record = hit.record}}
                      IN  /\ {"validation_created", "index_updated"} \subseteq types
                          /\ {"record_created", "record_updated"} \cap types # {}
    BY DEF HitComplete
  <2>1. Traced(hit.record, audit)
    BY DEF RegistrationInv, LogSound
  <2> QED  BY <2>1 DEF Traced
<1> QED  BY <1>1, RegistrationInvariance, PTL

----------------------------------------------------------------------------
(* The register that the index stands for. *)

ManifestOf(k) == validations[index.entries[k].latest].package.manifest.sum

\* What is listed stays so, with the manifest it has.
Keeps == \A k \in Keys : Listed(k) => Listed(k)' /\ ManifestOf(k)' = ManifestOf(k)

LEMMA KeptOnDisk == ASSUME UNCHANGED OnDisk PROVE Keeps
BY DEF OnDisk, Keeps, Listed, ManifestOf

LEMMA KeptWithout ==
  ASSUME RegistrationInv, NEW c \in Callers, call[c].stage \in {"undo", "undo rest"},
         validations' \in {validations, Without(validations, call[c].id)}, UNCHANGED index
  PROVE  Keeps
<1>1. Registers(c) /\ FilesSound
  BY WriterFacts DEF Writing
<1> SUFFICES ASSUME NEW k \in Keys, Listed(k) PROVE Listed(k)' /\ ManifestOf(k)' = ManifestOf(k)
  BY DEF Keeps
<1> DEFINE i == index.entries[k].latest
<1>2. i \in DOMAIN validations /\ i # call[c].id
  BY <1>1 DEF FilesSound, Registers
<1>3. validations'[i] = validations[i]
  BY <1>2 DEF Without
<1> QED  BY <1>3 DEF ManifestOf, Listed

LEMMA KeptCommit == ASSUME RegistrationInv, NEW c \in Callers, CommitIndex(c) PROVE Keeps
<1>1. /\ call[c].stage = "index" /\ call[c].kind = "register" /\ validations' = validations
  BY DEF CommitIndex, At
<1>2. Registers(c) /\ FilesSound
  BY <1>1, WriterFacts DEF Writing
<1>3. LET r == record[Key(c)]
      IN  /\ r \in EvidencePackageRecords /\ r.latest = call[c].id
          /\ validations[call[c].id].package = call[c].verdict.package
          /\ \A k \in Keys : k = Key(c) => Listed(k)' /\ index'.entries[k] = Entry(r)
          /\ \A k \in Keys : k # Key(c) =>
               Listed(k)' = Listed(k) /\ (Listed(k) => index'.entries[k] = index.entries[k])
  BY CommitIndexFacts
<1> SUFFICES ASSUME NEW k \in Keys, Listed(k) PROVE Listed(k)' /\ ManifestOf(k)' = ManifestOf(k)
  BY DEF Keeps
<1>4. CASE k # Key(c)
  BY <1>1, <1>3, <1>4 DEF ManifestOf
<1>5. CASE k = Key(c)
  <2>1. Listed(k)' /\ index'.entries[k].latest = call[c].id
    BY <1>3, <1>5, EntryTyped
  <2>2. ManifestOf(k) = call[c].verdict.package.manifest.sum
    BY <1>1, <1>2, <1>5 DEF Registers, ManifestOf
  <2> QED  BY <1>1, <1>3, <2>1, <2>2 DEF ManifestOf
<1> QED  BY <1>4, <1>5

LEMMA KeptRebuild == ASSUME RegistrationInv, NEW c \in Callers, CommitRebuild(c) PROVE Keeps
<1>1. validations' = validations
  BY DEF CommitRebuild
<1>2. /\ IndexReadable /\ \A k : Listed(k)' <=> k \in Recorded
      /\ \A k \in Recorded : index'.entries[k].latest = record[k].latest
  BY CommitRebuildFacts
<1> SUFFICES ASSUME NEW k \in Keys, Listed(k) PROVE Listed(k)' /\ ManifestOf(k)' = ManifestOf(k)
  BY DEF Keeps
<1>3. record[k] # None /\ index.entries[k].latest = record[k].latest
  BY <1>2 DEF IndexReadable, EntryHolds, Listed
<1> QED  BY <1>1, <1>2, <1>3 DEF Recorded, ManifestOf

LEMMA KeptValidation == ASSUME RegistrationInv, NEW c \in Callers, WriteValidation(c) PROVE Keeps
<1>1. /\ call[c].stage = "validation" /\ UNCHANGED index
      /\ validations' = Put(validations, call[c].id, Validation(c))
  BY DEF WriteValidation, At
<1>2. FilesSound /\ Fresh(c)
  BY <1>1, WriterFacts DEF Writing
<1>3. \A i \in DOMAIN validations : validations'[i] = validations[i]
  <2> DEFINE id == call[c].id
             v == Validation(c)
  <2>1. id \notin DOMAIN validations
    BY <1>1, <1>2 DEF Fresh
  <2>2. validations' = Put(validations, id, v)
    BY <1>1
  <2> HIDE DEF id, v
  <2> QED  BY <2>1, <2>2 DEF Put
<1> QED  BY <1>1, <1>2, <1>3 DEF Keeps, FilesSound, ManifestOf, Listed

\* No step takes an entry from the index or gives it another manifest.
LEMMA KeepsAll ==
  ASSUME RegistrationInv, [RegistrationNext]_registrationVars PROVE Keeps
<1>1. ASSUME NEW c \in Callers, CallStep(c) PROVE Keeps
  <2>1. CASE CommitIndex(c)
    BY <2>1, KeptCommit
  <2>2. CASE CommitRebuild(c)
    BY <2>2, KeptRebuild
  <2>3. CASE WriteValidation(c)
    BY <2>3, KeptValidation
  <2>4. CASE Undo(c) \/ UndoRest(c)
    BY <2>4, KeptWithout DEF Undo, UndoRest, UndoFirst, At
  <2>5. CASE WriteRecord(c)
    BY <2>5 DEF WriteRecord, Keeps, Listed, ManifestOf
  <2>6. ASSUME ~CommitIndex(c), ~CommitRebuild(c), ~WriteValidation(c), ~Undo(c), ~UndoRest(c),
               ~WriteRecord(c)
        PROVE  UNCHANGED OnDisk
    <3>1. ASSUME NEW expected, NEW verdict, NEW version, Begin(c, verdict, version, expected)
          PROVE  UNCHANGED OnDisk
      BY <3>1 DEF Begin, OnDisk
    <3>2. ASSUME NEW expected, BeginRebuild(c, expected) PROVE UNCHANGED OnDisk
      BY <3>2 DEF BeginRebuild, OnDisk
    <3>3. CASE GetLock(c) \/ LockTimesOut(c) \/ CheckFails(c) \/ Reject(c) \/ Vanished(c) \/ Hit(c)
      BY <3>3 DEF GetLock, LockTimesOut, CheckFails, Reject, Vanished, Hit, Refuses, Reports, OnDisk
    <3>4. CASE \/ Conflict(c) \/ Accept(c) \/ WriteFails(c) \/ UndoFails(c)
               \/ RebuildFails(c) \/ Rebuild(c)
      BY <3>4 DEF Conflict, Accept, WriteFails, UndoFails, RebuildFails, Rebuild, Refuses, OnDisk
    <3>5. CASE AppendAudit(c) \/ AppendFails(c) \/ Release(c) \/ ReleaseFails(c)
      BY <3>5 DEF AppendAudit, AppendFails, Release, ReleaseFails, OnDisk
    <3> QED  BY <1>1, <2>6, <3>1, <3>2, <3>3, <3>4, <3>5 DEF CallStep
  <2> QED  BY <2>1, <2>2, <2>3, <2>4, <2>5, <2>6, KeptOnDisk
<1>2. CASE Crash \/ ClearLock \/ UNCHANGED registrationVars
  BY <1>2, KeptOnDisk DEF Crash, ClearLock, registrationVars, OnDisk
<1> QED  BY <1>1, <1>2 DEF RegistrationNext, CallStep

\* What a key stands for in the register.
Stands(k) == IF Listed(k) THEN validations[index.entries[k].latest].package ELSE None

LEMMA RegisterSound == ASSUME NEW p \in Packages, Passes(p) PROVE Register!Sound(p)
<1>1. Sound(p)
  BY PassesSound
<1> QED  BY <1>1 DEF Sound, Register!Sound, Files, Register!Files, ToSet, Register!ToSet

\* What is listed is a sound package of its key.
Standing ==
  \A k \in Keys :
    /\ ~Listed(k) => Stands(k) = None
    /\ Listed(k) =>
         /\ Stands(k) \in Packages /\ Stands(k) # None /\ Register!Sound(Stands(k))
         /\ Stands(k).manifest.key = k /\ Stands(k).manifest.sum = ManifestOf(k)

LEMMA StandsFor == RegistrationInv => Standing
<1> SUFFICES ASSUME RegistrationInv, NEW k \in Keys
             PROVE  /\ ~Listed(k) => Stands(k) = None
                    /\ Listed(k) =>
                         /\ Stands(k) \in Packages /\ Stands(k) # None
                         /\ Register!Sound(Stands(k))
                         /\ Stands(k).manifest.key = k
                         /\ Stands(k).manifest.sum = ManifestOf(k)
  BY DEF Standing
<1>1. CASE Listed(k)
  <2>1. /\ Stands(k) = validations[index.entries[k].latest].package
        /\ Stands(k) \in Packages /\ Passes(Stands(k)) /\ Stands(k).manifest.key = k
    BY <1>1 DEF RegistrationInv, FilesSound, Stands
  <2>2. Stands(k) # None
    BY <2>1, RegistrationAssumption
  <2> DEFINE p == Stands(k)
  <2>3. p \in Packages /\ Passes(p)
    BY <2>1
  <2> HIDE DEF p
  <2>4. Register!Sound(p)
    BY <2>3, RegisterSound
  <2> QED  BY <1>1, <2>1, <2>2, <2>4 DEF p, ManifestOf
<1>2. CASE ~Listed(k)
  BY <1>2 DEF Stands
<1> QED  BY <1>1, <1>2

\* Across every failure and every crash, the index stands for a register of sound
\* packages that loses none and changes the manifest of none. (register,
\* rebuild_index, _restore_files)
THEOREM RegisterRefined == RegistrationSpec => RegisterSpec
<1>1. RegistrationInit => Register!RegisterInit
  <2> SUFFICES ASSUME RegistrationInit PROVE Register!RegisterInit
    OBVIOUS
  <2>1. \A k \in Keys : ~Listed(k)
    BY DEF RegistrationInit, Listed
  <2> QED  BY <2>1 DEF Register!RegisterInit, Register!Keys, Keys
<1>2. RegistrationInv' => Standing'
  BY StandsFor, PTL
<1>3. RegistrationInv /\ RegistrationInv' /\ [RegistrationNext]_registrationVars
        => Register!RegisterNext
  <2> SUFFICES ASSUME RegistrationInv, RegistrationInv', [RegistrationNext]_registrationVars
               PROVE  Register!RegisterNext
    OBVIOUS
  <2>1. Standing /\ Standing' /\ Keeps
    BY <1>2, StandsFor, KeepsAll
  <2>2. ASSUME NEW k \in Keys
        PROVE  /\ Stands(k)' \in Packages \cup {None}
               /\ Stands(k)' # Stands(k) =>
                    /\ Stands(k)' # None /\ Register!Sound(Stands(k)')
                    /\ Stands(k)'.manifest.key = k
                    /\ Stands(k) # None => Stands(k).manifest.sum = Stands(k)'.manifest.sum
    <3>1. CASE Listed(k)'
      BY <2>1, <3>1 DEF Standing, Keeps
    <3>2. CASE ~Listed(k)'
      BY <2>1, <3>2 DEF Standing, Keeps
    <3> QED  BY <3>1, <3>2
  <2> QED  BY <2>2 DEF Register!RegisterNext, Register!Accepts, Register!Keys, Keys, Stands
<1> QED
  BY <1>1, <1>3, RegistrationInvariance, PTL
  DEF RegistrationSpec, RegisterSpec, Register!RegisterSpec
==============================================================================
