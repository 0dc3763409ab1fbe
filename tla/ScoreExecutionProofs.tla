------------------------ MODULE ScoreExecutionProofs ------------------------
(* Theorems about ScoreExecution, for any items, workers, names and faults.   *)
EXTENDS ScoreExecution, TLAPS

----------------------------------------------------------------------------
(* The inductive invariant. *)

WorkersTyped == worker \in [Workers -> WorkerState]

Typed ==
  /\ items \in [Items -> M!ItemSnapshot]
  /\ facts \in [Items -> [Names -> Attempt]]
  /\ WorkersTyped

\* The phases in which a call has an attempt of its own.
Named == {"started", "created", "calling", "answered", "responded", "scored",
          "publishing", "announcing"}

\* What a call in the state e can rely on, whoever else adds to the facts.
Known(e, fs) ==
  LET f == fs[e.item][e.name]
  IN  /\ e.phase \in Named => e.name \in Names
      /\ e.phase \in {"calling", "answered", "responded", "scored"} => f.dispatched
      /\ e.phase \in {"responded", "scored"} => f.response
      /\ e.phase = "scored" => f.snapshot
      /\ e.phase \in {"publishing", "announcing"} /\ e.verdict = "success" => Complete(f)
      /\ e.phase = "judging" => e.verdict = "success"
      /\ e.phase = "concluding" /\ e.verdict = "success" =>
           \E a \in Names : Complete(fs[e.item][a])

\* The status of its attempt while it is about to be created or announced.
Status(e, fs) ==
  /\ e.phase = "started" => fs[e.item][e.name].status = "none"
  /\ e.phase = "announcing" => fs[e.item][e.name].status = StatusFor(e.verdict)

\* Some attempt has an unknown outcome that cannot be withdrawn any more.
Declared(i, fs, ws) ==
  \E a \in Names :
    /\ fs[i][a].status = "unknown"
    /\ \A w \in Workers :
         ws[w].phase = "announcing" /\ ws[w].item = i => ws[w].name # a

Owes(e, fs, ws) ==
  e.phase = "concluding" /\ e.verdict = "unknown" => Declared(e.item, fs, ws)

\* A new name is nobody else's, and one publication at a time has the lock.
Apart(d, e) ==
  d.item = e.item =>
    /\ d.phase = "started" => e.name # d.name
    /\ d.phase = "announcing" => e.phase # "announcing"

FactsSound(fs) ==
  \A i \in Items, a \in Names : fs[i][a].status = "succeeded" => Complete(fs[i][a])

ItemSound(item, i, fs, ws) ==
  /\ item.stage # "score" => \E a \in Names : Complete(fs[i][a])
  /\ item.error = "unknown" => Declared(i, fs, ws)

IInv ==
  /\ Typed
  /\ \A w \in Workers :
       Known(worker[w], facts) /\ Status(worker[w], facts) /\ Owes(worker[w], facts, worker)
  /\ \A v, w \in Workers : v # w => Apart(worker[v], worker[w])
  /\ FactsSound(facts)
  /\ \A i \in Items : ItemSound(items[i], i, facts, worker)

\* No fact but the status of an attempt is ever withdrawn.
Grow(fs, gs) ==
  \A i \in Items, a \in Names :
    /\ fs[i][a].dispatched => gs[i][a].dispatched
    /\ fs[i][a].response => gs[i][a].response
    /\ fs[i][a].snapshot => gs[i][a].snapshot
    /\ fs[i][a].validation => gs[i][a].validation

\* w changes no status but that of its own attempt, which is open or its to withdraw.
Touches(w) ==
  \A i \in Items, a \in Names :
    \/ facts'[i][a].status = facts[i][a].status
    \/ /\ i = worker[w].item /\ a = worker[w].name /\ worker[w].phase \in Named
       /\ \A v \in Workers \ {w} : ~(At(v, "announcing") /\ worker[v].item = i)
       /\ facts[i][a].status \in {"none", "running"} \/ At(w, "announcing")

\* A step advances an item only with a complete attempt, and marks it unknown only
\* with a declared one.
ItemsFollow ==
  /\ items' \in [Items -> M!ItemSnapshot]
  /\ \A i \in Items :
       /\ items'[i].stage # "score" =>
            items[i].stage # "score" \/ \E a \in Names : Complete(facts[i][a])
       /\ items'[i].error = "unknown" =>
            items[i].error = "unknown" \/ Declared(i, facts, worker)

\* What VerdictFinal says of one step.
VerdictsKept ==
  \A i \in Items, a \in Names :
    /\ facts[i][a].status \in {"succeeded", "failed", "unknown"}
    /\ \A w \in Workers : At(w, "announcing") =>
         worker[w].item # i \/ worker[w].name # a
    => facts'[i][a].status = facts[i][a].status

----------------------------------------------------------------------------
(* The shape of a step. *)

\* The last attempt is one of them. (recover_score_item, attempts[-1])
LEMMA LatestIsAttempt ==
  ASSUME NEW i \in Items, Attempts(i) # {}
  PROVE  Latest(i) \in Attempts(i)
<1>1. \E a \in Attempts(i) : \A b \in Attempts(i) : b <= a
  BY NamesAssumption DEF Attempts
<1> QED
  BY <1>1 DEF Latest

\* What another call keeps when w commits: everything but its revision.
Kept(v) == \E f \in BOOLEAN : worker'[v] = [worker[v] EXCEPT !.fresh = f]

LEMMA IdleTyped == ASSUME NEW i \in Items PROVE Idle(i) \in WorkerState
BY DEF Idle, WorkerState, Phases, Verdicts

\* The entries the steps write.
LEMMA EntryTyped ==
  ASSUME NEW e \in WorkerState, NEW p \in Phases
  PROVE  /\ [e EXCEPT !.phase = p] \in WorkerState
         /\ [e EXCEPT !.phase = p, !.fresh = TRUE] \in WorkerState
         /\ \A verdict \in Verdicts : [e EXCEPT !.phase = p, !.verdict = verdict] \in WorkerState
         /\ \A a \in Names :
              /\ [e EXCEPT !.phase = p, !.name = a] \in WorkerState
              /\ [e EXCEPT !.phase = p, !.name = a, !.executing = TRUE] \in WorkerState
              /\ [e EXCEPT !.phase = p, !.name = a, !.verdict = "unknown"] \in WorkerState
         /\ \A f \in BOOLEAN : [e EXCEPT !.fresh = f] \in WorkerState
BY DEF WorkerState, Verdicts

\* Moving on changes the phase only.
LEMMA MovedTyped ==
  ASSUME NEW w \in Workers, worker[w] \in WorkerState, NEW p \in Phases
  PROVE  /\ Moved(w, p) \in WorkerState
         /\ Moved(w, p).phase = p /\ Moved(w, p).item = worker[w].item
         /\ Moved(w, p).name = worker[w].name /\ Moved(w, p).verdict = worker[w].verdict
<1>1. Moved(w, p) \in WorkerState
  BY EntryTyped DEF Moved
<1>2. /\ Moved(w, p).phase = p /\ Moved(w, p).item = worker[w].item
      /\ Moved(w, p).name = worker[w].name /\ Moved(w, p).verdict = worker[w].verdict
  BY DEF Moved, WorkerState
<1> QED
  BY <1>1, <1>2

\* A step of w that writes no snapshot.
LEMMA StepAlone ==
  ASSUME WorkersTyped, NEW w \in Workers, NEW new \in WorkerState, GoTo(w, new)
  PROVE  WorkersTyped' /\ worker'[w] = new /\ \A v \in Workers \ {w} : Kept(v)
<1>1. worker' \in [Workers -> WorkerState] /\ worker'[w] = new
  BY DEF WorkersTyped, GoTo
<1>2. ASSUME NEW v \in Workers \ {w} PROVE Kept(v)
  <2>1. worker'[v] = worker[v] /\ worker[v] \in WorkerState
    BY DEF WorkersTyped, GoTo
  <2>2. worker[v].fresh \in BOOLEAN /\ worker[v] = [worker[v] EXCEPT !.fresh = worker[v].fresh]
    BY <2>1 DEF WorkerState
  <2> QED
    BY <2>1, <2>2 DEF Kept
<1> QED
  BY <1>1, <1>2 DEF WorkersTyped

\* A step of w that commits its item.
LEMMA StepCommits ==
  ASSUME WorkersTyped, NEW w \in Workers, NEW i, NEW new \in WorkerState,
         worker' = [Outdated(w, i) EXCEPT ![w] = new]
  PROVE  WorkersTyped' /\ worker'[w] = new /\ \A v \in Workers \ {w} : Kept(v)
<1>1. worker'[w] = new
  BY DEF Outdated
<1>2. ASSUME NEW v \in Workers \ {w} PROVE Kept(v) /\ worker'[v] \in WorkerState
  <2>1. worker[v] \in WorkerState
    BY DEF WorkersTyped
  <2>2. worker'[v] = [worker[v] EXCEPT !.fresh = FALSE] \/ worker'[v] = worker[v]
    BY DEF Outdated
  <2>3. worker[v].fresh \in BOOLEAN /\ worker[v] = [worker[v] EXCEPT !.fresh = worker[v].fresh]
    BY <2>1 DEF WorkerState
  <2>4. Kept(v)
    BY <2>2, <2>3 DEF Kept
  <2> QED
    BY <2>1, <2>4, EntryTyped DEF Kept, Phases
<1>3. worker' = [v \in Workers |-> worker'[v]]
  BY DEF Outdated
<1> QED
  BY <1>1, <1>2, <1>3 DEF WorkersTyped

----------------------------------------------------------------------------
(* One step of a call, as far as the invariant is concerned. *)

\* What is known stays known. (the fact files are create-only)
LEMMA KnownGrows ==
  ASSUME NEW e \in WorkerState, NEW d \in WorkerState, NEW fs, NEW gs, Grow(fs, gs),
         Known(e, fs), d.phase = e.phase, d.item = e.item, d.name = e.name,
         d.verdict = e.verdict
  PROVE  Known(d, gs)
<1> DEFINE f == fs[e.item][e.name]
           g == gs[e.item][e.name]
<1>1. e.item \in Items
  BY DEF WorkerState
<1>2. \A a \in Names : Complete(fs[e.item][a]) => Complete(gs[e.item][a])
  BY <1>1 DEF Grow, Complete
<1>3. e.name \in Names => /\ f.dispatched => g.dispatched
                          /\ f.response => g.response
                          /\ f.snapshot => g.snapshot
                          /\ Complete(f) => Complete(g)
  BY <1>1, <1>2 DEF Grow
<1> QED
  BY <1>2, <1>3 DEF Known, Named

\* A call whose turn it is not keeps its phase, its item, its attempt and its verdict.
LEMMA KeptSame ==
  ASSUME WorkersTyped, NEW v \in Workers, Kept(v)
  PROVE  /\ worker[v] \in WorkerState
         /\ worker'[v].phase = worker[v].phase /\ worker'[v].item = worker[v].item
         /\ worker'[v].name = worker[v].name /\ worker'[v].verdict = worker[v].verdict
BY DEF WorkersTyped, WorkerState, Kept

LEMMA TurnInv ==
  ASSUME IInv, NEW w \in Workers, WorkersTyped', \A v \in Workers \ {w} : Kept(v),
         facts' \in [Items -> [Names -> Attempt]], Grow(facts, facts'), Touches(w),
         ItemsFollow, FactsSound(facts'),
         Known(worker'[w], facts'), Status(worker'[w], facts'),
         Owes(worker'[w], facts', worker'),
         \A v \in Workers \ {w} :
           Apart(worker'[w], worker[v]) /\ Apart(worker[v], worker'[w]),
         worker'[w].phase = "announcing" =>
           /\ worker'[w].item = worker[w].item /\ worker'[w].name = worker[w].name
           /\ facts[worker[w].item][worker[w].name].status = "running"
  PROVE  IInv' /\ VerdictsKept
<1>1. \A v \in Workers \ {w} :
        /\ worker[v] \in WorkerState /\ worker'[v] \in WorkerState
        /\ worker'[v].phase = worker[v].phase /\ worker'[v].item = worker[v].item
        /\ worker'[v].name = worker[v].name /\ worker'[v].verdict = worker[v].verdict
  BY KeptSame DEF IInv, Typed, WorkersTyped
<1>2. Typed'
  BY DEF Typed, ItemsFollow
<1>3. ASSUME NEW i \in Items, Declared(i, facts, worker) PROVE Declared(i, facts', worker')
  <2>1. PICK a \in Names :
          /\ facts[i][a].status = "unknown"
          /\ \A v \in Workers :
               worker[v].phase = "announcing" /\ worker[v].item = i => worker[v].name # a
    BY <1>3 DEF Declared
  <2>2. facts'[i][a].status = "unknown"
    BY <2>1 DEF Touches, At
  <2>3. ASSUME NEW v \in Workers, worker'[v].phase = "announcing", worker'[v].item = i
        PROVE  worker'[v].name # a
    BY <1>1, <2>1, <2>3
  <2> QED
    BY <2>2, <2>3 DEF Declared
<1>4. ASSUME NEW v \in Workers
      PROVE  /\ Known(worker'[v], facts') /\ Status(worker'[v], facts')
             /\ Owes(worker'[v], facts', worker')
  <2>1. CASE v = w
    BY <2>1
  <2>2. CASE v # w
    <3>1. Known(worker[v], facts) /\ Status(worker[v], facts) /\ Owes(worker[v], facts, worker)
      BY DEF IInv
    <3>2. Known(worker'[v], facts')
      BY <1>1, <2>2, <3>1, KnownGrows
    <3>3. worker[v].item \in Items
      BY <1>1, <2>2 DEF WorkerState
    <3>4. Owes(worker'[v], facts', worker')
      BY <1>1, <1>3, <2>2, <3>1, <3>3 DEF Owes
    <3>5. Apart(worker[v], worker[w])
      BY <2>2 DEF IInv
    <3>6. worker[v].phase \in {"started", "announcing"} =>
            facts'[worker[v].item][worker[v].name].status
              = facts[worker[v].item][worker[v].name].status
      BY <2>2, <3>1, <3>3, <3>5 DEF Touches, Known, Named, Apart, At
    <3>7. Status(worker'[v], facts')
      BY <1>1, <2>2, <3>1, <3>6 DEF Status
    <3> QED
      BY <3>2, <3>4, <3>7
  <2> QED
    BY <2>1, <2>2
<1>5. ASSUME NEW u \in Workers, NEW v \in Workers, u # v PROVE Apart(worker'[u], worker'[v])
  <2>1. Apart(worker[u], worker[v])
    BY <1>5 DEF IInv
  <2> QED
    BY <1>1, <1>5, <2>1 DEF Apart
<1>6. ASSUME NEW i \in Items PROVE ItemSound(items'[i], i, facts', worker')
  <2>1. ItemSound(items[i], i, facts, worker)
    BY DEF IInv
  <2>2. \A a \in Names : Complete(facts[i][a]) => Complete(facts'[i][a])
    BY DEF Grow, Complete
  <2> QED
    BY <1>3, <2>1, <2>2 DEF ItemSound, ItemsFollow
<1>7. VerdictsKept
  BY DEF VerdictsKept, Touches, At
<1>8. IInv'
  BY <1>2, <1>4, <1>5, <1>6 DEF IInv
<1> QED
  BY <1>7, <1>8

----------------------------------------------------------------------------
(* What the operations of the task manager do to the items. *)

\* An operation on item i replaces it, and nothing else.
LEMMA CommitsItem ==
  ASSUME NEW i \in Items, NEW new, M!CommitItem(i, new)
  PROVE  items' = [items EXCEPT ![i] = new]
BY DEF M!CommitItem, M!Commit

\* Replacing an item by one in the same stage, with no new unknown outcome.
LEMMA ReplacedFollows ==
  ASSUME Typed, NEW i \in Items, NEW new \in M!ItemSnapshot,
         items' = [items EXCEPT ![i] = new],
         new.stage # "score" => \/ items[i].stage # "score"
                                \/ \E a \in Names : Complete(facts[i][a]),
         new.error = "unknown" => items[i].error = "unknown" \/ Declared(i, facts, worker)
  PROVE  ItemsFollow
BY DEF ItemsFollow, Typed

\* Starting, resetting and the heartbeat. (_apply_item_transition)
LEMMA QuietFollows ==
  ASSUME Typed, NEW i \in Items,
         M!StartItemStage(i) \/ M!ResetScoringItem(i) \/ M!HeartbeatItem(i) \/ M!LeaseExpires(i)
  PROVE  ItemsFollow
<1>0. items[i] \in M!ItemSnapshot
  BY DEF Typed
<1>1. CASE M!StartItemStage(i)
  <2> DEFINE new == [items[i] EXCEPT !.status = "running", !.attempts = @ + 1,
                       !.lease = "fresh", !.retryable = FALSE, !.error = "none"]
  <2>1. M!CommitItem(i, new) /\ items[i].attempts + 1 <= MaxAttempts
    BY <1>1 DEF M!StartItemStage
  <2>2. new \in M!ItemSnapshot
    <3>1. items[i].attempts \in 0 .. MaxAttempts
      BY <1>0 DEF M!ItemSnapshot
    <3>2. items[i].attempts + 1 \in 0 .. MaxAttempts
      BY <2>1, <3>1, AttemptsAssumption
    <3> QED
      BY <1>0, <3>2 DEF M!ItemSnapshot, M!Settled
  <2>3. new.stage = items[i].stage /\ new.error = "none"
    BY <1>0 DEF M!ItemSnapshot
  <2> QED
    BY <2>1, <2>2, <2>3, CommitsItem, ReplacedFollows
<1>2. CASE M!ResetScoringItem(i)
  <2> DEFINE new == [M!Leaving(items[i], "pending") EXCEPT !.retryable = FALSE]
  <2>1. M!CommitItem(i, new)
    BY <1>2 DEF M!ResetScoringItem
  <2>2. new \in M!ItemSnapshot /\ new.stage = items[i].stage /\ new.error = items[i].error
    BY <1>0 DEF M!ItemSnapshot, M!Leaving
  <2> QED
    BY <2>1, <2>2, CommitsItem, ReplacedFollows
<1>3. CASE M!HeartbeatItem(i)
  <2> DEFINE new == [items[i] EXCEPT !.lease = "fresh"]
  <2>1. M!CommitItem(i, new)
    BY <1>3 DEF M!HeartbeatItem
  <2>2. new \in M!ItemSnapshot /\ new.stage = items[i].stage /\ new.error = items[i].error
    BY <1>0 DEF M!ItemSnapshot
  <2> QED
    BY <2>1, <2>2, CommitsItem, ReplacedFollows
<1>4. CASE M!LeaseExpires(i)
  <2> DEFINE new == [items[i] EXCEPT !.lease = "stale"]
  <2>1. items' = [items EXCEPT ![i] = new]
    BY <1>4 DEF M!LeaseExpires, Typed
  <2>2. new \in M!ItemSnapshot /\ new.stage = items[i].stage /\ new.error = items[i].error
    BY <1>0 DEF M!ItemSnapshot
  <2> QED
    BY <2>1, <2>2, ReplacedFollows
<1> QED
  BY <1>1, <1>2, <1>3, <1>4

\* Completing a stage with a complete attempt on record. (complete_scoring_item_stage)
LEMMA CompletionFollows ==
  ASSUME Typed, NEW i \in Items, M!CompleteScoringItemStage(i),
         items[i].stage = "score", \E a \in Names : Complete(facts[i][a])
  PROVE  ItemsFollow
<1> DEFINE new == [M!Leaving(items[i], "pending") EXCEPT !.stage = "review"]
<1>1. items[i] \in M!ItemSnapshot /\ M!CommitItem(i, new)
  BY DEF Typed, M!CompleteScoringItemStage
<1>2. new \in M!ItemSnapshot /\ new.error = items[i].error
  BY <1>1 DEF M!ItemSnapshot, M!StageNames, M!Leaving
<1> QED
  BY <1>1, <1>2, CommitsItem, ReplacedFollows

\* Failing an item, with an unknown outcome only where one is declared. (fail_item)
LEMMA FailureFollows ==
  ASSUME Typed, NEW i \in Items, NEW retryable \in BOOLEAN, NEW error \in {"ordinary", "unknown"},
         M!FailItem(i, retryable, error),
         error = "unknown" => Declared(i, facts, worker)
  PROVE  ItemsFollow
<1> DEFINE new == [M!Leaving(items[i], "failed") EXCEPT !.retryable = retryable, !.error = error]
<1>1. items[i] \in M!ItemSnapshot /\ M!CommitItem(i, new)
  BY DEF Typed, M!FailItem
<1>2. new \in M!ItemSnapshot /\ new.stage = items[i].stage /\ new.error = error
  BY <1>1 DEF M!ItemSnapshot, M!Leaving
<1> QED
  BY <1>1, <1>2, CommitsItem, ReplacedFollows

\* Applying a resume decision. (apply_resume_decision)
LEMMA ResumeFollows ==
  ASSUME Typed, NEW r \in Requests, M!ApplyResumeDecision(r)
  PROVE  ItemsFollow
<1>1. ASSUME NEW i \in Items
      PROVE  [M!Leaving(items[i], "pending") EXCEPT !.retryable = FALSE] \in M!ItemSnapshot
  <2>1. items[i] \in M!ItemSnapshot
    BY DEF Typed
  <2> QED
    BY <2>1 DEF M!ItemSnapshot, M!Leaving
<1>2. PICK moved \in SUBSET Items : items' = [i \in Items |-> IF i \in moved
                 THEN [M!Leaving(items[i], "pending") EXCEPT !.retryable = FALSE]
                 ELSE items[i]]
  <2> DEFINE moved == {i \in Items : i \in resume[r].eligible
                                       /\ items[i].status \in {"failed", "running"}}
  <2>1. items' = [i \in Items |-> IF i \in moved
                 THEN [M!Leaving(items[i], "pending") EXCEPT !.retryable = FALSE]
                 ELSE items[i]]
    BY DEF M!ApplyResumeDecision, M!Commit
  <2> QED
    BY <2>1
<1>3. \A i \in Items : items[i] \in M!ItemSnapshot
  BY DEF Typed
<1>4. items' \in [Items -> M!ItemSnapshot]
  BY <1>1, <1>2, <1>3
<1>5. \A i \in Items : items'[i].stage = items[i].stage /\ items'[i].error = items[i].error
  BY <1>2, <1>3 DEF M!ItemSnapshot, M!Leaving
<1> QED
  BY <1>4, <1>5 DEF ItemsFollow

----------------------------------------------------------------------------
(* Steps that leave the facts alone. *)

LEMMA PlainTurn ==
  ASSUME IInv, NEW w \in Workers, WorkersTyped', \A v \in Workers \ {w} : Kept(v),
         NEW e \in WorkerState, worker'[w] = e,
         facts' = facts, ItemsFollow,
         e.phase \notin {"started", "announcing"}, Known(e, facts), Owes(e, facts, worker'),
         \/ e.item = worker[w].item /\ e.name = worker[w].name
         \/ e.name = NoName
         \/ e.name \in Names /\ facts[e.item][e.name].status # "none"
  PROVE  IInv' /\ VerdictsKept
<1>1. facts' \in [Items -> [Names -> Attempt]] /\ Grow(facts, facts') /\ Touches(w)
  BY DEF IInv, Typed, Grow, Touches
<1>2. FactsSound(facts') /\ Status(e, facts')
  BY DEF IInv, Status
<1>3. ASSUME NEW v \in Workers \ {w} PROVE Apart(e, worker[v]) /\ Apart(worker[v], e)
  <2>1. Apart(worker[v], worker[w]) /\ Known(worker[v], facts) /\ Status(worker[v], facts)
    BY DEF IInv
  <2>2. worker[v].phase = "started" => worker[v].name \in Names /\ worker[v].name # NoName
    BY <2>1, NamesAssumption DEF Known, Named, NoName
  <2> QED
    BY <2>1, <2>2 DEF Apart, Status
<1> QED
  BY <1>1, <1>2, <1>3, TurnInv

\* A call that returns, wherever it is.
LEMMA ReturnTurn ==
  ASSUME IInv, NEW w \in Workers, NEW i \in Items, facts' = facts, ItemsFollow,
         WorkersTyped', \A v \in Workers \ {w} : Kept(v), worker'[w] = Idle(i)
  PROVE  IInv' /\ VerdictsKept
<1>1. /\ Idle(i) \in WorkerState /\ Idle(i).phase = "idle" /\ Idle(i).name = NoName
      /\ Known(Idle(i), facts) /\ Owes(Idle(i), facts, worker')
  BY IdleTyped DEF Idle, Known, Named, Owes
<1> QED
  BY <1>1, PlainTurn

LEMMA ItemsAlone == ASSUME Typed, items' = items PROVE ItemsFollow
BY DEF Typed, ItemsFollow

\* Refusals, conflicts, and interruptions.
LEMMA ReturnInv ==
  ASSUME IInv, NEW w \in Workers, Return(w), UNCHANGED <<managed, facts>>
  PROVE  IInv' /\ VerdictsKept
<1>1. worker[w].item \in Items /\ Typed
  BY DEF IInv, Typed, WorkersTyped, WorkerState
<1>2. WorkersTyped' /\ worker'[w] = Idle(worker[w].item) /\ \A v \in Workers \ {w} : Kept(v)
  BY <1>1, IdleTyped, StepAlone DEF Return, Typed
<1> QED
  BY <1>1, <1>2, ReturnTurn, ItemsAlone DEF managed

\* The steps before anything is written, and the answer of the provider.
LEMMA EarlyInv ==
  ASSUME IInv, NEW w \in Workers,
         \/ \E i \in Items : Admit(w, i) \/ Inspect(w, i)
         \/ ReadAgain(w) \/ Answer(w)
         \/ \E verdict \in Verdicts : ProviderFails(w, verdict)
  PROVE  IInv' /\ VerdictsKept
<1>1. worker[w] \in WorkerState /\ Typed /\ WorkersTyped /\ Known(worker[w], facts)
  BY DEF IInv, Typed, WorkersTyped
<1>2. facts' = facts /\ ItemsFollow
  BY <1>1, ItemsAlone DEF Admit, Inspect, ReadAgain, Answer, ProviderFails, managed
<1>3. ASSUME NEW i \in Items, Admit(w, i) \/ Inspect(w, i) PROVE IInv' /\ VerdictsKept
  <2>1. PICK e \in WorkerState :
          /\ GoTo(w, e)
          /\ e.item = i /\ e.name = NoName /\ e.verdict = "success"
          /\ e.phase \in {"admitted", "judging"}
    <3> DEFINE a == [Idle(i) EXCEPT !.phase = "admitted", !.fresh = TRUE]
               j(seen) == [Idle(i) EXCEPT !.phase = "judging", !.fresh = TRUE, !.seen = seen]
    <3>1. CASE Admit(w, i)
      <4>1. /\ a \in WorkerState /\ a.item = i /\ a.name = NoName /\ a.verdict = "success"
            /\ a.phase = "admitted"
        BY DEF Idle, WorkerState, Phases, Verdicts
      <4> QED
        BY <3>1, <4>1 DEF Admit
    <3>2. CASE Inspect(w, i)
      <4>1. PICK seen \in {"alive", "stale", "other"} : GoTo(w, j(seen))
        BY <3>2 DEF Inspect
      <4>2. /\ j(seen) \in WorkerState /\ j(seen).item = i /\ j(seen).name = NoName
            /\ j(seen).verdict = "success" /\ j(seen).phase = "judging"
        BY DEF Idle, WorkerState, Phases, Verdicts
      <4> QED
        BY <4>1, <4>2
    <3> QED
      BY <1>3, <3>1, <3>2
  <2>2. WorkersTyped' /\ worker'[w] = e /\ \A v \in Workers \ {w} : Kept(v)
    BY <1>1, <2>1, StepAlone
  <2>3. Known(e, facts) /\ Owes(e, facts, worker')
    BY <2>1 DEF Known, Named, Owes
  <2> QED
    BY <1>2, <2>1, <2>2, <2>3, PlainTurn
<1>4. CASE ReadAgain(w)
  <2> DEFINE e == [Moved(w, "ready") EXCEPT !.fresh = TRUE]
  <2>1. e = [worker[w] EXCEPT !.phase = "ready", !.fresh = TRUE]
    BY <1>1 DEF Moved, WorkerState
  <2>2. e \in WorkerState
    BY <1>1, <2>1, EntryTyped DEF Phases
  <2>3. WorkersTyped' /\ worker'[w] = e /\ \A v \in Workers \ {w} : Kept(v)
    BY <1>1, <1>4, <2>2, StepAlone DEF ReadAgain
  <2>4. e.phase = "ready" /\ e.item = worker[w].item /\ e.name = worker[w].name
    BY <1>1, <2>1 DEF WorkerState
  <2>5. Known(e, facts) /\ Owes(e, facts, worker')
    BY <2>4 DEF Known, Named, Owes
  <2> HIDE DEF e
  <2> QED
    BY <1>2, <2>2, <2>3, <2>4, <2>5, PlainTurn
<1>5. CASE Answer(w)
  <2> DEFINE e == Moved(w, "answered")
  <2>1. e \in WorkerState
    BY <1>1, EntryTyped DEF Moved, Phases
  <2>2. WorkersTyped' /\ worker'[w] = e /\ \A v \in Workers \ {w} : Kept(v)
    BY <1>1, <1>5, <2>1, StepAlone DEF Answer
  <2>3. e.phase = "answered" /\ e.item = worker[w].item /\ e.name = worker[w].name
    BY <1>1 DEF Moved, WorkerState
  <2>4. Known(e, facts) /\ Owes(e, facts, worker')
    BY <1>1, <1>5, <2>3 DEF Answer, At, Known, Named, Owes
  <2> HIDE DEF e
  <2> QED
    BY <1>2, <2>1, <2>2, <2>3, <2>4, PlainTurn
<1>6. ASSUME NEW verdict \in Verdicts, ProviderFails(w, verdict) PROVE IInv' /\ VerdictsKept
  <2> DEFINE e == [Moved(w, "publishing") EXCEPT !.verdict = verdict]
  <2>1. e = [worker[w] EXCEPT !.phase = "publishing", !.verdict = verdict]
    BY <1>1 DEF Moved, WorkerState
  <2>2. e \in WorkerState
    BY <1>1, <2>1, EntryTyped DEF Phases
  <2>3. WorkersTyped' /\ worker'[w] = e /\ \A v \in Workers \ {w} : Kept(v)
    BY <1>1, <1>6, <2>2, StepAlone DEF ProviderFails
  <2>4. /\ e.phase = "publishing" /\ e.item = worker[w].item /\ e.name = worker[w].name
        /\ e.verdict # "success"
    BY <1>1, <1>6, <2>1 DEF WorkerState, ProviderFails
  <2>5. Known(e, facts) /\ Owes(e, facts, worker')
    BY <1>1, <1>6, <2>4 DEF ProviderFails, At, Known, Named, Owes
  <2> HIDE DEF e
  <2> QED
    BY <1>2, <2>2, <2>3, <2>4, <2>5, PlainTurn
<1> QED
  BY <1>3, <1>4, <1>5, <1>6

\* A recovery decides: a success is complete, an interrupted call was made.
\* (recover_score_item, _recover_running)
LEMMA JudgeInv ==
  ASSUME IInv, NEW w \in Workers, Judge(w)
  PROVE  IInv' /\ VerdictsKept
<1> DEFINE i == worker[w].item
           a == Latest(i)
<1>1. /\ worker[w] \in WorkerState /\ Typed /\ WorkersTyped /\ Known(worker[w], facts)
      /\ i \in Items /\ worker[w].phase = "judging" /\ worker[w].verdict = "success"
  BY DEF IInv, Typed, WorkersTyped, WorkerState, Judge, At, Known
<1>2. facts' = facts /\ ItemsFollow
  BY <1>1, ItemsAlone DEF Judge, managed
<1>3. CASE Succeeded(i) # {} /\ GoTo(w, Moved(w, "concluding"))
  <2> DEFINE e == Moved(w, "concluding")
  <2>1. e \in WorkerState
    BY <1>1, EntryTyped DEF Moved, Phases
  <2>2. WorkersTyped' /\ worker'[w] = e /\ \A v \in Workers \ {w} : Kept(v)
    BY <1>1, <1>3, <2>1, StepAlone
  <2>3. /\ e.phase = "concluding" /\ e.item = i /\ e.name = worker[w].name
        /\ e.verdict = "success"
    BY <1>1 DEF Moved, WorkerState
  <2>4. \E b \in Names : Complete(facts[i][b])
    BY <1>1, <1>3 DEF Succeeded, Attempts, IInv, FactsSound
  <2>5. Known(e, facts) /\ Owes(e, facts, worker')
    BY <2>3, <2>4 DEF Known, Named, Owes
  <2> HIDE DEF e
  <2> QED
    BY <1>2, <2>1, <2>2, <2>3, <2>5, PlainTurn
<1>4. CASE GoTo(w, Moved(w, "resetting"))
  <2> DEFINE e == Moved(w, "resetting")
  <2>1. e \in WorkerState
    BY <1>1, EntryTyped DEF Moved, Phases
  <2>2. WorkersTyped' /\ worker'[w] = e /\ \A v \in Workers \ {w} : Kept(v)
    BY <1>1, <1>4, <2>1, StepAlone
  <2>3. e.phase = "resetting" /\ e.item = i /\ e.name = worker[w].name
    BY <1>1 DEF Moved, WorkerState
  <2>4. Known(e, facts) /\ Owes(e, facts, worker')
    BY <2>3 DEF Known, Named, Owes
  <2> HIDE DEF e
  <2> QED
    BY <1>2, <2>1, <2>2, <2>3, <2>4, PlainTurn
<1>5. CASE Undecided(i) /\ Called(i) /\ GoOnWith(w, a)
  <2>1. a \in Names /\ facts[i][a].status # "none" /\ facts[i][a].dispatched
    BY <1>1, <1>5, LatestIsAttempt DEF Called, Attempts
  <2>2. PICK e \in WorkerState :
          /\ GoTo(w, e)
          /\ e.item = i /\ e.name = a
          /\ \/ e.phase = "responded" /\ facts[i][a].response
             \/ e.phase = "publishing" /\ e.verdict = "unknown"
    <3> DEFINE d == [worker[w] EXCEPT !.phase = "responded", !.name = a]
               u == [worker[w] EXCEPT !.phase = "publishing", !.name = a, !.verdict = "unknown"]
    <3>1. /\ d \in WorkerState /\ d.item = i /\ d.name = a /\ d.phase = "responded"
          /\ u \in WorkerState /\ u.item = i /\ u.name = a /\ u.phase = "publishing"
          /\ u.verdict = "unknown"
      BY <1>1, <2>1 DEF WorkerState, Phases, Verdicts
    <3>2. \/ facts[i][a].response /\ GoTo(w, d)
          \/ GoTo(w, u)
      BY <1>1, <1>5 DEF GoOnWith, Moved, WorkerState
    <3> QED
      BY <3>1, <3>2
  <2>3. WorkersTyped' /\ worker'[w] = e /\ \A v \in Workers \ {w} : Kept(v)
    BY <1>1, <2>2, StepAlone
  <2>4. Known(e, facts) /\ Owes(e, facts, worker')
    BY <2>1, <2>2 DEF Known, Named, Owes
  <2>5. e.phase \notin {"started", "announcing"} /\ facts[e.item][e.name].status # "none"
    BY <2>1, <2>2
  <2>6. e.name \in Names
    BY <2>1, <2>2
  <2> QED
    BY <1>2, <2>3, <2>4, <2>5, <2>6, PlainTurn
<1>6. CASE Return(w)
  BY <1>6, ReturnInv DEF Judge
<1> QED
  BY <1>3, <1>4, <1>5, <1>6 DEF Judge

\* The end of a publication. (publish_attempt_terminal, event published)
LEMMA AnnounceInv ==
  ASSUME IInv, NEW w \in Workers, Announce(w)
  PROVE  IInv' /\ VerdictsKept
<1> DEFINE i == worker[w].item
           e == Moved(w, "concluding")
<1>1. /\ worker[w] \in WorkerState /\ Typed /\ WorkersTyped /\ i \in Items
      /\ Known(worker[w], facts) /\ Status(worker[w], facts)
      /\ worker[w].phase = "announcing" /\ worker[w].name \in Names
  BY DEF IInv, Typed, WorkersTyped, WorkerState, Announce, At, Known, Named
<1>2. facts' = facts /\ ItemsFollow
  BY <1>1, ItemsAlone DEF Announce, managed
<1>3. e \in WorkerState
  BY <1>1, EntryTyped DEF Moved, Phases
<1>4. WorkersTyped' /\ worker'[w] = e /\ \A v \in Workers \ {w} : Kept(v)
  BY <1>1, <1>3, StepAlone DEF Announce
<1>5. /\ e.phase = "concluding" /\ e.item = i /\ e.name = worker[w].name
      /\ e.verdict = worker[w].verdict
  BY <1>1 DEF Moved, WorkerState
<1>6. ASSUME e.verdict = "unknown" PROVE Declared(i, facts, worker')
  <2>1. facts[i][worker[w].name].status = "unknown"
    BY <1>1, <1>5, <1>6 DEF Status, StatusFor
  <2>2. ASSUME NEW v \in Workers, worker'[v].phase = "announcing", worker'[v].item = i
        PROVE  FALSE
    <3>1. v # w
      BY <1>4, <1>5, <2>2
    <3>2. worker[v].phase = "announcing" /\ worker[v].item = i
      BY <1>1, <1>4, <2>2, <3>1, KeptSame
    <3> QED
      BY <1>1, <3>1, <3>2 DEF IInv, Apart
  <2> QED
    BY <1>1, <2>1, <2>2 DEF Declared
<1>7. Known(e, facts)
  BY <1>1, <1>5 DEF Known, Named
<1>8. Owes(e, facts, worker')
  BY <1>5, <1>6 DEF Owes
<1> HIDE DEF e
<1> QED
  BY <1>2, <1>3, <1>4, <1>5, <1>7, <1>8, PlainTurn

----------------------------------------------------------------------------
(* Steps that add to the facts. *)

\* One more fact about the attempt of w. (_write_fact, create-only)
LEMMA RecordGrows ==
  ASSUME IInv, NEW w \in Workers, worker[w].name \in Names,
         NEW field \in {"dispatched", "response", "snapshot", "validation"}, Record(w, field)
  PROVE  /\ facts' \in [Items -> [Names -> Attempt]] /\ Grow(facts, facts')
         /\ Touches(w) /\ FactsSound(facts') /\ ItemsFollow
         /\ facts'[worker[w].item][worker[w].name][field]
<1> DEFINE i == worker[w].item
           a == worker[w].name
           new == [facts[i][a] EXCEPT ![field] = TRUE]
<1>1. i \in Items /\ Typed /\ facts[i][a] \in Attempt
  BY DEF IInv, Typed, WorkersTyped, WorkerState
<1>2. facts' = [facts EXCEPT ![i][a] = new]
  BY <1>1 DEF Record, Typed
<1>3. new \in Attempt /\ new.status = facts[i][a].status /\ new[field]
  BY <1>1 DEF Attempt
<1>4. /\ facts[i][a].dispatched => new.dispatched
      /\ facts[i][a].response => new.response
      /\ facts[i][a].snapshot => new.snapshot
      /\ facts[i][a].validation => new.validation
  BY <1>1 DEF Attempt
<1> HIDE DEF new
<1>5. facts' \in [Items -> [Names -> Attempt]] /\ facts'[i][a] = new
  BY <1>1, <1>2, <1>3 DEF Typed
<1>6. \A j \in Items, b \in Names : facts'[j][b] = facts[j][b] \/ (j = i /\ b = a)
  BY <1>1, <1>2 DEF Typed
<1>7. Grow(facts, facts') /\ Touches(w)
  BY <1>3, <1>4, <1>5, <1>6 DEF Grow, Touches
<1>8. FactsSound(facts')
  BY <1>3, <1>4, <1>5, <1>6 DEF IInv, FactsSound, Complete
<1>9. ItemsFollow
  BY <1>1, ItemsAlone DEF Record, managed
<1> QED
  BY <1>3, <1>5, <1>7, <1>8, <1>9

LEMMA RecordTurn ==
  ASSUME IInv, NEW w \in Workers, worker[w].name \in Names,
         NEW field \in {"dispatched", "response", "snapshot", "validation"}, Record(w, field),
         NEW e \in WorkerState, GoTo(w, e),
         e.item = worker[w].item, e.name = worker[w].name,
         e.phase \in {"calling", "responded", "scored", "publishing"}, Known(e, facts')
  PROVE  IInv' /\ VerdictsKept
<1>1. /\ facts' \in [Items -> [Names -> Attempt]] /\ Grow(facts, facts')
      /\ Touches(w) /\ FactsSound(facts') /\ ItemsFollow
  BY RecordGrows
<1>2. WorkersTyped' /\ worker'[w] = e /\ \A v \in Workers \ {w} : Kept(v)
  BY StepAlone DEF IInv, Typed
<1>3. Status(e, facts') /\ Owes(e, facts', worker')
  BY DEF Status, Owes
<1>4. ASSUME NEW v \in Workers \ {w} PROVE Apart(e, worker[v]) /\ Apart(worker[v], e)
  <2>1. Apart(worker[v], worker[w])
    BY DEF IInv
  <2> QED
    BY <2>1 DEF Apart
<1> QED
  BY <1>1, <1>2, <1>3, <1>4, TurnInv

\* The dispatch mark, the answer, the result and the validation, in this order.
LEMMA RecordInv ==
  ASSUME IInv, NEW w \in Workers,
         Dispatch(w) \/ WriteResponse(w) \/ WriteSnapshot(w) \/ WriteValidation(w)
  PROVE  IInv' /\ VerdictsKept
<1> DEFINE i == worker[w].item
           a == worker[w].name
<1>1. worker[w] \in WorkerState /\ i \in Items /\ Known(worker[w], facts)
  BY DEF IInv, Typed, WorkersTyped, WorkerState
<1>2. a \in Names
  BY <1>1 DEF Dispatch, WriteResponse, WriteSnapshot, WriteValidation, At, Known, Named
<1>3. ASSUME NEW field \in {"dispatched", "response", "snapshot", "validation"}, Record(w, field)
      PROVE  Known(worker[w], facts') /\ facts'[i][a][field]
  <2>1. Grow(facts, facts') /\ facts'[i][a][field]
    BY <1>2, <1>3, RecordGrows
  <2> QED
    BY <1>1, <2>1, KnownGrows
<1>4. CASE Dispatch(w)
  <2> DEFINE e == Moved(w, "calling")
  <2>1. e \in WorkerState /\ e.phase = "calling" /\ e.item = i /\ e.name = a
    BY <1>1, MovedTyped DEF Phases
  <2>2. facts'[i][a].dispatched
    BY <1>3, <1>4 DEF Dispatch
  <2>3. Known(e, facts')
    BY <1>2, <2>1, <2>2 DEF Known
  <2> HIDE DEF e
  <2> QED
    BY <1>2, <1>4, <2>1, <2>3, RecordTurn DEF Dispatch, e
<1>5. CASE WriteResponse(w)
  <2> DEFINE e == Moved(w, "responded")
  <2>1. e \in WorkerState /\ e.phase = "responded" /\ e.item = i /\ e.name = a
    BY <1>1, MovedTyped DEF Phases
  <2>2. facts'[i][a].response /\ Known(worker[w], facts') /\ worker[w].phase = "answered"
    BY <1>3, <1>5 DEF WriteResponse, At
  <2>3. Known(e, facts')
    BY <1>2, <2>1, <2>2 DEF Known
  <2> HIDE DEF e
  <2> QED
    BY <1>2, <1>5, <2>1, <2>3, RecordTurn DEF WriteResponse, e
<1>6. CASE WriteSnapshot(w)
  <2> DEFINE e == Moved(w, "scored")
  <2>1. e \in WorkerState /\ e.phase = "scored" /\ e.item = i /\ e.name = a
    BY <1>1, MovedTyped DEF Phases
  <2>2. facts'[i][a].snapshot /\ Known(worker[w], facts') /\ worker[w].phase = "responded"
    BY <1>3, <1>6 DEF WriteSnapshot, At
  <2>3. Known(e, facts')
    BY <1>2, <2>1, <2>2 DEF Known
  <2> HIDE DEF e
  <2> QED
    BY <1>2, <1>6, <2>1, <2>3, RecordTurn DEF WriteSnapshot, e
<1>7. CASE WriteValidation(w)
  <2> DEFINE e == [Moved(w, "publishing") EXCEPT !.verdict = "success"]
  <2>1. e = [worker[w] EXCEPT !.phase = "publishing", !.verdict = "success"]
    BY <1>1 DEF Moved, WorkerState
  <2>2. e \in WorkerState /\ e.phase = "publishing" /\ e.item = i /\ e.name = a
    <3>1. e \in WorkerState
      BY <1>1, <2>1, EntryTyped DEF Phases, Verdicts
    <3>2. e.phase = "publishing" /\ e.item = i /\ e.name = a
      BY <1>1, <2>1 DEF WorkerState
    <3> QED
      BY <3>1, <3>2
  <2>3. facts'[i][a].validation /\ Known(worker[w], facts') /\ worker[w].phase = "scored"
    BY <1>3, <1>7 DEF WriteValidation, At
  <2>4. Known(e, facts')
    BY <1>2, <2>2, <2>3 DEF Known, Complete
  <2> HIDE DEF e
  <2> QED
    BY <1>2, <1>7, <2>2, <2>4, RecordTurn DEF WriteValidation, e
<1> QED
  BY <1>4, <1>5, <1>6, <1>7

----------------------------------------------------------------------------
(* Steps that change the status of an attempt. *)

\* Writing a status into the attempt of w, which others do not hold.
LEMMA StatusWritten ==
  ASSUME IInv, NEW w \in Workers, worker[w].name \in Names, worker[w].phase \in Named,
         NEW status \in {"none", "running", "succeeded", "failed", "unknown"},
         facts' = [facts EXCEPT ![worker[w].item][worker[w].name].status = status],
         \A v \in Workers \ {w} : ~(At(v, "announcing") /\ worker[v].item = worker[w].item),
         \/ facts[worker[w].item][worker[w].name].status \in {"none", "running"}
         \/ At(w, "announcing"),
         status = "succeeded" => Complete(facts[worker[w].item][worker[w].name])
  PROVE  /\ facts' \in [Items -> [Names -> Attempt]] /\ Grow(facts, facts')
         /\ Touches(w) /\ FactsSound(facts')
         /\ facts'[worker[w].item][worker[w].name].status = status
<1> DEFINE i == worker[w].item
           a == worker[w].name
           new == [facts[i][a] EXCEPT !.status = status]
<1>1. i \in Items /\ Typed /\ facts[i][a] \in Attempt
  BY DEF IInv, Typed, WorkersTyped, WorkerState
<1>2. facts' = [facts EXCEPT ![i][a] = new]
  BY <1>1 DEF Typed
<1>3. new \in Attempt /\ new.status = status
  BY <1>1 DEF Attempt
<1>4. /\ new.dispatched = facts[i][a].dispatched /\ new.response = facts[i][a].response
      /\ new.snapshot = facts[i][a].snapshot /\ new.validation = facts[i][a].validation
  BY <1>1 DEF Attempt
<1> HIDE DEF new
<1>5. facts' \in [Items -> [Names -> Attempt]] /\ facts'[i][a] = new
  BY <1>1, <1>2, <1>3 DEF Typed
<1>6. \A j \in Items, b \in Names : facts'[j][b] = facts[j][b] \/ (j = i /\ b = a)
  BY <1>1, <1>2 DEF Typed
<1>7. Grow(facts, facts')
  BY <1>4, <1>5, <1>6 DEF Grow
<1>8. Touches(w)
  BY <1>6 DEF Touches
<1>9. FactsSound(facts')
  BY <1>3, <1>4, <1>5, <1>6 DEF IInv, FactsSound, Complete
<1> QED
  BY <1>3, <1>5, <1>7, <1>8, <1>9

\* The attempt is created under a name nobody else has. (create_attempt)
LEMMA CreateInv ==
  ASSUME IInv, NEW w \in Workers, CreateAttempt(w)
  PROVE  IInv' /\ VerdictsKept
<1> DEFINE i == worker[w].item
           a == worker[w].name
           e == Moved(w, "created")
<1>1. /\ worker[w] \in WorkerState /\ Typed /\ WorkersTyped /\ i \in Items
      /\ worker[w].phase = "started" /\ a \in Names /\ facts[i][a].status = "none"
  BY DEF IInv, Typed, WorkersTyped, WorkerState, CreateAttempt, At, Known, Named, Status
<1>2. /\ facts' \in [Items -> [Names -> Attempt]] /\ Grow(facts, facts')
      /\ Touches(w) /\ FactsSound(facts')
  BY <1>1, StatusWritten DEF CreateAttempt, Unlocked, Named
<1>3. e \in WorkerState /\ e.phase = "created" /\ e.item = i /\ e.name = a
  BY <1>1, MovedTyped DEF Phases
<1>4. WorkersTyped' /\ worker'[w] = e /\ \A v \in Workers \ {w} : Kept(v)
  BY <1>1, <1>3, StepAlone DEF CreateAttempt
<1>5. Known(e, facts') /\ Status(e, facts') /\ Owes(e, facts', worker')
  BY <1>1, <1>3 DEF Known, Named, Status, Owes
<1>6. ASSUME NEW v \in Workers \ {w} PROVE Apart(e, worker[v]) /\ Apart(worker[v], e)
  <2>1. Apart(worker[v], worker[w])
    BY DEF IInv
  <2> QED
    BY <1>3, <2>1 DEF Apart
<1>7. ItemsFollow
  BY <1>1, ItemsAlone DEF CreateAttempt, managed
<1> HIDE DEF e
<1> QED
  BY <1>2, <1>3, <1>4, <1>5, <1>6, <1>7, TurnInv

\* The terminal attempt replaces the running one. (publish_attempt_terminal)
LEMMA PublishInv ==
  ASSUME IInv, NEW w \in Workers, Publish(w)
  PROVE  IInv' /\ VerdictsKept
<1> DEFINE i == worker[w].item
           a == worker[w].name
           e == Moved(w, "announcing")
           status == StatusFor(worker[w].verdict)
<1>1. /\ worker[w] \in WorkerState /\ Typed /\ WorkersTyped /\ i \in Items
      /\ worker[w].phase = "publishing" /\ a \in Names /\ facts[i][a].status = "running"
      /\ worker[w].verdict = "success" => Complete(facts[i][a])
  BY DEF IInv, Typed, WorkersTyped, WorkerState, Publish, At, Known, Named
<1>2. /\ status \in {"succeeded", "failed", "unknown"}
      /\ status = "succeeded" => worker[w].verdict = "success"
  BY DEF StatusFor
<1>3. /\ facts' \in [Items -> [Names -> Attempt]] /\ Grow(facts, facts')
      /\ Touches(w) /\ FactsSound(facts') /\ facts'[i][a].status = status
  <2> HIDE DEF status
  <2> QED
    BY <1>1, <1>2, StatusWritten DEF Publish, Unlocked, Named, status
<1>4. /\ e \in WorkerState /\ e.phase = "announcing" /\ e.item = i /\ e.name = a
      /\ e.verdict = worker[w].verdict
  BY <1>1, MovedTyped DEF Phases
<1>5. WorkersTyped' /\ worker'[w] = e /\ \A v \in Workers \ {w} : Kept(v)
  BY <1>1, <1>4, StepAlone DEF Publish
<1>6. Complete(facts[i][a]) => Complete(facts'[i][a])
  BY <1>1, <1>3 DEF Grow, Complete
<1>7. Known(e, facts') /\ Status(e, facts') /\ Owes(e, facts', worker')
  BY <1>1, <1>3, <1>4, <1>6 DEF Known, Named, Status, Owes
<1>8. ASSUME NEW v \in Workers \ {w} PROVE Apart(e, worker[v]) /\ Apart(worker[v], e)
  <2>1. Apart(worker[v], worker[w]) /\ ~(worker[v].phase = "announcing" /\ worker[v].item = i)
    BY DEF IInv, Publish, Unlocked, At
  <2> QED
    BY <1>4, <2>1 DEF Apart
<1>9. ItemsFollow
  BY <1>1, ItemsAlone DEF Publish, managed
<1> HIDE DEF e
<1> QED
  BY <1>1, <1>3, <1>4, <1>5, <1>7, <1>8, <1>9, TurnInv

\* The publication is withdrawn by whoever made it. (publish_attempt_terminal, rollback)
LEMMA AnnounceFailsInv ==
  ASSUME IInv, NEW w \in Workers, AnnounceFails(w)
  PROVE  IInv' /\ VerdictsKept
<1> DEFINE i == worker[w].item
           a == worker[w].name
           e == Idle(i)
<1>1. /\ worker[w] \in WorkerState /\ Typed /\ WorkersTyped /\ i \in Items
      /\ worker[w].phase = "announcing" /\ a \in Names
  BY DEF IInv, Typed, WorkersTyped, WorkerState, AnnounceFails, At, Known, Named
<1>2. \A v \in Workers \ {w} : ~(At(v, "announcing") /\ worker[v].item = i)
  BY <1>1 DEF IInv, Apart, At
<1>3. /\ facts' \in [Items -> [Names -> Attempt]] /\ Grow(facts, facts')
      /\ Touches(w) /\ FactsSound(facts')
  BY <1>1, <1>2, StatusWritten DEF AnnounceFails, Named
<1>4. e \in WorkerState /\ e.phase = "idle" /\ e.name = NoName
  BY <1>1, IdleTyped DEF Idle
<1>5. WorkersTyped' /\ worker'[w] = e /\ \A v \in Workers \ {w} : Kept(v)
  BY <1>1, <1>4, StepAlone DEF AnnounceFails, Return
<1>6. Known(e, facts') /\ Status(e, facts') /\ Owes(e, facts', worker')
  BY <1>4 DEF Known, Named, Status, Owes
<1>7. ASSUME NEW v \in Workers \ {w} PROVE Apart(e, worker[v]) /\ Apart(worker[v], e)
  <2>1. worker[v].phase = "started" => worker[v].name \in Names
    BY DEF IInv, Known, Named
  <2> QED
    BY <1>4, <2>1, NamesAssumption DEF Apart, NoName
<1>8. ItemsFollow
  BY <1>1, ItemsAlone DEF AnnounceFails, managed
<1> HIDE DEF e
<1> QED
  BY <1>3, <1>4, <1>5, <1>6, <1>7, <1>8, TurnInv

----------------------------------------------------------------------------
(* Steps that commit an item. *)

\* An execution starts under a new name. (start_item_stage)
LEMMA StartInv ==
  ASSUME IInv, NEW w \in Workers, Start(w)
  PROVE  IInv' /\ VerdictsKept
<1> DEFINE i == worker[w].item
<1>1. worker[w] \in WorkerState /\ Typed /\ WorkersTyped /\ i \in Items
  BY DEF IInv, Typed, WorkersTyped, WorkerState
<1>2. M!StartItemStage(i) /\ facts' = facts
  BY DEF Start
<1>3. PICK a \in Names \ ({worker[v].name : v \in Workers} \cup Attempts(i)) :
        worker' = [Outdated(w, i) EXCEPT
                     ![w] = [@ EXCEPT !.phase = "started", !.name = a, !.executing = TRUE]]
  BY DEF Start
<1> DEFINE e == [worker[w] EXCEPT !.phase = "started", !.name = a, !.executing = TRUE]
<1>4. Outdated(w, i)[w] = worker[w]
  BY DEF Outdated
<1>5. worker' = [Outdated(w, i) EXCEPT ![w] = e]
  BY <1>3, <1>4 DEF Outdated
<1>6. e \in WorkerState
  BY <1>1, EntryTyped DEF Phases
<1>7. e.phase = "started" /\ e.item = i /\ e.name = a
  BY <1>1 DEF WorkerState
<1> HIDE DEF e
<1>8. WorkersTyped' /\ worker'[w] = e /\ \A v \in Workers \ {w} : Kept(v)
  BY <1>1, <1>5, <1>6, StepCommits
<1>9. a \in Names /\ facts[i][a].status = "none" /\ \A v \in Workers : worker[v].name # a
  BY <1>1 DEF Attempts
<1>10. /\ facts' \in [Items -> [Names -> Attempt]] /\ Grow(facts, facts')
       /\ Touches(w) /\ FactsSound(facts')
  BY <1>2 DEF IInv, Typed, Grow, Touches
<1>11. Known(e, facts') /\ Status(e, facts') /\ Owes(e, facts', worker')
  BY <1>2, <1>7, <1>9 DEF Known, Named, Status, Owes
<1>12. \A v \in Workers \ {w} : Apart(e, worker[v]) /\ Apart(worker[v], e)
  BY <1>7, <1>9 DEF Apart
<1>13. ItemsFollow
  BY <1>1, <1>2, QuietFollows
<1> QED
  BY <1>7, <1>8, <1>10, <1>11, <1>12, <1>13, TurnInv

\* The last step of a call: the item is put back, advanced or failed.
\* (_reset_to_pending, complete_scoring_item_stage, _safe_fail_item)
LEMMA LastCommitInv ==
  ASSUME IInv, NEW w \in Workers, ResetItem(w) \/ Conclude(w)
  PROVE  IInv' /\ VerdictsKept
<1> DEFINE i == worker[w].item
<1>1. /\ worker[w] \in WorkerState /\ Typed /\ WorkersTyped /\ i \in Items
      /\ Known(worker[w], facts) /\ Owes(worker[w], facts, worker)
  BY DEF IInv, Typed, WorkersTyped, WorkerState
<1>2. facts' = facts /\ worker' = [Outdated(w, i) EXCEPT ![w] = Idle(i)]
  BY DEF ResetItem, Conclude
<1>3. WorkersTyped' /\ worker'[w] = Idle(i) /\ \A v \in Workers \ {w} : Kept(v)
  BY <1>1, <1>2, IdleTyped, StepCommits
<1>4. ItemsFollow
  <2>1. CASE ResetItem(w)
    BY <1>1, <2>1, QuietFollows DEF ResetItem
  <2>2. CASE Conclude(w) /\ worker[w].verdict = "success"
    <3>1. M!CompleteScoringItemStage(i) /\ items[i].stage = "score"
      BY <2>2 DEF Conclude, Concludes
    <3>2. \E a \in Names : Complete(facts[i][a])
      BY <1>1, <2>2 DEF Conclude, At, Known
    <3> QED
      BY <1>1, <3>1, <3>2, CompletionFollows
  <2>3. CASE Conclude(w) /\ worker[w].verdict # "success"
    <3> DEFINE error == IF worker[w].verdict = "unknown" THEN "unknown" ELSE "ordinary"
    <3>1. M!FailItem(i, worker[w].verdict = "retry", error)
      BY <2>3 DEF Conclude, Concludes
    <3>2. error = "unknown" => Declared(i, facts, worker)
      BY <1>1, <2>3 DEF Conclude, At, Owes
    <3>3. error \in {"ordinary", "unknown"} /\ (worker[w].verdict = "retry") \in BOOLEAN
      OBVIOUS
    <3> HIDE DEF error
    <3> QED
      BY <1>1, <3>1, <3>2, <3>3, FailureFollows
  <2> QED
    BY <2>1, <2>2, <2>3
<1> QED
  BY <1>1, <1>2, <1>3, <1>4, ReturnTurn

----------------------------------------------------------------------------
(* All steps. *)

\* The lease, the heartbeat, pausing and resuming, which no call takes.
LEMMA OutsideInv ==
  ASSUME IInv, Typed', facts' = facts, ItemsFollow, \A v \in Workers : Kept(v)
  PROVE  IInv' /\ VerdictsKept
<1>1. \A v \in Workers :
        /\ worker[v] \in WorkerState /\ worker'[v] \in WorkerState
        /\ worker'[v].phase = worker[v].phase /\ worker'[v].item = worker[v].item
        /\ worker'[v].name = worker[v].name /\ worker'[v].verdict = worker[v].verdict
  BY KeptSame DEF IInv, Typed, WorkersTyped
<1>2. Grow(facts, facts)
  BY DEF Grow
<1>3. ASSUME NEW i \in Items, Declared(i, facts, worker) PROVE Declared(i, facts', worker')
  BY <1>1, <1>3 DEF Declared
<1>4. ASSUME NEW v \in Workers
      PROVE  /\ Known(worker'[v], facts') /\ Status(worker'[v], facts')
             /\ Owes(worker'[v], facts', worker')
  <2>1. Known(worker[v], facts) /\ Status(worker[v], facts) /\ Owes(worker[v], facts, worker)
    BY DEF IInv
  <2>2. Known(worker'[v], facts')
    BY <1>1, <1>2, <2>1, KnownGrows
  <2>3. worker[v].item \in Items
    BY <1>1 DEF WorkerState
  <2> QED
    BY <1>1, <1>3, <2>1, <2>2, <2>3 DEF Status, Owes
<1>5. \A u, v \in Workers : u # v => Apart(worker'[u], worker'[v])
  BY <1>1 DEF IInv, Apart
<1>6. ASSUME NEW i \in Items PROVE ItemSound(items'[i], i, facts', worker')
  <2>1. ItemSound(items[i], i, facts, worker)
    BY DEF IInv
  <2> QED
    BY <1>3, <2>1 DEF ItemSound, ItemsFollow
<1>7. FactsSound(facts') /\ VerdictsKept
  BY DEF IInv, VerdictsKept
<1> QED
  BY <1>4, <1>5, <1>6, <1>7 DEF IInv

\* Revisions known to calls may be outdated from outside.
LEMMA Aging ==
  ASSUME WorkersTyped, NEW S,
         worker' = [w \in Workers |-> IF w \in S
                      THEN [worker[w] EXCEPT !.fresh = FALSE] ELSE worker[w]]
  PROVE  WorkersTyped' /\ \A v \in Workers : Kept(v)
<1>1. ASSUME NEW v \in Workers PROVE Kept(v) /\ worker'[v] \in WorkerState
  <2>1. worker[v] \in WorkerState
    BY DEF WorkersTyped
  <2>2. worker'[v] = [worker[v] EXCEPT !.fresh = FALSE] \/ worker'[v] = worker[v]
    OBVIOUS
  <2>3. worker[v].fresh \in BOOLEAN /\ worker[v] = [worker[v] EXCEPT !.fresh = worker[v].fresh]
    BY <2>1 DEF WorkerState
  <2>4. Kept(v)
    BY <2>2, <2>3 DEF Kept
  <2> QED
    BY <2>1, <2>4, EntryTyped DEF Kept, Phases
<1>2. worker' = [v \in Workers |-> worker'[v]]
  OBVIOUS
<1> QED
  BY <1>1, <1>2 DEF WorkersTyped

\* Operations on the task and its requests leave the items alone.
LEMMA ManageLeavesItems ==
  ASSUME Manage
  PROVE  items' = items /\ facts' = facts /\ worker' = worker
<1>1. CASE M!StartTask \/ M!PauseTask
  BY <1>1 DEF Manage, M!StartTask, M!PauseTask, M!Commit
<1>2. CASE \/ \E r \in Requests, mode \in ResumeModes, targets \in SUBSET Items \ {{}} :
                M!CreateResumeRequest(r, mode, targets, TRUE)
           \/ \E r \in Requests : M!EvaluateResumeRequest(r)
  BY <1>2 DEF Manage, M!CreateResumeRequest, M!EvaluateResumeRequest
<1> QED
  BY <1>1, <1>2 DEF Manage

LEMMA StepInv ==
  ASSUME IInv, [Next]_vars
  PROVE  IInv' /\ VerdictsKept
<1>1. Typed /\ WorkersTyped
  BY DEF IInv, Typed
<1>2. ASSUME NEW w \in Workers, WorkerStep(w) PROVE IInv' /\ VerdictsKept
  <2>1. CASE \/ PublishConflict(w) \/ Refused(w) \/ Interrupt(w)
    BY <2>1, ReturnInv DEF PublishConflict, Refused, Interrupt
  <2>2. CASE \/ \E i \in Items : Admit(w, i) \/ Inspect(w, i)
             \/ ReadAgain(w) \/ Answer(w)
             \/ \E verdict \in Verdicts : ProviderFails(w, verdict)
    BY <2>2, EarlyInv
  <2>3. CASE Dispatch(w) \/ WriteResponse(w) \/ WriteSnapshot(w) \/ WriteValidation(w)
    BY <2>3, RecordInv
  <2>4. CASE Start(w) \/ ResetItem(w) \/ Conclude(w)
    BY <2>4, StartInv, LastCommitInv
  <2>5. CASE CreateAttempt(w) \/ Judge(w) \/ Publish(w) \/ Announce(w) \/ AnnounceFails(w)
    BY <2>5, CreateInv, JudgeInv, PublishInv, AnnounceInv, AnnounceFailsInv
  <2> QED
    BY <1>2, <2>1, <2>2, <2>3, <2>4, <2>5 DEF WorkerStep, Goes
<1>3. ASSUME WorkersTyped', facts' = facts, ItemsFollow, \A v \in Workers : Kept(v)
      PROVE  IInv' /\ VerdictsKept
  <2>1. Typed'
    BY <1>1, <1>3 DEF Typed, ItemsFollow
  <2> QED
    BY <1>3, <2>1, OutsideInv
<1>4. ASSUME worker' = worker PROVE WorkersTyped' /\ \A v \in Workers : Kept(v)
  <2> DEFINE S == {}
  <2>1. worker' = [w \in Workers |-> IF w \in S
                     THEN [worker[w] EXCEPT !.fresh = FALSE] ELSE worker[w]]
    BY <1>1, <1>4 DEF WorkersTyped
  <2> HIDE DEF S
  <2> QED
    BY <1>1, <2>1, Aging
<1>5. ASSUME NEW i \in Items, LeaseExpires(i) PROVE IInv' /\ VerdictsKept
  <2>1. worker' = worker /\ facts' = facts /\ M!LeaseExpires(i)
    BY <1>5 DEF LeaseExpires
  <2> QED
    BY <1>1, <1>3, <1>4, <2>1, QuietFollows
<1>6. ASSUME NEW i \in Items, Heartbeat(i) PROVE IInv' /\ VerdictsKept
  <2> DEFINE S == {w \in Workers : worker[w].item = i}
  <2>1. /\ facts' = facts /\ M!HeartbeatItem(i)
        /\ worker' = [w \in Workers |-> IF w \in S
                        THEN [worker[w] EXCEPT !.fresh = FALSE] ELSE worker[w]]
    BY <1>6 DEF Heartbeat
  <2> HIDE DEF S
  <2> QED
    BY <1>1, <1>3, <2>1, Aging, QuietFollows
<1>7. ASSUME NEW r \in Requests, ApplyResume(r) PROVE IInv' /\ VerdictsKept
  <2> DEFINE S == {w \in Workers : items'[worker[w].item] # items[worker[w].item]}
  <2>1. /\ facts' = facts /\ M!ApplyResumeDecision(r)
        /\ worker' = [w \in Workers |-> IF w \in S
                        THEN [worker[w] EXCEPT !.fresh = FALSE] ELSE worker[w]]
    BY <1>7 DEF ApplyResume
  <2> HIDE DEF S
  <2> QED
    BY <1>1, <1>3, <2>1, Aging, ResumeFollows
<1>8. CASE Manage \/ UNCHANGED vars
  <2>1. items' = items /\ facts' = facts /\ worker' = worker
    BY <1>8, ManageLeavesItems DEF vars
  <2> QED
    BY <1>1, <1>3, <1>4, <2>1, ItemsAlone
<1> QED
  BY <1>2, <1>5, <1>6, <1>7, <1>8 DEF Next

LEMMA InitInv == ASSUME Init PROVE IInv
<1>1. /\ facts = [i \in Items |-> [a \in Names |-> NoAttempt]]
      /\ \E i \in Items : worker = [w \in Workers |-> Idle(i)]
  BY DEF Init
<1>2. /\ items \in [Items -> M!ItemSnapshot]
      /\ \A i \in Items : items[i].stage = "score" /\ items[i].error = "none"
  <2>1. PICK level \in [Items -> {"sufficient"}] :
          items = [i \in Items |-> M!NewItem("scoring", level[i])]
    BY DEF Init, M!Init, M!LevelsOf
  <2>2. \A i \in Items :
          /\ M!NewItem("scoring", level[i]) \in M!ItemSnapshot
          /\ M!NewItem("scoring", level[i]).stage = "score"
          /\ M!NewItem("scoring", level[i]).error = "none"
    BY <2>1, AttemptsAssumption
       DEF M!NewItem, M!StagesOf, M!ItemSnapshot, M!StageNames, M!Settled
  <2> QED
    BY <2>1, <2>2
<1>3. NoAttempt \in Attempt /\ NoAttempt.status = "none"
  BY DEF NoAttempt, Attempt
<1>4. Typed
  BY <1>1, <1>2, <1>3, IdleTyped DEF Typed, WorkersTyped
<1>5. \A w \in Workers : worker[w].phase = "idle"
  BY <1>1 DEF Idle
<1>6. ASSUME NEW w \in Workers
      PROVE  Known(worker[w], facts) /\ Status(worker[w], facts) /\ Owes(worker[w], facts, worker)
  BY <1>5 DEF Known, Named, Status, Owes
<1>7. \A v, w \in Workers : Apart(worker[v], worker[w])
  BY <1>5 DEF Apart
<1>8. FactsSound(facts) /\ \A i \in Items : ItemSound(items[i], i, facts, worker)
  BY <1>1, <1>2, <1>3 DEF FactsSound, ItemSound
<1> QED
  BY <1>4, <1>6, <1>7, <1>8 DEF IInv

THEOREM Invariance == Spec => []IInv
<1>1. Init => IInv
  BY InitInv
<1>2. IInv /\ [Next]_vars => IInv'
  BY StepInv
<1> QED
  BY <1>1, <1>2, PTL DEF Spec

----------------------------------------------------------------------------
(* Every step is a step of the task manager. *)

\* The operations of the manager that calls make, and those the outside makes,
\* are operations of PipelineTask. (PipelineTaskManager)
LEMMA ManagerStep == ASSUME WorkersTyped, [Next]_vars PROVE [M!Next]_(M!vars)
<1>1. \A w \in Workers : worker[w].item \in Items
  BY DEF WorkersTyped, WorkerState
<1>2. ASSUME NEW w \in Workers, WorkerStep(w) PROVE [M!Next]_(M!vars)
  <2>1. CASE Start(w)
    BY <1>1, <2>1 DEF Start, M!Next, M!ItemStep
  <2>2. CASE ResetItem(w)
    BY <1>1, <2>2 DEF ResetItem, M!Next, M!ItemStep
  <2>3. CASE Conclude(w)
    <3>1. CASE worker[w].verdict = "success"
      BY <1>1, <2>3, <3>1 DEF Conclude, Concludes, M!Next, M!ItemStep
    <3>2. CASE worker[w].verdict # "success"
      <4>1. M!FailItem(worker[w].item, worker[w].verdict = "retry",
                       IF worker[w].verdict = "unknown" THEN "unknown" ELSE "ordinary")
        BY <2>3, <3>2 DEF Conclude, Concludes
      <4>2. \E retryable \in BOOLEAN, error \in {"ordinary", "unknown"} :
              M!FailItem(worker[w].item, retryable, error)
        BY <4>1
      <4> QED
        BY <1>1, <4>2 DEF M!Next, M!ItemStep
    <3> QED
      BY <3>1, <3>2
  <2>4. CASE ~Start(w) /\ ~ResetItem(w) /\ ~Conclude(w)
    <3>1. UNCHANGED managed
      BY <1>2, <2>4 DEF WorkerStep, Goes, Admit, Inspect, ReadAgain, CreateAttempt, Dispatch,
           Record, Answer, ProviderFails, WriteResponse, Judge, WriteSnapshot, WriteValidation,
           Publish, PublishConflict, Announce, Refused, AnnounceFails, Interrupt
    <3> QED
      BY <3>1 DEF managed, M!vars
  <2> QED
    BY <2>1, <2>2, <2>3, <2>4
<1>3. ASSUME NEW i \in Items, LeaseExpires(i) \/ Heartbeat(i) PROVE [M!Next]_(M!vars)
  BY <1>3 DEF LeaseExpires, Heartbeat, M!Next, M!ItemStep
<1>4. ASSUME NEW r \in Requests, ApplyResume(r) PROVE [M!Next]_(M!vars)
  BY <1>4 DEF ApplyResume, M!Next, M!ResumeStep
<1>5. CASE Manage
  BY <1>5, ResumeModesAssumption DEF Manage, M!Next, M!ResumeStep
<1>6. CASE UNCHANGED vars
  BY <1>6 DEF vars, M!vars
<1> QED
  BY <1>2, <1>3, <1>4, <1>5, <1>6 DEF Next

\* Scoring drives the items only through the operations of the task manager, so
\* what is proved of PipelineTask holds of it. (PipelineTaskManager)
THEOREM ManagerRefined == Spec => ManagerSpec
<1>1. Init => M!Init
  BY DEF Init
<1>2. IInv /\ [Next]_vars => [M!Next]_(M!vars)
  BY ManagerStep DEF IInv, Typed
<1> QED
  BY <1>1, <1>2, Invariance, PTL DEF Spec, ManagerSpec, M!Spec

----------------------------------------------------------------------------
(* The results of a call. *)

\* However executions, recoveries and interruptions interleave, an item is beyond
\* score only with a complete attempt. (execute_score_item, no false completion)
THEOREM CompletionHonest == Spec => []NoFalseCompletion
<1>1. IInv => NoFalseCompletion
  BY DEF IInv, ItemSound, NoFalseCompletion
<1> QED
  BY <1>1, Invariance, PTL

\* An item held back for an unknown outcome always has the attempt that explains
\* it. (_handle_provider_error, _recover_running)
THEOREM UnknownExplained == Spec => []UnknownOnRecord
<1>1. IInv => UnknownOnRecord
  BY DEF IInv, ItemSound, Declared, UnknownOnRecord
<1> QED
  BY <1>1, Invariance, PTL

\* A terminal attempt is final once it is announced. (publish_attempt_terminal)
THEOREM VerdictsFinal == Spec => VerdictFinal
<1>1. IInv /\ [Next]_vars =>
        [\A i \in Items, a \in Names :
           /\ facts[i][a].status \in {"succeeded", "failed", "unknown"}
           /\ \A w \in Workers : At(w, "announcing") =>
                worker[w].item # i \/ worker[w].name # a
           => facts'[i][a].status = facts[i][a].status]_vars
  BY StepInv DEF VerdictsKept
<1> QED
  BY <1>1, Invariance, PTL DEF Spec, VerdictFinal

----------------------------------------------------------------------------
(* One call at a time. With at most one fault, no item changed between a dry   *)
(* run and its second reading, and no resume of running items.                 *)

OneFault ==
  MaxFaults <= 1 /\ Overtaken = FALSE /\ "recover_stale" \notin ResumeModes

\* The status of an attempt will not be withdrawn any more.
Lasting(i, a) ==
  \/ faults = MaxFaults
  \/ \A w \in Workers :
       ~(worker[w].phase = "announcing" /\ worker[w].item = i /\ worker[w].name = a)

\* Whoever called for the item has failed for good, x apart.
Safe(i, x) ==
  \A a \in Names \ {x} :
    facts[i][a].dispatched => facts[i][a].status = "failed" /\ Lasting(i, a)

\* The item is not admitted again.
Blocked(i) ==
  HasSnapshot(i) \/ \E a \in Names : facts[i][a].status = "unknown" /\ Lasting(i, a)

\* An item that may still be admitted, and one that is executed or was recovered.
Waits(item) ==
  /\ item.stage = "score"
  /\ \/ item.status = "pending"
     \/ item.status = "failed" /\ item.retryable /\ item.error # "unknown"

Taken(item) ==
  \/ item.stage # "score"
  \/ item.status = "running"
  \/ item.status = "failed" /\ item.error = "unknown" /\ ~item.retryable

Working == {"created", "calling", "answered", "responded", "scored", "publishing", "announcing"}

\* An execution has its item, and nobody else's call for it can still be good.
Executes(w) ==
  LET e == worker[w]
  IN  /\ e.phase \in {"started", "created", "calling", "answered"} => e.executing
      /\ e.executing =>
           /\ e.phase \in Working \cup {"started", "concluding"} /\ e.name \in Names
           /\ Taken(items[e.item]) /\ items[e.item].lease # "stale"
           /\ Safe(e.item, e.name)
           /\ e.phase = "concluding" /\ e.verdict \in {"retry", "final"} =>
                facts[e.item][e.name].status = "failed" /\ Lasting(e.item, e.name)

\* An admitted execution whose item has not changed finds no call.
Admitted(w) ==
  LET e == worker[w]
  IN  e.phase \in {"admitted", "ready"} /\ e.fresh =>
        /\ items[e.item].stage = "score" /\ items[e.item].status = "pending"
        /\ Safe(e.item, NoName)

\* A recovery succeeds or declares the outcome unknown, and puts an item back only
\* if nobody has called for it or it is not admitted again.
Recovers(w) ==
  LET e == worker[w]
  IN  /\ ~e.executing /\ e.phase \in {"publishing", "announcing", "concluding"} =>
           e.verdict \in {"success", "unknown"}
      /\ e.fresh /\ ((e.phase = "judging" /\ e.seen = "stale") \/ e.phase = "resetting") =>
           items[e.item].status = "running" /\ items[e.item].lease = "stale"
      /\ e.fresh /\ e.phase = "resetting" => Safe(e.item, NoName) \/ Blocked(e.item)

Owns(w, i, a) ==
  /\ worker[w].executing /\ worker[w].item = i /\ worker[w].name = a
  /\ worker[w].phase \in Working

\* A running attempt without the execution that made it.
Lost(i, a) == facts[i][a].status = "running" /\ \A w \in Workers : ~Owns(w, i, a)

\* A resume puts back what has failed and may be retried.
Requested ==
  /\ resume \in [Requests -> M!Resumes]
  /\ \A r \in Requests :
       /\ resume[r].phase = "requested" => resume[r].mode # "recover_stale"
       /\ resume[r].phase = "decided" => \A i \in resume[r].eligible :
            \/ items[i].status = "pending"
            \/ items[i].status = "failed" /\ items[i].retryable /\ items[i].error # "unknown"

Exclusive ==
  \A v, w \in Workers : v # w /\ worker[v].executing /\ worker[w].executing =>
    worker[v].item # worker[w].item

CallInv ==
  /\ faults \in Nat /\ faults <= MaxFaults
  /\ \A i \in Items, a \in Names : facts[i][a].status = "none" => ~facts[i][a].dispatched
  /\ \A i \in Items : Waits(items[i]) => Safe(i, NoName) \/ Blocked(i)
  /\ \A w \in Workers : Executes(w) /\ Admitted(w) /\ Recovers(w)
  /\ Exclusive
  /\ \A i \in Items, a, b \in Names :
       Lost(i, a) => faults = MaxFaults /\ (Lost(i, b) => a = b)
  /\ Requested

\* What the faults and the facts may do in a step.
Steady ==
  /\ faults' \in Nat /\ faults <= faults' /\ faults' <= MaxFaults
  /\ \A i \in Items, a \in Names :
       /\ facts[i][a].snapshot => facts'[i][a].snapshot
       /\ Lasting(i, a) /\ facts[i][a].status \in {"failed", "unknown"} =>
            facts'[i][a].status = facts[i][a].status /\ Lasting(i, a)'

Caller(i, a) ==
  \E w \in Workers : worker[w].executing /\ worker[w].item = i /\ worker[w].name = a

\* Only an execution calls.
NewCalls ==
  \A i \in Items, a \in Names :
    facts'[i][a].dispatched => facts[i][a].dispatched \/ Caller(i, a)

\* What a step may do to the item of a call whose turn it is not.
Follows(v) ==
  LET i == worker[v].item
  IN  /\ worker[v].executing => Taken(items'[i]) /\ items'[i].lease # "stale"
      /\ worker'[v].fresh =>
           /\ worker[v].fresh
           /\ items'[i].stage = items[i].stage /\ items'[i].status = items[i].status
           /\ items[i].lease = "stale" => items'[i].lease = "stale"

----------------------------------------------------------------------------

LEMMA KeptWhole ==
  ASSUME WorkersTyped, NEW v \in Workers, Kept(v)
  PROVE  /\ worker[v] \in WorkerState
         /\ worker'[v].phase = worker[v].phase /\ worker'[v].item = worker[v].item
         /\ worker'[v].name = worker[v].name /\ worker'[v].verdict = worker[v].verdict
         /\ worker'[v].seen = worker[v].seen /\ worker'[v].executing = worker[v].executing
BY DEF WorkersTyped, WorkerState, Kept

\* A failure that lasts goes on lasting. (publish_attempt_terminal)
LEMMA SteadyStep ==
  ASSUME Typed, NEW w \in Workers, \A v \in Workers \ {w} : Kept(v), Grow(facts, facts'),
         faults \in Nat, faults <= MaxFaults, faults' \in {faults, faults + 1},
         faults' <= MaxFaults,
         \A i \in Items, a \in Names : facts'[i][a].status # facts[i][a].status =>
           \/ facts[i][a].status \in {"none", "running"}
           \/ /\ faults < MaxFaults /\ worker[w].phase = "announcing"
              /\ worker[w].item = i /\ worker[w].name = a,
         worker'[w].phase = "announcing" =>
           facts[worker'[w].item][worker'[w].name].status = "running"
  PROVE  Steady
<1>1. faults' \in Nat /\ faults <= faults' /\ faults' <= MaxFaults
      /\ (faults = MaxFaults => faults' = MaxFaults)
  BY FaultsAssumption
<1>2. ASSUME NEW i \in Items, NEW a \in Names, Lasting(i, a),
             facts[i][a].status \in {"failed", "unknown"}
      PROVE  facts'[i][a].status = facts[i][a].status /\ Lasting(i, a)'
  <2>1. CASE faults = MaxFaults
    BY <1>1, <1>2, <2>1, FaultsAssumption DEF Lasting
  <2>2. CASE faults # MaxFaults
    <3>1. \A v \in Workers :
            ~(worker[v].phase = "announcing" /\ worker[v].item = i /\ worker[v].name = a)
      BY <1>2, <2>2 DEF Lasting
    <3>2. \A v \in Workers \ {w} :
            /\ worker'[v].phase = worker[v].phase /\ worker'[v].item = worker[v].item
            /\ worker'[v].name = worker[v].name
      BY KeptSame DEF Typed
    <3>3. \A v \in Workers :
            ~(worker'[v].phase = "announcing" /\ worker'[v].item = i /\ worker'[v].name = a)
      BY <1>2, <3>1, <3>2
    <3>4. facts'[i][a].status = facts[i][a].status
      BY <1>2, <3>1
    <3> QED
      BY <3>3, <3>4 DEF Lasting
  <2> QED
    BY <2>1, <2>2
<1>3. \A i \in Items, a \in Names : facts[i][a].snapshot => facts'[i][a].snapshot
  BY DEF Grow
<1> QED
  BY <1>1, <1>2, <1>3 DEF Steady

LEMMA SafeKept ==
  ASSUME Steady, NewCalls, NEW i \in Items, NEW x, Safe(i, x),
         \A a \in Names \ {x} : ~Caller(i, a)
  PROVE  Safe(i, x)'
BY DEF Steady, NewCalls, Safe

LEMMA BlockedKept ==
  ASSUME Steady, NEW i \in Items, Blocked(i)
  PROVE  Blocked(i)'
BY DEF Steady, Blocked, HasSnapshot

\* The item of an execution does not wait.
LEMMA NobodyCalls ==
  ASSUME CallInv, NEW i \in Items,
         ~Taken(items[i]) \/ items[i].lease = "stale"
  PROVE  \A a \in Names : ~Caller(i, a)
BY DEF CallInv, Executes, Caller

LEMMA WaitsNotTaken == ASSUME NEW item, Waits(item) PROVE ~Taken(item)
BY DEF Waits, Taken

\* A call whose turn it is not.
LEMMA Bystander ==
  ASSUME Typed, CallInv, Steady, NewCalls, NEW v \in Workers, Kept(v), Follows(v)
  PROVE  Executes(v)' /\ Admitted(v)' /\ Recovers(v)'
<1>0. PICK i \in Items, a \in Names \cup {NoName} : i = worker[v].item /\ a = worker[v].name
  BY KeptWhole DEF Typed, WorkerState
<1>1. /\ worker[v] \in WorkerState /\ worker[v].item = i /\ worker[v].name = a
      /\ worker'[v].phase = worker[v].phase /\ worker'[v].item = i
      /\ worker'[v].name = a /\ worker'[v].verdict = worker[v].verdict
      /\ worker'[v].seen = worker[v].seen /\ worker'[v].executing = worker[v].executing
  BY <1>0, KeptWhole DEF Typed
<1>2. Executes(v) /\ Admitted(v) /\ Recovers(v)
  BY DEF CallInv
<1>3. Executes(v)'
  <2>1. CASE worker[v].executing
    <3>1. /\ worker[v].phase \in Working \cup {"started", "concluding"} /\ a \in Names
          /\ Safe(i, a)
      BY <1>1, <1>2, <2>1 DEF Executes
    <3>2. \A b \in Names \ {a} : ~Caller(i, b)
      BY <1>1, <2>1 DEF CallInv, Exclusive, Caller
    <3>3. Safe(i, a)'
      BY <1>1, <3>1, <3>2, SafeKept
    <3>4. worker[v].phase = "concluding" /\ worker[v].verdict \in {"retry", "final"} =>
            facts'[i][a].status = "failed" /\ Lasting(i, a)'
      BY <1>1, <1>2, <2>1, <3>1 DEF Executes, Steady
    <3>5. Taken(items'[i]) /\ items'[i].lease # "stale"
      BY <1>1, <2>1 DEF Follows
    <3> QED
      BY <1>1, <2>1, <3>1, <3>3, <3>4, <3>5 DEF Executes, Safe, Lasting
  <2>2. CASE ~worker[v].executing
    BY <1>1, <1>2, <2>2 DEF Executes
  <2> QED
    BY <2>1, <2>2
<1>4. Admitted(v)'
  <2> SUFFICES ASSUME worker[v].phase \in {"admitted", "ready"}, worker'[v].fresh
               PROVE  /\ items'[i].stage = "score" /\ items'[i].status = "pending"
                      /\ Safe(i, NoName)'
    BY <1>1 DEF Admitted, Safe, Lasting
  <2>1. items[i].stage = "score" /\ items[i].status = "pending" /\ Safe(i, NoName)
    BY <1>1, <1>2 DEF Admitted, Follows
  <2>2. \A b \in Names : ~Caller(i, b)
    BY <1>1, <2>1, NobodyCalls DEF Taken
  <2>3. Safe(i, NoName)'
    BY <1>1, <2>1, <2>2, SafeKept
  <2> QED
    BY <1>1, <2>1, <2>3 DEF Follows
<1>5. Recovers(v)'
  <2>1. ASSUME worker'[v].fresh,
               (worker[v].phase = "judging" /\ worker[v].seen = "stale")
                 \/ worker[v].phase = "resetting"
        PROVE  /\ items'[i].status = "running" /\ items'[i].lease = "stale"
               /\ items[i].lease = "stale"
    BY <1>1, <1>2, <2>1 DEF Recovers, Follows
  <2>2. ASSUME worker'[v].fresh, worker[v].phase = "resetting"
        PROVE  Safe(i, NoName)' \/ Blocked(i)'
    <3>1. Safe(i, NoName) \/ Blocked(i)
      BY <1>1, <1>2, <2>2 DEF Recovers, Follows
    <3>2. \A b \in Names : ~Caller(i, b)
      BY <1>1, <2>1, <2>2, NobodyCalls
    <3> QED
      BY <1>1, <3>1, <3>2, SafeKept, BlockedKept
  <2>3. ~worker[v].executing /\ worker[v].phase \in {"publishing", "announcing", "concluding"} =>
          worker[v].verdict \in {"success", "unknown"}
    BY <1>2 DEF Recovers
  <2> QED
    BY <1>1, <2>1, <2>2, <2>3 DEF Recovers, Safe, Blocked, Lasting, HasSnapshot
<1> QED
  BY <1>3, <1>4, <1>5

\* A step of one call, or of none, as far as the invariant is concerned.
LEMMA CallInvKept ==
  ASSUME Typed, CallInv, Steady, NewCalls, Requested',
         \A v \in Workers : Executes(v)' /\ Admitted(v)' /\ Recovers(v)', Exclusive',
         \A i \in Items, a \in Names :
           facts'[i][a].status = "none" => ~facts'[i][a].dispatched,
         \A i \in Items :
           Waits(items'[i]) => Waits(items[i]) \/ Safe(i, NoName)' \/ Blocked(i)',
         NEW j, NEW b,
         \A i \in Items, a \in Names : Lost(i, a)' =>
           Lost(i, a) \/ (faults < MaxFaults /\ faults' = MaxFaults /\ i = j /\ a = b)
  PROVE  CallInv'
<1>1. faults' \in Nat /\ faults' <= MaxFaults
  BY DEF Steady
<1>2. ASSUME NEW i \in Items, Waits(items'[i]) PROVE Safe(i, NoName)' \/ Blocked(i)'
  <2>1. CASE Waits(items[i])
    <3>1. Safe(i, NoName) \/ Blocked(i)
      BY <2>1 DEF CallInv
    <3>2. \A a \in Names : ~Caller(i, a)
      BY <2>1, NobodyCalls, WaitsNotTaken
    <3> QED
      BY <3>1, <3>2, SafeKept, BlockedKept
  <2> QED
    BY <1>2, <2>1
<1>3. ASSUME NEW i \in Items, NEW a \in Names, NEW c \in Names, Lost(i, a)'
      PROVE  faults' = MaxFaults /\ (Lost(i, c)' => a = c)
  <2>1. faults \in Nat /\ faults <= MaxFaults /\ faults' \in Nat /\ faults <= faults'
        /\ faults' <= MaxFaults
    BY DEF CallInv, Steady
  <2>2. CASE Lost(i, a)
    <3>1. faults = MaxFaults /\ (Lost(i, c) => a = c)
      BY <2>2 DEF CallInv
    <3> QED
      BY <2>1, <3>1, FaultsAssumption
  <2>3. CASE ~Lost(i, a)
    <3>1. faults < MaxFaults /\ faults' = MaxFaults /\ i = j /\ a = b
      BY <1>3, <2>3
    <3>2. ~Lost(i, c)
      BY <2>1, <3>1, FaultsAssumption DEF CallInv
    <3> QED
      BY <3>1, <3>2
  <2> QED
    BY <2>2, <2>3
<1> QED
  BY <1>1, <1>2, <1>3 DEF CallInv

LEMMA Turn ==
  ASSUME Typed, CallInv, Steady, NewCalls, NEW w \in Workers,
         \A v \in Workers \ {w} : Kept(v) /\ Follows(v),
         \A i \in Items, a \in Names :
           facts'[i][a].status = "none" => ~facts'[i][a].dispatched,
         \A i \in Items :
           Waits(items'[i]) => Waits(items[i]) \/ Safe(i, NoName)' \/ Blocked(i)',
         Executes(w)', Admitted(w)', Recovers(w)',
         worker'[w].executing =>
           \A v \in Workers \ {w} : worker[v].executing => worker[v].item # worker'[w].item,
         \A i \in Items, a \in Names : Lost(i, a)' =>
           \/ Lost(i, a)
           \/ /\ faults < MaxFaults /\ faults' = MaxFaults
              /\ i = worker[w].item /\ a = worker[w].name,
         Requested'
  PROVE  CallInv'
<1>1. \A v \in Workers : Executes(v)' /\ Admitted(v)' /\ Recovers(v)'
  BY Bystander
<1>2. \A v \in Workers \ {w} :
        worker'[v].executing = worker[v].executing /\ worker'[v].item = worker[v].item
  BY KeptWhole DEF Typed
<1>3. Exclusive'
  BY <1>2 DEF CallInv, Exclusive
<1>4. PICK j, b : j = worker[w].item /\ b = worker[w].name
  OBVIOUS
<1>5. \A i \in Items, a \in Names : Lost(i, a)' =>
        Lost(i, a) \/ (faults < MaxFaults /\ faults' = MaxFaults /\ i = j /\ a = b)
  BY <1>4
<1> HIDE <1>4
<1> QED
  BY <1>1, <1>3, <1>5, CallInvKept

\* Attempts are lost by faults only.
LEMMA LostKept ==
  ASSUME Typed, NEW w \in Workers, \A v \in Workers \ {w} : Kept(v),
         \A i \in Items, a \in Names :
           /\ facts'[i][a].status = "running" => facts[i][a].status = "running" \/ Owns(w, i, a)'
           /\ Owns(w, i, a) => Owns(w, i, a)' \/ facts'[i][a].status # "running"
  PROVE  \A i \in Items, a \in Names : Lost(i, a)' => Lost(i, a)
<1>1. \A v \in Workers \ {w} :
        /\ worker'[v].phase = worker[v].phase /\ worker'[v].item = worker[v].item
        /\ worker'[v].name = worker[v].name /\ worker'[v].executing = worker[v].executing
  BY KeptWhole DEF Typed
<1>2. \A v \in Workers \ {w}, i \in Items, a \in Names : Owns(v, i, a)' <=> Owns(v, i, a)
  BY <1>1 DEF Owns
<1> QED
  BY <1>2 DEF Lost

\* A step of a call that leaves items and requests alone.
LEMMA WorkTurn ==
  ASSUME Typed, CallInv, Steady, NewCalls, NEW w \in Workers, NEW e \in WorkerState,
         GoTo(w, e), items' = items, resume' = resume,
         e.executing => worker[w].executing /\ e.item = worker[w].item,
         \A i \in Items, a \in Names :
           facts'[i][a].status = "none" => ~facts'[i][a].dispatched,
         Executes(w)', Admitted(w)', Recovers(w)',
         \A i \in Items, a \in Names : Lost(i, a)' =>
           \/ Lost(i, a)
           \/ /\ faults < MaxFaults /\ faults' = MaxFaults
              /\ i = worker[w].item /\ a = worker[w].name
  PROVE  CallInv'
<1>1. worker'[w] = e /\ \A v \in Workers \ {w} : Kept(v) /\ worker'[v] = worker[v]
  BY StepAlone DEF Typed, GoTo, WorkersTyped
<1>2. ASSUME NEW v \in Workers \ {w} PROVE Follows(v)
  BY <1>1 DEF Follows, CallInv, Executes
<1>3. worker'[w].executing =>
        \A v \in Workers \ {w} : worker[v].executing => worker[v].item # worker'[w].item
  BY <1>1 DEF CallInv, Exclusive
<1>4. Requested'
  BY DEF CallInv, Requested
<1> QED
  BY <1>1, <1>2, <1>3, <1>4, Turn

LEMMA ExecutionNow ==
  ASSUME NEW w \in Workers, NEW i, NEW a \in Names,
         worker'[w].item = i, worker'[w].name = a, worker'[w].executing,
         worker'[w].phase \in Working \cup {"started", "concluding"},
         Taken(items'[i]), items'[i].lease # "stale", Safe(i, a)',
         worker'[w].phase = "concluding" /\ worker'[w].verdict \in {"retry", "final"} =>
           facts'[i][a].status = "failed" /\ Lasting(i, a)'
  PROVE  Executes(w)'
BY DEF Executes, Safe, Lasting

\* A call that goes on with its attempt.
LEMMA WorksOn ==
  ASSUME Typed, CallInv, Steady, NewCalls, NEW w \in Workers, NEW e \in WorkerState,
         GoTo(w, e), items' = items, resume' = resume,
         e.item = worker[w].item, e.name = worker[w].name,
         e.executing = worker[w].executing, e.phase \in Working,
         \/ e.executing
         \/ e.phase \in {"responded", "scored"}
         \/ e.phase \in {"publishing", "announcing"} /\ e.verdict \in {"success", "unknown"},
         \A i \in Items, a \in Names :
           /\ facts'[i][a].status = "none" => ~facts'[i][a].dispatched
           /\ facts'[i][a].status = "running" => facts[i][a].status = "running" \/ Owns(w, i, a)'
  PROVE  CallInv'
<1>0. PICK i \in Items, a \in Names \cup {NoName} : i = worker[w].item /\ a = worker[w].name
  BY DEF Typed, WorkersTyped, WorkerState
<1>1. worker'[w] = e /\ \A v \in Workers \ {w} : Kept(v)
  BY StepAlone DEF Typed
<1>2. Executes(w)'
  <2>1. CASE worker[w].executing
    <3>1. /\ a \in Names /\ Taken(items[i]) /\ items[i].lease # "stale" /\ Safe(i, a)
      BY <1>0, <2>1 DEF CallInv, Executes
    <3>2. \A b \in Names \ {a} : ~Caller(i, b)
      BY <1>0, <2>1 DEF CallInv, Exclusive, Caller
    <3>3. Safe(i, a)'
      BY <3>1, <3>2, SafeKept
    <3>4. worker'[w].phase # "concluding"
      BY <1>1 DEF Working
    <3> QED
      BY <1>0, <1>1, <2>1, <3>1, <3>3, <3>4, ExecutionNow
  <2>2. CASE ~worker[w].executing
    BY <1>1, <2>2 DEF Executes
  <2> QED
    BY <2>1, <2>2
<1>3. Admitted(w)' /\ Recovers(w)'
  BY <1>1 DEF Admitted, Recovers, Working
<1>4. \A j \in Items, b \in Names : Owns(w, j, b) => Owns(w, j, b)'
  BY <1>1 DEF Owns
<1>5. \A j \in Items, b \in Names : Lost(j, b)' => Lost(j, b)
  BY <1>1, <1>4, LostKept
<1> QED
  BY <1>1, <1>2, <1>3, <1>5, WorkTurn

\* A call that returns.
LEMMA ReturnsNow ==
  ASSUME Typed, CallInv, Steady, NewCalls, NEW w \in Workers,
         Return(w), items' = items, resume' = resume,
         \A i \in Items, a \in Names :
           facts'[i][a].status = "none" => ~facts'[i][a].dispatched,
         \A i \in Items, a \in Names : Lost(i, a)' =>
           \/ Lost(i, a)
           \/ /\ faults < MaxFaults /\ faults' = MaxFaults
              /\ i = worker[w].item /\ a = worker[w].name
  PROVE  CallInv'
<1> DEFINE e == Idle(worker[w].item)
<1>1. e \in WorkerState /\ e.phase = "idle" /\ e.executing = FALSE
  BY IdleTyped DEF Typed, WorkersTyped, WorkerState, Idle
<1>2. GoTo(w, e) /\ worker'[w] = e
  BY <1>1, StepAlone DEF Return, Typed
<1>3. Executes(w)' /\ Admitted(w)' /\ Recovers(w)'
  BY <1>1, <1>2 DEF Executes, Admitted, Recovers
<1> HIDE DEF e
<1> QED
  BY <1>1, <1>2, <1>3, WorkTurn

\* Steps that leave facts and faults alone.
LEMMA SameFacts ==
  ASSUME Typed, CallInv, facts' = facts, faults' = faults, NEW w \in Workers,
         \A v \in Workers \ {w} : Kept(v), worker'[w].phase # "announcing"
  PROVE  /\ Steady /\ NewCalls
         /\ \A i \in Items, a \in Names :
              /\ facts'[i][a].status = "none" => ~facts'[i][a].dispatched
              /\ facts'[i][a].status = "running" => facts[i][a].status = "running"
         /\ \A i \in Items : \A x : Safe(i, x) => Safe(i, x)'
<1>1. Grow(facts, facts') /\ faults \in Nat /\ faults <= MaxFaults
  BY DEF Grow, CallInv
<1>2. Steady
  BY <1>1, SteadyStep
<1>3. NewCalls /\ \A i \in Items, a \in Names :
        facts'[i][a].status = "none" => ~facts'[i][a].dispatched
  BY DEF NewCalls, CallInv
<1>4. \A i \in Items : \A x : Safe(i, x) => Safe(i, x)'
  BY <1>2 DEF Safe, Steady
<1> QED
  BY <1>2, <1>3, <1>4

\* A dry run finds the item as it is; a recovery reads it. (execute_score_item,
\* recover_score_item)
LEMMA AdmitCall ==
  ASSUME OneFault, Typed, CallInv, NEW w \in Workers,
         \/ \E i \in Items : Admit(w, i) \/ Inspect(w, i)
         \/ ReadAgain(w)
  PROVE  CallInv'
<1>1. /\ items' = items /\ resume' = resume /\ facts' = facts /\ faults' = faults
      /\ worker[w] \in WorkerState
  BY DEF Admit, Inspect, ReadAgain, managed, Typed, WorkersTyped
<1>2. ASSUME NEW e \in WorkerState, GoTo(w, e), e.phase \in {"admitted", "ready", "judging"},
             e.executing = FALSE, Admitted(w)', Recovers(w)',
             \A i \in Items, a \in Names : ~Owns(w, i, a)
      PROVE  CallInv'
  <2>1. worker'[w] = e /\ \A v \in Workers \ {w} : Kept(v)
    BY <1>2, StepAlone DEF Typed
  <2>2. /\ Steady /\ NewCalls
        /\ \A i \in Items, a \in Names :
             /\ facts'[i][a].status = "none" => ~facts'[i][a].dispatched
             /\ facts'[i][a].status = "running" => facts[i][a].status = "running"
    BY <1>1, <1>2, <2>1, SameFacts
  <2>3. Executes(w)'
    BY <1>2, <2>1 DEF Executes
  <2>4. \A i \in Items, a \in Names : Lost(i, a)' => Lost(i, a)
    BY <1>2, <2>1, <2>2, LostKept
  <2> QED
    BY <1>1, <1>2, <2>2, <2>3, <2>4, WorkTurn
<1>3. ASSUME NEW i \in Items, Admit(w, i) PROVE CallInv'
  <2> DEFINE e == [Idle(i) EXCEPT !.phase = "admitted", !.fresh = TRUE]
  <2>1. /\ e \in WorkerState /\ e.phase = "admitted" /\ e.item = i /\ e.executing = FALSE
        /\ GoTo(w, e)
    BY <1>3 DEF Admit, Idle, WorkerState, Phases, Verdicts
  <2> HIDE DEF e
  <2>2. worker'[w] = e /\ \A v \in Workers \ {w} : Kept(v)
    BY <2>1, StepAlone DEF Typed
  <2>3. /\ items[i].stage = "score" /\ items[i].status = "pending" /\ Safe(i, NoName)
    <3>1. items[i].stage = "score" /\ items[i].status = "pending" /\ ~Blocked(i)
      BY <1>3 DEF Admit, Admissible, Blocked, Attempts
    <3>2. Waits(items[i])
      BY <3>1 DEF Waits
    <3> QED
      BY <3>1, <3>2 DEF CallInv
  <2>4. Safe(i, NoName)'
    BY <1>1, <2>1, <2>2, <2>3, SameFacts
  <2>5. Admitted(w)'
    BY <1>1, <2>1, <2>2, <2>3, <2>4 DEF Admitted, Safe, Lasting
  <2>6. Recovers(w)'
    BY <2>1, <2>2 DEF Recovers
  <2>7. \A j \in Items, a \in Names : ~Owns(w, j, a)
    BY <1>3 DEF Admit, At, Owns, Working
  <2> QED
    BY <1>2, <2>1, <2>5, <2>6, <2>7
<1>4. ASSUME NEW i \in Items, Inspect(w, i) PROVE CallInv'
  <2> DEFINE seen == IF items[i].status # "running" THEN "other"
                     ELSE IF items[i].lease = "stale" THEN "stale" ELSE "alive"
             e == [Idle(i) EXCEPT !.phase = "judging", !.fresh = TRUE, !.seen = seen]
  <2>1. /\ seen \in {"alive", "stale", "other"}
        /\ seen = "stale" => items[i].status = "running" /\ items[i].lease = "stale"
    OBVIOUS
  <2>2. GoTo(w, e)
    BY <1>4 DEF Inspect
  <2> HIDE DEF seen
  <2>3. /\ e \in WorkerState /\ e.phase = "judging" /\ e.item = i /\ e.executing = FALSE
        /\ e.seen = seen
    BY <2>1 DEF Idle, WorkerState, Phases, Verdicts
  <2> HIDE DEF e
  <2>4. worker'[w] = e
    BY <2>2, <2>3, StepAlone DEF Typed
  <2>5. Admitted(w)' /\ Recovers(w)'
    BY <1>1, <2>1, <2>3, <2>4 DEF Admitted, Recovers
  <2>6. \A j \in Items, a \in Names : ~Owns(w, j, a)
    BY <1>4 DEF Inspect, At, Owns, Working
  <2> QED
    BY <1>2, <2>2, <2>3, <2>5, <2>6
<1>5. CASE ReadAgain(w)
  <2> DEFINE e == [Moved(w, "ready") EXCEPT !.fresh = TRUE]
  <2>0. PICK i \in Items : i = worker[w].item
    BY <1>1 DEF WorkerState
  <2>1. e = [worker[w] EXCEPT !.phase = "ready", !.fresh = TRUE]
    BY <1>1 DEF Moved, WorkerState
  <2>2. worker[w].executing = FALSE /\ worker[w].fresh /\ worker[w].phase = "admitted"
    BY <1>1, <1>5 DEF ReadAgain, At, OneFault, CallInv, Executes, Working, WorkerState
  <2>3. /\ e \in WorkerState /\ e.phase = "ready" /\ e.item = i
        /\ e.executing = FALSE /\ GoTo(w, e)
    <3>1. e \in WorkerState
      BY <1>1, <2>1, EntryTyped DEF Phases
    <3>2. e.phase = "ready" /\ e.item = i /\ e.executing = FALSE
      BY <1>1, <2>0, <2>1, <2>2 DEF WorkerState
    <3>3. GoTo(w, e)
      BY <1>5 DEF ReadAgain
    <3> QED
      BY <3>1, <3>2, <3>3
  <2> HIDE DEF e
  <2>4. worker'[w] = e /\ \A v \in Workers \ {w} : Kept(v)
    BY <2>3, StepAlone DEF Typed
  <2>5. /\ items[i].stage = "score" /\ items[i].status = "pending" /\ Safe(i, NoName)
    BY <2>0, <2>2 DEF CallInv, Admitted
  <2>6. Safe(i, NoName)'
    BY <1>1, <2>3, <2>4, <2>5, SameFacts
  <2>7. Admitted(w)'
    BY <1>1, <2>3, <2>4, <2>5, <2>6 DEF Admitted, Safe, Lasting
  <2>8. Recovers(w)'
    BY <2>3, <2>4 DEF Recovers
  <2>9. \A j \in Items, a \in Names : ~Owns(w, j, a)
    BY <2>2 DEF Owns, Working
  <2> QED
    BY <1>2, <2>3, <2>7, <2>8, <2>9
<1> QED
  BY <1>3, <1>4, <1>5

----------------------------------------------------------------------------
(* The steps of a call that leave its item alone. *)

LEMMA MovedSame ==
  ASSUME NEW w \in Workers, worker[w] \in WorkerState, NEW p \in Phases
  PROVE  /\ Moved(w, p) \in WorkerState
         /\ Moved(w, p).phase = p /\ Moved(w, p).item = worker[w].item
         /\ Moved(w, p).name = worker[w].name /\ Moved(w, p).verdict = worker[w].verdict
         /\ Moved(w, p).executing = worker[w].executing /\ Moved(w, p).fresh = worker[w].fresh
<1>1. Moved(w, p).executing = worker[w].executing /\ Moved(w, p).fresh = worker[w].fresh
  BY DEF Moved, WorkerState
<1> QED
  BY <1>1, MovedTyped

\* One more fact, which changes no status. (_write_fact)
LEMMA FieldWritten ==
  ASSUME Typed, NEW w \in Workers, worker[w].name \in Names,
         NEW field \in {"dispatched", "response", "snapshot", "validation"}, Record(w, field)
  PROVE  /\ items' = items /\ resume' = resume /\ faults' = faults /\ Grow(facts, facts')
         /\ \A j \in Items, b \in Names :
              /\ facts'[j][b].status = facts[j][b].status
              /\ facts'[j][b].dispatched =>
                   \/ facts[j][b].dispatched
                   \/ field = "dispatched" /\ j = worker[w].item /\ b = worker[w].name
<1> DEFINE i == worker[w].item
           a == worker[w].name
           new == [facts[i][a] EXCEPT ![field] = TRUE]
<1>1. i \in Items /\ facts[i][a] \in Attempt
  BY DEF Typed, WorkersTyped, WorkerState
<1>2. facts' = [facts EXCEPT ![i][a] = new]
  BY <1>1 DEF Record, Typed
<1>3. /\ new.status = facts[i][a].status
      /\ new.dispatched => facts[i][a].dispatched \/ field = "dispatched"
      /\ facts[i][a].dispatched => new.dispatched
      /\ facts[i][a].response => new.response
      /\ facts[i][a].snapshot => new.snapshot
      /\ facts[i][a].validation => new.validation
  BY <1>1 DEF Attempt
<1> HIDE DEF new
<1>4. facts'[i][a] = new
  BY <1>1, <1>2 DEF Typed
<1>5. \A j \in Items, b \in Names : facts'[j][b] = facts[j][b] \/ (j = i /\ b = a)
  BY <1>1, <1>2 DEF Typed
<1>6. items' = items /\ resume' = resume /\ faults' = faults
  BY DEF Record, managed
<1>7. Grow(facts, facts')
  BY <1>3, <1>4, <1>5 DEF Grow
<1> QED
  BY <1>3, <1>4, <1>5, <1>6, <1>7

\* Another status for one attempt.
Replaced(i, a, status) == [facts EXCEPT ![i][a].status = status]

LEMMA StatusReplaced ==
  ASSUME Typed, NEW i \in Items, NEW a \in Names, NEW status,
         facts' = Replaced(i, a, status)
  PROVE  /\ Grow(facts, facts') /\ facts'[i][a].status = status
         /\ \A j \in Items, b \in Names :
              /\ facts'[j][b].dispatched = facts[j][b].dispatched
              /\ facts'[j][b].status = facts[j][b].status \/ (j = i /\ b = a)
<1> DEFINE new == [facts[i][a] EXCEPT !.status = status]
<1>1. facts[i][a] \in Attempt /\ facts' = [facts EXCEPT ![i][a] = new]
  BY DEF Typed, Replaced
<1>2. /\ new.status = status
      /\ new.dispatched = facts[i][a].dispatched /\ new.response = facts[i][a].response
      /\ new.snapshot = facts[i][a].snapshot /\ new.validation = facts[i][a].validation
  BY <1>1 DEF Attempt
<1> HIDE DEF new
<1>3. facts'[i][a] = new
  BY <1>1 DEF Typed
<1>4. \A j \in Items, b \in Names : facts'[j][b] = facts[j][b] \/ (j = i /\ b = a)
  BY <1>1 DEF Typed
<1>5. Grow(facts, facts')
  BY <1>2, <1>3, <1>4 DEF Grow
<1> QED
  BY <1>2, <1>3, <1>4, <1>5

\* The dispatch mark, the answer, the result and the validation.
LEMMA RecordCall ==
  ASSUME Typed, CallInv, NEW w \in Workers, worker[w].name \in Names,
         NEW field \in {"dispatched", "response", "snapshot", "validation"}, Record(w, field),
         field = "dispatched" =>
           worker[w].executing /\ facts[worker[w].item][worker[w].name].status # "none",
         NEW e \in WorkerState, GoTo(w, e),
         e.item = worker[w].item, e.name = worker[w].name, e.executing = worker[w].executing,
         e.phase \in {"calling", "responded", "scored", "publishing"},
         \/ e.executing
         \/ e.phase \in {"responded", "scored"}
         \/ e.phase = "publishing" /\ e.verdict = "success"
  PROVE  CallInv'
<1>1. /\ items' = items /\ resume' = resume /\ faults' = faults /\ Grow(facts, facts')
      /\ \A j \in Items, b \in Names :
           /\ facts'[j][b].status = facts[j][b].status
           /\ facts'[j][b].dispatched =>
                \/ facts[j][b].dispatched
                \/ field = "dispatched" /\ j = worker[w].item /\ b = worker[w].name
  BY FieldWritten
<1>2. worker'[w] = e /\ \A v \in Workers \ {w} : Kept(v)
  BY StepAlone DEF Typed
<1>3. faults \in Nat /\ faults <= MaxFaults
  BY DEF CallInv
<1>4. Steady
  BY <1>1, <1>2, <1>3, SteadyStep
<1>5. NewCalls
  BY <1>1 DEF NewCalls, Caller
<1>6. \A j \in Items, b \in Names :
        /\ facts'[j][b].status = "none" => ~facts'[j][b].dispatched
        /\ facts'[j][b].status = "running" => facts[j][b].status = "running"
  BY <1>1 DEF CallInv
<1>7. e.phase \in Working
  BY DEF Working
<1> QED
  BY <1>1, <1>4, <1>5, <1>6, <1>7, WorksOn

LEMMA RecordSteps ==
  ASSUME IInv, CallInv, NEW w \in Workers,
         Dispatch(w) \/ WriteResponse(w) \/ WriteSnapshot(w) \/ WriteValidation(w)
  PROVE  CallInv'
<1> DEFINE i == worker[w].item
           a == worker[w].name
<1>1. worker[w] \in WorkerState /\ Typed
  BY DEF IInv, Typed, WorkersTyped
<1>2. a \in Names
  BY <1>1 DEF IInv, Dispatch, WriteResponse, WriteSnapshot, WriteValidation, At, Known, Named
<1>3. worker[w].phase \in {"created", "answered"} => worker[w].executing
  BY DEF CallInv, Executes
<1>4. ASSUME NEW p \in Phases
      PROVE  /\ Moved(w, p) \in WorkerState /\ Moved(w, p).phase = p
             /\ Moved(w, p).item = i /\ Moved(w, p).name = a
             /\ Moved(w, p).executing = worker[w].executing
  BY <1>1, MovedSame
<1>5. CASE Dispatch(w)
  <2> DEFINE e == Moved(w, "calling")
  <2>1. /\ e \in WorkerState /\ e.phase = "calling" /\ e.item = i /\ e.name = a
        /\ e.executing = worker[w].executing
    BY <1>4 DEF Phases
  <2>2. /\ worker[w].executing /\ facts[i][a].status # "none"
        /\ Record(w, "dispatched") /\ GoTo(w, e)
    BY <1>3, <1>5 DEF Dispatch, At
  <2> HIDE DEF e
  <2> QED
    BY <1>1, <1>2, <2>1, <2>2, RecordCall
<1>6. CASE WriteResponse(w)
  <2> DEFINE e == Moved(w, "responded")
  <2>1. /\ e \in WorkerState /\ e.phase = "responded" /\ e.item = i /\ e.name = a
        /\ e.executing = worker[w].executing
    BY <1>4 DEF Phases
  <2>2. Record(w, "response") /\ GoTo(w, e)
    BY <1>6 DEF WriteResponse
  <2> HIDE DEF e
  <2> QED
    BY <1>1, <1>2, <2>1, <2>2, RecordCall
<1>7. CASE WriteSnapshot(w)
  <2> DEFINE e == Moved(w, "scored")
  <2>1. /\ e \in WorkerState /\ e.phase = "scored" /\ e.item = i /\ e.name = a
        /\ e.executing = worker[w].executing
    BY <1>4 DEF Phases
  <2>2. Record(w, "snapshot") /\ GoTo(w, e)
    BY <1>7 DEF WriteSnapshot
  <2> HIDE DEF e
  <2> QED
    BY <1>1, <1>2, <2>1, <2>2, RecordCall
<1>8. CASE WriteValidation(w)
  <2> DEFINE e == [Moved(w, "publishing") EXCEPT !.verdict = "success"]
  <2>1. e = [worker[w] EXCEPT !.phase = "publishing", !.verdict = "success"]
    BY <1>1 DEF Moved, WorkerState
  <2>2. e \in WorkerState
    BY <1>1, <2>1, EntryTyped DEF Phases, Verdicts
  <2>3. /\ e.phase = "publishing" /\ e.item = i /\ e.name = a /\ e.verdict = "success"
        /\ e.executing = worker[w].executing
    BY <1>1, <2>1 DEF WorkerState
  <2>4. Record(w, "validation") /\ GoTo(w, e)
    BY <1>8 DEF WriteValidation
  <2> HIDE DEF e
  <2> QED
    BY <1>1, <1>2, <2>2, <2>3, <2>4, RecordCall
<1> QED
  BY <1>5, <1>6, <1>7, <1>8

\* The attempt is created by an execution. (create_attempt)
LEMMA CreateCall ==
  ASSUME IInv, CallInv, NEW w \in Workers, CreateAttempt(w)
  PROVE  CallInv'
<1>0. PICK i \in Items, a \in Names \cup {NoName} : i = worker[w].item /\ a = worker[w].name
  BY DEF IInv, Typed, WorkersTyped, WorkerState
<1>1. /\ Typed /\ worker[w] \in WorkerState /\ worker[w].phase = "started"
      /\ a \in Names /\ facts[i][a].status = "none"
  BY <1>0 DEF IInv, Typed, WorkersTyped, CreateAttempt, At, Known, Named, Status
<1>2. worker[w].executing /\ ~facts[i][a].dispatched /\ faults \in Nat /\ faults <= MaxFaults
  BY <1>1 DEF CallInv, Executes
<1> DEFINE e == Moved(w, "created")
<1>3. /\ e \in WorkerState /\ e.phase = "created" /\ e.item = i /\ e.name = a
      /\ e.executing = worker[w].executing
  BY <1>0, <1>1, MovedSame DEF Phases
<1>4. /\ GoTo(w, e) /\ items' = items /\ resume' = resume /\ faults' = faults
      /\ facts' = Replaced(i, a, "running")
  BY <1>0 DEF CreateAttempt, managed, Replaced
<1> HIDE DEF e
<1>5. worker'[w] = e /\ \A v \in Workers \ {w} : Kept(v)
  BY <1>1, <1>3, <1>4, StepAlone DEF Typed
<1>6. /\ Grow(facts, facts') /\ facts'[i][a].status = "running"
      /\ \A j \in Items, b \in Names :
           /\ facts'[j][b].dispatched = facts[j][b].dispatched
           /\ facts'[j][b].status = facts[j][b].status \/ (j = i /\ b = a)
  BY <1>1, <1>4, StatusReplaced
<1>7. Steady
  BY <1>1, <1>2, <1>3, <1>4, <1>5, <1>6, SteadyStep
<1>8. NewCalls
  BY <1>6 DEF NewCalls
<1>9. Owns(w, i, a)'
  BY <1>2, <1>3, <1>5 DEF Owns, Working
<1>10. \A j \in Items, b \in Names :
         /\ facts'[j][b].status = "none" => ~facts'[j][b].dispatched
         /\ facts'[j][b].status = "running" => facts[j][b].status = "running" \/ Owns(w, j, b)'
  BY <1>6, <1>9 DEF CallInv
<1>11. e.phase \in Working
  BY <1>3 DEF Working
<1> QED
  BY <1>0, <1>1, <1>2, <1>3, <1>4, <1>7, <1>8, <1>10, <1>11, WorksOn

\* The terminal attempt replaces the running one. (publish_attempt_terminal)
LEMMA PublishCall ==
  ASSUME IInv, CallInv, NEW w \in Workers, Publish(w)
  PROVE  CallInv'
<1>0. PICK i \in Items, a \in Names \cup {NoName} : i = worker[w].item /\ a = worker[w].name
  BY DEF IInv, Typed, WorkersTyped, WorkerState
<1>1. /\ Typed /\ worker[w] \in WorkerState /\ worker[w].phase = "publishing"
      /\ a \in Names /\ facts[i][a].status = "running"
  BY <1>0 DEF IInv, Typed, WorkersTyped, Publish, At, Known, Named
<1>2. /\ faults \in Nat /\ faults <= MaxFaults
      /\ worker[w].executing \/ worker[w].verdict \in {"success", "unknown"}
  BY <1>1 DEF CallInv, Recovers, WorkerState
<1> DEFINE e == Moved(w, "announcing")
           status == StatusFor(worker[w].verdict)
<1>3. /\ e \in WorkerState /\ e.phase = "announcing" /\ e.item = i /\ e.name = a
      /\ e.verdict = worker[w].verdict /\ e.executing = worker[w].executing
  BY <1>0, <1>1, MovedSame DEF Phases
<1>4. /\ GoTo(w, e) /\ items' = items /\ resume' = resume /\ faults' = faults
      /\ facts' = Replaced(i, a, status)
  BY <1>0 DEF Publish, managed, Replaced
<1>5. status \in {"succeeded", "failed", "unknown"}
  BY DEF StatusFor
<1> HIDE DEF e, status
<1>6. worker'[w] = e /\ \A v \in Workers \ {w} : Kept(v)
  BY <1>1, <1>3, <1>4, StepAlone DEF Typed
<1>7. /\ Grow(facts, facts') /\ facts'[i][a].status = status
      /\ \A j \in Items, b \in Names :
           /\ facts'[j][b].dispatched = facts[j][b].dispatched
           /\ facts'[j][b].status = facts[j][b].status \/ (j = i /\ b = a)
  BY <1>1, <1>4, StatusReplaced
<1>8. faults < MaxFaults \/ faults = MaxFaults
  BY <1>2, FaultsAssumption
<1>9. Steady
  <2>1. Lasting(i, a) /\ facts[i][a].status \in {"failed", "unknown"} => FALSE
    BY <1>1
  <2>2. ASSUME NEW j \in Items, NEW b \in Names, Lasting(j, b),
               facts[j][b].status \in {"failed", "unknown"}
        PROVE  facts'[j][b].status = facts[j][b].status /\ Lasting(j, b)'
    <3>1. ~(j = i /\ b = a)
      BY <1>1, <2>2
    <3>2. facts'[j][b].status = facts[j][b].status
      BY <1>7, <3>1
    <3>3. \A v \in Workers \ {w} :
            /\ worker'[v].phase = worker[v].phase /\ worker'[v].item = worker[v].item
            /\ worker'[v].name = worker[v].name
      BY <1>1, <1>6, KeptSame DEF Typed
    <3> QED
      BY <1>3, <1>4, <1>6, <2>2, <3>1, <3>2, <3>3 DEF Lasting
  <2>3. \A j \in Items, b \in Names : facts[j][b].snapshot => facts'[j][b].snapshot
    BY <1>7 DEF Grow
  <2> QED
    BY <1>2, <1>4, <2>2, <2>3 DEF Steady
<1>10. NewCalls
  BY <1>7 DEF NewCalls
<1>11. \A j \in Items, b \in Names :
         /\ facts'[j][b].status = "none" => ~facts'[j][b].dispatched
         /\ facts'[j][b].status = "running" => facts[j][b].status = "running"
  BY <1>5, <1>7 DEF CallInv
<1>12. e.phase \in Working
  BY <1>3 DEF Working
<1> QED
  BY <1>0, <1>1, <1>2, <1>3, <1>4, <1>9, <1>10, <1>11, <1>12, WorksOn

\* The end of a publication: a failure is on record for good.
\* (publish_attempt_terminal, event published)
LEMMA AnnounceCall ==
  ASSUME IInv, CallInv, NEW w \in Workers, Announce(w)
  PROVE  CallInv'
<1>0. PICK i \in Items, a \in Names \cup {NoName} : i = worker[w].item /\ a = worker[w].name
  BY DEF IInv, Typed, WorkersTyped, WorkerState
<1>1. /\ Typed /\ worker[w] \in WorkerState /\ worker[w].phase = "announcing"
      /\ a \in Names /\ facts[i][a].status = StatusFor(worker[w].verdict)
  BY <1>0 DEF IInv, Typed, WorkersTyped, Announce, At, Known, Named, Status
<1>2. facts[i][a].status # "running"
      /\ (worker[w].verdict \in {"retry", "final"} => facts[i][a].status = "failed")
  BY <1>1 DEF StatusFor
<1> DEFINE e == Moved(w, "concluding")
<1>3. /\ e \in WorkerState /\ e.phase = "concluding" /\ e.item = i /\ e.name = a
      /\ e.verdict = worker[w].verdict /\ e.executing = worker[w].executing
  BY <1>0, <1>1, MovedSame DEF Phases
<1>4. /\ GoTo(w, e) /\ items' = items /\ resume' = resume /\ faults' = faults
      /\ facts' = facts
  BY DEF Announce, managed
<1> HIDE DEF e
<1>5. worker'[w] = e /\ \A v \in Workers \ {w} : Kept(v)
  BY <1>1, <1>3, <1>4, StepAlone DEF Typed
<1>6. /\ Steady /\ NewCalls
      /\ \A j \in Items, b \in Names :
           /\ facts'[j][b].status = "none" => ~facts'[j][b].dispatched
           /\ facts'[j][b].status = "running" => facts[j][b].status = "running"
      /\ \A j \in Items : \A x : Safe(j, x) => Safe(j, x)'
  BY <1>1, <1>3, <1>4, <1>5, SameFacts
<1>7. Lasting(i, a)'
  <2>1. ASSUME NEW v \in Workers, worker'[v].phase = "announcing", worker'[v].item = i
        PROVE  FALSE
    <3>1. v # w
      BY <1>3, <1>5, <2>1
    <3>2. worker[v].phase = "announcing" /\ worker[v].item = i
      BY <1>1, <1>5, <2>1, <3>1, KeptSame DEF Typed
    <3> QED
      BY <1>0, <1>1, <3>1, <3>2 DEF IInv, Apart
  <2> QED
    BY <2>1 DEF Lasting
<1>8. Executes(w)'
  <2>1. CASE worker[w].executing
    <3>1. Taken(items[i]) /\ items[i].lease # "stale" /\ Safe(i, a)
      BY <1>0, <2>1 DEF CallInv, Executes
    <3> QED
      BY <1>1, <1>2, <1>3, <1>4, <1>5, <1>6, <1>7, <2>1, <3>1, ExecutionNow
  <2>2. CASE ~worker[w].executing
    BY <1>3, <1>5, <2>2 DEF Executes
  <2> QED
    BY <2>1, <2>2
<1>9. worker[w].executing \/ worker[w].verdict \in {"success", "unknown"}
  BY <1>1 DEF CallInv, Recovers
<1>10. Admitted(w)' /\ Recovers(w)'
  BY <1>3, <1>5, <1>9 DEF Admitted, Recovers
<1>11. \A j \in Items, b \in Names : Lost(j, b)' => Lost(j, b)
  <2>1. \A j \in Items, b \in Names : Owns(w, j, b) => facts'[j][b].status # "running"
    BY <1>0, <1>2, <1>4 DEF Owns
  <2> QED
    BY <1>1, <1>5, <1>6, <2>1, LostKept
<1> QED
  BY <1>0, <1>1, <1>3, <1>4, <1>6, <1>8, <1>10, <1>11, WorkTurn

\* The answer of the provider, or an error. (gateway.call)
LEMMA AnswerCall ==
  ASSUME IInv, CallInv, NEW w \in Workers,
         Answer(w) \/ \E verdict \in Verdicts : ProviderFails(w, verdict)
  PROVE  CallInv'
<1>1. /\ Typed /\ worker[w] \in WorkerState /\ worker[w].phase = "calling"
      /\ items' = items /\ resume' = resume /\ facts' = facts /\ faults' = faults
  BY DEF IInv, Typed, WorkersTyped, Answer, ProviderFails, At, managed
<1>2. worker[w].executing
  BY <1>1 DEF CallInv, Executes
<1>3. PICK e \in WorkerState :
        /\ GoTo(w, e) /\ e.phase \in {"answered", "publishing"}
        /\ e.item = worker[w].item /\ e.name = worker[w].name
        /\ e.executing = worker[w].executing
  <2>1. CASE Answer(w)
    <3> DEFINE d == Moved(w, "answered")
    <3>1. /\ d \in WorkerState /\ d.phase = "answered" /\ d.item = worker[w].item
          /\ d.name = worker[w].name /\ d.executing = worker[w].executing
      BY <1>1, MovedSame DEF Phases
    <3> QED
      BY <2>1, <3>1 DEF Answer
  <2>2. ASSUME NEW verdict \in Verdicts, ProviderFails(w, verdict)
        PROVE  \E d \in WorkerState :
                 /\ GoTo(w, d) /\ d.phase \in {"answered", "publishing"}
                 /\ d.item = worker[w].item /\ d.name = worker[w].name
                 /\ d.executing = worker[w].executing
    <3> DEFINE d == [worker[w] EXCEPT !.phase = "publishing", !.verdict = verdict]
    <3>1. d \in WorkerState
      BY <1>1, EntryTyped DEF Phases
    <3>2. /\ d.phase = "publishing" /\ d.item = worker[w].item
          /\ d.name = worker[w].name /\ d.executing = worker[w].executing
      BY <1>1 DEF WorkerState
    <3>3. GoTo(w, d)
      BY <1>1, <2>2 DEF ProviderFails, Moved, WorkerState
    <3> QED
      BY <3>1, <3>2, <3>3
  <2> QED
    BY <2>1, <2>2
<1>4. worker'[w] = e /\ \A v \in Workers \ {w} : Kept(v)
  BY <1>1, <1>3, StepAlone DEF Typed
<1>5. /\ Steady /\ NewCalls
      /\ \A j \in Items, b \in Names :
           /\ facts'[j][b].status = "none" => ~facts'[j][b].dispatched
           /\ facts'[j][b].status = "running" => facts[j][b].status = "running"
  BY <1>1, <1>3, <1>4, SameFacts
<1>6. e.phase \in Working
  BY <1>3 DEF Working
<1> QED
  BY <1>1, <1>2, <1>3, <1>5, <1>6, WorksOn

----------------------------------------------------------------------------
(* Calls that return without having put their item anywhere. *)

LEMMA Returned ==
  ASSUME Typed, NEW w \in Workers, Return(w)
  PROVE  worker'[w].phase = "idle" /\ \A v \in Workers \ {w} : Kept(v)
<1> DEFINE e == Idle(worker[w].item)
<1>1. e \in WorkerState /\ e.phase = "idle"
  BY IdleTyped DEF Typed, WorkersTyped, WorkerState, Idle
<1>2. GoTo(w, e)
  BY DEF Return
<1> HIDE DEF e
<1> QED
  BY <1>1, <1>2, StepAlone DEF Typed

\* Whoever returns can leave its own attempt behind, and no other one.
LEMMA LostByReturn ==
  ASSUME Typed, NEW w \in Workers, Return(w),
         \A i \in Items, a \in Names :
           facts'[i][a].status = "running" =>
             \/ facts[i][a].status = "running"
             \/ i = worker[w].item /\ a = worker[w].name /\ worker[w].phase \in Working
  PROVE  \A i \in Items, a \in Names : Lost(i, a)' =>
           \/ Lost(i, a)
           \/ /\ i = worker[w].item /\ a = worker[w].name
              /\ facts'[i][a].status = "running"
              /\ worker[w].phase \in Working
<1>1. \A v \in Workers \ {w} : Kept(v)
  BY Returned
<1>2. \A v \in Workers \ {w} :
        /\ worker'[v].phase = worker[v].phase /\ worker'[v].item = worker[v].item
        /\ worker'[v].name = worker[v].name /\ worker'[v].executing = worker[v].executing
  BY <1>1, KeptWhole DEF Typed
<1>3. \A v \in Workers \ {w}, i \in Items, a \in Names : Owns(v, i, a)' <=> Owns(v, i, a)
  BY <1>2 DEF Owns
<1>4. ASSUME NEW i \in Items, NEW a \in Names, Lost(i, a)', ~Lost(i, a)
      PROVE  /\ i = worker[w].item /\ a = worker[w].name
             /\ facts'[i][a].status = "running" /\ worker[w].phase \in Working
  <2>1. facts'[i][a].status = "running" /\ \A v \in Workers \ {w} : ~Owns(v, i, a)
    BY <1>3, <1>4 DEF Lost
  <2>2. CASE facts[i][a].status = "running"
    BY <1>4, <2>1, <2>2 DEF Lost, Owns
  <2>3. CASE facts[i][a].status # "running"
    BY <1>4, <2>1, <2>3
  <2> QED
    BY <2>2, <2>3
<1> QED
  BY <1>4

LEMMA ReturnCall ==
  ASSUME OneFault, IInv, CallInv, NEW w \in Workers,
         PublishConflict(w) \/ Refused(w) \/ Interrupt(w)
  PROVE  CallInv'
<1>1. /\ Typed /\ Return(w) /\ items' = items /\ resume' = resume /\ facts' = facts
      /\ worker[w] \in WorkerState /\ faults \in Nat /\ faults <= MaxFaults
  BY DEF IInv, Typed, WorkersTyped, PublishConflict, Refused, Interrupt, managed, CallInv
<1>2. \A v \in Workers \ {w} : Kept(v)
  BY <1>1, Returned
<1>3. worker'[w].phase = "idle"
  BY <1>1, Returned
<1>4. \/ faults' = faults
      \/ faults < MaxFaults /\ faults' = faults + 1 /\ faults' = MaxFaults
  BY <1>1, FaultsAssumption DEF PublishConflict, Refused, Interrupt, OneFault
<1>5. faults' \in {faults, faults + 1} /\ faults' <= MaxFaults
  BY <1>1, <1>4, FaultsAssumption
<1>6. Steady
  BY <1>1, <1>2, <1>3, <1>5, SteadyStep DEF Grow
<1>7. NewCalls
  BY <1>1 DEF NewCalls
<1>8. \A i \in Items, a \in Names :
        facts'[i][a].status = "none" => ~facts'[i][a].dispatched
  BY <1>1 DEF CallInv
<1>9. ASSUME NEW i \in Items, NEW a \in Names, Lost(i, a)'
      PROVE  \/ Lost(i, a)
             \/ /\ faults < MaxFaults /\ faults' = MaxFaults
                /\ i = worker[w].item /\ a = worker[w].name
  <2>1. \/ Lost(i, a)
        \/ /\ i = worker[w].item /\ a = worker[w].name
           /\ facts'[i][a].status = "running" /\ worker[w].phase \in Working
    BY <1>1, <1>9, LostByReturn
  <2>2. CASE Interrupt(w)
    BY <1>1, <1>4, <2>1, <2>2, FaultsAssumption DEF Interrupt
  <2>3. CASE PublishConflict(w)
    BY <1>1, <2>1, <2>3 DEF PublishConflict
  <2>4. CASE Refused(w)
    BY <2>1, <2>4 DEF Refused, At, Working
  <2> QED
    BY <2>1, <2>2, <2>3, <2>4
<1> QED
  BY <1>1, <1>6, <1>7, <1>8, <1>9, ReturnsNow

\* A publication that is withdrawn is the one fault. (publish_attempt_terminal, rollback)
LEMMA AnnounceFailsCall ==
  ASSUME OneFault, IInv, CallInv, NEW w \in Workers, AnnounceFails(w)
  PROVE  CallInv'
<1>0. PICK i \in Items, a \in Names \cup {NoName} : i = worker[w].item /\ a = worker[w].name
  BY DEF IInv, Typed, WorkersTyped, WorkerState
<1>1. /\ Typed /\ worker[w] \in WorkerState /\ worker[w].phase = "announcing"
      /\ a \in Names /\ faults \in Nat /\ faults <= MaxFaults
  BY <1>0 DEF IInv, Typed, WorkersTyped, AnnounceFails, At, Known, Named, CallInv
<1>2. /\ Return(w) /\ items' = items /\ resume' = resume
      /\ facts' = Replaced(i, a, "running")
  BY <1>0 DEF AnnounceFails, managed, Replaced
<1>3. faults < MaxFaults /\ faults' = faults + 1 /\ faults' = MaxFaults
  BY <1>1, FaultsAssumption DEF AnnounceFails, OneFault
<1>4. \A v \in Workers \ {w} : Kept(v)
  BY <1>1, <1>2, Returned
<1>5. worker'[w].phase = "idle"
  BY <1>1, <1>2, Returned
<1>6. /\ Grow(facts, facts') /\ facts'[i][a].status = "running"
      /\ \A j \in Items, b \in Names :
           /\ facts'[j][b].dispatched = facts[j][b].dispatched
           /\ facts'[j][b].status = facts[j][b].status \/ (j = i /\ b = a)
  BY <1>1, <1>2, StatusReplaced
<1>7. Steady
  <2>1. \A j \in Items, b \in Names : facts'[j][b].status # facts[j][b].status =>
          /\ faults < MaxFaults /\ worker[w].phase = "announcing"
          /\ worker[w].item = j /\ worker[w].name = b
    BY <1>0, <1>1, <1>3, <1>6
  <2>2. faults' \in {faults, faults + 1} /\ faults' <= MaxFaults
    BY <1>1, <1>3, FaultsAssumption
  <2> QED
    BY <1>1, <1>4, <1>5, <1>6, <2>1, <2>2, SteadyStep
<1>8. NewCalls
  BY <1>6 DEF NewCalls
<1>9. \A j \in Items, b \in Names :
        facts'[j][b].status = "none" => ~facts'[j][b].dispatched
  BY <1>6 DEF CallInv
<1>10. \A j \in Items, b \in Names : Lost(j, b)' =>
         \/ Lost(j, b)
         \/ /\ faults < MaxFaults /\ faults' = MaxFaults
            /\ j = worker[w].item /\ b = worker[w].name
  <2>1. worker[w].phase \in Working
    BY <1>1 DEF Working
  <2>2. \A j \in Items, b \in Names : facts'[j][b].status = "running" =>
          \/ facts[j][b].status = "running"
          \/ j = worker[w].item /\ b = worker[w].name /\ worker[w].phase \in Working
    BY <1>0, <1>6, <2>1
  <2> QED
    BY <1>1, <1>2, <1>3, <2>2, LostByReturn
<1> QED
  BY <1>1, <1>2, <1>7, <1>8, <1>9, <1>10, ReturnsNow

\* A recovery puts an item back only if its last attempt has not called, and then
\* all others have failed or one is unknown. (recover_score_item)
LEMMA JudgeCall ==
  ASSUME OneFault, IInv, CallInv, NEW w \in Workers, Judge(w)
  PROVE  CallInv'
<1>0. PICK i \in Items : i = worker[w].item
  BY DEF IInv, Typed, WorkersTyped, WorkerState
<1>1. /\ Typed /\ worker[w] \in WorkerState /\ worker[w].phase = "judging"
      /\ worker[w].verdict = "success"
      /\ items' = items /\ resume' = resume /\ facts' = facts /\ faults' = faults
  BY DEF IInv, Typed, WorkersTyped, Judge, At, Known, managed
<1>2. ~worker[w].executing
  BY <1>1 DEF CallInv, Executes, Working
<1>3. ASSUME NEW e \in WorkerState, GoTo(w, e), e.phase # "announcing", ~e.executing,
             e.phase \in {"concluding", "resetting", "responded", "publishing", "idle"},
             e.phase \in {"concluding", "publishing"} => e.verdict \in {"success", "unknown"},
             e.fresh /\ e.phase = "resetting" =>
               /\ items[e.item].status = "running" /\ items[e.item].lease = "stale"
               /\ Safe(e.item, NoName) \/ Blocked(e.item)
      PROVE  CallInv'
  <2>1. worker'[w] = e /\ \A v \in Workers \ {w} : Kept(v)
    BY <1>1, <1>3, StepAlone DEF Typed
  <2>2. /\ Steady /\ NewCalls
        /\ \A j \in Items, b \in Names :
             /\ facts'[j][b].status = "none" => ~facts'[j][b].dispatched
             /\ facts'[j][b].status = "running" => facts[j][b].status = "running"
        /\ \A j \in Items : \A x : Safe(j, x) => Safe(j, x)'
    BY <1>1, <1>3, <2>1, SameFacts
  <2>3. Executes(w)' /\ Admitted(w)'
    BY <1>3, <2>1 DEF Executes, Admitted
  <2>4. Recovers(w)'
    <3>0. PICK j \in Items : j = e.item
      BY <1>3 DEF WorkerState
    <3>1. Safe(j, NoName) \/ Blocked(j) => Safe(j, NoName)' \/ Blocked(j)'
      BY <2>2, BlockedKept
    <3>2. e.fresh /\ e.phase = "resetting" => Safe(j, NoName)' \/ Blocked(j)'
      BY <1>3, <3>0, <3>1
    <3> QED
      BY <1>1, <1>3, <2>1, <3>0, <3>2 DEF Recovers, Safe, Blocked, Lasting, HasSnapshot
  <2>5. \A j \in Items, b \in Names : ~Owns(w, j, b)
    BY <1>2 DEF Owns
  <2>6. \A j \in Items, b \in Names : Lost(j, b)' => Lost(j, b)
    BY <1>1, <2>1, <2>2, <2>5, LostKept
  <2> QED
    BY <1>1, <1>3, <2>2, <2>3, <2>4, <2>6, WorkTurn
<1>4. CASE GoTo(w, Moved(w, "concluding"))
  <2>1. /\ Moved(w, "concluding") \in WorkerState /\ ~Moved(w, "concluding").executing
        /\ Moved(w, "concluding").phase = "concluding"
        /\ Moved(w, "concluding").verdict = "success"
    BY <1>1, <1>2, MovedSame DEF Phases
  <2> QED
    BY <1>3, <1>4, <2>1
<1>5. CASE /\ Undecided(i) /\ ~Called(i) /\ worker[w].seen = "stale"
           /\ GoTo(w, Moved(w, "resetting"))
  <2> DEFINE e == Moved(w, "resetting")
  <2>1. /\ e \in WorkerState /\ ~e.executing /\ e.phase = "resetting" /\ e.item = i
        /\ e.fresh = worker[w].fresh
    BY <1>0, <1>1, <1>2, MovedSame DEF Phases
  <2>2. ASSUME worker[w].fresh
        PROVE  /\ items[i].status = "running" /\ items[i].lease = "stale"
               /\ Safe(i, NoName) \/ Blocked(i)
    <3>1. items[i].status = "running" /\ items[i].lease = "stale"
      BY <1>0, <1>1, <1>5, <2>2 DEF CallInv, Recovers
    <3>2. ASSUME NEW a \in Names, facts[i][a].status = "running"
          PROVE  Lost(i, a) /\ faults = MaxFaults
      <4>1. \A v \in Workers : ~Owns(v, i, a)
        BY <3>1, NobodyCalls DEF Owns, Caller
      <4> QED
        BY <3>2, <4>1 DEF Lost, CallInv
    <3>3. CASE Attempts(i) = {}
      <4>1. \A a \in Names : ~facts[i][a].dispatched
        BY <3>3 DEF Attempts, CallInv
      <4> QED
        BY <3>1, <4>1 DEF Safe
    <3>4. CASE Attempts(i) # {}
      <4>1. /\ Latest(i) \in Names /\ facts[i][Latest(i)].status = "running"
            /\ ~facts[i][Latest(i)].dispatched
        BY <1>5, <3>4, LatestIsAttempt DEF Undecided, Called, Attempts
      <4>2. faults = MaxFaults
        BY <3>2, <4>1
      <4>3. ASSUME NEW a \in Names, facts[i][a].dispatched
            PROVE  facts[i][a].status \in {"failed", "unknown"}
        <5>1. facts[i][a].status # "none"
          BY <4>3 DEF CallInv
        <5>2. facts[i][a].status # "succeeded"
          BY <1>5, <5>1 DEF Undecided, Succeeded, Attempts
        <5>3. facts[i][a].status # "running"
          <6>1. facts[i][a].status = "running" => a = Latest(i)
            BY <3>2, <4>1 DEF CallInv
          <6> QED
            BY <4>1, <4>3, <6>1
        <5>4. facts[i][a] \in Attempt
          BY <1>1 DEF Typed
        <5> QED
          BY <5>1, <5>2, <5>3, <5>4 DEF Attempt
      <4>4. Safe(i, NoName) \/ Blocked(i)
        BY <4>2, <4>3 DEF Safe, Blocked, Lasting
      <4> QED
        BY <3>1, <4>4
    <3> QED
      BY <3>3, <3>4
  <2> HIDE DEF e
  <2>3. GoTo(w, e)
    BY <1>5 DEF e
  <2> QED
    BY <1>3, <2>1, <2>2, <2>3
<1>6. CASE Undecided(i) /\ Called(i) /\ GoOnWith(w, Latest(i))
  <2> DEFINE a == Latest(i)
  <2>1. a \in Names
    BY <1>6, LatestIsAttempt DEF Called, Attempts
  <2>2. PICK e \in WorkerState :
          /\ GoTo(w, e) /\ ~e.executing
          /\ \/ e.phase = "responded"
             \/ e.phase = "publishing" /\ e.verdict = "unknown"
    <3> DEFINE d == [worker[w] EXCEPT !.phase = "responded", !.name = a]
               u == [worker[w] EXCEPT !.phase = "publishing", !.name = a, !.verdict = "unknown"]
    <3>1. d \in WorkerState /\ u \in WorkerState
      BY <1>1, <2>1, EntryTyped DEF Phases
    <3>2. /\ d.phase = "responded" /\ d.executing = worker[w].executing
          /\ u.phase = "publishing" /\ u.executing = worker[w].executing
          /\ u.verdict = "unknown"
      BY <1>1 DEF WorkerState
    <3>3. GoTo(w, d) \/ GoTo(w, u)
      BY <1>1, <1>6 DEF GoOnWith, Moved, WorkerState
    <3> QED
      BY <1>2, <3>1, <3>2, <3>3
  <2> QED
    BY <1>3, <2>2
<1>7. CASE Return(w)
  <2>1. /\ Idle(i) \in WorkerState /\ ~Idle(i).executing /\ Idle(i).phase = "idle"
    BY IdleTyped DEF Idle
  <2> QED
    BY <1>0, <1>3, <1>7, <2>1 DEF Return
<1> QED
  BY <1>0, <1>4, <1>5, <1>6, <1>7 DEF Judge

----------------------------------------------------------------------------
(* Commits. *)

\* After a commit no decision on a resume stands. (run_task_transaction)
LEMMA CommitRequested ==
  ASSUME Requested, NEW t, NEW is, NEW S \in SUBSET Items, M!Commit(t, is, S)
  PROVE  items' = is /\ Requested'
<1>1. items' = is /\ resume' = [r \in Requests |-> M!Aged(resume[r], S)]
  BY DEF M!Commit
<1>2. ASSUME NEW r \in Requests
      PROVE  /\ M!Aged(resume[r], S) \in M!Resumes
             /\ M!Aged(resume[r], S).phase # "decided"
             /\ M!Aged(resume[r], S).phase = "requested" =>
                  M!Aged(resume[r], S).mode # "recover_stale"
  <2> DEFINE q == resume[r]
             c == IF q.pinned THEN q.changed \cup (S \cap (q.targets \cup q.eligible))
                  ELSE q.changed
  <2>1. q \in M!Resumes /\ (q.phase = "requested" => q.mode # "recover_stale")
    BY DEF Requested
  <2>2. CASE q.phase = "requested"
    <3>1. M!Aged(q, S) = [q EXCEPT !.stale = q.stale \ S, !.changed = c]
      BY <2>1, <2>2 DEF M!Aged, M!Revised, M!Resumes
    <3>2. c \in SUBSET Items
      BY <2>1 DEF M!Resumes
    <3> HIDE DEF c
    <3>3. [q EXCEPT !.stale = q.stale \ S, !.changed = c] \in M!Resumes
      BY <2>1, <3>2 DEF M!Resumes
    <3>4. /\ [q EXCEPT !.stale = q.stale \ S, !.changed = c].phase = q.phase
          /\ [q EXCEPT !.stale = q.stale \ S, !.changed = c].mode = q.mode
      BY <2>1 DEF M!Resumes
    <3> QED
      BY <2>1, <2>2, <3>1, <3>3, <3>4
  <2>3. CASE q.phase = "decided"
    <3>1. M!Aged(q, S) = M!Closed
      BY <2>3 DEF M!Aged
    <3> QED
      BY <3>1 DEF M!Closed, M!NoResume, M!Resumes, M!Modes
  <2>4. CASE q.phase \notin {"requested", "decided"}
    BY <2>1, <2>4 DEF M!Aged
  <2> QED
    BY <2>2, <2>3, <2>4
<1> QED
  BY <1>1, <1>2 DEF Requested

LEMMA ItemRequested ==
  ASSUME Requested, NEW i \in Items, NEW new, M!CommitItem(i, new)
  PROVE  items' = [items EXCEPT ![i] = new] /\ Requested'
BY CommitRequested DEF M!CommitItem

\* An item that is not taken, or whose lease is stale, is nobody's.
LEMMA Unworked ==
  ASSUME CallInv, NEW i \in Items, ~Taken(items[i]) \/ items[i].lease = "stale"
  PROVE  \A v \in Workers : worker[v].executing => worker[v].item # i
BY DEF CallInv, Executes

Commits(w, i, e) == worker' = [Outdated(w, i) EXCEPT ![w] = e]

LEMMA Committed ==
  ASSUME Typed, NEW w \in Workers, NEW i, NEW e \in WorkerState, Commits(w, i, e)
  PROVE  worker'[w] = e /\ \A v \in Workers \ {w} : Kept(v)
BY StepCommits DEF Typed, Commits

\* A commit outdates the others on the item, and leaves them their execution.
LEMMA CommitTurn ==
  ASSUME Typed, CallInv, NEW w \in Workers, NEW i \in Items, worker[w].item = i,
         NEW e \in WorkerState, Commits(w, i, e),
         NEW new, items' = [items EXCEPT ![i] = new], facts' = facts, faults' = faults,
         Requested', e.phase \in {"started", "idle"}, worker[w].phase \notin Working,
         \A v \in Workers \ {w} : worker[v].executing /\ worker[v].item = i =>
           Taken(new) /\ new.lease # "stale",
         e.executing => e.item = i /\ \A v \in Workers \ {w} :
                                        worker[v].executing => worker[v].item # i,
         Executes(w)',
         Waits(new) => Waits(items[i]) \/ Safe(i, NoName) \/ Blocked(i)
  PROVE  CallInv'
<1>1. worker'[w] = e /\ \A v \in Workers \ {w} : Kept(v)
  BY Committed
<1>2. /\ Steady /\ NewCalls
      /\ \A j \in Items, b \in Names :
           /\ facts'[j][b].status = "none" => ~facts'[j][b].dispatched
           /\ facts'[j][b].status = "running" => facts[j][b].status = "running"
      /\ \A j \in Items : \A x : Safe(j, x) => Safe(j, x)'
  BY <1>1, SameFacts
<1>3. items'[i] = new /\ \A j \in Items \ {i} : items'[j] = items[j]
  BY DEF Typed
<1>4. ASSUME NEW v \in Workers \ {w} PROVE Follows(v)
  <2>0. PICK j \in Items : j = worker[v].item
    BY DEF Typed, WorkersTyped, WorkerState
  <2>1. worker[v].executing => Taken(items[j]) /\ items[j].lease # "stale"
    BY <2>0 DEF CallInv, Executes
  <2>2. CASE j = i
    <3>1. worker'[v] = [worker[v] EXCEPT !.fresh = FALSE] /\ worker[v] \in WorkerState
      BY <2>0, <2>2 DEF Commits, Outdated, Typed, WorkersTyped
    <3>2. worker'[v].fresh = FALSE
      BY <3>1 DEF WorkerState
    <3> QED
      BY <1>3, <2>0, <2>2, <3>2 DEF Follows
  <2>3. CASE j # i
    <3>1. worker'[v] = worker[v] /\ items'[j] = items[j]
      BY <1>3, <2>0, <2>3 DEF Commits, Outdated
    <3> QED
      BY <2>0, <2>1, <3>1 DEF Follows
  <2> QED
    BY <2>2, <2>3
<1>5. \A j \in Items : Waits(items'[j]) =>
        Waits(items[j]) \/ Safe(j, NoName)' \/ Blocked(j)'
  BY <1>2, <1>3, BlockedKept
<1>6. Admitted(w)' /\ Recovers(w)'
  BY <1>1 DEF Admitted, Recovers
<1>7. \A j \in Items, b \in Names : Lost(j, b)' => Lost(j, b)
  <2>1. \A j \in Items, b \in Names : ~Owns(w, j, b)
    BY DEF Owns
  <2> QED
    BY <1>1, <1>2, <2>1, LostKept
<1>8. worker'[w].executing =>
        \A v \in Workers \ {w} : worker[v].executing => worker[v].item # worker'[w].item
  BY <1>1
<1> QED
  BY <1>1, <1>2, <1>4, <1>5, <1>6, <1>7, <1>8, Turn

\* An execution starts on an item that waits for one: no call stands.
\* (start_item_stage)
LEMMA StartCall ==
  ASSUME IInv, CallInv, NEW w \in Workers, Start(w)
  PROVE  CallInv'
<1>0. PICK i \in Items : i = worker[w].item
  BY DEF IInv, Typed, WorkersTyped, WorkerState
<1>1. /\ Typed /\ worker[w] \in WorkerState /\ worker[w].phase = "ready" /\ worker[w].fresh
      /\ facts' = facts /\ faults' = faults /\ M!StartItemStage(i)
  BY <1>0 DEF IInv, Typed, WorkersTyped, Start, At
<1>2. /\ items[i].stage = "score" /\ items[i].status = "pending" /\ Safe(i, NoName)
  BY <1>0, <1>1 DEF CallInv, Admitted
<1>3. PICK a \in Names \ ({worker[v].name : v \in Workers} \cup Attempts(i)) :
        worker' = [Outdated(w, i) EXCEPT
                     ![w] = [@ EXCEPT !.phase = "started", !.name = a, !.executing = TRUE]]
  BY <1>0 DEF Start
<1> DEFINE e == [worker[w] EXCEPT !.phase = "started", !.name = a, !.executing = TRUE]
           new == [items[i] EXCEPT !.status = "running", !.attempts = @ + 1,
                     !.lease = "fresh", !.retryable = FALSE, !.error = "none"]
<1>4. Outdated(w, i)[w] = worker[w]
  BY DEF Outdated
<1>5. Commits(w, i, e)
  BY <1>3, <1>4 DEF Outdated, Commits
<1>6. e \in WorkerState
  BY <1>1, EntryTyped DEF Phases
<1>7. e.phase = "started" /\ e.item = i /\ e.name = a /\ e.executing
  BY <1>0, <1>1 DEF WorkerState
<1>8. M!CommitItem(i, new)
  BY <1>1 DEF M!StartItemStage
<1>9. new.status = "running" /\ new.lease = "fresh"
  BY <1>1 DEF Typed, M!ItemSnapshot
<1> HIDE DEF e, new
<1>10. items' = [items EXCEPT ![i] = new] /\ Requested'
  BY <1>8, ItemRequested DEF CallInv
<1>11. items'[i] = new
  BY <1>1, <1>10 DEF Typed
<1>12. worker'[w] = e /\ \A v \in Workers \ {w} : Kept(v)
  BY <1>1, <1>5, <1>6, Committed
<1>13. \A v \in Workers : worker[v].executing => worker[v].item # i
  BY <1>2, Unworked DEF Taken
<1>14. Executes(w)'
  <2>1. Safe(i, NoName)'
    <3>1. e.phase # "announcing"
      BY <1>7
    <3> QED
      BY <1>1, <1>2, <1>12, <3>1, SameFacts
  <2>2. Safe(i, a)'
    BY <2>1, NamesAssumption DEF Safe, NoName
  <2>3. Taken(items'[i]) /\ items'[i].lease # "stale"
    BY <1>9, <1>11 DEF Taken
  <2> QED
    BY <1>7, <1>12, <2>2, <2>3, ExecutionNow
<1>15. worker[w].phase \notin Working
  BY <1>1 DEF Working
<1>16. ~Waits(new)
  BY <1>9 DEF Waits
<1> QED
  BY <1>0, <1>1, <1>5, <1>6, <1>7, <1>10, <1>13, <1>14, <1>15, <1>16, CommitTurn

LEMMA IdleCommit ==
  ASSUME Typed, CallInv, NEW w \in Workers, NEW i \in Items, worker[w].item = i,
         worker' = [Outdated(w, i) EXCEPT ![w] = Idle(i)],
         NEW new, M!CommitItem(i, new), facts' = facts, faults' = faults,
         worker[w].phase \in {"resetting", "concluding"},
         \A v \in Workers \ {w} : worker[v].executing /\ worker[v].item = i =>
           Taken(new) /\ new.lease # "stale",
         Waits(new) => Waits(items[i]) \/ Safe(i, NoName) \/ Blocked(i)
  PROVE  CallInv'
<1> DEFINE e == Idle(i)
<1>1. e \in WorkerState /\ e.phase = "idle" /\ e.executing = FALSE
  BY IdleTyped DEF Idle
<1>2. Commits(w, i, e)
  BY DEF Commits
<1> HIDE DEF e
<1>3. items' = [items EXCEPT ![i] = new] /\ Requested'
  BY ItemRequested DEF CallInv
<1>4. worker'[w] = e
  BY <1>1, <1>2, Committed
<1>5. Executes(w)'
  BY <1>1, <1>4 DEF Executes
<1>6. worker[w].phase \notin Working
  BY DEF Working
<1> QED
  BY <1>1, <1>2, <1>3, <1>5, <1>6, CommitTurn

\* An item is put back when no call for it stands, or when it will not be admitted.
\* (_reset_to_pending)
LEMMA ResetCall ==
  ASSUME IInv, CallInv, NEW w \in Workers, ResetItem(w)
  PROVE  CallInv'
<1>0. PICK i \in Items : i = worker[w].item
  BY DEF IInv, Typed, WorkersTyped, WorkerState
<1>1. /\ Typed /\ worker[w].phase = "resetting" /\ worker[w].fresh
      /\ facts' = facts /\ faults' = faults /\ M!ResetScoringItem(i)
      /\ worker' = [Outdated(w, i) EXCEPT ![w] = Idle(i)]
  BY <1>0 DEF IInv, ResetItem, At
<1>2. items[i].lease = "stale" /\ (Safe(i, NoName) \/ Blocked(i))
  BY <1>0, <1>1 DEF CallInv, Recovers
<1>3. \A v \in Workers : worker[v].executing => worker[v].item # i
  BY <1>2, Unworked
<1>4. PICK new : M!CommitItem(i, new)
  BY <1>1 DEF M!ResetScoringItem
<1> QED
  BY <1>0, <1>1, <1>2, <1>3, <1>4, IdleCommit

\* A failure that may be retried is concluded by the execution whose call failed.
\* (complete_scoring_item_stage, _safe_fail_item)
LEMMA ConcludeCall ==
  ASSUME IInv, CallInv, NEW w \in Workers, Conclude(w)
  PROVE  CallInv'
<1>0. PICK i \in Items : i = worker[w].item
  BY DEF IInv, Typed, WorkersTyped, WorkerState
<1>1. /\ Typed /\ worker[w].phase = "concluding" /\ worker[w].fresh
      /\ facts' = facts /\ faults' = faults /\ Concludes(i, worker[w].verdict)
      /\ worker' = [Outdated(w, i) EXCEPT ![w] = Idle(i)]
      /\ items[i] \in M!ItemSnapshot /\ worker[w] \in WorkerState
  BY <1>0 DEF IInv, Typed, WorkersTyped, Conclude, At
<1>2. CASE worker[w].verdict = "success"
  <2> DEFINE new == [M!Leaving(items[i], "pending") EXCEPT !.stage = "review"]
  <2>1. M!CommitItem(i, new)
    BY <1>1, <1>2 DEF Concludes, M!CompleteScoringItemStage
  <2>2. new.stage = "review" /\ new.lease = "none"
    BY <1>1 DEF M!Leaving, M!ItemSnapshot
  <2> HIDE DEF new
  <2>3. Taken(new) /\ new.lease # "stale" /\ ~Waits(new)
    BY <2>2 DEF Taken, Waits
  <2> QED
    BY <1>0, <1>1, <2>1, <2>3, IdleCommit
<1>3. CASE worker[w].verdict = "unknown"
  <2> DEFINE new == [M!Leaving(items[i], "failed") EXCEPT !.retryable = FALSE, !.error = "unknown"]
  <2>1. M!FailItem(i, FALSE, "unknown")
    BY <1>1, <1>3 DEF Concludes
  <2>2. M!CommitItem(i, new)
    BY <2>1 DEF M!FailItem
  <2>3. new.status = "failed" /\ new.lease = "none" /\ new.error = "unknown" /\ ~new.retryable
    BY <1>1 DEF M!Leaving, M!ItemSnapshot
  <2> HIDE DEF new
  <2>4. Taken(new) /\ new.lease # "stale" /\ ~Waits(new)
    BY <2>3 DEF Taken, Waits
  <2> QED
    BY <1>0, <1>1, <2>2, <2>4, IdleCommit
<1>4. CASE worker[w].verdict \in {"retry", "final"}
  <2>1. worker[w].executing
    BY <1>1, <1>4 DEF CallInv, Recovers
  <2>2. PICK a \in Names : a = worker[w].name
    BY <2>1 DEF CallInv, Executes
  <2>3. Safe(i, a) /\ facts[i][a].status = "failed" /\ Lasting(i, a)
    BY <1>0, <1>1, <1>4, <2>1, <2>2 DEF CallInv, Executes
  <2>4. Safe(i, NoName)
    BY <2>3 DEF Safe
  <2>5. \A v \in Workers \ {w} : worker[v].executing => worker[v].item # i
    BY <1>0, <2>1 DEF CallInv, Exclusive
  <2>6. PICK new : M!CommitItem(i, new)
    BY <1>1, <1>4 DEF Concludes, M!FailItem
  <2> QED
    BY <1>0, <1>1, <2>4, <2>5, <2>6, IdleCommit
<1> QED
  BY <1>1, <1>2, <1>3, <1>4 DEF WorkerState, Verdicts

----------------------------------------------------------------------------
(* What happens outside the calls. *)

LEMMA OutsideCall ==
  ASSUME Typed, CallInv, facts' = facts, faults' = faults,
         \A v \in Workers : Kept(v) /\ Follows(v), Requested',
         \A i \in Items : Waits(items'[i]) => Waits(items[i])
  PROVE  CallInv'
<1>1. \A v \in Workers :
        /\ worker'[v].phase = worker[v].phase /\ worker'[v].item = worker[v].item
        /\ worker'[v].name = worker[v].name /\ worker'[v].executing = worker[v].executing
  BY KeptWhole DEF Typed
<1>2. Steady
  BY <1>1 DEF CallInv, Steady, Lasting
<1>3. NewCalls
  BY DEF NewCalls
<1>4. \A v \in Workers : Executes(v)' /\ Admitted(v)' /\ Recovers(v)'
  BY <1>2, <1>3, Bystander
<1>5. Exclusive'
  BY <1>1 DEF CallInv, Exclusive
<1>6. \A i \in Items, a \in Names : facts'[i][a].status = "none" => ~facts'[i][a].dispatched
  BY DEF CallInv
<1>7. \A i \in Items, a \in Names : Lost(i, a)' => Lost(i, a)
  BY <1>1 DEF Lost, Owns
<1>8. PICK j, b : TRUE
  OBVIOUS
<1> QED
  BY <1>2, <1>3, <1>4, <1>5, <1>6, <1>7, CallInvKept

\* The lease runs out only without an execution; a heartbeat is sent for one.
LEMMA LeaseCall ==
  ASSUME IInv, CallInv, NEW i \in Items, LeaseExpires(i) \/ Heartbeat(i)
  PROVE  CallInv'
<1>1. Typed /\ WorkersTyped /\ facts' = facts /\ faults' = faults
  BY DEF IInv, Typed, LeaseExpires, Heartbeat
<1>2. PICK lease \in {"fresh", "stale"} :
        /\ items' = [items EXCEPT ![i] = [items[i] EXCEPT !.lease = lease]]
        /\ lease = "stale" => LeaseExpires(i)
        /\ lease = "fresh" => Heartbeat(i)
  <2>1. CASE LeaseExpires(i)
    <3>1. items' = [items EXCEPT ![i] = [items[i] EXCEPT !.lease = "stale"]]
      BY <1>1, <2>1 DEF LeaseExpires, M!LeaseExpires, Typed
    <3> QED
      BY <2>1, <3>1
  <2>2. CASE Heartbeat(i)
    <3>1. items' = [items EXCEPT ![i] = [items[i] EXCEPT !.lease = "fresh"]]
      BY <2>2, ItemRequested DEF Heartbeat, M!HeartbeatItem, CallInv
    <3> QED
      BY <2>2, <3>1
  <2> QED
    BY <2>1, <2>2
<1> DEFINE new == [items[i] EXCEPT !.lease = lease]
<1>3. /\ new.lease = lease /\ new.stage = items[i].stage /\ new.status = items[i].status
      /\ new.retryable = items[i].retryable /\ new.error = items[i].error
  BY <1>1 DEF Typed, M!ItemSnapshot
<1>4. items' = [items EXCEPT ![i] = new]
  BY <1>2
<1> HIDE DEF new
<1>5. items'[i] = new /\ \A j \in Items \ {i} : items'[j] = items[j]
  BY <1>1, <1>4 DEF Typed
<1>6. Requested'
  <2>1. CASE LeaseExpires(i)
    <3>1. resume' = resume
      BY <2>1 DEF LeaseExpires, M!LeaseExpires
    <3>2. \A j \in Items : /\ items'[j].status = items[j].status
                           /\ items'[j].retryable = items[j].retryable
                           /\ items'[j].error = items[j].error
      BY <1>3, <1>5
    <3>3. \A r \in Requests : resume[r].eligible \subseteq Items
      BY DEF CallInv, Requested, M!Resumes
    <3> QED
      BY <3>1, <3>2, <3>3 DEF CallInv, Requested
  <2>2. CASE Heartbeat(i)
    BY <2>2, ItemRequested DEF Heartbeat, M!HeartbeatItem, CallInv
  <2> QED
    BY <2>1, <2>2
<1>7. \A j \in Items : Waits(items'[j]) => Waits(items[j])
  BY <1>3, <1>5 DEF Waits
<1>8. ASSUME NEW v \in Workers PROVE Kept(v) /\ Follows(v)
  <2>0. PICK j \in Items : j = worker[v].item
    BY <1>1 DEF WorkersTyped, WorkerState
  <2>1. worker[v].executing => Taken(items[j]) /\ items[j].lease # "stale"
    BY <2>0 DEF CallInv, Executes
  <2>2. Taken(items[j]) => Taken(items'[j])
    BY <1>3, <1>5 DEF Taken
  <2>3. CASE lease = "stale"
    <3>1. worker' = worker /\ (worker[v].executing => j # i)
      BY <1>2, <2>0, <2>3 DEF LeaseExpires, Abandoned
    <3>2. Kept(v)
      <4>1. worker[v] \in WorkerState
        BY <1>1 DEF WorkersTyped
      <4>2. worker[v].fresh \in BOOLEAN /\ worker'[v] = [worker[v] EXCEPT !.fresh = worker[v].fresh]
        BY <3>1, <4>1 DEF WorkerState
      <4> QED
        BY <4>2 DEF Kept
    <3>3. Follows(v)
      BY <1>3, <1>5, <2>0, <2>1, <2>2, <2>3, <3>1 DEF Follows
    <3> QED
      BY <3>2, <3>3
  <2>4. CASE lease = "fresh"
    <3> DEFINE S == {w \in Workers : worker[w].item = i}
    <3>1. worker' = [w \in Workers |-> IF w \in S
                      THEN [worker[w] EXCEPT !.fresh = FALSE] ELSE worker[w]]
      BY <1>2, <2>4 DEF Heartbeat
    <3>2. worker'[v].fresh => j # i
      <4>1. j = i => worker'[v] = [worker[v] EXCEPT !.fresh = FALSE] /\ worker[v] \in WorkerState
        BY <1>1, <2>0, <3>1 DEF WorkersTyped
      <4> QED
        BY <4>1 DEF WorkerState
    <3>3. j # i => worker'[v] = worker[v]
      BY <2>0, <3>1
    <3> HIDE DEF S
    <3>4. Kept(v)
      BY <1>1, <3>1, Aging
    <3>5. Follows(v)
      BY <1>3, <1>5, <2>0, <2>1, <2>2, <2>4, <3>2, <3>3 DEF Follows
    <3> QED
      BY <3>4, <3>5
  <2> QED
    BY <2>3, <2>4
<1> QED
  BY <1>1, <1>6, <1>7, <1>8, OutsideCall

\* A decision puts back what has failed, never what is executed. (apply_resume_decision)
LEMMA ResumeCall ==
  ASSUME IInv, CallInv, NEW r \in Requests, ApplyResume(r)
  PROVE  CallInv'
<1>1. /\ Typed /\ WorkersTyped /\ facts' = facts /\ faults' = faults
      /\ M!ApplyResumeDecision(r) /\ \A i \in Items : items[i] \in M!ItemSnapshot
  BY DEF IInv, Typed, ApplyResume
<1> DEFINE moved == {i \in resume[r].eligible : items[i].status \in {"failed", "running"}}
           back(i) == [M!Leaving(items[i], "pending") EXCEPT !.retryable = FALSE]
           new == [i \in Items |-> IF i \in moved THEN back(i) ELSE items[i]]
           t == [task EXCEPT !.status = IF @ = "paused" THEN "running" ELSE @]
<1>2. resume[r].phase = "decided" /\ M!Commit(t, new, moved)
  BY <1>1 DEF M!ApplyResumeDecision
<1>3. moved \in SUBSET Items /\ \A i \in moved :
        items[i].status = "failed" /\ items[i].retryable /\ items[i].error # "unknown"
  BY <1>2 DEF CallInv, Requested, M!Resumes
<1>4. \A i \in Items :
        /\ back(i).stage = items[i].stage /\ back(i).status = "pending"
        /\ back(i).lease = "none"
  BY <1>1 DEF M!Leaving, M!ItemSnapshot
<1>5. \A i \in Items : new[i] = IF i \in moved THEN back(i) ELSE items[i]
  OBVIOUS
<1> HIDE DEF moved, back, new, t
<1>6. items' = new /\ Requested'
  BY <1>2, <1>3, CommitRequested DEF CallInv
<1>7. \A i \in Items : Waits(items'[i]) => Waits(items[i])
  BY <1>3, <1>4, <1>5, <1>6 DEF Waits
<1>8. ASSUME NEW v \in Workers PROVE Kept(v) /\ Follows(v)
  <2>0. PICK j \in Items : j = worker[v].item
    BY <1>1 DEF WorkersTyped, WorkerState
  <2> DEFINE S == {w \in Workers : items'[worker[w].item] # items[worker[w].item]}
  <2>1. worker' = [w \in Workers |-> IF w \in S
                    THEN [worker[w] EXCEPT !.fresh = FALSE] ELSE worker[w]]
    BY DEF ApplyResume
  <2>2. worker[v].executing => Taken(items[j]) /\ items[j].lease # "stale"
    BY <2>0 DEF CallInv, Executes
  <2>3. worker'[v].fresh => items'[j] = items[j]
    <3>1. items'[j] # items[j] =>
            worker'[v] = [worker[v] EXCEPT !.fresh = FALSE] /\ worker[v] \in WorkerState
      BY <1>1, <2>0, <2>1 DEF WorkersTyped
    <3> QED
      BY <3>1 DEF WorkerState
  <2>4. items'[j] = items[j] => worker'[v] = worker[v]
    BY <2>0, <2>1
  <2> HIDE DEF S
  <2>5. Kept(v)
    BY <1>1, <2>1, Aging
  <2>6. worker[v].executing => Taken(items'[j]) /\ items'[j].lease # "stale"
    BY <1>3, <1>4, <1>5, <1>6, <2>2 DEF Taken
  <2> QED
    BY <2>0, <2>3, <2>4, <2>5, <2>6 DEF Follows
<1> QED
  BY <1>1, <1>6, <1>7, <1>8, OutsideCall

\* Pausing, and asking for a resume of what has failed or is pending.
LEMMA ManageCall ==
  ASSUME OneFault, IInv, CallInv, Manage
  PROVE  CallInv'
<1>1. /\ Typed /\ WorkersTyped /\ items' = items /\ facts' = facts /\ worker' = worker
      /\ faults' = faults /\ Requested
  BY ManageLeavesItems DEF IInv, Typed, Manage, CallInv
<1>2. Requested'
  <2>1. CASE M!StartTask \/ M!PauseTask
    <3>1. PICK t : M!Commit(t, items, {})
      BY <2>1 DEF M!StartTask, M!PauseTask
    <3>2. {} \in SUBSET Items
      OBVIOUS
    <3> QED
      BY <1>1, <3>1, <3>2, CommitRequested
  <2>2. ASSUME NEW r \in Requests, NEW q \in M!Resumes,
               resume' = [resume EXCEPT ![r] = q],
               q.phase = "requested" => q.mode # "recover_stale",
               q.phase = "decided" => \A i \in q.eligible :
                 \/ items[i].status = "pending"
                 \/ items[i].status = "failed" /\ items[i].retryable /\ items[i].error # "unknown"
        PROVE  Requested'
    <3>1. resume' \in [Requests -> M!Resumes] /\ resume'[r] = q
      BY <1>1, <2>2 DEF Requested
    <3>2. \A s \in Requests \ {r} : resume'[s] = resume[s]
      BY <1>1, <2>2 DEF Requested
    <3>3. ASSUME NEW s \in Requests
          PROVE  /\ resume'[s].phase = "requested" => resume'[s].mode # "recover_stale"
                 /\ resume'[s].phase = "decided" => \A i \in resume'[s].eligible :
                      \/ items[i].status = "pending"
                      \/ /\ items[i].status = "failed" /\ items[i].retryable
                         /\ items[i].error # "unknown"
      <4>1. CASE s = r
        BY <2>2, <3>1, <4>1
      <4>2. CASE s # r
        BY <1>1, <3>2, <4>2 DEF Requested
      <4> QED
        BY <4>1, <4>2
    <3> QED
      BY <1>1, <3>1, <3>3 DEF Requested
  <2>3. ASSUME NEW r \in Requests, NEW mode \in ResumeModes,
               NEW targets \in SUBSET Items \ {{}}, M!CreateResumeRequest(r, mode, targets, TRUE)
        PROVE  Requested'
    <3> DEFINE q == [M!NoResume EXCEPT !.phase = "requested", !.mode = mode,
                       !.targets = targets, !.pinned = TRUE,
                       !.stale = {i \in targets : mode = "recover_stale"
                                                    /\ items[i].lease = "stale"}]
    <3>1. resume' = [resume EXCEPT ![r] = q]
      BY <2>3 DEF M!CreateResumeRequest
    <3>2. q \in M!Resumes
      BY ResumeModesAssumption DEF M!NoResume, M!Resumes
    <3>3. q.phase = "requested" /\ q.mode = mode
      BY DEF M!NoResume
    <3>4. mode # "recover_stale"
      BY DEF OneFault
    <3> HIDE DEF q
    <3> QED
      BY <2>2, <3>1, <3>2, <3>3, <3>4
  <2>4. ASSUME NEW r \in Requests, M!EvaluateResumeRequest(r)
        PROVE  Requested'
    <3> DEFINE old == resume[r]
               E == M!Eligible(old, items)
               d == [M!NoResume EXCEPT !.phase = "decided", !.pinned = old.pinned, !.eligible = E]
               q == M!Decide(old)
    <3>1. old \in M!Resumes /\ old.phase = "requested" /\ old.mode # "recover_stale"
      BY <1>1, <2>4 DEF M!EvaluateResumeRequest, Requested
    <3>2. E \subseteq Items /\ \A i \in E :
            \/ items[i].status = "pending"
            \/ items[i].status = "failed" /\ items[i].retryable /\ items[i].error # "unknown"
      BY <3>1 DEF M!Eligible, M!Resumes
    <3> HIDE DEF E
    <3>3. d \in M!Resumes /\ d.phase = "decided" /\ d.eligible = E
      BY <3>1, <3>2 DEF M!NoResume, M!Resumes, M!Modes
    <3>4. M!Closed \in M!Resumes /\ M!Closed.phase = "closed"
      BY DEF M!Closed, M!NoResume, M!Resumes, M!Modes
    <3>5. q = M!Closed \/ q = d
      BY DEF M!Decide, E
    <3>6. resume' = [resume EXCEPT ![r] = q]
      BY <2>4 DEF M!EvaluateResumeRequest
    <3> HIDE DEF q, d, old
    <3> QED
      BY <2>2, <3>2, <3>3, <3>4, <3>5, <3>6
  <2> QED
    BY <2>1, <2>3, <2>4 DEF Manage
<1>3. ASSUME NEW v \in Workers PROVE Kept(v) /\ Follows(v)
  <2>1. worker[v] \in WorkerState /\ worker'[v] = worker[v]
    BY <1>1 DEF WorkersTyped
  <2>2. worker[v].fresh \in BOOLEAN /\ worker'[v] = [worker[v] EXCEPT !.fresh = worker[v].fresh]
    BY <2>1 DEF WorkerState
  <2>3. Kept(v)
    BY <2>2 DEF Kept
  <2>4. Follows(v)
    BY <1>1, <2>1 DEF Follows, CallInv, Executes
  <2> QED
    BY <2>3, <2>4
<1> QED
  BY <1>1, <1>2, <1>3, OutsideCall

----------------------------------------------------------------------------
(* All steps. *)

LEMMA CallStep ==
  ASSUME OneFault, IInv, CallInv, [Next]_vars
  PROVE  CallInv'
<1>1. Typed
  BY DEF IInv
<1>2. ASSUME NEW w \in Workers, WorkerStep(w) PROVE CallInv'
  <2>1. CASE (\E i \in Items : Admit(w, i) \/ Inspect(w, i)) \/ ReadAgain(w)
    BY <1>1, <2>1, AdmitCall
  <2>2. CASE Answer(w) \/ \E verdict \in Verdicts : ProviderFails(w, verdict)
    BY <2>2, AnswerCall
  <2>3. CASE Dispatch(w) \/ WriteResponse(w) \/ WriteSnapshot(w) \/ WriteValidation(w)
    BY <2>3, RecordSteps
  <2>4. CASE PublishConflict(w) \/ Refused(w) \/ Interrupt(w) \/ AnnounceFails(w)
    BY <2>4, ReturnCall, AnnounceFailsCall
  <2>5. CASE CreateAttempt(w) \/ Publish(w) \/ Announce(w) \/ Judge(w)
    BY <2>5, CreateCall, PublishCall, AnnounceCall, JudgeCall
  <2>6. CASE Start(w) \/ ResetItem(w) \/ Conclude(w)
    BY <2>6, StartCall, ResetCall, ConcludeCall
  <2> QED
    BY <1>2, <2>1, <2>2, <2>3, <2>4, <2>5, <2>6 DEF WorkerStep, Goes
<1>3. ASSUME NEW i \in Items, LeaseExpires(i) \/ Heartbeat(i) PROVE CallInv'
  BY <1>3, LeaseCall
<1>4. ASSUME NEW r \in Requests, ApplyResume(r) PROVE CallInv'
  BY <1>4, ResumeCall
<1>5. CASE Manage
  BY <1>5, ManageCall
<1>6. CASE UNCHANGED vars
  <2>1. items' = items /\ resume' = resume /\ facts' = facts /\ worker' = worker
        /\ faults' = faults
    BY <1>6 DEF vars
  <2>2. Requested'
    BY <2>1 DEF CallInv, Requested
  <2>3. ASSUME NEW v \in Workers PROVE Kept(v) /\ Follows(v)
    <3>1. worker[v] \in WorkerState /\ worker'[v] = worker[v]
      BY <1>1, <2>1 DEF Typed, WorkersTyped
    <3>2. worker[v].fresh \in BOOLEAN /\ worker'[v] = [worker[v] EXCEPT !.fresh = worker[v].fresh]
      BY <3>1 DEF WorkerState
    <3>3. Kept(v)
      BY <3>2 DEF Kept
    <3>4. Follows(v)
      BY <2>1, <3>1 DEF Follows, CallInv, Executes
    <3> QED
      BY <3>3, <3>4
  <2> QED
    BY <1>1, <2>1, <2>2, <2>3, OutsideCall
<1> QED
  BY <1>2, <1>3, <1>4, <1>5, <1>6 DEF Next

LEMMA CallInit == ASSUME Init PROVE CallInv
<1>1. IInv
  BY InitInv
<1>2. /\ facts = [i \in Items |-> [a \in Names |-> NoAttempt]] /\ faults = 0
      /\ \E i \in Items : worker = [w \in Workers |-> Idle(i)]
      /\ resume = [r \in Requests |-> M!NoResume]
  BY DEF Init, M!Init
<1>3. /\ \A i \in Items, a \in Names :
           ~facts[i][a].dispatched /\ facts[i][a].status = "none"
      /\ \A w \in Workers : worker[w].phase = "idle" /\ ~worker[w].executing
  BY <1>2 DEF NoAttempt, Idle
<1>4. \A w \in Workers : Executes(w) /\ Admitted(w) /\ Recovers(w)
  BY <1>3 DEF Executes, Admitted, Recovers
<1>5. \A i \in Items : Safe(i, NoName)
  BY <1>3 DEF Safe
<1>6. \A i \in Items, a \in Names : ~Lost(i, a)
  BY <1>3 DEF Lost
<1>7. Requested
  BY <1>2 DEF Requested, M!NoResume, M!Resumes, M!Modes
<1>8. faults \in Nat /\ faults <= MaxFaults
  BY <1>2, FaultsAssumption
<1> QED
  BY <1>3, <1>4, <1>5, <1>6, <1>7, <1>8 DEF CallInv, Exclusive

\* Only an execution calls, and no earlier call for its item can still be good.
\* (mark_attempt_dispatched)
LEMMA CallStepJustified ==
  ASSUME IInv, CallInv, [Next]_vars,
         NEW i \in Items, NEW a \in Names,
         facts'[i][a].dispatched, ~facts[i][a].dispatched
  PROVE  \A b \in Names \ {a} : facts[i][b].dispatched => facts[i][b].status = "failed"
<1>1. Typed
  BY DEF IInv
<1>2. PICK w \in Workers : Dispatch(w) /\ worker[w].item = i /\ worker[w].name = a
  <2>1. facts' # facts
    OBVIOUS
  <2>2. PICK w \in Workers :
          \/ CreateAttempt(w) \/ Dispatch(w) \/ WriteResponse(w) \/ WriteSnapshot(w)
          \/ WriteValidation(w) \/ Publish(w) \/ AnnounceFails(w)
    BY <2>1, ManageLeavesItems
       DEF Next, vars, WorkerStep, Goes, Admit, Inspect, ReadAgain, Start, Answer,
           ProviderFails, Judge, ResetItem, PublishConflict, Announce, Conclude, Refused,
           Interrupt, LeaseExpires, Heartbeat, ApplyResume
  <2>3. worker[w].item \in Items /\ worker[w].name \in Names
    BY <1>1, <2>2
       DEF IInv, Typed, WorkersTyped, WorkerState, Known, Named, At, CreateAttempt, Dispatch,
           WriteResponse, WriteSnapshot, WriteValidation, Publish, AnnounceFails
  <2>4. ASSUME NEW field \in {"dispatched", "response", "snapshot", "validation"},
               Record(w, field)
        PROVE  field = "dispatched" /\ worker[w].item = i /\ worker[w].name = a
    BY <1>1, <2>3, <2>4, FieldWritten
  <2>5. ASSUME NEW status, facts' = Replaced(worker[w].item, worker[w].name, status)
        PROVE  FALSE
    <3>1. facts'[i][a].dispatched = facts[i][a].dispatched
      BY <1>1, <2>3, <2>5, StatusReplaced
    <3> QED
      BY <3>1
  <2>6. ~CreateAttempt(w) /\ ~Publish(w) /\ ~AnnounceFails(w)
    BY <2>5 DEF Replaced, CreateAttempt, Publish, AnnounceFails
  <2>7. ~WriteResponse(w) /\ ~WriteSnapshot(w) /\ ~WriteValidation(w)
    BY <2>4 DEF WriteResponse, WriteSnapshot, WriteValidation
  <2> QED
    BY <2>2, <2>4, <2>6, <2>7 DEF Dispatch
<1>3. Executes(w) /\ worker[w].phase = "created"
  BY <1>2 DEF CallInv, Dispatch, At
<1> QED
  BY <1>2, <1>3 DEF Executes, Safe

\* Nobody calls the provider for an item while an earlier call for it may have been
\* carried out, whatever else happens to the item: for any items, calls, attempts
\* and requests, as long as at most one execution is interrupted or one write fails,
\* no item changes between a dry run and its second reading, and nobody resumes
\* running items. (execute_score_item, recover_score_item, "blind retries are stopped")
THEOREM Justified ==
  ASSUME OneFault
  PROVE  Spec => CallsJustified
<1>1. Init => CallInv
  BY CallInit
<1>2. IInv /\ CallInv /\ [Next]_vars => CallInv'
  BY CallStep
<1>3. IInv /\ CallInv /\ [Next]_vars =>
        [\A i \in Items, a \in Names :
           facts'[i][a].dispatched /\ ~facts[i][a].dispatched =>
             \A b \in Names \ {a} : facts[i][b].dispatched => facts[i][b].status = "failed"]_vars
  BY CallStepJustified
<1> QED
  BY <1>1, <1>2, <1>3, Invariance, PTL DEF Spec, CallsJustified
=============================================================================
