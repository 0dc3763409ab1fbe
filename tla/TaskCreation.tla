---------------------------- MODULE TaskCreation ----------------------------
(* How tasks come to be, and what becomes of two equal requests.               *)
(*                                                                             *)
(* PipelineTaskManager.create_task makes a preparation task from registered    *)
(* packages: every package is looked up, then the tasks are scanned for an     *)
(* equal request, then the task is written in one transaction; no lock spans   *)
(* the three.  ScoringTaskCreator makes a scoring task from items a settled    *)
(* preparation task has completed: the items and their evidence are looked up  *)
(* first, the scan and the write are done under a lock named by the request.   *)
(* Evidence may be registered and validated anew at any moment, and the dry    *)
(* run of the orchestrator looks at it once more before a score.               *)
(*                                                                             *)
(* A package is a package id with one of its revisions.  Who creates a task    *)
(* reads the record of the revision it was given; the dry run knows the id     *)
(* only, and takes from the index the highest revision that is registered.     *)
(* Validations of a package are numbered and never change; the record names    *)
(* one of them.  So the reads of a record and of the validation it names are   *)
(* one step here.  A registration is two, the record and the index             *)
(* (EvidenceRegistration has the others): it refuses what has not passed, so   *)
(* that a validation is the level it gives, with its leave to be shown to a    *)
(* model; and every record it writes says that the package was published as    *)
(* ready.  The link of a validation to its record is taken as filled in.  A    *)
(* transaction is two steps, the task shown and the transaction ended          *)
(* (TaskTransaction has the others).  Clients name tasks, items and            *)
(* validations that exist.                                                     *)
EXTENDS Naturals, Sequences, FiniteSets, Functions

CONSTANTS Packages,       \* pairs of a package id and a revision
          Callers, Configs,
          Profiled,       \* the configurations that match an input profile
          Findings,       \* the levels a validation may give
          None,           \* no holder, no task, no source
          MaxItems,       \* of one preparation task
          MaxValidations, \* of all packages together
          MaxTasks,       \* no call is begun once there are as many, and one more after each crash
          MaxCrashes

Levels == {"sufficient", "limited", "manual_only"}
Kinds == {"prepare", "score"}
Items ==
  [validation : Nat, level : Levels \cup {None},
   status : {"pending", "manual_review", "completed", "failed", None}]
Keys ==
  [kind : Kinds, source : Nat \cup {None}, config : Configs,
   inputs : SUBSET (Packages \X Nat)]
Tasks ==
  [kind : Kinds, key : Keys, source : Nat \cup {None},
   items : UNION {[ps -> Items] : ps \in SUBSET Packages},
   settled : BOOLEAN, logged : BOOLEAN]

ASSUME CreationAssumption ==
  /\ Profiled \subseteq Configs
  /\ \A p \in Packages : p[2] \in Nat
  /\ Findings \subseteq Levels
  /\ None \notin Callers \cup Configs \cup Nat \cup Levels /\ None \notin Tasks
  /\ {MaxItems, MaxValidations, MaxTasks, MaxCrashes} \subseteq Nat

VARIABLES ledger,   \* the validations of each package, in their order
          record,   \* the validation the record of a package names, 0 without a record
          index,    \* the validation its entry in the index names, 0 without an entry
          registering, \* the registration under way, and what the record was before
          tasks,    \* the tasks shown so far; None after a roll-back
          locks,    \* the creation locks: who holds which, by request
          caller,   \* where each call is
          told,     \* the scoring tasks an ended call has answered with
          crashes

evidence == <<ledger, record, index, registering>>
vars == <<ledger, record, index, registering, tasks, locks, caller, told, crashes>>

\* seen: the items of the request, as far as they are known. todo: the packages
\* still to be looked up. shown: the task the call has written. answer: its answer.
Idle ==
  [phase |-> "idle", kind |-> None, source |-> None, config |-> None, seen |-> << >>,
   todo |-> {}, shown |-> None, answer |-> None]

\* Of a package all that a client sends is the validation it has seen.
Named(n) == [validation |-> n, level |-> None, status |-> None]

Init ==
  /\ ledger \in [Packages -> {<< >>} \cup {<<f>> : f \in Findings}]
  /\ record = [p \in Packages |-> Len(ledger[p])]
  /\ index = record
  /\ registering = None
  /\ tasks = << >>
  /\ locks = << >>
  /\ caller = [c \in Callers |-> Idle]
  /\ told = {}
  /\ crashes = 0

Recorded == {p \in Packages : record[p] # 0}
Verdict(p, i) == ledger[p][i.validation]
Existing == {t \in DOMAIN tasks : tasks[t] # None}
At(c, phase) == caller[c].phase = phase
Kind(c) == caller[c].kind
GoTo(c, next) == caller' = [caller EXCEPT ![c] = next]

----------------------------------------------------------------------------
(* What is looked up before the scan.                                          *)

\* The client has read the record before and sends the validation it saw.
RequestPreparation(c, ps, g) ==
  /\ At(c, "idle") /\ Len(tasks) < MaxTasks + crashes
  /\ ps \subseteq Recorded /\ Cardinality(ps) <= MaxItems
  /\ GoTo(c, [Idle EXCEPT !.phase = "checking", !.kind = "prepare", !.config = g,
                          !.seen = [p \in ps |-> Named(record[p])], !.todo = ps])
  /\ UNCHANGED <<evidence, tasks, locks, told, crashes>>

\* The profile, then the source task.
RequestScoring(c, s, ps, g) ==
  /\ At(c, "idle") /\ Len(tasks) < MaxTasks + crashes
  /\ g \in Profiled
  /\ tasks[s].kind = "prepare" /\ tasks[s].settled
  /\ GoTo(c, [Idle EXCEPT !.phase = "checking", !.kind = "score", !.source = s, !.config = g,
                          !.seen = [p \in ps |-> tasks[s].items[p]], !.todo = ps])
  /\ UNCHANGED <<evidence, tasks, locks, told, crashes>>

\* The publication is not asked for here.
Preflight(p, i) == p \in Recorded /\ i.validation = record[p]

\* Of item i of package p, where q is the package whose record was found.
EvidenceIdentity(p, i, q) ==
  q \in Recorded /\ q = p /\ i.validation = record[q]

ValidationBinding(p, i) == Verdict(p, i) = i.level

\* Mutant of Eligible: whether the preparation of the item was completed is not asked.
EligibleUnfinished(p, i) ==
  /\ i.level \in {"sufficient", "limited"}
  /\ EvidenceIdentity(p, i, p) /\ ValidationBinding(p, i)
Eligible(p, i) ==
  /\ i.status = "completed" /\ i.level \in {"sufficient", "limited"}
  /\ EvidenceIdentity(p, i, p) /\ ValidationBinding(p, i)

Acceptable(c, p) ==
  IF Kind(c) = "prepare" THEN Preflight(p, caller[c].seen[p])
  ELSE Eligible(p, caller[c].seen[p])

\* What an accepted package leads to: in a preparation an item of the level just
\* read, in a scoring task one like its source.
NewItem(c, p) ==
  LET i == caller[c].seen[p]
      level == IF Kind(c) = "prepare" THEN Verdict(p, i) ELSE i.level
  IN  [validation |-> i.validation, level |-> level,
       status |-> IF level = "manual_only" THEN "manual_review" ELSE "pending"]

Check(c, p) ==
  /\ At(c, "checking") /\ p \in caller[c].todo
  /\ IF Acceptable(c, p)
     THEN GoTo(c, [caller[c] EXCEPT
            !.seen[p] = NewItem(c, p), !.todo = @ \ {p},
            !.phase = IF caller[c].todo # {p} THEN @
                      ELSE IF Kind(c) = "score" THEN "locking" ELSE "scanning"])
     ELSE GoTo(c, Idle)
  /\ UNCHANGED <<evidence, tasks, locks, told, crashes>>

\* The idempotency key.  The payload kept beside it is made from the same parts,
\* so that equal keys with unequal payloads do not occur.
Key(c) == [kind |-> caller[c].kind, source |-> caller[c].source, config |-> caller[c].config,
           inputs |-> {<<p, caller[c].seen[p].validation>> : p \in DOMAIN caller[c].seen}]

----------------------------------------------------------------------------
(* The lock, the scan and the write.                                           *)

Lock(c) ==
  /\ At(c, "locking") /\ Key(c) \notin DOMAIN locks
  /\ locks' = [k \in DOMAIN locks \cup {Key(c)} |-> IF k = Key(c) THEN c ELSE locks[k]]
  /\ GoTo(c, [caller[c] EXCEPT !.phase = "scanning"])
  /\ UNCHANGED <<evidence, tasks, told, crashes>>

LockConflict(c) ==
  /\ At(c, "locking") /\ Key(c) \in DOMAIN locks
  /\ GoTo(c, Idle)
  /\ UNCHANGED <<evidence, tasks, locks, told, crashes>>

\* A call has its answer; one under the lock has still to give that back.
Answered(c, t) ==
  GoTo(c, [caller[c] EXCEPT !.phase = "leaving", !.answer = t])

\* The scan looks for task.json only: a task whose transaction is still under way,
\* or will never be ended, is a hit as well.
\* Mutant of Hits: a task is a hit only once its transaction has been ended.
HitsLogged(key) == {t \in Existing : tasks[t].key = key /\ tasks[t].logged}
Hits(key) == {t \in Existing : tasks[t].key = key}

Scan(c) ==
  /\ At(c, "scanning")
  /\ IF Hits(Key(c)) # {} THEN \E t \in Hits(Key(c)) : Answered(c, t)
     ELSE GoTo(c, [caller[c] EXCEPT !.phase = "writing"])
  /\ UNCHANGED <<evidence, tasks, locks, told, crashes>>

Task(c) == [kind |-> Kind(c), key |-> Key(c), source |-> caller[c].source,
            items |-> caller[c].seen, settled |-> FALSE, logged |-> FALSE]

\* Mutant of Show: the lock is given back before the transaction has ended.
ShowUnlocked(c) ==
  /\ At(c, "writing")
  /\ tasks' = Append(tasks, Task(c))
  /\ locks' = Restrict(locks, {k \in DOMAIN locks : locks[k] # c})
  /\ GoTo(c, [caller[c] EXCEPT !.phase = "shown", !.shown = Len(tasks) + 1])
  /\ UNCHANGED <<evidence, told, crashes>>
Show(c) ==
  /\ At(c, "writing")
  /\ tasks' = Append(tasks, Task(c))
  /\ GoTo(c, [caller[c] EXCEPT !.phase = "shown", !.shown = Len(tasks) + 1])
  /\ UNCHANGED <<evidence, locks, told, crashes>>

Commit(c) ==
  /\ At(c, "shown")
  /\ tasks' = [tasks EXCEPT ![caller[c].shown].logged = TRUE]
  /\ Answered(c, caller[c].shown)
  /\ UNCHANGED <<evidence, locks, told, crashes>>

RollBack(c) ==
  /\ At(c, "shown")
  /\ tasks' = [tasks EXCEPT ![caller[c].shown] = None]
  /\ Answered(c, None)
  /\ UNCHANGED <<evidence, locks, told, crashes>>

Leave(c) ==
  /\ At(c, "leaving")
  /\ locks' = Restrict(locks, {k \in DOMAIN locks : locks[k] # c})
  /\ told' = IF Kind(c) = "score" THEN told \cup ({caller[c].answer} \ {None}) ELSE told
  /\ GoTo(c, Idle)
  /\ UNCHANGED <<evidence, tasks, crashes>>

----------------------------------------------------------------------------
(* What else happens.                                                          *)

\* EvidenceRegistration, under its lock: a package that has passed is registered, or
\* validated again.  All the entries of the index are compared with their records.
IndexReadable == \A p \in Packages : index[p] # 0 => index[p] = record[p]

WriteRecord(p, f) ==
  /\ registering = None /\ IndexReadable
  /\ FoldFunction(LAMBDA vs, n : Len(vs) + n, 0, ledger) < MaxValidations
  /\ ledger' = [ledger EXCEPT ![p] = Append(@, f)]
  /\ record' = [record EXCEPT ![p] = Len(ledger[p]) + 1]
  /\ registering' = [package |-> p, old |-> record[p]]
  /\ UNCHANGED <<index, tasks, locks, caller, told, crashes>>

WriteIndex ==
  /\ registering # None
  /\ index' = [index EXCEPT ![registering.package] = record[registering.package]]
  /\ registering' = None
  /\ UNCHANGED <<ledger, record, tasks, locks, caller, told, crashes>>

\* The index cannot be written.
UndoRecord ==
  /\ registering # None
  /\ record' = [record EXCEPT ![registering.package] = registering.old]
  /\ registering' = None
  /\ UNCHANGED <<ledger, index, tasks, locks, caller, told, crashes>>

\* Made anew from the records; the old one has to be readable all the same.
RebuildIndex ==
  /\ registering = None /\ IndexReadable
  /\ index' = record
  /\ UNCHANGED <<ledger, record, registering, tasks, locks, caller, told, crashes>>

\* PipelineTask: the pending items of a preparation are completed or fail, and the
\* task is settled; completed items and settled tasks stay as they are.
Prepared(items, failed) ==
  [p \in DOMAIN items |->
     IF items[p].status # "pending" THEN items[p]
     ELSE [items[p] EXCEPT !.status = IF p \in failed THEN "failed" ELSE "completed"]]

Settle(t, failed) ==
  /\ tasks[t].kind = "prepare" /\ tasks[t].logged /\ ~tasks[t].settled
  /\ tasks' = [tasks EXCEPT ![t].settled = TRUE,
                            ![t].items = Prepared(tasks[t].items, failed)]
  /\ UNCHANGED <<evidence, locks, caller, told, crashes>>

\* The process ends: lock files, half-written tasks and half a registration stay, its
\* lock file apart, which is taken as removed by then.  Nothing in the program calls
\* recover_incomplete_transactions, so a half-written task stays for good.
Crash ==
  /\ crashes < MaxCrashes
  /\ crashes' = crashes + 1
  /\ caller' = [c \in Callers |-> Idle]
  /\ locks' = [k \in DOMAIN locks |-> None]
  /\ registering' = None
  /\ UNCHANGED <<ledger, record, index, tasks, told>>

\* An operator removes a lock file nobody holds.
ClearLock(k) ==
  /\ locks[k] = None
  /\ locks' = Restrict(locks, DOMAIN locks \ {k})
  /\ UNCHANGED <<evidence, tasks, caller, told, crashes>>

\* Requests and tasks hold items of some of the packages.
HoldsItems(m) == DOMAIN m \subseteq Packages /\ m \in [DOMAIN m -> Items]

IsTask(t) ==
  /\ t \in [kind : Kinds, key : Keys, source : Nat \cup {None}, items : {t.items},
            settled : BOOLEAN, logged : BOOLEAN]
  /\ HoldsItems(t.items)

IsCall(r) ==
  /\ r \in [phase : {"idle", "checking", "locking", "scanning", "writing", "shown", "leaving"},
            kind : Kinds \cup {None}, source : Nat \cup {None}, config : Configs \cup {None},
            seen : {r.seen}, todo : SUBSET Packages,
            shown : Nat \cup {None}, answer : Nat \cup {None}]
  /\ HoldsItems(r.seen)

TypeOK ==
  /\ ledger \in [Packages -> Seq(Findings)]
  /\ {record, index} \subseteq [Packages -> Nat]
  /\ registering \in {None} \cup [package : Packages, old : Nat]
  /\ tasks \in Seq({tasks[t] : t \in DOMAIN tasks})
  /\ \A t \in Existing : IsTask(tasks[t])
  /\ \A k \in DOMAIN locks : k \in Keys /\ locks[k] \in Callers \cup {None}
  /\ DOMAIN caller = Callers /\ \A c \in Callers : IsCall(caller[c])
  /\ told \subseteq Nat
  /\ crashes \in Nat

Next ==
  \/ \E c \in Callers :
       \/ \E ps \in SUBSET Packages \ {{}}, g \in Configs : RequestPreparation(c, ps, g)
       \/ \E s \in Existing : \E ps \in SUBSET DOMAIN tasks[s].items \ {{}}, g \in Configs :
            RequestScoring(c, s, ps, g)
       \/ \E p \in Packages : Check(c, p)
       \/ Lock(c) \/ LockConflict(c) \/ Scan(c)
       \/ Show(c) \/ Commit(c) \/ RollBack(c) \/ Leave(c)
  \/ \E p \in Packages, f \in Findings : WriteRecord(p, f)
  \/ WriteIndex \/ UndoRecord \/ RebuildIndex
  \/ \E t \in Existing : \E failed \in SUBSET Packages : Settle(t, failed)
  \/ Crash
  \/ \E k \in DOMAIN locks : ClearLock(k)

Spec == Init /\ [][Next]_vars

----------------------------------------------------------------------------

\* Two equal requests for a scoring task never leave two tasks: at most one task
\* carries a key, whoever asks at the same time, whatever fails and wherever the
\* process ends (ScoringTaskCreator, creation lock and scan).
OneTask ==
  \A s, t \in Existing :
    tasks[s].kind = "score" /\ tasks[t].key = tasks[s].key => s = t

\* A caller is never answered with a scoring task that was taken back, before or
\* after: a hit is not given on what another call then rolls back.
ToldStays == told \subseteq Existing

\* The dry run of a new item of a scoring task: what the orchestrator asks of its
\* source and its evidence, apart from the provider and the states it has reached.
SourceBound(t, p) ==
  LET source == tasks[tasks[t].source]
  IN  /\ source # None /\ source.kind = "prepare"
      /\ source.items[p].status = "completed"
      /\ source.items[p].validation = tasks[t].items[p].validation

\* What the dry run finds by the id of a package: of its entries in the index the one
\* of the highest revision, none if there is no entry.
Entries(id) == {q \in Packages : q[1] = id /\ index[q] # 0}
LookUp(id) == {q \in Entries(id) : \A r \in Entries(id) : r[2] <= q[2]}

\* An index that cannot be read is an error.
DryRunAccepts(t, p) ==
  LET i == tasks[t].items[p]
  IN  /\ SourceBound(t, p) /\ IndexReadable
      /\ \E q \in LookUp(p[1]) : EvidenceIdentity(p, i, q) /\ ValidationBinding(p, i)
      /\ i.level # "manual_only"

\* An item of a scoring task is refused by the dry run, on account of its source and
\* its evidence, only if the record of its package names another validation by now,
\* or the index is not up to date, or the package has a registered revision that is
\* higher: in all other cases what the creator lets in the orchestrator takes.
DryRunFollows ==
  \A t \in Existing : tasks[t].kind = "score" =>
    \A p \in DOMAIN tasks[t].items :
      IndexReadable /\ p \in LookUp(p[1]) /\ tasks[t].items[p].validation = record[p]
        => DryRunAccepts(t, p)

\* The dry run and the creator judge evidence alike, as pipeline_evidence_checks says:
\* where the creator would let an item in, of a package with an entry in an index that
\* can be read, the dry run takes it.  It does not hold.
OneJudgement ==
  \A t \in Existing : tasks[t].kind = "score" =>
    \A p \in DOMAIN tasks[t].items :
      LET i == tasks[t].items[p]
      IN  IndexReadable /\ p \in Entries(p[1])
            /\ EvidenceIdentity(p, i, p) /\ ValidationBinding(p, i)
          => DryRunAccepts(t, p)
=============================================================================
