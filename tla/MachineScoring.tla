--------------------------- MODULE MachineScoring ---------------------------
(***************************************************************************)
(* The older way to score: machine_scores rows in SQLite and the batch     *)
(* jobs that fill them.  The handlers of the routers are coroutines that   *)
(* never wait, so one of them runs at a time, on the event loop; a job is  *)
(* a background thread (with its pool of workers) and interleaves with the *)
(* handlers at every read and at every commit.                             *)
(*                                                                         *)
(* A row's identity is its place in rows, which is also the order of       *)
(* creation.  A job's entry is what the task manager holds in memory; disk *)
(* is the file it is saved to.                                             *)
(***************************************************************************)
EXTENDS Integers, Sequences, FiniteSets, SequencesExt

CONSTANTS
  Teams,        \* the teams whose work is parsed
  Jobs,         \* the batch jobs that may be started
  Totals,       \* the total scores the scorer may find
  Earlier,      \* tables that earlier processes may have left
  None,         \* nothing there
  Torn,         \* a file that a failing save left cut short
  MaxNow,       \* bound: scores asked for one by one
  MaxFaults,    \* bound: failing saves of a job's file and failing commits
  MaxCrashes    \* bound: ends of the process

ASSUME MachineScoringAssumption ==
  /\ Totals \subseteq Nat
  /\ IsFiniteSet(Teams)
  /\ MaxNow \in Nat /\ MaxFaults \in Nat /\ MaxCrashes \in Nat

Statuses == {"pending", "running", "completed", "failed"}

\* What a file of a job can say.
Files == [status : Statuses, success : SUBSET Teams, failed : SUBSET Teams]

\* What stands for nothing and for a file cut short is not a job nor a file.
ASSUME SentinelAssumption ==
  Torn # None /\ None \notin Jobs /\ Files \cap {None, Torn} = {}

\* An earlier process wrote its rows in the same way: a team that has a row has
\* an adopted one.  Its jobs have other ids than those still to be started.
ASSUME EarlierAssumption ==
  \A table \in Earlier :
    /\ table \in Seq([team : Teams, total : Nat, adopted : BOOLEAN, session : {None}])
    /\ \A i \in DOMAIN table :
         \E k \in DOMAIN table : table[k].team = table[i].team /\ table[k].adopted

VARIABLES
  rows,      \* the machine_scores table
  jobs,      \* TaskManager._instances, with the place of the job's thread
  disk,      \* data/tasks/<id>.json; Torn when a save was cut short
  best,      \* what adopt_best_score has read of each team; None when idle
  faults,    \* failing saves and commits so far
  crashes,   \* ends of the process so far
  now        \* scores asked for one by one so far

vars == <<rows, jobs, disk, best, faults, crashes, now>>

\* A row of the table; of the scores only the total.
MachineScore(team, total, adopted, session) ==
  [team |-> team, total |-> total, adopted |-> adopted, session |-> session]

RowsOf(t) == {i \in DOMAIN rows : rows[i].team = t}
AdoptedOf(t) == {i \in RowsOf(t) : rows[i].adopted}

\* What is saved of a job: the status and the teams counted.
File(job) == [status |-> job.status, success |-> job.success, failed |-> job.failed]

\* A job and where its thread is: the teams whose worker has not returned, and
\* the results not yet counted.
Fresh(parallel) ==
  [status |-> "pending", success |-> {}, failed |-> {},
   thread |-> "begin", parallel |-> parallel, waiting |-> {}, results |-> {}]

Live(j) == jobs[j] # None /\ jobs[j].thread \in {"begin", "score", "leave"}

Init ==
  /\ rows \in Earlier
  /\ jobs = [j \in Jobs |-> None]
  /\ disk = [j \in Jobs |-> None]
  /\ best = None
  /\ faults = 0 /\ crashes = 0 /\ now = 0

\* A save opens the file with "w": when it fails, the file keeps what it had
\* or is left cut short.
Saved(j, entry) ==
  /\ disk' = [disk EXCEPT ![j] = File(entry)]
  /\ UNCHANGED faults

Unsaved(j, n) ==
  /\ faults + n <= MaxFaults
  /\ faults' = faults + n
  /\ \E f \in {disk[j], Torn} : disk' = [disk EXCEPT ![j] = f]

Keep(j, entry) == jobs' = [jobs EXCEPT ![j] = entry]

---------------------------------------------------------------------------
(* The rows. *)

\* The rows of the team are no longer adopted and the new one is: one
\* transaction.
WithScore(t, total, session) ==
  Append([i \in DOMAIN rows |->
            IF rows[i].team = t THEN [rows[i] EXCEPT !.adopted = FALSE] ELSE rows[i]],
         MachineScore(t, total, TRUE, session))

\* A score asked for one by one; one that fails is not seen in the table.
ScoreNow(t) ==
  /\ best = None
  /\ now < MaxNow /\ now' = now + 1
  /\ \E n \in Totals : rows' = WithScore(t, n, None)
  /\ UNCHANGED <<jobs, disk, best, faults, crashes>>

\* Mutant of Adopt: the rows are released in a transaction of their own.
AdoptReleased(t, i) ==
  /\ best = None
  /\ rows' = [k \in DOMAIN rows |->
                IF rows[k].team = t THEN [rows[k] EXCEPT !.adopted = (k = i)] ELSE rows[k]]
  /\ UNCHANGED <<jobs, disk, best, faults, crashes, now>>

\* The row asked for must be the team's: else 404, and the session is closed
\* without a commit.
Adopt(t, i) ==
  /\ best = None
  /\ i \in RowsOf(t)
  /\ rows' = [k \in DOMAIN rows |->
                IF rows[k].team = t THEN [rows[k] EXCEPT !.adopted = (k = i)] ELSE rows[k]]
  /\ UNCHANGED <<jobs, disk, best, faults, crashes, now>>

\* The first of the team's rows with the highest total.
Highest(t) ==
  CHOOSE i \in RowsOf(t) :
    \A k \in RowsOf(t) : \/ rows[k].total < rows[i].total
                         \/ rows[k].total = rows[i].total /\ i <= k

\* adopt_best_score reads the teams one after the other and writes once, at the
\* end: only the attributes that differ from what was read.
ReadBest(t) ==
  LET seen == IF best = None THEN <<>> ELSE best IN
  /\ t \notin DOMAIN seen
  /\ best' = [u \in DOMAIN seen \cup {t} |->
                IF u \in DOMAIN seen THEN seen[u]
                ELSE IF RowsOf(t) = {} THEN [drop |-> {}, take |-> {}]
                ELSE [drop |-> AdoptedOf(t) \ {Highest(t)},
                      take |-> {Highest(t)} \ AdoptedOf(t)]]
  /\ UNCHANGED <<rows, jobs, disk, faults, crashes, now>>

WriteBest ==
  /\ best # None /\ DOMAIN best = Teams
  /\ rows' = [i \in DOMAIN rows |->
                LET b == best[rows[i].team] IN
                [rows[i] EXCEPT !.adopted = i \in b.take \/ (@ /\ i \notin b.drop)]]
  /\ best' = None
  /\ UNCHANGED <<jobs, disk, faults, crashes, now>>

---------------------------------------------------------------------------
(* The jobs. *)

\* create_task saves before it keeps the job: a job that could not be saved is
\* not started.
Start(j) ==
  /\ best = None
  /\ jobs[j] = None /\ disk[j] = None
  /\ \E p \in BOOLEAN : Keep(j, Fresh(p)) /\ Saved(j, Fresh(p))
  /\ UNCHANGED <<rows, best, crashes, now>>

\* Mutant of Begin: the first update stands before the try.
BeginUncaught(j) ==
  LET job == [jobs[j] EXCEPT !.status = "running"] IN
  /\ Live(j) /\ job.thread = "begin"
  /\ \/ LET on == [job EXCEPT !.thread = "score", !.waiting = Teams]
        IN  Keep(j, on) /\ Saved(j, on)
     \/ Keep(j, [job EXCEPT !.thread = "ended"]) /\ Unsaved(j, 1)
  /\ UNCHANGED <<rows, best, crashes, now>>

\* The status is set in memory, then saved; a failing save ends in fail_task.
Begin(j) ==
  LET job == [jobs[j] EXCEPT !.status = "running"] IN
  /\ Live(j) /\ job.thread = "begin"
  /\ \/ LET on == [job EXCEPT !.thread = "score", !.waiting = Teams]
        IN  Keep(j, on) /\ Saved(j, on)
     \/ Keep(j, [job EXCEPT !.thread = "leave"]) /\ Unsaved(j, 1)
  /\ UNCHANGED <<rows, best, crashes, now>>

\* A worker's call of the scorer.  is_completed is set before the row is
\* written: a commit that fails is a completed result without a row.  The
\* sequential job counts a result before it goes to the next team; the pool is
\* left only when every worker has returned.
Score(j, t) ==
  LET job == jobs[j]
      Return(ok) == Keep(j, [job EXCEPT !.waiting = @ \ {t},
                                        !.results = @ \cup {[team |-> t, ok |-> ok]}])
  IN
  /\ Live(j) /\ t \in job.waiting
  /\ job.parallel \/ (job.thread = "score" /\ job.results = {})
  /\ \/ /\ \E n \in Totals : rows' = WithScore(t, n, j)
        /\ Return(TRUE) /\ UNCHANGED faults
     \/ Return(FALSE) /\ UNCHANGED <<rows, faults>>
     \/ /\ faults < MaxFaults /\ faults' = faults + 1
        /\ Return(TRUE) /\ UNCHANGED rows
  /\ UNCHANGED <<disk, best, crashes, now>>

\* increment_success or increment_failed changes the counters, then saves.  A
\* save that fails is caught and counted as a failure of the team; when that
\* save fails too, the loop is left.
Count(j) ==
  \E r \in jobs[j].results :
    LET counted == [jobs[j] EXCEPT !.results = @ \ {r},
                                   !.success = IF r.ok THEN @ \cup {r.team} ELSE @,
                                   !.failed  = IF r.ok THEN @ ELSE @ \cup {r.team}]
        twice   == [counted EXCEPT !.failed = @ \cup {r.team}]
    IN
    /\ \/ Keep(j, counted) /\ Saved(j, counted)
       \/ /\ faults < MaxFaults /\ faults' = faults + 1
          /\ Keep(j, twice) /\ disk' = [disk EXCEPT ![j] = File(twice)]
       \/ Keep(j, [twice EXCEPT !.thread = "leave"]) /\ Unsaved(j, 2)

CountResult(j) ==
  /\ Live(j) /\ jobs[j].thread = "score"
  /\ Count(j)
  /\ UNCHANGED <<rows, best, crashes, now>>

\* Mutant of AllCounted: the pool is not asked for what is still running.
AllStarted(job) == job.results = {}

AllCounted(job) == job.waiting = {} /\ job.results = {}

Complete(j) ==
  LET done == [jobs[j] EXCEPT !.status = "completed"] IN
  /\ Live(j) /\ done.thread = "score" /\ AllCounted(done)
  /\ \/ LET end == [done EXCEPT !.thread = "ended"] IN Keep(j, end) /\ Saved(j, end)
     \/ Keep(j, [done EXCEPT !.thread = "leave"]) /\ Unsaved(j, 1)
  /\ UNCHANGED <<rows, best, crashes, now>>

\* fail_task, after the workers of the pool have returned.
FailTask(j) ==
  LET end == [jobs[j] EXCEPT !.status = "failed", !.thread = "ended"] IN
  /\ Live(j) /\ jobs[j].thread = "leave"
  /\ jobs[j].parallel => jobs[j].waiting = {}
  /\ Keep(j, end)
  /\ Saved(j, end) \/ Unsaved(j, 1)
  /\ UNCHANGED <<rows, best, crashes, now>>

\* The process ends, a save of a running job perhaps in its middle; a job is
\* then what its file says, and a file cut short is no job at all.
Crash ==
  /\ crashes < MaxCrashes /\ crashes' = crashes + 1
  /\ \E cut \in SUBSET {j \in Jobs : Live(j)} :
       /\ disk' = [j \in Jobs |-> IF j \in cut THEN Torn ELSE disk[j]]
       /\ jobs' = [j \in Jobs |->
                     IF disk'[j] \in {None, Torn} THEN None
                     ELSE [Fresh(FALSE) EXCEPT !.thread = "dead", !.status = disk[j].status,
                                               !.success = disk[j].success,
                                               !.failed = disk[j].failed]]
  /\ best' = None
  /\ UNCHANGED <<rows, faults, now>>

Thread(j) ==
  \/ Begin(j)
  \/ \E t \in Teams : Score(j, t)
  \/ CountResult(j)
  \/ Complete(j)
  \/ FailTask(j)

Next ==
  \/ \E t \in Teams : ScoreNow(t) \/ ReadBest(t)
  \/ \E t \in Teams, i \in DOMAIN rows : Adopt(t, i)
  \/ WriteBest
  \/ \E j \in Jobs : Start(j) \/ Thread(j)
  \/ Crash

\* A started thread and its workers are run by the interpreter, and every call
\* a worker makes has a timeout.
Spec == Init /\ [][Next]_vars /\ \A j \in Jobs : WF_vars(Thread(j))

---------------------------------------------------------------------------
(* What the pages show. *)

Latest(S) == CHOOSE i \in S : \A k \in S : k <= i
First(S)  == CHOOSE i \in S : \A k \in S : i <= k

\* The page of a team, the list of teams, the calculation of all final scores
\* and the two-track calculation each choose the row themselves.
Shown(t)  == Latest(IF AdoptedOf(t) = {} THEN RowsOf(t) ELSE AdoptedOf(t))
Listed(t) == IF AdoptedOf(t) = {} THEN Latest(RowsOf(t)) ELSE First(AdoptedOf(t))
Used(t)   == IF AdoptedOf(t) = {} THEN Highest(t) ELSE First(AdoptedOf(t))

\* The rows a job's results page lists.
StoredBy(j) == {i \in DOMAIN rows : rows[i].session = j}

\* Every page takes an adopted row of a team that has a row: none of them has
\* to choose for itself, which each would do in its own way, whatever is
\* scored, adopted one by one or adopted as the best at the same time.
ReadersTakeAdopted ==
  \A t \in Teams : RowsOf(t) # {} => {Shown(t), Listed(t), Used(t)} \subseteq AdoptedOf(t)

\* A team has one adopted row.  The column is the final choice, and save_score
\* takes the earlier ones back; but what adopt_best_score has read may be old
\* when it writes.
OneAdopted == \A t \in Teams : Cardinality(AdoptedOf(t)) <= 1

\* A job that is told to be completed has counted every team, and every row it
\* left in the table is of a team it counts as scored.
CompletedCounts ==
  \A j \in Jobs : jobs[j] # None /\ jobs[j].status = "completed" =>
    /\ jobs[j].success \cup jobs[j].failed = Teams
    /\ {rows[i].team : i \in StoredBy(j)} \subseteq jobs[j].success

\* A job that was started ends, whichever saves and scores fail, unless the
\* process ends first.
JobsEnd ==
  \A j \in Jobs : Live(j) ~>
    (crashes > 0 \/ (jobs[j] # None /\ jobs[j].status \in {"completed", "failed"}
                                    /\ jobs[j].thread = "ended"))
=============================================================================
