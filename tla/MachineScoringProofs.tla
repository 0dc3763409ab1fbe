------------------------ MODULE MachineScoringProofs ------------------------
(***************************************************************************)
(* Proofs about MachineScoring, for any teams, jobs, totals and tables of  *)
(* earlier processes, and any number of scores, failures and crashes: the  *)
(* page of a team finds an adopted row, and a job that is told to be       *)
(* completed has counted every team and every row it stored.               *)
(***************************************************************************)
EXTENDS MachineScoring, FiniteSetTheorems, TLAPS

\* A row of the table, and what the manager holds of a job.
Rows == [team : Teams, total : Nat, adopted : BOOLEAN, session : Jobs \cup {None}]

Entries == [status : Statuses, success : SUBSET Teams, failed : SUBSET Teams,
            thread : {"begin", "score", "leave", "ended", "dead"}, parallel : BOOLEAN,
            waiting : SUBSET Teams, results : SUBSET [team : Teams, ok : BOOLEAN]]

Plans == [drop : SUBSET Nat, take : SUBSET Nat]

TypeOK ==
  /\ rows \in Seq(Rows)
  /\ jobs \in [Jobs -> Entries \cup {None}]
  /\ disk \in [Jobs -> Files \cup {None, Torn}]
  /\ best = None \/ \E T \in SUBSET Teams : best \in [T -> Plans]
  /\ faults \in Nat /\ crashes \in Nat /\ now \in Nat

\* A team that has a row has an adopted one.
HasAdopted == \A t \in Teams : RowsOf(t) # {} => AdoptedOf(t) # {}

\* What adopt_best_score is about to write leaves the team an adopted row, also
\* when a job has stored rows since it read: it takes one, or one stays that it
\* does not drop.
Keeps(t) ==
  /\ best[t].take \subseteq RowsOf(t)
  /\ best[t].drop \subseteq DOMAIN rows
  /\ RowsOf(t) # {} => best[t].take # {} \/ AdoptedOf(t) \ best[t].drop # {}

Planned == best # None => \A t \in DOMAIN best : Keeps(t)

\* The teams of a job's rows; those of its results that are scores.
StoredTeams(j) == {rows[i].team : i \in StoredBy(j)}
Ok(job) == {r.team : r \in {x \in job.results : x.ok}}

\* What a job or its file says accounts for every team and every row of the job.
Whole(j, file) ==
  file.success \cup file.failed = Teams /\ StoredTeams(j) \subseteq file.success

\* Without a file there was no job; a file that tells of completion is about a
\* job that has come to its end.
FileTells(j) ==
  /\ disk[j] = None => StoredBy(j) = {} /\ jobs[j] = None
  /\ disk[j] \in Files /\ disk[j].status = "completed" => ~Live(j) /\ Whole(j, disk[j])

\* The rows of a thread that has not been cut off are counted or among its
\* results; while it scores, every team waits, has a result or is counted.
Counted(j) ==
  jobs[j] # None =>
    LET job == jobs[j] IN
    /\ job.thread # "dead" => StoredTeams(j) \subseteq job.success \cup Ok(job)
    /\ job.thread = "begin" => job.status # "completed"
    /\ job.thread = "score" =>
         /\ job.status # "completed"
         /\ Teams \subseteq job.waiting \cup {r.team : r \in job.results} \cup job.success \cup job.failed
    /\ job.status = "completed" => job.waiting = {} /\ job.results = {} /\ Whole(j, job)

\* The inductive invariant.
IInv ==
  /\ TypeOK
  /\ HasAdopted
  /\ Planned
  /\ \A j \in Jobs : FileTells(j) /\ Counted(j)

---------------------------------------------------------------------------
(* Least and greatest numbers.                                              *)

\* A set of natural numbers has a least one.
LEMMA Least ==
  ASSUME NEW S \in SUBSET Nat, S # {}
  PROVE  \E i \in S : \A k \in S : i <= k
<1> DEFINE T == {0 .. m : m \in S}
<1>1. T \subseteq FiniteSubsetsOf(Nat)
  <2> SUFFICES ASSUME NEW m \in S PROVE 0 .. m \in FiniteSubsetsOf(Nat)
    OBVIOUS
  <2>1. IsFiniteSet(0 .. m)
    BY FS_Interval
  <2> QED  BY <2>1 DEF FiniteSubsetsOf
<1>2. T # {}
  OBVIOUS
<1> DEFINE R == StrictSubsetOrdering(Nat)
<1>3. IsWellFoundedOn(R, FiniteSubsetsOf(Nat))
  BY FS_StrictSubsetOrderingWellFounded
<1>4. PICK x \in T : \A y \in T : ~ (<<y, x>> \in R)
  <2> HIDE DEF T, R
  <2> QED  BY <1>1, <1>2, <1>3, WFMin
<1>5. PICK i \in S : x = 0 .. i
  OBVIOUS
<1> SUFFICES ASSUME NEW k \in S, k < i PROVE FALSE
  OBVIOUS
<1>6. 0 .. k \in T /\ 0 .. k \subseteq 0 .. i /\ 0 .. k # 0 .. i
  OBVIOUS
<1>7. 0 .. k \in SUBSET Nat /\ 0 .. i \in SUBSET Nat
  OBVIOUS
<1>8. <<0 .. k, 0 .. i>> \in R
  BY <1>6, <1>7 DEF StrictSubsetOrdering
<1> QED  BY <1>4, <1>5, <1>6, <1>8

\* A bounded set of natural numbers has a greatest one.
LEMMA Greatest ==
  ASSUME NEW S \in SUBSET Nat, S # {}, NEW n \in Nat, \A k \in S : k <= n
  PROVE  \E i \in S : \A k \in S : k <= i
<1> DEFINE D == {n - k : k \in S}
<1>1. D \in SUBSET Nat /\ D # {}
  <2>1. ASSUME NEW k \in S PROVE n - k \in Nat
    <3>1. k \in Nat /\ k <= n
      OBVIOUS
    <3> QED  BY <3>1
  <2> QED  BY <2>1
<1>2. PICK d \in D : \A e \in D : d <= e
  <2> HIDE DEF D
  <2> QED  BY <1>1, Least
<1>3. PICK i \in S : d = n - i
  OBVIOUS
<1>4. ASSUME NEW k \in S PROVE k <= i
  <2>1. n - k \in D
    OBVIOUS
  <2> QED  BY <2>1, <1>2, <1>3
<1> QED  BY <1>4

\* Finitely many natural numbers have a bound.
LEMMA Bounded ==
  ASSUME NEW n \in Nat, NEW f \in [1 .. n -> Nat]
  PROVE  \E b \in Nat : \A i \in 1 .. n : f[i] <= b
<1> DEFINE Below(m) == \E b \in Nat : \A i \in 1 .. m : f[i] <= b
           Bad == {m \in 0 .. n : ~ Below(m)}
<1>1. Bad = {}
  <2> SUFFICES ASSUME Bad # {} PROVE FALSE
    OBVIOUS
  <2>1. Bad \in SUBSET Nat
    OBVIOUS
  <2>2. PICK m \in Bad : \A k \in Bad : m <= k
    <3> HIDE DEF Bad
    <3> QED  BY <2>1, Least
  <2>3. m \in 0 .. n /\ ~ Below(m)
    OBVIOUS
  <2>4. Below(0)
    <3>1. \A i \in 1 .. 0 : f[i] <= 0
      OBVIOUS
    <3> QED  BY <3>1
  <2>5. m \in Nat /\ m - 1 \in 0 .. n /\ m \in 1 .. n
    <3> HIDE DEF Below
    <3>1. m # 0
      BY <2>3, <2>4
    <3> QED  BY <2>3, <3>1
  <2>6. Below(m - 1)
    <3> HIDE DEF Below
    <3>1. m - 1 \notin Bad
      <4> HIDE DEF Bad
      <4> QED  BY <2>2, <2>5
    <3> QED  BY <3>1, <2>5
  <2> HIDE DEF Bad
  <2>7. PICK b \in Nat : \A i \in 1 .. (m - 1) : f[i] <= b
    BY <2>6
  <2>8. CASE f[m] <= b
    <3>1. \A i \in 1 .. m : f[i] <= b
      <4> SUFFICES ASSUME NEW i \in 1 .. m PROVE f[i] <= b
        OBVIOUS
      <4>1. i \in 1 .. (m - 1) \/ i = m
        BY <2>5
      <4> QED  BY <4>1, <2>7, <2>8
    <3> QED  BY <3>1, <2>3
  <2>9. CASE f[m] > b
    <3>1. f[m] \in Nat /\ \A i \in 1 .. m : f[i] <= f[m]
      <4>1. f[m] \in Nat
        BY <2>5
      <4>2. ASSUME NEW i \in 1 .. m PROVE f[i] <= f[m]
        <5>1. i \in 1 .. n /\ i \in Nat
          BY <2>3
        <5>2. f[i] \in Nat
          BY <5>1
        <5> QED  BY <4>1, <5>1, <5>2, <2>5, <2>7, <2>9
      <4> QED  BY <4>1, <4>2
    <3> QED  BY <3>1, <2>3
  <2>10. f[m] \in Nat
    BY <2>5
  <2> QED  BY <2>8, <2>9, <2>10
<1>2. n \in 0 .. n
  OBVIOUS
<1> QED  BY <1>1, <1>2

---------------------------------------------------------------------------
(* The rows that are chosen.                                                *)

\* The newest and the oldest of some rows are among them.
LEMMA ChosenIn ==
  ASSUME NEW n \in Nat, NEW S \in SUBSET (1 .. n), S # {}
  PROVE  Latest(S) \in S /\ First(S) \in S
<1>1. \E i \in S : \A k \in S : k <= i
  <2>1. S \in SUBSET Nat /\ \A k \in S : k <= n
    OBVIOUS
  <2> QED  BY <2>1, Greatest
<1>2. \E i \in S : \A k \in S : i <= k
  BY Least
<1> QED  BY <1>1, <1>2 DEF Latest, First

\* The row adopt_best_score takes is one of the team.
LEMMA HighestIn ==
  ASSUME TypeOK, NEW t, RowsOf(t) # {}
  PROVE  Highest(t) \in RowsOf(t)
<1> DEFINE R == RowsOf(t)
           n == Len(rows)
           total == [i \in 1 .. n |-> rows[i].total]
           best_ == {total[i] : i \in R}
<1>1. n \in Nat /\ R \in SUBSET (1 .. n) /\ R # {}
  BY DEF TypeOK, RowsOf
<1>2. total \in [1 .. n -> Nat]
  <2>1. \A i \in 1 .. Len(rows) : rows[i] \in Rows
    BY DEF TypeOK
  <2>2. \A i \in 1 .. Len(rows) : rows[i].total \in Nat
    BY <2>1 DEF Rows
  <2> QED  BY <2>2
<1>3. PICK b \in Nat : \A i \in 1 .. n : total[i] <= b
  <2>1. n \in Nat
    BY <1>1
  <2> HIDE DEF total, n
  <2> QED  BY <2>1, <1>2, Bounded
<1>4. best_ \in SUBSET Nat /\ best_ # {} /\ \A k \in best_ : k <= b
  <2> HIDE DEF total, n, R
  <2>1. \A i \in R : i \in 1 .. n
    BY <1>1
  <2>2. \A i \in R : total[i] \in Nat /\ total[i] <= b
    BY <2>1, <1>2, <1>3
  <2> QED  BY <1>1, <2>2
<1>5. PICK m \in best_ : \A k \in best_ : k <= m
  <2> HIDE DEF best_
  <2> QED  BY <1>4, Greatest
<1> DEFINE top == {i \in R : total[i] = m}
<1>6. top \in SUBSET Nat /\ top # {}
  BY <1>1, <1>5
<1>7. PICK i \in top : \A k \in top : i <= k
  <2> HIDE DEF top
  <2> QED  BY <1>6, Least
<1>8. i \in RowsOf(t) /\ \A k \in RowsOf(t) : total[k] < total[i] \/ (total[k] = total[i] /\ i <= k)
  <2>1. i \in R /\ total[i] = m
    OBVIOUS
  <2>2. ASSUME NEW k \in R
        PROVE  total[k] < total[i] \/ (total[k] = total[i] /\ i <= k)
    <3>1. total[k] \in best_ /\ total[k] \in Nat /\ m \in Nat
      BY <1>1, <1>2, <1>4
    <3>2. total[k] <= m
      BY <3>1, <1>5
    <3>3. CASE total[k] = m
      <4>1. k \in top
        BY <3>3
      <4> HIDE DEF top
      <4> QED  BY <4>1, <1>7, <2>1, <3>3
    <3> HIDE DEF total
    <3> QED  BY <2>1, <3>1, <3>2, <3>3
  <2> QED  BY <2>1, <2>2
<1>9. \A k \in RowsOf(t) : total[k] = rows[k].total
  BY <1>1
<1> HIDE DEF total
<1> QED  BY <1>8, <1>9 DEF Highest

---------------------------------------------------------------------------
(* Changes of the table.                                                    *)

\* Storing a score adds one row, adopted, and otherwise only touches whether the
\* team's rows are adopted (save_score).
LEMMA RowAdded ==
  ASSUME TypeOK, NEW t \in Teams, NEW n \in Totals, NEW s \in Jobs \cup {None},
         rows' = WithScore(t, n, s)
  PROVE  /\ rows' \in Seq(Rows)
         /\ Len(rows) + 1 \notin DOMAIN rows
         /\ DOMAIN rows' = DOMAIN rows \cup {Len(rows) + 1}
         /\ rows'[Len(rows) + 1] = MachineScore(t, n, TRUE, s)
         /\ \A i \in DOMAIN rows :
              /\ rows'[i].team = rows[i].team /\ rows'[i].session = rows[i].session
              /\ rows[i].team # t => rows'[i].adopted = rows[i].adopted
<1> DEFINE old == [i \in DOMAIN rows |->
                     IF rows[i].team = t THEN [rows[i] EXCEPT !.adopted = FALSE] ELSE rows[i]]
           new == MachineScore(t, n, TRUE, s)
<1>1. /\ \A i \in DOMAIN rows : rows[i] \in Rows
      /\ Len(rows) \in Nat /\ DOMAIN rows = 1 .. Len(rows)
  BY DEF TypeOK
<1>2. ASSUME NEW i \in DOMAIN rows
      PROVE  /\ old[i] \in Rows
             /\ old[i].team = rows[i].team /\ old[i].session = rows[i].session
             /\ rows[i].team # t => old[i].adopted = rows[i].adopted
  BY <1>1 DEF Rows
<1>3. old \in Seq(Rows) /\ Len(old) = Len(rows)
  <2>1. DOMAIN old = 1 .. Len(rows)
    BY <1>1
  <2> HIDE DEF old
  <2> DEFINE len == Len(rows)
  <2>2. old = [i \in 1 .. len |-> old[i]]
    BY <2>1, <1>2 DEF old
  <2>3. \A i \in 1 .. len : old[i] \in Rows
    BY <1>1, <1>2
  <2>4. len \in Nat
    BY <1>1
  <2> HIDE DEF len
  <2> QED  BY <2>2, <2>3, <2>4 DEF len
<1>4. new \in Rows
  BY MachineScoringAssumption DEF Rows, MachineScore
<1>5. rows' = Append(old, new)
  BY DEF WithScore
<1> HIDE DEF old, new
<1>6. /\ rows' \in Seq(Rows) /\ Len(rows') = Len(rows) + 1
      /\ rows'[Len(rows) + 1] = new
      /\ \A i \in 1 .. Len(rows) : rows'[i] = old[i]
  BY <1>1, <1>3, <1>4, <1>5
<1> QED  BY <1>1, <1>2, <1>6 DEF new

\* What a stored score does to the rows of the teams and of the jobs.
LEMMA RowsAfterScore ==
  ASSUME TypeOK, NEW t \in Teams, NEW n \in Totals, NEW s \in Jobs \cup {None},
         rows' = WithScore(t, n, s)
  PROVE  /\ \A u \in Teams : RowsOf(u) \subseteq RowsOf(u)'
         /\ Len(rows) + 1 \in AdoptedOf(t)'
         /\ \A u \in Teams \ {t} : RowsOf(u)' = RowsOf(u) /\ AdoptedOf(u)' = AdoptedOf(u)
         /\ \A j \in Jobs \ {s} : StoredBy(j)' = StoredBy(j) /\ StoredTeams(j)' = StoredTeams(j)
         /\ s \in Jobs => StoredTeams(s)' = StoredTeams(s) \cup {t}
<1>1. /\ Len(rows) + 1 \notin DOMAIN rows
      /\ DOMAIN rows' = DOMAIN rows \cup {Len(rows) + 1}
      /\ rows'[Len(rows) + 1].team = t /\ rows'[Len(rows) + 1].adopted = TRUE
      /\ rows'[Len(rows) + 1].session = s
      /\ \A i \in DOMAIN rows :
           /\ rows'[i].team = rows[i].team /\ rows'[i].session = rows[i].session
           /\ rows[i].team # t => rows'[i].adopted = rows[i].adopted
  <2>1. rows'[Len(rows) + 1] = MachineScore(t, n, TRUE, s)
    BY RowAdded
  <2>2. /\ rows'[Len(rows) + 1].team = t /\ rows'[Len(rows) + 1].adopted = TRUE
        /\ rows'[Len(rows) + 1].session = s
    BY <2>1 DEF MachineScore
  <2> QED  BY <2>2, RowAdded
<1>2. \A u \in Teams : RowsOf(u) \subseteq RowsOf(u)'
  BY <1>1 DEF RowsOf
<1>3. Len(rows) + 1 \in AdoptedOf(t)'
  <2> DEFINE i == Len(rows) + 1
  <2>1. i \in DOMAIN rows' /\ rows'[i].team = t /\ rows'[i].adopted
    BY <1>1, Zenon
  <2> HIDE DEF i
  <2>2. i \in RowsOf(t)'
    BY <2>1 DEF RowsOf
  <2>3. i \in AdoptedOf(t)'
    BY <2>1, <2>2, Zenon DEF AdoptedOf
  <2> QED  BY <2>3 DEF i
<1>4. \A u \in Teams \ {t} : RowsOf(u)' = RowsOf(u) /\ AdoptedOf(u)' = AdoptedOf(u)
  BY <1>1 DEF RowsOf, AdoptedOf
<1>5. ASSUME NEW j \in Jobs \ {s}
      PROVE  StoredBy(j)' = StoredBy(j) /\ StoredTeams(j)' = StoredTeams(j)
  <2>1. StoredBy(j)' = StoredBy(j)
    BY <1>1 DEF StoredBy
  <2>2. \A i \in StoredBy(j) : rows'[i].team = rows[i].team
    BY <1>1 DEF StoredBy
  <2> QED  BY <2>1, <2>2 DEF StoredTeams
<1>6. s \in Jobs => StoredTeams(s)' = StoredTeams(s) \cup {t}
  <2> SUFFICES ASSUME s \in Jobs PROVE StoredTeams(s)' = StoredTeams(s) \cup {t}
    OBVIOUS
  <2>1. StoredBy(s)' = StoredBy(s) \cup {Len(rows) + 1}
    BY <1>1 DEF StoredBy
  <2>2. \A i \in StoredBy(s) : rows'[i].team = rows[i].team
    BY <1>1 DEF StoredBy
  <2> QED  BY <2>1, <2>2, <1>1 DEF StoredTeams
<1> QED  BY <1>2, <1>3, <1>4, <1>5, <1>6

\* After a score every team with a row has an adopted one.
LEMMA ScoreAdopts ==
  ASSUME TypeOK, HasAdopted, NEW t \in Teams, NEW n \in Totals, NEW s \in Jobs \cup {None},
         rows' = WithScore(t, n, s)
  PROVE  HasAdopted'
<1> SUFFICES ASSUME NEW u \in Teams, RowsOf(u)' # {} PROVE AdoptedOf(u)' # {}
  BY DEF HasAdopted
<1>1. CASE u = t
  BY <1>1, RowsAfterScore
<1>2. CASE u # t
  BY <1>2, RowsAfterScore DEF HasAdopted
<1> QED  BY <1>1, <1>2

\* A score does not make what adopt_best_score has read dangerous: the new row is
\* adopted and not among those it will drop.
LEMMA ScoreKeepsPlan ==
  ASSUME TypeOK, Planned, NEW t \in Teams, NEW n \in Totals, NEW s \in Jobs \cup {None},
         rows' = WithScore(t, n, s), best' = best
  PROVE  Planned'
<1> SUFFICES ASSUME best # None, NEW u \in DOMAIN best PROVE Keeps(u)'
  BY DEF Planned
<1>1. u \in Teams /\ Keeps(u)
  BY DEF TypeOK, Planned
<1>2. /\ best[u].take \subseteq RowsOf(u)'
      /\ best[u].drop \subseteq DOMAIN rows'
      /\ Len(rows) + 1 \notin best[u].drop
  BY <1>1, RowAdded, RowsAfterScore DEF Keeps
<1>3. CASE u = t
  BY <1>2, <1>3, RowsAfterScore DEF Keeps
<1>4. CASE u # t
  BY <1>1, <1>2, <1>4, RowsAfterScore DEF Keeps
<1> QED  BY <1>3, <1>4

\* Adopting rows leaves them whose they are.
LEMMA SameRows ==
  ASSUME TypeOK, NEW a \in [DOMAIN rows -> BOOLEAN],
         rows' = [i \in DOMAIN rows |-> [rows[i] EXCEPT !.adopted = a[i]]]
  PROVE  /\ rows' \in Seq(Rows)
         /\ \A t : RowsOf(t)' = RowsOf(t)
         /\ \A t : AdoptedOf(t)' = {i \in RowsOf(t) : a[i]}
         /\ \A j : StoredBy(j)' = StoredBy(j) /\ StoredTeams(j)' = StoredTeams(j)
<1>1. /\ \A i \in DOMAIN rows : rows[i] \in Rows
      /\ Len(rows) \in Nat /\ DOMAIN rows = 1 .. Len(rows)
  BY DEF TypeOK
<1>2. ASSUME NEW i \in DOMAIN rows
      PROVE  /\ rows'[i] \in Rows /\ rows'[i].adopted = a[i]
             /\ rows'[i].team = rows[i].team /\ rows'[i].session = rows[i].session
  BY <1>1 DEF Rows
<1>3. rows' \in Seq(Rows)
  <2> DEFINE len == Len(rows)
  <2>1. DOMAIN rows' = 1 .. len
    BY <1>1
  <2>2. rows' = [i \in 1 .. len |-> rows'[i]]
    BY <2>1
  <2>3. \A i \in 1 .. len : rows'[i] \in Rows
    BY <1>1, <1>2
  <2>4. len \in Nat
    BY <1>1
  <2> HIDE DEF len
  <2> QED  BY <2>2, <2>3, <2>4
<1>4. DOMAIN rows' = DOMAIN rows
  OBVIOUS
<1>5. \A t : RowsOf(t)' = RowsOf(t)
  BY <1>2, <1>4 DEF RowsOf
<1>6. \A t : AdoptedOf(t)' = {i \in RowsOf(t) : a[i]}
  BY <1>2, <1>4 DEF RowsOf, AdoptedOf
<1>7. ASSUME NEW j
      PROVE  StoredBy(j)' = StoredBy(j) /\ StoredTeams(j)' = StoredTeams(j)
  <2>1. StoredBy(j)' = StoredBy(j)
    BY <1>2, <1>4 DEF StoredBy
  <2>2. \A i \in StoredBy(j) : rows'[i].team = rows[i].team
    BY <1>2 DEF StoredBy
  <2> QED  BY <2>1, <2>2 DEF StoredTeams
<1> QED  BY <1>3, <1>5, <1>6, <1>7

\* The table stays as it is.
LEMMA RowsStay ==
  ASSUME rows' = rows
  PROVE  /\ \A t : RowsOf(t)' = RowsOf(t) /\ AdoptedOf(t)' = AdoptedOf(t)
         /\ \A j : StoredBy(j)' = StoredBy(j) /\ StoredTeams(j)' = StoredTeams(j)
BY DEF RowsOf, AdoptedOf, StoredBy, StoredTeams

\* What is known of a job whose entry, file and rows stay.
LEMMA JobStays ==
  ASSUME NEW j \in Jobs, FileTells(j), Counted(j),
         jobs'[j] = jobs[j], disk'[j] = disk[j],
         StoredBy(j)' = StoredBy(j), StoredTeams(j)' = StoredTeams(j)
  PROVE  FileTells(j)' /\ Counted(j)'
<1>1. Live(j)' = Live(j)
  BY DEF Live
<1>2. FileTells(j)'
  BY <1>1 DEF FileTells, Whole
<1>3. Counted(j)'
  BY DEF Counted, Whole, Ok
<1> QED  BY <1>2, <1>3

---------------------------------------------------------------------------
(* Jobs and their files.                                                    *)

\* A save that succeeds tells of completion only at the end.
LEMMA SavedTells ==
  ASSUME NEW j \in Jobs, NEW e \in Entries, disk'[j] = File(e), jobs'[j] = e,
         e.status = "completed" => e.thread = "ended" /\ Whole(j, e)',
         StoredTeams(j)' = StoredTeams(j)
  PROVE  FileTells(j)'
<1>1. /\ File(e).status = e.status /\ File(e).success = e.success
      /\ File(e).failed = e.failed /\ File(e) \in Files
  BY DEF File, Files, Entries
<1>2. disk'[j] # None
  BY <1>1, SentinelAssumption
<1>3. ASSUME disk'[j].status = "completed"
      PROVE  ~ Live(j)' /\ Whole(j, disk[j])'
  <2>1. e.thread = "ended" /\ Whole(j, e)'
    BY <1>1, <1>3
  <2>2. ~ Live(j)'
    BY <2>1 DEF Live
  <2>3. Whole(j, disk[j])'
    BY <2>1, <1>1 DEF Whole
  <2> QED  BY <2>2, <2>3
<1> QED  BY <1>2, <1>3 DEF FileTells

\* A save that fails leaves the old file or one cut short: it tells nothing new.
LEMMA UnsavedTells ==
  ASSUME NEW j \in Jobs, FileTells(j), Live(j), disk'[j] \in {disk[j], Torn}
  PROVE  FileTells(j)'
<1>1. jobs[j] # None
  BY DEF Live
<1>2. disk'[j] # None
  BY <1>1, SentinelAssumption DEF FileTells
<1>3. ~ (disk'[j] \in Files /\ disk'[j].status = "completed")
  BY SentinelAssumption DEF FileTells
<1> QED  BY <1>2, <1>3 DEF FileTells

\* What a step of one job leaves alone when it stores no row.
LEMMA OthersStay ==
  ASSUME IInv, NEW j \in Jobs, rows' = rows, best' = best,
         \A k \in Jobs \ {j} : jobs'[k] = jobs[k] /\ disk'[k] = disk[k]
  PROVE  /\ HasAdopted' /\ Planned'
         /\ \A k \in Jobs \ {j} : FileTells(k)' /\ Counted(k)'
         /\ StoredBy(j)' = StoredBy(j) /\ StoredTeams(j)' = StoredTeams(j)
<1>1. HasAdopted'
  BY RowsStay DEF IInv, HasAdopted
<1>2. Planned'
  BY RowsStay DEF IInv, Planned, Keeps
<1>3. \A k \in Jobs \ {j} : FileTells(k)' /\ Counted(k)'
  BY RowsStay, JobStays DEF IInv
<1> QED  BY <1>1, <1>2, <1>3, RowsStay

---------------------------------------------------------------------------
(* The initial states.                                                      *)

LEMMA InitInv == Init => IInv
<1> SUFFICES ASSUME Init PROVE IInv
  OBVIOUS
<1>1. /\ rows \in Seq([team : Teams, total : Nat, adopted : BOOLEAN, session : {None}])
      /\ \A i \in DOMAIN rows :
           \E k \in DOMAIN rows : rows[k].team = rows[i].team /\ rows[k].adopted
  BY EarlierAssumption DEF Init
<1>2. /\ Len(rows) \in Nat /\ DOMAIN rows = 1 .. Len(rows)
      /\ \A i \in DOMAIN rows :
           rows[i] \in [team : Teams, total : Nat, adopted : BOOLEAN, session : {None}]
  <2> DEFINE old == [team : Teams, total : Nat, adopted : BOOLEAN, session : {None}]
  <2>1. rows \in Seq(old)
    BY <1>1
  <2> HIDE DEF old
  <2>2. Len(rows) \in Nat /\ DOMAIN rows = 1 .. Len(rows) /\ \A i \in DOMAIN rows : rows[i] \in old
    BY <2>1
  <2> QED  BY <2>2 DEF old
<1>3. TypeOK
  <2>1. rows \in Seq(Rows)
    <3> DEFINE len == Len(rows)
    <3>1. rows = [i \in 1 .. len |-> rows[i]]
      BY <1>1
    <3>2. \A i \in 1 .. len : rows[i] \in Rows
      BY <1>2 DEF Rows
    <3>3. len \in Nat
      BY <1>2
    <3> HIDE DEF len
    <3> QED  BY <3>1, <3>2, <3>3
  <2> QED  BY <2>1 DEF Init, TypeOK
<1>4. HasAdopted
  BY <1>1 DEF HasAdopted, RowsOf, AdoptedOf
<1>5. Planned
  BY DEF Init, Planned
<1>6. ASSUME NEW j \in Jobs PROVE FileTells(j) /\ Counted(j)
  <2>1. StoredBy(j) = {}
    BY <1>2, SentinelAssumption DEF StoredBy
  <2>2. jobs[j] = None /\ disk[j] = None
    BY DEF Init
  <2> QED  BY <2>1, <2>2, SentinelAssumption DEF FileTells, Counted
<1> QED  BY <1>3, <1>4, <1>5, <1>6 DEF IInv

---------------------------------------------------------------------------
(* The handlers.                                                            *)

LEMMA ScoreNowInv ==
  ASSUME IInv, NEW t \in Teams, ScoreNow(t)
  PROVE  IInv'
<1>1. PICK n \in Totals : rows' = WithScore(t, n, None)
  BY DEF ScoreNow
<1>2. best = None /\ best' = best /\ jobs' = jobs /\ disk' = disk
  BY DEF ScoreNow
<1>3. TypeOK'
  <2>1. rows' \in Seq(Rows)
    BY <1>1, RowAdded DEF IInv
  <2> QED  BY <2>1 DEF IInv, TypeOK, ScoreNow
<1>4. HasAdopted'
  BY <1>1, ScoreAdopts DEF IInv
<1>5. Planned'
  BY <1>2 DEF Planned
<1>6. \A j \in Jobs : FileTells(j)' /\ Counted(j)'
  BY <1>1, <1>2, RowsAfterScore, JobStays, SentinelAssumption DEF IInv
<1> QED  BY <1>3, <1>4, <1>5, <1>6 DEF IInv

LEMMA AdoptInv ==
  ASSUME IInv, NEW t \in Teams, NEW i \in DOMAIN rows, Adopt(t, i)
  PROVE  IInv'
<1> DEFINE a == [k \in DOMAIN rows |-> IF rows[k].team = t THEN k = i ELSE rows[k].adopted]
<1>1. \A k \in DOMAIN rows : rows[k] \in Rows
  BY DEF IInv, TypeOK
<1>2. a \in [DOMAIN rows -> BOOLEAN]
  BY <1>1 DEF Rows
<1>3. rows' = [k \in DOMAIN rows |-> [rows[k] EXCEPT !.adopted = a[k]]]
  <2>1. ASSUME NEW k \in DOMAIN rows
        PROVE  (IF rows[k].team = t THEN [rows[k] EXCEPT !.adopted = (k = i)] ELSE rows[k])
                 = [rows[k] EXCEPT !.adopted = a[k]]
    BY <1>1 DEF Rows
  <2> HIDE DEF a
  <2> QED  BY <2>1 DEF Adopt
<1>4. i \in RowsOf(t)
  BY DEF Adopt
<1>5. HasAdopted'
  <2> SUFFICES ASSUME NEW u \in Teams, RowsOf(u)' # {} PROVE AdoptedOf(u)' # {}
    BY DEF HasAdopted
  <2>1. RowsOf(u)' = RowsOf(u) /\ AdoptedOf(u)' = {k \in RowsOf(u) : a[k]}
    BY <1>2, <1>3, SameRows DEF IInv
  <2>2. CASE u = t
    <3>1. a[i]
      BY <1>4 DEF RowsOf
    <3> QED  BY <2>1, <2>2, <1>4, <3>1
  <2>3. CASE u # t
    <3>1. \A k \in RowsOf(u) : a[k] = rows[k].adopted
      BY <2>3 DEF RowsOf
    <3>2. PICK k \in RowsOf(u) : rows[k].adopted
      BY <2>1 DEF IInv, HasAdopted, AdoptedOf
    <3> QED  BY <2>1, <3>1, <3>2
  <2> QED  BY <2>2, <2>3
<1>6. TypeOK'
  <2>1. rows' \in Seq(Rows)
    BY <1>2, <1>3, SameRows DEF IInv
  <2> QED  BY <2>1 DEF IInv, TypeOK, Adopt
<1>7. Planned'
  BY DEF Planned, Adopt
<1>8. \A j \in Jobs : FileTells(j)' /\ Counted(j)'
  <2>1. jobs' = jobs /\ disk' = disk
    BY DEF Adopt
  <2> QED  BY <2>1, <1>2, <1>3, SameRows, JobStays DEF IInv
<1> QED  BY <1>5, <1>6, <1>7, <1>8 DEF IInv

\* What adopt_best_score plans from what it reads is harmless.
LEMMA ReadBestInv ==
  ASSUME IInv, NEW t \in Teams, ReadBest(t)
  PROVE  IInv'
<1> DEFINE seen == IF best = None THEN <<>> ELSE best
           plan == IF RowsOf(t) = {} THEN [drop |-> {}, take |-> {}]
                   ELSE [drop |-> AdoptedOf(t) \ {Highest(t)},
                         take |-> {Highest(t)} \ AdoptedOf(t)]
<1>1. /\ best' = [u \in DOMAIN seen \cup {t} |-> IF u \in DOMAIN seen THEN seen[u] ELSE plan]
      /\ t \notin DOMAIN seen
      /\ rows' = rows /\ jobs' = jobs /\ disk' = disk
  BY DEF ReadBest
<1>2. /\ RowsOf(t) \subseteq DOMAIN rows /\ DOMAIN rows \subseteq Nat
      /\ AdoptedOf(t) \subseteq RowsOf(t)
  BY DEF RowsOf, AdoptedOf, IInv, TypeOK
<1>3. /\ plan \in Plans
      /\ plan.take \subseteq RowsOf(t) /\ plan.drop \subseteq DOMAIN rows
      /\ RowsOf(t) # {} => plan.take # {} \/ AdoptedOf(t) \ plan.drop # {}
  <2>1. CASE RowsOf(t) = {}
    BY <2>1 DEF Plans
  <2>2. CASE RowsOf(t) # {}
    <3>1. Highest(t) \in RowsOf(t)
      BY <2>2, HighestIn DEF IInv
    <3>2. plan.drop = AdoptedOf(t) \ {Highest(t)} /\ plan.take = {Highest(t)} \ AdoptedOf(t)
      BY <2>2
    <3>3. plan \in Plans
      BY <2>2, <3>1, <1>2 DEF Plans
    <3> HIDE DEF plan
    <3> QED  BY <3>1, <3>2, <3>3, <1>2
  <2> QED  BY <2>1, <2>2
<1>4. DOMAIN seen \in SUBSET Teams /\ \A u \in DOMAIN seen : seen[u] \in Plans
  <2>1. CASE best = None
    BY <2>1
  <2>2. CASE best # None
    BY <2>2 DEF IInv, TypeOK
  <2> QED  BY <2>1, <2>2
<1>5. \A u \in DOMAIN seen : best # None /\ u \in DOMAIN best /\ seen[u] = best[u]
  OBVIOUS
<1> HIDE DEF seen, plan
<1>6. TypeOK'
  <2>1. best' \in [DOMAIN seen \cup {t} -> Plans]
    BY <1>1, <1>3, <1>4
  <2>2. DOMAIN seen \cup {t} \in SUBSET Teams
    BY <1>4
  <2>3. \E T \in SUBSET Teams : best' \in [T -> Plans]
    BY <2>1, <2>2
  <2> QED  BY <2>3, <1>1 DEF IInv, TypeOK, ReadBest
<1>7. HasAdopted'
  BY <1>1, RowsStay DEF IInv, HasAdopted
<1>8. Planned'
  <2> SUFFICES ASSUME NEW u \in DOMAIN best' PROVE Keeps(u)'
    BY DEF Planned
  <2>1. CASE u \in DOMAIN seen
    <3>1. Keeps(u) /\ best'[u] = best[u]
      BY <2>1, <1>1, <1>5 DEF IInv, Planned
    <3> QED  BY <3>1, <1>1, RowsStay DEF Keeps
  <2>2. CASE u \notin DOMAIN seen
    <3>1. u = t /\ best'[u] = plan
      BY <2>2, <1>1
    <3> QED  BY <3>1, <1>1, <1>3, RowsStay DEF Keeps
  <2> QED  BY <2>1, <2>2
<1>9. \A j \in Jobs : FileTells(j)' /\ Counted(j)'
  BY <1>1, RowsStay, JobStays DEF IInv
<1> QED  BY <1>6, <1>7, <1>8, <1>9 DEF IInv

\* The plan is carried out: each team is left an adopted row.
LEMMA WriteBestInv ==
  ASSUME IInv, WriteBest
  PROVE  IInv'
<1> DEFINE a == [i \in DOMAIN rows |->
                   LET b == best[rows[i].team] IN
                   i \in b.take \/ (rows[i].adopted /\ i \notin b.drop)]
<1>1. \A k \in DOMAIN rows : rows[k] \in Rows /\ rows[k].adopted \in BOOLEAN
  <2>1. \A k \in DOMAIN rows : rows[k] \in Rows
    BY DEF IInv, TypeOK
  <2> QED  BY <2>1 DEF Rows
<1>2. a \in [DOMAIN rows -> BOOLEAN]
  OBVIOUS
<1>3. rows' = [i \in DOMAIN rows |-> [rows[i] EXCEPT !.adopted = a[i]]]
  <2>1. ASSUME NEW i \in DOMAIN rows
        PROVE  [rows[i] EXCEPT !.adopted =
                  i \in best[rows[i].team].take \/ (@ /\ i \notin best[rows[i].team].drop)]
                 = [rows[i] EXCEPT !.adopted = a[i]]
    BY <1>1 DEF Rows
  <2> HIDE DEF a
  <2> QED  BY <2>1 DEF WriteBest
<1>4. HasAdopted'
  <2> SUFFICES ASSUME NEW t \in Teams, RowsOf(t)' # {} PROVE AdoptedOf(t)' # {}
    BY DEF HasAdopted
  <2>1. RowsOf(t)' = RowsOf(t) /\ AdoptedOf(t)' = {i \in RowsOf(t) : a[i]}
    BY <1>2, <1>3, SameRows DEF IInv
  <2>2. Keeps(t)
    BY DEF IInv, Planned, WriteBest
  <2>3. \A i \in RowsOf(t) :
          a[i] = (i \in best[t].take \/ (rows[i].adopted /\ i \notin best[t].drop))
    BY DEF RowsOf
  <2> HIDE DEF a
  <2>4. CASE best[t].take # {}
    BY <2>1, <2>2, <2>3, <2>4 DEF Keeps
  <2>5. CASE best[t].take = {}
    <3>1. PICK i \in AdoptedOf(t) : i \notin best[t].drop
      BY <2>1, <2>2, <2>5 DEF Keeps
    <3>2. i \in RowsOf(t) /\ rows[i].adopted
      BY DEF AdoptedOf
    <3>3. a[i]
      BY <2>3, <3>1, <3>2
    <3> QED  BY <2>1, <3>2, <3>3
  <2> QED  BY <2>4, <2>5
<1>5. TypeOK'
  <2>1. rows' \in Seq(Rows)
    BY <1>2, <1>3, SameRows DEF IInv
  <2> QED  BY <2>1 DEF IInv, TypeOK, WriteBest
<1>6. Planned'
  BY DEF Planned, WriteBest
<1>7. \A j \in Jobs : FileTells(j)' /\ Counted(j)'
  <2>1. jobs' = jobs /\ disk' = disk
    BY DEF WriteBest
  <2> QED  BY <2>1, <1>2, <1>3, SameRows, JobStays DEF IInv
<1> QED  BY <1>4, <1>5, <1>6, <1>7 DEF IInv

---------------------------------------------------------------------------
(* The jobs.                                                                *)

\* A job's step that stores no row: its new entry e has to be right in itself, and
\* what is saved is this entry, or the save fails while the job's thread is alive.
LEMMA JobStep ==
  ASSUME IInv, NEW j \in Jobs, NEW e \in Entries, Keep(j, e),
         NEW f \in Files \cup {None, Torn}, disk' = [disk EXCEPT ![j] = f],
         \/ f = File(e) /\ (e.status = "completed" => e.thread = "ended")
         \/ f \in {disk[j], Torn} /\ Live(j),
         e.status = "completed" => e.waiting = {} /\ e.results = {} /\ Whole(j, e),
         e.thread # "dead" => StoredTeams(j) \subseteq e.success \cup Ok(e),
         e.thread = "begin" => e.status # "completed",
         e.thread = "score" =>
            /\ e.status # "completed"
            /\ Teams \subseteq e.waiting \cup {r.team : r \in e.results} \cup e.success \cup e.failed,
         rows' = rows, best' = best, faults' \in Nat, crashes' = crashes, now' = now
  PROVE  IInv'
<1>1. /\ jobs' \in [Jobs -> Entries \cup {None}]
      /\ disk' \in [Jobs -> Files \cup {None, Torn}]
      /\ jobs'[j] = e /\ disk'[j] = f
      /\ \A k \in Jobs \ {j} : jobs'[k] = jobs[k] /\ disk'[k] = disk[k]
  BY DEF IInv, TypeOK, Keep
<1>2. TypeOK'
  BY <1>1 DEF IInv, TypeOK
<1>3. /\ HasAdopted' /\ Planned'
      /\ \A k \in Jobs \ {j} : FileTells(k)' /\ Counted(k)'
      /\ StoredBy(j)' = StoredBy(j) /\ StoredTeams(j)' = StoredTeams(j)
  BY <1>1, OthersStay
<1>4. Whole(j, e)' = Whole(j, e)
  BY <1>3 DEF Whole
<1>5. Counted(j)'
  BY <1>1, <1>3, <1>4 DEF Counted, Ok
<1>6. FileTells(j)'
  <2>1. CASE f = File(e) /\ (e.status = "completed" => e.thread = "ended")
    BY <2>1, <1>1, <1>3, <1>4, SavedTells
  <2>2. CASE f \in {disk[j], Torn} /\ Live(j)
    BY <2>2, <1>1, UnsavedTells DEF IInv
  <2> QED  BY <2>1, <2>2
<1> QED  BY <1>2, <1>3, <1>5, <1>6 DEF IInv

\* What is known of a job whose thread is alive.
LEMMA LiveJob ==
  ASSUME IInv, NEW j \in Jobs, Live(j)
  PROVE  /\ jobs[j] \in Entries /\ jobs[j] # None
         /\ disk[j] \in Files \cup {None, Torn}
         /\ StoredTeams(j) \subseteq jobs[j].success \cup Ok(jobs[j])
         /\ jobs[j].status = "completed" =>
              jobs[j].waiting = {} /\ jobs[j].results = {} /\ Whole(j, jobs[j])
         /\ jobs[j].thread = "score" =>
              /\ jobs[j].status # "completed"
              /\ Teams \subseteq jobs[j].waiting \cup {r.team : r \in jobs[j].results}
                                  \cup jobs[j].success \cup jobs[j].failed
<1>1. jobs[j] # None /\ jobs[j].thread # "dead" /\ Counted(j)
  BY DEF Live, IInv
<1>2. jobs[j] \in Entries /\ disk[j] \in Files \cup {None, Torn}
  BY <1>1 DEF IInv, TypeOK
<1> QED  BY <1>1, <1>2 DEF Counted

\* What a save leaves on disk, when it succeeds and when it fails.
LEMMA SavedFile ==
  ASSUME IInv, NEW j \in Jobs, NEW e \in Entries
  PROVE  /\ Saved(j, e) => /\ File(e) \in Files
                           /\ disk' = [disk EXCEPT ![j] = File(e)] /\ faults' \in Nat
         /\ \A n \in Nat : Unsaved(j, n) =>
              /\ \E f \in {disk[j], Torn} :
                   f \in Files \cup {None, Torn} /\ disk' = [disk EXCEPT ![j] = f]
              /\ faults' \in Nat
<1>1. File(e) \in Files
  BY DEF File, Files, Entries
<1>2. disk[j] \in Files \cup {None, Torn} /\ faults \in Nat
  BY DEF IInv, TypeOK
<1>3. Saved(j, e) => disk' = [disk EXCEPT ![j] = File(e)] /\ faults' \in Nat
  BY <1>2 DEF Saved
<1>4. ASSUME NEW n \in Nat, Unsaved(j, n)
      PROVE  /\ \E f \in {disk[j], Torn} :
                  f \in Files \cup {None, Torn} /\ disk' = [disk EXCEPT ![j] = f]
             /\ faults' \in Nat
  <2>1. PICK f \in {disk[j], Torn} : disk' = [disk EXCEPT ![j] = f]
    BY <1>4 DEF Unsaved
  <2>2. f \in Files \cup {None, Torn}
    BY <1>2
  <2>3. faults' = faults + n
    BY <1>4 DEF Unsaved
  <2>4. faults' \in Nat
    BY <2>3, <1>2
  <2> QED  BY <2>1, <2>2, <2>4
<1> QED  BY <1>1, <1>3, <1>4

LEMMA StartInv ==
  ASSUME IInv, NEW j \in Jobs, Start(j)
  PROVE  IInv'
<1>1. PICK p \in BOOLEAN : Keep(j, Fresh(p)) /\ Saved(j, Fresh(p))
  BY DEF Start
<1> DEFINE e == Fresh(p)
<1>2. /\ e \in Entries /\ e.status = "pending" /\ e.thread = "begin"
      /\ e.success = {} /\ e.results = {}
  BY DEF Fresh, Entries, Statuses
<1>3. StoredTeams(j) = {}
  BY DEF Start, IInv, FileTells, StoredTeams
<1> HIDE DEF e
<1>4. File(e) \in Files /\ disk' = [disk EXCEPT ![j] = File(e)] /\ faults' \in Nat
  BY <1>1, <1>2, SavedFile DEF e
<1>5. rows' = rows /\ best' = best /\ crashes' = crashes /\ now' = now
  BY DEF Start
<1>6. Keep(j, e)
  BY <1>1 DEF e
<1> QED  BY <1>2, <1>3, <1>4, <1>5, <1>6, JobStep

LEMMA BeginInv ==
  ASSUME IInv, NEW j \in Jobs, Begin(j)
  PROVE  IInv'
<1> DEFINE job == [jobs[j] EXCEPT !.status = "running"]
           on  == [job EXCEPT !.thread = "score", !.waiting = Teams]
           off == [job EXCEPT !.thread = "leave"]
<1>1. /\ Live(j) /\ rows' = rows /\ best' = best /\ crashes' = crashes /\ now' = now
      /\ \/ Keep(j, on) /\ Saved(j, on)
         \/ Keep(j, off) /\ Unsaved(j, 1)
  BY DEF Begin
<1>2. jobs[j] \in Entries /\ StoredTeams(j) \subseteq jobs[j].success \cup Ok(jobs[j])
  BY <1>1, LiveJob
<1>3. /\ on \in Entries /\ on.status = "running" /\ on.thread = "score" /\ on.waiting = Teams
      /\ on.success = jobs[j].success /\ on.results = jobs[j].results
  BY <1>2 DEF Entries, Statuses
<1>4. /\ off \in Entries /\ off.status = "running" /\ off.thread = "leave"
      /\ off.success = jobs[j].success /\ off.results = jobs[j].results
  BY <1>2 DEF Entries, Statuses
<1> HIDE DEF on, off
<1>5. CASE Keep(j, on) /\ Saved(j, on)
  <2>1. StoredTeams(j) \subseteq on.success \cup Ok(on)
    BY <1>2, <1>3 DEF Ok
  <2> QED  BY <1>1, <1>3, <1>5, <2>1, SavedFile, JobStep
<1>6. CASE Keep(j, off) /\ Unsaved(j, 1)
  <2>1. StoredTeams(j) \subseteq off.success \cup Ok(off)
    BY <1>2, <1>4 DEF Ok
  <2>2. PICK f \in {disk[j], Torn} :
          f \in Files \cup {None, Torn} /\ disk' = [disk EXCEPT ![j] = f]
    BY <1>4, <1>6, SavedFile
  <2>3. faults' \in Nat
    BY <1>4, <1>6, SavedFile
  <2> QED  BY <1>1, <1>4, <1>6, <2>1, <2>2, <2>3, JobStep
<1> QED  BY <1>1, <1>5, <1>6

LEMMA CompleteInv ==
  ASSUME IInv, NEW j \in Jobs, Complete(j)
  PROVE  IInv'
<1> DEFINE done == [jobs[j] EXCEPT !.status = "completed"]
           end  == [done EXCEPT !.thread = "ended"]
           off  == [done EXCEPT !.thread = "leave"]
<1>1. /\ Live(j) /\ rows' = rows /\ best' = best /\ crashes' = crashes /\ now' = now
      /\ done.thread = "score" /\ AllCounted(done)
      /\ \/ Keep(j, end) /\ Saved(j, end)
         \/ Keep(j, off) /\ Unsaved(j, 1)
  BY DEF Complete
<1>2. jobs[j] \in Entries /\ StoredTeams(j) \subseteq jobs[j].success \cup Ok(jobs[j])
  BY <1>1, LiveJob
<1>3. jobs[j].thread = "score" /\ jobs[j].waiting = {} /\ jobs[j].results = {}
  BY <1>1, <1>2 DEF Entries, AllCounted
<1>4. /\ StoredTeams(j) \subseteq jobs[j].success
      /\ jobs[j].success \cup jobs[j].failed = Teams
  <2>1. Ok(jobs[j]) = {}
    BY <1>3 DEF Ok
  <2>2. jobs[j].success \subseteq Teams /\ jobs[j].failed \subseteq Teams
    BY <1>2 DEF Entries
  <2>3. Teams \subseteq jobs[j].waiting \cup {r.team : r \in jobs[j].results}
                         \cup jobs[j].success \cup jobs[j].failed
    BY <1>1, <1>3, LiveJob
  <2> QED  BY <1>2, <1>3, <2>1, <2>2, <2>3
<1>5. /\ end \in Entries /\ end.status = "completed" /\ end.thread = "ended"
      /\ end.success = jobs[j].success /\ end.failed = jobs[j].failed
      /\ end.results = {} /\ end.waiting = {}
  BY <1>2, <1>3 DEF Entries, Statuses
<1>6. /\ off \in Entries /\ off.status = "completed" /\ off.thread = "leave"
      /\ off.success = jobs[j].success /\ off.failed = jobs[j].failed
      /\ off.results = {} /\ off.waiting = {}
  BY <1>2, <1>3 DEF Entries, Statuses
<1>7. Whole(j, end) /\ Whole(j, off)
  BY <1>4, <1>5, <1>6 DEF Whole
<1> HIDE DEF end, off, done
<1>8. CASE Keep(j, end) /\ Saved(j, end)
  <2>1. StoredTeams(j) \subseteq end.success \cup Ok(end)
    BY <1>4, <1>5
  <2> QED  BY <1>1, <1>5, <1>7, <1>8, <2>1, SavedFile, JobStep
<1>9. CASE Keep(j, off) /\ Unsaved(j, 1)
  <2>1. StoredTeams(j) \subseteq off.success \cup Ok(off)
    BY <1>4, <1>6
  <2>2. PICK f \in {disk[j], Torn} :
          f \in Files \cup {None, Torn} /\ disk' = [disk EXCEPT ![j] = f]
    BY <1>6, <1>9, SavedFile
  <2>3. faults' \in Nat
    BY <1>6, <1>9, SavedFile
  <2> QED  BY <1>1, <1>6, <1>7, <1>9, <2>1, <2>2, <2>3, JobStep
<1> QED  BY <1>1, <1>8, <1>9

LEMMA FailTaskInv ==
  ASSUME IInv, NEW j \in Jobs, FailTask(j)
  PROVE  IInv'
<1> DEFINE end == [jobs[j] EXCEPT !.status = "failed", !.thread = "ended"]
<1>1. /\ Live(j) /\ rows' = rows /\ best' = best /\ crashes' = crashes /\ now' = now
      /\ Keep(j, end) /\ (Saved(j, end) \/ Unsaved(j, 1))
  BY DEF FailTask
<1>2. jobs[j] \in Entries /\ StoredTeams(j) \subseteq jobs[j].success \cup Ok(jobs[j])
  BY <1>1, LiveJob
<1>3. /\ end \in Entries /\ end.status = "failed" /\ end.thread = "ended"
      /\ end.success = jobs[j].success /\ end.results = jobs[j].results
  BY <1>2 DEF Entries, Statuses
<1> HIDE DEF end
<1>4. StoredTeams(j) \subseteq end.success \cup Ok(end)
  BY <1>2, <1>3 DEF Ok
<1>5. CASE Saved(j, end)
  BY <1>1, <1>3, <1>4, <1>5, SavedFile, JobStep
<1>6. CASE Unsaved(j, 1)
  <2>1. PICK f \in {disk[j], Torn} :
          f \in Files \cup {None, Torn} /\ disk' = [disk EXCEPT ![j] = f]
    BY <1>3, <1>6, SavedFile
  <2>2. faults' \in Nat
    BY <1>3, <1>6, SavedFile
  <2> QED  BY <1>1, <1>3, <1>4, <2>1, <2>2, JobStep
<1> QED  BY <1>1, <1>5, <1>6

\* A worker's result: one more row or none, and one result more.
LEMMA ScoreInv ==
  ASSUME IInv, NEW j \in Jobs, NEW t \in Teams, Score(j, t)
  PROVE  IInv'
<1> DEFINE ret(ok) == [jobs[j] EXCEPT !.waiting = @ \ {t},
                                      !.results = @ \cup {[team |-> t, ok |-> ok]}]
<1>1. /\ Live(j) /\ t \in jobs[j].waiting
      /\ disk' = disk /\ best' = best /\ crashes' = crashes /\ now' = now
      /\ \/ /\ \E n \in Totals : rows' = WithScore(t, n, j)
            /\ Keep(j, ret(TRUE)) /\ faults' = faults
         \/ Keep(j, ret(FALSE)) /\ rows' = rows /\ faults' = faults
         \/ faults' = faults + 1 /\ Keep(j, ret(TRUE)) /\ rows' = rows
  BY DEF Score
<1>2. /\ jobs[j] \in Entries /\ jobs[j] # None /\ jobs[j].status # "completed"
      /\ StoredTeams(j) \subseteq jobs[j].success \cup Ok(jobs[j])
      /\ disk[j] \in Files \cup {None, Torn}
  BY <1>1, LiveJob
<1>3. faults' \in Nat
  BY <1>1 DEF IInv, TypeOK
<1>4. ASSUME NEW ok \in BOOLEAN
      PROVE  /\ ret(ok) \in Entries /\ ret(ok).status = jobs[j].status
             /\ ret(ok).thread = jobs[j].thread
             /\ ret(ok).success = jobs[j].success /\ ret(ok).failed = jobs[j].failed
             /\ ret(ok).waiting = jobs[j].waiting \ {t}
             /\ ret(ok).results = jobs[j].results \cup {[team |-> t, ok |-> ok]}
  <2> DEFINE res == [team |-> t, ok |-> ok]
  <2>1. res \in [team : Teams, ok : BOOLEAN]
    OBVIOUS
  <2> HIDE DEF res
  <2>2. [jobs[j] EXCEPT !.waiting = @ \ {t}, !.results = @ \cup {res}] \in Entries
    BY <2>1, <1>2 DEF Entries
  <2>3. ret(ok) = [jobs[j] EXCEPT !.waiting = @ \ {t}, !.results = @ \cup {res}]
    BY DEF res
  <2>4. ret(ok).results = jobs[j].results \cup {res}
    BY <2>3, <1>2 DEF Entries
  <2>5. /\ ret(ok).status = jobs[j].status
        /\ ret(ok).thread = jobs[j].thread
        /\ ret(ok).success = jobs[j].success /\ ret(ok).failed = jobs[j].failed
        /\ ret(ok).waiting = jobs[j].waiting \ {t}
    BY <1>2 DEF Entries
  <2> QED  BY <2>2, <2>3, <2>4, <2>5 DEF res
<1>5. ASSUME NEW ok \in BOOLEAN
      PROVE  /\ Ok(jobs[j]) \subseteq Ok(ret(ok))
             /\ ok => t \in Ok(ret(ok))
             /\ {r.team : r \in ret(ok).results} = {r.team : r \in jobs[j].results} \cup {t}
  <2> DEFINE res == [team |-> t, ok |-> ok]
  <2>1. res.team = t /\ res.ok = ok
    OBVIOUS
  <2>2. ret(ok).results = jobs[j].results \cup {res}
    BY <1>4
  <2> HIDE DEF res, ret
  <2>3. Ok(jobs[j]) \subseteq Ok(ret(ok))
    BY <2>2 DEF Ok
  <2>4. ok => t \in Ok(ret(ok))
    <3> SUFFICES ASSUME ok PROVE t \in Ok(ret(ok))
      OBVIOUS
    <3>1. res \in {x \in ret(ok).results : x.ok}
      BY <2>1, <2>2
    <3> QED  BY <3>1, <2>1 DEF Ok
  <2>5. {r.team : r \in ret(ok).results} = {r.team : r \in jobs[j].results} \cup {t}
    BY <2>1, <2>2
  <2> QED  BY <2>3, <2>4, <2>5
<1>6. \A ok \in BOOLEAN :
        ret(ok).thread = "score" =>
          Teams \subseteq ret(ok).waiting \cup {r.team : r \in ret(ok).results}
                           \cup ret(ok).success \cup ret(ok).failed
  <2> SUFFICES ASSUME NEW ok \in BOOLEAN, ret(ok).thread = "score"
               PROVE  Teams \subseteq ret(ok).waiting \cup {r.team : r \in ret(ok).results}
                                       \cup ret(ok).success \cup ret(ok).failed
    OBVIOUS
  <2>1. jobs[j].thread = "score"
    BY <1>4
  <2>2. Teams \subseteq jobs[j].waiting \cup {r.team : r \in jobs[j].results}
                         \cup jobs[j].success \cup jobs[j].failed
    BY <1>1, <2>1, LiveJob
  <2> HIDE DEF ret
  <2> QED  BY <2>2, <1>4, <1>5
<1>7. \A ok \in BOOLEAN : ret(ok).thread # "begin" \/ ret(ok).status # "completed"
  BY <1>2, <1>4
<1> HIDE DEF ret
<1>8. disk' = [disk EXCEPT ![j] = disk[j]]
  BY <1>1 DEF IInv, TypeOK
<1>9. ASSUME NEW ok \in BOOLEAN, Keep(j, ret(ok)), rows' = rows
      PROVE  IInv'
  <2> DEFINE e == ret(ok)
  <2>1. StoredTeams(j) \subseteq e.success \cup Ok(e)
    BY <1>2, <1>4, <1>5
  <2>2. e \in Entries /\ Keep(j, e) /\ e.status # "completed"
    BY <1>2, <1>4, <1>9
  <2>3. e.thread = "score" =>
          Teams \subseteq e.waiting \cup {r.team : r \in e.results} \cup e.success \cup e.failed
    BY <1>6
  <2> HIDE DEF e
  <2> QED  BY <1>1, <1>2, <1>3, <1>8, <1>9, <2>1, <2>2, <2>3, JobStep
<1>10. ASSUME NEW n \in Totals, rows' = WithScore(t, n, j), Keep(j, ret(TRUE))
       PROVE  IInv'
  <2>1. /\ jobs' \in [Jobs -> Entries \cup {None}] /\ jobs'[j] = ret(TRUE)
        /\ \A k \in Jobs \ {j} : jobs'[k] = jobs[k]
    BY <1>4, <1>10 DEF IInv, TypeOK, Keep
  <2>2. TypeOK'
    <3>1. rows' \in Seq(Rows)
      BY <1>10, RowAdded DEF IInv
    <3> QED  BY <2>1, <3>1, <1>1, <1>3 DEF IInv, TypeOK
  <2>3. HasAdopted' /\ Planned'
    BY <1>1, <1>10, ScoreAdopts, ScoreKeepsPlan DEF IInv
  <2>4. \A k \in Jobs \ {j} : StoredBy(k)' = StoredBy(k) /\ StoredTeams(k)' = StoredTeams(k)
    BY <1>10, RowsAfterScore DEF IInv
  <2>5. \A k \in Jobs \ {j} : FileTells(k)' /\ Counted(k)'
    BY <2>1, <2>4, <1>1, JobStays DEF IInv
  <2>6. StoredTeams(j)' = StoredTeams(j) \cup {t}
    BY <1>10, RowsAfterScore DEF IInv
  <2>7. StoredTeams(j)' \subseteq ret(TRUE).success \cup Ok(ret(TRUE))
    BY <2>6, <1>2, <1>4, <1>5
  <2>8. ret(TRUE).status # "completed"
    BY <1>2, <1>4
  <2>9. Counted(j)'
    BY <2>1, <2>7, <2>8, <1>6 DEF Counted, Ok
  <2>10. FileTells(j)'
    BY <1>1, <1>2, UnsavedTells DEF IInv
  <2> QED  BY <2>2, <2>3, <2>5, <2>9, <2>10 DEF IInv
<1> QED  BY <1>1, <1>9, <1>10

\* Counting a result moves its team, saved or not.
LEMMA CountResultInv ==
  ASSUME IInv, NEW j \in Jobs, CountResult(j)
  PROVE  IInv'
<1>1. /\ Live(j) /\ jobs[j].thread = "score"
      /\ rows' = rows /\ best' = best /\ crashes' = crashes /\ now' = now
  BY DEF CountResult
<1> DEFINE counted(r) == [jobs[j] EXCEPT !.results = @ \ {r},
                                   !.success = IF r.ok THEN @ \cup {r.team} ELSE @,
                                   !.failed  = IF r.ok THEN @ ELSE @ \cup {r.team}]
           twice(r) == [counted(r) EXCEPT !.failed = @ \cup {r.team}]
           off(r) == [twice(r) EXCEPT !.thread = "leave"]
<1>2. PICK r \in jobs[j].results :
        \/ Keep(j, counted(r)) /\ Saved(j, counted(r))
        \/ /\ faults < MaxFaults /\ faults' = faults + 1
           /\ Keep(j, twice(r)) /\ disk' = [disk EXCEPT ![j] = File(twice(r))]
        \/ Keep(j, off(r)) /\ Unsaved(j, 2)
  BY DEF CountResult, Count
<1>3. /\ jobs[j] \in Entries /\ jobs[j].status # "completed"
      /\ StoredTeams(j) \subseteq jobs[j].success \cup Ok(jobs[j])
      /\ Teams \subseteq jobs[j].waiting \cup {x.team : x \in jobs[j].results}
                          \cup jobs[j].success \cup jobs[j].failed
  BY <1>1, LiveJob
<1>4. r \in [team : Teams, ok : BOOLEAN]
  BY <1>3 DEF Entries
<1>5. /\ counted(r) \in Entries /\ counted(r).status = jobs[j].status
      /\ counted(r).thread = "score" /\ counted(r).waiting = jobs[j].waiting
      /\ counted(r).results = jobs[j].results \ {r}
      /\ jobs[j].success \subseteq counted(r).success
      /\ jobs[j].failed \subseteq counted(r).failed
      /\ r.ok => r.team \in counted(r).success
      /\ r.team \in counted(r).success \cup counted(r).failed
  <2>1. CASE r.ok
    BY <2>1, <1>1, <1>3, <1>4 DEF Entries
  <2>2. CASE ~ r.ok
    BY <2>2, <1>1, <1>3, <1>4 DEF Entries
  <2> QED  BY <2>1, <2>2
<1> HIDE DEF counted
<1>6. /\ twice(r) \in Entries /\ twice(r).status = jobs[j].status
      /\ twice(r).thread = "score" /\ twice(r).waiting = jobs[j].waiting
      /\ twice(r).results = jobs[j].results \ {r}
      /\ twice(r).success = counted(r).success
      /\ counted(r).failed \subseteq twice(r).failed
  BY <1>4, <1>5 DEF Entries
<1> HIDE DEF twice
<1>7. /\ off(r) \in Entries /\ off(r).status = jobs[j].status /\ off(r).thread = "leave"
      /\ off(r).results = jobs[j].results \ {r} /\ off(r).success = counted(r).success
  BY <1>6 DEF Entries
<1> HIDE DEF off
<1>8. ASSUME NEW e \in Entries, e.results = jobs[j].results \ {r}, e.success = counted(r).success
      PROVE  StoredTeams(j) \subseteq e.success \cup Ok(e)
  <2>1. Ok(jobs[j]) \subseteq Ok(e) \cup counted(r).success
    BY <1>5, <1>8 DEF Ok
  <2> QED  BY <2>1, <1>3, <1>5, <1>8
<1>9. ASSUME NEW e \in Entries, e.results = jobs[j].results \ {r}, e.waiting = jobs[j].waiting,
             e.success = counted(r).success, counted(r).failed \subseteq e.failed
      PROVE  Teams \subseteq e.waiting \cup {x.team : x \in e.results} \cup e.success \cup e.failed
  <2>1. {x.team : x \in jobs[j].results} \subseteq {x.team : x \in e.results} \cup {r.team}
    BY <1>9
  <2> QED  BY <2>1, <1>3, <1>5, <1>9
<1>10. CASE Keep(j, counted(r)) /\ Saved(j, counted(r))
  BY <1>1, <1>3, <1>5, <1>8, <1>9, <1>10, SavedFile, JobStep
<1>11. CASE /\ faults < MaxFaults /\ faults' = faults + 1
            /\ Keep(j, twice(r)) /\ disk' = [disk EXCEPT ![j] = File(twice(r))]
  <2>1. faults' \in Nat
    BY <1>11 DEF IInv, TypeOK
  <2>2. File(twice(r)) \in Files
    BY <1>6 DEF File, Files, Entries
  <2> QED  BY <1>1, <1>3, <1>6, <1>8, <1>9, <1>11, <2>1, <2>2, JobStep
<1>12. CASE Keep(j, off(r)) /\ Unsaved(j, 2)
  <2>1. PICK f \in {disk[j], Torn} :
          f \in Files \cup {None, Torn} /\ disk' = [disk EXCEPT ![j] = f]
    BY <1>7, <1>12, SavedFile
  <2>2. faults' \in Nat
    BY <1>7, <1>12, SavedFile
  <2> QED  BY <1>1, <1>3, <1>7, <1>8, <1>12, <2>1, <2>2, JobStep
<1> QED  BY <1>2, <1>10, <1>11, <1>12

\* After the end of the process a job is what its file tells.
LEMMA CrashInv ==
  ASSUME IInv, Crash
  PROVE  IInv'
<1>1. PICK cut \in SUBSET {j \in Jobs : Live(j)} :
        /\ disk' = [j \in Jobs |-> IF j \in cut THEN Torn ELSE disk[j]]
        /\ jobs' = [j \in Jobs |->
                     IF disk'[j] \in {None, Torn} THEN None
                     ELSE [Fresh(FALSE) EXCEPT !.thread = "dead", !.status = disk[j].status,
                                               !.success = disk[j].success,
                                               !.failed = disk[j].failed]]
  BY DEF Crash
<1>2. rows' = rows /\ best' = None /\ faults' = faults /\ now' = now /\ crashes' \in Nat
  <2>1. crashes' = crashes + 1 /\ crashes \in Nat
    BY DEF Crash, IInv, TypeOK
  <2>2. crashes' \in Nat
    BY <2>1
  <2> QED  BY <2>2 DEF Crash
<1>3. ASSUME NEW j \in Jobs, disk'[j] \notin {None, Torn}
      PROVE  /\ disk'[j] = disk[j] /\ disk[j] \in Files
             /\ jobs'[j] \in Entries /\ jobs'[j].thread = "dead"
             /\ jobs'[j].status = disk[j].status /\ jobs'[j].success = disk[j].success
             /\ jobs'[j].failed = disk[j].failed
             /\ jobs'[j].waiting = {} /\ jobs'[j].results = {}
  <2>1. disk'[j] = disk[j] /\ disk[j] \in Files
    BY <1>1, <1>3 DEF IInv, TypeOK
  <2>2. jobs'[j] = [Fresh(FALSE) EXCEPT !.thread = "dead", !.status = disk[j].status,
                                        !.success = disk[j].success, !.failed = disk[j].failed]
    BY <1>1, <1>3
  <2> QED  BY <2>1, <2>2 DEF Fresh, Entries, Files
<1>4. \A j \in Jobs : disk'[j] \in {None, Torn} => jobs'[j] = None
  BY <1>1
<1>5. TypeOK'
  <2>1. disk' \in [Jobs -> Files \cup {None, Torn}]
    BY <1>1 DEF IInv, TypeOK
  <2>2. \A j \in Jobs : jobs'[j] \in Entries \cup {None}
    BY <1>3, <1>4
  <2>3. jobs' \in [Jobs -> Entries \cup {None}]
    BY <1>1, <2>2
  <2> QED  BY <2>1, <2>3, <1>2 DEF IInv, TypeOK
<1>6. HasAdopted'
  BY <1>2, RowsStay DEF IInv, HasAdopted
<1>7. Planned'
  BY <1>2 DEF Planned
<1>8. ASSUME NEW j \in Jobs PROVE FileTells(j)' /\ Counted(j)'
  <2>1. StoredBy(j)' = StoredBy(j) /\ StoredTeams(j)' = StoredTeams(j)
    BY <1>2, RowsStay
  <2>2. CASE disk'[j] \in {None, Torn}
    <3>1. jobs'[j] = None
      BY <2>2, <1>4
    <3>2. disk'[j] = None => StoredBy(j)' = {}
      <4>1. disk'[j] = None => disk[j] = None
        BY <1>1, SentinelAssumption
      <4> QED  BY <4>1, <2>1 DEF IInv, FileTells
    <3> QED  BY <2>2, <3>1, <3>2, SentinelAssumption DEF FileTells, Counted
  <2>3. CASE disk'[j] \notin {None, Torn}
    <3>1. disk[j].status = "completed" => Whole(j, disk[j])
      BY <2>3, <1>3 DEF IInv, FileTells
    <3>2. disk[j].status = "completed" => Whole(j, disk[j])' /\ Whole(j, jobs[j])'
      BY <3>1, <2>1, <2>3, <1>3 DEF Whole
    <3>3. ~ Live(j)'
      BY <2>3, <1>3 DEF Live
    <3>4. FileTells(j)'
      <4>1. disk'[j] # None /\ disk'[j].status = disk[j].status
        BY <2>3, <1>3
      <4> QED  BY <4>1, <3>2, <3>3 DEF FileTells
    <3>5. Counted(j)'
      BY <2>3, <3>2, <1>3 DEF Counted
    <3> QED  BY <3>4, <3>5
  <2> QED  BY <2>2, <2>3
<1> QED  BY <1>5, <1>6, <1>7, <1>8 DEF IInv

---------------------------------------------------------------------------
(* The theorems.                                                            *)

\* What is known of tables, plans, jobs and their files holds of every behaviour.
THEOREM Invariance == Spec => []IInv
<1>1. IInv /\ [Next]_vars => IInv'
  <2> SUFFICES ASSUME IInv, [Next]_vars PROVE IInv'
    OBVIOUS
  <2>1. ASSUME NEW t \in Teams, ScoreNow(t) \/ ReadBest(t) PROVE IInv'
    BY <2>1, ScoreNowInv, ReadBestInv
  <2>2. ASSUME NEW t \in Teams, NEW i \in DOMAIN rows, Adopt(t, i) PROVE IInv'
    BY <2>2, AdoptInv
  <2>3. CASE WriteBest
    BY <2>3, WriteBestInv
  <2>4. ASSUME NEW j \in Jobs, Start(j) \/ Thread(j) PROVE IInv'
    BY <2>4, StartInv, BeginInv, ScoreInv, CountResultInv, CompleteInv, FailTaskInv DEF Thread
  <2>5. CASE Crash
    BY <2>5, CrashInv
  <2>6. CASE UNCHANGED vars
    <3>1. /\ rows' = rows /\ jobs' = jobs /\ disk' = disk /\ best' = best
          /\ faults' = faults /\ crashes' = crashes /\ now' = now
      BY <2>6 DEF vars
    <3>2. TypeOK'
      BY <3>1 DEF IInv, TypeOK
    <3>3. HasAdopted' /\ Planned'
      BY <3>1, RowsStay DEF IInv, HasAdopted, Planned, Keeps
    <3>4. \A j \in Jobs : FileTells(j)' /\ Counted(j)'
      BY <3>1, RowsStay, JobStays DEF IInv
    <3> QED  BY <3>2, <3>3, <3>4 DEF IInv
  <2> QED  BY <2>1, <2>2, <2>3, <2>4, <2>5, <2>6 DEF Next
<1> QED  BY InitInv, <1>1, PTL DEF Spec

\* Every variable keeps its type.
THEOREM TypeCorrect == Spec => []TypeOK
<1>1. IInv => TypeOK
  BY DEF IInv
<1> QED  BY <1>1, Invariance, PTL

\* Every page that shows a team takes a row somebody adopted, whatever is scored,
\* adopted one by one or adopted as the best while a page is read (get_score_result,
\* get_teams_for_scoring, calculate_all_scores).
THEOREM Adopted == Spec => []ReadersTakeAdopted
<1>1. IInv => ReadersTakeAdopted
  <2> SUFFICES ASSUME IInv, NEW t \in Teams, RowsOf(t) # {}
               PROVE  {Shown(t), Listed(t), Used(t)} \subseteq AdoptedOf(t)
    BY DEF ReadersTakeAdopted
  <2>1. AdoptedOf(t) # {}
    BY DEF IInv, HasAdopted
  <2>2. Len(rows) \in Nat /\ AdoptedOf(t) \in SUBSET (1 .. Len(rows))
    BY DEF IInv, TypeOK, AdoptedOf, RowsOf
  <2>3. Latest(AdoptedOf(t)) \in AdoptedOf(t) /\ First(AdoptedOf(t)) \in AdoptedOf(t)
    BY <2>1, <2>2, ChosenIn
  <2> QED  BY <2>1, <2>3 DEF Shown, Listed, Used
<1> QED  BY <1>1, Invariance, PTL

\* A job that is told to be completed has counted every team, and every row it
\* stored is of a team it tells to be scored, whatever saves and commits failed and
\* whenever the process ended (increment_success, increment_failed, complete_task).
THEOREM Completed == Spec => []CompletedCounts
<1>1. IInv => CompletedCounts
  <2> SUFFICES ASSUME IInv, NEW j \in Jobs, jobs[j] # None, jobs[j].status = "completed"
               PROVE  /\ jobs[j].success \cup jobs[j].failed = Teams
                      /\ {rows[i].team : i \in StoredBy(j)} \subseteq jobs[j].success
    BY DEF CompletedCounts
  <2>1. Whole(j, jobs[j])
    BY DEF IInv, Counted
  <2> QED  BY <2>1 DEF Whole, StoredTeams
<1> QED  BY <1>1, Invariance, PTL
=============================================================================
