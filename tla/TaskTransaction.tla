-------------------------- MODULE TaskTransaction --------------------------
(***************************************************************************)
(* The joint transaction of backend/services/pipeline_task_store.py: one   *)
(* task directory (task.json, items/<id>.json, events.ndjson, the lock     *)
(* file and tmp/transactions/), written by run_task_transaction and        *)
(* repaired by recover_incomplete_transactions.  The read side is that of  *)
(* PipelineTaskManager: revisions, task and items are loaded before the    *)
(* lock is taken.                                                          *)
(*                                                                         *)
(* Every file operation another process could observe, or a crash could    *)
(* separate from the next one, is a step of its own.                       *)
(***************************************************************************)
EXTENDS Naturals, Sequences, FiniteSets

CONSTANTS
  Workers,        \* threads that run transactions or recovery
  Processes,      \* operating-system processes of the backend
  ProcessOf,      \* ProcessOf[w]: the process thread w belongs to
  Items,          \* the items of the task
  TaskFile,       \* the reference "task.json"
  TxnIds,         \* transaction ids, a set of naturals: uuid4 names, so no
                  \* order of use, but recovery sorts by them
  Statuses,       \* what an index entry shows of an item besides its revision
  Absent,         \* a file that does not exist
  Free,           \* no lock file / no holder
  Stale,          \* a lock file whose owner died
  MaxFaults,      \* bound on failing file operations
  MaxCrashes,     \* bound on process crashes
  MaxRecoveries   \* bound on recoveries that get the lock

ASSUME WorkersAssumption ==
  /\ ProcessOf \in [Workers -> Processes]
  /\ Free \notin Workers /\ Stale \notin Workers /\ Free # Stale
ASSUME TxnIdsAssumption == TxnIds \subseteq Nat \ {0}
ASSUME RefsAssumption == TaskFile \notin Items
ASSUME StatusesAssumption == Statuses # {}
ASSUME BoundsAssumption ==
  MaxFaults \in Nat /\ MaxCrashes \in Nat /\ MaxRecoveries \in Nat

Refs == {TaskFile} \cup Items

VARIABLES
  files,       \* files[r]: the published snapshot of reference r, or Absent
  log,         \* events.ndjson: the events, in file order
  torn,        \* the last line of events.ndjson is not parseable
  stray,       \* a temporary file was left behind in items/
  txn,         \* txn[t]: the directory tmp/transactions/<t>
  used,        \* the transaction ids handed out so far
  plock,       \* plock[p]: the holder of p's in-process lock
  flock,       \* the owner of locks/task.lock
  pc,          \* pc[w]: the next step of worker w
  mode,        \* mode[w]: "run" or "recover"
  request,     \* request[w]: the write set worker w prepares
  cur,         \* cur[w]: the transaction worker w executes or recovers
  todo,        \* todo[w]: the references still to publish or to restore
  scan,        \* scan[w]: the transactions recovery still has to visit
  faults, crashes, recoveries

vars == <<files, log, torn, stray, txn, used, plock, flock, pc, mode, request,
          cur, todo, scan, faults, crashes, recoveries>>

diskVars  == <<files, log, torn, stray>>
lockVars  == <<plock, flock>>
localVars == <<mode, request, cur, todo, scan>>
boundVars == <<faults, crashes, recoveries>>

-----------------------------------------------------------------------------
(* Data *)

NoFiles == [r \in Refs |-> Absent]

ItemSnapshot(rev, st, by) == [rev |-> rev, st |-> st, by |-> by]

\* What item_index keeps of an item: its revision and its visible status.
IndexEntry(item) == [rev |-> item.rev, st |-> item.st]

\* "from" stands for the fields a new task snapshot inherits from the one it
\* was computed from (status, times); the index is recomputed from the items.
TaskSnapshot(rev, seq, items, by, from) ==
  [rev |-> rev, seq |-> seq, by |-> by, from |-> from,
   index |-> [i \in Items |-> IndexEntry(items[i])]]

Event(t, seq) == [txn |-> t, seq |-> seq]

NoTxn == [phase |-> "none", event |-> FALSE, refs |-> {}, seq |-> 0,
          old |-> NoFiles, new |-> NoFiles]

NoRequest == [refs |-> {}, create |-> FALSE, exp |-> [r \in Refs |-> 0],
              seq |-> 0, base |-> [rev |-> 0, seq |-> 0, by |-> 0],
              new |-> NoFiles]

Phases == {"none", "husk", "prepared", "published", "appended", "committed"}

\* A directory without transaction.json ("husk") or any other transaction.
Present(t) == txn[t].phase # "none"

\* Transactions a later recovery still has to finish or to undo.
Unresolved == {t \in TxnIds : txn[t].phase \notin {"none", "husk"}}

LastEvent == log[Len(log)]

LogTxns == {log[k].txn : k \in 1..Len(log)}

\* _event_idempotency_check: the same event is already in the log.
InLog(t) == \E k \in 1..Len(log) : log[k] = Event(t, txn[t].seq)

\* _event_already_appended: the tail of the log is event.json.
AlreadyAppended(t) ==
  txn[t].event /\ Len(log) > 0 /\ LastEvent = Event(t, txn[t].seq)

\* _event_sequence_check.
InSequence(t) == txn[t].seq = Len(log) + 1

\* _verify_item_index_reconciliation.
IndexReconciled(task) ==
  /\ ~stray
  /\ \A i \in Items : files[i] # Absent /\ task.index[i] = IndexEntry(files[i])

\* _verify_committable.
Committable(t) ==
  /\ txn[t].event /\ ~torn /\ AlreadyAppended(t)
  /\ \A r \in txn[t].refs : files[r] = txn[t].new[r]
  /\ files[TaskFile] # Absent
  /\ files[TaskFile].seq = LastEvent.seq
  /\ IndexReconciled(files[TaskFile])

\* Mutant of AnyMatchesNew: only a complete publication counts.
AllMatchNew(t) == \A r \in txn[t].refs : files[r] = txn[t].new[r]

\* _any_snapshot_matches_new.
AnyMatchesNew(t) == \E r \in txn[t].refs : files[r] = txn[t].new[r]

\* References are written in order: the task file, then the items.
NextRef(S, r) == r \in S /\ (TaskFile \in S => r = TaskFile)

Goto(w, label) == pc' = [pc EXCEPT ![w] = label]

-----------------------------------------------------------------------------
(* Init: a task nobody works on, freshly created or not created yet *)

InitialItem == ItemSnapshot(1, CHOOSE st \in Statuses : TRUE, 0)

InitialFiles ==
  [r \in Refs |->
     IF r = TaskFile THEN TaskSnapshot(1, 1, [i \in Items |-> InitialItem], 0, 0)
                     ELSE InitialItem]

Init ==
  /\ \/ files = InitialFiles /\ log = <<Event(0, 1)>>
     \/ files = NoFiles /\ log = <<>>
  /\ torn = FALSE /\ stray = FALSE
  /\ txn = [t \in TxnIds |-> NoTxn]
  /\ used = {}
  /\ plock = [p \in Processes |-> Free]
  /\ flock = Free
  /\ pc = [w \in Workers |-> "idle"]
  /\ mode = [w \in Workers |-> "run"]
  /\ request = [w \in Workers |-> NoRequest]
  /\ cur = [w \in Workers |-> 0]
  /\ todo = [w \in Workers |-> {}]
  /\ scan = [w \in Workers |-> {}]
  /\ faults = 0 /\ crashes = 0 /\ recoveries = 0

-----------------------------------------------------------------------------
(* The manager's reads, before the lock *)

\* A caller loads the task (and one item) and keeps the revisions it saw.
ReadRevisions(w) ==
  /\ pc[w] = "idle" /\ used # TxnIds
  /\ files[TaskFile] # Absent
  /\ \E refs \in {{TaskFile}} \cup {{TaskFile, i} : i \in Items} :
       /\ \A r \in refs : files[r] # Absent
       /\ request' = [request EXCEPT ![w] =
            [NoRequest EXCEPT !.refs = refs,
               !.exp = [r \in Refs |-> IF r \in refs THEN files[r].rev ELSE 0]]]
  /\ mode' = [mode EXCEPT ![w] = "run"]
  /\ Goto(w, "loadTask")
  /\ UNCHANGED <<diskVars, txn, used, lockVars, cur, todo, scan, boundVars>>

\* The first creation: run_task_transaction with expected_task_revision None.
RequestCreation(w) ==
  /\ pc[w] = "idle" /\ used # TxnIds
  /\ files[TaskFile] = Absent
  /\ \E st \in Statuses :
       LET item == ItemSnapshot(1, st, 0) IN
       request' = [request EXCEPT ![w] =
         [NoRequest EXCEPT !.refs = Refs, !.create = TRUE, !.seq = 1,
            !.new = [r \in Refs |->
                       IF r = TaskFile
                         THEN TaskSnapshot(1, 1, [i \in Items |-> item], 0, 0)
                         ELSE item]]]
  /\ mode' = [mode EXCEPT ![w] = "run"]
  /\ Goto(w, "plock")
  /\ UNCHANGED <<diskVars, txn, used, lockVars, cur, todo, scan, boundVars>>

LoadTask(w) ==
  /\ pc[w] = "loadTask"
  /\ IF files[TaskFile] = Absent
       THEN /\ Goto(w, "idle")
            /\ request' = [request EXCEPT ![w] = NoRequest]
       ELSE /\ Goto(w, "loadItems")
            /\ request' = [request EXCEPT ![w].base =
                 [rev |-> files[TaskFile].rev, seq |-> files[TaskFile].seq,
                  by |-> files[TaskFile].by]]
  /\ UNCHANGED <<diskVars, txn, used, lockVars, mode, cur, todo, scan, boundVars>>

\* _apply_item_transition and its task-level siblings: load every item, apply
\* the transition, aggregate the index.  The new revision and the event's
\* sequence come from the task loaded before the lock.
LoadItems(w) ==
  LET req  == request[w]
      base == req.base IN
  /\ pc[w] = "loadItems"
  /\ IF \E i \in Items : files[i] = Absent \/ (i \in req.refs /\ files[i].rev # req.exp[i])
       THEN /\ Goto(w, "idle")
            /\ request' = [request EXCEPT ![w] = NoRequest]
       ELSE /\ \E st \in Statuses :
                 LET item(i) == IF i \in req.refs
                                  THEN ItemSnapshot(files[i].rev + 1, st, 0)
                                  ELSE files[i]
                     task == TaskSnapshot(base.rev + 1, base.seq + 1,
                                          [i \in Items |-> item(i)], 0, base.by) IN
                 request' = [request EXCEPT
                   ![w].base = NoRequest.base, ![w].seq = base.seq + 1,
                   ![w].new = [r \in Refs |->
                                 IF r \notin req.refs THEN Absent
                                 ELSE IF r = TaskFile THEN task ELSE item(r)]]
            /\ Goto(w, "plock")
  /\ UNCHANGED <<diskVars, txn, used, lockVars, mode, cur, todo, scan, boundVars>>

\* recover_incomplete_transactions.
RequestRecovery(w) ==
  /\ pc[w] = "idle" /\ recoveries < MaxRecoveries
  /\ \E t \in TxnIds : Present(t)
  /\ mode' = [mode EXCEPT ![w] = "recover"]
  /\ Goto(w, "plock")
  /\ UNCHANGED <<diskVars, txn, used, lockVars, request, cur, todo, scan, boundVars>>

-----------------------------------------------------------------------------
(* _LockContext: the in-process lock, then the lock file *)

AcquireProcessLock(w) ==
  /\ pc[w] = "plock" /\ plock[ProcessOf[w]] = Free
  /\ plock' = [plock EXCEPT ![ProcessOf[w]] = w]
  /\ Goto(w, "flock")
  /\ UNCHANGED <<diskVars, txn, used, flock, localVars, boundVars>>

AcquireFileLock(w) ==
  /\ pc[w] = "flock" /\ flock = Free
  /\ flock' = w
  /\ IF mode[w] = "recover"
       THEN /\ Goto(w, "scan")
            /\ scan' = [scan EXCEPT ![w] = {t \in TxnIds : Present(t)}]
            /\ recoveries' = recoveries + 1
       ELSE /\ Goto(w, "begin")
            /\ UNCHANGED <<scan, recoveries>>
  /\ UNCHANGED <<diskVars, txn, used, plock, mode, request, cur, todo, faults,
                 crashes>>

\* The deadline passes while somebody else's lock file exists.
LockTimeout(w) ==
  /\ pc[w] = "flock" /\ flock # Free
  /\ plock' = [plock EXCEPT ![ProcessOf[w]] = Free]
  /\ request' = [request EXCEPT ![w] = NoRequest]
  /\ Goto(w, "idle")
  /\ UNCHANGED <<diskVars, txn, used, flock, mode, cur, todo, scan, boundVars>>

\* Mutant of Release: the in-process lock only.
ReleaseProcessLock(w) ==
  /\ pc[w] = "release"
  /\ plock' = [plock EXCEPT ![ProcessOf[w]] = Free]
  /\ request' = [request EXCEPT ![w] = NoRequest]
  /\ cur' = [cur EXCEPT ![w] = 0]
  /\ Goto(w, "idle")
  /\ UNCHANGED <<diskVars, txn, used, flock, mode, todo, scan, boundVars>>

\* release(): the lock file is deleted only by its owner; then the process lock.
Release(w) ==
  /\ pc[w] = "release"
  /\ flock' = IF flock = w THEN Free ELSE flock
  /\ plock' = [plock EXCEPT ![ProcessOf[w]] = Free]
  /\ request' = [request EXCEPT ![w] = NoRequest]
  /\ cur' = [cur EXCEPT ![w] = 0]
  /\ todo' = [todo EXCEPT ![w] = {}]
  /\ scan' = [scan EXCEPT ![w] = {}]
  /\ Goto(w, "idle")
  /\ UNCHANGED <<diskVars, txn, used, mode, boundVars>>

-----------------------------------------------------------------------------
(* run_task_transaction, under both locks *)

\* begin_transaction, first half: the directory exists, transaction.json does
\* not.  An expected revision of None demands that there is no task yet.
MakeTxnDir(w) ==
  /\ pc[w] = "begin"
  /\ IF (request[w].create /\ files[TaskFile] # Absent) \/ used = TxnIds
       THEN /\ Goto(w, "release")
            /\ UNCHANGED <<txn, used, cur>>
       ELSE \E t \in TxnIds \ used :
              /\ used' = used \cup {t}
              /\ cur' = [cur EXCEPT ![w] = t]
              /\ txn' = [txn EXCEPT ![t].phase = "husk"]
              /\ Goto(w, "writeTxn")
  /\ UNCHANGED <<diskVars, lockVars, mode, request, todo, scan, boundVars>>

\* begin_transaction, second half: transaction.json (prepared, no references)
\* and event.json.  Recovery treats a prepared transaction without references
\* the same with and without event.json, so the two files are one step.
WriteTxnFiles(w) ==
  /\ pc[w] = "writeTxn"
  /\ txn' = [txn EXCEPT ![cur[w]].phase = "prepared", ![cur[w]].event = TRUE,
                        ![cur[w]].seq = request[w].seq]
  /\ Goto(w, "prepare")
  /\ UNCHANGED <<diskVars, used, lockVars, localVars, boundVars>>

\* The compare-and-set of publish_prepared_snapshots: a file that exists must
\* have the expected revision (a creation expects none), one that does not
\* exist is written whatever was expected.
CasHolds(req) ==
  \A r \in req.refs :
    files[r] # Absent => ~req.create /\ files[r].rev = req.exp[r]

\* Mutant of PrepareSnapshots: a write set computed from an older task is
\* renumbered instead of refused.
PrepareRenumbered(w) ==
  LET t == cur[w]  req == request[w] IN
  /\ pc[w] = "prepare" /\ ~req.create
  /\ txn' = [txn EXCEPT
       ![t].refs = req.refs, ![t].old = files, ![t].seq = Len(log) + 1,
       ![t].new = [r \in Refs |->
          IF r \notin req.refs THEN Absent
          ELSE IF r # TaskFile THEN [req.new[r] EXCEPT !.by = t]
          ELSE [req.new[r] EXCEPT !.by = t, !.seq = Len(log) + 1]]]
  /\ todo' = [todo EXCEPT ![w] = req.refs]
  /\ Goto(w, "publish")
  /\ UNCHANGED <<diskVars, used, lockVars, mode, request, cur, scan, boundVars>>

\* prepare_snapshots: old/ and new/ inside the transaction's own directory,
\* then the references; then step 1 of publish_prepared_snapshots.
PrepareSnapshots(w) ==
  LET t == cur[w]  req == request[w] IN
  /\ pc[w] = "prepare"
  /\ txn' = [txn EXCEPT
       ![t].refs = req.refs,
       ![t].old = [r \in Refs |-> IF r \in req.refs THEN files[r] ELSE Absent],
       ![t].new = [r \in Refs |-> IF r \in req.refs
                                    THEN [req.new[r] EXCEPT !.by = t]
                                    ELSE Absent]]
  /\ todo' = [todo EXCEPT ![w] = req.refs]
  /\ Goto(w, IF CasHolds(req) THEN "publish" ELSE "undo")
  /\ UNCHANGED <<diskVars, used, lockVars, mode, request, cur, scan, boundVars>>

\* publish_prepared_snapshots, step 2: one os.replace per reference.
PublishSnapshot(w) ==
  /\ pc[w] = "publish" /\ todo[w] # {}
  /\ \E r \in todo[w] :
       /\ NextRef(todo[w], r)
       /\ files' = [files EXCEPT ![r] = txn[cur[w]].new[r]]
       /\ todo' = [todo EXCEPT ![w] = @ \ {r}]
  /\ UNCHANGED <<log, torn, stray, txn, used, lockVars, pc, mode, request, cur,
                 scan, boundVars>>

\* publish_prepared_snapshots, step 3.
MarkPublished(w) ==
  /\ pc[w] = "publish" /\ todo[w] = {}
  /\ txn' = [txn EXCEPT ![cur[w]].phase = "published"]
  /\ Goto(w, "append")
  /\ UNCHANGED <<diskVars, used, lockVars, localVars, boundVars>>

\* Mutant of AppendEvent: events.ndjson opened with "wb" instead of "ab".
AppendTruncating(w) ==
  /\ pc[w] = "append"
  /\ log' = <<Event(cur[w], txn[cur[w]].seq)>>
  /\ Goto(w, "markAppended")
  /\ UNCHANGED <<files, torn, stray, txn, used, lockVars, localVars, boundVars>>

\* append_transaction_event: an event already in the log is not appended
\* again, any other event must continue the sequence.  A log that does not
\* parse, or a gap, is an error and leads to the rollback.
AppendEvent(w) ==
  LET t == cur[w] IN
  /\ pc[w] = "append"
  /\ IF ~txn[t].event \/ torn \/ ~(InLog(t) \/ InSequence(t))
       THEN Goto(w, "undo") /\ UNCHANGED log
       ELSE /\ log' = IF InLog(t) THEN log ELSE Append(log, Event(t, txn[t].seq))
            /\ Goto(w, "markAppended")
  /\ UNCHANGED <<files, torn, stray, txn, used, lockVars, localVars, boundVars>>

MarkAppended(w) ==
  /\ pc[w] = "markAppended"
  /\ txn' = [txn EXCEPT ![cur[w]].phase = "appended"]
  /\ Goto(w, "commit")
  /\ UNCHANGED <<diskVars, used, lockVars, localVars, boundVars>>

\* commit_transaction and _finalize_as_committed: verify, then mark.  The
\* event is out: a failed verification leaves everything as it is.
MarkCommitted(w) ==
  /\ pc[w] = "commit"
  /\ IF Committable(cur[w])
       THEN /\ txn' = [txn EXCEPT ![cur[w]].phase = "committed"]
            /\ Goto(w, "cleanup")
       ELSE Goto(w, "release") /\ UNCHANGED txn
  /\ UNCHANGED <<diskVars, used, lockVars, localVars, boundVars>>

\* shutil.rmtree of the transaction directory.
RemoveTxnDir(w) ==
  /\ pc[w] = "cleanup"
  /\ txn' = [txn EXCEPT ![cur[w]] = NoTxn]
  /\ Goto(w, IF mode[w] = "recover" THEN "scan" ELSE "release")
  /\ UNCHANGED <<diskVars, used, lockVars, localVars, boundVars>>

-----------------------------------------------------------------------------
(* rollback_transaction *)

\* Mutant of EnterRollback: it trusts the phase alone.
EnterRollbackByPhase(w) ==
  LET t == cur[w] IN
  /\ pc[w] = "undo"
  /\ IF txn[t].phase \in {"appended", "committed"}
       THEN Goto(w, "release") /\ UNCHANGED todo
       ELSE Goto(w, "restore") /\ todo' = [todo EXCEPT ![w] = txn[t].refs]
  /\ UNCHANGED <<diskVars, txn, used, lockVars, mode, request, cur, scan, boundVars>>

\* Refused once the event is known, or may be, in the log: the exception
\* leaves the lock context with the transaction as it is.
EnterRollback(w) ==
  LET t == cur[w] IN
  /\ pc[w] = "undo"
  /\ IF txn[t].phase \in {"appended", "committed"} \/ (txn[t].event /\ torn)
       \/ AlreadyAppended(t)
       THEN /\ Goto(w, "release")
            /\ UNCHANGED todo
       ELSE /\ Goto(w, "restore")
            /\ todo' = [todo EXCEPT ![w] = txn[t].refs]
  /\ UNCHANGED <<diskVars, txn, used, lockVars, mode, request, cur, scan, boundVars>>

\* Mutant of RestoreSnapshot: a file that did not exist stays.
RestoreExisting(w) ==
  /\ pc[w] = "restore" /\ todo[w] # {}
  /\ \E r \in todo[w] :
       /\ NextRef(todo[w], r)
       /\ files' = [files EXCEPT ![r] = IF txn[cur[w]].old[r] = Absent THEN @ ELSE txn[cur[w]].old[r]]
       /\ todo' = [todo EXCEPT ![w] = @ \ {r}]
  /\ UNCHANGED <<log, torn, stray, txn, used, lockVars, pc, mode, request, cur,
                 scan, boundVars>>

\* Put old/ back; a file that did not exist is unlinked.
RestoreSnapshot(w) ==
  /\ pc[w] = "restore" /\ todo[w] # {}
  /\ \E r \in todo[w] :
       /\ NextRef(todo[w], r)
       /\ files' = [files EXCEPT ![r] = txn[cur[w]].old[r]]
       /\ todo' = [todo EXCEPT ![w] = @ \ {r}]
  /\ UNCHANGED <<log, torn, stray, txn, used, lockVars, pc, mode, request, cur,
                 scan, boundVars>>

\* transaction.json: prepared again, without references.
MarkRolledBack(w) ==
  /\ pc[w] = "restore" /\ todo[w] = {}
  /\ txn' = [txn EXCEPT ![cur[w]].phase = "prepared", ![cur[w]].refs = {}]
  /\ Goto(w, "cleanup")
  /\ UNCHANGED <<diskVars, used, lockVars, localVars, boundVars>>

-----------------------------------------------------------------------------
(* _recover_locked and _recover_one *)

\* The least remaining id first: sorted() over the directory names.
RecoverNext(w) ==
  /\ pc[w] = "scan"
  /\ \E t \in scan[w] :
       /\ \A u \in scan[w] : t <= u
       /\ cur' = [cur EXCEPT ![w] = t]
       /\ scan' = [scan EXCEPT ![w] = @ \ {t}]
       /\ Goto(w,
            CASE txn[t].phase = "husk" -> "release"
              [] txn[t].phase = "prepared" -> IF AnyMatchesNew(t) THEN "undo" ELSE "cleanup"
              [] txn[t].phase = "published" -> "append"
              [] OTHER -> "commit")
  /\ UNCHANGED <<diskVars, txn, used, lockVars, mode, request, todo, boundVars>>

RecoverDone(w) ==
  /\ pc[w] = "scan" /\ scan[w] = {}
  /\ Goto(w, "release")
  /\ UNCHANGED <<diskVars, txn, used, lockVars, localVars, boundVars>>

-----------------------------------------------------------------------------
(* Failing file operations (OSError) *)

\* Where the exception of a failing write leads.  A failure of the append
\* itself, and of the removal of the directory, have actions of their own.
AfterFault(label) ==
  IF label \in {"prepare", "publish", "markAppended"} THEN "undo" ELSE "release"

WriteFails(w) ==
  /\ faults < MaxFaults /\ faults' = faults + 1
  /\ pc[w] \in {"writeTxn", "prepare", "publish", "markAppended", "commit", "restore"}
  /\ Goto(w, AfterFault(pc[w]))
  /\ UNCHANGED <<diskVars, txn, used, lockVars, localVars, crashes, recoveries>>

\* Nothing, part of the line, or all of it reached the file (fsync failed).
AppendFails(w) ==
  LET t == cur[w] IN
  /\ faults < MaxFaults /\ faults' = faults + 1
  /\ pc[w] = "append" /\ txn[t].event /\ ~torn /\ ~InLog(t) /\ InSequence(t)
  /\ \/ UNCHANGED <<log, torn>>
     \/ torn' = TRUE /\ UNCHANGED log
     \/ log' = Append(log, Event(t, txn[t].seq)) /\ UNCHANGED torn
  /\ Goto(w, "undo")
  /\ UNCHANGED <<files, stray, txn, used, lockVars, localVars, crashes,
                 recoveries>>

\* What an interrupted rmtree leaves: all of it, all but event.json, or
\* anything without transaction.json.
PartlyRemoved(t) ==
  \/ txn' = txn
  \/ txn' = [txn EXCEPT ![t].event = FALSE]
  \/ txn' = [txn EXCEPT ![t] = [NoTxn EXCEPT !.phase = "husk"]]

RemoveFails(w) ==
  /\ faults < MaxFaults /\ faults' = faults + 1
  /\ pc[w] = "cleanup"
  /\ PartlyRemoved(cur[w])
  /\ Goto(w, "release")
  /\ UNCHANGED <<diskVars, used, lockVars, localVars, crashes, recoveries>>

-----------------------------------------------------------------------------
(* Crashes *)

\* The process dies: its threads and its in-process lock are gone, a lock
\* file one of them owned stays.  The operation under way may be half done.
Crash(p) ==
  LET dead == {w \in Workers : ProcessOf[w] = p}
      In(labels) == {w \in dead : flock = w /\ pc[w] \in labels} IN
  /\ crashes < MaxCrashes /\ crashes' = crashes + 1
  /\ \E w \in dead : pc[w] # "idle"
  /\ pc' = [w \in Workers |-> IF w \in dead THEN "idle" ELSE pc[w]]
  /\ mode' = [w \in Workers |-> IF w \in dead THEN "run" ELSE mode[w]]
  /\ request' = [w \in Workers |-> IF w \in dead THEN NoRequest ELSE request[w]]
  /\ cur' = [w \in Workers |-> IF w \in dead THEN 0 ELSE cur[w]]
  /\ todo' = [w \in Workers |-> IF w \in dead THEN {} ELSE todo[w]]
  /\ scan' = [w \in Workers |-> IF w \in dead THEN {} ELSE scan[w]]
  /\ plock' = [plock EXCEPT ![p] = Free]
  /\ flock' = IF flock \in dead THEN Stale ELSE flock
  /\ \/ UNCHANGED <<torn, stray, txn>>
     \/ /\ \E w \in In({"append"}) :
             txn[cur[w]].event /\ ~torn /\ ~InLog(cur[w]) /\ InSequence(cur[w])
        /\ torn' = TRUE /\ UNCHANGED <<stray, txn>>
     \/ /\ \E w \in In({"publish", "restore"}) :
             \E r \in todo[w] \ {TaskFile} : NextRef(todo[w], r)
        /\ stray' = TRUE /\ UNCHANGED <<torn, txn>>
     \/ /\ \E w \in In({"cleanup"}) : PartlyRemoved(cur[w])
        /\ UNCHANGED <<torn, stray>>
  /\ UNCHANGED <<files, log, used, faults, recoveries>>

\* The operator deletes a lock file nobody owns.  No code does this.
RemoveStaleLock ==
  /\ flock = Stale /\ flock' = Free
  /\ UNCHANGED <<diskVars, txn, used, plock, pc, localVars, boundVars>>

-----------------------------------------------------------------------------
Submit(w) == ReadRevisions(w) \/ RequestCreation(w) \/ RequestRecovery(w)

Step(w) ==
  \/ LoadTask(w) \/ LoadItems(w)
  \/ AcquireProcessLock(w) \/ AcquireFileLock(w) \/ LockTimeout(w) \/ Release(w)
  \/ MakeTxnDir(w) \/ WriteTxnFiles(w) \/ PrepareSnapshots(w)
  \/ PublishSnapshot(w) \/ MarkPublished(w)
  \/ AppendEvent(w) \/ MarkAppended(w) \/ MarkCommitted(w) \/ RemoveTxnDir(w)
  \/ EnterRollback(w) \/ RestoreSnapshot(w) \/ MarkRolledBack(w)
  \/ RecoverNext(w) \/ RecoverDone(w)

Fault(w) == WriteFails(w) \/ AppendFails(w) \/ RemoveFails(w)

Next ==
  \/ \E w \in Workers : Submit(w) \/ Step(w) \/ Fault(w)
  \/ \E p \in Processes : Crash(p)
  \/ RemoveStaleLock

Spec == Init /\ [][Next]_vars

\* A thread that is inside the code takes its next step; requests, failures,
\* crashes and the operator owe nothing.  Retrying a recovery is the advice of
\* its retryable LOCK_CONFLICT.
FairSpec ==
  /\ Spec
  /\ \A w \in Workers : WF_vars(Step(w)) /\ WF_vars(RequestRecovery(w))

-----------------------------------------------------------------------------
(* Properties *)

Critical == {"begin", "writeTxn", "prepare", "publish", "append", "markAppended",
             "commit", "cleanup", "undo", "restore", "scan", "release"}

Labels == {"idle", "loadTask", "loadItems", "plock", "flock"} \cup Critical

Revisions == [Refs -> Nat]
Writers == TxnIds \cup {0}
ItemSnapshots == [rev : Nat, st : Statuses, by : Writers]
TaskSnapshots == [rev : Nat, seq : Nat, by : Writers, from : Writers,
                  index : [Items -> [rev : Nat, st : Statuses]]]
SnapshotOf(r) == IF r = TaskFile THEN TaskSnapshots ELSE ItemSnapshots
FileOf(r) == SnapshotOf(r) \cup {Absent}
\* A file that does not exist is no snapshot.
ASSUME AbsentAssumption == Absent \notin ItemSnapshots /\ Absent \notin TaskSnapshots
FileStates == {f \in [Refs -> ItemSnapshots \cup TaskSnapshots \cup {Absent}] :
                 \A r \in Refs : f[r] \in FileOf(r)}

Events == [txn : Writers, seq : Nat]
TxnRecords == [phase : Phases, event : BOOLEAN, refs : SUBSET Refs, seq : Nat,
               old : FileStates, new : FileStates]
Requests == [refs : SUBSET Refs, create : BOOLEAN, exp : Revisions, seq : Nat,
             new : FileStates, base : [rev : Nat, seq : Nat, by : Writers]]

TypeOK ==
  /\ files \in FileStates
  /\ log \in Seq(Events)
  /\ torn \in BOOLEAN /\ stray \in BOOLEAN
  /\ txn \in [TxnIds -> TxnRecords]
  /\ used \subseteq TxnIds
  /\ plock \in [Processes -> Workers \cup {Free}]
  /\ flock \in Workers \cup {Free, Stale}
  /\ pc \in [Workers -> Labels]
  /\ mode \in [Workers -> {"run", "recover"}]
  /\ request \in [Workers -> Requests]
  /\ cur \in [Workers -> Writers]
  /\ todo \in [Workers -> SUBSET Refs]
  /\ scan \in [Workers -> SUBSET TxnIds]

\* At most one thread, of all processes, is between acquiring and releasing
\* task.lock (_LockContext), whatever crashed, timed out or was cleaned up.
MutualExclusion ==
  \A v, w \in Workers : pc[v] \in Critical /\ pc[w] \in Critical => v = w

\* events.ndjson is numbered 1, 2, 3, ... and holds no transaction's event
\* twice, across failed, repeated and recovered appends
\* (append_transaction_event).
LogGapless ==
  \A k \in 1..Len(log) :
    /\ log[k].seq = k
    /\ \A j \in 1..Len(log) : log[j].txn = log[k].txn => j = k

Clean == Unresolved = {} /\ ~torn

\* With no unfinished transaction on disk, task.json, the item files and the
\* event log agree: the task was written by the last event's transaction,
\* last_event_sequence is its number and item_index is that of the item files.
SnapshotsInSync ==
  Clean /\ files[TaskFile] # Absent =>
    /\ Len(log) > 0
    /\ files[TaskFile].seq = Len(log)
    /\ files[TaskFile].by = LastEvent.txn
    /\ \A i \in Items :
         files[i] # Absent /\ files[TaskFile].index[i] = IndexEntry(files[i])

\* Without failures, each task snapshot was computed from the snapshot of the
\* event before it: no committed change of the task is overwritten by one that
\* never saw it (_apply_item_transition reads before the lock, the checks under
\* the lock have to catch it).
NoLostUpdate ==
  faults = 0 /\ crashes = 0 /\ Clean /\ Len(log) > 1 => files[TaskFile].from = log[Len(log) - 1].txn

\* A transaction that is gone without an event left no snapshot behind
\* (rollback_transaction, _recover_one).
NoTrace ==
  \A t \in used : txn[t].phase = "none" /\ t \notin LogTxns =>
    \A r \in Refs : files[r] # Absent => files[r].by # t

\* A snapshot whose event is in the log is never replaced by an older one:
\* no rollback reaches an appended transaction (rollback_transaction).
LoggedNeverReverted ==
  [][\A r \in Refs : files[r] # Absent /\ files[r].by \in LogTxns
        => files'[r] # Absent /\ files'[r].rev >= files[r].rev]_files

\* While a call rolls back its transaction, no file of a logged one changes: not
\* even if other calls have failed or died, have been recovered, or have left
\* their transactions behind (rollback_transaction).
RollbackContained ==
  [][\A w \in Workers : mode[w] = "run" /\ pc[w] = "restore" =>
       \A r \in Refs : files[r] # Absent /\ files[r].by \in LogTxns => files'[r] = files[r]]_files

\* A call that removes its transaction without an event has left no snapshot of
\* it, whatever others have left behind (rollback_transaction).
CallLeavesNoTrace ==
  \A w \in Workers : mode[w] = "run" /\ pc[w] = "cleanup" /\ cur[w] \notin LogTxns =>
    \A r \in Refs : files[r] # Absent => files[r].by # cur[w]

\* The write set of a transaction fits the files it did not touch: the index
\* it publishes is the index of the items, so that, its event appended, it
\* passes its own verification (_apply_item_transition, commit_transaction).
AppendedIsCommittable ==
  \A w \in Workers : pc[w] = "commit" /\ mode[w] = "run" => Committable(cur[w])

\* A transaction whose commit failed after its event is finished by the next
\* recovery (commit_transaction).
RecoveryFinishes ==
  \A w \in Workers : pc[w] = "commit" /\ mode[w] = "recover" => Committable(cur[w])

\* Every call ends and gives its locks back, however its file operations fail
\* (_LockContext.__exit__).
EveryCallEnds ==
  \A w \in Workers : pc[w] # "idle" ~> pc[w] = "idle" /\ flock # w

\* Transactions on disk that no running call works on.
Abandoned == {t \in TxnIds : Present(t) /\ \A w \in Workers : cur[w] # t}

\* After a crash some recovery gets to look at the transactions left behind
\* (recover_incomplete_transactions).
RecoveryEventuallyRuns ==
  Abandoned # {} ~> (Abandoned = {} \/ \E w \in Workers : pc[w] = "scan")

\* The event log implements the abstract history (append_transaction_event).
History == INSTANCE TaskHistory WITH
  Transactions <- TxnIds \cup {0},
  history <- [k \in 1..Len(log) |-> log[k].txn]

HistorySpec == History!Spec

-----------------------------------------------------------------------------
(* The inductive invariant behind MutualExclusion, LogGapless, HistorySpec *)

Owning == Critical \ {"begin", "scan", "release"}

\* Whoever is between acquiring and releasing owns the lock file.
LockInv == \A w \in Workers : pc[w] \in Critical => flock = w

\* A write set that will be staged has a snapshot for each of its references.
RequestInv ==
  \A w \in Workers :
    /\ pc[w] = "idle" => request[w].refs = {}
    /\ pc[w] \in {"plock", "flock", "begin", "writeTxn", "prepare"} =>
         \A r \in request[w].refs : request[w].new[r] \in SnapshotOf(r)

\* What a worker works on is on disk; what recovery has yet to visit, too.
CurAt(w) ==
  /\ pc[w] \notin Critical => cur[w] = 0 /\ scan[w] = {}
  /\ cur[w] \notin scan[w]
  /\ \A t \in scan[w] : Present(t)
  /\ pc[w] \in Owning => cur[w] \in TxnIds /\ Present(cur[w])
  /\ pc[w] \in Owning \ {"writeTxn"} => txn[cur[w]].phase # "husk"
  /\ pc[w] = "writeTxn" => cur[w] \notin LogTxns

CurInv == \A w \in Workers : CurAt(w)

\* An event in the log is that of its transaction, whose id was handed out.
LogInv ==
  /\ \A t \in LogTxns : t = 0 \/ t \in used
  /\ \A t \in TxnIds : Present(t) => t \in used
  /\ \A t \in LogTxns \cap Unresolved : InLog(t)
  /\ LogGapless

IInv == TypeOK /\ LockInv /\ RequestInv /\ CurInv /\ LogInv
=============================================================================
