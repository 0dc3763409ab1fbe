----------------------- MODULE TaskTransactionProofs -----------------------
(***************************************************************************)
(* Proofs about TaskTransaction for every number of threads, processes,    *)
(* items and transactions: first the invariant that every failure and      *)
(* crash keeps (types, lock, write sets, transactions, log) and what       *)
(* follows from it, then the order of the disk until the first failure,    *)
(* then what a failing call takes back, whatever else fails or crashes.    *)
(***************************************************************************)
EXTENDS TaskTransaction, TLAPS

ConstantFacts ==
  /\ ProcessOf \in [Workers -> Processes]
  /\ Free \notin Workers /\ Stale \notin Workers /\ Free # Stale
  /\ TxnIds \subseteq Nat \ {0}
  /\ TaskFile \notin Items
  /\ Statuses # {}

\* The assumptions on the constants, as facts the steps can use.
LEMMA Constants == ConstantFacts
  BY WorkersAssumption, TxnIdsAssumption, RefsAssumption, StatusesAssumption
  DEF ConstantFacts

\* Writing one file of a directory keeps it a directory of snapshots.
LEMMA FileUpdate ==
  ASSUME NEW f \in FileStates, NEW r \in Refs, NEW v \in FileOf(r)
  PROVE  [f EXCEPT ![r] = v] \in FileStates
  BY RefsAssumption DEF FileStates, FileOf, SnapshotOf, Refs

\* The two kinds of snapshot, where a file is known to exist.
LEMMA FileTypes ==
  ASSUME NEW f \in FileStates
  PROVE  /\ f[TaskFile] # Absent => f[TaskFile] \in TaskSnapshots
         /\ \A i \in Items : f[i] # Absent => f[i] \in ItemSnapshots
         /\ \A r \in Refs : f[r] \in FileOf(r)
         /\ \A r \in Refs : f[r] # Absent => f[r].rev \in Nat
  BY RefsAssumption DEF FileStates, FileOf, SnapshotOf, Refs, TaskSnapshots, ItemSnapshots

\* A task directory without files is a file state.
LEMMA NoFilesTyped == NoFiles \in FileStates
  BY DEF NoFiles, FileStates, FileOf, SnapshotOf

\* The empty write set is a write set.
LEMMA NoRequestTyped ==
  NoRequest \in Requests
  BY NoFilesTyped DEF NoRequest, Requests, Revisions, Writers

\* An absent transaction directory is a transaction record.
LEMMA NoTxnTyped ==
  NoTxn \in TxnRecords
  BY NoFilesTyped DEF NoTxn, TxnRecords, Phases

\* Saving transaction.json changes single fields of a transaction.
LEMMA TxnUpdate ==
  ASSUME NEW T \in [TxnIds -> TxnRecords], NEW t \in TxnIds
  PROVE  /\ \A p \in Phases : [T EXCEPT ![t].phase = p] \in [TxnIds -> TxnRecords]
         /\ \A p \in Phases, n \in Nat :
              [T EXCEPT ![t].phase = p, ![t].event = TRUE, ![t].seq = n]
                \in [TxnIds -> TxnRecords]
         /\ \A p \in Phases :
              [T EXCEPT ![t].phase = p, ![t].refs = {}] \in [TxnIds -> TxnRecords]
         /\ [T EXCEPT ![t].event = FALSE] \in [TxnIds -> TxnRecords]
         /\ \A rec \in TxnRecords : [T EXCEPT ![t] = rec] \in [TxnIds -> TxnRecords]
         /\ \A R \in SUBSET Refs, f, g \in FileStates :
              [T EXCEPT ![t].refs = R, ![t].old = f, ![t].new = g]
                \in [TxnIds -> TxnRecords]
         /\ [NoTxn EXCEPT !.phase = "husk"] \in TxnRecords
  BY NoTxnTyped DEF TxnRecords, Phases

\* Reading the task, then the items, changes single fields of a write set.
LEMMA RequestUpdate ==
  ASSUME NEW rq \in Requests, NEW b \in [rev : Nat, seq : Nat, by : Writers]
  PROVE  /\ [rq EXCEPT !.base = b] \in Requests
         /\ \A n \in Nat, f \in FileStates :
              [rq EXCEPT !.base = b, !.seq = n, !.new = f] \in Requests
  BY DEF Requests

\* The files of a freshly created task are a file state.
LEMMA InitialFilesTyped == InitialFiles \in FileStates
  <1>1. InitialItem \in ItemSnapshots
    BY StatusesAssumption DEF InitialItem, ItemSnapshot, ItemSnapshots, Writers
  <1>2. TaskSnapshot(1, 1, [i \in Items |-> InitialItem], 0, 0) \in TaskSnapshots
    BY <1>1 DEF TaskSnapshot, TaskSnapshots, IndexEntry, ItemSnapshots, Writers
  <1>3. QED
    BY <1>1, <1>2 DEF InitialFiles, FileStates, FileOf, SnapshotOf

\* A sequence of one element is a sequence.
LEMMA SingletonSeq ==
  ASSUME NEW S, NEW e \in S
  PROVE  <<e>> \in Seq(S) /\ <<>> \in Seq(S)
  OBVIOUS

\* The initial states are typed.
LEMMA InitTypeOK == Init => TypeOK
  <1> SUFFICES ASSUME Init PROVE TypeOK
    OBVIOUS
  <1>1. files \in FileStates
    BY InitialFilesTyped, NoFilesTyped DEF Init
  <1>2. log \in Seq(Events)
    <2>1. Event(0, 1) \in Events
      BY DEF Event, Events, Writers
    <2>2. QED
      BY <2>1, SingletonSeq DEF Init
  <1>3. QED
    BY <1>1, <1>2, NoTxnTyped, NoRequestTyped, WorkersAssumption
    DEF Init, TypeOK, Labels, Writers

-----------------------------------------------------------------------------
(* Type correctness is preserved *)


\* Steps that move a worker and leave the transaction directories alone.
LEMMA TypeStepControl ==
  ASSUME TypeOK, CurInv, NEW w \in Workers
  PROVE  /\ (RequestRecovery(w) => TypeOK')
         /\ (AcquireProcessLock(w) => TypeOK')
         /\ (AcquireFileLock(w) => TypeOK')
         /\ (LockTimeout(w) => TypeOK')
         /\ (Release(w) => TypeOK')
         /\ (EnterRollback(w) => TypeOK')
         /\ (RecoverNext(w) => TypeOK')
         /\ (RecoverDone(w) => TypeOK')
         /\ (WriteFails(w) => TypeOK')
<1> USE NoRequestTyped, Constants
    DEF TypeOK, Goto, diskVars, lockVars, localVars, boundVars, Labels, Critical,
        ConstantFacts, Writers
<1>1. RequestRecovery(w) => TypeOK'
  BY DEF RequestRecovery
<1>2. AcquireProcessLock(w) => TypeOK'
  BY DEF AcquireProcessLock
<1>3. AcquireFileLock(w) => TypeOK'
  BY DEF AcquireFileLock
<1>4. LockTimeout(w) => TypeOK'
  BY DEF LockTimeout
<1>5. Release(w) => TypeOK'
  <2> SUFFICES ASSUME Release(w) PROVE TypeOK'
    OBVIOUS
  <2>1. flock' \in Workers \cup {Free, Stale} /\ plock' \in [Processes -> Workers \cup {Free}]
    BY DEF Release
  <2>2. QED
    BY <2>1 DEF Release
<1>6. EnterRollback(w) => TypeOK'
  <2> SUFFICES ASSUME EnterRollback(w) PROVE TypeOK'
    OBVIOUS
  <2>1. txn[cur[w]].refs \subseteq Refs
    BY DEF EnterRollback, CurInv, CurAt, Owning, TxnRecords
  <2>2. QED
    BY <2>1 DEF EnterRollback
<1>7. RecoverNext(w) => TypeOK'
  <2> SUFFICES ASSUME RecoverNext(w) PROVE TypeOK'
    OBVIOUS
  <2>1. PICK t \in scan[w] : /\ cur' = [cur EXCEPT ![w] = t]
                             /\ scan' = [scan EXCEPT ![w] = @ \ {t}]
                             /\ pc' \in {[pc EXCEPT ![w] = l] :
                                   l \in {"release", "undo", "cleanup", "append", "commit"}}
    BY DEF RecoverNext
  <2>2. QED
    BY <2>1 DEF RecoverNext
<1>8. RecoverDone(w) => TypeOK'
  BY DEF RecoverDone
<1>9. WriteFails(w) => TypeOK'
  BY DEF WriteFails, AfterFault
<1> QED
  BY <1>1, <1>2, <1>3, <1>4, <1>5, <1>6, <1>7, <1>8, <1>9

\* Steps that save transaction.json, make or remove the directory.
LEMMA TypeStepTxn ==
  ASSUME TypeOK, CurInv, NEW w \in Workers
  PROVE  /\ (MakeTxnDir(w) => TypeOK')
         /\ (WriteTxnFiles(w) => TypeOK')
         /\ (MarkPublished(w) => TypeOK')
         /\ (MarkAppended(w) => TypeOK')
         /\ (MarkCommitted(w) => TypeOK')
         /\ (RemoveTxnDir(w) => TypeOK')
         /\ (MarkRolledBack(w) => TypeOK')
         /\ (RemoveFails(w) => TypeOK')
<1> USE Constants
    DEF Goto, diskVars, lockVars, localVars, boundVars, ConstantFacts
<1>1. pc[w] \in Owning => cur[w] \in TxnIds
  BY DEF CurInv, CurAt
<1>2. MakeTxnDir(w) => TypeOK'
  <2> SUFFICES ASSUME MakeTxnDir(w) PROVE TypeOK'
    OBVIOUS
  <2>1. CASE UNCHANGED <<txn, used, cur>>
    BY <2>1 DEF MakeTxnDir, TypeOK, Labels, Critical
  <2>2. ASSUME NEW t \in TxnIds \ used,
               used' = used \cup {t}, cur' = [cur EXCEPT ![w] = t],
               txn' = [txn EXCEPT ![t].phase = "husk"], Goto(w, "writeTxn")
        PROVE  TypeOK'
    <3>1. txn' \in [TxnIds -> TxnRecords]
      BY <2>2, TxnUpdate DEF TypeOK, Phases
    <3>2. used' \subseteq TxnIds /\ cur' \in [Workers -> Writers]
      BY <2>2 DEF TypeOK, Writers
    <3>3. pc' \in [Workers -> Labels]
      BY <2>2 DEF TypeOK, Labels, Critical
    <3>4. QED
      BY <3>1, <3>2, <3>3 DEF MakeTxnDir, TypeOK
  <2>3. QED
    BY <2>1, <2>2 DEF MakeTxnDir
<1>3. WriteTxnFiles(w) => TypeOK'
  <2> SUFFICES ASSUME WriteTxnFiles(w) PROVE TypeOK'
    OBVIOUS
  <2>1. txn' \in [TxnIds -> TxnRecords]
    BY <1>1, TxnUpdate, NoTxnTyped
    DEF WriteTxnFiles, TypeOK, Owning, Critical, Phases, Requests
  <2>2. QED
    BY <2>1, <1>1 DEF WriteTxnFiles, TypeOK, Labels, Owning, Critical, Writers
<1>4. MarkPublished(w) => TypeOK'
  <2> SUFFICES ASSUME MarkPublished(w) PROVE TypeOK'
    OBVIOUS
  <2>1. txn' \in [TxnIds -> TxnRecords]
    BY <1>1, TxnUpdate, NoTxnTyped
    DEF MarkPublished, TypeOK, Owning, Critical, Phases, Requests
  <2>2. QED
    BY <2>1, <1>1 DEF MarkPublished, TypeOK, Labels, Owning, Critical, Writers
<1>5. MarkAppended(w) => TypeOK'
  <2> SUFFICES ASSUME MarkAppended(w) PROVE TypeOK'
    OBVIOUS
  <2>1. txn' \in [TxnIds -> TxnRecords]
    BY <1>1, TxnUpdate, NoTxnTyped
    DEF MarkAppended, TypeOK, Owning, Critical, Phases, Requests
  <2>2. QED
    BY <2>1, <1>1 DEF MarkAppended, TypeOK, Labels, Owning, Critical, Writers
<1>6. MarkCommitted(w) => TypeOK'
  <2> SUFFICES ASSUME MarkCommitted(w) PROVE TypeOK'
    OBVIOUS
  <2>1. txn' = txn \/ txn' = [txn EXCEPT ![cur[w]].phase = "committed"]
    BY DEF MarkCommitted
  <2>2. cur[w] \in TxnIds
    BY <1>1 DEF MarkCommitted, Owning, Critical
  <2>3. txn' \in [TxnIds -> TxnRecords]
    <3>1. txn \in [TxnIds -> TxnRecords] /\ "committed" \in Phases
      BY DEF TypeOK, Phases
    <3>2. [txn EXCEPT ![cur[w]].phase = "committed"] \in [TxnIds -> TxnRecords]
      BY <2>2, <3>1, TxnUpdate
    <3>3. QED
      BY <2>1, <3>1, <3>2
  <2>4. pc' \in [Workers -> Labels]
    BY DEF MarkCommitted, TypeOK, Labels, Critical
  <2>5. QED
    BY <2>3, <2>4 DEF MarkCommitted, TypeOK
<1>7. RemoveTxnDir(w) => TypeOK'
  <2> SUFFICES ASSUME RemoveTxnDir(w) PROVE TypeOK'
    OBVIOUS
  <2>1. txn' \in [TxnIds -> TxnRecords]
    BY <1>1, TxnUpdate, NoTxnTyped
    DEF RemoveTxnDir, TypeOK, Owning, Critical, Phases, Requests
  <2>2. QED
    BY <2>1, <1>1 DEF RemoveTxnDir, TypeOK, Labels, Owning, Critical, Writers
<1>8. MarkRolledBack(w) => TypeOK'
  <2> SUFFICES ASSUME MarkRolledBack(w) PROVE TypeOK'
    OBVIOUS
  <2>1. txn' \in [TxnIds -> TxnRecords]
    BY <1>1, TxnUpdate, NoTxnTyped
    DEF MarkRolledBack, TypeOK, Owning, Critical, Phases, Requests
  <2>2. QED
    BY <2>1, <1>1 DEF MarkRolledBack, TypeOK, Labels, Owning, Critical, Writers
<1>9. RemoveFails(w) => TypeOK'
  <2> SUFFICES ASSUME RemoveFails(w) PROVE TypeOK'
    OBVIOUS
  <2>1. cur[w] \in TxnIds
    BY <1>1 DEF RemoveFails, Owning, Critical
  <2>2. txn' \in [TxnIds -> TxnRecords]
    <3>1. txn \in [TxnIds -> TxnRecords]
      BY DEF TypeOK
    <3>2. \/ txn' = txn \/ txn' = [txn EXCEPT ![cur[w]].event = FALSE]
          \/ txn' = [txn EXCEPT ![cur[w]] = [NoTxn EXCEPT !.phase = "husk"]]
      BY DEF RemoveFails, PartlyRemoved
    <3>3. /\ [txn EXCEPT ![cur[w]].event = FALSE] \in [TxnIds -> TxnRecords]
          /\ [txn EXCEPT ![cur[w]] = [NoTxn EXCEPT !.phase = "husk"]]
               \in [TxnIds -> TxnRecords]
      BY <2>1, <3>1, TxnUpdate
    <3>4. QED
      BY <3>1, <3>2, <3>3
  <2>3. QED
    BY <2>2 DEF RemoveFails, TypeOK, Labels, Critical
<1> QED
  BY <1>2, <1>3, <1>4, <1>5, <1>6, <1>7, <1>8, <1>9

\* The manager's reads build a typed write set.
LEMMA TypeStepRequest ==
  ASSUME TypeOK, NEW w \in Workers
  PROVE  /\ (ReadRevisions(w) => TypeOK')
         /\ (RequestCreation(w) => TypeOK')
         /\ (LoadTask(w) => TypeOK')
         /\ (LoadItems(w) => TypeOK')
<1> USE DEF Goto, diskVars, lockVars, localVars, boundVars
<1>1. ASSUME request' \in [Workers -> Requests], mode' \in [Workers -> {"run", "recover"}],
             pc' \in [Workers -> Labels],
             UNCHANGED <<diskVars, txn, used, lockVars, cur, todo, scan>>
      PROVE  TypeOK'
  BY <1>1 DEF TypeOK
<1>2. ASSUME NEW rq \in Requests, request' = [request EXCEPT ![w] = rq]
      PROVE  request' \in [Workers -> Requests]
  BY <1>2 DEF TypeOK
<1>3. ReadRevisions(w) => TypeOK'
  <2> SUFFICES ASSUME ReadRevisions(w) PROVE TypeOK'
    OBVIOUS
  <2>1. PICK refs \in {{TaskFile}} \cup {{TaskFile, i} : i \in Items} :
          /\ \A r \in refs : files[r] # Absent
          /\ request' = [request EXCEPT ![w] =
               [NoRequest EXCEPT !.refs = refs,
                  !.exp = [r \in Refs |-> IF r \in refs THEN files[r].rev ELSE 0]]]
    BY DEF ReadRevisions
  <2>2. [r \in Refs |-> IF r \in refs THEN files[r].rev ELSE 0] \in Revisions
    BY <2>1, FileTypes DEF Revisions, TypeOK
  <2>3. refs \subseteq Refs
    BY DEF Refs
  <2>4. [NoRequest EXCEPT !.refs = refs,
           !.exp = [r \in Refs |-> IF r \in refs THEN files[r].rev ELSE 0]] \in Requests
    BY <2>2, <2>3, NoRequestTyped DEF Requests
  <2>5. QED
    BY <1>1, <1>2, <2>1, <2>4 DEF ReadRevisions, TypeOK, Labels
<1>4. RequestCreation(w) => TypeOK'
  <2> SUFFICES ASSUME RequestCreation(w) PROVE TypeOK'
    OBVIOUS
  <2> DEFINE item(st) == ItemSnapshot(1, st, 0)
             task(st) == TaskSnapshot(1, 1, [i \in Items |-> item(st)], 0, 0)
             new(st)  == [r \in Refs |-> IF r = TaskFile THEN task(st) ELSE item(st)]
  <2>1. PICK st \in Statuses : request' = [request EXCEPT ![w] =
          [NoRequest EXCEPT !.refs = Refs, !.create = TRUE, !.seq = 1, !.new = new(st)]]
    BY DEF RequestCreation
  <2>2. item(st) \in ItemSnapshots
    BY DEF ItemSnapshot, ItemSnapshots, Writers
  <2>3. task(st) \in TaskSnapshots
    BY <2>2 DEF TaskSnapshot, TaskSnapshots, IndexEntry, ItemSnapshots, Writers
  <2>4. new(st) \in FileStates
    BY <2>2, <2>3 DEF FileStates, FileOf, SnapshotOf
  <2>5. [NoRequest EXCEPT !.refs = Refs, !.create = TRUE, !.seq = 1, !.new = new(st)]
          \in Requests
    BY <2>4, NoRequestTyped DEF Requests
  <2>6. QED
    BY <1>1, <1>2, <2>1, <2>5 DEF RequestCreation, TypeOK, Labels
<1>5. LoadTask(w) => TypeOK'
  <2> SUFFICES ASSUME LoadTask(w) PROVE TypeOK'
    OBVIOUS
  <2>1. CASE files[TaskFile] = Absent
    BY <1>1, <1>2, <2>1, NoRequestTyped DEF LoadTask, TypeOK, Labels
  <2>2. CASE files[TaskFile] # Absent
    <3> DEFINE base == [rev |-> files[TaskFile].rev, seq |-> files[TaskFile].seq,
                        by |-> files[TaskFile].by]
    <3>1. base \in [rev : Nat, seq : Nat, by : Writers]
      BY <2>2, FileTypes DEF TypeOK, TaskSnapshots
    <3>2. request' = [request EXCEPT ![w].base = base]
      BY <2>2 DEF LoadTask
    <3>. HIDE DEF base
    <3>3. [request[w] EXCEPT !.base = base] \in Requests
      BY <3>1, RequestUpdate DEF TypeOK
    <3>4. request' = [request EXCEPT ![w] = [request[w] EXCEPT !.base = base]]
      BY <3>2
    <3>5. request' \in [Workers -> Requests]
      BY <1>2, <3>3, <3>4
    <3>6. QED
      BY <1>1, <2>2, <3>5 DEF LoadTask, TypeOK, Labels
  <2>3. QED
    BY <2>1, <2>2
<1>6. LoadItems(w) => TypeOK'
  <2> SUFFICES ASSUME LoadItems(w) PROVE TypeOK'
    OBVIOUS
  <2> DEFINE req == request[w]
             item(st, i) == IF i \in req.refs THEN ItemSnapshot(files[i].rev + 1, st, 0)
                                              ELSE files[i]
             task(st) == TaskSnapshot(req.base.rev + 1, req.base.seq + 1,
                                      [i \in Items |-> item(st, i)], 0, req.base.by)
             new(st) == [r \in Refs |-> IF r \notin req.refs THEN Absent
                                        ELSE IF r = TaskFile THEN task(st) ELSE item(st, r)]
  <2>1. CASE request' = [request EXCEPT ![w] = NoRequest]
    BY <1>1, <1>2, <2>1, NoRequestTyped DEF LoadItems, TypeOK, Labels
  <2>2. ASSUME \A i \in Items : files[i] # Absent,
               NEW st \in Statuses,
               request' = [request EXCEPT ![w].base = NoRequest.base,
                             ![w].seq = req.base.seq + 1, ![w].new = new(st)]
        PROVE  TypeOK'
    <3>1. req \in Requests /\ req.base \in [rev : Nat, seq : Nat, by : Writers]
      BY DEF TypeOK, Requests
    <3>2. \A i \in Items : item(st, i) \in ItemSnapshots
      BY <2>2, FileTypes DEF TypeOK, ItemSnapshot, ItemSnapshots, Writers
    <3>3. task(st) \in TaskSnapshots
      BY <3>1, <3>2 DEF TaskSnapshot, TaskSnapshots, IndexEntry, ItemSnapshots, Writers
    <3>4. new(st) \in FileStates
      BY <3>2, <3>3 DEF FileStates, FileOf, SnapshotOf, Refs
    <3>5. NoRequest.base \in [rev : Nat, seq : Nat, by : Writers]
      BY NoRequestTyped DEF Requests
    <3>6. request' \in [Workers -> Requests]
      <4> DEFINE rq == [req EXCEPT !.base = NoRequest.base, !.seq = req.base.seq + 1,
                                   !.new = new(st)]
      <4> HIDE DEF new
      <4>1. rq \in Requests
        <5>1. req.base.seq + 1 \in Nat
          BY <3>1
        <5> HIDE DEF req
        <5>2. QED
          BY <3>1, <3>4, <3>5, <5>1, RequestUpdate
      <4>2. request' = [request EXCEPT ![w] = rq]
        BY <2>2
      <4>3. QED
        BY <1>2, <4>1, <4>2
    <3>7. QED
      BY <1>1, <3>6 DEF LoadItems, TypeOK, Labels
  <2>3. QED
    BY <2>1, <2>2 DEF LoadItems
<1> QED
  BY <1>3, <1>4, <1>5, <1>6

\* What the staging directory holds: old/ as it was read, new/ as requested
\* and stamped with the transaction.
StagedOld(rq, f) == [r \in Refs |-> IF r \in rq.refs THEN f[r] ELSE Absent]
StagedNew(rq, t) == [r \in Refs |-> IF r \in rq.refs THEN [rq.new[r] EXCEPT !.by = t]
                                                     ELSE Absent]

\* Both are directories of snapshots.
LEMMA StagedTyped ==
  ASSUME NEW f \in FileStates, NEW rq \in Requests, NEW t \in TxnIds,
         \A r \in rq.refs : rq.new[r] \in SnapshotOf(r)
  PROVE  StagedOld(rq, f) \in FileStates /\ StagedNew(rq, t) \in FileStates
<1>1. rq.refs \subseteq Refs /\ rq.new \in FileStates
  BY DEF Requests
<1>2. ASSUME NEW s \in TaskSnapshots PROVE [s EXCEPT !.by = t] \in TaskSnapshots
  BY DEF TaskSnapshots, Writers
<1>3. ASSUME NEW s \in ItemSnapshots PROVE [s EXCEPT !.by = t] \in ItemSnapshots
  BY DEF ItemSnapshots, Writers
<1>4. \A r \in rq.refs : [rq.new[r] EXCEPT !.by = t] \in FileOf(r)
  <2> SUFFICES ASSUME NEW r \in rq.refs PROVE [rq.new[r] EXCEPT !.by = t] \in FileOf(r)
    OBVIOUS
  <2>1. CASE r = TaskFile
    <3>1. rq.new[r] \in TaskSnapshots /\ FileOf(r) = TaskSnapshots \cup {Absent}
      BY <2>1 DEF FileOf, SnapshotOf
    <3>2. QED
      BY <3>1, <1>2
  <2>2. CASE r # TaskFile
    <3>1. rq.new[r] \in ItemSnapshots /\ FileOf(r) = ItemSnapshots \cup {Absent}
      BY <2>2 DEF FileOf, SnapshotOf
    <3>2. QED
      BY <3>1, <1>3
  <2>3. QED
    BY <2>1, <2>2
<1>5. \A r \in Refs : f[r] \in FileOf(r) /\ Absent \in FileOf(r)
  BY FileTypes DEF FileOf
<1>6. StagedOld(rq, f) \in FileStates
  BY <1>5 DEF FileStates, FileOf, SnapshotOf, StagedOld
<1>7. StagedNew(rq, t) \in FileStates
  BY <1>4, <1>5 DEF FileStates, FileOf, SnapshotOf, StagedNew
<1> QED
  BY <1>6, <1>7

\* Steps that write snapshots, or the event, or crash.
LEMMA TypeStepDisk ==
  ASSUME TypeOK, CurInv, RequestInv, NEW w \in Workers
  PROVE  /\ (PrepareSnapshots(w) => TypeOK')
         /\ (PublishSnapshot(w) => TypeOK')
         /\ (RestoreSnapshot(w) => TypeOK')
         /\ (AppendEvent(w) => TypeOK')
         /\ (AppendFails(w) => TypeOK')
<1> USE DEF Goto, diskVars, lockVars, localVars, boundVars
<1>1. pc[w] \in Owning => cur[w] \in TxnIds /\ txn[cur[w]] \in TxnRecords
  BY DEF CurInv, CurAt, TypeOK
<1>2. ASSUME pc[w] \in Owning
      PROVE  Append(log, Event(cur[w], txn[cur[w]].seq)) \in Seq(Events)
  <2>1. Event(cur[w], txn[cur[w]].seq) \in Events
    BY <1>1, <1>2 DEF Event, Events, Writers, TxnRecords
  <2>2. QED
    BY <2>1 DEF TypeOK
<1>3. PrepareSnapshots(w) => TypeOK'
  <2> SUFFICES ASSUME PrepareSnapshots(w) PROVE TypeOK'
    OBVIOUS
  <2> DEFINE old == StagedOld(request[w], files)
             new == StagedNew(request[w], cur[w])
  <2>1. cur[w] \in TxnIds
    BY <1>1 DEF PrepareSnapshots, Owning, Critical
  <2>2. request[w] \in Requests /\ \A r \in request[w].refs : request[w].new[r] \in SnapshotOf(r)
    BY DEF TypeOK, RequestInv, PrepareSnapshots
  <2>3. request[w].refs \in SUBSET Refs
    BY <2>2 DEF Requests
  <2>4. old \in FileStates /\ new \in FileStates
    BY <2>1, <2>2, StagedTyped DEF TypeOK
  <2>5. txn' = [txn EXCEPT ![cur[w]].refs = request[w].refs, ![cur[w]].old = old,
                           ![cur[w]].new = new]
    BY DEF PrepareSnapshots, StagedOld, StagedNew
  <2>6. txn' \in [TxnIds -> TxnRecords]
    <3> HIDE DEF old, new
    <3>1. txn \in [TxnIds -> TxnRecords]
      BY DEF TypeOK
    <3>2. QED
      BY <2>1, <2>3, <2>4, <2>5, <3>1, TxnUpdate
  <2>7. todo' \in [Workers -> SUBSET Refs] /\ pc' \in [Workers -> Labels]
    BY <2>3 DEF PrepareSnapshots, TypeOK, Labels, Critical
  <2>8. QED
    BY <2>6, <2>7 DEF PrepareSnapshots, TypeOK
<1>4. PublishSnapshot(w) => TypeOK'
  <2> SUFFICES ASSUME PublishSnapshot(w) PROVE TypeOK'
    OBVIOUS
  <2>1. PICK r \in todo[w] : /\ files' = [files EXCEPT ![r] = txn[cur[w]].new[r]]
                             /\ todo' = [todo EXCEPT ![w] = @ \ {r}]
    BY DEF PublishSnapshot
  <2>2. r \in Refs /\ txn[cur[w]].new \in FileStates
    BY <1>1 DEF PublishSnapshot, TypeOK, Owning, Critical, TxnRecords
  <2>3. txn[cur[w]].new[r] \in FileOf(r)
    BY <2>2, FileTypes
  <2>4. files' \in FileStates
    BY <2>1, <2>2, <2>3, FileUpdate DEF TypeOK
  <2>5. todo' \in [Workers -> SUBSET Refs]
    BY <2>1 DEF TypeOK
  <2>6. QED
    BY <2>4, <2>5 DEF PublishSnapshot, TypeOK
<1>5. RestoreSnapshot(w) => TypeOK'
  <2> SUFFICES ASSUME RestoreSnapshot(w) PROVE TypeOK'
    OBVIOUS
  <2>1. PICK r \in todo[w] : /\ files' = [files EXCEPT ![r] = txn[cur[w]].old[r]]
                             /\ todo' = [todo EXCEPT ![w] = @ \ {r}]
    BY DEF RestoreSnapshot
  <2>2. r \in Refs /\ txn[cur[w]].old \in FileStates
    BY <1>1 DEF RestoreSnapshot, TypeOK, Owning, Critical, TxnRecords
  <2>3. txn[cur[w]].old[r] \in FileOf(r)
    BY <2>2, FileTypes
  <2>4. files' \in FileStates
    BY <2>1, <2>2, <2>3, FileUpdate DEF TypeOK
  <2>5. todo' \in [Workers -> SUBSET Refs]
    BY <2>1 DEF TypeOK
  <2>6. QED
    BY <2>4, <2>5 DEF RestoreSnapshot, TypeOK
<1>6. AppendEvent(w) => TypeOK'
  <2> SUFFICES ASSUME AppendEvent(w) PROVE TypeOK'
    OBVIOUS
  <2>1. log' \in Seq(Events)
    <3>1. log' = log \/ log' = Append(log, Event(cur[w], txn[cur[w]].seq))
      BY DEF AppendEvent
    <3>2. Append(log, Event(cur[w], txn[cur[w]].seq)) \in Seq(Events)
      BY <1>2 DEF AppendEvent, Owning, Critical
    <3>3. QED
      BY <3>1, <3>2 DEF TypeOK
  <2>2. pc' \in [Workers -> Labels]
    BY DEF AppendEvent, TypeOK, Labels, Critical
  <2>3. QED
    BY <2>1, <2>2 DEF AppendEvent, TypeOK
<1>7. AppendFails(w) => TypeOK'
  <2> SUFFICES ASSUME AppendFails(w) PROVE TypeOK'
    OBVIOUS
  <2>1. log' \in Seq(Events)
    <3>1. log' = log \/ log' = Append(log, Event(cur[w], txn[cur[w]].seq))
      BY DEF AppendFails
    <3>2. Append(log, Event(cur[w], txn[cur[w]].seq)) \in Seq(Events)
      BY <1>2 DEF AppendFails, Owning, Critical
    <3>3. QED
      BY <3>1, <3>2 DEF TypeOK
  <2>2. pc' \in [Workers -> Labels]
    BY DEF AppendFails, TypeOK, Labels, Critical
  <2>3. torn' \in BOOLEAN
    BY DEF AppendFails, TypeOK
  <2>4. QED
    BY <2>1, <2>2, <2>3 DEF AppendFails, TypeOK
<1> QED
  BY <1>3, <1>4, <1>5, <1>6, <1>7

\* A crash loses what the threads of one process were doing, no more.
LEMMA TypeStepCrash ==
  ASSUME TypeOK, CurInv
  PROVE  /\ \A p \in Processes : Crash(p) => TypeOK'
         /\ (RemoveStaleLock => TypeOK')
<1> USE DEF diskVars, localVars, boundVars
<1>1. ASSUME NEW p \in Processes, Crash(p) PROVE TypeOK'
  <2>1. txn' \in [TxnIds -> TxnRecords]
    <3>1. CASE txn' = txn
      BY <3>1 DEF TypeOK
    <3>2. CASE \E w \in Workers : pc[w] = "cleanup" /\ PartlyRemoved(cur[w])
      <4>1. PICK w \in Workers : pc[w] = "cleanup" /\ PartlyRemoved(cur[w])
        BY <3>2
      <4>2. cur[w] \in TxnIds /\ txn \in [TxnIds -> TxnRecords]
        BY <4>1 DEF CurInv, CurAt, TypeOK, Owning, Critical
      <4>3. \/ txn' = txn \/ txn' = [txn EXCEPT ![cur[w]].event = FALSE]
            \/ txn' = [txn EXCEPT ![cur[w]] = [NoTxn EXCEPT !.phase = "husk"]]
        BY <4>1 DEF PartlyRemoved
      <4>4. /\ [txn EXCEPT ![cur[w]].event = FALSE] \in [TxnIds -> TxnRecords]
            /\ [txn EXCEPT ![cur[w]] = [NoTxn EXCEPT !.phase = "husk"]]
                 \in [TxnIds -> TxnRecords]
        BY <4>2, TxnUpdate
      <4>5. QED
        BY <4>2, <4>3, <4>4
    <3>3. QED
      BY <1>1, <3>1, <3>2 DEF Crash
  <2>2. torn' \in BOOLEAN /\ stray' \in BOOLEAN
    BY <1>1 DEF Crash, TypeOK
  <2>3. /\ pc' \in [Workers -> Labels]
        /\ mode' \in [Workers -> {"run", "recover"}]
        /\ request' \in [Workers -> Requests]
        /\ cur' \in [Workers -> Writers]
        /\ todo' \in [Workers -> SUBSET Refs]
        /\ scan' \in [Workers -> SUBSET TxnIds]
    BY <1>1, NoRequestTyped DEF Crash, TypeOK, Labels, Writers
  <2>4. plock' \in [Processes -> Workers \cup {Free}] /\ flock' \in Workers \cup {Free, Stale}
    BY <1>1 DEF Crash, TypeOK
  <2>5. QED
    BY <1>1, <2>1, <2>2, <2>3, <2>4 DEF Crash, TypeOK
<1>2. RemoveStaleLock => TypeOK'
  BY DEF RemoveStaleLock, TypeOK, lockVars
<1> QED
  BY <1>1, <1>2
\* Every step keeps the types, given the write sets and the transactions in hand.
LEMMA NextTypeOK ==
  TypeOK /\ CurInv /\ RequestInv /\ [Next]_vars => TypeOK'
<1> SUFFICES ASSUME TypeOK, CurInv, RequestInv, [Next]_vars PROVE TypeOK'
  OBVIOUS
<1>1. ASSUME NEW w \in Workers, Submit(w) PROVE TypeOK'
  BY <1>1, TypeStepRequest, TypeStepControl DEF Submit
<1>2. ASSUME NEW w \in Workers, Step(w) PROVE TypeOK'
  BY <1>2, TypeStepRequest, TypeStepControl, TypeStepTxn, TypeStepDisk DEF Step
<1>3. ASSUME NEW w \in Workers, Fault(w) PROVE TypeOK'
  BY <1>3, TypeStepControl, TypeStepTxn, TypeStepDisk DEF Fault
<1>4. CASE UNCHANGED vars
  BY <1>4 DEF vars, TypeOK
<1>5. QED
  BY <1>1, <1>2, <1>3, <1>4, TypeStepCrash DEF Next

-----------------------------------------------------------------------------
(* The lock file keeps all but one thread out *)

\* With the lock file owned by w, nobody else is between acquire and release.
LEMMA OthersOutside ==
  ASSUME LockInv, NEW w \in Workers, pc[w] \in Critical
  PROVE  flock = w /\ \A v \in Workers : v # w => pc[v] \notin Critical
  BY DEF LockInv

\* Mutual exclusion is what the ownership of the lock file says.
LEMMA LockInvMutex == LockInv => MutualExclusion
  BY DEF LockInv, MutualExclusion

\* A step of the owner that leaves the lock file alone.
LEMMA OwnerMoves ==
  ASSUME TypeOK, LockInv, NEW w \in Workers, pc[w] \in Critical, NEW l,
         pc' = [pc EXCEPT ![w] = l], flock' = flock
  PROVE  LockInv'
  BY DEF TypeOK, LockInv

\* A step of a thread that does not own the lock file and does not take it.
LEMMA OutsiderMoves ==
  ASSUME TypeOK, LockInv, NEW w \in Workers, NEW l, l \notin Critical,
         pc' = [pc EXCEPT ![w] = l], flock' = flock
  PROVE  LockInv'
  BY DEF TypeOK, LockInv

\* No step lets a thread into the critical section without the lock file.
LEMMA LockStep == TypeOK /\ LockInv /\ [Next]_vars => LockInv'
<1> SUFFICES ASSUME TypeOK, LockInv, [Next]_vars PROVE LockInv'
  OBVIOUS
<1> USE Constants DEF Goto, diskVars, lockVars, localVars, boundVars, ConstantFacts
<1>1. ASSUME NEW w \in Workers, Submit(w) PROVE LockInv'
  <2>1. ReadRevisions(w) => LockInv'
    BY OutsiderMoves DEF ReadRevisions, Critical
  <2>2. RequestCreation(w) => LockInv'
    BY OutsiderMoves DEF RequestCreation, Critical
  <2>3. RequestRecovery(w) => LockInv'
    BY OutsiderMoves DEF RequestRecovery, Critical
  <2>4. QED
    BY <1>1, <2>1, <2>2, <2>3 DEF Submit
<1>2. ASSUME NEW w \in Workers, Step(w) PROVE LockInv'
  <2>1. LoadTask(w) => LockInv'
    BY OutsiderMoves DEF LoadTask, Critical
  <2>2. LoadItems(w) => LockInv'
    BY OutsiderMoves DEF LoadItems, Critical
  <2>3. AcquireProcessLock(w) => LockInv'
    BY OutsiderMoves DEF AcquireProcessLock, Critical
  <2>4. AcquireFileLock(w) => LockInv'
    <3> SUFFICES ASSUME AcquireFileLock(w) PROVE LockInv'
      OBVIOUS
    <3>1. \A v \in Workers : pc[v] \notin Critical
      BY DEF AcquireFileLock, LockInv
    <3>2. \A v \in Workers : v # w => pc'[v] = pc[v]
      BY DEF AcquireFileLock, TypeOK
    <3>3. QED
      BY <3>1, <3>2 DEF AcquireFileLock, LockInv
  <2>5. LockTimeout(w) => LockInv'
    BY OutsiderMoves DEF LockTimeout, Critical
  <2>6. Release(w) => LockInv'
    <3> SUFFICES ASSUME Release(w) PROVE LockInv'
      OBVIOUS
    <3>1. \A v \in Workers : v # w => pc[v] \notin Critical
      BY OthersOutside DEF Release, Critical
    <3>2. pc' = [pc EXCEPT ![w] = "idle"]
      BY DEF Release
    <3>3. QED
      BY <3>1, <3>2 DEF TypeOK, LockInv, Critical
  <2>7. MakeTxnDir(w) => LockInv'
    BY OwnerMoves DEF MakeTxnDir, Critical
  <2>8. WriteTxnFiles(w) => LockInv'
    BY OwnerMoves DEF WriteTxnFiles, Critical
  <2>9. PrepareSnapshots(w) => LockInv'
    BY OwnerMoves DEF PrepareSnapshots, Critical
  <2>10. PublishSnapshot(w) => LockInv'
    BY DEF PublishSnapshot, LockInv
  <2>11. MarkPublished(w) => LockInv'
    BY OwnerMoves DEF MarkPublished, Critical
  <2>12. AppendEvent(w) => LockInv'
    BY OwnerMoves DEF AppendEvent, Critical
  <2>13. MarkAppended(w) => LockInv'
    BY OwnerMoves DEF MarkAppended, Critical
  <2>14. MarkCommitted(w) => LockInv'
    BY OwnerMoves DEF MarkCommitted, Critical
  <2>15. RemoveTxnDir(w) => LockInv'
    BY OwnerMoves DEF RemoveTxnDir, Critical
  <2>16. EnterRollback(w) => LockInv'
    BY OwnerMoves DEF EnterRollback, Critical
  <2>17. RestoreSnapshot(w) => LockInv'
    BY DEF RestoreSnapshot, LockInv
  <2>18. MarkRolledBack(w) => LockInv'
    BY OwnerMoves DEF MarkRolledBack, Critical
  <2>19. RecoverNext(w) => LockInv'
    BY OwnerMoves DEF RecoverNext, Critical
  <2>20. RecoverDone(w) => LockInv'
    BY OwnerMoves DEF RecoverDone, Critical
  <2>21. QED
    BY <1>2, <2>1, <2>2, <2>3, <2>4, <2>5, <2>6, <2>7, <2>8, <2>9, <2>10, <2>11,
       <2>12, <2>13, <2>14, <2>15, <2>16, <2>17, <2>18, <2>19, <2>20 DEF Step
<1>3. ASSUME NEW w \in Workers, Fault(w) PROVE LockInv'
  <2>1. WriteFails(w) => LockInv'
    BY OwnerMoves DEF WriteFails, Critical
  <2>2. AppendFails(w) => LockInv'
    BY OwnerMoves DEF AppendFails, Critical
  <2>3. RemoveFails(w) => LockInv'
    BY OwnerMoves DEF RemoveFails, Critical
  <2>4. QED
    BY <1>3, <2>1, <2>2, <2>3 DEF Fault
<1>4. ASSUME NEW p \in Processes, Crash(p) PROVE LockInv'
  BY <1>4 DEF Crash, LockInv, Critical
<1>5. RemoveStaleLock => LockInv'
  BY DEF RemoveStaleLock, LockInv
<1>6. UNCHANGED vars => LockInv'
  BY DEF vars, LockInv
<1> QED
  BY <1>1, <1>2, <1>3, <1>4, <1>5, <1>6 DEF Next
-----------------------------------------------------------------------------
(* Write sets *)

Staging == {"plock", "flock", "begin", "writeTxn", "prepare"}

\* A step that leaves the write set alone, within staging or out of it.
LEMMA RequestKept ==
  ASSUME TypeOK, RequestInv, NEW w \in Workers, NEW l, l # "idle",
         pc' = [pc EXCEPT ![w] = l], request' = request,
         l \in Staging => pc[w] \in Staging \cup {"idle"}
  PROVE  RequestInv'
  BY DEF TypeOK, RequestInv, Staging

\* A step that drops the write set.
LEMMA RequestDropped ==
  ASSUME TypeOK, RequestInv, NEW w \in Workers, NEW l,
         pc' = [pc EXCEPT ![w] = l], request' = [request EXCEPT ![w] = NoRequest]
  PROVE  RequestInv'
  BY DEF TypeOK, RequestInv, NoRequest

\* A step that puts a new write set in place, complete if it will be staged.
LEMMA RequestPut ==
  ASSUME TypeOK, RequestInv, NEW w \in Workers, NEW l, NEW rq, l # "idle",
         pc' = [pc EXCEPT ![w] = l], request' = [request EXCEPT ![w] = rq],
         l \in Staging => \A r \in rq.refs : rq.new[r] \in SnapshotOf(r)
  PROVE  RequestInv'
  BY DEF TypeOK, RequestInv, Staging

\* No step loses a snapshot of a write set that is still to be staged.
LEMMA RequestStep == TypeOK /\ RequestInv /\ [Next]_vars => RequestInv'
<1> SUFFICES ASSUME TypeOK, RequestInv, [Next]_vars PROVE RequestInv'
  OBVIOUS
<1> USE DEF Goto, localVars
<1>1. ASSUME NEW w \in Workers, Submit(w) PROVE RequestInv'
  <2>1. ReadRevisions(w) => RequestInv'
    <3> SUFFICES ASSUME ReadRevisions(w) PROVE RequestInv'
      OBVIOUS
    <3>1. PICK rq : request' = [request EXCEPT ![w] = rq]
      BY DEF ReadRevisions
    <3>2. QED
      BY <3>1, RequestPut DEF ReadRevisions, Staging
  <2>2. RequestCreation(w) => RequestInv'
    <3> SUFFICES ASSUME RequestCreation(w) PROVE RequestInv'
      OBVIOUS
    <3> DEFINE item(st) == ItemSnapshot(1, st, 0)
               task(st) == TaskSnapshot(1, 1, [i \in Items |-> item(st)], 0, 0)
               new(st)  == [r \in Refs |-> IF r = TaskFile THEN task(st) ELSE item(st)]
               rq(st) == [NoRequest EXCEPT !.refs = Refs, !.create = TRUE, !.seq = 1,
                                           !.new = new(st)]
    <3>1. PICK st \in Statuses : request' = [request EXCEPT ![w] = rq(st)]
      BY DEF RequestCreation
    <3>2. item(st) \in ItemSnapshots
      BY DEF ItemSnapshot, ItemSnapshots, Writers
    <3>3. task(st) \in TaskSnapshots
      BY <3>2 DEF TaskSnapshot, TaskSnapshots, IndexEntry, ItemSnapshots, Writers
    <3>4. \A r \in rq(st).refs : rq(st).new[r] \in SnapshotOf(r)
      <4> HIDE DEF item, task
      <4>1. rq(st).refs = Refs /\ rq(st).new = new(st)
        BY DEF NoRequest
      <4>2. QED
        BY <3>2, <3>3, <4>1 DEF SnapshotOf
    <3>5. pc' = [pc EXCEPT ![w] = "plock"]
      BY DEF RequestCreation
    <3>6. QED
      <4> HIDE DEF rq
      <4>1. QED
        BY <3>1, <3>4, <3>5, RequestPut
  <2>3. RequestRecovery(w) => RequestInv'
    BY RequestKept DEF RequestRecovery, Staging
  <2>4. QED
    BY <1>1, <2>1, <2>2, <2>3 DEF Submit
<1>2. ASSUME NEW w \in Workers, Step(w) PROVE RequestInv'
  <2>1. LoadTask(w) => RequestInv'
    <3> SUFFICES ASSUME LoadTask(w) PROVE RequestInv'
      OBVIOUS
    <3>1. CASE files[TaskFile] = Absent
      BY <3>1, RequestDropped DEF LoadTask
    <3>2. CASE files[TaskFile] # Absent
      BY <3>2 DEF LoadTask, TypeOK, RequestInv
    <3>3. QED
      BY <3>1, <3>2
  <2>2. LoadItems(w) => RequestInv'
    <3> SUFFICES ASSUME LoadItems(w) PROVE RequestInv'
      OBVIOUS
    <3> DEFINE req == request[w]
               item(st, i) == IF i \in req.refs
                                THEN ItemSnapshot(files[i].rev + 1, st, 0) ELSE files[i]
               task(st) == TaskSnapshot(req.base.rev + 1, req.base.seq + 1,
                                        [i \in Items |-> item(st, i)], 0, req.base.by)
               new(st) == [r \in Refs |-> IF r \notin req.refs THEN Absent
                                          ELSE IF r = TaskFile THEN task(st) ELSE item(st, r)]
               rq(st) == [req EXCEPT !.base = NoRequest.base, !.seq = req.base.seq + 1,
                                     !.new = new(st)]
    <3>1. CASE request' = [request EXCEPT ![w] = NoRequest] /\ pc' = [pc EXCEPT ![w] = "idle"]
      BY <3>1, RequestDropped
    <3>2. ASSUME \A i \in Items : files[i] # Absent, NEW st \in Statuses,
                 request' = [request EXCEPT ![w].base = NoRequest.base,
                               ![w].seq = req.base.seq + 1, ![w].new = new(st)],
                 pc' = [pc EXCEPT ![w] = "plock"]
          PROVE  RequestInv'
      <4>1. req \in Requests /\ req.base \in [rev : Nat, seq : Nat, by : Writers]
            /\ req.refs \subseteq Refs
        BY DEF TypeOK, Requests
      <4>2. \A i \in Items : item(st, i) \in ItemSnapshots
        BY <3>2, FileTypes DEF TypeOK, ItemSnapshot, ItemSnapshots, Writers
      <4>3. task(st) \in TaskSnapshots
        BY <4>1, <4>2 DEF TaskSnapshot, TaskSnapshots, IndexEntry, ItemSnapshots, Writers
      <4>4. \A r \in req.refs : new(st)[r] \in SnapshotOf(r)
        <5> HIDE DEF item, task, req
        <5>1. QED
          BY <4>1, <4>2, <4>3 DEF SnapshotOf, Refs
      <4>5. rq(st).refs = req.refs /\ rq(st).new = new(st)
        <5> HIDE DEF new
        <5>1. QED
          BY <4>1 DEF Requests
      <4>6. request' = [request EXCEPT ![w] = rq(st)]
        BY <3>2
      <4>7. QED
        <5> HIDE DEF new, rq, req
        <5>1. QED
          BY <3>2, <4>4, <4>5, <4>6, RequestPut
    <3>3. QED
      BY <3>1, <3>2 DEF LoadItems
  <2>3. AcquireProcessLock(w) => RequestInv'
    BY RequestKept DEF AcquireProcessLock, Staging
  <2>4. AcquireFileLock(w) => RequestInv'
    BY RequestKept DEF AcquireFileLock, Staging
  <2>5. LockTimeout(w) => RequestInv'
    BY RequestDropped DEF LockTimeout
  <2>6. Release(w) => RequestInv'
    BY RequestDropped DEF Release
  <2>7. MakeTxnDir(w) => RequestInv'
    BY RequestKept DEF MakeTxnDir, Staging
  <2>8. WriteTxnFiles(w) => RequestInv'
    BY RequestKept DEF WriteTxnFiles, Staging
  <2>9. PrepareSnapshots(w) => RequestInv'
    BY RequestKept DEF PrepareSnapshots, Staging
  <2>10. PublishSnapshot(w) => RequestInv'
    BY DEF PublishSnapshot, RequestInv
  <2>11. MarkPublished(w) => RequestInv'
    BY RequestKept DEF MarkPublished, Staging
  <2>12. AppendEvent(w) => RequestInv'
    BY RequestKept DEF AppendEvent, Staging
  <2>13. MarkAppended(w) => RequestInv'
    BY RequestKept DEF MarkAppended, Staging
  <2>14. MarkCommitted(w) => RequestInv'
    BY RequestKept DEF MarkCommitted, Staging
  <2>15. RemoveTxnDir(w) => RequestInv'
    BY RequestKept DEF RemoveTxnDir, Staging
  <2>16. EnterRollback(w) => RequestInv'
    BY RequestKept DEF EnterRollback, Staging
  <2>17. RestoreSnapshot(w) => RequestInv'
    BY DEF RestoreSnapshot, RequestInv
  <2>18. MarkRolledBack(w) => RequestInv'
    BY RequestKept DEF MarkRolledBack, Staging
  <2>19. RecoverNext(w) => RequestInv'
    BY RequestKept DEF RecoverNext, Staging
  <2>20. RecoverDone(w) => RequestInv'
    BY RequestKept DEF RecoverDone, Staging
  <2>21. QED
    BY <1>2, <2>1, <2>2, <2>3, <2>4, <2>5, <2>6, <2>7, <2>8, <2>9, <2>10, <2>11,
       <2>12, <2>13, <2>14, <2>15, <2>16, <2>17, <2>18, <2>19, <2>20 DEF Step
<1>3. ASSUME NEW w \in Workers, Fault(w) PROVE RequestInv'
  <2>1. WriteFails(w) => RequestInv'
    BY RequestKept DEF WriteFails, AfterFault, Staging
  <2>2. AppendFails(w) => RequestInv'
    BY RequestKept DEF AppendFails, Staging
  <2>3. RemoveFails(w) => RequestInv'
    BY RequestKept DEF RemoveFails, Staging
  <2>4. QED
    BY <1>3, <2>1, <2>2, <2>3 DEF Fault
<1>4. ASSUME NEW p \in Processes, Crash(p) PROVE RequestInv'
  BY <1>4 DEF Crash, RequestInv, NoRequest
<1>5. RemoveStaleLock => RequestInv'
  BY DEF RemoveStaleLock, RequestInv
<1>6. UNCHANGED vars => RequestInv'
  BY DEF vars, RequestInv
<1> QED
  BY <1>1, <1>2, <1>3, <1>4, <1>5, <1>6 DEF Next
-----------------------------------------------------------------------------
(* What the owner of the lock file works on *)

\* Only the owner's state has to be looked at when the owner takes a step.
LEMMA CurOfOwner ==
  ASSUME TypeOK, LockInv, CurInv, NEW w \in Workers, pc[w] \in Critical,
         \A v \in Workers : v # w =>
           pc'[v] = pc[v] /\ cur'[v] = cur[v] /\ scan'[v] = scan[v],
         CurAt(w)'
  PROVE  CurInv'
<1>1. ASSUME NEW v \in Workers, v # w PROVE CurAt(v)'
  <2>1. pc[v] \notin Critical /\ CurAt(v)
    BY <1>1, OthersOutside DEF CurInv
  <2>2. pc'[v] \notin Critical /\ cur'[v] = 0 /\ scan'[v] = {}
    BY <1>1, <2>1 DEF CurAt
  <2>3. QED
    BY <2>2 DEF CurAt, Owning, Critical
<1>2. QED
  BY <1>1 DEF CurInv

\* A step outside the lock that leaves the disk and the local variables alone.
LEMMA CurOutside ==
  ASSUME TypeOK, CurInv, NEW w \in Workers, pc[w] \notin Critical,
         NEW l, l \notin Critical, pc' = [pc EXCEPT ![w] = l],
         UNCHANGED <<log, txn, cur, scan>>
  PROVE  CurInv'
  BY DEF TypeOK, CurInv, CurAt, Present, LogTxns, Owning, Critical

\* The owner moves on without touching transactions, or with an event appended.
LEMMA CurMoves ==
  ASSUME TypeOK, LockInv, CurInv, NEW w \in Workers, pc[w] \in Critical,
         NEW l \in Critical, l # "writeTxn", pc' = [pc EXCEPT ![w] = l],
         l \in Owning => pc[w] \in Owning \ {"writeTxn"},
         UNCHANGED <<txn, cur, scan>>
  PROVE  CurInv'
<1>1. CurAt(w)'
  BY DEF TypeOK, CurInv, CurAt, Present
<1>2. QED
  BY <1>1, CurOfOwner DEF TypeOK

\* The owner saves transaction.json with a phase and moves on.
LEMMA CurMarks ==
  ASSUME TypeOK, LockInv, CurInv, NEW w \in Workers, pc[w] \in Owning,
         NEW l \in Critical, l # "writeTxn", pc' = [pc EXCEPT ![w] = l],
         txn' \in [TxnIds -> TxnRecords],
         txn'[cur[w]].phase \notin {"none", "husk"},
         \A t \in TxnIds : t # cur[w] => txn'[t] = txn[t],
         UNCHANGED <<cur, scan>>
  PROVE  CurInv'
<1>1. CurAt(w)'
  BY DEF TypeOK, CurInv, CurAt, Present, Owning, Critical
<1>2. QED
  BY <1>1, CurOfOwner DEF TypeOK, Owning, Critical

\* The directory the owner has just removed is not among those left to visit.
LEMMA CurRemoves ==
  ASSUME TypeOK, LockInv, CurInv, NEW w \in Workers, pc[w] \in Owning,
         NEW l \in Critical \ Owning, pc' = [pc EXCEPT ![w] = l],
         \A t \in TxnIds : t # cur[w] => txn'[t] = txn[t],
         UNCHANGED <<cur, scan>>
  PROVE  CurInv'
<1>1. CurAt(w)'
  <2>1. pc'[w] = l /\ l \notin Owning /\ l # "writeTxn"
    BY DEF TypeOK, Owning, Critical
  <2>2. cur[w] \notin scan[w] /\ \A t \in scan[w] : t \in TxnIds /\ Present(t)
    BY DEF TypeOK, CurInv, CurAt
  <2>3. QED
    BY <2>1, <2>2 DEF CurAt, Present
<1>2. QED
  BY <1>1, CurOfOwner DEF TypeOK, Owning, Critical

\* No step takes a transaction away from the thread that works on it.
LEMMA CurStep ==
  TypeOK /\ LockInv /\ CurInv /\ LogInv /\ TypeOK' /\ [Next]_vars => CurInv'
<1> SUFFICES ASSUME TypeOK, LockInv, CurInv, LogInv, TypeOK', [Next]_vars PROVE CurInv'
  OBVIOUS
<1> USE DEF Goto, diskVars, lockVars, localVars, boundVars
<1>1. ASSUME NEW w \in Workers, Submit(w) PROVE CurInv'
  <2>1. ReadRevisions(w) => CurInv'
    BY CurOutside DEF ReadRevisions, Critical
  <2>2. RequestCreation(w) => CurInv'
    BY CurOutside DEF RequestCreation, Critical
  <2>3. RequestRecovery(w) => CurInv'
    BY CurOutside DEF RequestRecovery, Critical
  <2>4. QED
    BY <1>1, <2>1, <2>2, <2>3 DEF Submit
<1>2. ASSUME NEW w \in Workers, Step(w) PROVE CurInv'
  <2>0. txn' \in [TxnIds -> TxnRecords] /\ (pc[w] \in Owning => cur[w] \in TxnIds)
    BY DEF TypeOK, CurInv, CurAt
  <2>1. LoadTask(w) => CurInv'
    BY CurOutside DEF LoadTask, Critical
  <2>2. LoadItems(w) => CurInv'
    BY CurOutside DEF LoadItems, Critical
  <2>3. AcquireProcessLock(w) => CurInv'
    BY CurOutside DEF AcquireProcessLock, Critical
  <2>4. AcquireFileLock(w) => CurInv'
    <3> SUFFICES ASSUME AcquireFileLock(w) PROVE CurInv'
      OBVIOUS
    <3>1. cur[w] = 0 /\ scan[w] = {} /\ UNCHANGED <<txn, cur, log>>
      BY DEF AcquireFileLock, CurInv, CurAt, Critical
    <3>2. \A v \in Workers : v # w => pc'[v] = pc[v] /\ scan'[v] = scan[v]
      BY DEF AcquireFileLock, TypeOK
    <3>3. pc'[w] \in {"scan", "begin"} /\ \A t \in scan'[w] : t \in TxnIds /\ Present(t)
      BY <3>1 DEF AcquireFileLock, TypeOK
    <3>4. 0 \notin TxnIds
      BY Constants DEF ConstantFacts
    <3>5. CurAt(w)'
      BY <3>1, <3>3, <3>4 DEF CurAt, Present, Owning, Critical
    <3>6. ASSUME NEW v \in Workers, v # w PROVE CurAt(v)'
      BY <3>1, <3>2, <3>6 DEF CurInv, CurAt, Present, LogTxns
    <3>7. QED
      BY <3>5, <3>6 DEF CurInv
  <2>5. LockTimeout(w) => CurInv'
    BY CurOutside DEF LockTimeout, Critical
  <2>6. Release(w) => CurInv'
    <3> SUFFICES ASSUME Release(w) PROVE CurInv'
      OBVIOUS
    <3>1. pc'[w] = "idle" /\ cur'[w] = 0 /\ scan'[w] = {}
      BY DEF Release, TypeOK
    <3>2. CurAt(w)'
      BY <3>1 DEF CurAt, Owning, Critical
    <3>3. QED
      BY <3>2, CurOfOwner DEF Release, TypeOK, Critical
  <2>7. MakeTxnDir(w) => CurInv'
    <3> SUFFICES ASSUME MakeTxnDir(w) PROVE CurInv'
      OBVIOUS
    <3>1. CASE UNCHANGED <<txn, cur>> /\ pc' = [pc EXCEPT ![w] = "release"]
      BY <3>1, CurMoves DEF MakeTxnDir, Owning, Critical
    <3>2. ASSUME NEW t \in TxnIds \ used, cur' = [cur EXCEPT ![w] = t],
                 txn' = [txn EXCEPT ![t].phase = "husk"],
                 pc' = [pc EXCEPT ![w] = "writeTxn"]
          PROVE  CurInv'
      <4>1. t \notin LogTxns /\ t \notin scan[w] /\ log' = log /\ scan' = scan
        BY <3>2, Constants DEF MakeTxnDir, LogInv, CurInv, CurAt, TypeOK, ConstantFacts
      <4>2. pc'[w] = "writeTxn" /\ cur'[w] = t /\ txn'[t].phase = "husk"
        BY <3>2 DEF TypeOK, TxnRecords
      <4>3. \A u \in scan[w] : u \in TxnIds /\ txn'[u].phase # "none"
        BY <3>2, <4>1 DEF CurInv, CurAt, TypeOK, Present
      <4>4. CurAt(w)'
        BY <4>1, <4>2, <4>3 DEF CurAt, Present, LogTxns, Owning, Critical
      <4>5. QED
        BY <3>2, <4>1, <4>4, CurOfOwner DEF MakeTxnDir, TypeOK, Critical
    <3>3. QED
      BY <3>1, <3>2 DEF MakeTxnDir
  <2>8. WriteTxnFiles(w) => CurInv'
    <3> SUFFICES ASSUME WriteTxnFiles(w) PROVE CurInv'
      OBVIOUS
    <3>1. txn'[cur[w]].phase = "prepared"
      BY <2>0 DEF WriteTxnFiles, TypeOK, TxnRecords, Owning, Critical
    <3>2. QED
      BY <2>0, <3>1, CurMarks DEF WriteTxnFiles, TypeOK, Owning, Critical
  <2>9. PrepareSnapshots(w) => CurInv'
    <3> SUFFICES ASSUME PrepareSnapshots(w) PROVE CurInv'
      OBVIOUS
    <3>1. PICK l \in {"publish", "undo"} : pc' = [pc EXCEPT ![w] = l]
      BY DEF PrepareSnapshots
    <3>2. /\ txn'[cur[w]].phase = txn[cur[w]].phase
          /\ \A t \in TxnIds : t # cur[w] => txn'[t] = txn[t]
      BY <2>0 DEF PrepareSnapshots, TypeOK, TxnRecords, Owning, Critical
    <3>3. txn[cur[w]].phase \notin {"none", "husk"}
      BY DEF PrepareSnapshots, CurInv, CurAt, Present, Owning, Critical
    <3>4. QED
      BY <2>0, <3>1, <3>2, <3>3, CurMarks DEF PrepareSnapshots, Owning, Critical
  <2>10. PublishSnapshot(w) => CurInv'
    BY DEF PublishSnapshot, CurInv, CurAt, Present, LogTxns
  <2>11. MarkPublished(w) => CurInv'
    <3> SUFFICES ASSUME MarkPublished(w) PROVE CurInv'
      OBVIOUS
    <3>1. txn'[cur[w]].phase = "published"
      BY <2>0 DEF MarkPublished, TypeOK, TxnRecords, Owning, Critical
    <3>2. QED
      BY <2>0, <3>1, CurMarks DEF MarkPublished, TypeOK, Owning, Critical
  <2>12. AppendEvent(w) => CurInv'
    BY CurMoves DEF AppendEvent, Owning, Critical
  <2>13. MarkAppended(w) => CurInv'
    <3> SUFFICES ASSUME MarkAppended(w) PROVE CurInv'
      OBVIOUS
    <3>1. txn'[cur[w]].phase = "appended"
      BY <2>0 DEF MarkAppended, TypeOK, TxnRecords, Owning, Critical
    <3>2. QED
      BY <2>0, <3>1, CurMarks DEF MarkAppended, TypeOK, Owning, Critical
  <2>14. MarkCommitted(w) => CurInv'
    <3> SUFFICES ASSUME MarkCommitted(w) PROVE CurInv'
      OBVIOUS
    <3>1. CASE txn' = txn /\ pc' = [pc EXCEPT ![w] = "release"]
      BY <3>1, CurMoves DEF MarkCommitted, Owning, Critical
    <3>2. CASE /\ txn' = [txn EXCEPT ![cur[w]].phase = "committed"]
               /\ pc' = [pc EXCEPT ![w] = "cleanup"]
      <4>1. txn'[cur[w]].phase = "committed"
        BY <2>0, <3>2 DEF MarkCommitted, TypeOK, TxnRecords, Owning, Critical
      <4>2. QED
        BY <2>0, <3>2, <4>1, CurMarks DEF MarkCommitted, TypeOK, Owning, Critical
    <3>3. QED
      BY <3>1, <3>2 DEF MarkCommitted
  <2>15. RemoveTxnDir(w) => CurInv'
    <3> SUFFICES ASSUME RemoveTxnDir(w) PROVE CurInv'
      OBVIOUS
    <3>1. PICK l \in {"scan", "release"} : pc' = [pc EXCEPT ![w] = l]
      BY DEF RemoveTxnDir
    <3>2. QED
      BY <2>0, <3>1, CurRemoves DEF RemoveTxnDir, TypeOK, Owning, Critical
  <2>16. EnterRollback(w) => CurInv'
    BY CurMoves DEF EnterRollback, Owning, Critical
  <2>17. RestoreSnapshot(w) => CurInv'
    BY DEF RestoreSnapshot, CurInv, CurAt, Present, LogTxns
  <2>18. MarkRolledBack(w) => CurInv'
    <3> SUFFICES ASSUME MarkRolledBack(w) PROVE CurInv'
      OBVIOUS
    <3>1. txn'[cur[w]].phase = "prepared"
      BY <2>0 DEF MarkRolledBack, TypeOK, TxnRecords, Owning, Critical
    <3>2. QED
      BY <2>0, <3>1, CurMarks DEF MarkRolledBack, TypeOK, Owning, Critical
  <2>19. RecoverNext(w) => CurInv'
    <3> SUFFICES ASSUME RecoverNext(w) PROVE CurInv'
      OBVIOUS
    <3>1. PICK t \in scan[w], l \in {"release", "undo", "cleanup", "append", "commit"} :
            /\ cur' = [cur EXCEPT ![w] = t]
            /\ scan' = [scan EXCEPT ![w] = @ \ {t}]
            /\ pc' = [pc EXCEPT ![w] = l]
            /\ txn[t].phase = "husk" => l = "release"
      BY DEF RecoverNext
    <3>2. t \in TxnIds /\ Present(t) /\ UNCHANGED <<txn, log>>
      BY DEF RecoverNext, CurInv, CurAt, TypeOK
    <3>3. pc'[w] = l /\ cur'[w] = t /\ scan'[w] = scan[w] \ {t}
      BY <3>1 DEF TypeOK
    <3>4. CurAt(w)'
      BY <3>1, <3>2, <3>3 DEF CurInv, CurAt, Present, Owning, Critical
    <3>5. QED
      BY <3>1, <3>4, CurOfOwner DEF RecoverNext, TypeOK, Critical
  <2>20. RecoverDone(w) => CurInv'
    BY CurMoves DEF RecoverDone, Owning, Critical
  <2>21. QED
    BY <1>2, <2>1, <2>2, <2>3, <2>4, <2>5, <2>6, <2>7, <2>8, <2>9, <2>10, <2>11,
       <2>12, <2>13, <2>14, <2>15, <2>16, <2>17, <2>18, <2>19, <2>20 DEF Step
<1>3. ASSUME NEW w \in Workers, Fault(w) PROVE CurInv'
  <2>1. WriteFails(w) => CurInv'
    <3> SUFFICES ASSUME WriteFails(w) PROVE CurInv'
      OBVIOUS
    <3>1. PICK l \in {"undo", "release"} : pc' = [pc EXCEPT ![w] = l]
                                        /\ (l = "undo" => pc[w] # "writeTxn")
      BY DEF WriteFails, AfterFault
    <3>2. QED
      BY <3>1, CurMoves DEF WriteFails, Owning, Critical
  <2>2. AppendFails(w) => CurInv'
    BY CurMoves DEF AppendFails, Owning, Critical
  <2>3. RemoveFails(w) => CurInv'
    <3> SUFFICES ASSUME RemoveFails(w) PROVE CurInv'
      OBVIOUS
    <3>1. \A t \in TxnIds : t # cur[w] => txn'[t] = txn[t]
      BY DEF RemoveFails, PartlyRemoved, TypeOK
    <3>2. QED
      BY <3>1, CurRemoves DEF RemoveFails, Owning, Critical
  <2>4. QED
    BY <1>3, <2>1, <2>2, <2>3 DEF Fault
<1>4. ASSUME NEW p \in Processes, Crash(p) PROVE CurInv'
  <2>1. ASSUME NEW v \in Workers, ProcessOf[v] = p PROVE CurAt(v)'
    BY <1>4, <2>1 DEF Crash, CurAt, Owning, Critical
  <2>2. ASSUME NEW v \in Workers, ProcessOf[v] # p PROVE CurAt(v)'
    <3>1. UNCHANGED <<pc[v], cur[v], scan[v], log>>
      BY <1>4, <2>2 DEF Crash
    <3>2. CASE txn' = txn
      BY <3>1, <3>2 DEF CurInv, CurAt, Present, LogTxns
    <3>3. CASE txn' # txn
      <4>1. PICK w \in Workers : ProcessOf[w] = p /\ pc[w] = "cleanup"
        BY <1>4, <3>3 DEF Crash
      <4>2. pc[v] \notin Critical
        BY <2>2, <4>1, OthersOutside DEF Critical
      <4>3. cur'[v] = 0 /\ scan'[v] = {} /\ pc'[v] \notin Critical
        BY <3>1, <4>2 DEF CurInv, CurAt
      <4>4. QED
        BY <4>3 DEF CurAt, Owning, Critical
    <3>4. QED
      BY <3>2, <3>3
  <2>3. QED
    BY <2>1, <2>2 DEF CurInv
<1>5. RemoveStaleLock => CurInv'
  BY DEF RemoveStaleLock, CurInv, CurAt, Present, LogTxns
<1>6. UNCHANGED vars => CurInv'
  BY DEF vars, CurInv, CurAt, Present, LogTxns
<1> QED
  BY <1>1, <1>2, <1>3, <1>4, <1>5, <1>6 DEF Next
-----------------------------------------------------------------------------
(* The event log *)

\* Steps that append nothing: no transaction enters the log, no unfinished
\* transaction changes its event.
LEMMA LogKept ==
  ASSUME TypeOK, LogInv, log' = log, used \subseteq used',
         \A t \in TxnIds : Present(t)' => t \in used',
         \A t \in LogTxns \cap Unresolved' : t \in Unresolved /\ txn'[t].seq = txn[t].seq
  PROVE  LogInv'
<1>1. LogTxns' = LogTxns /\ LogGapless'
  BY DEF LogTxns, LogInv, LogGapless
<1>2. \A t \in LogTxns' : t = 0 \/ t \in used'
  BY <1>1 DEF LogInv
<1>3. ASSUME NEW t \in LogTxns' \cap Unresolved' PROVE InLog(t)'
  BY <1>1, <1>3 DEF LogInv, InLog
<1>4. QED
  BY <1>1, <1>2, <1>3 DEF LogInv

\* Steps that save, make or remove transaction directories one at a time.
LEMMA LogMarks ==
  ASSUME TypeOK, LogInv, UNCHANGED <<log, used>>, NEW t \in TxnIds,
         \A u \in TxnIds : u # t => txn'[u] = txn[u],
         t \in used,
         t \in LogTxns /\ t \in Unresolved' => t \in Unresolved /\ txn'[t].seq = txn[t].seq
  PROVE  LogInv'
<1>1. \A u \in TxnIds : Present(u)' => u \in used'
  BY DEF LogInv, Present
<1>2. \A u \in LogTxns \cap Unresolved' : u \in Unresolved /\ txn'[u].seq = txn[u].seq
  BY DEF Unresolved
<1>3. QED
  BY <1>1, <1>2, LogKept

\* The next event: its number is the next one and its transaction is new.
LEMMA LogGrows ==
  ASSUME TypeOK, LogInv, NEW t \in TxnIds, t \in Unresolved, ~InLog(t), InSequence(t),
         log' = Append(log, Event(t, txn[t].seq)), UNCHANGED <<txn, used>>
  PROVE  LogInv'
<1>1. log \in Seq(Events) /\ Len(log) \in Nat /\ Len(log') = Len(log) + 1
  BY DEF TypeOK
<1>2. /\ \A k \in 1..Len(log) : log'[k] = log[k]
      /\ log'[Len(log) + 1] = Event(t, txn[t].seq)
  BY <1>1
<1>3. t \notin LogTxns
  BY DEF LogInv
<1>4. Event(t, txn[t].seq).seq = Len(log) + 1 /\ Event(t, txn[t].seq).txn = t
  BY DEF Event, InSequence
<1>5. LogTxns' = LogTxns \cup {t}
  BY <1>1, <1>2, <1>4 DEF LogTxns
<1>6. LogGapless'
  <2>1. ASSUME NEW k \in 1..Len(log') PROVE log'[k].seq = k
    BY <1>1, <1>2, <1>4 DEF LogInv, LogGapless
  <2>2. ASSUME NEW k \in 1..Len(log'), NEW j \in 1..Len(log'), log'[j].txn = log'[k].txn
        PROVE  j = k
    <3>1. \A i \in 1..Len(log) : log[i].txn # t
      BY <1>3 DEF LogTxns
    <3>2. QED
      BY <1>1, <1>2, <1>4, <2>2, <3>1 DEF LogInv, LogGapless
  <2>3. QED
    BY <2>1, <2>2 DEF LogGapless
<1>7. \A u \in LogTxns' : u = 0 \/ u \in used'
  BY <1>5 DEF LogInv, Unresolved, Present
<1>8. \A u \in TxnIds : Present(u)' => u \in used'
  BY DEF LogInv, Present
<1>9. ASSUME NEW u \in LogTxns' \cap Unresolved' PROVE InLog(u)'
  <2>1. CASE u = t
    BY <1>1, <1>2, <2>1 DEF InLog, Event
  <2>2. CASE u # t
    <3>1. InLog(u)
      BY <1>5, <1>9, <2>2 DEF LogInv, Unresolved
    <3>2. PICK k \in 1..Len(log) : log[k] = Event(u, txn[u].seq)
      BY <3>1 DEF InLog
    <3>3. k \in 1..Len(log') /\ log'[k] = Event(u, txn[u].seq)
      BY <1>1, <1>2, <3>2
    <3>4. QED
      BY <3>3 DEF InLog, Event
  <2>3. QED
    BY <2>1, <2>2
<1>10. QED
  BY <1>6, <1>7, <1>8, <1>9 DEF LogInv

\* What the owner works on has been handed out and, once its files are
\* written, is unresolved.
LEMMA OwnedTxn ==
  ASSUME CurInv, LogInv, NEW w \in Workers, pc[w] \in Owning
  PROVE  /\ cur[w] \in TxnIds /\ cur[w] \in used
         /\ pc[w] # "writeTxn" => cur[w] \in Unresolved
         /\ pc[w] = "writeTxn" => cur[w] \notin LogTxns
  BY DEF CurInv, CurAt, LogInv, Unresolved, Present

\* An interrupted removal leaves the event number, or no unresolved directory.
LEMMA LogPartlyRemoved ==
  ASSUME TypeOK, CurInv, LogInv, NEW w \in Workers, pc[w] = "cleanup",
         PartlyRemoved(cur[w]), UNCHANGED <<log, used>>
  PROVE  LogInv'
<1>1. cur[w] \in TxnIds /\ cur[w] \in used /\ cur[w] \in Unresolved
  BY OwnedTxn DEF Owning, Critical
<1>2. \A u \in TxnIds : u # cur[w] => txn'[u] = txn[u]
  BY <1>1 DEF PartlyRemoved, TypeOK
<1>3. cur[w] \in Unresolved' => txn'[cur[w]].seq = txn[cur[w]].seq
  <2>1. CASE txn' = txn
    BY <2>1
  <2>2. CASE txn' = [txn EXCEPT ![cur[w]].event = FALSE]
    BY <1>1, <2>2 DEF TypeOK, TxnRecords
  <2>3. CASE txn' = [txn EXCEPT ![cur[w]] = [NoTxn EXCEPT !.phase = "husk"]]
    <3>1. txn'[cur[w]].phase = "husk"
      BY <1>1, <2>3 DEF TypeOK, NoTxn
    <3>2. QED
      BY <3>1 DEF Unresolved
  <2>4. QED
    BY <2>1, <2>2, <2>3 DEF PartlyRemoved
<1>4. QED
  BY <1>1, <1>2, <1>3, LogMarks

\* No step breaks the numbering of the log or its agreement with the
\* transactions still on disk.
LEMMA LogStep ==
  TypeOK /\ LockInv /\ CurInv /\ LogInv /\ [Next]_vars => LogInv'
<1> SUFFICES ASSUME TypeOK, LockInv, CurInv, LogInv, [Next]_vars PROVE LogInv'
  OBVIOUS
<1> USE DEF Goto, diskVars, lockVars, localVars, boundVars
<1>0. UNCHANGED <<log, txn, used>> => LogInv'
  BY DEF LogInv, LogTxns, Unresolved, Present, InLog, LogGapless
<1>1. ASSUME NEW w \in Workers, Submit(w) PROVE LogInv'
  BY <1>0, <1>1 DEF Submit, ReadRevisions, RequestCreation, RequestRecovery
<1>2. ASSUME NEW w \in Workers, Step(w) PROVE LogInv'
  <2>0. /\ pc[w] \in Owning => txn[cur[w]] \in TxnRecords
        /\ pc[w] \in Owning => cur[w] \in TxnIds /\ cur[w] \in used
        /\ pc[w] \in Owning /\ pc[w] # "writeTxn" => cur[w] \in Unresolved
    BY OwnedTxn DEF TypeOK
  <2>1. LoadTask(w) \/ LoadItems(w) \/ AcquireProcessLock(w) \/ AcquireFileLock(w)
          \/ LockTimeout(w) \/ Release(w) => LogInv'
    BY <1>0 DEF LoadTask, LoadItems, AcquireProcessLock, AcquireFileLock, LockTimeout,
       Release
  <2>2. PublishSnapshot(w) \/ RestoreSnapshot(w) \/ EnterRollback(w)
          \/ RecoverNext(w) \/ RecoverDone(w) => LogInv'
    BY <1>0 DEF PublishSnapshot, RestoreSnapshot, EnterRollback, RecoverNext, RecoverDone
  <2>3. MakeTxnDir(w) => LogInv'
    <3> SUFFICES ASSUME MakeTxnDir(w) PROVE LogInv'
      OBVIOUS
    <3>1. CASE UNCHANGED <<txn, used>>
      BY <1>0, <3>1 DEF MakeTxnDir
    <3>2. ASSUME NEW t \in TxnIds \ used, used' = used \cup {t},
                 txn' = [txn EXCEPT ![t].phase = "husk"]
          PROVE  LogInv'
      <4>1. txn'[t].phase = "husk" /\ \A u \in TxnIds : u # t => txn'[u] = txn[u]
        BY <3>2 DEF TypeOK, TxnRecords
      <4>2. \A u \in TxnIds : Present(u)' => u \in used'
        BY <3>2, <4>1 DEF LogInv, Present
      <4>3. \A u \in LogTxns \cap Unresolved' : u \in Unresolved /\ txn'[u].seq = txn[u].seq
        BY <4>1 DEF Unresolved
      <4>4. QED
        BY <3>2, <4>2, <4>3, LogKept DEF MakeTxnDir
    <3>3. QED
      BY <3>1, <3>2 DEF MakeTxnDir
  <2>4. WriteTxnFiles(w) => LogInv'
    <3> SUFFICES ASSUME WriteTxnFiles(w) PROVE LogInv'
      OBVIOUS
    <3>1. cur[w] \in TxnIds /\ cur[w] \in used /\ cur[w] \notin LogTxns
      BY OwnedTxn DEF WriteTxnFiles, Owning, Critical
    <3>2. \A u \in TxnIds : u # cur[w] => txn'[u] = txn[u]
      BY <3>1 DEF WriteTxnFiles, TypeOK
    <3>3. QED
      BY <3>1, <3>2, LogMarks DEF WriteTxnFiles
  <2>5. PrepareSnapshots(w) => LogInv'
    <3> SUFFICES ASSUME PrepareSnapshots(w) PROVE LogInv'
      OBVIOUS
    <3>1. pc[w] \in Owning /\ pc[w] # "writeTxn"
      BY DEF PrepareSnapshots, Owning, Critical
    <3>2. /\ txn'[cur[w]].seq = txn[cur[w]].seq
          /\ \A u \in TxnIds : u # cur[w] => txn'[u] = txn[u]
      BY <2>0, <3>1 DEF PrepareSnapshots, TypeOK, TxnRecords
    <3>3. QED
      BY <2>0, <3>1, <3>2, LogMarks DEF PrepareSnapshots
  <2>6. MarkPublished(w) => LogInv'
    <3> SUFFICES ASSUME MarkPublished(w) PROVE LogInv'
      OBVIOUS
    <3>1. pc[w] \in Owning /\ pc[w] # "writeTxn"
      BY DEF MarkPublished, Owning, Critical
    <3>2. /\ txn'[cur[w]].seq = txn[cur[w]].seq
          /\ \A u \in TxnIds : u # cur[w] => txn'[u] = txn[u]
      BY <2>0, <3>1 DEF MarkPublished, TypeOK, TxnRecords
    <3>3. QED
      BY <2>0, <3>1, <3>2, LogMarks DEF MarkPublished
  <2>7. AppendEvent(w) => LogInv'
    <3> SUFFICES ASSUME AppendEvent(w) PROVE LogInv'
      OBVIOUS
    <3>1. cur[w] \in TxnIds /\ cur[w] \in Unresolved
      BY <2>0 DEF AppendEvent, Owning, Critical
    <3>2. CASE log' = log
      BY <1>0, <3>2 DEF AppendEvent
    <3>3. CASE log' # log
      BY <3>1, <3>3, LogGrows DEF AppendEvent
    <3>4. QED
      BY <3>2, <3>3
  <2>8. MarkAppended(w) => LogInv'
    <3> SUFFICES ASSUME MarkAppended(w) PROVE LogInv'
      OBVIOUS
    <3>1. pc[w] \in Owning /\ pc[w] # "writeTxn"
      BY DEF MarkAppended, Owning, Critical
    <3>2. /\ txn'[cur[w]].seq = txn[cur[w]].seq
          /\ \A u \in TxnIds : u # cur[w] => txn'[u] = txn[u]
      BY <2>0, <3>1 DEF MarkAppended, TypeOK, TxnRecords
    <3>3. QED
      BY <2>0, <3>1, <3>2, LogMarks DEF MarkAppended
  <2>9. MarkCommitted(w) => LogInv'
    <3> SUFFICES ASSUME MarkCommitted(w) PROVE LogInv'
      OBVIOUS
    <3>1. pc[w] \in Owning /\ pc[w] # "writeTxn"
      BY DEF MarkCommitted, Owning, Critical
    <3>2. CASE txn' = txn
      BY <1>0, <3>2 DEF MarkCommitted
    <3>3. CASE txn' = [txn EXCEPT ![cur[w]].phase = "committed"]
      <4>1. /\ txn'[cur[w]].seq = txn[cur[w]].seq
            /\ \A u \in TxnIds : u # cur[w] => txn'[u] = txn[u]
        BY <2>0, <3>1, <3>3 DEF TypeOK, TxnRecords
      <4>2. QED
        BY <2>0, <3>1, <4>1, LogMarks DEF MarkCommitted
    <3>4. QED
      BY <3>2, <3>3 DEF MarkCommitted
  <2>10. RemoveTxnDir(w) => LogInv'
    <3> SUFFICES ASSUME RemoveTxnDir(w) PROVE LogInv'
      OBVIOUS
    <3>1. cur[w] \in TxnIds /\ cur[w] \in used
      BY <2>0 DEF RemoveTxnDir, Owning, Critical
    <3>2. /\ txn'[cur[w]].phase = "none"
          /\ \A u \in TxnIds : u # cur[w] => txn'[u] = txn[u]
      BY <3>1 DEF RemoveTxnDir, TypeOK, NoTxn
    <3>3. cur[w] \notin Unresolved'
      BY <3>2 DEF Unresolved
    <3>4. QED
      BY <3>1, <3>2, <3>3, LogMarks DEF RemoveTxnDir
  <2>11. MarkRolledBack(w) => LogInv'
    <3> SUFFICES ASSUME MarkRolledBack(w) PROVE LogInv'
      OBVIOUS
    <3>1. pc[w] \in Owning /\ pc[w] # "writeTxn"
      BY DEF MarkRolledBack, Owning, Critical
    <3>2. /\ txn'[cur[w]].seq = txn[cur[w]].seq
          /\ \A u \in TxnIds : u # cur[w] => txn'[u] = txn[u]
      BY <2>0, <3>1 DEF MarkRolledBack, TypeOK, TxnRecords
    <3>3. QED
      BY <2>0, <3>1, <3>2, LogMarks DEF MarkRolledBack
  <2>12. QED
    BY <1>2, <2>1, <2>2, <2>3, <2>4, <2>5, <2>6, <2>7, <2>8, <2>9, <2>10, <2>11 DEF Step
<1>3. ASSUME NEW w \in Workers, Fault(w) PROVE LogInv'
  <2>1. WriteFails(w) => LogInv'
    BY <1>0 DEF WriteFails
  <2>2. AppendFails(w) => LogInv'
    <3> SUFFICES ASSUME AppendFails(w) PROVE LogInv'
      OBVIOUS
    <3>1. cur[w] \in TxnIds /\ cur[w] \in Unresolved
      BY OwnedTxn DEF AppendFails, Owning, Critical
    <3>2. CASE log' = log
      BY <1>0, <3>2 DEF AppendFails
    <3>3. CASE log' # log
      BY <3>1, <3>3, LogGrows DEF AppendFails
    <3>4. QED
      BY <3>2, <3>3
  <2>3. RemoveFails(w) => LogInv'
    BY LogPartlyRemoved DEF RemoveFails
  <2>4. QED
    BY <1>3, <2>1, <2>2, <2>3 DEF Fault
<1>4. ASSUME NEW p \in Processes, Crash(p) PROVE LogInv'
  <2>1. CASE txn' = txn
    BY <1>0, <1>4, <2>1 DEF Crash
  <2>2. CASE txn' # txn
    <3>1. PICK w \in Workers : pc[w] = "cleanup" /\ PartlyRemoved(cur[w])
      BY <1>4, <2>2 DEF Crash
    <3>2. QED
      BY <1>4, <3>1, LogPartlyRemoved DEF Crash
  <2>3. QED
    BY <2>1, <2>2
<1>5. RemoveStaleLock => LogInv'
  BY <1>0 DEF RemoveStaleLock
<1>6. UNCHANGED vars => LogInv'
  BY <1>0 DEF vars
<1> QED
  BY <1>1, <1>2, <1>3, <1>4, <1>5, <1>6 DEF Next
-----------------------------------------------------------------------------
(* The inductive invariant *)

\* The invariant holds initially.
LEMMA InitInv == Init => IInv
<1> SUFFICES ASSUME Init PROVE IInv
  OBVIOUS
<1>1. TypeOK
  BY InitTypeOK
<1>2. LockInv
  BY DEF Init, LockInv, Critical
<1>3. RequestInv
  BY DEF Init, RequestInv, NoRequest
<1>4. CurInv
  BY DEF Init, CurInv, CurAt, Owning, Critical
<1>5. LogInv
  <2>1. \A t \in TxnIds : ~Present(t) /\ t \notin Unresolved
    BY DEF Init, Present, Unresolved, NoTxn
  <2>2. \A k \in 1..Len(log) : k = 1 /\ Len(log) = 1 /\ log[k] = Event(0, 1)
    <3>1. log = <<>> \/ log = <<Event(0, 1)>>
      BY DEF Init
    <3>2. CASE log = <<>>
      BY <3>2
    <3>3. CASE log = <<Event(0, 1)>>
      <4>1. Len(log) = 1 /\ log[1] = Event(0, 1)
        BY <3>3
      <4>2. QED
        BY <4>1
    <3>4. QED
      BY <3>1, <3>2, <3>3
  <2>3. LogGapless /\ \A t \in LogTxns : t = 0
    BY <2>2 DEF LogGapless, LogTxns, Event
  <2>4. QED
    BY <2>1, <2>3 DEF LogInv, Unresolved
<1>6. QED
  BY <1>1, <1>2, <1>3, <1>4, <1>5 DEF IInv

\* Every step preserves the invariant.
LEMMA NextInv == IInv /\ [Next]_vars => IInv'
<1> SUFFICES ASSUME IInv, [Next]_vars PROVE IInv'
  OBVIOUS
<1>1. TypeOK'
  BY NextTypeOK DEF IInv
<1>2. LockInv' /\ RequestInv' /\ LogInv'
  BY LockStep, RequestStep, LogStep DEF IInv
<1>3. CurInv'
  BY <1>1, CurStep DEF IInv
<1>4. QED
  BY <1>1, <1>2, <1>3 DEF IInv

\* The inductive invariant holds in every reachable state: what each thread
\* between acquire and release works on is its own and is on disk
\* (_LockContext, begin_transaction, _recover_locked).
THEOREM Invariance == Spec => []IInv
<1>1. Init => IInv
  BY InitInv
<1>2. IInv /\ [Next]_vars => IInv'
  BY NextInv
<1>3. QED
  BY <1>1, <1>2, PTL DEF Spec

\* Every state a task directory and its threads reach is well typed.
THEOREM TypeCorrect == Spec => []TypeOK
<1>1. IInv => TypeOK
  BY DEF IInv
<1>2. QED
  BY <1>1, Invariance, PTL

\* However many threads and processes there are, whatever fails or crashes,
\* whoever removes stale lock files: at most one thread is between acquiring
\* and releasing task.lock (_LockContext).
THEOREM Mutex == Spec => []MutualExclusion
<1>1. IInv => MutualExclusion
  BY LockInvMutex DEF IInv
<1>2. QED
  BY <1>1, Invariance, PTL

\* events.ndjson is numbered without gaps and no transaction's event is in it
\* twice, across failed, repeated and recovered appends
\* (append_transaction_event).
THEOREM GaplessLog == Spec => []LogGapless
<1>1. IInv => LogGapless
  BY DEF IInv, LogInv
<1>2. QED
  BY <1>1, Invariance, PTL

-----------------------------------------------------------------------------
(* The event log implements the abstract history *)

\* How a step can change the event log: not at all, or by the next event of
\* a transaction the log does not hold.
LogStepOK ==
  \/ log' = log
  \/ \E t \in TxnIds : t \notin LogTxns /\ log' = Append(log, Event(t, txn[t].seq))

\* A step leaves the log alone or appends one event of a transaction that is
\* not in it yet.
LEMMA LogOnlyGrows == IInv /\ [Next]_vars => LogStepOK
<1> SUFFICES ASSUME IInv, [Next]_vars PROVE LogStepOK
  OBVIOUS
<1> USE DEF diskVars
<1>1. ASSUME NEW w \in Workers, pc[w] = "append", ~InLog(cur[w]),
             log' = Append(log, Event(cur[w], txn[cur[w]].seq))
      PROVE  LogStepOK
  <2>1. cur[w] \in TxnIds /\ cur[w] \in Unresolved
    BY <1>1, OwnedTxn DEF IInv, Owning, Critical
  <2>2. cur[w] \notin LogTxns
    BY <1>1, <2>1 DEF IInv, LogInv
  <2>3. QED
    BY <1>1, <2>1, <2>2 DEF LogStepOK
<1>2. ASSUME NEW w \in Workers, Submit(w) PROVE LogStepOK
  BY <1>2 DEF LogStepOK, Submit, ReadRevisions, RequestCreation, RequestRecovery
<1>3. ASSUME NEW w \in Workers, Step(w) PROVE LogStepOK
  <2>1. CASE AppendEvent(w)
    BY <1>1, <2>1 DEF AppendEvent, LogStepOK
  <2>2. CASE ~AppendEvent(w)
    <3>1. log' = log
      BY <1>3, <2>2
      DEF Step, LoadTask, LoadItems, AcquireProcessLock, AcquireFileLock, LockTimeout,
          Release, MakeTxnDir, WriteTxnFiles, PrepareSnapshots, PublishSnapshot,
          MarkPublished, MarkAppended, MarkCommitted, RemoveTxnDir, EnterRollback,
          RestoreSnapshot, MarkRolledBack, RecoverNext, RecoverDone
    <3>2. QED
      BY <3>1 DEF LogStepOK
  <2>3. QED
    BY <2>1, <2>2
<1>4. ASSUME NEW w \in Workers, Fault(w) PROVE LogStepOK
  BY <1>1, <1>4 DEF Fault, WriteFails, AppendFails, RemoveFails, LogStepOK
<1>5. ASSUME NEW p \in Processes, Crash(p) PROVE LogStepOK
  BY <1>5 DEF Crash, LogStepOK
<1>6. QED
  BY <1>2, <1>3, <1>4, <1>5 DEF Next, RemoveStaleLock, vars, LogStepOK

HistoryOf(l) == [k \in 1..Len(l) |-> l[k].txn]

\* Appending an event appends its transaction to the abstract history.
LEMMA HistoryAppend ==
  ASSUME NEW l \in Seq(Events), NEW e \in Events
  PROVE  HistoryOf(Append(l, e)) = Append(HistoryOf(l), e.txn)
<1>1. Len(l) \in Nat /\ \A k \in 1..Len(l) : l[k].txn \in Writers
  <2>1. \A k \in 1..Len(l) : l[k] \in Events
    OBVIOUS
  <2>2. \A x \in Events : x.txn \in Writers
    BY DEF Events
  <2>3. QED
    BY <2>1, <2>2
<1>2. HistoryOf(l) \in [1..Len(l) -> Writers]
  BY <1>1 DEF HistoryOf
<1>3. HistoryOf(l) \in Seq(Writers) /\ Len(HistoryOf(l)) = Len(l)
  BY <1>1, <1>2
<1>4. QED
  BY <1>1, <1>3 DEF HistoryOf, Events

\* The initial log is an initial history.
LEMMA HistoryInit == Init => History!Init
<1> SUFFICES ASSUME Init PROVE History!Init
  OBVIOUS
<1>1. CASE log = <<>>
  BY <1>1 DEF History!Init
<1>2. CASE log = <<Event(0, 1)>>
  <2>1. HistoryOf(log) = <<0>>
    <3>1. Event(0, 1) \in Events /\ Event(0, 1).txn = 0
      BY DEF Event, Events, Writers
    <3>2. log = Append(<<>>, Event(0, 1)) /\ <<>> \in Seq(Events)
      BY <1>2
    <3>3. HistoryOf(<<>>) = <<>>
      BY DEF HistoryOf
    <3>4. HistoryOf(log) = Append(<<>>, 0)
      BY <3>1, <3>2, <3>3, HistoryAppend
    <3>5. QED
      BY <3>4
  <2>2. QED
    BY <2>1 DEF History!Init, HistoryOf
<1>3. QED
  BY <1>1, <1>2 DEF Init

\* Every step is a step of the history or leaves it alone.
LEMMA HistoryStep ==
  IInv /\ [Next]_vars => [History!Next]_(HistoryOf(log))
<1> SUFFICES ASSUME IInv, [Next]_vars PROVE [History!Next]_(HistoryOf(log))
  OBVIOUS
<1>1. CASE log' = log
  BY <1>1 DEF HistoryOf
<1>2. ASSUME NEW t \in TxnIds, t \notin LogTxns,
             log' = Append(log, Event(t, txn[t].seq))
      PROVE  History!Next
  <2>1. log \in Seq(Events) /\ Event(t, txn[t].seq) \in Events
    BY DEF IInv, TypeOK, TxnRecords, Event, Events, Writers
  <2>2. HistoryOf(log)' = Append(HistoryOf(log), t)
    BY <1>2, <2>1, HistoryAppend DEF HistoryOf, Event
  <2>3. \A k \in 1..Len(HistoryOf(log)) : HistoryOf(log)[k] # t
    BY <1>2, <2>1 DEF HistoryOf, LogTxns
  <2>4. History!Commit(t)
    BY <2>2, <2>3 DEF History!Commit, HistoryOf
  <2>5. QED
    BY <2>4 DEF History!Next
<1>3. QED
  BY <1>1, <1>2, LogOnlyGrows DEF LogStepOK

\* The event log is a history of transactions that only grows, by one
\* transaction at a time, each of them once: nothing a failure, a rollback, a
\* crash or a recovery does takes an event back or repeats it.
THEOREM Refinement == Spec => HistorySpec
<1>1. Init => History!Init
  BY HistoryInit
<1>2. IInv /\ [Next]_vars => [History!Next]_(HistoryOf(log))
  BY HistoryStep
<1>3. QED
  BY <1>1, <1>2, Invariance, PTL DEF Spec, HistorySpec, History!Spec, HistoryOf
-----------------------------------------------------------------------------
(* The order of the disk until the first failure *)

\* Nothing has failed and no process has died so far.
Undisturbed == faults = 0 /\ crashes = 0

\* The task file is that of the last event and was computed from the one before.
Current ==
  IF files[TaskFile] = Absent THEN Len(log) = 0
  ELSE /\ Len(log) > 0
       /\ files[TaskFile].seq = Len(log)
       /\ files[TaskFile].by = LastEvent.txn
       /\ Len(log) > 1 => files[TaskFile].from = log[Len(log) - 1].txn

\* w has written the task file and not yet the event.
Ahead(w) == pc[w] = "append" \/ (pc[w] = "publish" /\ TaskFile \notin todo[w])
\* The task file is that of the last event: nobody is between the two writes.
Settled == \A w \in Workers : ~Ahead(w)

\* Where a call is from having read the items to its compare-and-set.
Waiting == {"plock", "flock", "begin", "writeTxn", "prepare"}

\* What a call that has not finished reading knows of the task.
Reads(w) ==
  LET req == request[w]  task == files[TaskFile] IN
  /\ pc[w] \in {"loadTask", "loadItems"} =>
       /\ mode[w] = "run" /\ ~req.create /\ TaskFile \in req.refs /\ task # Absent
       /\ req.exp[TaskFile] <= task.rev
  /\ pc[w] = "loadItems" =>
       /\ req.exp[TaskFile] <= req.base.rev /\ req.base.rev <= task.rev
       /\ req.base.rev = task.rev => (req.base.seq = task.seq /\ req.base.by = task.by)
  /\ pc[w] \in {"begin", "writeTxn", "prepare"} => mode[w] = "run"

\* A write set is newer than the files it was computed from; if it is the next
\* revision of the task, it was computed from the present one.
Timely(req, task) ==
  /\ task # Absent
  /\ \A r \in req.refs : req.exp[r] < req.new[r].rev
  /\ req.new[TaskFile].rev <= task.rev + 1
  /\ req.new[TaskFile].rev = task.rev + 1 =>
       (req.seq = task.seq + 1 /\ req.new[TaskFile].from = task.by)

Writes(w) ==
  pc[w] \in Waiting /\ mode[w] = "run" =>
    /\ TaskFile \in request[w].refs
    /\ request[w].seq = request[w].new[TaskFile].seq
    /\ request[w].create => request[w].seq = 1
    /\ ~request[w].create => Timely(request[w], files[TaskFile])

\* What is about to be published follows the last event.
Staged(w) ==
  LET t == cur[w]  x == txn[t] IN
  /\ x.event /\ TaskFile \in x.refs
  /\ x.seq = Len(log) + 1 /\ x.new[TaskFile].seq = x.seq
  /\ Len(log) > 0 => x.new[TaskFile].from = LastEvent.txn
  /\ \A r \in x.refs : x.new[r] # Absent /\ x.new[r].by = t

\* The task file lists the items as they are on disk.
Indexed == IndexReconciled(files[TaskFile])

\* What the transaction of the owner of the lock looks like on disk.
Works(w) ==
  LET t == cur[w]  x == txn[t] IN
  /\ pc[w] = "writeTxn" => x.phase = "husk"
  /\ pc[w] = "prepare" => (x.phase = "prepared" /\ x.event /\ x.seq = request[w].seq)
  /\ pc[w] \in {"prepare", "publish", "append", "undo", "restore"} => t \notin LogTxns
  /\ pc[w] \in {"publish", "undo", "restore"} => x.phase = "prepared"
  /\ pc[w] \in {"publish", "append"} => Staged(w)
  /\ pc[w] = "publish" =>
       /\ todo[w] \subseteq x.refs
       /\ \A r \in todo[w] : files[r] # Absent => files[r].rev < x.new[r].rev
  /\ Ahead(w) => files[TaskFile] = x.new[TaskFile]
  /\ pc[w] = "commit" => x.phase = "appended"
  /\ pc[w] = "cleanup" =>
       IF x.phase = "committed"
         THEN Len(log) > 0 /\ LastEvent.txn = t /\ Indexed
         ELSE t \notin LogTxns
  /\ pc[w] = "undo" => \A r \in x.refs : x.old[r] = files[r]
  /\ pc[w] = "restore" => \A r \in todo[w] : x.old[r] = files[r]

\* A transaction nobody works on is one whose commit was refused.
Owned(t) == \E w \in Workers : pc[w] \in Owning /\ cur[w] = t
LeftOver == \A t \in TxnIds : Present(t) /\ ~Owned(t) => txn[t].phase = "appended"

\* The index is that of the items, unless the last commit was refused.
Reconciled ==
  Settled /\ Len(log) > 0 /\ (LastEvent.txn \in TxnIds => ~Present(LastEvent.txn))
    => Indexed

\* Every file is that of a logged transaction or of one being published.
Signed == \A r \in Refs : files[r] # Absent =>
  \/ files[r].by \in LogTxns \cup {0}
  \/ \E w \in Workers : pc[w] \in {"publish", "append"} /\ cur[w] = files[r].by

\* The parts of the invariant that hold until the first failure.
Orderly ==
  /\ ~torn /\ ~stray
  /\ Settled => Current
  /\ \A w \in Workers : Reads(w) /\ Writes(w) /\ Works(w)
  /\ LeftOver /\ Reconciled /\ Signed

\* The task file is the same or a newer one.
Newer == \/ files'[TaskFile] = files[TaskFile]
         \/ /\ files'[TaskFile] # Absent
            /\ files[TaskFile] # Absent => files[TaskFile].rev < files'[TaskFile].rev

\* A newer task file changes nothing for a call that is not running.
LEMMA WaitingKept ==
  ASSUME TypeOK, TypeOK', RequestInv, Newer, NEW v \in Workers, Reads(v), Writes(v),
         pc'[v] = pc[v], request'[v] = request[v], mode'[v] = mode[v]
  PROVE  Reads(v)' /\ Writes(v)'
<1>1. /\ files[TaskFile] # Absent => files[TaskFile].rev \in Nat
      /\ files'[TaskFile] # Absent => files'[TaskFile].rev \in Nat
  BY FileTypes DEF TypeOK, Refs
<1>2. /\ request[v].refs \subseteq Refs /\ request[v].base.rev \in Nat /\ TaskFile \in Refs
      /\ \A r \in Refs : request[v].exp[r] \in Nat
  BY DEF TypeOK, Requests, Revisions, Refs
<1>3. Reads(v)'
  BY <1>1, <1>2 DEF Reads, Newer
<1>4. CASE pc[v] \in Waiting /\ mode[v] = "run" /\ ~request[v].create
  <2>0. TaskFile \in request[v].refs /\ Timely(request[v], files[TaskFile])
    BY <1>4 DEF Writes
  <2>1. files[TaskFile] # Absent /\ files'[TaskFile] # Absent
    BY <2>0 DEF Timely, Newer
  <2>2. request[v].new[TaskFile].rev \in Nat
    <3>1. request[v].new[TaskFile] \in TaskSnapshots
      BY <1>4, <2>0 DEF RequestInv, Waiting, SnapshotOf
    <3>2. QED
      BY <3>1 DEF TaskSnapshots
  <2>3. request[v].new[TaskFile].rev <= files[TaskFile].rev + 1
    BY <2>0 DEF Timely
  <2>4. Timely(request[v], files'[TaskFile])
    <3>1. CASE files'[TaskFile] = files[TaskFile]
      BY <2>0, <3>1
    <3>2. CASE files[TaskFile].rev < files'[TaskFile].rev
      <4>1. /\ request[v].new[TaskFile].rev <= files'[TaskFile].rev + 1
            /\ request[v].new[TaskFile].rev # files'[TaskFile].rev + 1
        BY <1>1, <2>1, <2>2, <2>3, <3>2
      <4>2. QED
        BY <2>0, <2>1, <4>1 DEF Timely
    <3>3. QED
      BY <2>1, <3>1, <3>2 DEF Newer
  <2>5. QED
    BY <1>3, <1>4, <2>0, <2>4 DEF Writes, Timely
<1>5. CASE request[v].create
  BY <1>3, <1>5 DEF Writes
<1>6. CASE pc[v] \notin Waiting \/ mode[v] # "run"
  BY <1>3, <1>6 DEF Writes
<1>7. request[v].create \/ ~request[v].create
  BY DEF TypeOK, Requests
<1> QED
  BY <1>3, <1>4, <1>5, <1>6, <1>7

-----------------------------------------------------------------------------
(* What a step leaves alone *)

\* Worker v stays where it is, with what it has read and its write set.
Same(v) ==
  /\ pc'[v] = pc[v] /\ cur'[v] = cur[v] /\ todo'[v] = todo[v]
  /\ request'[v] = request[v] /\ mode'[v] = mode[v]

\* The labels at which a thread owns a transaction, spelled out.
LEMMA Labelled ==
  /\ Owning = {"writeTxn", "prepare", "publish", "append", "markAppended", "commit",
               "cleanup", "undo", "restore"}
  /\ Critical = Owning \cup {"begin", "scan", "release"}
  BY DEF Owning, Critical

\* The index only depends on the files.
LEMMA IndexedKept == UNCHANGED <<files, stray>> => Indexed' = Indexed
  BY DEF Indexed, IndexReconciled

\* A thread that owns nothing has nothing on disk to answer for.
LEMMA Idle ==
  ASSUME NEW w \in Workers
  PROVE  pc[w] \notin Owning => Works(w) /\ ~Ahead(w)
  BY Labelled DEF Works, Ahead

\* A step outside a transaction that leaves the disk alone.
LEMMA OutsideKept ==
  ASSUME IInv, IInv', Orderly, NEW w \in Workers, pc[w] \notin Owning, pc'[w] \notin Owning,
         \A v \in Workers : v # w => Same(v),
         UNCHANGED <<files, log, torn, stray, txn>>, Reads(w)', Writes(w)'
  PROVE  Orderly'
<1>1. Works(w)' /\ ~Ahead(w)' /\ ~Ahead(w)
  BY Labelled DEF Works, Ahead
<1>2. Indexed' = Indexed /\ LogTxns' = LogTxns /\ LastEvent' = LastEvent
  BY IndexedKept DEF LogTxns, LastEvent
<1>3. ASSUME NEW v \in Workers, v # w PROVE Reads(v)' /\ Writes(v)' /\ Works(v)' /\ Ahead(v)' = Ahead(v)
  <2>1. Same(v) /\ Reads(v) /\ Writes(v) /\ Works(v)
    BY <1>3 DEF Orderly
  <2>2. Reads(v)' /\ Writes(v)'
    BY <2>1, WaitingKept DEF Same, Newer, IInv
  <2>3. Ahead(v)' = Ahead(v)
    BY <2>1 DEF Same, Ahead
  <2>4. Works(v)'
    BY <2>1, <2>3, <1>2 DEF Same, Works, Staged
  <2>5. QED
    BY <2>2, <2>3, <2>4
<1>4. Settled' = Settled
  BY <1>1, <1>3 DEF Settled
<1>5. Settled' => Current'
  BY <1>2, <1>4 DEF Orderly, Current
<1>6. \A t \in TxnIds : Owned(t)' = Owned(t)
  BY DEF Owned, Same
<1>7. LeftOver'
  BY <1>6 DEF Orderly, LeftOver, Present
<1>8. Reconciled'
  BY <1>2, <1>4 DEF Orderly, Reconciled, Present
<1>9. Signed'
  <2> SUFFICES ASSUME NEW r \in Refs, files[r] # Absent, files[r].by \notin LogTxns \cup {0}
               PROVE  \E v \in Workers : pc'[v] \in {"publish", "append"} /\ cur'[v] = files[r].by
    BY <1>2 DEF Signed
  <2>1. PICK v \in Workers : pc[v] \in {"publish", "append"} /\ cur[v] = files[r].by
    BY DEF Orderly, Signed
  <2>2. v # w
    BY <2>1, Labelled
  <2>3. QED
    BY <2>1, <2>2 DEF Same
<1>10. QED
  BY <1>1, <1>3, <1>5, <1>7, <1>8, <1>9 DEF Orderly

\* A step of the owner of the lock file: nobody else has a transaction.
LEMMA OwnerKept ==
  ASSUME IInv, IInv', Orderly, NEW w \in Workers, pc[w] \in Critical, Newer,
         \A v \in Workers : v # w => Same(v),
         Reads(w)', Writes(w)', Works(w)', ~torn', ~stray',
         Ahead(w)' \/ Current', LeftOver', Reconciled', Signed'
  PROVE  Orderly'
<1>1. ASSUME NEW v \in Workers, v # w PROVE Reads(v)' /\ Writes(v)' /\ Works(v)'
  <2>1. Same(v) /\ Reads(v) /\ Writes(v) /\ pc[v] \notin Owning
    BY <1>1, OthersOutside, Labelled DEF Orderly, IInv
  <2>2. Works(v)'
    BY <2>1, Labelled DEF Same, Works, Ahead
  <2>3. QED
    BY <2>1, <2>2, WaitingKept DEF Same, IInv
<1>2. Settled' => Current'
  BY DEF Settled
<1>3. QED
  BY <1>1, <1>2 DEF Orderly

\* Only one thread can own a transaction or be ahead of the log.
LEMMA OneOwner ==
  ASSUME IInv, Orderly, NEW w \in Workers, pc[w] \in Critical
  PROVE  /\ \A v \in Workers : v # w => pc[v] \notin Owning
         /\ \A t \in TxnIds : Owned(t) <=> pc[w] \in Owning /\ cur[w] = t
         /\ Settled <=> ~Ahead(w)
<1>1. \A v \in Workers : v # w => pc[v] \notin Owning
  BY OthersOutside, Labelled DEF IInv
<1>2. QED
  BY <1>1, Labelled DEF Owned, Settled, Ahead

\* Nothing is left over by a step of the owner that keeps its transaction, or
\* leaves it refused, or removes it.
LEMMA LeftKept ==
  ASSUME IInv, Orderly, NEW w \in Workers, pc[w] \in Critical,
         \A v \in Workers : v # w => Same(v), NEW t \in TxnIds,
         \A u \in TxnIds : u # t => txn'[u] = txn[u],
         pc[w] \in Owning => cur[w] = t,
         \/ pc'[w] \in Owning /\ cur'[w] = t
         \/ txn'[t].phase \in {"none", "appended"}
  PROVE  LeftOver'
<1>1. ASSUME NEW u \in TxnIds, Present(u)', ~Owned(u)' PROVE txn'[u].phase = "appended"
  <2>1. CASE u = t
    BY <1>1, <2>1 DEF Owned, Present
  <2>2. CASE u # t
    <3>1. ~Owned(u) /\ Present(u)
      BY <1>1, <2>2, OneOwner DEF Present
    <3>2. QED
      BY <2>2, <3>1 DEF Orderly, LeftOver
  <2>3. QED
    BY <2>1, <2>2
<1>2. QED
  BY <1>1 DEF LeftOver

\* The index stays that of the items when no file is written and the last
\* event's transaction is not removed.
LEMMA ReconciledKept ==
  ASSUME IInv, Orderly, UNCHANGED <<files, log, stray>>, NEW w \in Workers, pc[w] \in Critical,
         \A v \in Workers : v # w => Same(v),
         ~Ahead(w), NEW t \in TxnIds, \A u \in TxnIds : u # t => txn'[u] = txn[u],
         Present(t)' \/ ~Present(t) \/ t \notin LogTxns
  PROVE  Reconciled'
<1>1. Settled
  BY OneOwner
<1>2. LastEvent' = LastEvent /\ Indexed' = Indexed
  BY IndexedKept DEF LastEvent
<1>3. Len(log) > 0 => LastEvent.txn \in LogTxns
  BY DEF IInv, TypeOK, LastEvent, LogTxns
<1>4. Len(log) > 0 /\ LastEvent.txn \in TxnIds /\ ~Present(LastEvent.txn)'
        => ~Present(LastEvent.txn)
  BY <1>2, <1>3 DEF Present
<1>5. QED
  BY <1>1, <1>2, <1>4 DEF Orderly, Reconciled

\* Every file stays signed when none is written and a publication under way
\* goes on or has its event in the log.
LEMMA SignedKept ==
  ASSUME IInv, Orderly, files' = files, LogTxns \subseteq LogTxns',
         NEW w \in Workers, pc[w] \in Critical,
         \A v \in Workers : v # w => Same(v),
         pc[w] \in {"publish", "append"} =>
           (pc'[w] \in {"publish", "append"} /\ cur'[w] = cur[w]) \/ cur[w] \in LogTxns'
  PROVE  Signed'
<1> SUFFICES ASSUME NEW r \in Refs, files[r] # Absent, files[r].by \notin LogTxns' \cup {0}
             PROVE  \E v \in Workers : pc'[v] \in {"publish", "append"} /\ cur'[v] = files[r].by
  BY DEF Signed
<1>1. PICK v \in Workers : pc[v] \in {"publish", "append"} /\ cur[v] = files[r].by
  BY DEF Orderly, Signed
<1>2. v = w
  BY <1>1, OneOwner, Labelled
<1>3. QED
  BY <1>1, <1>2

-----------------------------------------------------------------------------
(* Steps outside a transaction *)

\* The reads before the lock.
LEMMA ReadingOrderly ==
  ASSUME IInv, IInv', Orderly, NEW w \in Workers,
         ReadRevisions(w) \/ RequestCreation(w) \/ LoadTask(w)
  PROVE  Orderly'
<1> USE DEF Goto, diskVars
<1>0. pc \in [Workers -> Labels] /\ request \in [Workers -> Requests] /\ mode \in [Workers -> {"run", "recover"}]
  BY DEF IInv, TypeOK
<1>1. \A v \in Workers : v # w => Same(v)
  BY <1>0 DEF Same, ReadRevisions, RequestCreation, LoadTask
<1>2. UNCHANGED <<files, log, torn, stray, txn>> /\ pc[w] \notin Owning /\ pc'[w] \notin Owning
  BY <1>0, Labelled DEF ReadRevisions, RequestCreation, LoadTask
<1>3. files[TaskFile] # Absent => files[TaskFile].rev \in Nat
  BY FileTypes DEF IInv, TypeOK, Refs
<1>4. CASE ReadRevisions(w)
  <2>1. pc'[w] = "loadTask" /\ mode'[w] = "run" /\ files[TaskFile] # Absent
    BY <1>0, <1>4 DEF ReadRevisions
  <2>2. PICK refs \in {{TaskFile}} \cup {{TaskFile, i} : i \in Items} :
          request'[w] = [NoRequest EXCEPT !.refs = refs,
            !.exp = [r \in Refs |-> IF r \in refs THEN files[r].rev ELSE 0]]
    BY <1>0, <1>4 DEF ReadRevisions
  <2>3. TaskFile \in refs /\ TaskFile \in Refs
    BY DEF Refs
  <2>4. ~request'[w].create /\ TaskFile \in request'[w].refs /\ request'[w].exp[TaskFile] = files[TaskFile].rev
    BY <2>2, <2>3 DEF NoRequest
  <2>5. Reads(w)' /\ Writes(w)'
    BY <1>2, <1>3, <2>1, <2>4 DEF Reads, Writes, Waiting
  <2>6. QED
    BY <1>1, <1>2, <2>5, OutsideKept
<1>5. CASE RequestCreation(w)
  <2>1. pc'[w] = "plock"
    BY <1>0, <1>5 DEF RequestCreation
  <2>2. PICK st \in Statuses : request'[w] =
           [NoRequest EXCEPT !.refs = Refs, !.create = TRUE, !.seq = 1,
            !.new = [r \in Refs |->
                       IF r = TaskFile
                         THEN TaskSnapshot(1, 1, [i \in Items |-> ItemSnapshot(1, st, 0)], 0, 0)
                         ELSE ItemSnapshot(1, st, 0)]]
    BY <1>0, <1>5 DEF RequestCreation
  <2>3. /\ request'[w].create = TRUE /\ request'[w].refs = Refs /\ request'[w].seq = 1
        /\ request'[w].new[TaskFile].seq = 1 /\ TaskFile \in Refs
    BY <2>2 DEF NoRequest, TaskSnapshot, Refs
  <2>4. Reads(w)' /\ Writes(w)'
    BY <2>1, <2>3 DEF Reads, Writes
  <2>5. QED
    BY <1>1, <1>2, <2>4, OutsideKept
<1>6. CASE LoadTask(w)
  <2>1. Reads(w) /\ pc[w] = "loadTask"
    BY <1>6 DEF LoadTask, Orderly
  <2>2. files[TaskFile] # Absent
    BY <2>1 DEF Reads
  <2>3. /\ pc'[w] = "loadItems" /\ mode' = mode
        /\ request' = [request EXCEPT ![w].base =
                 [rev |-> files[TaskFile].rev, seq |-> files[TaskFile].seq,
                  by |-> files[TaskFile].by]]
    BY <1>0, <1>6, <2>2 DEF LoadTask
  <2>4. /\ request'[w].refs = request[w].refs /\ request'[w].create = request[w].create
        /\ request'[w].exp = request[w].exp
        /\ request'[w].base = [rev |-> files[TaskFile].rev, seq |-> files[TaskFile].seq,
                               by |-> files[TaskFile].by]
    BY <1>0, <2>3 DEF Requests
  <2>5. Reads(w)' /\ Writes(w)'
    BY <1>2, <1>3, <2>1, <2>2, <2>3, <2>4 DEF Reads, Writes, Waiting
  <2>6. QED
    BY <1>1, <1>2, <2>5, OutsideKept
<1> QED
  BY <1>4, <1>5, <1>6

\* The write set computed from what was read.
LEMMA LoadOrderly ==
  ASSUME IInv, IInv', Orderly, NEW w \in Workers, LoadItems(w)
  PROVE  Orderly'
<1> USE DEF Goto, diskVars
<1>0. pc \in [Workers -> Labels] /\ request \in [Workers -> Requests] /\ mode \in [Workers -> {"run", "recover"}]
  BY DEF IInv, TypeOK
<1>1. \A v \in Workers : v # w => Same(v)
  BY <1>0 DEF Same, LoadItems
<1>2. UNCHANGED <<files, log, torn, stray, txn>> /\ pc[w] \notin Owning /\ pc'[w] \notin Owning
  BY <1>0, Labelled DEF LoadItems
<1>3. files[TaskFile] # Absent => files[TaskFile].rev \in Nat
  BY FileTypes DEF IInv, TypeOK, Refs
<1>4. CASE pc'[w] = "idle"
  <2>1. Reads(w)' /\ Writes(w)'
    BY <1>4 DEF Reads, Writes, Waiting
  <2>2. QED
    BY <1>1, <1>2, <2>1, OutsideKept
<1>5. CASE pc'[w] # "idle"
  <2> DEFINE req == request[w]
             task == files[TaskFile]
  <2>1. Reads(w) /\ pc[w] = "loadItems" /\ mode' = mode
    BY DEF LoadItems, Orderly
  <2>2. ~(\E i \in Items : files[i] = Absent \/ (i \in req.refs /\ files[i].rev # req.exp[i]))
    BY <1>0, <1>5 DEF LoadItems
  <2>3. pc'[w] = "plock"
    BY <1>0, <2>2 DEF LoadItems
  <2>4. PICK st \in Statuses :
          LET item(i) == IF i \in req.refs THEN ItemSnapshot(files[i].rev + 1, st, 0) ELSE files[i]
              new == TaskSnapshot(req.base.rev + 1, req.base.seq + 1, [i \in Items |-> item(i)], 0, req.base.by) IN
          request' = [request EXCEPT
            ![w].base = NoRequest.base, ![w].seq = req.base.seq + 1,
            ![w].new = [r \in Refs |-> IF r \notin req.refs THEN Absent
                                       ELSE IF r = TaskFile THEN new ELSE item(r)]]
    BY <2>2 DEF LoadItems
  <2>5. /\ ~req.create /\ TaskFile \in req.refs /\ task # Absent
        /\ req.exp[TaskFile] <= req.base.rev /\ req.base.rev <= task.rev
        /\ req.base.rev = task.rev => (req.base.seq = task.seq /\ req.base.by = task.by)
    BY <2>1 DEF Reads
  <2>6. /\ req.refs \subseteq Refs /\ TaskFile \in Refs /\ req.base.rev \in Nat /\ req.base.seq \in Nat
        /\ \A r \in Refs : req.exp[r] \in Nat
        /\ \A r \in Refs : files[r] # Absent => files[r].rev \in Nat
    BY <1>0, FileTypes DEF Requests, Revisions, Refs, IInv, TypeOK
  <2>7. /\ request'[w].refs = req.refs /\ request'[w].create = req.create /\ request'[w].exp = req.exp
        /\ request'[w].seq = req.base.seq + 1
        /\ request'[w].new[TaskFile].rev = req.base.rev + 1
        /\ request'[w].new[TaskFile].seq = req.base.seq + 1
        /\ request'[w].new[TaskFile].from = req.base.by
        /\ \A i \in req.refs \ {TaskFile} : request'[w].new[i].rev = files[i].rev + 1
    BY <1>0, <2>4, <2>5, <2>6 DEF Requests, TaskSnapshot, ItemSnapshot
  <2>8. \A r \in req.refs : req.exp[r] < request'[w].new[r].rev
    <3> SUFFICES ASSUME NEW r \in req.refs PROVE req.exp[r] < request'[w].new[r].rev
      OBVIOUS
    <3>1. CASE r = TaskFile
      BY <2>5, <2>6, <2>7, <3>1
    <3>2. CASE r # TaskFile
      <4>1. r \in Items /\ files[r] # Absent /\ files[r].rev = req.exp[r]
        BY <2>2, <2>6, <3>2 DEF Refs
      <4>2. QED
        BY <2>6, <2>7, <3>2, <4>1
    <3>3. QED
      BY <3>1, <3>2
  <2>9. Timely(request'[w], files[TaskFile])
    BY <1>3, <2>5, <2>6, <2>7, <2>8 DEF Timely
  <2>10. Reads(w)' /\ Writes(w)'
    <3>1. Reads(w)'
      BY <2>3 DEF Reads
    <3>2. Writes(w)'
      BY <1>2, <2>5, <2>7, <2>9 DEF Writes, Timely
    <3>3. QED
      BY <3>1, <3>2
  <2>11. QED
    BY <1>1, <1>2, <2>10, OutsideKept
<1> QED
  BY <1>4, <1>5

\* The locks, taken and given back.
LEMMA LocksOrderly ==
  ASSUME IInv, IInv', Orderly, NEW w \in Workers,
         RequestRecovery(w) \/ AcquireProcessLock(w) \/ AcquireFileLock(w) \/ LockTimeout(w)
           \/ Release(w) \/ RecoverDone(w) \/ (MakeTxnDir(w) /\ txn' = txn /\ pc'[w] = "release")
  PROVE  Orderly'
<1> USE DEF Goto, diskVars, lockVars, localVars
<1>0. /\ pc \in [Workers -> Labels] /\ request \in [Workers -> Requests]
      /\ mode \in [Workers -> {"run", "recover"}] /\ cur \in [Workers -> Writers]
      /\ todo \in [Workers -> SUBSET Refs]
  BY DEF IInv, TypeOK
<1>1. \A v \in Workers : v # w => Same(v)
  BY <1>0 DEF Same, RequestRecovery, AcquireProcessLock, AcquireFileLock, LockTimeout, Release,
     RecoverDone, MakeTxnDir
<1>2. UNCHANGED <<files, log, torn, stray, txn>> /\ pc[w] \notin Owning /\ pc'[w] \notin Owning
  BY <1>0, Labelled DEF RequestRecovery, AcquireProcessLock, AcquireFileLock, LockTimeout, Release,
     RecoverDone, MakeTxnDir
<1>3. Reads(w) /\ Writes(w)
  BY DEF Orderly
<1>4. CASE RequestRecovery(w)
  <2>1. pc'[w] = "plock" /\ mode'[w] = "recover"
    BY <1>0, <1>4 DEF RequestRecovery
  <2>2. Reads(w)' /\ Writes(w)'
    BY <2>1 DEF Reads, Writes
  <2>3. QED
    BY <1>1, <1>2, <2>2, OutsideKept
<1>5. CASE AcquireProcessLock(w)
  <2>1. pc[w] = "plock" /\ pc'[w] = "flock" /\ UNCHANGED <<mode, request>>
    BY <1>0, <1>5 DEF AcquireProcessLock
  <2>2. Reads(w)'
    BY <2>1 DEF Reads
  <2>3. Writes(w)'
    BY <1>2, <1>3, <2>1 DEF Writes, Timely, Waiting
  <2>4. QED
    BY <1>1, <1>2, <2>2, <2>3, OutsideKept
<1>6. CASE AcquireFileLock(w)
  <2>1. pc[w] = "flock" /\ UNCHANGED <<mode, request>>
        /\ (pc'[w] = "scan" \/ (pc'[w] = "begin" /\ mode[w] = "run"))
    BY <1>0, <1>6 DEF AcquireFileLock
  <2>2. Reads(w)'
    BY <2>1 DEF Reads
  <2>3. Writes(w)'
    BY <1>2, <1>3, <2>1 DEF Writes, Timely, Waiting
  <2>4. QED
    BY <1>1, <1>2, <2>2, <2>3, OutsideKept
<1>7. CASE pc'[w] \in {"idle", "release"}
  <2>1. Reads(w)' /\ Writes(w)'
    BY <1>7 DEF Reads, Writes, Waiting
  <2>2. QED
    BY <1>1, <1>2, <2>1, OutsideKept
<1>8. LockTimeout(w) \/ Release(w) \/ RecoverDone(w) => pc'[w] \in {"idle", "release"}
  BY <1>0 DEF LockTimeout, Release, RecoverDone
<1>9. MakeTxnDir(w) /\ txn' = txn /\ pc'[w] = "release" => pc'[w] \in {"idle", "release"}
  OBVIOUS
<1> QED
  BY <1>4, <1>5, <1>6, <1>7, <1>8, <1>9

-----------------------------------------------------------------------------
(* Steps of the owner: preparing *)

\* What holds of the owner of a transaction.
LEMMA OwnerFacts ==
  ASSUME IInv, Orderly, NEW w \in Workers, pc[w] \in Owning
  PROVE  /\ pc[w] \in Critical /\ cur[w] \in TxnIds /\ Present(cur[w]) /\ txn[cur[w]] \in TxnRecords
         /\ Reads(w) /\ Writes(w) /\ Works(w)
         /\ pc \in [Workers -> Labels] /\ cur \in [Workers -> Writers] /\ todo \in [Workers -> SUBSET Refs]
         /\ request \in [Workers -> Requests] /\ txn \in [TxnIds -> TxnRecords]
         /\ files \in FileStates /\ log \in Seq(Events)
  BY Labelled DEF Orderly, IInv, CurInv, CurAt, TypeOK

\* Once its write set is staged a call needs nothing of what it read.
LEMMA Through ==
  ASSUME NEW w \in Workers,
         pc[w] \notin {"loadTask", "loadItems", "plock", "flock", "begin", "writeTxn", "prepare"}
  PROVE  Reads(w) /\ Writes(w)
  BY DEF Reads, Writes, Waiting

\* A step of the owner that only saves transaction.json.
LEMMA MarksKept ==
  ASSUME IInv, IInv', Orderly, NEW w \in Workers, pc[w] \in Critical, ~Ahead(w),
         \A v \in Workers : v # w => Same(v),
         UNCHANGED <<files, log, torn, stray>>, NEW t \in TxnIds,
         \A u \in TxnIds : u # t => txn'[u] = txn[u],
         pc[w] \in Owning => cur[w] = t,
         \/ pc'[w] \in Owning /\ cur'[w] = t
         \/ txn'[t].phase \in {"none", "appended"},
         \/ Indexed \/ Present(t)' \/ ~Present(t) \/ t \notin LogTxns,
         pc[w] = "publish" => pc'[w] = "publish" /\ cur'[w] = cur[w],
         Reads(w)', Writes(w)', Works(w)'
  PROVE  Orderly'
<1>1. Newer /\ ~torn' /\ ~stray' /\ LogTxns' = LogTxns /\ Indexed' = Indexed
  BY IndexedKept DEF Newer, Orderly, LogTxns
<1>2. Current'
  BY OneOwner DEF Orderly, Current, LastEvent
<1>3. LeftOver'
  BY LeftKept
<1>4. Reconciled'
  <2>1. CASE Indexed
    BY <1>1, <2>1 DEF Reconciled
  <2>2. CASE ~Indexed
    BY <2>2, ReconciledKept
  <2>3. QED
    BY <2>1, <2>2
<1>5. Signed'
  BY <1>1, SignedKept DEF Ahead
<1>6. QED
  BY <1>1, <1>2, <1>3, <1>4, <1>5, OwnerKept

\* begin_transaction.
LEMMA BeginOrderly ==
  ASSUME IInv, IInv', Orderly, NEW w \in Workers, MakeTxnDir(w) \/ WriteTxnFiles(w)
  PROVE  Orderly'
<1> USE DEF Goto, diskVars, lockVars, localVars
<1>0. /\ pc \in [Workers -> Labels] /\ cur \in [Workers -> Writers] /\ txn \in [TxnIds -> TxnRecords]
      /\ \A v \in Workers : v # w => Same(v)
  BY DEF IInv, TypeOK, Same, MakeTxnDir, WriteTxnFiles
<1>1. Reads(w) /\ Writes(w)
  BY DEF Orderly
<1>2. CASE MakeTxnDir(w)
  <2>1. CASE (request[w].create /\ files[TaskFile] # Absent) \/ used = TxnIds
    BY <1>0, <1>2, <2>1, LocksOrderly DEF MakeTxnDir
  <2>2. CASE ~((request[w].create /\ files[TaskFile] # Absent) \/ used = TxnIds)
    <3>1. PICK t \in TxnIds \ used :
            cur' = [cur EXCEPT ![w] = t] /\ txn' = [txn EXCEPT ![t].phase = "husk"]
              /\ pc' = [pc EXCEPT ![w] = "writeTxn"]
      BY <1>2, <2>2 DEF MakeTxnDir
    <3>2. /\ pc[w] = "begin" /\ pc'[w] = "writeTxn" /\ cur'[w] = t /\ UNCHANGED <<files, log, torn, stray, request, mode>>
          /\ txn'[t].phase = "husk" /\ \A u \in TxnIds : u # t => txn'[u] = txn[u]
      BY <1>0, <1>2, <3>1 DEF MakeTxnDir, TxnRecords
    <3>3. Reads(w)' /\ Writes(w)'
      <4>1. Reads(w)'
        BY <1>1, <3>2 DEF Reads
      <4>2. Writes(w)'
        BY <1>1, <3>2 DEF Writes, Timely, Waiting
      <4>3. QED
        BY <4>1, <4>2
    <3>4. Works(w)'
      BY <3>2 DEF Works, Ahead
    <3>5. ~Ahead(w) /\ Present(t)'
      BY <3>2 DEF Ahead, Present
    <3>6. QED
      BY <1>0, <3>2, <3>3, <3>4, <3>5, Labelled, MarksKept
  <2>3. QED
    BY <2>1, <2>2
<1>3. CASE WriteTxnFiles(w)
  <2> DEFINE t == cur[w]
  <2>1. /\ pc[w] = "writeTxn" /\ pc'[w] = "prepare" /\ UNCHANGED <<files, log, torn, stray, request, mode, cur>>
        /\ txn' = [txn EXCEPT ![t].phase = "prepared", ![t].event = TRUE, ![t].seq = request[w].seq]
    BY <1>0, <1>3 DEF WriteTxnFiles
  <2>2. t \in TxnIds /\ t \notin LogTxns /\ ~Ahead(w)
    BY <2>1, Labelled DEF IInv, CurInv, CurAt, Ahead
  <2>3. /\ txn'[t].phase = "prepared" /\ txn'[t].event = TRUE /\ txn'[t].seq = request[w].seq
        /\ \A u \in TxnIds : u # t => txn'[u] = txn[u]
    BY <1>0, <2>1, <2>2 DEF TxnRecords
  <2>4. Reads(w)' /\ Writes(w)'
    <3>1. Reads(w)'
      BY <1>1, <2>1 DEF Reads
    <3>2. Writes(w)'
      BY <1>1, <2>1 DEF Writes, Timely, Waiting
    <3>3. QED
      BY <3>1, <3>2
  <2>5. Works(w)'
    BY <2>1, <2>2, <2>3 DEF Works, Ahead, LogTxns
  <2>6. QED
    BY <1>0, <2>1, <2>2, <2>3, <2>4, <2>5, Labelled, MarksKept
<1> QED
  BY <1>2, <1>3

\* The compare-and-set succeeds on the present task only.
LEMMA CasOrderly ==
  ASSUME IInv, Orderly, NEW w \in Workers, pc[w] = "prepare", CasHolds(request[w])
  PROVE  /\ TaskFile \in request[w].refs
         /\ request[w].seq = Len(log) + 1 /\ request[w].new[TaskFile].seq = Len(log) + 1
         /\ Len(log) > 0 => request[w].new[TaskFile].from = LastEvent.txn
         /\ \A r \in request[w].refs : files[r] # Absent => files[r].rev < request[w].new[r].rev
<1> DEFINE req == request[w]
           task == files[TaskFile]
<1>1. Reads(w) /\ Writes(w) /\ pc[w] \in Critical /\ Current
  BY OwnerFacts, Labelled, OneOwner DEF Orderly, Ahead
<1>2. mode[w] = "run"
  BY <1>1 DEF Reads
<1>3. /\ TaskFile \in req.refs /\ req.seq = req.new[TaskFile].seq
      /\ req.create => req.seq = 1
      /\ ~req.create => Timely(req, task)
  BY <1>1, <1>2 DEF Writes, Waiting
<1>4. \A r \in req.refs : files[r] # Absent => ~req.create /\ files[r].rev = req.exp[r]
  BY DEF CasHolds
<1>5. CASE req.create
  <2>1. task = Absent /\ Len(log) = 0
    BY <1>1, <1>3, <1>4, <1>5 DEF Current
  <2>2. QED
    BY <1>3, <1>4, <1>5, <2>1
<1>6. CASE ~req.create
  <2>1. /\ task # Absent /\ task.rev = req.exp[TaskFile] /\ req.exp[TaskFile] < req.new[TaskFile].rev
        /\ req.new[TaskFile].rev <= task.rev + 1
        /\ \A r \in req.refs : req.exp[r] < req.new[r].rev
    BY <1>3, <1>4, <1>6 DEF Timely
  <2>2. task.rev \in Nat /\ req.new[TaskFile].rev \in Nat
    <3>1. task.rev \in Nat
      BY <2>1, FileTypes DEF IInv, TypeOK, Refs
    <3>2. req.new[TaskFile] \in TaskSnapshots
      BY <1>3 DEF IInv, RequestInv, SnapshotOf
    <3>3. QED
      BY <3>1, <3>2 DEF TaskSnapshots
  <2>3. req.new[TaskFile].rev = task.rev + 1
    BY <2>1, <2>2
  <2>4. req.seq = task.seq + 1 /\ req.new[TaskFile].from = task.by
    BY <1>3, <1>6, <2>3 DEF Timely
  <2>5. Len(log) > 0 /\ task.seq = Len(log) /\ task.by = LastEvent.txn
    BY <1>1, <2>1 DEF Current
  <2>6. QED
    BY <1>3, <1>4, <2>1, <2>4, <2>5
<1>7. req.create \in BOOLEAN
  BY DEF IInv, TypeOK, Requests
<1> QED
  BY <1>5, <1>6, <1>7

\* prepare_snapshots, and the compare-and-set.
LEMMA PrepareOrderly ==
  ASSUME IInv, IInv', Orderly, NEW w \in Workers, PrepareSnapshots(w)
  PROVE  Orderly'
<1> DEFINE t == cur[w]
           req == request[w]
<1> USE DEF Goto, diskVars, lockVars, localVars
<1>1. pc[w] = "prepare" /\ pc[w] \in Owning
  BY Labelled DEF PrepareSnapshots
<1>2. /\ pc'[w] = (IF CasHolds(req) THEN "publish" ELSE "undo") /\ todo'[w] = req.refs
      /\ UNCHANGED <<files, log, torn, stray, cur>> /\ \A v \in Workers : v # w => Same(v)
  BY <1>1, OwnerFacts DEF PrepareSnapshots, Same
<1>3. /\ t \in TxnIds /\ t \notin LogTxns /\ ~Ahead(w) /\ txn[t].phase = "prepared" /\ txn[t].event /\ txn[t].seq = req.seq
  BY <1>1, OwnerFacts DEF Works, Ahead
<1>4. /\ txn'[t].phase = "prepared" /\ txn'[t].event /\ txn'[t].seq = req.seq /\ txn'[t].refs = req.refs
      /\ \A r \in Refs : r \in req.refs => txn'[t].old[r] = files[r] /\ txn'[t].new[r] = [req.new[r] EXCEPT !.by = t]
      /\ \A u \in TxnIds : u # t => txn'[u] = txn[u]
  BY <1>1, <1>3, OwnerFacts DEF PrepareSnapshots, TxnRecords
<1>5. req.refs \subseteq Refs /\ \A r \in req.refs : req.new[r] \in SnapshotOf(r)
  BY <1>1 DEF IInv, TypeOK, Requests, RequestInv
<1>6. LogTxns' = LogTxns
  BY <1>2 DEF LogTxns
<1>7. Reads(w)' /\ Writes(w)'
  BY <1>2 DEF Reads, Writes, Waiting
<1>8. CASE ~CasHolds(req)
  <2>1. pc'[w] = "undo" /\ cur'[w] = t
    BY <1>2, <1>8
  <2>2. Works(w)'
    BY <1>2, <1>3, <1>4, <1>5, <1>6, <2>1 DEF Works, Ahead
  <2>3. QED
    BY <1>1, <1>2, <1>3, <1>4, <1>7, <2>1, <2>2, OwnerFacts, Labelled, MarksKept
<1>9. CASE CasHolds(req)
  <2>1. pc'[w] = "publish" /\ cur'[w] = t
    BY <1>2, <1>9
  <2>2. /\ TaskFile \in req.refs
        /\ req.seq = Len(log) + 1 /\ req.new[TaskFile].seq = Len(log) + 1
        /\ Len(log) > 0 => req.new[TaskFile].from = LastEvent.txn
        /\ \A r \in req.refs : files[r] # Absent => files[r].rev < req.new[r].rev
    BY <1>1, <1>9, CasOrderly
  <2>3. \A r \in req.refs : txn'[t].new[r] # Absent /\ txn'[t].new[r].by = t /\ txn'[t].new[r].rev = req.new[r].rev
    <3> SUFFICES ASSUME NEW r \in req.refs
                 PROVE  txn'[t].new[r] # Absent /\ txn'[t].new[r].by = t /\ txn'[t].new[r].rev = req.new[r].rev
      OBVIOUS
    <3>1. txn'[t].new[r] = [req.new[r] EXCEPT !.by = t] /\ req.new[r] \in TaskSnapshots \cup ItemSnapshots
      BY <1>4, <1>5 DEF SnapshotOf
    <3>2. [req.new[r] EXCEPT !.by = t] \in TaskSnapshots \cup ItemSnapshots
      BY <1>3, <3>1 DEF TaskSnapshots, ItemSnapshots, Writers
    <3>3. QED
      BY <3>1, <3>2, AbsentAssumption DEF TaskSnapshots, ItemSnapshots
  <2>4. txn'[t].new[TaskFile].seq = req.new[TaskFile].seq /\ txn'[t].new[TaskFile].from = req.new[TaskFile].from
    <3>1. txn'[t].new[TaskFile] = [req.new[TaskFile] EXCEPT !.by = t] /\ req.new[TaskFile] \in TaskSnapshots
      BY <1>4, <1>5, <2>2 DEF SnapshotOf
    <3>2. QED
      BY <3>1 DEF TaskSnapshots
  <2>5. Staged(w)'
    BY <1>2, <1>4, <2>1, <2>2, <2>3, <2>4 DEF Staged, LastEvent
  <2>6. Works(w)'
    BY <1>2, <1>3, <1>4, <1>6, <2>1, <2>2, <2>3, <2>5 DEF Works, Ahead
  <2>7. QED
    BY <1>1, <1>2, <1>3, <1>4, <1>7, <2>1, <2>6, OwnerFacts, Labelled, MarksKept
<1> QED
  BY <1>8, <1>9

-----------------------------------------------------------------------------
(* Steps of the owner: publishing, ending, rolling back, recovering *)

\* publish_prepared_snapshots, one file at a time.
LEMMA PublishOrderly ==
  ASSUME IInv, IInv', Orderly, NEW w \in Workers, PublishSnapshot(w)
  PROVE  Orderly'
<1> DEFINE t == cur[w]
<1>1. pc[w] = "publish" /\ pc[w] \in Owning
  BY Labelled DEF PublishSnapshot
<1>2. PICK r \in todo[w] : /\ NextRef(todo[w], r)
                           /\ files' = [files EXCEPT ![r] = txn[t].new[r]]
                           /\ todo' = [todo EXCEPT ![w] = @ \ {r}]
  BY DEF PublishSnapshot
<1>3. /\ UNCHANGED <<log, torn, stray, txn, pc, mode, request, cur>> /\ todo'[w] = todo[w] \ {r}
      /\ \A v \in Workers : v # w => Same(v)
  BY <1>1, <1>2, OwnerFacts DEF PublishSnapshot, Same
<1>4. /\ t \in TxnIds /\ t \notin LogTxns /\ txn[t].phase = "prepared" /\ Staged(w)
      /\ todo[w] \subseteq txn[t].refs
      /\ \A s \in todo[w] : files[s] # Absent => files[s].rev < txn[t].new[s].rev
      /\ Ahead(w) => files[TaskFile] = txn[t].new[TaskFile]
  BY <1>1, OwnerFacts DEF Works
<1>5. /\ TaskFile \in txn[t].refs /\ txn[t].refs \subseteq Refs
      /\ \A s \in txn[t].refs : txn[t].new[s] # Absent /\ txn[t].new[s].by = t
  BY <1>1, <1>4, OwnerFacts DEF Staged, TxnRecords
<1>6. /\ r \in Refs /\ files'[r] = txn[t].new[r] /\ \A s \in Refs : s # r => files'[s] = files[s]
      /\ TaskFile \in Refs
  BY <1>1, <1>2, <1>4, <1>5, OwnerFacts DEF FileStates, Refs
<1>7. /\ Newer
      /\ TaskFile \notin todo'[w] /\ files'[TaskFile] = txn[t].new[TaskFile]
  <2>1. CASE r = TaskFile
    BY <1>3, <1>4, <1>5, <1>6, <2>1 DEF Newer
  <2>2. CASE r # TaskFile
    <3>1. TaskFile \notin todo[w]
      BY <1>2, <2>2 DEF NextRef
    <3>2. QED
      BY <1>1, <1>3, <1>4, <1>6, <2>2, <3>1 DEF Newer, Ahead
  <2>3. QED
    BY <2>1, <2>2
<1>8. pc'[w] = "publish" /\ cur'[w] = t /\ LogTxns' = LogTxns /\ txn' = txn
  BY <1>1, <1>3 DEF LogTxns
<1>9. Staged(w)'
  BY <1>3, <1>4 DEF Staged, LastEvent
<1>10. Works(w)'
  <2>1. \A s \in todo'[w] : files'[s] # Absent => files'[s].rev < txn[t].new[s].rev
    BY <1>3, <1>4, <1>5, <1>6
  <2>2. QED
    BY <1>3, <1>4, <1>7, <1>8, <1>9, <2>1 DEF Works
<1>11. Ahead(w)'
  BY <1>7, <1>8 DEF Ahead
<1>12. Reads(w)' /\ Writes(w)'
  BY <1>8 DEF Reads, Writes, Waiting
<1>13. LeftOver'
  BY <1>1, <1>3, <1>4, <1>8, OwnerFacts, Labelled, LeftKept
<1>14. Reconciled'
  BY <1>11 DEF Reconciled, Settled
<1>15. Signed'
  <2> SUFFICES ASSUME NEW s \in Refs, files'[s] # Absent, files'[s].by \notin LogTxns \cup {0}
               PROVE  cur[w] = files'[s].by
    BY <1>8 DEF Signed
  <2>1. CASE s = r
    BY <1>4, <1>5, <1>6, <2>1
  <2>2. CASE s # r
    <3>1. PICK v \in Workers : pc[v] \in {"publish", "append"} /\ cur[v] = files[s].by
      BY <1>6, <2>2 DEF Orderly, Signed
    <3>2. v = w
      BY <1>1, <3>1, OneOwner, OwnerFacts, Labelled
    <3>3. QED
      BY <1>6, <2>2, <3>1, <3>2
  <2>3. QED
    BY <2>1, <2>2
<1> QED
  BY <1>1, <1>3, <1>7, <1>10, <1>11, <1>12, <1>13, <1>14, <1>15, OwnerFacts, OwnerKept DEF Orderly

\* Everything is published: the event comes next.
LEMMA PublishedOrderly ==
  ASSUME IInv, IInv', Orderly, NEW w \in Workers, MarkPublished(w)
  PROVE  Orderly'
<1> DEFINE t == cur[w]
<1> USE DEF Goto, diskVars, lockVars, localVars
<1>1. pc[w] = "publish" /\ pc[w] \in Owning /\ todo[w] = {}
  BY Labelled DEF MarkPublished
<1>2. /\ UNCHANGED <<files, log, torn, stray, cur, todo>> /\ pc'[w] = "append"
      /\ txn' = [txn EXCEPT ![t].phase = "published"]
      /\ \A v \in Workers : v # w => Same(v)
  BY <1>1, OwnerFacts DEF MarkPublished, Same
<1>3. t \in TxnIds /\ t \notin LogTxns /\ Staged(w) /\ files[TaskFile] = txn[t].new[TaskFile] /\ Present(t)
  BY <1>1, OwnerFacts DEF Works, Ahead
<1>4. /\ txn'[t].event = txn[t].event /\ txn'[t].seq = txn[t].seq /\ txn'[t].refs = txn[t].refs
      /\ txn'[t].new = txn[t].new
      /\ \A u \in TxnIds : u # t => txn'[u] = txn[u]
  BY <1>1, <1>2, <1>3, OwnerFacts DEF TxnRecords
<1>5. Staged(w)'
  BY <1>2, <1>3, <1>4 DEF Staged, LastEvent
<1>6. LogTxns' = LogTxns /\ Ahead(w)' /\ Newer /\ cur'[w] = t
  BY <1>2 DEF LogTxns, Ahead, Newer
<1>7. Works(w)'
  BY <1>2, <1>3, <1>4, <1>5, <1>6 DEF Works
<1>8. Reads(w)' /\ Writes(w)'
  BY <1>2 DEF Reads, Writes, Waiting
<1>9. LeftOver'
  BY <1>1, <1>2, <1>3, <1>4, <1>6, OwnerFacts, Labelled, LeftKept
<1>10. Reconciled'
  BY <1>6 DEF Reconciled, Settled
<1>11. Signed'
  BY <1>1, <1>2, <1>6, OwnerFacts, SignedKept
<1> QED
  BY <1>1, <1>2, <1>6, <1>7, <1>8, <1>9, <1>10, <1>11, OwnerFacts, OwnerKept DEF Orderly

\* append_transaction_event is never refused.
LEMMA AppendOrderly ==
  ASSUME IInv, IInv', Orderly, NEW w \in Workers, AppendEvent(w)
  PROVE  Orderly'
<1> DEFINE t == cur[w]
           e == Event(t, txn[t].seq)
<1> USE DEF Goto, diskVars, lockVars, localVars
<1>1. pc[w] = "append" /\ pc[w] \in Owning
  BY Labelled DEF AppendEvent
<1>2. /\ t \in TxnIds /\ t \notin LogTxns /\ Staged(w) /\ files[TaskFile] = txn[t].new[TaskFile]
      /\ Present(t) /\ ~torn
  BY <1>1, OwnerFacts DEF Works, Ahead, Orderly
<1>3. txn[t].event /\ InSequence(t) /\ ~InLog(t) /\ e.txn = t /\ e.seq = Len(log) + 1
  BY <1>2 DEF Staged, InSequence, InLog, LogTxns, Event
<1>4. log' = Append(log, e) /\ pc' = [pc EXCEPT ![w] = "markAppended"]
  BY <1>2, <1>3 DEF AppendEvent
<1>5. /\ UNCHANGED <<files, torn, stray, cur, todo, txn, request, mode>> /\ pc'[w] = "markAppended"
      /\ \A v \in Workers : v # w => Same(v)
  BY <1>1, <1>4, OwnerFacts DEF AppendEvent, Same
<1>6. /\ Len(log) \in Nat /\ Len(log') = Len(log) + 1 /\ log'[Len(log) + 1] = e
      /\ \A k \in 1..Len(log) : log'[k] = log[k]
  BY <1>1, <1>4, OwnerFacts DEF Event
<1>7. LastEvent' = e /\ t \in LogTxns' /\ LogTxns \subseteq LogTxns'
  BY <1>3, <1>6 DEF LastEvent, LogTxns
<1>8. Current'
  <2>1. /\ files'[TaskFile] # Absent /\ files'[TaskFile].seq = Len(log') /\ files'[TaskFile].by = LastEvent'.txn
        /\ Len(log) > 0 => files'[TaskFile].from = LastEvent.txn
    BY <1>2, <1>3, <1>5, <1>6, <1>7 DEF Staged
  <2>2. Len(log') > 1 => log'[Len(log') - 1] = LastEvent
    BY <1>6 DEF LastEvent
  <2>3. QED
    BY <1>6, <2>1, <2>2 DEF Current
<1>9. Works(w)' /\ Reads(w)' /\ Writes(w)' /\ Newer
  BY <1>5 DEF Works, Ahead, Reads, Writes, Waiting, Newer
<1>10. LeftOver'
  BY <1>1, <1>2, <1>5, OwnerFacts, Labelled, LeftKept
<1>11. Reconciled'
  BY <1>2, <1>3, <1>5, <1>7 DEF Reconciled, Present
<1>12. Signed'
  BY <1>1, <1>5, <1>7, OwnerFacts, SignedKept
<1> QED
  BY <1>1, <1>5, <1>8, <1>9, <1>10, <1>11, <1>12, OwnerFacts, OwnerKept DEF Orderly

\* The end of a transaction whose event is in the log.
LEMMA EndOrderly ==
  ASSUME IInv, IInv', Orderly, NEW w \in Workers, MarkAppended(w) \/ MarkCommitted(w) \/ RemoveTxnDir(w)
  PROVE  Orderly'
<1> DEFINE t == cur[w]
<1> USE DEF Goto, diskVars, lockVars, localVars
<1>1. pc[w] \in Owning /\ pc[w] \in {"markAppended", "commit", "cleanup"}
  BY Labelled DEF MarkAppended, MarkCommitted, RemoveTxnDir
<1>2. /\ t \in TxnIds /\ ~Ahead(w) /\ Works(w)
      /\ UNCHANGED <<files, log, torn, stray, cur, todo>>
      /\ \A v \in Workers : v # w => Same(v)
  BY <1>1, OwnerFacts DEF MarkAppended, MarkCommitted, RemoveTxnDir, Same, Ahead
<1>3. CASE MarkAppended(w)
  <2>1. pc'[w] = "commit" /\ cur'[w] = t /\ txn' = [txn EXCEPT ![t].phase = "appended"]
    BY <1>1, <1>2, <1>3, OwnerFacts DEF MarkAppended
  <2>2. txn'[t].phase = "appended" /\ \A u \in TxnIds : u # t => txn'[u] = txn[u]
    BY <1>1, <1>2, <2>1, OwnerFacts DEF TxnRecords
  <2>3. Works(w)' /\ Reads(w)' /\ Writes(w)' /\ Present(t)'
    BY <2>1, <2>2 DEF Works, Ahead, Reads, Writes, Waiting, Present
  <2>4. QED
    BY <1>1, <1>2, <2>1, <2>2, <2>3, OwnerFacts, Labelled, MarksKept
<1>4. CASE MarkCommitted(w)
  <2>1. pc[w] = "commit" /\ txn[t].phase = "appended" /\ Present(t)
    BY <1>2, <1>4 DEF MarkCommitted, Works, Present
  <2>2. CASE Committable(t)
    <3>1. pc'[w] = "cleanup" /\ cur'[w] = t /\ txn' = [txn EXCEPT ![t].phase = "committed"]
      BY <1>1, <1>2, <1>4, <2>2, OwnerFacts DEF MarkCommitted
    <3>2. txn'[t].phase = "committed" /\ \A u \in TxnIds : u # t => txn'[u] = txn[u]
      BY <1>1, <1>2, <3>1, OwnerFacts DEF TxnRecords
    <3>3. Len(log) > 0 /\ LastEvent.txn = t /\ Indexed
      BY <2>2 DEF Committable, AlreadyAppended, Event, Indexed
    <3>4. Len(log') > 0 /\ LastEvent'.txn = t /\ Indexed'
      BY <1>2, <3>3, IndexedKept DEF LastEvent
    <3>5. Works(w)' /\ Reads(w)' /\ Writes(w)' /\ Present(t)'
      BY <3>1, <3>2, <3>4 DEF Works, Ahead, Reads, Writes, Waiting, Present
    <3>6. QED
      BY <1>1, <1>2, <3>1, <3>2, <3>5, OwnerFacts, Labelled, MarksKept
  <2>3. CASE ~Committable(t)
    <3>1. pc'[w] = "release" /\ txn' = txn /\ cur'[w] = t
      BY <1>1, <1>2, <1>4, <2>3, OwnerFacts DEF MarkCommitted
    <3>2. Works(w)' /\ Reads(w)' /\ Writes(w)' /\ Present(t)'
      BY <2>1, <3>1 DEF Works, Ahead, Reads, Writes, Waiting, Present
    <3>3. QED
      BY <1>1, <1>2, <2>1, <3>1, <3>2, OwnerFacts, MarksKept
  <2>4. QED
    BY <2>2, <2>3
<1>5. CASE RemoveTxnDir(w)
  <2>1. pc[w] = "cleanup" /\ pc'[w] \in {"scan", "release"} /\ cur'[w] = t /\ txn' = [txn EXCEPT ![t] = NoTxn]
    BY <1>1, <1>2, <1>5, OwnerFacts DEF RemoveTxnDir
  <2>2. txn'[t].phase = "none" /\ \A u \in TxnIds : u # t => txn'[u] = txn[u]
    BY <1>1, <1>2, <2>1, OwnerFacts DEF NoTxn
  <2>3. Indexed \/ t \notin LogTxns
    BY <1>2, <2>1 DEF Works
  <2>4. Works(w)' /\ Reads(w)' /\ Writes(w)'
    BY <2>1 DEF Works, Ahead, Reads, Writes, Waiting
  <2>5. QED
    BY <1>1, <1>2, <2>1, <2>2, <2>3, <2>4, OwnerFacts, MarksKept
<1> QED
  BY <1>3, <1>4, <1>5

\* rollback_transaction puts back what is there anyway.
LEMMA RollbackOrderly ==
  ASSUME IInv, IInv', Orderly, NEW w \in Workers,
         EnterRollback(w) \/ RestoreSnapshot(w) \/ MarkRolledBack(w)
  PROVE  Orderly' /\ files' = files
<1> DEFINE t == cur[w]
<1> USE DEF Goto, diskVars, lockVars, localVars
<1>1. pc[w] \in Owning /\ pc[w] \in {"undo", "restore"}
  BY Labelled DEF EnterRollback, RestoreSnapshot, MarkRolledBack
<1>2. /\ t \in TxnIds /\ ~Ahead(w) /\ t \notin LogTxns /\ txn[t].phase = "prepared"
      /\ pc[w] = "undo" => \A r \in txn[t].refs : txn[t].old[r] = files[r]
      /\ pc[w] = "restore" => \A r \in todo[w] : txn[t].old[r] = files[r]
      /\ ~torn
  BY <1>1, OwnerFacts DEF Works, Ahead, Orderly
<1>3. /\ UNCHANGED <<log, torn, stray, cur>>
      /\ \A v \in Workers : v # w => Same(v)
  BY <1>1, OwnerFacts DEF EnterRollback, RestoreSnapshot, MarkRolledBack, Same
<1>4. LogTxns' = LogTxns /\ cur'[w] = t
  BY <1>3 DEF LogTxns
<1>5. CASE EnterRollback(w)
  <2>1. ~AlreadyAppended(t)
    BY <1>1, <1>2, OwnerFacts DEF AlreadyAppended, LastEvent, LogTxns, Event
  <2>2. /\ pc'[w] = "restore" /\ todo'[w] = txn[t].refs /\ UNCHANGED <<files, txn>> /\ pc[w] = "undo"
    BY <1>1, <1>2, <1>5, <2>1, OwnerFacts DEF EnterRollback
  <2>3. Works(w)' /\ Reads(w)' /\ Writes(w)'
    BY <1>2, <1>4, <2>2 DEF Works, Ahead, Reads, Writes, Waiting
  <2>4. QED
    BY <1>1, <1>2, <1>3, <1>4, <2>2, <2>3, OwnerFacts, Labelled, MarksKept
<1>6. CASE RestoreSnapshot(w)
  <2>1. PICK r \in todo[w] : files' = [files EXCEPT ![r] = txn[t].old[r]] /\ todo' = [todo EXCEPT ![w] = @ \ {r}]
    BY <1>6 DEF RestoreSnapshot
  <2>2. pc[w] = "restore" /\ pc'[w] = "restore" /\ UNCHANGED txn /\ todo'[w] \subseteq todo[w] /\ r \in Refs
    BY <1>1, <1>6, <2>1, OwnerFacts DEF RestoreSnapshot
  <2>3. files' = files
    BY <1>1, <1>2, <2>1, <2>2, OwnerFacts DEF FileStates
  <2>4. Works(w)' /\ Reads(w)' /\ Writes(w)'
    BY <1>2, <1>4, <2>2, <2>3 DEF Works, Ahead, Reads, Writes, Waiting
  <2>5. QED
    BY <1>1, <1>2, <1>3, <1>4, <2>2, <2>3, <2>4, OwnerFacts, Labelled, MarksKept
<1>7. CASE MarkRolledBack(w)
  <2>1. /\ pc'[w] = "cleanup" /\ UNCHANGED <<files, todo>> /\ pc[w] = "restore"
        /\ txn' = [txn EXCEPT ![t].phase = "prepared", ![t].refs = {}]
    BY <1>1, <1>7, OwnerFacts DEF MarkRolledBack
  <2>2. txn'[t].phase = "prepared" /\ \A u \in TxnIds : u # t => txn'[u] = txn[u]
    BY <1>1, <1>2, <2>1, OwnerFacts DEF TxnRecords
  <2>3. Works(w)' /\ Reads(w)' /\ Writes(w)'
    BY <1>2, <1>4, <2>1, <2>2 DEF Works, Ahead, Reads, Writes, Waiting
  <2>4. QED
    BY <1>1, <1>2, <1>3, <1>4, <2>1, <2>2, <2>3, OwnerFacts, Labelled, MarksKept
<1> QED
  BY <1>5, <1>6, <1>7

\* Recovery only finds transactions whose commit was refused.
LEMMA RecoveryOrderly ==
  ASSUME IInv, IInv', Orderly, NEW w \in Workers, RecoverNext(w)
  PROVE  Orderly'
<1> USE DEF Goto, diskVars, lockVars, localVars
<1>1. pc[w] = "scan" /\ pc[w] \in Critical /\ pc[w] \notin Owning /\ ~Ahead(w)
  BY Labelled DEF RecoverNext, Ahead
<1>2. PICK t \in scan[w] :
        /\ cur' = [cur EXCEPT ![w] = t]
        /\ pc' = [pc EXCEPT ![w] =
            CASE txn[t].phase = "husk" -> "release"
              [] txn[t].phase = "prepared" -> IF AnyMatchesNew(t) THEN "undo" ELSE "cleanup"
              [] txn[t].phase = "published" -> "append"
              [] OTHER -> "commit"]
  BY DEF RecoverNext
<1>3. t \in TxnIds /\ Present(t)
  BY DEF IInv, CurInv, CurAt, TypeOK
<1>4. txn[t].phase = "appended"
  BY <1>1, <1>3, OneOwner DEF Orderly, LeftOver
<1>5. /\ pc'[w] = "commit" /\ cur'[w] = t /\ UNCHANGED <<files, log, torn, stray, txn>>
      /\ \A v \in Workers : v # w => Same(v)
  BY <1>2, <1>4 DEF RecoverNext, Same, IInv, TypeOK
<1>6. Works(w)' /\ Reads(w)' /\ Writes(w)' /\ Present(t)'
  BY <1>3, <1>4, <1>5 DEF Works, Ahead, Reads, Writes, Waiting, Present
<1> QED
  BY <1>1, <1>3, <1>4, <1>5, <1>6, Labelled, MarksKept

-----------------------------------------------------------------------------
(* The invariant and the theorems *)

\* As long as nothing has failed, the disk is in order.
OrderInv == faults \in Nat /\ crashes \in Nat /\ (Undisturbed => Orderly)

\* A task that was just created, or not yet, is in order.
LEMMA InitOrderly == Init => OrderInv
<1> SUFFICES ASSUME Init PROVE OrderInv
  OBVIOUS
<1>1. ASSUME NEW w \in Workers PROVE Reads(w) /\ Writes(w) /\ Works(w) /\ ~Ahead(w)
  BY DEF Init, Reads, Writes, Works, Ahead, Waiting
<1>2. LeftOver
  BY DEF Init, LeftOver, Present, NoTxn
<1>3. ~torn /\ ~stray
  BY DEF Init
<1>4. CASE files = InitialFiles /\ log = <<Event(0, 1)>>
  <2>1. Len(log) = 1 /\ LastEvent = [txn |-> 0, seq |-> 1]
    BY <1>4 DEF LastEvent, Event
  <2>2. /\ files[TaskFile] = TaskSnapshot(1, 1, [i \in Items |-> InitialItem], 0, 0)
        /\ \A i \in Items : files[i] = InitialItem
    BY <1>4, RefsAssumption DEF InitialFiles, Refs
  <2>3. InitialItem # Absent /\ files[TaskFile] # Absent
    <3>1. InitialItem \in ItemSnapshots
      BY StatusesAssumption DEF InitialItem, ItemSnapshot, ItemSnapshots, Writers
    <3>2. files[TaskFile] \in TaskSnapshots
      BY <2>2, <3>1 DEF TaskSnapshot, TaskSnapshots, IndexEntry, ItemSnapshots, Writers
    <3>3. QED
      BY <3>1, <3>2, AbsentAssumption
  <2>4. Current
    BY <2>1, <2>2, <2>3 DEF Current, TaskSnapshot
  <2>5. Indexed
    BY <1>3, <2>2, <2>3 DEF Indexed, IndexReconciled, TaskSnapshot
  <2>6. Signed
    <3> SUFFICES ASSUME NEW r \in Refs PROVE files[r].by = 0
      BY DEF Signed
    <3>1. files[r] = InitialItem \/ files[r] = TaskSnapshot(1, 1, [i \in Items |-> InitialItem], 0, 0)
      BY <2>2 DEF Refs
    <3>2. QED
      BY <3>1 DEF InitialItem, ItemSnapshot, TaskSnapshot
  <2>7. Orderly
    BY <1>1, <1>2, <1>3, <2>4, <2>5, <2>6 DEF Orderly, Reconciled
  <2>8. QED
    BY <2>7 DEF Init, OrderInv
<1>5. CASE files = NoFiles /\ log = <<>>
  <2>1. Len(log) = 0 /\ \A r \in Refs : files[r] = Absent
    BY <1>5 DEF NoFiles
  <2>2. Current
    BY <2>1 DEF Current, Refs
  <2>3. Orderly
    BY <1>1, <1>2, <1>3, <2>1, <2>2 DEF Orderly, Reconciled, Signed
  <2>4. QED
    BY <2>3 DEF Init, OrderInv
<1> QED
  BY <1>4, <1>5 DEF Init

\* Every step that is no failure keeps the order.
LEMMA StepOrderly ==
  ASSUME IInv, IInv', Orderly, NEW w \in Workers, Submit(w) \/ Step(w)
  PROVE  Orderly'
<1> USE DEF diskVars
<1>1. CASE ReadRevisions(w) \/ RequestCreation(w) \/ LoadTask(w)
  BY <1>1, ReadingOrderly DEF ReadRevisions, RequestCreation, LoadTask
<1>2. CASE LoadItems(w)
  BY <1>2, LoadOrderly DEF LoadItems
<1>3. CASE RequestRecovery(w) \/ AcquireProcessLock(w) \/ AcquireFileLock(w) \/ LockTimeout(w)
             \/ Release(w) \/ RecoverDone(w)
  BY <1>3, LocksOrderly DEF RequestRecovery, AcquireProcessLock, AcquireFileLock, LockTimeout,
     Release, RecoverDone
<1>4. CASE MakeTxnDir(w) \/ WriteTxnFiles(w)
  BY <1>4, BeginOrderly DEF MakeTxnDir, WriteTxnFiles
<1>5. CASE PrepareSnapshots(w)
  BY <1>5, PrepareOrderly DEF PrepareSnapshots
<1>6. CASE PublishSnapshot(w)
  BY <1>6, PublishOrderly
<1>7. CASE MarkPublished(w)
  BY <1>7, PublishedOrderly DEF MarkPublished
<1>8. CASE AppendEvent(w)
  BY <1>8, AppendOrderly DEF AppendEvent
<1>9. CASE MarkAppended(w) \/ MarkCommitted(w) \/ RemoveTxnDir(w)
  BY <1>9, EndOrderly DEF MarkAppended, MarkCommitted, RemoveTxnDir
<1>10. CASE EnterRollback(w) \/ RestoreSnapshot(w) \/ MarkRolledBack(w)
  BY <1>10, RollbackOrderly
<1>11. CASE RecoverNext(w)
  BY <1>11, RecoveryOrderly DEF RecoverNext
<1> QED
  BY <1>1, <1>2, <1>3, <1>4, <1>5, <1>6, <1>7, <1>8, <1>9, <1>10, <1>11 DEF Submit, Step

\* A failure is counted, and nothing else changes the counts.
LEMMA Counted ==
  ASSUME faults \in Nat, crashes \in Nat, Next
  PROVE  /\ faults' \in Nat /\ crashes' \in Nat
         /\ faults' = 0 /\ crashes' = 0 =>
              /\ Undisturbed
              /\ RemoveStaleLock \/ \E w \in Workers : Submit(w) \/ Step(w)
<1> USE DEF boundVars
<1>1. ASSUME NEW w \in Workers, Submit(w) \/ Step(w) PROVE faults' = faults /\ crashes' = crashes
  <2>1. CASE Submit(w)
    BY <2>1 DEF Submit, ReadRevisions, RequestCreation, RequestRecovery
  <2>2. CASE Step(w)
    BY <2>2 DEF Step, LoadTask, LoadItems, AcquireProcessLock, AcquireFileLock, LockTimeout,
          Release, MakeTxnDir, WriteTxnFiles, PrepareSnapshots, PublishSnapshot,
          MarkPublished, AppendEvent, MarkAppended, MarkCommitted, RemoveTxnDir, EnterRollback,
          RestoreSnapshot, MarkRolledBack, RecoverNext, RecoverDone
  <2>3. QED
    BY <1>1, <2>1, <2>2
<1>2. ASSUME NEW w \in Workers, Fault(w) PROVE faults' = faults + 1 /\ crashes' = crashes
  BY <1>2 DEF Fault, WriteFails, AppendFails, RemoveFails
<1>3. ASSUME NEW p \in Processes, Crash(p) PROVE faults' = faults /\ crashes' = crashes + 1
  BY <1>3 DEF Crash
<1>4. RemoveStaleLock => faults' = faults /\ crashes' = crashes
  BY DEF RemoveStaleLock
<1> QED
  BY <1>1, <1>2, <1>3, <1>4 DEF Next, Undisturbed

\* The operator's removal of a lock file is not a step of the store.
LEMMA OperatorOrderly ==
  ASSUME IInv, IInv', Orderly, RemoveStaleLock \/ UNCHANGED vars
  PROVE  Orderly'
<1>1. UNCHANGED <<files, log, torn, stray, txn, pc, mode, request, cur, todo>>
  BY DEF RemoveStaleLock, vars, diskVars, localVars
<1>2. \A v \in Workers : Same(v)
  BY <1>1 DEF Same
<1>3. ASSUME NEW v \in Workers PROVE Reads(v)' /\ Writes(v)' /\ Works(v)' /\ (Ahead(v)' <=> Ahead(v))
  <2>1. Reads(v) /\ Writes(v) /\ Works(v)
    BY DEF Orderly
  <2>2. Reads(v)' /\ Writes(v)'
    BY <1>1, <2>1, WaitingKept DEF IInv, Newer
  <2>3. Works(v)'
    BY <1>1, <2>1, IndexedKept DEF Works, Ahead, Staged, LogTxns, LastEvent
  <2>4. QED
    BY <1>1, <2>2, <2>3 DEF Ahead
<1>4. (Settled' <=> Settled) /\ (Current' <=> Current)
  BY <1>1, <1>3 DEF Settled, Current, LastEvent
<1>5. LeftOver' /\ Reconciled' /\ Signed'
  BY <1>1, <1>4, IndexedKept DEF Orderly, LeftOver, Owned, Present, Reconciled, LastEvent, Signed, LogTxns
<1> QED
  BY <1>1, <1>3, <1>4, <1>5 DEF Orderly

\* The order is kept until the first failure.
LEMMA NextOrderly ==
  IInv /\ IInv' /\ OrderInv /\ [Next]_vars => OrderInv'
<1> SUFFICES ASSUME IInv, IInv', OrderInv, [Next]_vars PROVE OrderInv'
  OBVIOUS
<1>1. CASE Next
  <2>1. /\ faults' \in Nat /\ crashes' \in Nat
        /\ Undisturbed' => /\ Orderly
                           /\ RemoveStaleLock \/ \E w \in Workers : Submit(w) \/ Step(w)
    BY <1>1, Counted DEF OrderInv, Undisturbed
  <2>2. ASSUME Undisturbed' PROVE Orderly'
    <3>1. CASE RemoveStaleLock
      BY <2>1, <2>2, <3>1, OperatorOrderly DEF RemoveStaleLock, diskVars
    <3>2. CASE \E w \in Workers : Submit(w) \/ Step(w)
      BY <2>1, <2>2, <3>2, StepOrderly
    <3>3. QED
      BY <2>1, <2>2, <3>1, <3>2
  <2>3. QED
    BY <2>1, <2>2 DEF OrderInv
<1>2. CASE UNCHANGED vars
  <2>1. UNCHANGED <<files, faults, crashes>>
    BY <1>2 DEF vars
  <2>2. QED
    BY <1>2, <2>1, OperatorOrderly DEF OrderInv, Undisturbed
<1> QED
  BY <1>1, <1>2

\* Until the first failure the disk is in order, with any number of threads,
\* items, transactions and recoveries.
THEOREM Order == Spec => []OrderInv
<1>1. Init => OrderInv
  BY InitOrderly
<1>2. IInv /\ IInv' /\ OrderInv /\ [Next]_vars => OrderInv'
  BY NextOrderly
<1>3. QED
  BY <1>1, <1>2, Invariance, PTL DEF Spec

\* Without an unfinished transaction nobody is between a file and its event,
\* and the last event's transaction is gone.
LEMMA CleanSettled ==
  ASSUME IInv, Orderly, Clean
  PROVE  Current /\ (Len(log) > 0 => Indexed)
<1>1. \A t \in TxnIds : txn[t].phase \in {"none", "husk"}
  BY DEF Clean, Unresolved
<1>2. ASSUME NEW w \in Workers, pc[w] \in Owning PROVE pc[w] = "writeTxn"
  BY <1>1, <1>2, OwnerFacts DEF IInv, CurInv, CurAt, Present
<1>3. Settled
  BY <1>2, Labelled DEF Settled, Ahead
<1>4. ASSUME NEW t \in TxnIds, Present(t) PROVE t \notin LogTxns
  <2>1. Owned(t)
    BY <1>1, <1>4 DEF Orderly, LeftOver
  <2>2. PICK w \in Workers : pc[w] \in Owning /\ cur[w] = t
    BY <2>1 DEF Owned
  <2>3. QED
    BY <1>2, <2>2 DEF IInv, CurInv, CurAt
<1>5. Len(log) > 0 => LastEvent.txn \in LogTxns
  BY DEF IInv, TypeOK, LastEvent, LogTxns
<1> QED
  BY <1>3, <1>4, <1>5 DEF Orderly, Reconciled

\* Without failures, no committed change of the task is overwritten by one that
\* never saw it, however many callers overlap (_apply_item_transition, the
\* compare-and-set of publish_prepared_snapshots).
THEOREM NothingLost == Spec => []NoLostUpdate
<1>1. IInv /\ OrderInv => NoLostUpdate
  BY CleanSettled DEF OrderInv, Undisturbed, NoLostUpdate, Current
<1> QED
  BY <1>1, Invariance, Order, PTL

\* Until the first failure, the task file, the item files and the event log
\* agree whenever no transaction is unfinished (commit_transaction).
THEOREM InSync == Spec => [](Undisturbed => SnapshotsInSync)
<1>1. IInv /\ OrderInv => (Undisturbed => SnapshotsInSync)
  <2> SUFFICES ASSUME IInv, Orderly, Clean, files[TaskFile] # Absent
               PROVE  /\ Len(log) > 0
                      /\ files[TaskFile].seq = Len(log)
                      /\ files[TaskFile].by = LastEvent.txn
                      /\ \A i \in Items :
                           files[i] # Absent /\ files[TaskFile].index[i] = IndexEntry(files[i])
    BY DEF OrderInv, SnapshotsInSync
  <2> QED
    BY CleanSettled DEF Current, Indexed, IndexReconciled
<1> QED
  BY <1>1, Invariance, Order, PTL

-----------------------------------------------------------------------------
(* What a failing call takes back, whatever else has failed or crashed *)

\* The event of w's transaction is the last one of the log.
Ends(w) == Len(log) > 0 /\ LastEvent = Event(cur[w], txn[cur[w]].seq)

\* No file is of transaction t.
NoFileOf(t) == \A r \in Refs : files[r] # Absent => files[r].by # t

\* What is published is as it was before transaction t, or t's own.
Own(t) ==
  /\ \A r \in txn[t].refs :
       /\ files[r] = txn[t].old[r] \/ (files[r] # Absent /\ files[r].by = t)
       /\ txn[t].old[r] # Absent => txn[t].old[r].by # t
  /\ \A r \in Refs \ txn[t].refs : files[r] # Absent => files[r].by # t

\* A call, other than a recovery, knows what became of its transaction.
CallAt(w) ==
  LET t == cur[w]  x == txn[t] IN
  /\ pc[w] # "scan"
  /\ pc[w] \in {"writeTxn", "prepare"} => x.refs = {} /\ NoFileOf(t)
  /\ pc[w] \in {"prepare", "publish", "append", "markAppended", "undo", "restore"} => x.event
  /\ pc[w] \in {"prepare", "publish", "append", "restore"} => t \notin LogTxns
  /\ pc[w] \in {"markAppended", "undo"} => t \notin LogTxns \/ Ends(w)
  /\ pc[w] \in {"publish", "append", "markAppended", "undo", "restore"} => Own(t)
  /\ pc[w] = "publish" => /\ todo[w] \subseteq x.refs
                          /\ \A r \in x.refs : x.new[r] # Absent /\ x.new[r].by = t
  /\ pc[w] = "restore" => /\ todo[w] \subseteq x.refs
                          /\ \A r \in x.refs \ todo[w] : files[r] = x.old[r]
  /\ pc[w] = "cleanup" => t \in LogTxns \/ NoFileOf(t)

Calls == \A w \in Workers : mode[w] = "run" => CallAt(w)

\* Files are signed by transactions handed out; the others have left nothing.
Signers == used \cup {0}
HandedOut ==
  /\ \A t \in TxnIds \ used : txn[t] = NoTxn
  /\ \A r \in Refs :
       /\ files[r] # Absent => files[r].by \in Signers
       /\ \A t \in TxnIds :
            /\ txn[t].old[r] # Absent => txn[t].old[r].by \in Signers
            /\ txn[t].new[r] # Absent => txn[t].new[r].by \in Signers

CallInv == HandedOut /\ Calls

\* What the steps of the owner need to know of it.
LEMMA CallFacts ==
  ASSUME IInv, NEW w \in Workers, pc[w] \in Owning
  PROVE  /\ pc[w] \in Critical /\ cur[w] \in TxnIds /\ cur[w] \in used /\ txn[cur[w]] \in TxnRecords
         /\ pc \in [Workers -> Labels] /\ cur \in [Workers -> Writers]
         /\ todo \in [Workers -> SUBSET Refs] /\ mode \in [Workers -> {"run", "recover"}]
         /\ request \in [Workers -> Requests] /\ txn \in [TxnIds -> TxnRecords]
         /\ files \in FileStates /\ log \in Seq(Events)
<1>1. cur[w] \in TxnIds /\ Present(cur[w]) /\ pc[w] \in Critical
  BY Labelled DEF IInv, CurInv, CurAt
<1>2. cur[w] \in used
  BY <1>1 DEF IInv, LogInv
<1> QED
  BY <1>1, <1>2 DEF IInv, TypeOK

\* A step of the owner of the lock file: no other call has a transaction.
LEMMA CallOfOwner ==
  ASSUME IInv, NEW w \in Workers, pc[w] \in Critical,
         \A v \in Workers : v # w => pc'[v] = pc[v],
         mode'[w] = "run" => CallAt(w)'
  PROVE  Calls'
<1>1. ASSUME NEW v \in Workers, v # w PROVE CallAt(v)'
  <2>1. pc'[v] \notin Critical
    BY <1>1, OthersOutside DEF IInv
  <2>2. QED
    BY <2>1 DEF CallAt, Critical
<1> QED
  BY <1>1 DEF Calls

\* A step outside of the lock, or from outside to where nothing is owned yet.
LEMMA CallOutside ==
  ASSUME Calls, NEW w \in Workers, pc'[w] \notin Owning,
         pc'[w] = "scan" => mode'[w] = "recover",
         \A v \in Workers : v # w => Same(v),
         UNCHANGED <<files, log, txn>>
  PROVE  Calls'
<1>1. mode'[w] = "run" => CallAt(w)'
  BY Labelled DEF CallAt
<1>2. ASSUME NEW v \in Workers, v # w, mode[v] = "run" PROVE CallAt(v)'
  <2> DEFINE t == cur[v]
  <2>1. CallAt(v) /\ Same(v) /\ t' = t /\ txn'[t] = txn[t] /\ LogTxns' = LogTxns
    BY <1>2 DEF Calls, Same, LogTxns
  <2>2. (NoFileOf(t)' <=> NoFileOf(t)) /\ (Own(t)' <=> Own(t)) /\ (Ends(v)' <=> Ends(v))
    BY <2>1 DEF NoFileOf, Own, Ends, LastEvent
  <2>3. QED
    BY <2>1, <2>2 DEF Same, CallAt
<1> QED
  BY <1>1, <1>2 DEF Calls, Same

\* Transactions change, if they have been handed out; files and staged files do not.
LEMMA HandedKept ==
  ASSUME HandedOut, files' = files, used \subseteq used',
         \A t \in TxnIds : (t \in used' \/ txn'[t] = txn[t]),
         \A t \in TxnIds : txn'[t].old \in {txn[t].old, NoFiles} /\ txn'[t].new \in {txn[t].new, NoFiles}
  PROVE  HandedOut'
  BY DEF HandedOut, Signers, NoFiles

\* One file is replaced by a staged one.
LEMMA HandedWrites ==
  ASSUME HandedOut, files \in FileStates, NEW t \in TxnIds, NEW r \in Refs,
         files' = [files EXCEPT ![r] = txn[t].old[r]] \/ files' = [files EXCEPT ![r] = txn[t].new[r]],
         UNCHANGED <<txn, used>>
  PROVE  HandedOut'
  BY DEF HandedOut, Signers, FileStates

\* What a transaction has published does not depend on its phase.
LEMMA OwnKept ==
  ASSUME files' = files, NEW t \in TxnIds, txn'[t].refs = txn[t].refs, txn'[t].old = txn[t].old
  PROVE  (Own(t)' <=> Own(t)) /\ (NoFileOf(t)' <=> NoFileOf(t))
  BY DEF Own, NoFileOf

\* Reading, the locks, and the ends of a call and of a recovery.
LEMMA OutsideCalls ==
  ASSUME IInv, CallInv, NEW w \in Workers,
         \/ ReadRevisions(w) \/ RequestCreation(w) \/ RequestRecovery(w)
         \/ LoadTask(w) \/ LoadItems(w) \/ AcquireProcessLock(w) \/ AcquireFileLock(w)
         \/ LockTimeout(w) \/ Release(w) \/ RecoverDone(w)
  PROVE  CallInv'
<1>1. /\ pc' \in [Workers -> Labels \cup {pc'[w]}] /\ pc'[w] \notin Owning
      /\ pc'[w] = "scan" => mode'[w] = "recover"
      /\ \A v \in Workers : v # w => Same(v)
  BY Labelled DEF IInv, TypeOK, Goto, Same, localVars, ReadRevisions, RequestCreation, RequestRecovery,
     LoadTask, LoadItems, AcquireProcessLock, AcquireFileLock, LockTimeout, Release, RecoverDone
<1>2. UNCHANGED <<files, log, txn, used>>
  BY DEF diskVars, ReadRevisions, RequestCreation, RequestRecovery, LoadTask, LoadItems, AcquireProcessLock,
     AcquireFileLock, LockTimeout, Release, RecoverDone
<1>3. HandedOut'
  BY <1>2, HandedKept DEF CallInv
<1> QED
  BY <1>1, <1>2, <1>3, CallOutside DEF CallInv

\* begin_transaction: nothing is of the transaction yet.
LEMMA BeginCalls ==
  ASSUME IInv, IInv', CallInv, NEW w \in Workers, MakeTxnDir(w) \/ WriteTxnFiles(w)
  PROVE  CallInv'
<1> USE DEF Goto, diskVars, lockVars, localVars
<1>0. /\ pc \in [Workers -> Labels] /\ cur \in [Workers -> Writers] /\ txn \in [TxnIds -> TxnRecords]
      /\ \A v \in Workers : v # w => Same(v)
      /\ UNCHANGED <<files, log, mode>>
  BY DEF IInv, TypeOK, Same, MakeTxnDir, WriteTxnFiles
<1>1. CASE MakeTxnDir(w)
  <2>1. CASE (request[w].create /\ files[TaskFile] # Absent) \/ used = TxnIds
    <3>1. pc'[w] = "release" /\ UNCHANGED <<txn, used>>
      BY <1>0, <1>1, <2>1 DEF MakeTxnDir
    <3>2. HandedOut'
      BY <1>0, <3>1, HandedKept DEF CallInv
    <3>3. QED
      BY <1>0, <3>1, <3>2, CallOutside, Labelled DEF CallInv
  <2>2. CASE ~((request[w].create /\ files[TaskFile] # Absent) \/ used = TxnIds)
    <3>1. PICK t \in TxnIds \ used :
            /\ used' = used \cup {t} /\ cur' = [cur EXCEPT ![w] = t]
            /\ txn' = [txn EXCEPT ![t].phase = "husk"] /\ pc' = [pc EXCEPT ![w] = "writeTxn"]
      BY <1>1, <2>2 DEF MakeTxnDir
    <3>2. /\ pc[w] = "begin" /\ pc'[w] = "writeTxn" /\ cur'[w] = t
          /\ txn'[t].refs = txn[t].refs /\ txn'[t].old = txn[t].old /\ txn'[t].new = txn[t].new
          /\ \A u \in TxnIds : u # t => txn'[u] = txn[u]
      BY <1>0, <1>1, <3>1 DEF MakeTxnDir, TxnRecords
    <3>3. txn[t].refs = {} /\ NoFileOf(t)
      <4>1. txn[t] = NoTxn /\ t # 0
        BY Constants DEF CallInv, HandedOut, ConstantFacts
      <4>2. QED
        BY <4>1 DEF CallInv, HandedOut, Signers, NoFileOf, NoTxn
    <3>4. CallAt(w)'
      BY <1>0, <3>2, <3>3 DEF CallAt, NoFileOf
    <3>5. HandedOut'
      BY <1>0, <3>1, <3>2, HandedKept DEF CallInv
    <3>6. QED
      BY <1>0, <3>2, <3>4, <3>5, CallOfOwner, Labelled DEF CallInv, Same
  <2>3. QED
    BY <2>1, <2>2
<1>2. CASE WriteTxnFiles(w)
  <2> DEFINE t == cur[w]
  <2>1. /\ pc[w] = "writeTxn" /\ pc'[w] = "prepare" /\ UNCHANGED <<cur, used>>
        /\ txn' = [txn EXCEPT ![t].phase = "prepared", ![t].event = TRUE, ![t].seq = request[w].seq]
    BY <1>0, <1>2 DEF WriteTxnFiles
  <2>2. t \in TxnIds /\ t \in used /\ t \notin LogTxns /\ pc[w] \in Critical
    BY <2>1, CallFacts, Labelled DEF IInv, CurInv, CurAt
  <2>3. /\ txn'[t].event = TRUE
        /\ txn'[t].refs = txn[t].refs /\ txn'[t].old = txn[t].old /\ txn'[t].new = txn[t].new
        /\ \A u \in TxnIds : u # t => txn'[u] = txn[u]
    BY <1>0, <2>1, <2>2 DEF TxnRecords
  <2>4. mode[w] = "run" => CallAt(w)'
    BY <1>0, <2>1, <2>2, <2>3, OwnKept DEF CallInv, Calls, CallAt, LogTxns
  <2>5. HandedOut'
    BY <1>0, <2>1, <2>2, <2>3, HandedKept DEF CallInv
  <2>6. QED
    BY <1>0, <2>2, <2>4, <2>5, CallOfOwner DEF CallInv, Same
<1> QED
  BY <1>1, <1>2

\* prepare_snapshots: the staged files are signed, the old ones are those on disk.
LEMMA PrepareCalls ==
  ASSUME IInv, IInv', CallInv, NEW w \in Workers, PrepareSnapshots(w)
  PROVE  CallInv'
<1> DEFINE t == cur[w]
           req == request[w]
<1> USE DEF Goto, diskVars, lockVars, localVars
<1>1. pc[w] = "prepare" /\ pc[w] \in Owning
  BY Labelled DEF PrepareSnapshots
<1>2. /\ pc'[w] \in {"publish", "undo"} /\ todo'[w] = req.refs
      /\ UNCHANGED <<files, log, used, cur, mode>> /\ \A v \in Workers : v # w => Same(v)
  BY <1>1, CallFacts DEF PrepareSnapshots, Same
<1>3. t \in TxnIds /\ t \in used /\ t # 0
  BY <1>1, CallFacts, Constants DEF ConstantFacts
<1>4. /\ txn'[t].event = txn[t].event /\ txn'[t].refs = req.refs
      /\ txn'[t].old = StagedOld(req, files) /\ txn'[t].new = StagedNew(req, t)
      /\ \A u \in TxnIds : u # t => txn'[u] = txn[u]
  BY <1>1, <1>3, CallFacts DEF PrepareSnapshots, TxnRecords, StagedOld, StagedNew
<1>5. req.refs \subseteq Refs /\ \A r \in req.refs : req.new[r] \in SnapshotOf(r)
  BY <1>1 DEF IInv, TypeOK, Requests, RequestInv
<1>6. \A r \in req.refs : txn'[t].new[r] # Absent /\ txn'[t].new[r].by = t
  <2> SUFFICES ASSUME NEW r \in req.refs PROVE txn'[t].new[r] # Absent /\ txn'[t].new[r].by = t
    OBVIOUS
  <2>1. txn'[t].new[r] = [req.new[r] EXCEPT !.by = t] /\ req.new[r] \in TaskSnapshots \cup ItemSnapshots
    BY <1>4, <1>5 DEF SnapshotOf, StagedNew
  <2>2. [req.new[r] EXCEPT !.by = t] \in TaskSnapshots \cup ItemSnapshots
    BY <1>3, <2>1 DEF TaskSnapshots, ItemSnapshots, Writers
  <2>3. QED
    BY <2>1, <2>2, AbsentAssumption DEF TaskSnapshots, ItemSnapshots
<1>7. \A r \in Refs : /\ r \in req.refs => txn'[t].old[r] = files[r]
                      /\ r \notin req.refs => txn'[t].old[r] = Absent /\ txn'[t].new[r] = Absent
  BY <1>4 DEF StagedOld, StagedNew
<1>8. mode[w] = "run" => CallAt(w)'
  <2> SUFFICES ASSUME mode[w] = "run" PROVE CallAt(w)'
    OBVIOUS
  <2>1. NoFileOf(t) /\ txn[t].event /\ t \notin LogTxns
    BY <1>1 DEF CallInv, Calls, CallAt
  <2>2. Own(t)'
    BY <1>2, <1>4, <1>5, <1>7, <2>1 DEF Own, NoFileOf
  <2>3. LogTxns' = LogTxns
    BY <1>2 DEF LogTxns
  <2>4. QED
    BY <1>2, <1>4, <1>6, <2>1, <2>2, <2>3 DEF CallAt
<1>9. HandedOut'
  <2>1. \A u \in TxnIds \ used' : txn'[u] = NoTxn
    BY <1>2, <1>3, <1>4 DEF CallInv, HandedOut
  <2>2. ASSUME NEW r \in Refs
        PROVE  /\ txn'[t].old[r] # Absent => txn'[t].old[r].by \in Signers
               /\ txn'[t].new[r] # Absent => txn'[t].new[r].by \in Signers
    BY <1>3, <1>6, <1>7, <2>2 DEF CallInv, HandedOut, Signers
  <2>3. QED
    BY <1>2, <1>4, <2>1, <2>2 DEF CallInv, HandedOut, Signers
<1> QED
  BY <1>1, <1>2, <1>8, <1>9, CallOfOwner, Labelled DEF CallInv, Same

\* publish_prepared_snapshots.
LEMMA PublishCalls ==
  ASSUME IInv, IInv', CallInv, NEW w \in Workers, PublishSnapshot(w) \/ MarkPublished(w)
  PROVE  CallInv'
<1> DEFINE t == cur[w]
<1> USE DEF Goto, diskVars, lockVars, localVars
<1>1. pc[w] = "publish" /\ pc[w] \in Owning
  BY Labelled DEF PublishSnapshot, MarkPublished
<1>2. /\ UNCHANGED <<log, used, cur, mode>> /\ \A v \in Workers : v # w => Same(v)
      /\ LogTxns' = LogTxns
  BY <1>1, CallFacts DEF PublishSnapshot, MarkPublished, Same, LogTxns
<1>3. t \in TxnIds /\ t \in used
  BY <1>1, CallFacts
<1>4. mode[w] = "run" =>
        /\ txn[t].event /\ t \notin LogTxns /\ Own(t) /\ todo[w] \subseteq txn[t].refs
        /\ \A r \in txn[t].refs : txn[t].new[r] # Absent /\ txn[t].new[r].by = t
  BY <1>1 DEF CallInv, Calls, CallAt
<1>5. CASE PublishSnapshot(w)
  <2>1. PICK r \in todo[w] : files' = [files EXCEPT ![r] = txn[t].new[r]] /\ todo' = [todo EXCEPT ![w] = @ \ {r}]
    BY <1>5 DEF PublishSnapshot
  <2>2. r \in Refs /\ UNCHANGED <<txn, pc>> /\ todo'[w] \subseteq todo[w]
    BY <1>1, <1>5, <2>1, CallFacts DEF PublishSnapshot
  <2>3. \A s \in Refs : files'[s] = IF s = r THEN txn[t].new[r] ELSE files[s]
    BY <1>1, <2>1, <2>2, CallFacts DEF FileStates
  <2>4. mode[w] = "run" => CallAt(w)'
    <3> SUFFICES ASSUME mode[w] = "run" PROVE CallAt(w)'
      OBVIOUS
    <3>1. txn[t].refs \subseteq Refs
      BY <1>1, CallFacts DEF TxnRecords
    <3>2. Own(t)'
      <4>1. t' = t /\ txn'[t] = txn[t] /\ r \in txn[t].refs
        BY <1>2, <1>4, <2>1, <2>2
      <4>2. \A s \in txn[t].refs :
              /\ files'[s] = txn[t].old[s] \/ (files'[s] # Absent /\ files'[s].by = t)
              /\ txn[t].old[s] # Absent => txn[t].old[s].by # t
        BY <1>4, <2>3, <3>1 DEF Own
      <4>3. \A s \in Refs \ txn[t].refs : files'[s] # Absent => files'[s].by # t
        BY <1>4, <2>3, <4>1 DEF Own
      <4>4. QED
        BY <4>1, <4>2, <4>3 DEF Own
    <3>3. pc'[w] = "publish" /\ t' = t /\ txn'[t] = txn[t] /\ todo'[w] \subseteq txn[t].refs /\ t \notin LogTxns'
      BY <1>1, <1>2, <1>4, <2>2
    <3>4. QED
      BY <1>4, <3>2, <3>3 DEF CallAt
  <2>5. HandedOut'
    BY <1>1, <1>2, <1>3, <2>1, <2>2, CallFacts, HandedWrites DEF CallInv
  <2>6. QED
    BY <1>1, <1>2, <2>4, <2>5, CallOfOwner, Labelled DEF CallInv, Same
<1>6. CASE MarkPublished(w)
  <2>1. /\ pc'[w] = "append" /\ UNCHANGED files
        /\ txn'[t].refs = txn[t].refs /\ txn'[t].old = txn[t].old /\ txn'[t].new = txn[t].new
        /\ txn'[t].event = txn[t].event
        /\ \A u \in TxnIds : u # t => txn'[u] = txn[u]
    BY <1>1, <1>3, <1>6, CallFacts DEF MarkPublished, TxnRecords
  <2>2. mode[w] = "run" => CallAt(w)'
    BY <1>2, <1>3, <1>4, <2>1, OwnKept DEF CallAt
  <2>3. HandedOut'
    BY <1>2, <1>3, <2>1, HandedKept DEF CallInv
  <2>4. QED
    BY <1>1, <1>2, <2>2, <2>3, CallOfOwner, Labelled DEF CallInv, Same
<1> QED
  BY <1>5, <1>6

\* append_transaction_event, whether it fails or not: an event that reached the log
\* is the last one.
LEMMA AppendCalls ==
  ASSUME IInv, IInv', CallInv, NEW w \in Workers, AppendEvent(w) \/ AppendFails(w)
  PROVE  CallInv'
<1> DEFINE t == cur[w]
<1> USE DEF Goto, diskVars, lockVars, localVars
<1>1. pc[w] = "append" /\ pc[w] \in Owning
  BY Labelled DEF AppendEvent, AppendFails
<1>2. /\ UNCHANGED <<files, txn, used, cur, mode>> /\ \A v \in Workers : v # w => Same(v)
      /\ pc'[w] \in {"undo", "markAppended"}
      /\ log' = log \/ log' = Append(log, Event(t, txn[t].seq))
      /\ pc'[w] = "markAppended" /\ log' = log => InLog(t)
  BY <1>1, CallFacts DEF AppendEvent, AppendFails, Same
<1>3. mode[w] = "run" => CallAt(w)'
  <2> SUFFICES ASSUME mode[w] = "run" PROVE CallAt(w)'
    OBVIOUS
  <2>1. txn[t].event /\ t \notin LogTxns /\ Own(t) /\ t \in TxnIds
    BY <1>1, CallFacts DEF CallInv, Calls, CallAt
  <2>2. Own(t)'
    BY <1>2, <2>1, OwnKept
  <2>3. t \notin LogTxns' \/ Ends(w)'
    <3>1. CASE log' = log
      BY <2>1, <3>1 DEF LogTxns
    <3>2. CASE log' = Append(log, Event(t, txn[t].seq))
      <4>1. log \in Seq(Events)
        BY <1>1, CallFacts
      <4>2. Len(log') = Len(log) + 1 /\ Len(log) \in Nat /\ log'[Len(log) + 1] = Event(t, txn[t].seq)
        BY <3>2, <4>1
      <4>3. QED
        BY <1>2, <4>2 DEF Ends, LastEvent
    <3>3. QED
      BY <1>2, <3>1, <3>2
  <2>4. QED
    BY <1>2, <2>1, <2>2, <2>3 DEF CallAt
<1>4. HandedOut'
  BY <1>2, HandedKept DEF CallInv
<1> QED
  BY <1>1, <1>2, <1>3, <1>4, CallOfOwner, Labelled DEF CallInv, Same

\* commit_transaction: what is removed after a commit is in the log.
LEMMA EndCalls ==
  ASSUME IInv, IInv', CallInv, NEW w \in Workers, MarkAppended(w) \/ MarkCommitted(w) \/ RemoveTxnDir(w)
  PROVE  CallInv'
<1> DEFINE t == cur[w]
<1> USE DEF Goto, diskVars, lockVars, localVars
<1>1. pc[w] \in {"markAppended", "commit", "cleanup"} /\ pc[w] \in Owning
  BY Labelled DEF MarkAppended, MarkCommitted, RemoveTxnDir
<1>2. /\ UNCHANGED <<files, log, used, cur, mode>> /\ \A v \in Workers : v # w => Same(v)
  BY <1>1, CallFacts DEF MarkAppended, MarkCommitted, RemoveTxnDir, Same
<1>3. t \in TxnIds /\ t \in used
  BY <1>1, CallFacts
<1>4. /\ \A u \in TxnIds : u # t => txn'[u] = txn[u]
      /\ txn'[t].old \in {txn[t].old, NoFiles} /\ txn'[t].new \in {txn[t].new, NoFiles}
  BY <1>1, <1>3, CallFacts DEF MarkAppended, MarkCommitted, RemoveTxnDir, TxnRecords, NoTxn
<1>5. HandedOut'
  BY <1>2, <1>3, <1>4, HandedKept DEF CallInv
<1>6. /\ pc'[w] \in {"commit", "cleanup", "release", "scan"}
      /\ pc'[w] = "scan" => mode[w] = "recover"
      /\ pc'[w] = "cleanup" => AlreadyAppended(t)
  BY <1>1, CallFacts DEF MarkAppended, MarkCommitted, RemoveTxnDir, Committable
<1>7. pc'[w] = "cleanup" => t \in LogTxns'
  <2> SUFFICES ASSUME pc'[w] = "cleanup" PROVE t \in LogTxns
    BY <1>2 DEF LogTxns
  <2>1. Len(log) > 0 /\ LastEvent = Event(t, txn[t].seq) /\ Len(log) \in Nat
    BY <1>1, <1>6, CallFacts DEF AlreadyAppended
  <2>2. QED
    BY <2>1 DEF LogTxns, LastEvent, Event
<1>8. mode'[w] = "run" => CallAt(w)'
  BY <1>2, <1>6, <1>7 DEF CallAt
<1> QED
  BY <1>1, <1>2, <1>5, <1>8, CallOfOwner, Labelled DEF CallInv, Same

\* rollback_transaction: refused for a logged event, complete for any other.
LEMMA RollbackCalls ==
  ASSUME IInv, IInv', CallInv, NEW w \in Workers, EnterRollback(w) \/ RestoreSnapshot(w) \/ MarkRolledBack(w)
  PROVE  CallInv'
<1> DEFINE t == cur[w]
<1> USE DEF Goto, diskVars, lockVars, localVars
<1>1. pc[w] \in {"undo", "restore"} /\ pc[w] \in Owning
  BY Labelled DEF EnterRollback, RestoreSnapshot, MarkRolledBack
<1>2. /\ UNCHANGED <<log, used, cur, mode>> /\ \A v \in Workers : v # w => Same(v)
      /\ LogTxns' = LogTxns
  BY <1>1, CallFacts DEF EnterRollback, RestoreSnapshot, MarkRolledBack, Same, LogTxns
<1>3. t \in TxnIds /\ t \in used /\ txn[t].refs \subseteq Refs
  BY <1>1, CallFacts DEF TxnRecords
<1>4. mode[w] = "run" => txn[t].event /\ Own(t)
  BY <1>1 DEF CallInv, Calls, CallAt
<1>5. CASE EnterRollback(w)
  <2>1. /\ pc[w] = "undo" /\ pc'[w] \in {"release", "restore"} /\ UNCHANGED <<files, txn>>
        /\ pc'[w] = "restore" => ~AlreadyAppended(t) /\ todo'[w] = txn[t].refs
    BY <1>1, <1>5, CallFacts DEF EnterRollback
  <2>2. HandedOut'
    BY <1>2, <2>1, HandedKept DEF CallInv
  <2>3. mode[w] = "run" => CallAt(w)'
    <3> SUFFICES ASSUME mode[w] = "run" PROVE CallAt(w)'
      OBVIOUS
    <3>1. CASE pc'[w] = "release"
      BY <3>1 DEF CallAt
    <3>2. CASE pc'[w] = "restore"
      <4>1. t \notin LogTxns
        BY <1>4, <2>1, <3>2 DEF CallInv, Calls, CallAt, Ends, AlreadyAppended
      <4>2. Own(t)'
        BY <1>2, <1>3, <1>4, <2>1, OwnKept
      <4>3. QED
        BY <1>2, <1>4, <2>1, <3>2, <4>1, <4>2 DEF CallAt
    <3>3. QED
      BY <2>1, <3>1, <3>2
  <2>4. QED
    BY <1>1, <1>2, <2>2, <2>3, CallOfOwner, Labelled DEF CallInv, Same
<1>6. CASE RestoreSnapshot(w)
  <2>1. PICK r \in todo[w] : files' = [files EXCEPT ![r] = txn[t].old[r]] /\ todo' = [todo EXCEPT ![w] = @ \ {r}]
    BY <1>6 DEF RestoreSnapshot
  <2>2. r \in Refs /\ UNCHANGED <<txn, pc>> /\ todo'[w] = todo[w] \ {r} /\ pc[w] = "restore"
    BY <1>1, <1>6, <2>1, CallFacts DEF RestoreSnapshot
  <2>3. \A s \in Refs : files'[s] = IF s = r THEN txn[t].old[r] ELSE files[s]
    BY <1>1, <2>1, <2>2, CallFacts DEF FileStates
  <2>4. mode[w] = "run" => CallAt(w)'
    <3> SUFFICES ASSUME mode[w] = "run" PROVE CallAt(w)'
      OBVIOUS
    <3>1. /\ todo[w] \subseteq txn[t].refs /\ t \notin LogTxns
          /\ \A s \in txn[t].refs \ todo[w] : files[s] = txn[t].old[s]
      BY <2>2 DEF CallInv, Calls, CallAt
    <3>2. /\ \A s \in txn[t].refs :
               /\ files'[s] = txn[t].old[s] \/ (files'[s] # Absent /\ files'[s].by = t)
               /\ txn[t].old[s] # Absent => txn[t].old[s].by # t
          /\ \A s \in Refs \ txn[t].refs : files'[s] # Absent => files'[s].by # t
          /\ \A s \in txn[t].refs \ todo'[w] : files'[s] = txn[t].old[s]
      <4>1. \A s \in txn[t].refs :
               /\ files[s] = txn[t].old[s] \/ (files[s] # Absent /\ files[s].by = t)
               /\ txn[t].old[s] # Absent => txn[t].old[s].by # t
        BY <1>4 DEF Own
      <4>2. \A s \in Refs \ txn[t].refs : files[s] # Absent => files[s].by # t
        BY <1>4 DEF Own
      <4>3. r \in txn[t].refs
        BY <3>1
      <4>4. QED
        BY <1>3, <2>2, <2>3, <3>1, <4>1, <4>2, <4>3
    <3>3. Own(t)'
      BY <1>2, <2>2, <3>2 DEF Own
    <3>4. /\ pc'[w] = "restore" /\ t' = t /\ txn'[t] = txn[t] /\ t \notin LogTxns'
          /\ todo'[w] \subseteq txn[t].refs
      BY <1>2, <2>2, <3>1
    <3>5. QED
      BY <1>4, <3>2, <3>3, <3>4 DEF CallAt
  <2>5. HandedOut'
    BY <1>1, <1>2, <1>3, <2>1, <2>2, CallFacts, HandedWrites DEF CallInv
  <2>6. QED
    BY <1>1, <1>2, <2>4, <2>5, CallOfOwner, Labelled DEF CallInv, Same
<1>7. CASE MarkRolledBack(w)
  <2>1. /\ pc[w] = "restore" /\ todo[w] = {} /\ pc'[w] = "cleanup" /\ UNCHANGED files
        /\ txn'[t].old = txn[t].old /\ txn'[t].new = txn[t].new
        /\ \A u \in TxnIds : u # t => txn'[u] = txn[u]
    BY <1>1, <1>3, <1>7, CallFacts DEF MarkRolledBack, TxnRecords
  <2>2. mode[w] = "run" => NoFileOf(t)
    BY <1>4, <2>1 DEF CallInv, Calls, CallAt, Own, NoFileOf
  <2>3. mode[w] = "run" => CallAt(w)'
    BY <1>2, <2>1, <2>2 DEF CallAt, NoFileOf
  <2>4. HandedOut'
    BY <1>2, <1>3, <2>1, HandedKept DEF CallInv
  <2>5. QED
    BY <1>1, <1>2, <2>3, <2>4, CallOfOwner, Labelled DEF CallInv, Same
<1> QED
  BY <1>5, <1>6, <1>7

\* An interrupted removal leaves staged files or none.
LEMMA RemovedHanded ==
  ASSUME HandedOut, txn \in [TxnIds -> TxnRecords], NEW t \in used, t \in TxnIds,
         PartlyRemoved(t), UNCHANGED <<files, used>>
  PROVE  HandedOut'
<1>1. /\ \A u \in TxnIds : u # t => txn'[u] = txn[u]
      /\ txn'[t].old \in {txn[t].old, NoFiles} /\ txn'[t].new \in {txn[t].new, NoFiles}
  BY DEF PartlyRemoved, TxnRecords, NoTxn
<1> QED
  BY <1>1, HandedKept

\* Recovery is no such call, and a failed write leads to a rollback of what is known.
LEMMA OtherCalls ==
  ASSUME IInv, IInv', CallInv, NEW w \in Workers, RecoverNext(w) \/ WriteFails(w) \/ RemoveFails(w)
  PROVE  CallInv'
<1> USE DEF Goto, diskVars, lockVars, localVars
<1>1. CASE RecoverNext(w)
  <2>1. pc[w] = "scan" /\ pc[w] \in Critical /\ \A v \in Workers : v # w => Same(v)
    BY <1>1, Labelled DEF RecoverNext, IInv, TypeOK, Same
  <2>2. mode'[w] # "run" /\ HandedOut'
    <3>1. mode[w] # "run" /\ UNCHANGED <<mode, files, txn, used>>
      BY <1>1, <2>1 DEF RecoverNext, CallInv, Calls, CallAt
    <3>2. QED
      BY <3>1, HandedKept DEF CallInv
  <2>3. QED
    BY <2>1, <2>2, CallOfOwner DEF CallInv, Same
<1>2. CASE WriteFails(w)
  <2> DEFINE t == cur[w]
  <2>1. /\ pc[w] \in {"writeTxn", "prepare", "publish", "markAppended", "commit", "restore"}
        /\ UNCHANGED <<files, log, txn, used, cur, mode>> /\ pc[w] \in Owning
        /\ pc' = [pc EXCEPT ![w] = AfterFault(pc[w])]
    BY <1>2, Labelled DEF WriteFails
  <2>2. /\ pc'[w] = AfterFault(pc[w]) /\ \A v \in Workers : v # w => Same(v)
        /\ t \in TxnIds
    BY <1>2, <2>1, CallFacts DEF WriteFails, Same
  <2>3. mode[w] = "run" => CallAt(w)'
    <3> SUFFICES ASSUME mode[w] = "run" PROVE CallAt(w)'
      OBVIOUS
    <3>1. CASE pc'[w] = "release"
      BY <3>1 DEF CallAt
    <3>2. CASE pc[w] \in {"prepare", "publish", "markAppended"}
      <4>1. txn[t].event /\ (t \notin LogTxns \/ Ends(w))
        BY <3>2 DEF CallInv, Calls, CallAt
      <4>2. Own(t)
        BY <3>2 DEF CallInv, Calls, CallAt, Own, NoFileOf
      <4>3. pc'[w] = "undo" /\ t' = t /\ (Ends(w)' <=> Ends(w)) /\ LogTxns' = LogTxns /\ Own(t)'
        BY <2>1, <2>2, <3>2, <4>2, OwnKept DEF AfterFault, Ends, LastEvent, LogTxns
      <4>4. QED
        BY <2>1, <4>1, <4>3 DEF CallAt
    <3>3. QED
      BY <2>1, <2>2, <3>1, <3>2 DEF AfterFault
  <2>4. HandedOut'
    BY <2>1, HandedKept DEF CallInv
  <2>5. QED
    BY <2>1, <2>2, <2>3, <2>4, CallOfOwner, Labelled DEF CallInv, Same
<1>3. CASE RemoveFails(w)
  <2>1. /\ pc[w] = "cleanup" /\ pc[w] \in Owning /\ pc'[w] = "release" /\ UNCHANGED <<files, used>>
        /\ \A v \in Workers : v # w => Same(v)
    BY <1>3, Labelled DEF RemoveFails, IInv, TypeOK, Same
  <2>2. HandedOut'
    BY <1>3, <2>1, CallFacts, RemovedHanded DEF RemoveFails, CallInv
  <2>3. QED
    BY <2>1, <2>2, CallOfOwner, Labelled DEF CallInv, CallAt, Same
<1> QED
  BY <1>1, <1>2, <1>3

\* A crash takes its threads out; the owner of another process goes on as it was.
LEMMA CrashCalls ==
  ASSUME IInv, IInv', CallInv, NEW p \in Processes, Crash(p)
  PROVE  CallInv'
<1>1. UNCHANGED <<files, log, used>> /\ LogTxns' = LogTxns
  BY DEF Crash, LogTxns
<1>2. txn' = txn \/ \E w \in Workers : /\ ProcessOf[w] = p /\ pc[w] = "cleanup" /\ flock = w
                                       /\ PartlyRemoved(cur[w])
  BY DEF Crash
<1>3. HandedOut'
  <2>1. CASE txn' = txn
    BY <1>1, <2>1, HandedKept DEF CallInv
  <2>2. ASSUME NEW w \in Workers, pc[w] = "cleanup", PartlyRemoved(cur[w]) PROVE HandedOut'
    BY <1>1, <2>2, CallFacts, RemovedHanded, Labelled DEF CallInv
  <2>3. QED
    BY <1>2, <2>1, <2>2
<1>4. ASSUME NEW v \in Workers, mode'[v] = "run" PROVE CallAt(v)'
  <2>1. CASE ProcessOf[v] = p \/ pc[v] \notin Critical
    <3>1. pc'[v] \notin Critical
      BY <2>1, Labelled DEF Crash
    <3>2. QED
      BY <3>1, Labelled DEF CallAt
  <2>2. CASE ProcessOf[v] # p /\ pc[v] \in Critical
    <3> DEFINE t == cur[v]
    <3>1. flock = v
      BY <2>2 DEF IInv, LockInv
    <3>2. txn' = txn
      BY <1>2, <2>2, <3>1
    <3>3. /\ pc'[v] = pc[v] /\ cur'[v] = t /\ todo'[v] = todo[v] /\ mode[v] = "run"
      BY <1>4, <2>2 DEF Crash
    <3>4. CallAt(v)
      BY <3>3 DEF CallInv, Calls
    <3>5. /\ Own(cur[v])' <=> Own(cur[v])
          /\ NoFileOf(cur[v])' <=> NoFileOf(cur[v])
          /\ Ends(v)' <=> Ends(v)
      BY <1>1, <3>2, <3>3 DEF Own, NoFileOf, Ends, LastEvent
    <3>6. QED
      BY <1>1, <3>2, <3>3, <3>4, <3>5 DEF CallAt
  <2>3. QED
    BY <2>1, <2>2
<1> QED
  BY <1>3, <1>4 DEF CallInv, Calls

\* Nothing is known of calls when no call has been made.
LEMMA InitCalls == Init => CallInv
<1> SUFFICES ASSUME Init PROVE CallInv
  OBVIOUS
<1>1. \A w \in Workers : pc[w] = "idle"
  BY DEF Init
<1>2. Calls
  BY <1>1 DEF Calls, CallAt
<1>3. \A t \in TxnIds : txn[t] = NoTxn /\ \A r \in Refs : txn[t].old[r] = Absent /\ txn[t].new[r] = Absent
  BY DEF Init, NoTxn, NoFiles
<1>4. \A r \in Refs : files[r] # Absent => files[r].by = 0
  BY DEF Init, InitialFiles, InitialItem, TaskSnapshot, ItemSnapshot, NoFiles
<1> QED
  BY <1>2, <1>3, <1>4 DEF CallInv, HandedOut, Signers

\* No failure, crash or recovery takes from a call what it knows of its transaction.
LEMMA NextCalls == IInv /\ IInv' /\ CallInv /\ [Next]_vars => CallInv'
<1> SUFFICES ASSUME IInv, IInv', CallInv, [Next]_vars PROVE CallInv'
  OBVIOUS
<1>1. ASSUME NEW w \in Workers, Submit(w) PROVE CallInv'
  BY <1>1, OutsideCalls DEF Submit
<1>2. ASSUME NEW w \in Workers, Step(w) PROVE CallInv'
  BY <1>2, OutsideCalls, BeginCalls, PrepareCalls, PublishCalls, AppendCalls, EndCalls, RollbackCalls,
     OtherCalls DEF Step
<1>3. ASSUME NEW w \in Workers, Fault(w) PROVE CallInv'
  BY <1>3, AppendCalls, OtherCalls DEF Fault
<1>4. ASSUME UNCHANGED <<files, log, txn, used, pc, mode, cur, todo>> PROVE CallInv'
  BY <1>4 DEF CallInv, HandedOut, Signers, Calls, CallAt, NoFileOf, Own, Ends, LastEvent, LogTxns
<1>5. RemoveStaleLock \/ UNCHANGED vars => CallInv'
  BY <1>4 DEF RemoveStaleLock, vars, diskVars, localVars
<1> QED
  BY <1>1, <1>2, <1>3, <1>5, CrashCalls DEF Next

\* Files change by being published and restored only.
LEMMA WritersOnly ==
  ASSUME [Next]_vars, files' # files
  PROVE  \E v \in Workers : PublishSnapshot(v) \/ RestoreSnapshot(v)
  BY DEF Next, Submit, Step, Fault, diskVars, vars, ReadRevisions, RequestCreation, RequestRecovery, LoadTask,
     LoadItems, AcquireProcessLock, AcquireFileLock, LockTimeout, Release, MakeTxnDir, WriteTxnFiles,
     PrepareSnapshots, MarkPublished, AppendEvent, MarkAppended, MarkCommitted, RemoveTxnDir,
     EnterRollback, MarkRolledBack, RecoverNext, RecoverDone, WriteFails, AppendFails, RemoveFails,
     Crash, RemoveStaleLock

\* What a call knows of its transaction: whether its event is in the log, which files
\* are its own and what they were, whatever has failed, died or been recovered.
THEOREM Known == Spec => []CallInv
<1>1. IInv /\ IInv' /\ CallInv /\ [Next]_vars => CallInv'
  BY NextCalls
<1> QED
  BY <1>1, InitCalls, Invariance, PTL DEF Spec

\* A call that fails leaves nothing of its transaction behind.
THEOREM Traceless == Spec => []CallLeavesNoTrace
<1>1. CallInv => CallLeavesNoTrace
  BY DEF CallInv, Calls, CallAt, NoFileOf, CallLeavesNoTrace
<1> QED
  BY <1>1, Known, PTL

\* While a call rolls back, no file of a logged transaction changes.
THEOREM Contained == Spec => RollbackContained
<1> DEFINE Kept == \A w \in Workers : mode[w] = "run" /\ pc[w] = "restore" =>
                     \A r \in Refs : files[r] # Absent /\ files[r].by \in LogTxns => files'[r] = files[r]
<1>1. IInv /\ CallInv /\ [Next]_vars => [Kept]_files
  <2> SUFFICES ASSUME IInv, CallInv, [Next]_vars, NEW w \in Workers, mode[w] = "run", pc[w] = "restore",
                      NEW r \in Refs, files[r] # Absent, files[r].by \in LogTxns, files' # files
               PROVE  files'[r] = files[r]
    OBVIOUS
  <2>1. \A v \in Workers : v # w => pc[v] \notin Critical
    BY OthersOutside, Labelled DEF IInv
  <2>2. PICK v \in Workers : PublishSnapshot(v) \/ RestoreSnapshot(v)
    BY WritersOnly
  <2>3. v = w /\ RestoreSnapshot(w)
    BY <2>1, <2>2, Labelled DEF PublishSnapshot, RestoreSnapshot
  <2>4. PICK s \in todo[w] : files' = [files EXCEPT ![s] = txn[cur[w]].old[s]]
    BY <2>3 DEF RestoreSnapshot
  <2>5. cur[w] \notin LogTxns /\ Own(cur[w]) /\ todo[w] \subseteq txn[cur[w]].refs
    BY DEF CallInv, Calls, CallAt
  <2>6. s \in txn[cur[w]].refs /\ files \in FileStates
    BY <2>5 DEF IInv, TypeOK
  <2>7. CASE r # s
    BY <2>4, <2>6, <2>7 DEF FileStates
  <2>8. CASE r = s
    <3>1. files[s] = txn[cur[w]].old[s]
      BY <2>5, <2>6, <2>8 DEF Own
    <3>2. QED
      BY <2>4, <3>1
  <2>9. QED
    BY <2>7, <2>8
<1> HIDE DEF Kept
<1>2. Spec => [][Kept]_files
  BY <1>1, Invariance, Known, PTL DEF Spec
<1> QED
  BY <1>2 DEF RollbackContained, Kept
=============================================================================
