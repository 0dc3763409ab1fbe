------------------------ MODULE EvidenceRegistration ------------------------
(* The registration of evidence packages: a record per package and revision,  *)
(* the validations it was given, one index of the records and one audit log,   *)
(* files that change under a lock file. The validation of a package is done    *)
(* before the lock is asked for. There is no log to recover from: a process    *)
(* that ends in the middle leaves what it wrote, and its lock file.            *)
EXTENDS PackageValidation, Naturals

CONSTANTS Packages,   \* the packages that may be handed in
          Versions,   \* the rest of a validation's identity: mode and validator
          Callers,    \* the calls that run at a time
          Left,       \* the lock file of a call that is over
          MaxCalls,   \* bound: registrations
          MaxFaults,  \* bound: file operations that fail
          MaxCuts     \* bound: processes that end, and calls whose undo fails

ASSUME RegistrationAssumption ==
  /\ None \notin Packages \cup Versions \cup Callers \cup Nat
  /\ Left \notin Callers \cup {None}
  /\ MaxCalls \in Nat /\ MaxFaults \in Nat /\ MaxCuts \in Nat

ASSUME PackagesAssumption == \A p \in Packages : Formed(p)

VARIABLES record,       \* the record of each key: id, manifest, latest validation, revision
          validations,  \* the validations on disk, by id: package, version, record
          index,        \* None, or its revision and its entry for each key
          audit,        \* the events of the audit log
          torn,         \* whether its last line was cut off
          lock,         \* None, the caller that holds the file, or Left
          call,         \* what each caller is doing
          issued, faults, cuts

registrationVars == <<record, validations, index, audit, torn, lock, call, issued, faults, cuts>>

Keys == {p.manifest.key : p \in Packages}

Idle == [stage |-> "idle"]

RegistrationInit ==
  /\ record = [k \in Keys |-> None]
  /\ validations = << >>
  /\ index = None
  /\ audit = {} /\ torn = FALSE
  /\ lock = None
  /\ call = [c \in Callers |-> Idle]
  /\ issued = 0 /\ faults = 0 /\ cuts = 0

----------------------------------------------------------------------------

(* What is on disk. *)

EvidencePackageRecord(id, sum, latest, n) ==
  [id |-> id, manifest |-> sum, latest |-> latest, revision |-> n]

ValidationResult(package, version, id) ==
  [package |-> package, version |-> version, record |-> id]

\* The entries are a function of the keys: no key twice, and no order of their own.
RegistrationIndex(n, entries) == [revision |-> n, entries |-> entries]

Sums == {p.manifest.sum : p \in Packages}

EvidencePackageRecords == [id : Nat, manifest : Sums, latest : Nat, revision : Nat]

RegistrationEntries == [record : Nat, manifest : Sums, latest : Nat, revision : Nat]

RegistrationIndexes ==
  [revision : Nat, entries : UNION {[K -> RegistrationEntries] : K \in SUBSET Keys}]

\* What is missing is neither a record nor an index.
ASSUME NoneAssumption == None \notin EvidencePackageRecords \cup RegistrationIndexes

Without(f, x) == [y \in DOMAIN f \ {x} |-> f[y]]

Put(f, x, v) == [y \in DOMAIN f \cup {x} |-> IF y = x THEN v ELSE f[y]]

\* The validation a record points to can be read and is of its manifest.
Validated(r) ==
  r.latest \in DOMAIN validations /\ validations[r.latest].package.manifest.sum = r.manifest

\* An entry and the record it is about; their revisions are not compared.
EntryHolds(k, e) ==
  /\ record[k] # None
  /\ e.record = record[k].id /\ e.manifest = record[k].manifest
  /\ Validated(record[k])
  /\ e.latest = record[k].latest

\* The strict reading of the index, which every writer does first.
IndexReadable == index # None => \A k \in DOMAIN index.entries : EntryHolds(k, index.entries[k])

IndexRevision == IF index = None THEN 0 ELSE index.revision

Entry(r) == [record |-> r.id, manifest |-> r.manifest, latest |-> r.latest, revision |-> r.revision]

Listed(k) == index # None /\ k \in DOMAIN index.entries

----------------------------------------------------------------------------

(* A call. It holds its number, which is the id of the validation and of a     *)
(* record it creates, the verdict, the revision of the index it expects, what  *)
(* the record was, the entries and the events it is going to write. What it    *)
(* answers is told by the action that ends it.                                 *)

\* The verdict on a package, what it is if it may be registered, and whether its
\* manifest can be read a second time.
Verdict(p) ==
  [allowed |-> Passes(p),
   readable |-> p.manifest.form = "json" /\ p.manifest.schema = None,
   package |-> IF Passes(p) THEN p ELSE None]

Verdicts == {Verdict(p) : p \in Packages}

At(c, stage) == call[c].stage = stage

Key(c) == call[c].verdict.package.manifest.key

Goes(c, stage) == call' = [call EXCEPT ![c].stage = stage]

Event(event, r) == [event |-> event, record |-> r]

Begin(c, verdict, version, expected) ==
  /\ At(c, "idle") /\ issued < MaxCalls
  /\ issued' = issued + 1
  /\ call' = [call EXCEPT ![c] =
       [stage |-> "lock", kind |-> "register", id |-> issued + 1, verdict |-> verdict,
        version |-> version, expected |-> expected, old |-> None, entries |-> << >>,
        pending |-> << >>]]
  /\ UNCHANGED <<record, validations, index, audit, torn, lock, faults, cuts>>

BeginRebuild(c, expected) ==
  /\ At(c, "idle") /\ issued < MaxCalls
  /\ issued' = issued + 1
  /\ call' = [call EXCEPT ![c] =
       [stage |-> "lock", kind |-> "rebuild", id |-> issued + 1, expected |-> expected,
        entries |-> << >>, pending |-> << >>]]
  /\ UNCHANGED <<record, validations, index, audit, torn, lock, faults, cuts>>

GetLock(c) ==
  /\ At(c, "lock") /\ lock = None
  /\ lock' = c
  /\ Goes(c, "check")
  /\ UNCHANGED <<record, validations, index, audit, torn, issued, faults, cuts>>

LockTimesOut(c) ==
  /\ At(c, "lock") /\ lock # None
  /\ call' = [call EXCEPT ![c] = Idle]
  /\ UNCHANGED <<record, validations, index, audit, torn, lock, issued, faults, cuts>>

\* What is read before anything is written: the audit log, the index with all it
\* refers to, and the revision the caller expects.
Preflight(c) ==
  /\ ~torn
  /\ IndexReadable
  /\ call[c].expected \in {None, IndexRevision}

Refuses(c) ==
  /\ Goes(c, "release")
  /\ UNCHANGED <<record, validations, index, audit, torn, lock, issued, faults, cuts>>

Reports(c, events) ==
  /\ call' = [call EXCEPT ![c].stage = "audit", ![c].pending = events]
  /\ UNCHANGED <<record, validations, index, audit, torn, lock, issued, faults, cuts>>

\* The manifest is read again first, and nothing is written if it cannot be.
CheckFails(c) ==
  /\ At(c, "check")
  /\ ~Preflight(c) \/ (call[c].kind = "register" /\ ~call[c].verdict.readable)
  /\ Refuses(c)

Reject(c) ==
  /\ At(c, "check") /\ call[c].kind = "register"
  /\ Preflight(c) /\ call[c].verdict.readable
  /\ ~call[c].verdict.allowed
  /\ Reports(c, <<Event("registration_rejected", None)>>)

\* The call may register, and the state it meets is whole.
Cleared(c) ==
  /\ At(c, "check") /\ call[c].kind = "register"
  /\ Preflight(c) /\ call[c].verdict.readable /\ call[c].verdict.allowed

Old(c) == record[Key(c)]

\* The identity of a validation: what the package is, and who judged it how.
SameIdentity(c) ==
  LET last == validations[Old(c).latest]
  IN  /\ last.package.manifest.sum = call[c].verdict.package.manifest.sum
      /\ last.version = call[c].version

Vanished(c) ==
  /\ Cleared(c) /\ Old(c) # None
  /\ Old(c).latest \notin DOMAIN validations
  /\ Refuses(c)

Audited(r) == {e.event : e \in {f \in audit : f.record = r.id}}

RecordEvent(r) == IF r.revision > 1 THEN "record_updated" ELSE "record_created"

\* The events a registration leaves, in the order they are written.
Required(r) == <<"validation_created", RecordEvent(r), "index_updated">>

\* An event of a registration that the log lacks.
Missing(r, type) == IF type \in Audited(r) THEN << >> ELSE <<Event(type, r.id)>>

\* Mutant of RecoverAuditGap: that the index was written is not made up for.
RecoverAllButIndex(r) ==
  LET missing == Missing(r, "validation_created") \o Missing(r, RecordEvent(r))
  IN  IF missing = << >> THEN << >> ELSE <<Event("recovery_performed", r.id)>> \o missing
RecoverAuditGap(r) ==
  LET missing == Missing(r, Required(r)[1]) \o Missing(r, Required(r)[2]) \o Missing(r, Required(r)[3])
  IN  IF missing = << >> THEN << >> ELSE <<Event("recovery_performed", r.id)>> \o missing

\* The same package judged the same way: nothing but the audit log is written.
Hit(c) ==
  /\ Cleared(c) /\ Old(c) # None
  /\ Old(c).latest \in DOMAIN validations /\ SameIdentity(c)
  /\ Reports(c, RecoverAuditGap(Old(c)) \o <<Event("idempotent_hit", Old(c).id)>>)

Conflict(c) ==
  /\ Cleared(c) /\ Old(c) # None
  /\ Old(c).latest \in DOMAIN validations /\ ~SameIdentity(c)
  /\ Old(c).manifest # call[c].verdict.package.manifest.sum
  /\ Refuses(c)

\* A first registration, or another judgement of what is registered.
Accepted(c) ==
  Old(c) # None =>
    /\ Old(c).latest \in DOMAIN validations /\ ~SameIdentity(c)
    /\ Old(c).manifest = call[c].verdict.package.manifest.sum

Accept(c) ==
  /\ Cleared(c) /\ Accepted(c)
  /\ call' = [call EXCEPT ![c].stage = "validation", ![c].old = Old(c)]
  /\ UNCHANGED <<record, validations, index, audit, torn, lock, issued, faults, cuts>>

----------------------------------------------------------------------------

(* The writes of a registration. A file that cannot be written ends it: only   *)
(* the index takes back what was written before it.                            *)

\* Its link to a record is never filled in.
Validation(c) == ValidationResult(call[c].verdict.package, call[c].version, None)

WriteValidation(c) ==
  /\ At(c, "validation")
  /\ validations' = Put(validations, call[c].id, Validation(c))
  /\ Goes(c, "record")
  /\ UNCHANGED <<record, index, audit, torn, lock, issued, faults, cuts>>

NewRecord(c) ==
  LET old == call[c].old
  IN  IF old = None
      THEN EvidencePackageRecord(call[c].id, call[c].verdict.package.manifest.sum, call[c].id, 1)
      ELSE [old EXCEPT !.latest = call[c].id, !.revision = @ + 1]

WriteRecord(c) ==
  /\ At(c, "record")
  /\ record' = [record EXCEPT ![Key(c)] = NewRecord(c)]
  /\ Goes(c, "index")
  /\ UNCHANGED <<validations, index, audit, torn, lock, issued, faults, cuts>>

\* The entries of the index the call has read, with this one in its place.
UpsertEntry(c) ==
  LET k == Key(c)
  IN  Put(IF index = None THEN << >> ELSE index.entries, k, Entry(record[k]))

WriteIndex(c, entries) == index' = RegistrationIndex(IndexRevision + 1, entries)

CommitIndex(c) ==
  /\ At(c, "index") /\ call[c].kind = "register"
  /\ WriteIndex(c, UpsertEntry(c))
  /\ LET r == record[Key(c)]
     IN  call' = [call EXCEPT ![c].stage = "audit", ![c].pending = [i \in 1 .. 3 |-> Event(Required(r)[i], r.id)]]
  /\ UNCHANGED <<record, validations, audit, torn, lock, issued, faults, cuts>>

\* A file cannot be written. The record and the validation are left as they are;
\* a registration that cannot write the index undoes them.
WriteFails(c) ==
  /\ call[c].stage \in {"validation", "record", "index"} /\ faults < MaxFaults
  /\ faults' = faults + 1
  /\ LET undoes == At(c, "index") /\ call[c].kind = "register"
     IN  Goes(c, IF undoes THEN "undo" ELSE "release")
  /\ UNCHANGED <<record, validations, index, audit, torn, lock, issued, cuts>>

\* The record as it was is restored before the files that are new are deleted.
\* Mutant of UndoFirst: the record is not restored.
UndoForgets(c) ==
  /\ validations' = IF call[c].old = None THEN Without(validations, call[c].id) ELSE validations
  /\ UNCHANGED record
UndoFirst(c) ==
  IF call[c].old = None
  THEN validations' = Without(validations, call[c].id) /\ UNCHANGED record
  ELSE record' = [record EXCEPT ![Key(c)] = call[c].old] /\ UNCHANGED validations

Undo(c) ==
  /\ At(c, "undo")
  /\ UndoFirst(c)
  /\ Goes(c, "undo rest")
  /\ UNCHANGED <<index, audit, torn, lock, issued, faults, cuts>>

UndoRest(c) ==
  /\ At(c, "undo rest")
  /\ IF call[c].old = None
     THEN record' = [record EXCEPT ![Key(c)] = None] /\ UNCHANGED validations
     ELSE validations' = Without(validations, call[c].id) /\ UNCHANGED record
  /\ Goes(c, "release")
  /\ UNCHANGED <<index, audit, torn, lock, issued, faults, cuts>>

UndoFails(c) ==
  /\ call[c].stage \in {"undo", "undo rest"} /\ cuts < MaxCuts
  /\ cuts' = cuts + 1
  /\ Goes(c, "release")
  /\ UNCHANGED <<record, validations, index, audit, torn, lock, issued, faults>>

----------------------------------------------------------------------------

(* The index is built again from all the records, none of which may lack its   *)
(* validation.                                                                 *)

Recorded == {k \in Keys : record[k] # None}

Rebuildable ==
  /\ Recorded # {} \/ DOMAIN validations # {}
  /\ \A k \in Recorded : record[k].latest \in DOMAIN validations

RebuildFails(c) ==
  /\ At(c, "check") /\ call[c].kind = "rebuild"
  /\ Preflight(c) /\ ~Rebuildable
  /\ Refuses(c)

Rebuild(c) ==
  /\ At(c, "check") /\ call[c].kind = "rebuild"
  /\ Preflight(c) /\ Rebuildable
  /\ call' = [call EXCEPT ![c].stage = "index",
                          ![c].entries = [k \in Recorded |-> Entry(record[k])]]
  /\ UNCHANGED <<record, validations, index, audit, torn, lock, issued, faults, cuts>>

CommitRebuild(c) ==
  /\ At(c, "index") /\ call[c].kind = "rebuild"
  /\ WriteIndex(c, call[c].entries)
  /\ call' = [call EXCEPT ![c].stage = "audit", ![c].pending = <<Event("index_rebuilt", None)>>]
  /\ UNCHANGED <<record, validations, audit, torn, lock, issued, faults, cuts>>

----------------------------------------------------------------------------

(* The audit log, which only the holder of the lock reads or writes, and the   *)
(* end of a call. What a call has written stays when its events cannot be.     *)

AppendAudit(c) ==
  /\ At(c, "audit")
  /\ audit' = audit \cup ToSet(call[c].pending)
  /\ Goes(c, "release")
  /\ UNCHANGED <<record, validations, index, torn, lock, issued, faults, cuts>>

\* Some of the events are written and the next is not, or not as a whole.
Written(c, n) == audit \cup ToSet(SubSeq(call[c].pending, 1, n))

AppendFails(c) ==
  /\ At(c, "audit") /\ faults < MaxFaults
  /\ faults' = faults + 1
  /\ \E n \in 0 .. Len(call[c].pending) - 1 : audit' = Written(c, n)
  /\ torn' \in BOOLEAN
  /\ Goes(c, "release")
  /\ UNCHANGED <<record, validations, index, lock, issued, cuts>>

Release(c) ==
  /\ At(c, "release")
  /\ lock' = None
  /\ call' = [call EXCEPT ![c] = Idle]
  /\ UNCHANGED <<record, validations, index, audit, torn, issued, faults, cuts>>

\* The file is removed at a second try, or stays.
ReleaseFails(c) ==
  /\ At(c, "release") /\ faults < MaxFaults
  /\ faults' = faults + 1
  /\ lock' \in {None, Left}
  /\ call' = [call EXCEPT ![c] = Idle]
  /\ UNCHANGED <<record, validations, index, audit, torn, issued, cuts>>

\* The process ends. The holder of the lock may have written some of its events.
Crash ==
  /\ cuts < MaxCuts
  /\ cuts' = cuts + 1
  /\ IF lock \in Callers
     THEN /\ lock' = Left
          /\ IF At(lock, "audit")
             THEN \E n \in 0 .. Len(call[lock].pending) : audit' = Written(lock, n)
             ELSE UNCHANGED audit
     ELSE UNCHANGED <<lock, audit>>
  /\ call' = [c \in Callers |-> Idle]
  /\ UNCHANGED <<record, validations, index, torn, issued, faults>>

\* The operator removes the lock file of a call that is over.
ClearLock ==
  /\ lock = Left
  /\ lock' = None
  /\ UNCHANGED <<record, validations, index, audit, torn, call, issued, faults, cuts>>

RegistrationNext ==
  \/ \E c \in Callers :
       \/ \E expected \in {None, IndexRevision} :
            \/ \E verdict \in Verdicts, version \in Versions : Begin(c, verdict, version, expected)
            \/ BeginRebuild(c, expected)
       \/ GetLock(c) \/ LockTimesOut(c) \/ CheckFails(c) \/ Reject(c) \/ Vanished(c) \/ Hit(c)
       \/ Conflict(c) \/ Accept(c) \/ WriteValidation(c) \/ WriteRecord(c) \/ CommitIndex(c)
       \/ WriteFails(c) \/ Undo(c) \/ UndoRest(c) \/ UndoFails(c)
       \/ RebuildFails(c) \/ Rebuild(c) \/ CommitRebuild(c)
       \/ AppendAudit(c) \/ AppendFails(c) \/ Release(c) \/ ReleaseFails(c)
  \/ Crash \/ ClearLock

RegistrationSpec == RegistrationInit /\ [][RegistrationNext]_registrationVars

----------------------------------------------------------------------------

(* The queries. They take no lock: what they are told is what is on disk.      *)

\* list_registrations, with no filter.
Registrations == IF index = None THEN {} ELSE DOMAIN index.entries

\* A validation is of the package and of the manifest of the record.
Matches(k, v) ==
  v.package.manifest.key = k /\ v.package.manifest.sum = record[k].manifest

\* get_validation: of what is registered, also a validation that is not the last.
CanRead(k, id) == record[k] # None /\ id \in DOMAIN validations /\ Matches(k, validations[id])

\* get_registration: every query reads the index strictly first.
Answer(k) ==
  IF ~IndexReadable THEN "corrupted"
  ELSE IF k \notin Registrations THEN "none"
  ELSE IF CanRead(k, record[k].latest) THEN "found" ELSE "corrupted"

----------------------------------------------------------------------------

\* As long as no process has ended in the middle of a call and no undo has failed,
\* whatever files could not be written, queries with the lock free find exactly the
\* packages that have a record, and each entry is about its record as it is: a
\* registration that fails leaves no record that no entry is about, and no entry
\* that is about another record.
IndexTruthful ==
  lock = None /\ cuts = 0 =>
    /\ \A k \in Keys : Answer(k) = IF record[k] = None THEN "none" ELSE "found"
    /\ \A k \in Recorded : index.entries[k] = Entry(record[k])

\* A call that is told its package was registered before leaves behind it the
\* trace of the registration, also when the call that made it could not write it:
\* that it was judged, recorded and listed.
HitComplete ==
  \A hit \in audit : hit.event = "idempotent_hit" =>
    LET types == {e.event : e \in {f \in audit : f.record = hit.record}}
    IN  /\ {"validation_created", "index_updated"} \subseteq types
        /\ {"record_created", "record_updated"} \cap types # {}

\* The register that the index stands for, see EvidenceRegister: also across
\* crashes and failed undos no entry is lost, none changes its manifest, and what
\* is behind each is a package that is sound.
Register == INSTANCE EvidenceRegister WITH
  registered <- [k \in Keys |->
    IF Listed(k) THEN validations[index.entries[k].latest].package ELSE None]
RegisterSpec == Register!RegisterSpec

----------------------------------------------------------------------------

(* What the creation of a task asks of a registration.                         *)

Admissible(r) ==
  LET v == validations[r.latest]
  IN  /\ r.manifest = v.package.manifest.sum
      /\ v.record = r.id

\* What has been registered, and is whole, can be given to a task.
RegisteredAdmissible ==
  lock = None /\ cuts = 0 => \A k \in Recorded : Admissible(record[k])
=============================================================================
