--------------------------- MODULE ResultAuthority --------------------------
(* Which result of one item counts: the adoptions made from review decisions, *)
(* the manual adjustments that replace an adopted result step by step, the    *)
(* final lock, and the derivation that exports and previews rely on. The      *)
(* review facts of the item are written under one file lock and read without  *)
(* it; the score facts an adjustment writes belong to another store.          *)
EXTENDS Naturals, FiniteSets

CONSTANTS
  Approvals,   \* decisions of type adopt_existing_attempt
  Corrections, \* manual adjustment requests, each with its decision
  Callers,     \* slots for calls in progress
  Repeats,     \* the stages of its operation at which a request is sent again
  Together,    \* whether it may be sent again while its first call is in progress
  MaxFaults    \* writes that fail and processes that end

CONSTANT None

Results == Approvals \cup Corrections

ASSUME ResultsAssumption == Approvals \cap Corrections = {} /\ None \notin Results
ASSUME CallersAssumption == None \notin Callers
ASSUME SwitchesAssumption ==
  Repeats \subseteq {"prepared", "committing"} /\ Together \in BOOLEAN

VARIABLES
  adoption,  \* adoptions/: the status of the adoption made for each decision
  files,     \* what exists of each adjustment: its snapshot, validation and record
  operation, \* operations/: the log of each adjustment
  finalLock, \* the adoption the active final lock names
  review,    \* whether the blocking case is in review, and how it was resolved
  item,      \* the review stage of the item
  caller,    \* what each call in progress knows
  dead,      \* calls whose process has ended
  holder,    \* who has the lock file of the item
  torn,      \* whether the last line of events.ndjson is incomplete
  faults

records == <<adoption, files, operation, finalLock, review, item>>
weather == <<dead, holder, torn, faults>>
vars == <<records, caller, weather>>

----------------------------------------------------------------------------

Steps ==
  {"idle", "approving", "starting", "completing",      \* apply_review_decision
   "opening", "scoring", "validating", "committing",   \* an adjustment, prepared
   "recording", "checking", "superseding", "writing", "announcing", "closing",
   "restoring", "cleaning", "marking",                 \* and failing
   "locking"}                                          \* lock_final_result

\* result: what the call is about. base: the adoption an adjustment started from.
\* found: the stage of the operation that the call goes on with. fresh: the task
\* has kept the revision the call has read.
Idle == [step |-> "idle", result |-> None, base |-> None, found |-> "none", fresh |-> TRUE]

AdoptionStatus == {"none", "adopted", "superseded"}
OperationStage == {"none", "prepared", "committing", "committed", "failed"}
AdjustmentFacts == {"snapshot", "validation", "record"}
LockTarget == Results \cup {None}

NoOperation == [stage |-> "none", base |-> None]

TypeOK ==
  /\ adoption \in [Results -> AdoptionStatus]
  /\ files \in [Corrections -> SUBSET AdjustmentFacts]
  /\ operation \in [Corrections -> [stage : OperationStage, base : Results \cup {None}]]
  /\ finalLock \in LockTarget
  /\ review \in [open : BOOLEAN, resolution : Results \cup {None}]
  /\ item \in [stage : {"pending", "running", "done"}, decision : Approvals \cup {None}]
  /\ caller \in [Callers ->
       [step : Steps, result : Results \cup {None}, base : Results \cup {None},
        found : {"none", "prepared", "committing"}, fresh : BOOLEAN]]
  /\ dead \subseteq Callers
  /\ holder \in Callers \cup {None}
  /\ torn \in BOOLEAN

Init ==
  /\ adoption = [a \in Results |-> "none"]
  /\ files = [r \in Corrections |-> {}]
  /\ operation = [r \in Corrections |-> NoOperation]
  /\ finalLock = None
  /\ review = [open |-> TRUE, resolution |-> None]
  /\ item = [stage |-> "pending", decision |-> None]
  /\ caller = [c \in Callers |-> Idle]
  /\ dead = {} /\ holder = None /\ torn = FALSE /\ faults = 0

----------------------------------------------------------------------------
(* What can be read. *)

Adopted == {a \in Results : adoption[a] = "adopted"}

\* get_active_adoption
Active == IF Adopted = {} THEN None ELSE CHOOSE a \in Adopted : TRUE

\* An attempt's own snapshot is never deleted, an adjusted one may be.
Scored(a) == a \in Corrections => "snapshot" \in files[a]

\* _check_adoption_binding
Bound(a) == a \in Corrections => {"snapshot", "validation"} \subseteq files[a]

Blocked == "blocked"

\* What derive returns, or why it refuses.
Derivation ==
  IF review.open \/ Cardinality(Adopted) # 1 \/ finalLock \notin {None, Active} \/ ~Scored(Active)
    THEN Blocked ELSE Active

----------------------------------------------------------------------------
(* Steps of a call. *)

At(c, step) == caller[c].step = step /\ c \notin dead

Returns(c) == caller' = [caller EXCEPT ![c] = Idle]

Goes(c, step) ==
  IF step = "idle" THEN Returns(c) ELSE caller' = [caller EXCEPT ![c].step = step]

Free == holder = None

\* Nobody else writes while a holder that lives has the lock. The lock file of a
\* process that has ended stays where it is: whoever waits for it gives up.
GivesUp == holder \in dead /\ UNCHANGED weather
Settled == Free \/ holder \in dead

Fault ==
  faults < MaxFaults /\ faults' = faults + 1

\* Under the lock a write fails, or the event cannot be appended and the fact is
\* put back; in the latter case half of a line may stay behind.
WriteFails == Free /\ Fault /\ UNCHANGED <<dead, holder, torn>>
AppendTears == Free /\ Fault /\ ~torn /\ torn' = TRUE /\ UNCHANGED <<dead, holder>>

\* Every later append then finds the log corrupted, and this error does not make
\* a section put its fact back.
Announced == Free /\ ~torn /\ UNCHANGED weather
Unannounced == Free /\ torn /\ UNCHANGED weather

\* A section that writes one fact and appends its event.
Section(c, write, good, bad) ==
  \/ Announced /\ write /\ Goes(c, good)
  \/ Unannounced /\ write /\ Goes(c, bad)
  \/ (GivesUp \/ WriteFails \/ AppendTears) /\ UNCHANGED records /\ Goes(c, bad)

----------------------------------------------------------------------------
(* apply_review_decision *)

Apply(c, d) ==
  /\ At(c, "idle")
  /\ item.stage = "pending" /\ item.decision # d
  /\ caller' = [caller EXCEPT ![c] = [Idle EXCEPT !.step = "approving", !.result = d]]
  /\ UNCHANGED <<records, weather>>

\* adopt_result accepts an adoption that has no predecessor. The effective time
\* is new in every call, so one that exists never counts as the same.
Acceptable(a) ==
  adoption[a] = "none" /\ finalLock = None /\ Active = None

\* Mutant of Approve: a decision that is refused still moves the item.
ApproveAnyway(c) ==
  /\ At(c, "approving") /\ Acceptable(caller[c].result)
  /\ Section(c, /\ adoption' = [adoption EXCEPT ![caller[c].result] = "adopted"]
                /\ UNCHANGED <<files, operation, finalLock, review, item>>,
             "starting", "starting")
Approve(c) ==
  LET d == caller[c].result
  IN  /\ At(c, "approving")
      /\ \/ /\ Acceptable(d)
            /\ Section(c, /\ adoption' = [adoption EXCEPT ![d] = "adopted"]
                          /\ UNCHANGED <<files, operation, finalLock, review, item>>,
                       "starting", "idle")
         \/ /\ Settled /\ ~Acceptable(d)
            /\ Returns(c)
            /\ UNCHANGED <<records, weather>>

\* The commits of one call outdate the task revision that the others have read.
Outdated(call) == IF call.step = "idle" THEN call ELSE [call EXCEPT !.fresh = FALSE]
Commits(c, call) ==
  caller' = [b \in Callers |-> IF b = c THEN call ELSE Outdated(caller[b])]

StartItem(c) ==
  /\ At(c, "starting")
  /\ caller[c].fresh /\ item.stage = "pending"
  /\ item' = [item EXCEPT !.stage = "running"]
  /\ Commits(c, [caller[c] EXCEPT !.step = "completing"])
  /\ UNCHANGED <<adoption, files, operation, finalLock, review, weather>>

CompleteItem(c) ==
  /\ At(c, "completing")
  /\ caller[c].fresh /\ item.stage = "running"
  /\ item' = [stage |-> "done", decision |-> caller[c].result]
  /\ Commits(c, Idle)
  /\ UNCHANGED <<adoption, files, operation, finalLock, review, weather>>

\* The item is not advanced: the adoption stays and the call answers an error.
NotAdvanced(c) ==
  /\ At(c, "starting") \/ At(c, "completing")
  /\ Returns(c)
  /\ \/ ~caller[c].fresh /\ UNCHANGED weather
     \/ Fault /\ UNCHANGED <<dead, holder, torn>>
  /\ UNCHANGED records

\* Another item of the task is moved by somebody.
OtherItemMoves ==
  /\ \E c \in Callers : caller[c].step \in {"approving", "starting", "completing"} /\ caller[c].fresh
  /\ caller' = [c \in Callers |-> Outdated(caller[c])]
  /\ UNCHANGED <<records, weather>>

----------------------------------------------------------------------------
(* build_and_apply: the request is looked at without the lock. *)

Alone(r) == \A b \in Callers \ dead : caller[b].result # r

Adjustable == finalLock = None /\ Active # None /\ Scored(Active)

Adjust(c, r) ==
  /\ At(c, "idle")
  /\ operation[r].stage = "none" /\ (Together \/ Alone(r))
  /\ Adjustable
  /\ caller' = [caller EXCEPT ![c] =
                  [Idle EXCEPT !.step = "opening", !.result = r, !.base = Active]]
  /\ UNCHANGED <<records, weather>>

\* An operation that is neither committed nor failed is continued.
Continue(c, r) ==
  /\ At(c, "idle")
  /\ operation[r].stage \in Repeats /\ (Together \/ Alone(r))
  /\ finalLock = None /\ Scored(operation[r].base)
  /\ caller' = [caller EXCEPT ![c] =
                  [Idle EXCEPT !.step = "scoring", !.result = r,
                               !.base = operation[r].base,
                               !.found = operation[r].stage]]
  /\ UNCHANGED <<records, weather>>

OpenOperation(c) ==
  LET r == caller[c].result
  IN  /\ At(c, "opening")
      /\ \/ /\ operation[r].stage = "none"
            /\ Section(c, /\ operation' = [operation EXCEPT ![r] =
                                             [stage |-> "prepared", base |-> caller[c].base]]
                          /\ UNCHANGED <<adoption, files, finalLock, review, item>>,
                       "scoring", "idle")
         \/ /\ Settled /\ operation[r].stage # "none"
            /\ Returns(c)
            /\ UNCHANGED <<records, weather>>

Resumes(c) == caller[c].found # "none"

\* A score fact of the adjustment, in the store of the attempts. A call that goes
\* on with an operation takes the fact it finds, a first call refuses it.
ScoreFact(c, step, fact, next) ==
  LET r == caller[c].result
      there == fact \in files[r]
      first == ~Resumes(c)
  IN  /\ At(c, step)
      /\ \/ /\ there => ~first
            /\ files' = [files EXCEPT ![r] = @ \cup {fact}]
            /\ Goes(c, next)
            /\ UNCHANGED weather
         \/ /\ \/ there /\ first /\ UNCHANGED weather
               \/ ~there /\ Fault /\ UNCHANGED <<dead, holder, torn>>
            /\ files' = [files EXCEPT ![r] =
                 IF first /\ step = "validating" THEN @ \ {"snapshot"} ELSE @]
            /\ IF first THEN Goes(c, "marking") ELSE Returns(c)
      /\ UNCHANGED <<adoption, operation, finalLock, review, item>>

WriteSnapshot(c) == ScoreFact(c, "scoring", "snapshot", "validating")
WriteValidation(c) ==
  ScoreFact(c, "validating", "validation",
            IF caller[c].found = "committing" THEN "recording" ELSE "committing")

\* advance_operation appends no event.
Advance(c, step, from, to, good, bad) ==
  LET r == caller[c].result
  IN  /\ At(c, step)
      /\ \/ /\ Free /\ operation[r].stage \in from \cup {to} /\ UNCHANGED weather
            /\ operation' = [operation EXCEPT ![r].stage = to]
            /\ Goes(c, good)
            /\ UNCHANGED <<adoption, files, finalLock, review, item>>
         \/ /\ \/ Free /\ operation[r].stage \notin from \cup {to} /\ UNCHANGED weather
               \/ GivesUp \/ WriteFails
            /\ Goes(c, bad)
            /\ UNCHANGED records

Commit(c) == Advance(c, "committing", {"prepared"}, "committing", "recording", "idle")
Close(c) == Advance(c, "closing", {"committing"}, "committed", "idle", "idle")

\* A prepared operation cannot be marked: it stays prepared.
MarkFailed(c) == Advance(c, "marking", {"committing"}, "failed", "idle", "idle")

----------------------------------------------------------------------------
(* _commit *)

Recordable(r, base) == "record" \notin files[r] /\ Scored(base)

\* The record carries the time of this call, so one that exists is a conflict.
RecordAdjustment(c) ==
  LET r == caller[c].result
  IN  /\ At(c, "recording")
      /\ \/ /\ Recordable(r, caller[c].base)
            /\ Section(c, /\ files' = [files EXCEPT ![r] = @ \cup {"record"}]
                          /\ UNCHANGED <<adoption, operation, finalLock, review, item>>,
                       "checking", "cleaning")
         \/ /\ Settled /\ ~Recordable(r, caller[c].base)
            /\ Goes(c, "cleaning")
            /\ UNCHANGED <<records, weather>>

\* adopt_result looks at what the adoption names before it takes the lock ...
CheckAdoption(c) ==
  /\ At(c, "checking")
  /\ Goes(c, IF Bound(caller[c].result) THEN "superseding" ELSE "restoring")
  /\ UNCHANGED <<records, weather>>

\* Mutant of Replaceable: the final lock is not looked at.
ReplaceableLocked(r, base) == adoption[r] = "none" /\ Active \in {base, None}
Replaceable(r, base) ==
  adoption[r] = "none" /\ finalLock = None /\ Active \in {base, None}

\* ... and supersedes the old adoption before it writes the new one.
\* Mutant of Superseded: the old adoption is left for later.
SupersededLater(old) == adoption
Superseded(old) ==
  [a \in Results |-> IF a = old THEN "superseded" ELSE adoption[a]]

Supersede(c) ==
  LET r == caller[c].result
      base == caller[c].base
      old == Active
  IN  /\ At(c, "superseding")
      /\ \/ /\ Free /\ Replaceable(r, base) /\ (torn => old = None)
            /\ adoption' = Superseded(old)
            /\ holder' = c
            /\ Goes(c, "writing")
            /\ UNCHANGED <<dead, torn, faults>>
         \/ /\ Unannounced /\ Replaceable(r, base) /\ old # None
            /\ adoption' = Superseded(old)
            /\ Goes(c, "restoring")
         \/ /\ \/ Free /\ ~Replaceable(r, base) /\ UNCHANGED weather
               \/ GivesUp
               \/ old # None /\ (WriteFails \/ AppendTears)
            /\ Goes(c, "restoring")
            /\ UNCHANGED adoption
      /\ UNCHANGED <<files, operation, finalLock, review, item>>

Leaves(c, step) == holder' = None /\ Goes(c, step) /\ UNCHANGED dead

\* Mutant of WriteAdoption: a failed write is not followed by a restoration.
WriteAdoptionOnce(c) ==
  /\ At(c, "writing")
  /\ \/ /\ adoption' = [adoption EXCEPT ![caller[c].result] = "adopted"]
        /\ Goes(c, "announcing") /\ UNCHANGED weather
     \/ Fault /\ Leaves(c, "cleaning") /\ UNCHANGED <<adoption, torn>>
  /\ UNCHANGED <<files, operation, finalLock, review, item>>
WriteAdoption(c) ==
  LET r == caller[c].result
  IN  /\ At(c, "writing")
      /\ \/ /\ adoption' = [adoption EXCEPT ![r] = "adopted"]
            /\ Goes(c, "announcing")
            /\ UNCHANGED weather
         \/ /\ Fault /\ Leaves(c, "restoring")
            /\ UNCHANGED <<adoption, torn>>
      /\ UNCHANGED <<files, operation, finalLock, review, item>>

\* The new adoption is withdrawn when its event cannot be appended, but not when
\* the log is found corrupted.
AnnounceAdoption(c) ==
  LET r == caller[c].result
  IN  /\ At(c, "announcing")
      /\ \/ /\ Leaves(c, IF torn THEN "restoring" ELSE "closing")
            /\ UNCHANGED <<adoption, torn, faults>>
         \/ /\ ~torn /\ Fault /\ Leaves(c, "restoring")
            /\ torn' \in BOOLEAN
            /\ adoption' = [adoption EXCEPT ![r] = "none"]
      /\ UNCHANGED <<files, operation, finalLock, review, item>>

\* Mutant of Conflict: another adopted result is not looked for.
ConflictMissed(base) == adoption[base] # "superseded"
Conflict(base) == adoption[base] # "superseded" \/ Active # None

\* restore_adoption_status; nothing is cleaned up when it refuses.
Restore(c) ==
  LET base == caller[c].base
      restored == [adoption EXCEPT ![base] = "adopted"]
  IN  /\ At(c, "restoring")
      /\ \/ /\ Free /\ Conflict(base) /\ UNCHANGED <<adoption, weather>>
            /\ Goes(c, IF adoption[base] = "adopted" THEN "cleaning" ELSE "idle")
         \/ /\ ~Conflict(base)
            /\ \/ Announced /\ adoption' = restored /\ Goes(c, "cleaning")
               \/ (Unannounced \/ WriteFails \/ AppendTears) /\ adoption' = restored /\ Returns(c)
               \/ WriteFails /\ UNCHANGED adoption /\ Returns(c)
         \/ GivesUp /\ UNCHANGED adoption /\ Returns(c)
      /\ UNCHANGED <<files, operation, finalLock, review, item>>

\* _fail_and_cleanup, where a file that cannot be deleted stays.
\* Mutant of CleanUp: the snapshot the adjustment started from is deleted.
CleanUpBase(c) ==
  /\ At(c, "cleaning")
  /\ files' = [r \in Corrections |->
                IF r \in {caller[c].result, caller[c].base} THEN {"record"} ELSE files[r]]
  /\ Goes(c, "marking")
  /\ UNCHANGED <<adoption, operation, finalLock, review, item, weather>>
CleanUp(c) ==
  LET r == caller[c].result
  IN  /\ At(c, "cleaning")
      /\ \/ /\ files' = [files EXCEPT ![r] = @ \ {"snapshot", "validation"}]
            /\ UNCHANGED weather
         \/ /\ Fault /\ UNCHANGED <<dead, holder, torn>>
            /\ \E f \in {"snapshot", "validation"} : files' = [files EXCEPT ![r] = @ \ {f}]
      /\ Goes(c, "marking")
      /\ UNCHANGED <<adoption, operation, finalLock, review, item>>

----------------------------------------------------------------------------
(* lock_final_result and resolve *)

Lockable(a) == finalLock = None /\ Active = a /\ Scored(a)

Lock(c, a) ==
  Section(c, /\ finalLock' = a
             /\ UNCHANGED <<adoption, files, operation, review, item>>,
          "idle", "idle")

\* The adoption is looked at before the lock is taken ...
LockResult(c, a) ==
  /\ At(c, "idle") /\ Lockable(a)
  /\ caller' = [caller EXCEPT ![c] = [Idle EXCEPT !.step = "locking", !.result = a]]
  /\ UNCHANGED <<records, weather>>

\* ... and not again under it.
CreateLock(c) ==
  LET a == caller[c].result
  IN  /\ At(c, "locking")
      /\ \/ /\ finalLock = None
            /\ Section(c, /\ finalLock' = a
                          /\ UNCHANGED <<adoption, files, operation, review, item>>,
                       "idle", "idle")
         \/ /\ Settled /\ finalLock # None
            /\ Returns(c)
            /\ UNCHANGED <<records, weather>>

\* The whole check is made under the lock.
Authorized(a) ==
  /\ Active = a /\ Bound(a) /\ (a \in Corrections => "record" \in files[a])
  /\ finalLock \in {None, a}

Resolve(a) ==
  /\ Free /\ review.open
  /\ Authorized(a)
  /\ review' = [open |-> FALSE, resolution |-> a]
  /\ UNCHANGED <<adoption, files, operation, finalLock, item, caller, weather>>

\* The process of a call ends. A lock file it holds is never removed.
Die(c) ==
  /\ c \notin dead /\ caller[c].step # "idle"
  /\ Fault
  /\ dead' = dead \cup {c}
  /\ UNCHANGED <<records, caller, holder, torn>>

----------------------------------------------------------------------------

Act(c) ==
  \/ Approve(c) \/ StartItem(c) \/ CompleteItem(c) \/ NotAdvanced(c)
  \/ OpenOperation(c) \/ WriteSnapshot(c) \/ WriteValidation(c) \/ Commit(c)
  \/ RecordAdjustment(c) \/ CheckAdoption(c) \/ Supersede(c) \/ WriteAdoption(c)
  \/ AnnounceAdoption(c) \/ Close(c) \/ Restore(c) \/ CleanUp(c) \/ MarkFailed(c)
  \/ CreateLock(c)

Next ==
  \/ \E c \in Callers :
       \/ Act(c) \/ Die(c)
       \/ \E d \in Approvals : Apply(c, d)
       \/ \E r \in Corrections : Adjust(c, r) \/ Continue(c, r)
       \/ \E a \in Results : LockResult(c, a)
  \/ \E a \in Results : Resolve(a)
  \/ OtherItemMoves

Spec == Init /\ [][Next]_vars

----------------------------------------------------------------------------
(* Properties. *)

\* Never two results at a time, whatever fails while one replaces the other.
OneResult == Cardinality(Adopted) <= 1

\* The result that counts can be read: cleaning up after a failed adjustment, and
\* carrying one on, leave the files of an adopted result alone.
ActiveBacked == \A a \in Adopted : Bound(a)

\* Replacing a result is not a way to lose it: one failure at any place of an
\* adjustment leaves the old result or the new one, unless the process ends with
\* the lock in its hands.
Replacing(c) == caller[c].step \in {"writing", "announcing", "restoring"}
AuthorityKept ==
  (\E a \in Results : adoption[a] = "superseded") =>
     Active # None \/ \E c \in Callers : Replacing(c)

\* An item that has left review was adopted by the decision it names.
ReviewedIsAdopted == item.stage = "done" => adoption[item.decision] # "none"

\* Once a result is locked and its case resolved it is the one that is exported,
\* and it stays exportable, whatever adjustments are still under way.
FinalStands ==
  [][finalLock # None /\ Derivation # Blocked => Derivation' = Derivation]_vars

\* The record of which result counts, with an adjustment's two writes as one step.
InHand == {c \in Callers : Replacing(c) /\ caller[c].base # None
                             /\ adoption[caller[c].base] = "superseded"}
Current ==
  IF Active # None THEN Active
    ELSE IF InHand # {} THEN caller[CHOOSE c \in InHand : TRUE].base ELSE None

Register == INSTANCE ResultRegister WITH result <- Current, final <- finalLock # None
RegisterSpec == Register!Spec
=============================================================================
