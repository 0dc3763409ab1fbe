------------------------ MODULE ResultAuthorityProofs -----------------------
(* Proofs about ResultAuthority for any number of decisions, adjustments and  *)
(* callers, and any number of failures.                                       *)
EXTENDS ResultAuthority, FiniteSetTheorems, TLAPS

Calls ==
  [step : Steps, result : Results \cup {None}, base : Results \cup {None},
   found : {"none", "prepared", "committing"}, fresh : BOOLEAN]

Adoptions == [Results -> AdoptionStatus]

ReviewSteps == {"approving", "starting", "completing"}
AdjustSteps ==
  {"opening", "scoring", "validating", "committing", "recording", "checking",
   "superseding", "writing", "announcing", "closing", "restoring", "cleaning", "marking"}

----------------------------------------------------------------------------
(* The inductive invariant. *)

NoneAdopted(ad) == \A a \in Results : ad[a] # "adopted"
Single(ad) == \A a, b \in Results : ad[a] = "adopted" /\ ad[b] = "adopted" => a = b

\* Between its two writes an adjustment has the lock file, and after the first no
\* result is adopted; an item is advanced for a decision that was adopted.
Knows(k, c, ad, h) ==
  /\ k.step \in {"writing", "announcing"} => h = c
  /\ k.step = "writing" => NoneAdopted(ad)
  /\ k.step \in ReviewSteps => k.result \in Approvals
  /\ k.step \in {"starting", "completing"} => ad[k.result] # "none"
  /\ k.step \in AdjustSteps => k.result \in Corrections

Reviewed(it, ad) ==
  it.stage = "done" => it.decision \in Approvals /\ ad[it.decision] # "none"

AdoptionInv ==
  /\ adoption \in Adoptions /\ Single(adoption)
  /\ item \in [stage : {"pending", "running", "done"}, decision : Approvals \cup {None}]
  /\ Reviewed(item, adoption)
  /\ holder \in Callers \cup {None}

CallsInv ==
  /\ caller \in [Callers -> Calls]
  /\ \A c \in Callers : Knows(caller[c], c, adoption, holder)

OtherTypes ==
  /\ files \in [Corrections -> SUBSET AdjustmentFacts]
  /\ operation \in [Corrections -> [stage : OperationStage, base : Results \cup {None}]]
  /\ finalLock \in LockTarget
  /\ review \in [open : BOOLEAN, resolution : Results \cup {None}]
  /\ dead \subseteq Callers
  /\ torn \in BOOLEAN

IInv == AdoptionInv /\ CallsInv /\ OtherTypes

----------------------------------------------------------------------------
(* Single facts. *)

LEMMA ResultKinds ==
  /\ Approvals \subseteq Results /\ Corrections \subseteq Results
  /\ Approvals \cap Corrections = {} /\ None \notin Results /\ None \notin Callers
  BY ResultsAssumption, CallersAssumption DEF Results

\* get_active_adoption returns an adopted result if there is one.
LEMMA ActiveAdopted ==
  /\ Active = None => NoneAdopted(adoption)
  /\ NoneAdopted(adoption) => Active = None
  /\ Active # None => Active \in Results /\ adoption[Active] = "adopted"
<1>1. CASE Adopted = {}
  BY <1>1 DEF Active, Adopted, NoneAdopted
<1>2. CASE Adopted # {}
  <2>1. Active \in Adopted
    BY <1>2 DEF Active
  <2> QED
    BY <2>1, ResultKinds DEF Adopted, NoneAdopted
<1> QED
  BY <1>1, <1>2

LEMMA IdleKnows ==
  ASSUME NEW c, NEW ad, NEW h
  PROVE  Idle \in Calls /\ Knows(Idle, c, ad, h)
  BY DEF Idle, Calls, Steps, Knows, ReviewSteps, AdjustSteps

\* Nobody is between the two writes of an adjustment while the lock file is free
\* or somebody else's.
LEMMA OthersOutside ==
  ASSUME CallsInv, NEW b \in Callers, holder # b
  PROVE  caller[b].step \notin {"writing", "announcing"}
  BY DEF CallsInv, Knows

\* What a call knows survives a change of the adoptions, if no decision loses its
\* adoption and the call is not between its writes.
LEMMA KnowsOn ==
  ASSUME NEW k, NEW b, NEW old, NEW new, NEW h, NEW g, Knows(k, b, old, h),
         k.step \notin {"writing", "announcing"},
         \A a \in Approvals : old[a] # "none" => new[a] # "none"
  PROVE  Knows(k, b, new, g)
  BY DEF Knows, ReviewSteps

----------------------------------------------------------------------------
(* Kinds of step. *)

\* The call goes on and the adoptions stay.
LEMMA CallStep ==
  ASSUME CallsInv, NEW c \in Callers, NEW k \in Calls, Knows(k, c, adoption, holder),
         caller' = [caller EXCEPT ![c] = k], UNCHANGED <<adoption, holder>>
  PROVE  CallsInv'
<1>1. caller' \in [Callers -> Calls]
  BY DEF CallsInv
<1>2. ASSUME NEW b \in Callers PROVE Knows(caller'[b], b, adoption, holder)
  BY DEF CallsInv
<1> QED
  BY <1>1, <1>2 DEF CallsInv

LEMMA ReturnStep ==
  ASSUME CallsInv, NEW c \in Callers, Returns(c), UNCHANGED <<adoption, holder>>
  PROVE  CallsInv'
  BY CallStep, IdleKnows DEF Returns

\* A call of an adjustment goes to another step of it, or ends.
LEMMA AdjustStep ==
  ASSUME CallsInv, NEW c \in Callers, caller[c].step \in AdjustSteps,
         NEW s \in (AdjustSteps \ {"writing", "announcing"}) \cup {"idle"}, Goes(c, s),
         UNCHANGED <<adoption, holder>>
  PROVE  CallsInv'
<1>1. CASE s = "idle"
  BY <1>1, ReturnStep DEF Goes
<1>2. CASE s # "idle"
  <2> DEFINE k == [caller[c] EXCEPT !.step = s]
  <2>1. caller[c] \in Calls /\ caller[c].result \in Corrections
    BY DEF CallsInv, Knows
  <2>2. caller' = [caller EXCEPT ![c] = k]
    BY <1>2, <2>1 DEF Goes, CallsInv, Calls
  <2>3. k \in Calls /\ k.step = s /\ k.result = caller[c].result
    BY <2>1 DEF Calls, Steps, AdjustSteps
  <2>4. Knows(k, c, adoption, holder)
    BY <1>2, <2>1, <2>3 DEF Knows, AdjustSteps, ReviewSteps
  <2> HIDE DEF k
  <2> QED
    BY <2>2, <2>3, <2>4, CallStep
<1> QED
  BY <1>1, <1>2

LEMMA SameAdoption ==
  ASSUME AdoptionInv, UNCHANGED <<adoption, item, holder>>
  PROVE  AdoptionInv'
  BY DEF AdoptionInv

LEMMA SameCalls ==
  ASSUME CallsInv, UNCHANGED <<adoption, caller, holder>>
  PROVE  CallsInv'
  BY DEF CallsInv

\* A section writes or leaves the records, and its call goes on or fails.
LEMMA SectionStep ==
  ASSUME OtherTypes, NEW c, NEW ACTION write, NEW good, NEW bad, Section(c, write, good, bad)
  PROVE  /\ \/ write /\ Free
            \/ UNCHANGED records
         /\ \/ write /\ Free /\ Goes(c, good)
            \/ Goes(c, bad)
         /\ UNCHANGED <<holder, dead>> /\ torn' \in BOOLEAN
  BY DEF Section, Announced, Unannounced, GivesUp, WriteFails, AppendTears, weather, OtherTypes

----------------------------------------------------------------------------
(* Actions that leave the adoptions alone. *)

LEMMA ApplyInv ==
  ASSUME IInv, NEW c \in Callers, NEW d \in Approvals, Apply(c, d)
  PROVE  IInv'
<1> DEFINE k == [Idle EXCEPT !.step = "approving", !.result = d]
<1>1. caller' = [caller EXCEPT ![c] = k] /\ UNCHANGED <<records, weather>>
  BY DEF Apply
<1>2. k \in Calls /\ Knows(k, c, adoption, holder)
  BY ResultKinds DEF Idle, Calls, Steps, Knows, ReviewSteps, AdjustSteps
<1> HIDE DEF k
<1> QED
  BY <1>1, <1>2, CallStep, SameAdoption DEF IInv, OtherTypes, records, weather

LEMMA AdjustInv ==
  ASSUME IInv, NEW c \in Callers, NEW r \in Corrections, Adjust(c, r)
  PROVE  IInv'
<1> DEFINE k == [Idle EXCEPT !.step = "opening", !.result = r, !.base = Active]
<1>1. caller' = [caller EXCEPT ![c] = k] /\ UNCHANGED <<records, weather>>
  BY DEF Adjust
<1>2. k \in Calls /\ Knows(k, c, adoption, holder)
  <2>1. Active \in Results \cup {None}
    BY ActiveAdopted
  <2> QED
    BY <2>1, ResultKinds DEF Idle, Calls, Steps, Knows, ReviewSteps, AdjustSteps
<1> HIDE DEF k
<1> QED
  BY <1>1, <1>2, CallStep, SameAdoption DEF IInv, OtherTypes, records, weather

LEMMA ContinueInv ==
  ASSUME IInv, NEW c \in Callers, NEW r \in Corrections, Continue(c, r)
  PROVE  IInv'
<1> DEFINE k == [Idle EXCEPT !.step = "scoring", !.result = r,
                             !.base = operation[r].base, !.found = operation[r].stage]
<1>1. /\ caller' = [caller EXCEPT ![c] = k] /\ UNCHANGED <<records, weather>>
      /\ operation[r].stage \in {"prepared", "committing"}
  BY SwitchesAssumption DEF Continue
<1>2. k \in Calls /\ Knows(k, c, adoption, holder)
  <2>1. operation[r].base \in Results \cup {None}
    BY DEF IInv, OtherTypes
  <2> QED
    BY <1>1, <2>1, ResultKinds DEF Idle, Calls, Steps, Knows, ReviewSteps, AdjustSteps
<1> HIDE DEF k
<1> QED
  BY <1>1, <1>2, CallStep, SameAdoption DEF IInv, OtherTypes, records, weather

LEMMA LockResultInv ==
  ASSUME IInv, NEW c \in Callers, NEW a \in Results, LockResult(c, a)
  PROVE  IInv'
<1> DEFINE k == [Idle EXCEPT !.step = "locking", !.result = a]
<1>1. caller' = [caller EXCEPT ![c] = k] /\ UNCHANGED <<records, weather>>
  BY DEF LockResult
<1>2. k \in Calls /\ Knows(k, c, adoption, holder)
  BY DEF Idle, Calls, Steps, Knows, ReviewSteps, AdjustSteps
<1> HIDE DEF k
<1> QED
  BY <1>1, <1>2, CallStep, SameAdoption DEF IInv, OtherTypes, records, weather

LEMMA CreateLockInv ==
  ASSUME IInv, NEW c \in Callers, CreateLock(c)
  PROVE  IInv'
<1> DEFINE a == caller[c].result
           write == finalLock' = a /\ UNCHANGED <<adoption, files, operation, review, item>>
<1>1. /\ UNCHANGED <<adoption, item, holder, dead>> /\ torn' \in BOOLEAN
      /\ write \/ UNCHANGED records
      /\ Returns(c)
  <2>1. CASE Section(c, write, "idle", "idle")
    <3> HIDE DEF write
    <3>1. /\ write \/ UNCHANGED records
          /\ Goes(c, "idle") /\ UNCHANGED <<holder, dead>> /\ torn' \in BOOLEAN
      BY <2>1, SectionStep DEF IInv
    <3> QED
      BY <3>1 DEF Goes, records, write
  <2>2. CASE Returns(c) /\ UNCHANGED <<records, weather>>
    BY <2>2 DEF records, weather, IInv, OtherTypes
  <2> QED
    BY <2>1, <2>2 DEF CreateLock
<1>2. a \in LockTarget
  BY DEF IInv, CallsInv, Calls, LockTarget
<1>3. OtherTypes'
  BY <1>1, <1>2 DEF IInv, OtherTypes, records
<1> QED
  BY <1>1, <1>3, ReturnStep, SameAdoption DEF IInv

LEMMA ResolveInv ==
  ASSUME IInv, NEW a \in Results, Resolve(a)
  PROVE  IInv'
  BY SameAdoption, SameCalls DEF Resolve, IInv, OtherTypes, weather

LEMMA DieInv ==
  ASSUME IInv, NEW c \in Callers, Die(c)
  PROVE  IInv'
  BY SameAdoption, SameCalls DEF Die, IInv, OtherTypes, records

LEMMA OpenOperationInv ==
  ASSUME IInv, NEW c \in Callers, OpenOperation(c)
  PROVE  IInv'
<1> DEFINE r == caller[c].result
           write == /\ operation' = [operation EXCEPT ![r] =
                                       [stage |-> "prepared", base |-> caller[c].base]]
                    /\ UNCHANGED <<adoption, files, finalLock, review, item>>
<1>1. caller[c].step = "opening" /\ caller[c].base \in Results \cup {None}
  BY DEF OpenOperation, At, IInv, CallsInv, Calls
<1>2. /\ UNCHANGED <<adoption, item, holder, dead>> /\ torn' \in BOOLEAN
      /\ write \/ UNCHANGED records
      /\ Goes(c, "scoring") \/ Goes(c, "idle")
  <2>1. CASE Section(c, write, "scoring", "idle")
    <3> HIDE DEF write
    <3>1. /\ write \/ UNCHANGED records
          /\ Goes(c, "scoring") \/ Goes(c, "idle")
          /\ UNCHANGED <<holder, dead>> /\ torn' \in BOOLEAN
      BY <2>1, SectionStep DEF IInv
    <3> QED
      BY <3>1 DEF records, write
  <2>2. CASE Returns(c) /\ UNCHANGED <<records, weather>>
    BY <2>2 DEF records, weather, IInv, OtherTypes, Goes
  <2> QED
    BY <2>1, <2>2 DEF OpenOperation
<1>3. OtherTypes'
  BY <1>1, <1>2 DEF IInv, OtherTypes, records, OperationStage
<1>4. CallsInv'
  BY <1>1, <1>2, AdjustStep DEF IInv, AdjustSteps
<1> QED
  BY <1>2, <1>3, <1>4, SameAdoption DEF IInv

LEMMA ScoreFactInv ==
  ASSUME IInv, NEW c \in Callers, NEW step \in {"scoring", "validating"},
         NEW fact \in {"snapshot", "validation"},
         NEW next \in {"validating", "recording", "committing"},
         ScoreFact(c, step, fact, next)
  PROVE  IInv'
<1> DEFINE r == caller[c].result
<1>1. caller[c].step = step
  BY DEF ScoreFact, At
<1>2. /\ UNCHANGED <<adoption, operation, finalLock, review, item, dead, holder, torn>>
      /\ Goes(c, next) \/ Goes(c, "marking") \/ Goes(c, "idle")
  BY DEF ScoreFact, weather, Goes
<1>3. \/ files' = [files EXCEPT ![r] = files[r] \cup {fact}]
      \/ files' = [files EXCEPT ![r] = files[r] \ {"snapshot"}]
      \/ files' = [files EXCEPT ![r] = files[r]]
  BY DEF ScoreFact
<1>4. r \in Corrections
  BY <1>1 DEF IInv, CallsInv, Knows, AdjustSteps
<1>5. files' \in [Corrections -> SUBSET AdjustmentFacts]
  BY <1>3, <1>4 DEF IInv, OtherTypes, AdjustmentFacts
<1>6. OtherTypes'
  BY <1>2, <1>5 DEF IInv, OtherTypes
<1>7. CallsInv'
  BY <1>1, <1>2, AdjustStep DEF IInv, AdjustSteps
<1> QED
  BY <1>2, <1>6, <1>7, SameAdoption DEF IInv

LEMMA AdvanceInv ==
  ASSUME IInv, NEW c \in Callers, NEW step \in {"committing", "closing", "marking"}, NEW from,
         NEW to \in OperationStage, NEW good \in {"recording", "idle"},
         Advance(c, step, from, to, good, "idle")
  PROVE  IInv'
<1>1. caller[c].step = step
  BY DEF Advance, At
<1>2. /\ UNCHANGED <<adoption, files, finalLock, review, item, dead, holder, torn>>
      /\ Goes(c, good) \/ Goes(c, "idle")
      /\ operation' = operation \/ operation' = [operation EXCEPT ![caller[c].result].stage = to]
  BY DEF Advance, weather, records, GivesUp, WriteFails
<1>3. OtherTypes'
  BY <1>2 DEF IInv, OtherTypes
<1>4. CallsInv'
  BY <1>1, <1>2, AdjustStep DEF IInv, AdjustSteps
<1> QED
  BY <1>2, <1>3, <1>4, SameAdoption DEF IInv

LEMMA RecordAdjustmentInv ==
  ASSUME IInv, NEW c \in Callers, RecordAdjustment(c)
  PROVE  IInv'
<1> DEFINE r == caller[c].result
           write == /\ files' = [files EXCEPT ![r] = @ \cup {"record"}]
                    /\ UNCHANGED <<adoption, operation, finalLock, review, item>>
<1>1. caller[c].step = "recording" /\ r \in Corrections
  BY DEF RecordAdjustment, At, IInv, CallsInv, Knows, AdjustSteps
<1>2. /\ UNCHANGED <<adoption, item, holder, dead>> /\ torn' \in BOOLEAN
      /\ write \/ UNCHANGED records
      /\ Goes(c, "checking") \/ Goes(c, "cleaning")
  <2>1. CASE Section(c, write, "checking", "cleaning")
    <3> HIDE DEF write
    <3>1. /\ write \/ UNCHANGED records
          /\ Goes(c, "checking") \/ Goes(c, "cleaning")
          /\ UNCHANGED <<holder, dead>> /\ torn' \in BOOLEAN
      BY <2>1, SectionStep DEF IInv
    <3> QED
      BY <3>1 DEF records, write
  <2>2. CASE Goes(c, "cleaning") /\ UNCHANGED <<records, weather>>
    BY <2>2 DEF records, weather, IInv, OtherTypes
  <2> QED
    BY <2>1, <2>2 DEF RecordAdjustment
<1>3. OtherTypes'
  BY <1>1, <1>2 DEF IInv, OtherTypes, records, AdjustmentFacts
<1>4. CallsInv'
  BY <1>1, <1>2, AdjustStep DEF IInv, AdjustSteps
<1> QED
  BY <1>2, <1>3, <1>4, SameAdoption DEF IInv

LEMMA CheckAdoptionInv ==
  ASSUME IInv, NEW c \in Callers, CheckAdoption(c)
  PROVE  IInv'
<1>1. /\ caller[c].step = "checking" /\ UNCHANGED <<records, weather>>
      /\ Goes(c, "superseding") \/ Goes(c, "restoring")
  BY DEF CheckAdoption, At
<1>2. CallsInv'
  BY <1>1, AdjustStep DEF IInv, AdjustSteps, records, weather
<1> QED
  BY <1>1, <1>2, SameAdoption DEF IInv, OtherTypes, records, weather

LEMMA CleanUpInv ==
  ASSUME IInv, NEW c \in Callers, CleanUp(c)
  PROVE  IInv'
<1> DEFINE r == caller[c].result
<1>1. /\ caller[c].step = "cleaning" /\ r \in Corrections /\ Goes(c, "marking")
      /\ UNCHANGED <<adoption, operation, finalLock, review, item, dead, holder, torn>>
  BY DEF CleanUp, At, IInv, CallsInv, Knows, AdjustSteps, weather
<1>2. \/ files' = [files EXCEPT ![r] = @ \ {"snapshot", "validation"}]
      \/ files' = [files EXCEPT ![r] = @ \ {"snapshot"}]
      \/ files' = [files EXCEPT ![r] = @ \ {"validation"}]
  BY DEF CleanUp
<1>3. OtherTypes'
  BY <1>1, <1>2 DEF IInv, OtherTypes, AdjustmentFacts
<1>4. CallsInv'
  BY <1>1, AdjustStep DEF IInv, AdjustSteps
<1> QED
  BY <1>1, <1>3, <1>4, SameAdoption DEF IInv

----------------------------------------------------------------------------
(* Actions on the item. *)

\* That a call's task revision is outdated changes nothing else it knows.
LEMMA OutdatedKnows ==
  ASSUME NEW k \in Calls, NEW b, NEW ad, NEW h, Knows(k, b, ad, h)
  PROVE  Outdated(k) \in Calls /\ Knows(Outdated(k), b, ad, h)
<1>1. CASE k.step = "idle"
  BY <1>1 DEF Outdated
<1>2. CASE k.step # "idle"
  <2>1. Outdated(k) = [k EXCEPT !.fresh = FALSE]
    BY <1>2 DEF Outdated
  <2>2. /\ Outdated(k) \in Calls
        /\ Outdated(k).step = k.step /\ Outdated(k).result = k.result
    BY <2>1 DEF Calls
  <2> QED
    BY <2>2 DEF Knows
<1> QED
  BY <1>1, <1>2

LEMMA CommitStep ==
  ASSUME CallsInv, NEW c \in Callers, NEW k \in Calls, Knows(k, c, adoption, holder),
         Commits(c, k), UNCHANGED <<adoption, holder>>
  PROVE  CallsInv'
<1>1. ASSUME NEW b \in Callers
      PROVE  /\ caller'[b] = IF b = c THEN k ELSE Outdated(caller[b])
             /\ caller'[b] \in Calls /\ Knows(caller'[b], b, adoption, holder)
  BY OutdatedKnows DEF Commits, CallsInv
<1>2. caller' \in [Callers -> Calls]
  BY <1>1 DEF Commits
<1> QED
  BY <1>1, <1>2 DEF CallsInv

LEMMA StartItemInv ==
  ASSUME IInv, NEW c \in Callers, StartItem(c)
  PROVE  IInv'
<1> DEFINE k == [caller[c] EXCEPT !.step = "completing"]
<1>1. /\ caller[c].step = "starting" /\ Commits(c, k)
      /\ item' = [item EXCEPT !.stage = "running"]
      /\ UNCHANGED <<adoption, files, operation, finalLock, review, weather>>
  BY DEF StartItem, At
<1>2. caller[c] \in Calls /\ Knows(caller[c], c, adoption, holder)
  BY DEF IInv, CallsInv
<1>3. k \in Calls /\ k.step = "completing" /\ k.result = caller[c].result
  BY <1>2 DEF Calls, Steps
<1>4. Knows(k, c, adoption, holder)
  BY <1>1, <1>2, <1>3 DEF Knows, ReviewSteps, AdjustSteps
<1>5. AdoptionInv'
  BY <1>1 DEF IInv, AdoptionInv, Reviewed, weather
<1> HIDE DEF k
<1>6. CallsInv'
  BY <1>1, <1>3, <1>4, CommitStep DEF IInv, weather
<1> QED
  BY <1>1, <1>5, <1>6 DEF IInv, OtherTypes, weather

\* The decision an item names has been adopted: its call got that far only so.
LEMMA CompleteItemInv ==
  ASSUME IInv, NEW c \in Callers, CompleteItem(c)
  PROVE  IInv'
<1>1. /\ caller[c].step = "completing" /\ Commits(c, Idle)
      /\ item' = [stage |-> "done", decision |-> caller[c].result]
      /\ UNCHANGED <<adoption, files, operation, finalLock, review, weather>>
  BY DEF CompleteItem, At
<1>2. caller[c].result \in Approvals /\ adoption[caller[c].result] # "none"
  BY <1>1 DEF IInv, CallsInv, Knows, ReviewSteps
<1>3. AdoptionInv'
  BY <1>1, <1>2 DEF IInv, AdoptionInv, Reviewed, weather
<1>4. CallsInv'
  BY <1>1, IdleKnows, CommitStep DEF IInv, weather
<1> QED
  BY <1>1, <1>3, <1>4 DEF IInv, OtherTypes, weather

LEMMA NotAdvancedInv ==
  ASSUME IInv, NEW c \in Callers, NotAdvanced(c)
  PROVE  IInv'
  BY ReturnStep, SameAdoption DEF NotAdvanced, IInv, OtherTypes, records, weather

LEMMA OtherItemInv ==
  ASSUME IInv, OtherItemMoves
  PROVE  IInv'
<1>1. caller' = [c \in Callers |-> Outdated(caller[c])] /\ UNCHANGED <<records, weather>>
  BY DEF OtherItemMoves
<1>2. CallsInv'
  BY <1>1, OutdatedKnows DEF IInv, CallsInv, records, weather
<1> QED
  BY <1>1, <1>2, SameAdoption DEF IInv, OtherTypes, records, weather

----------------------------------------------------------------------------
(* Actions on the adoptions. *)

\* Whoever changes the adoptions is alone: nobody else holds the lock file.
LEMMA AdoptionStep ==
  ASSUME AdoptionInv, CallsInv, NEW c \in Callers, NEW k \in Calls,
         caller' = [caller EXCEPT ![c] = k],
         adoption' \in Adoptions, Single(adoption'),
         \A a \in Approvals : adoption[a] # "none" => adoption'[a] # "none",
         holder' \in Callers \cup {None}, \A b \in Callers \ {c} : holder # b,
         Knows(k, c, adoption', holder'), UNCHANGED item
  PROVE  AdoptionInv' /\ CallsInv'
<1>1. AdoptionInv'
  BY DEF AdoptionInv, Reviewed
<1>2. caller' \in [Callers -> Calls]
  BY DEF CallsInv
<1>3. ASSUME NEW b \in Callers PROVE Knows(caller'[b], b, adoption', holder')
  <2>1. CASE b = c
    BY <2>1 DEF CallsInv
  <2>2. CASE b # c
    <3>1. /\ caller'[b] = caller[b] /\ Knows(caller[b], b, adoption, holder)
          /\ caller[b].step \notin {"writing", "announcing"}
      BY <2>2, OthersOutside DEF CallsInv
    <3> QED
      BY <3>1, KnowsOn
  <2> QED
    BY <2>1, <2>2
<1> QED
  BY <1>1, <1>2, <1>3 DEF CallsInv

\* Adopting one result while none is adopted.
LEMMA AdoptOne ==
  ASSUME NEW ad \in Adoptions, NoneAdopted(ad), NEW a
  PROVE  LET new == [ad EXCEPT ![a] = "adopted"]
         IN  /\ new \in Adoptions /\ Single(new)
             /\ \A b \in Approvals : ad[b] # "none" => new[b] # "none"
             /\ a \in Results => new[a] = "adopted"
  BY ResultKinds DEF Adoptions, AdoptionStatus, NoneAdopted, Single

\* A call that goes on is the same call in another step.
LEMMA GoesStep ==
  ASSUME CallsInv, NEW c \in Callers, NEW s \in Steps, Goes(c, s)
  PROVE  \E k \in Calls : /\ caller' = [caller EXCEPT ![c] = k] /\ k.step = s
                          /\ s # "idle" => k.result = caller[c].result
<1>1. CASE s = "idle"
  BY <1>1, IdleKnows DEF Goes, Returns, Idle
<1>2. CASE s # "idle"
  <2> DEFINE k == [caller[c] EXCEPT !.step = s]
  <2>1. caller[c] \in Calls
    BY DEF CallsInv
  <2>2. caller' = [caller EXCEPT ![c] = k]
    BY <1>2, <2>1 DEF Goes, CallsInv, Calls
  <2>3. k \in Calls /\ k.step = s /\ k.result = caller[c].result
    BY <2>1 DEF Calls
  <2> QED
    BY <2>2, <2>3
<1> QED
  BY <1>1, <1>2

\* A call that ends, or that was refused, with the adoptions changed or not.
LEMMA EndKnows ==
  ASSUME NEW k \in Calls, k.step = "idle", NEW c, NEW ad, NEW h
  PROVE  Knows(k, c, ad, h)
  BY DEF Knows, ReviewSteps, AdjustSteps

LEMMA ApproveInv ==
  ASSUME IInv, NEW c \in Callers, Approve(c)
  PROVE  IInv'
<1> DEFINE d == caller[c].result
           write == /\ adoption' = [adoption EXCEPT ![d] = "adopted"]
                    /\ UNCHANGED <<files, operation, finalLock, review, item>>
<1>1. d \in Approvals /\ d \in Results
  BY ResultKinds DEF Approve, At, IInv, CallsInv, Knows, ReviewSteps
<1>2. \/ Acceptable(d) /\ Section(c, write, "starting", "idle")
      \/ Returns(c) /\ UNCHANGED <<records, weather>>
  BY DEF Approve
<1>3. CASE Returns(c) /\ UNCHANGED <<records, weather>>
  BY <1>3, ReturnStep, SameAdoption DEF IInv, OtherTypes, records, weather
<1>4. CASE Acceptable(d) /\ Section(c, write, "starting", "idle")
  <2>1. /\ \/ write /\ Free
           \/ UNCHANGED records
        /\ \/ write /\ Free /\ Goes(c, "starting")
           \/ Goes(c, "idle")
        /\ UNCHANGED <<holder, dead>> /\ torn' \in BOOLEAN
    <3> HIDE DEF write
    <3> QED
      BY <1>4, SectionStep DEF IInv
  <2>2. OtherTypes'
    BY <2>1 DEF IInv, OtherTypes, records
  <2>3. CASE UNCHANGED records /\ Goes(c, "idle")
    BY <2>1, <2>2, <2>3, ReturnStep, SameAdoption DEF IInv, records, Goes
  <2>4. CASE write /\ Free /\ (Goes(c, "starting") \/ Goes(c, "idle"))
    <3>1. NoneAdopted(adoption) /\ adoption \in Adoptions
      BY <1>4, ActiveAdopted DEF Acceptable, IInv, AdoptionInv
    <3>2. /\ adoption' \in Adoptions /\ Single(adoption') /\ adoption'[d] = "adopted"
          /\ \A b \in Approvals : adoption[b] # "none" => adoption'[b] # "none"
      BY <1>1, <2>4, <3>1, AdoptOne
    <3>3. PICK k \in Calls : /\ caller' = [caller EXCEPT ![c] = k]
                             /\ k.step \in {"starting", "idle"}
                             /\ k.step = "starting" => k.result = d
      <4>1. "starting" \in Steps /\ "idle" \in Steps
        BY DEF Steps
      <4> QED
        BY <2>4, <4>1, GoesStep DEF IInv
    <3>4. Knows(k, c, adoption', holder')
      BY <1>1, <3>2, <3>3 DEF Knows, ReviewSteps, AdjustSteps
    <3>5. /\ \A b \in Callers \ {c} : holder # b
          /\ holder' \in Callers \cup {None} /\ UNCHANGED item
      BY <2>1, <2>4, ResultKinds DEF Free
    <3> QED
      BY <2>2, <3>2, <3>3, <3>4, <3>5, AdoptionStep DEF IInv
  <2> QED
    BY <2>1, <2>3, <2>4 DEF records
<1> QED
  BY <1>2, <1>3, <1>4

\* After the old adoption has been superseded no result is adopted.
LEMMA SupersededNone ==
  ASSUME AdoptionInv
  PROVE  LET new == Superseded(Active)
         IN  /\ new \in Adoptions /\ NoneAdopted(new) /\ Single(new)
             /\ \A b \in Approvals : adoption[b] # "none" => new[b] # "none"
<1> DEFINE new == Superseded(Active)
<1>1. \A a \in Results : new[a] = IF a = Active THEN "superseded" ELSE adoption[a]
  BY DEF Superseded
<1>2. new \in Adoptions
  BY DEF Superseded, AdoptionInv, Adoptions, AdoptionStatus
<1> HIDE DEF new
<1>3. NoneAdopted(new)
  BY <1>1, ActiveAdopted DEF AdoptionInv, Single, NoneAdopted
<1>4. Single(new)
  BY <1>3 DEF NoneAdopted, Single
<1>5. \A b \in Approvals : adoption[b] # "none" => new[b] # "none"
  BY <1>1, ResultKinds
<1> QED
  BY <1>2, <1>3, <1>4, <1>5 DEF new

LEMMA SupersedeInv ==
  ASSUME IInv, NEW c \in Callers, Supersede(c)
  PROVE  IInv'
<1> DEFINE new == Superseded(Active)
<1>1. /\ caller[c].step = "superseding" /\ caller[c].result \in Corrections
      /\ UNCHANGED <<files, operation, finalLock, review, item>>
  BY DEF Supersede, At, IInv, CallsInv, Knows, AdjustSteps
<1>2. \/ /\ Free /\ adoption' = new /\ holder' = c /\ Goes(c, "writing")
         /\ UNCHANGED <<dead, torn>>
      \/ /\ Free /\ adoption' = new /\ Goes(c, "restoring")
         /\ UNCHANGED <<holder, dead, torn>>
      \/ /\ Goes(c, "restoring") /\ UNCHANGED <<adoption, holder, dead>>
         /\ torn' \in BOOLEAN
  BY DEF Supersede, Unannounced, GivesUp, WriteFails, AppendTears, weather, IInv, OtherTypes
<1>3. /\ new \in Adoptions /\ NoneAdopted(new) /\ Single(new)
      /\ \A b \in Approvals : adoption[b] # "none" => new[b] # "none"
  BY SupersededNone DEF IInv
<1> HIDE DEF new
<1>4. OtherTypes'
  BY <1>1, <1>2 DEF IInv, OtherTypes
<1>5. CASE Goes(c, "restoring") /\ UNCHANGED <<adoption, holder, dead>>
  BY <1>1, <1>4, <1>5, AdjustStep, SameAdoption DEF IInv, AdjustSteps
<1>6. CASE /\ Free /\ adoption' = new
           /\ \/ holder' = c /\ Goes(c, "writing")
              \/ holder' = holder /\ Goes(c, "restoring")
  <2>1. PICK k \in Calls : /\ caller' = [caller EXCEPT ![c] = k]
                           /\ k.step \in {"writing", "restoring"}
                           /\ k.step = "writing" => holder' = c
                           /\ k.result = caller[c].result
    <3>1. "writing" \in Steps /\ "restoring" \in Steps
      BY DEF Steps
    <3> QED
      BY <1>6, <3>1, GoesStep DEF IInv
  <2>2. Knows(k, c, adoption', holder')
    BY <1>1, <1>3, <1>6, <2>1 DEF Knows, ReviewSteps, AdjustSteps
  <2>3. holder' \in Callers \cup {None} /\ \A b \in Callers \ {c} : holder # b
    BY <1>6, ResultKinds DEF Free
  <2>4. AdoptionInv' /\ CallsInv'
    BY <1>1, <1>3, <1>6, <2>1, <2>2, <2>3, AdoptionStep DEF IInv
  <2> QED
    BY <1>4, <2>4 DEF IInv
<1> QED
  BY <1>2, <1>5, <1>6

LEMMA WriteAdoptionInv ==
  ASSUME IInv, NEW c \in Callers, WriteAdoption(c)
  PROVE  IInv'
<1> DEFINE r == caller[c].result
<1>1. /\ caller[c].step = "writing" /\ r \in Corrections /\ holder = c
      /\ NoneAdopted(adoption)
      /\ UNCHANGED <<files, operation, finalLock, review, item>>
  BY DEF WriteAdoption, At, IInv, CallsInv, Knows, AdjustSteps
<1>2. \/ /\ adoption' = [adoption EXCEPT ![r] = "adopted"] /\ Goes(c, "announcing")
         /\ UNCHANGED weather
      \/ /\ adoption' = adoption /\ holder' = None /\ Goes(c, "restoring")
         /\ UNCHANGED <<dead, torn>>
  BY DEF WriteAdoption, Leaves
<1>3. OtherTypes'
  BY <1>1, <1>2 DEF IInv, OtherTypes, weather
<1>4. \A b \in Callers \ {c} : holder # b
  BY <1>1
<1>5. adoption \in Adoptions /\ Single(adoption)
  BY DEF IInv, AdoptionInv
<1>6. /\ adoption' \in Adoptions /\ Single(adoption')
      /\ \A b \in Approvals : adoption[b] # "none" => adoption'[b] # "none"
  <2>1. CASE adoption' = adoption
    BY <1>5, <2>1
  <2>2. CASE adoption' = [adoption EXCEPT ![r] = "adopted"]
    <3>1. NoneAdopted(adoption) /\ adoption \in Adoptions
      BY <1>1, <1>5
    <3> QED
      BY <2>2, <3>1, AdoptOne
  <2> QED
    BY <1>2, <2>1, <2>2
<1>7. PICK k \in Calls : /\ caller' = [caller EXCEPT ![c] = k]
                         /\ k.step \in {"announcing", "restoring"} /\ k.result = r
                         /\ k.step = "announcing" => holder' = c
  <2>1. "announcing" \in Steps /\ "restoring" \in Steps
    BY DEF Steps
  <2> QED
    BY <1>1, <1>2, <2>1, GoesStep DEF IInv, weather
<1>8. Knows(k, c, adoption', holder')
  BY <1>1, <1>7 DEF Knows, ReviewSteps, AdjustSteps
<1>9. holder' \in Callers \cup {None}
  BY <1>1, <1>2 DEF weather
<1>10. AdoptionInv' /\ CallsInv'
  BY <1>1, <1>4, <1>6, <1>7, <1>8, <1>9, AdoptionStep DEF IInv
<1> QED
  BY <1>3, <1>10 DEF IInv

\* What is withdrawn is the adoption of the adjustment itself.
LEMMA AnnounceInv ==
  ASSUME IInv, NEW c \in Callers, AnnounceAdoption(c)
  PROVE  IInv'
<1> DEFINE r == caller[c].result
<1>1. /\ caller[c].step = "announcing" /\ r \in Corrections /\ holder = c
      /\ UNCHANGED <<files, operation, finalLock, review, item>>
  BY DEF AnnounceAdoption, At, IInv, CallsInv, Knows, AdjustSteps
<1>2. /\ holder' = None /\ UNCHANGED dead /\ torn' \in BOOLEAN
      /\ Goes(c, "restoring") \/ Goes(c, "closing")
      /\ adoption' = adoption \/ adoption' = [adoption EXCEPT ![r] = "none"]
  BY DEF AnnounceAdoption, Leaves, IInv, OtherTypes
<1>3. OtherTypes'
  BY <1>1, <1>2 DEF IInv, OtherTypes
<1>4. adoption \in Adoptions /\ Single(adoption)
  BY DEF IInv, AdoptionInv
<1>5. /\ adoption' \in Adoptions /\ Single(adoption')
      /\ \A b \in Approvals : adoption[b] # "none" => adoption'[b] # "none"
  <2>1. CASE adoption' = adoption
    BY <1>4, <2>1
  <2>2. CASE adoption' = [adoption EXCEPT ![r] = "none"]
    <3>1. \A a \in Results : adoption'[a] = IF a = r THEN "none" ELSE adoption[a]
      BY <1>4, <2>2 DEF Adoptions
    <3>2. adoption' \in Adoptions
      BY <1>4, <2>2 DEF Adoptions, AdoptionStatus
    <3>3. r \notin Approvals
      BY <1>1, ResultKinds
    <3> HIDE DEF r
    <3> QED
      BY <1>4, <3>1, <3>2, <3>3, ResultKinds DEF Single
  <2> QED
    BY <1>2, <2>1, <2>2
<1>6. PICK k \in Calls : /\ caller' = [caller EXCEPT ![c] = k]
                         /\ k.step \in {"closing", "restoring"} /\ k.result = r
  <2>1. "closing" \in Steps /\ "restoring" \in Steps
    BY DEF Steps
  <2> QED
    BY <1>2, <2>1, GoesStep DEF IInv
<1>7. Knows(k, c, adoption', holder')
  BY <1>1, <1>6 DEF Knows, ReviewSteps, AdjustSteps
<1>8. AdoptionInv' /\ CallsInv'
  BY <1>1, <1>2, <1>5, <1>6, <1>7, AdoptionStep DEF IInv
<1> QED
  BY <1>3, <1>8 DEF IInv

\* The old result comes back only when no other has taken its place.
LEMMA RestoreInv ==
  ASSUME IInv, NEW c \in Callers, Restore(c)
  PROVE  IInv'
<1> DEFINE base == caller[c].base
           restored == [adoption EXCEPT ![base] = "adopted"]
<1>1. /\ caller[c].step = "restoring" /\ caller[c].result \in Corrections
      /\ UNCHANGED <<files, operation, finalLock, review, item>>
  BY DEF Restore, At, IInv, CallsInv, Knows, AdjustSteps
<1>2. /\ UNCHANGED <<holder, dead>> /\ torn' \in BOOLEAN
      /\ \/ adoption' = adoption
         \/ Free /\ ~Conflict(base) /\ adoption' = restored
      /\ Goes(c, "cleaning") \/ Goes(c, "idle")
  BY DEF Restore, Announced, Unannounced, GivesUp, WriteFails, AppendTears, weather,
         IInv, OtherTypes, Goes
<1>3. OtherTypes'
  BY <1>1, <1>2 DEF IInv, OtherTypes
<1>4. CASE adoption' = adoption
  BY <1>1, <1>2, <1>3, <1>4, AdjustStep, SameAdoption DEF IInv, AdjustSteps
<1>5. CASE Free /\ ~Conflict(base) /\ adoption' = restored
  <2>1. NoneAdopted(adoption) /\ adoption \in Adoptions
    BY <1>5, ActiveAdopted DEF Conflict, IInv, AdoptionInv
  <2>2. /\ adoption' \in Adoptions /\ Single(adoption')
        /\ \A b \in Approvals : adoption[b] # "none" => adoption'[b] # "none"
    BY <1>5, <2>1, AdoptOne
  <2>3. PICK k \in Calls : /\ caller' = [caller EXCEPT ![c] = k]
                           /\ k.step \in {"cleaning", "idle"}
                           /\ k.step = "cleaning" => k.result = caller[c].result
    <3>1. "cleaning" \in Steps /\ "idle" \in Steps
      BY DEF Steps
    <3> QED
      BY <1>2, <3>1, GoesStep DEF IInv
  <2>4. Knows(k, c, adoption', holder')
    BY <1>1, <2>3 DEF Knows, ReviewSteps, AdjustSteps
  <2>5. holder' \in Callers \cup {None} /\ \A b \in Callers \ {c} : holder # b
    BY <1>2, <1>5, ResultKinds DEF Free
  <2>6. AdoptionInv' /\ CallsInv'
    BY <1>1, <2>2, <2>3, <2>4, <2>5, AdoptionStep DEF IInv
  <2> QED
    BY <1>3, <2>6 DEF IInv
<1> QED
  BY <1>2, <1>4, <1>5

----------------------------------------------------------------------------
(* The theorems. *)

LEMMA InitInv == Init => IInv
<1> SUFFICES ASSUME Init PROVE IInv
  OBVIOUS
<1>1. AdoptionInv
  BY DEF Init, AdoptionInv, Adoptions, AdoptionStatus, Single, Reviewed
<1>2. CallsInv
  BY IdleKnows DEF Init, CallsInv
<1>3. OtherTypes
  BY DEF Init, OtherTypes, NoOperation, OperationStage, LockTarget
<1> QED
  BY <1>1, <1>2, <1>3 DEF IInv

LEMMA ActInv ==
  ASSUME IInv, NEW c \in Callers, Act(c)
  PROVE  IInv'
<1>1. ASSUME WriteSnapshot(c) PROVE IInv'
  BY <1>1, ScoreFactInv DEF WriteSnapshot
<1>2. ASSUME WriteValidation(c) PROVE IInv'
  <2>1. (IF caller[c].found = "committing" THEN "recording" ELSE "committing")
          \in {"validating", "recording", "committing"}
    OBVIOUS
  <2> QED
    BY <1>2, <2>1, ScoreFactInv DEF WriteValidation
<1>3. ASSUME Commit(c) \/ Close(c) \/ MarkFailed(c) PROVE IInv'
  <2>1. {"committing", "committed", "failed"} \subseteq OperationStage
    BY DEF OperationStage
  <2> QED
    BY <1>3, <2>1, AdvanceInv DEF Commit, Close, MarkFailed
<1> QED
  BY <1>1, <1>2, <1>3, ApproveInv, StartItemInv, CompleteItemInv, NotAdvancedInv, OpenOperationInv,
     RecordAdjustmentInv, CheckAdoptionInv, SupersedeInv, WriteAdoptionInv, AnnounceInv, RestoreInv,
     CleanUpInv, CreateLockInv
  DEF Act

LEMMA StepInv == IInv /\ [Next]_vars => IInv'
<1> SUFFICES ASSUME IInv, [Next]_vars PROVE IInv'
  OBVIOUS
<1>1. ASSUME NEW c \in Callers, Act(c) \/ Die(c) PROVE IInv'
  BY <1>1, ActInv, DieInv
<1>2. ASSUME NEW c \in Callers, NEW d \in Approvals, Apply(c, d) PROVE IInv'
  BY <1>2, ApplyInv
<1>3. ASSUME NEW c \in Callers, NEW r \in Corrections, Adjust(c, r) \/ Continue(c, r)
      PROVE  IInv'
  BY <1>3, AdjustInv, ContinueInv
<1>4. ASSUME NEW c \in Callers, NEW a \in Results, LockResult(c, a) PROVE IInv'
  BY <1>4, LockResultInv
<1>5. ASSUME NEW a \in Results, Resolve(a) PROVE IInv'
  BY <1>5, ResolveInv
<1>6. ASSUME OtherItemMoves PROVE IInv'
  BY <1>6, OtherItemInv
<1>7. ASSUME UNCHANGED vars PROVE IInv'
  BY <1>7, SameAdoption, SameCalls DEF vars, records, weather, IInv, OtherTypes
<1> QED
  BY <1>1, <1>2, <1>3, <1>4, <1>5, <1>6, <1>7 DEF Next

\* The inductive invariant: whoever is between the two writes of an adjustment has
\* the lock file, and no result is adopted before the second of them.
THEOREM Invariance == Spec => []IInv
  BY InitInv, StepInv, PTL DEF Spec

\* Every fact of the item and every call keeps its type.
THEOREM TypeCorrect == Spec => []TypeOK
<1>1. IInv => TypeOK
  BY DEF IInv, AdoptionInv, CallsInv, OtherTypes, Adoptions, Calls, TypeOK
<1> QED
  BY <1>1, Invariance, PTL

\* Never two adopted results, with any number of adjustments at a time, failures
\* and ends of processes (adopt_result, restore_adoption_status).
THEOREM AtMostOne == Spec => []OneResult
<1>1. IInv => OneResult
  <2> SUFFICES ASSUME IInv PROVE OneResult
    OBVIOUS
  <2>1. CASE Adopted = {}
    BY <2>1, FS_EmptySet DEF OneResult
  <2>2. CASE Adopted # {}
    <3> PICK a \in Adopted : TRUE
      BY <2>2
    <3>1. Adopted = {a}
      BY DEF Adopted, IInv, AdoptionInv, Single
    <3> QED
      <4>1. Cardinality({a}) = 1
        BY FS_Singleton
      <4> QED
        BY <3>1, <4>1 DEF OneResult
  <2> QED
    BY <2>1, <2>2
<1> QED
  BY <1>1, Invariance, PTL

\* An item leaves review only by a decision whose adoption was written and has not
\* been withdrawn (apply_review_decision).
THEOREM ReviewBacked == Spec => []ReviewedIsAdopted
<1>1. IInv => ReviewedIsAdopted
  BY DEF IInv, AdoptionInv, Reviewed, ReviewedIsAdopted
<1> QED
  BY <1>1, Invariance, PTL
----------------------------------------------------------------------------
(* One failure does not lose the result: a second invariant, for MaxFaults = 1 *)
(* at most.  While no result is adopted and one was replaced, a call is under  *)
(* way that adopts one, unless its process has ended with the lock file.       *)

OneFault ==
  /\ faults \in {0, 1} /\ (torn => dead = {})
  /\ faults = 0 => dead = {} /\ ~torn

Replaced(a) == a \in Results /\ adoption[a] = "superseded"

\* What an adjustment starts from has been adopted, unless a failed one withdrew it.
Base(a) == a \in Results /\ (faults = 0 => adoption[a] # "none")

Bases ==
  /\ \A r \in Corrections : operation[r].stage # "none" => Base(operation[r].base)
  /\ \A c \in Callers : caller[c].step \in AdjustSteps => Base(caller[c].base)

\* Before the first failure what an adjustment replaces is superseded by it.
InBetween ==
  faults = 0 => \A c \in Callers : caller[c].step \in {"writing", "announcing"} =>
    Replaced(caller[c].base) /\ caller[c].base # caller[c].result

Gap == NoneAdopted(adoption) /\ \E a \in Results : Replaced(a)

\* After the failure there is none left for the call that restores.
Fills(c) ==
  \/ caller[c].step = "writing"
  \/ faults # 0 /\ dead = {} /\ caller[c].step = "restoring" /\ Replaced(caller[c].base)

Covered == Gap => \E c \in Callers : Fills(c)

KeptInv == OneFault /\ Bases /\ InBetween /\ Covered

\* What a step may do to the failures.
Spends ==
  \/ UNCHANGED <<dead, torn, faults>>
  \/ faults < MaxFaults /\ faults' = faults + 1 /\ (dead' = dead \/ torn' = torn)

\* What a step that leaves the adoptions alone may do to a call.
Moves(b) ==
  LET k == caller'[b]
  IN  \/ k.step = caller[b].step /\ k.base = caller[b].base /\ k.result = caller[b].result
      \/ /\ Gap => ~Fills(b)
         /\ k.step \notin {"writing", "announcing"}
         /\ k.step \in AdjustSteps => Base(k.base)

LEMMA FaultStep ==
  ASSUME MaxFaults \in {0, 1}, OneFault, Spends
  PROVE  /\ OneFault' /\ (faults' = 0 => faults = 0)
         /\ faults # 0 => UNCHANGED <<dead, torn, faults>>
<1>1. CASE UNCHANGED <<dead, torn, faults>>
  BY <1>1 DEF OneFault
<1>2. CASE faults < MaxFaults /\ faults' = faults + 1 /\ (dead' = dead \/ torn' = torn)
  <2>1. faults = 0 /\ faults' = 1
    BY <1>2 DEF OneFault
  <2> QED  BY <1>2, <2>1 DEF OneFault
<1> QED  BY <1>1, <1>2 DEF Spends

\* The adoptions stay.
LEMMA QuietStep ==
  ASSUME MaxFaults \in {0, 1}, KeptInv, Spends, UNCHANGED adoption,
         \A b \in Callers : Moves(b),
         \A r \in Corrections : operation'[r].stage # "none" => Base(operation'[r].base)
  PROVE  KeptInv'
<1>1. /\ OneFault' /\ (faults' = 0 => faults = 0)
      /\ faults # 0 => UNCHANGED <<dead, torn, faults>>
  BY FaultStep DEF KeptInv
<1>2. \A a : Base(a) => a \in Results /\ (faults' = 0 => adoption'[a] # "none")
  BY <1>1 DEF Base
<1>3. Bases'
  <2>1. \A r \in Corrections : operation'[r].stage # "none" =>
          operation'[r].base \in Results /\ (faults' = 0 => adoption'[operation'[r].base] # "none")
    BY <1>2
  <2>2. \A c \in Callers : caller'[c].step \in AdjustSteps => Base(caller'[c].base)
    BY DEF Moves, KeptInv, Bases
  <2>3. \A c \in Callers : caller'[c].step \in AdjustSteps =>
          caller'[c].base \in Results /\ (faults' = 0 => adoption'[caller'[c].base] # "none")
    BY <1>2, <2>2
  <2> QED  BY <2>1, <2>3 DEF Bases, Base
<1>4. InBetween'
  BY <1>1 DEF Moves, KeptInv, InBetween, Replaced
<1>5. Covered'
  <2> SUFFICES ASSUME Gap' PROVE (\E c \in Callers : Fills(c))'
    BY DEF Covered
  <2>1. Gap
    BY DEF Gap, NoneAdopted, Replaced
  <2>2. PICK c \in Callers : Fills(c)
    BY <2>1 DEF KeptInv, Covered
  <2>3. caller'[c].step = caller[c].step /\ caller'[c].base = caller[c].base
    BY <2>1, <2>2 DEF Moves
  <2>4. CASE caller[c].step = "writing"
    BY <2>3, <2>4 DEF Fills
  <2>5. CASE /\ faults # 0 /\ dead = {} /\ caller[c].step = "restoring"
             /\ Replaced(caller[c].base)
    BY <1>1, <2>3, <2>5 DEF Fills, Replaced
  <2> QED  BY <2>2, <2>4, <2>5 DEF Fills
<1> QED  BY <1>1, <1>3, <1>4, <1>5 DEF KeptInv

\* The adoptions change by one call, and somebody adopts or will.
LEMMA ChangeStep ==
  ASSUME MaxFaults \in {0, 1}, IInv, KeptInv, Spends, UNCHANGED operation,
         NEW c \in Callers, NEW k, caller' = [caller EXCEPT ![c] = k],
         faults' = 0 => \A a \in Results : adoption[a] # "none" => adoption'[a] # "none",
         faults' = 0 => \A b \in Callers \ {c} :
           /\ caller[b].step \notin {"writing", "announcing"},
         k.step \in AdjustSteps =>
           k.base \in Results /\ (faults' = 0 => adoption'[k.base] # "none"),
         faults' = 0 /\ k.step \in {"writing", "announcing"} =>
           adoption'[k.base] = "superseded" /\ k.base # k.result,
         \/ \E a \in Results : adoption'[a] = "adopted"
         \/ k.step = "writing"
         \/ faults' # 0 /\ dead' = {} /\ k.step = "restoring" /\ adoption'[k.base] = "superseded"
  PROVE  KeptInv'
<1>1. OneFault' /\ (faults' = 0 => faults = 0)
  BY FaultStep DEF KeptInv
<1>2. caller'[c] = k /\ \A b \in Callers : b # c => caller'[b] = caller[b]
  BY DEF IInv, CallsInv
<1>3. {"writing", "announcing", "restoring"} \subseteq AdjustSteps
  BY DEF AdjustSteps
<1>4. \A a : Base(a) => a \in Results /\ (faults' = 0 => adoption'[a] # "none")
  BY <1>1 DEF Base
<1>5. Bases'
  <2>1. \A r \in Corrections : operation'[r].stage # "none" =>
          operation'[r].base \in Results /\ (faults' = 0 => adoption'[operation'[r].base] # "none")
    BY <1>4 DEF KeptInv, Bases
  <2>2. ASSUME NEW b \in Callers, caller'[b].step \in AdjustSteps
        PROVE  caller'[b].base \in Results /\ (faults' = 0 => adoption'[caller'[b].base] # "none")
    <3>1. CASE b = c  BY <1>2, <2>2, <3>1
    <3>2. CASE b # c  BY <1>2, <1>4, <2>2, <3>2 DEF KeptInv, Bases
    <3> QED  BY <3>1, <3>2
  <2> QED  BY <2>1, <2>2 DEF Bases, Base
<1>6. InBetween'
  <2> SUFFICES ASSUME faults' = 0, NEW b \in Callers, caller'[b].step \in {"writing", "announcing"}
               PROVE  /\ caller'[b].base \in Results /\ adoption'[caller'[b].base] = "superseded"
                      /\ caller'[b].base # caller'[b].result
    BY DEF InBetween, Replaced
  <2>1. b = c  BY <1>2
  <2> QED  BY <1>2, <1>3, <2>1
<1>7. Covered'
  <2> SUFFICES ASSUME Gap' PROVE (\E b \in Callers : Fills(b))'
    BY DEF Covered
  <2>1. ~ \E a \in Results : adoption'[a] = "adopted"
    BY DEF Gap, NoneAdopted
  <2>2. CASE k.step = "writing"
    BY <1>2, <2>2 DEF Fills
  <2>3. CASE faults' # 0 /\ dead' = {} /\ k.step = "restoring" /\ adoption'[k.base] = "superseded"
    BY <1>2, <1>3, <2>3 DEF Fills, Replaced
  <2> QED  BY <2>1, <2>2, <2>3
<1> QED  BY <1>1, <1>5, <1>6, <1>7 DEF KeptInv

----------------------------------------------------------------------------
(* The steps that leave the adoptions alone. *)

LEMMA NotAdjusting ==
  \A s \in {"idle", "locking", "approving", "starting", "completing"} :
    s \notin AdjustSteps /\ s \notin {"writing", "announcing", "restoring"}
  BY DEF AdjustSteps

LEMMA CallMoves ==
  ASSUME IInv, NEW c \in Callers, NEW k, caller' = [caller EXCEPT ![c] = k],
         Gap => ~Fills(c), k.step \notin {"writing", "announcing"},
         k.step \in AdjustSteps => Base(k.base)
  PROVE  \A b \in Callers : Moves(b)
<1>1. caller'[c] = k /\ \A b \in Callers : b # c => caller'[b] = caller[b]
  BY DEF IInv, CallsInv
<1> TAKE b \in Callers
<1>2. CASE b = c  BY <1>1, <1>2 DEF Moves
<1>3. CASE b # c  BY <1>1, <1>3 DEF Moves
<1> QED  BY <1>2, <1>3

\* A call that goes on keeps what it is about.
LEMMA GoesCall ==
  ASSUME CallsInv, NEW c \in Callers, NEW s \in Steps, Goes(c, s)
  PROVE  \E k : /\ caller' = [caller EXCEPT ![c] = k] /\ k.step = s
                /\ s # "idle" => /\ k.base = caller[c].base /\ k.result = caller[c].result
                                 /\ k.found = caller[c].found
<1>1. CASE s = "idle"
  <2>1. caller' = [caller EXCEPT ![c] = Idle]
    BY <1>1 DEF Goes, Returns
  <2>2. Idle.step = s
    BY <1>1 DEF Idle
  <2> QED  BY <1>1, <2>1, <2>2
<1>2. CASE s # "idle"
  <2> DEFINE k == [caller[c] EXCEPT !.step = s]
  <2>1. caller[c] \in Calls
    BY DEF CallsInv
  <2>2. caller' = [caller EXCEPT ![c] = k]
    BY <1>2, <2>1 DEF Goes, CallsInv, Calls
  <2>3. k.step = s /\ k.base = caller[c].base /\ k.result = caller[c].result /\ k.found = caller[c].found
    BY <2>1 DEF Calls
  <2> QED  BY <2>2, <2>3
<1> QED  BY <1>1, <1>2

LEMMA GoesMoves ==
  ASSUME IInv, KeptInv, NEW c \in Callers, Gap => ~Fills(c),
         NEW s \in Steps \ {"writing", "announcing"}, Goes(c, s),
         s \in AdjustSteps => caller[c].step \in AdjustSteps
  PROVE  \A b \in Callers : Moves(b)
<1>1. PICK k : /\ caller' = [caller EXCEPT ![c] = k] /\ k.step = s
               /\ s # "idle" => k.base = caller[c].base /\ k.result = caller[c].result
  BY GoesCall DEF IInv
<1>2. s \in AdjustSteps => Base(k.base)
  BY <1>1, NotAdjusting DEF KeptInv, Bases
<1> QED  BY <1>1, <1>2, CallMoves

LEMMA StayMoves ==
  ASSUME NEW b,
         \/ caller'[b] = caller[b]
         \/ caller[b] \in Calls /\ caller'[b] = Outdated(caller[b])
  PROVE  Moves(b)
<1>1. CASE caller'[b] = caller[b]
  BY <1>1 DEF Moves
<1>2. CASE caller[b] \in Calls /\ caller'[b] = Outdated(caller[b])
  <2>1. /\ Outdated(caller[b]).step = caller[b].step
        /\ Outdated(caller[b]).base = caller[b].base
        /\ Outdated(caller[b]).result = caller[b].result
    BY <1>2 DEF Outdated, Calls
  <2> QED  BY <1>2, <2>1 DEF Moves
<1> QED  BY <1>1, <1>2

LEMMA SectionSpends ==
  ASSUME NEW c, NEW ACTION write, NEW good, NEW bad, Section(c, write, good, bad)
  PROVE  /\ Spends /\ UNCHANGED holder
         /\ (write /\ Free) \/ UNCHANGED records
         /\ (write /\ Free /\ Goes(c, good)) \/ Goes(c, bad)
  BY DEF Section, Announced, Unannounced, GivesUp, WriteFails, AppendTears, Fault, weather, Spends

LEMMA SameOperations ==
  ASSUME KeptInv, UNCHANGED operation
  PROVE  \A r \in Corrections : operation'[r].stage # "none" => Base(operation'[r].base)
  BY DEF KeptInv, Bases

LEMMA BeginKept ==
  ASSUME MaxFaults \in {0, 1}, IInv, KeptInv, NEW c \in Callers,
         \/ \E d \in Approvals : Apply(c, d)
         \/ \E r \in Corrections : Adjust(c, r) \/ Continue(c, r)
         \/ \E a \in Results : LockResult(c, a)
  PROVE  KeptInv'
<1>1. /\ caller[c].step = "idle" /\ UNCHANGED <<records, weather>>
  BY DEF Apply, Adjust, Continue, LockResult, At
<1>2. Spends /\ UNCHANGED <<adoption, operation>>
  BY <1>1 DEF records, weather, Spends
<1>3. \A b \in Callers : Moves(b)
  <2>1. ~Fills(c)  BY <1>1 DEF Fills
  <2>2. ASSUME NEW d \in Approvals, Apply(c, d) PROVE \A b \in Callers : Moves(b)
    <3> DEFINE k == [Idle EXCEPT !.step = "approving", !.result = d]
    <3>1. k.step = "approving" /\ caller' = [caller EXCEPT ![c] = k]
      BY <2>2 DEF Apply, Idle
    <3> HIDE DEF k
    <3> QED  BY <2>1, <3>1, NotAdjusting, CallMoves
  <2>3. ASSUME NEW r \in Corrections, Adjust(c, r) PROVE \A b \in Callers : Moves(b)
    <3> DEFINE k == [Idle EXCEPT !.step = "opening", !.result = r, !.base = Active]
    <3>1. k.step = "opening" /\ k.base = Active /\ caller' = [caller EXCEPT ![c] = k]
      BY <2>3 DEF Adjust, Idle
    <3>2. Base(Active)
      BY <2>3, ActiveAdopted DEF Adjust, Adjustable, Base
    <3> HIDE DEF k
    <3> QED  BY <2>1, <3>1, <3>2, CallMoves
  <2>4. ASSUME NEW r \in Corrections, Continue(c, r) PROVE \A b \in Callers : Moves(b)
    <3> DEFINE k == [Idle EXCEPT !.step = "scoring", !.result = r,
                                 !.base = operation[r].base, !.found = operation[r].stage]
    <3>1. /\ k.step = "scoring" /\ k.base = operation[r].base
          /\ caller' = [caller EXCEPT ![c] = k]
      BY <2>4 DEF Continue, Idle
    <3>2. Base(operation[r].base)
      BY <2>4, SwitchesAssumption DEF Continue, KeptInv, Bases
    <3> HIDE DEF k
    <3> QED  BY <2>1, <3>1, <3>2, CallMoves
  <2>5. ASSUME NEW a \in Results, LockResult(c, a) PROVE \A b \in Callers : Moves(b)
    <3> DEFINE k == [Idle EXCEPT !.step = "locking", !.result = a]
    <3>1. k.step = "locking" /\ caller' = [caller EXCEPT ![c] = k]
      BY <2>5 DEF LockResult, Idle
    <3> HIDE DEF k
    <3> QED  BY <2>1, <3>1, NotAdjusting, CallMoves
  <2> QED  BY <2>2, <2>3, <2>4, <2>5
<1> QED  BY <1>2, <1>3, SameOperations, QuietStep

LEMMA ItemKept ==
  ASSUME MaxFaults \in {0, 1}, IInv, KeptInv, NEW c \in Callers,
         StartItem(c) \/ CompleteItem(c) \/ NotAdvanced(c)
  PROVE  KeptInv'
<1>1. caller[c].step \in {"starting", "completing"} /\ caller \in [Callers -> Calls]
  BY DEF StartItem, CompleteItem, NotAdvanced, At, IInv, CallsInv
<1>2. ~Fills(c)  BY <1>1 DEF Fills
<1>3. Spends /\ UNCHANGED <<adoption, operation>>
  BY DEF StartItem, CompleteItem, NotAdvanced, Fault, records, weather, Spends
<1>4. ASSUME NEW k, Commits(c, k), k.step \in {"completing", "idle"}
      PROVE  \A b \in Callers : Moves(b)
  <2> TAKE b \in Callers
  <2>1. CASE b = c
    <3>1. caller'[b] = k  BY <1>4, <2>1 DEF Commits
    <3> QED  BY <1>2, <1>4, <2>1, <3>1, NotAdjusting DEF Moves
  <2>2. CASE b # c
    BY <1>1, <1>4, <2>2, StayMoves DEF Commits
  <2> QED  BY <2>1, <2>2
<1>5. \A b \in Callers : Moves(b)
  <2>1. CASE StartItem(c)
    <3> DEFINE k == [caller[c] EXCEPT !.step = "completing"]
    <3>1. k.step = "completing" /\ Commits(c, k)
      BY <1>1, <2>1 DEF StartItem, Calls
    <3> HIDE DEF k
    <3> QED  BY <1>4, <3>1
  <2>2. CASE CompleteItem(c)
    BY <1>4, <2>2 DEF CompleteItem, Idle
  <2>3. CASE NotAdvanced(c)
    <3>1. caller' = [caller EXCEPT ![c] = Idle] /\ Idle.step = "idle"
      BY <2>3 DEF NotAdvanced, Returns, Idle
    <3> QED  BY <1>2, <3>1, NotAdjusting, CallMoves
  <2> QED  BY <2>1, <2>2, <2>3
<1> QED  BY <1>3, <1>5, SameOperations, QuietStep

LEMMA PrepareKept ==
  ASSUME MaxFaults \in {0, 1}, IInv, KeptInv, NEW c \in Callers,
         \/ WriteSnapshot(c) \/ WriteValidation(c) \/ RecordAdjustment(c)
         \/ CheckAdoption(c) \/ CleanUp(c)
  PROVE  KeptInv'
<1> DEFINE r == caller[c].result
           Next1 == {"validating", "committing", "recording", "checking", "cleaning",
                     "superseding", "restoring", "marking", "idle"}
           write == /\ files' = [files EXCEPT ![r] = @ \cup {"record"}]
                    /\ UNCHANGED <<adoption, operation, finalLock, review, item>>
<1>1. /\ caller[c].step \in {"scoring", "validating", "recording", "checking", "cleaning"}
      /\ caller[c].step \in AdjustSteps
  BY DEF WriteSnapshot, WriteValidation, ScoreFact, RecordAdjustment, CheckAdoption, CleanUp, At,
         AdjustSteps
<1>2. Spends /\ UNCHANGED <<adoption, operation>> /\ \E s \in Next1 : Goes(c, s)
  <2>1. ASSUME NEW step, NEW fact, NEW next \in Next1, ScoreFact(c, step, fact, next)
        PROVE  Spends /\ UNCHANGED <<adoption, operation>> /\ \E s \in Next1 : Goes(c, s)
    <3>1. Spends /\ UNCHANGED <<adoption, operation>>
      BY <2>1 DEF ScoreFact, Fault, weather, Spends
    <3>2. Goes(c, next) \/ Goes(c, "marking") \/ Goes(c, "idle")
      BY <2>1 DEF ScoreFact, Goes
    <3> QED  BY <3>1, <3>2
  <2>2. CASE WriteSnapshot(c) \/ WriteValidation(c)
    <3>1. (IF caller[c].found = "committing" THEN "recording" ELSE "committing") \in Next1
      OBVIOUS
    <3> QED  BY <2>1, <2>2, <3>1 DEF WriteSnapshot, WriteValidation
  <2>3. CASE RecordAdjustment(c)
    <3>1. CASE Section(c, write, "checking", "cleaning")
      <4> HIDE DEF write
      <4>1. /\ Spends /\ (write \/ UNCHANGED records)
            /\ Goes(c, "checking") \/ Goes(c, "cleaning")
        BY <3>1, SectionSpends
      <4> QED  BY <4>1 DEF write, records
    <3>2. CASE Goes(c, "cleaning") /\ UNCHANGED <<records, weather>>
      BY <3>2 DEF records, weather, Spends
    <3> QED  BY <2>3, <3>1, <3>2 DEF RecordAdjustment
  <2>4. CASE CheckAdoption(c)
    <3>1. Goes(c, "superseding") \/ Goes(c, "restoring")
      BY <2>4 DEF CheckAdoption
    <3> QED  BY <2>4, <3>1 DEF CheckAdoption, records, weather, Spends
  <2>5. CASE CleanUp(c)
    <3>1. Spends /\ UNCHANGED <<adoption, operation>> /\ Goes(c, "marking")
      BY <2>5 DEF CleanUp, Fault, weather, Spends
    <3> QED  BY <3>1
  <2> QED  BY <2>2, <2>3, <2>4, <2>5
<1>3. ~Fills(c)
  BY <1>1 DEF Fills
<1>4. \A b \in Callers : Moves(b)
  <2>1. Next1 \subseteq Steps \ {"writing", "announcing"}  BY DEF Steps
  <2> HIDE DEF Next1
  <2>2. PICK s \in Next1 : Goes(c, s)  BY <1>2
  <2> QED  BY <1>1, <1>3, <2>1, <2>2, GoesMoves
<1> QED  BY <1>2, <1>4, SameOperations, QuietStep

LEMMA OperationKept ==
  ASSUME MaxFaults \in {0, 1}, IInv, KeptInv, NEW c \in Callers,
         OpenOperation(c) \/ Commit(c) \/ Close(c) \/ MarkFailed(c)
  PROVE  KeptInv'
<1> DEFINE r == caller[c].result
           Next1 == {"scoring", "recording", "idle"}
           write == /\ operation' = [operation EXCEPT ![r] =
                                       [stage |-> "prepared", base |-> caller[c].base]]
                    /\ UNCHANGED <<adoption, files, finalLock, review, item>>
<1>1. /\ caller[c].step \in {"opening", "committing", "closing", "marking"}
      /\ caller[c].step \in AdjustSteps
  BY DEF OpenOperation, Commit, Close, MarkFailed, Advance, At, AdjustSteps
<1>2. r \in Corrections /\ Base(caller[c].base)
  BY <1>1 DEF IInv, CallsInv, Knows, KeptInv, Bases
<1>3. /\ Spends /\ UNCHANGED adoption /\ \E s \in Next1 : Goes(c, s)
      /\ \A x \in Corrections : operation'[x].stage # "none" => Base(operation'[x].base)
  <2>1. ASSUME NEW step, NEW from, NEW to, NEW good \in Next1, "none" \notin from, to # "none",
               Advance(c, step, from, to, good, "idle")
        PROVE  /\ Spends /\ UNCHANGED adoption /\ \E s \in Next1 : Goes(c, s)
               /\ \A x \in Corrections : operation'[x].stage # "none" => Base(operation'[x].base)
    <3>1. Spends /\ UNCHANGED adoption /\ (Goes(c, good) \/ Goes(c, "idle"))
      BY <2>1 DEF Advance, GivesUp, WriteFails, Fault, records, weather, Spends
    <3>2. CASE UNCHANGED operation
      BY <3>1, <3>2, SameOperations
    <3>3. CASE operation[r].stage \in from \cup {to}
               /\ operation' = [operation EXCEPT ![r].stage = to]
      <4>1. \A x \in Corrections : operation'[x].base = operation[x].base
                                   /\ (x # r => operation'[x].stage = operation[x].stage)
        BY <3>3 DEF IInv, OtherTypes
      <4>2. \A x \in Corrections : operation'[x].stage # "none" => operation[x].stage # "none"
        BY <2>1, <3>3, <4>1
      <4> QED  BY <3>1, <4>1, <4>2 DEF KeptInv, Bases
    <3> QED  BY <2>1, <3>2, <3>3 DEF Advance, records
  <2>2. CASE Commit(c) \/ Close(c) \/ MarkFailed(c)
    BY <2>1, <2>2 DEF Commit, Close, MarkFailed
  <2>3. CASE OpenOperation(c)
    <3>1. CASE Section(c, write, "scoring", "idle")
      <4> HIDE DEF write
      <4>1. /\ Spends /\ (write \/ UNCHANGED records)
            /\ Goes(c, "scoring") \/ Goes(c, "idle")
        BY <3>1, SectionSpends
      <4>2. CASE write
        <5>1. /\ UNCHANGED adoption
              /\ \A x \in Corrections : operation'[x] =
                   IF x = r THEN [stage |-> "prepared", base |-> caller[c].base]
                   ELSE operation[x]
          BY <1>2, <4>2 DEF write, IInv, OtherTypes
        <5> HIDE DEF r
        <5>2. \A x \in Corrections : operation'[x].stage # "none" => Base(operation'[x].base)
          BY <1>2, <5>1 DEF KeptInv, Bases
        <5> QED  BY <4>1, <5>1, <5>2
      <4>3. CASE UNCHANGED records
        BY <4>1, <4>3, SameOperations DEF records
      <4> QED  BY <4>1, <4>2, <4>3
    <3>2. CASE Returns(c) /\ UNCHANGED <<records, weather>>
      <4>1. Goes(c, "idle") /\ Spends /\ UNCHANGED <<adoption, operation>>
        BY <3>2 DEF Goes, records, weather, Spends
      <4> QED  BY <4>1, SameOperations
    <3> QED  BY <2>3, <3>1, <3>2 DEF OpenOperation
  <2> QED  BY <2>2, <2>3
<1>4. ~Fills(c)
  BY <1>1 DEF Fills
<1>5. \A b \in Callers : Moves(b)
  <2>1. Next1 \subseteq Steps \ {"writing", "announcing"}  BY DEF Steps
  <2> HIDE DEF Next1
  <2>2. PICK s \in Next1 : Goes(c, s)  BY <1>3
  <2> QED  BY <1>1, <1>4, <2>1, <2>2, GoesMoves
<1> QED  BY <1>3, <1>5, QuietStep

LEMMA OtherKept ==
  ASSUME MaxFaults \in {0, 1}, IInv, KeptInv,
         \/ \E c \in Callers : CreateLock(c) \/ Die(c)
         \/ \E a \in Results : Resolve(a)
         \/ OtherItemMoves
         \/ UNCHANGED vars
  PROVE  KeptInv'
<1>1. ASSUME NEW c \in Callers, CreateLock(c) PROVE KeptInv'
  <2> DEFINE a == caller[c].result
             write == finalLock' = a /\ UNCHANGED <<adoption, files, operation, review, item>>
  <2>1. Spends /\ UNCHANGED <<adoption, operation>> /\ Goes(c, "idle")
    <3>1. CASE Section(c, write, "idle", "idle")
      <4> HIDE DEF write
      <4>1. Spends /\ (write \/ UNCHANGED records) /\ Goes(c, "idle")
        BY <3>1, SectionSpends
      <4> QED  BY <4>1 DEF write, records
    <3>2. CASE Returns(c) /\ UNCHANGED <<records, weather>>
      BY <3>2 DEF Goes, records, weather, Spends
    <3> QED  BY <1>1, <3>1, <3>2 DEF CreateLock
  <2>2. ~Fills(c)
    BY <1>1 DEF CreateLock, At, Fills
  <2>3. "idle" \in Steps \ {"writing", "announcing"}  BY DEF Steps
  <2> QED  BY <2>1, <2>2, <2>3, NotAdjusting, GoesMoves, SameOperations, QuietStep
<1>2. ASSUME NEW c \in Callers, Die(c) PROVE KeptInv'
  <2>1. Spends /\ UNCHANGED <<adoption, operation, caller>>
    BY <1>2 DEF Die, Fault, records, Spends
  <2> QED  BY <2>1, StayMoves, SameOperations, QuietStep
<1>3. ASSUME NEW a \in Results, Resolve(a) PROVE KeptInv'
  <2>1. Spends /\ UNCHANGED <<adoption, operation, caller>>
    BY <1>3 DEF Resolve, weather, Spends
  <2> QED  BY <2>1, StayMoves, SameOperations, QuietStep
<1>4. CASE OtherItemMoves
  <2>1. /\ Spends /\ UNCHANGED <<adoption, operation>>
        /\ caller' = [c \in Callers |-> Outdated(caller[c])] /\ caller \in [Callers -> Calls]
    BY <1>4 DEF OtherItemMoves, records, weather, Spends, IInv, CallsInv
  <2> QED  BY <2>1, StayMoves, SameOperations, QuietStep
<1>5. CASE UNCHANGED vars
  <2>1. Spends /\ UNCHANGED <<adoption, operation, caller>>
    BY <1>5 DEF vars, records, weather, Spends
  <2> QED  BY <2>1, StayMoves, SameOperations, QuietStep
<1> QED  BY <1>1, <1>2, <1>3, <1>4, <1>5

----------------------------------------------------------------------------
(* The steps that change them. *)

LEMMA ApproveKept ==
  ASSUME MaxFaults \in {0, 1}, IInv, KeptInv, NEW c \in Callers, Approve(c)
  PROVE  KeptInv'
<1> DEFINE d == caller[c].result
           write == /\ adoption' = [adoption EXCEPT ![d] = "adopted"]
                    /\ UNCHANGED <<files, operation, finalLock, review, item>>
<1>1. caller[c].step = "approving" /\ d \in Results /\ ~Fills(c)
  BY ResultKinds DEF Approve, At, IInv, CallsInv, Knows, ReviewSteps, Fills
<1>2. "idle" \in Steps /\ "starting" \in Steps  BY DEF Steps
<1>3. CASE Returns(c) /\ UNCHANGED <<records, weather>>
  <2>1. Spends /\ UNCHANGED <<adoption, operation>> /\ Goes(c, "idle")
    BY <1>3 DEF Goes, records, weather, Spends
  <2> QED  BY <1>1, <1>2, <2>1, NotAdjusting, GoesMoves, SameOperations, QuietStep
<1>4. CASE Section(c, write, "starting", "idle")
  <2>1. /\ Spends
        /\ (write /\ Free) \/ UNCHANGED records
        /\ (write /\ Free /\ Goes(c, "starting")) \/ Goes(c, "idle")
    <3> HIDE DEF write
    <3> QED  BY <1>4, SectionSpends
  <2>2. CASE UNCHANGED records /\ Goes(c, "idle")
    <3>1. UNCHANGED <<adoption, operation>>  BY <2>2 DEF records
    <3> QED  BY <1>1, <1>2, <2>1, <2>2, <3>1, NotAdjusting, GoesMoves, SameOperations, QuietStep
  <2>3. CASE write /\ Free
    <3>1. /\ UNCHANGED operation /\ adoption'[d] = "adopted"
          /\ \A a \in Results : adoption[a] # "none" => adoption'[a] # "none"
      BY <1>1, <2>3 DEF IInv, AdoptionInv, Adoptions
    <3>2. PICK k : caller' = [caller EXCEPT ![c] = k] /\ k.step \in {"starting", "idle"}
      BY <1>2, <2>1, GoesCall DEF IInv
    <3>3. k.step \notin AdjustSteps /\ k.step \notin {"writing", "announcing"}
      BY <3>2, NotAdjusting
    <3>4. \A b \in Callers : caller[b].step \notin {"writing", "announcing"}
      BY <2>3, OthersOutside, ResultKinds DEF Free, IInv
    <3> HIDE DEF d
    <3> QED  BY <1>1, <2>1, <3>1, <3>2, <3>3, <3>4, ChangeStep
  <2> QED  BY <2>1, <2>2, <2>3 DEF records
<1> QED  BY <1>3, <1>4 DEF Approve

\* An adjustment before the first failure replaces what it started from.
LEMMA OldIsBase ==
  ASSUME IInv, KeptInv, NEW c \in Callers, caller[c].step = "superseding", Free,
         Replaceable(caller[c].result, caller[c].base),
         faults = 0 \/ Active # None
  PROVE  LET new == Superseded(Active)
         IN  new[caller[c].base] = "superseded"
<1> DEFINE base == caller[c].base
<1>1. Base(base)
  BY DEF KeptInv, Bases, AdjustSteps
<1>2. CASE Active # None
  BY <1>1, <1>2 DEF Replaceable, Superseded, Base
<1>3. CASE Active = None
  <2>1. NoneAdopted(adoption) /\ faults = 0
    BY <1>3, ActiveAdopted
  <2>2. adoption[base] = "superseded"
    BY <1>1, <2>1 DEF Base, NoneAdopted, IInv, AdoptionInv, Adoptions, AdoptionStatus
  <2>3. PICK b \in Callers : Fills(b)
    BY <1>1, <2>1, <2>2 DEF KeptInv, Covered, Gap, Replaced, Base
  <2>4. caller[b].step = "writing"
    BY <2>1, <2>3 DEF Fills
  <2>5. holder = b
    BY <2>4 DEF IInv, CallsInv, Knows
  <2> QED  BY <2>5, ResultKinds DEF Free
<1> QED  BY <1>2, <1>3

LEMMA SupersedeKept ==
  ASSUME MaxFaults \in {0, 1}, IInv, KeptInv, NEW c \in Callers, Supersede(c)
  PROVE  KeptInv'
<1> DEFINE r == caller[c].result
           base == caller[c].base
           new == Superseded(Active)
<1>1. caller[c].step = "superseding" /\ caller[c].step \in AdjustSteps /\ ~Fills(c)
      /\ UNCHANGED operation
  BY DEF Supersede, At, AdjustSteps, Fills
<1>2. Base(base)
  BY <1>1 DEF KeptInv, Bases
<1>3. "writing" \in Steps /\ "restoring" \in Steps  BY DEF Steps
<1>4. \A a \in Results : new[a] = IF a = Active THEN "superseded" ELSE adoption[a]
  BY DEF Superseded
<1>5. ASSUME Goes(c, "restoring"), UNCHANGED adoption, Spends
      PROVE  KeptInv'
  BY <1>1, <1>3, <1>5, GoesMoves, SameOperations, QuietStep
<1>6. \A b \in Callers : Free => caller[b].step \notin {"writing", "announcing"}
  BY OthersOutside, ResultKinds DEF Free, IInv
<1>7. CASE /\ Free /\ Replaceable(r, base) /\ (torn => Active = None)
           /\ adoption' = new /\ Goes(c, "writing")
           /\ UNCHANGED <<dead, torn, faults>>
  <2>1. PICK k : /\ caller' = [caller EXCEPT ![c] = k] /\ k.step = "writing"
                 /\ k.base = base /\ k.result = r
    BY <1>3, <1>7, GoesCall DEF IInv
  <2>2. faults' = 0 => adoption'[base] = "superseded"
    BY <1>1, <1>7, OldIsBase
  <2>3. faults' = 0 => base # r
    BY <1>2, <1>7 DEF Replaceable, Base
  <2>4. \A a \in Results : adoption[a] # "none" => adoption'[a] # "none"
    BY <1>4, <1>7
  <2>5. Spends  BY <1>7 DEF Spends
  <2> HIDE DEF r, base, new
  <2> QED  BY <1>1, <1>2, <1>6, <1>7, <2>1, <2>2, <2>3, <2>4, <2>5, ChangeStep DEF Base
<1>8. CASE /\ Free /\ torn /\ Replaceable(r, base) /\ Active # None
           /\ adoption' = new /\ Goes(c, "restoring") /\ UNCHANGED <<dead, torn, faults>>
  <2>1. PICK k : /\ caller' = [caller EXCEPT ![c] = k] /\ k.step = "restoring"
                 /\ k.base = base /\ k.result = r
    BY <1>3, <1>8, GoesCall DEF IInv
  <2>2. adoption'[base] = "superseded"
    BY <1>1, <1>8, OldIsBase
  <2>3. faults' # 0 /\ dead' = {}
    BY <1>8 DEF KeptInv, OneFault
  <2>4. Spends  BY <1>8 DEF Spends
  <2> HIDE DEF r, base, new
  <2> QED  BY <1>1, <1>2, <2>1, <2>2, <2>3, <2>4, ChangeStep DEF Base
<1>9. \/ /\ Free /\ Replaceable(r, base) /\ (torn => Active = None)
         /\ adoption' = new /\ Goes(c, "writing")
         /\ UNCHANGED <<dead, torn, faults>>
      \/ /\ Free /\ torn /\ Replaceable(r, base) /\ Active # None
         /\ adoption' = new /\ Goes(c, "restoring") /\ UNCHANGED <<dead, torn, faults>>
      \/ Goes(c, "restoring") /\ UNCHANGED adoption /\ Spends
  BY DEF Supersede, Unannounced, GivesUp, WriteFails, AppendTears, Fault, weather, Spends
<1> QED  BY <1>5, <1>7, <1>8, <1>9

LEMMA WriteKept ==
  ASSUME MaxFaults \in {0, 1}, IInv, KeptInv, NEW c \in Callers, WriteAdoption(c)
  PROVE  KeptInv'
<1> DEFINE r == caller[c].result
           base == caller[c].base
<1>1. /\ caller[c].step = "writing" /\ caller[c].step \in AdjustSteps
      /\ r \in Results /\ holder = c /\ UNCHANGED operation
  BY ResultKinds DEF WriteAdoption, At, AdjustSteps, IInv, CallsInv, Knows
<1>2. Base(base) /\ (faults = 0 => Replaced(base) /\ base # r)
  BY <1>1 DEF KeptInv, Bases, InBetween
<1>3. "announcing" \in Steps /\ "restoring" \in Steps  BY DEF Steps
<1>4. \A b \in Callers \ {c} : caller[b].step \notin {"writing", "announcing"}
  BY <1>1, OthersOutside DEF IInv
<1>5. CASE adoption' = [adoption EXCEPT ![r] = "adopted"] /\ Goes(c, "announcing") /\ UNCHANGED weather
  <2>1. PICK k : /\ caller' = [caller EXCEPT ![c] = k] /\ k.step = "announcing"
                 /\ k.base = base /\ k.result = r
    BY <1>3, <1>5, GoesCall DEF IInv
  <2>2. \A a \in Results : adoption'[a] = IF a = r THEN "adopted" ELSE adoption[a]
    BY <1>5 DEF IInv, AdoptionInv, Adoptions
  <2>3. Spends /\ faults' = faults  BY <1>5 DEF weather, Spends
  <2> HIDE DEF r, base
  <2>4. faults' = 0 => adoption'[base] = "superseded" /\ base # r
    BY <1>2, <2>2, <2>3 DEF Replaced
  <2>5. base \in Results /\ (faults' = 0 => adoption'[base] # "none")
    BY <1>2, <2>4 DEF Base
  <2>6. adoption'[r] = "adopted" /\ \A a \in Results : adoption[a] # "none" => adoption'[a] # "none"
    BY <1>1, <2>2
  <2> QED  BY <1>1, <1>4, <2>1, <2>3, <2>4, <2>5, <2>6, ChangeStep
<1>6. CASE Fault /\ Goes(c, "restoring") /\ UNCHANGED <<adoption, dead, torn>>
  <2>1. PICK k : /\ caller' = [caller EXCEPT ![c] = k] /\ k.step = "restoring"
                 /\ k.base = base /\ k.result = r
    BY <1>3, <1>6, GoesCall DEF IInv
  <2>2. Spends  BY <1>6 DEF Fault, Spends
  <2>3. faults = 0 /\ faults' # 0 /\ dead' = {}
    BY <1>6 DEF Fault, KeptInv, OneFault
  <2> HIDE DEF r, base
  <2>4. adoption'[base] = "superseded" /\ base \in Results
    BY <1>2, <1>6, <2>3 DEF Replaced
  <2> QED  BY <1>1, <2>1, <2>2, <2>3, <2>4, ChangeStep
<1> QED  BY <1>5, <1>6 DEF WriteAdoption, Leaves

LEMMA AnnounceKept ==
  ASSUME MaxFaults \in {0, 1}, IInv, KeptInv, NEW c \in Callers, AnnounceAdoption(c)
  PROVE  KeptInv'
<1> DEFINE r == caller[c].result
           base == caller[c].base
<1>1. /\ caller[c].step = "announcing" /\ caller[c].step \in AdjustSteps /\ ~Fills(c)
      /\ UNCHANGED operation
  BY DEF AnnounceAdoption, At, AdjustSteps, Fills
<1>2. Base(base) /\ (faults = 0 => Replaced(base) /\ base # r)
  BY <1>1 DEF KeptInv, Bases, InBetween
<1>3. "closing" \in Steps /\ "restoring" \in Steps  BY DEF Steps
<1>4. CASE /\ Goes(c, "restoring") \/ Goes(c, "closing")
           /\ UNCHANGED <<adoption, dead, torn, faults>>
  <2>1. Spends  BY <1>4 DEF Spends
  <2>2. \A b \in Callers : Moves(b)  BY <1>1, <1>3, <1>4, GoesMoves
  <2> QED  BY <1>1, <1>4, <2>1, <2>2, SameOperations, QuietStep
<1>5. CASE /\ Fault /\ Goes(c, "restoring") /\ UNCHANGED dead
           /\ adoption' = [adoption EXCEPT ![r] = "none"]
  <2>1. PICK k : /\ caller' = [caller EXCEPT ![c] = k] /\ k.step = "restoring"
                 /\ k.base = base /\ k.result = r
    BY <1>3, <1>5, GoesCall DEF IInv
  <2>2. Spends  BY <1>5 DEF Fault, Spends
  <2>3. faults = 0 /\ faults' # 0 /\ dead' = {}
    BY <1>5 DEF Fault, KeptInv, OneFault
  <2>4. adoption'[base] = adoption[base]
    BY <1>2, <1>5, <2>3 DEF IInv, AdoptionInv, Adoptions, Replaced
  <2> HIDE DEF r, base
  <2>5. adoption'[base] = "superseded" /\ base \in Results
    BY <1>2, <2>3, <2>4 DEF Replaced
  <2> QED  BY <1>1, <2>1, <2>2, <2>3, <2>5, ChangeStep
<1>6. \/ /\ Goes(c, "restoring") \/ Goes(c, "closing")
         /\ UNCHANGED <<adoption, dead, torn, faults>>
      \/ /\ Fault /\ Goes(c, "restoring") /\ UNCHANGED dead
         /\ adoption' = [adoption EXCEPT ![r] = "none"]
  BY DEF AnnounceAdoption, Leaves
<1> QED  BY <1>4, <1>5, <1>6

LEMMA RestoreKept ==
  ASSUME MaxFaults \in {0, 1}, IInv, KeptInv, NEW c \in Callers, Restore(c)
  PROVE  KeptInv'
<1> DEFINE base == caller[c].base
           restored == [adoption EXCEPT ![base] = "adopted"]
<1>1. /\ caller[c].step = "restoring" /\ caller[c].step \in AdjustSteps
      /\ UNCHANGED operation
  BY DEF Restore, At, AdjustSteps
<1>2. Base(base)
  BY <1>1 DEF KeptInv, Bases
<1>3. "cleaning" \in Steps /\ "idle" \in Steps  BY DEF Steps
<1>4. ASSUME Gap => ~Fills(c), Goes(c, "cleaning") \/ Goes(c, "idle"), UNCHANGED adoption, Spends
      PROVE  KeptInv'
  <2>1. \A b \in Callers : Moves(b)  BY <1>1, <1>3, <1>4, NotAdjusting, GoesMoves
  <2> QED  BY <1>1, <1>4, <2>1, SameOperations, QuietStep
<1>5. CASE Conflict(base) /\ UNCHANGED <<adoption, weather>>
           /\ (Goes(c, "cleaning") \/ Goes(c, "idle"))
  <2>1. Gap => ~Fills(c)
    BY <1>1, <1>5, ActiveAdopted DEF Conflict, Gap, Fills, Replaced
  <2>2. Spends  BY <1>5 DEF weather, Spends
  <2> QED  BY <1>4, <1>5, <2>1, <2>2
<1>6. CASE Free /\ ~Conflict(base) /\ adoption' = restored
           /\ (Goes(c, "cleaning") \/ Goes(c, "idle")) /\ Spends
  <2>1. PICK k : /\ caller' = [caller EXCEPT ![c] = k] /\ k.step \in {"cleaning", "idle"}
                 /\ k.step = "cleaning" => k.base = base
    BY <1>3, <1>6, GoesCall DEF IInv
  <2>2. /\ adoption'[base] = "adopted" /\ base \in Results
        /\ \A a \in Results : adoption[a] # "none" => adoption'[a] # "none"
    BY <1>2, <1>6 DEF IInv, AdoptionInv, Adoptions, Base
  <2>3. \A b \in Callers : caller[b].step \notin {"writing", "announcing"}
    BY <1>6, OthersOutside, ResultKinds DEF Free, IInv
  <2> HIDE DEF base
  <2>4. k.step \in AdjustSteps => k.base \in Results /\ (faults' = 0 => adoption'[k.base] # "none")
    BY <2>1, <2>2, NotAdjusting
  <2> QED  BY <1>1, <1>6, <2>1, <2>2, <2>3, <2>4, ChangeStep
<1>7. CASE WriteFails /\ UNCHANGED adoption /\ Returns(c)
  <2>1. faults = 0  BY <1>7 DEF WriteFails, Fault, KeptInv, OneFault
  <2>2. ~Fills(c)  BY <1>1, <2>1 DEF Fills
  <2>3. Spends /\ Goes(c, "idle")  BY <1>7 DEF WriteFails, Fault, Spends, Goes
  <2> QED  BY <1>4, <1>7, <2>2, <2>3
<1>8. CASE GivesUp /\ UNCHANGED adoption /\ Returns(c)
  <2>1. dead # {}  BY <1>8 DEF GivesUp
  <2>2. ~Fills(c)  BY <1>1, <2>1 DEF Fills
  <2>3. Spends /\ Goes(c, "idle")  BY <1>8 DEF GivesUp, weather, Spends, Goes
  <2> QED  BY <1>4, <1>8, <2>2, <2>3
<1>9. \/ Conflict(base) /\ UNCHANGED <<adoption, weather>>
         /\ (Goes(c, "cleaning") \/ Goes(c, "idle"))
      \/ Free /\ ~Conflict(base) /\ adoption' = restored
         /\ (Goes(c, "cleaning") \/ Goes(c, "idle")) /\ Spends
      \/ WriteFails /\ UNCHANGED adoption /\ Returns(c)
      \/ GivesUp /\ UNCHANGED adoption /\ Returns(c)
  BY DEF Restore, Announced, Unannounced, WriteFails, AppendTears, Fault, weather, Spends, Goes
<1> QED  BY <1>5, <1>6, <1>7, <1>8, <1>9

LEMMA InitKept == Init => KeptInv
<1> SUFFICES ASSUME Init PROVE KeptInv
  OBVIOUS
<1>1. \A c \in Callers : caller[c].step = "idle"
  BY DEF Init, Idle
<1>2. OneFault /\ InBetween
  BY <1>1 DEF Init, OneFault, InBetween
<1>3. Bases
  BY <1>1, NotAdjusting DEF Init, Bases, NoOperation
<1>4. Covered
  BY DEF Init, Covered, Gap, Replaced
<1> QED  BY <1>2, <1>3, <1>4 DEF KeptInv

LEMMA NextKept ==
  ASSUME MaxFaults \in {0, 1}, IInv, KeptInv, [Next]_vars
  PROVE  KeptInv'
<1>1. ASSUME NEW c \in Callers, Act(c) PROVE KeptInv'
  BY <1>1, ItemKept, PrepareKept, OperationKept, OtherKept, ApproveKept, SupersedeKept,
     WriteKept, AnnounceKept, RestoreKept DEF Act
<1>2. ASSUME NEW c \in Callers,
             \/ \E d \in Approvals : Apply(c, d)
             \/ \E r \in Corrections : Adjust(c, r) \/ Continue(c, r)
             \/ \E a \in Results : LockResult(c, a)
      PROVE  KeptInv'
  BY <1>2, BeginKept
<1>3. ASSUME \/ \E c \in Callers : Die(c)
             \/ \E a \in Results : Resolve(a)
             \/ OtherItemMoves
             \/ UNCHANGED vars
      PROVE  KeptInv'
  BY <1>3, OtherKept
<1> QED  BY <1>1, <1>2, <1>3 DEF Next

\* One failure at any place of an adjustment, or the end of any process, leaves the
\* old result or the new one, or a call that is about to adopt one, for any number
\* of adjustments and callers at a time (adopt_result, restore_adoption_status).
THEOREM Kept ==
  ASSUME MaxFaults \in {0, 1}
  PROVE  Spec => []AuthorityKept
<1>1. KeptInv => AuthorityKept
  <2> SUFFICES ASSUME KeptInv, NEW a \in Results, adoption[a] = "superseded", Active = None
               PROVE  \E c \in Callers : Replacing(c)
    BY DEF AuthorityKept
  <2>1. Gap  BY ActiveAdopted DEF Gap, Replaced
  <2> QED  BY <2>1 DEF KeptInv, Covered, Fills, Replacing
<1>2. Init => IInv /\ KeptInv
  BY InitInv, InitKept
<1>3. IInv /\ KeptInv /\ [Next]_vars => (IInv /\ KeptInv)'
  BY StepInv, NextKept
<1> QED  BY <1>1, <1>2, <1>3, PTL DEF Spec

----------------------------------------------------------------------------
(* The result that counts stays readable: a third invariant, for requests that *)
(* are sent again only at prepared and not while their first call is under way. *)
(* An adjustment writes and deletes the files of a result that was never       *)
(* adopted, and adopts it when they are all there.                             *)

EarlySteps ==
  {"opening", "scoring", "validating", "committing", "recording", "checking",
   "superseding", "writing"}
LateSteps ==
  {"recording", "checking", "superseding", "writing", "announcing", "closing",
   "restoring", "cleaning"}

Lives(c) == c \notin dead /\ caller[c].step \in AdjustSteps

Begun(r) == operation[r].stage \notin {"none", "prepared"}

\* Somebody is about to replace a.
Heir(b, a) == caller[b].step \in {"checking", "superseding"} /\ caller[b].base = a
Heirless(a) == \A b \in Callers : ~Heir(b, a)

\* An adjustment has started from a.
Started(a) ==
  \/ \E b \in Callers : caller[b].step \in AdjustSteps /\ caller[b].base = a
  \/ \E r \in Corrections : operation[r].stage # "none" /\ operation[r].base = a

\* What a call has done of its adjustment, and nobody else. A result that was
\* adopted though its announcement failed is not cleaned up: nobody is about to
\* replace it, and the restoration that would let it be finds it adopted.
Done(c) ==
  LET r == caller[c].result
      step == caller[c].step
  IN  /\ caller[c].base \in Results \ {r}
      /\ step \in LateSteps => Begun(r)
      /\ adoption[r] # "none" =>
           \/ step \in {"announcing", "closing"}
           \/ step = "restoring" /\ torn /\ adoption[r] = "adopted" /\ Heirless(r)
      /\ step = "announcing" => adoption[r] = "adopted" /\ (torn => Heirless(r))
      /\ step \in EarlySteps => ~Started(r)
      /\ step \in {"superseding", "writing"} => Bound(r)

Apart ==
  \A b, c \in Callers : b # c /\ Lives(b) /\ Lives(c) => caller[b].result # caller[c].result

Backs ==
  /\ \A r \in Corrections : adoption[r] # "none" \/ Started(r) => Begun(r)
  /\ \A r \in Corrections : adoption[r] # "none" => Bound(r)

Sourced == \A r \in Corrections : operation[r].stage # "none" => operation[r].base \in Results

Unlocked == \A c \in Callers : caller[c].step \in {"writing", "announcing"} => finalLock = None

FirstCalls == \A c \in Callers : caller[c].found # "committing"

ReadableInv ==
  FirstCalls /\ Apart /\ (\A c \in Callers : Lives(c) => Done(c)) /\ Backs /\ Sourced /\ Unlocked

----------------------------------------------------------------------------

Same(b) ==
  /\ caller'[b].step = caller[b].step /\ caller'[b].result = caller[b].result
  /\ caller'[b].base = caller[b].base /\ caller'[b].found = caller[b].found

\* A step of call c, about the result r: what it must leave alone.
LEMMA ReadableStep ==
  ASSUME IInv, ReadableInv, NEW c \in Callers, NEW r,
         \A b \in Callers \ {c} : Same(b), dead \subseteq dead',
         Lives(c)' => caller'[c].result = r,
         \A b \in Callers \ {c} : Lives(b) => caller[b].result # r,
         \A x \in Corrections : Begun(x) => Begun(x)',
         \A x \in Corrections : Started(x)' => Started(x) \/ adoption[x] # "none",
         torn => torn', torn' => torn \/ \A b \in Callers \ {c} : caller[b].step # "announcing",
         \A x \in Corrections : Heir(c, x)' /\ torn' => Heir(c, x),
         \A x \in Corrections \ {r} :
           \/ adoption'[x] = adoption[x]
           \/ /\ adoption[x] # "none" /\ adoption'[x] # "none"
              /\ \A b \in Callers \ {c} : Lives(b) /\ caller[b].result = x => caller[b].step = "closing",
         \A x \in Corrections \ {r} : files'[x] = files[x],
         Sourced', Unlocked', caller'[c].found # "committing",
         Lives(c)' => Done(c)',
         r \in Corrections /\ adoption'[r] # "none" => Begun(r)' /\ Bound(r)'
  PROVE  ReadableInv'
<1>1. FirstCalls'
  BY DEF FirstCalls, ReadableInv, Same
<1>2. ASSUME NEW b \in Callers \ {c}, Lives(b)'
      PROVE  Lives(b) /\ caller'[b].result = caller[b].result /\ caller[b].result # r
             /\ caller[b].result \in Corrections
  BY <1>2 DEF Lives, Same, IInv, CallsInv, Knows
<1>3. Apart'
  BY <1>2 DEF Apart, ReadableInv
<1>4. \A x \in Corrections \ {r} : Bound(x)' <=> Bound(x)
  BY DEF Bound
<1>5. Backs'
  <2>1. ASSUME NEW x \in Corrections, adoption'[x] # "none" \/ Started(x)' PROVE Begun(x)'
    BY <2>1 DEF ReadableInv, Backs
  <2>2. ASSUME NEW x \in Corrections, adoption'[x] # "none" PROVE Bound(x)'
    BY <1>4, <2>2 DEF ReadableInv, Backs
  <2> QED  BY <2>1, <2>2 DEF Backs
<1>6. ASSUME NEW b \in Callers \ {c}, Lives(b)' PROVE Done(b)'
  <2> PICK x, step : x = caller[b].result /\ step = caller[b].step
    OBVIOUS
  <2>1. Done(b) /\ Lives(b) /\ x \in Corrections \ {r} /\ Same(b)
    BY <1>2, <1>6 DEF ReadableInv
  <2>2. torn' /\ torn /\ Heirless(x) => Heirless(x)'
    BY <2>1 DEF Heirless, Heir, Same
  <2>3. step \in EarlySteps => ~Started(x)'
    <3>1. step \in EarlySteps => adoption[x] = "none" /\ ~Started(x)
      BY <2>1 DEF Done, EarlySteps
    <3> QED  BY <2>1, <3>1
  <2>4. adoption'[x] = adoption[x] \/ step = "closing"
    BY <2>1
  <2>5. step \in LateSteps => Begun(x)'
    BY <2>1 DEF Done
  <2>6. step \in {"superseding", "writing"} => Bound(x)'
    BY <1>4, <2>1 DEF Done
  <2>7. adoption'[x] # "none" =>
           \/ step \in {"announcing", "closing"}
           \/ step = "restoring" /\ torn' /\ adoption'[x] = "adopted" /\ Heirless(x)'
    <3>1. CASE adoption'[x] = adoption[x]
      BY <2>1, <2>2, <3>1 DEF Done
    <3> QED  BY <2>4, <3>1
  <2>8. step = "announcing" => adoption'[x] = "adopted" /\ (torn' => Heirless(x)')
    <3>1. step = "announcing" => adoption[x] = "adopted" /\ (torn => Heirless(x))
      BY <2>1 DEF Done
    <3>2. step = "announcing" => (torn' => torn)
      OBVIOUS
    <3> QED  BY <2>2, <2>4, <3>1, <3>2
  <2>9. caller'[b].step = step /\ caller'[b].result = x /\ caller'[b].base \in Results \ {x}
    BY <2>1 DEF Same, Done
  <2> QED  BY <2>3, <2>5, <2>6, <2>7, <2>8, <2>9 DEF Done
<1> QED  BY <1>1, <1>3, <1>5, <1>6 DEF ReadableInv

----------------------------------------------------------------------------
(* The steps of an adjustment that leave the adoptions alone. *)

LEMMA GoesReadable ==
  ASSUME IInv, ReadableInv, NEW c \in Callers, Lives(c), NEW r, r = caller[c].result,
         NEW s \in Steps \ {"writing", "announcing"}, Goes(c, s),
         UNCHANGED <<adoption, finalLock, dead>>,
         torn => torn', torn' => torn \/ Free,
         \A x \in Corrections : Begun(x) => Begun(x)',
         \A x \in Corrections : operation'[x].stage # "none" =>
           \/ operation[x].stage # "none" /\ operation'[x].base = operation[x].base
           \/ operation'[x].base = caller[c].base,
         \A x \in Corrections \ {r} : files'[x] = files[x],
         s = "checking" => ~torn', s = "superseding" => caller[c].step = "checking" /\ Bound(r)',
         s \in LateSteps => Begun(r)', s \in EarlySteps => caller[c].step \in EarlySteps,
         adoption[r] # "none" => Bound(r)',
         s \in AdjustSteps /\ adoption[r] # "none" =>
           s = "closing" \/ (s = "restoring" /\ torn' /\ adoption[r] = "adopted" /\ Heirless(r))
  PROVE  ReadableInv'
<1>1. PICK k : /\ caller' = [caller EXCEPT ![c] = k] /\ k.step = s
               /\ s # "idle" => k.base = caller[c].base /\ k.result = r /\ k.found = caller[c].found
               /\ s = "idle" => k = Idle
  <2>1. CASE s = "idle"
    BY <2>1 DEF Goes, Returns, Idle
  <2>2. CASE s # "idle"
    BY <2>2, GoesCall DEF IInv
  <2> QED  BY <2>1, <2>2
<1>2. caller'[c] = k /\ \A b \in Callers \ {c} : Same(b) /\ caller'[b] = caller[b]
  BY <1>1 DEF IInv, CallsInv, Same
<1>3. Lives(c) /\ Done(c) /\ r \in Corrections /\ caller[c].base \in Results \ {r} /\ caller[c].step \in AdjustSteps
  BY DEF ReadableInv, Done, Lives, IInv, CallsInv, Knows
<1>4. Lives(c)' => s \in AdjustSteps /\ s # "idle"
  BY <1>1, <1>2, NotAdjusting DEF Lives
<1>5. \A b \in Callers \ {c} : Lives(b) => caller[b].result # r
  BY DEF ReadableInv, Apart
<1>6. \A x \in Corrections : Started(x)' => Started(x)
  <2> TAKE x \in Corrections
  <2>1. ASSUME NEW b \in Callers, caller'[b].step \in AdjustSteps, caller'[b].base = x PROVE Started(x)
    <3>1. CASE b = c
      <4>1. s # "idle"  BY <1>1, <1>2, <2>1, <3>1, NotAdjusting
      <4> QED  BY <1>1, <1>2, <1>3, <2>1, <3>1, <4>1 DEF Started
    <3>2. CASE b # c  BY <1>2, <2>1, <3>2 DEF Started
    <3> QED  BY <3>1, <3>2
  <2>2. ASSUME NEW y \in Corrections, operation'[y].stage # "none", operation'[y].base = x PROVE Started(x)
    <3>1. CASE operation[y].stage # "none" /\ operation'[y].base = operation[y].base
      BY <2>2, <3>1 DEF Started
    <3>2. CASE operation'[y].base = caller[c].base
      BY <1>3, <2>2, <3>2 DEF Started
    <3> QED  BY <2>2, <3>1, <3>2
  <2> QED  BY <2>1, <2>2 DEF Started
<1>7. torn' => torn \/ \A b \in Callers \ {c} : caller[b].step # "announcing"
  BY OthersOutside, ResultKinds DEF Free, IInv
<1>8. \A x \in Corrections : Heir(c, x)' /\ torn' => Heir(c, x)
  BY <1>1, <1>2 DEF Heir
<1>9. Unlocked'
  BY <1>1, <1>2 DEF ReadableInv, Unlocked
<1>15. Sourced'
  BY <1>3 DEF ReadableInv, Sourced
<1>10. caller'[c].found # "committing"
  BY <1>1, <1>2 DEF ReadableInv, FirstCalls, Idle
<1>11. ASSUME Lives(c)' PROVE Done(c)'
  <2>1. caller'[c].result = r /\ caller'[c].step = s /\ caller'[c].base \in Results \ {r}
    BY <1>1, <1>2, <1>3, <1>4, <1>11
  <2>2. s \in EarlySteps => ~Started(r)'
    BY <1>3, <1>6 DEF Done
  <2>3. s = "restoring" /\ torn' /\ Heirless(r) => Heirless(r)'
    <3> SUFFICES ASSUME s = "restoring", Heirless(r), NEW b \in Callers PROVE ~Heir(b, r)'
      BY DEF Heirless
    <3> QED  BY <1>1, <1>2 DEF Heirless, Heir
  <2> QED  BY <1>4, <1>11, <2>1, <2>2, <2>3 DEF Done
<1>12. r \in Corrections /\ adoption'[r] # "none" => Begun(r)' /\ Bound(r)'
  BY DEF ReadableInv, Backs
<1>13. Lives(c)' => caller'[c].result = r
  BY <1>1, <1>2, <1>4
<1> QED  BY <1>2, <1>5, <1>6, <1>7, <1>8, <1>9, <1>10, <1>11, <1>12, <1>13, <1>15, ReadableStep

LEMMA Unadopted ==
  ASSUME IInv, ReadableInv, NEW c \in Callers, Lives(c), NEW r, r = caller[c].result,
         caller[c].step \notin {"announcing", "closing", "restoring"}
  PROVE  /\ r \in Corrections /\ adoption[r] = "none" /\ ~ (r \in Results /\ adoption[r] = "adopted")
         /\ caller[c].step \in LateSteps => Begun(r)
         /\ caller[c].step \in EarlySteps => ~Started(r)
  BY DEF ReadableInv, Done, Lives, IInv, CallsInv, Knows

LEMMA SectionTorn ==
  ASSUME OtherTypes, NEW c, NEW ACTION write, NEW good, NEW bad, Section(c, write, good, bad)
  PROVE  (torn => torn') /\ (torn' => torn \/ Free) /\ dead' = dead
         /\ \/ write /\ Goes(c, good) /\ ~torn'
            \/ write /\ Goes(c, bad)
            \/ UNCHANGED records /\ Goes(c, bad)
  BY DEF Section, Announced, Unannounced, GivesUp, WriteFails, AppendTears, weather, OtherTypes

\* The steps before an adjustment replaces anything, and those after it.
LEMMA PrepareReadable ==
  ASSUME IInv, ReadableInv, NEW c \in Callers,
         WriteSnapshot(c) \/ WriteValidation(c) \/ CleanUp(c)
  PROVE  ReadableInv'
<1> PICK r : r = caller[c].result
  OBVIOUS
<1>1. /\ caller[c].step \in {"scoring", "validating", "cleaning"} /\ Lives(c)
      /\ caller[c].step \in EarlySteps \/ caller[c].step = "cleaning"
  BY DEF WriteSnapshot, WriteValidation, ScoreFact, CleanUp, At, Lives, AdjustSteps, EarlySteps
<1>2. r \in Corrections /\ adoption[r] = "none" /\ caller[c].found # "committing"
  BY <1>1, Unadopted DEF ReadableInv, FirstCalls
<1>3. /\ UNCHANGED <<adoption, operation, finalLock, dead, torn>>
      /\ \A x \in Corrections \ {r} : files'[x] = files[x]
      /\ \/ Goes(c, "marking") \/ Goes(c, "idle")
         \/ caller[c].step \in EarlySteps /\ (Goes(c, "validating") \/ Goes(c, "committing"))
  <2>1. ASSUME NEW step, NEW fact, NEW next, ScoreFact(c, step, fact, next)
        PROVE  /\ UNCHANGED <<adoption, operation, finalLock, dead, torn>>
               /\ \A x \in Corrections \ {r} : files'[x] = files[x]
               /\ Goes(c, "marking") \/ Goes(c, "idle") \/ Goes(c, next)
    <3>1. UNCHANGED <<adoption, operation, finalLock, dead, torn>>
      BY <2>1 DEF ScoreFact, weather
    <3>2. \A x \in Corrections \ {r} : files'[x] = files[x]
      BY <2>1 DEF ScoreFact, IInv, OtherTypes
    <3>3. Goes(c, "marking") \/ Goes(c, "idle") \/ Goes(c, next)
      BY <2>1 DEF ScoreFact, Goes
    <3> QED  BY <3>1, <3>2, <3>3
  <2>2. CASE WriteSnapshot(c)
    BY <2>1, <2>2 DEF WriteSnapshot, ScoreFact, At, EarlySteps
  <2>3. CASE WriteValidation(c)
    <3>1. ScoreFact(c, "validating", "validation", "committing")
      BY <1>2, <2>3 DEF WriteValidation
    <3> QED  BY <2>1, <3>1 DEF ScoreFact, At, EarlySteps
  <2>4. CASE CleanUp(c)
    <3>1. UNCHANGED <<adoption, operation, finalLock, dead, torn>> /\ Goes(c, "marking")
      BY <2>4 DEF CleanUp, weather
    <3>2. \A x \in Corrections \ {r} : files'[x] = files[x]
      BY <2>4 DEF CleanUp, IInv, OtherTypes
    <3> QED  BY <3>1, <3>2
  <2> QED  BY <2>2, <2>3, <2>4
<1>4. \A x \in Corrections : (Begun(x) => Begun(x)') /\ operation'[x] = operation[x]
  BY <1>3 DEF Begun
<1>5. ASSUME NEW s \in {"marking", "idle", "validating", "committing"}, Goes(c, s),
             s \in EarlySteps => caller[c].step \in EarlySteps
      PROVE  ReadableInv'
  <2>1. /\ s \in Steps \ {"writing", "announcing"} /\ s \notin LateSteps
        /\ s \notin {"checking", "superseding"}
    BY DEF Steps, LateSteps
  <2> QED  BY <1>1, <1>2, <1>3, <1>4, <1>5, <2>1, GoesReadable
<1>6. "marking" \notin EarlySteps /\ "idle" \notin EarlySteps
  BY DEF EarlySteps
<1> QED  BY <1>3, <1>5, <1>6

LEMMA RecordReadable ==
  ASSUME IInv, ReadableInv, NEW c \in Callers, RecordAdjustment(c) \/ CheckAdoption(c)
  PROVE  ReadableInv'
<1> PICK r : r = caller[c].result
  OBVIOUS
<1> DEFINE write == /\ files' = [files EXCEPT ![caller[c].result] = @ \cup {"record"}]
                    /\ UNCHANGED <<adoption, operation, finalLock, review, item>>
<1>1. /\ caller[c].step \in {"recording", "checking"} /\ Lives(c)
      /\ caller[c].step \in EarlySteps /\ caller[c].step \in LateSteps
  BY DEF RecordAdjustment, CheckAdoption, At, Lives, AdjustSteps, EarlySteps, LateSteps
<1>2. r \in Corrections /\ adoption[r] = "none" /\ Begun(r)
  BY <1>1, Unadopted
<1>3. /\ UNCHANGED <<adoption, operation, finalLock, dead>>
      /\ (torn => torn') /\ (torn' => torn \/ Free)
      /\ \A x \in Corrections \ {r} : files'[x] = files[x]
      /\ \/ Goes(c, "checking") /\ ~torn'
         \/ Goes(c, "superseding") /\ caller[c].step = "checking" /\ Bound(r)'
         \/ Goes(c, "restoring") \/ Goes(c, "cleaning")
  <2>1. CASE RecordAdjustment(c)
    <3>1. CASE Section(c, write, "checking", "cleaning")
      <4> HIDE DEF write
      <4>1. /\ (torn => torn') /\ (torn' => torn \/ Free) /\ dead' = dead
            /\ write \/ UNCHANGED records
            /\ (Goes(c, "checking") /\ ~torn') \/ Goes(c, "cleaning")
        BY <3>1, SectionTorn DEF IInv
      <4>2. UNCHANGED <<adoption, operation, finalLock>> /\ \A x \in Corrections \ {r} : files'[x] = files[x]
        BY <4>1 DEF write, records, IInv, OtherTypes
      <4> QED  BY <4>1, <4>2
    <3>2. CASE Goes(c, "cleaning") /\ UNCHANGED <<records, weather>>
      BY <3>2 DEF records, weather
    <3> QED  BY <2>1, <3>1, <3>2 DEF RecordAdjustment
  <2>2. CASE CheckAdoption(c)
    <3>1. UNCHANGED <<records, weather>> /\ caller[c].step = "checking"
      BY <2>2 DEF CheckAdoption, At
    <3>2. (Goes(c, "superseding") /\ Bound(r)) \/ Goes(c, "restoring")
      BY <2>2 DEF CheckAdoption
    <3>3. Bound(r)' <=> Bound(r)
      BY <3>1 DEF Bound, records
    <3> QED  BY <3>1, <3>2, <3>3 DEF records, weather
  <2> QED  BY <2>1, <2>2
<1>4. \A x \in Corrections : (Begun(x) => Begun(x)') /\ operation'[x] = operation[x]
  BY <1>3 DEF Begun
<1>5. ASSUME NEW s \in {"checking", "superseding", "restoring", "cleaning"}, Goes(c, s),
             s = "checking" => ~torn',
             s = "superseding" => caller[c].step = "checking" /\ Bound(r)'
      PROVE  ReadableInv'
  <2>1. s \in Steps \ {"writing", "announcing"}
    BY DEF Steps
  <2> HIDE DEF write
  <2> QED  BY <1>1, <1>2, <1>3, <1>4, <1>5, <2>1, GoesReadable
<1> HIDE DEF write
<1> QED  BY <1>3, <1>5

LEMMA OperationReadable ==
  ASSUME IInv, ReadableInv, NEW c \in Callers,
         OpenOperation(c) \/ Commit(c) \/ Close(c) \/ MarkFailed(c)
  PROVE  ReadableInv'
<1> PICK r : r = caller[c].result
  OBVIOUS
<1> DEFINE write == /\ operation' = [operation EXCEPT ![caller[c].result] =
                                       [stage |-> "prepared", base |-> caller[c].base]]
                    /\ UNCHANGED <<adoption, files, finalLock, review, item>>
<1>1. /\ caller[c].step \in {"opening", "committing", "closing", "marking"}
      /\ Lives(c) /\ r \in Corrections
  BY DEF OpenOperation, Commit, Close, MarkFailed, Advance, At, Lives, AdjustSteps, IInv,
         CallsInv, Knows
<1>2. /\ UNCHANGED <<adoption, files, finalLock, dead>>
      /\ (torn => torn') /\ (torn' => torn \/ Free)
      /\ \A x \in Corrections : Begun(x) => Begun(x)'
      /\ \A x \in Corrections : operation'[x].stage # "none" =>
           \/ operation[x].stage # "none" /\ operation'[x].base = operation[x].base
           \/ operation'[x].base = caller[c].base
      /\ \/ Goes(c, "idle")
         \/ Goes(c, "scoring") /\ caller[c].step = "opening"
         \/ Goes(c, "recording") /\ caller[c].step = "committing" /\ Begun(r)'
  <2>1. ASSUME NEW step, NEW from, NEW to, NEW good, "none" \notin from,
               to \in {"committing", "committed", "failed"}, Advance(c, step, from, to, good, "idle")
        PROVE  /\ UNCHANGED <<adoption, files, finalLock, dead, torn>>
               /\ \A x \in Corrections : Begun(x) => Begun(x)'
               /\ \A x \in Corrections : operation'[x].stage # "none" =>
                    operation[x].stage # "none" /\ operation'[x].base = operation[x].base
               /\ (Goes(c, good) /\ Begun(r)') \/ Goes(c, "idle")
    <3>1. UNCHANGED <<adoption, files, finalLock, dead, torn>>
      BY <2>1 DEF Advance, GivesUp, WriteFails, records, weather
    <3>2. CASE UNCHANGED operation /\ Goes(c, "idle")
      BY <3>1, <3>2 DEF Begun
    <3>3. CASE /\ operation[r].stage \in from \cup {to}
               /\ operation' = [operation EXCEPT ![r].stage = to] /\ Goes(c, good)
      <4>1. \A x \in Corrections : /\ operation'[x].base = operation[x].base
                                   /\ operation'[x].stage = IF x = r THEN to ELSE operation[x].stage
        BY <1>1, <3>3 DEF IInv, OtherTypes
      <4>2. operation[r].stage # "none" /\ to \notin {"none", "prepared"}
        BY <2>1, <3>3
      <4>3. \A x \in Corrections : Begun(x) => Begun(x)'
        BY <4>1, <4>2 DEF Begun
      <4>4. Begun(r)'
        BY <1>1, <4>1, <4>2 DEF Begun
      <4> QED  BY <3>1, <3>3, <4>1, <4>2, <4>3, <4>4
    <3> QED  BY <2>1, <3>2, <3>3 DEF Advance, records
  <2>2. CASE Commit(c) \/ Close(c) \/ MarkFailed(c)
    <3>1. CASE Commit(c)
      <4>1. Advance(c, "committing", {"prepared"}, "committing", "recording", "idle")
        BY <3>1 DEF Commit
      <4>2. caller[c].step = "committing"
        BY <4>1 DEF Advance, At
      <4> QED  BY <2>1, <4>1, <4>2
    <3>2. CASE Close(c) \/ MarkFailed(c)
      BY <2>1, <3>2 DEF Close, MarkFailed
    <3> QED  BY <2>2, <3>1, <3>2
  <2>3. CASE OpenOperation(c)
    <3>1. CASE Section(c, write, "scoring", "idle") /\ operation[r].stage = "none"
      <4> HIDE DEF write
      <4>1. /\ (torn => torn') /\ (torn' => torn \/ Free) /\ dead' = dead
            /\ write \/ UNCHANGED records
            /\ Goes(c, "scoring") \/ Goes(c, "idle")
        BY <3>1, SectionTorn DEF IInv
      <4>2. CASE write
        <5>1. /\ UNCHANGED <<adoption, files, finalLock>>
              /\ \A x \in Corrections : operation'[x] =
                   IF x = r THEN [stage |-> "prepared", base |-> caller[c].base]
                   ELSE operation[x]
          BY <1>1, <4>2 DEF write, IInv, OtherTypes
        <5>2. \A x \in Corrections : Begun(x) => Begun(x)'
          BY <3>1, <5>1 DEF Begun
        <5> QED  BY <2>3, <4>1, <5>1, <5>2 DEF OpenOperation, At
      <4>3. CASE UNCHANGED records
        BY <2>3, <4>1, <4>3 DEF records, OpenOperation, At, Begun
      <4> QED  BY <4>1, <4>2, <4>3
    <3>2. CASE Returns(c) /\ UNCHANGED <<records, weather>>
      BY <3>2 DEF Goes, records, weather, Begun
    <3> QED  BY <2>3, <3>1, <3>2 DEF OpenOperation
  <2> QED  BY <2>2, <2>3
<1>3. (adoption[r] # "none" => Bound(r)') /\ \A x \in Corrections \ {r} : files'[x] = files[x]
  BY <1>1, <1>2 DEF ReadableInv, Backs, Bound
<1>4. CASE Goes(c, "idle")
  <2>1. /\ "idle" \in Steps \ {"writing", "announcing"} /\ "idle" \notin LateSteps \cup EarlySteps
    BY DEF Steps, LateSteps, EarlySteps
  <2> HIDE DEF write
  <2> QED  BY <1>1, <1>2, <1>3, <1>4, <2>1, NotAdjusting, GoesReadable
<1>5. CASE \E s \in {"scoring", "recording"} :
             /\ Goes(c, s) /\ caller[c].step \in {"opening", "committing"}
             /\ s = "recording" => Begun(r)'
  <2> PICK s \in {"scoring", "recording"} :
             /\ Goes(c, s) /\ caller[c].step \in {"opening", "committing"}
             /\ s = "recording" => Begun(r)'
    BY <1>5
  <2>1. s \in Steps \ {"writing", "announcing"} /\ (s \in LateSteps => s = "recording")
        /\ caller[c].step \in EarlySteps
    BY <1>5 DEF Steps, LateSteps, EarlySteps
  <2>2. adoption[r] = "none"
    BY <1>1, <1>5, Unadopted
  <2> HIDE DEF write
  <2> QED  BY <1>1, <1>2, <1>3, <1>5, <2>1, <2>2, GoesReadable
<1> HIDE DEF write
<1> QED  BY <1>2, <1>4, <1>5

----------------------------------------------------------------------------
(* Calls that begin, and calls that are about something else. *)

LEMMA BeginReadable ==
  ASSUME Repeats \subseteq {"prepared"}, Together = FALSE, IInv, ReadableInv, NEW c \in Callers,
         \E r \in Corrections : Adjust(c, r) \/ Continue(c, r)
  PROVE  ReadableInv'
<1> PICK r \in Corrections : Adjust(c, r) \/ Continue(c, r)
  OBVIOUS
<1>1. /\ UNCHANGED <<records, weather>> /\ operation[r].stage \in {"none", "prepared"}
      /\ Alone(r) /\ c \notin dead /\ caller[c].step = "idle"
  BY DEF Adjust, Continue, At
<1>2. ~Started(r) /\ adoption[r] = "none"
  BY <1>1 DEF ReadableInv, Backs, Begun
<1>3. \E k : /\ caller' = [caller EXCEPT ![c] = k] /\ k.step \in {"opening", "scoring"}
             /\ k.result = r /\ k.found # "committing" /\ k.base \in Results \ {r}
             /\ k.base \in Corrections => Started(k.base) \/ adoption[k.base] # "none"
  <2>1. CASE Adjust(c, r)
    <3> DEFINE k == [Idle EXCEPT !.step = "opening", !.result = r, !.base = Active]
    <3>1. /\ k.step = "opening" /\ k.result = r /\ k.found # "committing" /\ k.base = Active
          /\ caller' = [caller EXCEPT ![c] = k]
      BY <2>1 DEF Adjust, Idle
    <3>2. Active # None /\ Active \in Results /\ adoption[Active] = "adopted"
      BY <2>1, ActiveAdopted DEF Adjust, Adjustable
    <3>3. Active # r
      BY <1>2, <3>2
    <3> HIDE DEF k
    <3> QED  BY <3>1, <3>2, <3>3
  <2>2. CASE Continue(c, r)
    <3> DEFINE k == [Idle EXCEPT !.step = "scoring", !.result = r,
                                 !.base = operation[r].base, !.found = operation[r].stage]
    <3>1. /\ k.step = "scoring" /\ k.result = r /\ k.found = operation[r].stage
          /\ k.base = operation[r].base /\ caller' = [caller EXCEPT ![c] = k]
          /\ operation[r].stage = "prepared"
      BY <2>2 DEF Continue, Idle
    <3>2. Started(operation[r].base) /\ operation[r].base \in Results
      BY <3>1 DEF Started, ReadableInv, Sourced
    <3>3. operation[r].base # r
      BY <1>2, <3>2
    <3> HIDE DEF k
    <3> QED  BY <3>1, <3>2, <3>3
  <2> QED  BY <2>1, <2>2
<1>4. PICK k : /\ caller' = [caller EXCEPT ![c] = k] /\ k.step \in {"opening", "scoring"}
               /\ k.result = r /\ k.found # "committing" /\ k.base \in Results \ {r}
               /\ k.base \in Corrections => Started(k.base) \/ adoption[k.base] # "none"
  BY <1>3
<1>5. caller'[c] = k /\ \A b \in Callers \ {c} : Same(b) /\ caller'[b] = caller[b]
  BY <1>4 DEF IInv, CallsInv, Same
<1>6. UNCHANGED <<adoption, files, operation, finalLock, dead, torn>>
  BY <1>1 DEF records, weather
<1>7. \A b \in Callers \ {c} : Lives(b) => caller[b].result # r
  BY <1>1 DEF Alone, Lives
<1>8. ASSUME NEW x \in Corrections, Started(x)' PROVE Started(x) \/ adoption[x] # "none"
  <2>1. CASE \E b \in Callers : caller'[b].step \in AdjustSteps /\ caller'[b].base = x
    <3> PICK b \in Callers : caller'[b].step \in AdjustSteps /\ caller'[b].base = x
      BY <2>1
    <3>1. CASE b = c  BY <1>4, <1>5, <3>1
    <3>2. CASE b # c  BY <1>5, <3>2 DEF Started
    <3> QED  BY <3>1, <3>2
  <2>2. CASE \E y \in Corrections : operation'[y].stage # "none" /\ operation'[y].base = x
    BY <1>6, <2>2 DEF Started
  <2> QED  BY <1>8, <2>1, <2>2 DEF Started
<1>9. Done(c)'
  <2>1. ~Started(r)'
    BY <1>2, <1>8
  <2>2. k.step \notin LateSteps /\ k.step \notin {"announcing", "superseding", "writing"}
    BY <1>4 DEF LateSteps
  <2> QED  BY <1>2, <1>4, <1>5, <1>6, <2>1, <2>2 DEF Done
<1>10. Unlocked'
  BY <1>4, <1>5, <1>6 DEF ReadableInv, Unlocked
<1>12. Sourced'
  BY <1>6 DEF ReadableInv, Sourced
<1>11. \A x \in Corrections : (Begun(x) => Begun(x)') /\ ~Heir(c, x)'
  BY <1>4, <1>5, <1>6 DEF Begun, Heir
<1> QED  BY <1>2, <1>4, <1>5, <1>6, <1>7, <1>8, <1>9, <1>10, <1>11, <1>12, ReadableStep

\* A step of a call that is not an adjustment, where no adjusted result changes.
LEMMA AsideReadable ==
  ASSUME IInv, ReadableInv, NEW c \in Callers, caller[c].step \notin AdjustSteps,
         \A b \in Callers \ {c} : Same(b), caller'[c].step \notin AdjustSteps,
         caller'[c].found # "committing",
         \A x \in Corrections : adoption'[x] = adoption[x], UNCHANGED <<files, operation, dead>>,
         torn => torn', torn' => torn \/ Free, finalLock' = finalLock \/ Free
  PROVE  ReadableInv'
<1>1. {"writing", "announcing", "checking", "superseding"} \subseteq AdjustSteps
  BY DEF AdjustSteps
<1>2. \A b \in Callers \ {c} : Lives(b) => caller[b].result # None
  BY ResultKinds DEF Lives, IInv, CallsInv, Knows
<1>3. ~Lives(c)' /\ \A x \in Corrections : ~Heir(c, x)' /\ (Begun(x) => Begun(x)')
  BY <1>1 DEF Lives, Heir, Begun
<1>4. \A x \in Corrections : Started(x)' => Started(x)
  BY DEF Started, Same
<1>5. torn' => torn \/ \A b \in Callers \ {c} : caller[b].step # "announcing"
  BY OthersOutside, ResultKinds DEF Free, IInv
<1>6. Unlocked'
  <2>1. Free => \A b \in Callers : caller[b].step \notin {"writing", "announcing"}
    BY OthersOutside, ResultKinds DEF Free, IInv
  <2> QED  BY <1>1, <2>1 DEF ReadableInv, Unlocked, Same
<1>7. None \notin Corrections /\ Sourced'
  BY ResultKinds DEF ReadableInv, Sourced
<1> QED  BY <1>2, <1>3, <1>4, <1>5, <1>6, <1>7, ReadableStep

LEMMA OutdatedSame ==
  ASSUME NEW b, caller[b] \in Calls, caller'[b] = Outdated(caller[b])
  PROVE  Same(b)
  BY DEF Outdated, Calls, Same

LEMMA OtherReadable ==
  ASSUME IInv, ReadableInv, NEW c \in Callers,
         \/ StartItem(c) \/ CompleteItem(c) \/ NotAdvanced(c) \/ CreateLock(c) \/ Approve(c)
         \/ \E d \in Approvals : Apply(c, d)
         \/ \E a \in Results : LockResult(c, a)
  PROVE  ReadableInv'
<1>1. caller[c].step \in {"starting", "completing", "locking", "approving", "idle"}
      /\ caller[c].step \notin AdjustSteps
  BY NotAdjusting DEF StartItem, CompleteItem, NotAdvanced, CreateLock, Approve, Apply, LockResult, At
<1>2. ASSUME NEW k, caller' = [caller EXCEPT ![c] = k], k.step \notin AdjustSteps,
             k.found # "committing"
      PROVE  (\A b \in Callers \ {c} : Same(b)) /\ caller'[c].step \notin AdjustSteps
             /\ caller'[c].found # "committing"
  BY <1>2 DEF IInv, CallsInv, Same
<1>3. ASSUME NEW s \in {"idle", "starting"}, Goes(c, s)
      PROVE  (\A b \in Callers \ {c} : Same(b)) /\ caller'[c].step \notin AdjustSteps
             /\ caller'[c].found # "committing"
  <2>1. s \in Steps  BY DEF Steps
  <2>2. CASE s = "idle"
    <3>1. caller' = [caller EXCEPT ![c] = Idle]
      BY <1>3, <2>2 DEF Goes, Returns
    <3>2. Idle.step \notin AdjustSteps /\ Idle.found # "committing"
      BY NotAdjusting DEF Idle
    <3> QED  BY <1>2, <3>1, <3>2
  <2>3. CASE s = "starting"
    <3> PICK k : /\ caller' = [caller EXCEPT ![c] = k] /\ k.step = s /\ k.found = caller[c].found
      BY <1>3, <2>1, <2>3, GoesCall DEF IInv
    <3> QED  BY <1>2, <2>3, NotAdjusting DEF ReadableInv, FirstCalls
  <2> QED  BY <2>2, <2>3
<1>4. CASE StartItem(c) \/ CompleteItem(c)
  <2>1. /\ UNCHANGED <<adoption, files, operation, finalLock, weather>>
        /\ \E k : Commits(c, k) /\ k.step \notin AdjustSteps /\ k.found # "committing"
    <3>1. CASE StartItem(c)
      <4> DEFINE k == [caller[c] EXCEPT !.step = "completing"]
      <4>1. Commits(c, k) /\ UNCHANGED <<adoption, files, operation, finalLock, weather>>
        BY <3>1 DEF StartItem
      <4>2. k.step \notin AdjustSteps /\ k.found # "committing"
        BY NotAdjusting DEF IInv, CallsInv, Calls, ReadableInv, FirstCalls
      <4> QED  BY <4>1, <4>2
    <3>2. CASE CompleteItem(c)
      BY <3>2, NotAdjusting DEF CompleteItem, Idle
    <3> QED  BY <1>4, <3>1, <3>2
  <2>2. PICK k : Commits(c, k) /\ k.step \notin AdjustSteps /\ k.found # "committing"
    BY <2>1
  <2>3. caller'[c] = k /\ \A b \in Callers \ {c} : Same(b)
    BY <2>2, OutdatedSame DEF Commits, IInv, CallsInv
  <2> QED  BY <1>1, <2>1, <2>2, <2>3, AsideReadable DEF weather
<1>5. CASE NotAdvanced(c)
  <2>1. Goes(c, "idle") /\ UNCHANGED <<records, dead, torn>>
    BY <1>5 DEF NotAdvanced, Goes, weather
  <2> QED  BY <1>1, <1>3, <2>1, AsideReadable DEF records
<1>6. CASE CreateLock(c)
  <2> DEFINE write == finalLock' = caller[c].result /\ UNCHANGED <<adoption, files, operation, review, item>>
  <2>1. /\ Goes(c, "idle") /\ UNCHANGED <<adoption, files, operation, dead>>
        /\ (torn => torn') /\ (torn' => torn \/ Free) /\ (finalLock' = finalLock \/ Free)
    <3>1. CASE Section(c, write, "idle", "idle")
      <4> HIDE DEF write
      <4>1. /\ (torn => torn') /\ (torn' => torn \/ Free) /\ dead' = dead /\ Goes(c, "idle")
            /\ (write /\ Free) \/ UNCHANGED records
        BY <3>1, SectionTorn, SectionStep DEF IInv
      <4> QED  BY <4>1 DEF write, records
    <3>2. CASE Returns(c) /\ UNCHANGED <<records, weather>>
      BY <3>2 DEF Goes, records, weather
    <3> QED  BY <1>6, <3>1, <3>2 DEF CreateLock
  <2> HIDE DEF write
  <2> QED  BY <1>1, <1>3, <2>1, AsideReadable
<1>7. CASE Approve(c)
  <2> DEFINE write == /\ adoption' = [adoption EXCEPT ![caller[c].result] = "adopted"]
                      /\ UNCHANGED <<files, operation, finalLock, review, item>>
  <2>1. caller[c].result \in Approvals
    BY <1>7 DEF Approve, At, IInv, CallsInv, Knows, ReviewSteps
  <2>2. /\ Goes(c, "idle") \/ Goes(c, "starting")
        /\ UNCHANGED <<files, operation, finalLock, dead>>
        /\ \A x \in Corrections : adoption'[x] = adoption[x]
        /\ (torn => torn') /\ (torn' => torn \/ Free)
    <3>1. CASE Section(c, write, "starting", "idle")
      <4> HIDE DEF write
      <4>1. /\ (torn => torn') /\ (torn' => torn \/ Free) /\ dead' = dead
            /\ Goes(c, "idle") \/ Goes(c, "starting")
            /\ write \/ UNCHANGED records
        BY <3>1, SectionTorn DEF IInv
      <4>2. UNCHANGED <<files, operation, finalLock>> /\ \A x \in Corrections : adoption'[x] = adoption[x]
        BY <2>1, <4>1, ResultKinds DEF write, records, IInv, AdoptionInv, Adoptions
      <4> QED  BY <4>1, <4>2
    <3>2. CASE Returns(c) /\ UNCHANGED <<records, weather>>
      BY <3>2 DEF Goes, records, weather
    <3> QED  BY <1>7, <3>1, <3>2 DEF Approve
  <2> HIDE DEF write
  <2> QED  BY <1>1, <1>3, <2>2, AsideReadable
<1>8. CASE \/ \E d \in Approvals : Apply(c, d)
           \/ \E a \in Results : LockResult(c, a)
  <2>1. /\ UNCHANGED <<records, weather>>
        /\ \E k : caller' = [caller EXCEPT ![c] = k] /\ k.step \notin AdjustSteps /\ k.found # "committing"
    <3>1. ASSUME NEW d \in Approvals, Apply(c, d)
          PROVE  \E k : caller' = [caller EXCEPT ![c] = k] /\ k.step \notin AdjustSteps /\ k.found # "committing"
      <4> DEFINE k == [Idle EXCEPT !.step = "approving", !.result = d]
      <4>1. k.step = "approving" /\ k.found # "committing" /\ caller' = [caller EXCEPT ![c] = k]
        BY <3>1 DEF Apply, Idle
      <4> QED  BY <4>1, NotAdjusting
    <3>2. ASSUME NEW a \in Results, LockResult(c, a)
          PROVE  \E k : caller' = [caller EXCEPT ![c] = k] /\ k.step \notin AdjustSteps /\ k.found # "committing"
      <4> DEFINE k == [Idle EXCEPT !.step = "locking", !.result = a]
      <4>1. k.step = "locking" /\ k.found # "committing" /\ caller' = [caller EXCEPT ![c] = k]
        BY <3>2 DEF LockResult, Idle
      <4> QED  BY <4>1, NotAdjusting
    <3> QED  BY <1>8, <3>1, <3>2 DEF Apply, LockResult
  <2>2. /\ \A b \in Callers \ {c} : Same(b)
        /\ caller'[c].step \notin AdjustSteps /\ caller'[c].found # "committing"
    BY <1>2, <2>1
  <2> QED  BY <1>1, <2>1, <2>2, AsideReadable DEF records, weather
<1> QED  BY <1>4, <1>5, <1>6, <1>7, <1>8

LEMMA StayReadable ==
  ASSUME IInv, ReadableInv,
         \/ \E c \in Callers : Die(c)
         \/ \E a \in Results : Resolve(a)
         \/ OtherItemMoves
         \/ UNCHANGED vars
  PROVE  ReadableInv'
<1>1. /\ UNCHANGED <<adoption, files, operation, finalLock, torn>> /\ dead \subseteq dead'
      /\ \A b \in Callers : Same(b)
  <2>1. ASSUME NEW c \in Callers, Die(c)
        PROVE  UNCHANGED <<adoption, files, operation, finalLock, torn, caller>> /\ dead \subseteq dead'
    BY <2>1 DEF Die, records
  <2>2. ASSUME NEW a \in Results, Resolve(a)
        PROVE  UNCHANGED <<adoption, files, operation, finalLock, torn, caller, dead>>
    BY <2>2 DEF Resolve, weather
  <2>3. CASE OtherItemMoves
    <3>1. caller' = [c \in Callers |-> Outdated(caller[c])] /\ UNCHANGED <<records, weather>>
      BY <2>3 DEF OtherItemMoves
    <3>2. \A b \in Callers : Same(b)
      BY <3>1, OutdatedSame DEF IInv, CallsInv
    <3> QED  BY <3>1, <3>2 DEF records, weather
  <2>4. CASE UNCHANGED vars
    BY <2>4 DEF vars, records, weather, Same
  <2> QED  BY <2>1, <2>2, <2>3, <2>4 DEF Same
<1>2. \A c \in Callers : Lives(c)' => Lives(c)
  BY <1>1 DEF Lives, Same
<1>3. \A x \in Corrections : /\ Started(x)' => Started(x)
                             /\ Heirless(x) => Heirless(x)'
                             /\ Begun(x)' <=> Begun(x)
                             /\ Bound(x)' <=> Bound(x)
  BY <1>1 DEF Started, Heirless, Heir, Begun, Bound, Same
<1>4. ASSUME NEW c \in Callers, Lives(c)' PROVE Done(c)'
  <2> PICK x, step : x = caller[c].result /\ step = caller[c].step
    OBVIOUS
  <2>1. Done(c) /\ x \in Corrections /\ Same(c)
    BY <1>1, <1>2, <1>4 DEF ReadableInv, Lives, IInv, CallsInv, Knows
  <2>2. caller'[c].step = step /\ caller'[c].result = x /\ caller'[c].base \in Results \ {x}
    BY <2>1 DEF Same, Done
  <2>3. /\ step \in LateSteps => Begun(x)
        /\ adoption[x] # "none" =>
             \/ step \in {"announcing", "closing"}
             \/ step = "restoring" /\ torn /\ adoption[x] = "adopted" /\ Heirless(x)
        /\ step = "announcing" => adoption[x] = "adopted" /\ (torn => Heirless(x))
        /\ step \in EarlySteps => ~Started(x)
        /\ step \in {"superseding", "writing"} => Bound(x)
    BY <2>1 DEF Done
  <2> QED  BY <1>1, <1>3, <2>1, <2>2, <2>3 DEF Done
<1>5. Apart'
  BY <1>1, <1>2 DEF Apart, ReadableInv, Same
<1>6. Backs'
  BY <1>1, <1>3 DEF Backs, ReadableInv
<1>7. FirstCalls' /\ Unlocked' /\ Sourced'
  BY <1>1 DEF FirstCalls, Unlocked, Sourced, ReadableInv, Same
<1> QED  BY <1>4, <1>5, <1>6, <1>7 DEF ReadableInv

----------------------------------------------------------------------------
(* The steps that replace a result. *)

\* A step of an adjustment that changes adoptions.
LEMMA ReplaceReadable ==
  ASSUME IInv, ReadableInv, NEW c \in Callers, Lives(c), NEW r, r = caller[c].result,
         NEW s \in Steps, Goes(c, s), UNCHANGED <<files, operation, finalLock, dead>>,
         s \in {"writing", "announcing", "restoring", "cleaning", "idle"},
         caller[c].step \in {"superseding", "writing", "announcing", "restoring"},
         torn => torn', torn' => torn \/ \A b \in Callers \ {c} : caller[b].step # "announcing",
         \A x \in Corrections \ {r} :
           \/ adoption'[x] = adoption[x]
           \/ /\ adoption[x] # "none" /\ adoption'[x] # "none"
              /\ \A b \in Callers \ {c} : Lives(b) /\ caller[b].result = x => caller[b].step = "closing",
         s \in {"writing", "announcing"} => finalLock = None,
         s \in {"writing", "announcing"} => caller[c].step \in {"superseding", "writing"},
         s = "announcing" => adoption'[r] = "adopted", s = "announcing" => Bound(r),
         s # "announcing" => adoption'[r] = "none" \/ (s = "idle" /\ adoption'[r] = adoption[r])
  PROVE  ReadableInv'
<1>1. PICK k : /\ caller' = [caller EXCEPT ![c] = k] /\ k.step = s
               /\ s # "idle" => k.base = caller[c].base /\ k.result = r /\ k.found = caller[c].found
               /\ s = "idle" => k = Idle
  <2>1. CASE s = "idle"
    BY <2>1 DEF Goes, Returns, Idle
  <2>2. CASE s # "idle"
    BY <2>2, GoesCall DEF IInv
  <2> QED  BY <2>1, <2>2
<1>2. caller'[c] = k /\ \A b \in Callers \ {c} : Same(b) /\ caller'[b] = caller[b]
  BY <1>1 DEF IInv, CallsInv, Same
<1>3. /\ Done(c) /\ r \in Corrections /\ caller[c].base \in Results \ {r} /\ caller[c].step \in AdjustSteps
      /\ Begun(r)
  BY DEF ReadableInv, Done, Lives, IInv, CallsInv, Knows, LateSteps
<1>4. Lives(c)' => s # "idle"
  BY <1>1, <1>2, NotAdjusting DEF Lives
<1>5. \A b \in Callers \ {c} : Lives(b) => caller[b].result # r
  BY DEF ReadableInv, Apart
<1>6. \A x \in Corrections : Started(x)' => Started(x)
  <2> TAKE x \in Corrections
  <2>1. ASSUME NEW b \in Callers, caller'[b].step \in AdjustSteps, caller'[b].base = x PROVE Started(x)
    <3>1. CASE b = c
      <4>1. s # "idle"  BY <1>1, <1>2, <2>1, <3>1, NotAdjusting
      <4> QED  BY <1>1, <1>2, <1>3, <2>1, <3>1, <4>1 DEF Started
    <3>2. CASE b # c  BY <1>2, <2>1, <3>2 DEF Started
    <3> QED  BY <3>1, <3>2
  <2>2. ASSUME NEW y \in Corrections, operation'[y].stage # "none", operation'[y].base = x PROVE Started(x)
    BY <2>2 DEF Started
  <2> QED  BY <2>1, <2>2 DEF Started
<1>7. \A x \in Corrections : ~Heir(c, x)' /\ (Begun(x) => Begun(x)') /\ (Bound(x) => Bound(x)')
  BY <1>1, <1>2 DEF Heir, Begun, Bound
<1>8. Unlocked'
  BY <1>1, <1>2 DEF ReadableInv, Unlocked
<1>14. Sourced'
  BY DEF ReadableInv, Sourced
<1>9. caller'[c].found # "committing"
  BY <1>1, <1>2 DEF ReadableInv, FirstCalls, Idle
<1>10. caller[c].step \in {"superseding", "writing"} => Bound(r) /\ ~Started(r)
  BY <1>3 DEF Done, EarlySteps
<1>11. ASSUME Lives(c)' PROVE Done(c)'
  <2>1. caller'[c].result = r /\ caller'[c].step = s /\ caller'[c].base \in Results \ {r}
    BY <1>1, <1>2, <1>3, <1>4, <1>11
  <2>2. s \in EarlySteps => ~Started(r)'
    BY <1>3, <1>6, <1>10 DEF EarlySteps
  <2>3. s = "announcing" => Heirless(r)'
    <3> SUFFICES ASSUME s = "announcing", NEW b \in Callers PROVE ~Heir(b, r)'
      BY DEF Heirless
    <3>1. ~Started(r)
      BY <1>10
    <3>2. CASE b = c  BY <1>3, <1>7, <3>2
    <3>3. CASE b # c  BY <1>2, <3>1, <3>3 DEF Heir, Started, AdjustSteps
    <3> QED  BY <3>2, <3>3
  <2>4. s \in {"superseding", "writing"} => Bound(r)'
    BY <1>3, <1>7, <1>10
  <2>5. Begun(r)'
    BY <1>3, <1>7
  <2>6. s # "announcing" => adoption'[r] = "none"
    BY <1>4, <1>11
  <2> QED  BY <1>4, <1>11, <2>1, <2>2, <2>3, <2>4, <2>5, <2>6 DEF Done
<1>12. r \in Corrections /\ adoption'[r] # "none" => Begun(r)' /\ Bound(r)'
  BY <1>3, <1>7 DEF ReadableInv, Backs
<1>13. Lives(c)' => caller'[c].result = r
  BY <1>1, <1>2, <1>4
<1> QED  BY <1>2, <1>5, <1>6, <1>7, <1>8, <1>9, <1>11, <1>12, <1>13, <1>14, ReadableStep

\* Nobody is about to replace a result whose call still depends on it.
LEMMA SupersedeReadable ==
  ASSUME IInv, ReadableInv, NEW c \in Callers, Supersede(c)
  PROVE  ReadableInv'
<1> PICK r, base, old : r = caller[c].result /\ base = caller[c].base /\ old = Active
  OBVIOUS
<1>1. /\ caller[c].step = "superseding" /\ Lives(c)
      /\ UNCHANGED <<files, operation, finalLock>>
  BY DEF Supersede, At, Lives, AdjustSteps
<1>2. r \in Corrections /\ adoption[r] = "none" /\ Begun(r)
  BY <1>1, Unadopted DEF LateSteps
<1>3. "writing" \in Steps /\ "restoring" \in Steps
  BY DEF Steps
<1>4. Free => \A b \in Callers : caller[b].step \notin {"writing", "announcing"}
  BY OthersOutside, ResultKinds DEF Free, IInv
<1>5. ASSUME Goes(c, "restoring"), UNCHANGED <<adoption, dead>>, torn => torn', torn' => torn \/ Free
      PROVE  ReadableInv'
  <2>1. /\ "restoring" \notin EarlySteps
        /\ \A x \in Corrections : (Begun(x) => Begun(x)') /\ operation'[x] = operation[x]
    BY <1>1 DEF EarlySteps, Begun
  <2>2. Begun(r)'
    BY <1>2, <2>1
  <2> QED  BY <1>1, <1>2, <1>3, <1>5, <2>1, <2>2, GoesReadable
<1>6. ASSUME Free, Replaceable(r, base), adoption' = Superseded(old), UNCHANGED <<dead, torn>>,
             Goes(c, "writing") \/ Goes(c, "restoring")
      PROVE  ReadableInv'
  <2>1. ASSUME NEW x \in Corrections \ {r}
        PROVE  \/ adoption'[x] = adoption[x]
               \/ /\ adoption[x] # "none" /\ adoption'[x] # "none"
                  /\ \A b \in Callers \ {c} : Lives(b) /\ caller[b].result = x => caller[b].step = "closing"
    <3>1. CASE x # old
      BY <1>6, <3>1, ResultKinds DEF Superseded
    <3>2. CASE x = old
      <4>1. adoption[x] = "adopted" /\ adoption'[x] = "superseded" /\ base = x
        BY <1>6, <3>2, ActiveAdopted, ResultKinds DEF Superseded, Replaceable
      <4>2. ASSUME NEW b \in Callers \ {c}, Lives(b), caller[b].result = x
            PROVE  caller[b].step = "closing"
        <5>1. ~Heirless(x)
          BY <1>1, <4>1 DEF Heirless, Heir
        <5>2. Done(b)
          BY <4>2 DEF ReadableInv
        <5> QED  BY <1>4, <1>6, <4>1, <4>2, <5>1, <5>2 DEF Done
      <4> QED  BY <4>1, <4>2
    <3> QED  BY <3>1, <3>2
  <2>2. adoption'[r] = "none" /\ finalLock = None
    <3>1. r # old
      BY <1>2, ActiveAdopted, ResultKinds
    <3> QED  BY <1>2, <1>6, <3>1, ResultKinds DEF Superseded, Replaceable
  <2>3. PICK s \in {"writing", "restoring"} : Goes(c, s)
    BY <1>6
  <2> QED  BY <1>1, <1>3, <1>6, <2>1, <2>2, <2>3, ReplaceReadable
<1>7. \/ /\ Free /\ Replaceable(r, base) /\ adoption' = Superseded(old)
         /\ UNCHANGED <<dead, torn>> /\ (Goes(c, "writing") \/ Goes(c, "restoring"))
      \/ /\ Goes(c, "restoring") /\ UNCHANGED <<adoption, dead>>
         /\ (torn => torn') /\ (torn' => torn \/ Free)
  <2>1. /\ UNCHANGED dead /\ (torn => torn') /\ (torn' => torn \/ Free)
    BY DEF Supersede, Unannounced, GivesUp, WriteFails, AppendTears, weather
  <2>2. \/ /\ Free /\ Replaceable(r, base) /\ adoption' = Superseded(old)
           /\ UNCHANGED torn /\ (Goes(c, "writing") \/ Goes(c, "restoring"))
        \/ Goes(c, "restoring") /\ UNCHANGED adoption
    BY DEF Supersede, Unannounced, weather
  <2> QED  BY <2>1, <2>2
<1> QED  BY <1>5, <1>6, <1>7

LEMMA WriteReadable ==
  ASSUME IInv, ReadableInv, NEW c \in Callers, WriteAdoption(c) \/ AnnounceAdoption(c)
  PROVE  ReadableInv'
<1> PICK r : r = caller[c].result
  OBVIOUS
<1>1. /\ caller[c].step \in {"writing", "announcing"} /\ Lives(c) /\ finalLock = None
      /\ UNCHANGED <<files, operation, finalLock, dead>>
  BY DEF WriteAdoption, AnnounceAdoption, At, Lives, AdjustSteps, Leaves, weather,
         ReadableInv, Unlocked
<1>2. r \in Corrections /\ Done(c) /\ Begun(r)
  BY <1>1 DEF ReadableInv, Done, Lives, LateSteps, IInv, CallsInv, Knows
<1>3. \A b \in Callers \ {c} : caller[b].step \notin {"writing", "announcing"}
  BY <1>1, OthersOutside DEF IInv, CallsInv, Knows
<1>4. {"announcing", "restoring", "closing"} \subseteq Steps
  BY DEF Steps
<1>5. \A x \in Corrections : (Begun(x) => Begun(x)') /\ operation'[x] = operation[x]
                             /\ (Bound(x) <=> Bound(x)')
  BY <1>1 DEF Begun, Bound
<1>6. CASE /\ caller[c].step = "writing" /\ Goes(c, "announcing")
           /\ adoption' = [adoption EXCEPT ![r] = "adopted"] /\ UNCHANGED torn
  <2>1. \A x \in Corrections : adoption'[x] = IF x = r THEN "adopted" ELSE adoption[x]
    BY <1>6, ResultKinds DEF IInv, AdoptionInv, Adoptions
  <2>2. Bound(r)
    BY <1>2, <1>6 DEF Done
  <2> QED  BY <1>1, <1>2, <1>4, <1>6, <2>1, <2>2, ReplaceReadable
<1>7. CASE /\ caller[c].step = "announcing" /\ Goes(c, "restoring") /\ (torn => torn')
           /\ adoption' = [adoption EXCEPT ![r] = "none"]
  <2>1. \A x \in Corrections : adoption'[x] = IF x = r THEN "none" ELSE adoption[x]
    BY <1>7, ResultKinds DEF IInv, AdoptionInv, Adoptions
  <2> QED  BY <1>1, <1>2, <1>3, <1>4, <1>7, <2>1, ReplaceReadable
<1>8. ASSUME UNCHANGED <<adoption, torn>>, NEW s \in {"restoring", "closing"}, Goes(c, s),
             s = "restoring" /\ caller[c].step = "announcing" => torn,
             s = "closing" => caller[c].step = "announcing"
      PROVE  ReadableInv'
  <2>1. /\ adoption[r] # "none" => s = "closing" \/ (s = "restoring" /\ torn /\ adoption[r] = "adopted" /\ Heirless(r))
        /\ adoption[r] # "none" => Bound(r)'
    <3>1. adoption[r] # "none" => Bound(r)'
      BY <1>2, <1>5 DEF ReadableInv, Backs
    <3>2. caller[c].step = "writing" => adoption[r] = "none"
      BY <1>2 DEF Done
    <3>3. caller[c].step = "announcing" => adoption[r] = "adopted" /\ (torn => Heirless(r))
      BY <1>2 DEF Done
    <3> QED  BY <1>1, <1>8, <3>1, <3>2, <3>3
  <2>2. s \in Steps \ {"writing", "announcing"} /\ s \notin EarlySteps /\ Begun(r)'
    BY <1>2, <1>5 DEF Steps, EarlySteps
  <2> QED  BY <1>1, <1>2, <1>5, <1>8, <2>1, <2>2, GoesReadable
<1>9. \/ /\ caller[c].step = "writing" /\ Goes(c, "announcing")
         /\ adoption' = [adoption EXCEPT ![r] = "adopted"] /\ UNCHANGED torn
      \/ /\ caller[c].step = "writing" /\ Goes(c, "restoring") /\ UNCHANGED <<adoption, torn>>
      \/ /\ caller[c].step = "announcing" /\ Goes(c, IF torn THEN "restoring" ELSE "closing")
         /\ UNCHANGED <<adoption, torn>>
      \/ /\ caller[c].step = "announcing" /\ Goes(c, "restoring") /\ (torn => torn')
         /\ adoption' = [adoption EXCEPT ![r] = "none"]
  BY DEF WriteAdoption, AnnounceAdoption, At, Leaves, weather
<1>10. CASE /\ caller[c].step = "announcing" /\ Goes(c, IF torn THEN "restoring" ELSE "closing")
            /\ UNCHANGED <<adoption, torn>>
  <2>1. CASE torn  BY <1>8, <1>10, <2>1
  <2>2. CASE ~torn  BY <1>8, <1>10, <2>2
  <2> QED  BY <2>1, <2>2
<1> QED  BY <1>6, <1>7, <1>8, <1>9, <1>10

\* What is restored was superseded, and a result whose call still depends on it
\* is not.
LEMMA RestoreReadable ==
  ASSUME IInv, ReadableInv, NEW c \in Callers, Restore(c)
  PROVE  ReadableInv'
<1> PICK r, base : r = caller[c].result /\ base = caller[c].base
  OBVIOUS
<1>1. /\ caller[c].step = "restoring" /\ Lives(c)
      /\ UNCHANGED <<files, operation, finalLock>>
  BY DEF Restore, At, Lives, AdjustSteps
<1>2. r \in Corrections /\ Done(c) /\ Begun(r) /\ base \in Results \ {r}
  BY <1>1 DEF ReadableInv, Done, Lives, LateSteps, IInv, CallsInv, Knows
<1>3. "cleaning" \in Steps /\ "idle" \in Steps
  BY DEF Steps
<1>4. \A x \in Corrections : (Begun(x) => Begun(x)') /\ operation'[x] = operation[x]
                             /\ (Bound(x) <=> Bound(x)')
  BY <1>1 DEF Begun, Bound
<1>5. ASSUME UNCHANGED <<adoption, dead>>, (torn => torn') /\ (torn' => torn \/ Free),
             NEW s \in {"cleaning", "idle"}, Goes(c, s),
             s = "cleaning" => adoption[base] = "adopted" /\ base \in Results
      PROVE  ReadableInv'
  <2>1. s = "cleaning" => adoption[r] = "none"
    <3>1. adoption[r] = "none" \/ adoption[r] = "adopted"
      BY <1>1, <1>2 DEF Done
    <3> QED  BY <1>2, <1>5, <3>1, ResultKinds DEF IInv, AdoptionInv, Single
  <2>2. s \in Steps \ {"writing", "announcing"} /\ s \notin EarlySteps /\ Begun(r)'
        /\ (s \in AdjustSteps => s = "cleaning")
    BY <1>2, <1>4, NotAdjusting DEF Steps, EarlySteps
  <2>3. adoption[r] # "none" => Bound(r)'
    BY <1>2, <1>4 DEF ReadableInv, Backs
  <2> QED  BY <1>1, <1>2, <1>4, <1>5, <2>1, <2>2, <2>3, GoesReadable
<1>6. ASSUME Free, ~Conflict(base), adoption' = [adoption EXCEPT ![base] = "adopted"],
             (torn => torn') /\ (torn' => torn \/ Free), UNCHANGED dead,
             NEW s \in {"cleaning", "idle"}, Goes(c, s)
      PROVE  ReadableInv'
  <2>1. adoption[base] = "superseded" /\ NoneAdopted(adoption)
    BY <1>6, ActiveAdopted DEF Conflict
  <2>2. adoption[r] = "none"
    <3>1. adoption[r] = "none" \/ adoption[r] = "adopted"
      BY <1>1, <1>2 DEF Done
    <3> QED  BY <1>2, <2>1, <3>1, ResultKinds DEF NoneAdopted
  <2>3. \A x \in Corrections : adoption'[x] = IF x = base THEN "adopted" ELSE adoption[x]
    BY <1>6, ResultKinds DEF IInv, AdoptionInv, Adoptions
  <2>4. \A b \in Callers : caller[b].step \notin {"writing", "announcing"}
    BY <1>6, OthersOutside, ResultKinds DEF Free, IInv
  <2>5. ASSUME NEW b \in Callers \ {c}, Lives(b), caller[b].result = base, base \in Corrections
        PROVE  caller[b].step = "closing"
    <3>1. Done(b)  BY <2>5 DEF ReadableInv
    <3> QED  BY <2>1, <2>4, <2>5, <3>1 DEF Done
  <2>6. /\ adoption'[r] = "none"
        /\ \A x \in Corrections \ {r} :
             \/ adoption'[x] = adoption[x]
             \/ /\ adoption[x] # "none" /\ adoption'[x] # "none"
                /\ \A b \in Callers \ {c} : Lives(b) /\ caller[b].result = x => caller[b].step = "closing"
    BY <1>2, <2>1, <2>2, <2>3, <2>5
  <2> QED  BY <1>1, <1>3, <1>6, <2>4, <2>6, ReplaceReadable
<1>7. \/ /\ UNCHANGED <<adoption, dead>> /\ (torn => torn') /\ (torn' => torn \/ Free)
         /\ ((Goes(c, "cleaning") /\ adoption[base] = "adopted") \/ Goes(c, "idle"))
      \/ /\ Free /\ ~Conflict(base) /\ adoption' = [adoption EXCEPT ![base] = "adopted"]
         /\ (torn => torn') /\ (torn' => torn \/ Free) /\ UNCHANGED dead
         /\ Goes(c, "cleaning") \/ Goes(c, "idle")
  BY DEF Restore, Announced, Unannounced, GivesUp, WriteFails, AppendTears, weather, Goes
<1> QED  BY <1>2, <1>5, <1>6, <1>7

LEMMA InitReadable == Init => ReadableInv
<1> SUFFICES ASSUME Init PROVE ReadableInv
  OBVIOUS
<1>1. \A c \in Callers : caller[c].step \notin AdjustSteps /\ caller[c].found # "committing"
                         /\ caller[c].step \notin {"writing", "announcing"}
  BY NotAdjusting DEF Init, Idle
<1>2. \A r \in Corrections : adoption[r] = "none" /\ operation[r].stage = "none"
  BY ResultKinds DEF Init, NoOperation
<1> QED  BY <1>1, <1>2 DEF ReadableInv, FirstCalls, Apart, Lives, Backs, Started, Sourced, Unlocked

LEMMA NextReadable ==
  ASSUME Repeats \subseteq {"prepared"}, Together = FALSE, IInv, ReadableInv, [Next]_vars
  PROVE  ReadableInv'
<1>1. ASSUME NEW c \in Callers, Act(c) PROVE ReadableInv'
  BY <1>1, PrepareReadable, RecordReadable, OperationReadable, OtherReadable, SupersedeReadable,
     WriteReadable, RestoreReadable DEF Act
<1>2. ASSUME NEW c \in Callers,
             \/ \E d \in Approvals : Apply(c, d)
             \/ \E r \in Corrections : Adjust(c, r) \/ Continue(c, r)
             \/ \E a \in Results : LockResult(c, a)
      PROVE  ReadableInv'
  BY <1>2, BeginReadable, OtherReadable
<1>3. ASSUME \/ \E c \in Callers : Die(c)
             \/ \E a \in Results : Resolve(a)
             \/ OtherItemMoves
             \/ UNCHANGED vars
      PROVE  ReadableInv'
  BY <1>3, StayReadable
<1> QED  BY <1>1, <1>2, <1>3 DEF Next

\* A result that counts has its snapshot and its validation, for any number of
\* adjustments, callers and failures at any place. Requests that come back while
\* their first call runs, or after its commit, are excluded: they break it.
THEOREM Backed ==
  ASSUME Repeats \subseteq {"prepared"}, Together = FALSE
  PROVE  Spec => []ActiveBacked
<1>1. ReadableInv => ActiveBacked
  BY DEF ReadableInv, Backs, ActiveBacked, Bound, Adopted
<1>2. Init => IInv /\ ReadableInv
  BY InitInv, InitReadable
<1>3. IInv /\ ReadableInv /\ [Next]_vars => (IInv /\ ReadableInv)'
  BY StepInv, NextReadable
<1> QED  BY <1>1, <1>2, <1>3, PTL DEF Spec

\* While a result is locked, and adopted, no step touches the adoptions or the lock.
LEMMA LockedStep ==
  ASSUME IInv, ReadableInv, [Next]_vars, finalLock # None, Active # None, ~review.open
  PROVE  UNCHANGED <<adoption, finalLock, review>>
<1>1. ASSUME NEW c, NEW good, NEW bad, NEW ACTION write, Section(c, write, good, bad),
             write => UNCHANGED <<adoption, finalLock, review>>
      PROVE  UNCHANGED <<adoption, finalLock, review>>
  BY <1>1 DEF Section, records
<1>2. ASSUME NEW c \in Callers, Act(c) PROVE UNCHANGED <<adoption, finalLock, review>>
  <2>1. CASE \/ StartItem(c) \/ CompleteItem(c) \/ NotAdvanced(c) \/ WriteSnapshot(c)
             \/ WriteValidation(c) \/ Commit(c) \/ CheckAdoption(c) \/ Close(c) \/ CleanUp(c)
             \/ MarkFailed(c)
    BY <2>1 DEF StartItem, CompleteItem, NotAdvanced, WriteSnapshot, WriteValidation, ScoreFact,
       Commit, CheckAdoption, Close, CleanUp, MarkFailed, Advance, records
  <2>2. CASE OpenOperation(c)
    BY <1>1, <2>2 DEF OpenOperation, records
  <2>3. CASE RecordAdjustment(c)
    BY <1>1, <2>3 DEF RecordAdjustment, records
  <2>4. CASE CreateLock(c)
    BY <2>4 DEF CreateLock, records
  <2>5. CASE Approve(c)
    BY <2>5 DEF Approve, Acceptable, records
  <2>6. CASE Supersede(c)
    BY <2>6 DEF Supersede, Replaceable
  <2>7. CASE WriteAdoption(c) \/ AnnounceAdoption(c)
    BY <2>7 DEF WriteAdoption, AnnounceAdoption, At, ReadableInv, Unlocked
  <2>8. CASE Restore(c)
    BY <2>8 DEF Restore, Conflict
  <2> QED  BY <1>2, <2>1, <2>2, <2>3, <2>4, <2>5, <2>6, <2>7, <2>8 DEF Act
<1>3. ASSUME \/ \E c \in Callers : \/ Die(c)
                                   \/ \E d \in Approvals : Apply(c, d)
                                   \/ \E r \in Corrections : Adjust(c, r) \/ Continue(c, r)
                                   \/ \E a \in Results : LockResult(c, a)
             \/ \E a \in Results : Resolve(a)
             \/ OtherItemMoves
             \/ UNCHANGED vars
      PROVE  UNCHANGED <<adoption, finalLock, review>>
  BY <1>3 DEF Die, Apply, Adjust, Continue, LockResult, Resolve, OtherItemMoves, records, vars
<1> QED  BY <1>2, <1>3 DEF Next

\* No step takes the snapshot of a result that is adopted.
LEMMA ScoredStays ==
  ASSUME IInv, ReadableInv, [Next]_vars, NEW a \in Corrections, adoption[a] = "adopted",
         "snapshot" \in files[a]
  PROVE  "snapshot" \in files'[a]
<1>1. ASSUME NEW c \in Callers, Act(c) PROVE "snapshot" \in files'[a]
  <2>1. CASE \/ StartItem(c) \/ CompleteItem(c) \/ NotAdvanced(c)
             \/ Commit(c) \/ CheckAdoption(c) \/ Close(c) \/ MarkFailed(c) \/ OpenOperation(c)
             \/ CreateLock(c) \/ Approve(c) \/ Supersede(c) \/ WriteAdoption(c)
             \/ AnnounceAdoption(c) \/ Restore(c)
    <3>1. UNCHANGED files
      BY <2>1 DEF StartItem, CompleteItem, NotAdvanced, Commit, CheckAdoption, Close, MarkFailed,
         OpenOperation, CreateLock, Approve, Supersede, WriteAdoption, AnnounceAdoption, Restore,
         Advance, Section, records
    <3> QED  BY <3>1
  <2>2. CASE RecordAdjustment(c)
    <3>1. UNCHANGED files \/ files' = [files EXCEPT ![caller[c].result] = @ \cup {"record"}]
      BY <2>2 DEF RecordAdjustment, Section, records
    <3> QED  BY <3>1 DEF IInv, OtherTypes
  <2>3. CASE WriteSnapshot(c) \/ WriteValidation(c) \/ CleanUp(c)
    <3>1. caller[c].step \in {"scoring", "validating", "cleaning"} /\ Lives(c)
      BY <2>3 DEF WriteSnapshot, WriteValidation, ScoreFact, CleanUp, At, Lives, AdjustSteps
    <3>2. caller[c].result # a
      BY <3>1, Unadopted
    <3>3. \A x \in Corrections \ {caller[c].result} : files'[x] = files[x]
      BY <2>3 DEF WriteSnapshot, WriteValidation, ScoreFact, CleanUp, IInv, OtherTypes
    <3> QED  BY <3>2, <3>3
  <2> QED  BY <1>1, <2>1, <2>2, <2>3 DEF Act
<1>2. ASSUME \/ \E c \in Callers : \/ Die(c)
                                   \/ \E d \in Approvals : Apply(c, d)
                                   \/ \E r \in Corrections : Adjust(c, r) \/ Continue(c, r)
                                   \/ \E x \in Results : LockResult(c, x)
             \/ \E x \in Results : Resolve(x)
             \/ OtherItemMoves
             \/ UNCHANGED vars
      PROVE  "snapshot" \in files'[a]
  BY <1>2 DEF Die, Apply, Adjust, Continue, LockResult, Resolve, OtherItemMoves, records, vars
<1> QED  BY <1>1, <1>2 DEF Next

\* A final result that is exported stays the one that is exported, whatever
\* adjustments were under way when it was locked (lock_final_result, derive).
THEOREM Final ==
  ASSUME Repeats \subseteq {"prepared"}, Together = FALSE
  PROVE  Spec => FinalStands
<1>1. IInv /\ ReadableInv /\ [Next]_vars =>
        [finalLock # None /\ Derivation # Blocked => Derivation' = Derivation]_vars
  <2> SUFFICES ASSUME IInv, ReadableInv, [Next]_vars, finalLock # None, Derivation # Blocked
               PROVE  Derivation' = Derivation
    OBVIOUS
  <2>1. /\ ~review.open /\ Cardinality(Adopted) = 1 /\ finalLock = Active /\ Scored(Active)
        /\ Active # None
    BY DEF Derivation
  <2>2. UNCHANGED <<adoption, finalLock, review>>
    BY <2>1, LockedStep
  <2>3. Adopted' = Adopted /\ Active' = Active
    BY <2>2 DEF Adopted, Active
  <2>4. Scored(Active)'
    <3>1. Active \in Results /\ adoption[Active] = "adopted"
      BY <2>1, ActiveAdopted
    <3>2. Active \in Corrections => "snapshot" \in files[Active]
      BY <2>1 DEF Scored
    <3>3. PICK a : a = Active
      OBVIOUS
    <3>4. a \in Corrections => "snapshot" \in files'[a]
      BY <3>1, <3>2, <3>3, ScoredStays
    <3> QED  BY <2>3, <3>3, <3>4 DEF Scored
  <2> QED  BY <2>1, <2>2, <2>3, <2>4 DEF Derivation
<1>2. Init => IInv /\ ReadableInv
  BY InitInv, InitReadable
<1>3. IInv /\ ReadableInv /\ [Next]_vars => (IInv /\ ReadableInv)'
  BY StepInv, NextReadable
<1> QED  BY <1>1, <1>2, <1>3, PTL DEF Spec, FinalStands
=============================================================================
