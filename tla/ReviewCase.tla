----------------------------- MODULE ReviewCase -----------------------------
(* One review case of one item: its transitions, the decisions recorded on it, *)
(* the request for further evidence that sends it away and the reopening that  *)
(* brings it back. A call reads the case without the lock and changes it later *)
(* under the lock, where only the revision of the case is compared.            *)
EXTENDS Naturals, FiniteSets

CONSTANTS
  Requests,    \* decisions of type request_additional_evidence
  Verdicts,    \* decisions that say which result counts
  Callers,     \* slots for calls in progress
  Failures,    \* how a section may fail, see Section
  MaxFaults,   \* calls and sections that fail
  MaxRevision, \* transitions are started by reviewers below this revision
  None

Decisions == Requests \cup Verdicts

ASSUME DecisionsAssumption ==
  Requests \cap Verdicts = {} /\ None \notin Decisions
ASSUME FailuresAssumption ==
  Failures \subseteq {"lost", "torn", "kept", "held"}

VARIABLES
  case,     \* cases/: the current projection of the case
  decision, \* decisions/: what each recorded decision says
  events,   \* the requests that events.ndjson names, by event type
  log,      \* whether the events can be read, and the lock be taken
  active,   \* the decision of the active adoption
  locked,   \* whether a final lock is active
  caller,   \* what each call in progress knows
  moves,    \* how often each request has sent the case away and brought it back
  faults

vars == <<case, decision, events, log, active, locked, caller, moves, faults>>

----------------------------------------------------------------------------
(* The case. *)

Closed == {"resolved", "dismissed"}

Statuses ==
  {"open", "assigned", "in_review", "waiting_for_evidence", "cancelled"} \cup Closed

\* VALID_CASE_TRANSITIONS
Transitions ==
  {<<"open", "assigned">>, <<"open", "in_review">>, <<"open", "dismissed">>,
   <<"open", "cancelled">>, <<"assigned", "in_review">>, <<"assigned", "open">>,
   <<"assigned", "dismissed">>, <<"assigned", "cancelled">>,
   <<"in_review", "waiting_for_evidence">>, <<"in_review", "resolved">>,
   <<"in_review", "dismissed">>, <<"in_review", "cancelled">>,
   <<"waiting_for_evidence", "assigned">>, <<"waiting_for_evidence", "in_review">>,
   <<"waiting_for_evidence", "resolved">>, <<"waiting_for_evidence", "cancelled">>,
   <<"resolved", "open">>, <<"resolved", "assigned">>, <<"dismissed", "open">>}

\* A time is the revision at which it was taken, 0 for none. Every transition is
\* later than those before it.
NewCase ==
  [status |-> "open", revision |-> 1, package |-> 1, assigned |-> 0, started |-> 0,
   resolution |-> None, previous |-> None]

\* _case_invariants: what a case must satisfy to be written.
Valid(c) ==
  /\ c.status \in {"open", "cancelled"} => c.assigned = 0
  /\ c.status \in Closed <=> c.resolution # None
  /\ c.assigned # 0 /\ c.started # 0 => c.assigned <= c.started
  /\ c.previous # None => c.previous # c.resolution

\* What transition_review_case makes of the case.
Moved(to, d, package) ==
  LET now == case.revision + 1
      reopens == \/ case.status \in Closed
                 \/ case.status = "waiting_for_evidence" /\ to = "assigned"
  IN  [status     |-> to,
       revision   |-> now,
       package    |-> package,
       assigned   |-> IF to = "assigned" /\ case.assigned = 0 THEN now ELSE case.assigned,
       started    |-> CASE to = "in_review" /\ case.started = 0 -> now
                        [] to = "waiting_for_evidence" /\ case.started = 0 -> case.assigned
                        [] OTHER -> case.started,
       resolution |-> IF to \in Closed THEN d ELSE IF reopens THEN None ELSE case.resolution,
       previous   |-> IF reopens THEN case.resolution ELSE case.previous]

----------------------------------------------------------------------------

NoDecision == [revision |-> 0, package |-> 0, supersedes |-> None]

\* revision: of the case as the call has read it. package: the revision of the
\* evidence package a new request asks for.
Idle == [step |-> "idle", decision |-> None, revision |-> 0, package |-> 0]

TypeOK ==
  /\ case \in [status : Statuses, revision : Nat, package : Nat, assigned : Nat,
               started : Nat, resolution : Decisions \cup {None},
               previous : Decisions \cup {None}]
  /\ Valid(case)
  /\ decision \in [Decisions ->
       [revision : Nat, package : Nat, supersedes : Verdicts \cup {None}]]
  /\ events \in [{"requested", "reopened"} -> SUBSET Requests]
  /\ log \in {"sound", "torn", "held"}
  /\ active \in Verdicts \cup {None}
  /\ locked \in BOOLEAN
  /\ caller \in [Callers ->
       [step : {"idle", "deciding", "advancing", "moving", "returning"},
        decision : Decisions \cup {None}, revision : Nat, package : Nat]]
  /\ moves \in [{"requested", "reopened"} -> [Requests -> Nat]]

Init ==
  /\ case = NewCase
  /\ decision = [d \in Decisions |-> NoDecision]
  /\ events = [e \in {"requested", "reopened"} |-> {}]
  /\ log = "sound"
  /\ active = None /\ locked = FALSE
  /\ caller = [c \in Callers |-> Idle]
  /\ moves = [e \in {"requested", "reopened"} |-> [d \in Requests |-> 0]]
  /\ faults = 0

Recorded == {d \in Decisions : decision[d].revision # 0}

At(c, step) == caller[c].step = step
Goes(c, step) == caller' = [caller EXCEPT ![c].step = step]
Returns(c) == caller' = [caller EXCEPT ![c] = Idle]
Fault(kind) == kind \in Failures /\ faults < MaxFaults /\ faults' = faults + 1

\* A section under the lock: it writes a fact, then the event of the fact. An
\* event that cannot be appended makes it put the fact back; half of its line may
\* stay in the log, or the whole line. With a log that cannot be read the fact
\* is not put back. A process that ends in the section leaves its lock file.
Section(fact, nothing, event, noEvent) ==
  \/ log = "sound" /\ fact /\ event /\ UNCHANGED <<log, faults>>
  \/ log = "torn" /\ fact /\ noEvent /\ UNCHANGED <<log, faults>>
  \/ log # "held" /\ Fault("lost") /\ nothing /\ noEvent /\ UNCHANGED log
  \/ log = "sound" /\ Fault("torn") /\ nothing /\ noEvent /\ log' = "torn"
  \/ log = "sound" /\ Fault("kept") /\ nothing /\ event /\ UNCHANGED log
  \/ log # "held" /\ Fault("held") /\ (fact \/ nothing) /\ noEvent /\ log' = "held"
  \/ log = "held" /\ nothing /\ noEvent /\ UNCHANGED <<log, faults>>

----------------------------------------------------------------------------
(* transition_review_case, as scripts and reviewers call it. *)

Put(new) == case' = new /\ UNCHANGED <<decision, moves>>
Kept == UNCHANGED <<case, decision, moves>>
Silent == UNCHANGED events

Move(to) ==
  LET new == Moved(to, None, case.package)
  IN  /\ to \in {"assigned", "in_review", "open", "cancelled"}
      /\ case.status # "waiting_for_evidence" /\ case.revision < MaxRevision
      /\ <<case.status, to>> \in Transitions /\ Valid(new)
      /\ Section(Put(new), Kept, Silent, Silent)
      /\ UNCHANGED <<active, locked, caller>>

Dismiss(d) ==
  LET new == Moved("dismissed", d, case.package)
  IN  /\ d \in Recorded \cap Verdicts /\ case.revision < MaxRevision
      /\ <<case.status, "dismissed">> \in Transitions /\ Valid(new)
      /\ Section(Put(new), Kept, Silent, Silent)
      /\ UNCHANGED <<active, locked, caller>>

----------------------------------------------------------------------------
(* Recording a decision. *)

\* _check_decision_binding
Decisionable == case.status \notin Closed \cup {"cancelled"}

\* The request is new. What the router reads of the case becomes part of it.
Askable(d, package) ==
  d \in Requests => case.status = "in_review" /\ package > case.package

Decide(c, d) ==
  LET package == IF d \in Requests THEN case.package + 1 ELSE 0
  IN  /\ At(c, "idle") /\ d \notin Recorded
      /\ Decisionable /\ Askable(d, package)
      /\ caller' = [caller EXCEPT ![c] =
           [step |-> "deciding", decision |-> d, revision |-> case.revision,
            package |-> package]]
      /\ UNCHANGED <<case, decision, events, log, active, locked, moves, faults>>

\* The status of the case is not looked at again under the lock.
RecordDecision(c) ==
  LET d == caller[c].decision
      record(old) ==
        /\ decision' = [decision EXCEPT ![d] =
             [revision |-> caller[c].revision, package |-> caller[c].package,
              supersedes |-> old]]
        /\ Goes(c, IF d \in Requests THEN "advancing" ELSE "idle")
        /\ UNCHANGED <<case, moves>>
  IN  /\ At(c, "deciding")
      /\ \/ /\ d \notin Recorded
            /\ \E old \in {None} \cup IF d \in Verdicts THEN Recorded \cap Verdicts ELSE {} :
                 Section(record(old), Kept /\ Returns(c), Silent, Silent)
         \/ /\ d \in Recorded
            /\ Kept /\ Returns(c) /\ UNCHANGED <<events, log, faults>>
      /\ UNCHANGED <<active, locked>>

\* The request has been recorded before: the case is advanced for it.
\* Mutant of Replay: a recorded request is answered and nothing more.
ReplayIgnored(c, d) ==
  At(c, "idle") /\ d \in Recorded \cap Requests /\ UNCHANGED vars
Replay(c, d) ==
  /\ At(c, "idle") /\ d \in Recorded \cap Requests
  /\ caller' = [caller EXCEPT ![c] = [Idle EXCEPT !.step = "advancing", !.decision = d]]
  /\ UNCHANGED <<case, decision, events, log, active, locked, moves, faults>>

----------------------------------------------------------------------------
(* advance_case_for_evidence_request and reopen_review_case: what is checked *)
(* without the lock, and the transition.                                     *)

Advanceable(d) ==
  /\ log # "torn" /\ d \notin events["requested"] /\ ~locked
  /\ case.status = "in_review"
  /\ case.revision = decision[d].revision
  /\ decision[d].package > case.package

CheckAdvance(c) ==
  LET d == caller[c].decision
  IN  /\ At(c, "advancing")
      /\ IF Advanceable(d)
           THEN caller' = [caller EXCEPT ![c].step = "moving",
                                         ![c].revision = decision[d].revision]
           ELSE Returns(c)
      /\ UNCHANGED <<case, decision, events, log, active, locked, moves, faults>>

\* Mutant of Reopenable: the package is not compared with that of the case.
ReopenableAgain(d) ==
  log # "torn" /\ case.status = "waiting_for_evidence" /\ ~locked
Reopenable(d) ==
  /\ log # "torn"
  /\ case.status = "waiting_for_evidence"
  /\ decision[d].package > case.package
  /\ ~locked

Reopen(c, d) ==
  /\ At(c, "idle") /\ d \in Recorded \cap Requests
  /\ Reopenable(d)
  /\ caller' = [caller EXCEPT ![c] =
       [step |-> "returning", decision |-> d, revision |-> case.revision,
        package |-> decision[d].package]]
  /\ UNCHANGED <<case, decision, events, log, active, locked, moves, faults>>

\* Mutant of Current: the revision is not compared.
CurrentOrNot(c) == TRUE
Current(c) == case.revision = caller[c].revision

Possible(c, to, new) ==
  Current(c) /\ <<case.status, to>> \in Transitions /\ Valid(new)

\* The transition a call has prepared, under the lock.
Transition(c, step, to, package, event) ==
  LET d == caller[c].decision
      new == Moved(to, d, package)
      move == /\ case' = new
              /\ moves' = [moves EXCEPT ![event][d] = @ + 1]
              /\ UNCHANGED decision
  IN  /\ At(c, step)
      /\ \/ /\ Possible(c, to, new)
            /\ Section(move, Kept, events' = [events EXCEPT ![event] = @ \cup {d}], Silent)
         \/ /\ ~Possible(c, to, new)
            /\ Kept /\ UNCHANGED <<events, log, faults>>
      /\ Returns(c)
      /\ UNCHANGED <<active, locked>>

Advance(c) == Transition(c, "moving", "waiting_for_evidence", case.package, "requested")
Return(c) == Transition(c, "returning", "assigned", caller[c].package, "reopened")

\* A call ends between its steps.
Die(c) ==
  /\ ~At(c, "idle") /\ Fault("lost")
  /\ Returns(c)
  /\ UNCHANGED <<case, decision, events, log, active, locked, moves>>

----------------------------------------------------------------------------
(* Which result counts, see ResultAuthority. *)

Adopt(d) ==
  /\ d \in Recorded \cap Verdicts /\ ~locked /\ log = "sound"
  /\ active' = d
  /\ UNCHANGED <<case, decision, events, log, locked, caller, moves, faults>>

LockResult ==
  /\ active # None /\ log = "sound"
  /\ locked' = TRUE
  /\ UNCHANGED <<case, decision, events, log, active, caller, moves, faults>>

\* _validate_authority: the decision is of this revision and not replaced.
\* Mutant of Conclusive: a decision on an earlier revision will do.
ConclusiveEarlier(d) == d = active /\ \A e \in Recorded : decision[e].supersedes # d
Conclusive(d) ==
  /\ d = active
  /\ decision[d].revision = case.revision
  /\ \A e \in Recorded : decision[e].supersedes # d

Resolve(d) ==
  LET new == Moved("resolved", d, case.package)
  IN  /\ d \in Verdicts /\ case.status = "in_review"
      /\ Conclusive(d) /\ Valid(new)
      /\ Section(Put(new), Kept, Silent, Silent)
      /\ UNCHANGED <<active, locked, caller>>

----------------------------------------------------------------------------

Act(c) ==
  RecordDecision(c) \/ CheckAdvance(c) \/ Advance(c) \/ Return(c)

Next ==
  \/ \E to \in Statuses : Move(to)
  \/ \E d \in Verdicts : Dismiss(d) \/ Adopt(d) \/ Resolve(d)
  \/ \E c \in Callers :
       \/ Act(c) \/ Die(c)
       \/ \E d \in Decisions : Decide(c, d)
       \/ \E d \in Requests : Replay(c, d) \/ Reopen(c, d)
  \/ LockResult

Spec == Init /\ [][Next]_vars

\* A call that has been made is carried on, and a client that got no answer to a
\* request sends it again.
FairSpec ==
  /\ Spec
  /\ \A c \in Callers : WF_vars(Act(c))
  /\ \A d \in Requests : SF_vars(\E c \in Callers : Replay(c, d))

----------------------------------------------------------------------------
(* Properties. *)

\* A request for evidence takes the case out of review once and brings it back
\* once, however often it and the reopening are sent again and by how many.
RequestMovesOnce ==
  \A d \in Requests : moves["requested"][d] <= 1 /\ moves["reopened"][d] <= 1

\* A case that waits for evidence waits for a package it has not seen: some
\* request is recorded that would be accepted as the reason to reopen it.
WaitingAnswerable ==
  case.status = "waiting_for_evidence" =>
    \E d \in Recorded \cap Requests :
      decision[d].package > case.package /\ moves["reopened"][d] = 0

\* A resolved case was resolved on the revision its decision was made on: nothing
\* has happened to it that the reviewer had not seen.
ResolvedOnReview ==
  case.status = "resolved" => decision[case.resolution].revision = case.revision - 1

\* A request that has been recorded moves the case, unless the case has changed
\* since or the result has become final: the decision and the transition it asks
\* for are written apart, and sending the request again completes it.
Pending(d) ==
  case.status = "in_review" /\ decision[d].revision = case.revision
RequestCompleted ==
  \A d \in Requests : Pending(d) ~> (~Pending(d) \/ locked \/ log # "sound")

\* A case that waits can be reopened once the requested package is there.
WaitingReopenable ==
  case.status = "waiting_for_evidence" =>
    \E d \in Recorded \cap Requests : Valid(Moved("assigned", d, decision[d].package))

=============================================================================
