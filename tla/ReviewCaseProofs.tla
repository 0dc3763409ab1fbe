-------------------------- MODULE ReviewCaseProofs --------------------------
(* Proofs about ReviewCase for any number of decisions and callers and every  *)
(* way of failing.                                                            *)
EXTENDS ReviewCase, TLAPS

Cases ==
  [status : Statuses, revision : Nat, package : Nat, assigned : Nat, started : Nat,
   resolution : Decisions \cup {None}, previous : Decisions \cup {None}]

DecisionFacts ==
  [Decisions -> [revision : Nat, package : Nat, supersedes : Verdicts \cup {None}]]

Calls ==
  [step : {"idle", "deciding", "advancing", "moving", "returning"},
   decision : Decisions \cup {None}, revision : Nat, package : Nat]

Counts == [{"requested", "reopened"} -> [Requests -> Nat]]

----------------------------------------------------------------------------
(* The inductive invariant. *)

\* What a call in progress knows: the request it carries is recorded, and as long
\* as the case has the revision it was read with, the package is a new one.
Knows(k, cs, dec) ==
  /\ k.step = "deciding" => k.decision \in Decisions /\ 0 < k.revision /\ k.revision <= cs.revision
  /\ k.step \in {"advancing", "moving", "returning"} =>
       k.decision \in Requests /\ 0 < dec[k.decision].revision
  /\ k.step = "moving" =>
       /\ k.revision = dec[k.decision].revision
       /\ k.revision = cs.revision => dec[k.decision].package > cs.package
  /\ k.step = "returning" =>
       /\ k.package = dec[k.decision].package
       /\ k.revision <= cs.revision
       /\ k.revision = cs.revision => k.package > cs.package

\* A request that has moved the case has been overtaken by its own transition.
Used(d, cs, dec, m) ==
  /\ m["requested"][d] <= 1 /\ m["reopened"][d] <= 1
  /\ m["requested"][d] > 0 => 0 < dec[d].revision /\ dec[d].revision < cs.revision
  /\ m["reopened"][d] > 0 => 0 < dec[d].revision /\ dec[d].package <= cs.package

\* The case waits for what some request that has not brought it back asked for.
Answerable(cs, dec, m) ==
  cs.status = "waiting_for_evidence" =>
    \E d \in Requests :
      0 < dec[d].revision /\ dec[d].package > cs.package /\ m["reopened"][d] = 0

Grounded(cs, dec) ==
  cs.status = "resolved" =>
    /\ cs.resolution \in Decisions /\ 0 < dec[cs.resolution].revision
    /\ dec[cs.resolution].revision = cs.revision - 1

FactsInv ==
  /\ case \in Cases /\ Valid(case) /\ 0 < case.revision
  /\ decision \in DecisionFacts
  /\ \A d \in Decisions : decision[d].revision <= case.revision
  /\ moves \in Counts
  /\ \A d \in Requests : Used(d, case, decision, moves)
  /\ Answerable(case, decision, moves)
  /\ Grounded(case, decision)

CallsInv ==
  /\ caller \in [Callers -> Calls]
  /\ \A c \in Callers : Knows(caller[c], case, decision)

OtherTypes ==
  /\ events \in [{"requested", "reopened"} -> SUBSET Requests]
  /\ log \in {"sound", "torn", "held"}
  /\ active \in Verdicts \cup {None}
  /\ locked \in BOOLEAN

IInv == FactsInv /\ CallsInv /\ OtherTypes

----------------------------------------------------------------------------
(* Single facts. *)

LEMMA DecisionKinds ==
  /\ Requests \subseteq Decisions /\ Verdicts \subseteq Decisions
  /\ \A d \in Decisions : d \in Requests \/ d \in Verdicts
  /\ None \notin Decisions /\ Requests \cap Verdicts = {}
  BY DecisionsAssumption DEF Decisions

\* A transition makes a case of the next revision.
LEMMA MovedTyped ==
  ASSUME case \in Cases, NEW to \in Statuses, NEW d \in Decisions \cup {None}, NEW p \in Nat
  PROVE  /\ Moved(to, d, p) \in Cases
         /\ Moved(to, d, p).revision = case.revision + 1
         /\ Moved(to, d, p).package = p
         /\ Moved(to, d, p).status = to
         /\ to \in Closed => Moved(to, d, p).resolution = d
<1> DEFINE now == case.revision + 1
           reopens == \/ case.status \in Closed
                      \/ case.status = "waiting_for_evidence" /\ to = "assigned"
           started == CASE to = "in_review" /\ case.started = 0 -> now
                        [] to = "waiting_for_evidence" /\ case.started = 0 -> case.assigned
                        [] OTHER -> case.started
           assigned == IF to = "assigned" /\ case.assigned = 0 THEN now ELSE case.assigned
           resolution == IF to \in Closed THEN d ELSE IF reopens THEN None ELSE case.resolution
           previous == IF reopens THEN case.resolution ELSE case.previous
<1>1. Moved(to, d, p) = [status |-> to, revision |-> now, package |-> p,
                         assigned |-> assigned, started |-> started,
                         resolution |-> resolution, previous |-> previous]
  BY DEF Moved
<1>2. now \in Nat /\ assigned \in Nat /\ started \in Nat
  BY DEF Cases
<1>3. resolution \in Decisions \cup {None} /\ previous \in Decisions \cup {None}
  BY DEF Cases
<1>4. to \in Closed => resolution = d
  OBVIOUS
<1> HIDE DEF now, reopens, started, assigned, resolution, previous
<1>5. Moved(to, d, p) \in Cases
  BY <1>1, <1>2, <1>3 DEF Cases
<1>6. Moved(to, d, p).revision = now
  BY <1>1
<1> QED
  BY <1>1, <1>4, <1>5, <1>6 DEF now

\* A transition outdates what the calls in progress have read.
LEMMA KnowsLater ==
  ASSUME NEW k \in Calls, NEW old \in Cases, NEW new \in Cases, NEW dec \in DecisionFacts,
         Knows(k, old, dec), new.revision = old.revision + 1,
         \A d \in Decisions : dec[d].revision <= old.revision
  PROVE  Knows(k, new, dec)
<1>1. old.revision \in Nat /\ k.revision \in Nat /\ new.revision > old.revision
  BY DEF Cases, Calls
<1>2. k.decision \in Requests => dec[k.decision].revision \in Nat /\ dec[k.decision].revision <= old.revision
  BY DecisionKinds DEF DecisionFacts
<1> QED
  BY <1>1, <1>2 DEF Knows

\* A decision that is recorded for the first time changes nothing for the calls
\* that carry another one.
LEMMA KnowsMore ==
  ASSUME NEW k \in Calls, NEW cs \in Cases, NEW dec \in DecisionFacts, NEW d \in Decisions,
         NEW rec, Knows(k, cs, dec), dec[d].revision = 0
  PROVE  Knows(k, cs, [dec EXCEPT ![d] = rec])
<1>1. k.decision \in Requests => k.decision \in Decisions
  BY DecisionKinds
<1>2. k.decision \in Requests /\ k.decision # d => [dec EXCEPT ![d] = rec][k.decision] = dec[k.decision]
  BY <1>1 DEF DecisionFacts
<1>3. k.step \in {"advancing", "moving", "returning"} => k.decision # d
  BY DEF Knows
<1> QED
  BY <1>2, <1>3 DEF Knows

LEMMA IdleKnows ==
  ASSUME NEW cs, NEW dec
  PROVE  Idle \in Calls /\ Knows(Idle, cs, dec)
  BY DEF Idle, Calls, Knows

----------------------------------------------------------------------------
(* Kinds of step. *)

\* A call in progress goes on, or a new one begins.
LEMMA CallStep ==
  ASSUME CallsInv, NEW c \in Callers, NEW k \in Calls, Knows(k, case, decision),
         caller' = [caller EXCEPT ![c] = k], UNCHANGED <<case, decision>>
  PROVE  CallsInv'
<1>1. caller' \in [Callers -> Calls]
  BY DEF CallsInv
<1>2. ASSUME NEW b \in Callers
      PROVE  Knows(caller'[b], case, decision)
  BY DEF CallsInv
<1> QED
  BY <1>1, <1>2 DEF CallsInv, Knows

LEMMA ReturnStep ==
  ASSUME CallsInv, NEW c \in Callers, Returns(c), UNCHANGED <<case, decision>>
  PROVE  CallsInv'
  BY CallStep, IdleKnows DEF Returns

LEMMA SameFacts ==
  ASSUME FactsInv, UNCHANGED <<case, decision, moves>>
  PROVE  FactsInv'
  BY DEF FactsInv, Used, Answerable, Grounded, Valid

LEMMA SameCalls ==
  ASSUME CallsInv, UNCHANGED <<case, decision, caller>>
  PROVE  CallsInv'
  BY DEF CallsInv, Knows

\* The case is moved; what is left to show is that the request for which it is
\* moved has not moved it before, and what the case then waits for or rests on.
LEMMA MoveStep ==
  ASSUME FactsInv, NEW to \in Statuses, NEW d \in Decisions \cup {None}, NEW p \in Nat,
         case.package <= p,
         case' = Moved(to, d, p), Valid(case'), decision' = decision,
         moves' \in Counts, \A e \in Requests : Used(e, case', decision, moves'),
         Answerable(case', decision, moves'), Grounded(case', decision)
  PROVE  FactsInv'
<1>1. case' \in Cases /\ case'.revision = case.revision + 1
  BY MovedTyped DEF FactsInv
<1>2. case.revision \in Nat
  BY DEF FactsInv, Cases
<1>3. ASSUME NEW e \in Decisions
      PROVE  decision[e].revision <= case'.revision
  <2>1. decision[e].revision \in Nat /\ decision[e].revision <= case.revision
    BY DEF FactsInv, DecisionFacts
  <2> QED
    BY <2>1, <1>1, <1>2
<1>4. 0 < case'.revision
  BY <1>1, <1>2
<1> QED
  BY <1>1, <1>3, <1>4 DEF FactsInv

LEMMA MoveCalls ==
  ASSUME FactsInv, CallsInv, case' \in Cases, case'.revision = case.revision + 1,
         decision' = decision,
         caller' = caller \/ \E c \in Callers : Returns(c)
  PROVE  CallsInv'
<1>1. caller' \in [Callers -> Calls]
  BY IdleKnows DEF CallsInv, Returns
<1>2. ASSUME NEW b \in Callers
      PROVE  Knows(caller'[b], case', decision)
  <2>1. CASE caller'[b] = caller[b]
    BY <2>1, KnowsLater DEF FactsInv, CallsInv
  <2>2. CASE caller'[b] # caller[b]
    <3>1. caller'[b] = Idle
      BY <2>2 DEF Returns, CallsInv
    <3> QED
      BY <3>1, IdleKnows
  <2> QED
    BY <2>1, <2>2
<1> QED
  BY <1>1, <1>2 DEF CallsInv

\* A transition that no request asked for leaves the counts as they are.
LEMMA UsedLater ==
  ASSUME FactsInv, NEW new \in Cases, new.revision = case.revision + 1,
         case.package <= new.package, NEW e \in Requests
  PROVE  Used(e, new, decision, moves)
<1>1. /\ moves["requested"][e] \in Nat /\ moves["reopened"][e] \in Nat
      /\ decision[e].revision \in Nat /\ decision[e].package \in Nat
  BY DecisionKinds DEF FactsInv, Counts, DecisionFacts
<1>2. /\ case.revision \in Nat /\ case.package \in Nat /\ new.package \in Nat
  BY DEF FactsInv, Cases
<1>3. Used(e, case, decision, moves)
  BY DEF FactsInv
<1> QED
  BY <1>1, <1>2, <1>3 DEF Used

\* Move, Dismiss and Resolve: their section writes the case or leaves it.
LEMMA PlainMove ==
  ASSUME IInv, NEW to \in Statuses \ {"waiting_for_evidence"}, NEW d \in Decisions \cup {None},
         case' = Moved(to, d, case.package), Valid(case'),
         UNCHANGED <<decision, moves, caller>>,
         to = "resolved" => /\ d \in Decisions /\ 0 < decision[d].revision
                            /\ decision[d].revision = case.revision
  PROVE  FactsInv' /\ CallsInv'
<1>1. case \in Cases /\ case.package \in Nat /\ case.revision \in Nat
  BY DEF IInv, FactsInv, Cases
<1>2. /\ case' \in Cases /\ case'.revision = case.revision + 1
      /\ case'.package = case.package /\ case'.status = to
      /\ to = "resolved" => case'.resolution = d
  BY <1>1, MovedTyped DEF Closed
<1>3. \A e \in Requests : Used(e, case', decision, moves')
  BY <1>1, <1>2, UsedLater DEF IInv
<1>4. Answerable(case', decision, moves')
  BY <1>2 DEF Answerable
<1>5. Grounded(case', decision)
  BY <1>1, <1>2 DEF Grounded
<1>6. FactsInv'
  BY <1>1, <1>3, <1>4, <1>5, MoveStep DEF IInv, FactsInv
<1>7. CallsInv'
  BY <1>2, MoveCalls DEF IInv
<1> QED
  BY <1>6, <1>7

\* A section writes what it is for, or leaves things as they were.
LEMMA SilentSection ==
  ASSUME OtherTypes, NEW new,
         Section(Put(new), Kept, Silent, Silent), UNCHANGED <<active, locked, caller>>
  PROVE  /\ OtherTypes'
         /\ Put(new) \/ Kept
  BY DEF Section, Silent, OtherTypes, Fault

----------------------------------------------------------------------------
(* The actions. *)

LEMMA MoveInv ==
  ASSUME IInv, NEW to \in Statuses, Move(to)
  PROVE  IInv'
<1> DEFINE new == Moved(to, None, case.package)
<1>1. /\ Section(Put(new), Kept, Silent, Silent)
      /\ to \in Statuses \ ({"waiting_for_evidence"} \cup Closed) /\ Valid(new)
      /\ UNCHANGED <<active, locked, caller>>
  BY DEF Move, Closed
<1> HIDE DEF new
<1>2. OtherTypes' /\ (Put(new) \/ Kept)
  BY <1>1, SilentSection DEF IInv
<1>3. CASE Put(new)
  <2>1. case' = Moved(to, None, case.package) /\ Valid(case') /\ UNCHANGED <<decision, moves>>
    BY <1>1, <1>3 DEF Put, new
  <2>2. to # "resolved"
    BY <1>1 DEF Closed
  <2> QED
    BY <1>1, <1>2, <2>1, <2>2, PlainMove DEF IInv
<1>4. CASE Kept
  BY <1>1, <1>2, <1>4, SameFacts, SameCalls DEF IInv, Kept
<1> QED
  BY <1>2, <1>3, <1>4

LEMMA DismissInv ==
  ASSUME IInv, NEW d \in Verdicts, Dismiss(d)
  PROVE  IInv'
<1> DEFINE new == Moved("dismissed", d, case.package)
<1>1. /\ Section(Put(new), Kept, Silent, Silent) /\ Valid(new)
      /\ UNCHANGED <<active, locked, caller>>
  BY DEF Dismiss
<1> HIDE DEF new
<1>2. OtherTypes' /\ (Put(new) \/ Kept)
  BY <1>1, SilentSection DEF IInv
<1>3. CASE Put(new)
  <2>1. case' = Moved("dismissed", d, case.package) /\ Valid(case') /\ UNCHANGED <<decision, moves>>
    BY <1>1, <1>3 DEF Put, new
  <2>2. "dismissed" \in Statuses \ {"waiting_for_evidence"} /\ d \in Decisions \cup {None}
    BY DecisionKinds DEF Statuses, Closed
  <2> QED
    BY <1>1, <1>2, <2>1, <2>2, PlainMove DEF IInv
<1>4. CASE Kept
  BY <1>1, <1>2, <1>4, SameFacts, SameCalls DEF IInv, Kept
<1> QED
  BY <1>2, <1>3, <1>4

\* The decision a case is resolved with was made on the revision it has.
LEMMA ResolveInv ==
  ASSUME IInv, NEW d \in Verdicts, Resolve(d)
  PROVE  IInv'
<1> DEFINE new == Moved("resolved", d, case.package)
<1>1. /\ Section(Put(new), Kept, Silent, Silent) /\ Valid(new)
      /\ UNCHANGED <<active, locked, caller>>
      /\ decision[d].revision = case.revision
  BY DEF Resolve, Conclusive
<1> HIDE DEF new
<1>2. OtherTypes' /\ (Put(new) \/ Kept)
  BY <1>1, SilentSection DEF IInv
<1>3. CASE Put(new)
  <2>1. case' = Moved("resolved", d, case.package) /\ Valid(case') /\ UNCHANGED <<decision, moves>>
    BY <1>1, <1>3 DEF Put, new
  <2>2. "resolved" \in Statuses \ {"waiting_for_evidence"} /\ d \in Decisions
    BY DecisionKinds DEF Statuses, Closed
  <2>3. 0 < decision[d].revision
    BY <1>1 DEF IInv, FactsInv
  <2> QED
    BY <1>1, <1>2, <2>1, <2>2, <2>3, PlainMove DEF IInv
<1>4. CASE Kept
  BY <1>1, <1>2, <1>4, SameFacts, SameCalls DEF IInv, Kept
<1> QED
  BY <1>2, <1>3, <1>4

LEMMA DecideInv ==
  ASSUME IInv, NEW c \in Callers, NEW d \in Decisions, Decide(c, d)
  PROVE  IInv'
<1> DEFINE k == [step |-> "deciding", decision |-> d, revision |-> case.revision,
                 package |-> IF d \in Requests THEN case.package + 1 ELSE 0]
<1>1. /\ caller' = [caller EXCEPT ![c] = k]
      /\ UNCHANGED <<case, decision, events, log, active, locked, moves, faults>>
  BY DEF Decide
<1>2. case.revision \in Nat /\ case.package \in Nat /\ 0 < case.revision
  BY DEF IInv, FactsInv, Cases
<1>3. k \in Calls /\ Knows(k, case, decision)
  BY <1>2 DEF Calls, Knows
<1> HIDE DEF k
<1> QED
  BY <1>1, <1>3, CallStep, SameFacts DEF IInv, OtherTypes

\* A decision is recorded at most once, so nothing that is known of the recorded
\* ones changes.
LEMMA RecordInv ==
  ASSUME IInv, NEW c \in Callers, RecordDecision(c)
  PROVE  IInv'
<1> DEFINE d == caller[c].decision
           rec(old) == [revision |-> caller[c].revision, package |-> caller[c].package,
                        supersedes |-> old]
           next == IF d \in Requests THEN "advancing" ELSE "idle"
           Recorded1(old) == /\ decision' = [decision EXCEPT ![d] = rec(old)]
                             /\ caller' = [caller EXCEPT ![c].step = next]
                             /\ UNCHANGED <<case, moves>>
<1>1. /\ caller[c] \in Calls /\ d \in Decisions
      /\ 0 < caller[c].revision /\ caller[c].revision <= case.revision
      /\ caller[c].revision \in Nat /\ caller[c].package \in Nat
  BY DEF IInv, CallsInv, Knows, RecordDecision, At, Calls
<1>2. OtherTypes'
  BY DEF RecordDecision, Section, Silent, IInv, OtherTypes, Fault
<1>3. \/ Kept /\ Returns(c)
      \/ d \notin Recorded /\ \E old \in Verdicts \cup {None} : Recorded1(old)
  <2>1. {None} \cup (IF d \in Verdicts THEN Recorded \cap Verdicts ELSE {}) \subseteq Verdicts \cup {None}
    OBVIOUS
  <2> QED
    BY <2>1 DEF RecordDecision, Section, Goes
<1>4. CASE Kept /\ Returns(c)
  BY <1>2, <1>4, ReturnStep, SameFacts DEF IInv, Kept
<1>5. CASE d \notin Recorded /\ \E old \in Verdicts \cup {None} : Recorded1(old)
  <2> PICK old \in Verdicts \cup {None} : Recorded1(old)
    BY <1>5
  <2>1. decision \in DecisionFacts /\ decision[d].revision = 0
    BY <1>1, <1>5 DEF IInv, FactsInv, Recorded, DecisionFacts
  <2>2. decision' = [decision EXCEPT ![d] = rec(old)] /\ decision' \in DecisionFacts
    BY <1>1, <2>1 DEF DecisionFacts
  <2>3. /\ decision'[d].revision = caller[c].revision
        /\ \A e \in Decisions : e # d => decision'[e] = decision[e]
    BY <1>1, <2>1, <2>2 DEF DecisionFacts
  <2>4. FactsInv'
    <3>1. \A e \in Decisions : decision'[e].revision <= case.revision
      BY <1>1, <2>3 DEF IInv, FactsInv
    <3>2. \A e \in Requests : Used(e, case, decision', moves)
      BY <1>1, <2>1, <2>3, DecisionKinds DEF IInv, FactsInv, Used, Counts
    <3>3. Answerable(case, decision', moves)
      BY <2>1, <2>3, DecisionKinds DEF IInv, FactsInv, Answerable
    <3>4. Grounded(case, decision')
      BY <2>1, <2>3 DEF IInv, FactsInv, Grounded
    <3> QED
      BY <2>2, <3>1, <3>2, <3>3, <3>4 DEF IInv, FactsInv, Valid
  <2>5. CallsInv'
    <3>1. caller' \in [Callers -> Calls]
      BY <1>1 DEF IInv, CallsInv, Calls
    <3>2. ASSUME NEW b \in Callers
          PROVE  Knows(caller'[b], case, decision')
      <4>1. caller[b] \in Calls /\ Knows(caller[b], case, decision) /\ case \in Cases
        BY DEF IInv, CallsInv, FactsInv
      <4>2. Knows(caller[b], case, decision')
        <5>1. decision' = [decision EXCEPT ![d] = rec(old)]
          BY <2>2
        <5> HIDE DEF rec, d, next
        <5>2. Knows(caller[b], case, [decision EXCEPT ![d] = rec(old)])
          BY <1>1, <2>1, <4>1, KnowsMore
        <5> QED
          BY <5>1, <5>2
      <4>3. CASE b # c
        BY <4>2, <4>3 DEF IInv, CallsInv
      <4>4. CASE b = c
        <5>1. caller'[c].step = next /\ caller'[c].decision = d
          BY DEF IInv, CallsInv, Calls
        <5>2. next = "advancing" => d \in Requests /\ 0 < decision'[d].revision
          BY <1>1, <2>3
        <5>3. next \in {"advancing", "idle"}
          OBVIOUS
        <5> HIDE DEF next
        <5> QED
          BY <4>4, <5>1, <5>2, <5>3 DEF Knows
      <4> QED
        BY <4>3, <4>4
    <3> QED
      BY <3>1, <3>2 DEF CallsInv
  <2> QED
    BY <1>2, <2>4, <2>5 DEF IInv
<1> QED
  BY <1>3, <1>4, <1>5

LEMMA ReplayInv ==
  ASSUME IInv, NEW c \in Callers, NEW d \in Requests, Replay(c, d)
  PROVE  IInv'
<1> DEFINE k == [Idle EXCEPT !.step = "advancing", !.decision = d]
<1>1. /\ caller' = [caller EXCEPT ![c] = k] /\ d \in Recorded
      /\ UNCHANGED <<case, decision, events, log, active, locked, moves, faults>>
  BY DEF Replay
<1>2. 0 < decision[d].revision
  BY <1>1, DecisionKinds DEF IInv, FactsInv, DecisionFacts, Recorded
<1>3. k \in Calls /\ Knows(k, case, decision)
  BY <1>2, DecisionKinds DEF Idle, Calls, Knows
<1> HIDE DEF k
<1> QED
  BY <1>1, <1>3, CallStep, SameFacts DEF IInv, OtherTypes

LEMMA CheckAdvanceInv ==
  ASSUME IInv, NEW c \in Callers, CheckAdvance(c)
  PROVE  IInv'
<1> DEFINE d == caller[c].decision
           k == [caller[c] EXCEPT !.step = "moving", !.revision = decision[d].revision]
<1>1. /\ UNCHANGED <<case, decision, events, log, active, locked, moves, faults>>
      /\ \/ Advanceable(d) /\ caller' = [caller EXCEPT ![c].step = "moving",
                                                       ![c].revision = decision[d].revision]
         \/ Returns(c)
  BY DEF CheckAdvance
<1>2. CASE Returns(c)
  BY <1>1, <1>2, ReturnStep, SameFacts DEF IInv, OtherTypes
<1>3. CASE Advanceable(d) /\ caller' = [caller EXCEPT ![c].step = "moving",
                                                      ![c].revision = decision[d].revision]
  <2>1. caller[c] \in Calls /\ caller[c].step = "advancing"
    BY DEF IInv, CallsInv, CheckAdvance, At
  <2>2. d \in Requests /\ 0 < decision[d].revision /\ decision[d].revision \in Nat
    BY <2>1, DecisionKinds DEF IInv, CallsInv, FactsInv, Knows, DecisionFacts
  <2>3. decision[d].package > case.package
    BY <1>3 DEF Advanceable
  <2>4. caller' = [caller EXCEPT ![c] = k]
    BY <1>3, <2>1 DEF IInv, CallsInv, Calls
  <2>5. /\ k \in Calls /\ k.step = "moving" /\ k.decision = d
        /\ k.revision = decision[d].revision
    BY <2>1, <2>2 DEF Calls
  <2>6. Knows(k, case, decision)
    BY <2>2, <2>3, <2>5 DEF Knows
  <2> HIDE DEF k
  <2> QED
    BY <1>1, <2>4, <2>5, <2>6, CallStep, SameFacts DEF IInv, OtherTypes
<1> QED
  BY <1>1, <1>2, <1>3

LEMMA ReopenInv ==
  ASSUME IInv, NEW c \in Callers, NEW d \in Requests, Reopen(c, d)
  PROVE  IInv'
<1> DEFINE k == [step |-> "returning", decision |-> d, revision |-> case.revision,
                 package |-> decision[d].package]
<1>1. /\ caller' = [caller EXCEPT ![c] = k] /\ d \in Recorded /\ Reopenable(d)
      /\ UNCHANGED <<case, decision, events, log, active, locked, moves, faults>>
  BY DEF Reopen
<1>2. /\ 0 < decision[d].revision /\ decision[d].package > case.package
      /\ decision[d].package \in Nat /\ case.revision \in Nat
  BY <1>1, DecisionKinds
  DEF IInv, FactsInv, DecisionFacts, Cases, Recorded, Reopenable
<1>3. k \in Calls /\ Knows(k, case, decision)
  BY <1>2, DecisionKinds DEF Calls, Knows
<1> HIDE DEF k
<1> QED
  BY <1>1, <1>3, CallStep, SameFacts DEF IInv, OtherTypes

\* The two transitions that are made for a request either happen, on the revision
\* that was read, or do not.
LEMMA TransitionCases ==
  ASSUME IInv, NEW c \in Callers, NEW step, NEW to, NEW p,
         NEW event \in {"requested", "reopened"},
         caller[c].decision \in Requests,
         Transition(c, step, to, p, event)
  PROVE  /\ OtherTypes' /\ Returns(c) /\ UNCHANGED decision
         /\ \/ UNCHANGED <<case, moves>>
            \/ /\ case' = Moved(to, caller[c].decision, p) /\ Valid(case')
               /\ case.revision = caller[c].revision /\ <<case.status, to>> \in Transitions
               /\ moves' = [moves EXCEPT ![event][caller[c].decision] = @ + 1]
<1> DEFINE d == caller[c].decision
           new == Moved(to, d, p)
           move == /\ case' = new
                   /\ moves' = [moves EXCEPT ![event][d] = @ + 1]
                   /\ UNCHANGED decision
           named == events' = [events EXCEPT ![event] = @ \cup {d}]
<1>1. /\ \/ Possible(c, to, new) /\ Section(move, Kept, named, Silent)
         \/ ~Possible(c, to, new) /\ Kept /\ UNCHANGED <<events, log, faults>>
      /\ Returns(c) /\ UNCHANGED <<active, locked>>
  BY DEF Transition
<1> HIDE DEF new, d, move, named
<1>2. /\ Kept \/ (move /\ Possible(c, to, new))
      /\ named \/ Silent
      /\ log' = log \/ log' \in {"torn", "held"}
  <2>1. CASE ~Possible(c, to, new) /\ Kept /\ UNCHANGED <<events, log, faults>>
    BY <2>1 DEF Silent
  <2>2. CASE Possible(c, to, new) /\ Section(move, Kept, named, Silent)
    <3>1. /\ Kept \/ move
          /\ named \/ Silent
      BY <2>2 DEF Section
    <3>2. log' = log \/ log' \in {"torn", "held"}
      BY <2>2 DEF Section
    <3> QED
      BY <2>2, <3>1, <3>2
  <2> QED
    BY <1>1, <2>1, <2>2
<1>3. OtherTypes'
  <2>1. events' \in [{"requested", "reopened"} -> SUBSET Requests]
    BY <1>2 DEF IInv, OtherTypes, Silent, d, named
  <2> QED
    BY <1>1, <1>2, <2>1 DEF IInv, OtherTypes
<1> QED
  BY <1>1, <1>2, <1>3 DEF Kept, Possible, Current, new, d, move

\* Counting a transition for one request leaves the other counts alone.
LEMMA CountOne ==
  ASSUME NEW m \in Counts, NEW event \in {"requested", "reopened"}, NEW d \in Requests
  PROVE  LET n == [m EXCEPT ![event][d] = @ + 1]
         IN  /\ n \in Counts /\ n[event][d] = m[event][d] + 1
             /\ \A e \in {"requested", "reopened"}, b \in Requests :
                  e # event \/ b # d => n[e][b] = m[e][b]
  BY DEF Counts

\* The request that sends the case away is one that has not done so before: its
\* own transition would have outdated the revision it was recorded on.
LEMMA AdvanceInv ==
  ASSUME IInv, NEW c \in Callers, Advance(c)
  PROVE  IInv'
<1> DEFINE d == caller[c].decision
<1>1. /\ caller[c] \in Calls /\ caller[c].step = "moving" /\ d \in Requests
      /\ 0 < decision[d].revision /\ caller[c].revision = decision[d].revision
      /\ caller[c].revision = case.revision => decision[d].package > case.package
  BY DEF IInv, CallsInv, Knows, Advance, Transition, At
<1>2. /\ OtherTypes' /\ Returns(c) /\ UNCHANGED decision
      /\ \/ UNCHANGED <<case, moves>>
         \/ /\ case' = Moved("waiting_for_evidence", d, case.package) /\ Valid(case')
            /\ case.revision = caller[c].revision
            /\ moves' = [moves EXCEPT !["requested"][d] = @ + 1]
  BY <1>1, TransitionCases DEF Advance
<1>3. CASE UNCHANGED <<case, moves>>
  BY <1>2, <1>3, ReturnStep, SameFacts DEF IInv
<1>4. CASE /\ case' = Moved("waiting_for_evidence", d, case.package) /\ Valid(case')
           /\ case.revision = caller[c].revision
           /\ moves' = [moves EXCEPT !["requested"][d] = @ + 1]
  <2>1. /\ case \in Cases /\ case.package \in Nat /\ case.revision \in Nat
        /\ "waiting_for_evidence" \in Statuses /\ d \in Decisions \cup {None}
    BY <1>1, DecisionKinds DEF IInv, FactsInv, Cases, Statuses
  <2>2. /\ case' \in Cases /\ case'.revision = case.revision + 1
        /\ case'.package = case.package /\ case'.status = "waiting_for_evidence"
    BY <1>4, <2>1, MovedTyped
  <2>3. moves \in Counts /\ Used(d, case, decision, moves)
    BY <1>1 DEF IInv, FactsInv
  <2>4. /\ moves' \in Counts /\ moves'["requested"][d] = moves["requested"][d] + 1
        /\ moves'["reopened"] = moves["reopened"]
        /\ \A b \in Requests : b # d => moves'["requested"][b] = moves["requested"][b]
    BY <1>1, <1>4, <2>3, CountOne DEF Counts
  <2>5. moves["requested"][d] = 0 /\ moves["reopened"][d] = 0
    <3>1. /\ moves["requested"][d] \in Nat /\ moves["reopened"][d] \in Nat
          /\ decision[d].package \in Nat /\ decision[d].revision \in Nat
      BY <1>1, <2>3, DecisionKinds DEF Counts, IInv, FactsInv, DecisionFacts
    <3> QED
      BY <3>1, <1>1, <1>4, <2>1, <2>3 DEF Used
  <2>6. \A e \in Requests : Used(e, case', decision, moves')
    <3> TAKE e \in Requests
    <3>1. Used(e, case', decision, moves)
      BY <2>1, <2>2, UsedLater DEF IInv
    <3>2. CASE e # d
      BY <3>1, <3>2, <2>4 DEF Used
    <3>3. CASE e = d
      BY <3>1, <3>3, <1>1, <1>4, <2>1, <2>2, <2>4, <2>5 DEF Used
    <3> QED
      BY <3>2, <3>3
  <2>7. Answerable(case', decision, moves')
    BY <1>1, <1>4, <2>2, <2>4, <2>5 DEF Answerable
  <2>8. Grounded(case', decision)
    BY <2>2 DEF Grounded
  <2>9. FactsInv'
    <3>1. case.package <= case.package /\ FactsInv /\ decision' = decision
      BY <1>2, <2>1 DEF IInv
    <3> HIDE DEF d
    <3> QED
      BY <1>4, <2>1, <2>4, <2>6, <2>7, <2>8, <3>1, MoveStep
  <2>10. CallsInv'
    BY <1>2, <2>2, MoveCalls DEF IInv
  <2> QED
    BY <1>2, <2>9, <2>10 DEF IInv
<1> QED
  BY <1>2, <1>3, <1>4

\* The request that brings the case back asked for a package the case has not
\* seen, and the case has seen it from then on.
LEMMA ReturnInv ==
  ASSUME IInv, NEW c \in Callers, Return(c)
  PROVE  IInv'
<1> DEFINE d == caller[c].decision
           p == caller[c].package
<1>1. /\ caller[c] \in Calls /\ caller[c].step = "returning" /\ d \in Requests
      /\ 0 < decision[d].revision /\ p = decision[d].package /\ p \in Nat
      /\ caller[c].revision = case.revision => p > case.package
  BY DEF IInv, CallsInv, Knows, Return, Transition, At, Calls
<1>2. /\ OtherTypes' /\ Returns(c) /\ UNCHANGED decision
      /\ \/ UNCHANGED <<case, moves>>
         \/ /\ case' = Moved("assigned", d, p) /\ Valid(case')
            /\ case.revision = caller[c].revision
            /\ moves' = [moves EXCEPT !["reopened"][d] = @ + 1]
  <2>1. Transition(c, "returning", "assigned", caller[c].package, "reopened")
    BY DEF Return
  <2>2. caller[c].decision \in Requests
    BY <1>1
  <2>3. /\ OtherTypes' /\ Returns(c) /\ UNCHANGED decision
        /\ \/ UNCHANGED <<case, moves>>
           \/ /\ case' = Moved("assigned", caller[c].decision, caller[c].package) /\ Valid(case')
              /\ case.revision = caller[c].revision /\ <<case.status, "assigned">> \in Transitions
              /\ moves' = [moves EXCEPT !["reopened"][caller[c].decision] = @ + 1]
    BY <2>1, <2>2, TransitionCases
  <2> QED
    BY <2>3
<1>3. CASE UNCHANGED <<case, moves>>
  BY <1>2, <1>3, ReturnStep, SameFacts DEF IInv
<1>4. CASE /\ case' = Moved("assigned", d, p) /\ Valid(case')
           /\ case.revision = caller[c].revision
           /\ moves' = [moves EXCEPT !["reopened"][d] = @ + 1]
  <2>1. /\ case \in Cases /\ case.package \in Nat /\ case.revision \in Nat
        /\ "assigned" \in Statuses /\ d \in Decisions \cup {None}
    BY <1>1, DecisionKinds DEF IInv, FactsInv, Cases, Statuses
  <2>2. /\ case' \in Cases /\ case'.revision = case.revision + 1
        /\ case'.package = p /\ case'.status = "assigned"
    BY <1>1, <1>4, <2>1, MovedTyped
  <2>3. moves \in Counts /\ Used(d, case, decision, moves)
    BY <1>1 DEF IInv, FactsInv
  <2>4. /\ moves' \in Counts /\ moves'["reopened"][d] = moves["reopened"][d] + 1
        /\ moves'["requested"] = moves["requested"]
        /\ \A b \in Requests : b # d => moves'["reopened"][b] = moves["reopened"][b]
    BY <1>1, <1>4, <2>3, CountOne DEF Counts
  <2>5. case.package < p
    BY <1>1, <1>4
  <2>6. moves["reopened"][d] = 0
    <3>1. moves["reopened"][d] \in Nat
      BY <1>1, <2>3 DEF Counts
    <3> QED
      BY <3>1, <1>1, <2>1, <2>3, <2>5 DEF Used
  <2>7. \A e \in Requests : Used(e, case', decision, moves')
    <3> TAKE e \in Requests
    <3>1. Used(e, case', decision, moves)
      BY <1>1, <2>1, <2>2, <2>5, UsedLater DEF IInv
    <3>2. CASE e # d
      BY <3>1, <3>2, <2>4 DEF Used
    <3>3. CASE e = d
      BY <3>1, <3>3, <1>1, <2>2, <2>4, <2>6 DEF Used
    <3> QED
      BY <3>2, <3>3
  <2>8. Answerable(case', decision, moves') /\ Grounded(case', decision)
    BY <2>2 DEF Answerable, Grounded
  <2>9. FactsInv'
    <3>1. case.package <= p /\ p \in Nat /\ FactsInv /\ decision' = decision
      BY <1>1, <1>2, <2>1, <2>5 DEF IInv
    <3> HIDE DEF d, p
    <3> QED
      BY <1>4, <2>1, <2>4, <2>7, <2>8, <3>1, MoveStep
  <2>10. CallsInv'
    BY <1>2, <2>2, MoveCalls DEF IInv
  <2> QED
    BY <1>2, <2>9, <2>10 DEF IInv
<1> QED
  BY <1>2, <1>3, <1>4

----------------------------------------------------------------------------
(* The theorems. *)

LEMMA InitInv == Init => IInv
<1> SUFFICES ASSUME Init PROVE IInv
  OBVIOUS
<1>1. case \in Cases /\ Valid(case) /\ 0 < case.revision /\ case.status = "open"
  BY DEF Init, NewCase, Cases, Valid, Statuses, Closed
<1>2. decision \in DecisionFacts /\ \A d \in Decisions : decision[d].revision <= case.revision
  BY DEF Init, NoDecision, NewCase, DecisionFacts
<1>3. moves \in Counts /\ \A d \in Requests : Used(d, case, decision, moves)
  BY DEF Init, Counts, Used
<1>4. Answerable(case, decision, moves) /\ Grounded(case, decision)
  BY <1>1 DEF Answerable, Grounded
<1>5. CallsInv
  BY IdleKnows DEF Init, CallsInv
<1> QED
  BY <1>1, <1>2, <1>3, <1>4, <1>5 DEF IInv, FactsInv, OtherTypes, Init

LEMMA StepInv == IInv /\ [Next]_vars => IInv'
<1> SUFFICES ASSUME IInv, [Next]_vars PROVE IInv'
  OBVIOUS
<1>1. ASSUME NEW to \in Statuses, Move(to) PROVE IInv'
  BY <1>1, MoveInv
<1>2. ASSUME NEW d \in Verdicts, Dismiss(d) PROVE IInv'
  BY <1>2, DismissInv
<1>3. ASSUME NEW d \in Verdicts, Adopt(d) PROVE IInv'
  BY <1>3, SameFacts, SameCalls DEF Adopt, IInv, OtherTypes
<1>4. ASSUME NEW d \in Verdicts, Resolve(d) PROVE IInv'
  BY <1>4, ResolveInv
<1>5. ASSUME LockResult PROVE IInv'
  BY <1>5, SameFacts, SameCalls DEF LockResult, IInv, OtherTypes
<1>6. ASSUME NEW c \in Callers, Act(c) PROVE IInv'
  BY <1>6, RecordInv, CheckAdvanceInv, AdvanceInv, ReturnInv DEF Act
<1>7. ASSUME NEW c \in Callers, Die(c) PROVE IInv'
  BY <1>7, ReturnStep, SameFacts DEF Die, IInv, OtherTypes
<1>8. ASSUME NEW c \in Callers, NEW d \in Decisions, Decide(c, d) PROVE IInv'
  BY <1>8, DecideInv
<1>9. ASSUME NEW c \in Callers, NEW d \in Requests, Replay(c, d) \/ Reopen(c, d) PROVE IInv'
  BY <1>9, ReplayInv, ReopenInv
<1>10. ASSUME UNCHANGED vars PROVE IInv'
  BY <1>10, SameFacts, SameCalls DEF vars, IInv, OtherTypes
<1> QED
  BY <1>1, <1>2, <1>3, <1>4, <1>5, <1>6, <1>7, <1>8, <1>9, <1>10 DEF Next

\* The inductive invariant: what calls in progress know of the case, and what the
\* counts, the waiting case and the resolved case owe to the recorded decisions.
THEOREM Invariance == Spec => []IInv
  BY InitInv, StepInv, PTL DEF Spec

\* Cases, decisions, events and calls keep their types, and the case stays one
\* that its own validation accepts (_case_invariants).
THEOREM TypeCorrect == Spec => []TypeOK
<1>1. IInv => TypeOK
  BY DEF IInv, FactsInv, CallsInv, OtherTypes, Cases, DecisionFacts, Calls, Counts, TypeOK
<1> QED
  BY <1>1, Invariance, PTL

\* A request for evidence moves the case once each way, with any number of callers
\* that send it and the reopening again (advance_case_for_evidence_request,
\* reopen_review_case).
THEOREM MovesOnce == Spec => []RequestMovesOnce
<1>1. IInv => RequestMovesOnce
  BY DEF IInv, FactsInv, Used, RequestMovesOnce
<1> QED
  BY <1>1, Invariance, PTL

\* A case that waits for evidence has a request that would be accepted as the
\* reason to reopen it.
THEOREM WaitsForSomething == Spec => []WaitingAnswerable
<1>1. IInv => WaitingAnswerable
  BY DecisionKinds
  DEF IInv, FactsInv, Answerable, WaitingAnswerable, Recorded, DecisionFacts
<1> QED
  BY <1>1, Invariance, PTL

\* A resolved case was resolved on the revision its decision was made on.
THEOREM Resolved == Spec => []ResolvedOnReview
<1>1. IInv => ResolvedOnReview
  BY DEF IInv, FactsInv, Grounded, ResolvedOnReview
<1> QED
  BY <1>1, Invariance, PTL
=============================================================================
