------------------------ MODULE ProviderSwitchProofs ------------------------
(***************************************************************************)
(* Proofs about ProviderSwitch, for any decisions, callers, registry files *)
(* and policies, and any number of failed writes and crashes: decisions    *)
(* that nobody works on can be read, their events tell their life, they    *)
(* are approved only for a provider that is available then, and failures   *)
(* never make a provider look healthy.                                     *)
(***************************************************************************)
EXTENDS ProviderSwitch, FiniteSetTheorems, TLAPS

\* The files of a decision and what a call knows.
Directories ==
  [key : Targets \cup {None}, revision : [Revisions -> Statuses \cup {None}],
   current : 0 .. 3, request : 0 .. 3, events : Seq(Statuses)]

Calls ==
  [step : Steps, decision : Decisions \cup {None}, target : Targets \cup {None},
   status : Statuses \cup {None}, seen : 0 .. 3, expected : 0 .. 3]

\* The revisions up to n are a life of a decision, and the events tell it.
Chain(f, n) ==
  /\ n \in 0 .. 3
  /\ \A i \in 1 .. n : f.revision[i] \in Statuses
  /\ n > 0 => f.revision[1] = "pending_approval"
  /\ \A i \in 2 .. n : <<f.revision[i - 1], f.revision[i]>> \in Transitions

Told(f, n) ==
  "kept" \notin Losses =>
    Len(f.events) = n /\ \A i \in 1 .. n : f.events[i] = f.revision[i]

Committed(f, n) == Chain(f, n) /\ Told(f, n)

\* The files of a decision nobody is writing.
Sound(f) ==
  \/ f = NoFile
  \/ /\ f.key # None /\ f.current \in 1 .. 3 /\ f.request = f.current
     /\ Committed(f, f.current)

\* The status may follow revision n.
Legal(f, n, status) ==
  IF n = 0 THEN status = "pending_approval"
  ELSE n \in 1 .. 2 /\ <<f.revision[n], status>> \in Transitions

\* The files a call finds at each of its steps: revision n, its own up to the one
\* it is about to write, and untouched below.
Stand(c, current, request) ==
  LET f == file[Mine(c)]
      n == caller[c].seen
  IN  /\ f.key # None /\ Committed(f, n) /\ Legal(f, n, caller[c].status)
      /\ f.current = current /\ f.request = request

Written(c) == file[Mine(c)].revision[caller[c].seen + 1] = caller[c].status

Stage(c) ==
  LET f == file[Mine(c)]
      n == caller[c].seen
  IN  /\ At(c, "comparing") => Sound(f) /\ ~Creates(c)
      /\ At(c, "key") => f = NoFile /\ n = 0 /\ Creates(c)
      /\ At(c, "revision") => Stand(c, n, n)
      /\ At(c, "current") => Stand(c, n, n) /\ Written(c)
      /\ At(c, "request") => Stand(c, n + 1, n) /\ Written(c)
      /\ At(c, "event") => Stand(c, n + 1, n + 1) /\ Written(c)
      /\ At(c, "done") => /\ f.key # None /\ n + 1 <= 3
                          /\ f.current = n + 1 /\ f.request = n + 1
                          /\ Committed(f, n + 1)
      /\ At(c, "failed") => Sound(f)

Working == {"key", "revision", "current", "request", "event", "done"}

\* A call past the lock of the process holds it, and past the lock file that too;
\* no client has been told of a revision beyond the one it read.
Holds(c) ==
  /\ ~At(c, "idle") => Mine(c) \in Decisions
  /\ caller[c].step \notin {"idle", "locking"} => lock[Mine(c)] = c
  /\ caller[c].step \in Working \cup {"comparing"} => lockFile[Mine(c)]
  /\ caller[c].step \in Working => known[Mine(c)] <= caller[c].seen

\* A decision that is being created is nobody else's, and no client knows it.
Alone(c) ==
  ~At(c, "idle") /\ Creates(c) =>
    /\ caller[c].seen = 0 /\ caller[c].target # None
    /\ known[Mine(c)] = 0
    /\ \A e \in Callers \ {c} : Mine(e) # Mine(c)
    /\ caller[c].step \in {"locking", "entering"} => file[Mine(c)] = NoFile

\* What a call that will pass the comparison read still stands: revisions that
\* clients have been told of are not written again.
Current(c) ==
  ~At(c, "idle") /\ ~Creates(c) =>
    /\ caller[c].expected \in Revisions
    /\ caller[c].step \in {"locking", "entering", "comparing"}
         /\ caller[c].seen = caller[c].expected =>
           /\ caller[c].expected <= known[Mine(c)]
           /\ <<file[Mine(c)].revision[caller[c].expected], caller[c].status>> \in Transitions

\* The provider an approval is for is available since it was looked up: the registry
\* is only read when the process starts.
LookedUp(c) ==
  ~At(c, "idle") /\ caller[c].status = "approved" => Available(file[Mine(c)].key)

Carried(c) == Holds(c) /\ Alone(c) /\ Current(c) /\ LookedUp(c) /\ Stage(c)

\* Without its lock file a decision can be read; clients know of no revision that
\* is not there; the events told so far are a life of a decision.
Stands(d) ==
  /\ ~lockFile[d] => Sound(file[d])
  /\ known[d] <= file[d].current
  /\ "kept" \notin Losses =>
       \A i \in 2 .. Len(file[d].events) :
         <<file[d].events[i - 1], file[d].events[i]>> \in Transitions

\* The inductive invariant.
IInv ==
  /\ TypeOK
  /\ \A c \in Callers : Carried(c)
  /\ \A d \in Decisions : Stands(d)

-----------------------------------------------------------------------------
(* Reports.                                                                 *)

\* A set of natural numbers has a least one.
LEMMA Least ==
  ASSUME NEW S \in SUBSET Nat, S # {}
  PROVE  \E i \in S : \A k \in S : i <= k
<1> DEFINE T == {0 .. m : m \in S}
<1>1. T \subseteq FiniteSubsetsOf(Nat)
  <2> SUFFICES ASSUME NEW m \in S PROVE 0 .. m \in FiniteSubsetsOf(Nat)
    OBVIOUS
  <2>1. IsFiniteSet(0 .. m)
    BY FS_Interval
  <2> QED  BY <2>1 DEF FiniteSubsetsOf
<1>2. T # {}
  OBVIOUS
<1> DEFINE R == StrictSubsetOrdering(Nat)
<1>3. IsWellFoundedOn(R, FiniteSubsetsOf(Nat))
  BY FS_StrictSubsetOrderingWellFounded
<1>4. PICK x \in T : \A y \in T : ~ (<<y, x>> \in R)
  <2> HIDE DEF T, R
  <2> QED  BY <1>1, <1>2, <1>3, WFMin
<1>5. PICK i \in S : x = 0 .. i
  OBVIOUS
<1> SUFFICES ASSUME NEW k \in S, k < i PROVE FALSE
  OBVIOUS
<1>6. 0 .. k \in T /\ 0 .. k \subseteq 0 .. i /\ 0 .. k # 0 .. i
  OBVIOUS
<1>7. 0 .. k \in SUBSET Nat /\ 0 .. i \in SUBSET Nat
  OBVIOUS
<1>8. <<0 .. k, 0 .. i>> \in R
  BY <1>6, <1>7 DEF StrictSubsetOrdering
<1> QED  BY <1>4, <1>5, <1>6, <1>8

\* The first report that speaks is one of the reports.
LEMMA FirstReportIn ==
  ASSUME NEW S, NEW n \in Nat, NEW reports \in [1 .. n -> S \cup {None}]
  PROVE  FirstReport(reports) \in S \cup {None}
<1> DEFINE speaking == {i \in DOMAIN reports : reports[i] # None}
<1>1. CASE speaking = {}
  BY <1>1 DEF FirstReport
<1>2. CASE speaking # {}
  <2>1. speaking \in SUBSET Nat
    OBVIOUS
  <2>2. \E i \in speaking : \A j \in speaking : i <= j
    <3> HIDE DEF speaking
    <3> QED  BY <1>2, <2>1, Least
  <2> DEFINE first == CHOOSE i \in speaking : \A j \in speaking : i <= j
  <2>3. first \in speaking
    BY <2>2
  <2>4. FirstReport(reports) = reports[first]
    BY <1>2 DEF FirstReport
  <2> HIDE DEF first
  <2> QED  BY <2>3, <2>4
<1> QED  BY <1>1, <1>2

\* What a refused or answered call reports is an error code or nothing.
LEMMA RefusalIn ==
  ASSUME NEW hash \in BOOLEAN, NEW endpoint \in Resolutions, NEW credential \in Resolutions
  PROVE  Refusal(hash, endpoint, credential) \in Codes \cup {None}
<1> DEFINE C == Codes \cup {None}
<1>1. \A ok \in BOOLEAN, code \in Codes : Report(ok, code) \in C
  BY DEF Report
<1>2. /\ "PROVIDER_CONFIG_INVALID" \in Codes /\ "MODEL_CAPABILITY_MISMATCH" \in Codes
      /\ "PROVIDER_REQUEST_INVALID" \in Codes
  BY DEF Codes
<1>3. endpoint \in C /\ credential \in C
  BY CodesAssumption
<1> HIDE DEF C
<1>4. Preflight \in C
  <2> DEFINE version == /\ ProviderOf(Request.model).version = Request.version
                        /\ ProviderOf(Request.model).config = Request.config
             able == Offers(CapabilityOf(Request.model), {"output", "timeout", "temperature"})
             rs == <<Report(version, "PROVIDER_CONFIG_INVALID"), Report(able, "MODEL_CAPABILITY_MISMATCH")>>
  <2>1. version \in BOOLEAN
    OBVIOUS
  <2>2. able \in BOOLEAN
    BY DEF Offers
  <2>3. Preflight = FirstReport(rs)
    BY Zenon DEF Preflight
  <2> HIDE DEF version, able
  <2>4. rs \in [1 .. 2 -> C]
    BY <1>1, <1>2, <2>1, <2>2
  <2> HIDE DEF rs
  <2> QED  BY <2>3, <2>4, FirstReportIn DEF C
<1> DEFINE rs == <<Preflight, Report(hash, "PROVIDER_REQUEST_INVALID"), endpoint, credential>>
<1>5. rs \in [1 .. 4 -> C]
  BY <1>1, <1>2, <1>3, <1>4
<1>6. FirstReport(rs) \in C
  <2> HIDE DEF rs
  <2> QED  BY <1>5, FirstReportIn DEF C
<1>7. Refusal(hash, endpoint, credential) \in {"PROVIDER_CONFIG_INVALID", FirstReport(rs)}
  BY DEF Refusal
<1> QED  BY <1>2, <1>6, <1>7 DEF C

LEMMA OutcomeIn ==
  ASSUME NEW result \in Results
  PROVE  Outcome(result) \in Codes \cup {None}
<1> DEFINE C == Codes \cup {None}
<1>1. \A ok, code : code \in Codes => Report(ok, code) \in C
  BY DEF Report
<1>2. "PROVIDER_CONTENT_SAFETY_REJECTED" \in Codes /\ "PROVIDER_INVALID_JSON" \in Codes
  BY DEF Codes
<1>3. result.kind \in C /\ result.schema \in C /\ result.rule \in C
  BY ResultsAssumption
<1>4. StatusReport[result.status] \in C
  <2>1. result.status \in DOMAIN StatusReport
    BY ResultsAssumption
  <2> QED  BY <2>1 DEF StatusReport, Codes
<1> HIDE DEF C
<1>5. Classify(result) \in C
  <2> DEFINE x == Report(~result.safety, "PROVIDER_CONTENT_SAFETY_REJECTED")
             y == StatusReport[result.status]
             rs == <<x, result.kind, y>>
  <2>1. x \in C /\ y \in C
    BY <1>1, <1>2, <1>4
  <2>2. Classify(result) = FirstReport(rs)
    BY Zenon DEF Classify
  <2> HIDE DEF x, y
  <2>3. rs \in [1 .. 3 -> C]
    BY <2>1, <1>3
  <2> HIDE DEF rs
  <2> QED  BY <2>2, <2>3, FirstReportIn DEF C
<1> DEFINE x == Report(Extracted(result.body), "PROVIDER_INVALID_JSON")
           rs == <<Classify(result), x, result.schema, result.rule>>
<1>6. x \in C
  BY <1>1, <1>2
<1>7. Outcome(result) = FirstReport(rs)
  BY Zenon DEF Outcome
<1> HIDE DEF x
<1>8. rs \in [1 .. 4 -> C]
  BY <1>3, <1>5, <1>6
<1> HIDE DEF rs
<1> QED  BY <1>7, <1>8, FirstReportIn DEF C

-----------------------------------------------------------------------------
(* Health.                                                                  *)

\* A call that does not count leaves the health as it was, and a failure that counts
\* only takes the rate down and the row of failures up (compute).
LEMMA OneMore ==
  ASSUME NEW window \in Seq(Codes \cup {None}), NEW code \in Codes
  PROVE  LET next == Append(window, code) IN
         /\ ~ Counts(code) => Health(next) = Health(window)
         /\ Health(window) \in {"degraded", "unavailable"} => Health(next) # "healthy"
<1> DEFINE next == Append(window, code)
           m == Len(window) + 1
           good(w) == {i \in Counted(w) : w[i] = None}
           bad(w) == {i \in Counted(w) : \A j \in Counted(w) : i <= j => w[j] # None}
<1>1. /\ Len(window) \in Nat /\ DOMAIN window = 1 .. Len(window)
      /\ DOMAIN next = DOMAIN window \cup {m} /\ m \notin DOMAIN window
      /\ next[m] = code /\ code # None
      /\ \A i \in DOMAIN window : next[i] = window[i] /\ i < m
  BY CodesAssumption
<1>2. IsFiniteSet(DOMAIN window)
  BY <1>1, FS_Interval
<1>3. /\ Counted(window) \subseteq DOMAIN window
      /\ Counted(next) = Counted(window) \cup (IF Counts(code) THEN {m} ELSE {})
  BY <1>1 DEF Counted
<1> HIDE DEF next
<1>4. /\ good(next) = good(window)
      /\ bad(next) = bad(window) \cup (IF Counts(code) THEN {m} ELSE {})
  <2>1. \A i \in Counted(window) : next[i] = window[i] /\ i <= m /\ ~ m <= i
    BY <1>1, <1>3
  <2>2. m <= m
    BY <1>1
  <2> HIDE DEF m
  <2>3. CASE Counts(code)
    BY <2>1, <2>2, <2>3, <1>1, <1>3
  <2>4. CASE ~ Counts(code)
    BY <2>1, <2>4, <1>1, <1>3
  <2> QED  BY <2>3, <2>4
<1>5. /\ IsFiniteSet(Counted(window)) /\ IsFiniteSet(good(window)) /\ IsFiniteSet(bad(window))
      /\ m \notin Counted(window) /\ m \notin bad(window)
  BY <1>1, <1>2, <1>3, FS_Subset
<1> DEFINE n == Cardinality(Counted(window))
           k == Cardinality(good(window))
           b == Cardinality(bad(window))
<1>6. n \in Nat /\ k \in Nat /\ b \in Nat
  BY <1>5, FS_CardinalityType
<1>7. /\ Failures(window) = b /\ Failures(next) = Cardinality(bad(next))
      /\ \A p : RateBelow(window, p) <=> k * 100 < p * n
      /\ \A p : RateBelow(next, p) <=> Cardinality(good(next)) * 100 < p * Cardinality(Counted(next))
  BY Zenon DEF Failures, RateBelow
<1> DEFINE exhausted(w) == \E i \in DOMAIN w : w[i] = "PROVIDER_QUOTA_EXHAUSTED"
<1>8. /\ exhausted(window) => exhausted(next)
      /\ ~ Counts(code) => exhausted(next) = exhausted(window)
  <2>1. Counts("PROVIDER_QUOTA_EXHAUSTED")
    BY DEF Counts, ClientSide, ContentSafety
  <2>2. exhausted(next) <=> exhausted(window) \/ code = "PROVIDER_QUOTA_EXHAUSTED"
    BY <1>1
  <2> HIDE DEF exhausted
  <2>3. exhausted(next) \in BOOLEAN /\ exhausted(window) \in BOOLEAN
    BY DEF exhausted
  <2> QED  BY <2>1, <2>2, <2>3
<1> HIDE DEF m, exhausted, good, bad
<1>9. ASSUME ~ Counts(code) PROVE Health(next) = Health(window)
  <2>1. Counted(next) = Counted(window) /\ good(next) = good(window) /\ bad(next) = bad(window)
    BY <1>3, <1>4, <1>9
  <2>2. Failures(next) = Failures(window)
    BY <1>7, <2>1
  <2>3. \A p : RateBelow(next, p) <=> RateBelow(window, p)
    BY <1>7, <2>1
  <2>4. (\E i \in DOMAIN next : next[i] = "PROVIDER_QUOTA_EXHAUSTED")
          <=> (\E i \in DOMAIN window : window[i] = "PROVIDER_QUOTA_EXHAUSTED")
    BY <1>8, <1>9 DEF exhausted
  <2> HIDE DEF n
  <2> QED  BY <2>1, <2>2, <2>3, <2>4 DEF Health
<1>10. ASSUME Counts(code), Health(window) \in {"degraded", "unavailable"}
       PROVE  Health(next) # "healthy"
  <2>1. Cardinality(Counted(next)) = n + 1 /\ Cardinality(bad(next)) = b + 1
        /\ Cardinality(good(next)) = k
    BY <1>3, <1>4, <1>5, <1>10, FS_AddElement
  <2>2. MinSample \in Nat /\ DegradedRate \in Nat /\ DegradedFailures \in Nat
        /\ UnavailableFailures \in Nat
    BY PolicyAssumption
  <2>3. RateBelow(window, DegradedRate) => RateBelow(next, DegradedRate)
    <3>1. DegradedRate * (n + 1) = DegradedRate * n + DegradedRate
      BY <1>6, <2>2
    <3>2. DegradedRate * n \in Nat /\ k * 100 \in Nat
      BY <1>6, <2>2
    <3>3. (k * 100 < DegradedRate * n) => (k * 100 < DegradedRate * n + DegradedRate)
      BY <2>2, <3>2
    <3> QED  BY <1>7, <2>1, <3>1, <3>3
  <2> DEFINE un(w) == exhausted(w) \/ Failures(w) >= UnavailableFailures
             de(w) == \/ Failures(w) >= DegradedFailures
                      \/ Cardinality(Counted(w)) > 0 /\ RateBelow(w, DegradedRate)
             sa(w) == Cardinality(Counted(w)) >= MinSample
  <2>4. sa(window) /\ (un(window) \/ de(window))
    <3>1. n < MinSample \/ n >= MinSample
      BY <1>6, <2>2
    <3>2. CASE n < MinSample
      <4>1. Health(window) = "unknown"
        BY <3>2, <1>6, <2>2 DEF Health
      <4> QED  BY <4>1, <1>10
    <3>3. CASE n >= MinSample
      <4>1. ~ (n < MinSample)
        BY <3>3, <1>6, <2>2
      <4> SUFFICES ASSUME ~ un(window), ~ de(window) PROVE FALSE
        BY <3>3
      <4>2. Health(window) \in {"healthy", "unknown"}
        BY <3>3, <4>1 DEF Health, exhausted
      <4> QED  BY <4>2, <1>10
    <3> QED  BY <3>1, <3>2, <3>3
  <2>5. sa(next) /\ (un(next) \/ de(next))
    <3>1. sa(next)
      BY <2>1, <2>2, <2>4, <1>6
    <3>2. Failures(next) = b + 1 /\ Failures(window) = b
      BY <1>7, <2>1
    <3>3. un(window) => un(next)
      BY <3>2, <1>6, <1>8, <2>2
    <3>4. de(window) => de(next)
      BY <3>2, <1>6, <2>1, <2>2, <2>3
    <3> HIDE DEF un, de, sa
    <3> QED  BY <3>1, <3>3, <3>4, <2>4
  <2>6. ~ (Cardinality(Counted(next)) < MinSample)
    BY <2>5, <2>1, <1>6, <2>2
  <2>7. CASE un(next)
    <3>1. Health(next) = "unavailable"
      BY <2>5, <2>6, <2>7 DEF Health, exhausted
    <3> QED  BY <3>1
  <2>8. CASE ~ un(next)
    <3>1. Health(next) = "degraded"
      BY <2>5, <2>6, <2>8 DEF Health, exhausted
    <3> QED  BY <3>1
  <2> QED  BY <2>7, <2>8
<1>11. ~ Counts(code) => (Health(window) \in {"degraded", "unavailable"} => Health(next) # "healthy")
  BY <1>9
<1> QED  BY <1>9, <1>10, <1>11 DEF next

-----------------------------------------------------------------------------
(* The life of a decision.                                                  *)

\* A status that may follow a life makes a longer one, of three revisions at most.
LEMMA Longer ==
  ASSUME NEW f \in Directories, NEW n \in 0 .. 3, NEW status \in Statuses,
         Chain(f, n), Legal(f, n, status)
  PROVE  /\ n + 1 \in 1 .. 3
         /\ f.revision[n + 1] = status => Chain(f, n + 1)
<1>1. n \in 0 .. 2 /\ n \in Nat
  BY DEF Legal
<1>2. ASSUME f.revision[n + 1] = status PROVE Chain(f, n + 1)
  <2>1. \A i \in 1 .. (n + 1) : i \in 1 .. n \/ i = n + 1
    BY <1>1
  <2>2. \A i \in 1 .. (n + 1) : f.revision[i] \in Statuses
    BY <2>1, <1>2 DEF Chain
  <2>3. f.revision[1] = "pending_approval"
    BY <1>1, <1>2 DEF Chain, Legal
  <2>4. ASSUME NEW i \in 2 .. (n + 1)
        PROVE  <<f.revision[i - 1], f.revision[i]>> \in Transitions
    <3>1. CASE i \in 2 .. n
      BY <3>1 DEF Chain
    <3>2. CASE i = n + 1
      BY <3>2, <1>1, <1>2 DEF Legal
    <3> QED  BY <3>1, <3>2, <1>1
  <2> QED  BY <2>2, <2>3, <2>4, <1>1 DEF Chain
<1> QED  BY <1>1, <1>2

\* A transition does not start from a final status, so not from a third revision.
LEMMA NeverFourth ==
  ASSUME NEW f \in Directories, NEW n \in 1 .. 3, NEW status \in Statuses, Chain(f, n),
         <<f.revision[n], status>> \in Transitions
  PROVE  Legal(f, n, status) /\ status # "pending_approval"
<1>1. status # "pending_approval"
  BY DEF Transitions
<1>2. CASE n = 3
  <2>1. /\ f.revision[1] = "pending_approval"
        /\ <<f.revision[1], f.revision[2]>> \in Transitions
        /\ <<f.revision[2], f.revision[3]>> \in Transitions
        /\ <<f.revision[3], status>> \in Transitions
    BY <1>2 DEF Chain
  <2> QED  BY <2>1 DEF Transitions
<1>3. CASE n # 3
  BY <1>1, <1>3 DEF Legal
<1> QED  BY <1>1, <1>2, <1>3

\* Files that agree up to revision n agree on the life up to there.
LEMMA SameLife ==
  ASSUME NEW f, NEW g, NEW n \in 0 .. 3,
         \A i \in 1 .. n : g.revision[i] = f.revision[i]
  PROVE  /\ Chain(f, n) => Chain(g, n)
         /\ (g.events = f.events /\ Told(f, n)) => Told(g, n)
         /\ \A status : Legal(f, n, status) => Legal(g, n, status)
<1>1. \A i \in 2 .. n : i - 1 \in 1 .. n /\ i \in 1 .. n
  OBVIOUS
<1>2. n > 0 => 1 \in 1 .. n /\ n \in 1 .. n
  OBVIOUS
<1>3. Chain(f, n) => Chain(g, n)
  BY <1>1, <1>2 DEF Chain
<1>4. (g.events = f.events /\ Told(f, n)) => Told(g, n)
  BY DEF Told
<1>5. \A status : Legal(f, n, status) => Legal(g, n, status)
  BY <1>2 DEF Legal
<1> QED  BY <1>3, <1>4, <1>5

\* The writes in their order.
LEMMA Order ==
  /\ Following("key") = "revision" /\ Following("revision") = "current"
  /\ Following("current") = "request" /\ Following("request") = "event"
  /\ Following("event") = "done"
<1>1. /\ Len(Writes) = 6
      /\ Writes[1] = "key" /\ Writes[2] = "revision" /\ Writes[3] = "current"
      /\ Writes[4] = "request" /\ Writes[5] = "event" /\ Writes[6] = "done"
  BY DEF Writes
<1>2. \A i \in 2 .. 6 : i - 1 \in {1, 2, 3, 4, 5} /\ i = (i - 1) + 1
  OBVIOUS
<1>3. (CHOOSE i \in 2 .. 6 : Writes[i - 1] = "key") = 2
  BY <1>1, <1>2
<1>4. (CHOOSE i \in 2 .. 6 : Writes[i - 1] = "revision") = 3
  BY <1>1, <1>2
<1>5. (CHOOSE i \in 2 .. 6 : Writes[i - 1] = "current") = 4
  BY <1>1, <1>2
<1>6. (CHOOSE i \in 2 .. 6 : Writes[i - 1] = "request") = 5
  BY <1>1, <1>2
<1>7. (CHOOSE i \in 2 .. 6 : Writes[i - 1] = "event") = 6
  BY <1>1, <1>2
<1> QED  BY <1>1, <1>3, <1>4, <1>5, <1>6, <1>7 DEF Following

\* The steps there are.
LEMMA StepNames ==
  Steps = {"idle", "locking", "entering", "comparing", "failed"} \cup Working
<1>1. DOMAIN Writes = 1 .. 6
  BY DEF Writes
<1>2. /\ Writes[1] = "key" /\ Writes[2] = "revision" /\ Writes[3] = "current"
      /\ Writes[4] = "request" /\ Writes[5] = "event" /\ Writes[6] = "done"
  BY DEF Writes
<1>3. \A i \in 1 .. 6 : i \in {1, 2, 3, 4, 5, 6}
  OBVIOUS
<1>4. {Writes[i] : i \in DOMAIN Writes} = Working
  <2>1. {Writes[i] : i \in DOMAIN Writes} \subseteq Working
    BY <1>1, <1>2, <1>3 DEF Working
  <2>2. 1 \in 1 .. 6 /\ 2 \in 1 .. 6 /\ 3 \in 1 .. 6 /\ 4 \in 1 .. 6 /\ 5 \in 1 .. 6 /\ 6 \in 1 .. 6
    OBVIOUS
  <2>3. Working \subseteq {Writes[i] : i \in DOMAIN Writes}
    BY <1>1, <1>2, <2>2 DEF Working
  <2> QED  BY <2>1, <2>3
<1> QED  BY <1>4 DEF Steps

-----------------------------------------------------------------------------
(* Calls in progress, seen from the others.                                 *)

LEMMA Types ==
  ASSUME TypeOK
  PROVE  /\ file \in [Decisions -> Directories]
         /\ caller \in [Callers -> Calls]
         /\ lockFile \in [Decisions -> BOOLEAN]
         /\ lock \in [Decisions -> Callers \cup {None, "leaked"}]
         /\ known \in [Decisions -> 0 .. 3]
BY DEF TypeOK, SwitchTypeOK, Directories, Calls

\* A call that is not made promises nothing.
LEMMA AtIdle ==
  ASSUME NEW c \in Callers, At(c, "idle")
  PROVE  Carried(c)
BY DEF At, Carried, Holds, Alone, Current, LookedUp, Stage, Working

\* At most one call has the lock of a decision.
LEMMA Exclusive ==
  ASSUME NEW c \in Callers, NEW e \in Callers, Holds(c), Holds(e), Mine(c) = Mine(e),
         caller[c].step \notin {"idle", "locking"}, caller[e].step \notin {"idle", "locking"}
  PROVE  c = e
BY DEF Holds

\* An approval stays available as long as the target and the registry do.
LEMMA StillThere ==
  ASSUME NEW c \in Callers, registry' = registry, LookedUp(c), ~ At(c, "idle"),
         Mine(c)' = Mine(c), caller'[c].status = caller[c].status,
         file'[Mine(c)].key = file[Mine(c)].key
  PROVE  LookedUp(c)'
<1> DEFINE key == file[Mine(c)].key
<1>1. key' = key
  OBVIOUS
<1>2. Available(key)' <=> Available(key)
  <2> HIDE DEF key
  <2> QED  BY <1>1 DEF Available, Resolvable, ProviderOf, CapabilityOf, FirstOf, OfModel, Offers
<1>3. caller[c].status = "approved" => Available(key)
  BY DEF LookedUp
<1> QED  BY <1>2, <1>3 DEF LookedUp

\* What is left alone stays as it was.
LEMMA Undisturbed ==
  ASSUME NEW e \in Callers, Carried(e), caller'[e] = caller[e], registry' = registry,
         ~ At(e, "idle") => /\ file'[Mine(e)] = file[Mine(e)]
                            /\ lockFile'[Mine(e)] = lockFile[Mine(e)]
                            /\ lock'[Mine(e)] = lock[Mine(e)]
                            /\ known'[Mine(e)] = known[Mine(e)],
         ~ At(e, "idle") /\ Creates(e) => \A x \in Callers \ {e} : Mine(x)' # Mine(e)
  PROVE  Carried(e)'
<1>1. CASE At(e, "idle")
  <2>1. At(e, "idle")'
    BY <1>1 DEF At
  <2> QED  BY <2>1, <1>1 DEF At, Carried, Holds, Alone, Current, LookedUp, Stage, Working
<1>2. CASE ~ At(e, "idle")
  <2> USE <1>2
  <2>1. /\ Mine(e)' = Mine(e)
        /\ Creates(e)' = Creates(e)
        /\ \A step : At(e, step)' = At(e, step)
    BY DEF Mine, Creates, At
  <2>2. file'[Mine(e)'] = file[Mine(e)]
    BY <2>1
  <2>3. Holds(e)'
    BY <2>1 DEF Carried, Holds
  <2>4. Alone(e)'
    BY <2>1 DEF Carried, Alone
  <2>5. Current(e)'
    BY <2>1 DEF Carried, Current
  <2>6. LookedUp(e)'
    BY <2>1, StillThere DEF Carried
  <2>7. Stage(e)'
    BY <2>1, <2>2 DEF Carried, Stage, Stand, Written
  <2> QED  BY <2>3, <2>4, <2>5, <2>6, <2>7 DEF Carried
<1> QED  BY <1>1, <1>2

\* What a call that has or takes the lock of a decision leaves to the others: they
\* are about other decisions, or wait for the lock, and what they have read stands.
LEMMA Others ==
  ASSUME NEW c \in Callers, ~ At(c, "idle"),
         TypeOK, \A e \in Callers : Carried(e),
         caller[c].step = "locking" => lock[Mine(c)] = None,
         \A e \in Callers \ {c} : caller'[e] = caller[e],
         registry' = registry,
         Mine(c)' \in {Mine(c), None},
         \A x \in Decisions \ {Mine(c)} :
           /\ file'[x] = file[x] /\ lockFile'[x] = lockFile[x]
           /\ lock'[x] = lock[x] /\ known'[x] = known[x],
         ~ Creates(c) =>
           /\ known[Mine(c)] <= known'[Mine(c)]
           /\ known'[Mine(c)] \in 0 .. 3
           /\ file'[Mine(c)].key = file[Mine(c)].key
           /\ \A r \in Revisions : r <= known[Mine(c)] =>
                file'[Mine(c)].revision[r] = file[Mine(c)].revision[r]
  PROVE  \A e \in Callers \ {c} : Carried(e)'
<1> SUFFICES ASSUME NEW e \in Callers \ {c} PROVE Carried(e)'
  OBVIOUS
<1>1. CASE At(e, "idle")
  <2>1. At(e, "idle")'
    BY <1>1 DEF At
  <2> QED  BY <2>1 DEF At, Carried, Holds, Alone, Current, LookedUp, Stage, Working
<1>2. CASE ~ At(e, "idle") /\ Mine(e) # Mine(c)
  <2>1. Mine(e) \in Decisions
    BY <1>2 DEF Carried, Holds
  <2>2. ASSUME Creates(e) PROVE \A x \in Callers \ {e} : Mine(x)' # Mine(e)
    <3> SUFFICES ASSUME NEW x \in Callers \ {e} PROVE Mine(x)' # Mine(e)
      OBVIOUS
    <3>1. Mine(x) # Mine(e)
      BY <1>2, <2>2 DEF Carried, Alone
    <3>2. CASE x # c
      BY <3>1, <3>2 DEF Mine
    <3>3. CASE x = c
      BY <3>1, <3>3, <2>1, NoneAssumption
    <3> QED  BY <3>2, <3>3
  <2> QED  BY <1>2, <2>1, <2>2, Undisturbed
<1>3. CASE ~ At(e, "idle") /\ Mine(e) = Mine(c)
  <2>1. ~ Creates(e) /\ ~ Creates(c)
    BY <1>2, <1>3 DEF Carried, Alone
  <2>2. At(e, "locking")
    <3>1. CASE caller[c].step = "locking"
      BY <3>1, <1>3, NoneAssumption DEF Carried, Holds, At
    <3>2. CASE caller[c].step # "locking"
      BY <3>2, <1>3, Exclusive DEF Carried, At
    <3> QED  BY <3>1, <3>2
  <2>3. /\ Mine(e)' = Mine(e) /\ Mine(e) \in Decisions
        /\ Creates(e)' = Creates(e)
        /\ \A step : At(e, step)' = At(e, step)
        /\ \A step : At(e, step) => step = "locking"
    BY <1>3, <2>2 DEF Mine, Creates, At, Carried, Holds
  <2> DEFINE d == Mine(c)
  <2>4. Holds(e)'
    BY <2>2, <2>3 DEF Holds, At, Working
  <2>5. Alone(e)'
    BY <2>1, <2>3 DEF Alone
  <2>6. Current(e)'
    <3>1. caller[e].expected \in Revisions
      BY <1>3, <2>1 DEF Carried, Current
    <3>2. ASSUME caller[e].seen = caller[e].expected
          PROVE  /\ caller[e].expected <= known'[d]
                 /\ <<file'[d].revision[caller[e].expected], caller[e].status>> \in Transitions
      <4>1. /\ caller[e].expected <= known[d]
            /\ <<file[d].revision[caller[e].expected], caller[e].status>> \in Transitions
        BY <1>3, <2>1, <2>2, <3>2 DEF Carried, Current, At
      <4>2. known[d] \in 0 .. 3 /\ known'[d] \in 0 .. 3 /\ known[d] <= known'[d]
        BY <1>3, <2>1, <2>3, Types
      <4>3. file'[d].revision[caller[e].expected] = file[d].revision[caller[e].expected]
        BY <2>1, <3>1, <4>1
      <4> QED  BY <3>1, <4>1, <4>2, <4>3 DEF Revisions
    <3>3. Mine(e)' = d
      BY <1>3, <2>3
    <3>4. caller'[e] = caller[e]
      OBVIOUS
    <3> HIDE DEF d
    <3> QED  BY <3>1, <3>2, <3>3, <3>4, <2>1, <2>3 DEF Current
  <2>7. LookedUp(e)'
    BY <1>3, <2>1, <2>3, StillThere DEF Carried
  <2>8. Stage(e)'
    BY <2>3 DEF Stage
  <2> QED  BY <2>4, <2>5, <2>6, <2>7, <2>8 DEF Carried
<1> QED  BY <1>1, <1>2, <1>3

-----------------------------------------------------------------------------
(* The steps: calls that come and go.                                       *)

LEMMA Initially == Init => IInv
<1> SUFFICES ASSUME Init PROVE IInv
  OBVIOUS
<1>1. NoFile \in Directories
  BY DEF NoFile, Directories
<1>2. Idle \in Calls
  BY DEF Idle, Calls, Steps
<1>3. SwitchTypeOK
  BY <1>1, <1>2 DEF Init, SwitchTypeOK, Directories, Calls
<1>4. ProviderTypeOK
  <2> DEFINE C == Codes \cup {None}
  <2>1. None \in C
    OBVIOUS
  <2> HIDE DEF C
  <2>2. observed \in Seq(C) /\ Len(observed) = 0
    BY DEF Init, ProviderInit
  <2>3. Len(observed) <= WindowSize
    BY <2>2, PolicyAssumption
  <2> QED  BY <2>1, <2>2, <2>3 DEF Init, ProviderInit, ProviderTypeOK, C
<1>5. \A c \in Callers : Carried(c)
  BY AtIdle DEF Init, At, Idle
<1>6. \A d \in Decisions : Stands(d)
  BY DEF Init, Stands, Sound, NoFile
<1> QED  BY <1>3, <1>4, <1>5, <1>6 DEF IInv, TypeOK

LEMMA Stuttering ==
  ASSUME IInv, UNCHANGED vars
  PROVE  IInv'
<1>1. TypeOK'
  BY DEF IInv, TypeOK, ProviderTypeOK, SwitchTypeOK, vars
<1>2. \A c \in Callers : Carried(c)'
  BY Undisturbed DEF IInv, vars, Carried, Alone, Mine
<1>3. \A d \in Decisions : Stands(d)'
  BY DEF IInv, Stands, vars
<1> QED  BY <1>1, <1>2, <1>3 DEF IInv

\* What the gateway does concerns no decision.
LEMMA ProviderStep ==
  ASSUME IInv, Provider
  PROVE  IInv'
<1>1. UNCHANGED <<file, lockFile, lock, caller, known>> /\ registry' = registry
  BY DEF Provider, switchVars, Call, Answer, SuccessAppears, Age
<1>2. SwitchTypeOK'
  BY <1>1 DEF IInv, TypeOK, SwitchTypeOK
<1>3. ProviderTypeOK'
  <2> USE DEF IInv, TypeOK, ProviderTypeOK
  <2>0. ASSUME NEW code \in Codes \cup {None}, Ends(code), UNCHANGED registry,
               call' \in {"none", "sent"}
        PROVE  ProviderTypeOK'
    <3> DEFINE C == Codes \cup {None}
    <3> HIDE DEF C
    <3>1. observed \in Seq(C) /\ code \in C
      BY DEF C
    <3>2. observed' \in Seq(C) /\ Len(observed') = Len(observed) + 1
      BY <2>0, <3>1 DEF Ends
    <3>3. Len(observed) \in Nat /\ WindowSize \in Nat /\ Len(observed) < WindowSize
      BY <2>0, <3>1, PolicyAssumption DEF Ends
    <3>4. Len(observed') <= WindowSize
      BY <3>2, <3>3
    <3>5. problem' \in C /\ success' \in BOOLEAN
      BY <2>0, <3>1 DEF Ends, C
    <3> QED  BY <2>0, <3>2, <3>4, <3>5 DEF C
  <2>1. ASSUME NEW hash \in BOOLEAN, NEW endpoint \in Resolutions, NEW credential \in Resolutions,
               Call(hash, endpoint, credential)
        PROVE  ProviderTypeOK'
    <3>1. Refusal(hash, endpoint, credential) \in Codes \cup {None}
      BY RefusalIn
    <3> DEFINE refusal == Refusal(hash, endpoint, credential)
    <3>2. \/ Ends(refusal) /\ UNCHANGED <<call, registry>>
          \/ call' = "sent" /\ UNCHANGED <<problem, success, observed, registry>>
      BY <2>1 DEF Call
    <3> HIDE DEF refusal
    <3>3. refusal \in Codes \cup {None}
      BY <3>1 DEF refusal
    <3> QED  BY <2>0, <3>2, <3>3
  <2>2. ASSUME NEW result \in Results, Answer(result)
        PROVE  ProviderTypeOK'
    BY <2>0, <2>2, OutcomeIn DEF Answer
  <2>3. CASE SuccessAppears
    BY <2>3 DEF SuccessAppears
  <2>4. CASE Age
    <3> DEFINE C == Codes \cup {None}
    <3> HIDE DEF C
    <3>1. observed \in Seq(C) /\ observed # <<>> /\ observed' = Tail(observed)
      BY <2>4 DEF Age, C
    <3>2. observed' \in Seq(C) /\ Len(observed') = Len(observed) - 1 /\ Len(observed) \in Nat
      BY <3>1
    <3>3. Len(observed') <= WindowSize
      BY <3>2, PolicyAssumption
    <3> QED  BY <2>4, <3>2, <3>3 DEF Age, C
  <2> QED  BY <2>1, <2>2, <2>3, <2>4 DEF Provider
<1>4. \A c \in Callers : Carried(c)'
  BY <1>1, Undisturbed DEF IInv, Carried, Alone, Mine
<1>5. \A d \in Decisions : Stands(d)'
  BY <1>1 DEF IInv, Stands
<1> QED  BY <1>2, <1>3, <1>4, <1>5 DEF IInv, TypeOK

\* A process that starts carries nothing on; what it finds on disk is as it was left.
LEMMA RestartStep ==
  ASSUME IInv, NEW doc \in Documents, Restart(doc)
  PROVE  IInv'
<1>1. caller' = [c \in Callers |-> Idle]
  BY DEF Restart
<1>2. Idle \in Calls
  BY DEF Idle, Calls, Steps
<1>3. SwitchTypeOK'
  BY <1>1, <1>2 DEF IInv, TypeOK, Restart, SwitchTypeOK, Calls
<1>4. ProviderTypeOK'
  <2>1. <<>> \in Seq(Codes \cup {None}) /\ Len(<<>>) = 0
    OBVIOUS
  <2> QED  BY <2>1, PolicyAssumption DEF IInv, TypeOK, Restart, Load, ProviderTypeOK
<1>5. \A c \in Callers : Carried(c)'
  <2> TAKE c \in Callers
  <2>1. At(c, "idle")'
    BY <1>1 DEF At, Idle
  <2> QED  BY <2>1 DEF At, Carried, Holds, Alone, Current, LookedUp, Stage, Working
<1>6. \A d \in Decisions : Stands(d)'
  BY DEF IInv, Stands, Restart
<1> QED  BY <1>3, <1>4, <1>5, <1>6 DEF IInv, TypeOK

\* A call that comes disturbs nobody, unless it is about a decision being created.
LEMMA Coming ==
  ASSUME IInv, NEW c \in Callers, NEW d \in Decisions, NEW new \in Calls,
         At(c, "idle"), new.decision = d,
         caller' = [caller EXCEPT ![c] = new],
         UNCHANGED <<registry, call, problem, success, observed, file, lockFile, lock, known>>,
         \A e \in Callers \ {c} : ~ At(e, "idle") /\ Creates(e) => Mine(e) # d,
         Carried(c)'
  PROVE  IInv'
<1>1. caller' \in [Callers -> Calls]
  BY Types DEF IInv
<1>2. TypeOK'
  BY <1>1 DEF IInv, TypeOK, ProviderTypeOK, SwitchTypeOK, Calls
<1>3. \A e \in Callers \ {c} : caller'[e] = caller[e]
  BY Types DEF IInv
<1>4. caller'[c] = new
  BY Types DEF IInv
<1>5. ASSUME NEW e \in Callers \ {c} PROVE Carried(e)'
  <2>1. ASSUME ~ At(e, "idle"), Creates(e) PROVE \A x \in Callers \ {e} : Mine(x)' # Mine(e)
    <3> SUFFICES ASSUME NEW x \in Callers \ {e} PROVE Mine(x)' # Mine(e)
      OBVIOUS
    <3>1. CASE x = c
      BY <3>1, <1>4, <2>1 DEF Mine
    <3>2. CASE x # c
      <4>1. Mine(x) # Mine(e)
        BY <2>1 DEF IInv, Carried, Alone
      <4> QED  BY <3>2, <4>1, <1>3 DEF Mine
    <3> QED  BY <3>1, <3>2
  <2>2. Carried(e)
    BY DEF IInv
  <2> QED  BY <1>3, <2>1, <2>2, Undisturbed
<1>6. \A e \in Callers : Carried(e)'
  BY <1>5
<1>7. \A x \in Decisions : Stands(x)'
  BY DEF IInv, Stands
<1> QED  BY <1>2, <1>6, <1>7 DEF IInv

LEMMA CreateStep ==
  ASSUME IInv, NEW c \in Callers, NEW d \in Decisions, NEW target \in Targets,
         Create(c, d, target)
  PROVE  IInv'
<1> DEFINE new == [Idle EXCEPT !.step = "locking", !.decision = d, !.target = target,
                               !.status = "pending_approval"]
<1>1. /\ new \in Calls /\ new.decision = d /\ new.step = "locking" /\ new.seen = 0
      /\ new.target = target /\ new.status = "pending_approval"
  <2>1. Idle \in Calls /\ Idle.seen = 0
    BY DEF Idle, Calls, Steps
  <2>2. "locking" \in Steps /\ "pending_approval" \in Statuses
    BY DEF Steps, Statuses
  <2> QED  BY <2>1, <2>2 DEF Calls
<1> HIDE DEF new
<1>2. caller' = [caller EXCEPT ![c] = new] /\ At(c, "idle") /\ Fresh(d)
      /\ UNCHANGED <<registry, call, problem, success, observed, file, lockFile, lock, known>>
  BY DEF Create, new
<1>3. caller'[c] = new /\ \A e \in Callers \ {c} : caller'[e] = caller[e]
  BY <1>2, Types DEF IInv
<1>4. Mine(c)' = d /\ Creates(c)' /\ \A step : At(c, step)' <=> (step = "locking")
  BY <1>1, <1>3 DEF Mine, Creates, At
<1>5. \A e \in Callers : Mine(e) # d
  BY <1>2 DEF Fresh, Mine
<1>6. known[d] = 0
  <2>1. known[d] \in 0 .. 3 /\ known[d] <= file[d].current /\ file[d].current = 0
    BY <1>2, Types DEF IInv, Stands, Fresh, NoFile
  <2> QED  BY <2>1
<1>7. Holds(c)'
  BY <1>1, <1>3, <1>4 DEF Holds, Working
<1>8. Alone(c)'
  <2>1. \A e \in Callers \ {c} : Mine(e)' # d
    BY <1>3, <1>5 DEF Mine
  <2> QED  BY <1>1, <1>2, <1>3, <1>4, <1>6, <2>1, NoneAssumption DEF Alone, Fresh
<1>9. Current(c)' /\ LookedUp(c)' /\ Stage(c)'
  BY <1>1, <1>3, <1>4 DEF Current, LookedUp, Stage, Creates
<1>10. Carried(c)'
  BY <1>7, <1>8, <1>9 DEF Carried
<1> QED  BY <1>1, <1>2, <1>5, <1>10, Coming

LEMMA ChangeStep ==
  ASSUME IInv, NEW c \in Callers, NEW d \in Decisions, NEW status \in Statuses,
         NEW expected \in Revisions, Change(c, d, status, expected)
  PROVE  IInv'
<1> DEFINE new == [Idle EXCEPT !.step = "locking", !.decision = d, !.status = status,
                               !.seen = file[d].current, !.expected = expected]
<1>1. /\ new \in Calls /\ new.decision = d /\ new.step = "locking"
      /\ new.seen = file[d].current /\ new.expected = expected /\ new.status = status
  <2>1. file[d].current \in 0 .. 3 /\ expected \in 0 .. 3
    BY Types DEF IInv, Directories, Revisions
  <2> QED  BY <2>1 DEF Idle, Calls, Steps
<1> HIDE DEF new
<1>2. caller' = [caller EXCEPT ![c] = new] /\ At(c, "idle") /\ Consistently(d)
      /\ UNCHANGED <<registry, call, problem, success, observed, file, lockFile, lock, known>>
  BY DEF Change, new
<1>3. caller'[c] = new /\ \A e \in Callers \ {c} : caller'[e] = caller[e]
  BY <1>2, Types DEF IInv
<1>4. /\ <<file[d].revision[file[d].current], status>> \in Transitions
      /\ expected <= known[d] /\ (status = "approved" => Available(file[d].key))
  BY DEF Change, Recheck
<1>5. status # "pending_approval"
  BY <1>4 DEF Transitions
<1>6. Mine(c)' = d /\ ~ Creates(c)' /\ \A step : At(c, step)' <=> (step = "locking")
  BY <1>1, <1>3, <1>5 DEF Mine, Creates, At
<1>7. \A e \in Callers \ {c} : ~ At(e, "idle") /\ Creates(e) => Mine(e) # d
  <2> SUFFICES ASSUME NEW e \in Callers \ {c}, ~ At(e, "idle"), Creates(e), Mine(e) = d
               PROVE  FALSE
    OBVIOUS
  <2>1. known[d] = 0
    BY DEF IInv, Carried, Alone
  <2> QED  BY <1>4, <2>1 DEF Revisions
<1>8. Holds(c)'
  BY <1>1, <1>3, <1>6 DEF Holds, Working
<1>9. Alone(c)' /\ Stage(c)'
  BY <1>6 DEF Alone, Stage
<1>10. Current(c)'
  <2>1. /\ caller'[c].expected = expected /\ caller'[c].seen = file[d].current
        /\ caller'[c].status = status
    BY <1>1, <1>3
  <2>2. known'[d] = known[d] /\ file'[d] = file[d]
    BY <1>2
  <2>3. caller'[c].seen = caller'[c].expected =>
          /\ expected <= known[d] /\ <<file[d].revision[expected], status>> \in Transitions
    BY <1>4, <2>1
  <2>4. file'[d].revision = file[d].revision
    BY <2>2
  <2> QED  BY <1>6, <2>1, <2>2, <2>3, <2>4 DEF Current
<1>11. LookedUp(c)'
  <2> DEFINE key == file[d].key
  <2>1. key' = key /\ registry' = registry
    BY <1>2
  <2>2. Available(key)' <=> Available(key)
    <3> HIDE DEF key
    <3> QED  BY <2>1 DEF Available, Resolvable, ProviderOf, CapabilityOf, FirstOf, OfModel, Offers
  <2> QED  BY <1>1, <1>3, <1>4, <1>6, <2>2 DEF LookedUp
<1>12. Carried(c)'
  BY <1>8, <1>9, <1>10, <1>11 DEF Carried
<1> QED  BY <1>1, <1>2, <1>7, <1>12, Coming
-----------------------------------------------------------------------------
(* The steps: the locks.                                                    *)

\* What has to be shown of a step of a call.
LEMMA OneCall ==
  ASSUME IInv, NEW c \in Callers, ~ At(c, "idle"), UNCHANGED providerVars, SwitchTypeOK',
         caller[c].step = "locking" => lock[Mine(c)] = None,
         \A e \in Callers \ {c} : caller'[e] = caller[e],
         Mine(c)' \in {Mine(c), None},
         \A x \in Decisions \ {Mine(c)} :
           /\ file'[x] = file[x] /\ lockFile'[x] = lockFile[x]
           /\ lock'[x] = lock[x] /\ known'[x] = known[x],
         ~ Creates(c) =>
           /\ known[Mine(c)] <= known'[Mine(c)]
           /\ file'[Mine(c)].key = file[Mine(c)].key
           /\ \A r \in Revisions : r <= known[Mine(c)] =>
                file'[Mine(c)].revision[r] = file[Mine(c)].revision[r],
         Carried(c)', \A d \in Decisions : d = Mine(c) => Stands(d)'
  PROVE  IInv'
<1>1. TypeOK'
  BY DEF IInv, TypeOK, ProviderTypeOK, providerVars
<1>2. Mine(c) \in Decisions
  BY DEF IInv, Carried, Holds
<1>3. known'[Mine(c)] \in 0 .. 3
  BY <1>2 DEF SwitchTypeOK
<1>4. \A e \in Callers \ {c} : Carried(e)'
  <2>1. registry' = registry
    BY DEF providerVars
  <2> QED  BY <1>3, <2>1, Others DEF IInv
<1>5. \A x \in Decisions \ {Mine(c)} : Stands(x)'
  BY DEF IInv, Stands
<1> QED  BY <1>1, <1>4, <1>5 DEF IInv

\* A step that goes on to another leaves what the call knows.
LEMMA Going ==
  ASSUME TypeOK, NEW c \in Callers, NEW next \in Steps, Goes(c, next)
  PROVE  /\ caller' \in [Callers -> Calls]
         /\ \A e \in Callers \ {c} : caller'[e] = caller[e]
         /\ caller'[c].step = next /\ caller'[c].status = caller[c].status
         /\ caller'[c].seen = caller[c].seen /\ caller'[c].expected = caller[c].expected
         /\ caller'[c].target = caller[c].target /\ caller'[c].decision = caller[c].decision
         /\ Mine(c)' = Mine(c) /\ Creates(c)' = Creates(c)
         /\ \A step : At(c, step)' <=> (step = next)
<1>1. caller \in [Callers -> Calls]
  BY Types
<1>2. caller'[c] = [caller[c] EXCEPT !.step = next] /\ caller[c] \in Calls
  BY <1>1 DEF Goes
<1>3. caller'[c] \in Calls
  BY <1>2 DEF Calls
<1>4. caller' \in [Callers -> Calls] /\ \A e \in Callers \ {c} : caller'[e] = caller[e]
  BY <1>1, <1>3 DEF Goes
<1>5. /\ caller'[c].step = next /\ caller'[c].status = caller[c].status
      /\ caller'[c].seen = caller[c].seen /\ caller'[c].expected = caller[c].expected
      /\ caller'[c].target = caller[c].target /\ caller'[c].decision = caller[c].decision
  BY <1>2 DEF Calls
<1> QED  BY <1>4, <1>5 DEF Mine, Creates, At

LEMMA TakeLockStep ==
  ASSUME IInv, NEW c \in Callers, TakeLock(c), UNCHANGED providerVars
  PROVE  IInv'
<1>1. Goes(c, "entering") /\ UNCHANGED <<file, lockFile, known>> /\ "entering" \in Steps
      /\ lock[Mine(c)] = None /\ lock' = [lock EXCEPT ![Mine(c)] = c] /\ At(c, "locking")
  BY DEF TakeLock, Steps
<1>2. TypeOK /\ Carried(c) /\ Mine(c) \in Decisions /\ ~ At(c, "idle")
  BY <1>1 DEF IInv, Carried, Holds, At
<1>3. SwitchTypeOK'
  BY <1>1, <1>2, Going, Types DEF TypeOK, SwitchTypeOK, Calls
<1>4. lock'[Mine(c)] = c
  BY <1>1, <1>2, Types
<1>5. Carried(c)'
  <2>1. \A step : At(c, step)' <=> (step = "entering")
    BY <1>1, <1>2, Going
  <2>2. Holds(c)'
    BY <1>1, <1>2, <1>4, Going DEF Holds, Working
  <2>3. Alone(c)'
    <3>1. Creates(c) => \A e \in Callers \ {c} : Mine(e)' # Mine(c)
      BY <1>1, <1>2, Going DEF Carried, Alone, Mine
    <3> QED  BY <1>1, <1>2, <3>1, Going DEF Carried, Alone, At
  <2>4. Current(c)'
    BY <1>1, <1>2, Going DEF Carried, Current, At
  <2>5. LookedUp(c)'
    BY <1>1, <1>2, Going, StillThere DEF Carried, providerVars
  <2>6. Stage(c)'
    BY <2>1 DEF Stage
  <2> QED  BY <2>2, <2>3, <2>4, <2>5, <2>6 DEF Carried
<1>6. \A d \in Decisions : d = Mine(c) => Stands(d)'
  BY <1>1 DEF IInv, Stands
<1>7. /\ \A e \in Callers \ {c} : caller'[e] = caller[e]
      /\ Mine(c)' = Mine(c)
  BY <1>1, <1>2, Going
<1>8. \A x \in Decisions \ {Mine(c)} : lock'[x] = lock[x]
  BY <1>1, <1>2, Types
<1>9. known[Mine(c)] <= known'[Mine(c)]
  <2>1. known[Mine(c)] \in 0 .. 3
    BY <1>2, Types
  <2> QED  BY <1>1, <2>1
<1> QED  BY <1>1, <1>2, <1>3, <1>5, <1>6, <1>7, <1>8, <1>9, OneCall

\* A decision whose lock file was not there can be read.
LEMMA EnterStep ==
  ASSUME IInv, NEW c \in Callers, Enter(c), UNCHANGED providerVars
  PROVE  IInv'
<1> DEFINE next == IF Creates(c) THEN "key" ELSE "comparing"
<1>0. next \in Steps
  BY StepNames DEF Working
<1>1. Goes(c, next) /\ UNCHANGED <<file, lock, known>>
      /\ ~ lockFile[Mine(c)] /\ lockFile' = [lockFile EXCEPT ![Mine(c)] = TRUE] /\ At(c, "entering")
  BY DEF Enter
<1>2. TypeOK /\ Carried(c) /\ Mine(c) \in Decisions /\ ~ At(c, "idle")
  BY <1>1 DEF IInv, Carried, Holds, At
<1>3. SwitchTypeOK'
  <2>1. caller' \in [Callers -> Calls]
    BY <1>0, <1>1, <1>2, Going
  <2> QED  BY <1>1, <1>2, <2>1, Types DEF TypeOK, SwitchTypeOK, Calls
<1>4. lockFile'[Mine(c)] = TRUE /\ lock'[Mine(c)] = c
  BY <1>1, <1>2, Types DEF Carried, Holds, At
<1>5. Carried(c)'
  <2>1. /\ \A step : At(c, step)' <=> (step = next)
        /\ Mine(c)' = Mine(c) /\ Creates(c)' = Creates(c) /\ caller'[c].step = next
        /\ caller'[c].seen = caller[c].seen
    BY <1>0, <1>1, <1>2, Going
  <2>2. Holds(c)'
    <3>1. Creates(c) => known'[Mine(c)] <= caller[c].seen
      BY <1>1, <1>2 DEF Carried, Alone
    <3>2. next \in Working => Creates(c)
      BY DEF Working
    <3> HIDE DEF next
    <3> QED  BY <1>2, <1>4, <2>1, <3>1, <3>2 DEF Holds
  <2>3. Alone(c)'
    <3>1. Creates(c) => \A e \in Callers \ {c} : Mine(e)' # Mine(c)
      BY <1>0, <1>1, <1>2, Going DEF Carried, Alone, Mine
    <3> QED  BY <1>0, <1>1, <1>2, <3>1, Going DEF Carried, Alone, At
  <2>4. Current(c)'
    <3>1. caller[c].step = "entering"
      BY <1>1 DEF At
    <3> QED  BY <1>0, <1>1, <1>2, <3>1, Going DEF Carried, Current
  <2>5. LookedUp(c)'
    BY <1>0, <1>1, <1>2, Going, StillThere DEF Carried, providerVars
  <2>6. Stage(c)'
    <3>1. Sound(file[Mine(c)])
      BY <1>1, <1>2 DEF IInv, Stands
    <3>2. Creates(c) => file[Mine(c)] = NoFile /\ caller[c].seen = 0
      BY <1>1, <1>2 DEF Carried, Alone, At
    <3>3. file'[Mine(c)'] = file[Mine(c)]
      BY <1>1, <2>1
    <3> QED  BY <2>1, <3>1, <3>2, <3>3 DEF Stage
  <2> QED  BY <2>2, <2>3, <2>4, <2>5, <2>6 DEF Carried
<1>6. \A d \in Decisions : d = Mine(c) => Stands(d)'
  BY <1>1, <1>4 DEF IInv, Stands
<1>7. /\ \A e \in Callers \ {c} : caller'[e] = caller[e]
      /\ Mine(c)' = Mine(c)
  BY <1>0, <1>1, <1>2, Going
<1>8. \A x \in Decisions \ {Mine(c)} : lockFile'[x] = lockFile[x]
  BY <1>1, <1>2, Types
<1>9. known[Mine(c)] <= known'[Mine(c)]
  <2>1. known[Mine(c)] \in 0 .. 3
    BY <1>2, Types
  <2> QED  BY <1>1, <2>1
<1>10. caller[c].step # "locking"
  BY <1>1 DEF At
<1> QED  BY <1>1, <1>2, <1>3, <1>5, <1>6, <1>7, <1>8, <1>9, <1>10, OneCall

LEMMA GiveUpStep ==
  ASSUME IInv, NEW c \in Callers, GiveUp(c), UNCHANGED providerVars
  PROVE  IInv'
<1>1. UNCHANGED <<file, lockFile, known>> /\ At(c, "entering")
      /\ lock' = [lock EXCEPT ![Mine(c)] = "leaked"] /\ caller' = [caller EXCEPT ![c] = Idle]
  BY DEF GiveUp
<1>2. TypeOK /\ Carried(c) /\ Mine(c) \in Decisions /\ ~ At(c, "idle")
  BY <1>1 DEF IInv, Carried, Holds, At
<1>3. Idle \in Calls /\ Idle.step = "idle" /\ Idle.decision = None
  BY DEF Idle, Calls, Steps
<1>4. caller' \in [Callers -> Calls] /\ caller'[c] = Idle
      /\ \A e \in Callers \ {c} : caller'[e] = caller[e]
  BY <1>1, <1>2, <1>3, Types
<1>5. SwitchTypeOK'
  BY <1>1, <1>2, <1>4, Types DEF TypeOK, SwitchTypeOK, Calls
<1>6. Carried(c)'
  <2>1. At(c, "idle")'
    BY <1>3, <1>4 DEF At
  <2> QED  BY <2>1 DEF At, Carried, Holds, Alone, Current, LookedUp, Stage, Working
<1>7. \A d \in Decisions : d = Mine(c) => Stands(d)'
  BY <1>1 DEF IInv, Stands
<1>8. Mine(c)' = None
  BY <1>3, <1>4 DEF Mine
<1>9. \A x \in Decisions \ {Mine(c)} : lock'[x] = lock[x]
  BY <1>1, <1>2, Types
<1>10. known[Mine(c)] <= known'[Mine(c)]
  <2>1. known[Mine(c)] \in 0 .. 3
    BY <1>2, Types
  <2> QED  BY <1>1, <2>1
<1>11. caller[c].step # "locking"
  BY <1>1 DEF At
<1> QED  BY <1>1, <1>2, <1>4, <1>5, <1>6, <1>7, <1>8, <1>9, <1>10, <1>11, OneCall

-----------------------------------------------------------------------------
(* The steps: the files.                                                    *)

\* What has to be shown of a step of a call that has both locks.
LEMMA Proceeding ==
  ASSUME IInv, NEW c \in Callers,
         NEW next \in {"revision", "current", "request", "event", "done", "failed"},
         caller[c].step \in Working \cup {"comparing"}, Goes(c, next),
         UNCHANGED <<lock, known>>, UNCHANGED providerVars,
         file' \in [Decisions -> Directories], lockFile' \in [Decisions -> BOOLEAN],
         \A x \in Decisions \ {Mine(c)} : file'[x] = file[x] /\ lockFile'[x] = lockFile[x],
         next # "failed" => lockFile'[Mine(c)] /\ known[Mine(c)] <= caller[c].seen,
         ~ Creates(c) =>
           /\ file'[Mine(c)].key = file[Mine(c)].key
           /\ \A r \in Revisions : r <= known[Mine(c)] =>
                file'[Mine(c)].revision[r] = file[Mine(c)].revision[r],
         Stage(c)', ~ lockFile'[Mine(c)] => Sound(file'[Mine(c)]),
         known[Mine(c)] <= file'[Mine(c)].current,
         "kept" \notin Losses =>
           \A i \in 2 .. Len(file'[Mine(c)].events) :
             <<file'[Mine(c)].events[i - 1], file'[Mine(c)].events[i]>> \in Transitions
  PROVE  IInv'
<1>1. TypeOK /\ Carried(c) /\ next \in Steps
  BY StepNames DEF IInv, Working
<1>2. /\ caller[c].step \notin {"idle", "locking", "entering"} /\ ~ At(c, "idle")
      /\ Mine(c) \in Decisions
  BY <1>1 DEF Working, At, Carried, Holds
<1>3. /\ caller' \in [Callers -> Calls]
      /\ \A e \in Callers \ {c} : caller'[e] = caller[e]
      /\ caller'[c].step = next /\ caller'[c].status = caller[c].status
      /\ caller'[c].seen = caller[c].seen /\ caller'[c].expected = caller[c].expected
      /\ caller'[c].target = caller[c].target
      /\ Mine(c)' = Mine(c) /\ Creates(c)' = Creates(c)
      /\ \A step : At(c, step)' <=> (step = next)
  BY <1>1, Going
<1>4. SwitchTypeOK'
  BY <1>1, <1>3, Types DEF TypeOK, SwitchTypeOK, Calls, Directories
<1>5. Holds(c)'
  BY <1>1, <1>2, <1>3 DEF Carried, Holds, Working
<1>6. Alone(c)'
  <2>1. Creates(c) => \A e \in Callers \ {c} : Mine(e)' # Mine(c)
    BY <1>1, <1>2, <1>3 DEF Carried, Alone, Mine
  <2> QED  BY <1>1, <1>2, <1>3, <2>1 DEF Carried, Alone
<1>7. Current(c)'
  BY <1>1, <1>2, <1>3 DEF Carried, Current
<1>8. LookedUp(c)'
  <2>1. CASE Creates(c)
    BY <2>1, <1>3 DEF Creates, LookedUp
  <2>2. CASE ~ Creates(c)
    BY <2>2, <1>1, <1>2, <1>3, StillThere DEF Carried, providerVars
  <2> QED  BY <2>1, <2>2
<1>9. Carried(c)'
  BY <1>5, <1>6, <1>7, <1>8 DEF Carried
<1>10. \A d \in Decisions : d = Mine(c) => Stands(d)'
  BY DEF Stands
<1>11. known[Mine(c)] <= known'[Mine(c)]
  <2>1. known[Mine(c)] \in 0 .. 3
    BY <1>1, <1>2, Types
  <2> QED  BY <2>1
<1> QED  BY <1>1, <1>2, <1>3, <1>4, <1>9, <1>10, <1>11, OneCall

LEMMA CompareStep ==
  ASSUME IInv, NEW c \in Callers, Compare(c), UNCHANGED providerVars
  PROVE  IInv'
<1> DEFINE next == IF Expected(c) THEN "revision" ELSE "failed"
           d == Mine(c)
           n == caller[c].seen
<1>1. /\ Goes(c, next) /\ At(c, "comparing") /\ UNCHANGED <<file, lockFile, lock, known>>
      /\ next \in {"revision", "failed"} /\ next \in Steps
  BY StepNames DEF Compare, Working
<1>2. TypeOK /\ Carried(c) /\ d \in Decisions /\ Stands(d)
  BY <1>1 DEF IInv, Carried, Holds, At
<1>3. lockFile[d] /\ Sound(file[d]) /\ ~ Creates(c)
  BY <1>1, <1>2 DEF Carried, Holds, Stage, At
<1>4. /\ Mine(c)' = d /\ caller'[c].seen = n /\ caller'[c].status = caller[c].status
      /\ \A step : At(c, step)' <=> (step = next)
  BY <1>1, <1>2, Going
<1>5. ASSUME Expected(c)
      PROVE  /\ known[d] <= n /\ file[d].key # None /\ Committed(file[d], n)
             /\ Legal(file[d], n, caller[c].status)
             /\ file[d].current = n /\ file[d].request = n
  <2>1. n = caller[c].expected /\ file[d].current = n /\ n \in 1 .. 3
    BY <1>1, <1>2, <1>3, <1>5 DEF Expected, Carried, Current, At, Revisions
  <2>2. file[d].key # None /\ file[d].request = n /\ Committed(file[d], n)
    BY <1>3, <2>1 DEF Sound, NoFile
  <2>3. <<file[d].revision[n], caller[c].status>> \in Transitions
    BY <1>1, <1>2, <1>3, <2>1 DEF Carried, Current, At
  <2>4. file[d] \in Directories /\ caller[c].status \in Statuses
    <3>1. file[d] \in Directories
      BY <1>2, Types
    <3> QED  BY <2>3, <3>1 DEF Transitions, Statuses
  <2>5. Legal(file[d], n, caller[c].status)
    <3> HIDE DEF d, n
    <3> QED  BY <2>1, <2>2, <2>3, <2>4, NeverFourth DEF Committed
  <2> QED  BY <1>2, <2>1, <2>2, <2>5 DEF Stands
<1>6. Stage(c)'
  <2>1. file'[Mine(c)'] = file[d]
    BY <1>1, <1>4
  <2>2. CASE Expected(c)
    <3>1. \A step : At(c, step)' <=> (step = "revision")
      BY <1>4, <2>2
    <3>2. Stand(c, caller[c].seen, caller[c].seen)'
      BY <1>4, <1>5, <2>1, <2>2 DEF Stand
    <3> QED  BY <3>1, <3>2 DEF Stage
  <2>3. CASE ~ Expected(c)
    <3>1. \A step : At(c, step)' <=> (step = "failed")
      BY <1>4, <2>3
    <3> QED  BY <3>1, <1>3, <2>1 DEF Stage
  <2> QED  BY <2>2, <2>3
<1>7. next # "failed" => lockFile'[d] /\ known[d] <= n
  BY <1>1, <1>3, <1>5
<1>8. /\ file' \in [Decisions -> Directories] /\ lockFile' \in [Decisions -> BOOLEAN]
      /\ \A x \in Decisions \ {d} : file'[x] = file[x] /\ lockFile'[x] = lockFile[x]
      /\ caller[c].step \in Working \cup {"comparing"}
      /\ known[d] <= file'[d].current
  BY <1>1, <1>2, Types DEF Stands, At
<1>9. "kept" \notin Losses =>
         \A i \in 2 .. Len(file'[d].events) :
           <<file'[d].events[i - 1], file'[d].events[i]>> \in Transitions
  BY <1>1, <1>2 DEF Stands
<1> HIDE DEF next
<1> QED  BY <1>1, <1>3, <1>6, <1>7, <1>8, <1>9, Proceeding

LEMMA LeaveStep ==
  ASSUME IInv, NEW c \in Callers, Leave(c), UNCHANGED providerVars
  PROVE  IInv'
<1> DEFINE d == Mine(c)
           n == caller[c].seen
           told == IF At(c, "done") /\ known[d] <= n THEN n + 1 ELSE known[d]
<1>1. /\ lockFile' = [lockFile EXCEPT ![d] = FALSE] /\ lock' = [lock EXCEPT ![d] = None]
      /\ known' = [known EXCEPT ![d] = told] /\ caller' = [caller EXCEPT ![c] = Idle]
      /\ file' = file /\ (At(c, "done") \/ At(c, "failed"))
  BY DEF Leave
<1>2. TypeOK /\ Carried(c) /\ d \in Decisions /\ Stands(d) /\ ~ At(c, "idle")
  BY <1>1 DEF IInv, Carried, Holds, At
<1>3. Idle \in Calls /\ Idle.step = "idle" /\ Idle.decision = None
  BY DEF Idle, Calls, Steps
<1>4. caller' \in [Callers -> Calls] /\ caller'[c] = Idle
      /\ \A e \in Callers \ {c} : caller'[e] = caller[e]
  BY <1>1, <1>2, <1>3, Types
<1>5. /\ known[d] \in 0 .. 3 /\ n \in 0 .. 3 /\ file[d] \in Directories
  BY <1>2, Types DEF Calls
<1>6. Sound(file[d])
  <2>1. CASE At(c, "done")
    <3>1. n + 1 \in 1 .. 3
      BY <1>2, <1>5, <2>1 DEF Carried, Stage
    <3> QED  BY <1>2, <2>1, <3>1 DEF Carried, Stage, Sound
  <2>2. CASE At(c, "failed")
    BY <1>2, <2>2 DEF Carried, Stage
  <2> QED  BY <1>1, <2>1, <2>2
<1>7. told \in 0 .. 3 /\ known[d] <= told /\ told <= file[d].current
  <2>1. CASE At(c, "done")
    <3>1. n + 1 <= 3 /\ file[d].current = n + 1 /\ known[d] <= n
      BY <1>2, <2>1 DEF Carried, Stage, Holds, At, Working
    <3> QED  BY <1>5, <2>1, <3>1
  <2>2. CASE ~ At(c, "done")
    BY <1>2, <1>5, <2>2 DEF Stands
  <2> QED  BY <2>1, <2>2
<1> HIDE DEF told
<1>8. SwitchTypeOK'
  <2>1. known' \in [Decisions -> 0 .. 3]
    BY <1>1, <1>2, <1>7, Types
  <2>2. /\ lockFile' \in [Decisions -> BOOLEAN]
        /\ lock' \in [Decisions -> Callers \cup {None, "leaked"}]
    BY <1>1, <1>2, Types
  <2> QED  BY <1>1, <1>2, <1>4, <2>1, <2>2 DEF TypeOK, SwitchTypeOK, Calls
<1>9. /\ \A x \in Decisions \ {d} :
           lockFile'[x] = lockFile[x] /\ lock'[x] = lock[x] /\ known'[x] = known[x]
      /\ known'[d] = told /\ ~ lockFile'[d]
  BY <1>1, <1>2, Types
<1>10. Carried(c)'
  <2>1. At(c, "idle")'
    BY <1>3, <1>4 DEF At
  <2> QED  BY <2>1 DEF At, Carried, Holds, Alone, Current, LookedUp, Stage, Working
<1>11. ASSUME NEW x \in Decisions, x = d PROVE Stands(x)'
  <2>1. file'[x] = file[d] /\ known'[x] = told
    BY <1>1, <1>9, <1>11
  <2>2. known'[x] <= file'[x].current /\ Sound(file'[x])
    BY <1>6, <1>7, <2>1
  <2>3. Stands(d)
    BY <1>2
  <2> HIDE DEF d
  <2> QED  BY <2>1, <2>2, <2>3 DEF Stands
<1>12. Mine(c)' = None
  BY <1>3, <1>4 DEF Mine
<1>13. caller[c].step # "locking"
  BY <1>1 DEF At
<1> QED  BY <1>1, <1>2, <1>4, <1>7, <1>8, <1>9, <1>10, <1>11, <1>12, <1>13, OneCall

\* What a call knows at each of the writes.
LEMMA AtWork ==
  ASSUME IInv, NEW c \in Callers,
         caller[c].step \in {"key", "revision", "current", "request", "event"}
  PROVE  /\ TypeOK /\ Carried(c) /\ Mine(c) \in Decisions /\ Stands(Mine(c))
         /\ lockFile[Mine(c)] /\ known[Mine(c)] <= caller[c].seen
         /\ caller[c].seen \in 0 .. 3 /\ known[Mine(c)] \in 0 .. 3
         /\ file[Mine(c)] \in Directories /\ caller[c].status \in Statuses
         /\ caller[c].step \in Working \cup {"comparing"}
         /\ Creates(c) => (caller[c].seen = 0 /\ known[Mine(c)] = 0)
         /\ ~ At(c, "key") =>
              /\ file[Mine(c)].key # None /\ Committed(file[Mine(c)], caller[c].seen)
              /\ Legal(file[Mine(c)], caller[c].seen, caller[c].status)
              /\ caller[c].seen + 1 \in 1 .. 3
              /\ Chain(file[Mine(c)], caller[c].seen)
              /\ (caller[c].seen = 0) <=> Creates(c)
<1> DEFINE d == Mine(c)
           n == caller[c].seen
<1>1. TypeOK /\ Carried(c) /\ caller[c].step \in Working /\ caller[c].step \notin {"idle", "locking"}
      /\ ~ At(c, "idle")
  BY DEF IInv, Working, At
<1>2. d \in Decisions /\ lockFile[d] /\ known[d] <= n
  BY <1>1 DEF Carried, Holds
<1>3. n \in 0 .. 3 /\ known[d] \in 0 .. 3 /\ file[d] \in Directories
  BY <1>1, <1>2, Types DEF Calls
<1>4. Stands(d)
  BY <1>2 DEF IInv
<1>5. Creates(c) => n = 0 /\ known[d] = 0
  BY <1>1 DEF Carried, Alone
<1>6. CASE At(c, "key")
  <2>1. caller[c].status \in Statuses
    BY <1>1, <1>6 DEF Carried, Stage, Creates, Statuses
  <2> QED  BY <1>1, <1>2, <1>3, <1>4, <1>5, <1>6, <2>1
<1>7. CASE ~ At(c, "key")
  <2>1. file[d].key # None /\ Committed(file[d], n) /\ Legal(file[d], n, caller[c].status)
    BY <1>1, <1>7 DEF Carried, Stage, Stand, At
  <2>2. Chain(file[d], n)
    BY <2>1 DEF Committed
  <2>3. caller[c].status \in Statuses /\ ((n = 0) <=> Creates(c)) /\ n + 1 \in 1 .. 3
    <3>1. CASE n = 0
      BY <2>1, <3>1 DEF Legal, Creates, Statuses
    <3>2. CASE n # 0
      BY <1>5, <2>1, <3>2 DEF Legal, Transitions, Creates, Statuses
    <3> QED  BY <3>1, <3>2
  <2> QED  BY <1>1, <1>2, <1>3, <1>4, <1>5, <1>7, <2>1, <2>2, <2>3
<1> QED  BY <1>6, <1>7

LEMMA WriteKey ==
  ASSUME IInv, NEW c \in Callers, Write(c), At(c, "key"), UNCHANGED providerVars
  PROVE  IInv'
<1> DEFINE d == Mine(c)
           f == file[d]
           new == [f EXCEPT !.key = caller[c].target]
<1>1. /\ file' = [file EXCEPT ![d].key = caller[c].target] /\ Goes(c, "revision")
      /\ UNCHANGED <<lockFile, lock, known>> /\ caller[c].step = "key"
  BY Order DEF Write, Sets, At
<1>2. /\ TypeOK /\ Carried(c) /\ d \in Decisions /\ Stands(d) /\ lockFile[d] /\ f \in Directories
      /\ known[d] = 0 /\ f = NoFile /\ caller[c].seen = 0 /\ Creates(c)
      /\ caller[c].step \in Working \cup {"comparing"}
  BY <1>1, AtWork DEF Carried, Stage
<1>3. caller[c].target \in Targets /\ caller[c].target # None
  <2>1. caller[c].target # None
    BY <1>1, <1>2 DEF Carried, Alone, At
  <2> QED  BY <1>2, <2>1, Types DEF Calls
<1>4. /\ file' \in [Decisions -> Directories] /\ file'[d] = new
      /\ \A x \in Decisions \ {d} : file'[x] = file[x]
  <2>1. new \in Directories
    BY <1>2, <1>3 DEF Directories
  <2>2. file' = [file EXCEPT ![d] = new]
    BY <1>1
  <2> HIDE DEF new, f
  <2> QED  BY <1>2, <2>1, <2>2, Types
<1>5. /\ new.key # None /\ new.current = 0 /\ new.request = 0 /\ new.events = <<>>
      /\ Committed(new, 0) /\ Legal(new, 0, caller[c].status)
  <2>1. new.key # None /\ new.current = 0 /\ new.request = 0 /\ new.events = <<>>
    BY <1>2, <1>3 DEF NoFile
  <2> HIDE DEF new
  <2> QED  BY <1>2, <2>1 DEF Committed, Chain, Told, Legal, Creates
<1>6. /\ Mine(c)' = d /\ caller'[c].seen = 0 /\ caller'[c].status = caller[c].status
      /\ \A step : At(c, step)' <=> (step = "revision")
  <2>1. "revision" \in Steps
    BY StepNames DEF Working
  <2> QED  BY <1>1, <1>2, <2>1, Going
<1>7. Stage(c)'
  <2>1. Stand(c, caller[c].seen, caller[c].seen)'
    <3> HIDE DEF new
    <3> QED  BY <1>4, <1>5, <1>6 DEF Stand
  <2> QED  BY <1>6, <2>1 DEF Stage
<1>8. known[d] <= file'[d].current /\ Len(file'[d].events) = 0
  <2> HIDE DEF new
  <2> QED  BY <1>2, <1>4, <1>5
<1>9. \A x \in Decisions \ {d} : file'[x] = file[x] /\ lockFile'[x] = lockFile[x]
  BY <1>1, <1>4
<1>10. lockFile' \in [Decisions -> BOOLEAN] /\ lockFile'[d] /\ known[d] <= caller[c].seen
  BY <1>1, <1>2, Types
<1>11. \A i \in 2 .. Len(file'[d].events) :
         <<file'[d].events[i - 1], file'[d].events[i]>> \in Transitions
  BY <1>8
<1> QED  BY <1>1, <1>2, <1>4, <1>7, <1>8, <1>9, <1>10, <1>11, Proceeding

\* A revision that is being written, and the two files that are to hold it.
LEMMA Writing ==
  ASSUME IInv, NEW c \in Callers, NEW next \in {"current", "request", "event"},
         caller[c].step \in {"revision", "current", "request"}, Goes(c, next),
         UNCHANGED <<lockFile, lock, known>>, UNCHANGED providerVars,
         NEW new \in Directories, file' = [file EXCEPT ![Mine(c)] = new],
         new.key = file[Mine(c)].key, new.events = file[Mine(c)].events,
         new.revision[caller[c].seen + 1] = caller[c].status,
         \A r \in Revisions : r # caller[c].seen + 1 =>
           new.revision[r] = file[Mine(c)].revision[r],
         \/ next = "current" /\ new.current = caller[c].seen /\ new.request = caller[c].seen
         \/ next = "request" /\ new.current = caller[c].seen + 1 /\ new.request = caller[c].seen
         \/ next = "event" /\ new.current = caller[c].seen + 1 /\ new.request = caller[c].seen + 1
  PROVE  IInv'
<1> DEFINE d == Mine(c)
           f == file[d]
           n == caller[c].seen
           status == caller[c].status
<1>1. /\ TypeOK /\ Carried(c) /\ d \in Decisions /\ Stands(d) /\ lockFile[d] /\ f \in Directories
      /\ known[d] <= n /\ known[d] \in 0 .. 3 /\ n \in 0 .. 3 /\ status \in Statuses
      /\ caller[c].step \in Working \cup {"comparing"}
      /\ f.key # None /\ Committed(f, n) /\ Legal(f, n, status) /\ n + 1 \in 1 .. 3
      /\ ~ At(c, "key")
  BY AtWork DEF At
<1>2. /\ file' \in [Decisions -> Directories] /\ file'[d] = new
      /\ \A x \in Decisions \ {d} : file'[x] = file[x]
  BY <1>1, Types
<1>3. Committed(new, n) /\ Legal(new, n, status)
  <2>1. \A i \in 1 .. n : new.revision[i] = f.revision[i]
    BY <1>1 DEF Revisions
  <2> HIDE DEF f, n, status
  <2> QED  BY <1>1, <2>1, SameLife DEF Committed, f
<1>4. /\ Mine(c)' = d /\ caller'[c].seen = n /\ caller'[c].status = status
      /\ \A step : At(c, step)' <=> (step = next)
  <2>1. next \in Steps
    BY StepNames DEF Working
  <2> QED  BY <1>1, <2>1, Going
<1>5. Stage(c)'
  <2>1. Stand(c, new.current, new.request)' /\ Written(c)'
    BY <1>1, <1>2, <1>3, <1>4 DEF Stand, Written
  <2>2. caller'[c].seen = n
    BY <1>4
  <2> QED  BY <1>4, <2>1, <2>2 DEF Stage
<1>6. /\ known[d] <= file'[d].current /\ file'[d].key = f.key
      /\ \A r \in Revisions : r <= known[d] => file'[d].revision[r] = f.revision[r]
  BY <1>1, <1>2 DEF Revisions
<1>7. \A x \in Decisions \ {d} : file'[x] = file[x] /\ lockFile'[x] = lockFile[x]
  BY <1>2
<1>8. lockFile' \in [Decisions -> BOOLEAN] /\ lockFile'[d]
  BY <1>1, Types
<1>9. "kept" \notin Losses =>
         \A i \in 2 .. Len(file'[d].events) :
           <<file'[d].events[i - 1], file'[d].events[i]>> \in Transitions
  BY <1>1, <1>2 DEF Stands
<1> QED  BY <1>1, <1>2, <1>5, <1>6, <1>7, <1>8, <1>9, Proceeding

LEMMA WriteRevision ==
  ASSUME IInv, NEW c \in Callers, Write(c), At(c, "revision"), UNCHANGED providerVars
  PROVE  IInv'
<1> DEFINE d == Mine(c)
           f == file[d]
           n == caller[c].seen
           status == caller[c].status
           new == [f EXCEPT !.revision = [f.revision EXCEPT ![n + 1] = status]]
<1>1. /\ file' = [file EXCEPT ![d] = new]
      /\ Goes(c, "current") /\ UNCHANGED <<lockFile, lock, known>> /\ caller[c].step = "revision"
  BY Order DEF Write, Sets, At
<1>2. f \in Directories /\ n + 1 \in 1 .. 3 /\ status \in Statuses /\ Carried(c)
  BY <1>1, AtWork DEF At
<1>3. f.current = n /\ f.request = n
  BY <1>1, <1>2 DEF Carried, Stage, Stand
<1>4. /\ new \in Directories
      /\ new.key = f.key /\ new.current = n /\ new.request = n /\ new.events = f.events
      /\ new.revision[n + 1] = status
      /\ \A r \in Revisions : r # n + 1 => new.revision[r] = f.revision[r]
  <2> HIDE DEF n, status
  <2> QED  BY <1>2, <1>3 DEF Directories, Revisions
<1> HIDE DEF new
<1> QED  BY <1>1, <1>4, Writing

LEMMA WriteCurrent ==
  ASSUME IInv, NEW c \in Callers, Write(c), At(c, "current"), UNCHANGED providerVars
  PROVE  IInv'
<1> DEFINE d == Mine(c)
           f == file[d]
           n == caller[c].seen
           new == [f EXCEPT !.current = n + 1]
<1>1. /\ file' = [file EXCEPT ![d] = new]
      /\ Goes(c, "request") /\ UNCHANGED <<lockFile, lock, known>> /\ caller[c].step = "current"
  BY Order DEF Write, Sets, At
<1>2. f \in Directories /\ n + 1 \in 1 .. 3 /\ Carried(c)
  BY <1>1, AtWork DEF At
<1>3. f.request = n /\ f.revision[n + 1] = caller[c].status
  BY <1>1, <1>2 DEF Carried, Stage, Stand, Written
<1>4. /\ new \in Directories
      /\ new.key = f.key /\ new.current = n + 1 /\ new.request = n /\ new.events = f.events
      /\ new.revision = f.revision
  <2> HIDE DEF n
  <2> QED  BY <1>2, <1>3 DEF Directories
<1> HIDE DEF new
<1> QED  BY <1>1, <1>3, <1>4, Writing

LEMMA WriteRequest ==
  ASSUME IInv, NEW c \in Callers, Write(c), At(c, "request"), UNCHANGED providerVars
  PROVE  IInv'
<1> DEFINE d == Mine(c)
           f == file[d]
           n == caller[c].seen
           new == [f EXCEPT !.request = n + 1]
<1>1. /\ file' = [file EXCEPT ![d] = new]
      /\ Goes(c, "event") /\ UNCHANGED <<lockFile, lock, known>> /\ caller[c].step = "request"
  BY Order DEF Write, Sets, At
<1>2. f \in Directories /\ n + 1 \in 1 .. 3 /\ Carried(c)
  BY <1>1, AtWork DEF At
<1>3. f.current = n + 1 /\ f.revision[n + 1] = caller[c].status
  BY <1>1, <1>2 DEF Carried, Stage, Stand, Written
<1>4. /\ new \in Directories
      /\ new.key = f.key /\ new.current = n + 1 /\ new.request = n + 1 /\ new.events = f.events
      /\ new.revision = f.revision
  <2> HIDE DEF n
  <2> QED  BY <1>2, <1>3 DEF Directories
<1> HIDE DEF new
<1> QED  BY <1>1, <1>3, <1>4, Writing

\* The event: the new revision is in every file, so the life of the decision is one
\* longer.
LEMMA WriteEvent ==
  ASSUME IInv, NEW c \in Callers, Write(c), At(c, "event"), UNCHANGED providerVars
  PROVE  IInv'
<1> DEFINE d == Mine(c)
           f == file[d]
           n == caller[c].seen
           status == caller[c].status
           new == [f EXCEPT !.events = Append(f.events, status)]
<1>1. /\ file' = [file EXCEPT ![d] = new]
      /\ Goes(c, "done") /\ UNCHANGED <<lockFile, lock, known>> /\ caller[c].step = "event"
  BY Order DEF Write, Sets, At
<1>2. /\ TypeOK /\ Carried(c) /\ d \in Decisions /\ Stands(d) /\ lockFile[d] /\ f \in Directories
      /\ known[d] <= n /\ known[d] \in 0 .. 3 /\ n \in 0 .. 3 /\ status \in Statuses
      /\ caller[c].step \in Working \cup {"comparing"}
      /\ f.key # None /\ Committed(f, n) /\ Legal(f, n, status) /\ n + 1 \in 1 .. 3
      /\ ~ At(c, "key")
  BY <1>1, AtWork DEF At
<1>3. f.current = n + 1 /\ f.request = n + 1 /\ f.revision[n + 1] = status
  BY <1>1, <1>2 DEF Carried, Stage, Stand, Written
<1>4. /\ Len(f.events) \in Nat /\ Len(new.events) = Len(f.events) + 1 /\ new.events \in Seq(Statuses)
      /\ new.events[Len(f.events) + 1] = status
      /\ \A i \in 1 .. Len(f.events) : new.events[i] = f.events[i]
  <2>1. f.events \in Seq(Statuses)
    BY <1>2 DEF Directories
  <2>2. new.events = Append(f.events, status)
    BY <1>2 DEF Directories
  <2> HIDE DEF new, f, status
  <2> QED  BY <1>2, <2>1, <2>2
<1>5. /\ new \in Directories /\ new.key = f.key /\ new.current = n + 1 /\ new.request = n + 1
      /\ new.revision = f.revision
  <2>1. Append(f.events, status) \in Seq(Statuses)
    BY <1>2 DEF Directories
  <2> HIDE DEF n, status
  <2> QED  BY <1>2, <1>3, <2>1 DEF Directories
<1>6. /\ file' \in [Decisions -> Directories] /\ file'[d] = new
      /\ \A x \in Decisions \ {d} : file'[x] = file[x]
  <2> HIDE DEF new, f
  <2> QED  BY <1>1, <1>2, <1>5, Types
<1> HIDE DEF new
<1>7. Chain(new, n + 1)
  <2>1. Chain(f, n + 1)
    <3> HIDE DEF f, n, status
    <3> QED  BY <1>2, <1>3, Longer DEF Committed
  <2> HIDE DEF f, n
  <2> QED  BY <1>2, <1>5, <2>1 DEF Chain
<1>8. Told(new, n + 1)
  <2> SUFFICES ASSUME "kept" \notin Losses
               PROVE  Len(new.events) = n + 1 /\ \A i \in 1 .. (n + 1) : new.events[i] = new.revision[i]
    BY DEF Told
  <2>1. Len(f.events) = n /\ \A i \in 1 .. n : f.events[i] = f.revision[i]
    BY <1>2 DEF Committed, Told
  <2>2. \A i \in 1 .. (n + 1) : i \in 1 .. n \/ i = n + 1
    BY <1>2
  <2> HIDE DEF f, n, status
  <2> QED  BY <1>3, <1>4, <1>5, <2>1, <2>2
<1>9. /\ Mine(c)' = d /\ caller'[c].seen = n /\ caller'[c].status = status
      /\ \A step : At(c, step)' <=> (step = "done")
  <2>1. "done" \in Steps
    BY StepNames DEF Working
  <2> QED  BY <1>1, <1>2, <2>1, Going
<1>10. Stage(c)'
  <2>1. file'[Mine(c)'] = new
    BY <1>6, <1>9
  <2> QED  BY <1>2, <1>5, <1>7, <1>8, <1>9, <2>1 DEF Stage, Committed
<1>11. /\ known[d] <= file'[d].current /\ file'[d].key = f.key
       /\ \A r \in Revisions : r <= known[d] => file'[d].revision[r] = f.revision[r]
  BY <1>2, <1>5, <1>6
<1>12. \A x \in Decisions \ {d} : file'[x] = file[x] /\ lockFile'[x] = lockFile[x]
  BY <1>1, <1>6
<1>13. lockFile' \in [Decisions -> BOOLEAN] /\ lockFile'[d]
  BY <1>1, <1>2, Types
<1>14. "kept" \notin Losses =>
         \A i \in 2 .. Len(file'[d].events) :
           <<file'[d].events[i - 1], file'[d].events[i]>> \in Transitions
  <2> SUFFICES ASSUME "kept" \notin Losses, NEW i \in 2 .. (n + 1)
               PROVE  <<new.events[i - 1], new.events[i]>> \in Transitions
    BY <1>6, <1>8 DEF Told
  <2>1. i \in 1 .. (n + 1) /\ i - 1 \in 1 .. (n + 1)
    BY <1>2
  <2>2. new.events[i] = new.revision[i] /\ new.events[i - 1] = new.revision[i - 1]
    BY <1>8, <2>1 DEF Told
  <2> HIDE DEF n
  <2> QED  BY <1>7, <2>2 DEF Chain
<1> QED  BY <1>1, <1>2, <1>6, <1>10, <1>11, <1>12, <1>13, <1>14, Proceeding

LEMMA WriteStep ==
  ASSUME IInv, NEW c \in Callers, Write(c), UNCHANGED providerVars
  PROVE  IInv'
<1>1. At(c, "key") \/ At(c, "revision") \/ At(c, "current") \/ At(c, "request") \/ At(c, "event")
  BY DEF Write
<1> QED  BY <1>1, WriteKey, WriteRevision, WriteCurrent, WriteRequest, WriteEvent

\* A write that fails: what was being created is gone, and a revision that was being
\* written is nobody's again.
LEMMA FailsStep ==
  ASSUME IInv, NEW c \in Callers, NEW loss \in Losses, Fails(c, loss), UNCHANGED providerVars
  PROVE  IInv'
<1> DEFINE d == Mine(c)
           f == file[d]
           n == caller[c].seen
           status == caller[c].status
           left == IF loss = "kept" THEN [f EXCEPT !.events = Append(@, status)] ELSE f
           new == IF Creates(c) THEN NoFile ELSE RolledBack(left, n)
<1>1. /\ file' = [file EXCEPT ![d] = new]
      /\ lockFile' = [lockFile EXCEPT ![d] = @ /\ ~ Creates(c)]
      /\ Goes(c, "failed") /\ UNCHANGED <<lock, known>>
      /\ caller[c].step \in {"key", "revision", "current", "request", "event"}
  BY DEF Fails
<1>2. /\ TypeOK /\ Carried(c) /\ d \in Decisions /\ Stands(d) /\ lockFile[d] /\ f \in Directories
      /\ known[d] <= n /\ known[d] \in 0 .. 3 /\ n \in 0 .. 3 /\ status \in Statuses
      /\ caller[c].step \in Working \cup {"comparing"}
      /\ Creates(c) => known[d] = 0
      /\ ~ Creates(c) => ~ At(c, "key")
  BY <1>1, AtWork DEF Carried, Stage
<1>3. left \in Directories /\ left.key = f.key /\ left.revision = f.revision
      /\ (loss # "kept" => left = f)
  <2>1. Append(f.events, status) \in Seq(Statuses)
    BY <1>2 DEF Directories
  <2> HIDE DEF status
  <2> QED  BY <1>2, <2>1 DEF Directories
<1>4. NoFile \in Directories
  BY DEF NoFile, Directories
<1>5. /\ new \in Directories
      /\ Creates(c) => new = NoFile
      /\ ~ Creates(c) => /\ new.key = f.key /\ new.revision = f.revision /\ new.current = n
                         /\ new.request = n /\ new.events = left.events
  <2> HIDE DEF left, f, n
  <2> QED  BY <1>2, <1>3, <1>4 DEF RolledBack, Directories
<1> HIDE DEF new
<1>6. /\ file' \in [Decisions -> Directories] /\ file'[d] = new
      /\ \A x \in Decisions \ {d} : file'[x] = file[x]
  <2> HIDE DEF f
  <2> QED  BY <1>1, <1>2, <1>5, Types
<1>7. Sound(new)
  <2>1. CASE Creates(c)
    BY <1>5, <2>1 DEF Sound
  <2>2. CASE ~ Creates(c)
    <3>1. f.key # None /\ Committed(f, n) /\ n # 0 /\ n \in 1 .. 3
      BY <1>1, <1>2, <2>2, AtWork
    <3>2. Chain(new, n)
      BY <1>5, <2>2, <3>1 DEF Chain, Committed
    <3>3. Told(new, n)
      <4> SUFFICES ASSUME "kept" \notin Losses PROVE Told(new, n)
        BY DEF Told
      <4>1. new.events = f.events
        BY <1>3, <1>5, <2>2
      <4> QED  BY <1>5, <2>2, <3>1, <4>1 DEF Told, Committed
    <3> QED  BY <1>5, <2>2, <3>1, <3>2, <3>3 DEF Sound, Committed
  <2> QED  BY <2>1, <2>2
<1>8. /\ Mine(c)' = d /\ \A step : At(c, step)' <=> (step = "failed")
  <2>1. "failed" \in Steps
    BY StepNames
  <2> QED  BY <1>1, <1>2, <2>1, Going
<1>9. Stage(c)'
  <2>1. file'[Mine(c)'] = new
    BY <1>6, <1>8
  <2> QED  BY <1>7, <1>8, <2>1 DEF Stage
<1>10. known[d] <= file'[d].current
  BY <1>2, <1>5, <1>6 DEF NoFile
<1>11. ~ Creates(c) =>
         /\ file'[d].key = f.key
         /\ \A r \in Revisions : r <= known[d] => file'[d].revision[r] = f.revision[r]
  BY <1>5, <1>6
<1>12. /\ lockFile' \in [Decisions -> BOOLEAN]
       /\ \A x \in Decisions \ {d} : file'[x] = file[x] /\ lockFile'[x] = lockFile[x]
  BY <1>1, <1>2, <1>6, Types
<1>13. "kept" \notin Losses =>
         \A i \in 2 .. Len(file'[d].events) :
           <<file'[d].events[i - 1], file'[d].events[i]>> \in Transitions
  <2> SUFFICES ASSUME "kept" \notin Losses
               PROVE  \A i \in 2 .. Len(new.events) :
                        <<new.events[i - 1], new.events[i]>> \in Transitions
    BY <1>6
  <2>1. CASE Creates(c)
    <3>1. Len(new.events) = 0
      BY <1>5, <2>1 DEF NoFile
    <3> QED  BY <3>1
  <2>2. CASE ~ Creates(c)
    <3>1. new.events = f.events
      BY <1>3, <1>5, <2>2
    <3> QED  BY <1>2, <3>1 DEF Stands
  <2> QED  BY <2>1, <2>2
<1>14. ~ lockFile'[d] => Sound(file'[d])
  BY <1>6, <1>7
<1> QED  BY <1>1, <1>2, <1>6, <1>9, <1>10, <1>11, <1>12, <1>13, <1>14, Proceeding

-----------------------------------------------------------------------------
(* Theorems.                                                                *)

LEMMA NextStep == IInv /\ [Next]_vars => IInv'
<1> SUFFICES ASSUME IInv, [Next]_vars PROVE IInv'
  OBVIOUS
<1>1. CASE Provider
  BY <1>1, ProviderStep
<1>2. ASSUME NEW c \in Callers, Step(c) PROVE IInv'
  <2>1. UNCHANGED providerVars
    BY <1>2 DEF Step
  <2>2. CASE TakeLock(c)
    BY <2>1, <2>2, TakeLockStep
  <2>3. CASE Enter(c)
    BY <2>1, <2>3, EnterStep
  <2>4. CASE GiveUp(c)
    BY <2>1, <2>4, GiveUpStep
  <2>5. CASE Compare(c)
    BY <2>1, <2>5, CompareStep
  <2>6. CASE Write(c)
    BY <2>1, <2>6, WriteStep
  <2>7. CASE Leave(c)
    BY <2>1, <2>7, LeaveStep
  <2>8. ASSUME NEW loss \in Losses, Fails(c, loss) PROVE IInv'
    BY <2>1, <2>8, FailsStep
  <2> QED  BY <1>2, <2>2, <2>3, <2>4, <2>5, <2>6, <2>7, <2>8 DEF Step
<1>3. ASSUME NEW c \in Callers, NEW d \in Decisions, NEW target \in Targets, Create(c, d, target)
      PROVE  IInv'
  BY <1>3, CreateStep
<1>4. ASSUME NEW c \in Callers, NEW d \in Decisions, NEW status \in Statuses,
             NEW expected \in Revisions, Change(c, d, status, expected)
      PROVE  IInv'
  BY <1>4, ChangeStep
<1>5. ASSUME NEW doc \in Documents, Restart(doc) PROVE IInv'
  BY <1>5, RestartStep
<1>6. CASE UNCHANGED vars
  BY <1>6, Stuttering
<1> QED  BY <1>1, <1>2, <1>3, <1>4, <1>5, <1>6 DEF Next

\* The inductive invariant holds: whichever writes fail, whenever the process stops and
\* however the calls interleave (ProviderSwitchStore).
THEOREM Invariance == Spec => []IInv
BY Initially, NextStep, PTL DEF Spec

\* Every variable keeps its type, and a decision never has a fourth revision.
THEOREM TypeCorrect == Spec => []TypeOK
<1>1. IInv => TypeOK
  BY DEF IInv
<1> QED  BY <1>1, Invariance, PTL

\* Whichever writes failed, of a decision nobody is working on current.json and
\* request.json hold the same revision, which is there, and a key leads to it
\* (ProviderSwitchStore.read, _rollback_update).
THEOREM AlwaysReadable == Spec => []Readable
<1>1. IInv => Readable
  <2> SUFFICES ASSUME IInv, NEW d \in Decisions, AtRest(d), file[d] # NoFile
               PROVE  file[d].key # None /\ Consistently(d)
    BY DEF Readable
  <2>1. Sound(file[d])
    BY DEF IInv, Stands, AtRest
  <2> DEFINE n == file[d].current
  <2>2. file[d].key # None /\ n \in 1 .. 3 /\ file[d].request = n /\ Chain(file[d], n)
    BY <2>1 DEF Sound, Committed
  <2>3. file[d].revision[n] \in Statuses
    BY <2>2 DEF Chain
  <2> QED  BY <2>2, <2>3, NoneAssumption DEF Consistently
<1> QED  BY <1>1, Invariance, PTL

\* Where an event that could not be appended is not in the file either, the events of
\* a decision are a life that the state machine allows, and at rest exactly the one
\* its revisions tell (ProviderSwitchStore._append_event, update).
THEOREM Audited ==
  ASSUME "kept" \notin Losses
  PROVE  Spec => []AuditTrail
<1>1. IInv => AuditTrail
  <2> SUFFICES ASSUME IInv, NEW d \in Decisions
               PROVE  LET told == file[d].events
                      IN  /\ \A i \in 2 .. Len(told) : <<told[i - 1], told[i]>> \in Transitions
                          /\ AtRest(d) =>
                               /\ Len(told) = file[d].current
                               /\ \A i \in DOMAIN told : told[i] = file[d].revision[i]
    BY DEF AuditTrail
  <2>1. Stands(d) /\ file[d] \in Directories
    BY Types DEF IInv
  <2> DEFINE told == file[d].events
             n == file[d].current
  <2>2. \A i \in 2 .. Len(told) : <<told[i - 1], told[i]>> \in Transitions
    BY <2>1 DEF Stands
  <2>3. DOMAIN told = 1 .. Len(told) /\ Len(told) \in Nat
    BY <2>1 DEF Directories
  <2>4. ASSUME AtRest(d) PROVE Len(told) = n /\ \A i \in 1 .. Len(told) : told[i] = file[d].revision[i]
    <3>1. Sound(file[d])
      BY <2>1, <2>4 DEF Stands, AtRest
    <3>2. CASE file[d] = NoFile
      BY <3>2 DEF NoFile
    <3>3. CASE file[d] # NoFile
      BY <3>1, <3>3 DEF Sound, Committed, Told
    <3> QED  BY <3>2, <3>3
  <2> QED  BY <2>2, <2>3, <2>4
<1> QED  BY <1>1, Invariance, PTL

\* A decision is approved only for a provider that is enabled and able by the registry
\* that is loaded at that time (approve, _resolve_target).
THEOREM ApprovedIsAvailable == Spec => ApprovedAvailable
<1>1. ASSUME IInv, [Next]_vars, NEW d \in Decisions,
             file'[d].events = Append(file[d].events, "approved")
      PROVE  Available(file[d].key)
  <2>1. file \in [Decisions -> Directories] /\ file[d].events \in Seq(Statuses)
    BY <1>1, Types DEF IInv, Directories
  <2>2. file'[d].events # file[d].events
    <3> DEFINE told == file[d].events
    <3>1. Len(told) \in Nat /\ Len(Append(told, "approved")) = Len(told) + 1
      <4> HIDE DEF told
      <4>1. told \in Seq(Statuses)
        BY <2>1 DEF told
      <4> QED  BY <4>1
    <3>2. Append(told, "approved") # told
      <4> HIDE DEF told
      <4> QED  BY <3>1
    <3> QED  BY <1>1, <3>2
  <2>3. PICK c \in Callers : Write(c) \/ \E loss \in Losses : Fails(c, loss)
    <3>1. file' # file
      BY <2>2
    <3> QED  BY <1>1, <3>1 DEF Next, vars, Provider, switchVars, Step, TakeLock, Enter, GiveUp,
                               Compare, Leave, Create, Change, Restart
  <2>4. /\ caller[c].step \in {"key", "revision", "current", "request", "event"}
        /\ ~ At(c, "idle")
    BY <2>3 DEF Write, Fails, At
  <2>5. /\ Mine(c) \in Decisions /\ LookedUp(c)
    BY <1>1, <2>4, AtWork DEF Carried
  <2>6. d = Mine(c)
    <3>1. CASE Write(c)
      BY <2>1, <2>2, <3>1 DEF Write, Sets
    <3>2. ASSUME NEW loss \in Losses, Fails(c, loss) PROVE d = Mine(c)
      BY <2>1, <2>2, <3>2 DEF Fails
    <3> QED  BY <2>3, <3>1, <3>2
  <2>7. file'[d].events = Append(file[d].events, caller[c].status)
    <3>1. CASE Write(c)
      <4>1. CASE At(c, "event")
        BY <2>1, <2>6, <3>1, <4>1 DEF Write, Sets, At, Directories
      <4>2. CASE ~ At(c, "event")
        BY <2>1, <2>2, <2>6, <3>1, <4>2 DEF Write, Sets, Directories
      <4> QED  BY <4>1, <4>2
    <3>2. ASSUME NEW loss \in Losses, Fails(c, loss)
          PROVE  file'[d].events = Append(file[d].events, caller[c].status)
      <4>1. ~ Creates(c)
        <5>1. Creates(c) => file'[d].events = <<>>
          BY <2>1, <2>6, <3>2 DEF Fails, NoFile
        <5>2. Append(file[d].events, "approved") # <<>>
          BY <2>1
        <5> QED  BY <1>1, <5>1, <5>2
      <4>2. CASE loss = "kept"
        BY <2>1, <2>6, <3>2, <4>1, <4>2 DEF Fails, RolledBack, Directories
      <4>3. CASE loss # "kept"
        BY <2>1, <2>2, <2>6, <3>2, <4>1, <4>3 DEF Fails, RolledBack, Directories
      <4> QED  BY <4>2, <4>3
    <3> QED  BY <2>3, <3>1, <3>2
  <2>8. caller[c].status = "approved"
    <3> DEFINE told == file[d].events
               status == caller[c].status
    <3>1. Append(told, "approved") = Append(told, status) /\ told \in Seq(Statuses)
      BY <1>1, <2>1, <2>7
    <3>2. status \in Statuses /\ "approved" \in Statuses
      BY <1>1, <2>4, AtWork DEF Statuses
    <3> HIDE DEF told, status
    <3>3. /\ Append(told, "approved")[Len(told) + 1] = "approved"
          /\ Append(told, status)[Len(told) + 1] = status
      BY <3>1, <3>2
    <3>4. status = "approved"
      BY <3>1, <3>3
    <3> QED  BY <3>4 DEF status
  <2> QED  BY <2>4, <2>5, <2>6, <2>8 DEF LookedUp
<1>2. IInv /\ [Next]_vars =>
        [\A d \in Decisions :
           file'[d].events = Append(file[d].events, "approved") => Available(file[d].key)]_vars
  BY <1>1
<1> QED  BY <1>2, Invariance, PTL DEF Spec, ApprovedAvailable

\* A call that does not count leaves the health of the provider as it was, and no
\* failure makes an ailing provider healthy (ProviderHealthService.compute).
THEOREM HealthOnlyMoves == Spec => HealthMoves
<1>1. ASSUME TypeOK, NEW code \in Codes, observed' = Append(observed, code)
      PROVE  /\ code \in ClientSide \cup ContentSafety => Health(observed') = Health(observed)
             /\ Health(observed) \in {"degraded", "unavailable"} => Health(observed') # "healthy"
  <2>1. observed \in Seq(Codes \cup {None})
    BY <1>1 DEF TypeOK, ProviderTypeOK
  <2> DEFINE window == observed
             next == Append(window, code)
  <2>2. /\ ~ Counts(code) => Health(next) = Health(window)
        /\ Health(window) \in {"degraded", "unavailable"} => Health(next) # "healthy"
    <3> HIDE DEF window
    <3>1. window \in Seq(Codes \cup {None})
      BY <2>1 DEF window
    <3> QED  BY <3>1, OneMore
  <2>3. code \in ClientSide \cup ContentSafety => ~ Counts(code)
    BY DEF Counts
  <2>4. Health(observed') = Health(next)
    BY <1>1
  <2> HIDE DEF next
  <2> QED  BY <2>2, <2>3, <2>4
<1>2. TypeOK =>
        [\A code \in Codes : observed' = Append(observed, code) =>
           /\ code \in ClientSide \cup ContentSafety => Health(observed') = Health(observed)
           /\ Health(observed) \in {"degraded", "unavailable"} => Health(observed') # "healthy"
        ]_observed
  BY <1>1
<1> QED  BY <1>2, TypeCorrect, PTL DEF HealthMoves
=============================================================================
