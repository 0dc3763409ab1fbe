------------------------- MODULE TaskCreationProofs -------------------------
(* Proofs about TaskCreation for any packages, calls and bounds: the creation  *)
(* lock of the scoring creator does what it is for.                            *)
EXTENDS TaskCreation, TLAPS

\* The idempotency key of a call, by its record.
KeyOf(r) == [kind |-> r.kind, source |-> r.source, config |-> r.config,
             inputs |-> {<<p, r.seen[p].validation>> : p \in DOMAIN r.seen}]

----------------------------------------------------------------------------
(* The inductive invariant: what a call r relies on, with the locks L, the     *)
(* tasks T and the answered tasks D.                                           *)

Request(r) ==
  /\ IsCall(r) /\ r.todo \subseteq DOMAIN r.seen
  /\ r.phase # "idle" => r.kind \in Kinds /\ r.config \in Configs

\* From the scan to its answer a scoring call holds the lock of its request.
Guarded(r, c, L) ==
  r.kind = "score" /\ r.phase \in {"scanning", "writing", "shown", "leaving"} =>
    KeyOf(r) \in DOMAIN L /\ L[KeyOf(r)] = c

\* What the scan has found is still so when the task is written.
Fresh(r, T) ==
  r.kind = "score" /\ r.phase = "writing" =>
    \A t \in DOMAIN T : T[t] # None => T[t].key # KeyOf(r)

\* The task a call has shown is its own, and nobody has been told of it.
Own(r, T, D) ==
  r.phase = "shown" =>
    /\ r.shown \in DOMAIN T /\ T[r.shown] # None /\ T[r.shown].key = KeyOf(r)
    /\ r.shown \notin D

\* The answer under way is a task of the request.
Found(r, T) ==
  r.kind = "score" /\ r.phase = "leaving" /\ r.answer # None =>
    r.answer \in DOMAIN T /\ T[r.answer] # None /\ T[r.answer].key = KeyOf(r)

Sound(r, c, L, T, D) == Guarded(r, c, L) /\ Fresh(r, T) /\ Own(r, T, D) /\ Found(r, T)

\* No two calls have shown one task.
Apart(r, q) == r.phase = "shown" /\ q.phase = "shown" => r.shown # q.shown

IsSeq(T) == T \in Seq({T[t] : t \in DOMAIN T})

TasksOK(T) ==
  /\ IsSeq(T)
  /\ \A t \in DOMAIN T : T[t] # None => IsTask(T[t]) /\ T[t].kind = T[t].key.kind

OneOf(T) ==
  \A s, t \in DOMAIN T :
    T[s] # None /\ T[t] # None /\ T[s].kind = "score" /\ T[t].key = T[s].key => s = t

ToldOK(D, T) == \A t \in D : t \in DOMAIN T /\ T[t] # None /\ T[t].key.kind = "score"

LocksOK(L) == \A k \in DOMAIN L : k \in Keys /\ L[k] \in Callers \cup {None}

LedgerOK(B) == B \in [Packages -> Seq(Findings)]

\* The record of a package names one of its validations, if there is one.
EvidenceOK ==
  /\ LedgerOK(ledger)
  /\ record \in [Packages -> Nat] /\ index \in [Packages -> Nat]
  /\ \A p \in Packages : record[p] <= Len(ledger[p])
  /\ registering \in {None} \cup [package : Packages, old : Nat]
  /\ registering # None => registering.old <= Len(ledger[registering.package])

CallsOK(C, L, T, D) ==
  /\ DOMAIN C = Callers
  /\ \A c \in Callers : Request(C[c]) /\ Sound(C[c], c, L, T, D)
  /\ \A c, d \in Callers : c # d => Apart(C[c], C[d])

IInv ==
  /\ EvidenceOK /\ crashes \in Nat
  /\ TasksOK(tasks) /\ OneOf(tasks)
  /\ LocksOK(locks) /\ ToldOK(told, tasks)
  /\ CallsOK(caller, locks, tasks, told)

----------------------------------------------------------------------------
(* Single facts. *)

LEMMA EvidenceStays == EvidenceOK /\ UNCHANGED evidence => EvidenceOK'
  BY DEF EvidenceOK, evidence

LEMMA KeyIs == \A c : Key(c) = KeyOf(caller[c])
  BY DEF Key, KeyOf

\* Only the scoring calls that hold one lock have one key.
LEMMA LockApart ==
  ASSUME NEW r, NEW q, NEW c, NEW d, NEW L, c # d,
         Guarded(r, c, L), Guarded(q, d, L),
         r.kind = "score", r.phase \in {"scanning", "writing", "shown", "leaving"},
         q.phase \in {"scanning", "writing", "shown", "leaving"}
  PROVE  KeyOf(r) # KeyOf(q)
<1>1. CASE q.kind = "score"  BY <1>1 DEF Guarded
<1>2. CASE q.kind # "score"
  <2>1. KeyOf(r).kind = "score" /\ KeyOf(q).kind # "score"  BY <1>2 DEF KeyOf
  <2> QED  BY <2>1
<1> QED  BY <1>1, <1>2

LEMMA KeyTyped ==
  ASSUME NEW r, Request(r), r.phase # "idle"
  PROVE  KeyOf(r) \in Keys
<1>1. r.kind \in Kinds /\ r.config \in Configs /\ r.source \in Nat \cup {None}
  BY DEF Request, IsCall
<1>2. \A p \in DOMAIN r.seen : p \in Packages /\ r.seen[p] \in Items
  BY DEF Request, IsCall, HoldsItems
<1>3. {<<p, r.seen[p].validation>> : p \in DOMAIN r.seen} \in SUBSET (Packages \X Nat)
  BY <1>2 DEF Items
<1> QED  BY <1>1, <1>3 DEF KeyOf, Keys

LEMMA TaskIsTask == \A t : IsTask(t) => t \in Tasks /\ t # None
<1> SUFFICES ASSUME NEW t, IsTask(t) PROVE t \in Tasks
  BY CreationAssumption
<1>1. t.items \in UNION {[ps -> Items] : ps \in SUBSET Packages}
  BY DEF IsTask, HoldsItems
<1> QED  BY <1>1 DEF IsTask, Tasks

LEMMA IdleRequest == Request(Idle)
<1>1. HoldsItems(<< >>)  BY DEF HoldsItems
<1> QED  BY <1>1 DEF Request, IsCall, Idle

LEMMA IdleSound ==
  ASSUME NEW r, r.phase \in {"idle", "checking", "locking"}, NEW c, NEW L, NEW T, NEW D
  PROVE  Sound(r, c, L, T, D)
  BY DEF Sound, Guarded, Fresh, Own, Found

\* A call goes on; what the other calls rely on is kept.
LEMMA CallStep ==
  ASSUME NEW C, NEW L, NEW T, NEW D, CallsOK(C, L, T, D),
         NEW c \in Callers, NEW r, Request(r), NEW M, NEW U, NEW E, Sound(r, c, M, U, E),
         \A d \in Callers : d # c => Sound(C[d], d, M, U, E) /\ Apart(r, C[d]) /\ Apart(C[d], r)
  PROVE  CallsOK([C EXCEPT ![c] = r], M, U, E)
<1> DEFINE N == [C EXCEPT ![c] = r]
<1>1. DOMAIN N = Callers /\ N[c] = r /\ \A d \in Callers : d # c => N[d] = C[d]
  BY DEF CallsOK
<1> HIDE DEF N
<1>2. \A d \in Callers : Request(N[d]) /\ Sound(N[d], d, M, U, E)
  <2> TAKE d \in Callers
  <2>1. CASE d = c  BY <2>1, <1>1
  <2>2. CASE d # c  BY <2>2, <1>1 DEF CallsOK
  <2> QED  BY <2>1, <2>2
<1>3. \A d, e \in Callers : d # e => Apart(N[d], N[e])
  <2> SUFFICES ASSUME NEW d \in Callers, NEW e \in Callers, d # e PROVE Apart(N[d], N[e])
    OBVIOUS
  <2>1. CASE d = c  BY <2>1, <1>1
  <2>2. CASE e = c  BY <2>2, <1>1
  <2>3. CASE d # c /\ e # c  BY <2>3, <1>1 DEF CallsOK
  <2> QED  BY <2>1, <2>2, <2>3
<1>4. CallsOK(N, M, U, E)  BY <1>1, <1>2, <1>3 DEF CallsOK
<1> QED  BY <1>4 DEF N

----------------------------------------------------------------------------
(* The steps of a call. *)

Phases == {"checking", "locking", "scanning", "writing", "shown", "leaving"}

ToPhase(q, x) == [q EXCEPT !.phase = x]
Showing(q, t) == [q EXCEPT !.phase = "shown", !.shown = t]
Answering(q, t) == [q EXCEPT !.phase = "leaving", !.answer = t]

\* A call goes on with the same request.
Same(r, q) == Request(r) /\ KeyOf(r) = KeyOf(q) /\ r.kind = q.kind

LEMMA SameIs ==
  ASSUME NEW q, Request(q), q.phase # "idle", NEW x \in Phases,
         NEW y \in Nat \cup {None}, NEW z \in Nat \cup {None}
  PROVE  Same([phase |-> x, kind |-> q.kind, source |-> q.source, config |-> q.config,
               seen |-> q.seen, todo |-> q.todo, shown |-> y, answer |-> z], q)
<1> DEFINE r == [phase |-> x, kind |-> q.kind, source |-> q.source, config |-> q.config,
                 seen |-> q.seen, todo |-> q.todo, shown |-> y, answer |-> z]
<1>1. IsCall(r)  BY DEF Request, IsCall, Phases
<1>2. Request(r)  BY <1>1 DEF Request, Phases
<1> QED  BY <1>2 DEF Same, KeyOf

LEMMA RecordOf ==
  ASSUME NEW q, Request(q), NEW r, DOMAIN r = DOMAIN q, r = [f \in DOMAIN q |-> r[f]]
  PROVE  r = [phase |-> r.phase, kind |-> r.kind, source |-> r.source, config |-> r.config,
              seen |-> r.seen, todo |-> r.todo, shown |-> r.shown, answer |-> r.answer]
<1>1. q = [phase |-> q.phase, kind |-> q.kind, source |-> q.source, config |-> q.config,
           seen |-> q.seen, todo |-> q.todo, shown |-> q.shown, answer |-> q.answer]
  BY DEF Request, IsCall
<1> QED  BY <1>1

LEMMA Moved ==
  ASSUME NEW q, Request(q), q.phase # "idle"
  PROVE  /\ \A x \in Phases : Same(ToPhase(q, x), q) /\ ToPhase(q, x).phase = x
         /\ \A t \in Nat : /\ Same(Showing(q, t), q)
                          /\ Showing(q, t).phase = "shown" /\ Showing(q, t).shown = t
         /\ \A t \in Nat \cup {None} :
              /\ Same(Answering(q, t), q)
              /\ Answering(q, t).phase = "leaving" /\ Answering(q, t).answer = t
<1>1. /\ q.shown \in Nat \cup {None} /\ q.answer \in Nat \cup {None}
      /\ q = [phase |-> q.phase, kind |-> q.kind, source |-> q.source, config |-> q.config,
              seen |-> q.seen, todo |-> q.todo, shown |-> q.shown, answer |-> q.answer]
  BY DEF Request, IsCall
<1>2. ASSUME NEW x \in Phases
      PROVE  Same(ToPhase(q, x), q) /\ ToPhase(q, x).phase = x
  <2>1. ToPhase(q, x) =
          [phase |-> x, kind |-> q.kind, source |-> q.source, config |-> q.config,
           seen |-> q.seen, todo |-> q.todo, shown |-> q.shown, answer |-> q.answer]
    <3>1. LET r == ToPhase(q, x)
          IN  DOMAIN r = DOMAIN q /\ r = [f \in DOMAIN q |-> r[f]]
      BY DEF ToPhase
    <3>2. LET r == ToPhase(q, x)
          IN  r = [phase |-> r.phase, kind |-> r.kind, source |-> r.source, config |-> r.config,
                   seen |-> r.seen, todo |-> r.todo, shown |-> r.shown, answer |-> r.answer]
      BY <3>1, RecordOf
    <3> QED  BY <1>1, <3>2 DEF ToPhase
  <2> QED  BY <1>1, <2>1, SameIs
<1>3. ASSUME NEW t \in Nat
      PROVE  /\ Same(Showing(q, t), q)
             /\ Showing(q, t).phase = "shown" /\ Showing(q, t).shown = t
  <2>1. Showing(q, t) =
          [phase |-> "shown", kind |-> q.kind, source |-> q.source, config |-> q.config,
           seen |-> q.seen, todo |-> q.todo, shown |-> t, answer |-> q.answer]
    <3>1. LET r == Showing(q, t)
          IN  DOMAIN r = DOMAIN q /\ r = [f \in DOMAIN q |-> r[f]]
      BY DEF Showing
    <3>2. LET r == Showing(q, t)
          IN  r = [phase |-> r.phase, kind |-> r.kind, source |-> r.source, config |-> r.config,
                   seen |-> r.seen, todo |-> r.todo, shown |-> r.shown, answer |-> r.answer]
      BY <3>1, RecordOf
    <3> QED  BY <1>1, <3>2 DEF Showing
  <2>2. "shown" \in Phases  BY DEF Phases
  <2> QED  BY <1>1, <2>1, <2>2, SameIs
<1>4. ASSUME NEW t \in Nat \cup {None}
      PROVE  /\ Same(Answering(q, t), q)
             /\ Answering(q, t).phase = "leaving" /\ Answering(q, t).answer = t
  <2>1. Answering(q, t) =
          [phase |-> "leaving", kind |-> q.kind, source |-> q.source, config |-> q.config,
           seen |-> q.seen, todo |-> q.todo, shown |-> q.shown, answer |-> t]
    <3>1. LET r == Answering(q, t)
          IN  DOMAIN r = DOMAIN q /\ r = [f \in DOMAIN q |-> r[f]]
      BY DEF Answering
    <3>2. LET r == Answering(q, t)
          IN  r = [phase |-> r.phase, kind |-> r.kind, source |-> r.source, config |-> r.config,
                   seen |-> r.seen, todo |-> r.todo, shown |-> r.shown, answer |-> r.answer]
      BY <3>1, RecordOf
    <3> QED  BY <1>1, <3>2 DEF Answering
  <2>2. "leaving" \in Phases  BY DEF Phases
  <2> QED  BY <1>1, <2>1, <2>2, SameIs
<1> QED  BY <1>2, <1>3, <1>4

LEMMA CallerOnly ==
  ASSUME IInv, NEW c \in Callers, NEW STATE r, Request(r), Sound(r, c, locks, tasks, told),
         r.phase # "shown", caller' = [caller EXCEPT ![c] = r],
         UNCHANGED <<evidence, tasks, locks, told, crashes>>
  PROVE  IInv'
<1>1. \A d \in Callers : Sound(caller[d], d, locks, tasks, told)
  BY DEF IInv, CallsOK
<1>2. CallsOK([caller EXCEPT ![c] = r], locks, tasks, told)
  BY <1>1, CallStep DEF IInv, Apart
<1> QED  BY <1>2, EvidenceStays DEF IInv

LEMMA RequestStep ==
  ASSUME IInv, NEW c \in Callers,
         \/ \E ps \in SUBSET Packages \ {{}}, g \in Configs : RequestPreparation(c, ps, g)
         \/ \E s \in Existing : \E ps \in SUBSET DOMAIN tasks[s].items \ {{}}, g \in Configs :
              RequestScoring(c, s, ps, g)
  PROVE  IInv'
<1>1. ASSUME NEW ps \in SUBSET Packages, NEW g \in Configs, RequestPreparation(c, ps, g)
      PROVE  IInv'
  <2> DEFINE r == [Idle EXCEPT !.phase = "checking", !.kind = "prepare", !.config = g,
                          !.seen = [p \in ps |-> Named(record[p])], !.todo = ps]
  <2>1. \A p \in ps : Named(record[p]) \in Items
    BY <1>1 DEF IInv, EvidenceOK, Named, Items
  <2>2. HoldsItems(r.seen) /\ DOMAIN r.seen = ps
    BY <2>1 DEF HoldsItems, Idle
  <2>3. Request(r) /\ r.phase = "checking"
    BY <2>2 DEF Request, IsCall, Idle, Kinds
  <2>4. caller' = [caller EXCEPT ![c] = r] /\ UNCHANGED <<evidence, tasks, locks, told, crashes>>
    BY <1>1 DEF RequestPreparation, GoTo
  <2> HIDE DEF r
  <2>5. Sound(r, c, locks, tasks, told)  BY <2>3, IdleSound
  <2> QED  BY <2>3, <2>4, <2>5, CallerOnly
<1>2. ASSUME NEW s \in Existing, NEW ps \in SUBSET DOMAIN tasks[s].items, NEW g \in Configs,
             RequestScoring(c, s, ps, g)
      PROVE  IInv'
  <2> DEFINE r == [Idle EXCEPT !.phase = "checking", !.kind = "score", !.source = s, !.config = g,
                          !.seen = [p \in ps |-> tasks[s].items[p]], !.todo = ps]
  <2>1. s \in Nat /\ IsTask(tasks[s])
    BY DEF IInv, TasksOK, Existing, IsSeq
  <2>2. \A p \in ps : p \in Packages /\ tasks[s].items[p] \in Items
    BY <2>1 DEF IsTask, HoldsItems
  <2>3. HoldsItems(r.seen) /\ DOMAIN r.seen = ps
    BY <2>2 DEF HoldsItems, Idle
  <2>4. Request(r) /\ r.phase = "checking"
    BY <2>1, <2>2, <2>3 DEF Request, IsCall, Idle, Kinds
  <2>5. caller' = [caller EXCEPT ![c] = r] /\ UNCHANGED <<evidence, tasks, locks, told, crashes>>
    BY <1>2 DEF RequestScoring, GoTo
  <2> HIDE DEF r
  <2>6. Sound(r, c, locks, tasks, told)  BY <2>4, IdleSound
  <2> QED  BY <2>4, <2>5, <2>6, CallerOnly
<1> QED  BY <1>1, <1>2

LEMMA CheckStep ==
  ASSUME IInv, NEW c \in Callers, NEW p \in Packages, Check(c, p)
  PROVE  IInv'
<1> DEFINE q == caller[c]
           i == NewItem(c, p)
           next == IF q.todo # {p} THEN q.phase
                   ELSE IF Kind(c) = "score" THEN "locking" ELSE "scanning"
           r == [q EXCEPT !.seen[p] = i, !.todo = @ \ {p}, !.phase = next]
<1>1. Request(q) /\ q.phase = "checking" /\ p \in q.todo
  BY DEF IInv, CallsOK, Check, At
<1>2. UNCHANGED <<evidence, tasks, locks, told, crashes>>
  BY DEF Check
<1>3. CASE Acceptable(c, p)
  <2>1. caller' = [caller EXCEPT ![c] = r]
    BY <1>3 DEF Check, GoTo, At
  <2>2. q.seen[p] \in Items /\ p \in DOMAIN q.seen
    BY <1>1 DEF Request, IsCall, HoldsItems
  <2>3. q.seen[p].validation \in Nat /\ q.seen[p].level \in Levels \cup {None}
    BY <2>2 DEF Items
  <2>4. i \in Items
    <3>1. CASE Kind(c) = "prepare"
      <4>1. record[p] # 0 /\ q.seen[p].validation = record[p]
        BY <1>3, <3>1 DEF Acceptable, Preflight, Recorded
      <4>2. ledger[p] \in Seq(Findings) /\ record[p] \in 1 .. Len(ledger[p])
        <5>1. /\ ledger[p] \in Seq(Findings) /\ record[p] \in Nat
              /\ record[p] <= Len(ledger[p])
          BY DEF IInv, EvidenceOK, LedgerOK
        <5> QED  BY <4>1, <5>1
      <4>3. Verdict(p, q.seen[p]) \in Findings
        BY <4>1, <4>2 DEF Verdict
      <4>4. Verdict(p, q.seen[p]) \in Levels
        BY <4>3, CreationAssumption
      <4>5. i = [validation |-> q.seen[p].validation, level |-> Verdict(p, q.seen[p]),
                 status |-> IF Verdict(p, q.seen[p]) = "manual_only"
                            THEN "manual_review" ELSE "pending"]
        BY <3>1 DEF NewItem
      <4> QED  BY <2>3, <4>4, <4>5 DEF Items
    <3>2. CASE Kind(c) # "prepare"
      BY <2>3, <3>2 DEF NewItem, Items
    <3> QED  BY <3>1, <3>2
  <2> HIDE DEF i
  <2>5. HoldsItems([q.seen EXCEPT ![p] = i]) /\ DOMAIN [q.seen EXCEPT ![p] = i] = DOMAIN q.seen
    BY <1>1, <2>4 DEF HoldsItems, Request, IsCall
  <2>6. next \in {"checking", "locking", "scanning"} /\ (Kind(c) = "score" => next # "scanning")
    BY <1>1
  <2> HIDE DEF next
  <2>7. /\ r.phase = next /\ r.kind = q.kind /\ r.source = q.source /\ r.config = q.config
        /\ r.seen = [q.seen EXCEPT ![p] = i] /\ r.todo = q.todo \ {p}
        /\ r.shown = q.shown /\ r.answer = q.answer
    BY <1>1 DEF Request, IsCall
  <2>8. r = [phase |-> r.phase, kind |-> r.kind, source |-> r.source, config |-> r.config,
           seen |-> r.seen, todo |-> r.todo, shown |-> r.shown, answer |-> r.answer]
    <3>1. DOMAIN r = DOMAIN q /\ r = [f \in DOMAIN q |-> r[f]]
      OBVIOUS
    <3> HIDE DEF r
    <3> QED  BY <1>1, <3>1, RecordOf
  <2> HIDE DEF r
  <2>9. IsCall(r)
    BY <1>1, <2>5, <2>6, <2>7, <2>8 DEF Request, IsCall
  <2>10. Request(r)
    BY <1>1, <2>5, <2>7, <2>9 DEF Request
  <2>11. r.kind = Kind(c)
    BY <2>7 DEF Kind
  <2>12. Sound(r, c, locks, tasks, told)
    BY <2>6, <2>7, <2>11 DEF Sound, Guarded, Fresh, Own, Found
  <2>13. r.phase # "shown"
    BY <2>6, <2>7
  <2> QED  BY <1>2, <2>1, <2>10, <2>12, <2>13, CallerOnly
<1>4. CASE ~Acceptable(c, p)
  <2>1. caller' = [caller EXCEPT ![c] = Idle]
    BY <1>4 DEF Check, GoTo
  <2>2. Idle.phase = "idle"  BY DEF Idle
  <2>3. Sound(Idle, c, locks, tasks, told)  BY <2>2, IdleSound
  <2> QED  BY <1>2, <2>1, <2>2, <2>3, IdleRequest, CallerOnly
<1> QED  BY <1>3, <1>4

LEMMA ScanStep ==
  ASSUME IInv, NEW c \in Callers, LockConflict(c) \/ Scan(c)
  PROVE  IInv'
<1> DEFINE q == caller[c]
<1>1. Request(q) /\ Sound(q, c, locks, tasks, told)
  BY DEF IInv, CallsOK
<1>2. UNCHANGED <<evidence, tasks, locks, told, crashes>>
  BY DEF Scan, LockConflict
<1>3. CASE LockConflict(c)
  <2>1. caller' = [caller EXCEPT ![c] = Idle]
    BY <1>3 DEF LockConflict, GoTo
  <2>2. Idle.phase = "idle"  BY DEF Idle
  <2>3. Sound(Idle, c, locks, tasks, told)  BY <2>2, IdleSound
  <2> QED  BY <1>2, <2>1, <2>2, <2>3, IdleRequest, CallerOnly
<1>4. ASSUME NEW t \in Hits(Key(c)), Scan(c), Answered(c, t)
      PROVE  IInv'
  <2> DEFINE r == Answering(q, t)
  <2>1. q.phase = "scanning" /\ caller' = [caller EXCEPT ![c] = r]
    BY <1>4 DEF Scan, At, Answered, GoTo, Answering
  <2>2. t \in DOMAIN tasks /\ tasks[t] # None /\ tasks[t].key = KeyOf(q) /\ t \in Nat
    BY KeyIs DEF Hits, Existing, IInv, TasksOK, IsSeq
  <2>4. Same(r, q) /\ r.phase = "leaving" /\ r.answer = t
    BY <1>1, <2>1, <2>2, Moved
  <2> HIDE DEF r
  <2>5. Sound(r, c, locks, tasks, told)
    BY <1>1, <2>1, <2>2, <2>4 DEF Sound, Guarded, Fresh, Own, Found, Same
  <2>6. Request(r) /\ r.phase # "shown"  BY <2>4 DEF Same
  <2> QED  BY <1>2, <2>1, <2>5, <2>6, CallerOnly
<1>5. CASE Scan(c) /\ Hits(Key(c)) = {}
  <2> DEFINE r == ToPhase(q, "writing")
  <2>1. q.phase = "scanning" /\ caller' = [caller EXCEPT ![c] = r]
    BY <1>5 DEF Scan, At, GoTo, ToPhase
  <2>2. \A t \in DOMAIN tasks : tasks[t] # None => tasks[t].key # KeyOf(q)
    BY <1>5, KeyIs DEF Hits, Existing
  <2>4. Same(r, q) /\ r.phase = "writing"
    BY <1>1, <2>1, Moved DEF Phases
  <2> HIDE DEF r
  <2>5. Sound(r, c, locks, tasks, told)
    BY <1>1, <2>1, <2>2, <2>4 DEF Sound, Guarded, Fresh, Own, Found, Same
  <2>6. Request(r) /\ r.phase # "shown"  BY <2>4 DEF Same
  <2> QED  BY <1>2, <2>1, <2>5, <2>6, CallerOnly
<1> QED  BY <1>3, <1>4, <1>5 DEF Scan

LEMMA LockStep ==
  ASSUME IInv, NEW c \in Callers, Lock(c)
  PROVE  IInv'
<1> DEFINE q == caller[c]
           r == ToPhase(q, "scanning")
           k == KeyOf(q)
           L == [j \in DOMAIN locks \cup {k} |-> IF j = k THEN c ELSE locks[j]]
<1>1. /\ q.phase = "locking" /\ k \notin DOMAIN locks
      /\ locks' = L /\ caller' = [caller EXCEPT ![c] = r]
      /\ UNCHANGED <<evidence, tasks, told, crashes>>
  BY KeyIs DEF Lock, At, GoTo, ToPhase
<1>2. /\ DOMAIN L = DOMAIN locks \cup {k} /\ L[k] = c
      /\ \A j \in DOMAIN locks : L[j] = locks[j]
  <2> HIDE DEF k
  <2> QED  BY <1>1
<1> HIDE DEF L
<1>3. Request(q) /\ k \in Keys
  BY <1>1, KeyTyped DEF IInv, CallsOK
<1> HIDE DEF k
<1>4. Same(r, q) /\ r.phase = "scanning"
  BY <1>1, <1>3, Moved DEF Phases
<1> HIDE DEF r
<1>5. LocksOK(L)
  BY <1>2, <1>3 DEF IInv, LocksOK
<1>6. \A d \in Callers : Sound(caller[d], d, L, tasks, told)
  BY <1>2 DEF IInv, CallsOK, Sound, Guarded
<1>7. Sound(r, c, L, tasks, told)
  BY <1>2, <1>4 DEF k, Sound, Guarded, Fresh, Own, Found, Same
<1>8. CallsOK([caller EXCEPT ![c] = r], L, tasks, told)
  BY <1>4, <1>6, <1>7, CallStep DEF IInv, Same, Apart
<1> QED  BY <1>1, <1>5, <1>8, EvidenceStays DEF IInv

----------------------------------------------------------------------------
(* The steps that write tasks. *)

LEMMA ExceptSeq ==
  ASSUME NEW T, IsSeq(T), NEW n \in DOMAIN T, NEW v
  PROVE  LET U == [T EXCEPT ![n] = v]
         IN  /\ IsSeq(U) /\ DOMAIN U = DOMAIN T /\ U[n] = v
             /\ \A t \in DOMAIN T : t # n => U[t] = T[t]
<1> DEFINE U == [T EXCEPT ![n] = v]
<1>1. DOMAIN U = DOMAIN T /\ U[n] = v /\ \A t \in DOMAIN T : t # n => U[t] = T[t]
  OBVIOUS
<1>2. DOMAIN T = 1 .. Len(T) /\ Len(T) \in Nat
  BY DEF IsSeq
<1>3. U = [t \in DOMAIN U |-> U[t]]
  OBVIOUS
<1> HIDE DEF U
<1>4. U \in [1 .. Len(T) -> {U[t] : t \in DOMAIN U}]
  <2>1. \A t \in DOMAIN U : U[t] \in {U[x] : x \in DOMAIN U}  OBVIOUS
  <2>2. U \in [DOMAIN U -> {U[t] : t \in DOMAIN U}]  BY <1>3, <2>1
  <2> QED  BY <1>1, <1>2, <2>2
<1>5. IsSeq(U)
  <2> DEFINE W == {U[t] : t \in DOMAIN U}
  <2>1. U \in [1 .. Len(T) -> W]  BY <1>4
  <2> HIDE DEF W
  <2>2. U \in Seq(W)  BY <1>2, <2>1
  <2> QED  BY <2>2 DEF W, IsSeq
<1> QED  BY <1>1, <1>5 DEF U

LEMMA AppendSeq ==
  ASSUME NEW T, IsSeq(T), NEW v
  PROVE  LET U == Append(T, v)
             n == Len(T) + 1
         IN  /\ IsSeq(U) /\ n \in Nat
             /\ DOMAIN U = DOMAIN T \cup {n} /\ n \notin DOMAIN T /\ U[n] = v
             /\ \A t \in DOMAIN T : U[t] = T[t]
<1> DEFINE U == Append(T, v)
           n == Len(T) + 1
           V == {T[t] : t \in DOMAIN T} \cup {v}
<1>1. T \in Seq(V) /\ v \in V
  BY DEF IsSeq
<1> HIDE DEF V
<1>2. /\ U \in Seq(V) /\ Len(U) = n /\ n \in Nat /\ DOMAIN T = 1 .. Len(T)
      /\ DOMAIN U = 1 .. n /\ U[n] = v /\ \A t \in 1 .. Len(T) : U[t] = T[t]
  BY <1>1
<1>3. U \in [1 .. n -> {U[t] : t \in DOMAIN U}]
  <2> HIDE DEF U, n
  <2>1. U \in [1 .. n -> V]  BY <1>2
  <2>2. U = [t \in DOMAIN U |-> U[t]] /\ DOMAIN U = 1 .. n  BY <2>1
  <2>3. \A t \in DOMAIN U : U[t] \in {U[x] : x \in DOMAIN U}  OBVIOUS
  <2>4. U \in [DOMAIN U -> {U[t] : t \in DOMAIN U}]  BY <2>2, <2>3
  <2> QED  BY <2>2, <2>4
<1>4. IsSeq(U)
  <2> HIDE DEF U, n
  <2> DEFINE W == {U[t] : t \in DOMAIN U}
  <2>1. U \in [1 .. n -> W] /\ n \in Nat  BY <1>2, <1>3
  <2> HIDE DEF W
  <2>2. U \in Seq(W)  BY <2>1
  <2> QED  BY <2>2 DEF W, IsSeq
<1>5. DOMAIN U = DOMAIN T \cup {n} /\ n \notin DOMAIN T
  <2>1. Len(T) \in Nat  BY <1>1
  <2>2. 1 .. (Len(T) + 1) = (1 .. Len(T)) \cup {Len(T) + 1}  BY <2>1
  <2> QED  BY <1>2, <2>1, <2>2
<1> QED  BY <1>2, <1>4, <1>5

\* Tasks keep what the calls know of them: which there are, their keys and kinds.
Keeps(T, U) ==
  /\ DOMAIN U = DOMAIN T
  /\ \A t \in DOMAIN T :
       (U[t] = None <=> T[t] = None) /\ (T[t] # None => U[t].key = T[t].key /\ U[t].kind = T[t].kind)

LEMMA KeepsSound ==
  ASSUME NEW T, NEW U, Keeps(T, U), NEW D, NEW L
  PROVE  /\ \A r, c : Sound(r, c, L, T, D) => Sound(r, c, L, U, D)
         /\ OneOf(T) => OneOf(U)
         /\ ToldOK(D, T) => ToldOK(D, U)
<1>1. \A r, c : Sound(r, c, L, T, D) => Sound(r, c, L, U, D)
  <2> SUFFICES ASSUME NEW r, NEW c, Sound(r, c, L, T, D) PROVE Sound(r, c, L, U, D)
    OBVIOUS
  <2>1. Fresh(r, U)  BY DEF Sound, Fresh, Keeps
  <2>2. Own(r, U, D)  BY DEF Sound, Own, Keeps
  <2>3. Found(r, U)  BY DEF Sound, Found, Keeps
  <2> QED  BY <2>1, <2>2, <2>3 DEF Sound
<1>2. OneOf(T) => OneOf(U)  BY DEF OneOf, Keeps
<1>3. ToldOK(D, T) => ToldOK(D, U)  BY DEF ToldOK, Keeps
<1> QED  BY <1>1, <1>2, <1>3

LEMMA ShowStep ==
  ASSUME IInv, NEW c \in Callers, Show(c)
  PROVE  IInv'
<1> DEFINE q == caller[c]
           n == Len(tasks) + 1
           v == Task(c)
           U == Append(tasks, v)
           r == Showing(q, n)
<1>1. /\ q.phase = "writing" /\ tasks' = U /\ caller' = [caller EXCEPT ![c] = r]
      /\ UNCHANGED <<evidence, locks, told, crashes>>
  BY DEF Show, At, GoTo, Showing
<1>2. Request(q) /\ Sound(q, c, locks, tasks, told)
  BY DEF IInv, CallsOK
<1>3. /\ v.key = KeyOf(q) /\ v.kind = q.kind /\ v.items = q.seen
      /\ v = [kind |-> q.kind, key |-> KeyOf(q), source |-> q.source, items |-> q.seen,
              settled |-> FALSE, logged |-> FALSE]
  BY KeyIs DEF Task, Kind
<1>4. IsTask(v)
  BY <1>1, <1>2, <1>3, KeyTyped DEF IsTask, Request, IsCall
<1>5. v # None /\ v.kind = v.key.kind
  <2>1. v.key.kind = q.kind  BY <1>3 DEF KeyOf
  <2> QED  BY <1>3, <1>4, <2>1, TaskIsTask
<1> HIDE DEF v
<1>6. /\ IsSeq(U) /\ n \in Nat
      /\ DOMAIN U = DOMAIN tasks \cup {n} /\ n \notin DOMAIN tasks /\ U[n] = v
      /\ \A t \in DOMAIN tasks : U[t] = tasks[t]
  BY AppendSeq DEF IInv, TasksOK
<1> HIDE DEF U, n
<1>7. Same(r, q) /\ r.phase = "shown" /\ r.shown = n
  BY <1>1, <1>2, <1>6, Moved
<1> HIDE DEF r
<1>8. TasksOK(U)
  BY <1>4, <1>5, <1>6 DEF IInv, TasksOK
<1>9. q.kind = "score" => \A t \in DOMAIN tasks : tasks[t] # None => tasks[t].key # v.key
  BY <1>1, <1>2, <1>3 DEF Sound, Fresh
<1>10. OneOf(U)
  <2> SUFFICES ASSUME NEW s \in DOMAIN U, NEW t \in DOMAIN U, U[s] # None, U[t] # None,
                      U[s].kind = "score", U[t].key = U[s].key
               PROVE  s = t
    BY DEF OneOf
  <2>1. U[t].kind = "score"
    BY <1>8 DEF TasksOK
  <2>2. CASE s \in DOMAIN tasks /\ t \in DOMAIN tasks
    BY <1>6, <2>2 DEF IInv, OneOf
  <2>3. CASE s = n \/ t = n
    BY <1>3, <1>6, <1>9, <2>1, <2>3
  <2> QED  BY <1>6, <2>2, <2>3
<1>11. ToldOK(told, U)
  BY <1>6 DEF IInv, ToldOK
<1>12. ASSUME NEW d \in Callers, d # c
       PROVE  Sound(caller[d], d, locks, U, told) /\ Apart(r, caller[d]) /\ Apart(caller[d], r)
  <2> DEFINE o == caller[d]
  <2>1. Sound(o, d, locks, tasks, told)
    BY DEF IInv, CallsOK
  <2>2. o.kind = "score" /\ o.phase = "writing" => KeyOf(o) # v.key
    BY <1>1, <1>2, <1>3, <1>12, <2>1, LockApart DEF Sound
  <2>3. Fresh(o, U)
    BY <1>6, <2>1, <2>2 DEF Sound, Fresh
  <2>4. Own(o, U, told)
    BY <1>6, <2>1 DEF Sound, Own
  <2>5. Found(o, U)
    BY <1>6, <2>1 DEF Sound, Found
  <2>6. o.phase = "shown" => o.shown # n
    BY <1>6, <2>1 DEF Sound, Own
  <2> QED  BY <1>7, <2>1, <2>3, <2>4, <2>5, <2>6 DEF Sound, Apart
<1>13. n \notin told
  BY <1>6 DEF IInv, ToldOK
<1>14. Sound(r, c, locks, U, told)
  <2>1. Guarded(r, c, locks)
    BY <1>1, <1>2, <1>7 DEF Sound, Guarded, Same
  <2>2. Own(r, U, told)
    BY <1>3, <1>5, <1>6, <1>7, <1>13 DEF Own, Same
  <2> QED  BY <1>7, <2>1, <2>2 DEF Sound, Fresh, Found
<1>15. CallsOK([caller EXCEPT ![c] = r], locks, U, told)
  <2>1. CallsOK(caller, locks, tasks, told) /\ Request(r)  BY <1>7 DEF IInv, Same
  <2> QED  BY <1>12, <1>14, <2>1, CallStep
<1> QED  BY <1>1, <1>8, <1>10, <1>11, <1>15, EvidenceStays DEF IInv

\* A change of one task that calls do not notice.
LEMMA KeepsStep ==
  ASSUME IInv, NEW n \in DOMAIN tasks, NEW v, tasks[n] # None, IsTask(v),
         v.key = tasks[n].key, v.kind = tasks[n].kind
  PROVE  LET U == [tasks EXCEPT ![n] = v]
         IN  TasksOK(U) /\ Keeps(tasks, U)
<1> DEFINE U == [tasks EXCEPT ![n] = v]
<1>1. /\ IsSeq(U) /\ DOMAIN U = DOMAIN tasks /\ U[n] = v
      /\ \A t \in DOMAIN tasks : t # n => U[t] = tasks[t]
  BY ExceptSeq DEF IInv, TasksOK
<1> HIDE DEF U
<1>2. TasksOK(U)
  <2>1. ASSUME NEW t \in DOMAIN U, U[t] # None
        PROVE  IsTask(U[t]) /\ U[t].kind = U[t].key.kind
    <3>1. CASE t = n  BY <1>1, <3>1 DEF IInv, TasksOK
    <3>2. CASE t # n  BY <1>1, <2>1, <3>2 DEF IInv, TasksOK
    <3> QED  BY <3>1, <3>2
  <2> QED  BY <1>1, <2>1 DEF TasksOK
<1>3. Keeps(tasks, U)
  BY <1>1, TaskIsTask DEF Keeps
<1> QED  BY <1>2, <1>3 DEF U

LEMMA CommitStep ==
  ASSUME IInv, NEW c \in Callers, Commit(c)
  PROVE  IInv'
<1> DEFINE q == caller[c]
           n == q.shown
           v == [tasks[n] EXCEPT !.logged = TRUE]
           U == [tasks EXCEPT ![n] = v]
           r == Answering(q, n)
<1>1. /\ q.phase = "shown" /\ tasks' = U /\ caller' = [caller EXCEPT ![c] = r]
      /\ UNCHANGED <<evidence, locks, told, crashes>>
  BY DEF Commit, At, Answered, GoTo, Answering
<1>2. Request(q) /\ Sound(q, c, locks, tasks, told)
  BY DEF IInv, CallsOK
<1>3. n \in DOMAIN tasks /\ tasks[n] # None /\ tasks[n].key = KeyOf(q) /\ n \in Nat
  BY <1>1, <1>2 DEF Sound, Own, IInv, TasksOK, IsSeq
<1>4. IsTask(tasks[n])
  BY <1>3 DEF IInv, TasksOK
<1>5. IsTask(v) /\ v.key = tasks[n].key /\ v.kind = tasks[n].kind
  BY <1>4 DEF IsTask
<1> HIDE DEF v
<1>6. TasksOK(U) /\ Keeps(tasks, U)
  BY <1>3, <1>5, KeepsStep
<1> HIDE DEF U
<1>7. Same(r, q) /\ r.phase = "leaving" /\ r.answer = n
  BY <1>1, <1>2, <1>3, Moved
<1> HIDE DEF r
<1>8. OneOf(U) /\ ToldOK(told, U)
  BY <1>6, KeepsSound DEF IInv
<1>9. \A d \in Callers : Sound(caller[d], d, locks, U, told)
  BY <1>6, KeepsSound DEF IInv, CallsOK
<1>10. Sound(r, c, locks, U, told)
  <2>1. n \in DOMAIN U /\ U[n] # None /\ U[n].key = KeyOf(r)
    BY <1>3, <1>6, <1>7 DEF Keeps, Same
  <2>2. Guarded(r, c, locks)
    BY <1>1, <1>2, <1>7 DEF Sound, Guarded, Same
  <2> QED  BY <1>7, <2>1, <2>2 DEF Sound, Fresh, Own, Found
<1>11. CallsOK([caller EXCEPT ![c] = r], locks, U, told)
  <2>1. CallsOK(caller, locks, tasks, told) /\ Request(r)  BY <1>7 DEF IInv, Same
  <2>2. \A d \in Callers : Apart(r, caller[d]) /\ Apart(caller[d], r)  BY <1>7 DEF Apart
  <2> QED  BY <1>9, <1>10, <2>1, <2>2, CallStep
<1> QED  BY <1>1, <1>6, <1>8, <1>11, EvidenceStays DEF IInv

LEMMA RollBackStep ==
  ASSUME IInv, NEW c \in Callers, RollBack(c)
  PROVE  IInv'
<1> DEFINE q == caller[c]
           n == q.shown
           U == [tasks EXCEPT ![n] = None]
           r == Answering(q, None)
<1>1. /\ q.phase = "shown" /\ tasks' = U /\ caller' = [caller EXCEPT ![c] = r]
      /\ UNCHANGED <<evidence, locks, told, crashes>>
  BY DEF RollBack, At, Answered, GoTo, Answering
<1>2. Request(q) /\ Sound(q, c, locks, tasks, told)
  BY DEF IInv, CallsOK
<1>3. n \in DOMAIN tasks /\ tasks[n] # None /\ tasks[n].key = KeyOf(q) /\ n \notin told
  BY <1>1, <1>2 DEF Sound, Own
<1>4. /\ IsSeq(U) /\ DOMAIN U = DOMAIN tasks /\ U[n] = None
      /\ \A t \in DOMAIN tasks : t # n => U[t] = tasks[t]
  BY <1>3, ExceptSeq DEF IInv, TasksOK
<1> HIDE DEF U
<1>5. TasksOK(U)
  BY <1>4 DEF IInv, TasksOK
<1>6. OneOf(U)
  BY <1>4 DEF IInv, OneOf
<1>7. ToldOK(told, U)
  BY <1>3, <1>4 DEF IInv, ToldOK
<1>8. Same(r, q) /\ r.phase = "leaving" /\ r.answer = None
  BY <1>1, <1>2, Moved
<1> HIDE DEF r
<1>9. ASSUME NEW d \in Callers, d # c
      PROVE  Sound(caller[d], d, locks, U, told)
  <2> DEFINE o == caller[d]
  <2>1. Sound(o, d, locks, tasks, told)
    BY DEF IInv, CallsOK
  <2>2. Fresh(o, U)
    BY <1>4, <2>1 DEF Sound, Fresh
  <2>3. o.phase = "shown" => o.shown # n
    BY <1>1, <1>9 DEF IInv, CallsOK, Apart
  <2>4. Own(o, U, told)
    BY <1>4, <2>1, <2>3 DEF Sound, Own
  <2>5. o.kind = "score" /\ o.phase = "leaving" => KeyOf(o) # KeyOf(q)
    BY <1>1, <1>2, <1>9, <2>1, LockApart DEF Sound
  <2>6. Found(o, U)
    BY <1>3, <1>4, <2>1, <2>5 DEF Sound, Found
  <2> QED  BY <2>1, <2>2, <2>4, <2>6 DEF Sound
<1>10. Sound(r, c, locks, U, told)
  <2>1. Guarded(r, c, locks)
    BY <1>1, <1>2, <1>8 DEF Sound, Guarded, Same
  <2> QED  BY <1>8, <2>1 DEF Sound, Fresh, Own, Found
<1>11. CallsOK([caller EXCEPT ![c] = r], locks, U, told)
  <2>1. CallsOK(caller, locks, tasks, told) /\ Request(r)  BY <1>8 DEF IInv, Same
  <2>2. \A d \in Callers : Apart(r, caller[d]) /\ Apart(caller[d], r)  BY <1>8 DEF Apart
  <2> QED  BY <1>9, <1>10, <2>1, <2>2, CallStep
<1> QED  BY <1>1, <1>5, <1>6, <1>7, <1>11, EvidenceStays DEF IInv

LEMMA LeaveStep ==
  ASSUME IInv, NEW c \in Callers, Leave(c)
  PROVE  IInv'
<1> DEFINE q == caller[c]
           L == Restrict(locks, {k \in DOMAIN locks : locks[k] # c})
           D == IF q.kind = "score" THEN told \cup ({q.answer} \ {None}) ELSE told
<1>1. /\ q.phase = "leaving" /\ locks' = L /\ told' = D /\ caller' = [caller EXCEPT ![c] = Idle]
      /\ UNCHANGED <<evidence, tasks, crashes>>
  BY DEF Leave, At, GoTo, Kind
<1>2. Request(q) /\ Sound(q, c, locks, tasks, told)
  BY DEF IInv, CallsOK
<1>3. /\ DOMAIN L = {k \in DOMAIN locks : locks[k] # c}
      /\ \A k \in DOMAIN L : L[k] = locks[k]
  BY DEF Restrict
<1> HIDE DEF L
<1>4. LocksOK(L)
  BY <1>3 DEF IInv, LocksOK
<1>5. \A t \in D : \/ t \in told
                  \/ /\ q.kind = "score" /\ t \in DOMAIN tasks /\ tasks[t] # None
                     /\ tasks[t].key = KeyOf(q)
  BY <1>1, <1>2 DEF Sound, Found
<1>6. told \subseteq D
  OBVIOUS
<1> HIDE DEF D
<1>7. ToldOK(D, tasks)
  <2>1. KeyOf(q).kind = q.kind  BY DEF KeyOf
  <2> QED  BY <1>5, <2>1 DEF IInv, ToldOK
<1>8. ASSUME NEW d \in Callers, d # c
      PROVE  Sound(caller[d], d, L, tasks, D)
  <2> DEFINE o == caller[d]
  <2>1. Sound(o, d, locks, tasks, told)
    BY DEF IInv, CallsOK
  <2>2. Guarded(o, d, L)
    BY <1>3, <1>8, <2>1 DEF Sound, Guarded
  <2>3. q.kind = "score" /\ o.phase = "shown" => KeyOf(o) # KeyOf(q)
    BY <1>1, <1>2, <1>8, <2>1, LockApart DEF Sound
  <2>4. Own(o, tasks, D)
    BY <1>5, <2>1, <2>3 DEF Sound, Own
  <2> QED  BY <2>1, <2>2, <2>4 DEF Sound
<1>9. Idle.phase = "idle"
  BY DEF Idle
<1>10. CallsOK([caller EXCEPT ![c] = Idle], L, tasks, D)
  <2>1. CallsOK(caller, locks, tasks, told)  BY DEF IInv
  <2>2. \A d \in Callers : Apart(Idle, caller[d]) /\ Apart(caller[d], Idle)  BY <1>9 DEF Apart
  <2>3. Sound(Idle, c, L, tasks, D)  BY <1>9, IdleSound
  <2> QED  BY <1>8, <2>1, <2>2, <2>3, IdleRequest, CallStep
<1> QED  BY <1>1, <1>4, <1>7, <1>10, EvidenceStays DEF IInv

----------------------------------------------------------------------------
(* What else happens. *)

LEMMA WriteRecordStep ==
  ASSUME IInv, NEW p \in Packages, NEW f \in Findings, WriteRecord(p, f)
  PROVE  IInv'
<1> DEFINE n == Len(ledger[p]) + 1
           L == [ledger EXCEPT ![p] = Append(@, f)]
           R == [record EXCEPT ![p] = n]
<1>1. /\ ledger' = L /\ record' = R
      /\ registering' = [package |-> p, old |-> record[p]]
      /\ UNCHANGED <<index, tasks, locks, caller, told, crashes>>
  BY DEF WriteRecord
<1>2. EvidenceOK /\ ledger[p] \in Seq(Findings) /\ record[p] \in Nat /\ record[p] <= Len(ledger[p])
  BY DEF IInv, EvidenceOK, LedgerOK
<1>3. /\ Append(ledger[p], f) \in Seq(Findings) /\ Len(Append(ledger[p], f)) = n
      /\ n \in Nat /\ record[p] <= n
  BY <1>2
<1>4. /\ LedgerOK(L) /\ L[p] = Append(ledger[p], f)
      /\ \A q \in Packages : q # p => L[q] = ledger[q]
  BY <1>2, <1>3 DEF EvidenceOK, LedgerOK
<1>5. /\ R \in [Packages -> Nat] /\ R[p] = n
      /\ \A q \in Packages : q # p => R[q] = record[q]
  BY <1>2, <1>3 DEF EvidenceOK
<1> HIDE DEF L, R
<1>6. \A q \in Packages : R[q] <= Len(L[q])
  <2> TAKE q \in Packages
  <2>1. CASE q = p  BY <1>3, <1>4, <1>5, <2>1
  <2>2. CASE q # p  BY <1>2, <1>4, <1>5, <2>2 DEF EvidenceOK
  <2> QED  BY <2>1, <2>2
<1>7. EvidenceOK'
  BY <1>1, <1>2, <1>3, <1>4, <1>5, <1>6 DEF EvidenceOK
<1> QED  BY <1>1, <1>7 DEF IInv

LEMMA RegistrationStep ==
  ASSUME IInv, WriteIndex \/ UndoRecord \/ RebuildIndex
  PROVE  IInv'
<1>1. UNCHANGED <<ledger, tasks, locks, caller, told, crashes>>
  BY DEF WriteIndex, UndoRecord, RebuildIndex
<1>2. CASE WriteIndex
  <2>1. EvidenceOK'
    BY <1>1, <1>2 DEF IInv, EvidenceOK, WriteIndex
  <2> QED  BY <1>1, <2>1 DEF IInv
<1>3. CASE UndoRecord
  <2>1. /\ registering \in [package : Packages, old : Nat]
        /\ registering.old <= Len(ledger[registering.package])
    BY <1>3 DEF IInv, EvidenceOK, UndoRecord
  <2>2. /\ record' \in [Packages -> Nat]
        /\ \A p \in Packages : record'[p] = IF p = registering.package THEN registering.old
                                           ELSE record[p]
    BY <1>3, <2>1 DEF IInv, EvidenceOK, UndoRecord
  <2>3. \A p \in Packages : record'[p] <= Len(ledger[p])
    BY <2>1, <2>2 DEF IInv, EvidenceOK
  <2>4. EvidenceOK'
    BY <1>1, <1>3, <2>2, <2>3 DEF IInv, EvidenceOK, UndoRecord
  <2> QED  BY <1>1, <2>4 DEF IInv
<1>4. CASE RebuildIndex
  <2>1. EvidenceOK'
    BY <1>1, <1>4 DEF IInv, EvidenceOK, RebuildIndex
  <2> QED  BY <1>1, <2>1 DEF IInv
<1> QED  BY <1>2, <1>3, <1>4

LEMMA SettleStep ==
  ASSUME IInv, NEW t \in Existing, NEW failed \in SUBSET Packages, Settle(t, failed)
  PROVE  IInv'
<1> DEFINE m == tasks[t].items
           settledItems == Prepared(m, failed)
           v == [tasks[t] EXCEPT !.settled = TRUE, !.items = settledItems]
           U == [tasks EXCEPT ![t] = v]
<1>1. t \in DOMAIN tasks /\ tasks[t] # None /\ IsTask(tasks[t])
  BY DEF Existing, IInv, TasksOK
<1>2. tasks' = U /\ UNCHANGED <<evidence, locks, caller, told, crashes>>
  BY <1>1 DEF Settle, IsTask
<1>3. HoldsItems(settledItems)
  <2>1. \A p \in DOMAIN m : m[p] \in Items
    BY <1>1 DEF IsTask, HoldsItems
  <2>2. \A p \in DOMAIN m : settledItems[p] \in Items
    BY <2>1 DEF Items, Prepared
  <2>3. DOMAIN settledItems = DOMAIN m /\ DOMAIN m \subseteq Packages
    BY <1>1 DEF IsTask, HoldsItems, Prepared
  <2>4. settledItems = [p \in DOMAIN settledItems |-> settledItems[p]]
    BY DEF Prepared
  <2> HIDE DEF settledItems
  <2> QED  BY <2>2, <2>3, <2>4 DEF HoldsItems
<1> HIDE DEF settledItems
<1>4. /\ v.kind = tasks[t].kind /\ v.key = tasks[t].key /\ v.items = settledItems
      /\ v \in [kind : Kinds, key : Keys, source : Nat \cup {None}, items : {settledItems},
               settled : BOOLEAN, logged : BOOLEAN]
  BY <1>1 DEF IsTask
<1>5. IsTask(v)
  BY <1>3, <1>4 DEF IsTask
<1> HIDE DEF v
<1>6. TasksOK(U) /\ Keeps(tasks, U)
  BY <1>1, <1>4, <1>5, KeepsStep
<1> HIDE DEF U
<1>7. OneOf(U) /\ ToldOK(told, U) /\ CallsOK(caller, locks, U, told)
  BY <1>6, KeepsSound DEF IInv, CallsOK
<1> QED  BY <1>2, <1>6, <1>7, EvidenceStays DEF IInv

LEMMA CrashStep ==
  ASSUME IInv, Crash
  PROVE  IInv'
<1> DEFINE C == [c \in Callers |-> Idle]
           L == [k \in DOMAIN locks |-> None]
<1>1. /\ caller' = C /\ locks' = L /\ crashes' = crashes + 1 /\ registering' = None
      /\ UNCHANGED <<ledger, record, index, tasks, told>>
  BY DEF Crash
<1>2. Idle.phase = "idle"
  BY DEF Idle
<1>3. CallsOK(C, L, tasks, told)
  BY <1>2, IdleRequest, IdleSound DEF CallsOK, Apart
<1>4. LocksOK(L)
  BY DEF IInv, LocksOK
<1>5. EvidenceOK'
  BY <1>1 DEF IInv, EvidenceOK
<1> HIDE DEF C, L
<1> QED  BY <1>1, <1>3, <1>4, <1>5 DEF IInv

LEMMA ClearLockStep ==
  ASSUME IInv, NEW k \in DOMAIN locks, ClearLock(k)
  PROVE  IInv'
<1> DEFINE L == Restrict(locks, DOMAIN locks \ {k})
<1>1. locks[k] = None /\ locks' = L /\ UNCHANGED <<evidence, tasks, caller, told, crashes>>
  BY DEF ClearLock
<1>2. DOMAIN L = DOMAIN locks \ {k} /\ \A j \in DOMAIN L : L[j] = locks[j]
  BY DEF Restrict
<1> HIDE DEF L
<1>3. LocksOK(L)
  BY <1>2 DEF IInv, LocksOK
<1>4. \A c \in Callers : c # None
  BY CreationAssumption
<1>5. ASSUME NEW c \in Callers
      PROVE  Sound(caller[c], c, L, tasks, told)
  <2>1. Sound(caller[c], c, locks, tasks, told)
    BY DEF IInv, CallsOK
  <2>2. Guarded(caller[c], c, L)
    BY <1>1, <1>2, <1>4, <2>1 DEF Sound, Guarded
  <2> QED  BY <2>1, <2>2 DEF Sound
<1>6. CallsOK(caller, L, tasks, told)
  BY <1>5 DEF IInv, CallsOK
<1> QED  BY <1>1, <1>3, <1>6, EvidenceStays DEF IInv

----------------------------------------------------------------------------
(* The theorems. *)

LEMMA InitIInv == Init => IInv
<1> SUFFICES ASSUME Init PROVE IInv
  OBVIOUS
<1>1. EvidenceOK
  <2>1. ledger \in [Packages -> {<< >>} \cup {<<f>> : f \in Findings}]
    BY DEF Init
  <2>2. ASSUME NEW v \in {<< >>} \cup {<<f>> : f \in Findings}
        PROVE  v \in Seq(Findings) /\ Len(v) \in Nat
    <3>1. CASE v = << >>  BY <3>1
    <3>2. ASSUME NEW f \in Findings, v = <<f>> PROVE v \in Seq(Findings) /\ Len(v) \in Nat
      BY <3>2
    <3> QED  BY <3>1, <3>2
  <2>3. \A p \in Packages : ledger[p] \in Seq(Findings) /\ Len(ledger[p]) \in Nat
    BY <2>1, <2>2
  <2>4. LedgerOK(ledger)
    BY <2>1, <2>3 DEF LedgerOK
  <2> QED  BY <2>3, <2>4 DEF Init, EvidenceOK
<1>2. TasksOK(tasks) /\ OneOf(tasks) /\ LocksOK(locks) /\ ToldOK(told, tasks)
  BY DEF Init, TasksOK, OneOf, LocksOK, ToldOK, IsSeq
<1>3. Idle.phase = "idle"
  BY DEF Idle
<1>4. CallsOK(caller, locks, tasks, told)
  BY <1>3, IdleRequest, IdleSound DEF Init, CallsOK, Apart
<1> QED  BY <1>1, <1>2, <1>4 DEF Init, IInv

LEMMA NextIInv == IInv /\ [Next]_vars => IInv'
<1> SUFFICES ASSUME IInv, [Next]_vars PROVE IInv'
  OBVIOUS
<1>1. ASSUME NEW c \in Callers,
             \/ \E ps \in SUBSET Packages \ {{}}, g \in Configs : RequestPreparation(c, ps, g)
             \/ \E s \in Existing : \E ps \in SUBSET DOMAIN tasks[s].items \ {{}}, g \in Configs :
                  RequestScoring(c, s, ps, g)
      PROVE  IInv'
  BY <1>1, RequestStep
<1>2. ASSUME NEW c \in Callers, NEW p \in Packages, Check(c, p) PROVE IInv'
  BY <1>2, CheckStep
<1>3. ASSUME NEW c \in Callers, Lock(c) PROVE IInv'
  BY <1>3, LockStep
<1>4. ASSUME NEW c \in Callers, LockConflict(c) \/ Scan(c) PROVE IInv'
  BY <1>4, ScanStep
<1>5. ASSUME NEW c \in Callers, Show(c) PROVE IInv'
  BY <1>5, ShowStep
<1>6. ASSUME NEW c \in Callers, Commit(c) PROVE IInv'
  BY <1>6, CommitStep
<1>7. ASSUME NEW c \in Callers, RollBack(c) PROVE IInv'
  BY <1>7, RollBackStep
<1>8. ASSUME NEW c \in Callers, Leave(c) PROVE IInv'
  BY <1>8, LeaveStep
<1>9. ASSUME NEW p \in Packages, NEW f \in Findings, WriteRecord(p, f) PROVE IInv'
  BY <1>9, WriteRecordStep
<1>14. CASE WriteIndex \/ UndoRecord \/ RebuildIndex
  BY <1>14, RegistrationStep
<1>10. ASSUME NEW t \in Existing, NEW failed \in SUBSET Packages, Settle(t, failed) PROVE IInv'
  BY <1>10, SettleStep
<1>11. CASE Crash
  BY <1>11, CrashStep
<1>12. ASSUME NEW k \in DOMAIN locks, ClearLock(k) PROVE IInv'
  BY <1>12, ClearLockStep
<1>13. CASE UNCHANGED vars
  BY <1>13, EvidenceStays DEF vars, evidence, IInv
<1> QED
  BY <1>1, <1>2, <1>3, <1>4, <1>5, <1>6, <1>7, <1>8, <1>9, <1>10, <1>11, <1>12, <1>13, <1>14 DEF Next

\* The invariant above holds of every behaviour, for any number of packages, calls
\* and crashes.
THEOREM Invariance == Spec => []IInv
  BY InitIInv, NextIInv, PTL DEF Spec

\* Every variable keeps its type.
THEOREM TypeCorrect == Spec => []TypeOK
<1>1. IInv => TypeOK
  <2> SUFFICES ASSUME IInv PROVE TypeOK
    OBVIOUS
  <2>1. told \subseteq Nat
    BY DEF IInv, ToldOK, TasksOK, IsSeq
  <2>2. \A t \in Existing : IsTask(tasks[t])
    BY DEF IInv, TasksOK, Existing
  <2>3. DOMAIN caller = Callers /\ \A c \in Callers : IsCall(caller[c])
    BY DEF IInv, CallsOK, Request
  <2> QED  BY <2>1, <2>2, <2>3 DEF IInv, TypeOK, EvidenceOK, LedgerOK, TasksOK, LocksOK, IsSeq
<1> QED  BY <1>1, Invariance, PTL

\* At most one task carries the key of a scoring request, however many ask for it
\* at once, whatever fails and wherever the process ends.
THEOREM One == Spec => []OneTask
<1>1. IInv => OneTask
  BY DEF IInv, OneOf, OneTask, Existing
<1> QED  BY <1>1, Invariance, PTL

\* A scoring task a caller has been answered with is never taken back.
THEOREM Told == Spec => []ToldStays
<1>1. IInv => ToldStays
  BY DEF IInv, ToldOK, ToldStays, Existing
<1> QED  BY <1>1, Invariance, PTL
----------------------------------------------------------------------------
(* What the creator has checked stays so: a second invariant, with the ledger  *)
(* B and the tasks T.                                                          *)

\* A task a scoring request may name as its source.
IsSource(s, T) ==
  s \in DOMAIN T /\ T[s] # None /\ T[s].kind = "prepare" /\ T[s].settled

\* Item i of package p has been checked: it is completed in its source s, and the
\* validation it names has passed and leads to its level.
Backed(i, p, s, T, B) ==
  /\ p \in DOMAIN T[s].items
  /\ T[s].items[p].status = "completed" /\ T[s].items[p].validation = i.validation
  /\ i.validation \in DOMAIN B[p]
  /\ B[p][i.validation] = i.level
  /\ i.level # "manual_only"

\* What a scoring call has still to check is as its source has it; the rest is backed.
Asked(r, T, B) ==
  r.kind = "score" /\ r.phase # "idle" =>
    /\ IsSource(r.source, T)
    /\ \A p \in r.todo : p \in DOMAIN T[r.source].items /\ r.seen[p] = T[r.source].items[p]
    /\ \A p \in DOMAIN r.seen \ r.todo : Backed(r.seen[p], p, r.source, T, B)
    /\ r.phase # "checking" => r.todo = {}

\* A task its call may yet take back is not ended.
Open(r, T) == r.phase = "shown" => ~T[r.shown].logged

Scored(T, B) ==
  \A t \in DOMAIN T : T[t] # None /\ T[t].kind = "score" =>
    /\ IsSource(T[t].source, T)
    /\ \A p \in DOMAIN T[t].items : Backed(T[t].items[p], p, T[t].source, T, B)

SettledLogged(T) == \A t \in DOMAIN T : T[t] # None /\ T[t].settled => T[t].logged

BackedInv ==
  /\ SettledLogged(tasks) /\ Scored(tasks, ledger)
  /\ \A c \in Callers : Asked(caller[c], tasks, ledger) /\ Open(caller[c], tasks)

\* Validations and sources never change.
Grows(B, C) ==
  \A p \in Packages : \A n \in DOMAIN B[p] : n \in DOMAIN C[p] /\ C[p][n] = B[p][n]
Holds(T, U) == \A s : IsSource(s, T) => s \in DOMAIN U /\ U[s] = T[s]

LEMMA BackedStays ==
  ASSUME NEW T, NEW U, NEW B, NEW C, Grows(B, C), Holds(T, U)
  PROVE  /\ \A s : IsSource(s, T) => IsSource(s, U)
         /\ \A i, p, s : p \in Packages /\ IsSource(s, T) /\ Backed(i, p, s, T, B)
              => Backed(i, p, s, U, C)
         /\ \A r : Request(r) /\ Asked(r, T, B) => Asked(r, U, C)
<1>1. \A s : IsSource(s, T) => IsSource(s, U)
  BY DEF Holds, IsSource
<1>2. \A i, p, s : p \in Packages /\ IsSource(s, T) /\ Backed(i, p, s, T, B)
        => Backed(i, p, s, U, C)
  BY DEF Holds, Backed, Grows
<1>3. ASSUME NEW r, Request(r), Asked(r, T, B), r.kind = "score", r.phase # "idle"
      PROVE  /\ IsSource(r.source, U)
             /\ \A p \in r.todo : p \in DOMAIN U[r.source].items
                                  /\ r.seen[p] = U[r.source].items[p]
             /\ \A p \in DOMAIN r.seen \ r.todo : Backed(r.seen[p], p, r.source, U, C)
             /\ r.phase # "checking" => r.todo = {}
  <2>1. IsSource(r.source, T) /\ U[r.source] = T[r.source]
    BY <1>3 DEF Asked, Holds
  <2>2. DOMAIN r.seen \subseteq Packages
    BY <1>3 DEF Request, IsCall, HoldsItems
  <2>3. \A p \in DOMAIN r.seen \ r.todo : Backed(r.seen[p], p, r.source, U, C)
    BY <1>2, <1>3, <2>1, <2>2 DEF Asked
  <2> QED  BY <1>1, <1>3, <2>1, <2>3 DEF Asked
<1>4. \A r : Request(r) /\ Asked(r, T, B) => Asked(r, U, C)
  BY <1>3 DEF Asked
<1> QED  BY <1>1, <1>2, <1>4

LEMMA ScoredStays ==
  ASSUME NEW T, NEW U, NEW B, NEW C, Grows(B, C), Holds(T, U), TasksOK(T),
         Scored(T, B), NEW t \in DOMAIN T, T[t] # None, T[t].kind = "score",
         NEW v, v.kind = "score", v.source = T[t].source, v.items = T[t].items
  PROVE  /\ IsSource(v.source, U)
         /\ \A p \in DOMAIN v.items : Backed(v.items[p], p, v.source, U, C)
<1>1. IsSource(T[t].source, T) /\ DOMAIN T[t].items \subseteq Packages
  BY DEF Scored, TasksOK, IsTask, HoldsItems
<1>2. \A p \in DOMAIN T[t].items : Backed(T[t].items[p], p, T[t].source, T, B)
  BY DEF Scored
<1> QED  BY <1>1, <1>2, BackedStays

\* A call goes on; the tasks and the ledger stay.
LEMMA BackedCaller ==
  ASSUME IInv, BackedInv, NEW c \in Callers, NEW STATE r,
         Asked(r, tasks, ledger), r.phase # "shown",
         caller' = [caller EXCEPT ![c] = r], UNCHANGED <<ledger, tasks>>
  PROVE  BackedInv'
<1>1. DOMAIN caller = Callers  BY DEF IInv, CallsOK
<1>2. caller'[c] = r /\ \A d \in Callers : d # c => caller'[d] = caller[d]
  BY <1>1
<1>3. Open(r, tasks)  BY DEF Open
<1>4. \A d \in Callers : Asked(caller'[d], tasks, ledger) /\ Open(caller'[d], tasks)
  BY <1>2, <1>3 DEF BackedInv
<1> QED  BY <1>4 DEF BackedInv

LEMMA IdleAsked == \A T, B : Asked(Idle, T, B)
  BY DEF Asked, Idle

\* A call that keeps its request and has checked all of it.
LEMMA SameAsked ==
  ASSUME NEW q, NEW r, NEW T, NEW B, Asked(q, T, B),
         q.phase # "idle", q.phase # "checking",
         r.kind = q.kind, r.source = q.source, r.seen = q.seen, r.todo = q.todo
  PROVE  Asked(r, T, B)
<1>1. \A i, p : Backed(i, p, q.source, T, B) => Backed(i, p, r.source, T, B)
  OBVIOUS
<1> QED  BY <1>1 DEF Asked

LEMMA BackedRequest ==
  ASSUME IInv, BackedInv, NEW c \in Callers,
         \/ \E ps \in SUBSET Packages \ {{}}, g \in Configs : RequestPreparation(c, ps, g)
         \/ \E s \in Existing : \E ps \in SUBSET DOMAIN tasks[s].items \ {{}}, g \in Configs :
              RequestScoring(c, s, ps, g)
  PROVE  BackedInv'
<1>1. ASSUME NEW ps \in SUBSET Packages, NEW g \in Configs, RequestPreparation(c, ps, g)
      PROVE  BackedInv'
  <2> DEFINE r == [Idle EXCEPT !.phase = "checking", !.kind = "prepare", !.config = g,
                          !.seen = [p \in ps |-> Named(record[p])], !.todo = ps]
  <2>1. r.kind = "prepare" /\ r.phase = "checking"  BY DEF Idle
  <2>2. caller' = [caller EXCEPT ![c] = r] /\ UNCHANGED <<ledger, tasks>>
    BY <1>1 DEF RequestPreparation, GoTo, evidence
  <2> HIDE DEF r
  <2>3. Asked(r, tasks, ledger)  BY <2>1 DEF Asked
  <2> QED  BY <2>1, <2>2, <2>3, BackedCaller
<1>2. ASSUME NEW s \in Existing, NEW ps \in SUBSET DOMAIN tasks[s].items, NEW g \in Configs,
             RequestScoring(c, s, ps, g)
      PROVE  BackedInv'
  <2> DEFINE r == [Idle EXCEPT !.phase = "checking", !.kind = "score", !.source = s, !.config = g,
                          !.seen = [p \in ps |-> tasks[s].items[p]], !.todo = ps]
  <2>1. /\ r.source = s /\ r.phase = "checking" /\ r.todo = ps
        /\ DOMAIN r.seen = ps /\ \A p \in ps : r.seen[p] = tasks[s].items[p]
    BY DEF Idle
  <2>2. caller' = [caller EXCEPT ![c] = r] /\ UNCHANGED <<ledger, tasks>>
    BY <1>2 DEF RequestScoring, GoTo, evidence
  <2> HIDE DEF r
  <2>3. IsSource(s, tasks)
    BY <1>2 DEF RequestScoring, IsSource, Existing
  <2>4. Asked(r, tasks, ledger)
    BY <2>1, <2>3 DEF Asked
  <2> QED  BY <2>1, <2>2, <2>4, BackedCaller
<1> QED  BY <1>1, <1>2

LEMMA BackedCheck ==
  ASSUME IInv, BackedInv, NEW c \in Callers, NEW p \in Packages, Check(c, p)
  PROVE  BackedInv'
<1> DEFINE q == caller[c]
           i == NewItem(c, p)
           next == IF q.todo # {p} THEN q.phase
                   ELSE IF Kind(c) = "score" THEN "locking" ELSE "scanning"
           r == [q EXCEPT !.seen[p] = i, !.todo = @ \ {p}, !.phase = next]
<1>1. Request(q) /\ q.phase = "checking" /\ p \in q.todo /\ p \in DOMAIN q.seen
      /\ Asked(q, tasks, ledger)
  BY DEF IInv, CallsOK, Check, At, Request, BackedInv
<1>2. UNCHANGED <<ledger, tasks>>
  BY DEF Check, evidence
<1>3. CASE Acceptable(c, p)
  <2>1. caller' = [caller EXCEPT ![c] = r]
    BY <1>3 DEF Check, GoTo, At
  <2>2. next \in {"checking", "locking", "scanning"} /\ (next # "checking" => q.todo = {p})
    BY <1>1
  <2>3. i.validation = q.seen[p].validation /\ (q.kind = "score" => i.level = q.seen[p].level)
    BY DEF NewItem, Kind
  <2> HIDE DEF i, next
  <2>4. /\ r.phase = next /\ r.kind = q.kind /\ r.source = q.source
        /\ DOMAIN r.seen = DOMAIN q.seen /\ r.seen[p] = i
        /\ \A x \in DOMAIN q.seen : x # p => r.seen[x] = q.seen[x]
        /\ r.todo = q.todo \ {p}
    BY <1>1 DEF Request, IsCall
  <2> HIDE DEF r
  <2>5. ASSUME r.kind = "score"
        PROVE  Backed(i, p, q.source, tasks, ledger)
    <3>1. q.seen[p] = tasks[q.source].items[p] /\ p \in DOMAIN tasks[q.source].items
      BY <1>1, <2>4, <2>5 DEF Asked
    <3>2. Eligible(p, q.seen[p])
      BY <1>3, <2>4, <2>5 DEF Acceptable, Kind
    <3>3. q.seen[p].validation \in DOMAIN ledger[p]
      <4>1. /\ ledger[p] \in Seq(Findings) /\ record[p] \in Nat
            /\ record[p] <= Len(ledger[p])
        BY DEF IInv, EvidenceOK, LedgerOK
      <4>2. record[p] # 0 /\ q.seen[p].validation = record[p]
        BY <3>2 DEF Eligible, EvidenceIdentity, Recorded
      <4>3. record[p] \in 1 .. Len(ledger[p]) /\ DOMAIN ledger[p] = 1 .. Len(ledger[p])
        BY <4>1, <4>2
      <4> QED  BY <4>2, <4>3
    <3> QED
      BY <2>3, <2>4, <2>5, <3>1, <3>2, <3>3
         DEF Backed, Eligible, EvidenceIdentity, ValidationBinding, Verdict
  <2>6. Asked(r, tasks, ledger)
    <3> SUFFICES ASSUME r.kind = "score", r.phase # "idle"
                 PROVE  /\ IsSource(r.source, tasks)
                        /\ \A x \in r.todo : /\ x \in DOMAIN tasks[r.source].items
                                             /\ r.seen[x] = tasks[r.source].items[x]
                        /\ \A x \in DOMAIN r.seen \ r.todo :
                             Backed(r.seen[x], x, r.source, tasks, ledger)
                        /\ r.phase # "checking" => r.todo = {}
      BY DEF Asked
    <3>1. IsSource(r.source, tasks)
      BY <1>1, <2>4 DEF Asked
    <3>2. ASSUME NEW x \in r.todo
          PROVE  x \in DOMAIN tasks[r.source].items /\ r.seen[x] = tasks[r.source].items[x]
      BY <1>1, <2>4 DEF Asked, Request
    <3>3. ASSUME NEW x \in DOMAIN r.seen \ r.todo
          PROVE  Backed(r.seen[x], x, r.source, tasks, ledger)
      <4>1. CASE x = p  BY <4>1, <2>4, <2>5
      <4>2. CASE x # p
        <5>1. x \in DOMAIN q.seen \ q.todo /\ r.seen[x] = q.seen[x]
          BY <3>3, <4>2, <2>4
        <5> QED  BY <1>1, <2>4, <5>1 DEF Asked
      <4> QED  BY <4>1, <4>2
    <3>4. r.phase # "checking" => r.todo = {}
      BY <2>2, <2>4
    <3> QED  BY <3>1, <3>2, <3>3, <3>4
  <2> QED  BY <1>2, <2>1, <2>2, <2>4, <2>6, BackedCaller
<1>4. CASE ~Acceptable(c, p)
  <2>1. caller' = [caller EXCEPT ![c] = Idle]
    BY <1>4 DEF Check, GoTo
  <2>2. Idle.phase = "idle"  BY DEF Idle
  <2> QED  BY <1>2, <2>1, <2>2, IdleAsked, BackedCaller
<1> QED  BY <1>3, <1>4

LEMMA BackedMove ==
  ASSUME IInv, BackedInv, NEW c \in Callers,
         LockConflict(c) \/ Lock(c) \/ Scan(c) \/ Leave(c)
  PROVE  BackedInv'
<1> DEFINE q == caller[c]
<1>1. Request(q) /\ Asked(q, tasks, ledger)
      /\ UNCHANGED <<ledger, tasks>>
  BY DEF IInv, CallsOK, BackedInv, LockConflict, Lock, Scan, Leave, evidence
<1>2. CASE caller' = [caller EXCEPT ![c] = Idle]
  <2>1. Idle.phase = "idle"  BY DEF Idle
  <2> QED  BY <1>1, <1>2, <2>1, IdleAsked, BackedCaller
<1>3. ASSUME NEW x \in {"scanning", "writing"}, q.phase \in {"locking", "scanning"},
             caller' = [caller EXCEPT ![c] = ToPhase(q, x)]
      PROVE  BackedInv'
  <2> DEFINE r == ToPhase(q, x)
  <2>1. /\ r.phase = x /\ r.kind = q.kind /\ r.source = q.source
        /\ r.seen = q.seen /\ r.todo = q.todo
    BY <1>1 DEF ToPhase, Request, IsCall
  <2> HIDE DEF r
  <2>2. Asked(r, tasks, ledger)
    BY <1>1, <1>3, <2>1, SameAsked
  <2> QED  BY <1>1, <1>3, <2>1, <2>2, BackedCaller DEF r
<1>4. ASSUME NEW t, q.phase = "scanning", caller' = [caller EXCEPT ![c] = Answering(q, t)]
      PROVE  BackedInv'
  <2> DEFINE r == Answering(q, t)
  <2>1. /\ r.phase = "leaving" /\ r.kind = q.kind /\ r.source = q.source
        /\ r.seen = q.seen /\ r.todo = q.todo
    BY <1>1 DEF Answering, Request, IsCall
  <2> HIDE DEF r
  <2>2. Asked(r, tasks, ledger)
    BY <1>1, <1>4, <2>1, SameAsked
  <2> QED  BY <1>1, <1>4, <2>1, <2>2, BackedCaller DEF r
<1>5. CASE LockConflict(c) \/ Leave(c)
  BY <1>2, <1>5 DEF LockConflict, Leave, GoTo
<1>6. CASE Lock(c)
  BY <1>3, <1>6 DEF Lock, At, GoTo, ToPhase
<1>7. CASE Scan(c)
  <2>1. CASE Hits(Key(c)) # {}
    <3>1. PICK t \in Hits(Key(c)) : Answered(c, t)  BY <1>7, <2>1 DEF Scan
    <3> QED  BY <1>4, <1>7, <3>1 DEF Scan, At, Answered, GoTo, Answering
  <2>2. CASE Hits(Key(c)) = {}
    BY <1>3, <1>7, <2>2 DEF Scan, At, GoTo, ToPhase
  <2> QED  BY <2>1, <2>2
<1> QED  BY <1>5, <1>6, <1>7

LEMMA BackedShow ==
  ASSUME IInv, BackedInv, NEW c \in Callers, Show(c)
  PROVE  BackedInv'
<1> DEFINE q == caller[c]
           n == Len(tasks) + 1
           v == Task(c)
           U == Append(tasks, v)
           r == Showing(q, n)
<1>1. /\ q.phase = "writing" /\ tasks' = U /\ caller' = [caller EXCEPT ![c] = r]
      /\ UNCHANGED ledger
  BY DEF Show, At, GoTo, Showing, evidence
<1>2. Request(q) /\ Asked(q, tasks, ledger) /\ DOMAIN caller = Callers
  BY DEF IInv, CallsOK, BackedInv
<1>3. /\ v.kind = q.kind /\ v.items = q.seen /\ v.source = q.source
      /\ ~v.settled /\ ~v.logged
  BY DEF Task, Kind
<1> HIDE DEF v
<1>4. /\ DOMAIN U = DOMAIN tasks \cup {n} /\ n \notin DOMAIN tasks /\ U[n] = v
      /\ \A t \in DOMAIN tasks : U[t] = tasks[t]
  BY AppendSeq DEF IInv, TasksOK
<1> HIDE DEF U, n
<1>5. /\ r.phase = "shown" /\ r.shown = n /\ r.kind = q.kind /\ r.source = q.source
      /\ r.seen = q.seen /\ r.todo = q.todo
  BY <1>2 DEF Showing, Request, IsCall
<1>6. caller'[c] = r /\ \A d \in Callers : d # c => caller'[d] = caller[d]
  BY <1>1, <1>2
<1> HIDE DEF r
<1>7. Grows(ledger, ledger) /\ Holds(tasks, U)
  BY <1>4 DEF Grows, Holds, IsSource
<1>8. SettledLogged(U)
  BY <1>3, <1>4 DEF BackedInv, SettledLogged
<1>9. Scored(U, ledger)
  <2> SUFFICES ASSUME NEW t \in DOMAIN U, U[t] # None, U[t].kind = "score"
               PROVE  /\ IsSource(U[t].source, U)
                      /\ \A p \in DOMAIN U[t].items :
                           Backed(U[t].items[p], p, U[t].source, U, ledger)
    BY DEF Scored
  <2>1. CASE t = n
    <3>1. /\ IsSource(q.source, tasks) /\ DOMAIN q.seen \subseteq Packages
          /\ \A p \in DOMAIN q.seen : Backed(q.seen[p], p, q.source, tasks, ledger)
      BY <1>1, <1>2, <1>3, <1>4, <2>1 DEF Asked, Request, IsCall, HoldsItems
    <3>2. \A p \in DOMAIN q.seen : Backed(q.seen[p], p, q.source, U, ledger)
      BY <1>7, <3>1, BackedStays
    <3>3. IsSource(q.source, U)
      BY <1>7, <3>1, BackedStays
    <3> QED  BY <1>3, <1>4, <2>1, <3>2, <3>3
  <2>2. CASE t \in DOMAIN tasks
    <3>1. U[t] = tasks[t]  BY <1>4, <2>2
    <3>2. TasksOK(tasks) /\ Scored(tasks, ledger)  BY DEF IInv, BackedInv
    <3> QED  BY <1>7, <2>2, <3>1, <3>2, ScoredStays
  <2> QED  BY <1>4, <2>1, <2>2
<1>10. Asked(r, U, ledger)
  <2>1. Asked(q, U, ledger)  BY <1>2, <1>7, BackedStays
  <2> QED  BY <1>1, <1>5, <2>1, SameAsked
<1>11. Open(r, U)
  BY <1>3, <1>4, <1>5 DEF Open
<1>12. ASSUME NEW d \in Callers, d # c
       PROVE  Asked(caller[d], U, ledger) /\ Open(caller[d], U)
  <2>1. Request(caller[d]) /\ Asked(caller[d], tasks, ledger)
        /\ Open(caller[d], tasks) /\ Own(caller[d], tasks, told)
    BY DEF IInv, CallsOK, BackedInv, Sound
  <2>2. Asked(caller[d], U, ledger)  BY <1>7, <2>1, BackedStays
  <2>3. Open(caller[d], U)  BY <1>4, <2>1 DEF Open, Own
  <2> QED  BY <2>2, <2>3
<1> QED  BY <1>1, <1>6, <1>8, <1>9, <1>10, <1>11, <1>12 DEF BackedInv

\* A task that is no source changes, or is taken back.
LEMMA BackedChange ==
  ASSUME IInv, BackedInv, NEW n \in DOMAIN tasks, tasks[n] # None, ~tasks[n].settled, NEW v,
         v # None => v.kind = tasks[n].kind /\ v.source = tasks[n].source /\ (v.settled => v.logged)
                     /\ (v.kind = "score" => v.items = tasks[n].items)
  PROVE  LET U == [tasks EXCEPT ![n] = v]
         IN  /\ SettledLogged(U) /\ Scored(U, ledger)
             /\ \A c \in Callers : Asked(caller[c], U, ledger)
             /\ U[n] = v /\ \A t \in DOMAIN tasks : t # n => U[t] = tasks[t]
<1> DEFINE U == [tasks EXCEPT ![n] = v]
<1>1. /\ DOMAIN U = DOMAIN tasks /\ U[n] = v
      /\ \A t \in DOMAIN tasks : t # n => U[t] = tasks[t]
  OBVIOUS
<1> HIDE DEF U
<1>2. Grows(ledger, ledger) /\ Holds(tasks, U)
  BY <1>1 DEF Grows, Holds, IsSource
<1>3. SettledLogged(U)
  BY <1>1 DEF BackedInv, SettledLogged
<1>4. Scored(U, ledger)
  <2> SUFFICES ASSUME NEW t \in DOMAIN U, U[t] # None, U[t].kind = "score"
               PROVE  /\ IsSource(U[t].source, U)
                      /\ \A p \in DOMAIN U[t].items :
                           Backed(U[t].items[p], p, U[t].source, U, ledger)
    BY DEF Scored
  <2>1. /\ t \in DOMAIN tasks /\ tasks[t] # None /\ tasks[t].kind = "score"
        /\ U[t].source = tasks[t].source /\ U[t].items = tasks[t].items
    <3>1. CASE t = n  BY <1>1, <3>1
    <3>2. CASE t # n  BY <1>1, <3>2
    <3> QED  BY <3>1, <3>2
  <2>2. TasksOK(tasks) /\ Scored(tasks, ledger)  BY DEF IInv, BackedInv
  <2> QED  BY <1>2, <2>1, <2>2, ScoredStays
<1>5. \A c \in Callers : Asked(caller[c], U, ledger)
  <2>1. \A c \in Callers : Request(caller[c]) /\ Asked(caller[c], tasks, ledger)
    BY DEF IInv, CallsOK, BackedInv
  <2> QED  BY <1>2, <2>1, BackedStays
<1> QED  BY <1>1, <1>3, <1>4, <1>5 DEF U

LEMMA BackedAnswer ==
  ASSUME IInv, BackedInv, NEW c \in Callers, Commit(c) \/ RollBack(c)
  PROVE  BackedInv'
<1> DEFINE q == caller[c]
           n == q.shown
<1>1. q.phase = "shown" /\ n \in DOMAIN tasks /\ tasks[n] # None
  BY DEF Commit, RollBack, At, IInv, CallsOK, Sound, Own
<1>2. IsTask(tasks[n]) /\ ~tasks[n].logged /\ ~tasks[n].settled
  BY <1>1 DEF IInv, TasksOK, BackedInv, Open, SettledLogged
<1>3. PICK v, t : /\ tasks' = [tasks EXCEPT ![n] = v]
                  /\ caller' = [caller EXCEPT ![c] = Answering(q, t)]
                  /\ v # None => /\ v.kind = tasks[n].kind /\ v.source = tasks[n].source
                                 /\ ~v.settled /\ v.items = tasks[n].items
  <2>1. CASE Commit(c)
    <3> DEFINE w == [tasks[n] EXCEPT !.logged = TRUE]
    <3>1. /\ w.kind = tasks[n].kind /\ w.source = tasks[n].source
          /\ ~w.settled /\ w.items = tasks[n].items
      BY <1>2 DEF IsTask
    <3>2. tasks' = [tasks EXCEPT ![n] = w] /\ caller' = [caller EXCEPT ![c] = Answering(q, n)]
      BY <2>1 DEF Commit, Answered, GoTo, Answering
    <3> QED  BY <3>1, <3>2
  <2>2. CASE RollBack(c)
    BY <2>2 DEF RollBack, Answered, GoTo, Answering
  <2> QED  BY <2>1, <2>2
<1> DEFINE U == [tasks EXCEPT ![n] = v]
           r == Answering(q, t)
<1>4. UNCHANGED ledger /\ DOMAIN caller = Callers /\ Request(q)
  BY DEF Commit, RollBack, IInv, CallsOK, evidence
<1>5. /\ SettledLogged(U) /\ Scored(U, ledger)
      /\ \A d \in Callers : Asked(caller[d], U, ledger)
      /\ \A s \in DOMAIN tasks : s # n => U[s] = tasks[s]
  BY <1>1, <1>2, <1>3, BackedChange
<1>6. /\ r.phase = "leaving" /\ r.kind = q.kind /\ r.source = q.source
      /\ r.seen = q.seen /\ r.todo = q.todo
  BY <1>4 DEF Answering, Request, IsCall
<1>7. caller'[c] = r /\ \A d \in Callers : d # c => caller'[d] = caller[d]
  BY <1>3, <1>4
<1> HIDE DEF r, U
<1>8. Asked(r, U, ledger) /\ Open(r, U)
  BY <1>1, <1>5, <1>6, SameAsked DEF Open
<1>9. ASSUME NEW d \in Callers, d # c PROVE Open(caller[d], U)
  <2>1. caller[d].phase = "shown" => caller[d].shown # n /\ caller[d].shown \in DOMAIN tasks
    BY <1>1, <1>9 DEF IInv, CallsOK, Apart, Sound, Own
  <2> QED  BY <1>5, <2>1 DEF BackedInv, Open
<1>10. \A d \in Callers : Asked(caller'[d], U, ledger) /\ Open(caller'[d], U)
  BY <1>5, <1>7, <1>8, <1>9
<1> QED  BY <1>3, <1>4, <1>5, <1>10 DEF BackedInv, U

LEMMA BackedSettle ==
  ASSUME IInv, BackedInv, NEW t \in Existing, NEW failed \in SUBSET Packages, Settle(t, failed)
  PROVE  BackedInv'
<1> DEFINE v == [tasks[t] EXCEPT !.settled = TRUE, !.items = Prepared(tasks[t].items, failed)]
           U == [tasks EXCEPT ![t] = v]
<1>1. /\ t \in DOMAIN tasks /\ tasks[t] # None /\ IsTask(tasks[t])
      /\ tasks[t].kind = "prepare" /\ tasks[t].logged /\ ~tasks[t].settled
  BY DEF Existing, IInv, TasksOK, Settle
<1>2. tasks' = U /\ UNCHANGED <<ledger, caller>>
  BY <1>1 DEF Settle, IsTask, evidence
<1>3. v.kind = tasks[t].kind /\ v.source = tasks[t].source /\ v.logged
  BY <1>1 DEF IsTask
<1> HIDE DEF v
<1>4. v.kind # "score"  BY <1>1, <1>3
<1>5. /\ SettledLogged(U) /\ Scored(U, ledger)
      /\ \A c \in Callers : Asked(caller[c], U, ledger)
      /\ U[t] = v /\ \A s \in DOMAIN tasks : s # t => U[s] = tasks[s]
  BY <1>1, <1>3, <1>4, BackedChange
<1>6. ASSUME NEW c \in Callers PROVE Open(caller[c], U)
  <2>1. caller[c].phase = "shown" => caller[c].shown \in DOMAIN tasks /\ caller[c].shown # t
    BY <1>1 DEF IInv, CallsOK, Sound, Own, BackedInv, Open
  <2> QED  BY <1>5, <2>1 DEF BackedInv, Open
<1> HIDE DEF U
<1> QED  BY <1>2, <1>5, <1>6 DEF BackedInv

LEMMA BackedWriteRecord ==
  ASSUME IInv, BackedInv, NEW p \in Packages, NEW f \in Findings, WriteRecord(p, f)
  PROVE  BackedInv'
<1>1. ledger' = [ledger EXCEPT ![p] = Append(@, f)] /\ UNCHANGED <<tasks, caller>>
  BY DEF WriteRecord
<1>2. Grows(ledger, ledger') /\ Holds(tasks, tasks)
  <2>1. ASSUME NEW x \in Packages, NEW n \in DOMAIN ledger[x]
        PROVE  n \in DOMAIN ledger'[x] /\ ledger'[x][n] = ledger[x][n]
    <3>1. ledger[x] \in Seq(Findings) /\ DOMAIN ledger = Packages
      BY DEF IInv, EvidenceOK, LedgerOK
    <3>2. CASE x = p
      <4>1. ledger'[x] = Append(ledger[x], f)  BY <1>1, <3>1, <3>2
      <4>2. n \in 1 .. Len(ledger[x])  BY <2>1, <3>1
      <4> QED  BY <3>1, <4>1, <4>2
    <3>3. CASE x # p  BY <1>1, <2>1, <3>1, <3>3
    <3> QED  BY <3>2, <3>3
  <2> QED  BY <2>1 DEF Grows, Holds, IsSource
<1>3. Scored(tasks, ledger')
  <2>1. TasksOK(tasks) /\ Scored(tasks, ledger)  BY DEF IInv, BackedInv
  <2> QED  BY <1>2, <2>1, ScoredStays DEF Scored
<1>4. \A c \in Callers : Asked(caller[c], tasks, ledger')
  <2>1. \A c \in Callers : Request(caller[c]) /\ Asked(caller[c], tasks, ledger)
    BY DEF IInv, CallsOK, BackedInv
  <2> QED  BY <1>2, <2>1, BackedStays
<1> QED  BY <1>1, <1>3, <1>4 DEF BackedInv

LEMMA InitBacked == Init => BackedInv
<1> SUFFICES ASSUME Init PROVE BackedInv
  OBVIOUS
<1>1. Idle.phase = "idle" /\ \A c \in Callers : caller[c] = Idle
  BY DEF Init, Idle
<1>2. SettledLogged(tasks) /\ Scored(tasks, ledger)
  BY DEF Init, SettledLogged, Scored
<1>3. \A c \in Callers : Asked(caller[c], tasks, ledger) /\ Open(caller[c], tasks)
  BY <1>1, IdleAsked DEF Open
<1> QED  BY <1>2, <1>3 DEF BackedInv

LEMMA NextBacked == IInv /\ BackedInv /\ [Next]_vars => BackedInv'
<1> SUFFICES ASSUME IInv, BackedInv, [Next]_vars PROVE BackedInv'
  OBVIOUS
<1>1. ASSUME NEW c \in Callers,
             \/ \E ps \in SUBSET Packages \ {{}}, g \in Configs : RequestPreparation(c, ps, g)
             \/ \E s \in Existing : \E ps \in SUBSET DOMAIN tasks[s].items \ {{}}, g \in Configs :
                  RequestScoring(c, s, ps, g)
      PROVE  BackedInv'
  BY <1>1, BackedRequest
<1>2. ASSUME NEW c \in Callers, NEW p \in Packages, Check(c, p) PROVE BackedInv'
  BY <1>2, BackedCheck
<1>3. ASSUME NEW c \in Callers, LockConflict(c) \/ Lock(c) \/ Scan(c) \/ Leave(c)
      PROVE  BackedInv'
  BY <1>3, BackedMove
<1>4. ASSUME NEW c \in Callers, Show(c) PROVE BackedInv'
  BY <1>4, BackedShow
<1>5. ASSUME NEW c \in Callers, Commit(c) \/ RollBack(c) PROVE BackedInv'
  BY <1>5, BackedAnswer
<1>6. ASSUME NEW p \in Packages, NEW f \in Findings, WriteRecord(p, f) PROVE BackedInv'
  BY <1>6, BackedWriteRecord
<1>11. CASE WriteIndex \/ UndoRecord \/ RebuildIndex
  BY <1>11 DEF WriteIndex, UndoRecord, RebuildIndex, BackedInv
<1>7. ASSUME NEW t \in Existing, NEW failed \in SUBSET Packages, Settle(t, failed)
      PROVE  BackedInv'
  BY <1>7, BackedSettle
<1>8. CASE Crash
  <2>1. UNCHANGED <<ledger, tasks>> /\ \A c \in Callers : caller'[c] = Idle
    BY <1>8 DEF Crash
  <2>2. Idle.phase = "idle"  BY DEF Idle
  <2>3. \A c \in Callers : Asked(caller'[c], tasks, ledger) /\ Open(caller'[c], tasks)
    BY <2>1, <2>2, IdleAsked DEF Open
  <2> QED  BY <2>1, <2>3 DEF BackedInv
<1>9. ASSUME NEW k \in DOMAIN locks, ClearLock(k) PROVE BackedInv'
  BY <1>9 DEF ClearLock, evidence, BackedInv
<1>10. CASE UNCHANGED vars
  BY <1>10 DEF vars, evidence, BackedInv
<1> QED
  BY <1>1, <1>2, <1>3, <1>4, <1>5, <1>6, <1>7, <1>8, <1>9, <1>10, <1>11 DEF Next

\* The dry run refuses an item of a scoring task, on account of its source and its
\* evidence, only if the record names another validation than the one it was checked
\* with, the index is not up to date or the package has a registered revision that is
\* higher: otherwise what the creator lets in the orchestrator takes.
THEOREM DryRun == Spec => []DryRunFollows
<1>1. IInv /\ BackedInv => DryRunFollows
  <2> SUFFICES ASSUME IInv, BackedInv, NEW t \in Existing, tasks[t].kind = "score",
                      NEW p \in DOMAIN tasks[t].items,
                      IndexReadable, p \in LookUp(p[1]),
                      tasks[t].items[p].validation = record[p]
               PROVE  DryRunAccepts(t, p)
    BY DEF DryRunFollows
  <2> DEFINE i == tasks[t].items[p]
  <2>1. /\ IsSource(tasks[t].source, tasks)
        /\ Backed(i, p, tasks[t].source, tasks, ledger)
    BY DEF BackedInv, Scored, Existing
  <2>2. p \in Packages
    BY DEF LookUp, Entries
  <2>3. p \in Recorded
    <3>1. ledger[p] \in Seq(Findings)
      BY <2>2 DEF IInv, EvidenceOK, LedgerOK
    <3>2. i.validation \in 1 .. Len(ledger[p])
      BY <2>1, <3>1 DEF Backed
    <3> QED  BY <2>2, <3>2 DEF Recorded
  <2>4. SourceBound(t, p) /\ i.level # "manual_only"
    BY <2>1 DEF SourceBound, IsSource, Backed
  <2>5. EvidenceIdentity(p, i, p) /\ ValidationBinding(p, i)
    BY <2>1, <2>3 DEF EvidenceIdentity, ValidationBinding, Verdict, Backed
  <2> QED  BY <2>4, <2>5 DEF DryRunAccepts
<1>2. Spec => []BackedInv
  <2>1. Init => IInv /\ BackedInv  BY InitIInv, InitBacked
  <2>2. (IInv /\ BackedInv) /\ [Next]_vars => (IInv /\ BackedInv)'
    BY NextIInv, NextBacked
  <2> QED  BY <2>1, <2>2, PTL DEF Spec
<1> QED  BY <1>1, <1>2, Invariance, PTL
=============================================================================
