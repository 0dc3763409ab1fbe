--------------------------- MODULE ProviderSwitch ---------------------------
(* Decisions to hand an attempt that failed to another provider: requested,    *)
(* approved by a person, delivered, each a directory of files that a call      *)
(* changes one after the other under a lock.                                   *)
EXTENDS ProviderGateway

CONSTANTS
  Decisions,  \* ids of decisions, one for each request that creates one
  Callers,    \* slots for calls in progress
  Targets,    \* models to which a switch may be proposed
  Losses,     \* what may become of an event that cannot be appended
  MaxFaults, MaxCrashes

ASSUME LossesAssumption == Losses \subseteq {"lost", "kept"}

VARIABLES
  file,     \* the files of each decision
  lockFile, \* whether the lock file of the decision exists
  lock,     \* who holds the lock of the process, "leaked" if nobody can release it
  caller,   \* what each call in progress knows
  known,    \* the last revision of each decision that a client has been told of
  faults, crashes

switchVars == <<file, lockFile, lock, caller, known, faults, crashes>>
vars == <<registry, call, problem, success, observed,
          file, lockFile, lock, caller, known, faults, crashes>>

Statuses == {"pending_approval", "approved", "rejected", "cancelled", "executed"}

\* None stands for no decision, no target, no status and nobody.
ASSUME NoneAssumption == None \notin Decisions \cup Targets \cup Callers \cup Statuses

Transitions ==
  {<<"pending_approval", "approved">>, <<"pending_approval", "rejected">>,
   <<"pending_approval", "cancelled">>, <<"approved", "cancelled">>,
   <<"approved", "executed">>}

Revisions == 1 .. 3

\* key: idempotency.json, the target the decision was requested for. revision:
\* revisions/, the status each records. current, request: the revision that
\* current.json and request.json hold. events: the statuses in events.ndjson.
NoFile ==
  [key |-> None, revision |-> [r \in Revisions |-> None], current |-> 0, request |-> 0,
   events |-> <<>>]

\* status: the one the call is to bring about. seen, expected: the revision it
\* has read and the one its client expects.
Idle ==
  [step |-> "idle", decision |-> None, target |-> None, status |-> None, seen |-> 0,
   expected |-> 0]

Writes == <<"key", "revision", "current", "request", "event", "done">>
Steps == {"idle", "locking", "entering", "comparing", "failed"} \cup
         {Writes[i] : i \in DOMAIN Writes}

SwitchTypeOK ==
  /\ file \in [Decisions ->
       [key : Targets \cup {None}, revision : [Revisions -> Statuses \cup {None}],
        current : 0 .. 3, request : 0 .. 3, events : Seq(Statuses)]]
  /\ lockFile \in [Decisions -> BOOLEAN]
  /\ lock \in [Decisions -> Callers \cup {None, "leaked"}]
  /\ caller \in [Callers ->
       [step : Steps, decision : Decisions \cup {None}, target : Targets \cup {None},
        status : Statuses \cup {None}, seen : 0 .. 3, expected : 0 .. 3]]
  /\ known \in [Decisions -> 0 .. 3]

TypeOK == ProviderTypeOK /\ SwitchTypeOK

Init ==
  /\ ProviderInit
  /\ file = [d \in Decisions |-> NoFile]
  /\ lockFile = [d \in Decisions |-> FALSE]
  /\ lock = [d \in Decisions |-> None]
  /\ caller = [c \in Callers |-> Idle]
  /\ known = [d \in Decisions |-> 0]
  /\ faults = 0 /\ crashes = 0

At(c, step) == caller[c].step = step
Goes(c, step) == caller' = [caller EXCEPT ![c].step = step]
Mine(c) == caller[c].decision
Sets(c, field, value) == file' = [file EXCEPT ![Mine(c)][field] = value]

----------------------------------------------------------------------------
(* What a call checks before it takes the lock. *)

\* _resolve_target: what is asked of the provider to switch to.
Available(target) ==
  /\ target # Request.model /\ Resolvable(target)
  /\ ProviderOf(target).enabled /\ ~ProviderOf(target).retired
  /\ Offers(CapabilityOf(target), {"output"})

\* read: the revision that is current is there, and is the one of request.json.
Consistently(d) ==
  /\ file[d].current # 0 /\ file[d].revision[file[d].current] # None
  /\ file[d].request \in {0, file[d].current}

Fresh(d) ==
  /\ file[d] = NoFile /\ ~lockFile[d] /\ lock[d] = None
  /\ \A c \in Callers : caller[c].decision # d

\* find_by_idempotency looks through the directories without any lock.
Asked(target) == {d \in Decisions : file[d].key = target}

Create(c, d, target) ==
  /\ At(c, "idle") /\ Fresh(d)
  /\ problem # None /\ problem \notin SwitchForbidden /\ ~success
  /\ Available(target)
  /\ Asked(target) = {}
  /\ caller' = [caller EXCEPT ![c] =
       [Idle EXCEPT !.step = "locking", !.decision = d, !.target = target,
                    !.status = "pending_approval"]]
  /\ UNCHANGED <<registry, call, problem, success, observed,
                 file, lockFile, lock, known, faults, crashes>>

\* The same checks as for the request, on what the registry says now.
\* Mutant of Recheck: the target is not looked up again.
RecheckSuccess(target) == ~success
Recheck(target) == ~success /\ Available(target)

Change(c, d, status, expected) ==
  /\ At(c, "idle") /\ Consistently(d) /\ expected <= known[d]
  /\ <<file[d].revision[file[d].current], status>> \in Transitions
  /\ status = "approved" => Recheck(file[d].key)
  /\ status = "executed" => ~success
  /\ caller' = [caller EXCEPT ![c] =
       [Idle EXCEPT !.step = "locking", !.decision = d, !.status = status,
                    !.seen = file[d].current, !.expected = expected]]
  /\ UNCHANGED <<registry, call, problem, success, observed,
                 file, lockFile, lock, known, faults, crashes>>

----------------------------------------------------------------------------
(* The lock of the process, then the lock file. *)

TakeLock(c) ==
  /\ At(c, "locking") /\ lock[Mine(c)] = None
  /\ lock' = [lock EXCEPT ![Mine(c)] = c]
  /\ Goes(c, "entering")
  /\ UNCHANGED <<file, lockFile, known, faults, crashes>>

Creates(c) == caller[c].status = "pending_approval"

Enter(c) ==
  /\ At(c, "entering") /\ ~lockFile[Mine(c)]
  /\ lockFile' = [lockFile EXCEPT ![Mine(c)] = TRUE]
  /\ Goes(c, IF Creates(c) THEN "key" ELSE "comparing")
  /\ UNCHANGED <<file, lock, known, faults, crashes>>

\* The lock file does not go away: the call fails and keeps the lock of the process.
GiveUp(c) ==
  /\ At(c, "entering") /\ lockFile[Mine(c)]
  /\ lock' = [lock EXCEPT ![Mine(c)] = "leaked"]
  /\ caller' = [caller EXCEPT ![c] = Idle]
  /\ UNCHANGED <<file, lockFile, known, faults, crashes>>

\* update: both the client and the record it read must be of the current revision.
\* Mutant of Expected: only the record that was read.
ExpectedOrNot(c) == file[Mine(c)].current = caller[c].seen
Expected(c) ==
  /\ file[Mine(c)].current = caller[c].expected
  /\ caller[c].seen = caller[c].expected

Compare(c) ==
  /\ At(c, "comparing")
  /\ Goes(c, IF Expected(c) THEN "revision" ELSE "failed")
  /\ UNCHANGED <<file, lockFile, lock, known, faults, crashes>>

----------------------------------------------------------------------------
(* The files. *)

Following(step) ==
  Writes[CHOOSE i \in 2 .. Len(Writes) : Writes[i - 1] = step]

Write(c) ==
  LET f == file[Mine(c)]
      new == caller[c].seen + 1
  IN  /\ \/ At(c, "key") /\ Sets(c, "key", caller[c].target)
         \/ At(c, "revision")
            /\ Sets(c, "revision", [f.revision EXCEPT ![new] = caller[c].status])
         \/ At(c, "current") /\ Sets(c, "current", new)
         \/ At(c, "request") /\ Sets(c, "request", new)
         \/ At(c, "event") /\ Sets(c, "events", Append(f.events, caller[c].status))
      /\ Goes(c, Following(caller[c].step))
      /\ UNCHANGED <<lockFile, lock, known, faults, crashes>>

\* _rollback_update; the new revision stays. A request.json that was not there is
\* not removed.
\* Mutant of RolledBack: the request is forgotten.
RolledBackHalf(f, old) == [f EXCEPT !.current = old]
RolledBack(f, old) == [f EXCEPT !.current = old, !.request = old]

Fails(c, loss) ==
  LET f == file[Mine(c)]
      left == IF loss = "kept" THEN [f EXCEPT !.events = Append(@, caller[c].status)] ELSE f
  IN  /\ caller[c].step \in {"key", "revision", "current", "request", "event"}
      /\ loss = "kept" => At(c, "event")
      /\ faults < MaxFaults /\ faults' = faults + 1
      /\ file' = [file EXCEPT ![Mine(c)] =
           IF Creates(c) THEN NoFile ELSE RolledBack(left, caller[c].seen)]
      /\ lockFile' = [lockFile EXCEPT ![Mine(c)] = @ /\ ~Creates(c)]
      /\ Goes(c, "failed")
      /\ UNCHANGED <<lock, known, crashes>>

Leave(c) ==
  /\ At(c, "done") \/ At(c, "failed")
  /\ lockFile' = [lockFile EXCEPT ![Mine(c)] = FALSE]
  /\ lock' = [lock EXCEPT ![Mine(c)] = None]
  /\ known' = [known EXCEPT ![Mine(c)] =
       IF At(c, "done") /\ @ <= caller[c].seen THEN caller[c].seen + 1 ELSE @]
  /\ caller' = [caller EXCEPT ![c] = Idle]
  /\ UNCHANGED <<file, faults, crashes>>

\* The process is stopped, which at rest is no fault, and started again with the
\* registry file there is then.
Restart(doc) ==
  /\ \/ (\A c \in Callers : At(c, "idle")) /\ UNCHANGED crashes
     \/ crashes < MaxCrashes /\ crashes' = crashes + 1
  /\ Load(doc)
  /\ call' = "none" /\ observed' = <<>>
  /\ lock' = [d \in Decisions |-> None]
  /\ caller' = [c \in Callers |-> Idle]
  /\ UNCHANGED <<problem, success, file, lockFile, known, faults>>

----------------------------------------------------------------------------

Step(c) ==
  /\ \/ TakeLock(c) \/ Enter(c) \/ GiveUp(c) \/ Compare(c) \/ Write(c) \/ Leave(c)
     \/ \E loss \in Losses : Fails(c, loss)
  /\ UNCHANGED providerVars

Provider ==
  /\ \/ \E hash \in BOOLEAN, endpoint, credential \in Resolutions :
          Call(hash, endpoint, credential)
     \/ \E result \in Results : Answer(result)
     \/ SuccessAppears \/ Age
  /\ UNCHANGED switchVars

Next ==
  \/ Provider
  \/ \E c \in Callers :
       \/ Step(c)
       \/ \E d \in Decisions :
            \/ \E target \in Targets : Create(c, d, target)
            \/ \E status \in Statuses, expected \in Revisions : Change(c, d, status, expected)
  \/ \E doc \in Documents : Restart(doc)

Spec == Init /\ [][Next]_vars

\* A call that has been made is carried on.
FairSpec == Spec /\ \A c \in Callers : WF_vars(Step(c))

----------------------------------------------------------------------------
(* Properties. *)

AtRest(d) == ~lockFile[d] /\ lock[d] = None

\* Whatever write failed, a decision that nobody is working on can be read, and a
\* key that is on disk leads to one.
Readable ==
  \A d \in Decisions : AtRest(d) /\ file[d] # NoFile =>
    file[d].key # None /\ Consistently(d)

\* The events tell the life of a decision: its transitions are those of the state
\* machine, and at rest they are the ones that led to its status. A decision that
\* was refused or withdrawn is never delivered.
AuditTrail ==
  \A d \in Decisions :
    LET told == file[d].events
    IN  /\ \A i \in 2 .. Len(told) : <<told[i - 1], told[i]>> \in Transitions
        /\ AtRest(d) => /\ Len(told) = file[d].current
                        /\ \A i \in DOMAIN told : told[i] = file[d].revision[i]

\* A decision is approved for a provider that is enabled and able at that time, not
\* only when the switch was requested.
ApprovedAvailable ==
  [][\A d \in Decisions :
       file'[d].events = Append(file[d].events, "approved") => Available(file[d].key)]_vars

\* Every call returns.
CallsEnd == \A c \in Callers : ~At(c, "idle") ~> At(c, "idle")
=============================================================================
