-------------------------- MODULE ProviderGateway --------------------------
(* The scoring providers: the registry of providers and capabilities, the      *)
(* gateway through which a model is called, the errors it reports and the      *)
(* health computed from them. ProviderSwitch builds on it.                     *)
EXTENDS Naturals, Sequences, FiniteSets

CONSTANTS
  Documents,    \* registry files an operator may put in place
  Request,      \* the request of the attempt whose provider may be switched
  Resolutions,  \* what the resolver of endpoints or credentials may report
  Results,      \* what the transport may return, see Outcome
  WindowSize,   \* observations that fit into the window of the health policy
  MinSample, HealthyRate, DegradedRate, DegradedFailures, UnavailableFailures,
                \* ProviderHealthPolicy, the rates in percent
  None

ASSUME PolicyAssumption ==
  /\ MinSample \in Nat /\ WindowSize \in Nat
  /\ DegradedRate \in Nat /\ HealthyRate \in 0 .. 100 /\ DegradedRate <= HealthyRate
  /\ DegradedFailures \in Nat \ {0} /\ UnavailableFailures \in Nat
  /\ DegradedFailures <= UnavailableFailures

VARIABLES
  registry, \* the document that has been loaded, None while there is none
  call,     \* whether a request is with the provider
  problem,  \* the error that ended the attempt, as the attempt lookup reports it
  success,  \* whether a successful result of the attempt is known
  observed  \* the calls in the window, oldest first: error code, None for success

providerVars == <<registry, call, problem, success, observed>>

Codes ==
  {"PROVIDER_CONFIG_INVALID", "PROVIDER_CREDENTIAL_INVALID", "MODEL_CAPABILITY_MISMATCH",
   "PROVIDER_REQUEST_INVALID", "PROVIDER_RATE_LIMITED", "PROVIDER_QUOTA_EXHAUSTED",
   "PROVIDER_TIMEOUT", "PROVIDER_NETWORK_ERROR", "PROVIDER_SERVER_ERROR",
   "PROVIDER_INVALID_JSON", "PROVIDER_RESPONSE_SCHEMA_INVALID",
   "PROVIDER_CONTENT_SAFETY_REJECTED", "PROVIDER_SCORE_OUT_OF_RANGE",
   "PROVIDER_UNKNOWN_ERROR"}

\* None stands for no error. A resolver reports an error code or nothing.
ASSUME CodesAssumption == None \notin Codes /\ Resolutions \subseteq Codes \cup {None}

\* The first of a row of checks that has something to report.
FirstReport(reports) ==
  LET speaking == {i \in DOMAIN reports : reports[i] # None}
  IN  IF speaking = {} THEN None
      ELSE reports[CHOOSE i \in speaking : \A j \in speaking : i <= j]

Report(ok, code) == IF ok THEN None ELSE code

----------------------------------------------------------------------------
(* The registry. *)

\* A provider's capability_ref names the capability of its model and version.
Distinct(keys) == \A i, j \in DOMAIN keys : keys[i] = keys[j] => i = j
Consistent(doc) ==
  LET byConfig(p) == <<p.model, p.config>>
      byVersion(x) == <<x.model, x.version>>
  IN  /\ Distinct([i \in DOMAIN doc.providers |-> byConfig(doc.providers[i])])
      /\ Distinct([i \in DOMAIN doc.capabilities |-> byVersion(doc.capabilities[i])])
      /\ \A i \in DOMAIN doc.providers : \E j \in DOMAIN doc.capabilities :
           byVersion(doc.providers[i]) = byVersion(doc.capabilities[j])

Load(doc) == registry' = IF Consistent(doc) THEN doc ELSE None

OfModel(row, m) == {i \in DOMAIN row : row[i].model = m}
FirstOf(row, m) == row[CHOOSE i \in OfModel(row, m) : \A j \in OfModel(row, m) : i <= j]

Resolvable(m) ==
  /\ registry # None
  /\ OfModel(registry.providers, m) # {} /\ OfModel(registry.capabilities, m) # {}
ProviderOf(m) == FirstOf(registry.providers, m)
CapabilityOf(m) == FirstOf(registry.capabilities, m)

\* An ability that is unknown is no ability.
Offers(capability, limits) ==
  /\ \A need \in Request.needs \cup {"json", "system"} : capability.can[need] = "yes"
  /\ \A l \in limits : Request.asks[l] <= capability.limit[l]

----------------------------------------------------------------------------
(* The gateway. *)

\* Why a request is refused before the provider hears of it. hash: whether the
\* payload is the one the request was made for. endpoint, credential: what the
\* two resolvers report.
Preflight ==
  LET m == Request.model
      p == ProviderOf(m)
  IN  FirstReport(<<
        Report(p.version = Request.version /\ p.config = Request.config,
               "PROVIDER_CONFIG_INVALID"),
        Report(Offers(CapabilityOf(m), {"output", "timeout", "temperature"}),
               "MODEL_CAPABILITY_MISMATCH")>>)
Refusal(hash, endpoint, credential) ==
  IF ~Resolvable(Request.model) THEN "PROVIDER_CONFIG_INVALID"
  ELSE FirstReport(<<Preflight, Report(hash, "PROVIDER_REQUEST_INVALID"),
                     endpoint, credential>>)

\* What is found in the text of an answer: whether it parses as a whole, whether
\* its first fenced block does, and the objects between its braces.
Extracted(body) ==
  \/ body.whole = "object"
  \/ body.whole = "broken" /\ body.fenced = "object"
  \/ /\ body.whole = "broken" /\ body.fenced = "broken"
     /\ Cardinality(body.objects) = 1

StatusReport ==
  [ok |-> None, refused |-> "PROVIDER_REQUEST_INVALID",
   unauthorized |-> "PROVIDER_CREDENTIAL_INVALID", missing |-> "PROVIDER_CONFIG_INVALID",
   expired |-> "PROVIDER_TIMEOUT", limited |-> "PROVIDER_RATE_LIMITED",
   broken |-> "PROVIDER_SERVER_ERROR", other |-> "PROVIDER_UNKNOWN_ERROR"]

\* What the transport returns has one of these statuses; its failure and what the
\* validators report are error codes or nothing.
ASSUME ResultsAssumption ==
  \A result \in Results :
    /\ result.status \in DOMAIN StatusReport
    /\ {result.kind, result.schema, result.rule} \subseteq Codes \cup {None}

\* kind: the code its failure_kind stands for.
Classify(result) ==
  FirstReport(<<Report(~result.safety, "PROVIDER_CONTENT_SAFETY_REJECTED"),
                result.kind, StatusReport[result.status]>>)

\* schema, rule: what the two validators report of the object.
Outcome(result) ==
  FirstReport(<<Classify(result), Report(Extracted(result.body), "PROVIDER_INVALID_JSON"),
                result.schema, result.rule>>)

\* _ERROR_POLICY, provider_switch_allowed
SwitchForbidden == {"PROVIDER_REQUEST_INVALID", "PROVIDER_UNKNOWN_ERROR"}

\* The first failed call is the one that ends the attempt in question, later
\* calls are those of other attempts.
Ends(code) ==
  /\ Len(observed) < WindowSize
  /\ observed' = Append(observed, code)
  /\ problem' = IF problem = None /\ ~success THEN code ELSE problem
  /\ success' = (success \/ (problem = None /\ code = None))

Call(hash, endpoint, credential) ==
  LET refusal == Refusal(hash, endpoint, credential)
  IN  /\ call = "none"
      /\ \/ refusal # None /\ Ends(refusal) /\ UNCHANGED call
         \/ refusal = None /\ call' = "sent" /\ UNCHANGED <<problem, success, observed>>
      /\ UNCHANGED registry

Answer(result) ==
  /\ call = "sent" /\ call' = "none"
  /\ Ends(Outcome(result))
  /\ UNCHANGED registry

\* A result of the attempt becomes known from elsewhere.
SuccessAppears ==
  /\ problem # None /\ success' = TRUE
  /\ UNCHANGED <<registry, call, problem, observed>>

\* The oldest observation leaves the window.
Age ==
  /\ observed # <<>> /\ observed' = Tail(observed)
  /\ UNCHANGED <<registry, call, problem, success>>

----------------------------------------------------------------------------
(* Health. *)

ClientSide ==
  {"PROVIDER_REQUEST_INVALID", "PROVIDER_CONFIG_INVALID", "MODEL_CAPABILITY_MISMATCH"}
ContentSafety == {"PROVIDER_CONTENT_SAFETY_REJECTED"}

Counts(code) == code \notin ClientSide \cup ContentSafety

\* The observations of a window that count, and of those the failures since the
\* last success.
Counted(window) == {i \in DOMAIN window : Counts(window[i])}
Failures(window) ==
  Cardinality({i \in Counted(window) : \A j \in Counted(window) : i <= j => window[j] # None})
RateBelow(window, percent) ==
  Cardinality({i \in Counted(window) : window[i] = None}) * 100
    < percent * Cardinality(Counted(window))

Health(window) ==
  LET samples == Cardinality(Counted(window))
      unavailable == \/ \E i \in DOMAIN window : window[i] = "PROVIDER_QUOTA_EXHAUSTED"
                     \/ Failures(window) >= UnavailableFailures
      degraded == \/ Failures(window) >= DegradedFailures
                  \/ samples > 0 /\ RateBelow(window, DegradedRate)
      healthy == samples > 0 /\ ~RateBelow(window, HealthyRate)
  IN  CASE samples < MinSample -> "unknown"
        [] samples >= MinSample /\ unavailable -> "unavailable"
        [] samples >= MinSample /\ ~unavailable /\ degraded -> "degraded"
        [] samples >= MinSample /\ ~unavailable /\ ~degraded ->
             IF healthy THEN "healthy" ELSE "unknown"

----------------------------------------------------------------------------

ProviderTypeOK ==
  /\ registry \in Documents \cup {None}
  /\ call \in {"none", "sent"}
  /\ problem \in Codes \cup {None}
  /\ success \in BOOLEAN
  /\ observed \in Seq(Codes \cup {None}) /\ Len(observed) <= WindowSize

ProviderInit ==
  /\ registry = None
  /\ call = "none" /\ problem = None /\ success = FALSE /\ observed = <<>>

\* Refusals and rejected content say nothing of the provider, and no failure makes
\* an ailing provider healthy.
HealthMoves ==
  [][\A code \in Codes : observed' = Append(observed, code) =>
       /\ code \in ClientSide \cup ContentSafety => Health(observed') = Health(observed)
       /\ Health(observed) \in {"degraded", "unavailable"} => Health(observed') # "healthy"
    ]_observed
=============================================================================
