-------------------------- MODULE MCProviderSwitch --------------------------
(* Instances of ProviderSwitch for TLC. *)
EXTENDS ProviderSwitch

CONSTANTS p1, p2, d1, c1, c2

\* A provider with the first configuration and version, and what its model can do.
OneProvider(m, enabled) ==
  [model |-> m, version |-> 1, config |-> 1, enabled |-> enabled, retired |-> FALSE]
OneCapability(m, json) ==
  [model |-> m, version |-> 1,
   can |-> [need \in {"text", "json", "system"} |-> IF need = "json" THEN json ELSE "yes"],
   limit |-> [output |-> 1, timeout |-> 1, temperature |-> 1]]
Document(providers, capabilities) ==
  [providers |-> providers, capabilities |-> capabilities]

\* Both providers ready; the second disabled; the second of unknown ability.
ThreeDocuments ==
  LET p == <<OneProvider(p1, TRUE), OneProvider(p2, TRUE)>>
      x(json) == <<OneCapability(p1, "yes"), OneCapability(p2, json)>>
  IN  {Document(p, x("yes")),
       Document(<<OneProvider(p1, TRUE), OneProvider(p2, FALSE)>>, x("yes")),
       Document(p, x("unknown"))}

TextRequest ==
  [model |-> p1, version |-> 1, config |-> 1, needs |-> {"text"},
   asks |-> [output |-> 1, timeout |-> 1, temperature |-> 1]]

Answered(kind, status, objects) ==
  [safety |-> FALSE, kind |-> kind, status |-> status,
   body |-> [whole |-> "broken", fenced |-> "broken", objects |-> objects],
   schema |-> None, rule |-> None]

\* An answer that can be scored, a failure of the server.
TwoResults == {Answered(None, "ok", {1}), Answered(None, "broken", {})}
=============================================================================
