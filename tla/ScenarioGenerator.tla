------------------------ MODULE ScenarioGenerator ------------------------
(***************************************************************************)
(* services/scenario_generator.py: the chaos scenarios of an endpoint, by  *)
(* rule and from the reply of the LLM router. A scenario is its type, its  *)
(* severity and where it goes, the place of its endpoint; what it sends    *)
(* there is left to the engine.                                            *)
(***************************************************************************)
EXTENDS SchemaParser

ScenarioTypes ==
  {"latency", "error_status", "request_tampering", "rate_limit", "resource_exhaustion",
   "data_corruption", "dependency_failure", "network_partition", "custom_plugin"}

Severities == <<"critical", "high", "medium", "low", "info">>

Place(e) == [method |-> e.method, path |-> e.path]

IsScenario(s) ==
  DOMAIN s = {"type", "severity", "endpoint"} /\ s.type \in ScenarioTypes
  /\ s.severity \in ToSet(Severities) /\ s.endpoint.method \in Methods

\* One scenario of the type for each of the severities.
Scenarios(type, severities, e) ==
  [i \in DOMAIN severities |-> [type |-> type, severity |-> severities[i], endpoint |-> Place(e)]]

LatencyScenarios(e)     == Scenarios("latency", <<"low", "medium", "high">>, e)
ErrorStatusScenarios(e) == Scenarios("error_status", <<"medium", "medium", "high", "low">>, e)
RateLimitScenarios(e)   == Scenarios("rate_limit", <<"medium", "low">>, e)

\* A wrong type, and what the field's constraints invite to break.
FieldTampering(f) ==
  <<"high">> \o (IF f.type = "string" THEN <<"high">> ELSE <<>>)
             \o (IF f.type \in {"integer", "number"} THEN <<"medium">> ELSE <<>>)
             \o (IF f.enum THEN <<"high">> ELSE <<>>)
             \o (IF f.required THEN <<"critical">> ELSE <<>>)
             \o (IF f.format \in {"email", "uri", "date-time"} THEN <<"high">> ELSE <<>>)

\* Fault variant: no header injection when there is nothing else to tamper with.
TamperingScenariosBare(e) ==
  LET body   == IF e.method \notin {"POST", "PUT", "PATCH"} THEN <<>>
                ELSE IF e.body.fields = <<>> THEN <<"high">>
                ELSE FlattenSeq([i \in DOMAIN e.body.fields |-> FieldTampering(e.body.fields[i])])
  IN  Scenarios("request_tampering", body \o [i \in DOMAIN e.params |-> "high"], e)

\* The body's fields or the body, the parameters, or else the headers.
TamperingScenarios(e) ==
  LET body   == IF e.method \notin {"POST", "PUT", "PATCH"} THEN <<>>
                ELSE IF e.body.fields = <<>> THEN <<"high">>
                ELSE FlattenSeq([i \in DOMAIN e.body.fields |-> FieldTampering(e.body.fields[i])])
      all    == body \o [i \in DOMAIN e.params |-> "high"]
  IN  Scenarios("request_tampering", IF all = <<>> THEN <<"high">> ELSE all, e)

\* _parse_llm_response and the handler around it. A reply is no JSON, or its
\* items: one that is no mapping is skipped, unknown types and severities get
\* defaults, and one that is no valid scenario costs the whole reply. The
\* router's fallback is an item with neither a type nor a severity.
LLMScenarios(reply, e) ==
  LET items == Filter(reply.items, LAMBDA x : x.mapping)
  IN  IF ~reply.json \/ \E i \in DOMAIN items : ~items[i].valid THEN <<>>
      ELSE [i \in DOMAIN items |->
             [type     |-> IF items[i].type \in ScenarioTypes THEN items[i].type ELSE "latency",
              severity |-> IF items[i].severity \in ToSet(Severities) THEN items[i].severity
                           ELSE "medium",
              endpoint |-> Place(e)]]

\* Fault variant: the rules are left out when the model has answered.
GenerateForEndpointEither(e, reply) ==
  IF LLMScenarios(reply, e) # <<>> THEN LLMScenarios(reply, e)
  ELSE LatencyScenarios(e) \o ErrorStatusScenarios(e) \o TamperingScenarios(e)
       \o RateLimitScenarios(e)

GenerateForEndpoint(e, reply) ==
  LatencyScenarios(e) \o ErrorStatusScenarios(e) \o TamperingScenarios(e)
  \o RateLimitScenarios(e) \o LLMScenarios(reply, e)
--------------------------------------------------------------------------
\* Every endpoint is given the scenarios of each kind, whatever the model said.
Covered(endpoints, scenarios) ==
  \A i \in DOMAIN endpoints :
    LET place    == Place(endpoints[i])
        of(type) == Count(scenarios, LAMBDA s : s.type = type /\ s.endpoint = place)
    IN  /\ of("latency") >= 3
        /\ of("error_status") >= 4
        /\ of("rate_limit") >= 2
        /\ of("request_tampering") >= 1
===========================================================================
