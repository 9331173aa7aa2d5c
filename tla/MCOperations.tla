---------------------------- MODULE MCOperations ----------------------------
\* Tenants with teams of one, two and three; a deployment with a trial, an
\* enterprise license for ever and a key nobody signed; and a configuration of
\* two sections with a file that names one, one that names both,
\* and one that cannot be parsed.
EXTENDS Operations

MCTeamSize == [free |-> 1, pro |-> 2, enterprise |-> 3]
MCKeys ==
  {TrialKey(0, 1),
   [signed |-> TRUE, type |-> "commercial_enterprise", plan |-> "enterprise", expires |-> Never],
   [signed |-> FALSE, type |-> "commercial_enterprise", plan |-> "enterprise", expires |-> Never]}
MCDeployments == [production : BOOLEAN, eligible : BOOLEAN]

MCEnvironment == [auth |-> "env", logging |-> "env"]
MCContents ==
  {[good |-> TRUE, sets |-> [auth |-> "a"]],
   [good |-> TRUE, sets |-> [auth |-> "b", logging |-> "b"]],
   [good |-> FALSE, sets |-> [auth |-> "c"]]}
============================================================================
