--------------------------- MODULE FeatureGates ---------------------------
(***************************************************************************)
(* core/feature_gates.py and the plans of models/tenant.py: what a plan    *)
(* allows, as a table of features, as a level and as quotas.               *)
(***************************************************************************)
EXTENDS Naturals, FiniteSets

CONSTANT TeamSize   \* max_team_members of each plan: 1, 10 and 1000

Plans == {"free", "pro", "enterprise"}

ASSUME TeamSizes ==
  /\ TeamSize \in [Plans -> Nat \ {0}]
  /\ TeamSize["free"] <= TeamSize["pro"] /\ TeamSize["pro"] <= TeamSize["enterprise"]

PaidFeatures ==
  {"distributed_execution", "custom_plugins", "cicd_integration", "advanced_analytics",
   "graphql_support", "grpc_support", "team_collaboration", "api_key_management",
   "sla_guarantee", "priority_support"}
EnterpriseFeatures == {"sso", "audit_log_export", "custom_branding", "dedicated_instance"}

\* The plans that have a feature.
FeatureGates ==
  [f \in PaidFeatures \cup EnterpriseFeatures |->
     IF f \in PaidFeatures THEN {"pro", "enterprise"} ELSE {"enterprise"}]

\* What is no gated feature is available.
IsFeatureAvailable(plan, feature) ==
  feature \in DOMAIN FeatureGates => plan \in FeatureGates[feature]

FeaturesFor(plan) == {f \in DOMAIN FeatureGates : plan \in FeatureGates[f]}

PlanLevel == [free |-> 0, pro |-> 1, enterprise |-> 2]

\* The decorators let a tenant with the plan through.
RequirePlan(plan, allowed)     == \E p \in allowed : PlanLevel[plan] >= PlanLevel[p]
RequireFeature(plan, feature)  == IsFeatureAvailable(plan, feature)
--------------------------------------------------------------------------
\* The flags of a quota, and the feature that goes by each.
FlagOf == [custom_plugins |-> "custom_plugins", ci_cd_integration |-> "cicd_integration",
           sso_enabled |-> "sso", advanced_analytics |-> "advanced_analytics"]
ProFlags == {"custom_plugins", "ci_cd_integration", "advanced_analytics"}

\* TenantQuota(), PRO_QUOTA and ENTERPRISE_QUOTA.
FreeQuota ==
  [flags  |-> {},
   limits |-> [max_schemas |-> 10, max_scenarios_per_schema |-> 50, max_concurrent_executions |-> 1,
               max_team_members |-> TeamSize["free"], max_retention_days |-> 30,
               distributed_workers |-> 1]]
ProQuota ==
  [flags  |-> ProFlags,
   limits |-> [max_schemas |-> 100, max_scenarios_per_schema |-> 500, max_concurrent_executions |-> 5,
               max_team_members |-> TeamSize["pro"], max_retention_days |-> 365,
               distributed_workers |-> 5]]
EnterpriseQuota ==
  [flags  |-> ProFlags \cup {"sso_enabled"},
   limits |-> [max_schemas |-> 10000, max_scenarios_per_schema |-> 10000,
               max_concurrent_executions |-> 50, max_team_members |-> TeamSize["enterprise"],
               max_retention_days |-> 3650, distributed_workers |-> 100]]
Quotas == {FreeQuota, ProQuota, EnterpriseQuota}

\* The gates' table of quotas. The tenant service has one of its own.
PlanQuotas == [free |-> FreeQuota, pro |-> ProQuota, enterprise |-> EnterpriseQuota]

\* check_quota of a plan: a resource is the name of a field of the quota, a flag
\* counts as 1 or 0, and what is no such field is not limited.
WithinPlan(plan, resource, current) ==
  /\ resource \in DOMAIN PlanQuotas[plan].limits => current < PlanQuotas[plan].limits[resource]
  /\ resource \in DOMAIN FlagOf => current < IF resource \in PlanQuotas[plan].flags THEN 1 ELSE 0
===========================================================================
