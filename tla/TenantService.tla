-------------------------- MODULE TenantService --------------------------
(***************************************************************************)
(* services/tenant_service.py: tenants, their teams and the invitations to *)
(* them. Each method is one step: nothing in it waits.                     *)
(***************************************************************************)
EXTENDS FeatureGates, Sequences

CONSTANTS Tenants, MaxIds,   \* at most MaxIds members and invites
          NoTenant

Roles == {"owner", "admin", "member", "viewer"}
Ids   == 1..MaxIds

ASSUME TenantConstants == MaxIds \in Nat /\ NoTenant \notin [plan : Plans, quota : Quotas, status : {"active", "suspended"}]

VARIABLES
  tenants,      \* _tenants
  members,      \* _members: with the invite each came by, 0 for none
  invites,      \* _invites
  lastId,       \* members and invites have ids of their own
  ceiling,      \* history: the team there may be: what the plan allows or, when it
                \* was larger as the plan came, what is left of it
  spent         \* history: the invites by which somebody joined, each time

tenantVars == <<tenants, members, invites, lastId, ceiling, spent>>

Size(t) == tenants[t].quota.limits.max_team_members

\* Fault variant: a table that has lost its line for pro.
TenantQuotasShort == [free |-> FreeQuota, pro |-> FreeQuota, enterprise |-> EnterpriseQuota]

\* The service's own table of quotas.
TenantQuotas == [free |-> FreeQuota, pro |-> ProQuota, enterprise |-> EnterpriseQuota]

AtLeast(n, size) == IF n > size THEN n ELSE size
--------------------------------------------------------------------------
\* Ids of the tenant, its owner and others are uuid4.
CreateTenant(t, plan) ==
  /\ tenants[t] = NoTenant /\ lastId < MaxIds
  /\ lastId' = lastId + 1
  /\ tenants' = [tenants EXCEPT ![t] = [plan |-> plan, quota |-> TenantQuotas[plan], status |-> "active"]]
  /\ members' = [members EXCEPT ![t] = {[id |-> lastId', role |-> "owner", via |-> 0]}]
  /\ invites' = [invites EXCEPT ![t] = {}]
  /\ ceiling' = [ceiling EXCEPT ![t] = TenantQuotas[plan].limits.max_team_members]
  /\ UNCHANGED spent

\* Fault variant: the quota of the old plan is kept.
UpdatePlanOnly(t, plan) ==
  /\ tenants[t] # NoTenant
  /\ tenants' = [tenants EXCEPT ![t].plan = plan]
  /\ UNCHANGED <<members, invites, lastId, ceiling, spent>>

\* Nobody leaves a team that is too large for its new plan.
UpdatePlan(t, plan) ==
  /\ tenants[t] # NoTenant
  /\ tenants' = [tenants EXCEPT ![t].plan = plan, ![t].quota = TenantQuotas[plan]]
  /\ ceiling' = [ceiling EXCEPT ![t] =
       AtLeast(Cardinality(members[t]), TenantQuotas[plan].limits.max_team_members)]
  /\ UNCHANGED <<members, invites, lastId, spent>>

\* Nothing asks for the status of a tenant.
SuspendTenant(t) ==
  /\ tenants[t] # NoTenant
  /\ tenants' = [tenants EXCEPT ![t].status = "suspended"]
  /\ UNCHANGED <<members, invites, lastId, ceiling, spent>>

\* add_member, which returns None when the team is full.
IsFull(t) == Cardinality(members[t]) >= Size(t)
Join(t, role, via) ==
  IF IsFull(t) THEN UNCHANGED <<members, lastId>>
  ELSE /\ lastId < MaxIds
       /\ lastId' = lastId + 1
       /\ members' = [members EXCEPT ![t] = @ \cup {[id |-> lastId', role |-> role, via |-> via]}]

AddMember(t, role) ==
  /\ tenants[t] # NoTenant
  /\ Join(t, role, 0)
  /\ UNCHANGED <<tenants, invites, ceiling, spent>>

\* An owner is not removed and keeps the role; others can be made owners.
RemoveMember(t, m) ==
  /\ m \in members[t] /\ m.role # "owner"
  /\ members' = [members EXCEPT ![t] = @ \ {m}]
  /\ ceiling' = [ceiling EXCEPT ![t] = AtLeast(Cardinality(members'[t]), Size(t))]
  /\ UNCHANGED <<tenants, invites, lastId, spent>>

UpdateMemberRole(t, m, role) ==
  /\ m \in members[t] /\ m.role # "owner"
  /\ members' = [members EXCEPT ![t] = (@ \ {m}) \cup {[m EXCEPT !.role = role]}]
  /\ UNCHANGED <<tenants, invites, lastId, ceiling, spent>>

CreateInvite(t, role) ==
  /\ tenants[t] # NoTenant /\ lastId < MaxIds
  /\ lastId' = lastId + 1
  /\ invites' = [invites EXCEPT ![t] = @ \cup {[id |-> lastId', role |-> role, accepted |-> FALSE]}]
  /\ UNCHANGED <<tenants, members, ceiling, spent>>

\* Fault variant: an invite is used up by the member it is refused for alone.
AcceptInviteOpen(t, i) ==
  /\ i \in invites[t] /\ ~i.accepted
  /\ Join(t, i.role, i.id)
  /\ invites' = [invites EXCEPT ![t] = IF IsFull(t) THEN (@ \ {i}) \cup {[i EXCEPT !.accepted = TRUE]} ELSE @]
  /\ spent' = IF IsFull(t) THEN spent ELSE Append(spent, i.id)
  /\ UNCHANGED <<tenants, ceiling>>

\* The invite is accepted before the team is found to be full.
AcceptInvite(t, i) ==
  /\ i \in invites[t] /\ ~i.accepted
  /\ Join(t, i.role, i.id)
  /\ invites' = [invites EXCEPT ![t] = (@ \ {i}) \cup {[i EXCEPT !.accepted = TRUE]}]
  /\ spent' = IF IsFull(t) THEN spent ELSE Append(spent, i.id)
  /\ UNCHANGED <<tenants, ceiling>>
--------------------------------------------------------------------------
\* check_quota of a tenant: resources have names of their own, and what has
\* none is not allowed.
QuotaNames == [schemas |-> "max_schemas", scenarios |-> "max_scenarios_per_schema",
               concurrent_executions |-> "max_concurrent_executions",
               team_members |-> "max_team_members", distributed_workers |-> "distributed_workers"]
WithinQuota(t, resource, current) ==
  /\ tenants[t] # NoTenant /\ resource \in DOMAIN QuotaNames
  /\ current < tenants[t].quota.limits[QuotaNames[resource]]
--------------------------------------------------------------------------
TenantInit ==
  /\ tenants = [t \in Tenants |-> NoTenant]
  /\ members = [t \in Tenants |-> {}] /\ invites = [t \in Tenants |-> {}]
  /\ lastId = 0
  /\ ceiling = [t \in Tenants |-> 0]
  /\ spent = <<>>

\* The requests of routers/tenants.py that change something.
TenantNext ==
  \E t \in Tenants :
    \/ \E plan \in Plans : CreateTenant(t, plan)
    \/ \E plan \in Plans : UpdatePlan(t, plan)
    \/ SuspendTenant(t)
    \/ \E role \in Roles : AddMember(t, role)
    \/ \E m \in members[t] : RemoveMember(t, m)
    \/ \E m \in members[t], role \in Roles : UpdateMemberRole(t, m, role)
    \/ \E role \in Roles : CreateInvite(t, role)
    \/ \E i \in invites[t] : AcceptInvite(t, i)
--------------------------------------------------------------------------
TenantTypeOK ==
  /\ tenants \in [Tenants -> [plan : Plans, quota : Quotas, status : {"active", "suspended"}] \cup {NoTenant}]
  /\ members \in [Tenants -> SUBSET [id : Ids, role : Roles, via : 0..MaxIds]]
  /\ invites \in [Tenants -> SUBSET [id : Ids, role : Roles, accepted : BOOLEAN]]
  /\ lastId \in 0..MaxIds
  /\ ceiling \in [Tenants -> Nat]
  /\ spent \in Seq(Ids)
===========================================================================
