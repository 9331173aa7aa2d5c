------------------------- MODULE EntitlementsProofs -------------------------
(***************************************************************************)
(* Theorems about entitlements, for every set of tenants, every size of    *)
(* the teams, every set of license keys and every check interval.          *)
(***************************************************************************)
EXTENDS Operations, CommonLemmas

IsTenant(t) == tenants[t] # NoTenant

\* A tenant has the quota of its plan.
QuotaOfPlan == \A t \in Tenants : IsTenant(t) => tenants[t].quota = TenantQuotas[tenants[t].plan]

\* Ids are given out in order: those of members and invites, and those of
\* spent invites, are among the first lastId.
IdsGiven ==
  /\ \A t \in Tenants : \A m \in members[t] : m.id <= lastId
  /\ \A t \in Tenants : \A i \in invites[t] : i.id <= lastId
  /\ \A j \in DOMAIN spent : spent[j] <= lastId
  /\ \A t, u \in Tenants : \A i \in invites[t] : \A j \in invites[u] : i.id = j.id => t = u /\ i = j

\* The first member is the owner who came without an invite.
HasOwner(t) == \E m \in members[t] : m.role = "owner" /\ m.via = 0 /\ \A o \in members[t] : m.id <= o.id

\* A team and its quota stay within the team there may be.
TeamFits(t) ==
  /\ IsFiniteSet(members[t]) /\ Cardinality(members[t]) <= ceiling[t]
  /\ IsTenant(t) => TeamSize[tenants[t].plan] <= ceiling[t]

\* Invites bring in one member each.
InvitesSpentOnce ==
  /\ \A j, k \in DOMAIN spent : spent[j] = spent[k] => j = k
  /\ \A t \in Tenants : \A i \in invites[t] : (\E j \in DOMAIN spent : spent[j] = i.id) => i.accepted

\* Only a tenant has members and invites, and who came by one came by an
\* accepted one.
CameByInvite(t) ==
  /\ invites[t] # {} \/ members[t] # {} => IsTenant(t)
  /\ \A m \in members[t] : m.via # 0 => \E i \in invites[t] : i.id = m.via /\ i.accepted

\* The inductive invariant of the tenants.
TenantInv ==
  /\ TenantTypeOK /\ QuotaOfPlan /\ IdsGiven /\ InvitesSpentOnce
  /\ \A t \in Tenants : (IsTenant(t) => HasOwner(t)) /\ TeamFits(t) /\ CameByInvite(t)

\* A commercial license that is remembered had a signed key, and one that is
\* valid was fit when it was checked.
RememberedSound ==
  Remembered /\ IsCommercial(info) =>
    /\ info.key \in LicenseKeys /\ info.key.signed
    /\ IsValid(info) => fit[info.key] <= sinceCheck

\* The inductive invariant of the license, and that of both.
LicenseInv == LicenseTypeOK /\ RememberedSound
EntitlementsInv == TenantInv /\ LicenseInv
--------------------------------------------------------------------------
(* Plans.                                                                *)

\* The plans and what their quotas hold.
LEMMA QuotaFields ==
  ASSUME NEW plan \in Plans
  PROVE  /\ TenantQuotas[plan] \in Quotas
         /\ TenantQuotas[plan].limits.max_team_members = TeamSize[plan]
         /\ TeamSize[plan] \in Nat \ {0}
<1>1. TenantQuotas[plan] \in Quotas
  BY DEF TenantQuotas, Quotas, Plans
<1>2. TeamSize[plan] \in Nat \ {0}
  BY TeamSizes
<1>3. TenantQuotas[plan].limits.max_team_members = TeamSize[plan]
  <2>1. CASE plan = "free"
    BY <2>1 DEF TenantQuotas, FreeQuota
  <2>2. CASE plan = "pro"
    BY <2>2 DEF TenantQuotas, ProQuota
  <2>3. CASE plan = "enterprise"
    BY <2>3 DEF TenantQuotas, EnterpriseQuota
  <2>. QED  BY <2>1, <2>2, <2>3 DEF Plans
<1>. QED  BY <1>1, <1>2, <1>3

\* The service's table of quotas has the lines of the gates' table.
LEMMA TablesAgree ==
  ASSUME NEW plan \in Plans
  PROVE  TenantQuotas[plan] = PlanQuotas[plan]
BY DEF TenantQuotas, PlanQuotas, Plans

\* Each plan has the features of those below it, and more.
LEMMA PlansAreALadder ==
  ASSUME NEW p \in Plans, NEW q \in Plans
  PROVE  RequirePlan(p, {q}) <=> FeaturesFor(q) \subseteq FeaturesFor(p)
<1>1. /\ DOMAIN FeatureGates = PaidFeatures \cup EnterpriseFeatures
      /\ \A f \in PaidFeatures : FeatureGates[f] = {"pro", "enterprise"}
      /\ \A f \in EnterpriseFeatures : f \notin PaidFeatures => FeatureGates[f] = {"enterprise"}
  BY DEF FeatureGates
<1>2. /\ "sso" \in EnterpriseFeatures /\ "custom_plugins" \in PaidFeatures
      /\ \A f \in EnterpriseFeatures : f \notin PaidFeatures
  BY DEF PaidFeatures, EnterpriseFeatures
<1>3. /\ FeaturesFor("free") = {} /\ FeaturesFor("pro") = PaidFeatures
      /\ FeaturesFor("enterprise") = PaidFeatures \cup EnterpriseFeatures
  BY <1>1, <1>2 DEF FeaturesFor
<1>4. RequirePlan(p, {q}) <=> PlanLevel[p] >= PlanLevel[q]
  BY DEF RequirePlan
<1>5. PlanLevel["free"] = 0 /\ PlanLevel["pro"] = 1 /\ PlanLevel["enterprise"] = 2
  BY DEF PlanLevel
<1>. QED  BY <1>2, <1>3, <1>4, <1>5 DEF Plans

\* The flags of a plan's quota are the features that go by their names.
LEMMA FlagsAreFeatures ==
  ASSUME NEW plan \in Plans, NEW flag \in DOMAIN FlagOf
  PROVE  flag \in PlanQuotas[plan].flags <=> RequireFeature(plan, FlagOf[flag])
<1>1. /\ {"custom_plugins", "cicd_integration", "advanced_analytics", "sso"} \subseteq DOMAIN FeatureGates
      /\ \A f \in {"custom_plugins", "cicd_integration", "advanced_analytics"} :
           FeatureGates[f] = {"pro", "enterprise"}
      /\ FeatureGates["sso"] = {"enterprise"}
  BY DEF FeatureGates, PaidFeatures, EnterpriseFeatures
<1>2. /\ PlanQuotas["free"].flags = {}
      /\ PlanQuotas["pro"].flags = {"custom_plugins", "ci_cd_integration", "advanced_analytics"}
      /\ PlanQuotas["enterprise"].flags
           = {"custom_plugins", "ci_cd_integration", "advanced_analytics", "sso_enabled"}
  BY DEF PlanQuotas, FreeQuota, ProQuota, EnterpriseQuota, ProFlags
<1>3. /\ DOMAIN FlagOf = {"custom_plugins", "ci_cd_integration", "sso_enabled", "advanced_analytics"}
      /\ FlagOf["custom_plugins"] = "custom_plugins" /\ FlagOf["ci_cd_integration"] = "cicd_integration"
      /\ FlagOf["sso_enabled"] = "sso" /\ FlagOf["advanced_analytics"] = "advanced_analytics"
  BY DEF FlagOf
<1>4. RequireFeature(plan, FlagOf[flag])
        <=> (FlagOf[flag] \in DOMAIN FeatureGates => plan \in FeatureGates[FlagOf[flag]])
  BY DEF RequireFeature, IsFeatureAvailable
<1>5. CASE flag = "sso_enabled"
  BY <1>1, <1>2, <1>3, <1>4, <1>5 DEF Plans
<1>6. CASE flag = "custom_plugins"
  BY <1>1, <1>2, <1>3, <1>4, <1>6 DEF Plans
<1>7. CASE flag = "ci_cd_integration"
  BY <1>1, <1>2, <1>3, <1>4, <1>7 DEF Plans
<1>8. CASE flag = "advanced_analytics"
  BY <1>1, <1>2, <1>3, <1>4, <1>8 DEF Plans
<1>. QED  BY <1>3, <1>5, <1>6, <1>7, <1>8

\* The names of the tenant's resources are those of limits, and of no flags.
LEMMA NamesAreLimits ==
  ASSUME NEW plan \in Plans, NEW r \in DOMAIN QuotaNames
  PROVE  QuotaNames[r] \in DOMAIN PlanQuotas[plan].limits /\ QuotaNames[r] \notin DOMAIN FlagOf
<1>1. QuotaNames[r] \in {"max_schemas", "max_scenarios_per_schema", "max_concurrent_executions",
                         "max_team_members", "distributed_workers"}
  BY DEF QuotaNames
<1>2. {"max_schemas", "max_scenarios_per_schema", "max_concurrent_executions", "max_team_members",
       "distributed_workers"} \subseteq DOMAIN PlanQuotas[plan].limits
  <2>1. CASE plan = "free"
    BY <2>1 DEF PlanQuotas, FreeQuota
  <2>2. CASE plan = "pro"
    BY <2>2 DEF PlanQuotas, ProQuota
  <2>3. CASE plan = "enterprise"
    BY <2>3 DEF PlanQuotas, EnterpriseQuota
  <2>. QED  BY <2>1, <2>2, <2>3 DEF Plans
<1>3. DOMAIN FlagOf = {"custom_plugins", "ci_cd_integration", "sso_enabled", "advanced_analytics"}
  BY DEF FlagOf
<1>. QED  BY <1>1, <1>2, <1>3

\* The tables agree for every tenant with the quota of its plan.
LEMMA QuotasAgree == TenantInv => PlansAgree
<1>. SUFFICES ASSUME TenantInv PROVE PlansAgree
  OBVIOUS
<1>1. \A p, q \in Plans : RequirePlan(p, {q}) <=> FeaturesFor(q) \subseteq FeaturesFor(p)
  BY PlansAreALadder
<1>2. ASSUME NEW t \in Tenants, tenants[t] # NoTenant
      PROVE  /\ \A flag \in DOMAIN FlagOf :
                  flag \in tenants[t].quota.flags <=> RequireFeature(tenants[t].plan, FlagOf[flag])
             /\ \A r \in DOMAIN QuotaNames, n \in {0, 1, 5, 50, 500} :
                  WithinQuota(t, r, n) <=> WithinPlan(tenants[t].plan, QuotaNames[r], n)
  <2>1. tenants[t].quota = PlanQuotas[tenants[t].plan] /\ tenants[t].plan \in Plans
    <3>1. tenants[t].quota = TenantQuotas[tenants[t].plan] /\ tenants[t].plan \in Plans
      BY <1>2 DEF TenantInv, TenantTypeOK, QuotaOfPlan, IsTenant
    <3>. QED  BY <3>1, TablesAgree
  <2>2. \A flag \in DOMAIN FlagOf :
          flag \in tenants[t].quota.flags <=> RequireFeature(tenants[t].plan, FlagOf[flag])
    BY <2>1, FlagsAreFeatures
  <2>3. ASSUME NEW r \in DOMAIN QuotaNames, NEW n
        PROVE  WithinQuota(t, r, n) <=> WithinPlan(tenants[t].plan, QuotaNames[r], n)
    <3>1. QuotaNames[r] \in DOMAIN PlanQuotas[tenants[t].plan].limits /\ QuotaNames[r] \notin DOMAIN FlagOf
      BY <2>1, NamesAreLimits
    <3>2. WithinPlan(tenants[t].plan, QuotaNames[r], n)
            <=> n < PlanQuotas[tenants[t].plan].limits[QuotaNames[r]]
      BY <3>1 DEF WithinPlan
    <3>3. WithinQuota(t, r, n) <=> n < tenants[t].quota.limits[QuotaNames[r]]
      BY <1>2, <2>3 DEF WithinQuota
    <3>. QED  BY <2>1, <3>2, <3>3
  <2>. QED  BY <2>2, <2>3
<1>. QED  BY <1>1, <1>2 DEF PlansAgree
--------------------------------------------------------------------------
(* Tenants: what the requests have in common.                            *)

\* What a new id is not.
LEMMA NewIdIsNew ==
  ASSUME TenantInv, lastId < MaxIds
  PROVE  /\ lastId + 1 \in Ids /\ lastId + 1 \in 0..MaxIds
         /\ \A t \in Tenants : \A m \in members[t] : m.id < lastId + 1
         /\ \A t \in Tenants : \A i \in invites[t] : i.id < lastId + 1
         /\ \A j \in DOMAIN spent : spent[j] < lastId + 1
<1>1. lastId \in Nat /\ MaxIds \in Nat
  BY TenantConstants DEF TenantInv, TenantTypeOK
<1>2. \A t \in Tenants : \A m \in members[t] : m.id \in Nat
  BY <1>1 DEF TenantInv, TenantTypeOK, Ids
<1>3. \A t \in Tenants : \A i \in invites[t] : i.id \in Nat
  BY <1>1 DEF TenantInv, TenantTypeOK, Ids
<1>4. \A j \in DOMAIN spent : spent[j] \in Nat
  BY <1>1 DEF TenantInv, TenantTypeOK, Ids
<1>. QED  BY <1>1, <1>2, <1>3, <1>4 DEF TenantInv, IdsGiven, Ids

\* Whoever joins is the youngest member of a team that had room.
LEMMA JoinSound ==
  ASSUME TenantInv, NEW t \in Tenants, IsTenant(t), NEW role \in Roles, NEW via \in 0..MaxIds,
         Join(t, role, via)
  PROVE  /\ members' \in [Tenants -> SUBSET [id : Ids, role : Roles, via : 0..MaxIds]]
         /\ lastId' \in 0..MaxIds /\ lastId <= lastId'
         /\ \A u \in Tenants : \A m \in members'[u] : m.id <= lastId'
         /\ \E m \in members'[t] : m.role = "owner" /\ m.via = 0 /\ \A o \in members'[t] : m.id <= o.id
         /\ IsFiniteSet(members'[t]) /\ Cardinality(members'[t]) <= ceiling[t]
         /\ \A u \in Tenants \ {t} : members'[u] = members[u]
         /\ \A m \in members'[t] : m \in members[t] \/ m.via = via
<1>. USE DEF TenantInv
<1>1. /\ lastId \in 0..MaxIds /\ lastId \in Nat /\ MaxIds \in Nat
      /\ members \in [Tenants -> SUBSET [id : Ids, role : Roles, via : 0..MaxIds]]
      /\ IsFiniteSet(members[t]) /\ Cardinality(members[t]) <= ceiling[t]
      /\ \A u \in Tenants : \A m \in members[u] : m.id <= lastId
      /\ HasOwner(t)
  BY TenantConstants DEF TenantTypeOK, TeamFits, IdsGiven
<1>2. CASE IsFull(t)
  BY <1>1, <1>2 DEF Join, HasOwner
<1>3. CASE ~IsFull(t)
  <2>. DEFINE new == [id |-> lastId + 1, role |-> role, via |-> via]
  <2>1. /\ lastId < MaxIds /\ lastId' = lastId + 1
        /\ members' = [members EXCEPT ![t] = @ \cup {new}]
    BY <1>3 DEF Join
  <2>2. new \in [id : Ids, role : Roles, via : 0..MaxIds]
    BY <2>1, NewIdIsNew
  <2>3. /\ members'[t] = members[t] \cup {new}
        /\ \A u \in Tenants \ {t} : members'[u] = members[u]
        /\ members' \in [Tenants -> SUBSET [id : Ids, role : Roles, via : 0..MaxIds]]
    BY <1>1, <2>1, <2>2
  <2>4. \A u \in Tenants : \A m \in members'[u] : m.id <= lastId'
    <3>1. ASSUME NEW u \in Tenants, NEW m \in members'[u] PROVE m.id <= lastId'
      <4>1. m \in members[u] \/ m.id = lastId + 1
        BY <2>3, <3>1
      <4>2. m.id \in Nat
        BY <1>1, <2>3, <3>1 DEF Ids
      <4>. QED  BY <1>1, <2>1, <4>1, <4>2
    <3>. QED  BY <3>1
  <2>5. \E m \in members'[t] : m.role = "owner" /\ m.via = 0 /\ \A o \in members'[t] : m.id <= o.id
    <3>1. PICK m \in members[t] : m.role = "owner" /\ m.via = 0 /\ \A o \in members[t] : m.id <= o.id
      BY <1>1 DEF HasOwner
    <3>2. m.id <= lastId + 1
      BY <1>1, <3>1 DEF Ids
    <3>3. m \in members'[t]
      BY <2>3, <3>1
    <3>4. ASSUME NEW o \in members'[t] PROVE m.id <= o.id
      <4>1. o \in members[t] \/ o = new
        BY <2>3
      <4>2. new.id = lastId + 1
        OBVIOUS
      <4>. HIDE DEF new
      <4>. QED  BY <3>1, <3>2, <4>1, <4>2
    <3>. QED  BY <3>1, <3>3, <3>4
  <2>6. IsFiniteSet(members'[t]) /\ Cardinality(members'[t]) <= ceiling[t]
    <3>1. new \notin members[t]
      BY <1>1
    <3>2. IsFiniteSet(members'[t]) /\ Cardinality(members'[t]) = Cardinality(members[t]) + 1
      <4>1. members'[t] = members[t] \cup {new} /\ IsFiniteSet(members[t])
        BY <1>1, <2>3
      <4>. HIDE DEF new
      <4>. QED  BY <3>1, <4>1, FS_AddElement
    <3>3. Cardinality(members[t]) < TeamSize[tenants[t].plan]
      <4>1. tenants[t].plan \in Plans /\ Size(t) = TeamSize[tenants[t].plan] /\ Size(t) \in Nat
        BY QuotaFields DEF Size, IsTenant, QuotaOfPlan, TenantTypeOK
      <4>2. Cardinality(members[t]) \in Nat
        BY <1>1, FS_CardinalityType
      <4>. QED  BY <1>3, <4>1, <4>2 DEF IsFull
    <3>4. TeamSize[tenants[t].plan] <= ceiling[t] /\ TeamSize[tenants[t].plan] \in Nat /\ ceiling[t] \in Nat
      BY QuotaFields DEF TeamFits, TenantTypeOK, IsTenant
    <3>5. Cardinality(members[t]) \in Nat
      BY <1>1, FS_CardinalityType
    <3>. QED  BY <3>2, <3>3, <3>4, <3>5
  <2>. QED  BY <1>1, <2>1, <2>3, <2>4, <2>5, <2>6
<1>. QED  BY <1>2, <1>3

\* The rest of the invariant when a team alone changes, and with it what there
\* may be of it.
LEMMA TeamsChanged ==
  ASSUME TenantInv, NEW t \in Tenants,
         UNCHANGED <<tenants, invites, spent>>, IsTenant(t),
         ceiling' \in [Tenants -> Nat], TeamSize[tenants[t].plan] <= ceiling'[t],
         \A u \in Tenants \ {t} : ceiling'[u] = ceiling[u],
         members' \in [Tenants -> SUBSET [id : Ids, role : Roles, via : 0..MaxIds]],
         lastId' \in 0..MaxIds, lastId <= lastId',
         \A u \in Tenants : \A m \in members'[u] : m.id <= lastId',
         HasOwner(t)',
         IsFiniteSet(members'[t]), Cardinality(members'[t]) <= ceiling'[t],
         \A u \in Tenants \ {t} : members'[u] = members[u],
         \A m \in members'[t] : m.via = 0 \/ \E o \in members[t] : o.via = m.via
  PROVE  TenantInv'
<1>. USE DEF TenantInv
<1>1. TenantTypeOK' /\ QuotaOfPlan' /\ InvitesSpentOnce'
  BY DEF TenantTypeOK, QuotaOfPlan, InvitesSpentOnce, IsTenant
<1>2. IdsGiven'
  <2>0. lastId \in Nat /\ lastId' \in Nat
    BY TenantConstants DEF TenantTypeOK
  <2>1. \A u \in Tenants : \A i \in invites[u] : i.id \in Nat
    BY TenantConstants DEF TenantTypeOK, Ids
  <2>2. \A j \in DOMAIN spent : spent[j] \in Nat
    BY TenantConstants DEF TenantTypeOK, Ids
  <2>3. \A u \in Tenants : \A i \in invites[u] : i.id <= lastId'
    BY <2>0, <2>1 DEF IdsGiven
  <2>4. \A j \in DOMAIN spent : spent[j] <= lastId'
    BY <2>0, <2>2 DEF IdsGiven
  <2>. QED  BY <2>3, <2>4 DEF IdsGiven
<1>3. ASSUME NEW u \in Tenants
      PROVE  (IsTenant(u)' => HasOwner(u)') /\ TeamFits(u)' /\ CameByInvite(u)'
  <2>1. CASE u = t
    <3>1. CameByInvite(t)'
      BY DEF CameByInvite, IsTenant
    <3>2. TeamFits(t)'
      BY DEF TeamFits, IsTenant
    <3>. QED  BY <2>1, <3>1, <3>2
  <2>2. CASE u # t
    <3>1. members'[u] = members[u] /\ ceiling'[u] = ceiling[u]
      BY <2>2
    <3>2. (IsTenant(u) => HasOwner(u)) /\ TeamFits(u) /\ CameByInvite(u)
      OBVIOUS
    <3>. QED  BY <3>1, <3>2 DEF IsTenant, HasOwner, TeamFits, CameByInvite
  <2>. QED  BY <2>1, <2>2
<1>. QED  BY <1>1, <1>2, <1>3
--------------------------------------------------------------------------
(* Tenants: one lemma for each request.                                  *)

LEMMA CreateTenantInv ==
  ASSUME TenantInv, NEW t \in Tenants, NEW plan \in Plans, CreateTenant(t, plan)
  PROVE  TenantInv'
<1>. USE DEF TenantInv
<1>. DEFINE owner == [id |-> lastId + 1, role |-> "owner", via |-> 0]
<1>1. /\ lastId \in Nat /\ MaxIds \in Nat /\ lastId' = lastId + 1
      /\ lastId + 1 \in Ids /\ lastId' \in 0..MaxIds
      /\ TeamSize[plan] \in Nat \ {0} /\ TenantQuotas[plan] \in Quotas
      /\ TenantQuotas[plan].limits.max_team_members = TeamSize[plan]
  BY TenantConstants, NewIdIsNew, QuotaFields DEF CreateTenant, TenantTypeOK
<1>2. /\ members' = [members EXCEPT ![t] = {owner}]
      /\ invites' = [invites EXCEPT ![t] = {}]
      /\ ceiling' = [ceiling EXCEPT ![t] = TeamSize[plan]]
      /\ tenants' = [tenants EXCEPT ![t] = [plan |-> plan, quota |-> TenantQuotas[plan], status |-> "active"]]
      /\ spent' = spent
  BY <1>1 DEF CreateTenant
<1>3. owner \in [id : Ids, role : Roles, via : 0..MaxIds]
  BY <1>1, TenantConstants DEF Roles
<1>. HIDE DEF owner
<1>4. TenantTypeOK'
  BY <1>1, <1>2, <1>3 DEF TenantTypeOK
<1>5. QuotaOfPlan'
  BY <1>2 DEF QuotaOfPlan, IsTenant, TenantTypeOK
<1>6. /\ \A u \in Tenants : invites'[u] \subseteq invites[u]
      /\ \A u \in Tenants \ {t} : members'[u] = members[u] /\ ceiling'[u] = ceiling[u]
                                  /\ tenants'[u] = tenants[u] /\ invites'[u] = invites[u]
      /\ members'[t] = {owner} /\ ceiling'[t] = TeamSize[plan] /\ tenants'[t].plan = plan
  BY <1>2 DEF TenantTypeOK
<1>7. owner.id = lastId + 1 /\ owner.role = "owner" /\ owner.via = 0
  BY DEF owner
<1>8. IdsGiven'
  <2>1. ASSUME NEW u \in Tenants, NEW m \in members'[u] PROVE m.id <= lastId + 1
    <3>1. CASE u = t
      BY <1>1, <1>6, <1>7, <2>1, <3>1
    <3>2. CASE u # t
      <4>1. m \in members[u]
        BY <1>6, <2>1, <3>2
      <4>2. m.id \in Nat /\ m.id <= lastId
        BY <4>1, TenantConstants DEF TenantTypeOK, Ids, IdsGiven
      <4>. QED  BY <1>1, <4>2
    <3>. QED  BY <3>1, <3>2
  <2>2. ASSUME NEW u \in Tenants, NEW i \in invites'[u] PROVE i.id <= lastId + 1
    <3>1. i \in invites[u]
      BY <1>6, <2>2
    <3>2. i.id \in Nat /\ i.id <= lastId
      BY <3>1, TenantConstants DEF TenantTypeOK, Ids, IdsGiven
    <3>. QED  BY <1>1, <3>2
  <2>3. \A j \in DOMAIN spent : spent[j] <= lastId + 1
    <3>1. \A j \in DOMAIN spent : spent[j] \in Nat /\ spent[j] <= lastId
      BY TenantConstants DEF TenantTypeOK, Ids, IdsGiven
    <3>. QED  BY <1>1, <3>1
  <2>. QED  BY <1>1, <1>2, <1>6, <2>1, <2>2, <2>3 DEF IdsGiven
<1>9. InvitesSpentOnce'
  BY <1>2, <1>6 DEF InvitesSpentOnce
<1>10. ASSUME NEW u \in Tenants
       PROVE  (IsTenant(u)' => HasOwner(u)') /\ TeamFits(u)' /\ CameByInvite(u)'
  <2>1. CASE u = t
    <3>1. HasOwner(t)'
      BY <1>1, <1>6, <1>7 DEF HasOwner
    <3>2. IsFiniteSet({owner}) /\ Cardinality({owner}) = 1
      BY FS_Singleton
    <3>3. TeamFits(t)'
      BY <1>1, <1>6, <3>2 DEF TeamFits
    <3>4. CameByInvite(t)'
      <4>1. tenants'[t] = [plan |-> plan, quota |-> TenantQuotas[plan], status |-> "active"]
        BY <1>2 DEF TenantTypeOK
      <4>2. IsTenant(t)'
        BY <1>1, <4>1, TenantConstants DEF IsTenant
      <4>. QED  BY <1>6, <1>7, <4>2 DEF CameByInvite
    <3>. QED  BY <2>1, <3>1, <3>3, <3>4
  <2>2. CASE u # t
    BY <1>6, <2>2 DEF IsTenant, HasOwner, TeamFits, CameByInvite
  <2>. QED  BY <2>1, <2>2
<1>. QED  BY <1>4, <1>5, <1>8, <1>9, <1>10

LEMMA UpdatePlanInv ==
  ASSUME TenantInv, NEW t \in Tenants, NEW plan \in Plans, UpdatePlan(t, plan)
  PROVE  TenantInv'
<1>. USE DEF TenantInv
<1>1. /\ TeamSize[plan] \in Nat \ {0} /\ TenantQuotas[plan] \in Quotas
      /\ TenantQuotas[plan].limits.max_team_members = TeamSize[plan]
      /\ tenants[t] \in [plan : Plans, quota : Quotas, status : {"active", "suspended"}]
      /\ IsFiniteSet(members[t]) /\ Cardinality(members[t]) \in Nat
  BY QuotaFields, FS_CardinalityType DEF UpdatePlan, TenantTypeOK, TeamFits
<1>2. /\ tenants' = [tenants EXCEPT ![t].plan = plan, ![t].quota = TenantQuotas[plan]]
      /\ ceiling' = [ceiling EXCEPT ![t] = AtLeast(Cardinality(members[t]), TeamSize[plan])]
      /\ UNCHANGED <<members, invites, lastId, spent>> /\ IsTenant(t)
  BY <1>1 DEF UpdatePlan, IsTenant
<1>3. /\ tenants'[t] \in [plan : Plans, quota : Quotas, status : {"active", "suspended"}]
      /\ tenants'[t].plan = plan /\ tenants'[t].quota = TenantQuotas[plan]
      /\ \A u \in Tenants \ {t} : tenants'[u] = tenants[u] /\ ceiling'[u] = ceiling[u]
      /\ ceiling'[t] \in Nat /\ TeamSize[plan] <= ceiling'[t]
      /\ Cardinality(members[t]) <= ceiling'[t]
  <2>1. /\ \A u \in Tenants \ {t} : tenants'[u] = tenants[u] /\ ceiling'[u] = ceiling[u]
        /\ tenants'[t] = [[tenants[t] EXCEPT !.plan = plan] EXCEPT !.quota = TenantQuotas[plan]]
        /\ ceiling'[t] = AtLeast(Cardinality(members[t]), TeamSize[plan])
    BY <1>2 DEF TenantTypeOK
  <2>2. /\ tenants'[t] \in [plan : Plans, quota : Quotas, status : {"active", "suspended"}]
        /\ tenants'[t].plan = plan /\ tenants'[t].quota = TenantQuotas[plan]
    BY <1>1, <2>1
  <2>3. /\ ceiling'[t] \in Nat /\ TeamSize[plan] <= ceiling'[t]
        /\ Cardinality(members[t]) <= ceiling'[t]
    BY <1>1, <2>1 DEF AtLeast
  <2>. QED  BY <2>1, <2>2, <2>3
<1>4. TenantTypeOK'
  <2>1. DOMAIN tenants' = Tenants /\ DOMAIN ceiling' = Tenants
    BY <1>2 DEF TenantTypeOK
  <2>2. tenants' \in [Tenants -> [plan : Plans, quota : Quotas, status : {"active", "suspended"}] \cup {NoTenant}]
    BY <1>2, <1>3, <2>1 DEF TenantTypeOK
  <2>3. ceiling' \in [Tenants -> Nat]
    BY <1>2, <1>3, <2>1 DEF TenantTypeOK
  <2>. QED  BY <1>2, <2>2, <2>3 DEF TenantTypeOK
<1>5. QuotaOfPlan' /\ IdsGiven' /\ InvitesSpentOnce'
  <2>1. ASSUME NEW u \in Tenants, tenants'[u] # NoTenant
        PROVE  tenants'[u].quota = TenantQuotas[tenants'[u].plan]
    <3>1. CASE u = t
      BY <1>3, <3>1
    <3>2. CASE u # t
      <4>1. tenants'[u] = tenants[u]
        BY <1>3, <3>2
      <4>. QED  BY <2>1, <4>1 DEF QuotaOfPlan, IsTenant
    <3>. QED  BY <3>1, <3>2
  <2>2. IdsGiven' /\ InvitesSpentOnce'
    BY <1>2 DEF IdsGiven, InvitesSpentOnce
  <2>. QED  BY <2>1, <2>2 DEF QuotaOfPlan, IsTenant
<1>6. ASSUME NEW u \in Tenants
      PROVE  (IsTenant(u)' => HasOwner(u)') /\ TeamFits(u)' /\ CameByInvite(u)'
  <2>1. HasOwner(u)' <=> HasOwner(u)
    BY <1>2 DEF HasOwner
  <2>2. CameByInvite(u)'
    <3>1. IsTenant(u) => IsTenant(u)'
      BY <1>3, TenantConstants DEF IsTenant
    <3>. QED  BY <1>2, <3>1 DEF CameByInvite
  <2>3. CASE u = t
    <3>1. TeamFits(t)'
      BY <1>1, <1>2, <1>3 DEF TeamFits
    <3>. QED  BY <1>2, <2>1, <2>2, <2>3, <3>1
  <2>4. CASE u # t
    BY <1>2, <1>3, <2>1, <2>2, <2>4 DEF TeamFits, IsTenant
  <2>. QED  BY <2>3, <2>4
<1>. QED  BY <1>4, <1>5, <1>6

LEMMA SuspendTenantInv ==
  ASSUME TenantInv, NEW t \in Tenants, SuspendTenant(t)
  PROVE  TenantInv'
<1>. USE DEF TenantInv
<1>1. /\ tenants[t] \in [plan : Plans, quota : Quotas, status : {"active", "suspended"}]
      /\ tenants' = [tenants EXCEPT ![t].status = "suspended"] /\ IsTenant(t)
      /\ UNCHANGED <<members, invites, lastId, ceiling, spent>>
  BY DEF SuspendTenant, TenantTypeOK, IsTenant
<1>2. /\ tenants'[t] \in [plan : Plans, quota : Quotas, status : {"active", "suspended"}]
      /\ tenants'[t].plan = tenants[t].plan /\ tenants'[t].quota = tenants[t].quota
      /\ \A u \in Tenants \ {t} : tenants'[u] = tenants[u]
      /\ DOMAIN tenants' = Tenants
  BY <1>1 DEF TenantTypeOK
<1>3. TenantTypeOK'
  <2>1. tenants' \in [Tenants -> [plan : Plans, quota : Quotas, status : {"active", "suspended"}] \cup {NoTenant}]
    BY <1>1, <1>2 DEF TenantTypeOK
  <2>. QED  BY <1>1, <2>1 DEF TenantTypeOK
<1>4. QuotaOfPlan' /\ IdsGiven' /\ InvitesSpentOnce'
  BY <1>1, <1>2 DEF QuotaOfPlan, IdsGiven, InvitesSpentOnce, IsTenant
<1>5. \A u \in Tenants : (IsTenant(u)' <=> IsTenant(u)) /\ tenants'[u].plan = tenants[u].plan
  BY <1>1, <1>2, TenantConstants DEF IsTenant
<1>6. \A u \in Tenants : (IsTenant(u)' => HasOwner(u)') /\ TeamFits(u)' /\ CameByInvite(u)'
  BY <1>1, <1>5 DEF HasOwner, TeamFits, CameByInvite
<1>. QED  BY <1>3, <1>4, <1>6

LEMMA AddMemberInv ==
  ASSUME TenantInv, NEW t \in Tenants, NEW role \in Roles, AddMember(t, role)
  PROVE  TenantInv'
<1>1. /\ IsTenant(t) /\ Join(t, role, 0) /\ 0 \in 0..MaxIds
      /\ UNCHANGED <<tenants, invites, ceiling, spent>>
  BY TenantConstants DEF AddMember, IsTenant
<1>2. /\ members' \in [Tenants -> SUBSET [id : Ids, role : Roles, via : 0..MaxIds]]
      /\ lastId' \in 0..MaxIds /\ lastId <= lastId'
      /\ \A u \in Tenants : \A m \in members'[u] : m.id <= lastId'
      /\ \E m \in members'[t] : m.role = "owner" /\ m.via = 0 /\ \A o \in members'[t] : m.id <= o.id
      /\ IsFiniteSet(members'[t]) /\ Cardinality(members'[t]) <= ceiling[t]
      /\ \A u \in Tenants \ {t} : members'[u] = members[u]
      /\ \A m \in members'[t] : m \in members[t] \/ m.via = 0
  BY <1>1, JoinSound
<1>3. HasOwner(t)'
  BY <1>2 DEF HasOwner
<1>4. ceiling' \in [Tenants -> Nat] /\ TeamSize[tenants[t].plan] <= ceiling'[t]
  BY <1>1 DEF TenantInv, TenantTypeOK, TeamFits
<1>. QED  BY <1>1, <1>2, <1>3, <1>4, TeamsChanged

LEMMA RemoveMemberInv ==
  ASSUME TenantInv, NEW t \in Tenants, NEW m \in members[t], RemoveMember(t, m)
  PROVE  TenantInv'
<1>. USE DEF TenantInv
<1>1. /\ members' = [members EXCEPT ![t] = @ \ {m}] /\ m.role # "owner"
      /\ ceiling' = [ceiling EXCEPT ![t] = AtLeast(Cardinality(members'[t]), Size(t))]
      /\ UNCHANGED <<tenants, invites, lastId, spent>> /\ IsTenant(t)
  BY DEF RemoveMember, CameByInvite
<1>2. /\ members'[t] = members[t] \ {m}
      /\ \A u \in Tenants \ {t} : members'[u] = members[u]
      /\ members' \in [Tenants -> SUBSET [id : Ids, role : Roles, via : 0..MaxIds]]
  BY <1>1 DEF TenantTypeOK
<1>3. HasOwner(t)'
  BY <1>1, <1>2 DEF HasOwner
<1>4. /\ IsFiniteSet(members'[t]) /\ Cardinality(members'[t]) <= ceiling'[t]
      /\ ceiling' \in [Tenants -> Nat] /\ TeamSize[tenants[t].plan] <= ceiling'[t]
      /\ \A u \in Tenants \ {t} : ceiling'[u] = ceiling[u]
  <2>1. IsFiniteSet(members'[t]) /\ Cardinality(members'[t]) \in Nat
    BY <1>2, FS_Subset, FS_CardinalityType DEF TeamFits
  <2>2. Size(t) = TeamSize[tenants[t].plan] /\ Size(t) \in Nat
    BY <1>1, QuotaFields DEF Size, IsTenant, QuotaOfPlan, TenantTypeOK
  <2>3. /\ AtLeast(Cardinality(members'[t]), Size(t)) \in Nat
        /\ Cardinality(members'[t]) <= AtLeast(Cardinality(members'[t]), Size(t))
        /\ Size(t) <= AtLeast(Cardinality(members'[t]), Size(t))
    BY <2>1, <2>2 DEF AtLeast
  <2>4. ceiling \in [Tenants -> Nat]
    BY DEF TenantTypeOK
  <2>. QED  BY <1>1, <2>1, <2>2, <2>3, <2>4
<1>5. /\ lastId' \in 0..MaxIds /\ lastId <= lastId'
      /\ \A u \in Tenants : \A o \in members'[u] : o.id <= lastId'
  BY <1>1, <1>2, TenantConstants DEF TenantTypeOK, IdsGiven
<1>. QED  BY <1>1, <1>2, <1>3, <1>4, <1>5, TeamsChanged

LEMMA UpdateMemberRoleInv ==
  ASSUME TenantInv, NEW t \in Tenants, NEW m \in members[t], NEW role \in Roles,
         UpdateMemberRole(t, m, role)
  PROVE  TenantInv'
<1>. USE DEF TenantInv
<1>. DEFINE new == [m EXCEPT !.role = role]
<1>0. /\ m \in [id : Ids, role : Roles, via : 0..MaxIds] /\ m.role # "owner"
      /\ members' = [members EXCEPT ![t] = (@ \ {m}) \cup {new}]
      /\ UNCHANGED <<tenants, invites, lastId, ceiling, spent>> /\ IsTenant(t)
  BY DEF UpdateMemberRole, TenantTypeOK, CameByInvite
<1>1. new \in [id : Ids, role : Roles, via : 0..MaxIds] /\ new.id = m.id /\ new.via = m.via
  BY <1>0
<1>. HIDE DEF new
<1>2. /\ members'[t] = (members[t] \ {m}) \cup {new}
      /\ \A u \in Tenants \ {t} : members'[u] = members[u]
      /\ members' \in [Tenants -> SUBSET [id : Ids, role : Roles, via : 0..MaxIds]]
  BY <1>0, <1>1 DEF TenantTypeOK
<1>3. HasOwner(t)'
  <2>1. PICK o \in members[t] : o.role = "owner" /\ o.via = 0 /\ \A p \in members[t] : o.id <= p.id
    BY <1>0 DEF HasOwner
  <2>2. o \in members'[t] /\ o.id <= new.id
    BY <1>0, <1>1, <1>2, <2>1
  <2>. QED  BY <1>2, <2>1, <2>2 DEF HasOwner
<1>4. IsFiniteSet(members'[t]) /\ Cardinality(members'[t]) <= ceiling[t]
  <2>1. IsFiniteSet(members[t]) /\ Cardinality(members[t]) <= ceiling[t] /\ ceiling[t] \in Nat
    BY DEF TeamFits, TenantTypeOK
  <2>2. IsFiniteSet(members[t] \ {m}) /\ Cardinality(members[t] \ {m}) = Cardinality(members[t]) - 1
    BY <2>1, FS_RemoveElement
  <2>3. Cardinality(members[t]) \in Nat
    BY <2>1, FS_CardinalityType
  <2>4. CASE new \in members[t] \ {m}
    <3>1. members'[t] = members[t] \ {m}
      BY <1>2, <2>4
    <3>. QED  BY <2>1, <2>2, <2>3, <3>1
  <2>5. CASE new \notin members[t] \ {m}
    <3>. DEFINE rest == members[t] \ {m}
    <3>0. IsFiniteSet(rest) /\ new \notin rest /\ members'[t] = rest \cup {new}
      BY <1>2, <2>2, <2>5
    <3>. HIDE DEF rest
    <3>1. IsFiniteSet(members'[t]) /\ Cardinality(members'[t]) = Cardinality(rest) + 1
      BY <3>0, FS_AddElement
    <3>. USE DEF rest
    <3>. QED  BY <2>1, <2>2, <2>3, <3>1
  <2>. QED  BY <2>4, <2>5
<1>5. /\ lastId' \in 0..MaxIds /\ lastId <= lastId'
      /\ \A u \in Tenants : \A o \in members'[u] : o.id <= lastId'
  BY <1>0, <1>1, <1>2, TenantConstants DEF TenantTypeOK, IdsGiven
<1>6. \A o \in members'[t] : o.via = 0 \/ \E p \in members[t] : p.via = o.via
  BY <1>1, <1>2
<1>7. ceiling' \in [Tenants -> Nat] /\ TeamSize[tenants[t].plan] <= ceiling'[t]
  BY <1>0 DEF TenantTypeOK, TeamFits
<1>. QED  BY <1>0, <1>2, <1>3, <1>4, <1>5, <1>6, <1>7, TeamsChanged

LEMMA CreateInviteInv ==
  ASSUME TenantInv, NEW t \in Tenants, NEW role \in Roles, CreateInvite(t, role)
  PROVE  TenantInv'
<1>. USE DEF TenantInv
<1>. DEFINE new == [id |-> lastId + 1, role |-> role, accepted |-> FALSE]
<1>1. /\ lastId \in Nat /\ MaxIds \in Nat /\ lastId' = lastId + 1 /\ lastId' \in 0..MaxIds
      /\ invites' = [invites EXCEPT ![t] = @ \cup {new}]
      /\ UNCHANGED <<tenants, members, ceiling, spent>> /\ IsTenant(t)
  BY TenantConstants, NewIdIsNew DEF CreateInvite, TenantTypeOK, IsTenant
<1>2. /\ new \in [id : Ids, role : Roles, accepted : BOOLEAN] /\ new.id = lastId + 1
      /\ new.accepted = FALSE
  BY <1>1, NewIdIsNew DEF CreateInvite
<1>. HIDE DEF new
<1>3. /\ invites'[t] = invites[t] \cup {new}
      /\ \A u \in Tenants \ {t} : invites'[u] = invites[u]
      /\ invites' \in [Tenants -> SUBSET [id : Ids, role : Roles, accepted : BOOLEAN]]
  BY <1>1, <1>2 DEF TenantTypeOK
<1>4. /\ \A u \in Tenants : \A m \in members[u] : m.id \in Nat /\ m.id <= lastId
      /\ \A u \in Tenants : \A i \in invites[u] : i.id \in Nat /\ i.id <= lastId
      /\ \A j \in DOMAIN spent : spent[j] \in Nat /\ spent[j] <= lastId
  <2>1. \A u \in Tenants : \A m \in members[u] : m.id \in Nat
    BY TenantConstants DEF TenantTypeOK, Ids
  <2>2. \A u \in Tenants : \A i \in invites[u] : i.id \in Nat
    BY TenantConstants DEF TenantTypeOK, Ids
  <2>3. \A j \in DOMAIN spent : spent[j] \in Nat
    BY TenantConstants DEF TenantTypeOK, Ids
  <2>. QED  BY <2>1, <2>2, <2>3 DEF IdsGiven
<1>5. \A u \in Tenants : \A i \in invites'[u] : i \in invites[u] \/ (u = t /\ i = new)
  BY <1>3
<1>6. IdsGiven'
  <2>1. \A u \in Tenants : \A m \in members[u] : m.id <= lastId + 1
    BY <1>1, <1>4
  <2>2. \A u \in Tenants : \A i \in invites'[u] : i.id <= lastId + 1
    BY <1>1, <1>2, <1>4, <1>5
  <2>3. \A j \in DOMAIN spent : spent[j] <= lastId + 1
    BY <1>1, <1>4
  <2>4. ASSUME NEW u \in Tenants, NEW v \in Tenants, NEW i \in invites'[u], NEW j \in invites'[v],
               i.id = j.id
        PROVE  u = v /\ i = j
    <3>1. \A w \in Tenants : \A k \in invites[w] : k.id # new.id
      BY <1>1, <1>2, <1>4
    <3>2. CASE i \in invites[u] /\ j \in invites[v]
      BY <2>4, <3>2 DEF IdsGiven
    <3>3. CASE i \notin invites[u] \/ j \notin invites[v]
      BY <1>5, <2>4, <3>1, <3>3
    <3>. QED  BY <3>2, <3>3
  <2>. QED  BY <1>1, <2>1, <2>2, <2>3, <2>4 DEF IdsGiven
<1>7. InvitesSpentOnce'
  <2>1. \A j \in DOMAIN spent : spent[j] # new.id
    BY <1>1, <1>2, <1>4
  <2>. QED  BY <1>1, <1>5, <2>1 DEF InvitesSpentOnce
<1>8. TenantTypeOK' /\ QuotaOfPlan'
  BY <1>1, <1>3 DEF TenantTypeOK, QuotaOfPlan, IsTenant
<1>9. ASSUME NEW u \in Tenants
      PROVE  (IsTenant(u)' => HasOwner(u)') /\ TeamFits(u)' /\ CameByInvite(u)'
  <2>1. (IsTenant(u)' => HasOwner(u)') /\ TeamFits(u)'
    BY <1>1 DEF IsTenant, HasOwner, TeamFits
  <2>2. CameByInvite(u)'
    <3>1. invites[u] \subseteq invites'[u] /\ (u # t => invites'[u] = invites[u])
      BY <1>3
    <3>. QED  BY <1>1, <3>1 DEF CameByInvite, IsTenant
  <2>. QED  BY <2>1, <2>2
<1>. QED  BY <1>6, <1>7, <1>8, <1>9

LEMMA AcceptInviteInv ==
  ASSUME TenantInv, NEW t \in Tenants, NEW i \in invites[t], AcceptInvite(t, i)
  PROVE  TenantInv'
<1>. USE DEF TenantInv
<1>. DEFINE done == [i EXCEPT !.accepted = TRUE]
<1>1. /\ i \in [id : Ids, role : Roles, accepted : BOOLEAN] /\ ~i.accepted
      /\ i.id \in 0..MaxIds /\ IsTenant(t) /\ Join(t, i.role, i.id)
      /\ invites' = [invites EXCEPT ![t] = (@ \ {i}) \cup {done}]
      /\ UNCHANGED <<tenants, ceiling>>
  <2>1. i \in [id : Ids, role : Roles, accepted : BOOLEAN]
    BY DEF TenantTypeOK
  <2>2. i.id \in 0..MaxIds
    BY <2>1, TenantConstants DEF Ids
  <2>. QED  BY <2>1, <2>2 DEF AcceptInvite, CameByInvite
<1>2. /\ done \in [id : Ids, role : Roles, accepted : BOOLEAN]
      /\ done.id = i.id /\ done.accepted = TRUE
  BY <1>1
<1>3. spent' = spent \/ spent' = Append(spent, i.id)
  BY DEF AcceptInvite
<1>. HIDE DEF done
<1>4. /\ invites'[t] = (invites[t] \ {i}) \cup {done}
      /\ \A u \in Tenants \ {t} : invites'[u] = invites[u]
      /\ invites' \in [Tenants -> SUBSET [id : Ids, role : Roles, accepted : BOOLEAN]]
  BY <1>1, <1>2 DEF TenantTypeOK
<1>5. /\ members' \in [Tenants -> SUBSET [id : Ids, role : Roles, via : 0..MaxIds]]
      /\ lastId' \in 0..MaxIds /\ lastId <= lastId'
      /\ \A u \in Tenants : \A m \in members'[u] : m.id <= lastId'
      /\ \E m \in members'[t] : m.role = "owner" /\ m.via = 0 /\ \A o \in members'[t] : m.id <= o.id
      /\ IsFiniteSet(members'[t]) /\ Cardinality(members'[t]) <= ceiling[t]
      /\ \A u \in Tenants \ {t} : members'[u] = members[u]
      /\ \A m \in members'[t] : m \in members[t] \/ m.via = i.id
  <2>1. i.role \in Roles
    BY <1>1
  <2>. QED  BY <1>1, <2>1, JoinSound
<1>6. \A u \in Tenants : \A j \in invites'[u] :
        \E k \in invites[u] : k.id = j.id /\ (k.accepted => j.accepted) /\ (j = k \/ (u = t /\ k = i /\ j = done))
  BY <1>2, <1>4
<1>7. /\ spent' \in Seq(Ids)
      /\ \A j \in DOMAIN spent' : (j \in DOMAIN spent /\ spent'[j] = spent[j]) \/ spent'[j] = i.id
      /\ \A j, k \in DOMAIN spent' : spent'[j] = spent'[k] => j = k
  <2>0. spent \in Seq(Ids) /\ i.id \in Ids
    BY <1>1 DEF TenantTypeOK
  <2>1. CASE spent' = spent
    BY <2>0, <2>1 DEF InvitesSpentOnce
  <2>2. CASE spent' = Append(spent, i.id)
    <3>1. /\ spent' \in Seq(Ids) /\ DOMAIN spent' = 1..(Len(spent) + 1) /\ DOMAIN spent = 1..Len(spent)
          /\ Len(spent) \in Nat
          /\ \A j \in 1..Len(spent) : spent'[j] = spent[j]
          /\ spent'[Len(spent) + 1] = i.id
      BY <2>0, <2>2
    <3>2. \A j \in DOMAIN spent : spent[j] # i.id
      BY <1>1 DEF InvitesSpentOnce
    <3>3. \A j \in DOMAIN spent' : j \in 1..Len(spent) \/ j = Len(spent) + 1
      BY <3>1
    <3>. QED  BY <3>1, <3>2, <3>3 DEF InvitesSpentOnce
  <2>. QED  BY <1>3, <2>1, <2>2
<1>8. IdsGiven'
  <2>0. lastId \in Nat /\ lastId' \in Nat
    BY <1>5, TenantConstants DEF TenantTypeOK
  <2>1. \A u \in Tenants : \A j \in invites[u] : j.id \in Nat /\ j.id <= lastId'
    <3>1. \A u \in Tenants : \A j \in invites[u] : j.id \in Nat
      BY TenantConstants DEF TenantTypeOK, Ids
    <3>. QED  BY <1>5, <2>0, <3>1 DEF IdsGiven
  <2>2. \A u \in Tenants : \A j \in invites'[u] : j.id <= lastId'
    BY <1>6, <2>1
  <2>3. \A j \in DOMAIN spent' : spent'[j] <= lastId'
    <3>1. \A j \in DOMAIN spent : spent[j] \in Nat
      BY TenantConstants DEF TenantTypeOK, Ids
    <3>2. \A j \in DOMAIN spent : spent[j] <= lastId'
      BY <1>5, <2>0, <3>1 DEF IdsGiven
    <3>. QED  BY <1>7, <2>1, <3>2
  <2>4. ASSUME NEW u \in Tenants, NEW v \in Tenants, NEW j \in invites'[u], NEW k \in invites'[v],
               j.id = k.id
        PROVE  u = v /\ j = k
    <3>1. PICK j0 \in invites[u] : j0.id = j.id /\ (j = j0 \/ (u = t /\ j0 = i /\ j = done))
      BY <1>6, <2>4
    <3>2. PICK k0 \in invites[v] : k0.id = k.id /\ (k = k0 \/ (v = t /\ k0 = i /\ k = done))
      BY <1>6, <2>4
    <3>3. u = v /\ j0 = k0
      BY <2>4, <3>1, <3>2 DEF IdsGiven
    <3>4. i \in invites'[t] => i = done
      BY <1>4
    <3>. QED  BY <2>4, <3>1, <3>2, <3>3, <3>4
  <2>. QED  BY <1>5, <2>2, <2>3, <2>4 DEF IdsGiven
<1>9. InvitesSpentOnce'
  <2>1. ASSUME NEW u \in Tenants, NEW j \in invites'[u], NEW n \in DOMAIN spent', spent'[n] = j.id
        PROVE  j.accepted
    <3>1. PICK k \in invites[u] : k.id = j.id /\ (k.accepted => j.accepted)
                                  /\ (j = k \/ (u = t /\ k = i /\ j = done))
      BY <1>6, <2>1
    <3>2. CASE n \in DOMAIN spent /\ spent'[n] = spent[n]
      BY <2>1, <3>1, <3>2 DEF InvitesSpentOnce
    <3>3. CASE spent'[n] = i.id
      <4>1. k = i /\ u = t
        BY <2>1, <3>1, <3>3 DEF IdsGiven
      <4>2. j = done
        BY <1>4, <3>1, <4>1
      <4>. QED  BY <1>2, <4>2
    <3>. QED  BY <1>7, <3>2, <3>3
  <2>. QED  BY <1>7, <2>1 DEF InvitesSpentOnce
<1>10. TenantTypeOK' /\ QuotaOfPlan'
  BY <1>1, <1>4, <1>5, <1>7 DEF TenantTypeOK, QuotaOfPlan, IsTenant
<1>11. ASSUME NEW u \in Tenants
       PROVE  (IsTenant(u)' => HasOwner(u)') /\ TeamFits(u)' /\ CameByInvite(u)'
  <2>1. CASE u = t
    <3>1. HasOwner(t)'
      BY <1>5 DEF HasOwner
    <3>2. TeamFits(t)'
      BY <1>1, <1>5 DEF TeamFits, IsTenant
    <3>3. CameByInvite(t)'
      <4>1. ASSUME NEW m \in members'[t], m.via # 0
            PROVE  \E j \in invites'[t] : j.id = m.via /\ j.accepted
        <5>1. CASE m.via = i.id
          BY <1>2, <1>4, <5>1
        <5>2. CASE m \in members[t]
          <6>1. PICK j \in invites[t] : j.id = m.via /\ j.accepted
            BY <4>1, <5>2 DEF CameByInvite
          <6>2. j \in invites'[t]
            BY <1>1, <1>4, <6>1
          <6>. QED  BY <6>1, <6>2
        <5>. QED  BY <1>5, <5>1, <5>2
      <4>. QED  BY <1>1, <4>1 DEF CameByInvite, IsTenant
    <3>. QED  BY <2>1, <3>1, <3>2, <3>3
  <2>2. CASE u # t
    <3>1. members'[u] = members[u] /\ invites'[u] = invites[u]
      BY <1>4, <1>5, <2>2
    <3>. QED  BY <1>1, <3>1 DEF IsTenant, HasOwner, TeamFits, CameByInvite
  <2>. QED  BY <2>1, <2>2
<1>. QED  BY <1>8, <1>9, <1>10, <1>11
--------------------------------------------------------------------------
LEMMA TenantInitInv == TenantInit => TenantInv
<1>. SUFFICES ASSUME TenantInit PROVE TenantInv
  OBVIOUS
<1>1. TenantTypeOK
  BY TenantConstants DEF TenantInit, TenantTypeOK
<1>2. \A t \in Tenants : ~IsTenant(t) /\ members[t] = {} /\ invites[t] = {} /\ ceiling[t] = 0
  BY DEF TenantInit, IsTenant
<1>3. spent = <<>> /\ DOMAIN spent = {}
  BY DEF TenantInit
<1>4. IsFiniteSet({}) /\ Cardinality({}) = 0
  BY FS_EmptySet
<1>5. QuotaOfPlan /\ IdsGiven /\ InvitesSpentOnce
  BY <1>2, <1>3 DEF QuotaOfPlan, IdsGiven, InvitesSpentOnce
<1>6. \A t \in Tenants : TeamFits(t) /\ CameByInvite(t)
  BY <1>2, <1>4 DEF TeamFits, CameByInvite
<1>. QED  BY <1>1, <1>2, <1>5, <1>6 DEF TenantInv

LEMMA TenantStepInv == TenantInv /\ (TenantNext \/ UNCHANGED tenantVars) => TenantInv'
<1>1. ASSUME TenantInv, TenantNext PROVE TenantInv'
  BY <1>1, CreateTenantInv, UpdatePlanInv, SuspendTenantInv, AddMemberInv, RemoveMemberInv,
     UpdateMemberRoleInv, CreateInviteInv, AcceptInviteInv DEF TenantNext
<1>2. ASSUME TenantInv, UNCHANGED tenantVars PROVE TenantInv'
  BY <1>2 DEF tenantVars, TenantInv, TenantTypeOK, QuotaOfPlan, IdsGiven, InvitesSpentOnce, IsTenant,
     HasOwner, TeamFits, CameByInvite
<1>. QED  BY <1>1, <1>2

LEMMA TenantInvSound == TenantInv => TeamsSound
BY DEF TenantInv, TeamsSound, IsTenant, HasOwner, TeamFits, InvitesSpentOnce, CameByInvite
--------------------------------------------------------------------------
(* The license.                                                          *)

\* What is parsed from a key says what the key says, and is valid unless the
\* key has expired.
LEMMA ParsedKey ==
  ASSUME NEW k, ParseLicenseKey(k) # NoInfo
  PROVE  /\ k \in LicenseKeys /\ k.signed
         /\ ParseLicenseKey(k) \in Infos /\ ParseLicenseKey(k).key = k
         /\ IsValid(ParseLicenseKey(k)) => ~Expired(k)
<1>1. k \in LicenseKeys /\ k.signed
  BY DEF ParseLicenseKey
<1>2. k.type \in LicenseTypes /\ k.plan \in {"free", "pro", "enterprise"}
  BY <1>1, LicenseConstants
<1>3. ParseLicenseKey(k) = [key |-> k, type |-> k.type, plan |-> k.plan,
                            status |-> IF Expired(k) THEN "expired" ELSE "valid"]
  BY <1>1 DEF ParseLicenseKey
<1>. QED  BY <1>1, <1>2, <1>3 DEF Infos, LicenseStatuses, IsValid

\* What is read is the license of the key in the files, or the BSL.
LEMMA WhatIsRead ==
  /\ ReadInfo \in Infos
  /\ IsCommercial(ReadInfo) =>
       /\ ReadInfo.key = ReadLicenseFile /\ ReadInfo.key \in LicenseKeys /\ ReadInfo.key.signed
       /\ IsValid(ReadInfo) => ~Expired(ReadInfo.key)
<1>1. CASE ParseLicenseKey(ReadLicenseFile) # NoInfo
  <2>1. ReadInfo = ParseLicenseKey(ReadLicenseFile)
    BY <1>1 DEF ReadInfo
  <2>. QED  BY <1>1, <2>1, ParsedKey
<1>2. CASE ParseLicenseKey(ReadLicenseFile) = NoInfo
  <2>1. ReadInfo = Bsl
    BY <1>2 DEF ReadInfo
  <2>2. Bsl \in Infos /\ Bsl.type = "bsl"
    BY DEF Bsl, Infos, LicenseTypes, LicenseStatuses
  <2>. QED  BY <2>1, <2>2 DEF IsCommercial
<1>. QED  BY <1>1, <1>2

\* A key that is looked at and has not expired is fit, and no other key is more
\* fit for it than it was.
LEMMA LookedAt ==
  ASSUME LicenseTypeOK, NEW looked
  PROVE  /\ NowFit(looked) \in [LicenseKeys -> 0..CheckInterval]
         /\ \A k \in LicenseKeys : k \in looked /\ ~Expired(k) => NowFit(looked)[k] = 0
<1>1. 0 \in 0..CheckInterval
  BY LicenseConstants
<1>2. fit \in [LicenseKeys -> 0..CheckInterval]
  BY DEF LicenseTypeOK
<1>. QED  BY <1>1, <1>2 DEF NowFit

LEMMA LicenseInitInv == LicenseInit => LicenseInv
<1>. SUFFICES ASSUME LicenseInit PROVE LicenseInv
  OBVIOUS
<1>1. LicenseTypeOK
  BY LicenseConstants DEF LicenseInit, LicenseTypeOK, FileContents
<1>2. RememberedSound
  BY DEF LicenseInit, RememberedSound, Remembered
<1>. QED  BY <1>1, <1>2 DEF LicenseInv

LEMMA LicenseStepInv == LicenseInv /\ (LicenseNext \/ UNCHANGED licenseVars) => LicenseInv'
<1>. SUFFICES ASSUME LicenseInv, LicenseNext \/ UNCHANGED licenseVars PROVE LicenseInv'
  OBVIOUS
<1>a. /\ deployment \in Deployments
      /\ files \in [Paths -> FileContents]
      /\ info \in Infos \cup {NoInfo}
      /\ sinceCheck \in 0..CheckInterval /\ now \in 0..MaxTime
      /\ fit \in [LicenseKeys -> 0..CheckInterval]
      /\ CheckInterval \in Nat /\ MaxTime \in Nat
      /\ LicenseTypeOK /\ RememberedSound
  BY LicenseConstants DEF LicenseInv, LicenseTypeOK
<1>1. CASE GetLicenseInfo
  <2>1. CASE Remembered
    <3>1. UNCHANGED licenseVars
      BY <1>1, <2>1 DEF GetLicenseInfo, InForce, licenseVars
    <3>. QED  BY <1>a, <3>1 DEF licenseVars, LicenseInv, LicenseTypeOK, RememberedSound, Remembered,
              IsCommercial, IsValid
  <2>2. CASE ~Remembered
    <3>1. /\ info' = ReadInfo /\ sinceCheck' = 0 /\ UNCHANGED <<deployment, files, now>>
          /\ fit' = NowFit({ReadLicenseFile})
      BY <1>1, <2>2 DEF GetLicenseInfo, InForce
    <3>2. LicenseTypeOK'
      BY <1>a, <3>1, WhatIsRead, LookedAt DEF LicenseTypeOK
    <3>3. ASSUME IsCommercial(ReadInfo)
          PROVE  /\ ReadInfo.key \in LicenseKeys /\ ReadInfo.key.signed
                 /\ IsValid(ReadInfo) => fit'[ReadInfo.key] <= sinceCheck'
      <4>1. /\ ReadInfo.key = ReadLicenseFile /\ ReadInfo.key \in LicenseKeys /\ ReadInfo.key.signed
            /\ IsValid(ReadInfo) => ~Expired(ReadInfo.key)
        BY <3>3, WhatIsRead
      <4>2. IsValid(ReadInfo) => NowFit({ReadLicenseFile})[ReadInfo.key] = 0
        BY <1>a, <4>1, LookedAt
      <4>. QED  BY <3>1, <4>1, <4>2
    <3>4. RememberedSound'
      BY <3>1, <3>3 DEF RememberedSound, IsCommercial, IsValid
    <3>. QED  BY <3>2, <3>4 DEF LicenseInv
  <2>. QED  BY <2>1, <2>2
<1>2. ASSUME NEW k \in LicenseKeys, NEW left \in {k, files["home"], Torn}, InstallLicense(k, left)
      PROVE  LicenseInv'
  <2>1. /\ info' = ParseLicenseKey(k) /\ sinceCheck' = 0 /\ fit' = NowFit({k})
        /\ files' = [files EXCEPT !["home"] = left]
        /\ UNCHANGED <<deployment, now>>
        /\ IsValid(ParseLicenseKey(k)) /\ ParseLicenseKey(k) # NoInfo
    BY <1>2 DEF InstallLicense
  <2>2. /\ k.signed /\ ParseLicenseKey(k) \in Infos /\ ParseLicenseKey(k).key = k
        /\ ~Expired(k)
    BY <2>1, ParsedKey
  <2>3. "home" \in Paths
    <3>1. 3 \in DOMAIN Places /\ Places[3] = "home"
      BY DEF Places
    <3>. QED  BY <3>1 DEF Paths
  <2>4. files' \in [Paths -> FileContents]
    BY <1>a, <2>1, <2>3 DEF FileContents
  <2>5. fit' \in [LicenseKeys -> 0..CheckInterval] /\ fit'[k] = 0
    BY <1>a, <2>1, <2>2, LookedAt
  <2>6. LicenseTypeOK'
    BY <1>a, <2>1, <2>2, <2>4, <2>5 DEF LicenseTypeOK
  <2>7. RememberedSound'
    BY <1>a, <2>1, <2>2, <2>5 DEF RememberedSound
  <2>. QED  BY <2>6, <2>7 DEF LicenseInv
<1>3. ASSUME NEW locked, RemoveLicense(locked)
      PROVE  LicenseInv'
  <2>1. files' \in [Paths -> FileContents]
    BY <1>a, <1>3 DEF RemoveLicense, FileContents
  <2>2. \/ info' = NoInfo /\ sinceCheck' = CheckInterval
        \/ info' = info /\ sinceCheck' = sinceCheck
    BY <1>3 DEF RemoveLicense
  <2>3. UNCHANGED <<deployment, now, fit>>
    BY <1>3 DEF RemoveLicense
  <2>4. LicenseTypeOK'
    BY <1>a, <2>1, <2>2, <2>3 DEF LicenseTypeOK
  <2>5. RememberedSound'
    BY <1>a, <2>2, <2>3 DEF RememberedSound, Remembered, IsCommercial, IsValid
  <2>. QED  BY <2>4, <2>5 DEF LicenseInv
<1>4. ASSUME NEW p \in AdminPaths, NEW k \in FileContents, PutFile(p, k)
      PROVE  LicenseInv'
  <2>1. LicenseTypeOK'
    BY <1>a, <1>4 DEF PutFile, LicenseTypeOK
  <2>2. RememberedSound'
    BY <1>a, <1>4 DEF PutFile, RememberedSound, Remembered, IsCommercial, IsValid
  <2>. QED  BY <2>1, <2>2 DEF LicenseInv
<1>5. CASE Tick
  <2>1. /\ now' = now + 1 /\ now < MaxTime /\ UNCHANGED <<deployment, files, info>>
        /\ sinceCheck' = IF sinceCheck < CheckInterval THEN sinceCheck + 1 ELSE sinceCheck
        /\ fit' \in [LicenseKeys -> 0..CheckInterval]
        /\ \A k \in LicenseKeys : fit'[k] <= fit[k] + 1
    BY <1>a, <1>5 DEF Tick
  <2>2. LicenseTypeOK'
    BY <1>a, <2>1 DEF LicenseTypeOK
  <2>3. ASSUME Remembered', IsCommercial(info)
        PROVE  /\ info.key \in LicenseKeys /\ info.key.signed
               /\ IsValid(info) => fit'[info.key] <= sinceCheck'
    <3>1. Remembered /\ sinceCheck' = sinceCheck + 1
      BY <1>a, <2>1, <2>3 DEF Remembered
    <3>2. /\ info.key \in LicenseKeys /\ info.key.signed
          /\ IsValid(info) => fit[info.key] <= sinceCheck
      BY <1>a, <2>3, <3>1 DEF RememberedSound
    <3>3. fit[info.key] \in 0..CheckInterval /\ fit'[info.key] \in 0..CheckInterval
      BY <1>a, <2>1, <3>2
    <3>4. IsValid(info) => fit'[info.key] <= sinceCheck'
      BY <1>a, <2>1, <3>1, <3>2, <3>3
    <3>. QED  BY <3>2, <3>4
  <2>4. RememberedSound'
    BY <2>1, <2>3 DEF RememberedSound, IsCommercial, IsValid
  <2>. QED  BY <2>2, <2>4 DEF LicenseInv
<1>6. ASSUME NEW time \in 0..MaxTime, SetClock(time)
      PROVE  LicenseInv'
  <2>1. now' = time /\ UNCHANGED <<deployment, files, info, sinceCheck, fit>>
    BY <1>6 DEF SetClock
  <2>2. LicenseTypeOK'
    BY <1>a, <2>1 DEF LicenseTypeOK
  <2>3. RememberedSound'
    BY <1>a, <2>1 DEF RememberedSound, Remembered, IsCommercial, IsValid
  <2>. QED  BY <2>2, <2>3 DEF LicenseInv
<1>7. CASE RestartProcess
  <2>1. LicenseTypeOK'
    BY <1>a, <1>7 DEF RestartProcess, LicenseTypeOK
  <2>2. RememberedSound'
    BY <1>7 DEF RestartProcess, RememberedSound, Remembered
  <2>. QED  BY <2>1, <2>2 DEF LicenseInv
<1>8. CASE UNCHANGED licenseVars
  BY <1>a, <1>8 DEF licenseVars, LicenseInv, LicenseTypeOK, RememberedSound, Remembered,
     IsCommercial, IsValid
<1>. QED  BY <1>1, <1>2, <1>3, <1>4, <1>5, <1>6, <1>7, <1>8 DEF LicenseNext

LEMMA LicenseInvTrusted == LicenseInv => LicenseTrusted
<1>. SUFFICES ASSUME LicenseInv PROVE LicenseTrusted
  OBVIOUS
<1>a. /\ LicenseTypeOK /\ RememberedSound
      /\ sinceCheck \in 0..CheckInterval /\ CheckInterval \in Nat
      /\ fit \in [LicenseKeys -> 0..CheckInterval]
  BY LicenseConstants DEF LicenseInv, LicenseTypeOK
<1>1. ASSUME IsCommercial(InForce), IsValid(InForce)
      PROVE  /\ InForce.key.signed
             /\ \/ ReadLicenseFile = InForce.key /\ ~Expired(InForce.key)
                \/ fit[InForce.key] < CheckInterval
  <2>1. CASE Remembered
    <3>1. InForce = info /\ sinceCheck < CheckInterval
      BY <2>1 DEF InForce, Remembered
    <3>2. info.key \in LicenseKeys /\ info.key.signed /\ fit[info.key] <= sinceCheck
      BY <1>a, <1>1, <2>1, <3>1 DEF RememberedSound
    <3>3. fit[info.key] \in 0..CheckInterval
      BY <1>a, <3>2
    <3>4. fit[info.key] < CheckInterval
      BY <1>a, <3>1, <3>2, <3>3
    <3>. QED  BY <3>1, <3>2, <3>4
  <2>2. CASE ~Remembered
    <3>1. InForce = ReadInfo
      BY <2>2 DEF InForce
    <3>. QED  BY <1>1, <3>1, WhatIsRead
  <2>. QED  BY <2>1, <2>2
<1>2. ASSUME ~(IsCommercial(InForce) /\ IsValid(InForce))
      PROVE  ~CanUseEnterprise /\ (CanUsePro => ~deployment.production \/ deployment.eligible)
  BY <1>2 DEF CanUseEnterprise, CanUsePro
<1>. QED  BY <1>1, <1>2 DEF LicenseTrusted
--------------------------------------------------------------------------
\* Both invariants hold together, in every state of either part.
THEOREM EntitlementsInvariant == OperationsSpec => []EntitlementsInv
<1>1. OperationsInit => EntitlementsInv
  BY TenantInitInv, LicenseInitInv DEF OperationsInit, EntitlementsInv
<1>2. EntitlementsInv /\ [OperationsNext]_operationVars => EntitlementsInv'
  <2>. SUFFICES ASSUME EntitlementsInv, [OperationsNext]_operationVars PROVE EntitlementsInv'
    OBVIOUS
  <2>1. /\ focus' = focus
        /\ TenantNext \/ UNCHANGED tenantVars
        /\ LicenseNext \/ UNCHANGED licenseVars
    BY DEF OperationsNext, operationVars
  <2>. QED  BY <2>1, TenantStepInv, LicenseStepInv DEF EntitlementsInv
<1>. QED  BY <1>1, <1>2, PTL DEF OperationsSpec

\* Tenants, teams, invitations and the license keep their types: no id is
\* given out past the last, and every quota is one of a plan.
THEOREM EntitlementsTypeCorrect == OperationsSpec => []EntitlementsTypeOK
<1>1. EntitlementsInv => EntitlementsTypeOK
  BY DEF EntitlementsInv, EntitlementsTypeOK, TenantInv, LicenseInv
<1>. QED  BY <1>1, EntitlementsInvariant, PTL

\* Teams keep their owner and their bound, and an invitation brings in one
\* member, whatever the order of the tenant service's requests.
THEOREM TeamsAreSound == OperationsSpec => []TeamsSound
<1>1. EntitlementsInv => TeamsSound
  BY TenantInvSound DEF EntitlementsInv
<1>. QED  BY <1>1, EntitlementsInvariant, PTL

\* The tables of plans, features and quotas agree for every tenant, through
\* every change of plan.
THEOREM PlansDoAgree == OperationsSpec => []PlansAgree
<1>1. EntitlementsInv => PlansAgree
  BY QuotasAgree DEF EntitlementsInv
<1>. QED  BY <1>1, EntitlementsInvariant, PTL

\* A commercial license in force was signed, is at most a check interval past
\* its expiry, and its key is or was lately there.
THEOREM LicenseIsTrusted == OperationsSpec => []LicenseTrusted
<1>1. EntitlementsInv => LicenseTrusted
  BY LicenseInvTrusted DEF EntitlementsInv
<1>. QED  BY <1>1, EntitlementsInvariant, PTL
==========================================================================
