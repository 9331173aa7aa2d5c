--------------------------- MODULE Entitlements ---------------------------
(***************************************************************************)
(* What a user is entitled to: the plan and the team of a tenant, and the  *)
(* license of the deployment. The two share no state, and no router asks   *)
(* both.                                                                   *)
(***************************************************************************)
EXTENDS TenantService, LicenseManager

--------------------------------------------------------------------------
\* The tenants, their teams and invitations, and the license keep their types:
\* no id is given out twice past its bound, and no quota is one of no plan.
EntitlementsTypeOK == TenantTypeOK /\ LicenseTypeOK

\* Whatever the order of requests, a team keeps the owner it was created with
\* and never grows past what its plan allows: one that is too large after a
\* downgrade can lose members and gets none, also by the invitations that
\* outlive it. An invitation brings in one member at most, and is over then.
TeamsSound ==
  \A t \in Tenants : tenants[t] # NoTenant =>
    /\ \E m \in members[t] : m.role = "owner" /\ m.via = 0 /\ \A o \in members[t] : m.id <= o.id
    /\ Cardinality(members[t]) <= ceiling[t]
    /\ \A j, k \in DOMAIN spent : spent[j] = spent[k] => j = k
    /\ \A i \in invites[t] : (\E j \in DOMAIN spent : spent[j] = i.id) => i.accepted
    /\ \A m \in members[t] : m.via # 0 => \E i \in invites[t] : i.id = m.via /\ i.accepted

\* The tables that say what a plan allows agree, whatever changes of plan a
\* tenant went through: the flags of its quota with the feature gates of its
\* plan, the ladder of require_plan with the features, and the limits the
\* tenant's check_quota finds with those the plan's own check_quota finds.
PlansAgree ==
  /\ \A p, q \in Plans : RequirePlan(p, {q}) <=> FeaturesFor(q) \subseteq FeaturesFor(p)
  /\ \A t \in Tenants : tenants[t] # NoTenant =>
       /\ \A flag \in DOMAIN FlagOf :
            flag \in tenants[t].quota.flags <=> RequireFeature(tenants[t].plan, FlagOf[flag])
       /\ \A r \in DOMAIN QuotaNames, n \in {0, 1, 5, 50, 500} :
            WithinQuota(t, r, n) <=> WithinPlan(tenants[t].plan, QuotaNames[r], n)

\* A commercial license that is in force is one whose key was signed, and which
\* lies in the file that counts and has not expired, or was found so or was
\* installed within the check interval: installing, removing, restarting, the
\* files other people write, files that cannot be read and a wall clock that is
\* set never stretch it. Without one, the enterprise features are closed, and
\* production gets the others by eligibility only.
LicenseTrusted == Answers =>
  /\ IsCommercial(InForce) /\ IsValid(InForce) =>
       /\ InForce.key.signed
       /\ \/ ReadLicenseFile = InForce.key /\ ~Expired(InForce.key)
          \/ fit[InForce.key] < CheckInterval
  /\ ~(IsCommercial(InForce) /\ IsValid(InForce)) =>
       /\ ~CanUseEnterprise
       /\ CanUsePro => ~deployment.production \/ deployment.eligible
===========================================================================
