-------------------------- MODULE LicenseManager --------------------------
(***************************************************************************)
(* core/license.py: the license a deployment runs under, read from a file  *)
(* and believed for a while. A key is what its payload says; whether its   *)
(* signature fits is a part of it.                                         *)
(***************************************************************************)
EXTENDS Naturals, Sequences

CONSTANTS
  LicenseKeys,      \* keys there are: unsigned, expired, for a plan, for ever
  Deployments,      \* [production, eligible]: _is_production_environment, _check_bsl_eligibility
  AdminPaths,       \* the places where somebody else puts files
  CheckInterval,    \* _check_interval, in ticks
  MaxTime,          \* a bound on the wall clock
  Never,            \* the expiry of a key that says none
  NoKey, NoInfo,
  Torn,             \* a file whose content is no key
  Unreadable        \* a file that is there and cannot be read

\* The file the environment names, and _LICENSE_FILE_PATHS.
Places == <<"env", "cwd", "home", "etc">>
Paths  == {Places[i] : i \in DOMAIN Places}

LicenseTypes    == {"bsl", "commercial_pro", "commercial_enterprise", "trial"}
LicenseStatuses == {"valid", "expired", "bsl_non_production"}

Infos == [key : LicenseKeys \cup {NoKey}, type : LicenseTypes, status : LicenseStatuses,
          plan : {"free", "pro", "enterprise"}]
FileContents == LicenseKeys \cup {NoKey, Torn, Unreadable}

ASSUME LicenseConstants ==
  /\ LicenseKeys \subseteq [signed : BOOLEAN, type : LicenseTypes, plan : {"free", "pro", "enterprise"},
                            expires : Nat \cup {Never}]
  /\ Deployments \subseteq [production : BOOLEAN, eligible : BOOLEAN]
  /\ AdminPaths \subseteq Paths
  /\ CheckInterval \in Nat /\ MaxTime \in Nat
  /\ LicenseKeys \cap {NoKey, Torn, Unreadable} = {} /\ NoInfo \notin Infos /\ Never \notin Nat

VARIABLES
  deployment,
  files,        \* what lies in each place
  info,         \* _license_info
  sinceCheck,   \* the time since _last_check, on the monotonic clock
  now,          \* datetime.now: the wall clock, which is set forward and back
  fit           \* history: the time, on the monotonic clock, since each key was
                \* last installed or read and had not expired

licenseVars == <<deployment, files, info, sinceCheck, now, fit>>
--------------------------------------------------------------------------
\* The first of the files there are counts, also when it is no good.
ReadLicenseFile ==
  LET held == {i \in DOMAIN Places : files[Places[i]] # NoKey}
  IN  IF held = {} THEN NoKey ELSE files[Places[CHOOSE i \in held : \A j \in held : i <= j]]

Expired(k) == k.expires # Never /\ now > k.expires

ParseLicenseKey(k) ==
  IF k \in LicenseKeys /\ k.signed
  THEN [key |-> k, type |-> k.type, plan |-> k.plan, status |-> IF Expired(k) THEN "expired" ELSE "valid"]
  ELSE NoInfo

Bsl == [key |-> NoKey, type |-> "bsl", status |-> "bsl_non_production", plan |-> "free"]

\* What is read when nothing is remembered.
ReadInfo == IF ParseLicenseKey(ReadLicenseFile) # NoInfo THEN ParseLicenseKey(ReadLicenseFile) ELSE Bsl

Remembered == info # NoInfo /\ sinceCheck < CheckInterval

\* A request that has to read what cannot be read fails, and leaves everything
\* as it is.
Answers == Remembered \/ ReadLicenseFile # Unreadable

\* get_license_info: what a request that is answered is told.
InForce == IF Remembered THEN info ELSE ReadInfo

IsValid(i)      == i.status \in {"valid", "bsl_non_production"}
IsCommercial(i) == i.type # "bsl"

CanUsePro ==
  \/ IsCommercial(InForce) /\ IsValid(InForce) /\ InForce.plan \in {"pro", "enterprise"}
  \/ ~(IsCommercial(InForce) /\ IsValid(InForce)) /\ InForce.status = "bsl_non_production"
     /\ (~deployment.production \/ deployment.eligible)
CanUseEnterprise == IsCommercial(InForce) /\ IsValid(InForce) /\ InForce.plan = "enterprise"

TrialKey(issued, days) == [signed |-> TRUE, type |-> "trial", plan |-> "pro", expires |-> issued + days]
--------------------------------------------------------------------------
\* The key that is looked at now, if it is good, is fit.
NowFit(looked) == [k \in LicenseKeys |-> IF k \in looked /\ ~Expired(k) THEN 0 ELSE fit[k]]

\* Fault variant: an answer from memory counts as a check.
GetLicenseInfoSliding ==
  /\ Answers
  /\ info' = InForce
  /\ sinceCheck' = 0
  /\ fit' = IF Remembered THEN fit ELSE NowFit({ReadLicenseFile})
  /\ UNCHANGED <<deployment, files, now>>

\* What every question begins with.
GetLicenseInfo ==
  /\ Answers
  /\ info' = InForce
  /\ sinceCheck' = IF Remembered THEN sinceCheck ELSE 0
  /\ fit' = IF Remembered THEN fit ELSE NowFit({ReadLicenseFile})
  /\ UNCHANGED <<deployment, files, now>>

\* A valid key is remembered whether or not it could be written: a write that
\* fails leaves the old file, or a file cut short. When its directory cannot be
\* made the handler fails before that.
InstallLicense(k, left) ==
  /\ ParseLicenseKey(k) # NoInfo /\ IsValid(ParseLicenseKey(k))
  /\ files' = [files EXCEPT !["home"] = left]
  /\ info' = ParseLicenseKey(k)
  /\ sinceCheck' = 0
  /\ fit' = NowFit({k})
  /\ UNCHANGED <<deployment, now>>

\* The file the environment names stays where it is. The others are deleted in
\* their order; at one that cannot be, the request fails with those before it
\* gone and the license remembered.
RemoveLicense(locked) ==
  LET stuck == {i \in 2..Len(Places) : Places[i] \in locked /\ files[Places[i]] # NoKey}
      gone  == {Places[i] : i \in {j \in 2..Len(Places) : \A k \in stuck : j < k}}
  IN  /\ files' = [p \in Paths |-> IF p \in gone THEN NoKey ELSE files[p]]
      /\ info' = IF stuck = {} THEN NoInfo ELSE info
      /\ sinceCheck' = IF stuck = {} THEN CheckInterval ELSE sinceCheck
      /\ UNCHANGED <<deployment, now, fit>>

\* Somebody else writes or deletes a file.
PutFile(p, k) ==
  /\ files' = [files EXCEPT ![p] = k]
  /\ UNCHANGED <<deployment, info, sinceCheck, now, fit>>

\* Time passes on both clocks.
Tick ==
  /\ now < MaxTime
  /\ now' = now + 1
  /\ sinceCheck' = IF sinceCheck < CheckInterval THEN sinceCheck + 1 ELSE sinceCheck
  /\ fit' = [k \in LicenseKeys |-> IF fit[k] < CheckInterval THEN fit[k] + 1 ELSE fit[k]]
  /\ UNCHANGED <<deployment, files, info>>

\* The wall clock is set, or jumps with the time of the year or a sleep.
SetClock(time) ==
  /\ now' = time
  /\ UNCHANGED <<deployment, files, info, sinceCheck, fit>>

RestartProcess ==
  /\ info' = NoInfo /\ sinceCheck' = CheckInterval
  /\ UNCHANGED <<deployment, files, now, fit>>

LicenseInit ==
  /\ deployment \in Deployments
  /\ files = [p \in Paths |-> NoKey]
  /\ info = NoInfo
  /\ sinceCheck = CheckInterval
  /\ now = 0
  /\ fit = [k \in LicenseKeys |-> CheckInterval]

LicenseNext ==
  \/ GetLicenseInfo
  \/ \E k \in LicenseKeys : \E left \in {k, files["home"], Torn} : InstallLicense(k, left)
  \/ \E locked \in {{}, AdminPaths} : RemoveLicense(locked)
  \/ \E p \in AdminPaths, k \in FileContents : PutFile(p, k)
  \/ Tick
  \/ \E time \in 0..MaxTime : SetClock(time)
  \/ RestartProcess
--------------------------------------------------------------------------
LicenseTypeOK ==
  /\ deployment \in Deployments
  /\ files \in [Paths -> FileContents]
  /\ info \in Infos \cup {NoInfo}
  /\ sinceCheck \in 0..CheckInterval
  /\ now \in 0..MaxTime
  /\ fit \in [LicenseKeys -> 0..CheckInterval]
===========================================================================
