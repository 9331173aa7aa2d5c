----------------------------- MODULE Operations -----------------------------
(***************************************************************************)
(* The parts a deployment is operated with: tenants and the license,       *)
(* plugins, pipelines of other systems, the rate limiter, the              *)
(* configuration and the frontend's client. They share no state: a         *)
(* behaviour is one of the part its focus names, and the others stay as    *)
(* they began, so that TLC does not multiply the states of one by those of *)
(* another.                                                                *)
(***************************************************************************)
EXTENDS Entitlements, PluginManager, CiCdService, RateLimiter, ConfigReloader, ApiClient

VARIABLE focus

operationVars ==
  <<focus, tenantVars, licenseVars, pluginVars, cicdVars, rateVars, configVars, clientVars>>

OperationsInit ==
  /\ focus \in {"tenants", "license", "plugins", "cicd", "limiter", "config", "client"}
  /\ TenantInit /\ LicenseInit /\ PluginInit /\ CiCdInit /\ RateInit /\ ConfigInit /\ ClientInit
  \* Which deployment it is matters to the license alone, which file there is
  \* to the watcher.
  /\ focus # "license" => deployment = CHOOSE d \in Deployments : TRUE
  /\ focus # "config" => file = NoFile

OperationsNext ==
  /\ UNCHANGED focus
  /\ \/ focus = "tenants" /\ TenantNext
     \/ focus = "license" /\ LicenseNext
     \/ focus = "plugins" /\ PluginNext
     \/ focus = "cicd" /\ CiCdNext
     \/ focus = "limiter" /\ RateNext
     \/ focus = "config" /\ ConfigNext
     \/ focus = "client" /\ ClientNext
  /\ focus # "tenants" => UNCHANGED tenantVars
  /\ focus # "license" => UNCHANGED licenseVars
  /\ focus # "plugins" => UNCHANGED pluginVars
  /\ focus # "cicd" => UNCHANGED cicdVars
  /\ focus # "limiter" => UNCHANGED rateVars
  /\ focus # "config" => UNCHANGED configVars
  /\ focus # "client" => UNCHANGED clientVars

OperationsSpec == OperationsInit /\ [][OperationsNext]_operationVars
--------------------------------------------------------------------------
\* Whatever is loaded, replaced and switched while calls wait for a plugin:
\* a plugin switched off stays off until it is switched on or loaded again, one
\* switched on is at most in error, and that only after a call to it failed;
\* every call of a record ends in its count, in a failure, or is under way; and
\* a call never runs an instance newer than the record it is counted in.
PluginsAgree ==
  /\ \A n \in PluginNames : Known(n) =>
       /\ lastEvent[n] = "disabled" => Current(n).status # "enabled"
       /\ lastEvent[n] # "disabled" => Current(n).status # "disabled"
       /\ Current(n).status = "error" => Current(n).failed > 0
       /\ \A r \in DOMAIN records[n] :
            records[n][r].started = records[n][r].executions + records[n][r].failed
              + Cardinality({c \in PluginCalls :
                  calls[c] # NoCall /\ calls[c].name = n /\ calls[c].record = r})
  /\ \A c \in PluginCalls : calls[c] # NoCall => calls[c].instance \in 1..calls[c].record

\* Runs are completed in any order, twice, and after newer ones: the pipeline
\* shows the status of its newest run unless an older one ended since, and then
\* the end of one of its runs; it shows running only while its newest run is,
\* and none only before the first. A deleted pipeline leaves no runs behind.
RunsSettle ==
  \A p \in Pipelines :
    IF ~Lives(p) THEN runs[p] = <<>>
    ELSE /\ pipelines[p].last = "none" <=> runs[p] = <<>>
         /\ runs[p] # <<>> /\ p \notin overtaken => pipelines[p].last = runs[p][Len(runs[p])]
         /\ pipelines[p].last = "running" => runs[p][Len(runs[p])] = "running"
         /\ pipelines[p].last \in {"completed", "failed"} =>
              \E r \in DOMAIN runs[p] : runs[p][r] = pipelines[p].last

\* "Last run status" (models/cicd.py:79): a pipeline with runs shows the status
\* of the last one it triggered, in whatever order they complete.
LastRunShown ==
  \A p \in Pipelines :
    Lives(p) /\ runs[p] # <<>> => pipelines[p].last = runs[p][Len(runs[p])]

\* A client holds at most what a bucket that is never cleaned up would leave it,
\* and one request more, and a whole bucket more for each time its own was
\* dropped for the number of buckets. Dropping a stale bucket in the middle of
\* the request that was about to use it forgives that one request, however
\* often it happens; a drop for the number forgives all that was used.
RateBounded ==
  \A c \in Clients : GetBucket(c).tokens <= fair[c] + Parts + forgiven[c]

\* Between two checks of the only watcher, every callback has been given the
\* value its section has; and if the file is the one the last load read and can
\* be parsed, every section it names has its value, whatever was saved,
\* truncated or deleted while the watcher was at work.
ConfigFollows ==
  ~doubled /\ (\A w \in Watchers : watcher[w].at \in {"off", "idle"}) =>
    /\ told = settings
    /\ file = applied /\ file # NoFile /\ file.good =>
         \A s \in DOMAIN file.sets : settings[s] = file.sets[s]

\* The controller an id has is that of the newest call with it, which is waiting
\* and not cancelled: cancelling reaches that call or none, never a later or an
\* earlier one. And of the calls with an id at most one goes on, unless a call
\* that ended late took the controller of a newer one with it.
LatestWins ==
  \A id \in RequestIds :
    LET same == {c \in ClientCalls : request[c].at # "new" /\ request[c].id = id}
    IN  /\ controllers[id] # NoController =>
             /\ controllers[id] \in same /\ Live(controllers[id])
             /\ \A c \in same : c = controllers[id] \/ c \in began[controllers[id]]
        /\ id \notin stray => \A c, d \in same : Live(c) /\ Live(d) => c = d
============================================================================
