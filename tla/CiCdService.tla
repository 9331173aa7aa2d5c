---------------------------- MODULE CiCdService ----------------------------
(***************************************************************************)
(* services/cicd_service.py: pipelines, and the runs they are told of. A   *)
(* run is triggered by a request and completed, at any later time and in   *)
(* any order, by whoever ran it.                                           *)
(***************************************************************************)
EXTENDS Naturals, Sequences, FiniteSets

CONSTANTS Pipelines,   \* the ids there will be; none is used twice
          MaxRuns,     \* at most so many runs of a pipeline
          NoPipeline, Deleted

Providers == {"github_actions", "gitlab_ci", "jenkins", "circleci"}
RunStatuses == {"running", "completed", "failed"}
PipelineRecords == [provider : Providers, last : RunStatuses \cup {"none"}]

ASSUME CiCdConstants ==
  /\ MaxRuns \in Nat
  /\ NoPipeline # Deleted /\ NoPipeline \notin PipelineRecords /\ Deleted \notin PipelineRecords

Generators == {"github_actions", "gitlab_ci"}

VARIABLES
  pipelines,   \* _pipelines: the provider and last_run_status
  runs,        \* _runs: the status of each run
  overtaken    \* history: the pipelines an older run of which ended last

cicdVars == <<pipelines, runs, overtaken>>

Lives(p) == pipelines[p] \notin {NoPipeline, Deleted}
--------------------------------------------------------------------------
CreatePipeline(p, provider) ==
  /\ pipelines[p] = NoPipeline
  /\ pipelines' = [pipelines EXCEPT ![p] = [provider |-> provider, last |-> "none"]]
  /\ UNCHANGED <<runs, overtaken>>

\* A run that is under way is forgotten with its pipeline.
DeletePipeline(p) ==
  /\ Lives(p)
  /\ pipelines' = [pipelines EXCEPT ![p] = Deleted]
  /\ runs' = [runs EXCEPT ![p] = <<>>]
  /\ overtaken' = overtaken \ {p}

\* generate_config answers for the providers it has a generator of.
GenerateConfig(p) == Lives(p) /\ pipelines[p].provider \in Generators

\* Nothing ever disables a pipeline, and nobody asks for a generator.
TriggerRun(p) ==
  /\ Lives(p) /\ Len(runs[p]) < MaxRuns
  /\ runs' = [runs EXCEPT ![p] = Append(@, "running")]
  /\ pipelines' = [pipelines EXCEPT ![p].last = "running"]
  /\ overtaken' = overtaken \ {p}

Overtakes(p, r) == IF r < Len(runs[p]) THEN overtaken \cup {p} ELSE overtaken \ {p}

\* Fault variant: the pipeline is told before the run is.
CompleteRunLate(p, r, success) ==
  /\ pipelines' = [pipelines EXCEPT ![p].last = runs[p][r]]
  /\ runs' = [runs EXCEPT ![p][r] = IF success THEN "completed" ELSE "failed"]
  /\ overtaken' = Overtakes(p, r)

\* Any run, completed before or not.
CompleteRun(p, r, success) ==
  /\ runs' = [runs EXCEPT ![p][r] = IF success THEN "completed" ELSE "failed"]
  /\ pipelines' = [pipelines EXCEPT ![p].last = runs'[p][r]]
  /\ overtaken' = Overtakes(p, r)

CiCdInit ==
  /\ pipelines = [p \in Pipelines |-> NoPipeline]
  /\ runs = [p \in Pipelines |-> <<>>]
  /\ overtaken = {}

CiCdNext ==
  \E p \in Pipelines :
    \/ \E provider \in Providers : CreatePipeline(p, provider)
    \/ DeletePipeline(p)
    \/ TriggerRun(p)
    \/ \E r \in DOMAIN runs[p], success \in BOOLEAN : CompleteRun(p, r, success)
===========================================================================
