------------------------ MODULE DistributedEngine ------------------------
(***************************************************************************)
(* WorkerRegistry, TaskDistributor and DistributedExecutionEngine          *)
(* (services/distributed_engine.py): a fleet of workers that register,     *)
(* send heartbeats and leave while several execute_distributed() calls     *)
(* divide their scenarios among them.                                      *)
(*                                                                         *)
(* One event loop runs it all. execute_distributed() is one step up to its *)
(* gather(), each worker task ends in a step, and the return is one. What  *)
(* a task does in between is ExecutionEngine's business.                   *)
(***************************************************************************)
EXTENDS Naturals, FiniteSets

CONSTANTS
  MaxWorkers,     \* bound on registrations; the k-th to register is worker k
  Regions,        \* WorkerCapabilities.region
  Calls,          \* the execute_distributed() calls, one execution_id each
  NoCall,         \* current_task_id = None
  ScenarioLists   \* scenario ids of a call, in order

Workers    == 1..MaxWorkers
Strategies == {"round_robin", "least_loaded", "region_aware"}
IdsOf(list) == {list[k] : k \in DOMAIN list}
ScenarioIds == UNION {IdsOf(list) : list \in ScenarioLists}

ASSUME DistributedConstants ==
  /\ MaxWorkers \in Nat
  /\ Regions # {}
  /\ IsFiniteSet(Calls) /\ NoCall \notin Calls
  /\ \A list \in ScenarioLists : /\ IsFiniteSet(DOMAIN list)
                                 /\ DOMAIN list = 1..Cardinality(DOMAIN list)

VARIABLES
  registered,   \* registrations so far
  status,       \* Worker.status, "absent" when the registry has no such worker
  region,       \* Worker.capabilities.region
  fresh,        \* the last heartbeat is at most _heartbeat_timeout old
  task,         \* Worker.current_task_id, by the call the task is of
  completed,    \* Worker.completed_tasks
  failed,       \* Worker.failed_tasks
  call,         \* where each execute_distributed() is
  scenarios,    \* its scenario list
  plan,         \* scenario ids of the task the plan has for each worker
  run,          \* what became of that task
  lapses        \* history: how often each was marked OFFLINE in the middle of a task

workerVars == <<registered, status, region, fresh, task, completed, failed, lapses>>
callVars   == <<call, scenarios, plan, run>>
vars       == <<workerVars, callVars>>

TaskStates == {"none", "dropped", "running", "done", "failed"}

InFleet(w)    == status[w] # "absent"
TasksOn(w)    == {c \in Calls : run[c][w] = "running"}
--------------------------------------------------------------------------
(* Planning.                                                             *)

\* Workers of A before w when sorted by load, registration order for ties.
Rank(w, A, load) ==
  Cardinality({v \in A : load[v] < load[w] \/ (load[v] = load[w] /\ v < w)})

\* Scenario positions dealt to w: buckets by idx % len(workers).
Dealt(w, A, load, positions) ==
  {k \in positions : (k - 1) % Cardinality(A) = Rank(w, A, load)}

NoLoad == [w \in Workers |-> 0]

\* Regions are numbered in the order their first worker registered.
RegionsOf(A) == {region[v] : v \in A}
FirstOf(r, A) == CHOOSE v \in A : region[v] = r /\ \A u \in A : region[u] = r => v <= u
RegionRank(r, A) == Cardinality({q \in RegionsOf(A) : FirstOf(q, A) < FirstOf(r, A)})

\* Fault variant: the slices of the regions overlap.
RegionDealtWhole(w, A, positions) ==
  LET mates == {v \in A : region[v] = region[w]}
  IN  Dealt(w, mates, NoLoad, positions)

\* Each region takes the slice scenarios[i::regions], its workers deal it out.
RegionDealt(w, A, positions) ==
  LET regions == Cardinality(RegionsOf(A))
      mates   == {v \in A : region[v] = region[w]}
  IN  {k \in positions :
         /\ (k - 1) % regions = RegionRank(region[w], A)
         /\ ((k - 1) \div regions) % Cardinality(mates) = Rank(w, mates, NoLoad)}

\* Positions of list given to w by each strategy.
Share(w, A, list, strategy) ==
  IF w \notin A THEN {}
  ELSE CASE strategy = "round_robin"  -> Dealt(w, A, NoLoad, DOMAIN list)
         [] strategy = "least_loaded" -> Dealt(w, A, completed, DOMAIN list)
         [] strategy = "region_aware" -> RegionDealt(w, A, DOMAIN list)

\* create_plan: the scenario ids of each worker's task, {} for no task.
Plan(A, list, strategy) ==
  [w \in Workers |-> {list[k] : k \in Share(w, A, list, strategy)}]
--------------------------------------------------------------------------
(* The registry.                                                         *)

\* list_active marks the workers without a recent heartbeat OFFLINE and
\* returns the others that are not OFFLINE.
Stale == {w \in Workers : InFleet(w) /\ ~fresh[w]}

\* Fault variant: workers without a recent heartbeat are returned as well.
ActiveSilent == {w \in Workers : InFleet(w)}
Active == {w \in Workers : status[w] \in {"idle", "running"} /\ fresh[w]}

MarkStale(st) == [w \in Workers |-> IF w \in Stale THEN "offline" ELSE st[w]]
NoteLapses ==
  lapses' = [w \in Workers |-> IF w \in Stale /\ status[w] = "running" THEN lapses[w] + 1 ELSE lapses[w]]

Register(r) ==
  /\ registered < MaxWorkers
  /\ registered' = registered + 1
  /\ status' = [status EXCEPT ![registered + 1] = "idle"]
  /\ region' = [region EXCEPT ![registered + 1] = r]
  /\ fresh' = [fresh EXCEPT ![registered + 1] = TRUE]
  /\ UNCHANGED <<task, completed, failed, lapses, callVars>>

\* Nothing asks whether the worker is in the middle of a task.
Deregister(w) ==
  /\ InFleet(w)
  /\ status' = [status EXCEPT ![w] = "absent"]
  /\ fresh' = [fresh EXCEPT ![w] = FALSE]
  /\ task' = [task EXCEPT ![w] = NoCall]
  /\ completed' = [completed EXCEPT ![w] = 0]
  /\ failed' = [failed EXCEPT ![w] = 0]
  /\ UNCHANGED <<registered, region, lapses, callVars>>

\* An OFFLINE worker comes back IDLE, also with a task still running.
Heartbeat(w) ==
  /\ InFleet(w)
  /\ fresh' = [fresh EXCEPT ![w] = TRUE]
  /\ status' = [status EXCEPT ![w] = IF @ = "offline" THEN "idle" ELSE @]
  /\ UNCHANGED <<registered, region, task, completed, failed, lapses, callVars>>

\* _heartbeat_timeout passes without a heartbeat.
Lapse(w) ==
  /\ InFleet(w) /\ fresh[w]
  /\ fresh' = [fresh EXCEPT ![w] = FALSE]
  /\ UNCHANGED <<registered, status, region, task, completed, failed, lapses, callVars>>

\* GET /workers.
ListWorkers ==
  /\ Stale # {}
  /\ status' = MarkStale(status)
  /\ NoteLapses
  /\ UNCHANGED <<registered, region, fresh, task, completed, failed, callVars>>

\* Fault variant: assign_task does not look at the worker's status.
AssignableBusy(w) == w \in Active

\* assign_task succeeds.
Assignable(w) == w \in Active /\ status[w] = "idle"

\* Fault variants: a failed task leaves its worker RUNNING, or uncounted, or
\* writes its own status to the worker.
CompleteTaskStuck(w, success) ==
  IF InFleet(w)
  THEN /\ status' = [status EXCEPT ![w] = IF success THEN "idle" ELSE @]
       /\ task' = [task EXCEPT ![w] = NoCall]
       /\ completed' = [completed EXCEPT ![w] = IF success THEN @ + 1 ELSE @]
       /\ failed' = [failed EXCEPT ![w] = IF success THEN @ ELSE @ + 1]
  ELSE UNCHANGED <<status, task, completed, failed>>
CompleteTaskUncounted(w, success) ==
  IF InFleet(w)
  THEN /\ status' = [status EXCEPT ![w] = "idle"]
       /\ task' = [task EXCEPT ![w] = NoCall]
       /\ completed' = [completed EXCEPT ![w] = IF success THEN @ + 1 ELSE @]
       /\ failed' = failed
  ELSE UNCHANGED <<status, task, completed, failed>>

CompleteTaskRenamed(w, success) ==
  IF InFleet(w)
  THEN /\ status' = [status EXCEPT ![w] = IF success THEN "idle" ELSE "failed"]
       /\ task' = [task EXCEPT ![w] = NoCall]
       /\ completed' = [completed EXCEPT ![w] = IF success THEN @ + 1 ELSE @]
       /\ failed' = [failed EXCEPT ![w] = IF success THEN @ ELSE @ + 1]
  ELSE UNCHANGED <<status, task, completed, failed>>

\* complete_task: whatever the worker was doing, it is IDLE now.
CompleteTask(w, success) ==
  IF InFleet(w)
  THEN /\ status' = [status EXCEPT ![w] = "idle"]
       /\ task' = [task EXCEPT ![w] = NoCall]
       /\ completed' = [completed EXCEPT ![w] = IF success THEN @ + 1 ELSE @]
       /\ failed' = [failed EXCEPT ![w] = IF success THEN @ ELSE @ + 1]
  ELSE UNCHANGED <<status, task, completed, failed>>
--------------------------------------------------------------------------
(* execute_distributed.                                                  *)

\* Plan, assign, start. A task whose worker is busy is dropped, and its
\* scenarios with it.
Execute(c, list, strategy) ==
  LET p        == Plan(Active, list, strategy)
      planned  == {w \in Workers : p[w] # {}}
      assigned == {w \in planned : Assignable(w)}
  IN  /\ call[c] = "new"
      /\ call' = [call EXCEPT ![c] = IF assigned = {} THEN "returned" ELSE "running"]
      /\ scenarios' = [scenarios EXCEPT ![c] = list]
      /\ plan' = [plan EXCEPT ![c] = p]
      /\ run' = [run EXCEPT ![c] = [w \in Workers |-> IF w \in assigned THEN "running"
                                                     ELSE IF w \in planned THEN "dropped"
                                                     ELSE "none"]]
      /\ status' = [w \in Workers |-> IF w \in assigned THEN "running" ELSE MarkStale(status)[w]]
      /\ task' = [w \in Workers |-> IF w \in assigned THEN c ELSE task[w]]
      /\ NoteLapses
      /\ UNCHANGED <<registered, region, fresh, completed, failed>>

\* A worker's engine.execute() ends, with its results or with an exception.
EndTask(c, w, success) ==
  /\ run[c][w] = "running"
  /\ run' = [run EXCEPT ![c][w] = IF success THEN "done" ELSE "failed"]
  /\ CompleteTask(w, success)
  /\ UNCHANGED <<registered, region, fresh, lapses, call, scenarios, plan>>

\* Fault variant: the gather also waits for the tasks that were dropped.
ReturnAll(c) ==
  /\ call[c] = "running"
  /\ \A w \in Workers : run[c][w] \notin {"running", "dropped"}
  /\ call' = [call EXCEPT ![c] = "returned"]
  /\ UNCHANGED <<workerVars, scenarios, plan, run>>

\* gather() has every task's results.
Return(c) ==
  /\ call[c] = "running"
  /\ \A w \in Workers : run[c][w] # "running"
  /\ call' = [call EXCEPT ![c] = "returned"]
  /\ UNCHANGED <<workerVars, scenarios, plan, run>>

\* Positions of the list whose result the call returns from worker w: its
\* task's scenarios are filtered out of the list by id.
ResultsFrom(c, w) ==
  IF run[c][w] = "done" THEN {k \in DOMAIN scenarios[c] : scenarios[c][k] \in plan[c][w]}
                        ELSE {}
--------------------------------------------------------------------------
Init ==
  /\ registered = 0
  /\ status = [w \in Workers |-> "absent"]
  /\ region \in [Workers -> {CHOOSE r \in Regions : TRUE}]
  /\ fresh = [w \in Workers |-> FALSE]
  /\ task = [w \in Workers |-> NoCall]
  /\ completed = [w \in Workers |-> 0]
  /\ failed = [w \in Workers |-> 0]
  /\ call = [c \in Calls |-> "new"]
  /\ scenarios = [c \in Calls |-> << >>]
  /\ plan = [c \in Calls |-> [w \in Workers |-> {}]]
  /\ run = [c \in Calls |-> [w \in Workers |-> "none"]]
  /\ lapses = [w \in Workers |-> 0]

WorkerStep(w) == Deregister(w) \/ Heartbeat(w) \/ Lapse(w)
TaskStep(c, w) == EndTask(c, w, TRUE) \/ EndTask(c, w, FALSE)

Next == \/ \E r \in Regions : Register(r)
        \/ \E w \in Workers : WorkerStep(w)
        \/ ListWorkers
        \/ \E c \in Calls, list \in ScenarioLists, strategy \in Strategies :
             Execute(c, list, strategy)
        \/ \E c \in Calls, w \in Workers : TaskStep(c, w)
        \/ \E c \in Calls : Return(c)

Spec == Init /\ [][Next]_vars

\* engine.execute() returns (ExecutionEngine's Termination), and the loop
\* resumes a gather() whose tasks are over. Nobody has to call or to beat.
Fairness == /\ \A c \in Calls, w \in Workers : WF_vars(TaskStep(c, w))
            /\ \A c \in Calls : WF_vars(Return(c))

FairSpec == Spec /\ Fairness
--------------------------------------------------------------------------
(* Properties.                                                           *)

TypeOK ==
  /\ registered \in 0..MaxWorkers
  /\ status \in [Workers -> {"absent", "idle", "running", "offline"}]
  /\ region \in [Workers -> Regions]
  /\ fresh \in [Workers -> BOOLEAN]
  /\ task \in [Workers -> Calls \cup {NoCall}]
  /\ completed \in [Workers -> Nat] /\ failed \in [Workers -> Nat]
  /\ call \in [Calls -> {"new", "running", "returned"}]
  /\ scenarios \in [Calls -> ScenarioLists \cup {<< >>}]
  /\ plan \in [Calls -> [Workers -> SUBSET ScenarioIds]]
  /\ run \in [Calls -> [Workers -> TaskStates]]
  /\ lapses \in [Workers -> Nat]

\* A worker shown as RUNNING has its current task running: whichever way its
\* tasks overlap and end, it is never left RUNNING for good.
RunningIsBusy ==
  \A w \in Workers : status[w] = "running" =>
    task[w] \in Calls /\ run[task[w]][w] = "running"

\* The status is what keeps overlapping calls off the same worker: it executes
\* one task at a time and none while IDLE or OFFLINE, but for one more each time
\* it was marked OFFLINE in the middle of one: its next heartbeat makes it IDLE,
\* and the task runs on beside the next.
OneTaskAtATime ==
  \A w \in Workers :
    Cardinality(TasksOn(w)) <= lapses[w] + (IF status[w] \in {"idle", "offline"} THEN 0 ELSE 1)

\* The list names no scenario twice.
Distinct(list) == \A i, j \in DOMAIN list : list[i] = list[j] => i = j

\* Whatever the strategy, the fleet and its load: a plan made when a worker
\* was active has each scenario in the task of exactly one worker.
PlanPartitions ==
  \A c \in Calls : Distinct(scenarios[c]) /\ (\E w \in Workers : plan[c][w] # {}) =>
    \A id \in IdsOf(scenarios[c]) :
      \E w \in Workers : \A v \in Workers : id \in plan[c][v] <=> v = w

\* A worker that stayed has every task it ended in one of its two counters.
TasksCounted ==
  \A w \in Workers : InFleet(w) =>
    completed[w] + failed[w] = Cardinality({c \in Calls : run[c][w] \in {"done", "failed"}})

\* A planned task is dropped only because its worker is executing the task
\* of another call, never because the worker is silent, gone or idle.
DroppedOnlyWhenBusy ==
  [][\A c \in Calls, w \in Workers :
       run[c][w] # "dropped" /\ run'[c][w] = "dropped" =>
         \E d \in Calls \ {c} : run[d][w] = "running"]_vars

\* "Automatic failover and task reassignment" (distributed_engine.py:11): a
\* call that had a worker to plan for returns a result for every scenario.
AllScenariosExecuted ==
  \A c \in Calls : call[c] = "returned" /\ (\E w \in Workers : plan[c][w] # {}) =>
    \A k \in DOMAIN scenarios[c] : \E w \in Workers : k \in ResultsFrom(c, w)

\* A call that has started returns.
Returns == \A c \in Calls : call[c] = "running" ~> call[c] = "returned"
==========================================================================
