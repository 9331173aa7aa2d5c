--------------------- MODULE DistributedEngineProofs ---------------------
(***************************************************************************)
(* Theorems about DistributedEngine, for every number of workers, regions, *)
(* calls and scenario lists.                                               *)
(***************************************************************************)
EXTENDS DistributedEngine, CommonLemmas

--------------------------------------------------------------------------
(* The planning strategies.                                              *)

\* The workers are finitely many, and so is every set of them.
LEMMA FiniteFleet ==
  ASSUME NEW A \in SUBSET Workers
  PROVE  IsFiniteSet(A) /\ Cardinality(A) \in Nat /\ (A # {} => Cardinality(A) > 0)
<1>1. IsFiniteSet(Workers)
  BY DistributedConstants, FS_Interval DEF Workers
<1>2. IsFiniteSet(A) /\ Cardinality(A) \in Nat
  BY <1>1, FS_Subset, FS_CardinalityType
<1>. QED  BY <1>2, FS_EmptySet

\* Sorting by load numbers the workers, whatever the loads.
LEMMA RankNumbers ==
  ASSUME NEW A \in SUBSET Workers, NEW load \in [Workers -> Nat]
  PROVE  /\ \A v, w \in A : Rank(v, A, load) = Rank(w, A, load) => v = w
         /\ \A n \in 0..(Cardinality(A) - 1) : \E w \in A : Rank(w, A, load) = n
<1>. DEFINE R == [w \in A |-> {v \in A : load[v] < load[w] \/ (load[v] = load[w] /\ v < w)}]
<1>1. IsFiniteSet(A)
  BY FiniteFleet
<1>2. \A w \in A : w \in Nat /\ load[w] \in Nat
  BY DistributedConstants DEF Workers
<1>3. R \in [A -> SUBSET A]
  OBVIOUS
<1>4. \A w \in A : w \notin R[w]
  BY <1>2
<1>5. \A v, w \in A : v # w => v \in R[w] \/ w \in R[v]
  BY <1>2
<1>6. \A v, w \in A : v \in R[w] => R[v] \subseteq R[w]
  BY <1>2
<1>7. \A w \in A : Cardinality(R[w]) = Rank(w, A, load)
  BY DEF Rank
<1>. HIDE DEF R
<1>8. /\ \A v, w \in A : Cardinality(R[v]) = Cardinality(R[w]) => v = w
      /\ \A n \in 0..(Cardinality(A) - 1) : \E w \in A : Cardinality(R[w]) = n
  BY <1>1, <1>3, <1>4, <1>5, <1>6, Numbering
<1>. QED  BY <1>7, <1>8

\* Of some workers, one registered first.
LEMMA FirstWorker ==
  ASSUME NEW A \in SUBSET Workers, A # {}
  PROVE  \E v \in A : \A u \in A : v <= u
<1>1. NoLoad \in [Workers -> Nat] /\ \A w \in Workers : NoLoad[w] = 0
  BY DEF NoLoad
<1>2. PICK v \in A : Rank(v, A, NoLoad) = 0
  <2>1. 0 \in 0..(Cardinality(A) - 1)
    BY FiniteFleet
  <2>. QED  BY <1>1, <2>1, RankNumbers
<1>. DEFINE B == {u \in A : NoLoad[u] < NoLoad[v] \/ (NoLoad[u] = NoLoad[v] /\ u < v)}
<1>3. Cardinality(B) = 0
  BY <1>2 DEF Rank
<1>4. IsFiniteSet(B)
  <2>1. B \in SUBSET Workers
    OBVIOUS
  <2>. QED  BY <2>1, FiniteFleet
<1>5. B = {}
  <2>. HIDE DEF B
  <2>. QED  BY <1>3, <1>4, FS_EmptySet
<1>6. \A u \in A : ~(u < v)
  BY <1>1, <1>5
<1>7. \A u \in A : u \in Nat
  BY DistributedConstants DEF Workers
<1>. QED  BY <1>6, <1>7

\* Round robin gives every position to exactly one worker.
LEMMA DealtOnce ==
  ASSUME NEW A \in SUBSET Workers, A # {}, NEW load \in [Workers -> Nat],
         NEW n \in Nat
  PROVE  \E w \in A : \A v \in A : n % Cardinality(A) = Rank(v, A, load) <=> v = w
<1>1. Cardinality(A) \in Nat /\ Cardinality(A) > 0
  BY FiniteFleet
<1>2. n % Cardinality(A) \in 0..(Cardinality(A) - 1)
  BY <1>1
<1>. QED  BY <1>2, RankNumbers

\* Regions are numbered too, by the worker that registered first.
LEMMA RegionsNumber ==
  ASSUME NEW A \in SUBSET Workers, A # {}
  PROVE  /\ Cardinality(RegionsOf(A)) \in Nat \ {0}
         /\ \A q, r \in RegionsOf(A) : RegionRank(q, A) = RegionRank(r, A) => q = r
         /\ \A n \in 0..(Cardinality(RegionsOf(A)) - 1) :
              \E r \in RegionsOf(A) : RegionRank(r, A) = n
<1>. DEFINE S == RegionsOf(A)
            R == [r \in S |-> {q \in S : FirstOf(q, A) < FirstOf(r, A)}]
<1>1. ASSUME NEW r \in S
      PROVE  FirstOf(r, A) \in A /\ region[FirstOf(r, A)] = r
  <2>. DEFINE M == {v \in A : region[v] = r}
  <2>1. PICK u \in A : region[u] = r
    BY DEF RegionsOf
  <2>2. M \in SUBSET Workers /\ M # {}
    BY <2>1
  <2>. HIDE DEF M
  <2>3. PICK v \in M : \A w \in M : v <= w
    BY <2>2, FirstWorker
  <2>4. v \in A /\ region[v] = r /\ \A w \in A : region[w] = r => v <= w
    BY <2>3 DEF M
  <2>. QED  BY <2>4 DEF FirstOf
<1>2. ASSUME NEW r \in S PROVE FirstOf(r, A) \in Nat
  <2>1. \A v \in A : v \in Nat
    BY DistributedConstants DEF Workers
  <2>. QED  BY <1>1, <2>1
<1>3. \A q, r \in S : FirstOf(q, A) = FirstOf(r, A) => q = r
  BY <1>1
<1>4. IsFiniteSet(S)
  <2>. DEFINE f == [v \in A |-> region[v]]
  <2>1. f \in Surjection(A, S)
    BY DEF Surjection, RegionsOf
  <2>. QED  BY <2>1, FiniteFleet, FS_Surjection
<1>5. S # {}
  BY DEF RegionsOf
<1>6. \A r \in S : Cardinality(R[r]) = RegionRank(r, A)
  BY DEF RegionRank
<1>. HIDE DEF S
<1>7. R \in [S -> SUBSET S]
  OBVIOUS
<1>8. \A r \in S : r \notin R[r]
  BY <1>2
<1>9. \A q, r \in S : q # r => q \in R[r] \/ r \in R[q]
  BY <1>2, <1>3
<1>10. \A q, r \in S : q \in R[r] => R[q] \subseteq R[r]
  BY <1>2
<1>. HIDE DEF R
<1>11. /\ \A q, r \in S : Cardinality(R[q]) = Cardinality(R[r]) => q = r
       /\ \A n \in 0..(Cardinality(S) - 1) : \E r \in S : Cardinality(R[r]) = n
  BY <1>4, <1>7, <1>8, <1>9, <1>10, Numbering
<1>12. Cardinality(S) \in Nat \ {0}
  BY <1>4, <1>5, FS_EmptySet, FS_CardinalityType
<1>. QED  BY <1>6, <1>11, <1>12 DEF S

\* A plan made for some workers gives every position to exactly one of them.
LEMMA SharedOnce ==
  ASSUME NEW A \in SUBSET Workers, A # {}, completed \in [Workers -> Nat],
         NEW list, NEW strategy \in Strategies,
         NEW k \in DOMAIN list, k \in Nat \ {0}
  PROVE  \E w \in A : \A v \in Workers : k \in Share(v, A, list, strategy) <=> v = w
<1>0. NoLoad \in [Workers -> Nat] /\ k - 1 \in Nat
  BY DEF NoLoad
<1>1. CASE strategy = "round_robin"
  <2>1. PICK w \in A : \A v \in A :
              (k - 1) % Cardinality(A) = Rank(v, A, NoLoad) <=> v = w
    BY <1>0, DealtOnce
  <2>. QED  BY <1>1, <2>1 DEF Share, Dealt
<1>2. CASE strategy = "least_loaded"
  <2>1. PICK w \in A : \A v \in A :
              (k - 1) % Cardinality(A) = Rank(v, A, completed) <=> v = w
    BY <1>0, DealtOnce
  <2>. QED  BY <1>2, <2>1 DEF Share, Dealt
<1>3. CASE strategy = "region_aware"
  <2>. DEFINE G == Cardinality(RegionsOf(A))
              M(r) == {v \in A : region[v] = r}
              n == (k - 1) \div G
  <2>1. G \in Nat \ {0} /\ (k - 1) % G \in 0..(G - 1) /\ n \in Nat
    <3>1. G \in Nat \ {0}
      BY RegionsNumber
    <3>. HIDE DEF G
    <3>. QED  BY <1>0, <3>1
  <2>2. PICK r \in RegionsOf(A) : RegionRank(r, A) = (k - 1) % G
    BY <2>1, RegionsNumber
  <2>3. \A q \in RegionsOf(A) : RegionRank(q, A) = (k - 1) % G => q = r
    BY <2>2, RegionsNumber
  <2>4. M(r) \in SUBSET Workers /\ M(r) # {}
    BY DEF RegionsOf
  <2>. HIDE DEF n
  <2>5. PICK w \in M(r) : \A v \in M(r) :
              n % Cardinality(M(r)) = Rank(v, M(r), NoLoad) <=> v = w
    <3>. HIDE DEF M
    <3>. QED  BY <1>0, <2>1, <2>4, DealtOnce
  <2>7. ASSUME NEW v \in A
        PROVE  k \in RegionDealt(v, A, DOMAIN list) <=>
                 /\ (k - 1) % G = RegionRank(region[v], A)
                 /\ n % Cardinality(M(region[v])) = Rank(v, M(region[v]), NoLoad)
    BY DEF RegionDealt, n
  <2>8. ASSUME NEW v \in A, k \in RegionDealt(v, A, DOMAIN list)
        PROVE  v = w
    <3>1. region[v] = r
      BY <2>3, <2>7, <2>8 DEF RegionsOf
    <3>. QED  BY <2>5, <2>7, <2>8, <3>1
  <2>9. w \in A /\ region[w] = r
    OBVIOUS
  <2>10. k \in RegionDealt(w, A, DOMAIN list)
    BY <2>2, <2>5, <2>7, <2>9
  <2>. QED  BY <1>3, <2>8, <2>9, <2>10 DEF Share
<1>. QED  BY <1>1, <1>2, <1>3 DEF Strategies

\* A plan puts each scenario of a list without repetitions in one task.
LEMMA PlanIsPartition ==
  ASSUME NEW A \in SUBSET Workers, A # {}, completed \in [Workers -> Nat],
         NEW list \in ScenarioLists, NEW strategy \in Strategies, Distinct(list),
         NEW id \in IdsOf(list)
  PROVE  \E w \in Workers : \A v \in Workers :
           id \in Plan(A, list, strategy)[v] <=> v = w
<1>1. PICK k \in DOMAIN list : list[k] = id
  BY DEF IdsOf
<1>2. k \in Nat \ {0}
  <2>1. DOMAIN list = 1..Cardinality(DOMAIN list) /\ Cardinality(DOMAIN list) \in Nat
    BY DistributedConstants, FS_CardinalityType
  <2>. QED  BY <2>1
<1>3. PICK w \in A : \A v \in Workers : k \in Share(v, A, list, strategy) <=> v = w
  BY <1>2, SharedOnce
<1>4. ASSUME NEW v \in Workers
      PROVE  Share(v, A, list, strategy) \subseteq DOMAIN list
  BY DEF Share, Dealt, RegionDealt, Strategies
<1>5. ASSUME NEW v \in Workers
      PROVE  id \in Plan(A, list, strategy)[v] <=> k \in Share(v, A, list, strategy)
  <2>1. Plan(A, list, strategy)[v] = {list[j] : j \in Share(v, A, list, strategy)}
    BY DEF Plan
  <2>2. \A j \in Share(v, A, list, strategy) : list[j] = id => j = k
    BY <1>1, <1>4 DEF Distinct
  <2>. QED  BY <1>1, <2>1, <2>2
<1>. QED  BY <1>3, <1>5
--------------------------------------------------------------------------
(* The invariant.                                                        *)

\* A worker id that has not been handed out yet is in no registry or task.
UnusedWorkers ==
  \A w \in Workers : w > registered =>
    status[w] = "absent" /\ \A c \in Calls : run[c][w] = "none"

\* A call that has not started has no task.
NewCalls == \A c \in Calls : call[c] = "new" => \A w \in Workers : run[c][w] = "none"

\* The inductive invariant of the registry and the tasks.
FleetInv == TypeOK /\ UnusedWorkers /\ NewCalls /\ RunningIsBusy /\ OneTaskAtATime

\* OneTaskAtATime of one worker.
FewTasks(w) ==
  Cardinality(TasksOn(w)) <= lapses[w] + (IF status[w] \in {"idle", "offline"} THEN 0 ELSE 1)

LEMMA TasksFinite ==
  ASSUME NEW w \in Workers
  PROVE  IsFiniteSet(TasksOn(w)) /\ Cardinality(TasksOn(w)) \in Nat
<1>1. TasksOn(w) \subseteq Calls
  BY DEF TasksOn
<1>. QED  BY <1>1, DistributedConstants, FS_Subset, FS_CardinalityType

LEMMA InitFleetInv == Init => FleetInv
<1>. SUFFICES ASSUME Init PROVE FleetInv
  OBVIOUS
<1>1. TypeOK
  <2>1. (CHOOSE r \in Regions : TRUE) \in Regions
    BY DistributedConstants
  <2>2. IdsOf(<< >>) = {}
    BY DEF IdsOf
  <2>. QED  BY <2>1, DistributedConstants DEF Init, TypeOK, TaskStates
<1>2. UnusedWorkers /\ NewCalls /\ RunningIsBusy
  BY DEF Init, UnusedWorkers, NewCalls, RunningIsBusy
<1>3. OneTaskAtATime
  <2>. SUFFICES ASSUME NEW w \in Workers PROVE FewTasks(w)
    BY DEF OneTaskAtATime, FewTasks
  <2>1. TasksOn(w) = {}
    BY DEF Init, TasksOn
  <2>2. Cardinality(TasksOn(w)) = 0
    BY <2>1, FS_EmptySet
  <2>. QED  BY <2>2 DEF Init, FewTasks
<1>. QED  BY <1>1, <1>2, <1>3 DEF FleetInv

\* Registering, leaving, beating and falling silent.
LEMMA RegistryStep ==
  ASSUME FleetInv,
         \/ \E r \in Regions : Register(r)
         \/ \E w \in Workers : WorkerStep(w)
         \/ ListWorkers
  PROVE  FleetInv'
<1>. USE DEF FleetInv
<1>0. ASSUME UNCHANGED callVars
      PROVE  /\ TasksOn(1)' = TasksOn(1)
             /\ \A w \in Workers : TasksOn(w)' = TasksOn(w)
  BY <1>0 DEF callVars, TasksOn
<1>1. ASSUME NEW r \in Regions, Register(r) PROVE FleetInv'
  <2>1. registered + 1 \in Workers
    BY <1>1, DistributedConstants DEF Register, TypeOK, Workers
  <2>2. TypeOK'
    <3>1. registered' \in 0..MaxWorkers
      BY <1>1, DistributedConstants DEF Register, TypeOK
    <3>. QED  BY <1>1, <2>1, <3>1 DEF Register, TypeOK, callVars
  <2>3. UnusedWorkers' /\ NewCalls'
    BY <1>1, <2>1 DEF Register, TypeOK, callVars, UnusedWorkers, NewCalls, Workers
  <2>4. RunningIsBusy'
    BY <1>1, <2>1 DEF Register, TypeOK, callVars, RunningIsBusy
  <2>5. OneTaskAtATime'
    <3>1. TasksOn(registered + 1) = {}
      <4>1. registered + 1 > registered
        BY DistributedConstants DEF TypeOK
      <4>. QED  BY <2>1, <4>1 DEF UnusedWorkers, TasksOn
    <3>2. \A w \in Workers : TasksOn(w)' = TasksOn(w)
      BY <1>1 DEF Register, callVars, TasksOn
    <3>3. \A w \in Workers : w # registered + 1 => status'[w] = status[w]
      BY <1>1 DEF Register, TypeOK
    <3>4. lapses' = lapses /\ \A w \in Workers : lapses[w] \in Nat
      BY <1>1 DEF Register, TypeOK
    <3>5. Cardinality(TasksOn(registered + 1)) = 0
      BY <3>1, FS_EmptySet
    <3>6. \A w \in Workers : Cardinality(TasksOn(w)') = Cardinality(TasksOn(w))
      BY <3>2
    <3>. QED  BY <3>3, <3>4, <3>5, <3>6 DEF OneTaskAtATime
  <2>. QED  BY <2>2, <2>3, <2>4, <2>5
<1>2. ASSUME NEW w \in Workers, Deregister(w) PROVE FleetInv'
  <2>1. TypeOK' /\ UnusedWorkers' /\ NewCalls' /\ RunningIsBusy'
    BY <1>2 DEF Deregister, TypeOK, callVars, UnusedWorkers, NewCalls, RunningIsBusy
  <2>2. OneTaskAtATime'
    <3>1. \A v \in Workers : TasksOn(v)' = TasksOn(v) /\ lapses[v] \in Nat
      BY <1>2 DEF Deregister, callVars, TasksOn, TypeOK
    <3>2. \A v \in Workers : Cardinality(TasksOn(v)') = Cardinality(TasksOn(v))
      BY <3>1
    <3>3. \A v \in Workers : status'[v] \in {"idle", "offline"} => status[v] \in {"idle", "offline"}
      BY <1>2 DEF Deregister, TypeOK
    <3>4. lapses' = lapses /\ \A v \in Workers : Cardinality(TasksOn(v)) \in Nat
      BY <1>2, TasksFinite DEF Deregister
    <3>. QED  BY <3>1, <3>2, <3>3, <3>4 DEF OneTaskAtATime
  <2>. QED  BY <2>1, <2>2
<1>3. ASSUME NEW w \in Workers, Heartbeat(w) PROVE FleetInv'
  <2>1. TypeOK' /\ UnusedWorkers' /\ NewCalls' /\ RunningIsBusy'
    BY <1>3 DEF Heartbeat, InFleet, TypeOK, callVars, UnusedWorkers, NewCalls, RunningIsBusy
  <2>2. OneTaskAtATime'
    <3>1. \A v \in Workers : TasksOn(v)' = TasksOn(v) /\ lapses[v] \in Nat
      BY <1>3 DEF Heartbeat, callVars, TasksOn, TypeOK
    <3>2. \A v \in Workers : Cardinality(TasksOn(v)') = Cardinality(TasksOn(v))
      BY <3>1
    <3>3. \A v \in Workers : status'[v] \in {"idle", "offline"} => status[v] \in {"idle", "offline"}
      BY <1>3 DEF Heartbeat, TypeOK
    <3>. QED
      BY <1>3, <3>1, <3>2, <3>3 DEF Heartbeat, OneTaskAtATime
  <2>. QED  BY <2>1, <2>2
<1>4. ASSUME NEW w \in Workers, Lapse(w) PROVE FleetInv'
  <2>1. TypeOK' /\ UnusedWorkers' /\ NewCalls' /\ RunningIsBusy'
    BY <1>4 DEF Lapse, TypeOK, callVars, UnusedWorkers, NewCalls, RunningIsBusy
  <2>2. OneTaskAtATime'
    <3>1. \A v \in Workers : TasksOn(v)' = TasksOn(v) /\ lapses[v] \in Nat
      BY <1>4 DEF Lapse, callVars, TasksOn, TypeOK
    <3>2. \A v \in Workers : Cardinality(TasksOn(v)') = Cardinality(TasksOn(v))
      BY <3>1
    <3>3. \A v \in Workers : status'[v] \in {"idle", "offline"} => status[v] \in {"idle", "offline"}
      BY <1>4 DEF Lapse, TypeOK
    <3>. QED
      BY <1>4, <3>1, <3>2, <3>3 DEF Lapse, OneTaskAtATime
  <2>. QED  BY <2>1, <2>2
<1>5. ASSUME ListWorkers PROVE FleetInv'
  <2>1. TypeOK' /\ NewCalls'
    BY <1>5 DEF ListWorkers, MarkStale, NoteLapses, Stale, TypeOK, callVars, NewCalls
  <2>2. UnusedWorkers' /\ RunningIsBusy'
    BY <1>5 DEF ListWorkers, MarkStale, Stale, InFleet, TypeOK, callVars, UnusedWorkers, RunningIsBusy
  <2>3. OneTaskAtATime'
    <3>1. \A v \in Workers : TasksOn(v)' = TasksOn(v) /\ lapses[v] \in Nat
      BY <1>5 DEF ListWorkers, callVars, TasksOn, TypeOK
    <3>2. \A v \in Workers : Cardinality(TasksOn(v)') = Cardinality(TasksOn(v))
      BY <3>1
    <3>3. \A v \in Workers : FewTasks(v)
      BY DEF OneTaskAtATime, FewTasks
    <3>4. ASSUME NEW v \in Workers PROVE FewTasks(v)'
      <4>1. /\ status'[v] = IF v \in Stale THEN "offline" ELSE status[v]
            /\ lapses'[v] = IF v \in Stale /\ status[v] = "running" THEN lapses[v] + 1 ELSE lapses[v]
            /\ v \in Stale => status[v] \in {"idle", "running", "offline"}
        BY <1>5 DEF ListWorkers, MarkStale, NoteLapses, Stale, InFleet, TypeOK
      <4>. QED  BY <3>1, <3>2, <3>3, <4>1 DEF FewTasks
    <3>. QED  BY <3>4 DEF FewTasks, OneTaskAtATime
  <2>. QED  BY <2>1, <2>2, <2>3
<1>. QED  BY <1>1, <1>2, <1>3, <1>4, <1>5 DEF WorkerStep

\* An execute_distributed() call starts.
LEMMA ExecuteStep ==
  ASSUME FleetInv, NEW c \in Calls, NEW list \in ScenarioLists, NEW strategy \in Strategies,
         Execute(c, list, strategy)
  PROVE  FleetInv'
<1>. USE DEF FleetInv
<1>. DEFINE p == Plan(Active, list, strategy)
            assigned == {w \in Workers : p[w] # {} /\ Assignable(w)}
<1>1. /\ call[c] = "new"
      /\ call' = [call EXCEPT ![c] = IF assigned = {} THEN "returned" ELSE "running"]
      /\ scenarios' = [scenarios EXCEPT ![c] = list]
      /\ plan' = [plan EXCEPT ![c] = p]
      /\ run' = [run EXCEPT ![c] = [w \in Workers |->
                   IF w \in assigned THEN "running"
                   ELSE IF p[w] # {} THEN "dropped" ELSE "none"]]
      /\ status' = [w \in Workers |-> IF w \in assigned THEN "running" ELSE MarkStale(status)[w]]
      /\ task' = [w \in Workers |-> IF w \in assigned THEN c ELSE task[w]]
      /\ NoteLapses
      /\ UNCHANGED <<registered, region, fresh, completed, failed>>
  BY DEF Execute
<1>2. p \in [Workers -> SUBSET ScenarioIds]
  <2>1. \A w \in Workers : Share(w, Active, list, strategy) \subseteq DOMAIN list
    BY DEF Share, Dealt, RegionDealt, Strategies
  <2>. QED  BY <2>1 DEF Plan, IdsOf, ScenarioIds
<1>3. \A w \in Workers : p[w] # {} => w \in Active
  BY DEF Plan, Share
<1>4. \A w \in Workers : w \in Active => status[w] \in {"idle", "running"} /\ w \notin Stale
  BY DEF Active, Stale
<1>5. \A w \in assigned : status[w] = "idle" /\ w \in Workers
  BY DEF Assignable
<1>6. \A w \in Workers : MarkStale(status)[w] = IF w \in Stale THEN "offline" ELSE status[w]
  BY DEF MarkStale
<1>13. \A w \in assigned : w \in Active
  BY <1>3
<1>. HIDE DEF p, assigned
<1>7. assigned \subseteq Workers
  BY <1>5
<1>8. TypeOK'
  BY <1>1, <1>2, <1>6, <1>7 DEF TypeOK, TaskStates, NoteLapses, Stale
<1>9. UnusedWorkers'
  <2>. SUFFICES ASSUME NEW w \in Workers, w > registered
                PROVE  status'[w] = "absent" /\ \A d \in Calls : run'[d][w] = "none"
    BY <1>1 DEF UnusedWorkers
  <2>1. status[w] = "absent" /\ w \notin Active /\ w \notin Stale /\ w \notin assigned
    BY <1>4, <1>5 DEF UnusedWorkers, Stale, InFleet
  <2>. QED  BY <1>1, <1>3, <1>6, <2>1 DEF UnusedWorkers, TypeOK
<1>10. NewCalls'
  BY <1>1 DEF NewCalls, TypeOK
<1>11. RunningIsBusy'
  <2>. SUFFICES ASSUME NEW w \in Workers, status'[w] = "running"
                PROVE  task'[w] \in Calls /\ run'[task'[w]][w] = "running"
    BY DEF RunningIsBusy
  <2>1. CASE w \in assigned
    BY <1>1, <2>1 DEF TypeOK
  <2>2. CASE w \notin assigned
    <3>1. status[w] = "running" /\ task'[w] = task[w]
      BY <1>1, <1>6, <2>2
    <3>2. task[w] \in Calls /\ run[task[w]][w] = "running"
      BY <3>1 DEF RunningIsBusy
    <3>3. task[w] # c
      BY <1>1, <3>2 DEF NewCalls
    <3>. QED  BY <1>1, <3>1, <3>2, <3>3 DEF TypeOK
  <2>. QED  BY <2>1, <2>2
<1>12. OneTaskAtATime'
  <2>1. \A w \in Workers : c \notin TasksOn(w)
    BY <1>1 DEF NewCalls, TasksOn
  <2>2. \A w \in Workers : TasksOn(w)' = IF w \in assigned THEN TasksOn(w) \cup {c} ELSE TasksOn(w)
    BY <1>1, <2>1 DEF TasksOn, TypeOK
  <2>3. ASSUME NEW w \in Workers
        PROVE  /\ lapses'[w] = IF w \in Stale /\ status[w] = "running" THEN lapses[w] + 1 ELSE lapses[w]
               /\ lapses[w] \in Nat
    BY <1>1 DEF NoteLapses, TypeOK
  <2>. SUFFICES ASSUME NEW w \in Workers PROVE FewTasks(w)'
    BY DEF OneTaskAtATime, FewTasks
  <2>4. FewTasks(w) /\ Cardinality(TasksOn(w)) \in Nat
    BY TasksFinite DEF OneTaskAtATime, FewTasks
  <2>5. CASE w \in assigned
    <3>1. status[w] = "idle" /\ status'[w] = "running" /\ w \notin Stale
      BY <1>1, <1>4, <1>5, <1>13, <2>5
    <3>2. Cardinality(TasksOn(w) \cup {c}) = Cardinality(TasksOn(w)) + 1
      <4>1. IsFiniteSet(TasksOn(w)) /\ c \notin TasksOn(w)
        BY <2>1, TasksFinite
      <4>. QED  BY <4>1, FS_AddElement
    <3>3. TasksOn(w)' = TasksOn(w) \cup {c}
      BY <2>2, <2>5
    <3>4. Cardinality(TasksOn(w)') = Cardinality(TasksOn(w)) + 1
      BY <3>2, <3>3
    <3>. QED  BY <2>3, <2>4, <3>1, <3>4 DEF FewTasks
  <2>6. CASE w \notin assigned
    <3>1. TasksOn(w)' = TasksOn(w)
      BY <2>2, <2>6
    <3>2. status'[w] = IF w \in Stale THEN "offline" ELSE status[w]
      BY <1>1, <1>6, <2>6
    <3>3. w \in Stale => status[w] \in {"idle", "running", "offline"}
      BY DEF Stale, InFleet, TypeOK
    <3>4. Cardinality(TasksOn(w)') = Cardinality(TasksOn(w))
      BY <3>1
    <3>. QED  BY <2>3, <2>4, <3>2, <3>3, <3>4 DEF FewTasks
  <2>. QED  BY <2>5, <2>6
<1>. QED  BY <1>8, <1>9, <1>10, <1>11, <1>12

\* A task ends.
LEMMA EndTaskStep ==
  ASSUME FleetInv, NEW c \in Calls, NEW w \in Workers, NEW success \in BOOLEAN,
         EndTask(c, w, success)
  PROVE  FleetInv'
<1>. USE DEF FleetInv
<1>1. /\ run[c][w] = "running"
      /\ run' = [run EXCEPT ![c][w] = IF success THEN "done" ELSE "failed"]
      /\ UNCHANGED <<registered, region, fresh, lapses, call, scenarios, plan>>
  BY DEF EndTask
<1>2. \/ /\ InFleet(w)
         /\ status' = [status EXCEPT ![w] = "idle"]
         /\ task' = [task EXCEPT ![w] = NoCall]
         /\ completed' = [completed EXCEPT ![w] = IF success THEN @ + 1 ELSE @]
         /\ failed' = [failed EXCEPT ![w] = IF success THEN @ ELSE @ + 1]
      \/ ~InFleet(w) /\ UNCHANGED <<status, task, completed, failed>>
  BY DEF EndTask, CompleteTask
<1>3. TypeOK'
  <2>1. run' \in [Calls -> [Workers -> TaskStates]]
    <3>1. (IF success THEN "done" ELSE "failed") \in TaskStates
      BY DEF TaskStates
    <3>. QED  BY <1>1, <3>1 DEF TypeOK
  <2>2. /\ status' \in [Workers -> {"absent", "idle", "running", "offline"}]
        /\ task' \in [Workers -> Calls \cup {NoCall}]
    BY <1>2 DEF TypeOK
  <2>3. completed' \in [Workers -> Nat] /\ failed' \in [Workers -> Nat]
    <3>1. completed[w] + 1 \in Nat /\ failed[w] + 1 \in Nat
      BY DEF TypeOK
    <3>2. (IF success THEN completed[w] + 1 ELSE completed[w]) \in Nat
      BY <3>1 DEF TypeOK
    <3>3. (IF success THEN failed[w] ELSE failed[w] + 1) \in Nat
      BY <3>1 DEF TypeOK
    <3>4. completed' \in [Workers -> Nat]
      BY <1>2, <3>2 DEF TypeOK
    <3>5. failed' \in [Workers -> Nat]
      BY <1>2, <3>3 DEF TypeOK
    <3>. QED  BY <3>4, <3>5
  <2>. QED  BY <1>1, <2>1, <2>2, <2>3 DEF TypeOK
<1>4. /\ \A d \in Calls, v \in Workers : d # c \/ v # w => run'[d][v] = run[d][v]
      /\ run'[c][w] \in {"done", "failed"}
  BY <1>1 DEF TypeOK
<1>5. /\ \A v \in Workers : v # w => status'[v] = status[v] /\ task'[v] = task[v]
      /\ status'[w] \in {"idle", "absent"}
      /\ status[w] = "absent" => status'[w] = "absent"
  BY <1>2 DEF TypeOK, InFleet
<1>6. UnusedWorkers'
  BY <1>1, <1>4, <1>5 DEF UnusedWorkers
<1>7. NewCalls'
  BY <1>1, <1>4 DEF NewCalls
<1>8. RunningIsBusy'
  BY <1>4, <1>5 DEF RunningIsBusy
<1>9. OneTaskAtATime'
  <2>1. \A v \in Workers : TasksOn(v)' = IF v = w THEN TasksOn(v) \ {c} ELSE TasksOn(v)
    BY <1>4 DEF TasksOn
  <2>2. c \in TasksOn(w)
    BY <1>1 DEF TasksOn
  <2>. SUFFICES ASSUME NEW v \in Workers PROVE FewTasks(v)'
    BY DEF OneTaskAtATime, FewTasks
  <2>3. FewTasks(v) /\ Cardinality(TasksOn(v)) \in Nat /\ lapses[v] \in Nat /\ lapses' = lapses
    BY <1>1, TasksFinite DEF OneTaskAtATime, FewTasks, TypeOK
  <2>4. CASE v = w
    <3>1. Cardinality(TasksOn(v)') = Cardinality(TasksOn(v)) - 1
      BY <2>1, <2>2, <2>4, TasksFinite, FS_RemoveElement
    <3>. QED  BY <2>3, <3>1 DEF FewTasks
  <2>5. CASE v # w
    <3>1. Cardinality(TasksOn(v)') = Cardinality(TasksOn(v))
      BY <2>1, <2>5
    <3>. QED  BY <1>5, <2>3, <2>5, <3>1 DEF FewTasks
  <2>. QED  BY <2>4, <2>5
<1>. QED  BY <1>3, <1>6, <1>7, <1>8, <1>9

\* Every step keeps the invariant.
LEMMA NextFleetInv == FleetInv /\ [Next]_vars => FleetInv'
<1>. SUFFICES ASSUME FleetInv, [Next]_vars PROVE FleetInv'
  OBVIOUS
<1>. USE DEF FleetInv
<1>1. CASE \/ \E r \in Regions : Register(r)
           \/ \E w \in Workers : WorkerStep(w)
           \/ ListWorkers
  BY <1>1, RegistryStep
<1>2. ASSUME NEW c \in Calls, NEW list \in ScenarioLists, NEW strategy \in Strategies,
             Execute(c, list, strategy)
      PROVE  FleetInv'
  BY <1>2, ExecuteStep
<1>3. ASSUME NEW c \in Calls, NEW w \in Workers, TaskStep(c, w) PROVE FleetInv'
  BY <1>3, EndTaskStep DEF TaskStep
<1>4. ASSUME NEW c \in Calls, Return(c) PROVE FleetInv'
  <2>1. UNCHANGED <<workerVars, scenarios, plan, run>>
    BY <1>4 DEF Return
  <2>2. TypeOK' /\ UnusedWorkers' /\ NewCalls' /\ RunningIsBusy'
    BY <1>4, <2>1 DEF Return, workerVars, TypeOK, UnusedWorkers, NewCalls, RunningIsBusy
  <2>3. OneTaskAtATime'
    <3>1. UNCHANGED <<run, status, lapses>> /\ \A w \in Workers : TasksOn(w)' = TasksOn(w)
      BY <2>1 DEF workerVars, TasksOn
    <3>2. \A w \in Workers : Cardinality(TasksOn(w)') = Cardinality(TasksOn(w))
      BY <3>1
    <3>. QED  BY <3>1, <3>2 DEF OneTaskAtATime
  <2>. QED  BY <2>2, <2>3
<1>5. CASE UNCHANGED vars
  <2>1. TypeOK' /\ UnusedWorkers' /\ NewCalls' /\ RunningIsBusy'
    BY <1>5 DEF vars, workerVars, callVars, TypeOK, UnusedWorkers, NewCalls, RunningIsBusy
  <2>2. OneTaskAtATime'
    <3>1. UNCHANGED <<run, status, lapses>> /\ \A w \in Workers : TasksOn(w)' = TasksOn(w)
      BY <1>5 DEF vars, workerVars, callVars, TasksOn
    <3>2. \A w \in Workers : Cardinality(TasksOn(w)') = Cardinality(TasksOn(w))
      BY <3>1
    <3>. QED  BY <3>1, <3>2 DEF OneTaskAtATime
  <2>. QED  BY <2>1, <2>2
<1>. QED  BY <1>1, <1>2, <1>3, <1>4, <1>5 DEF Next

LEMMA AlwaysFleetInv == Spec => []FleetInv
<1>1. Init => FleetInv
  BY InitFleetInv
<1>2. FleetInv /\ [Next]_vars => FleetInv'
  BY NextFleetInv
<1>. QED  BY <1>1, <1>2, PTL DEF Spec
--------------------------------------------------------------------------
(* What the registry, the plans and the calls guarantee.                 *)

\* Type correctness.
THEOREM TypeCorrect == Spec => []TypeOK
<1>1. FleetInv => TypeOK
  BY DEF FleetInv
<1>. QED  BY <1>1, AlwaysFleetInv, PTL

\* A worker is never left RUNNING without a task of its own that runs.
THEOREM NeverStuckRunning == Spec => []RunningIsBusy
<1>1. FleetInv => RunningIsBusy
  BY DEF FleetInv
<1>. QED  BY <1>1, AlwaysFleetInv, PTL

\* A worker executes one task at a time, and one more for each time it was
\* marked OFFLINE in the middle of one.
THEOREM OneTask == Spec => []OneTaskAtATime
<1>1. FleetInv => OneTaskAtATime
  BY DEF FleetInv
<1>. QED  BY <1>1, AlwaysFleetInv, PTL

\* Every plan partitions the scenarios of its call.
THEOREM Partition == Spec => []PlanPartitions
<1>1. Init => PlanPartitions
  BY DEF Init, PlanPartitions
<1>2. FleetInv /\ PlanPartitions /\ [Next]_vars => PlanPartitions'
  <2>. SUFFICES ASSUME FleetInv, PlanPartitions, [Next]_vars PROVE PlanPartitions'
    OBVIOUS
  <2>1. CASE UNCHANGED <<scenarios, plan>>
    BY <2>1 DEF PlanPartitions
  <2>2. ASSUME NEW c \in Calls, NEW list \in ScenarioLists, NEW strategy \in Strategies,
               Execute(c, list, strategy)
        PROVE  PlanPartitions'
    <3>1. /\ scenarios' = [scenarios EXCEPT ![c] = list]
          /\ plan' = [plan EXCEPT ![c] = Plan(Active, list, strategy)]
      BY <2>2 DEF Execute
    <3>2. ASSUME NEW d \in Calls
          PROVE  /\ d # c => scenarios'[d] = scenarios[d] /\ plan'[d] = plan[d]
                 /\ d = c => scenarios'[d] = list /\ plan'[d] = Plan(Active, list, strategy)
      BY <3>1 DEF FleetInv, TypeOK
    <3>3. ASSUME Distinct(list), NEW v \in Workers, Plan(Active, list, strategy)[v] # {},
                 NEW id \in IdsOf(list)
          PROVE  \E w \in Workers : \A u \in Workers :
                   id \in Plan(Active, list, strategy)[u] <=> u = w
      <4>1. Active \in SUBSET Workers /\ Active # {}
        BY <3>3 DEF Active, Plan, Share
      <4>. QED  BY <3>3, <4>1, PlanIsPartition DEF FleetInv, TypeOK
    <3>4. ASSUME NEW d \in Calls, Distinct(scenarios'[d]), NEW v \in Workers, plan'[d][v] # {},
                 NEW id \in IdsOf(scenarios'[d])
          PROVE  \E w \in Workers : \A u \in Workers : id \in plan'[d][u] <=> u = w
      <4>1. CASE d = c
        BY <3>2, <3>3, <3>4, <4>1
      <4>2. CASE d # c
        BY <3>2, <3>4, <4>2 DEF PlanPartitions
      <4>. QED  BY <4>1, <4>2
    <3>. QED  BY <3>4 DEF PlanPartitions, Distinct, IdsOf
  <2>3. UNCHANGED <<scenarios, plan>>
        \/ \E c \in Calls, list \in ScenarioLists, strategy \in Strategies :
             Execute(c, list, strategy)
    BY DEF Next, Register, WorkerStep, Deregister, Heartbeat, Lapse, ListWorkers, TaskStep,
           EndTask, Return, vars, callVars
  <2>. QED  BY <2>1, <2>2, <2>3
<1>. QED  BY <1>1, <1>2, AlwaysFleetInv, PTL DEF Spec

\* A task is dropped only for a worker that executes another call's task.
THEOREM DropsJustified == Spec => DroppedOnlyWhenBusy
<1>1. ASSUME FleetInv, [Next]_vars, NEW c \in Calls, NEW w \in Workers,
             run[c][w] # "dropped", run'[c][w] = "dropped"
      PROVE  \E d \in Calls \ {c} : run[d][w] = "running"
  <2>1. PICK list \in ScenarioLists, strategy \in Strategies : Execute(c, list, strategy)
    <3>1. run' # run
      BY <1>1
    <3>2. PICK b \in Calls : \/ \E list \in ScenarioLists, strategy \in Strategies :
                                 Execute(b, list, strategy)
                             \/ \E v \in Workers : TaskStep(b, v)
      BY <1>1, <3>1 DEF Next, Register, WorkerStep, Deregister, Heartbeat, Lapse,
                        ListWorkers, Return, vars, callVars
    <3>3. ASSUME NEW v \in Workers, TaskStep(b, v) PROVE FALSE
      <4>1. \/ run' = [run EXCEPT ![b][v] = "done"]
            \/ run' = [run EXCEPT ![b][v] = "failed"]
        BY <3>3 DEF TaskStep, EndTask
      <4>2. run \in [Calls -> [Workers -> TaskStates]]
        BY <1>1 DEF FleetInv, TypeOK
      <4>3. run'[c][w] \in {run[c][w], "done", "failed"}
        BY <4>1, <4>2
      <4>. QED  BY <1>1, <4>3
    <3>4. ASSUME NEW list \in ScenarioLists, NEW strategy \in Strategies,
                 Execute(b, list, strategy)
          PROVE  b = c
      BY <1>1, <3>4 DEF Execute, FleetInv, TypeOK
    <3>. QED  BY <3>2, <3>3, <3>4
  <2>2. Plan(Active, list, strategy)[w] # {} /\ ~Assignable(w) /\ call[c] = "new"
    BY <1>1, <2>1 DEF Execute, FleetInv, TypeOK
  <2>3. w \in Active /\ status[w] = "running"
    BY <2>2 DEF Plan, Share, Active, Assignable
  <2>. QED  BY <1>1, <2>2, <2>3 DEF FleetInv, RunningIsBusy, NewCalls
<1>2. FleetInv /\ [Next]_vars =>
        [\A c \in Calls, w \in Workers :
           run[c][w] # "dropped" /\ run'[c][w] = "dropped" =>
             \E d \in Calls \ {c} : run[d][w] = "running"]_vars
  BY <1>1
<1>. QED  BY <1>2, AlwaysFleetInv, PTL DEF Spec, DroppedOnlyWhenBusy
--------------------------------------------------------------------------
(* The counters.                                                         *)

\* The calls whose task on the worker has ended.
EndedOn(w) == {c \in Calls : run[c][w] \in {"done", "failed"}}

\* The counters of a worker in the fleet, and those a new worker starts with.
CountersInv ==
  \A w \in Workers :
    /\ IsFiniteSet(EndedOn(w))
    /\ IF InFleet(w) THEN completed[w] + failed[w] = Cardinality(EndedOn(w))
                     ELSE completed[w] = 0 /\ failed[w] = 0

\* The end of a task is counted once if its worker is still there.
LEMMA EndTaskCounted ==
  ASSUME FleetInv, CountersInv, NEW c \in Calls, NEW w \in Workers, NEW success \in BOOLEAN,
         EndTask(c, w, success)
  PROVE  CountersInv'
<1>1. /\ run \in [Calls -> [Workers -> TaskStates]]
      /\ status \in [Workers -> {"absent", "idle", "running", "offline"}]
      /\ completed \in [Workers -> Nat] /\ failed \in [Workers -> Nat]
  BY DEF FleetInv, TypeOK
<1>2. /\ run[c][w] = "running"
      /\ run' = [run EXCEPT ![c][w] = IF success THEN "done" ELSE "failed"]
  BY DEF EndTask
<1>3. \/ /\ InFleet(w)
         /\ status' = [status EXCEPT ![w] = "idle"]
         /\ completed' = [completed EXCEPT ![w] = IF success THEN @ + 1 ELSE @]
         /\ failed' = [failed EXCEPT ![w] = IF success THEN @ ELSE @ + 1]
      \/ ~InFleet(w) /\ UNCHANGED <<status, completed, failed>>
  BY DEF EndTask, CompleteTask
<1>. SUFFICES ASSUME NEW v \in Workers
              PROVE  /\ IsFiniteSet(EndedOn(v)')
                     /\ IF InFleet(v)' THEN completed'[v] + failed'[v] = Cardinality(EndedOn(v)')
                                       ELSE completed'[v] = 0 /\ failed'[v] = 0
  BY DEF CountersInv
<1>4. CASE v # w
  <2>1. EndedOn(v)' = EndedOn(v)
    BY <1>1, <1>2, <1>4 DEF EndedOn
  <2>2. status'[v] = status[v] /\ completed'[v] = completed[v] /\ failed'[v] = failed[v]
    BY <1>1, <1>3, <1>4
  <2>. QED  BY <2>1, <2>2 DEF CountersInv, InFleet
<1>5. CASE v = w
  <2>1. EndedOn(w)' = EndedOn(w) \cup {c} /\ c \notin EndedOn(w)
    BY <1>1, <1>2 DEF EndedOn
  <2>2. IsFiniteSet(EndedOn(w)') /\ Cardinality(EndedOn(w)') = Cardinality(EndedOn(w)) + 1
    BY <2>1, FS_AddElement DEF CountersInv
  <2>3. CASE InFleet(w)
    <3>1. InFleet(w)'
      BY <1>1, <1>3, <2>3 DEF InFleet
    <3>2. completed'[w] + failed'[w] = completed[w] + failed[w] + 1
      BY <1>1, <1>3, <2>3
    <3>. QED  BY <1>5, <2>2, <2>3, <3>1, <3>2 DEF CountersInv
  <2>4. CASE ~InFleet(w)
    BY <1>3, <1>5, <2>2, <2>4 DEF CountersInv, InFleet
  <2>. QED  BY <2>3, <2>4
<1>. QED  BY <1>4, <1>5

\* No other step ends a task or touches a counter of a worker that stays.
LEMMA NextCountersInv ==
  ASSUME FleetInv, CountersInv, [Next]_vars
  PROVE  CountersInv'
<1>1. /\ run \in [Calls -> [Workers -> TaskStates]]
      /\ status \in [Workers -> {"absent", "idle", "running", "offline"}]
      /\ completed \in [Workers -> Nat] /\ failed \in [Workers -> Nat]
      /\ registered \in 0..MaxWorkers
  BY DEF FleetInv, TypeOK
<1>2. ASSUME NEW c \in Calls, NEW w \in Workers, TaskStep(c, w) PROVE CountersInv'
  BY <1>2, EndTaskCounted DEF TaskStep
<1>3. ASSUME NEW r \in Regions, Register(r) PROVE CountersInv'
  <2>1. registered + 1 \in Workers /\ registered + 1 > registered
    BY <1>1, <1>3, DistributedConstants DEF Register, Workers
  <2>2. status[registered + 1] = "absent" /\ EndedOn(registered + 1) = {}
    BY <2>1 DEF FleetInv, UnusedWorkers, EndedOn
  <2>3. /\ \A w \in Workers : EndedOn(w)' = EndedOn(w)
        /\ completed' = completed /\ failed' = failed
        /\ \A w \in Workers : w # registered + 1 => status'[w] = status[w]
    BY <1>1, <1>3 DEF Register, callVars, EndedOn
  <2>. SUFFICES ASSUME NEW w \in Workers
                PROVE  /\ IsFiniteSet(EndedOn(w)')
                       /\ IF InFleet(w)' THEN completed'[w] + failed'[w] = Cardinality(EndedOn(w)')
                                         ELSE completed'[w] = 0 /\ failed'[w] = 0
    BY DEF CountersInv
  <2>4. CASE w # registered + 1
    BY <2>3, <2>4 DEF CountersInv, InFleet
  <2>5. CASE w = registered + 1
    <3>1. completed[w] = 0 /\ failed[w] = 0
      BY <2>2, <2>5 DEF CountersInv, InFleet
    <3>. QED  BY <2>2, <2>3, <2>5, <3>1, FS_EmptySet
  <2>. QED  BY <2>4, <2>5
<1>4. ASSUME NEW w \in Workers, Deregister(w) PROVE CountersInv'
  <2>1. \A v \in Workers : EndedOn(v)' = EndedOn(v)
    BY <1>4 DEF Deregister, callVars, EndedOn
  <2>2. \A v \in Workers : IF v = w
          THEN status'[v] = "absent" /\ completed'[v] = 0 /\ failed'[v] = 0
          ELSE status'[v] = status[v] /\ completed'[v] = completed[v] /\ failed'[v] = failed[v]
    BY <1>1, <1>4 DEF Deregister
  <2>. QED  BY <2>1, <2>2 DEF CountersInv, InFleet
<1>5. ASSUME \A w \in Workers : EndedOn(w)' = EndedOn(w), UNCHANGED <<completed, failed>>,
             \A w \in Workers : (status'[w] = "absent") <=> (status[w] = "absent")
      PROVE  CountersInv'
  BY <1>5 DEF CountersInv, InFleet
<1>6. ASSUME NEW w \in Workers, Heartbeat(w) \/ Lapse(w) PROVE CountersInv'
  <2>1. /\ \A v \in Workers : EndedOn(v)' = EndedOn(v)
        /\ UNCHANGED <<completed, failed>>
        /\ \A v \in Workers : (status'[v] = "absent") <=> (status[v] = "absent")
    BY <1>1, <1>6 DEF Heartbeat, Lapse, InFleet, callVars, EndedOn
  <2>. QED  BY <1>5, <2>1
<1>7. CASE ListWorkers
  <2>1. /\ \A v \in Workers : EndedOn(v)' = EndedOn(v)
        /\ UNCHANGED <<completed, failed>>
        /\ \A v \in Workers : (status'[v] = "absent") <=> (status[v] = "absent")
    BY <1>1, <1>7 DEF ListWorkers, MarkStale, Stale, InFleet, callVars, EndedOn
  <2>. QED  BY <1>5, <2>1
<1>8. ASSUME NEW c \in Calls, NEW list \in ScenarioLists, NEW strategy \in Strategies,
             Execute(c, list, strategy)
      PROVE  CountersInv'
  <2>. DEFINE p == Plan(Active, list, strategy)
              assigned == {w \in Workers : p[w] # {} /\ Assignable(w)}
  <2>1. /\ call[c] = "new"
        /\ run' = [run EXCEPT ![c] = [w \in Workers |->
                     IF w \in assigned THEN "running"
                     ELSE IF p[w] # {} THEN "dropped" ELSE "none"]]
        /\ status' = [w \in Workers |-> IF w \in assigned THEN "running" ELSE MarkStale(status)[w]]
        /\ UNCHANGED <<completed, failed>>
    BY <1>8 DEF Execute
  <2>2. \A w \in assigned : status[w] = "idle"
    BY DEF Assignable
  <2>3. \A w \in Workers : MarkStale(status)[w] = IF w \in Stale THEN "offline" ELSE status[w]
    BY DEF MarkStale
  <2>. HIDE DEF p, assigned
  <2>4. \A v \in Workers : EndedOn(v)' = EndedOn(v)
    <3>1. \A v \in Workers : run[c][v] = "none"
      BY <2>1 DEF FleetInv, NewCalls
    <3>2. \A v \in Workers : run'[c][v] \in {"running", "dropped", "none"}
      BY <1>1, <2>1
    <3>3. \A d \in Calls : d # c => run'[d] = run[d]
      BY <1>1, <2>1
    <3>. QED  BY <3>1, <3>2, <3>3 DEF EndedOn
  <2>5. \A v \in Workers : (status'[v] = "absent") <=> (status[v] = "absent")
    BY <2>1, <2>2, <2>3 DEF Stale, InFleet
  <2>. QED  BY <1>5, <2>1, <2>4, <2>5
<1>9. CASE (\E c \in Calls : Return(c)) \/ UNCHANGED vars
  <2>1. UNCHANGED <<run, completed, failed, status>>
    BY <1>9 DEF Return, workerVars, vars, callVars
  <2>. QED  BY <1>5, <2>1 DEF EndedOn
<1>. QED  BY <1>2, <1>3, <1>4, <1>6, <1>7, <1>8, <1>9 DEF Next, WorkerStep

\* A worker that stayed has every task it ended in one of its two counters.
THEOREM EndedTasksCounted == Spec => []TasksCounted
<1>1. Init => CountersInv
  <2>. SUFFICES ASSUME Init, NEW w \in Workers
                PROVE  /\ IsFiniteSet(EndedOn(w))
                       /\ ~InFleet(w) /\ completed[w] = 0 /\ failed[w] = 0
    BY DEF CountersInv
  <2>1. EndedOn(w) = {}
    BY DEF Init, EndedOn
  <2>. QED  BY <2>1, FS_EmptySet DEF Init, InFleet
<1>2. FleetInv /\ CountersInv /\ [Next]_vars => CountersInv'
  BY NextCountersInv
<1>3. CountersInv => TasksCounted
  BY DEF CountersInv, TasksCounted, EndedOn
<1>. QED  BY <1>1, <1>2, <1>3, AlwaysFleetInv, PTL DEF Spec
==========================================================================
