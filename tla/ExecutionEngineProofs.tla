---------------------- MODULE ExecutionEngineProofs ----------------------
(***************************************************************************)
(* Theorems about ExecutionEngine, for every list of scenarios, every      *)
(* concurrency, retry and burst limit and every workload.                  *)
(***************************************************************************)
EXTENDS ExecutionEngine, FiniteSetTheorems, TLAPS

Underway == {"waiting", "inflight", "backoff"}

\* The requests of a scenario that have been launched are a prefix of them.
LaunchedInOrder(s) ==
  \E k \in 0..MaxBurst : /\ \A i \in 1..k : i \in RequestsOf(s)
                         /\ \A i \in Slots : (req[<<s, i>>] = "idle") <=> i > k

\* What ties the requests of a scenario to where _execute_single is.
RequestInv ==
  /\ \A s \in Scenarios : LaunchedInOrder(s)
  /\ \A s \in Scenarios : pc[s] = "pending" => \A i \in Slots : req[<<s, i>>] = "idle"
  /\ \A s \in Scenarios, i \in Slots : req[<<s, i>>] \in Underway => pc[s] = "sending"
  /\ \A p \in Requests : req[p] = "idle" => attempts[p] = 0
  /\ \A p \in Requests : req[p] \in {"waiting", "backoff"} => attempts[p] <= MaxRetries

\* What ties the verdicts to where _execute_single and execute are.
VerdictInv ==
  /\ \A s \in Scenarios : pc[s] \in {"pending", "sending"} <=> status[s] = "pending"
  /\ \A s \in Scenarios : pc[s] = "sending" => Sendable(s)
  /\ phase # "running" =>
       /\ \A s \in Scenarios : pc[s] = "done"
       /\ counts = LET done == {s \in Scenarios : status[s] = "completed"}
                   IN  [completed |-> Cardinality(done),
                        failed |-> Cardinality(Scenarios \ done)]

\* The inductive invariant of everything but the client.
CoreInv == TypeOK /\ RequestInv /\ VerdictInv /\ PermitsConserved
--------------------------------------------------------------------------
(* The requests of a scenario.                                           *)

\* A scenario's requests are numbered from 1 and fit the slots.
LEMMA RequestRange ==
  ASSUME TypeOK, NEW s \in Scenarios
  PROVE  /\ \E n \in 0..MaxBurst : RequestsOf(s) = 1..n
         /\ RequestsOf(s) \subseteq Slots
         /\ BatchSize(s) \in Nat
<1>1. workload \in WorkloadType
  BY EngineConstants DEF TypeOK
<1>2. workload.rps[s] \in Nat /\ workload.duration[s] \in Nat
  BY <1>1 DEF WorkloadType
<1>3. workload.rps[s] * workload.duration[s] \in Nat
  BY <1>2
<1>4. TotalRequests(s) \in 0..MaxBurst
  BY <1>3, EngineConstants DEF TotalRequests, AtMost
<1>5. BatchSize(s) \in Nat
  BY <1>2, EngineConstants DEF BatchSize, AtMost
<1>6. CASE IsBurst(s)
  BY <1>4, <1>5, <1>6, EngineConstants DEF RequestsOf, Slots
<1>7. CASE ~IsBurst(s)
  <2>1. RequestsOf(s) = 1..1 /\ 1 \in 0..MaxBurst /\ 1 \in Slots
    BY <1>7, EngineConstants DEF RequestsOf, Slots
  <2>. QED  BY <2>1, <1>5
<1>. QED  BY <1>6, <1>7

\* The next batch continues the prefix of launched requests and relaunches none.
LEMMA NextBatchExtends ==
  ASSUME TypeOK, NEW s \in Scenarios, LaunchedInOrder(s),
         IsBurst(s) \/ \A i \in Slots : req[<<s, i>>] = "idle"
  PROVE  \E k, m \in 0..MaxBurst :
           /\ k <= m
           /\ \A i \in 1..m : i \in RequestsOf(s)
           /\ \A i \in Slots : (req[<<s, i>>] = "idle") <=> i > k
           /\ \A i \in Slots : i \in NextBatch(s) <=> (k < i /\ i <= m)
<1>1. PICK k \in 0..MaxBurst :
        /\ \A i \in 1..k : i \in RequestsOf(s)
        /\ \A i \in Slots : (req[<<s, i>>] = "idle") <=> i > k
  BY DEF LaunchedInOrder
<1>2. PICK n \in 0..MaxBurst : RequestsOf(s) = 1..n
  BY RequestRange
<1>3. RequestsOf(s) \subseteq Slots /\ BatchSize(s) \in Nat
  BY RequestRange
<1>4. CASE IsBurst(s)
  <2>1. RequestsOf(s) \ InState(s, {"idle"}) = 1..k
    BY <1>1, <1>2, <1>3, EngineConstants DEF InState, Slots
  <2>2. Cardinality(1..k) = k
    BY FS_Interval
  <2>3. NextBatch(s) = {i \in RequestsOf(s) : k < i /\ i <= k + BatchSize(s)}
    BY <1>4, <2>1, <2>2 DEF NextBatch
  <2>4. k <= n
    BY <1>1, <1>2
  <2>. DEFINE m == AtMost(n, k + BatchSize(s))
  <2>5. m \in 0..MaxBurst /\ k <= m /\ m <= n
    BY <1>3, <2>4, EngineConstants DEF AtMost
  <2>6. \A i \in Slots : i \in NextBatch(s) <=> (k < i /\ i <= m)
    BY <1>2, <1>3, <2>3, <2>4, EngineConstants DEF AtMost, Slots
  <2>7. \A i \in 1..m : i \in RequestsOf(s)
    BY <1>2, <2>5, EngineConstants
  <2>. HIDE DEF m
  <2>. QED  BY <1>1, <2>5, <2>6, <2>7
<1>5. CASE ~IsBurst(s)
  <2>1. NextBatch(s) = {1} /\ RequestsOf(s) = {1} /\ 1 \in Slots
    BY <1>5, EngineConstants DEF NextBatch, RequestsOf, Slots
  <2>2. k = 0
    <3>1. req[<<s, 1>>] = "idle"
      BY <1>5, <2>1
    <3>. QED  BY <1>1, <2>1, <3>1, EngineConstants
  <2>3. /\ 0 \in 0..MaxBurst /\ 1 \in 0..MaxBurst
        /\ \A i \in 1..1 : i \in RequestsOf(s)
        /\ \A i \in Slots : (req[<<s, i>>] = "idle") <=> i > 0
        /\ \A i \in Slots : i \in NextBatch(s) <=> (0 < i /\ i <= 1)
    BY <1>1, <2>1, <2>2, EngineConstants DEF Slots
  <2>. QED  BY <2>3
<1>. QED  BY <1>4, <1>5

\* The definitions that only read the workload.
LEMMA WorkloadFixed ==
  ASSUME workload' = workload, NEW s \in Scenarios
  PROVE  /\ IsBurst(s)' = IsBurst(s)
         /\ RequestsOf(s)' = RequestsOf(s)
         /\ Sendable(s)' = Sendable(s)
BY DEF IsBurst, RequestsOf, Sendable, TotalRequests
--------------------------------------------------------------------------
(* What the actions have in common.                                      *)

\* A scenario gets its verdict and leaves _execute_single or its close() is
\* the only thing left of it.
Ends(s) ==
  \E v \in {"completed", "failed", "timeout"}, b \in BOOLEAN, x \in {"closing", "done"} :
    /\ status' = [status EXCEPT ![s] = v]
    /\ vuln' = [vuln EXCEPT ![s] = b]
    /\ pc' = [pc EXCEPT ![s] = x]
    /\ counts' = counts
    /\ created' = created /\ open' \subseteq open /\ current' = current

LEMMA EndScenarioEnds ==
  ASSUME NEW s, NEW v \in {"completed", "failed", "timeout"}, NEW b \in BOOLEAN,
         EndScenario(s, v, b)
  PROVE  Ends(s)
<1>1. CASE ClientUsable
  BY <1>1 DEF EndScenario, Ends, BeginClose
<1>2. CASE ~ClientUsable
  BY <1>2 DEF EndScenario, Ends, clientVars
<1>. QED  BY <1>1, <1>2

LEMMA EndBurstEnds ==
  ASSUME NEW s, NEW v \in {"completed", "failed", "timeout"}, NEW b \in BOOLEAN,
         EndBurst(s, v, b)
  PROVE  Ends(s)
BY DEF EndBurst, Ends, clientVars

\* Only a scenario without a verdict can end, and that keeps VerdictInv.
LEMMA EndsKeepsVerdicts ==
  ASSUME TypeOK, VerdictInv, NEW s \in Scenarios, pc[s] \in {"pending", "sending"},
         Ends(s), workload' = workload, phase' = phase
  PROVE  /\ VerdictInv'
         /\ status' \in [Scenarios -> {"pending", "completed", "failed", "timeout"}]
         /\ vuln' \in [Scenarios -> BOOLEAN]
         /\ pc' \in [Scenarios -> {"pending", "sending", "closing", "done"}]
         /\ counts' \in [completed : Nat, failed : Nat]
         /\ created' \in Nat /\ open' \subseteq 1..created' /\ current' \in 0..created'
         /\ created' = created
<1>1. PICK v \in {"completed", "failed", "timeout"}, b \in BOOLEAN, x \in {"closing", "done"} :
        /\ status' = [status EXCEPT ![s] = v]
        /\ vuln' = [vuln EXCEPT ![s] = b]
        /\ pc' = [pc EXCEPT ![s] = x]
        /\ counts' = counts
        /\ created' = created /\ open' \subseteq open /\ current' = current
  BY DEF Ends
<1>2. phase = "running"
  BY DEF VerdictInv
<1>3. /\ status' \in [Scenarios -> {"pending", "completed", "failed", "timeout"}]
      /\ vuln' \in [Scenarios -> BOOLEAN]
      /\ pc' \in [Scenarios -> {"pending", "sending", "closing", "done"}]
  BY <1>1 DEF TypeOK
<1>4. /\ counts' \in [completed : Nat, failed : Nat]
      /\ created' \in Nat /\ open' \subseteq 1..created' /\ current' \in 0..created'
  BY <1>1 DEF TypeOK
<1>5. \A t \in Scenarios : pc'[t] \in {"pending", "sending"} <=> status'[t] = "pending"
  BY <1>1 DEF VerdictInv, TypeOK
<1>6. \A t \in Scenarios : pc'[t] = "sending" => Sendable(t)'
  BY <1>1, WorkloadFixed DEF VerdictInv, TypeOK
<1>. QED  BY <1>1, <1>2, <1>3, <1>4, <1>5, <1>6 DEF VerdictInv

\* The requests and where they came from change for one scenario only.
LEMMA UntouchedOrder ==
  ASSUME workload' = workload, NEW s \in Scenarios, LaunchedInOrder(s),
         \A i \in Slots : (req'[<<s, i>>] = "idle") <=> (req[<<s, i>>] = "idle")
  PROVE  LaunchedInOrder(s)'
<1>1. RequestsOf(s)' = RequestsOf(s)
  BY WorkloadFixed
<1>. QED  BY <1>1 DEF LaunchedInOrder

\* A scenario with one request never launches another.
LEMMA OnlyRequest ==
  ASSUME TypeOK, NEW s \in Scenarios, ~IsBurst(s), LaunchedInOrder(s),
         NEW i \in Slots, req[<<s, i>>] # "idle"
  PROVE  i = 1
<1>1. RequestsOf(s) = {1}
  BY DEF RequestsOf
<1>2. PICK k \in 0..MaxBurst :
        /\ \A j \in 1..k : j \in RequestsOf(s)
        /\ \A j \in Slots : (req[<<s, j>>] = "idle") <=> j > k
  BY DEF LaunchedInOrder
<1>3. i \in 1..k
  BY <1>2, EngineConstants DEF Slots
<1>. QED  BY <1>1, <1>2, <1>3

LEMMA RequestsFinite == IsFiniteSet(Requests)
<1>1. IsFiniteSet(Scenarios) /\ IsFiniteSet(Slots)
  BY FS_Interval, EngineConstants DEF Scenarios, Slots
<1>. QED  BY <1>1, FS_Product DEF Requests

\* The permits follow the requests in flight.
LEMMA PermitTaken ==
  ASSUME TypeOK, PermitsConserved, NEW p \in Requests,
         req[p] # "inflight", req' = [req EXCEPT ![p] = "inflight"],
         permits > 0, permits' = permits - 1
  PROVE  PermitsConserved' /\ permits' \in 0..Concurrency
<1>1. InFlight' = InFlight \cup {p} /\ p \notin InFlight
  BY DEF InFlight, TypeOK
<1>2. IsFiniteSet(InFlight)
  BY RequestsFinite, FS_Subset DEF InFlight
<1>3. Cardinality(InFlight') = Cardinality(InFlight) + 1 /\ Cardinality(InFlight) \in Nat
  BY <1>1, <1>2, FS_AddElement, FS_CardinalityType
<1>. QED  BY <1>3, EngineConstants DEF PermitsConserved, TypeOK

LEMMA PermitReturned ==
  ASSUME TypeOK, PermitsConserved, NEW p \in Requests, NEW to \in ReqStates \ {"inflight"},
         req[p] = "inflight", req' = [req EXCEPT ![p] = to], permits' = permits + 1
  PROVE  PermitsConserved' /\ permits' \in 0..Concurrency
<1>1. InFlight' = InFlight \ {p} /\ p \in InFlight
  BY DEF InFlight, TypeOK
<1>2. IsFiniteSet(InFlight) /\ IsFiniteSet(InFlight')
  BY <1>1, RequestsFinite, FS_Subset DEF InFlight
<1>3. /\ Cardinality(InFlight') = Cardinality(InFlight) - 1
      /\ Cardinality(InFlight) \in Nat /\ Cardinality(InFlight') \in Nat
  BY <1>1, <1>2, FS_RemoveElement, FS_CardinalityType
<1>. QED  BY <1>3, EngineConstants DEF PermitsConserved, TypeOK

LEMMA PermitsUntouched ==
  ASSUME TypeOK, PermitsConserved, permits' = permits, InFlight' = InFlight
  PROVE  PermitsConserved'
BY DEF PermitsConserved
--------------------------------------------------------------------------
(* Every action keeps CoreInv.                                           *)

LEMMA InitCore == Init => CoreInv
<1>. SUFFICES ASSUME Init PROVE CoreInv
  OBVIOUS
<1>1. TypeOK
  BY EngineConstants DEF Init, TypeOK, NoCounts, ReqStates
<1>2. RequestInv
  <2>1. \A s \in Scenarios : LaunchedInOrder(s)
    <3>. SUFFICES ASSUME NEW s \in Scenarios PROVE LaunchedInOrder(s)
      OBVIOUS
    <3>1. /\ 0 \in 0..MaxBurst /\ \A i \in 1..0 : i \in RequestsOf(s)
          /\ \A i \in Slots : (req[<<s, i>>] = "idle") <=> i > 0
      BY EngineConstants DEF Init, Requests, Slots
    <3>. QED  BY <3>1 DEF LaunchedInOrder
  <2>2. \A s \in Scenarios, i \in Slots : req[<<s, i>>] = "idle"
    BY DEF Init, Requests
  <2>3. \A p \in Requests : req[p] = "idle" /\ attempts[p] = 0
    BY DEF Init
  <2>. QED  BY <2>1, <2>2, <2>3 DEF RequestInv, Underway
<1>3. VerdictInv
  BY DEF Init, VerdictInv
<1>4. PermitsConserved
  <2>1. InFlight = {}
    BY DEF Init, InFlight
  <2>. QED  BY <2>1, FS_EmptySet, EngineConstants DEF Init, PermitsConserved
<1>. QED  BY <1>1, <1>2, <1>3, <1>4 DEF CoreInv

\* Start and StartNextBatch: a batch of idle requests begins to wait.
LEMMA LaunchCore ==
  ASSUME CoreInv, NEW s \in Scenarios,
         IsBurst(s) \/ \A i \in Slots : req[<<s, i>>] = "idle",
         \A i \in Slots : req[<<s, i>>] # "inflight",
         pc[s] \in {"pending", "sending"}, Sendable(s), phase = "running",
         Launch(s, NextBatch(s)), pc' = [pc EXCEPT ![s] = "sending"],
         UNCHANGED <<workload, phase, resultVars, attempts, code, conn, permits, clientVars>>
  PROVE  CoreInv'
<1>. USE DEF CoreInv
<1>1. PICK k \in 0..MaxBurst, m \in 0..MaxBurst :
           /\ k <= m
           /\ \A i \in 1..m : i \in RequestsOf(s)
           /\ \A i \in Slots : (req[<<s, i>>] = "idle") <=> i > k
           /\ \A i \in Slots : i \in NextBatch(s) <=> (k < i /\ i <= m)
  BY NextBatchExtends DEF RequestInv
<1>2. \A t \in Scenarios, i \in Slots :
        req'[<<t, i>>] = IF t = s /\ k < i /\ i <= m THEN "waiting" ELSE req[<<t, i>>]
  BY <1>1 DEF Launch, Requests
<1>3. req' \in [Requests -> ReqStates]
  BY DEF Launch, TypeOK, ReqStates
<1>4. TypeOK'
  BY <1>3 DEF TypeOK, resultVars, clientVars
<1>5. \A t \in Scenarios : LaunchedInOrder(t)'
  <2>. SUFFICES ASSUME NEW t \in Scenarios PROVE LaunchedInOrder(t)'
    OBVIOUS
  <2>1. CASE t = s
    <3>1. \A i \in Slots : (req'[<<t, i>>] = "idle") <=> i > m
      BY <1>1, <1>2, <2>1, EngineConstants DEF Slots
    <3>2. \A i \in 1..m : i \in RequestsOf(t)'
      BY <1>1, <2>1, WorkloadFixed
    <3>. QED  BY <3>1, <3>2 DEF LaunchedInOrder
  <2>2. CASE t # s
    BY <1>2, <2>2, UntouchedOrder DEF RequestInv
  <2>. QED  BY <2>1, <2>2
<1>6. \A p \in Requests : req'[p] = "idle" => req[p] = "idle"
  BY DEF Launch
<1>7. \A t \in Scenarios, i \in Slots : req'[<<t, i>>] \in {"waiting", "backoff"} =>
         attempts[<<t, i>>] <= MaxRetries
  BY <1>1, <1>2, EngineConstants DEF RequestInv, Requests
<1>8. RequestInv'
  <2>1. \A t \in Scenarios : pc'[t] = "pending" => \A i \in Slots : req'[<<t, i>>] = "idle"
    BY <1>2 DEF RequestInv, TypeOK
  <2>2. \A t \in Scenarios, i \in Slots : req'[<<t, i>>] \in Underway => pc'[t] = "sending"
    BY <1>2 DEF RequestInv, TypeOK
  <2>3. \A p \in Requests : req'[p] = "idle" => attempts'[p] = 0
    BY <1>6 DEF RequestInv
  <2>4. \A p \in Requests : req'[p] \in {"waiting", "backoff"} => attempts'[p] <= MaxRetries
    BY <1>7 DEF Requests
  <2>. QED  BY <1>5, <2>1, <2>2, <2>3, <2>4 DEF RequestInv
<1>9. VerdictInv'
  <2>1. \A t \in Scenarios : pc'[t] \in {"pending", "sending"} <=> status'[t] = "pending"
    BY DEF VerdictInv, TypeOK, resultVars
  <2>2. \A t \in Scenarios : pc'[t] = "sending" => Sendable(t)'
    BY WorkloadFixed DEF VerdictInv, TypeOK
  <2>. QED  BY <2>1, <2>2 DEF VerdictInv
<1>10. PermitsConserved'
  <2>1. \A p \in Requests : (req'[p] = "inflight") <=> (req[p] = "inflight")
    <3>. SUFFICES ASSUME NEW t \in Scenarios, NEW i \in Slots
                  PROVE  (req'[<<t, i>>] = "inflight") <=> (req[<<t, i>>] = "inflight")
      BY DEF Requests
    <3>. QED  BY <1>2
  <2>2. InFlight' = InFlight
    BY <2>1 DEF InFlight
  <2>. QED  BY <2>2, PermitsUntouched
<1>. QED  BY <1>4, <1>8, <1>9, <1>10

\* StartUnknown, StartZeroRate and FinishBurst: a verdict, no request moves.
LEMMA EndWithoutRequestCore ==
  ASSUME CoreInv, NEW s \in Scenarios, pc[s] \in {"pending", "sending"},
         \A i \in Slots : req[<<s, i>>] \notin Underway,
         Ends(s), UNCHANGED <<workload, phase, sendVars>>
  PROVE  CoreInv'
<1>. USE DEF CoreInv, sendVars
<1>1. /\ VerdictInv'
      /\ status' \in [Scenarios -> {"pending", "completed", "failed", "timeout"}]
      /\ vuln' \in [Scenarios -> BOOLEAN]
      /\ pc' \in [Scenarios -> {"pending", "sending", "closing", "done"}]
      /\ counts' \in [completed : Nat, failed : Nat]
      /\ created' \in Nat /\ open' \subseteq 1..created' /\ current' \in 0..created'
      /\ created' = created
  BY EndsKeepsVerdicts
<1>2. TypeOK'
  BY <1>1 DEF TypeOK
<1>3. RequestInv'
  <2>1. \A t \in Scenarios : LaunchedInOrder(t)'
    BY UntouchedOrder DEF RequestInv
  <2>2. \A t \in Scenarios : t # s => pc'[t] = pc[t]
    BY DEF Ends, TypeOK
  <2>3. pc'[s] \in {"closing", "done"}
    BY DEF Ends, TypeOK
  <2>. QED  BY <2>1, <2>2, <2>3 DEF RequestInv
<1>4. PermitsConserved'
  BY PermitsUntouched DEF InFlight
<1>. QED  BY <1>1, <1>2, <1>3, <1>4

LEMMA BeginAttemptCore ==
  ASSUME CoreInv, NEW p \in Requests, BeginAttempt(p)
  PROVE  CoreInv'
<1>. USE DEF CoreInv, BeginAttempt
<1>1. attempts[p] <= MaxRetries
  BY DEF RequestInv
<1>2. /\ conn' \in [Requests -> 0..created'] /\ created' \in Nat
      /\ open' \subseteq 1..created' /\ current' \in 0..created'
  <2>1. CASE ClientUsable
    BY <2>1 DEF UseClient, TypeOK, clientVars
  <2>2. CASE ~ClientUsable
    <3>1. /\ created' = created + 1 /\ open' = open \cup {created + 1}
          /\ current' = created + 1 /\ conn' = [conn EXCEPT ![p] = created + 1]
      BY <2>2 DEF UseClient
    <3>2. created \in Nat /\ conn \in [Requests -> 0..created] /\ open \subseteq 1..created
      BY DEF TypeOK
    <3>3. 0..created \subseteq 0..(created + 1) /\ created + 1 \in 0..(created + 1)
      BY <3>2
    <3>4. conn' \in [Requests -> 0..created']
      BY <3>1, <3>2, <3>3
    <3>. QED  BY <3>1, <3>2, <3>4
  <2>. QED  BY <2>1, <2>2
<1>3. PermitsConserved' /\ permits' \in 0..Concurrency
  BY PermitTaken
<1>4. /\ req' \in [Requests -> ReqStates]
      /\ attempts' \in [Requests -> 0..(1 + MaxRetries)]
  BY <1>1, EngineConstants DEF TypeOK, ReqStates
<1>5. TypeOK'
  BY <1>2, <1>3, <1>4 DEF TypeOK, resultVars
<1>6. \A q \in Requests : q # p => req'[q] = req[q] /\ attempts'[q] = attempts[q]
  BY DEF TypeOK
<1>7. req'[p] = "inflight"
  BY DEF TypeOK
<1>8. RequestInv'
  <2>1. \A s \in Scenarios : LaunchedInOrder(s)'
    <3>. SUFFICES ASSUME NEW s \in Scenarios PROVE LaunchedInOrder(s)'
      OBVIOUS
    <3>1. \A i \in Slots : (req'[<<s, i>>] = "idle") <=> (req[<<s, i>>] = "idle")
      BY <1>6, <1>7 DEF Requests
    <3>. QED  BY <3>1, UntouchedOrder DEF RequestInv
  <2>2. \A s \in Scenarios : pc'[s] = "pending" => \A i \in Slots : req'[<<s, i>>] = "idle"
    BY <1>6 DEF RequestInv, Requests
  <2>3. \A s \in Scenarios, i \in Slots : req'[<<s, i>>] \in Underway => pc'[s] = "sending"
    BY <1>6 DEF RequestInv, Requests, Underway
  <2>4. /\ \A q \in Requests : req'[q] = "idle" => attempts'[q] = 0
        /\ \A q \in Requests : req'[q] \in {"waiting", "backoff"} => attempts'[q] <= MaxRetries
    BY <1>6, <1>7 DEF RequestInv
  <2>. QED  BY <2>1, <2>2, <2>3, <2>4 DEF RequestInv
<1>9. VerdictInv'
  BY WorkloadFixed DEF VerdictInv, resultVars
<1>. QED  BY <1>3, <1>5, <1>8, <1>9

\* The end of a backoff.
LEMMA BackoffElapsedCore ==
  ASSUME CoreInv, NEW p \in Requests, BackoffElapsed(p)
  PROVE  CoreInv'
<1>. USE DEF CoreInv, BackoffElapsed
<1>1. /\ \A q \in Requests : q # p => req'[q] = req[q]
      /\ req'[p] = "waiting" /\ req' \in [Requests -> ReqStates]
  BY DEF TypeOK, ReqStates
<1>2. TypeOK'
  BY <1>1 DEF TypeOK, resultVars, clientVars
<1>3. RequestInv'
  <2>1. \A s \in Scenarios : LaunchedInOrder(s)'
    <3>. SUFFICES ASSUME NEW s \in Scenarios PROVE LaunchedInOrder(s)'
      OBVIOUS
    <3>1. \A i \in Slots : (req'[<<s, i>>] = "idle") <=> (req[<<s, i>>] = "idle")
      BY <1>1 DEF Requests
    <3>. QED  BY <3>1, UntouchedOrder DEF RequestInv
  <2>2. \A s \in Scenarios : pc'[s] = "pending" => \A i \in Slots : req'[<<s, i>>] = "idle"
    BY <1>1 DEF RequestInv, Requests
  <2>3. \A s \in Scenarios, i \in Slots : req'[<<s, i>>] \in Underway => pc'[s] = "sending"
    BY <1>1 DEF RequestInv, Requests, Underway
  <2>4. /\ \A q \in Requests : req'[q] = "idle" => attempts'[q] = 0
        /\ \A q \in Requests : req'[q] \in {"waiting", "backoff"} => attempts'[q] <= MaxRetries
    BY <1>1 DEF RequestInv
  <2>. QED  BY <2>1, <2>2, <2>3, <2>4 DEF RequestInv
<1>4. VerdictInv'
  BY WorkloadFixed DEF VerdictInv, resultVars
<1>5. PermitsConserved'
  <2>1. InFlight' = InFlight
    BY <1>1 DEF InFlight
  <2>. QED  BY <2>1, PermitsUntouched
<1>. QED  BY <1>2, <1>3, <1>4, <1>5

\* The end of an attempt, with what it does to the scenario left open: nothing,
\* or its end.
LEMMA EndAttemptCore ==
  ASSUME CoreInv, NEW p \in Requests,
         NEW to \in {"responded", "timedout", "errored", "backoff"},
         EndAttempt(p, to), to = "backoff" => HasAttemptsLeft(p),
         code' \in [Requests -> Codes \cup {0}],
         \/ UNCHANGED <<pc, resultVars, clientVars>>
         \/ ~IsBurst(p[1]) /\ Ends(p[1]) /\ to # "backoff"
  PROVE  CoreInv'
<1>. USE DEF CoreInv, EndAttempt
<1>1. PICK s \in Scenarios, i \in Slots : p = <<s, i>>
  BY DEF Requests
<1>2. p[1] = s /\ pc[s] = "sending"
  BY <1>1 DEF RequestInv, Underway
<1>3. /\ \A q \in Requests : q # p => req'[q] = req[q]
      /\ req'[p] = to /\ req' \in [Requests -> ReqStates]
      /\ req[p] = "inflight"
  BY DEF TypeOK, ReqStates
<1>4. PermitsConserved' /\ permits' \in 0..Concurrency
  BY PermitReturned DEF ReqStates
<1>5. /\ VerdictInv'
      /\ status' \in [Scenarios -> {"pending", "completed", "failed", "timeout"}]
      /\ vuln' \in [Scenarios -> BOOLEAN]
      /\ pc' \in [Scenarios -> {"pending", "sending", "closing", "done"}]
      /\ counts' \in [completed : Nat, failed : Nat]
      /\ created' \in Nat /\ open' \subseteq 1..created' /\ current' \in 0..created'
      /\ created' = created
  <2>1. CASE UNCHANGED <<pc, resultVars, clientVars>>
    <3>1. VerdictInv'
      BY <2>1, WorkloadFixed DEF VerdictInv, resultVars
    <3>. QED  BY <2>1, <3>1 DEF TypeOK, resultVars, clientVars
  <2>2. CASE Ends(s)
    BY <1>2, <2>2, EndsKeepsVerdicts
  <2>. QED  BY <1>2, <2>1, <2>2
<1>6. conn' \in [Requests -> 0..created']
  BY <1>5 DEF TypeOK
<1>7. TypeOK'
  BY <1>3, <1>4, <1>5, <1>6 DEF TypeOK
<1>8. \A t \in Scenarios : t # s => pc'[t] = pc[t]
  BY <1>2 DEF Ends, TypeOK
<1>9. pc'[s] \in {"sending", "closing", "done"}
  BY <1>2 DEF Ends, TypeOK
<1>10. pc'[s] # "sending" => \A j \in Slots : req'[<<s, j>>] \notin Underway
  <2>. SUFFICES ASSUME pc'[s] # "sending", NEW j \in Slots
                PROVE  req'[<<s, j>>] \notin Underway
    OBVIOUS
  <2>1. ~IsBurst(s) /\ to # "backoff"
    BY <1>2
  <2>2. CASE req[<<s, j>>] = "idle"
    BY <1>1, <1>3, <2>2 DEF Requests, Underway
  <2>3. CASE req[<<s, j>>] # "idle"
    <3>1. i = 1 /\ j = 1
      BY <1>1, <1>3, <2>1, <2>3, OnlyRequest DEF RequestInv
    <3>. QED  BY <1>1, <1>3, <2>1, <3>1 DEF Underway
  <2>. QED  BY <2>2, <2>3
<1>11. RequestInv'
  <2>1. \A t \in Scenarios : LaunchedInOrder(t)'
    <3>. SUFFICES ASSUME NEW t \in Scenarios PROVE LaunchedInOrder(t)'
      OBVIOUS
    <3>1. \A j \in Slots : (req'[<<t, j>>] = "idle") <=> (req[<<t, j>>] = "idle")
      BY <1>3 DEF Requests
    <3>. QED  BY <3>1, UntouchedOrder DEF RequestInv
  <2>2. \A t \in Scenarios : pc'[t] = "pending" => \A j \in Slots : req'[<<t, j>>] = "idle"
    BY <1>1, <1>3, <1>8, <1>9 DEF RequestInv, Requests
  <2>3. \A t \in Scenarios, j \in Slots : req'[<<t, j>>] \in Underway => pc'[t] = "sending"
    <3>. SUFFICES ASSUME NEW t \in Scenarios, NEW j \in Slots, req'[<<t, j>>] \in Underway
                  PROVE  pc'[t] = "sending"
      OBVIOUS
    <3>1. CASE t = s
      BY <3>1, <1>10
    <3>2. CASE t # s
      BY <3>2, <1>1, <1>3, <1>8 DEF RequestInv, Requests
    <3>. QED  BY <3>1, <3>2
  <2>4. \A q \in Requests : req'[q] = "idle" => attempts'[q] = 0
    BY <1>3 DEF RequestInv
  <2>5. \A q \in Requests : req'[q] \in {"waiting", "backoff"} => attempts'[q] <= MaxRetries
    BY <1>3, EngineConstants DEF RequestInv, HasAttemptsLeft, TypeOK
  <2>. QED  BY <2>1, <2>2, <2>3, <2>4, <2>5 DEF RequestInv
<1>. QED  BY <1>4, <1>5, <1>7, <1>11

\* What a delivered outcome does to the scenario that awaits it.
LEMMA DeliverEnds ==
  ASSUME NEW p, NEW v \in {"completed", "failed", "timeout"}, NEW b \in BOOLEAN,
         Deliver(p, v, b)
  PROVE  \/ UNCHANGED <<pc, resultVars, clientVars>>
         \/ ~IsBurst(p[1]) /\ Ends(p[1])
BY EndScenarioEnds DEF Deliver

LEMMA RequestStepCore ==
  ASSUME CoreInv, NEW p \in Requests, RequestStep(p)
  PROVE  CoreInv'
<1>1. CASE BeginAttempt(p)
  BY <1>1, BeginAttemptCore
<1>2. CASE BackoffElapsed(p)
  BY <1>2, BackoffElapsedCore
<1>3. ASSUME NEW c \in Codes, Respond(p, c) PROVE CoreInv'
  <2>1. SingleVulnerable(p[1], c) \in BOOLEAN
    BY DEF SingleVulnerable
  <2>2. code' \in [Requests -> Codes \cup {0}]
    BY <1>3 DEF Respond, CoreInv, TypeOK
  <2>. QED  BY <1>3, <2>1, <2>2, DeliverEnds, EndAttemptCore DEF Respond
<1>4. CASE TimeOut(p)
  BY <1>4, DeliverEnds, EndAttemptCore DEF TimeOut, CoreInv, TypeOK
<1>5. CASE FailAndRetry(p)
  BY <1>5, EndAttemptCore DEF FailAndRetry, CoreInv, TypeOK
<1>6. CASE FailForGood(p)
  BY <1>6, DeliverEnds, EndAttemptCore DEF FailForGood, CoreInv, TypeOK
<1>. QED  BY <1>1, <1>2, <1>3, <1>4, <1>5, <1>6 DEF RequestStep, AttemptEnds

\* No request of the scenario is idle or under way.
LEMMA AllSettled ==
  ASSUME TypeOK, NEW s \in Scenarios, LaunchedInOrder(s),
         InState(s, Settled) = RequestsOf(s)
  PROVE  \A i \in Slots : req[<<s, i>>] \notin Underway
<1>. SUFFICES ASSUME NEW i \in Slots PROVE req[<<s, i>>] \notin Underway
  OBVIOUS
<1>1. PICK k \in 0..MaxBurst :
        /\ \A j \in 1..k : j \in RequestsOf(s)
        /\ \A j \in Slots : (req[<<s, j>>] = "idle") <=> j > k
  BY DEF LaunchedInOrder
<1>2. CASE i \in RequestsOf(s)
  BY <1>2 DEF InState, Settled, Underway
<1>3. CASE i \notin RequestsOf(s)
  <2>1. i > k
    BY <1>1, <1>3, EngineConstants DEF Slots
  <2>. QED  BY <1>1, <2>1 DEF Underway
<1>. QED  BY <1>2, <1>3

LEMMA ScenarioStepCore ==
  ASSUME CoreInv, NEW s \in Scenarios, ScenarioStep(s)
  PROVE  CoreInv'
<1>. USE DEF CoreInv
<1>1. CASE Start(s)
  <2>1. \A i \in Slots : req[<<s, i>>] = "idle"
    BY <1>1 DEF Start, MayStart, RequestInv
  <2>2. phase = "running" /\ pc[s] = "pending" /\ Sendable(s)
    BY <1>1 DEF Start, MayStart, Sendable
  <2>3. /\ Launch(s, NextBatch(s)) /\ pc' = [pc EXCEPT ![s] = "sending"]
        /\ UNCHANGED <<workload, phase, resultVars, attempts, code, conn, permits, clientVars>>
    BY <1>1 DEF Start
  <2>. QED  BY <2>1, <2>2, <2>3, LaunchCore
<1>2. CASE StartNextBatch(s)
  <2>1. \A i \in Slots : req[<<s, i>>] # "inflight"
    <3>. SUFFICES ASSUME NEW i \in Slots, req[<<s, i>>] = "inflight" PROVE FALSE
      OBVIOUS
    <3>1. LaunchedInOrder(s)
      BY DEF RequestInv
    <3>2. PICK k \in 0..MaxBurst :
            /\ \A j \in 1..k : j \in RequestsOf(s)
            /\ \A j \in Slots : (req[<<s, j>>] = "idle") <=> j > k
      BY <3>1 DEF LaunchedInOrder
    <3>3. i \in RequestsOf(s)
      BY <3>2, EngineConstants DEF Slots
    <3>. QED  BY <1>2, <3>3 DEF StartNextBatch, InState, Settled
  <2>2. pc[s] = "sending" /\ IsBurst(s) /\ Sendable(s) /\ phase = "running"
    BY <1>2 DEF StartNextBatch, VerdictInv
  <2>3. pc' = [pc EXCEPT ![s] = "sending"]
    BY <1>2, <2>2 DEF StartNextBatch, TypeOK
  <2>4. /\ Launch(s, NextBatch(s))
        /\ UNCHANGED <<workload, phase, resultVars, attempts, code, conn, permits, clientVars>>
    BY <1>2 DEF StartNextBatch
  <2>. QED  BY <2>1, <2>2, <2>3, <2>4, LaunchCore
<1>3. CASE StartUnknown(s) \/ StartZeroRate(s)
  <2>1. \A i \in Slots : req[<<s, i>>] \notin Underway
    BY <1>3 DEF StartUnknown, StartZeroRate, MayStart, RequestInv, Underway
  <2>2. Ends(s)
    BY <1>3, EndScenarioEnds, EndBurstEnds DEF StartUnknown, StartZeroRate
  <2>. QED  BY <1>3, <2>1, <2>2, EndWithoutRequestCore DEF StartUnknown, StartZeroRate, MayStart
<1>4. CASE FinishBurst(s)
  <2>1. \A i \in Slots : req[<<s, i>>] \notin Underway
    BY <1>4, AllSettled DEF FinishBurst, RequestInv
  <2>2. BurstVulnerable(s) \in BOOLEAN
    BY DEF BurstVulnerable
  <2>3. Ends(s)
    BY <1>4, <2>2, EndBurstEnds DEF FinishBurst
  <2>. QED  BY <1>4, <2>1, <2>3, EndWithoutRequestCore DEF FinishBurst
<1>5. CASE FinishClose(s)
  <2>. USE <1>5 DEF FinishClose, EndClose, sendVars, resultVars
  <2>1. TypeOK'
    BY DEF TypeOK
  <2>2. RequestInv'
    <3>1. \A t \in Scenarios : LaunchedInOrder(t)'
      BY UntouchedOrder DEF RequestInv
    <3>. QED  BY <3>1 DEF RequestInv, TypeOK, Underway
  <2>3. VerdictInv'
    BY WorkloadFixed DEF VerdictInv, TypeOK
  <2>4. PermitsConserved'
    BY PermitsUntouched DEF InFlight
  <2>. QED  BY <2>1, <2>2, <2>3, <2>4
<1>. QED  BY <1>1, <1>2, <1>3, <1>4, <1>5 DEF ScenarioStep

LEMMA CallStepCore ==
  ASSUME CoreInv, Aggregate \/ Return \/ Terminated \/ UNCHANGED vars
  PROVE  CoreInv'
<1>. USE DEF CoreInv, sendVars, resultVars, clientVars
<1>1. CASE Aggregate
  <2>1. IsFiniteSet(Scenarios)
    BY FS_Interval, EngineConstants DEF Scenarios
  <2>2. \A S \in SUBSET Scenarios : Cardinality(S) \in Nat
    BY <2>1, FS_Subset, FS_CardinalityType
  <2>3. counts' \in [completed : Nat, failed : Nat]
    BY <1>1, <2>2 DEF Aggregate
  <2>4. /\ phase' \in {"closing", "returned"} /\ open' \subseteq open
        /\ created' = created /\ current' = current
    BY <1>1 DEF Aggregate, BeginClose
  <2>5. TypeOK'
    BY <1>1, <2>3, <2>4 DEF TypeOK, Aggregate
  <2>6. RequestInv'
    <3>1. \A t \in Scenarios : LaunchedInOrder(t)'
      BY <1>1, UntouchedOrder DEF RequestInv, Aggregate
    <3>. QED  BY <1>1, <3>1 DEF RequestInv, Aggregate
  <2>7. VerdictInv'
    BY <1>1, <2>4, WorkloadFixed DEF VerdictInv, Aggregate
  <2>8. PermitsConserved'
    BY <1>1, PermitsUntouched DEF InFlight, Aggregate
  <2>. QED  BY <2>5, <2>6, <2>7, <2>8
<1>2. CASE Return
  <2>. USE <1>2 DEF Return, EndClose
  <2>1. TypeOK'
    BY DEF TypeOK
  <2>2. RequestInv'
    <3>1. \A t \in Scenarios : LaunchedInOrder(t)'
      BY UntouchedOrder DEF RequestInv
    <3>. QED  BY <3>1 DEF RequestInv
  <2>3. VerdictInv'
    BY WorkloadFixed DEF VerdictInv
  <2>4. PermitsConserved'
    BY PermitsUntouched DEF InFlight
  <2>. QED  BY <2>1, <2>2, <2>3, <2>4
<1>3. CASE UNCHANGED vars
  <2>. USE <1>3 DEF vars
  <2>1. TypeOK'
    BY DEF TypeOK
  <2>2. RequestInv'
    <3>1. \A t \in Scenarios : LaunchedInOrder(t)'
      BY UntouchedOrder DEF RequestInv
    <3>. QED  BY <3>1 DEF RequestInv
  <2>3. VerdictInv'
    BY WorkloadFixed DEF VerdictInv
  <2>4. PermitsConserved'
    BY PermitsUntouched DEF InFlight
  <2>. QED  BY <2>1, <2>2, <2>3, <2>4
<1>. QED  BY <1>1, <1>2, <1>3 DEF Terminated

LEMMA NextCore == CoreInv /\ [Next]_vars => CoreInv'
BY ScenarioStepCore, RequestStepCore, CallStepCore DEF Next

LEMMA CoreInvariant == Spec => []CoreInv
BY InitCore, NextCore, PTL DEF Spec

\* Type correctness, which includes that no request is attempted more than
\* 1 + max_retries times and that the semaphore stays within its bounds.
THEOREM TypeCorrect == Spec => []TypeOK
<1>1. CoreInv => TypeOK
  BY DEF CoreInv
<1>. QED  BY <1>1, CoreInvariant, PTL

\* Every attempt gives its permit back exactly once.
THEOREM PermitConservation == Spec => []PermitsConserved
<1>1. CoreInv => PermitsConserved
  BY DEF CoreInv
<1>. QED  BY <1>1, CoreInvariant, PTL
--------------------------------------------------------------------------
(* The engine implements the contract.                                   *)

\* The contract counts with the same Cardinality.
LEMMA SameCardinality == \A S : Contract!Cardinality(S) = Cardinality(S)
BY DEF Contract!Cardinality, Cardinality

\* Ends is the contract's Settle.
LEMMA EndsSettles ==
  ASSUME CoreInv, NEW s \in Scenarios, pc[s] \in {"pending", "sending"}, Ends(s),
         phase' = phase
  PROVE  [Contract!Next]_(Contract!vars)
<1>1. phase # "returned" /\ status[s] = "pending"
  BY DEF CoreInv, VerdictInv
<1>2. PICK v \in {"completed", "failed", "timeout"} : status' = [status EXCEPT ![s] = v]
  BY DEF Ends
<1>3. Contract!Settle(s)
  BY <1>1, <1>2 DEF Contract!Settle, Contract!Verdicts
<1>. QED  BY <1>3 DEF Contract!Next

\* A step that leaves verdicts, counters and phase alone is a stutter.
LEMMA ContractStutter ==
  ASSUME UNCHANGED <<phase, status, counts>>
  PROVE  [Contract!Next]_(Contract!vars)
BY DEF Contract!vars

LEMMA ContractStep ==
  ASSUME CoreInv, [Next]_vars
  PROVE  [Contract!Next]_(Contract!vars)
<1>1. ASSUME NEW s \in Scenarios, ScenarioStep(s)
      PROVE  [Contract!Next]_(Contract!vars)
  <2>1. CASE Start(s) \/ StartNextBatch(s) \/ FinishClose(s)
    BY <2>1, ContractStutter DEF Start, StartNextBatch, FinishClose, resultVars
  <2>2. CASE StartUnknown(s) \/ StartZeroRate(s) \/ FinishBurst(s)
    <3>1. BurstVulnerable(s) \in BOOLEAN
      BY DEF BurstVulnerable
    <3>2. Ends(s)
      BY <2>2, <3>1, EndScenarioEnds, EndBurstEnds
         DEF StartUnknown, StartZeroRate, FinishBurst
    <3>3. pc[s] \in {"pending", "sending"} /\ phase' = phase
      BY <2>2 DEF StartUnknown, StartZeroRate, FinishBurst, MayStart
    <3>. QED  BY <3>2, <3>3, EndsSettles
  <2>. QED  BY <1>1, <2>1, <2>2 DEF ScenarioStep
<1>2. ASSUME NEW p \in Requests, RequestStep(p)
      PROVE  [Contract!Next]_(Contract!vars)
  <2>1. CASE BeginAttempt(p) \/ BackoffElapsed(p) \/ FailAndRetry(p)
    BY <2>1, ContractStutter
       DEF BeginAttempt, BackoffElapsed, FailAndRetry, EndAttempt, resultVars
  <2>2. ASSUME NEW v \in {"completed", "failed", "timeout"}, NEW b \in BOOLEAN,
               NEW to, EndAttempt(p, to), Deliver(p, v, b)
        PROVE  [Contract!Next]_(Contract!vars)
    <3>1. PICK s \in Scenarios, i \in Slots : p = <<s, i>>
      BY DEF Requests
    <3>2. pc[s] = "sending" /\ p[1] = s /\ phase' = phase
      BY <2>2, <3>1 DEF EndAttempt, CoreInv, RequestInv, Underway
    <3>3. \/ UNCHANGED <<pc, resultVars, clientVars>>
          \/ ~IsBurst(p[1]) /\ Ends(p[1])
      BY <2>2, DeliverEnds
    <3>4. CASE UNCHANGED <<pc, resultVars, clientVars>>
      BY <3>2, <3>4, ContractStutter DEF resultVars
    <3>5. CASE Ends(p[1])
      BY <3>2, <3>5, EndsSettles
    <3>. QED  BY <3>3, <3>4, <3>5
  <2>3. ASSUME NEW c \in Codes, Respond(p, c)
        PROVE  [Contract!Next]_(Contract!vars)
    <3>1. SingleVulnerable(p[1], c) \in BOOLEAN
      BY DEF SingleVulnerable
    <3>. QED  BY <2>2, <2>3, <3>1 DEF Respond
  <2>4. CASE TimeOut(p) \/ FailForGood(p)
    BY <2>2, <2>4 DEF TimeOut, FailForGood
  <2>. QED  BY <1>2, <2>1, <2>3, <2>4 DEF RequestStep, AttemptEnds
<1>3. CASE Aggregate
  <2>1. \A s \in Scenarios : status[s] # "pending"
    BY <1>3 DEF Aggregate, CoreInv, VerdictInv
  <2>2. CASE phase' = "closing"
    BY <1>3, <2>2 DEF Aggregate, Contract!vars
  <2>3. CASE phase' = "returned"
    BY <1>3, <2>1, <2>3, SameCardinality DEF Aggregate, Contract!Next, Contract!Return, Contract!NoReport
  <2>. QED  BY <1>3, <2>2, <2>3 DEF Aggregate
<1>4. CASE Return
  <2>1. \A s \in Scenarios : status[s] # "pending"
    BY <1>4 DEF Return, CoreInv, VerdictInv
  <2>2. counts = LET done == {s \in Scenarios : status[s] = "completed"}
                 IN  [completed |-> Cardinality(done),
                      failed |-> Cardinality(Scenarios \ done)]
    BY <1>4 DEF Return, CoreInv, VerdictInv
  <2>. QED  BY <1>4, <2>1, <2>2, SameCardinality
            DEF Return, resultVars, Contract!Next, Contract!Return, Contract!NoReport
<1>5. CASE UNCHANGED vars
  BY <1>5, ContractStutter DEF vars, resultVars
<1>. QED  BY <1>1, <1>2, <1>3, <1>4, <1>5 DEF Next, Terminated

\* Every scenario gets one verdict, once, and the returned counters agree with
\* the verdicts.
THEOREM Refinement == Spec => ImplementsContract
<1>1. Init => Contract!Init
  BY DEF Init, Contract!Init, Contract!NoReport
<1>2. CoreInv /\ [Next]_vars => [Contract!Next]_(Contract!vars)
  BY ContractStep
<1>. QED  BY <1>1, <1>2, CoreInvariant, PTL DEF Spec, ImplementsContract, Contract!Spec
--------------------------------------------------------------------------
(* The shared client of a call whose closes are exclusive.               *)

\* Closing is on, in a scenario or in execute itself.
Closing == (\E s \in Scenarios : pc[s] = "closing") \/ phase # "running"

\* OneOpenClient, strengthened: while a close() is suspended nothing is open,
\* the serial loop has one scenario in progress, and bursts never close.
ClientInv ==
  Exclusive =>
    /\ open \subseteq {current}
    /\ \A p \in InFlight : conn[p] \in open
    /\ Closing => open = {}
    /\ workload.serial =>
         \A s \in Scenarios : pc[s] # "pending" => \A t \in 1..(s - 1) : pc[t] = "done"
    /\ ~workload.serial => \A s \in Scenarios : pc[s] # "closing"

LEMMA ExclusiveFixed ==
  ASSUME workload' = workload PROVE Exclusive' = Exclusive
BY DEF Exclusive, IsBurst

\* At most one scenario is in progress in the serial mode.
LEMMA ActiveAlone ==
  ASSUME ClientInv, Exclusive, workload.serial,
         NEW s \in Scenarios, NEW t \in Scenarios,
         pc[s] \notin {"pending", "done"}, pc[t] \notin {"pending", "done"}
  PROVE  s = t
<1>1. s < t => t - 1 >= s /\ s \in 1..(t - 1)
  BY EngineConstants DEF Scenarios
<1>2. t < s => t \in 1..(s - 1)
  BY EngineConstants DEF Scenarios
<1>3. s < t \/ t < s \/ s = t
  BY EngineConstants DEF Scenarios
<1>. QED  BY <1>1, <1>2, <1>3 DEF ClientInv

\* A request in flight belongs to a scenario that is sending.
LEMMA InFlightSends ==
  ASSUME CoreInv, NEW p \in InFlight
  PROVE  p[1] \in Scenarios /\ pc[p[1]] = "sending" /\ p[2] \in Slots /\ p = <<p[1], p[2]>>
BY DEF InFlight, Requests, CoreInv, RequestInv, Underway

\* Steps that leave the client alone, put nothing in flight and close nothing.
LEMMA ClientUntouched ==
  ASSUME CoreInv, ClientInv, workload' = workload, phase' = phase, UNCHANGED clientVars,
         InFlight' \subseteq InFlight, \A p \in InFlight' : conn'[p] = conn[p],
         \A s \in Scenarios : pc'[s] = "closing" => pc[s] = "closing",
         \A s \in Scenarios : pc'[s] # "pending" =>
            \/ pc[s] # "pending"
            \/ workload.serial => \A t \in 1..(s - 1) : pc[t] = "done",
         \A s \in Scenarios : pc[s] = "done" => pc'[s] = "done"
  PROVE  ClientInv'
<1>. SUFFICES ASSUME Exclusive' PROVE ClientInv'
  BY DEF ClientInv
<1>1. Exclusive
  BY ExclusiveFixed
<1>2. open' = open /\ current' = current /\ Closing' => Closing
  BY DEF clientVars, Closing
<1>3. \A s \in Scenarios : \A t \in 1..(s - 1) : t \in Scenarios
  BY EngineConstants DEF Scenarios
<1>. QED  BY <1>1, <1>2, <1>3 DEF ClientInv, clientVars, Closing

\* Without a usable client nothing is open.
LEMMA ClientGone ==
  ASSUME CoreInv, ClientInv, Exclusive, ~ClientUsable
  PROVE  open = {}
<1>1. open \subseteq {current} /\ open \subseteq 1..created /\ created \in Nat
  BY DEF ClientInv, CoreInv, TypeOK
<1>2. current = 0 \/ current \notin open
  BY DEF ClientUsable
<1>. QED  BY <1>1, <1>2

LEMMA BeginAttemptClient ==
  ASSUME CoreInv, ClientInv, NEW p \in Requests, BeginAttempt(p)
  PROVE  ClientInv'
<1>. USE DEF BeginAttempt
<1>. SUFFICES ASSUME Exclusive' PROVE ClientInv'
  BY DEF ClientInv
<1>1. Exclusive
  BY ExclusiveFixed
<1>2. PICK s \in Scenarios, i \in Slots : p = <<s, i>>
  BY DEF Requests
<1>3. pc[s] = "sending" /\ phase = "running"
  BY <1>2 DEF CoreInv, RequestInv, VerdictInv, Underway
<1>4. ~Closing
  <2>1. CASE workload.serial
    BY <1>1, <1>3, <2>1, ActiveAlone DEF Closing
  <2>2. CASE ~workload.serial
    BY <1>1, <1>3, <2>2 DEF ClientInv, Closing
  <2>. QED  BY <2>1, <2>2
<1>5. InFlight' = InFlight \cup {p}
  BY DEF InFlight, CoreInv, TypeOK
<1>6. /\ open' \subseteq {current'}
      /\ \A q \in InFlight' : conn'[q] \in open'
  <2>1. CASE ClientUsable
    <3>1. conn'[p] = current /\ \A q \in InFlight : q # p => conn'[q] = conn[q]
      BY <2>1 DEF UseClient, CoreInv, TypeOK, InFlight
    <3>. QED  BY <1>1, <1>5, <2>1, <3>1 DEF ClientInv, UseClient, ClientUsable, clientVars
  <2>2. CASE ~ClientUsable
    <3>1. open = {}
      BY <1>1, <2>2, ClientGone
    <3>2. InFlight = {}
      BY <1>1, <3>1 DEF ClientInv
    <3>3. open' = {created + 1} /\ current' = created + 1 /\ conn'[p] = created + 1
      BY <2>2, <3>1 DEF UseClient, CoreInv, TypeOK
    <3>. QED  BY <1>5, <3>2, <3>3
  <2>. QED  BY <2>1, <2>2
<1>7. ~Closing'
  BY <1>4 DEF Closing
<1>. QED  BY <1>1, <1>6, <1>7 DEF ClientInv

\* A scenario's end, with its close(): by then nothing of its own is in flight,
\* and nothing of any other scenario either.
LEMMA EndScenarioClient ==
  ASSUME CoreInv, ClientInv, NEW s \in Scenarios, NEW v, NEW b, EndScenario(s, v, b),
         ~IsBurst(s), pc[s] \in {"pending", "sending"}, phase' = phase, workload' = workload,
         workload.serial => \A t \in 1..(s - 1) : pc[t] = "done",
         InFlight' \subseteq InFlight, <<s, 1>> \notin InFlight'
  PROVE  ClientInv'
<1>. SUFFICES ASSUME Exclusive' PROVE ClientInv'
  BY DEF ClientInv
<1>1. Exclusive /\ workload.serial
  BY ExclusiveFixed DEF Exclusive
<1>2. phase = "running"
  BY DEF CoreInv, VerdictInv
<1>3. InFlight' = {}
  <2>. SUFFICES ASSUME NEW p \in InFlight' PROVE FALSE
    OBVIOUS
  <2>1. p \in InFlight /\ p[1] \in Scenarios /\ pc[p[1]] = "sending" /\ p[2] \in Slots
        /\ p = <<p[1], p[2]>>
    BY InFlightSends
  <2>2. p[1] = s
    <3>1. CASE pc[s] = "sending"
      BY <1>1, <2>1, <3>1, ActiveAlone
    <3>2. CASE pc[s] = "pending"
      <4>1. p[1] < s \/ s < p[1]
        BY <2>1, <3>2, EngineConstants DEF Scenarios
      <4>2. p[1] \notin 1..(s - 1)
        BY <1>1, <2>1
      <4>3. s \in 1..(p[1] - 1)
        BY <2>1, <4>1, <4>2, EngineConstants DEF Scenarios
      <4>. QED  BY <1>1, <2>1, <3>2, <4>3 DEF ClientInv
    <3>. QED  BY <3>1, <3>2
  <2>3. p[2] = 1
    BY <2>1, <2>2, OnlyRequest DEF CoreInv, RequestInv, InFlight
  <2>. QED  BY <2>1, <2>2, <2>3
<1>4. pc' = [pc EXCEPT ![s] = pc'[s]] /\ pc'[s] \in {"closing", "done"}
  BY DEF EndScenario, CoreInv, TypeOK
<1>5. open' = {} /\ current' = current
  <2>1. CASE ClientUsable
    BY <1>1, <2>1 DEF EndScenario, BeginClose, ClientInv
  <2>2. CASE ~ClientUsable
    <3>1. UNCHANGED <<open, current>>
      BY <2>2 DEF EndScenario, clientVars
    <3>2. open = {}
      BY <1>1, <2>2, ClientGone
    <3>. QED  BY <3>1, <3>2
  <2>. QED  BY <2>1, <2>2
<1>6. \A x \in Scenarios : x # s => pc'[x] = pc[x]
  BY <1>4 DEF CoreInv, TypeOK
<1>7. \A x \in Scenarios : pc'[x] # "pending" => \A t \in 1..(x - 1) : pc'[t] = "done"
  <2>. SUFFICES ASSUME NEW x \in Scenarios, pc'[x] # "pending", NEW t \in 1..(x - 1)
                PROVE  pc'[t] = "done"
    OBVIOUS
  <2>1. t \in Scenarios /\ t # x
    BY EngineConstants DEF Scenarios
  <2>2. pc[t] = "done"
    BY <1>1, <1>6 DEF ClientInv
  <2>. QED  BY <1>6, <2>1, <2>2
<1>. QED  BY <1>1, <1>3, <1>5, <1>7 DEF ClientInv

\* An attempt that ends, and the scenario with it unless that is a burst.
LEMMA AttemptEndClient ==
  ASSUME CoreInv, ClientInv, NEW p \in Requests, NEW to \in ReqStates \ {"inflight"},
         EndAttempt(p, to),
         \/ UNCHANGED <<pc, clientVars>>
         \/ \E v, b : ~IsBurst(p[1]) /\ EndScenario(p[1], v, b)
  PROVE  ClientInv'
<1>1. p \in InFlight /\ workload' = workload /\ phase' = phase
  BY DEF EndAttempt, InFlight
<1>2. p[1] \in Scenarios /\ pc[p[1]] = "sending" /\ p[2] \in Slots /\ p = <<p[1], p[2]>>
  BY <1>1, InFlightSends
<1>3. InFlight' = InFlight \ {p} /\ \A q \in InFlight' : conn'[q] = conn[q]
  BY DEF EndAttempt, InFlight, CoreInv, TypeOK
<1>4. CASE UNCHANGED <<pc, clientVars>>
  BY <1>1, <1>3, <1>4, ClientUntouched
<1>5. CASE \E v, b : ~IsBurst(p[1]) /\ EndScenario(p[1], v, b)
  <2>1. PICK v, b : ~IsBurst(p[1]) /\ EndScenario(p[1], v, b)
    BY <1>5
  <2>2. p[2] = 1
    BY <1>1, <1>2, <2>1, OnlyRequest DEF CoreInv, RequestInv, InFlight
  <2>3. <<p[1], 1>> \notin InFlight'
    BY <1>2, <1>3, <2>2
  <2>4. CASE ~Exclusive
    BY <1>1, <2>4, ExclusiveFixed DEF ClientInv
  <2>5. CASE Exclusive
    <3>1. workload.serial => \A t \in 1..(p[1] - 1) : pc[t] = "done"
      BY <1>2, <2>5 DEF ClientInv
    <3>. QED  BY <1>1, <1>2, <1>3, <2>1, <2>3, <3>1, EndScenarioClient
  <2>. QED  BY <2>4, <2>5
<1>. QED  BY <1>4, <1>5

LEMMA InitClient == Init => ClientInv
BY DEF Init, ClientInv, InFlight, Closing

LEMMA ScenarioClient ==
  ASSUME CoreInv, ClientInv, NEW s \in Scenarios, ScenarioStep(s)
  PROVE  ClientInv'
<1>1. CASE Start(s) \/ StartNextBatch(s)
  <2>1. /\ workload' = workload /\ phase' = phase /\ UNCHANGED clientVars
        /\ conn' = conn /\ Launch(s, NextBatch(s))
    BY <1>1 DEF Start, StartNextBatch
  <2>2. InFlight' \subseteq InFlight
    BY <2>1 DEF Launch, InFlight
  <2>3. CASE Start(s)
    <3>1. MayStart(s) /\ pc' = [pc EXCEPT ![s] = "sending"] /\ pc[s] = "pending"
      BY <2>3 DEF Start, MayStart
    <3>. QED  BY <2>1, <2>2, <3>1, ClientUntouched DEF MayStart, CoreInv, TypeOK
  <2>4. CASE StartNextBatch(s)
    <3>1. pc' = pc
      BY <2>4 DEF StartNextBatch
    <3>. QED  BY <2>1, <2>2, <3>1, ClientUntouched
  <2>. QED  BY <1>1, <2>3, <2>4
<1>2. CASE StartUnknown(s)
  <2>1. /\ MayStart(s) /\ EndScenario(s, "failed", FALSE) /\ pc[s] = "pending"
        /\ workload' = workload /\ phase' = phase /\ req' = req
        /\ ~IsBurst(s)
    BY <1>2 DEF StartUnknown, MayStart, sendVars, IsBurst
  <2>2. InFlight' = InFlight
    BY <2>1 DEF InFlight
  <2>3. <<s, 1>> \notin InFlight
    <3>1. 1 \in Slots
      BY EngineConstants DEF Slots
    <3>. QED  BY <2>1, <3>1 DEF CoreInv, RequestInv, InFlight
  <2>4. workload.serial => \A t \in 1..(s - 1) : pc[t] = "done"
    BY <2>1 DEF MayStart
  <2>. QED  BY <2>1, <2>2, <2>3, <2>4, EndScenarioClient
<1>3. CASE StartZeroRate(s) \/ FinishBurst(s)
  <2>1. /\ workload' = workload /\ phase' = phase /\ UNCHANGED <<clientVars, req, conn>>
        /\ pc' = [pc EXCEPT ![s] = "done"]
    BY <1>3 DEF StartZeroRate, FinishBurst, EndBurst, sendVars
  <2>2. \/ pc[s] # "pending"
        \/ workload.serial => \A t \in 1..(s - 1) : pc[t] = "done"
    BY <1>3 DEF StartZeroRate, FinishBurst, MayStart
  <2>3. InFlight' = InFlight
    BY <2>1 DEF InFlight
  <2>. QED  BY <2>1, <2>2, <2>3, ClientUntouched DEF CoreInv, TypeOK
<1>4. CASE FinishClose(s)
  <2>. SUFFICES ASSUME Exclusive' PROVE ClientInv'
    BY DEF ClientInv
  <2>1. Exclusive /\ workload' = workload /\ phase' = phase
    BY <1>4, ExclusiveFixed DEF FinishClose
  <2>2. open = {}
    BY <1>4, <2>1 DEF FinishClose, ClientInv, Closing
  <2>3. InFlight = {} /\ InFlight' = {}
    BY <1>4, <2>1, <2>2 DEF FinishClose, sendVars, ClientInv, InFlight
  <2>4. open' = {}
    BY <1>4, <2>2 DEF FinishClose, EndClose
  <2>5. /\ pc' = [pc EXCEPT ![s] = "done"] /\ pc[s] = "closing"
        /\ pc \in [Scenarios -> {"pending", "sending", "closing", "done"}]
    BY <1>4 DEF FinishClose, CoreInv, TypeOK
  <2>6. \A x \in Scenarios : \A t \in 1..(x - 1) : t \in Scenarios
    BY EngineConstants DEF Scenarios
  <2>. QED  BY <2>1, <2>3, <2>4, <2>5, <2>6 DEF ClientInv
<1>. QED  BY <1>1, <1>2, <1>3, <1>4 DEF ScenarioStep

LEMMA RequestClient ==
  ASSUME CoreInv, ClientInv, NEW p \in Requests, RequestStep(p)
  PROVE  ClientInv'
<1>1. CASE BeginAttempt(p)
  BY <1>1, BeginAttemptClient
<1>2. CASE BackoffElapsed(p)
  <2>1. /\ workload' = workload /\ phase' = phase /\ UNCHANGED <<clientVars, pc, conn>>
        /\ InFlight' \subseteq InFlight
    BY <1>2 DEF BackoffElapsed, InFlight, CoreInv, TypeOK
  <2>. QED  BY <2>1, ClientUntouched
<1>3. ASSUME NEW to \in ReqStates \ {"inflight"}, NEW v, NEW b,
             EndAttempt(p, to), Deliver(p, v, b)
      PROVE  ClientInv'
  BY <1>3, AttemptEndClient DEF Deliver
<1>4. CASE FailAndRetry(p)
  BY <1>4, AttemptEndClient DEF FailAndRetry, ReqStates
<1>5. CASE (\E c \in Codes : Respond(p, c)) \/ TimeOut(p) \/ FailForGood(p)
  BY <1>3, <1>5 DEF Respond, TimeOut, FailForGood, ReqStates
<1>. QED  BY <1>1, <1>2, <1>4, <1>5 DEF RequestStep, AttemptEnds

LEMMA NextClient ==
  ASSUME CoreInv, ClientInv, [Next]_vars
  PROVE  ClientInv'
<1>1. CASE \E s \in Scenarios : ScenarioStep(s)
  BY <1>1, ScenarioClient
<1>2. CASE \E p \in Requests : RequestStep(p)
  BY <1>2, RequestClient
<1>3. CASE Aggregate
  <2>. SUFFICES ASSUME Exclusive' PROVE ClientInv'
    BY DEF ClientInv
  <2>1. workload' = workload /\ pc' = pc /\ req' = req /\ Exclusive
    BY <1>3, ExclusiveFixed DEF Aggregate, sendVars
  <2>2. InFlight' = {}
    BY <1>3, <2>1, InFlightSends DEF Aggregate, InFlight
  <2>3. open' = {}
    <3>1. CASE ClientUsable
      BY <1>3, <2>1, <3>1 DEF Aggregate, BeginClose, ClientInv
    <3>2. CASE ~ClientUsable
      BY <1>3, <2>1, <3>2, ClientGone DEF Aggregate, clientVars
    <3>. QED  BY <3>1, <3>2
  <2>. QED  BY <2>1, <2>2, <2>3 DEF ClientInv
<1>4. CASE Return
  <2>. SUFFICES ASSUME Exclusive' PROVE ClientInv'
    BY DEF ClientInv
  <2>1. workload' = workload /\ pc' = pc /\ UNCHANGED <<req, conn>> /\ Exclusive
    BY <1>4, ExclusiveFixed DEF Return, sendVars
  <2>2. open = {} /\ open' = {}
    BY <1>4, <2>1 DEF Return, EndClose, ClientInv, Closing
  <2>3. InFlight = {} /\ InFlight' = InFlight
    BY <2>1, <2>2 DEF ClientInv, InFlight
  <2>. QED  BY <2>1, <2>2, <2>3 DEF ClientInv
<1>5. CASE UNCHANGED vars
  BY <1>5 DEF vars, sendVars, clientVars, ClientInv, Exclusive, IsBurst, InFlight, Closing
<1>. QED  BY <1>1, <1>2, <1>3, <1>4, <1>5 DEF Next, Terminated

LEMMA ClientInvariant == Spec => [](CoreInv /\ ClientInv)
<1>1. CoreInv /\ ClientInv /\ [Next]_vars => (CoreInv /\ ClientInv)'
  BY NextCore, NextClient
<1>. QED  BY <1>1, InitCore, InitClient, PTL DEF Spec

\* In a serial call, or one of bursts only, no request in flight loses its
\* client to a close(), and no client is forgotten while it is open.
THEOREM ClientSafety == Spec => []OneOpenClient
<1>1. ClientInv => OneOpenClient
  BY DEF ClientInv, OneOpenClient
<1>. QED  BY <1>1, ClientInvariant, PTL

--------------------------------------------------------------------------
(* What a parallel call can lose.                                        *)

\* LossesBounded, strengthened: bursts do not close, and once execute's own
\* close() has begun, the client it closes is not open.
LossInv ==
  /\ LossesBounded
  /\ \A s \in Scenarios : pc[s] = "closing" => ~IsBurst(s)
  /\ phase # "running" => current \notin open

\* The scenarios are finitely many.
LEMMA ScenariosFinite == IsFiniteSet(Scenarios)
BY FS_Interval, EngineConstants DEF Scenarios

\* A step that loses nothing, and after which no fewer scenarios are over.
LEMMA NothingLost ==
  ASSUME CoreInv, LossInv, Lost' \subseteq Lost, Closed \subseteq Closed',
         \A s \in Scenarios : pc'[s] = "closing" => ~IsBurst(s)',
         phase' # "running" => current' \notin open'
  PROVE  LossInv'
<1>1. IsFiniteSet(Lost') /\ Cardinality(Lost') <= Cardinality(Lost) /\ IsFiniteSet(Lost)
  BY FS_Subset DEF LossInv, LossesBounded
<1>2. IsFiniteSet(Closed') /\ IsFiniteSet(Closed)
  BY ScenariosFinite, FS_Subset DEF Closed
<1>3. Cardinality(Closed) <= Cardinality(Closed')
  BY <1>2, FS_Subset
<1>4. Cardinality(Lost) \in Nat /\ Cardinality(Lost') \in Nat
      /\ Cardinality(Closed) \in Nat /\ Cardinality(Closed') \in Nat
  BY <1>1, <1>2, FS_CardinalityType
<1>5. Cardinality(Lost') <= Cardinality(Closed')
  BY <1>1, <1>3, <1>4 DEF LossInv, LossesBounded
<1>6. LossesBounded'
  BY <1>1, <1>5 DEF LossesBounded
<1>. QED  BY <1>6 DEF LossInv

\* A scenario's end loses nothing: its close() takes the current client away.
LEMMA EndScenarioLoses ==
  ASSUME CoreInv, LossInv, NEW s \in Scenarios, NEW v, NEW b, EndScenario(s, v, b),
         ~IsBurst(s), pc[s] \in {"pending", "sending"}, phase = "running",
         phase' = phase, workload' = workload
  PROVE  LossInv'
<1>1. /\ Lost' \subseteq Lost
      /\ \E x \in {"closing", "done"} : pc' = [pc EXCEPT ![s] = x]
  <2>1. CASE ClientUsable
    BY <2>1 DEF EndScenario, BeginClose, Lost
  <2>2. CASE ~ClientUsable
    BY <2>2 DEF EndScenario, clientVars, Lost
  <2>. QED  BY <2>1, <2>2
<1>2. \A t \in Scenarios : IsBurst(t)' = IsBurst(t)
  BY WorkloadFixed
<1>3. pc \in [Scenarios -> {"pending", "sending", "closing", "done"}]
  BY DEF CoreInv, TypeOK
<1>4. Closed \subseteq Closed'
  BY <1>1, <1>2, <1>3 DEF Closed
<1>5. \A t \in Scenarios : pc'[t] = "closing" => ~IsBurst(t)'
  BY <1>1, <1>2, <1>3 DEF LossInv
<1>. QED  BY <1>1, <1>4, <1>5, NothingLost

\* Steps that leave the client alone.
LEMMA UntouchedLoses ==
  ASSUME CoreInv, LossInv, workload' = workload, phase' = phase, UNCHANGED clientVars,
         \A s \in Scenarios : pc'[s] = "closing" => pc[s] = "closing",
         \A s \in Scenarios : pc[s] = "done" => pc'[s] = "done"
  PROVE  LossInv'
<1>1. \A t \in Scenarios : IsBurst(t)' = IsBurst(t)
  BY WorkloadFixed
<1>2. Lost' \subseteq Lost /\ Closed \subseteq Closed'
  BY <1>1 DEF Lost, Closed, clientVars
<1>. QED  BY <1>1, <1>2, NothingLost DEF LossInv, clientVars

\* The end of a close() may lose one client, and one more scenario is over.
LEMMA FinishCloseLoses ==
  ASSUME CoreInv, LossInv, NEW s \in Scenarios, FinishClose(s)
  PROVE  LossInv'
<1>1. /\ pc[s] = "closing" /\ pc' = [pc EXCEPT ![s] = "done"]
      /\ current' = 0 /\ open' = open /\ phase' = phase /\ workload' = workload
  BY DEF FinishClose, EndClose
<1>2. /\ pc \in [Scenarios -> {"pending", "sending", "closing", "done"}]
      /\ open \subseteq 1..created /\ created \in Nat
  BY DEF CoreInv, TypeOK
<1>3. \A t \in Scenarios : IsBurst(t)' = IsBurst(t)
  BY <1>1, WorkloadFixed
<1>4. Closed' = Closed \cup {s} /\ s \notin Closed
  BY <1>1, <1>2, <1>3 DEF Closed, LossInv
<1>5. Lost' \subseteq Lost \cup {current}
  BY <1>1 DEF Lost
<1>6. IsFiniteSet(Lost) /\ IsFiniteSet(Closed)
  BY ScenariosFinite, FS_Subset DEF LossInv, LossesBounded, Closed
<1>7. Cardinality(Closed') = Cardinality(Closed) + 1
  BY <1>4, <1>6, FS_AddElement
<1>8. IsFiniteSet(Lost \cup {current}) /\ Cardinality(Lost \cup {current}) = Cardinality(Lost) + 1
  BY <1>6, FS_AddElement DEF Lost
<1>9. IsFiniteSet(Lost') /\ Cardinality(Lost') <= Cardinality(Lost \cup {current})
  BY <1>5, <1>8, FS_Subset
<1>10. Cardinality(Lost) \in Nat /\ Cardinality(Closed) \in Nat /\ Cardinality(Lost') \in Nat
  BY <1>6, <1>9, FS_CardinalityType
<1>11. Cardinality(Lost') <= Cardinality(Closed')
  BY <1>7, <1>8, <1>9, <1>10 DEF LossInv, LossesBounded
<1>12. current' \notin open'
  BY <1>1, <1>2
<1>13. \A t \in Scenarios : pc'[t] = "closing" => ~IsBurst(t)'
  BY <1>1, <1>2, <1>3 DEF LossInv
<1>14. LossesBounded'
  BY <1>9, <1>11, <1>12 DEF LossesBounded
<1>. QED  BY <1>12, <1>13, <1>14 DEF LossInv

LEMMA InitLoses == Init => LossInv
<1>. SUFFICES ASSUME Init PROVE LossInv
  OBVIOUS
<1>1. Lost = {} /\ Closed = {}
  BY DEF Init, Lost, Closed
<1>2. IsFiniteSet({}) /\ Cardinality({}) = 0
  BY FS_EmptySet
<1>. QED  BY <1>1, <1>2 DEF Init, LossInv, LossesBounded

LEMMA ScenarioLoses ==
  ASSUME CoreInv, LossInv, NEW s \in Scenarios, ScenarioStep(s)
  PROVE  LossInv'
<1>a. pc \in [Scenarios -> {"pending", "sending", "closing", "done"}]
  BY DEF CoreInv, TypeOK
<1>1. CASE Start(s) \/ StartNextBatch(s)
  <2>1. /\ workload' = workload /\ phase' = phase /\ UNCHANGED clientVars
        /\ pc' = pc \/ (pc[s] = "pending" /\ pc' = [pc EXCEPT ![s] = "sending"])
    BY <1>1 DEF Start, StartNextBatch, MayStart
  <2>. QED  BY <1>a, <2>1, UntouchedLoses
<1>2. CASE StartUnknown(s)
  <2>1. /\ EndScenario(s, "failed", FALSE) /\ pc[s] = "pending" /\ phase = "running"
        /\ workload' = workload /\ phase' = phase /\ ~IsBurst(s)
    BY <1>2 DEF StartUnknown, MayStart, IsBurst
  <2>. QED  BY <2>1, EndScenarioLoses
<1>3. CASE StartZeroRate(s) \/ FinishBurst(s)
  <2>1. /\ workload' = workload /\ phase' = phase /\ UNCHANGED clientVars
        /\ pc' = [pc EXCEPT ![s] = "done"]
    BY <1>3 DEF StartZeroRate, FinishBurst, EndBurst
  <2>. QED  BY <1>a, <2>1, UntouchedLoses
<1>4. CASE FinishClose(s)
  BY <1>4, FinishCloseLoses
<1>. QED  BY <1>1, <1>2, <1>3, <1>4 DEF ScenarioStep

LEMMA RequestLoses ==
  ASSUME CoreInv, LossInv, NEW p \in Requests, RequestStep(p)
  PROVE  LossInv'
<1>1. CASE BeginAttempt(p)
  <2>1. PICK s \in Scenarios, i \in Slots : p = <<s, i>>
    BY DEF Requests
  <2>2. phase = "running"
    BY <1>1, <2>1 DEF BeginAttempt, CoreInv, RequestInv, VerdictInv, Underway
  <2>3. workload' = workload /\ phase' = phase /\ pc' = pc /\ UseClient(p)
    BY <1>1 DEF BeginAttempt
  <2>4. CASE ClientUsable
    BY <2>3, <2>4, UntouchedLoses DEF UseClient
  <2>5. CASE ~ClientUsable
    <3>1. /\ open' = open \cup {created + 1} /\ current' = created + 1
      BY <2>3, <2>5 DEF UseClient
    <3>2. current \notin open
      BY <2>5 DEF ClientUsable, CoreInv, TypeOK
    <3>3. Lost' \subseteq Lost
      BY <3>1, <3>2 DEF Lost
    <3>4. \A t \in Scenarios : IsBurst(t)' = IsBurst(t)
      BY <2>3, WorkloadFixed
    <3>5. Closed \subseteq Closed'
      BY <2>3, <3>4 DEF Closed
    <3>. QED  BY <2>2, <2>3, <3>3, <3>4, <3>5, NothingLost DEF LossInv
  <2>. QED  BY <2>4, <2>5
<1>2. CASE BackoffElapsed(p)
  <2>1. workload' = workload /\ phase' = phase /\ pc' = pc /\ UNCHANGED clientVars
    BY <1>2 DEF BackoffElapsed
  <2>. QED  BY <2>1, UntouchedLoses
<1>3. CASE FailAndRetry(p)
  <2>1. workload' = workload /\ phase' = phase /\ pc' = pc /\ UNCHANGED clientVars
    BY <1>3 DEF FailAndRetry, EndAttempt
  <2>. QED  BY <2>1, UntouchedLoses
<1>4. ASSUME NEW to, NEW v, NEW b, EndAttempt(p, to), Deliver(p, v, b)
      PROVE  LossInv'
  <2>1. p \in InFlight /\ workload' = workload /\ phase' = phase
    BY <1>4 DEF EndAttempt, InFlight
  <2>2. p[1] \in Scenarios /\ pc[p[1]] = "sending"
    BY <2>1, InFlightSends
  <2>3. CASE IsBurst(p[1])
    <3>1. pc' = pc /\ UNCHANGED clientVars
      BY <1>4, <2>3 DEF Deliver
    <3>. QED  BY <2>1, <3>1, UntouchedLoses
  <2>4. CASE ~IsBurst(p[1])
    <3>1. EndScenario(p[1], v, b)
      BY <1>4, <2>4 DEF Deliver
    <3>2. phase = "running"
      BY <2>2 DEF CoreInv, VerdictInv
    <3>. QED  BY <2>1, <2>2, <2>4, <3>1, <3>2, EndScenarioLoses
  <2>. QED  BY <2>3, <2>4
<1>5. CASE (\E c \in Codes : Respond(p, c)) \/ TimeOut(p) \/ FailForGood(p)
  BY <1>4, <1>5 DEF Respond, TimeOut, FailForGood
<1>. QED  BY <1>1, <1>2, <1>3, <1>5 DEF RequestStep, AttemptEnds

LEMMA NextLoses ==
  ASSUME CoreInv, LossInv, [Next]_vars
  PROVE  LossInv'
<1>1. CASE \E s \in Scenarios : ScenarioStep(s)
  BY <1>1, ScenarioLoses
<1>2. CASE \E p \in Requests : RequestStep(p)
  BY <1>2, RequestLoses
<1>3. CASE Aggregate
  <2>1. workload' = workload /\ pc' = pc
    BY <1>3 DEF Aggregate
  <2>2. Lost' \subseteq Lost /\ current' \notin open'
    <3>1. CASE ClientUsable
      BY <1>3, <3>1 DEF Aggregate, BeginClose, Lost
    <3>2. CASE ~ClientUsable
      BY <1>3, <3>2 DEF Aggregate, clientVars, Lost, ClientUsable, CoreInv, TypeOK
    <3>. QED  BY <3>1, <3>2
  <2>3. \A t \in Scenarios : IsBurst(t)' = IsBurst(t)
    BY <2>1, WorkloadFixed
  <2>4. Closed \subseteq Closed'
    BY <2>1, <2>3 DEF Closed
  <2>. QED  BY <2>1, <2>2, <2>3, <2>4, NothingLost DEF LossInv
<1>4. CASE Return
  <2>1. /\ workload' = workload /\ pc' = pc /\ open' = open /\ current' = 0
        /\ phase # "running"
    BY <1>4 DEF Return, EndClose
  <2>2. Lost' \subseteq Lost /\ current' \notin open'
    BY <2>1 DEF Lost, LossInv, CoreInv, TypeOK
  <2>3. \A t \in Scenarios : IsBurst(t)' = IsBurst(t)
    BY <2>1, WorkloadFixed
  <2>4. Closed \subseteq Closed'
    BY <2>1, <2>3 DEF Closed
  <2>. QED  BY <2>1, <2>2, <2>3, <2>4, NothingLost DEF LossInv
<1>5. CASE UNCHANGED vars
  BY <1>5, UntouchedLoses DEF vars
<1>. QED  BY <1>1, <1>2, <1>3, <1>4, <1>5 DEF Next, Terminated

\* Whatever the scenarios of a call do to each other's client, it loses at most
\* one for each scenario that closes.
THEOREM FewLost == Spec => []LossesBounded
<1>1. CoreInv /\ LossInv /\ [Next]_vars => (CoreInv /\ LossInv)'
  BY NextCore, NextLoses
<1>2. Spec => [](CoreInv /\ LossInv)
  BY <1>1, InitCore, InitLoses, PTL DEF Spec
<1>3. LossInv => LossesBounded
  BY DEF LossInv
<1>. QED  BY <1>2, <1>3, PTL
--------------------------------------------------------------------------
(* Verdicts are justified, and a healthy target gets its due.             *)

\* What has its verdict does not move any more.
LEMMA SettledFrozen ==
  ASSUME CoreInv, [Next]_vars, NEW s \in Scenarios, status[s] # "pending"
  PROVE  /\ status'[s] = status[s]
         /\ \A i \in Slots : /\ req'[<<s, i>>] = req[<<s, i>>]
                             /\ attempts'[<<s, i>>] = attempts[<<s, i>>]
<1>1. pc[s] \notin {"pending", "sending"}
  BY DEF CoreInv, VerdictInv
<1>2. \A i \in Slots : <<s, i>> \in Requests /\ req[<<s, i>>] \notin Underway
  BY <1>1 DEF Requests, CoreInv, RequestInv
<1>3. ASSUME NEW t \in Scenarios, ScenarioStep(t)
      PROVE  /\ status'[s] = status[s]
             /\ \A i \in Slots : /\ req'[<<s, i>>] = req[<<s, i>>]
                                 /\ attempts'[<<s, i>>] = attempts[<<s, i>>]
  <2>1. CASE Start(t) \/ StartNextBatch(t)
    <3>1. t # s
      BY <1>1, <2>1 DEF Start, StartNextBatch, MayStart
    <3>. QED  BY <1>2, <2>1, <3>1 DEF Start, StartNextBatch, Launch, resultVars
  <2>2. CASE StartUnknown(t) \/ StartZeroRate(t) \/ FinishBurst(t)
    <3>1. t # s
      BY <1>1, <2>2 DEF StartUnknown, StartZeroRate, FinishBurst, MayStart
    <3>. QED  BY <2>2, <3>1 DEF StartUnknown, StartZeroRate, FinishBurst, EndScenario,
                                EndBurst, sendVars, CoreInv, TypeOK
  <2>3. CASE FinishClose(t)
    BY <2>3 DEF FinishClose, resultVars, sendVars
  <2>. QED  BY <1>3, <2>1, <2>2, <2>3 DEF ScenarioStep
<1>4. ASSUME NEW p \in Requests, RequestStep(p)
      PROVE  /\ status'[s] = status[s]
             /\ \A i \in Slots : /\ req'[<<s, i>>] = req[<<s, i>>]
                                 /\ attempts'[<<s, i>>] = attempts[<<s, i>>]
  <2>1. req[p] \in Underway
    BY <1>4 DEF RequestStep, AttemptEnds, BeginAttempt, BackoffElapsed, Respond, TimeOut,
                FailAndRetry, FailForGood, EndAttempt, Underway
  <2>2. p[1] # s /\ \A i \in Slots : <<s, i>> # p
    BY <1>2, <2>1 DEF Requests
  <2>3. CASE BeginAttempt(p) \/ BackoffElapsed(p)
    BY <1>2, <2>2, <2>3 DEF BeginAttempt, BackoffElapsed, resultVars, CoreInv, TypeOK
  <2>4. CASE FailAndRetry(p)
    BY <1>2, <2>2, <2>4 DEF FailAndRetry, EndAttempt, resultVars, CoreInv, TypeOK
  <2>5. ASSUME NEW to, NEW v, NEW b, EndAttempt(p, to), Deliver(p, v, b)
        PROVE  /\ status'[s] = status[s]
               /\ \A i \in Slots : /\ req'[<<s, i>>] = req[<<s, i>>]
                                   /\ attempts'[<<s, i>>] = attempts[<<s, i>>]
    BY <1>2, <2>2, <2>5 DEF EndAttempt, Deliver, EndScenario, resultVars, CoreInv, TypeOK
  <2>. QED  BY <1>4, <2>3, <2>4, <2>5
            DEF RequestStep, AttemptEnds, Respond, TimeOut, FailForGood
<1>5. CASE Aggregate \/ Return \/ UNCHANGED vars
  BY <1>5 DEF Aggregate, Return, vars, resultVars, sendVars
<1>. QED  BY <1>3, <1>4, <1>5 DEF Next, Terminated

LEMMA NextWorkload ==
  ASSUME [Next]_vars PROVE workload' = workload
BY DEF Next, vars, ScenarioStep, RequestStep, AttemptEnds, Start, StartUnknown, StartZeroRate,
       StartNextBatch, FinishBurst, FinishClose, BeginAttempt, BackoffElapsed, Respond, TimeOut,
       FailAndRetry, FailForGood, EndAttempt, Aggregate, Return, Terminated

\* The ways a scenario gets its verdict.
LEMMA WaysToSettle ==
  ASSUME CoreInv, [Next]_vars, NEW s \in Scenarios, status[s] = "pending", status'[s] # "pending"
  PROVE  \/ /\ IsBurst(s) /\ status'[s] = "completed" /\ InState(s, Settled) = RequestsOf(s)
            /\ req' = req
         \/ IsBurst(s) /\ status'[s] = "failed" /\ workload.rps[s] = 0
         \/ ~IsBurst(s) /\ status'[s] = "failed" /\ workload.kind[s] = "unknown"
         \/ ~IsBurst(s) /\ status'[s] = "completed" /\ req'[<<s, 1>>] = "responded"
         \/ /\ ~IsBurst(s) /\ status'[s] = "timeout" /\ req'[<<s, 1>>] = "timedout"
            /\ ~workload.healthy
         \/ /\ ~IsBurst(s) /\ status'[s] = "failed" /\ req'[<<s, 1>>] = "errored"
            /\ attempts'[<<s, 1>>] = 1 + MaxRetries
            /\ <<s, 1>> \in InFlight /\ Breaks(<<s, 1>>)
<1>1. ASSUME NEW t \in Scenarios, ScenarioStep(t)
      PROVE  \/ /\ IsBurst(s) /\ status'[s] = "completed" /\ InState(s, Settled) = RequestsOf(s)
                /\ req' = req
             \/ IsBurst(s) /\ status'[s] = "failed" /\ workload.rps[s] = 0
             \/ ~IsBurst(s) /\ status'[s] = "failed" /\ workload.kind[s] = "unknown"
  <2>1. CASE Start(t) \/ StartNextBatch(t) \/ FinishClose(t)
    BY <2>1 DEF Start, StartNextBatch, FinishClose, resultVars
  <2>2. CASE StartUnknown(t)
    BY <2>2 DEF StartUnknown, EndScenario, IsBurst, CoreInv, TypeOK
  <2>3. CASE StartZeroRate(t)
    BY <2>3 DEF StartZeroRate, EndBurst, CoreInv, TypeOK
  <2>4. CASE FinishBurst(t)
    BY <2>4 DEF FinishBurst, EndBurst, sendVars, CoreInv, TypeOK
  <2>. QED  BY <1>1, <2>1, <2>2, <2>3, <2>4 DEF ScenarioStep
<1>2. ASSUME NEW p \in Requests, RequestStep(p)
      PROVE  \/ ~IsBurst(s) /\ status'[s] = "completed" /\ req'[<<s, 1>>] = "responded"
             \/ /\ ~IsBurst(s) /\ status'[s] = "timeout" /\ req'[<<s, 1>>] = "timedout"
                /\ ~workload.healthy
             \/ /\ ~IsBurst(s) /\ status'[s] = "failed" /\ req'[<<s, 1>>] = "errored"
                /\ attempts'[<<s, 1>>] = 1 + MaxRetries
                /\ <<s, 1>> \in InFlight /\ Breaks(<<s, 1>>)
  <2>1. CASE BeginAttempt(p) \/ BackoffElapsed(p) \/ FailAndRetry(p)
    BY <2>1 DEF BeginAttempt, BackoffElapsed, FailAndRetry, resultVars
  <2>2. ASSUME NEW to, NEW v, NEW b, EndAttempt(p, to), Deliver(p, v, b)
        PROVE  /\ ~IsBurst(s) /\ p = <<s, 1>> /\ status'[s] = v /\ req'[<<s, 1>>] = to
               /\ <<s, 1>> \in InFlight /\ attempts' = attempts
    <3>1. p \in InFlight
      BY <2>2 DEF EndAttempt, InFlight
    <3>2. p[1] \in Scenarios /\ p[2] \in Slots /\ p = <<p[1], p[2]>>
      BY <3>1, InFlightSends
    <3>3. ~IsBurst(p[1]) /\ status' = [status EXCEPT ![p[1]] = v]
      BY <2>2 DEF Deliver, EndScenario, resultVars
    <3>4. p[1] = s /\ status'[s] = v
      BY <3>2, <3>3 DEF CoreInv, TypeOK
    <3>5. p[2] = 1
      BY <3>1, <3>2, <3>3, OnlyRequest DEF CoreInv, RequestInv, InFlight
    <3>. QED  BY <2>2, <3>1, <3>2, <3>3, <3>4, <3>5 DEF EndAttempt, CoreInv, TypeOK
  <2>3. CASE \E c \in Codes : Respond(p, c)
    BY <2>2, <2>3 DEF Respond
  <2>4. CASE TimeOut(p)
    BY <2>2, <2>4 DEF TimeOut
  <2>5. CASE FailForGood(p)
    <3>1. /\ ~IsBurst(s) /\ p = <<s, 1>> /\ status'[s] = "failed" /\ req'[<<s, 1>>] = "errored"
          /\ <<s, 1>> \in InFlight /\ attempts' = attempts /\ Breaks(p)
      BY <2>2, <2>5 DEF FailForGood
    <3>2. attempts[p] \in 0..(1 + MaxRetries) /\ ~(attempts[p] < 1 + MaxRetries)
      BY <2>5 DEF FailForGood, HasAttemptsLeft, CoreInv, TypeOK
    <3>. QED  BY <3>1, <3>2, EngineConstants
  <2>. QED  BY <1>2, <2>1, <2>3, <2>4, <2>5 DEF RequestStep, AttemptEnds
<1>3. CASE Aggregate \/ Return \/ UNCHANGED vars
  BY <1>3 DEF Aggregate, Return, vars, resultVars
<1>. QED  BY <1>1, <1>2, <1>3 DEF Next, Terminated

LEMMA JustifiedStep ==
  ASSUME CoreInv, [Next]_vars, NEW s \in Scenarios, Justified(s)
  PROVE  Justified(s)'
<1>1. workload' = workload
  BY NextWorkload
<1>2. RequestsOf(s)' = RequestsOf(s) /\ (IsBurst(s)' <=> IsBurst(s)) /\ RequestsOf(s) \subseteq Slots
  BY <1>1, WorkloadFixed, RequestRange DEF CoreInv
<1>3. CASE status[s] # "pending"
  <2>1. /\ status'[s] = status[s]
        /\ \A i \in Slots : /\ req'[<<s, i>>] = req[<<s, i>>]
                            /\ attempts'[<<s, i>>] = attempts[<<s, i>>]
    BY <1>3, SettledFrozen
  <2>2. InState(s, Settled)' = InState(s, Settled)
    BY <1>2, <2>1 DEF InState, Settled
  <2>3. 1 \in Slots
    BY EngineConstants DEF Slots
  <2>. QED  BY <1>1, <1>2, <2>1, <2>2, <2>3 DEF Justified
<1>4. CASE status'[s] = "pending"
  BY <1>4 DEF Justified
<1>5. CASE status[s] = "pending" /\ status'[s] # "pending"
  <2>1. req' = req => InState(s, Settled)' = InState(s, Settled)
    BY <1>2 DEF InState, Settled
  <2>. QED  BY <1>1, <1>2, <1>5, <2>1, WaysToSettle DEF Justified
<1>. QED  BY <1>3, <1>4, <1>5

\* COMPLETED, TIMEOUT and FAILED mean what they say of the request.
THEOREM VerdictsJustified == Spec => []VerdictJustified
<1>1. Init => VerdictJustified
  BY DEF Init, VerdictJustified, Justified
<1>2. CoreInv /\ VerdictJustified /\ [Next]_vars => VerdictJustified'
  BY JustifiedStep DEF VerdictJustified
<1>. QED  BY <1>1, <1>2, CoreInvariant, PTL DEF Spec

\* In a serial call, or one of bursts only, against a target that answers
\* everything, every scenario that can be sent is COMPLETED.
THEOREM HealthyCompletion == Spec => []HealthyCompletes
<1>1. Init => HealthyCompletes
  BY DEF Init, HealthyCompletes
<1>2. CoreInv /\ ClientInv /\ HealthyCompletes /\ [Next]_vars => HealthyCompletes'
  <2>. SUFFICES ASSUME CoreInv, ClientInv, HealthyCompletes, [Next]_vars,
                       Exclusive', workload'.healthy
                PROVE  /\ \A p \in Requests : req'[p] \notin {"backoff", "timedout", "errored"}
                       /\ \A s \in Scenarios : Sendable(s)' => status'[s] \in {"pending", "completed"}
    BY DEF HealthyCompletes
  <2>1. workload' = workload
    BY NextWorkload
  <2>2. Exclusive /\ workload.healthy
    BY <2>1, ExclusiveFixed, WorkloadFixed
  <2>3. \A p \in InFlight : ~Breaks(p)
    BY <2>2 DEF ClientInv, Breaks
  <2>4. ASSUME NEW p \in Requests, req'[p] # req[p]
        PROVE  req'[p] \notin {"backoff", "timedout", "errored"}
    <3>1. ASSUME NEW s \in Scenarios, NEW batch, Launch(s, batch)
          PROVE  req'[p] = "waiting"
      BY <2>4, <3>1 DEF Launch
    <3>2. CASE \E s \in Scenarios : ScenarioStep(s)
      BY <2>4, <3>1, <3>2 DEF ScenarioStep, Start, StartUnknown, StartZeroRate, StartNextBatch,
                              FinishBurst, FinishClose, sendVars
    <3>3. ASSUME NEW q \in Requests, RequestStep(q)
          PROVE  req'[p] \in {"inflight", "responded", "waiting"}
      <4>1. ASSUME NEW to, EndAttempt(q, to)
            PROVE  req'[p] = to /\ ~Breaks(q)
        BY <2>3, <2>4, <4>1 DEF EndAttempt, InFlight, CoreInv, TypeOK
      <4>2. ~TimeOut(q) /\ ~FailAndRetry(q) /\ ~FailForGood(q)
        BY <2>2, <4>1 DEF TimeOut, FailAndRetry, FailForGood
      <4>3. CASE \E c \in Codes : Respond(q, c)
        BY <4>1, <4>3 DEF Respond
      <4>4. CASE BeginAttempt(q) \/ BackoffElapsed(q)
        BY <2>4, <4>4 DEF BeginAttempt, BackoffElapsed, CoreInv, TypeOK
      <4>. QED  BY <3>3, <4>2, <4>3, <4>4 DEF RequestStep, AttemptEnds
    <3>4. ~Aggregate /\ ~Return /\ ~UNCHANGED vars
      BY <2>4 DEF Aggregate, Return, vars, sendVars
    <3>. QED  BY <3>2, <3>3, <3>4 DEF Next, Terminated
  <2>5. ASSUME NEW s \in Scenarios, Sendable(s)'
        PROVE  status'[s] \in {"pending", "completed"}
    <3>1. Sendable(s)
      BY <2>1, <2>5, WorkloadFixed
    <3>2. status[s] \in {"pending", "completed"}
      BY <2>2, <3>1 DEF HealthyCompletes
    <3>3. CASE status[s] # "pending"
      BY <3>2, <3>3, SettledFrozen
    <3>4. CASE status[s] = "pending" /\ status'[s] # "pending"
      BY <2>2, <2>3, <3>1, <3>4, WaysToSettle DEF Sendable
    <3>. QED  BY <3>3, <3>4
  <2>6. \A p \in Requests : req[p] \notin {"backoff", "timedout", "errored"}
    BY <2>2 DEF HealthyCompletes
  <2>. QED  BY <2>4, <2>5, <2>6
<1>. QED  BY <1>1, <1>2, ClientInvariant, PTL DEF Spec
--------------------------------------------------------------------------
(* Bursts keep their pace.                                               *)

\* A batch has at most batch_size requests.
LEMMA BatchBounded ==
  ASSUME TypeOK, NEW s \in Scenarios, IsBurst(s), NEW S \in SUBSET NextBatch(s)
  PROVE  Cardinality(S) <= BatchSize(s)
<1>. DEFINE sent == Cardinality(RequestsOf(s) \ InState(s, {"idle"}))
            window == (sent + 1)..(sent + BatchSize(s))
<1>1. PICK n \in 0..MaxBurst : RequestsOf(s) = 1..n
  BY RequestRange
<1>2. RequestsOf(s) \subseteq Slots /\ BatchSize(s) \in Nat
  BY RequestRange
<1>3. sent \in Nat
  <2>1. IsFiniteSet(RequestsOf(s))
    BY <1>1, FS_Interval
  <2>. QED  BY <2>1, FS_Subset, FS_CardinalityType
<1>4. NextBatch(s) = {i \in RequestsOf(s) : sent < i /\ i <= sent + BatchSize(s)}
  BY DEF NextBatch
<1>. HIDE DEF sent
<1>5. IsFiniteSet(window) /\ Cardinality(window) <= BatchSize(s)
  <2>1. \A a, b \in Int : /\ IsFiniteSet(a..b)
                          /\ Cardinality(a..b) = IF a > b THEN 0 ELSE b - a + 1
    BY FS_Interval
  <2>2. sent + 1 \in Int /\ sent + BatchSize(s) \in Int
    BY <1>2, <1>3
  <2>3. /\ IsFiniteSet(window)
        /\ Cardinality(window) = IF sent + 1 > sent + BatchSize(s) THEN 0
                                 ELSE (sent + BatchSize(s)) - (sent + 1) + 1
    BY <2>1, <2>2
  <2>. HIDE DEF window
  <2>. QED  BY <1>2, <1>3, <2>3
<1>6. S \subseteq window
  BY <1>2, <1>3, <1>4, EngineConstants DEF Slots
<1>7. Cardinality(S) <= Cardinality(window) /\ Cardinality(S) \in Nat /\ Cardinality(window) \in Nat
  BY <1>5, <1>6, FS_Subset, FS_CardinalityType
<1>. QED  BY <1>2, <1>5, <1>7

\* A step that brings no request under way keeps every burst's pace.
LEMMA PacedUnlessLaunched ==
  ASSUME TypeOK, workload' = workload, NEW s \in Scenarios,
         \A i \in Slots : req'[<<s, i>>] \in Underway => req[<<s, i>>] \in Underway,
         Cardinality(InState(s, Underway)) <= BatchSize(s)
  PROVE  Cardinality(InState(s, Underway)') <= BatchSize(s)'
<1>1. RequestsOf(s)' = RequestsOf(s) /\ BatchSize(s)' = BatchSize(s)
  BY WorkloadFixed DEF BatchSize
<1>2. PICK n \in 0..MaxBurst : RequestsOf(s) = 1..n
  BY RequestRange
<1>3. RequestsOf(s) \subseteq Slots /\ BatchSize(s) \in Nat
  BY RequestRange
<1>4. InState(s, Underway)' \subseteq InState(s, Underway)
  BY <1>1, <1>3 DEF InState
<1>5. IsFiniteSet(InState(s, Underway))
  <2>1. IsFiniteSet(RequestsOf(s))
    BY <1>2, FS_Interval
  <2>. QED  BY <2>1, FS_Subset DEF InState
<1>6. /\ Cardinality(InState(s, Underway)') <= Cardinality(InState(s, Underway))
      /\ Cardinality(InState(s, Underway)') \in Nat
      /\ Cardinality(InState(s, Underway)) \in Nat
  BY <1>4, <1>5, FS_Subset, FS_CardinalityType
<1>. QED  BY <1>1, <1>3, <1>6

\* A launch finds none of the scenario's requests under way.
LEMMA LaunchPaced ==
  ASSUME TypeOK, workload' = workload, NEW s \in Scenarios, IsBurst(s),
         \A i \in Slots : req[<<s, i>>] \notin Underway, Launch(s, NextBatch(s))
  PROVE  Cardinality(InState(s, Underway)') <= BatchSize(s)'
<1>1. RequestsOf(s)' = RequestsOf(s) /\ BatchSize(s)' = BatchSize(s)
  BY WorkloadFixed DEF BatchSize
<1>2. RequestsOf(s) \subseteq Slots
  BY RequestRange
<1>3. InState(s, Underway)' \subseteq NextBatch(s)
  <2>. SUFFICES ASSUME NEW i \in Slots, req'[<<s, i>>] \in Underway PROVE i \in NextBatch(s)
    BY <1>1, <1>2 DEF InState
  <2>. QED  BY DEF Launch, Requests
<1>. QED  BY <1>1, <1>3, BatchBounded

LEMMA PacedStep ==
  ASSUME CoreInv, BurstPaced, [Next]_vars
  PROVE  BurstPaced'
<1>. USE DEF CoreInv
<1>1. workload' = workload
  BY NextWorkload
<1>. SUFFICES ASSUME NEW t \in Scenarios, IsBurst(t)
              PROVE  Cardinality(InState(t, Underway)') <= BatchSize(t)'
  BY <1>1, WorkloadFixed DEF BurstPaced, Underway
<1>2. Cardinality(InState(t, Underway)) <= BatchSize(t)
  BY DEF BurstPaced, Underway
<1>3. CASE \A i \in Slots : req'[<<t, i>>] \in Underway => req[<<t, i>>] \in Underway
  BY <1>1, <1>2, <1>3, PacedUnlessLaunched
<1>4. ASSUME NEW s \in Scenarios, Start(s) \/ StartNextBatch(s)
      PROVE  Cardinality(InState(t, Underway)') <= BatchSize(t)'
  <2>1. Launch(s, NextBatch(s))
    BY <1>4 DEF Start, StartNextBatch
  <2>2. CASE s = t
    <3>1. CASE Start(s)
      BY <1>1, <2>1, <2>2, <3>1, LaunchPaced DEF Start, MayStart, RequestInv, Underway
    <3>2. CASE StartNextBatch(s)
      <4>1. \A i \in Slots : req[<<s, i>>] \notin Underway
        <5>1. PICK k \in 0..MaxBurst :
                /\ \A j \in 1..k : j \in RequestsOf(s)
                /\ \A j \in Slots : (req[<<s, j>>] = "idle") <=> j > k
          BY DEF RequestInv, LaunchedInOrder
        <5>2. ASSUME NEW i \in Slots, req[<<s, i>>] \in Underway PROVE FALSE
          <6>1. i \in RequestsOf(s)
            BY <5>1, <5>2, EngineConstants DEF Slots, Underway
          <6>. QED  BY <3>2, <5>2, <6>1 DEF StartNextBatch, InState, Settled, Underway
        <5>. QED  BY <5>2
      <4>. QED  BY <1>1, <2>1, <2>2, <4>1, LaunchPaced
    <3>. QED  BY <1>4, <3>1, <3>2
  <2>3. CASE s # t
    <3>1. \A i \in Slots : req'[<<t, i>>] = req[<<t, i>>]
      BY <2>1, <2>3 DEF Launch, Requests
    <3>. QED  BY <1>3, <3>1
  <2>. QED  BY <2>2, <2>3
<1>5. ASSUME NEW p \in Requests, RequestStep(p)
      PROVE  \A i \in Slots : req'[<<t, i>>] \in Underway => req[<<t, i>>] \in Underway
  <2>1. req[p] \in Underway /\ \A q \in Requests : q # p => req'[q] = req[q]
    BY <1>5 DEF RequestStep, BeginAttempt, BackoffElapsed, AttemptEnds, Respond, TimeOut,
                FailAndRetry, FailForGood, EndAttempt, Underway, TypeOK
  <2>. QED  BY <2>1 DEF Requests
<1>6. \/ \E s \in Scenarios : Start(s) \/ StartNextBatch(s)
      \/ \E p \in Requests : RequestStep(p)
      \/ req' = req
  BY DEF Next, ScenarioStep, StartUnknown, StartZeroRate, FinishBurst, FinishClose, Aggregate,
         Return, Terminated, vars, sendVars
<1>. QED  BY <1>3, <1>4, <1>5, <1>6

\* A burst never has more requests under way than its batch size.
THEOREM BurstsArePaced == Spec => []BurstPaced
<1>1. Init => BurstPaced
  <2>. SUFFICES ASSUME Init, NEW s \in Scenarios
                PROVE  Cardinality(InState(s, Underway)) <= BatchSize(s)
    BY DEF BurstPaced, Underway
  <2>1. TypeOK
    BY InitCore DEF CoreInv
  <2>2. RequestsOf(s) \subseteq Slots /\ BatchSize(s) \in Nat
    BY <2>1, RequestRange
  <2>3. InState(s, Underway) = {}
    BY <2>2 DEF Init, InState, Requests, Underway
  <2>. QED  BY <2>2, <2>3, FS_EmptySet
<1>2. CoreInv /\ BurstPaced /\ [Next]_vars => BurstPaced'
  BY PacedStep
<1>. QED  BY <1>1, <1>2, CoreInvariant, PTL DEF Spec
==========================================================================
