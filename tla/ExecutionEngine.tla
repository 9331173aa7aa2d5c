------------------------- MODULE ExecutionEngine -------------------------
(***************************************************************************)
(* One call of ExecutionEngine.execute() (services/execution_engine.py).   *)
(*                                                                         *)
(* Everything runs on one asyncio event loop, so a step is the code        *)
(* between two suspension points: a semaphore acquire, the awaited HTTP    *)
(* request, a sleep, a gather, or the awaited part of AsyncClient.aclose().*)
(* Sleeps that hold nothing (the injected latency, the pause between burst *)
(* requests) only delay the step after them and are not states.            *)
(***************************************************************************)
EXTENDS Naturals, FiniteSets

CONSTANTS
  NumScenarios,      \* length of the scenario list
  Concurrency,       \* ExecutionConfig.concurrency
  MaxRetries,        \* ExecutionConfig.max_retries
  MaxBurst,          \* settings.execution.max_burst_requests
  Codes,             \* the HTTP status codes the target may answer
  Workloads          \* the inputs considered, see WorkloadType

Scenarios == 1..NumScenarios
Slots     == 1..MaxBurst              \* requests one scenario may send
Requests  == Scenarios \X Slots

\* "unknown" stands for the five ChaosScenarioTypes execute() has no branch for.
Kinds == {"latency", "error_status", "request_tampering", "rate_limit", "unknown"}

\* healthy: the target answers every request that is not cut off by the
\* engine itself. rps, duration and expected are entries of scenario.config.
WorkloadType == [serial   : BOOLEAN,
                 healthy  : BOOLEAN,
                 kind     : [Scenarios -> Kinds],
                 rps      : [Scenarios -> Nat],
                 duration : [Scenarios -> Nat],
                 expected : [Scenarios -> Codes]]

ASSUME EngineConstants ==
  /\ NumScenarios \in Nat
  /\ Concurrency \in Nat \ {0}        \* Field(ge=1)
  /\ MaxRetries \in Nat               \* Field(ge=0)
  /\ MaxBurst \in Nat \ {0}
  /\ Codes \subseteq Nat
  /\ Workloads \subseteq WorkloadType

VARIABLES
  workload,   \* the call's arguments, never changed
  phase,      \* where execute() is: "running", "closing", "returned"
  pc,         \* where _execute_single of each scenario is
  status,     \* ScenarioResult.status
  vuln,       \* ScenarioResult.vulnerability_found
  counts,     \* TestResult.completed_scenarios and failed_scenarios
  req,        \* where _send_with_retry of each request is
  attempts,   \* attempts each request has begun
  code,       \* status_code of its response, 0 when it has none
  conn,       \* the client its attempt in flight runs on
  permits,    \* the value of self._semaphore
  created,    \* number of AsyncClients made so far; they are 1..created
  open,       \* those whose is_closed is False
  current     \* self._client, 0 for None

sendVars   == <<req, attempts, code, conn, permits>>
clientVars == <<created, open, current>>
resultVars == <<status, vuln, counts>>
vars == <<workload, phase, pc, resultVars, sendVars, clientVars>>

ReqStates == {"idle", "waiting", "inflight", "backoff",
              "responded", "timedout", "errored"}
Settled   == {"responded", "timedout", "errored"}
NoCounts  == [completed |-> 0, failed |-> 0]
--------------------------------------------------------------------------
(* The requests of a scenario.                                           *)

IsBurst(s) == workload.kind[s] = "rate_limit"

AtMost(a, b) == IF a <= b THEN a ELSE b

TotalRequests(s) == AtMost(workload.rps[s] * workload.duration[s], MaxBurst)
BatchSize(s)     == AtMost(workload.rps[s], Concurrency)

\* Slots a scenario uses: range(total_requests), or the single request.
RequestsOf(s) == IF IsBurst(s) THEN 1..TotalRequests(s) ELSE {1}

InState(s, states) == {i \in RequestsOf(s) : req[<<s, i>>] \in states}

\* Fault variant: batch_size ignored, the whole burst in one gather().
WholeBurst(s) == RequestsOf(s)

\* The requests the next gather() starts: batch_start .. batch_end - 1.
NextBatch(s) ==
  LET sent == Cardinality(RequestsOf(s) \ InState(s, {"idle"}))
  IN  IF IsBurst(s)
      THEN {i \in RequestsOf(s) : sent < i /\ i <= sent + BatchSize(s)}
      ELSE {1}

Launch(s, batch) ==
  req' = [p \in Requests |-> IF p[1] = s /\ p[2] \in batch THEN "waiting"
                             ELSE req[p]]

\* _detect_vulnerability for a scenario with one response, and for a burst
\* from the status codes it collected.
SingleVulnerable(s, c) ==
  \/ workload.kind[s] = "error_status" /\ c = workload.expected[s]
  \/ workload.kind[s] = "request_tampering" /\ c \in 200..299

BurstVulnerable(s) ==
  LET answered == InState(s, {"responded"})
  IN  /\ answered # {}
      /\ \A i \in answered : code[<<s, i>>] # 429
--------------------------------------------------------------------------
(* The shared client.                                                    *)

ClientUsable == current # 0 /\ current \in open

\* Fault variant: close() drops the client without aclose().
DropClient == UNCHANGED clientVars

\* The synchronous part of close(): aclose() marks the client closed before
\* it first suspends.
BeginClose == /\ open' = open \ {current}
              /\ UNCHANGED <<created, current>>

\* After aclose() returns: self._client = None, whatever it is by then.
EndClose == /\ current' = 0
            /\ UNCHANGED <<created, open>>

\* Fault variant: _get_client makes a client for every attempt.
UseClientAnew(p) ==
  /\ created' = created + 1
  /\ open' = open \cup {created + 1}
  /\ current' = created + 1
  /\ conn' = [conn EXCEPT ![p] = created + 1]

\* _get_client followed by the start of client.request.
UseClient(p) ==
  IF ClientUsable
  THEN /\ conn' = [conn EXCEPT ![p] = current]
       /\ UNCHANGED clientVars
  ELSE /\ created' = created + 1
       /\ open' = open \cup {created + 1}
       /\ current' = created + 1
       /\ conn' = [conn EXCEPT ![p] = created + 1]
--------------------------------------------------------------------------
(* _execute_single.                                                      *)

\* Everything after the request of a non-burst scenario: the verdict, and
\* the `finally: await self.close()`.
EndScenario(s, verdict, vulnerable) ==
  /\ status' = [status EXCEPT ![s] = verdict]
  /\ vuln' = [vuln EXCEPT ![s] = vulnerable]
  /\ UNCHANGED counts
  /\ IF ClientUsable
     THEN pc' = [pc EXCEPT ![s] = "closing"] /\ BeginClose
     ELSE pc' = [pc EXCEPT ![s] = "done"] /\ UNCHANGED clientVars

\* A burst leaves the client to others.
EndBurst(s, verdict, vulnerable) ==
  /\ status' = [status EXCEPT ![s] = verdict]
  /\ vuln' = [vuln EXCEPT ![s] = vulnerable]
  /\ pc' = [pc EXCEPT ![s] = "done"]
  /\ UNCHANGED <<counts, clientVars>>

\* Fault variant: the serial loop does not await the scenario before.
MayStartAtOnce(s) == phase = "running" /\ pc[s] = "pending"

\* Fault variant: the serial loop goes on once the verdict before is known.
MayStartEarly(s) ==
  /\ phase = "running" /\ pc[s] = "pending"
  /\ workload.serial => \A t \in 1..(s - 1) : status[t] # "pending"

\* gather() starts every scenario; the serial loop, the first unfinished one.
MayStart(s) ==
  /\ phase = "running" /\ pc[s] = "pending"
  /\ workload.serial => \A t \in 1..(s - 1) : pc[t] = "done"

Start(s) ==
  /\ MayStart(s)
  /\ workload.kind[s] # "unknown"
  /\ IsBurst(s) => workload.rps[s] # 0
  /\ pc' = [pc EXCEPT ![s] = "sending"]
  /\ Launch(s, NextBatch(s))
  /\ UNCHANGED <<workload, phase, resultVars, attempts, code, conn, permits, clientVars>>

\* No branch for the type: FAILED, and the finally clause still runs.
StartUnknown(s) ==
  /\ MayStart(s)
  /\ workload.kind[s] = "unknown"
  /\ EndScenario(s, "failed", FALSE)
  /\ UNCHANGED <<workload, phase, sendVars>>

\* requests_per_second = 0: range() with step 0 raises ValueError.
StartZeroRate(s) ==
  /\ MayStart(s)
  /\ IsBurst(s) /\ workload.rps[s] = 0
  /\ EndBurst(s, "failed", FALSE)
  /\ UNCHANGED <<workload, phase, sendVars>>

\* A batch of a burst is over and the loop goes round.
StartNextBatch(s) ==
  /\ pc[s] = "sending" /\ IsBurst(s)
  /\ InState(s, {"idle"}) # {}
  /\ InState(s, {"idle"}) \cup InState(s, Settled) = RequestsOf(s)
  /\ Launch(s, NextBatch(s))
  /\ UNCHANGED <<workload, phase, pc, resultVars, attempts, code, conn, permits, clientVars>>

\* The last batch is over. The burst is COMPLETED even if nothing answered.
FinishBurst(s) ==
  /\ pc[s] = "sending" /\ IsBurst(s)
  /\ InState(s, Settled) = RequestsOf(s)
  /\ EndBurst(s, "completed", BurstVulnerable(s))
  /\ UNCHANGED <<workload, phase, sendVars>>

FinishClose(s) ==
  /\ pc[s] = "closing"
  /\ pc' = [pc EXCEPT ![s] = "done"]
  /\ EndClose
  /\ UNCHANGED <<workload, phase, resultVars, sendVars>>
--------------------------------------------------------------------------
(* _send_with_retry and _do_request.                                     *)

\* The semaphore is entered and the request sent.
BeginAttempt(p) ==
  /\ req[p] = "waiting" /\ permits > 0
  /\ permits' = permits - 1
  /\ req' = [req EXCEPT ![p] = "inflight"]
  /\ attempts' = [attempts EXCEPT ![p] = @ + 1]
  /\ UseClient(p)
  /\ UNCHANGED <<workload, phase, pc, resultVars, code>>

\* Fault variant: a timeout skips the release of the permit.
EndAttemptLeaky(p, to) ==
  /\ req[p] = "inflight"
  /\ req' = [req EXCEPT ![p] = to]
  /\ permits' = IF to = "timedout" THEN permits ELSE permits + 1
  /\ conn' = [conn EXCEPT ![p] = 0]
  /\ UNCHANGED <<workload, phase, attempts>>

\* Leaving `async with self._semaphore` with the request in state `to`.
EndAttempt(p, to) ==
  /\ req[p] = "inflight"
  /\ req' = [req EXCEPT ![p] = to]
  /\ permits' = permits + 1
  /\ conn' = [conn EXCEPT ![p] = 0]
  /\ UNCHANGED <<workload, phase, attempts>>

\* What the exception or response does to the scenario that awaits it: a
\* burst only records it, any other scenario ends.
Deliver(p, verdict, vulnerable) ==
  IF IsBurst(p[1]) THEN UNCHANGED <<pc, resultVars, clientVars>>
                   ELSE EndScenario(p[1], verdict, vulnerable)

Respond(p, c) ==
  /\ EndAttempt(p, "responded")
  /\ code' = [code EXCEPT ![p] = c]
  /\ Deliver(p, "completed", SingleVulnerable(p[1], c))

\* httpx.TimeoutException is raised at once, never retried.
TimeOut(p) ==
  /\ ~workload.healthy
  /\ EndAttempt(p, "timedout")
  /\ Deliver(p, "timeout", FALSE)
  /\ UNCHANGED code

\* A transport error: of the target's making, or because the client the
\* request runs on has been closed under it.
Breaks(p) == ~workload.healthy \/ conn[p] \notin open

\* Fault variants: max_retries counted as attempts, and one retry too many.
RetriesAreAttempts(p) == attempts[p] < MaxRetries
OneRetryMore(p) == attempts[p] <= 1 + MaxRetries

HasAttemptsLeft(p) == attempts[p] < 1 + MaxRetries

FailAndRetry(p) ==
  /\ Breaks(p) /\ HasAttemptsLeft(p)
  /\ EndAttempt(p, "backoff")
  /\ UNCHANGED <<pc, resultVars, code, clientVars>>

FailForGood(p) ==
  /\ Breaks(p) /\ ~HasAttemptsLeft(p)
  /\ EndAttempt(p, "errored")
  /\ Deliver(p, "failed", FALSE)
  /\ UNCHANGED code

\* asyncio.sleep(backoff) ends, outside the semaphore.
BackoffElapsed(p) ==
  /\ req[p] = "backoff"
  /\ req' = [req EXCEPT ![p] = "waiting"]
  /\ UNCHANGED <<workload, phase, pc, resultVars, attempts, code, conn, permits, clientVars>>
--------------------------------------------------------------------------
(* execute.                                                              *)

\* Fault variant: a timed-out scenario counts neither as completed nor as failed.
AggregateMissingTimeouts ==
  /\ phase = "running"
  /\ \A s \in Scenarios : pc[s] = "done"
  /\ counts' = [completed |-> Cardinality({s \in Scenarios : status[s] = "completed"}),
                failed    |-> Cardinality({s \in Scenarios : status[s] = "failed"})]
  /\ IF ClientUsable THEN phase' = "closing" /\ BeginClose
                     ELSE phase' = "returned" /\ UNCHANGED clientVars
  /\ UNCHANGED <<workload, pc, status, vuln, sendVars>>

\* All results are in: count them, then the outer finally closes.
Aggregate ==
  /\ phase = "running"
  /\ \A s \in Scenarios : pc[s] = "done"
  /\ LET done == {s \in Scenarios : status[s] = "completed"}
     IN  counts' = [completed |-> Cardinality(done),
                    failed |-> Cardinality(Scenarios \ done)]
  /\ IF ClientUsable THEN phase' = "closing" /\ BeginClose
                     ELSE phase' = "returned" /\ UNCHANGED clientVars
  /\ UNCHANGED <<workload, pc, status, vuln, sendVars>>

Return ==
  /\ phase = "closing"
  /\ phase' = "returned"
  /\ EndClose
  /\ UNCHANGED <<workload, pc, resultVars, sendVars>>

Terminated == phase = "returned" /\ UNCHANGED vars
--------------------------------------------------------------------------
Init ==
  /\ workload \in Workloads
  /\ phase = "running"
  /\ pc = [s \in Scenarios |-> "pending"]
  /\ status = [s \in Scenarios |-> "pending"]
  /\ vuln = [s \in Scenarios |-> FALSE]
  /\ counts = NoCounts
  /\ req = [p \in Requests |-> "idle"]
  /\ attempts = [p \in Requests |-> 0]
  /\ code = [p \in Requests |-> 0]
  /\ conn = [p \in Requests |-> 0]
  /\ permits = Concurrency
  /\ created = 0 /\ open = {} /\ current = 0

ScenarioStep(s) == \/ Start(s) \/ StartUnknown(s) \/ StartZeroRate(s)
                   \/ StartNextBatch(s) \/ FinishBurst(s) \/ FinishClose(s)

AttemptEnds(p) == \/ \E c \in Codes : Respond(p, c)
                  \/ TimeOut(p) \/ FailAndRetry(p) \/ FailForGood(p)

RequestStep(p) == BeginAttempt(p) \/ AttemptEnds(p) \/ BackoffElapsed(p)

Next == \/ \E s \in Scenarios : ScenarioStep(s)
        \/ \E p \in Requests : RequestStep(p)
        \/ Aggregate \/ Return \/ Terminated

Spec == Init /\ [][Next]_vars

\* The loop runs every ready coroutine, sleeps end, and the httpx timeout
\* ends every attempt one way or another.
Fairness == /\ \A s \in Scenarios : WF_vars(ScenarioStep(s))
            /\ \A p \in Requests : WF_vars(RequestStep(p))
            /\ WF_vars(Aggregate) /\ WF_vars(Return)

FairSpec == Spec /\ Fairness
--------------------------------------------------------------------------
(* Properties.                                                           *)

TypeOK ==
  /\ workload \in Workloads
  /\ phase \in {"running", "closing", "returned"}
  /\ pc \in [Scenarios -> {"pending", "sending", "closing", "done"}]
  /\ status \in [Scenarios -> {"pending", "completed", "failed", "timeout"}]
  /\ vuln \in [Scenarios -> BOOLEAN]
  /\ counts \in [completed : Nat, failed : Nat]
  /\ req \in [Requests -> ReqStates]
  /\ attempts \in [Requests -> 0..(1 + MaxRetries)]
  /\ code \in [Requests -> Codes \cup {0}]
  /\ conn \in [Requests -> 0..created]
  /\ permits \in 0..Concurrency
  /\ created \in Nat
  /\ open \subseteq 1..created
  /\ current \in 0..created

InFlight == {p \in Requests : req[p] = "inflight"}

\* Every path out of an attempt (answer, timeout, retry, give-up) hands its
\* permit back once, so never more than `concurrency` requests are out and
\* none of the permits is lost to a backoff or a timeout.
PermitsConserved == permits + Cardinality(InFlight) = Concurrency

\* A burst never has more than min(rps, concurrency) requests under way, over
\* all its batches and retries: its own burst_semaphore never has to block.
BurstPaced ==
  \A s \in Scenarios : IsBurst(s) =>
    Cardinality(InState(s, {"waiting", "inflight", "backoff"})) <= BatchSize(s)

Justified(s) ==
  IF IsBurst(s)
  THEN /\ status[s] = "completed" => InState(s, Settled) = RequestsOf(s)
       /\ status[s] = "failed" => workload.rps[s] = 0
       /\ status[s] # "timeout"
  ELSE /\ status[s] = "completed" => req[<<s, 1>>] = "responded"
       /\ status[s] = "timeout" => req[<<s, 1>>] = "timedout"
       /\ status[s] = "failed" =>
            \/ workload.kind[s] = "unknown"
            \/ req[<<s, 1>>] = "errored" /\ attempts[<<s, 1>>] = 1 + MaxRetries

\* A verdict says what happened to the request: COMPLETED only with an answer,
\* TIMEOUT only after a timeout, FAILED only after the last of the
\* 1 + max_retries attempts or when nothing could be sent. A burst is COMPLETED
\* when all its requests have ended, answered or not.
VerdictJustified == \A s \in Scenarios : Justified(s)

\* No scenario closes the client while another one may be using it.
Exclusive == workload.serial \/ \A s \in Scenarios : IsBurst(s)

\* In such a call every request in flight runs on the engine's one open
\* client, which no scenario's close() has taken from under it, and the
\* engine never loses sight of a client that is still open.
OneOpenClient ==
  Exclusive => /\ open \subseteq {current}
               /\ \A p \in InFlight : conn[p] \in open

\* The scenarios that are over and closed the client as they ended, or found
\* none to close.
Closed == {s \in Scenarios : ~IsBurst(s) /\ pc[s] = "done"}

\* Clients that are open and that close() will not find any more.
Lost == open \ {current}

\* In every call, also in a parallel one, a client is lost only to the end of a
\* close() that forgets the newer client another request has opened meanwhile:
\* at most one for each scenario that closes. The rest are closed: where none
\* is lost, as OneOpenClient says, execute() leaves nothing open behind.
LossesBounded ==
  /\ IsFiniteSet(Lost) /\ Cardinality(Lost) <= Cardinality(Closed)
  /\ phase = "returned" => current \notin open

\* A scenario that can be sent at all.
Sendable(s) == workload.kind[s] # "unknown" /\ (IsBurst(s) => workload.rps[s] # 0)

\* In such a call against a target that answers everything the engine adds
\* no failure of its own: no request is ever broken off, not even to be
\* retried, and every scenario is COMPLETED.
HealthyCompletes ==
  Exclusive /\ workload.healthy =>
    /\ \A p \in Requests : req[p] \notin {"backoff", "timedout", "errored"}
    /\ \A s \in Scenarios : Sendable(s) => status[s] \in {"pending", "completed"}

\* What tests/test_execution_engine.py:271-275 expects of the parallel mode
\* too: against a target that answers, no scenario fails.
ParallelHealthyCompletes ==
  workload.healthy =>
    \A s \in Scenarios : Sendable(s) => status[s] \in {"pending", "completed"}

\* execute() keeps its promise to the caller.
Contract == INSTANCE ExecutionContract
              WITH verdict <- status,
                   report <- [returned  |-> phase = "returned",
                              completed |-> IF phase = "returned" THEN counts.completed ELSE 0,
                              failed    |-> IF phase = "returned" THEN counts.failed ELSE 0]
ImplementsContract == Contract!Spec

\* execute() returns, whatever the target and its own retries do.
Termination == <>(phase = "returned")
==========================================================================
