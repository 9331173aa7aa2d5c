---------------------------- MODULE LLMRouter ----------------------------
(***************************************************************************)
(* services/llm_router.py: route() sends a prompt to the rule engine, the  *)
(* local model or a cloud model, behind a cache and a circuit breaker, and *)
(* falls back to the rule engine. Calls are tasks of one event loop, a     *)
(* cloud client blocks a thread of the loop's executor, so a call is a     *)
(* chain of steps between its awaits.                                      *)
(***************************************************************************)
EXTENDS Naturals, FiniteSets

CONSTANTS
  Calls,            \* slots for calls of route() in progress
  Prompts,          \* prompts: the keywords and the type names they contain
  Keys,             \* the sets of cloud keys a deployment may have
  Threads,          \* threads of the executor
  FailureThreshold, ResetTimeout, CacheTTL,  \* settings.llm, times in ticks
  NoAnswer, NoAsk

TypeWords == {"change field type", "change type", "field type", "type mutation",
              "type change", "mutate type"}
SimpleWords == TypeWords \cup
  {"boundary value", "boundary", "null", "empty string", "replace with null",
   "replace with empty"}
ComplexWords ==
  {"multi-step", "chained", "chain", "scenario", "adversarial", "business logic", "exploit",
   "privilege escalation", "authentication bypass", "design", "analyze", "reason", "complex"}

\* The keys of _RULE_MUTATIONS and of _BOUNDARY_VALUES, in their order.
MutatedTypes == <<"integer", "int", "number", "float", "double", "boolean", "string", "str">>
BoundedTypes == <<"integer", "number", "string", "boolean">>
TypeNames    == {MutatedTypes[i] : i \in DOMAIN MutatedTypes}

Complexities == {"simple", "medium", "complex"}
Asks    == [prompt : Prompts, complexity : Complexities]
Answers == [by : {"rules", "ollama", "openai", "anthropic"}, mutation : {"type_change",
            "boundary_values", "null", "empty_string", "generic_simple", "text"},
            type : TypeNames \cup {"any"}]

ASSUME RouterConstants ==
  /\ IsFiniteSet(Calls)
  /\ Prompts \subseteq [words : SUBSET (SimpleWords \cup ComplexWords), types : SUBSET TypeNames]
  /\ Keys \subseteq SUBSET {"openai", "anthropic"}
  /\ Threads \in Nat \ {0}
  /\ FailureThreshold \in Nat \ {0}
  /\ ResetTimeout \in Nat
  /\ CacheTTL \in Nat
  /\ NoAnswer \notin Answers
  /\ NoAsk \notin Asks

VARIABLES
  clients,          \* the cloud clients there is a key for
  stage,            \* where each call stands
  ask, answer,      \* what it asks, and the answer of a finished call
  threads,          \* calls whose SDK request holds a thread
  http,             \* _http_client
  breaker, failures, sinceFailure,   \* _state, _failure_count, time since the last failure
  cache, cacheAge,  \* the disk cache, and the age of each entry
  computedAge       \* history: time since a route last computed an answer to each ask

callVars    == <<stage, ask, answer, threads>>
breakerVars == <<breaker, failures, sinceFailure>>
cacheVars   == <<cache, cacheAge, computedAge>>
routerVars  == <<clients, http, callVars, breakerVars, cacheVars>>
--------------------------------------------------------------------------
(* Pure helpers.                                                         *)

Classify(p) ==
  CASE p.words \cap ComplexWords # {} -> "complex"
    [] p.words \cap ComplexWords = {} /\ p.words \cap SimpleWords # {} -> "simple"
    [] OTHER -> "medium"

\* The first of the type names, in the dict's order, that the prompt contains.
FirstNamed(order, p, default) ==
  LET named == {i \in DOMAIN order : order[i] \in p.types}
  IN  IF named = {} THEN default ELSE order[CHOOSE i \in named : \A j \in named : i <= j]

RuleAnswer(mutation, type) == [by |-> "rules", mutation |-> mutation, type |-> type]

TypeMutation(p)   == RuleAnswer("type_change", FirstNamed(MutatedTypes, p, "string"))
BoundaryValues(p) == RuleAnswer("boundary_values", FirstNamed(BoundedTypes, p, "integer"))

\* The rules of _call_rule_engine: the first that applies answers.
RuleEngine(p) ==
  IF p.words \cap TypeWords # {} THEN TypeMutation(p)
  ELSE IF "boundary" \in p.words THEN BoundaryValues(p)
  ELSE IF "null" \in p.words THEN RuleAnswer("null", "any")
  ELSE IF "empty string" \in p.words THEN RuleAnswer("empty_string", "any")
  ELSE RuleAnswer("generic_simple", "any")

ModelText(m) == [by |-> m, mutation |-> "text", type |-> "any"]

\* The openai client has precedence.
CloudModel == IF "openai" \in clients THEN "openai" ELSE "anthropic"

AMoment(age, limit) == IF age > limit THEN age ELSE age + 1
--------------------------------------------------------------------------
(* The circuit breaker. Reading the state is what half-opens it.         *)

BreakerState ==
  IF breaker = "open" /\ sinceFailure > ResetTimeout THEN "half-open" ELSE breaker

RecordSuccess == breaker' = "closed" /\ failures' = 0 /\ UNCHANGED sinceFailure

\* Fault variants: a failure is counted by the client and by the router, or
\* a failure in half-open leaves the breaker half open.
RecordFailureTwice ==
  /\ failures' = IF failures < FailureThreshold THEN failures + 2 ELSE failures
  /\ breaker' = IF failures' >= FailureThreshold THEN "open" ELSE breaker
  /\ sinceFailure' = 0
RecordFailureLenient ==
  /\ failures' = IF failures < FailureThreshold THEN failures + 1 ELSE failures
  /\ breaker' = IF failures' >= FailureThreshold /\ breaker = "closed" THEN "open" ELSE breaker
  /\ sinceFailure' = 0

\* The count is only compared with the threshold: it is kept up to there.
RecordFailure ==
  /\ failures' = IF failures < FailureThreshold THEN failures + 1 ELSE failures
  /\ breaker' = IF failures' >= FailureThreshold THEN "open" ELSE breaker
  /\ sinceFailure' = 0
--------------------------------------------------------------------------
(* The cache.                                                            *)

\* Fault variant: the key is the prompt alone.
CacheKeyLoose(a) == [a EXCEPT !.complexity = "medium"]
CacheKey(a) == a

Cached(a) == cache[CacheKey(a)]

\* The call c ends with a computed answer, which it saves.
Finish(c, result) ==
  /\ stage' = [stage EXCEPT ![c] = "done"]
  /\ answer' = [answer EXCEPT ![c] = result]
  /\ cache' = [cache EXCEPT ![CacheKey(ask[c])] = result]
  /\ cacheAge' = [cacheAge EXCEPT ![CacheKey(ask[c])] = 0]
  /\ computedAge' = [computedAge EXCEPT ![ask[c]] = 0]

\* The except clause of route(): whatever failed, the rule engine answers.
FallBack(c) == Finish(c, RuleEngine(ask[c].prompt))
--------------------------------------------------------------------------
(* Actions.                                                              *)

\* batch_route() with the asks of the slots in S, and route() when there is
\* one; a route() that is not given a complexity classifies its prompt.
Call(S, asked) ==
  /\ \A c \in S : stage[c] = "idle" /\ c \notin threads
  /\ stage' = [c \in Calls |-> IF c \in S THEN "called" ELSE stage[c]]
  /\ ask' = [c \in Calls |-> IF c \in S THEN asked[c] ELSE ask[c]]
  /\ UNCHANGED <<clients, http, answer, threads, breakerVars, cacheVars>>

Route(c, p) == Call({c}, [d \in {c} |-> [prompt |-> p, complexity |-> Classify(p)]])

\* Fault variant: a hit is saved again, with a new lease of life.
CacheHitRenewing(c) ==
  /\ stage[c] = "called" /\ Cached(ask[c]) # NoAnswer
  /\ answer' = [answer EXCEPT ![c] = Cached(ask[c])]
  /\ cacheAge' = [cacheAge EXCEPT ![CacheKey(ask[c])] = 0]
  /\ stage' = [stage EXCEPT ![c] = "done"]
  /\ UNCHANGED <<clients, http, ask, threads, breakerVars, cache, computedAge>>

CacheHit(c) ==
  /\ stage[c] = "called" /\ Cached(ask[c]) # NoAnswer
  /\ stage' = [stage EXCEPT ![c] = "done"]
  /\ answer' = [answer EXCEPT ![c] = Cached(ask[c])]
  /\ UNCHANGED <<clients, http, ask, threads, breakerVars, cacheVars>>

Missed(c, complexity) ==
  stage[c] = "called" /\ Cached(ask[c]) = NoAnswer /\ ask[c].complexity = complexity

AskRules(c) ==
  /\ Missed(c, "simple")
  /\ Finish(c, RuleEngine(ask[c].prompt))
  /\ UNCHANGED <<clients, http, ask, threads, breakerVars>>

\* _get_http_client() makes a client when there is none, or a closed one.
AskLocal(c) ==
  /\ Missed(c, "medium")
  /\ http' = "open"
  /\ stage' = [stage EXCEPT ![c] = "local"]
  /\ UNCHANGED <<clients, ask, answer, threads, breakerVars, cacheVars>>

\* _call_cloud_model() with the breaker open: the rule engine, no exception.
Refuse(c) ==
  /\ Missed(c, "complex") /\ BreakerState = "open"
  /\ FallBack(c)
  /\ UNCHANGED <<clients, http, ask, threads, breakerVars>>

\* ... with no client: a RuntimeError, which the breaker counts.
NoClient(c) ==
  /\ Missed(c, "complex") /\ BreakerState # "open" /\ clients = {}
  /\ RecordFailure
  /\ FallBack(c)
  /\ UNCHANGED <<clients, http, ask, threads>>

\* Fault variant: available whatever the breaker says.
AskCloudUnguarded(c) ==
  /\ Missed(c, "complex") /\ clients # {}
  /\ breaker' = BreakerState
  /\ stage' = [stage EXCEPT ![c] = "queued"]
  /\ UNCHANGED <<clients, http, ask, answer, threads, failures, sinceFailure, cacheVars>>

\* ... with a client: run_in_executor queues the request.
AskCloud(c) ==
  /\ Missed(c, "complex") /\ BreakerState # "open" /\ clients # {}
  /\ breaker' = BreakerState
  /\ stage' = [stage EXCEPT ![c] = "queued"]
  /\ UNCHANGED <<clients, http, ask, answer, threads, failures, sinceFailure, cacheVars>>

StartThread(c) ==
  /\ stage[c] = "queued" /\ Cardinality(threads) < Threads
  /\ threads' = threads \cup {c}
  /\ stage' = [stage EXCEPT ![c] = "cloud"]
  /\ UNCHANGED <<clients, http, ask, answer, breakerVars, cacheVars>>

LocalAnswers(c) ==
  /\ stage[c] = "local"
  /\ Finish(c, ModelText("ollama"))
  /\ UNCHANGED <<clients, http, ask, threads, breakerVars>>

\* An HTTP error, no connection, a timeout, or the client closed under it.
LocalFails(c) ==
  /\ stage[c] = "local"
  /\ FallBack(c)
  /\ UNCHANGED <<clients, http, ask, threads, breakerVars>>

CloudAnswers(c) ==
  /\ stage[c] = "cloud"
  /\ RecordSuccess
  /\ Finish(c, ModelText(CloudModel))
  /\ threads' = threads \ {c}
  /\ UNCHANGED <<clients, http, ask>>

CloudFails(c) ==
  /\ stage[c] = "cloud"
  /\ RecordFailure
  /\ FallBack(c)
  /\ threads' = threads \ {c}
  /\ UNCHANGED <<clients, http, ask>>

\* Fault variant: wait_for waits only for a request that has its thread.
CloudTimesOutLate(c) ==
  /\ stage[c] = "cloud"
  /\ RecordFailure
  /\ FallBack(c)
  /\ UNCHANGED <<clients, http, ask, threads>>

\* wait_for(cloud_timeout) gives up on the request, its thread does not; a
\* request that is still queued is cancelled.
CloudTimesOut(c) ==
  /\ stage[c] \in {"queued", "cloud"}
  /\ RecordFailure
  /\ FallBack(c)
  /\ UNCHANGED <<clients, http, ask, threads>>

\* The SDK request nobody waits for any more ends.
ThreadEnds(c) ==
  /\ c \in threads /\ stage[c] # "cloud"
  /\ threads' = threads \ {c}
  /\ UNCHANGED <<clients, http, stage, ask, answer, breakerVars, cacheVars>>

Return(c) ==
  /\ stage[c] = "done"
  /\ stage' = [stage EXCEPT ![c] = "idle"]
  /\ ask' = [ask EXCEPT ![c] = NoAsk]
  /\ answer' = [answer EXCEPT ![c] = NoAnswer]
  /\ UNCHANGED <<clients, http, threads, breakerVars, cacheVars>>

\* close(): the disk cache reopens itself when it is next used.
Close ==
  /\ http = "open"
  /\ http' = "closed"
  /\ UNCHANGED <<clients, callVars, breakerVars, cacheVars>>

\* Time passes; the disk cache returns no entry past its expiry.
Tick ==
  /\ sinceFailure' = AMoment(sinceFailure, ResetTimeout)
  /\ cacheAge' = [k \in Asks |-> AMoment(cacheAge[k], CacheTTL)]
  /\ cache' = [k \in Asks |-> IF cacheAge'[k] > CacheTTL THEN NoAnswer ELSE cache[k]]
  /\ computedAge' = [k \in Asks |-> AMoment(computedAge[k], CacheTTL)]
  /\ UNCHANGED <<clients, http, callVars, breaker, failures>>
--------------------------------------------------------------------------
RouterInit ==
  /\ clients \in Keys
  /\ stage = [c \in Calls |-> "idle"]
  /\ ask = [c \in Calls |-> NoAsk]
  /\ answer = [c \in Calls |-> NoAnswer]
  /\ threads = {}
  /\ http = "none"
  /\ breaker = "closed" /\ failures = 0 /\ sinceFailure = ResetTimeout + 1
  /\ cache = [k \in Asks |-> NoAnswer]
  /\ cacheAge = [k \in Asks |-> CacheTTL + 1]
  /\ computedAge = [k \in Asks |-> CacheTTL + 1]

\* What a call in progress does next.
Step(c) == \/ CacheHit(c)
           \/ AskRules(c)
           \/ AskLocal(c)
           \/ Refuse(c)
           \/ NoClient(c)
           \/ AskCloud(c)
           \/ LocalAnswers(c)
           \/ LocalFails(c)
           \/ CloudAnswers(c)
           \/ CloudFails(c)
           \/ CloudTimesOut(c)

RouterNext ==
  \/ \E S \in SUBSET Calls : S # {} /\ \E asked \in [S -> Asks] : Call(S, asked)
  \/ \E c \in Calls, p \in Prompts : Route(c, p)
  \/ \E c \in Calls : Step(c)
  \/ \E c \in Calls : StartThread(c)
  \/ \E c \in Calls : ThreadEnds(c)
  \/ \E c \in Calls : Return(c)
  \/ Close
  \/ Tick

\* The loop runs its tasks, httpx and wait_for have timeouts: a call goes on.
\* An SDK request may keep its thread for ever.
RouterSpec == RouterInit /\ [][RouterNext]_routerVars
                         /\ \A c \in Calls : WF_routerVars(Step(c))
--------------------------------------------------------------------------
(* Properties.                                                           *)

RouterTypeOK ==
  /\ clients \subseteq {"openai", "anthropic"}
  /\ stage \in [Calls -> {"idle", "called", "local", "queued", "cloud", "done"}]
  /\ ask \in [Calls -> Asks \cup {NoAsk}]
  /\ \A c \in Calls : stage[c] # "idle" => ask[c] \in Asks
  /\ answer \in [Calls -> Answers \cup {NoAnswer}]
  /\ threads \subseteq Calls
  /\ http \in {"none", "open", "closed"}
  /\ breaker \in {"closed", "open", "half-open"}
  /\ failures \in 0..FailureThreshold
  /\ sinceFailure \in 0..(ResetTimeout + 1)
  /\ cache \in [Asks -> Answers \cup {NoAnswer}]
  /\ cacheAge \in [Asks -> 0..(CacheTTL + 1)]
  /\ computedAge \in [Asks -> 0..(CacheTTL + 1)]

\* However late successes and failures of calls in flight come in, no call
\* joins them once FailureThreshold failures came in without a success,
\* until a failure is more than ResetTimeout ago (CircuitBreaker).
OpenRefuses ==
  [][\A c \in Calls : stage[c] = "called" /\ stage'[c] = "queued" =>
       failures < FailureThreshold \/ sinceFailure > ResetTimeout]_routerVars

\* A caller gets the rule engine's answer to its prompt or one of the model
\* its complexity stands for, and one from the cache was computed for the
\* same ask at most cache_ttl ago: a degraded answer does not outlive it.
AnswersFit ==
  [][\A c \in Calls : stage[c] # "done" /\ stage'[c] = "done" =>
       /\ \/ answer'[c] = RuleEngine(ask[c].prompt)
          \/ ask[c].complexity = "medium" /\ answer'[c].by = "ollama"
          \/ ask[c].complexity = "complex" /\ answer'[c].by \in clients
       /\ computedAge'[ask[c]] <= CacheTTL]_routerVars

\* Every call of route() is answered, also when all threads of the executor
\* are held by requests that were given up.
EveryRouteAnswers == \A c \in Calls : stage[c] = "called" ~> stage[c] = "done"
==========================================================================
