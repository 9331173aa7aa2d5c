-------------------------- MODULE LLMRouterProofs --------------------------
(***************************************************************************)
(* Theorems about LLMRouter, for every set of prompts and keys, any number *)
(* of calls and threads, and every threshold and time.                     *)
(***************************************************************************)
EXTENDS LLMRouter, CommonLemmas

\* The breaker is closed exactly while failures are below the threshold, and
\* half open only when the last of them is long enough ago.
BreakerCounts ==
  /\ breaker = "closed" <=> failures < FailureThreshold
  /\ breaker = "half-open" => sinceFailure > ResetTimeout

\* What may be answered to an ask.
Fits(a, result) ==
  \/ result = RuleEngine(a.prompt)
  \/ a.complexity = "medium" /\ result.by = "ollama"
  \/ a.complexity = "complex" /\ result.by \in clients

\* What is in the cache is young enough and fits; its age is the time since it
\* was computed.
CacheSound ==
  /\ computedAge = cacheAge
  /\ \A k \in Asks : cache[k] # NoAnswer => cacheAge[k] <= CacheTTL /\ Fits(k, cache[k])

\* A call waits for the model its complexity stands for.
StagesFit ==
  \A c \in Calls :
    /\ stage[c] = "local" => ask[c].complexity = "medium"
    /\ stage[c] \in {"queued", "cloud"} => ask[c].complexity = "complex" /\ clients # {}

\* The inductive invariant.
RouterInv == RouterTypeOK /\ BreakerCounts /\ CacheSound /\ StagesFit
--------------------------------------------------------------------------
(* Helpers.                                                              *)

\* The first type name of a prompt is a type name.
LEMMA FirstNamedType ==
  ASSUME NEW p, NEW order, order \in {MutatedTypes, BoundedTypes}, NEW default \in TypeNames
  PROVE  FirstNamed(order, p, default) \in TypeNames
<1>. DEFINE named == {i \in DOMAIN order : order[i] \in p.types}
<1>1. /\ named \in SUBSET (1..8)
      /\ \A i \in named : order[i] \in TypeNames
  <2>1. CASE order = MutatedTypes
    BY <2>1 DEF MutatedTypes, TypeNames
  <2>2. CASE order = BoundedTypes
    <3>1. DOMAIN order = 1..4 /\ \A i \in 1..4 : order[i] \in {"integer", "number", "string", "boolean"}
      BY <2>2 DEF BoundedTypes
    <3>2. {"integer", "number", "string", "boolean"} \subseteq TypeNames
      <4>1. /\ DOMAIN MutatedTypes = 1..8
            /\ MutatedTypes[1] = "integer" /\ MutatedTypes[3] = "number"
            /\ MutatedTypes[6] = "boolean" /\ MutatedTypes[7] = "string"
        BY DEF MutatedTypes
      <4>. QED  BY <4>1 DEF TypeNames
    <3>. QED  BY <3>1, <3>2
  <2>. QED  BY <2>1, <2>2
<1>2. CASE named = {}
  BY <1>2 DEF FirstNamed
<1>3. CASE named # {}
  <2>1. \E i \in named : \A j \in named : i <= j
    BY <1>1, <1>3, FirstExists
  <2>2. (CHOOSE i \in named : \A j \in named : i <= j) \in named
    BY <2>1
  <2>3. FirstNamed(order, p, default) = order[CHOOSE i \in named : \A j \in named : i <= j]
    BY <1>3 DEF FirstNamed
  <2>. QED  BY <1>1, <2>2, <2>3
<1>. QED  BY <1>2, <1>3

\* The rule engine answers every prompt.
LEMMA RuleEngineAnswers ==
  ASSUME NEW p
  PROVE  RuleEngine(p) \in Answers
<1>1. "string" \in TypeNames /\ "integer" \in TypeNames
  <2>1. DOMAIN MutatedTypes = 1..8 /\ MutatedTypes[1] = "integer" /\ MutatedTypes[7] = "string"
    BY DEF MutatedTypes
  <2>. QED  BY <2>1 DEF TypeNames
<1>2. TypeMutation(p) \in Answers
  <2>1. FirstNamed(MutatedTypes, p, "string") \in TypeNames
    BY <1>1, FirstNamedType
  <2>. QED  BY <2>1 DEF TypeMutation, RuleAnswer, Answers
<1>3. BoundaryValues(p) \in Answers
  <2>1. FirstNamed(BoundedTypes, p, "integer") \in TypeNames
    BY <1>1, FirstNamedType
  <2>. QED  BY <2>1 DEF BoundaryValues, RuleAnswer, Answers
<1>4. \A m \in {"null", "empty_string", "generic_simple"} : RuleAnswer(m, "any") \in Answers
  BY DEF RuleAnswer, Answers
<1>. QED  BY <1>2, <1>3, <1>4 DEF RuleEngine

\* The text of a model is an answer.
LEMMA ModelTextAnswers ==
  ASSUME NEW m \in {"ollama", "openai", "anthropic"}
  PROVE  ModelText(m) \in Answers /\ ModelText(m).by = m
BY DEF ModelText, Answers

\* The cloud model is one there is a key for.
LEMMA CloudModelClient ==
  ASSUME clients \subseteq {"openai", "anthropic"}, clients # {}
  PROVE  CloudModel \in clients
BY DEF CloudModel

\* A clock that stops past a limit stays within its bound, and past the limit.
LEMMA AMomentBounds ==
  ASSUME NEW limit \in Nat, NEW age \in 0..(limit + 1)
  PROVE  /\ AMoment(age, limit) \in 0..(limit + 1)
         /\ age > limit => AMoment(age, limit) > limit
BY DEF AMoment
--------------------------------------------------------------------------
(* The steps several actions share.                                      *)

\* A call that ends leaves a sound cache and a fitting stage.
LEMMA FinishSound ==
  ASSUME RouterInv, NEW c \in Calls, stage[c] # "idle",
         NEW result \in Answers, Fits(ask[c], result), Finish(c, result),
         UNCHANGED <<clients, ask>>
  PROVE  /\ stage' \in [Calls -> {"idle", "called", "local", "queued", "cloud", "done"}]
         /\ \A d \in Calls : stage'[d] # "idle" => ask'[d] \in Asks
         /\ answer' \in [Calls -> Answers \cup {NoAnswer}]
         /\ cache' \in [Asks -> Answers \cup {NoAnswer}]
         /\ cacheAge' \in [Asks -> 0..(CacheTTL + 1)]
         /\ computedAge' \in [Asks -> 0..(CacheTTL + 1)]
         /\ CacheSound' /\ StagesFit'
         /\ answer'[c] = result /\ computedAge'[ask[c]] <= CacheTTL
         /\ \A d \in Calls : d # c => stage'[d] = stage[d]
         /\ stage'[c] = "done"
<1>. USE DEF RouterInv, RouterTypeOK, Finish
<1>1. ask[c] \in Asks /\ CacheKey(ask[c]) = ask[c]
  BY DEF CacheKey
<1>2. /\ stage' \in [Calls -> {"idle", "called", "local", "queued", "cloud", "done"}]
      /\ \A d \in Calls : d # c => stage'[d] = stage[d]
      /\ stage'[c] = "done"
  OBVIOUS
<1>3. answer' \in [Calls -> Answers \cup {NoAnswer}] /\ answer'[c] = result
  OBVIOUS
<1>4. /\ cache' \in [Asks -> Answers \cup {NoAnswer}]
      /\ cache'[ask[c]] = result
      /\ \A k \in Asks \ {ask[c]} : cache'[k] = cache[k]
  BY <1>1
<1>5. /\ cacheAge' \in [Asks -> 0..(CacheTTL + 1)]
      /\ cacheAge'[ask[c]] = 0
      /\ \A k \in Asks \ {ask[c]} : cacheAge'[k] = cacheAge[k]
  BY <1>1, RouterConstants
<1>6. computedAge' = cacheAge'
  BY <1>1 DEF CacheSound
<1>7. CacheSound'
  <2>1. \A k, r : Fits(k, r)' <=> (Fits(k, r))
    BY DEF Fits
  <2>. QED  BY <1>1, <1>4, <1>5, <1>6, RouterConstants DEF CacheSound, Fits
<1>8. StagesFit'
  BY <1>2 DEF StagesFit
<1>. QED  BY <1>1, <1>2, <1>3, <1>4, <1>5, <1>6, <1>7, <1>8, RouterConstants

\* A failure is counted up to the threshold, where it opens the breaker.
LEMMA FailureCounted ==
  ASSUME RouterInv, RecordFailure
  PROVE  /\ breaker' \in {"closed", "open", "half-open"}
         /\ failures' \in 0..FailureThreshold
         /\ sinceFailure' \in 0..(ResetTimeout + 1)
         /\ BreakerCounts'
BY RouterConstants DEF RouterInv, RouterTypeOK, BreakerCounts, RecordFailure

\* What has not changed keeps counting.
LEMMA BreakerKept ==
  ASSUME RouterInv, UNCHANGED breakerVars
  PROVE  /\ breaker' \in {"closed", "open", "half-open"}
         /\ failures' \in 0..FailureThreshold
         /\ sinceFailure' \in 0..(ResetTimeout + 1)
         /\ BreakerCounts'
BY DEF RouterInv, RouterTypeOK, BreakerCounts, breakerVars

LEMMA CacheKept ==
  ASSUME RouterInv, UNCHANGED <<clients, cacheVars>>
  PROVE  /\ cache' \in [Asks -> Answers \cup {NoAnswer}]
         /\ cacheAge' \in [Asks -> 0..(CacheTTL + 1)]
         /\ computedAge' \in [Asks -> 0..(CacheTTL + 1)]
         /\ CacheSound'
BY DEF RouterInv, RouterTypeOK, CacheSound, Fits, cacheVars
--------------------------------------------------------------------------
LEMMA RouterInitInv == RouterInit => RouterInv
<1>. SUFFICES ASSUME RouterInit PROVE RouterInv
  OBVIOUS
<1>1. RouterTypeOK
  <2>1. clients \subseteq {"openai", "anthropic"}
    BY RouterConstants DEF RouterInit
  <2>. QED  BY <2>1, RouterConstants DEF RouterInit, RouterTypeOK
<1>2. BreakerCounts
  BY RouterConstants DEF RouterInit, BreakerCounts
<1>3. CacheSound /\ StagesFit
  BY DEF RouterInit, CacheSound, StagesFit
<1>. QED  BY <1>1, <1>2, <1>3 DEF RouterInv

\* Every step of the router keeps the invariant.
LEMMA RouterStepInv == RouterInv /\ [RouterNext]_routerVars => RouterInv'
<1>. SUFFICES ASSUME RouterInv, [RouterNext]_routerVars PROVE RouterInv'
  OBVIOUS
<1>. USE DEF RouterInv
<1>a. /\ clients \subseteq {"openai", "anthropic"}
      /\ stage \in [Calls -> {"idle", "called", "local", "queued", "cloud", "done"}]
      /\ ask \in [Calls -> Asks \cup {NoAsk}]
      /\ \A c \in Calls : stage[c] # "idle" => ask[c] \in Asks
      /\ answer \in [Calls -> Answers \cup {NoAnswer}]
      /\ threads \subseteq Calls
      /\ http \in {"none", "open", "closed"}
  BY DEF RouterTypeOK
<1>b. ASSUME /\ clients' = clients
             /\ ask' = ask /\ threads' \subseteq Calls /\ http' \in {"none", "open", "closed"},
             NEW c \in Calls, stage[c] # "idle",
             NEW result \in Answers, Fits(ask[c], result), Finish(c, result),
             RecordFailure \/ UNCHANGED breakerVars \/ RecordSuccess
      PROVE  RouterInv'
  <2>1. /\ breaker' \in {"closed", "open", "half-open"}
        /\ failures' \in 0..FailureThreshold
        /\ sinceFailure' \in 0..(ResetTimeout + 1)
        /\ BreakerCounts'
    <3>1. CASE RecordSuccess
      BY <3>1, RouterConstants DEF RecordSuccess, RouterTypeOK, BreakerCounts
    <3>. QED  BY <1>b, <3>1, FailureCounted, BreakerKept
  <2>2. /\ stage' \in [Calls -> {"idle", "called", "local", "queued", "cloud", "done"}]
        /\ \A d \in Calls : stage'[d] # "idle" => ask'[d] \in Asks
        /\ answer' \in [Calls -> Answers \cup {NoAnswer}]
        /\ cache' \in [Asks -> Answers \cup {NoAnswer}]
        /\ cacheAge' \in [Asks -> 0..(CacheTTL + 1)]
        /\ computedAge' \in [Asks -> 0..(CacheTTL + 1)]
        /\ CacheSound' /\ StagesFit'
    BY <1>b, FinishSound
  <2>. QED  BY <1>a, <1>b, <2>1, <2>2 DEF RouterTypeOK
<1>c. ASSUME UNCHANGED <<clients, breakerVars, cacheVars>>,
             stage' \in [Calls -> {"idle", "called", "local", "queued", "cloud", "done"}],
             ask' \in [Calls -> Asks \cup {NoAsk}],
             \A c \in Calls : stage'[c] # "idle" => ask'[c] \in Asks,
             answer' \in [Calls -> Answers \cup {NoAnswer}],
             threads' \subseteq Calls, http' \in {"none", "open", "closed"}, StagesFit'
      PROVE  RouterInv'
  <2>1. /\ breaker' \in {"closed", "open", "half-open"}
        /\ failures' \in 0..FailureThreshold
        /\ sinceFailure' \in 0..(ResetTimeout + 1)
        /\ BreakerCounts'
    BY <1>c, BreakerKept
  <2>2. /\ cache' \in [Asks -> Answers \cup {NoAnswer}]
        /\ cacheAge' \in [Asks -> 0..(CacheTTL + 1)]
        /\ computedAge' \in [Asks -> 0..(CacheTTL + 1)]
        /\ CacheSound'
    BY <1>c, CacheKept
  <2>. QED  BY <1>a, <1>c, <2>1, <2>2 DEF RouterTypeOK
<1>d. ASSUME NEW S \in SUBSET Calls, NEW asked, \A c \in S : asked[c] \in Asks, Call(S, asked)
      PROVE  RouterInv'
  <2>1. stage' \in [Calls -> {"idle", "called", "local", "queued", "cloud", "done"}]
    BY <1>a, <1>d DEF Call
  <2>2. ask' \in [Calls -> Asks \cup {NoAsk}]
    BY <1>a, <1>d DEF Call
  <2>3. \A c \in Calls : stage'[c] # "idle" => ask'[c] \in Asks
    BY <1>a, <1>d DEF Call
  <2>4. StagesFit'
    BY <1>a, <1>d DEF Call, StagesFit
  <2>. QED  BY <1>a, <1>c, <1>d, <2>1, <2>2, <2>3, <2>4 DEF Call
<1>1. ASSUME NEW S \in SUBSET Calls, NEW asked \in [S -> Asks], Call(S, asked)
      PROVE  RouterInv'
  BY <1>1, <1>d
<1>2. ASSUME NEW c \in Calls, NEW p \in Prompts, Route(c, p)
      PROVE  RouterInv'
  <2>1. [prompt |-> p, complexity |-> Classify(p)] \in Asks
    <3>1. Classify(p) \in Complexities
      BY DEF Classify, Complexities
    <3>. QED  BY <3>1 DEF Asks
  <2>. QED  BY <1>2, <1>d, <2>1 DEF Route
<1>3. ASSUME NEW c \in Calls, CacheHit(c)
      PROVE  RouterInv'
  <2>1. ask[c] \in Asks /\ Cached(ask[c]) \in Answers \cup {NoAnswer}
    BY <1>3, <1>a DEF CacheHit, Cached, CacheKey, RouterTypeOK
  <2>2. StagesFit'
    BY <1>a, <1>3 DEF CacheHit, StagesFit
  <2>. QED  BY <1>a, <1>c, <1>3, <2>1, <2>2 DEF CacheHit
<1>4. ASSUME NEW c \in Calls, AskRules(c)
      PROVE  RouterInv'
  <2>1. RuleEngine(ask[c].prompt) \in Answers /\ Fits(ask[c], RuleEngine(ask[c].prompt))
    BY RuleEngineAnswers DEF Fits
  <2>. QED  BY <1>a, <1>b, <1>4, <2>1 DEF AskRules, Missed
<1>5. ASSUME NEW c \in Calls, AskLocal(c)
      PROVE  RouterInv'
  <2>1. StagesFit'
    BY <1>a, <1>5 DEF AskLocal, Missed, StagesFit
  <2>. QED  BY <1>a, <1>c, <1>5, <2>1 DEF AskLocal, Missed
<1>6. ASSUME NEW c \in Calls, FallBack(c), stage[c] # "idle",
             clients' = clients, ask' = ask, http' = http, threads' \subseteq Calls,
             RecordFailure \/ UNCHANGED breakerVars
      PROVE  RouterInv'
  <2>1. RuleEngine(ask[c].prompt) \in Answers /\ Fits(ask[c], RuleEngine(ask[c].prompt))
    BY RuleEngineAnswers DEF Fits
  <2>. QED  BY <1>a, <1>b, <1>6, <2>1 DEF FallBack
<1>7. ASSUME NEW c \in Calls, Refuse(c) \/ NoClient(c)
      PROVE  RouterInv'
  BY <1>a, <1>6, <1>7 DEF Refuse, NoClient, Missed
<1>8. ASSUME NEW c \in Calls, AskCloud(c)
      PROVE  RouterInv'
  <2>1. StagesFit'
    BY <1>a, <1>8 DEF AskCloud, Missed, StagesFit
  <2>2. breaker' \in {"closed", "open", "half-open"} /\ BreakerCounts'
    BY <1>8 DEF AskCloud, BreakerState, BreakerCounts, RouterTypeOK
  <2>3. /\ cache' \in [Asks -> Answers \cup {NoAnswer}]
        /\ cacheAge' \in [Asks -> 0..(CacheTTL + 1)]
        /\ computedAge' \in [Asks -> 0..(CacheTTL + 1)]
        /\ CacheSound'
    BY <1>8, CacheKept DEF AskCloud
  <2>. QED  BY <1>a, <1>8, <2>1, <2>2, <2>3 DEF AskCloud, Missed, RouterTypeOK
<1>9. ASSUME NEW c \in Calls, StartThread(c)
      PROVE  RouterInv'
  <2>1. StagesFit'
    BY <1>a, <1>9 DEF StartThread, StagesFit
  <2>. QED  BY <1>a, <1>c, <1>9, <2>1 DEF StartThread
<1>10. ASSUME NEW c \in Calls, LocalAnswers(c)
       PROVE  RouterInv'
  <2>1. ModelText("ollama") \in Answers /\ Fits(ask[c], ModelText("ollama"))
    BY <1>10, ModelTextAnswers DEF Fits, LocalAnswers, StagesFit
  <2>. QED  BY <1>a, <1>b, <1>10, <2>1 DEF LocalAnswers
<1>11. ASSUME NEW c \in Calls, CloudAnswers(c)
       PROVE  RouterInv'
  <2>1. ModelText(CloudModel) \in Answers /\ Fits(ask[c], ModelText(CloudModel))
    BY <1>a, <1>11, ModelTextAnswers, CloudModelClient DEF Fits, CloudAnswers, StagesFit
  <2>. QED  BY <1>a, <1>b, <1>11, <2>1 DEF CloudAnswers
<1>12. ASSUME NEW c \in Calls, LocalFails(c) \/ CloudFails(c) \/ CloudTimesOut(c)
       PROVE  RouterInv'
  BY <1>a, <1>6, <1>12 DEF LocalFails, CloudFails, CloudTimesOut
<1>13. ASSUME NEW c \in Calls, ThreadEnds(c)
       PROVE  RouterInv'
  BY <1>a, <1>c, <1>13 DEF ThreadEnds, StagesFit
<1>14. ASSUME NEW c \in Calls, Return(c)
       PROVE  RouterInv'
  <2>1. StagesFit'
    BY <1>a, <1>14 DEF Return, StagesFit
  <2>. QED  BY <1>a, <1>c, <1>14, <2>1 DEF Return
<1>15. CASE Close
  BY <1>a, <1>c, <1>15 DEF Close, callVars, StagesFit
<1>16. CASE Tick
  <2>1. sinceFailure' \in 0..(ResetTimeout + 1) /\ BreakerCounts'
    BY <1>16, AMomentBounds, RouterConstants DEF Tick, RouterTypeOK, BreakerCounts
  <2>2. cacheAge' \in [Asks -> 0..(CacheTTL + 1)] /\ computedAge' = cacheAge'
    BY <1>16, AMomentBounds, RouterConstants DEF Tick, RouterTypeOK, CacheSound
  <2>3. cache' \in [Asks -> Answers \cup {NoAnswer}]
    BY <1>16 DEF Tick, RouterTypeOK
  <2>4. CacheSound'
    <3>1. \A k \in Asks : cache'[k] # NoAnswer => cacheAge'[k] <= CacheTTL /\ cache'[k] = cache[k]
      BY <1>16, <2>2, RouterConstants DEF Tick
    <3>2. \A k \in Asks : cache[k] # NoAnswer => Fits(k, cache[k])
      BY DEF CacheSound
    <3>. QED  BY <1>16, <2>2, <3>1, <3>2 DEF Tick, CacheSound, Fits
  <2>5. StagesFit'
    BY <1>16 DEF Tick, StagesFit, callVars
  <2>. QED  BY <1>16, <1>a, <2>1, <2>2, <2>3, <2>4, <2>5 DEF Tick, callVars, RouterTypeOK
<1>17. CASE UNCHANGED routerVars
  BY <1>a, <1>c, <1>17 DEF routerVars, callVars, StagesFit
<1>18. ASSUME NEW c \in Calls, Step(c)
       PROVE  RouterInv'
  BY <1>18, <1>3, <1>4, <1>5, <1>7, <1>8, <1>10, <1>11, <1>12 DEF Step
<1>. QED  BY <1>1, <1>2, <1>9, <1>13, <1>14, <1>15, <1>16, <1>17, <1>18 DEF RouterNext
--------------------------------------------------------------------------
\* The invariant holds in every state of the router, whatever the fairness.
THEOREM RouterInvariant == RouterSpec => []RouterInv
<1>. QED  BY RouterInitInv, RouterStepInv, PTL DEF RouterSpec

\* The router keeps its types: every answer is one of an engine, the failures
\* stay within the threshold, and the threads are those of calls.
THEOREM RouterTypeCorrect == RouterSpec => []RouterTypeOK
<1>1. RouterInv => RouterTypeOK
  BY DEF RouterInv
<1>. QED  BY <1>1, RouterInvariant, PTL

\* However successes and failures of calls in flight interleave, a call joins
\* them only below the threshold or after the reset timeout.
THEOREM BreakerGuards == RouterSpec => OpenRefuses
<1>1. ASSUME RouterInv, [RouterNext]_routerVars,
             NEW c \in Calls, stage[c] = "called", stage'[c] = "queued"
      PROVE  failures < FailureThreshold \/ sinceFailure > ResetTimeout
  <2>. USE DEF RouterInv, RouterTypeOK
  <2>1. ASSUME NEW S \in SUBSET Calls, NEW asked, Call(S, asked) PROVE FALSE
    BY <1>1, <2>1 DEF Call
  <2>2. ASSUME NEW d \in Calls, NEW result, Finish(d, result) PROVE FALSE
    BY <1>1, <2>2 DEF Finish
  <2>3. ASSUME NEW d \in Calls, NEW p \in Prompts, Route(d, p) PROVE FALSE
    BY <2>1, <2>3 DEF Route
  <2>4. ASSUME NEW d \in Calls,
               CacheHit(d) \/ AskLocal(d) \/ StartThread(d) \/ ThreadEnds(d) \/ Return(d)
        PROVE  FALSE
    BY <1>1, <2>4 DEF CacheHit, AskLocal, StartThread, ThreadEnds, Return
  <2>5. ASSUME NEW d \in Calls,
               \/ AskRules(d) \/ Refuse(d) \/ NoClient(d) \/ LocalAnswers(d) \/ LocalFails(d)
               \/ CloudAnswers(d) \/ CloudFails(d) \/ CloudTimesOut(d)
        PROVE  FALSE
    BY <2>2, <2>5 DEF AskRules, Refuse, NoClient, LocalAnswers, LocalFails, CloudAnswers,
       CloudFails, CloudTimesOut, FallBack
  <2>6. ASSUME NEW d \in Calls, AskCloud(d)
        PROVE  failures < FailureThreshold \/ sinceFailure > ResetTimeout
    <3>1. BreakerState # "open"
      BY <2>6 DEF AskCloud
    <3>. QED  BY <1>1, <3>1 DEF BreakerState, BreakerCounts
  <2>7. Close \/ Tick \/ UNCHANGED routerVars => FALSE
    BY <1>1 DEF Close, Tick, routerVars, callVars
  <2>. QED  BY <1>1, <2>1, <2>3, <2>4, <2>5, <2>6, <2>7 DEF RouterNext, Step
<1>2. RouterInv /\ [RouterNext]_routerVars =>
        [\A c \in Calls : stage[c] = "called" /\ stage'[c] = "queued" =>
           failures < FailureThreshold \/ sinceFailure > ResetTimeout]_routerVars
  BY <1>1
<1>. QED  BY <1>2, RouterInvariant, PTL DEF RouterSpec, OpenRefuses

\* Every answer fits its ask and is at most cache_ttl old, whatever is in the
\* cache, in flight or given up.
THEOREM AnswersAreFit == RouterSpec => AnswersFit
<1>1. ASSUME RouterInv, [RouterNext]_routerVars,
             NEW c \in Calls, stage[c] # "done", stage'[c] = "done"
      PROVE  Fits(ask[c], answer'[c]) /\ computedAge'[ask[c]] <= CacheTTL
  <2>. USE DEF RouterInv
  <2>1. /\ stage \in [Calls -> {"idle", "called", "local", "queued", "cloud", "done"}]
        /\ clients \subseteq {"openai", "anthropic"}
    BY <1>1 DEF RouterTypeOK
  <2>2. ASSUME NEW d \in Calls, stage[d] # "idle", NEW result \in Answers, Fits(ask[d], result),
               Finish(d, result), UNCHANGED <<clients, ask>>
        PROVE  Fits(ask[c], answer'[c]) /\ computedAge'[ask[c]] <= CacheTTL
    <3>1. /\ answer'[d] = result /\ computedAge'[ask[d]] <= CacheTTL
          /\ \A e \in Calls : e # d => stage'[e] = stage[e]
      BY <1>1, <2>2, FinishSound
    <3>2. c = d
      BY <1>1, <3>1
    <3>. QED  BY <2>2, <3>1, <3>2
  <2>3. ASSUME NEW d \in Calls, stage[d] # "idle", FallBack(d), UNCHANGED <<clients, ask>>
        PROVE  Fits(ask[c], answer'[c]) /\ computedAge'[ask[c]] <= CacheTTL
    <3>1. RuleEngine(ask[d].prompt) \in Answers /\ Fits(ask[d], RuleEngine(ask[d].prompt))
      BY RuleEngineAnswers DEF Fits
    <3>. QED  BY <2>2, <2>3, <3>1 DEF FallBack
  <2>4. ASSUME NEW S \in SUBSET Calls, NEW asked, Call(S, asked) PROVE FALSE
    BY <1>1, <2>1, <2>4 DEF Call
  <2>5. ASSUME NEW d \in Calls, NEW p \in Prompts, Route(d, p) PROVE FALSE
    BY <2>4, <2>5 DEF Route
  <2>6. ASSUME NEW d \in Calls,
               AskLocal(d) \/ AskCloud(d) \/ StartThread(d) \/ ThreadEnds(d) \/ Return(d)
        PROVE  FALSE
    BY <1>1, <2>1, <2>6 DEF AskLocal, AskCloud, StartThread, ThreadEnds, Return
  <2>7. ASSUME NEW d \in Calls, CacheHit(d)
        PROVE  Fits(ask[c], answer'[c]) /\ computedAge'[ask[c]] <= CacheTTL
    <3>1. c = d
      BY <1>1, <2>1, <2>7 DEF CacheHit
    <3>2. /\ answer'[c] = cache[ask[c]] /\ cache[ask[c]] # NoAnswer /\ ask[c] \in Asks
          /\ computedAge' = computedAge
      BY <1>1, <2>7, <3>1 DEF CacheHit, Cached, CacheKey, cacheVars, RouterTypeOK
    <3>. QED  BY <1>1, <3>2 DEF CacheSound
  <2>8. ASSUME NEW d \in Calls,
               \/ Refuse(d) \/ NoClient(d) \/ LocalFails(d) \/ CloudFails(d) \/ CloudTimesOut(d)
        PROVE  Fits(ask[c], answer'[c]) /\ computedAge'[ask[c]] <= CacheTTL
    <3>1. stage[d] # "idle" /\ FallBack(d) /\ UNCHANGED <<clients, ask>>
      BY <2>8 DEF Refuse, NoClient, LocalFails, CloudFails, CloudTimesOut, Missed
    <3>. QED  BY <2>3, <3>1
  <2>9. ASSUME NEW d \in Calls, AskRules(d)
        PROVE  Fits(ask[c], answer'[c]) /\ computedAge'[ask[c]] <= CacheTTL
    <3>1. stage[d] # "idle" /\ FallBack(d) /\ UNCHANGED <<clients, ask>>
      BY <2>9 DEF AskRules, Missed, FallBack
    <3>. QED  BY <2>3, <3>1
  <2>10. ASSUME NEW d \in Calls, LocalAnswers(d)
         PROVE  Fits(ask[c], answer'[c]) /\ computedAge'[ask[c]] <= CacheTTL
    <3>1. ModelText("ollama") \in Answers /\ Fits(ask[d], ModelText("ollama"))
      BY <1>1, <2>10, ModelTextAnswers DEF Fits, LocalAnswers, StagesFit
    <3>. QED  BY <2>2, <2>10, <3>1 DEF LocalAnswers
  <2>11. ASSUME NEW d \in Calls, CloudAnswers(d)
         PROVE  Fits(ask[c], answer'[c]) /\ computedAge'[ask[c]] <= CacheTTL
    <3>1. ModelText(CloudModel) \in Answers /\ Fits(ask[d], ModelText(CloudModel))
      BY <1>1, <2>1, <2>11, ModelTextAnswers, CloudModelClient DEF Fits, CloudAnswers, StagesFit
    <3>. QED  BY <2>2, <2>11, <3>1 DEF CloudAnswers
  <2>12. Close \/ Tick \/ UNCHANGED routerVars => FALSE
    BY <1>1 DEF Close, Tick, routerVars, callVars
  <2>. QED  BY <1>1, <2>4, <2>5, <2>6, <2>7, <2>8, <2>9, <2>10, <2>11, <2>12 DEF RouterNext, Step
<1>2. RouterInv /\ [RouterNext]_routerVars =>
        [\A c \in Calls : stage[c] # "done" /\ stage'[c] = "done" =>
           /\ \/ answer'[c] = RuleEngine(ask[c].prompt)
              \/ ask[c].complexity = "medium" /\ answer'[c].by = "ollama"
              \/ ask[c].complexity = "complex" /\ answer'[c].by \in clients
           /\ computedAge'[ask[c]] <= CacheTTL]_routerVars
  BY <1>1 DEF Fits
<1>. QED  BY <1>2, RouterInvariant, PTL DEF RouterSpec, AnswersFit
==========================================================================
