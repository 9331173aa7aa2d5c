---------------------------- MODULE RateLimiter ----------------------------
(***************************************************************************)
(* core/rate_limit.py: a token bucket for each client, and the cleanup that *)
(* keeps their number down. A tick of the clock is the time in which a     *)
(* bucket gains one part of a token; what consume() adds at once for the   *)
(* time since the last request is added here tick by tick.                 *)
(***************************************************************************)
EXTENDS Integers, FiniteSets

CONSTANTS
  Clients,
  RequestsPerMinute,    \* tokens of a full bucket
  Parts,                \* parts of a token
  CleanupInterval,      \* _CLEANUP_INTERVAL_SECONDS, in ticks
  StaleThreshold,       \* _STALE_THRESHOLD_SECONDS, in ticks
  MaxBuckets,           \* _MAX_BUCKETS
  MaxForgiven,          \* at most so many parts forgiven a client for the number of buckets
  NoBucket

Full == RequestsPerMinute * Parts

\* A bucket fills in a minute, a token in less, and is stale after an hour.
ASSUME RateConstants ==
  /\ RequestsPerMinute \in Nat \ {0} /\ Parts \in Nat \ {0}
  /\ CleanupInterval \in Nat /\ StaleThreshold \in Nat /\ StaleThreshold >= Full + Parts
  /\ MaxBuckets \in Nat \ {0} /\ MaxForgiven \in Nat
  /\ NoBucket \notin [tokens : 0..Full, idle : 0..StaleThreshold + 1]

VARIABLES
  buckets,        \* _buckets: parts of tokens, and the time since last_used
  sinceCleanup,   \* the time since _last_cleanup
  fair,           \* history: the bucket of each client if no cleanup had ever dropped it
  forgiven        \* history: a whole bucket for each time it was dropped for the number of buckets

rateVars == <<buckets, sinceCleanup, fair, forgiven>>

Least(a, b) == IF a < b THEN a ELSE b
--------------------------------------------------------------------------
GetBucket(c) == IF buckets[c] = NoBucket THEN [tokens |-> Full, idle |-> 0] ELSE buckets[c]

Held(c) == [buckets EXCEPT ![c] = GetBucket(c)]

\* Fault variant: what was not used since the last cleanup is stale.
StaleEarly(held) == {c \in Clients : held[c] # NoBucket /\ held[c].idle > CleanupInterval}

Stale(held) == {c \in Clients : held[c] # NoBucket /\ held[c].idle > StaleThreshold}

\* The sets of buckets a cleanup may drop for their number, the least recently
\* used first; those used at the same time in the order they were made.
Excess(held) ==
  LET left == {c \in Clients : held[c] # NoBucket} \ Stale(held)
      over == Cardinality(left) - MaxBuckets
  IN  IF over <= 0 THEN {{}}
      ELSE {d \in SUBSET left : /\ Cardinality(d) = over
                                /\ \A c \in d, k \in left \ d : held[c].idle >= held[k].idle}

Admits(bucket) == bucket.tokens >= Parts
Consume(bucket) == [tokens |-> IF Admits(bucket) THEN bucket.tokens - Parts ELSE bucket.tokens, idle |-> 0]

\* A request: its bucket is looked up, then the cleanup may drop it, then it is
\* charged.
Dispatch(c) ==
  LET due == sinceCleanup >= CleanupInterval
  IN  \E excess \in IF due THEN Excess(Held(c)) ELSE {{}} :
        LET gone == IF due THEN Stale(Held(c)) \cup excess ELSE {}
        IN  /\ \A k \in excess : forgiven[k] + Full <= MaxForgiven
            /\ buckets' = [k \in Clients |-> IF k \in gone THEN NoBucket
                                             ELSE IF k = c THEN Consume(GetBucket(c)) ELSE buckets[k]]
            /\ sinceCleanup' = IF due THEN 0 ELSE sinceCleanup
            /\ fair' = [fair EXCEPT ![c] = IF Admits(GetBucket(c)) THEN @ - Parts ELSE @]
            /\ forgiven' = [k \in Clients |-> IF k \in excess THEN forgiven[k] + Full ELSE forgiven[k]]

RateTick ==
  /\ buckets' = [c \in Clients |->
       IF buckets[c] = NoBucket THEN NoBucket
       ELSE [tokens |-> Least(Full, buckets[c].tokens + 1),
             idle   |-> Least(StaleThreshold + 1, buckets[c].idle + 1)]]
  /\ sinceCleanup' = Least(CleanupInterval, sinceCleanup + 1)
  /\ fair' = [c \in Clients |-> Least(Full, fair[c] + 1)]
  /\ UNCHANGED forgiven

RateInit ==
  /\ buckets = [c \in Clients |-> NoBucket]
  /\ sinceCleanup = 0
  /\ fair = [c \in Clients |-> Full]
  /\ forgiven = [c \in Clients |-> 0]

RateNext == RateTick \/ \E c \in Clients : Dispatch(c)
===========================================================================
