------------------------ MODULE MCExecutionEngine ------------------------
(***************************************************************************)
(* Small instances of ExecutionEngine for TLC.                             *)
(***************************************************************************)
EXTENDS ExecutionEngine

\* Two scenarios. The kinds are paired so that a scenario that closes the
\* client meets another one, a burst, and one that sends nothing; rates give
\* bursts of two batches, of no request and of rate zero.
Calls(kinds, rates, durations) ==
  [serial : BOOLEAN, healthy : BOOLEAN, kind : kinds, rps : rates,
   duration : durations, expected : {<<200, 200>>}]

MCWorkloads ==
  Calls({<<"latency", "error_status">>, <<"request_tampering", "unknown">>},
        {<<1, 1>>}, {<<1, 1>>})
  \cup Calls({<<"latency", "rate_limit">>, <<"rate_limit", "error_status">>},
             {<<2, 2>>}, {<<2, 2>>})
  \cup Calls({<<"rate_limit", "rate_limit">>}, {<<2, 0>>, <<2, 1>>}, {<<1, 2>>, <<1, 0>>})

\* Three scenarios in parallel against a target that answers everything.
MCHealthyParallel ==
  [serial : {FALSE}, healthy : {TRUE}, kind : {[s \in 1..3 |-> "latency"]},
   rps : {[s \in 1..3 |-> 1]}, duration : {[s \in 1..3 |-> 1]},
   expected : {[s \in 1..3 |-> 200]}]
==========================================================================
