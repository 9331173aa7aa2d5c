------------------------ MODULE ExecutionContract ------------------------
(***************************************************************************)
(* What a caller of ExecutionEngine.execute() relies on, with nothing said *)
(* of clients, permits or retries: every scenario of the list is given one *)
(* verdict, once; the call returns after the last one, and the two         *)
(* counters of the TestResult it returns agree with the verdicts.          *)
(***************************************************************************)
EXTENDS Naturals, FiniteSets

CONSTANT Scenarios      \* the scenarios of the call

VARIABLES verdict,      \* ScenarioResult.status of each scenario
          report        \* the counters of the returned TestResult

vars == <<verdict, report>>

Verdicts == {"completed", "failed", "timeout"}
NoReport == [returned |-> FALSE, completed |-> 0, failed |-> 0]

Init == /\ verdict = [s \in Scenarios |-> "pending"]
        /\ report = NoReport

\* One scenario gets its verdict.
Settle(s) == /\ verdict[s] = "pending"
             /\ \E v \in Verdicts : verdict' = [verdict EXCEPT ![s] = v]
             /\ UNCHANGED report

\* The call returns: the counters partition the scenarios.
Return ==
  /\ report = NoReport
  /\ \A s \in Scenarios : verdict[s] # "pending"
  /\ LET done == {s \in Scenarios : verdict[s] = "completed"}
     IN  report' = [returned  |-> TRUE,
                    completed |-> Cardinality(done),
                    failed    |-> Cardinality(Scenarios \ done)]
  /\ UNCHANGED verdict

Next == (\E s \in Scenarios : Settle(s)) \/ Return

Spec == Init /\ [][Next]_vars
==========================================================================
