-------------------------- MODULE ReportService --------------------------
(***************************************************************************)
(* services/report_generator.py, services/analytics_service.py and         *)
(* services/report_exporter.py: the report of a TestResult, the comparison *)
(* of two reports, the summary of many, and the rows of an export.         *)
(* Percentages are kept as hundredths of a per cent, rounded down.         *)
(***************************************************************************)
EXTENDS ScenarioGenerator

\* Lower is worse in _SEVERITY_ORDER of the generator.
SeverityRank == [s \in ToSet(Severities) |-> CHOOSE i \in 1..5 : Severities[i] = s]
RiskWeight   == [critical |-> 25, high |-> 10, medium |-> 3, low |-> 1, info |-> 0]

AtMost(bound, n) == IF n > bound THEN bound ELSE n
--------------------------------------------------------------------------
(* The report generator.                                                 *)

\* A finding does not say which endpoint it is about.
Finding(r) == [scenario |-> r.scenario, type |-> r.type, severity |-> r.severity, endpoint |-> "none"]

\* Fault variant: one finding of each severity.
ExtractFindingsDistinct(results) ==
  LET of(sev) == Filter(results, LAMBDA r : r.vulnerable /\ r.severity = sev)
  IN  FlattenSeq([i \in 1..5 |-> IF of(Severities[i]) = <<>> THEN <<>>
                                 ELSE <<Finding(of(Severities[i])[1])>>])

\* The vulnerable results, by severity, in the order of the results.
ExtractFindings(results) ==
  LET of(sev) == Filter(results, LAMBDA r : r.vulnerable /\ r.severity = sev)
  IN  FlattenSeq([i \in 1..5 |->
        LET hits == of(Severities[i]) IN [j \in DOMAIN hits |-> Finding(hits[j])]])

SeverityCounts(findings) ==
  [i \in 1..5 |-> Count(findings, LAMBDA f : f.severity = Severities[i])]

\* Whatever found nothing has passed, also when it failed or timed out.
BuildSummary(test, findings) ==
  LET results == test.results
      total   == IF test.total # 0 THEN test.total ELSE Len(results)
      failed  == Count(results, LAMBDA r : r.vulnerable)
  IN  [total  |-> total,
       passed |-> Count(results, LAMBDA r : ~r.vulnerable),
       failed |-> failed,
       errors |-> Count(results, LAMBDA r : r.status = "failed"),
       severities |-> SeverityCounts(findings),
       rate   |-> IF total > 0 THEN (failed * 10000) \div total ELSE 0]

GenerateReport(test, day) ==
  LET findings == ExtractFindings(test.results)
  IN  [summary |-> BuildSummary(test, findings), findings |-> findings, test |-> test, day |-> day]

Remediation(type) ==
  CASE type = "latency"           -> "timeouts and circuit breakers"
    [] type = "error_status"      -> "error handling"
    [] type = "request_tampering" -> "input validation"
    [] type = "rate_limit"        -> "rate limiting"
    [] OTHER                      -> "review"
--------------------------------------------------------------------------
(* Comparison.                                                           *)

FindingKey(f)      == <<f.endpoint, f.type>>
FindingKeys(found) == {FindingKey(found[i]) : i \in DOMAIN found}

RiskScore(found) ==
  AtMost(100, SumOf([i \in DOMAIN found |-> RiskWeight[found[i].severity]]))

\* Fault variant: a finding the baseline has not is taken for a change.
SeverityChangesAll(base, found) ==
  LET rank(f) == SeverityRank[f.severity]
      of(f)   == Filter(base, LAMBDA g : FindingKey(g) = FindingKey(f))
      was(f)  == IF of(f) = <<>> THEN 6 ELSE rank(Last(of(f)))
  IN  [increased |-> Count(found, LAMBDA f : rank(f) < was(f)),
       decreased |-> Count(found, LAMBDA f : rank(f) > was(f)),
       unchanged |-> Count(found, LAMBDA f : rank(f) = was(f))]

\* Each finding of the comparison against the baseline's last one of its key.
SeverityChanges(base, found) ==
  LET known == Filter(found, LAMBDA f : FindingKey(f) \in FindingKeys(base))
      rank(f) == SeverityRank[f.severity]
      was(f)  == rank(Last(Filter(base, LAMBDA g : FindingKey(g) = FindingKey(f))))
  IN  [increased |-> Count(known, LAMBDA f : rank(f) < was(f)),
       decreased |-> Count(known, LAMBDA f : rank(f) > was(f)),
       unchanged |-> Count(known, LAMBDA f : rank(f) = was(f))]

CompareReports(a, b) ==
  LET old == FindingKeys(a.findings)
      now == FindingKeys(b.findings)
  IN  [new |-> Cardinality(now \ old), resolved |-> Cardinality(old \ now),
       persistent |-> Cardinality(old \cap now),
       changes |-> SeverityChanges(a.findings, b.findings),
       newDetails |-> Filter(b.findings, LAMBDA f : FindingKey(f) \notin old),
       resolvedDetails |-> Filter(a.findings, LAMBDA f : FindingKey(f) \notin now),
       delta |-> RiskScore(b.findings) - RiskScore(a.findings),
       improved |-> RiskScore(b.findings) <= RiskScore(a.findings)]
--------------------------------------------------------------------------
(* The analytics of a tenant's reports.                                  *)

AllFindings(reports) == FlattenSeq([i \in DOMAIN reports |-> reports[i].findings])

\* A day's label in a trend, for a calendar of DaysOf[period] days a period.
DaysOf == [daily |-> 1, weekly |-> 2, monthly |-> 4]

\* Fault variant: the last report of a period stands for all.
TrendsLast(reports, period) ==
  LET label(r) == r.day \div DaysOf[period]
      labels   == {label(reports[i]) : i \in {j \in DOMAIN reports : reports[j].findings # <<>>}}
      of(l)    == Last(Filter(reports, LAMBDA r : label(r) = l)).findings
  IN  [l \in labels |-> [counts |-> SeverityCounts(of(l)), total |-> Len(of(l))]]

\* One entry for each period in which something was found.
Trends(reports, period) ==
  LET label(r) == r.day \div DaysOf[period]
      labels   == {label(reports[i]) : i \in {j \in DOMAIN reports : reports[j].findings # <<>>}}
      of(l)    == AllFindings(Filter(reports, LAMBDA r : label(r) = l))
  IN  [l \in labels |-> [counts |-> SeverityCounts(of(l)), total |-> Len(of(l))]]

EndpointRisks(found) ==
  [e \in {found[i].endpoint : i \in DOMAIN found} |->
     LET of == Filter(found, LAMBDA f : f.endpoint = e)
     IN  [total |-> Len(of), score |-> RiskScore(of),
          critical |-> SeverityCounts(of)[1], high |-> SeverityCounts(of)[2]]]

PassRate(reports) ==
  LET scenarios == SumOf([i \in DOMAIN reports |-> reports[i].summary.total])
      found     == Len(AllFindings(reports))
  IN  IF reports = <<>> THEN 0 ELSE IF scenarios = 0 THEN 10000
      ELSE ((scenarios - found) * 10000) \div scenarios

\* What the code averages is the reports' vulnerability rate.
AvgExecutionTime(reports) ==
  LET rated == Filter(reports, LAMBDA r : r.summary.rate > 0)
      rates == [i \in DOMAIN rated |-> rated[i].summary.rate]
  IN  IF rates = <<>> THEN 0 ELSE SumOf(rates) \div Len(rates)

Summary(reports, period) ==
  LET found == AllFindings(reports)
  IN  [executions |-> Len(reports),
       scenarios |-> SumOf([i \in DOMAIN reports |-> reports[i].summary.total]),
       vulnerabilities |-> Len(found), severities |-> SeverityCounts(found),
       risks |-> EndpointRisks(found), trends |-> Trends(reports, period),
       passRate |-> PassRate(reports), avgTime |-> AvgExecutionTime(reports)]
--------------------------------------------------------------------------
(* The exporter.                                                         *)

\* export_csv: a row per result, its finding looked up by the scenario.
CsvRows(report) ==
  LET known == {f \in ToSet(report.findings) : TRUE}
      last(r) == Last(Filter(report.findings, LAMBDA f : f.scenario = r.scenario))
      hit(r)  == \E f \in known : f.scenario = r.scenario
  IN  [i \in DOMAIN report.test.results |->
         LET r == report.test.results[i]
         IN  [scenario |-> r.scenario, type |-> r.type, status |-> r.status, vulnerable |-> hit(r),
              severity |-> IF hit(r) THEN last(r).severity ELSE "none",
              recommendation |-> IF hit(r) THEN Remediation(last(r).type) ELSE "none"]]

\* export_html and export_json: the findings, the results and the summary.
HtmlReport(report) ==
  LET s == report.summary
  IN  [findings |-> report.findings,
       results  |-> [i \in DOMAIN report.test.results |->
                       [scenario |-> report.test.results[i].scenario,
                        passed |-> report.test.results[i].status = "completed"]],
       passRate |-> IF s.total > 0 THEN (s.passed * 10000) \div s.total ELSE 0,
       severities |-> s.severities]
===========================================================================
