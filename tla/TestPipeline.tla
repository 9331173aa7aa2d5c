--------------------------- MODULE TestPipeline ---------------------------
(***************************************************************************)
(* A test from the upload of a schema to the analytics of its reports:     *)
(* the resource routers, services/execution_service.py and the components  *)
(* they call, over the four collections of the store.                      *)
(*                                                                         *)
(* A handler runs without interruption up to an await that waits for a     *)
(* model or for the target; the store's methods wait for nothing. The      *)
(* collections forget documents as Store says: the oldest of a full one    *)
(* when another is saved, and any of them when its time is up.             *)
(***************************************************************************)
EXTENDS PostmanAdapter, ReportService

CONSTANTS
  Files,             \* what clients upload
  Replies,           \* what the LLM router may answer
  Targets,           \* how APIs answer the scenarios of each type: in turns
  ProtocolFiles,     \* what clients have parsed that is no OpenAPI
  Slots,             \* requests in progress
  MaxDocs,           \* the size limit of a collection
  Persistent,        \* whether the store is the one on SQLite
  IdLists(_),        \* the lists of ids clients ask to run, given all that generate returned
  MaxUploads, MaxSaves,  \* bounds on what clients do
  MaxDay

\* Documents are read and replies are lists of items; the collections can
\* hold a document.
ASSUME PipelineConstants ==
  /\ \A file \in Files : IsDocument(file.document)
  /\ \A reply \in Replies : IsList(reply.items)
  /\ \A file \in ProtocolFiles : IsProtocolFile(file)
  /\ MaxDocs \in Nat \ {0} /\ MaxDay \in Nat /\ Persistent \in BOOLEAN

VARIABLES
  schemas, scenarios, executions, reports,  \* the collections, the oldest first
  issued,            \* ids given out: none is above it
  request,           \* the request in each slot
  analytics,         \* the reports of a tenant in AnalyticsService
  day,               \* of the last report
  batches,           \* history: what each call of generate returned
  saves              \* how many requests (but uploads) and expiries there were

collections  == <<schemas, scenarios, executions, reports>>
pipelineVars == <<collections, issued, request, analytics, day, batches, saves>>

Idle    == [op |-> "idle"]
NotFound == [op |-> "404"]
Refused == [op |-> "refused"]
--------------------------------------------------------------------------
(* The store, as the handlers see it.                                    *)

Ids(coll)      == {coll[i].id : i \in DOMAIN coll}
Document(coll, id) == coll[CHOOSE i \in DOMAIN coll : coll[i].id = id].doc

\* The documents are saved one after the other; the last MaxDocs remain.
Saved(coll, docs) ==
  LET all == coll \o [i \in DOMAIN docs |-> [id |-> issued + i, doc |-> docs[i]]]
  IN  SubSeq(all, IF Len(all) > MaxDocs THEN Len(all) - MaxDocs + 1 ELSE 1, Len(all))

NewIds(n)  == [i \in 1..n |-> issued + i]

\* save_schema: in memory the id is made of the title and the version, so a
\* schema takes the place and the id of one with the same.
SchemaSaved(spec) ==
  LET same == {i \in DOMAIN schemas : schemas[i].doc.document.title = spec.document.title}
  IN  IF Persistent \/ same = {} THEN Saved(schemas, <<spec>>)
      ELSE [i \in DOMAIN schemas |-> IF i \in same THEN [schemas[i] EXCEPT !.doc = spec] ELSE schemas[i]]
--------------------------------------------------------------------------
(* routers/schema.py                                                     *)

\* _suffix_for, of the sanitized name.
SuffixFor(file) == IF file.name \in {"yaml", "yml"} THEN ".yaml" ELSE ".json"

\* The checks upload_schema makes before and after it reads the file.
Acceptable(file) == file.name # "" /\ file.size = "fits" /\ file.typed

Upload(file) ==
  /\ issued < MaxUploads
  /\ Acceptable(file) /\ Readable(file.document, SuffixFor(file))
  /\ schemas' = SchemaSaved(Parse(file.document, SuffixFor(file)))
  /\ issued' = issued + 1
  /\ UNCHANGED <<scenarios, executions, reports, request, analytics, day, batches, saves>>
--------------------------------------------------------------------------
(* routers/scenarios.py and ScenarioGenerator.generate.                  *)

\* An unknown schema is answered with 404, and changes nothing.
StartGenerate(k, id) ==
  /\ request[k] = Idle /\ id \in Ids(schemas) /\ saves < MaxSaves
  /\ saves' = saves + 1
  /\ request' = [request EXCEPT ![k] =
       [op |-> "generate", endpoints |-> Document(schemas, id).endpoints, next |-> 1, made |-> <<>>]]
  /\ UNCHANGED <<collections, issued, analytics, day, batches>>

\* One endpoint, with the answer to its prompt of the model or, when the
\* router falls back, of its rules.
GenerateEndpoint(k, answer) ==
  /\ request[k].op = "generate" /\ request[k].next \in DOMAIN request[k].endpoints
  /\ request' = [request EXCEPT
       ![k].made = @ \o GenerateForEndpoint(request[k].endpoints[request[k].next], answer),
       ![k].next = @ + 1]
  /\ UNCHANGED <<collections, issued, analytics, day, batches, saves>>

\* The scenarios are given ids and saved in one go.
EndGenerate(k) ==
  /\ request[k].op = "generate" /\ request[k].next > Len(request[k].endpoints)
  /\ scenarios' = Saved(scenarios, request[k].made)
  /\ batches' = Append(batches, [ids |-> NewIds(Len(request[k].made)), scenarios |-> request[k].made,
                                 endpoints |-> request[k].endpoints])
  /\ issued' = issued + Len(request[k].made)
  /\ request' = [request EXCEPT ![k] = Idle]
  /\ UNCHANGED <<schemas, executions, reports, analytics, day, saves>>
--------------------------------------------------------------------------
(* routers/execution.py and ExecutionService.execute_scenarios.          *)

\* Fault variant: a scenario that is gone is passed over.
LoadableAny(ids) == TRUE

\* Every scenario is looked up before any is run; one that is missing is a 404.
Loadable(ids) == \A i \in DOMAIN ids : ids[i] \in Ids(scenarios)

StartExecution(k, ids) ==
  /\ request[k] = Idle /\ IsList(ids) /\ ids # <<>> /\ Loadable(ids) /\ saves < MaxSaves
  /\ saves' = saves + 1
  /\ LET found == Filter(ids, LAMBDA id : id \in Ids(scenarios))
     IN  request' = [request EXCEPT ![k] =
           [op |-> "execute", ids |-> ids,
            load |-> [i \in DOMAIN found |-> [id |-> found[i], doc |-> Document(scenarios, found[i])]]]]
  /\ UNCHANGED <<collections, issued, analytics, day, batches>>

Injected == {"latency", "error_status", "request_tampering", "rate_limit"}

\* The ScenarioResult of a scenario (ExecutionEngine models how it comes
\* about), the n-th of its request: an API need not answer alike each time.
\* Nothing is found where nothing is detected, or nothing answered.
ResultOf(task, n, target) ==
  LET type   == task.doc.type
      answer == IF type \in Injected THEN target[type][(n % 2) + 1] ELSE "failed"
  IN  [scenario |-> task.id, type |-> type, severity |-> task.doc.severity,
       status |-> IF answer \in {"failed", "timeout"} THEN answer ELSE "completed",
       vulnerable |-> answer = "vulnerable" /\ type # "latency"]

EndExecution(k, target) ==
  /\ request[k].op = "execute"
  /\ LET results == [i \in DOMAIN request[k].load |-> ResultOf(request[k].load[i], i, target)]
     IN  executions' = Saved(executions, <<[total |-> Len(results), results |-> results]>>)
  /\ issued' = issued + 1
  /\ request' = [request EXCEPT ![k] = Idle]
  /\ UNCHANGED <<schemas, scenarios, reports, analytics, day, batches, saves>>
--------------------------------------------------------------------------
(* routers/reports.py and routers/analytics.py                           *)

ReportOn(id, today) ==
  /\ id \in Ids(executions) /\ saves < MaxSaves
  /\ saves' = saves + 1
  /\ reports' = Saved(reports, <<GenerateReport(Document(executions, id), today)>>)
  /\ day' = today
  /\ issued' = issued + 1
  /\ UNCHANGED <<schemas, scenarios, executions, request, analytics, batches>>

\* Nothing is stored.
Compare(a, b) ==
  IF {a, b} \subseteq Ids(reports)
  THEN [op |-> "compare", result |-> CompareReports(Document(reports, a), Document(reports, b))]
  ELSE NotFound

\* AnalyticsService.store_report: part of its interface, called by no router.
StoreReport(id) ==
  /\ id \in Ids(reports) /\ saves < MaxSaves
  /\ saves' = saves + 1
  /\ analytics' = Append(analytics, Document(reports, id))
  /\ UNCHANGED <<collections, issued, request, day, batches>>

GetSummary(period) == [op |-> "summary", result |-> Summary(analytics, period)]
--------------------------------------------------------------------------
(* routers/schemas_v2.py: nothing is stored.                             *)

\* parse_schema_v2 goes by the suffix; the two others take any file, if they
\* find something in it.
ParseV2(file, protocol) ==
  LET services   == IF protocol = "grpc" THEN GrpcParse(file) ELSE <<>>
      operations == IF protocol = "graphql" THEN GraphQLParse(file) ELSE <<>>
  IN  IF protocol = "rest" \/
         (protocol # DetectProtocol(file.suffix) /\ services = <<>> /\ operations = <<>>)
      THEN Refused
      ELSE [op |-> "parse", services |-> services, operations |-> operations]
--------------------------------------------------------------------------
\* A document has been in its collection for longer than its TTL: the oldest
\* one, but for a schema that was saved anew in its place. The scenarios of a
\* batch, saved at one time, go together.
Expire ==
  /\ saves < MaxSaves /\ saves' = saves + 1
  /\ \/ /\ \E i \in DOMAIN schemas : schemas' = Filter(schemas, LAMBDA s : s.id # schemas[i].id)
        /\ UNCHANGED <<scenarios, executions, reports>>
     \/ executions # <<>> /\ executions' = Tail(executions) /\ UNCHANGED <<schemas, scenarios, reports>>
     \/ reports # <<>> /\ reports' = Tail(reports) /\ UNCHANGED <<schemas, scenarios, executions>>
     \/ /\ \E b \in ToSet(batches) :
             /\ Ids(scenarios) \cap ToSet(b.ids) # {}
             /\ scenarios' = Filter(scenarios, LAMBDA d : d.id > Last(b.ids))
        /\ UNCHANGED <<schemas, executions, reports>>
  /\ UNCHANGED <<issued, request, analytics, day, batches>>

PipelineInit ==
  /\ schemas = <<>> /\ scenarios = <<>> /\ executions = <<>> /\ reports = <<>>
  /\ issued = 0
  /\ request = [k \in Slots |-> Idle]
  /\ analytics = <<>>
  /\ day = 0
  /\ batches = <<>>
  /\ saves = 0

PipelineNext ==
  \/ \E file \in Files : Upload(file)
  \/ \E k \in Slots, id \in Ids(schemas) : StartGenerate(k, id)
  \/ \E k \in Slots, answer \in Replies : GenerateEndpoint(k, answer)
  \/ \E k \in Slots : EndGenerate(k)
  \/ \E k \in Slots, ids \in IdLists(batches) : StartExecution(k, ids)
  \/ \E k \in Slots, target \in Targets : EndExecution(k, target)
  \/ \E id \in Ids(executions), today \in day..MaxDay : ReportOn(id, today)
  \/ \E id \in Ids(reports) : StoreReport(id)
  \/ Expire

PipelineSpec == PipelineInit /\ [][PipelineNext]_pipelineVars
--------------------------------------------------------------------------
(* Properties.                                                           *)

\* What the collections hold has the shape of the models.
PipelineTypeOK ==
  /\ \A i \in DOMAIN schemas : IsSpec(schemas[i].doc)
  /\ \A i \in DOMAIN scenarios : IsScenario(scenarios[i].doc)
  /\ \A i \in DOMAIN executions : executions[i].doc.total = Len(executions[i].doc.results)
  /\ issued \in Nat /\ day \in 0..MaxDay
  /\ \A k \in Slots : request[k].op \in {"idle", "generate", "execute"}
  /\ \A file \in ProtocolFiles, protocol \in {"rest", "grpc", "graphql"} :
       LET answer == ParseV2(file, protocol)
       IN  answer.op = "parse" =>
             /\ \A i \in DOMAIN answer.services : \A j \in DOMAIN answer.services[i].methods :
                  answer.services[i].methods[j].type \in StreamingTypes
             /\ \A i \in DOMAIN answer.operations : answer.operations[i].field.type \in MappedTypes

\* However the models answered, what generate returns tests every endpoint of
\* the schema in every way the rules know.
EveryEndpointCovered ==
  \A b \in ToSet(batches) : Covered(b.endpoints, b.scenarios) /\ Len(b.ids) = Len(b.scenarios)

\* An execution has one result for each id that was asked for, in that order
\* and of the scenario that was generated under it, whatever the store forgot
\* in the meantime.
ExecutionsAnswer ==
  [][\A k \in Slots : request[k].op = "execute" /\ request'[k] = Idle =>
       LET asked   == request[k].ids
           results == Last(executions').doc.results
       IN  /\ Len(results) = Len(asked)
           /\ \A i \in DOMAIN asked : results[i].scenario = asked[i] /\
                \E b \in ToSet(batches) : \E n \in DOMAIN b.ids :
                  /\ b.ids[n] = asked[i]
                  /\ b.scenarios[n].type = results[i].type
                  /\ b.scenarios[n].severity = results[i].severity]_pipelineVars

\* The numbers of a report account for the results it carries: what passed
\* and what failed are all of them, its findings are what failed, the worst
\* first, and each result that found something has a row marked so in its
\* export, which marks no other when no scenario was run twice.
ReportsAccount ==
  \A i \in DOMAIN reports :
    LET r == reports[i].doc
        s == r.summary
    IN  /\ s.passed + s.failed = s.total /\ s.total = Len(r.test.results)
        /\ s.failed = Len(r.findings) /\ SumOf(s.severities) = s.failed
        /\ s.rate <= 10000 /\ s.errors <= s.passed
        /\ \A m, n \in DOMAIN r.findings : m < n =>
             SeverityRank[r.findings[m].severity] <= SeverityRank[r.findings[n].severity]
        /\ \A n \in DOMAIN r.test.results :
             LET marked == CsvRows(r)[n].vulnerable
             IN  /\ r.test.results[n].vulnerable => marked
                 /\ marked => \E m \in DOMAIN r.test.results :
                      /\ r.test.results[m].vulnerable
                      /\ r.test.results[m].scenario = r.test.results[n].scenario
        /\ HtmlReport(r).passRate <= 10000

\* In a comparison each finding of the later report is either in the details
\* of what is new or among the changes of severity, and the details show as
\* many different findings as are counted; a summary's severities and its
\* trends add up to its vulnerabilities, whatever the period.
AnalyticsBalance ==
  /\ \A a, b \in Ids(reports) :
       LET c == Compare(a, b).result
       IN  /\ c.changes.increased + c.changes.decreased + c.changes.unchanged + Len(c.newDetails)
                = Len(Document(reports, b).findings)
           /\ c.new = Cardinality(FindingKeys(c.newDetails))
           /\ c.resolved = Cardinality(FindingKeys(c.resolvedDetails))
  /\ \A period \in DOMAIN DaysOf :
       LET s == GetSummary(period).result
       IN  /\ SumOf(s.severities) = s.vulnerabilities
           /\ s.vulnerabilities = SumOf([i \in 1..(MaxDay + 1) |->
                IF i - 1 \in DOMAIN s.trends THEN s.trends[i - 1].total ELSE 0])
           /\ s.passRate \in Nat /\ s.passRate <= 10000

\* The specs in the store survive an export to Postman and back, but for
\* superfluous slashes in their paths, and when the resolver cannot resolve a
\* document the parser still finds the fields of its bodies, if none is a
\* reference itself and their schemas are one reference away.
SpecsSurvive ==
  \A i \in DOMAIN schemas :
    LET spec == schemas[i].doc
        doc  == spec.document
        flat == /\ \A c \in DOMAIN doc.components : doc.components[c].schema.ref = "none"
                /\ \A n \in DOMAIN doc.items : \A j \in DOMAIN doc.items[n].ops : ~doc.items[n].ops[j].body.isRef
        bare == ExtractEndpoints([doc EXCEPT !.resolvable = FALSE])
    IN  /\ PostmanKeeps(spec)
        /\ flat => \A n \in DOMAIN bare : bare[n].body = spec.endpoints[n].body

\* "Findings present in comparison but not baseline" (models/analytics.py:54):
\* a finding is of an endpoint and of a type.
NewFindingsCounted ==
  \A a, b \in Ids(reports) :
    LET endpointOf(f) ==
          (CHOOSE s \in UNION {{[id |-> c.ids[n], doc |-> c.scenarios[n]] : n \in DOMAIN c.ids} :
                               c \in ToSet(batches)} : s.id = f.scenario).doc.endpoint
        found(r) == {<<endpointOf(f), f.type>> : f \in ToSet(Document(reports, r).findings)}
    IN  Compare(a, b).result.new = Cardinality(found(b) \ found(a))
===========================================================================
