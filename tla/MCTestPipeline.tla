-------------------------- MODULE MCTestPipeline --------------------------
(***************************************************************************)
(* Small instances of TestPipeline: three documents, two ways a model      *)
(* answers and two targets. A burst is completed whatever happens in it.   *)
(***************************************************************************)
EXTENDS TestPipeline

Plain(type)  == [ref |-> "none", type |-> type, items |-> "none", props |-> <<>>]
To(name)     == [Plain("none") EXCEPT !.ref = name]
Prop(n, t, r, e, f) == [name |-> n, type |-> t, required |-> r, enum |-> e, format |-> f]
Operation(m, params, body, responses) ==
  [method |-> m, mapping |-> TRUE, params |-> params, body |-> body, responses |-> responses]
NoRawBody    == [given |-> FALSE, isRef |-> FALSE, required |-> FALSE, content |-> <<>>]
Body(type, schema) ==
  [given |-> TRUE, isRef |-> FALSE, required |-> TRUE, content |-> <<[type |-> type, schema |-> schema]>>]
Param(n, in, t, r, isRef) == [name |-> n, in |-> in, type |-> t, required |-> r, isRef |-> isRef]

User == [Plain("object") EXCEPT !.props =
           <<Prop("email", "string", TRUE, FALSE, "email"), Prop("age", "integer", FALSE, FALSE, "none"),
             Prop("role", "enumeration", FALSE, TRUE, "none")>>]

Reply(content) == [status |-> "2XX", content |-> content]

\* A reference in a body and in a response; query, path and cookie parameters;
\* a path item and an operation that are no mappings.
Users ==
  [title |-> "Users", text |-> "json", mapping |-> TRUE, openapi |-> TRUE, resolvable |-> TRUE,
   components |-> [User |-> [schema |-> User]], servers |-> <<"https://api">>,
   items |-> <<[path |-> <<"", "users", "">>, mapping |-> TRUE, params |-> <<Param("q", "query", "string", FALSE, FALSE)>>,
                ops |-> <<Operation("post", <<Param("sid", "cookie", "string", TRUE, TRUE)>>,
                                    Body("application/json", To("User")),
                                    <<Reply(<<[type |-> "application/json", schema |-> To("User")]>>)>>),
                          Operation("trace", <<>>, NoRawBody, <<>>),
                          [Operation("put", <<>>, NoRawBody, <<>>) EXCEPT !.mapping = FALSE]>>],
               [path |-> <<"", "broken">>, mapping |-> FALSE, params |-> <<>>, ops |-> <<>>]>>]

\* A document prance refuses; an endpoint with nothing to tamper with.
Orders ==
  [Users EXCEPT !.title = "Orders", !.text = "yaml", !.resolvable = FALSE, !.servers = <<>>,
     !.components = [Name |-> [schema |-> Plain("string")]],
     !.items = <<[path |-> <<"", "orders">>, mapping |-> TRUE, params |-> <<>>,
                  ops |-> <<Operation("get", <<>>, NoRawBody, <<>>),
                            Operation("put", <<Param("id", "path", "integer", TRUE, TRUE)>>,
                                      Body("text/plain", To("Name")), <<>>)>>]>>]

\* Another version of Orders under the same title, at the root; its body is a
\* reference, which nothing resolves.
NewOrders ==
  [Orders EXCEPT !.text = "json", !.items =
     <<[path |-> <<"", "">>, mapping |-> TRUE, params |-> <<>>,
        ops |-> <<Operation("put", <<>>, [Body("application/json", To("Name")) EXCEPT !.isRef = TRUE], <<>>)>>]>>]

File(name, size, typed, document) ==
  [name |-> name, size |-> size, typed |-> typed, document |-> document]
MCFiles ==
  {File("json", "fits", TRUE, Users), File("yml", "fits", TRUE, Orders),
   File("json", "fits", TRUE, NewOrders), File("json", "fits", TRUE, Orders),
   File("", "fits", TRUE, Users), File("json", "large", TRUE, Users),
   File("json", "fits", FALSE, Users), File("json", "fits", TRUE, [Users EXCEPT !.openapi = FALSE])}

Item(type, severity) == [mapping |-> TRUE, valid |-> TRUE, type |-> type, severity |-> severity]
MCReplies ==
  {[json |-> TRUE, items |-> <<Item("dependency_failure", "critical"),
                               [Item("none", "none") EXCEPT !.mapping = FALSE], Item("none", "none")>>],
   [json |-> TRUE, items |-> <<Item("latency", "info"), [Item("latency", "low") EXCEPT !.valid = FALSE]>>]}

Steady(answer) == [t \in Injected |-> <<answer, answer>>]
MCTargets ==
  {[Steady("vulnerable") EXCEPT !["error_status"] = <<"failed", "timeout">>, !["latency"] = <<"safe", "timeout">>],
   [Steady("safe") EXCEPT !["request_tampering"] = <<"safe", "vulnerable">>]}

Rpc(name, from, to, qualified) ==
  [name |-> name, clientStreams |-> from, serverStreams |-> to, qualified |-> qualified,
   request |-> "Order", response |-> "Receipt"]
Field(name, type, list, required, args) ==
  [name |-> name, type |-> type, list |-> list, elementRequired |-> FALSE, required |-> required,
   args |-> args]
NoFields == [query |-> <<>>, mutation |-> <<>>, subscription |-> <<>>]
MCProtocolFiles ==
  {[suffix |-> ".proto", package |-> "shop", fields |-> NoFields,
    services |-> <<[name |-> "Shop", body |-> <<Rpc("Order", FALSE, FALSE, FALSE), Rpc("Watch", FALSE, TRUE, FALSE),
                                               Rpc("Send", TRUE, FALSE, TRUE), Rpc("Talk", TRUE, TRUE, FALSE)>>]>>],
   [suffix |-> ".graphql", package |-> "", services |-> <<>>,
    fields |-> [query |-> <<Field("orders", "Order", TRUE, TRUE, <<>>)>>,
                mutation |-> <<Field("order", "ID", FALSE, TRUE,
                                     <<[name |-> "n", type |-> "Int", required |-> TRUE]>>)>>,
                subscription |-> <<>>]]}

\* A whole batch, one of its scenarios twice, an id that was never given out,
\* and scenarios of two batches.
MCIdLists(calls) ==
  UNION {{b.ids, <<Last(b.ids), b.ids[8], Last(b.ids)>>, <<b.ids[1], 0>>} : b \in ToSet(calls)}
    \cup {<<Last(p[1].ids), Last(p[2].ids)>> : p \in {q \in ToSet(calls) \X ToSet(calls) : q[1] # q[2]}}

SymmetricSlots == Permutations(Slots)
--------------------------------------------------------------------------
\* A behaviour is one of two kinds. With many documents, replies and targets
\* and two requests at a time, few documents are saved; with one document and
\* one request at a time, more, over three days: enough for a batch executed
\* twice, as the API fails in one way or two, with both results reported on,
\* and for two reports of different days in the analytics.
VARIABLE focus

Document1   == File("json", "fits", TRUE, Users)
NoReply     == [json |-> FALSE, items |-> <<>>]
TwoTargets  == {[Steady("safe") EXCEPT !["request_tampering"] = <<"vulnerable", "vulnerable">>],
                [Steady("vulnerable") EXCEPT !["rate_limit"] = <<"safe", "safe">>]}

CONSTANTS FewSaves, FewDays   \* bounds for the first kind

OneRequest(k) == \A j \in Slots \ {k} : request[j] = Idle

RequestsNext ==
  \/ \E file \in Files : Upload(file)
  \/ \E k \in Slots :
       \/ \E answer \in Replies : GenerateEndpoint(k, answer)
       \/ EndGenerate(k)
       \/ \E target \in Targets : EndExecution(k, target)
  \/ /\ saves < FewSaves
     /\ \/ \E k \in Slots :
             \/ \E id \in Ids(schemas) : StartGenerate(k, id)
             \/ \E ids \in IdLists(batches) : StartExecution(k, ids)
        \/ \E id \in Ids(executions), today \in day..FewDays : ReportOn(id, today)
        \/ \E id \in Ids(reports) : StoreReport(id)
        \/ Expire

AnalyticsNext ==
  \/ schemas = <<>> /\ Upload(Document1)
  \/ \E k \in Slots :
       /\ OneRequest(k)
       /\ \/ \E id \in Ids(schemas) : StartGenerate(k, id)
          \/ GenerateEndpoint(k, NoReply)
          \/ EndGenerate(k)
          \/ \E b \in ToSet(batches) : StartExecution(k, b.ids)
          \/ \E target \in TwoTargets : EndExecution(k, target)
  \/ \E id \in Ids(executions), today \in day..MaxDay : ReportOn(id, today)
  \/ \E id \in Ids(reports) : StoreReport(id)

MCInit == focus \in {"requests", "analytics"} /\ PipelineInit
MCNext ==
  /\ \/ focus = "requests" /\ RequestsNext
     \/ focus = "analytics" /\ AnalyticsNext
  /\ UNCHANGED focus
MCSpec == MCInit /\ [][MCNext]_<<pipelineVars, focus>>
===========================================================================
