--------------------------- MODULE SchemaParser ---------------------------
(***************************************************************************)
(* How services/schema_parser.py turns an uploaded OpenAPI document into   *)
(* the endpoints of an APISpec (models/schema.py).                         *)
(*                                                                         *)
(* A document is a record: its text is JSON or YAML or neither, and if it  *)
(* is a mapping it has components, path items and operations in the order  *)
(* of the file. A name stands for a $ref to the component of that name,    *)
(* and "none" for a key that is absent. A path is split at its slashes:    *)
(* "/users/" is <<"", "users", "">>.                                       *)
(***************************************************************************)
EXTENDS Naturals, Sequences, SequencesExt, Selection

NoBody == [content |-> "none", required |-> FALSE, fields |-> <<>>]
NoSpec == [endpoints |-> <<>>, server |-> "none", document |-> "none"]

MethodMap == [get |-> "GET", post |-> "POST", put |-> "PUT", patch |-> "PATCH",
              delete |-> "DELETE", head |-> "HEAD", options |-> "OPTIONS"]
Methods   == {MethodMap[m] : m \in DOMAIN MethodMap}

MappedTypes == {"string", "integer", "number", "boolean", "array", "object", "null"}

\* Fault variant: a type that is not in the map is taken as it is.
TypeMapLoose(t) == t

TypeMap(t) == IF t \in MappedTypes THEN t ELSE "string"

\* The fields, parameters, bodies, responses and endpoints of an APISpec.
IsField(f) ==
  DOMAIN f = {"name", "type", "required", "enum", "format"} /\ f.type \in MappedTypes
IsParameter(p) ==
  /\ DOMAIN p = {"name", "in", "type", "required"}
  /\ p.in \in {"query", "header", "path", "cookie"} /\ p.type \in MappedTypes
IsBody(b) == b.required \in BOOLEAN /\ \A i \in DOMAIN b.fields : IsField(b.fields[i])
IsEndpoint(e) ==
  /\ DOMAIN e = {"path", "method", "params", "body", "responses"}
  /\ IsList(e.path) /\ e.method \in Methods
  /\ \A i \in DOMAIN e.params : IsParameter(e.params[i])
  /\ IsBody(e.body)
  /\ \A i \in DOMAIN e.responses : DOMAIN e.responses[i] = {"status", "content", "ref"}
IsSpec(s) == \A i \in DOMAIN s.endpoints : IsEndpoint(s.endpoints[i])

\* A document as it is read: what JSON has a list for is a list, a body says
\* whether it is required, a parameter where it is. In a document prance does
\* not refuse, every reference of a component or a body leads to a component.
IsOperation(doc, op) ==
  /\ IsList(op.params) /\ \A i \in DOMAIN op.params : op.params[i].in \in {"query", "header", "path", "cookie"}
  /\ {op.body.given, op.body.isRef, op.body.required} \subseteq BOOLEAN /\ IsList(op.body.content)
  /\ \A i \in DOMAIN op.body.content :
       LET schema == op.body.content[i].schema
       IN  /\ IsList(schema.props)
           /\ doc.resolvable => schema.ref \in DOMAIN doc.components \cup {"none"}
IsDocument(doc) ==
  /\ {"components", "items", "resolvable"} \subseteq DOMAIN doc
  /\ IsFiniteSet(DOMAIN doc.components)
  /\ \A c \in DOMAIN doc.components :
       LET schema == doc.components[c].schema
       IN  /\ IsList(schema.props)
           /\ doc.resolvable => schema.ref \in DOMAIN doc.components \cup {"none"}
  /\ IsList(doc.items)
  /\ \A i \in DOMAIN doc.items :
       LET item == doc.items[i]
       IN  /\ IsList(item.path) /\ item.path # <<>> /\ IsList(item.params) /\ IsList(item.ops)
           /\ \A j \in DOMAIN item.params : item.params[j].in \in {"query", "header", "path", "cookie"}
           /\ \A j \in DOMAIN item.ops : IsOperation(doc, item.ops[j])
--------------------------------------------------------------------------
\* prance's ResolvingParser replaces every $ref by what it leads to, or
\* refuses the whole document, which is then used as it is.
Resolving(doc, schema) ==
  LET follow[n \in 0..Cardinality(DOMAIN doc.components)] ==
        IF n = 0 \/ schema.ref = "none" THEN schema
        ELSE LET s == follow[n - 1]
             IN  IF s.ref = "none" THEN s ELSE doc.components[s.ref].schema
  IN  IF doc.resolvable THEN follow[Cardinality(DOMAIN doc.components)] ELSE schema

\* _resolve_ref: one step, by the parser itself; {} when it leads nowhere.
ResolveRef(doc, ref) ==
  IF ref \in DOMAIN doc.components THEN doc.components[ref].schema
  ELSE [ref |-> "none", type |-> "none", items |-> "none", props |-> <<>>]

BuildFieldConstraint(p) ==
  [name |-> p.name, type |-> TypeMap(p.type), required |-> p.required,
   enum |-> p.enum, format |-> p.format]

\* infer_types: the properties, or one nameless field for a schema with a type.
InferTypes(schema) ==
  IF schema.props # <<>>
  THEN [i \in DOMAIN schema.props |-> BuildFieldConstraint(schema.props[i])]
  ELSE IF schema.type # "none"
       THEN <<[name |-> "", type |-> TypeMap(schema.type), required |-> FALSE,
               enum |-> FALSE, format |-> "none"]>>
       ELSE <<>>

\* A parameter that is still a $ref has none of the keys it is asked for.
ParseParameters(doc, raw) ==
  [i \in DOMAIN raw |->
     IF raw[i].isRef /\ ~doc.resolvable
     THEN [name |-> "", in |-> "query", type |-> "string", required |-> FALSE]
     ELSE [name |-> raw[i].name, in |-> raw[i].in, type |-> TypeMap(raw[i].type),
           required |-> raw[i].required]]

\* What is made of a body with no content, as is a $ref the resolver left.
BareBody(required) == [content |-> "application/json", required |-> required, fields |-> <<>>]

\* Fault variant: a reference the resolver left is not looked up.
ParseRequestBodyPlain(doc, raw) ==
  IF ~raw.given THEN NoBody
  ELSE IF raw.isRef /\ ~doc.resolvable THEN BareBody(FALSE)
  ELSE IF raw.content = <<>> THEN BareBody(raw.required)
  ELSE [content |-> raw.content[1].type, required |-> raw.required,
        fields |-> InferTypes(Resolving(doc, raw.content[1].schema))]

\* The first content type counts. The schema's $ref is looked up once more,
\* that of a whole body is not.
ParseRequestBody(doc, raw) ==
  IF ~raw.given THEN NoBody
  ELSE IF raw.isRef /\ ~doc.resolvable THEN BareBody(FALSE)
  ELSE IF raw.content = <<>> THEN BareBody(raw.required)
  ELSE LET schema == Resolving(doc, raw.content[1].schema)
           known  == IF schema.ref = "none" THEN schema ELSE ResolveRef(doc, schema.ref)
       IN  [content |-> raw.content[1].type, required |-> raw.required, fields |-> InferTypes(known)]

\* The reference is the last one the raw document has, of a schema or of the
\* items of an array; the content type is the first.
ParseResponse(raw) ==
  LET refs == Filter([i \in DOMAIN raw.content |->
                LET s == raw.content[i].schema IN IF s.ref # "none" THEN s.ref ELSE s.items],
              LAMBDA r : r # "none")
  IN  [status |-> raw.status,
       content |-> IF raw.content = <<>> THEN "none" ELSE raw.content[1].type,
       ref |-> IF refs = <<>> THEN "none" ELSE Last(refs)]

ParsedOperation(doc, item, op) ==
  [path |-> item.path, method |-> MethodMap[op.method],
   params |-> ParseParameters(doc, item.params \o op.params),
   body |-> ParseRequestBody(doc, op.body),
   responses |-> [i \in DOMAIN op.responses |-> ParseResponse(op.responses[i])]]

\* extract_endpoints: keys that are no method, and values that are no mapping,
\* are skipped.
ExtractEndpoints(doc) ==
  FlattenSeq([i \in DOMAIN doc.items |->
    LET item == doc.items[i]
        ops  == Filter(item.ops, LAMBDA op : op.method \in DOMAIN MethodMap /\ op.mapping)
    IN  IF item.mapping THEN [j \in DOMAIN ops |-> ParsedOperation(doc, item, ops[j])] ELSE <<>>])

\* What parse() raises ValueError for: no JSON (or YAML), no mapping, no version.
Readable(doc, suffix) ==
  /\ doc.text = "json" \/ (doc.text = "yaml" /\ suffix \in {".yaml", ".yml"})
  /\ doc.mapping /\ doc.openapi

ExtractBaseUrl(doc) == IF doc.servers = <<>> THEN "none" ELSE doc.servers[1]

Parse(doc, suffix) ==
  IF ~Readable(doc, suffix) THEN NoSpec
  ELSE [endpoints |-> ExtractEndpoints(doc), server |-> ExtractBaseUrl(doc), document |-> doc]
--------------------------------------------------------------------------
(* The parsers of routers/schemas_v2.py.                                 *)

\* A .proto or GraphQL file: a service has a list of methods, each of the
\* three types a list of fields.
IsProtocolFile(file) ==
  /\ IsList(file.services)
  /\ \A i \in DOMAIN file.services :
       LET body == file.services[i].body
       IN  IsList(body) /\ \A j \in DOMAIN body : {body[j].clientStreams, body[j].serverStreams} \subseteq BOOLEAN
  /\ \A type \in {"query", "mutation", "subscription"} : IsList(file.fields[type])

DetectProtocol(suffix) ==
  CASE suffix = ".proto" -> "grpc"
    [] suffix \in {".graphql", ".gql", ".graphqls"} -> "graphql"
    [] OTHER -> "rest"

StreamingTypes == {"unary", "server_streaming", "client_streaming", "bidi_streaming"}

StreamingType(m) ==
  CASE m.clientStreams /\ m.serverStreams   -> "bidi_streaming"
    [] ~m.clientStreams /\ m.serverStreams  -> "server_streaming"
    [] m.clientStreams /\ ~m.serverStreams  -> "client_streaming"
    [] ~m.clientStreams /\ ~m.serverStreams -> "unary"

\* The pattern takes message names of word characters: a method with a
\* package-qualified message is not seen.
ExtractMethods(body) ==
  LET seen == Filter(body, LAMBDA m : ~m.qualified)
  IN  [i \in DOMAIN seen |-> [name |-> seen[i].name, type |-> StreamingType(seen[i]),
                              request |-> seen[i].request, response |-> seen[i].response]]

GrpcParse(file) ==
  [i \in DOMAIN file.services |->
     [name |-> file.services[i].name, package |-> file.package,
      methods |-> ExtractMethods(file.services[i].body)]]

GraphQLTypes == [String |-> "string", Int |-> "integer", Float |-> "number",
                 Boolean |-> "boolean", ID |-> "string"]
GraphQLType(t) == IF t \in DOMAIN GraphQLTypes THEN GraphQLTypes[t] ELSE "object"

\* The pattern ends at the bracket of a list: the mark that counts is that of
\* the element, not the list's own.
ExtractField(f) ==
  [name |-> f.name, type |-> GraphQLType(f.type),
   nullable |-> IF f.list THEN ~f.elementRequired ELSE ~f.required,
   arguments |-> [i \in DOMAIN f.args |->
     [name |-> f.args[i].name, type |-> GraphQLType(f.args[i].type), required |-> f.args[i].required]]]

\* _extract_operations: one per field, the queries first.
GraphQLParse(file) ==
  FlattenSeq([k \in 1..3 |->
    LET type   == <<"query", "mutation", "subscription">>[k]
        fields == file.fields[type]
    IN  [i \in DOMAIN fields |-> [kind |-> type, field |-> ExtractField(fields[i])]]])
===========================================================================
