-------------------------- MODULE PostmanAdapter --------------------------
(***************************************************************************)
(* services/postman_adapter.py: an APISpec exported as a Postman v2.1      *)
(* collection, and a collection imported as an APISpec. A collection is    *)
(* the record of what its JSON holds; its path is the list of the          *)
(* segments between the slashes, of which none is empty.                   *)
(***************************************************************************)
EXTENDS SchemaParser

\* An entry of a query, path or header list; a path variable cannot be disabled.
ExportedParams(e, location) ==
  LET of == Filter(e.params, LAMBDA p : p.in = location)
  IN  [i \in DOMAIN of |-> [key |-> of[i].name, disabled |-> ~of[i].required]]

\* The mode of the body for a content type (one type stands for all that
\* contain json, xml, form-data or urlencoded); any other type has no body.
BodyModes ==
  [content \in {"application/json", "application/xml", "multipart/form-data",
                "application/x-www-form-urlencoded"} |->
     CASE content = "application/json"    -> "raw"
       [] content = "application/xml"     -> "xml"
       [] content = "multipart/form-data" -> "formdata"
       [] OTHER                           -> "urlencoded"]

ExportedBody(b) ==
  IF b.content \notin DOMAIN BodyModes THEN [mode |-> "none", keys |-> <<>>]
  ELSE [mode |-> BodyModes[b.content],
        keys |-> IF b.content = "application/xml" THEN <<>>
                 ELSE [i \in DOMAIN b.fields |-> b.fields[i].name]]

\* A status that is no number becomes 200.
ExportedCode(status) == IF status \in {"default", "1XX", "2XX", "3XX", "4XX", "5XX"} THEN "200" ELSE status

Segments(path) == Filter(path, LAMBDA s : s # "")

EndpointToItem(e) ==
  [method |-> e.method, path |-> Segments(e.path),
   query |-> ExportedParams(e, "query"), variable |-> ExportedParams(e, "path"),
   header |-> ExportedParams(e, "header"), body |-> ExportedBody(e.body),
   response |-> [i \in DOMAIN e.responses |-> [code |-> ExportedCode(e.responses[i].status)]]]

\* Items may be folders; the exporter makes none.
ExportCollection(spec) ==
  [version |-> "v2.1", server |-> spec.server,
   item |-> [i \in DOMAIN spec.endpoints |-> EndpointToItem(spec.endpoints[i])]]

\* Fault variant: a query parameter is required when it is disabled.
ParsePostmanParamsFlipped(item) ==
  LET entry(in, q) == [name |-> q.key, in |-> in, type |-> "string",
                       required |-> in = "path" \/ q.disabled]
  IN  [i \in DOMAIN item.query    |-> entry("query", item.query[i])]
   \o [i \in DOMAIN item.variable |-> entry("path", item.variable[i])]
   \o [i \in DOMAIN item.header   |-> entry("header", item.header[i])]

\* Everything is a string; what is not disabled is required.
ParsePostmanParams(item) ==
  LET entry(in, q) == [name |-> q.key, in |-> in, type |-> "string",
                       required |-> in = "path" \/ ~q.disabled]
  IN  [i \in DOMAIN item.query    |-> entry("query", item.query[i])]
   \o [i \in DOMAIN item.variable |-> entry("path", item.variable[i])]
   \o [i \in DOMAIN item.header   |-> entry("header", item.header[i])]

ContentOfMode == [raw |-> "application/json", xml |-> "application/xml",
                  formdata |-> "multipart/form-data",
                  urlencoded |-> "application/x-www-form-urlencoded"]

\* The values of an exported body are all strings, so its fields are; those
\* of a form come back required, the others not.
ParsePostmanBody(item) ==
  IF item.body.mode = "none" THEN NoBody
  ELSE [content |-> ContentOfMode[item.body.mode], required |-> TRUE,
        fields |-> [i \in DOMAIN item.body.keys |->
          [name |-> item.body.keys[i], type |-> "string",
           required |-> item.body.mode = "formdata", enum |-> FALSE, format |-> "none"]]]

ParsePostmanResponses(item) ==
  [i \in DOMAIN item.response |->
     [status |-> item.response[i].code, content |-> "application/json", ref |-> "none"]]

\* Without a segment the path is looked for behind the host of the raw URL; an
\* exported one has "{{base_url}}" or nothing for a host, and "/" is found.
PathOf(item) == IF item.path = <<>> THEN <<"", "">> ELSE <<"">> \o item.path

ParseRequest(item) ==
  [path |-> PathOf(item), method |-> item.method, params |-> ParsePostmanParams(item),
   body |-> ParsePostmanBody(item), responses |-> ParsePostmanResponses(item)]

\* Only version 2.1 is taken; a request with an unknown method is left out.
ImportCollection(c) ==
  IF c.version # "v2.1" THEN NoSpec
  ELSE LET known == Filter(c.item, LAMBDA item : item.method \in Methods)
       IN  [endpoints |-> [i \in DOMAIN known |-> ParseRequest(known[i])],
            server |-> c.server, document |-> "none"]
--------------------------------------------------------------------------
Named(params)  == {<<p.in, p.name, p.required>> : p \in {q \in ToSet(params) : q.in # "cookie"}}
FieldNames(b)  == [i \in DOMAIN b.fields |-> b.fields[i].name]

\* A path that begins with a slash and has none behind or beside another:
\* "/", "/users", "/users/{id}".
Tidy(path) ==
  /\ Len(path) >= 2 /\ path[1] = ""
  /\ path = <<"", "">> \/ \A i \in DOMAIN path : i > 1 => path[i] # ""

\* A spec that is exported to Postman and imported again has the endpoints it
\* had, with the segments of their paths (and the very paths, where no slash
\* is superfluous), their parameters (cookies excepted) and whether those are
\* required, and with their body's fields under a content type both know.
PostmanKeeps(spec) ==
  LET again == ImportCollection(ExportCollection(spec))
  IN  /\ Len(again.endpoints) = Len(spec.endpoints)
      /\ \A i \in DOMAIN spec.endpoints :
           LET e == spec.endpoints[i]
               f == again.endpoints[i]
           IN  /\ Segments(f.path) = Segments(e.path) /\ f.method = e.method
               /\ Tidy(e.path) => f.path = e.path
               /\ Named(f.params) = {<<n[1], n[2], n[1] = "path" \/ n[3]>> : n \in Named(e.params)}
               /\ e.body.content \in DOMAIN BodyModes \ {"application/xml"} =>
                    f.body.content = e.body.content /\ FieldNames(f.body) = FieldNames(e.body)
===========================================================================
