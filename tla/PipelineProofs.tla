--------------------------- MODULE PipelineProofs ---------------------------
(***************************************************************************)
(* Proofs about TestPipeline, for any documents, replies, targets, number  *)
(* of requests and size of the collections.                                *)
(***************************************************************************)
EXTENDS TestPipeline, CommonLemmas
--------------------------------------------------------------------------
(* What the collections hold.                                            *)

Specs     == {Parse(f.document, SuffixFor(f)) : f \in {g \in Files : Readable(g.document, SuffixFor(g))}}
Endpoints == UNION {ToSet(s.endpoints) : s \in Specs}
Chaos     == [type : ScenarioTypes, severity : ToSet(Severities), endpoint : {Place(e) : e \in Endpoints}]
Result    == {r \in [scenario : Nat, type : ScenarioTypes, severity : ToSet(Severities),
                      status : {"failed", "timeout", "completed"}, vulnerable : BOOLEAN] :
                r.vulnerable => r.status = "completed"}
Tests     == {[total |-> Len(rs), results |-> rs] : rs \in Seq(Result)}
Reports   == {GenerateReport(t, d) : t \in Tests, d \in 0..MaxDay}
Stored(D) == [id : Nat, doc : D]
Batch     == [ids : Seq(Nat), scenarios : Seq(Chaos), endpoints : Seq(Endpoints)]

Generating == [op : {"generate"}, endpoints : Seq(Endpoints), next : Nat, made : Seq(Chaos)]
Executing  == [op : {"execute"}, ids : Seq(Nat), load : Seq(Stored(Chaos))]

CollectionsOK ==
  /\ schemas \in Seq(Stored(Specs))
  /\ scenarios \in Seq(Stored(Chaos))
  /\ executions \in Seq(Stored(Tests))
  /\ reports \in Seq(Stored(Reports))
  /\ analytics \in Seq(Reports)
  /\ batches \in Seq(Batch)
  /\ issued \in Nat /\ day \in 0..MaxDay

RequestsOK == request \in [Slots -> {Idle} \cup Generating \cup Executing]

\* The document was generated, and given its id, by one of the calls.
Generated(calls, d) ==
  \E i \in DOMAIN calls : \E n \in DOMAIN calls[i].ids :
    calls[i].ids[n] = d.id /\ calls[i].scenarios[n] = d.doc

\* So many scenarios of the type are for the endpoint.
Enough(e, type, n, made) == Count(made, LAMBDA s : s.endpoint = Place(e) /\ s.type = type) >= n

\* What the rules give each endpoint.
CoveredOne(e, made) ==
  /\ Enough(e, "latency", 3, made)
  /\ Enough(e, "error_status", 4, made)
  /\ Enough(e, "rate_limit", 2, made)
  /\ Enough(e, "request_tampering", 1, made)

Provenance ==
  /\ \A i \in DOMAIN scenarios : Generated(batches, scenarios[i])
  /\ \A k \in Slots : request[k].op = "execute" =>
       /\ Len(request[k].load) = Len(request[k].ids)
       /\ \A i \in DOMAIN request[k].ids :
            request[k].load[i].id = request[k].ids[i] /\ Generated(batches, request[k].load[i])

Coverage ==
  /\ \A k \in Slots : request[k].op = "generate" =>
       \A i \in DOMAIN request[k].endpoints : i < request[k].next =>
         CoveredOne(request[k].endpoints[i], request[k].made)
  /\ \A i \in DOMAIN batches :
       Covered(batches[i].endpoints, batches[i].scenarios) /\ Len(batches[i].ids) = Len(batches[i].scenarios)

PipelineInv == CollectionsOK /\ RequestsOK /\ Provenance /\ Coverage
--------------------------------------------------------------------------
(* Lists.                                                                *)

LEMMA ListFacts ==
  ASSUME NEW s, IsList(s)
  PROVE  Len(s) \in Nat /\ DOMAIN s = 1..Len(s) /\ s \in Seq(ToSet(s)) /\ s = [i \in 1..Len(s) |-> s[i]]
<1>1. s \in Seq(ToSet(s))
  BY DEF IsList, ToSet
<1>. HIDE DEF ToSet
<1>2. Len(s) \in Nat /\ DOMAIN s = 1..Len(s) /\ s \in [1..Len(s) -> ToSet(s)]
  BY <1>1, LenProperties
<1>. QED BY <1>1, <1>2

LEMMA ListIs ==
  ASSUME NEW n \in Nat, NEW s, s = [i \in 1..n |-> s[i]]
  PROVE  IsList(s) /\ Len(s) = n /\ DOMAIN s = 1..n
<1>. DEFINE S == {s[i] : i \in DOMAIN s}
<1>1. s \in [1..n -> S]
  OBVIOUS
<1>2. s \in Seq(S)
  <2>. HIDE DEF S
  <2>. QED BY <1>1, SeqDef
<1>3. DOMAIN s = 1..Len(s) /\ Len(s) \in Nat
  <2>. HIDE DEF S
  <2>. QED BY <1>2, LenProperties
<1>4. Len(s) = n
  <2>1. DOMAIN s = 1..n
    BY <1>1
  <2>. QED BY <2>1, <1>3
<1>. QED BY <1>2, <1>3, <1>4 DEF IsList

\* A list of a set's elements, and the other way round.
LEMMA ListOf ==
  ASSUME NEW X, NEW s
  PROVE  (IsList(s) /\ \A i \in DOMAIN s : s[i] \in X) <=> s \in Seq(X)
<1>1. ASSUME IsList(s), \A i \in DOMAIN s : s[i] \in X PROVE s \in Seq(X)
  <2>1. ToSet(s) \subseteq X
    BY <1>1 DEF ToSet
  <2>2. s \in Seq(ToSet(s))
    BY <1>1, ListFacts
  <2>. QED BY <2>1, <2>2, SeqMonotonic
<1>2. ASSUME s \in Seq(X) PROVE IsList(s) /\ \A i \in DOMAIN s : s[i] \in X
  <2>1. Len(s) \in Nat /\ s \in [1..Len(s) -> X] /\ DOMAIN s = 1..Len(s)
    BY <1>2, LenProperties
  <2>2. s = [i \in 1..Len(s) |-> s[i]]
    BY <2>1
  <2>3. IsList(s)
    BY <2>1, <2>2, ListIs
  <2>. QED BY <2>1, <2>3
<1>. QED BY <1>1, <1>2

LEMMA EmptyList == IsList(<<>>) /\ DOMAIN <<>> = {} /\ Len(<<>>) = 0
<1>. DEFINE none == <<>>
<1>1. none \in Seq({}) /\ DOMAIN none = {} /\ Len(none) = 0
  OBVIOUS
<1>. HIDE DEF none
<1>2. IsList(none)
  BY <1>1, ListOf
<1>. QED BY <1>1, <1>2 DEF none

\* A list of one or more, written out.
LEMMA Singleton ==
  ASSUME NEW a
  PROVE  IsList(<<a>>) /\ DOMAIN <<a>> = {1} /\ Len(<<a>>) = 1 /\ <<a>>[1] = a
<1>. DEFINE s == <<a>>
<1>1. s \in Seq({a}) /\ DOMAIN s = {1} /\ Len(s) = 1 /\ s[1] = a
  OBVIOUS
<1>. HIDE DEF s
<1>2. IsList(s)
  BY <1>1, ListOf
<1>. QED BY <1>1, <1>2 DEF s

\* Lists one after the other.
LEMMA ConcatLists ==
  ASSUME NEW s, NEW t, IsList(s), IsList(t)
  PROVE  /\ IsList(s \o t) /\ Len(s \o t) = Len(s) + Len(t) /\ DOMAIN (s \o t) = 1..(Len(s) + Len(t))
         /\ \A i \in 1..Len(s) : (s \o t)[i] = s[i]
         /\ \A i \in 1..Len(t) : (s \o t)[Len(s) + i] = t[i]
         /\ \A i \in DOMAIN (s \o t) : \/ i \in DOMAIN s /\ (s \o t)[i] = s[i]
                                       \/ i - Len(s) \in DOMAIN t /\ (s \o t)[i] = t[i - Len(s)]
<1>. DEFINE X == ToSet(s) \cup ToSet(t)
            st == s \o t
<1>1. s \in Seq(ToSet(s)) /\ t \in Seq(ToSet(t)) /\ Len(s) \in Nat /\ Len(t) \in Nat
      /\ DOMAIN s = 1..Len(s) /\ DOMAIN t = 1..Len(t)
  BY ListFacts
<1>2. s \in Seq(X) /\ t \in Seq(X)
  BY <1>1, SeqMonotonic
<1>. HIDE DEF X
<1>3. /\ st \in Seq(X)
      /\ Len(st) = Len(s) + Len(t)
      /\ \A i \in 1..Len(s) + Len(t) : st[i] = IF i <= Len(s) THEN s[i] ELSE t[i - Len(s)]
  BY <1>2, ConcatProperties
<1>. HIDE DEF st
<1>4. IsList(st) /\ DOMAIN st = 1..(Len(s) + Len(t))
  BY <1>3, ListOf, ListFacts
<1>5. \A i \in 1..Len(s) : st[i] = s[i]
  BY <1>1, <1>3
<1>6. ASSUME NEW i \in 1..Len(t) PROVE st[Len(s) + i] = t[i]
  <2>1. Len(s) + i \in 1..Len(s) + Len(t) /\ ~(Len(s) + i <= Len(s)) /\ (Len(s) + i) - Len(s) = i
    BY <1>1
  <2>. QED BY <2>1, <1>3
<1>7. \A i \in DOMAIN st : \/ i \in DOMAIN s /\ st[i] = s[i]
                           \/ i - Len(s) \in DOMAIN t /\ st[i] = t[i - Len(s)]
  BY <1>1, <1>3, <1>4
<1>. QED BY <1>3, <1>4, <1>5, <1>6, <1>7 DEF st

\* A selection from a list is a list.
LEMMA PickList ==
  ASSUME NEW s, IsList(s), NEW I
  PROVE  /\ IsList(Pick(s, I))
         /\ \A k \in DOMAIN Pick(s, I) : \E i \in I \cap DOMAIN s : Pick(s, I)[k] = s[i]
<1>1. s \in Seq(ToSet(s))
  BY ListFacts
<1>2. Pick(s, I) \in Seq(ToSet(s))
  BY <1>1, PickIs
<1>3. PICK at : Picks(s, I, Pick(s, I), at)
  BY <1>1, PickIs
<1>4. IsList(Pick(s, I)) /\ DOMAIN Pick(s, I) = 1..Len(Pick(s, I))
  BY <1>2, ListOf, ListFacts
<1>5. \A k \in 1..Len(Pick(s, I)) : at[k] \in I \cap DOMAIN s /\ Pick(s, I)[k] = s[at[k]]
  BY <1>3 DEF Picks
<1>. QED BY <1>4, <1>5

\* Flattening gives a list of the lists' elements.
Elements(ss) == UNION {ToSet(ss[i]) : i \in DOMAIN ss}
LEMMA FlattenLists ==
  ASSUME NEW ss, IsList(ss), \A i \in DOMAIN ss : IsList(ss[i])
  PROVE  /\ ss \in Seq(Seq(Elements(ss)))
         /\ IsList(FlattenSeq(ss))
         /\ \A k \in DOMAIN FlattenSeq(ss) : \E i \in DOMAIN ss : \E j \in DOMAIN ss[i] :
              FlattenSeq(ss)[k] = ss[i][j]
<1>. DEFINE X == Elements(ss)
<1>1. ASSUME NEW i \in DOMAIN ss PROVE ss[i] \in Seq(X)
  <2>1. \A j \in DOMAIN ss[i] : ss[i][j] \in X
    BY DEF Elements, ToSet
  <2>. HIDE DEF X
  <2>. QED BY <2>1, ListOf
<1>. HIDE DEF X
<1>2. ss \in Seq(Seq(X))
  BY <1>1, ListOf
<1>3. FlattenSeq(ss) \in Seq(X)
  BY <1>2, FlattenIs
<1>4. PICK at : Flattens(ss, Len(ss), FlattenSeq(ss), at)
  BY <1>2, FlattenIs
<1>5. IsList(FlattenSeq(ss)) /\ DOMAIN FlattenSeq(ss) = 1..Len(FlattenSeq(ss))
  BY <1>3, ListOf, ListFacts
<1>6. ASSUME NEW k \in DOMAIN FlattenSeq(ss)
      PROVE  \E i \in DOMAIN ss : \E j \in DOMAIN ss[i] : FlattenSeq(ss)[k] = ss[i][j]
  <2>1. at[k] \in PlacesIn(ss, Len(ss)) /\ FlattenSeq(ss)[k] = ss[at[k][1]][at[k][2]]
    BY <1>4, <1>5 DEF Flattens
  <2>2. at[k][1] \in 1..Len(ss) /\ at[k][2] \in 1..Len(ss[at[k][1]])
    BY <2>1 DEF PlacesIn
  <2>3. DOMAIN ss = 1..Len(ss) /\ \A i \in DOMAIN ss : DOMAIN ss[i] = 1..Len(ss[i])
    BY ListFacts
  <2>. QED BY <2>1, <2>2, <2>3
<1>. QED BY <1>2, <1>5, <1>6 DEF X
--------------------------------------------------------------------------
(* The parser.                                                           *)

LEMMA InferTypesOK ==
  ASSUME NEW schema, IsList(schema.props)
  PROVE  LET fs == InferTypes(schema)
         IN  IsList(fs) /\ \A i \in DOMAIN fs : IsField(fs[i])
<1>. DEFINE n  == Len(schema.props)
            fs == InferTypes(schema)
<1>1. n \in Nat /\ DOMAIN schema.props = 1..n
  BY ListFacts
<1>2. \A t : TypeMap(t) \in MappedTypes
  BY DEF TypeMap, MappedTypes
<1>3. \A p : IsField(BuildFieldConstraint(p))
  BY <1>2 DEF IsField, BuildFieldConstraint
<1>4. CASE schema.props # <<>>
  <2>1. fs = [i \in 1..n |-> BuildFieldConstraint(schema.props[i])]
    BY <1>4, <1>1 DEF InferTypes
  <2>. HIDE DEF fs
  <2>2. fs = [i \in 1..n |-> fs[i]]
    BY <2>1
  <2>3. IsList(fs) /\ DOMAIN fs = 1..n
    BY <1>1, <2>2, ListIs
  <2>4. \A i \in 1..n : IsField(fs[i])
    BY <1>3, <2>1
  <2>. QED BY <2>3, <2>4 DEF fs
<1>5. CASE schema.props = <<>> /\ schema.type # "none"
  <2>. DEFINE f == [name |-> "", type |-> TypeMap(schema.type), required |-> FALSE,
                    enum |-> FALSE, format |-> "none"]
  <2>1. fs = <<f>>
    BY <1>5 DEF InferTypes
  <2>2. IsField(f)
    BY <1>2 DEF IsField
  <2>. HIDE DEF f, fs
  <2>3. fs = [i \in 1..1 |-> fs[i]] /\ fs[1] = f
    BY <2>1
  <2>4. IsList(fs) /\ DOMAIN fs = 1..1
    BY <2>3, ListIs
  <2>. QED BY <2>2, <2>3, <2>4 DEF fs
<1>6. CASE schema.props = <<>> /\ schema.type = "none"
  <2>1. fs = <<>>
    BY <1>6 DEF InferTypes
  <2>. QED BY <2>1, EmptyList
<1>. QED BY <1>4, <1>5, <1>6

\* No component is a reference itself.
Flat(doc) == \A c \in DOMAIN doc.components : doc.components[c].schema.ref = "none"

\* What the resolver gives is a list of properties, too; in a flat document it
\* is what the reference leads to.
LEMMA ResolvingOK ==
  ASSUME NEW doc, IsDocument(doc), NEW schema, IsList(schema.props),
         doc.resolvable => schema.ref \in DOMAIN doc.components \cup {"none"}
  PROVE  /\ IsList(Resolving(doc, schema).props)
         /\ schema.ref = "none" => Resolving(doc, schema) = schema
         /\ doc.resolvable /\ Flat(doc) /\ schema.ref # "none" =>
              Resolving(doc, schema) = doc.components[schema.ref].schema
<1>. DEFINE N == Cardinality(DOMAIN doc.components)
            S == {schema} \cup {doc.components[c].schema : c \in DOMAIN doc.components}
            Eq(f) == f = [n \in 0..N |->
                       IF n = 0 \/ schema.ref = "none" THEN schema
                       ELSE LET s == f[n - 1]
                            IN  IF s.ref = "none" THEN s ELSE doc.components[s.ref].schema]
            F == CHOOSE f : Eq(f)
<1>1. CASE ~doc.resolvable
  BY <1>1 DEF Resolving
<1>2. CASE doc.resolvable
  <2>1. N \in Nat
    BY FS_CardinalityType DEF IsDocument
  <2>2. \A s \in S : IsList(s.props) /\ s.ref \in DOMAIN doc.components \cup {"none"}
    BY <1>2 DEF IsDocument
  <2>3. Resolving(doc, schema) = F[N]
    BY <1>2 DEF Resolving
  <2>. DEFINE next == [s \in S |-> IF schema.ref = "none" THEN schema
                                   ELSE IF s.ref = "none" THEN s ELSE doc.components[s.ref].schema]
              step == [p \in (1..N) \X S |-> next[p[2]]]
  <2>4. \A s \in S : next[s] \in S
    BY <2>2
  <2>5. IsStep(N, S, step) /\ schema \in S
    <3>. HIDE DEF next, S, N
    <3>1. IsStep(N, S, step)
      BY <2>4 DEF IsStep
    <3>. QED BY <3>1 DEF S
  <2>6. \A n \in 1..N, s \in S : step[<<n, s>>] = next[s]
    OBVIOUS
  <2>7. PICK f : Unfolds(N, S, schema, step, f)
    <3>. HIDE DEF N, S, step
    <3>. QED BY <2>1, <2>5, RecursionExists
  <2>8. /\ f \in [0..N -> S] /\ f[0] = schema
        /\ \A n \in 1..N : f[n] = next[f[n - 1]]
    <3>. HIDE DEF N, S, step, next
    <3>1. \A n \in 1..N : n - 1 \in 0..N
      BY <2>1
    <3>. QED BY <2>6, <2>7, <3>1 DEF Unfolds
  <2>9. Eq(f)
    <3>1. \A n \in 0..N : f[n] = IF n = 0 \/ schema.ref = "none" THEN schema
                                 ELSE IF f[n - 1].ref = "none" THEN f[n - 1]
                                      ELSE doc.components[f[n - 1].ref].schema
      <4>. SUFFICES ASSUME NEW n \in 0..N
                    PROVE  f[n] = IF n = 0 \/ schema.ref = "none" THEN schema
                                  ELSE IF f[n - 1].ref = "none" THEN f[n - 1]
                                       ELSE doc.components[f[n - 1].ref].schema
        OBVIOUS
      <4>1. CASE n = 0
        BY <4>1, <2>8
      <4>2. CASE n # 0
        <5>1. n \in 1..N /\ n - 1 \in 0..N
          BY <4>2, <2>1
        <5>2. f[n] = next[f[n - 1]] /\ f[n - 1] \in S
          BY <5>1, <2>8
        <5>. HIDE DEF S, N
        <5>. QED BY <5>2, <4>2
      <4>. QED BY <4>1, <4>2
    <3>. HIDE DEF N, S
    <3>. QED BY <2>8, <3>1
  <2>10. Eq(F)
    BY <2>9
  <2>. HIDE DEF F, S, N
  <2>11. DOMAIN F = 0..N /\ \A n \in 0..N : F[n] =
           IF n = 0 \/ schema.ref = "none" THEN schema
           ELSE IF F[n - 1].ref = "none" THEN F[n - 1] ELSE doc.components[F[n - 1].ref].schema
    BY <2>10
  <2>12. \A n \in 0..N : F[n] \in S
    <3>. DEFINE T == {n \in 0..N : F[n] \in S}
    <3>1. 0 \in T
      BY <2>1, <2>5, <2>11
    <3>2. ASSUME NEW n \in 0..(N - 1), n \in T PROVE n + 1 \in T
      <4>1. n + 1 \in 0..N /\ n + 1 # 0 /\ (n + 1) - 1 = n /\ F[n] \in S
        BY <2>1, <3>2
      <4>2. F[n + 1] = next[F[n]]
        BY <4>1, <2>11
      <4>. HIDE DEF next
      <4>3. F[n + 1] \in S
        BY <4>1, <4>2, <2>4
      <4>. QED BY <4>1, <4>3
    <3>. HIDE DEF T
    <3>3. \A n \in 0..N : n \in T
      BY <2>1, <3>1, <3>2, BoundedInduction
    <3>. QED BY <3>3 DEF T
  <2>13. N \in 0..N
    BY <2>1
  <2>14. F[N] \in S /\ (schema.ref = "none" => F[N] = schema)
    BY <2>11, <2>12, <2>13
  <2>15. ASSUME Flat(doc), schema.ref # "none" PROVE F[N] = doc.components[schema.ref].schema
    <3>. DEFINE to == doc.components[schema.ref].schema
                T  == {n \in 0..N : n = 0 \/ F[n] = to}
    <3>1. schema.ref \in DOMAIN doc.components /\ to.ref = "none"
      BY <1>2, <2>15 DEF Flat
    <3>2. N # 0
      BY <3>1, FS_EmptySet DEF IsDocument, N
    <3>. HIDE DEF to
    <3>3. 0 \in T
      BY <2>1
    <3>4. ASSUME NEW n \in 0..(N - 1), n \in T PROVE n + 1 \in T
      <4>1. n + 1 \in 0..N /\ n + 1 # 0 /\ (n + 1) - 1 = n
        BY <2>1
      <4>2. F[n + 1] = IF F[n].ref = "none" THEN F[n] ELSE doc.components[F[n].ref].schema
        BY <2>11, <2>15, <4>1
      <4>3. CASE n = 0
        <5>1. F[n] = schema
          BY <2>1, <2>11, <4>3
        <5>. QED BY <2>15, <4>1, <4>2, <5>1 DEF to
      <4>4. CASE F[n] = to
        BY <3>1, <4>1, <4>2, <4>4
      <4>. QED BY <3>4, <4>3, <4>4
    <3>. HIDE DEF T
    <3>5. \A n \in 0..N : n \in T
      BY <2>1, <3>3, <3>4, BoundedInduction
    <3>. QED BY <2>13, <3>2, <3>5 DEF T, to
  <2>. QED BY <2>2, <2>3, <2>14, <2>15
<1>. QED BY <1>1, <1>2

LEMMA ParseParametersOK ==
  ASSUME NEW doc, NEW raw, IsList(raw),
         \A i \in DOMAIN raw : raw[i].in \in {"query", "header", "path", "cookie"}
  PROVE  LET ps == ParseParameters(doc, raw)
         IN  IsList(ps) /\ \A i \in DOMAIN ps : IsParameter(ps[i])
<1>. DEFINE n  == Len(raw)
            ps == ParseParameters(doc, raw)
<1>1. n \in Nat /\ DOMAIN raw = 1..n
  BY ListFacts
<1>2. \A t : TypeMap(t) \in MappedTypes
  BY DEF TypeMap, MappedTypes
<1>3. ps = [i \in 1..n |-> ps[i]]
  BY <1>1 DEF ParseParameters
<1>4. ASSUME NEW i \in 1..n PROVE IsParameter(ps[i])
  <2>1. CASE raw[i].isRef /\ ~doc.resolvable
    <3>1. ps[i] = [name |-> "", in |-> "query", type |-> "string", required |-> FALSE]
      BY <1>1, <2>1 DEF ParseParameters
    <3>2. IsParameter([name |-> "", in |-> "query", type |-> "string", required |-> FALSE])
      BY DEF IsParameter, MappedTypes
    <3>. HIDE DEF ps
    <3>. QED BY <3>1, <3>2
  <2>2. CASE ~(raw[i].isRef /\ ~doc.resolvable)
    <3>1. ps[i] = [name |-> raw[i].name, in |-> raw[i].in, type |-> TypeMap(raw[i].type),
                   required |-> raw[i].required]
      BY <1>1, <2>2 DEF ParseParameters
    <3>. HIDE DEF ps
    <3>. QED BY <3>1, <1>1, <1>2 DEF IsParameter
  <2>. QED BY <2>1, <2>2
<1>. HIDE DEF ps
<1>5. IsList(ps) /\ DOMAIN ps = 1..n
  BY <1>1, <1>3, ListIs
<1>. QED BY <1>4, <1>5 DEF ps

LEMMA ParseRequestBodyOK ==
  ASSUME NEW doc, IsDocument(doc), NEW raw, raw.required \in BOOLEAN, IsList(raw.content),
         \A i \in DOMAIN raw.content :
           LET schema == raw.content[i].schema
           IN  /\ IsList(schema.props)
               /\ doc.resolvable => schema.ref \in DOMAIN doc.components \cup {"none"}
  PROVE  LET b == ParseRequestBody(doc, raw)
         IN  IsBody(b) /\ IsList(b.fields)
<1>. DEFINE unread == ~raw.given \/ (raw.isRef /\ ~doc.resolvable) \/ raw.content = <<>>
<1>1. CASE unread
  <2>1. \/ ParseRequestBody(doc, raw) = NoBody
        \/ \E r \in BOOLEAN : ParseRequestBody(doc, raw) = BareBody(r)
    BY <1>1 DEF ParseRequestBody
  <2>2. NoBody.required = FALSE /\ NoBody.fields = <<>>
    BY DEF NoBody
  <2>3. \A r : BareBody(r).required = r /\ BareBody(r).fields = <<>>
    BY DEF BareBody
  <2>4. ParseRequestBody(doc, raw).required \in BOOLEAN /\ ParseRequestBody(doc, raw).fields = <<>>
    BY <2>1, <2>2, <2>3
  <2>. QED BY <2>4, EmptyList DEF IsBody
<1>2. CASE ~unread
  <2>. DEFINE schema == Resolving(doc, raw.content[1].schema)
              known  == IF schema.ref = "none" THEN schema ELSE ResolveRef(doc, schema.ref)
  <2>1. 1 \in DOMAIN raw.content
    BY <1>2, ListFacts, EmptySeq
  <2>2. IsList(schema.props)
    BY <2>1, ResolvingOK
  <2>3. \A r : IsList(ResolveRef(doc, r).props)
    BY EmptyList DEF ResolveRef, IsDocument
  <2>4. IsList(known.props)
    BY <2>2, <2>3
  <2>5. ParseRequestBody(doc, raw) = [content |-> raw.content[1].type, required |-> raw.required,
                                      fields |-> InferTypes(known)]
    BY <1>2 DEF ParseRequestBody
  <2>. HIDE DEF known
  <2>. QED BY <2>4, <2>5, InferTypesOK DEF IsBody
<1>. QED BY <1>1, <1>2

\* An endpoint with lists for what are lists.
IsWhole(e) == IsEndpoint(e) /\ IsList(e.params) /\ IsList(e.body.fields)

LEMMA ParsedOperationOK ==
  ASSUME NEW doc, IsDocument(doc), NEW item, IsList(item.params),
         \A j \in DOMAIN item.params : item.params[j].in \in {"query", "header", "path", "cookie"},
         IsList(item.path), NEW op, IsOperation(doc, op), op.method \in DOMAIN MethodMap
  PROVE  IsWhole(ParsedOperation(doc, item, op))
<1>. DEFINE raw == item.params \o op.params
            ps  == ParseParameters(doc, raw)
            b   == ParseRequestBody(doc, op.body)
            rs  == [i \in DOMAIN op.responses |-> ParseResponse(op.responses[i])]
            e   == ParsedOperation(doc, item, op)
<1>1. IsList(raw) /\ \A i \in DOMAIN raw : raw[i].in \in {"query", "header", "path", "cookie"}
  <2>1. /\ IsList(op.params)
        /\ \A i \in DOMAIN op.params : op.params[i].in \in {"query", "header", "path", "cookie"}
    BY DEF IsOperation
  <2>2. /\ IsList(raw)
        /\ \A i \in DOMAIN raw : \/ i \in DOMAIN item.params /\ raw[i] = item.params[i]
                                 \/ i - Len(item.params) \in DOMAIN op.params
                                    /\ raw[i] = op.params[i - Len(item.params)]
    BY <2>1, ConcatLists
  <2>. QED BY <2>1, <2>2
<1>2. IsList(ps) /\ \A i \in DOMAIN ps : IsParameter(ps[i])
  <2>. HIDE DEF raw
  <2>. QED BY <1>1, ParseParametersOK
<1>3. IsBody(b) /\ IsList(b.fields)
  BY ParseRequestBodyOK DEF IsOperation
<1>4. \A i \in DOMAIN rs : DOMAIN rs[i] = {"status", "content", "ref"}
  BY DEF ParseResponse
<1>5. MethodMap[op.method] \in Methods
  BY DEF Methods
<1>6. e = [path |-> item.path, method |-> MethodMap[op.method], params |-> ps, body |-> b, responses |-> rs]
  BY DEF ParsedOperation
<1>. HIDE DEF raw, ps, b, rs, e
<1>. QED BY <1>2, <1>3, <1>4, <1>5, <1>6 DEF IsWhole, IsEndpoint, e

\* The endpoints of one path item.
ItemEndpoints(doc, item) ==
  LET ops == Filter(item.ops, LAMBDA op : op.method \in DOMAIN MethodMap /\ op.mapping)
  IN  IF item.mapping THEN [j \in DOMAIN ops |-> ParsedOperation(doc, item, ops[j])] ELSE <<>>

LEMMA ItemEndpointsOK ==
  ASSUME NEW doc, IsDocument(doc), NEW i \in DOMAIN doc.items
  PROVE  LET es == ItemEndpoints(doc, doc.items[i])
         IN  IsList(es) /\ \A j \in DOMAIN es : IsWhole(es[j])
<1>. DEFINE item == doc.items[i]
            I    == {j \in DOMAIN item.ops : item.ops[j].method \in DOMAIN MethodMap /\ item.ops[j].mapping}
            ops  == Pick(item.ops, I)
            es   == ItemEndpoints(doc, item)
<1>1. /\ IsList(item.path) /\ IsList(item.params) /\ IsList(item.ops)
      /\ \A j \in DOMAIN item.params : item.params[j].in \in {"query", "header", "path", "cookie"}
      /\ \A j \in DOMAIN item.ops : IsOperation(doc, item.ops[j])
  BY DEF IsDocument
<1>2. /\ IsList(ops)
      /\ \A k \in DOMAIN ops : \E j \in I \cap DOMAIN item.ops : ops[k] = item.ops[j]
  <2>1. IsList(item.ops)
    BY <1>1
  <2>. HIDE DEF I, item
  <2>. QED BY <2>1, PickList
<1>3. \A k \in DOMAIN ops : IsOperation(doc, ops[k]) /\ ops[k].method \in DOMAIN MethodMap
  BY <1>1, <1>2
<1>4. es = IF item.mapping THEN [j \in DOMAIN ops |-> ParsedOperation(doc, item, ops[j])] ELSE <<>>
  BY DEF ItemEndpoints, Filter
<1>. HIDE DEF item, I, ops, es
<1>5. CASE item.mapping
  <2>1. Len(ops) \in Nat /\ DOMAIN ops = 1..Len(ops)
    BY <1>2, ListFacts
  <2>2. es = [j \in 1..Len(ops) |-> ParsedOperation(doc, item, ops[j])]
    BY <1>4, <1>5, <2>1
  <2>3. es = [j \in 1..Len(ops) |-> es[j]]
    BY <2>2
  <2>4. IsList(es) /\ DOMAIN es = 1..Len(ops)
    BY <2>1, <2>3, ListIs
  <2>5. \A j \in 1..Len(ops) : IsWhole(ParsedOperation(doc, item, ops[j]))
    BY <1>1, <1>3, <2>1, ParsedOperationOK
  <2>. QED BY <2>2, <2>4, <2>5 DEF es, item
<1>6. CASE ~item.mapping
  BY <1>4, <1>6, EmptyList DEF es, item
<1>. QED BY <1>5, <1>6

LEMMA ExtractEndpointsOK ==
  ASSUME NEW doc, IsDocument(doc)
  PROVE  LET es == ExtractEndpoints(doc)
         IN  IsList(es) /\ \A k \in DOMAIN es : IsWhole(es[k])
<1>. DEFINE n  == Len(doc.items)
            ss == [i \in DOMAIN doc.items |-> ItemEndpoints(doc, doc.items[i])]
<1>1. n \in Nat /\ DOMAIN doc.items = 1..n
  BY ListFacts DEF IsDocument
<1>2. ss = [i \in 1..n |-> ss[i]]
  BY <1>1
<1>3. ExtractEndpoints(doc) = FlattenSeq(ss)
  BY DEF ExtractEndpoints, ItemEndpoints
<1>4. \A i \in 1..n : IsList(ss[i]) /\ \A j \in DOMAIN ss[i] : IsWhole(ss[i][j])
  BY <1>1, ItemEndpointsOK
<1>. HIDE DEF ss
<1>5. IsList(ss) /\ DOMAIN ss = 1..n
  BY <1>1, <1>2, ListIs
<1>. QED BY <1>3, <1>4, <1>5, FlattenLists

\* Every schema in the store is a list of whole endpoints.
LEMMA SpecsOK ==
  ASSUME NEW s \in Specs
  PROVE  IsSpec(s) /\ s.endpoints \in Seq(Endpoints)
<1>1. PICK f \in Files : Readable(f.document, SuffixFor(f)) /\ s = Parse(f.document, SuffixFor(f))
  BY DEF Specs
<1>2. IsDocument(f.document)
  BY PipelineConstants
<1>3. s = [endpoints |-> ExtractEndpoints(f.document), server |-> ExtractBaseUrl(f.document), document |-> f.document]
  BY <1>1 DEF Parse
<1>4. s.endpoints = ExtractEndpoints(f.document)
  BY <1>3
<1>5. IsList(s.endpoints) /\ \A k \in DOMAIN s.endpoints : IsWhole(s.endpoints[k])
  BY <1>2, <1>4, ExtractEndpointsOK
<1>6. \A k \in DOMAIN s.endpoints : s.endpoints[k] \in Endpoints
  BY DEF Endpoints, ToSet
<1>7. s.endpoints \in Seq(Endpoints)
  BY <1>5, <1>6, ListOf
<1>. QED BY <1>5, <1>7 DEF IsSpec, IsWhole

LEMMA EndpointsOK ==
  ASSUME NEW e \in Endpoints
  PROVE  IsWhole(e)
<1>1. PICK s \in Specs : e \in ToSet(s.endpoints)
  BY DEF Endpoints
<1>2. PICK f \in Files : Readable(f.document, SuffixFor(f)) /\ s = Parse(f.document, SuffixFor(f))
  BY DEF Specs
<1>3. IsDocument(f.document)
  BY PipelineConstants
<1>4. s.endpoints = ExtractEndpoints(f.document)
  BY <1>2 DEF Parse
<1>5. \A k \in DOMAIN s.endpoints : IsWhole(s.endpoints[k])
  BY <1>3, <1>4, ExtractEndpointsOK
<1>. QED BY <1>1, <1>5 DEF ToSet
--------------------------------------------------------------------------
(* The generator.                                                        *)

\* Positions of a list are numbers, and finitely many.
LEMMA PositionsFinite ==
  ASSUME NEW s, IsList(s), NEW I \in SUBSET DOMAIN s
  PROVE  I \subseteq Nat /\ IsFiniteSet(I)
<1>1. Len(s) \in Nat /\ DOMAIN s = 1..Len(s)
  BY ListFacts
<1>2. IsFiniteSet(1..Len(s))
  BY <1>1, FS_Interval
<1>3. I \in SUBSET (1..Len(s))
  BY <1>1
<1>. QED BY <1>2, <1>3, FS_Subset

\* A run of n positions has n of them at least.
LEMMA CountAtLeast ==
  ASSUME NEW s, IsList(s), NEW I \in SUBSET DOMAIN s, NEW a \in Nat, NEW n \in Nat,
         \A i \in 1..n : a + i \in I
  PROVE  Cardinality(I) >= n
<1>1. IsFiniteSet(I)
  BY PositionsFinite
<1>2. (a + 1)..(a + n) \in SUBSET I
  <2>. SUFFICES ASSUME NEW k \in (a + 1)..(a + n) PROVE k \in I
    OBVIOUS
  <2>1. k - a \in 1..n /\ a + (k - a) = k
    OBVIOUS
  <2>. QED BY <2>1
<1>3. IsFiniteSet((a + 1)..(a + n)) /\ Cardinality((a + 1)..(a + n)) = n
  BY FS_Interval
<1>4. n <= Cardinality(I)
  BY <1>1, <1>2, <1>3, FS_Subset
<1>5. Cardinality(I) \in Nat
  BY <1>1, FS_CardinalityType
<1>. QED BY <1>4, <1>5

\* The positions of a list are found, moved by d, in another.
LEMMA CountAtMost ==
  ASSUME NEW s, NEW t, IsList(s), IsList(t), NEW A \in SUBSET DOMAIN s, NEW B \in SUBSET DOMAIN t,
         NEW d \in Nat, \A i \in A : d + i \in B
  PROVE  Cardinality(A) \in Nat /\ Cardinality(B) \in Nat /\ Cardinality(A) <= Cardinality(B)
<1>1. A \subseteq Nat /\ B \subseteq Nat
  BY PositionsFinite
<1>2. IsFiniteSet(A) /\ IsFiniteSet(B)
  BY PositionsFinite
<1>. DEFINE f == [i \in A |-> d + i]
<1>3. f \in [A -> B] /\ \A i, j \in A : f[i] = f[j] => i = j
  BY <1>1
<1>. HIDE DEF f
<1>4. f \in Injection(A, B)
  BY <1>3 DEF Injection, IsInjective
<1>5. Cardinality(A) <= Cardinality(B)
  BY <1>2, <1>4, FS_Injection
<1>6. Cardinality(A) \in Nat /\ Cardinality(B) \in Nat
  BY <1>2, FS_CardinalityType
<1>. QED BY <1>5, <1>6

\* There are still enough with more before or behind them.
LEMMA EnoughConcat ==
  ASSUME NEW e, NEW type, NEW n \in Nat, NEW s, NEW t, IsList(s), IsList(t),
         Enough(e, type, n, s) \/ Enough(e, type, n, t)
  PROVE  Enough(e, type, n, s \o t)
<1>. DEFINE st == s \o t
            Of(l) == {i \in DOMAIN l : l[i].endpoint = Place(e) /\ l[i].type = type}
<1>1. /\ IsList(st) /\ DOMAIN st = 1..(Len(s) + Len(t))
      /\ \A i \in 1..Len(s) : st[i] = s[i]
      /\ \A i \in 1..Len(t) : st[Len(s) + i] = t[i]
  BY ConcatLists
<1>2. /\ Len(s) \in Nat /\ Len(t) \in Nat
      /\ DOMAIN s = 1..Len(s) /\ DOMAIN t = 1..Len(t)
  BY ListFacts
<1>. HIDE DEF st
<1>3. \A i \in Of(s) : 0 + i \in Of(st)
  BY <1>1, <1>2
<1>4. \A i \in Of(t) : Len(s) + i \in Of(st)
  BY <1>1, <1>2
<1>5. \A l : /\ Enough(e, type, n, l) <=> Cardinality(Of(l)) >= n
             /\ Of(l) \in SUBSET DOMAIN l
  BY DEF Enough, Count
<1>. HIDE DEF Of
<1>6. /\ Cardinality(Of(s)) \in Nat /\ Cardinality(Of(st)) \in Nat
      /\ Cardinality(Of(s)) <= Cardinality(Of(st))
  BY <1>1, <1>3, <1>5, CountAtMost
<1>7. Cardinality(Of(t)) \in Nat /\ Cardinality(Of(t)) <= Cardinality(Of(st))
  BY <1>1, <1>2, <1>4, <1>5, CountAtMost
<1>8. Enough(e, type, n, st)
  BY <1>5, <1>6, <1>7
<1>. QED BY <1>8 DEF st

\* A list that tests an endpoint enough does so with more before or behind it.
LEMMA CoveredConcat ==
  ASSUME NEW e, NEW s, NEW t, IsList(s), IsList(t), CoveredOne(e, s) \/ CoveredOne(e, t)
  PROVE  CoveredOne(e, s \o t)
<1>1. 1 \in Nat /\ 2 \in Nat /\ 3 \in Nat /\ 4 \in Nat
  OBVIOUS
<1>. QED BY <1>1, EnoughConcat DEF CoveredOne

LEMMA SeveritySet == ToSet(Severities) = {"critical", "high", "medium", "low", "info"}
  <1>1. DOMAIN Severities = 1..5 /\ Severities[1] = "critical" /\ Severities[2] = "high"
        /\ Severities[3] = "medium" /\ Severities[4] = "low" /\ Severities[5] = "info"
    BY DEF Severities
  <1>2. \A i \in 1..5 : i = 1 \/ i = 2 \/ i = 3 \/ i = 4 \/ i = 5
    OBVIOUS
  <1>. HIDE DEF Severities
  <1>. QED BY <1>1, <1>2 DEF ToSet

LEMMA ScenariosOK ==
  ASSUME NEW e \in Endpoints, NEW type \in ScenarioTypes, NEW severities \in Seq(ToSet(Severities))
  PROVE  LET ss == Scenarios(type, severities, e)
         IN  /\ ss \in Seq(Chaos) /\ Len(ss) = Len(severities)
             /\ \A i \in 1..Len(ss) : ss[i].type = type /\ ss[i].endpoint = Place(e)
<1>. DEFINE n  == Len(severities)
            ss == Scenarios(type, severities, e)
<1>1. n \in Nat /\ DOMAIN severities = 1..n /\ \A i \in 1..n : severities[i] \in ToSet(Severities)
  BY LenProperties, ElementOfSeq
<1>2. ss = [i \in 1..n |-> [type |-> type, severity |-> severities[i], endpoint |-> Place(e)]]
  BY <1>1 DEF Scenarios
<1>. HIDE DEF n, ss
<1>3. \A i \in 1..n : /\ ss[i] = [type |-> type, severity |-> severities[i], endpoint |-> Place(e)]
                      /\ ss[i] \in Chaos
  BY <1>1, <1>2 DEF Chaos
<1>4. ss = [i \in 1..n |-> ss[i]]
  BY <1>2
<1>5. IsList(ss) /\ Len(ss) = n /\ DOMAIN ss = 1..n
  BY <1>1, <1>4, ListIs
<1>6. ss \in Seq(Chaos)
  BY <1>3, <1>5, ListOf
<1>. QED BY <1>3, <1>5, <1>6 DEF ss, n

\* A list of scenarios that are all of one type and one endpoint.
LEMMA EnoughOf ==
  ASSUME NEW e, NEW type, NEW ss, IsList(ss), NEW n \in Nat, n <= Len(ss),
         \A i \in 1..Len(ss) : ss[i].type = type /\ ss[i].endpoint = Place(e)
  PROVE  Enough(e, type, n, ss)
<1>. DEFINE I == {i \in DOMAIN ss : ss[i].endpoint = Place(e) /\ ss[i].type = type}
<1>1. Len(ss) \in Nat /\ DOMAIN ss = 1..Len(ss)
  BY ListFacts
<1>2. I \in SUBSET DOMAIN ss /\ \A i \in 1..n : 0 + i \in I
  BY <1>1
<1>3. Enough(e, type, n, ss) <=> Cardinality(I) >= n
  BY DEF Enough, Count
<1>. HIDE DEF I
<1>. QED BY <1>2, <1>3, CountAtLeast

LEMMA FieldTamperingOK ==
  ASSUME NEW f
  PROVE  FieldTampering(f) \in Seq(ToSet(Severities))
<1>. DEFINE S == ToSet(Severities)
            a == <<"high">>
            b == IF f.type = "string" THEN <<"high">> ELSE <<>>
            c == IF f.type \in {"integer", "number"} THEN <<"medium">> ELSE <<>>
            d == IF f.enum THEN <<"high">> ELSE <<>>
            g == IF f.required THEN <<"critical">> ELSE <<>>
            h == IF f.format \in {"email", "uri", "date-time"} THEN <<"high">> ELSE <<>>
<1>1. "high" \in S /\ "medium" \in S /\ "critical" \in S
  BY SeveritySet
<1>. HIDE DEF S
<1>2. a \in Seq(S) /\ b \in Seq(S) /\ c \in Seq(S) /\ d \in Seq(S) /\ g \in Seq(S) /\ h \in Seq(S)
  BY <1>1
<1>3. FieldTampering(f) = a \o b \o c \o d \o g \o h
  BY DEF FieldTampering
<1>. HIDE DEF a, b, c, d, g, h
<1>4. a \o b \o c \o d \o g \o h \in Seq(S)
  BY <1>2
<1>. QED BY <1>3, <1>4 DEF S

\* Something is tampered with at every endpoint.
LEMMA TamperingOK ==
  ASSUME NEW e \in Endpoints
  PROVE  LET ss == TamperingScenarios(e)
         IN  /\ ss \in Seq(Chaos) /\ Len(ss) >= 1
             /\ \A i \in 1..Len(ss) : ss[i].type = "request_tampering" /\ ss[i].endpoint = Place(e)
<1>. DEFINE S      == ToSet(Severities)
            n      == Len(e.body.fields)
            fields == [i \in DOMAIN e.body.fields |-> FieldTampering(e.body.fields[i])]
            body   == IF e.method \notin {"POST", "PUT", "PATCH"} THEN <<>>
                      ELSE IF e.body.fields = <<>> THEN <<"high">> ELSE FlattenSeq(fields)
            params == [i \in DOMAIN e.params |-> "high"]
            all    == body \o params
            sev    == IF all = <<>> THEN <<"high">> ELSE all
<1>1. "high" \in S
  BY SeveritySet
<1>2. IsList(e.params) /\ IsList(e.body.fields)
  BY EndpointsOK DEF IsWhole
<1>3. fields \in Seq(Seq(S))
  <2>1. n \in Nat /\ DOMAIN e.body.fields = 1..n
    BY <1>2, ListFacts
  <2>2. fields = [i \in 1..n |-> fields[i]]
    BY <2>1
  <2>3. \A i \in 1..n : fields[i] \in Seq(S)
    BY <2>1, FieldTamperingOK
  <2>. HIDE DEF fields, S, n
  <2>4. IsList(fields) /\ DOMAIN fields = 1..n
    BY <2>1, <2>2, ListIs
  <2>. QED BY <2>3, <2>4, ListOf
<1>4. params \in Seq(S)
  <2>1. Len(e.params) \in Nat /\ DOMAIN e.params = 1..Len(e.params)
    BY <1>2, ListFacts
  <2>2. params = [i \in 1..Len(e.params) |-> params[i]] /\ \A i \in 1..Len(e.params) : params[i] = "high"
    BY <2>1
  <2>. HIDE DEF params, S
  <2>3. IsList(params) /\ DOMAIN params = 1..Len(e.params)
    BY <2>1, <2>2, ListIs
  <2>. QED BY <1>1, <2>2, <2>3, ListOf
<1>5. body \in Seq(S)
  <2>. HIDE DEF fields, S
  <2>1. FlattenSeq(fields) \in Seq(S)
    BY <1>3, FlattenIs
  <2>. QED BY <1>1, <2>1
<1>6. all \in Seq(S)
  <2>. HIDE DEF body, params, S
  <2>. QED BY <1>4, <1>5
<1>7. sev \in Seq(S) /\ Len(sev) >= 1
  <2>. HIDE DEF all, S
  <2>1. CASE all = <<>>
    BY <1>1, <2>1
  <2>2. CASE all # <<>>
    <3>1. Len(all) \in Nat /\ Len(all) # 0
      BY <1>6, <2>2, EmptySeq, LenProperties
    <3>. QED BY <1>6, <2>2, <3>1
  <2>. QED BY <2>1, <2>2
<1>8. TamperingScenarios(e) = Scenarios("request_tampering", sev, e)
  BY DEF TamperingScenarios
<1>. HIDE DEF sev, S
<1>9. "request_tampering" \in ScenarioTypes
  BY DEF ScenarioTypes
<1>. QED BY <1>7, <1>8, <1>9, ScenariosOK DEF S

LEMMA LLMScenariosOK ==
  ASSUME NEW e \in Endpoints, NEW reply \in Replies
  PROVE  LLMScenarios(reply, e) \in Seq(Chaos)
<1>. DEFINE I      == {i \in DOMAIN reply.items : reply.items[i].mapping}
            items  == Pick(reply.items, I)
            one(x) == [type     |-> IF x.type \in ScenarioTypes THEN x.type ELSE "latency",
                       severity |-> IF x.severity \in ToSet(Severities) THEN x.severity ELSE "medium",
                       endpoint |-> Place(e)]
            ss     == [i \in DOMAIN items |-> one(items[i])]
<1>1. IsList(items)
  <2>1. IsList(reply.items)
    BY PipelineConstants
  <2>. HIDE DEF I
  <2>. QED BY <2>1, PickList
<1>2. Len(items) \in Nat /\ DOMAIN items = 1..Len(items)
  BY <1>1, ListFacts
<1>3. LLMScenarios(reply, e) = <<>> \/ LLMScenarios(reply, e) = ss
  BY DEF LLMScenarios, Filter
<1>4. \A x : one(x) \in Chaos
  <2>1. "medium" \in ToSet(Severities) /\ "latency" \in ScenarioTypes
    BY SeveritySet DEF ScenarioTypes
  <2>2. Place(e) \in {Place(f) : f \in Endpoints}
    OBVIOUS
  <2>. QED BY <2>1, <2>2 DEF Chaos
<1>. HIDE DEF items, one
<1>5. ss = [i \in 1..Len(items) |-> ss[i]] /\ \A i \in 1..Len(items) : ss[i] \in Chaos
  BY <1>2, <1>4
<1>. HIDE DEF ss
<1>6. ss \in Seq(Chaos)
  BY <1>2, <1>5, ListIs, ListOf
<1>7. <<>> \in Seq(Chaos)
  BY EmptyList, ListOf
<1>. QED BY <1>3, <1>6, <1>7

\* However the model answers, the rules' scenarios are among what is made.
LEMMA GenerateOK ==
  ASSUME NEW e \in Endpoints, NEW reply \in Replies
  PROVE  GenerateForEndpoint(e, reply) \in Seq(Chaos) /\ CoveredOne(e, GenerateForEndpoint(e, reply))
<1>. DEFINE S  == ToSet(Severities)
            s1 == <<"low", "medium", "high">>
            s2 == <<"medium", "medium", "high", "low">>
            s4 == <<"medium", "low">>
            l1 == LatencyScenarios(e)
            l2 == ErrorStatusScenarios(e)
            l3 == TamperingScenarios(e)
            l4 == RateLimitScenarios(e)
            l5 == LLMScenarios(reply, e)
            m2 == l1 \o l2
            m3 == m2 \o l3
            m4 == m3 \o l4
            m5 == m4 \o l5
<1>1. /\ s1 \in Seq(S) /\ Len(s1) = 3 /\ s2 \in Seq(S) /\ Len(s2) = 4 /\ s4 \in Seq(S) /\ Len(s4) = 2
      /\ {"latency", "error_status", "request_tampering", "rate_limit"} \subseteq ScenarioTypes
  <2>1. "low" \in S /\ "medium" \in S /\ "high" \in S
    BY SeveritySet
  <2>. HIDE DEF S
  <2>. QED BY <2>1 DEF ScenarioTypes
<1>2. l1 = Scenarios("latency", s1, e) /\ l2 = Scenarios("error_status", s2, e)
      /\ l4 = Scenarios("rate_limit", s4, e) /\ GenerateForEndpoint(e, reply) = m5
  BY DEF LatencyScenarios, ErrorStatusScenarios, RateLimitScenarios, GenerateForEndpoint
<1>. HIDE DEF s1, s2, s4, l1, l2, l4
<1>3. /\ l1 \in Seq(Chaos) /\ Len(l1) = 3
      /\ \A i \in 1..Len(l1) : l1[i].type = "latency" /\ l1[i].endpoint = Place(e)
  BY <1>1, <1>2, ScenariosOK DEF S
<1>4. /\ l2 \in Seq(Chaos) /\ Len(l2) = 4
      /\ \A i \in 1..Len(l2) : l2[i].type = "error_status" /\ l2[i].endpoint = Place(e)
  BY <1>1, <1>2, ScenariosOK DEF S
<1>5. /\ l4 \in Seq(Chaos) /\ Len(l4) = 2
      /\ \A i \in 1..Len(l4) : l4[i].type = "rate_limit" /\ l4[i].endpoint = Place(e)
  BY <1>1, <1>2, ScenariosOK DEF S
<1>6. /\ l3 \in Seq(Chaos) /\ Len(l3) >= 1
      /\ \A i \in 1..Len(l3) : l3[i].type = "request_tampering" /\ l3[i].endpoint = Place(e)
  BY TamperingOK
<1>7. l5 \in Seq(Chaos)
  BY LLMScenariosOK
<1>. HIDE DEF l3, l5
<1>8. m2 \in Seq(Chaos)
  BY <1>3, <1>4
<1>. HIDE DEF m2
<1>9. m3 \in Seq(Chaos)
  BY <1>6, <1>8
<1>. HIDE DEF m3
<1>10. m4 \in Seq(Chaos)
  BY <1>5, <1>9
<1>. HIDE DEF m4
<1>11. m5 \in Seq(Chaos)
  BY <1>7, <1>10
<1>12. IsList(l1) /\ IsList(l2) /\ IsList(l3) /\ IsList(l4) /\ IsList(l5)
       /\ IsList(m2) /\ IsList(m3) /\ IsList(m4)
  BY <1>3, <1>4, <1>5, <1>6, <1>7, <1>8, <1>9, <1>10, ListOf
<1>13. Enough(e, "latency", 3, l1) /\ Enough(e, "error_status", 4, l2)
       /\ Enough(e, "rate_limit", 2, l4) /\ Enough(e, "request_tampering", 1, l3)
  <2>1. Enough(e, "latency", 3, l1)
    <3>1. IsList(l1) /\ 3 \in Nat /\ 3 <= Len(l1)
      BY <1>3, <1>12
    <3>. QED BY <1>3, <3>1, EnoughOf
  <2>2. Enough(e, "error_status", 4, l2)
    <3>1. IsList(l2) /\ 4 \in Nat /\ 4 <= Len(l2)
      BY <1>4, <1>12
    <3>. QED BY <1>4, <3>1, EnoughOf
  <2>3. Enough(e, "rate_limit", 2, l4)
    BY <1>5, <1>12, EnoughOf
  <2>4. Enough(e, "request_tampering", 1, l3)
    BY <1>6, <1>12, EnoughOf
  <2>. QED BY <2>1, <2>2, <2>3, <2>4
<1>14. Enough(e, "latency", 3, m2) /\ Enough(e, "error_status", 4, m2)
  BY <1>12, <1>13, EnoughConcat DEF m2
<1>15. Enough(e, "latency", 3, m3) /\ Enough(e, "error_status", 4, m3) /\ Enough(e, "request_tampering", 1, m3)
  BY <1>12, <1>13, <1>14, EnoughConcat DEF m3
<1>16. CoveredOne(e, m4)
  BY <1>12, <1>13, <1>15, EnoughConcat DEF m4, CoveredOne
<1>17. CoveredOne(e, m5)
  BY <1>12, <1>16, CoveredConcat
<1>. QED BY <1>2, <1>11, <1>17
--------------------------------------------------------------------------
(* The store.                                                            *)

\* What a collection holds was there or is new, with the ids after from.
OldOrNew(all, coll, docs, from) ==
  \A i \in DOMAIN all : \/ \E j \in DOMAIN coll : all[i] = coll[j]
                        \/ \E j \in DOMAIN docs : all[i] = [id |-> from + j, doc |-> docs[j]]

\* The last of the new documents is the last of the collection.
LEMMA SavedOK ==
  ASSUME NEW D, NEW coll \in Seq(Stored(D)), NEW docs \in Seq(D), issued \in Nat
  PROVE  LET all == Saved(coll, docs)
         IN  /\ all \in Seq(Stored(D)) /\ OldOrNew(all, coll, docs, issued)
             /\ docs # <<>> => Len(all) \in DOMAIN all /\ all[Len(all)].doc = docs[Len(docs)]
<1>. DEFINE new   == [i \in DOMAIN docs |-> [id |-> issued + i, doc |-> docs[i]]]
            all   == coll \o new
            first == IF Len(all) > MaxDocs THEN Len(all) - MaxDocs + 1 ELSE 1
            kept  == SubSeq(all, first, Len(all))
            D2    == Stored(D)
<1>1. MaxDocs \in Nat /\ MaxDocs > 0
  BY PipelineConstants
<1>2. Len(docs) \in Nat /\ DOMAIN docs = 1..Len(docs) /\ \A i \in 1..Len(docs) : docs[i] \in D
  BY LenProperties, ElementOfSeq
<1>3. new = [i \in 1..Len(docs) |-> new[i]]
      /\ \A i \in 1..Len(docs) : new[i] = [id |-> issued + i, doc |-> docs[i]] /\ new[i] \in D2
  BY <1>2 DEF Stored
<1>. HIDE DEF new, D2
<1>4. IsList(new) /\ Len(new) = Len(docs) /\ DOMAIN new = 1..Len(docs)
  BY <1>2, <1>3, ListIs
<1>5. new \in Seq(D2) /\ coll \in Seq(D2) /\ IsList(coll)
  BY <1>3, <1>4, ListOf DEF D2
<1>6. /\ IsList(all) /\ Len(all) = Len(coll) + Len(docs) /\ DOMAIN all = 1..Len(all)
      /\ \A i \in 1..Len(docs) : all[Len(coll) + i] = new[i]
      /\ \A i \in DOMAIN all : \/ i \in DOMAIN coll /\ all[i] = coll[i]
                               \/ i - Len(coll) \in DOMAIN new /\ all[i] = new[i - Len(coll)]
  BY <1>4, <1>5, ConcatLists
<1>7. all \in Seq(D2)
  BY <1>5
<1>8. Len(coll) \in Nat /\ Len(all) \in Nat
  BY <1>5, <1>7, LenProperties
<1>. HIDE DEF all
<1>9. first \in 1..(Len(all) + 1)
  BY <1>1, <1>8
<1>10. Len(docs) # 0 => first <= Len(all)
  BY <1>1, <1>2, <1>6, <1>8
<1>. HIDE DEF first
<1>11. /\ kept \in Seq(D2) /\ Len(kept) = Len(all) - first + 1
       /\ \A i \in 1..Len(kept) : i + first - 1 \in 1..Len(all) /\ kept[i] = all[i + first - 1]
  <2>1. /\ kept \in Seq(D2)
        /\ Len(kept) = IF first <= Len(all) THEN Len(all) - first + 1 ELSE 0
        /\ \A i \in 1..(Len(all) - first + 1) : kept[i] = all[first + i - 1]
    <3>1. first \in 1..(Len(all) + 1) /\ Len(all) \in 0..Len(all)
      BY <1>8, <1>9
    <3>. QED BY <1>7, <1>8, <3>1, SubSeqProperties
  <2>2. Len(kept) = Len(all) - first + 1
    BY <1>8, <1>9, <2>1
  <2>3. ASSUME NEW i \in 1..Len(kept) PROVE i + first - 1 \in 1..Len(all) /\ kept[i] = all[i + first - 1]
    <3>1. i \in 1..(Len(all) - first + 1) /\ i + first - 1 \in 1..Len(all) /\ i + first - 1 = first + i - 1
      BY <1>8, <1>9, <2>2
    <3>. QED BY <2>1, <3>1
  <2>. QED BY <2>1, <2>2, <2>3
<1>12. Saved(coll, docs) = kept
  BY DEF Saved, kept, first, all, new
<1>. HIDE DEF kept
<1>13. DOMAIN kept = 1..Len(kept) /\ Len(kept) \in Nat
  BY <1>11, LenProperties
<1>14. ASSUME NEW i \in DOMAIN kept
       PROVE  \/ \E j \in DOMAIN coll : kept[i] = coll[j]
              \/ \E j \in DOMAIN docs : kept[i] = [id |-> issued + j, doc |-> docs[j]]
  <2>1. PICK n \in DOMAIN all : kept[i] = all[n]
    BY <1>6, <1>11, <1>13
  <2>2. CASE n \in DOMAIN coll /\ all[n] = coll[n]
    BY <2>1, <2>2
  <2>3. CASE n - Len(coll) \in DOMAIN new /\ all[n] = new[n - Len(coll)]
    <3>. DEFINE j == n - Len(coll)
    <3>1. j \in DOMAIN docs /\ kept[i] = new[j]
      BY <1>2, <1>4, <2>1, <2>3
    <3>. HIDE DEF j
    <3>2. new[j] = [id |-> issued + j, doc |-> docs[j]]
      BY <1>2, <1>3, <3>1
    <3>. QED BY <3>1, <3>2
  <2>. QED BY <1>6, <2>2, <2>3
<1>15. ASSUME docs # <<>> PROVE Len(kept) \in DOMAIN kept /\ kept[Len(kept)].doc = docs[Len(docs)]
  <2>1. Len(docs) # 0
    BY <1>15, EmptySeq
  <2>2. Len(kept) \in 1..Len(kept) /\ Len(kept) + first - 1 = Len(all)
    BY <1>8, <1>9, <1>10, <1>11, <2>1
  <2>3. kept[Len(kept)] = all[Len(all)]
    BY <1>11, <2>2
  <2>4. all[Len(coll) + Len(docs)] = new[Len(docs)]
    BY <1>2, <1>6, <2>1
  <2>5. kept[Len(kept)] = new[Len(docs)] /\ Len(docs) \in 1..Len(docs)
    BY <1>2, <1>6, <2>1, <2>3, <2>4
  <2>6. new[Len(docs)].doc = docs[Len(docs)]
    BY <1>3, <2>5
  <2>. QED BY <1>13, <2>2, <2>5, <2>6
<1>16. OldOrNew(kept, coll, docs, issued)
  BY <1>14 DEF OldOrNew
<1>. QED BY <1>11, <1>12, <1>15, <1>16 DEF D2

LEMMA DocumentOK ==
  ASSUME NEW coll, NEW id \in Ids(coll)
  PROVE  \E i \in DOMAIN coll : coll[i].id = id /\ Document(coll, id) = coll[i].doc
<1>1. \E i \in DOMAIN coll : coll[i].id = id
  BY DEF Ids
<1>. DEFINE i == CHOOSE i \in DOMAIN coll : coll[i].id = id
<1>2. i \in DOMAIN coll /\ coll[i].id = id
  BY <1>1
<1>. QED BY <1>2 DEF Document
--------------------------------------------------------------------------
(* The invariant.                                                        *)

LEMMA InvInit == PipelineInit => PipelineInv
<1>. SUFFICES ASSUME PipelineInit PROVE PipelineInv
  OBVIOUS
<1>. USE DEF PipelineInit
<1>1. MaxDay \in Nat
  BY PipelineConstants
<1>2. \A X : <<>> \in Seq(X)
  BY EmptyList, ListOf
<1>3. CollectionsOK
  BY <1>1, <1>2 DEF CollectionsOK
<1>4. RequestsOK
  BY DEF RequestsOK
<1>5. \A k \in Slots : request[k].op = "idle"
  BY DEF Idle
<1>6. Provenance /\ Coverage
  BY <1>5, EmptyList DEF Provenance, Coverage
<1>. QED BY <1>3, <1>4, <1>6 DEF PipelineInv

\* What requests have done so far is not lost when they rest and scenarios
\* are only forgotten.
LEMMA RequestsRest ==
  ASSUME PipelineInv, UNCHANGED <<request, batches>>,
         \A i \in DOMAIN scenarios' : \E j \in DOMAIN scenarios : scenarios'[i] = scenarios[j]
  PROVE  RequestsOK' /\ Provenance' /\ Coverage'
<1>1. RequestsOK' /\ Coverage'
  BY DEF PipelineInv, RequestsOK, Coverage
<1>2. \A i \in DOMAIN scenarios' : Generated(batches, scenarios'[i])
  BY DEF PipelineInv, Provenance
<1>3. Provenance'
  BY <1>2 DEF PipelineInv, Provenance
<1>. QED BY <1>1, <1>3

LEMMA UploadStep ==
  ASSUME PipelineInv, NEW file \in Files, Upload(file)
  PROVE  PipelineInv'
<1>. DEFINE spec == Parse(file.document, SuffixFor(file))
            docs == <<spec>>
            same == {i \in DOMAIN schemas : schemas[i].doc.document.title = spec.document.title}
            over == [i \in DOMAIN schemas |-> IF i \in same THEN [schemas[i] EXCEPT !.doc = spec] ELSE schemas[i]]
<1>1. spec \in Specs
  BY DEF Upload, Specs
<1>2. docs \in Seq(Specs) /\ schemas \in Seq(Stored(Specs)) /\ issued \in Nat
  BY <1>1 DEF PipelineInv, CollectionsOK
<1>3. (schemas' = Saved(schemas, docs) \/ schemas' = over) /\ issued' = issued + 1
  BY DEF Upload, SchemaSaved
<1>. HIDE DEF spec, same
<1>4. schemas' \in Seq(Stored(Specs))
  <2>1. CASE schemas' = Saved(schemas, docs)
    <3>. HIDE DEF docs
    <3>. QED BY <1>2, <2>1, SavedOK
  <2>2. CASE schemas' = over
    <3>0. \A i \in 1..Len(schemas) : schemas[i] \in Stored(Specs)
      BY <1>2, ElementOfSeq
    <3>1. \A i \in 1..Len(schemas) : schemas[i] \in Stored(Specs) /\ [schemas[i] EXCEPT !.doc = spec] \in Stored(Specs)
      BY <1>1, <3>0 DEF Stored
    <3>2. over \in [1..Len(schemas) -> Stored(Specs)] /\ Len(schemas) \in Nat
      BY <1>2, <3>1, LenProperties
    <3>. QED BY <2>2, <3>2, SeqDef
  <2>. QED BY <1>3, <2>1, <2>2
<1>. HIDE DEF docs, over
<1>5. CollectionsOK'
  BY <1>3, <1>4 DEF PipelineInv, CollectionsOK, Upload
<1>6. RequestsOK' /\ Provenance' /\ Coverage'
  BY RequestsRest DEF Upload
<1>. QED BY <1>5, <1>6 DEF PipelineInv

LEMMA StartGenerateStep ==
  ASSUME PipelineInv, NEW k \in Slots, NEW id \in Ids(schemas), StartGenerate(k, id)
  PROVE  PipelineInv'
<1>. DEFINE es == Document(schemas, id).endpoints
            r  == [op |-> "generate", endpoints |-> es, next |-> 1, made |-> <<>>]
<1>1. es \in Seq(Endpoints)
  <2>1. PICK i \in DOMAIN schemas : Document(schemas, id) = schemas[i].doc
    BY DocumentOK
  <2>2. schemas[i] \in Stored(Specs)
    BY ListOf DEF PipelineInv, CollectionsOK
  <2>3. schemas[i].doc \in Specs
    BY <2>2 DEF Stored
  <2>. QED BY <2>1, <2>3, SpecsOK
<1>2. request' = [request EXCEPT ![k] = r]
  BY DEF StartGenerate
<1>. HIDE DEF es
<1>3. r \in Generating /\ r.op = "generate" /\ r.endpoints = es /\ r.next = 1
  <2>1. <<>> \in Seq(Chaos)
    BY EmptyList, ListOf
  <2>. QED BY <1>1, <2>1 DEF Generating
<1>. HIDE DEF r
<1>4. RequestsOK'
  BY <1>2, <1>3 DEF PipelineInv, RequestsOK
<1>5. request'[k] = r /\ \A l \in Slots \ {k} : request'[l] = request[l]
  BY <1>2 DEF PipelineInv, RequestsOK
<1>6. CollectionsOK'
  BY DEF PipelineInv, CollectionsOK, StartGenerate, collections
<1>7. Provenance'
  BY <1>3, <1>5 DEF PipelineInv, Provenance, StartGenerate, collections
<1>8. \A i \in DOMAIN es : ~(i < 1)
  BY <1>1, ListOf, ListFacts
<1>9. Coverage'
  BY <1>3, <1>5, <1>8 DEF PipelineInv, Coverage, StartGenerate
<1>. QED BY <1>4, <1>6, <1>7, <1>9 DEF PipelineInv

LEMMA GenerateEndpointStep ==
  ASSUME PipelineInv, NEW k \in Slots, NEW answer \in Replies, GenerateEndpoint(k, answer)
  PROVE  PipelineInv'
<1>. DEFINE q    == request[k]
            e    == q.endpoints[q.next]
            more == GenerateForEndpoint(e, answer)
            r    == [op |-> "generate", endpoints |-> q.endpoints, next |-> q.next + 1, made |-> q.made \o more]
<1>1. q \in Generating /\ q.op = "generate" /\ q.next \in DOMAIN q.endpoints
  BY DEF PipelineInv, RequestsOK, GenerateEndpoint, Idle, Executing
<1>2. q.endpoints \in Seq(Endpoints) /\ q.next \in Nat /\ q.made \in Seq(Chaos)
      /\ q = [op |-> "generate", endpoints |-> q.endpoints, next |-> q.next, made |-> q.made]
  BY <1>1 DEF Generating
<1>3. e \in Endpoints
  <2>. HIDE DEF q
  <2>. QED BY <1>1, <1>2, ListOf
<1>4. more \in Seq(Chaos) /\ CoveredOne(e, more)
  <2>. HIDE DEF e
  <2>. QED BY <1>3, GenerateOK
<1>5. request' = [request EXCEPT ![k] = r]
  <2>1. request' = [request EXCEPT ![k].made = @ \o more, ![k].next = @ + 1]
    BY DEF GenerateEndpoint
  <2>2. request' = [request EXCEPT ![k] = [[q EXCEPT !.made = @ \o more] EXCEPT !.next = @ + 1]]
    <3>. HIDE DEF more
    <3>. QED BY <2>1 DEF PipelineInv, RequestsOK
  <2>. HIDE DEF q, more
  <2>3. [[q EXCEPT !.made = @ \o more] EXCEPT !.next = @ + 1] = r
    <3>. DEFINE es == q.endpoints
                n  == q.next
                m  == n + 1
                ss == q.made
                tt == ss \o more
                q1 == [q EXCEPT !.made = tt]
    <3>1. q = [op |-> "generate", endpoints |-> es, next |-> n, made |-> ss]
      BY <1>2
    <3>2. q1.next = n
      BY <3>1
    <3>. HIDE DEF es, n, m, ss, tt
    <3>3. q1 = [op |-> "generate", endpoints |-> es, next |-> n, made |-> tt]
      BY <3>1
    <3>. HIDE DEF q1
    <3>4. [q1 EXCEPT !.next = m] = [op |-> "generate", endpoints |-> es, next |-> m, made |-> tt]
      BY <3>3
    <3>5. [q1 EXCEPT !.next = n + 1] = r
      BY <3>4 DEF es, n, m, ss, tt
    <3>. QED BY <3>2, <3>5 DEF q1, tt, ss
  <2>. QED BY <2>2, <2>3
<1>. HIDE DEF more
<1>6. r \in Generating /\ r.op = "generate" /\ r.endpoints = q.endpoints /\ r.next = q.next + 1
      /\ r.made = q.made \o more
  BY <1>2, <1>4 DEF Generating
<1>. HIDE DEF r
<1>7. RequestsOK'
  BY <1>5, <1>6 DEF PipelineInv, RequestsOK
<1>8. request'[k] = r /\ \A l \in Slots \ {k} : request'[l] = request[l]
  BY <1>5 DEF PipelineInv, RequestsOK
<1>9. CollectionsOK'
  BY DEF PipelineInv, CollectionsOK, GenerateEndpoint, collections
<1>10. Provenance'
  <2>1. UNCHANGED <<scenarios, batches>>
    BY DEF GenerateEndpoint, collections
  <2>2. r.op # "execute"
    BY <1>6
  <2>. QED BY <1>8, <2>1, <2>2 DEF PipelineInv, Provenance
<1>11. ASSUME NEW i \in DOMAIN r.endpoints, i < r.next
       PROVE  CoveredOne(r.endpoints[i], r.made)
  <2>1. IsList(q.made) /\ IsList(more)
    BY <1>2, <1>4, ListOf
  <2>2. i \in Nat
    BY <1>2, <1>6, ListOf, ListFacts
  <2>3. CASE i < q.next
    <3>1. CoveredOne(q.endpoints[i], q.made)
      BY <1>1, <1>6, <1>11, <2>3 DEF PipelineInv, Coverage
    <3>. QED BY <1>6, <2>1, <3>1, CoveredConcat
  <2>4. CASE i = q.next
    <3>. HIDE DEF q
    <3>. QED BY <1>4, <1>6, <2>1, <2>4, CoveredConcat
  <2>. QED BY <1>2, <1>6, <1>11, <2>2, <2>3, <2>4
<1>12. Coverage'
  BY <1>8, <1>11 DEF PipelineInv, Coverage, GenerateEndpoint
<1>. QED BY <1>7, <1>9, <1>10, <1>12 DEF PipelineInv

\* What was generated stays so.
LEMMA GeneratedStays ==
  ASSUME NEW calls, IsList(calls), NEW call, NEW d, Generated(calls, d)
  PROVE  Generated(Append(calls, call), d)
<1>. DEFINE more == Append(calls, call)
<1>1. DOMAIN calls = 1..Len(calls) /\ Len(calls) \in Nat /\ calls \in Seq(ToSet(calls))
  BY ListFacts
<1>. DEFINE X == ToSet(calls) \cup {call}
<1>2. calls \in Seq(X) /\ call \in X
  BY <1>1, SeqMonotonic
<1>. HIDE DEF X
<1>3. DOMAIN calls \subseteq DOMAIN more /\ \A i \in DOMAIN calls : more[i] = calls[i]
  BY <1>1, <1>2, AppendProperties
<1>. HIDE DEF more
<1>4. Generated(more, d)
  BY <1>3 DEF Generated
<1>. QED BY <1>4 DEF more

LEMMA EndGenerateStep ==
  ASSUME PipelineInv, NEW k \in Slots, EndGenerate(k)
  PROVE  PipelineInv'
<1>. DEFINE q    == request[k]
            made == q.made
            ids  == NewIds(Len(made))
            call == [ids |-> ids, scenarios |-> made, endpoints |-> q.endpoints]
<1>1. q \in Generating /\ q.op = "generate" /\ q.next > Len(q.endpoints)
  BY DEF PipelineInv, RequestsOK, EndGenerate, Idle, Executing
<1>2. q.endpoints \in Seq(Endpoints) /\ q.next \in Nat /\ made \in Seq(Chaos)
  BY <1>1 DEF Generating
<1>3. /\ scenarios' = Saved(scenarios, made) /\ batches' = Append(batches, call)
      /\ issued' = issued + Len(made) /\ request' = [request EXCEPT ![k] = Idle]
      /\ UNCHANGED <<schemas, executions, reports, analytics, day>>
  BY DEF EndGenerate
<1>4. \A i \in DOMAIN q.endpoints : CoveredOne(q.endpoints[i], made)
  <2>1. \A i \in DOMAIN q.endpoints : i < q.next
    <3>1. Len(q.endpoints) \in Nat /\ DOMAIN q.endpoints = 1..Len(q.endpoints)
      BY <1>2, LenProperties
    <3>. HIDE DEF q
    <3>. QED BY <1>1, <1>2, <3>1
  <2>. QED BY <1>1, <2>1 DEF PipelineInv, Coverage
<1>5. Covered(q.endpoints, made)
  BY <1>4 DEF Covered, CoveredOne, Enough, Count
<1>. HIDE DEF made
<1>6. Len(made) \in Nat /\ DOMAIN made = 1..Len(made) /\ issued \in Nat
  BY <1>2, LenProperties DEF PipelineInv, CollectionsOK
<1>7. /\ ids \in Seq(Nat) /\ Len(ids) = Len(made) /\ DOMAIN ids = 1..Len(made)
      /\ \A i \in 1..Len(made) : ids[i] = issued + i
  <2>1. ids = [i \in 1..Len(made) |-> ids[i]] /\ \A i \in 1..Len(made) : ids[i] = issued + i
    BY DEF NewIds
  <2>. HIDE DEF ids
  <2>2. \A i \in 1..Len(made) : ids[i] \in Nat
    BY <1>6, <2>1
  <2>3. IsList(ids) /\ Len(ids) = Len(made) /\ DOMAIN ids = 1..Len(made)
    BY <1>6, <2>1, ListIs
  <2>. QED BY <2>1, <2>2, <2>3, ListOf
<1>. HIDE DEF ids
<1>8. call \in Batch /\ call.ids = ids /\ call.scenarios = made /\ call.endpoints = q.endpoints
  BY <1>2, <1>7 DEF Batch
<1>9. batches \in Seq(Batch) /\ IsList(batches) /\ Len(batches) \in Nat /\ DOMAIN batches = 1..Len(batches)
  BY ListOf, ListFacts DEF PipelineInv, CollectionsOK
<1>. HIDE DEF call
<1>10. /\ batches' \in Seq(Batch) /\ DOMAIN batches' = 1..(Len(batches) + 1)
       /\ batches'[Len(batches) + 1] = call
       /\ \A i \in 1..Len(batches) : batches'[i] = batches[i]
  <2>1. /\ Append(batches, call) \in Seq(Batch)
        /\ Append(batches, call)[Len(batches) + 1] = call
        /\ Len(Append(batches, call)) = Len(batches) + 1
        /\ \A i \in 1..Len(batches) : Append(batches, call)[i] = batches[i]
    BY <1>8, <1>9, AppendProperties
  <2>2. DOMAIN Append(batches, call) = 1..(Len(batches) + 1)
    BY <2>1, LenProperties
  <2>. QED BY <1>3, <2>1, <2>2
<1>11. scenarios' \in Seq(Stored(Chaos)) /\ OldOrNew(scenarios', scenarios, made, issued)
  <2>1. scenarios \in Seq(Stored(Chaos))
    BY DEF PipelineInv, CollectionsOK
  <2>. QED BY <1>2, <1>3, <1>6, <2>1, SavedOK
<1>12. CollectionsOK'
  BY <1>3, <1>6, <1>10, <1>11 DEF PipelineInv, CollectionsOK
<1>13. RequestsOK' /\ \A l \in Slots : request'[l].op # "idle" => request'[l] = request[l]
  BY <1>3 DEF PipelineInv, RequestsOK, Idle
<1>14. \A d : Generated(batches, d) => Generated(batches', d)
  BY <1>3, <1>9, GeneratedStays
<1>15. ASSUME NEW i \in DOMAIN scenarios' PROVE Generated(batches', scenarios'[i])
  <2>1. CASE \E j \in DOMAIN scenarios : scenarios'[i] = scenarios[j]
    BY <1>14, <2>1 DEF PipelineInv, Provenance
  <2>2. CASE \E j \in DOMAIN made : scenarios'[i] = [id |-> issued + j, doc |-> made[j]]
    <3>1. PICK j \in DOMAIN made : scenarios'[i] = [id |-> issued + j, doc |-> made[j]]
      BY <2>2
    <3>2. scenarios'[i].id = issued + j /\ scenarios'[i].doc = made[j]
      BY <3>1
    <3>3. j \in DOMAIN call.ids /\ call.ids[j] = scenarios'[i].id /\ call.scenarios[j] = scenarios'[i].doc
      BY <1>6, <1>7, <1>8, <3>2
    <3>4. Len(batches) + 1 \in DOMAIN batches'
      BY <1>9, <1>10
    <3>. QED BY <1>10, <3>3, <3>4 DEF Generated
  <2>. QED BY <1>11, <2>1, <2>2 DEF OldOrNew
<1>16. Provenance'
  <2>1. ASSUME NEW l \in Slots, request'[l].op = "execute"
        PROVE  /\ Len(request'[l].load) = Len(request'[l].ids)
               /\ \A i \in DOMAIN request'[l].ids :
                    request'[l].load[i].id = request'[l].ids[i] /\ Generated(batches', request'[l].load[i])
    <3>1. request'[l] = request[l] /\ request[l].op = "execute"
      BY <1>13, <2>1
    <3>. QED BY <1>14, <3>1 DEF PipelineInv, Provenance
  <2>. QED BY <1>15, <2>1 DEF Provenance
<1>17. Coverage'
  <2>1. ASSUME NEW l \in Slots, request'[l].op = "generate", NEW i \in DOMAIN request'[l].endpoints,
               i < request'[l].next
        PROVE  CoveredOne(request'[l].endpoints[i], request'[l].made)
    <3>1. request'[l] = request[l]
      BY <1>13, <2>1
    <3>. QED BY <2>1, <3>1 DEF PipelineInv, Coverage
  <2>2. ASSUME NEW i \in DOMAIN batches'
        PROVE  /\ Covered(batches'[i].endpoints, batches'[i].scenarios)
               /\ Len(batches'[i].ids) = Len(batches'[i].scenarios)
    <3>1. CASE i \in DOMAIN batches
      BY <1>9, <1>10, <3>1 DEF PipelineInv, Coverage
    <3>2. CASE i = Len(batches) + 1
      BY <1>5, <1>7, <1>8, <1>10, <3>2
    <3>. QED BY <1>9, <1>10, <3>1, <3>2
  <2>. QED BY <2>1, <2>2 DEF Coverage
<1>. QED BY <1>12, <1>13, <1>16, <1>17 DEF PipelineInv

\* Every id that was asked for is found: what is loaded is what was asked for.
LEMMA LoadedOK ==
  ASSUME PipelineInv, NEW ids, IsList(ids), Loadable(ids)
  PROVE  LET found == Filter(ids, LAMBDA id : id \in Ids(scenarios))
             load  == [i \in DOMAIN found |-> [id |-> found[i], doc |-> Document(scenarios, found[i])]]
         IN  /\ ids \in Seq(Nat) /\ load \in Seq(Stored(Chaos)) /\ Len(load) = Len(ids)
             /\ \A i \in DOMAIN ids : load[i].id = ids[i] /\ Generated(batches, load[i])
<1>. DEFINE I       == {i \in DOMAIN ids : ids[i] \in Ids(scenarios)}
            found   == Filter(ids, LAMBDA id : id \in Ids(scenarios))
            n       == Len(ids)
            task(i) == [id |-> ids[i], doc |-> Document(scenarios, ids[i])]
            load    == [i \in DOMAIN found |-> [id |-> found[i], doc |-> Document(scenarios, found[i])]]
<1>1. n \in Nat /\ DOMAIN ids = 1..n /\ ids \in Seq(ToSet(ids))
  BY ListFacts
<1>2. \A i \in 1..n : ids[i] \in Ids(scenarios)
  BY <1>1 DEF Loadable
<1>3. found = ids
  <2>1. DOMAIN ids \subseteq I
    BY <1>1, <1>2
  <2>2. found = Pick(ids, I)
    BY DEF Filter
  <2>. HIDE DEF found, I
  <2>. QED BY <1>1, <2>1, <2>2, PickAll
<1>4. load = [i \in 1..n |-> task(i)]
  <2>. HIDE DEF found
  <2>. QED BY <1>1, <1>3
<1>. HIDE DEF load
<1>5. scenarios \in Seq(Stored(Chaos))
  BY DEF PipelineInv, CollectionsOK
<1>6. ASSUME NEW i \in 1..n
      PROVE  /\ ids[i] \in Nat /\ task(i) \in Stored(Chaos) /\ task(i).id = ids[i]
             /\ Generated(batches, task(i))
  <2>1. PICK j \in DOMAIN scenarios : scenarios[j].id = ids[i] /\ Document(scenarios, ids[i]) = scenarios[j].doc
    BY <1>2, DocumentOK
  <2>2. scenarios[j] \in Stored(Chaos)
    BY <1>5, ListOf
  <2>3. ids[i] \in Nat /\ task(i) \in Stored(Chaos)
    BY <2>1, <2>2 DEF Stored
  <2>4. task(i).id = ids[i] /\ task(i).doc = scenarios[j].doc
    BY <2>1
  <2>5. Generated(batches, scenarios[j])
    BY DEF PipelineInv, Provenance
  <2>. HIDE DEF task
  <2>. QED BY <2>1, <2>3, <2>4, <2>5 DEF Generated
<1>7. ids \in Seq(Nat)
  BY <1>1, <1>6, ListOf
<1>. HIDE DEF task, n
<1>8. load = [i \in 1..n |-> load[i]] /\ \A i \in 1..n : load[i] = task(i)
  BY <1>4
<1>9. IsList(load) /\ Len(load) = n /\ DOMAIN load = 1..n
  BY <1>1, <1>8, ListIs
<1>10. load \in Seq(Stored(Chaos))
  BY <1>6, <1>8, <1>9, ListOf
<1>11. \A i \in DOMAIN ids : load[i].id = ids[i] /\ Generated(batches, load[i])
  BY <1>1, <1>6, <1>8
<1>. QED BY <1>7, <1>9, <1>10, <1>11 DEF load, found, n

LEMMA StartExecutionStep ==
  ASSUME PipelineInv, NEW k \in Slots, NEW ids, StartExecution(k, ids)
  PROVE  PipelineInv'
<1>. DEFINE found == Filter(ids, LAMBDA id : id \in Ids(scenarios))
            load  == [i \in DOMAIN found |-> [id |-> found[i], doc |-> Document(scenarios, found[i])]]
            r     == [op |-> "execute", ids |-> ids, load |-> load]
<1>1. request' = [request EXCEPT ![k] = r]
  BY DEF StartExecution
<1>2. /\ ids \in Seq(Nat) /\ load \in Seq(Stored(Chaos)) /\ Len(load) = Len(ids)
      /\ \A i \in DOMAIN ids : load[i].id = ids[i] /\ Generated(batches, load[i])
  BY LoadedOK DEF StartExecution
<1>. HIDE DEF load
<1>3. r \in Executing /\ r.op = "execute" /\ r.ids = ids /\ r.load = load
  BY <1>2 DEF Executing
<1>. HIDE DEF r
<1>4. RequestsOK'
  BY <1>1, <1>3 DEF PipelineInv, RequestsOK
<1>5. request'[k] = r /\ \A l \in Slots \ {k} : request'[l] = request[l]
  BY <1>1 DEF PipelineInv, RequestsOK
<1>6. CollectionsOK' /\ UNCHANGED <<scenarios, batches>>
  BY DEF PipelineInv, CollectionsOK, StartExecution, collections
<1>7. Provenance'
  BY <1>2, <1>3, <1>5, <1>6 DEF PipelineInv, Provenance
<1>8. Coverage'
  BY <1>3, <1>5, <1>6 DEF PipelineInv, Coverage
<1>. QED BY <1>4, <1>6, <1>7, <1>8 DEF PipelineInv

\* The results of an execution, one for each scenario that was loaded.
Results(load, target) == [i \in DOMAIN load |-> ResultOf(load[i], i, target)]
LEMMA ResultsOK ==
  ASSUME NEW load \in Seq(Stored(Chaos)), NEW target
  PROVE  LET rs == Results(load, target)
         IN  /\ rs \in Seq(Result) /\ Len(rs) = Len(load)
             /\ \A i \in 1..Len(load) : /\ rs[i].scenario = load[i].id /\ rs[i].type = load[i].doc.type
                                        /\ rs[i].severity = load[i].doc.severity
<1>. DEFINE n  == Len(load)
            rs == Results(load, target)
<1>1. n \in Nat /\ DOMAIN load = 1..n /\ \A i \in 1..n : load[i] \in Stored(Chaos)
  BY LenProperties, ElementOfSeq
<1>2. rs = [i \in 1..n |-> ResultOf(load[i], i, target)]
  BY <1>1 DEF Results
<1>3. ASSUME NEW i \in 1..n
      PROVE  /\ ResultOf(load[i], i, target) \in Result
             /\ ResultOf(load[i], i, target).scenario = load[i].id
             /\ ResultOf(load[i], i, target).type = load[i].doc.type
             /\ ResultOf(load[i], i, target).severity = load[i].doc.severity
  <2>. DEFINE type   == load[i].doc.type
              answer == IF type \in Injected THEN target[type][(i % 2) + 1] ELSE "failed"
              status == IF answer \in {"failed", "timeout"} THEN answer ELSE "completed"
              hit    == answer = "vulnerable" /\ type # "latency"
  <2>1. load[i].id \in Nat /\ type \in ScenarioTypes /\ load[i].doc.severity \in ToSet(Severities)
    BY <1>1 DEF Stored, Chaos
  <2>2. ResultOf(load[i], i, target) =
          [scenario |-> load[i].id, type |-> type, severity |-> load[i].doc.severity,
           status |-> status, vulnerable |-> hit]
    BY DEF ResultOf
  <2>. HIDE DEF answer
  <2>3. status \in {"failed", "timeout", "completed"} /\ hit \in BOOLEAN /\ (hit => status = "completed")
    OBVIOUS
  <2>. HIDE DEF type, status, hit
  <2>4. ResultOf(load[i], i, target) \in Result
    BY <2>1, <2>2, <2>3 DEF Result
  <2>. QED BY <2>2, <2>4 DEF type
<1>. HIDE DEF n, rs
<1>4. rs = [i \in 1..n |-> rs[i]] /\ \A i \in 1..n : rs[i] = ResultOf(load[i], i, target)
  BY <1>2
<1>5. IsList(rs) /\ Len(rs) = n /\ DOMAIN rs = 1..n
  BY <1>1, <1>4, ListIs
<1>6. rs \in Seq(Result)
  <2>1. \A i \in DOMAIN rs : rs[i] \in Result
    BY <1>3, <1>4, <1>5
  <2>. QED BY <1>5, <2>1, ListOf
<1>. QED BY <1>3, <1>4, <1>5, <1>6 DEF n, rs

\* What an execution saves, when it ends.
Executed(load, target) == [total |-> Len(Results(load, target)), results |-> Results(load, target)]

LEMMA EndExecutionSaves ==
  ASSUME PipelineInv, NEW k \in Slots, NEW target, EndExecution(k, target)
  PROVE  /\ request[k].load \in Seq(Stored(Chaos))
         /\ executions' \in Seq(Stored(Tests))
         /\ Len(executions') \in DOMAIN executions'
         /\ executions'[Len(executions')].doc = Executed(request[k].load, target)
<1>. DEFINE load == request[k].load
            test == Executed(load, target)
            docs == <<test>>
<1>1. load \in Seq(Stored(Chaos))
  <2>1. request[k] \in Executing
    BY DEF PipelineInv, RequestsOK, EndExecution, Idle, Generating
  <2>. QED BY <2>1 DEF Executing
<1>2. executions' = Saved(executions, docs)
  BY DEF EndExecution, Executed, Results
<1>3. test \in Tests
  <2>. HIDE DEF load
  <2>1. Results(load, target) \in Seq(Result)
    BY <1>1, ResultsOK
  <2>. QED BY <2>1 DEF Tests, Executed
<1>. HIDE DEF test
<1>4. docs \in Seq(Tests) /\ docs # <<>> /\ docs[Len(docs)] = test
  <2>1. docs \in Seq(Tests) /\ Len(docs) = 1 /\ docs[1] = test
    BY <1>3
  <2>. QED BY <2>1, EmptyList
<1>. HIDE DEF docs
<1>5. executions \in Seq(Stored(Tests)) /\ issued \in Nat
  BY DEF PipelineInv, CollectionsOK
<1>. QED BY <1>1, <1>2, <1>4, <1>5, SavedOK DEF test

LEMMA EndExecutionStep ==
  ASSUME PipelineInv, NEW k \in Slots, NEW target, EndExecution(k, target)
  PROVE  PipelineInv'
<1>1. /\ request' = [request EXCEPT ![k] = Idle] /\ issued' = issued + 1
      /\ UNCHANGED <<schemas, scenarios, reports, analytics, day, batches>>
  BY DEF EndExecution
<1>2. executions' \in Seq(Stored(Tests))
  BY EndExecutionSaves
<1>3. CollectionsOK'
  BY <1>1, <1>2 DEF PipelineInv, CollectionsOK
<1>4. RequestsOK' /\ \A l \in Slots : request'[l].op # "idle" => request'[l] = request[l]
  BY <1>1 DEF PipelineInv, RequestsOK, Idle
<1>5. Provenance'
  <2>1. ASSUME NEW l \in Slots, request'[l].op = "execute"
        PROVE  request'[l] = request[l]
    BY <1>4, <2>1
  <2>. QED BY <1>1, <2>1 DEF PipelineInv, Provenance
<1>6. Coverage'
  <2>1. ASSUME NEW l \in Slots, request'[l].op = "generate"
        PROVE  request'[l] = request[l]
    BY <1>4, <2>1
  <2>. QED BY <1>1, <2>1 DEF PipelineInv, Coverage
<1>. QED BY <1>3, <1>4, <1>5, <1>6 DEF PipelineInv

LEMMA ReportOnStep ==
  ASSUME PipelineInv, NEW id \in Ids(executions), NEW today \in day..MaxDay, ReportOn(id, today)
  PROVE  PipelineInv'
<1>. DEFINE test == Document(executions, id)
            rep  == GenerateReport(test, today)
            docs == <<rep>>
<1>1. executions \in Seq(Stored(Tests)) /\ reports \in Seq(Stored(Reports)) /\ issued \in Nat /\ day \in 0..MaxDay
  BY DEF PipelineInv, CollectionsOK
<1>2. test \in Tests
  <2>1. PICK i \in DOMAIN executions : test = executions[i].doc
    BY DocumentOK
  <2>2. executions[i] \in Stored(Tests)
    BY <1>1, ListOf
  <2>. QED BY <2>1, <2>2 DEF Stored
<1>3. today \in 0..MaxDay
  BY <1>1, PipelineConstants
<1>4. rep \in Reports
  <2>. HIDE DEF test
  <2>. QED BY <1>2, <1>3 DEF Reports
<1>5. /\ reports' = Saved(reports, docs) /\ day' = today /\ issued' = issued + 1
      /\ UNCHANGED <<schemas, scenarios, executions, request, analytics, batches>>
  BY DEF ReportOn
<1>. HIDE DEF rep
<1>6. docs \in Seq(Reports)
  BY <1>4
<1>. HIDE DEF docs
<1>7. reports' \in Seq(Stored(Reports))
  BY <1>1, <1>5, <1>6, SavedOK
<1>8. CollectionsOK'
  BY <1>3, <1>5, <1>7 DEF PipelineInv, CollectionsOK
<1>9. RequestsOK' /\ Provenance' /\ Coverage'
  BY <1>5, RequestsRest
<1>. QED BY <1>8, <1>9 DEF PipelineInv

LEMMA StoreReportStep ==
  ASSUME PipelineInv, NEW id \in Ids(reports), StoreReport(id)
  PROVE  PipelineInv'
<1>. DEFINE rep == Document(reports, id)
<1>1. reports \in Seq(Stored(Reports)) /\ analytics \in Seq(Reports)
  BY DEF PipelineInv, CollectionsOK
<1>2. rep \in Reports
  <2>1. PICK i \in DOMAIN reports : rep = reports[i].doc
    BY DocumentOK
  <2>2. reports[i] \in Stored(Reports)
    BY <1>1, ListOf
  <2>. QED BY <2>1, <2>2 DEF Stored
<1>3. analytics' = Append(analytics, rep) /\ UNCHANGED <<collections, issued, request, day, batches>>
  BY DEF StoreReport
<1>. HIDE DEF rep
<1>4. analytics' \in Seq(Reports)
  BY <1>1, <1>2, <1>3
<1>5. CollectionsOK'
  BY <1>3, <1>4 DEF PipelineInv, CollectionsOK, collections
<1>6. RequestsOK' /\ Provenance' /\ Coverage'
  BY <1>3, RequestsRest DEF collections
<1>. QED BY <1>5, <1>6 DEF PipelineInv

\* What is left when the first one goes.
LEMMA TailOK ==
  ASSUME NEW X, NEW s \in Seq(X), s # <<>>
  PROVE  Tail(s) \in Seq(X)
BY HeadTailProperties

LEMMA ExpireStep ==
  ASSUME PipelineInv, Expire
  PROVE  PipelineInv'
<1>1. UNCHANGED <<issued, request, analytics, day, batches>>
  BY DEF Expire
<1>2. /\ schemas \in Seq(Stored(Specs)) /\ scenarios \in Seq(Stored(Chaos))
      /\ executions \in Seq(Stored(Tests)) /\ reports \in Seq(Stored(Reports))
  BY DEF PipelineInv, CollectionsOK
<1>3. ASSUME NEW n \in DOMAIN schemas, schemas' = Filter(schemas, LAMBDA s : s.id # schemas[n].id),
             UNCHANGED <<scenarios, executions, reports>>
      PROVE  PipelineInv'
  <2>. DEFINE I == {i \in DOMAIN schemas : schemas[i].id # schemas[n].id}
  <2>1. schemas' = Pick(schemas, I)
    BY <1>3 DEF Filter
  <2>. HIDE DEF I
  <2>2. schemas' \in Seq(Stored(Specs))
    BY <1>2, <2>1, PickIs
  <2>. QED BY <1>1, <1>3, <2>2, RequestsRest DEF PipelineInv, CollectionsOK
<1>4. CASE executions # <<>> /\ executions' = Tail(executions) /\ UNCHANGED <<schemas, scenarios, reports>>
  <2>1. executions' \in Seq(Stored(Tests))
    BY <1>2, <1>4, TailOK
  <2>. QED BY <1>1, <1>4, <2>1, RequestsRest DEF PipelineInv, CollectionsOK
<1>5. CASE reports # <<>> /\ reports' = Tail(reports) /\ UNCHANGED <<schemas, scenarios, executions>>
  <2>1. reports' \in Seq(Stored(Reports))
    BY <1>2, <1>5, TailOK
  <2>. QED BY <1>1, <1>5, <2>1, RequestsRest DEF PipelineInv, CollectionsOK
<1>6. ASSUME NEW b \in ToSet(batches), UNCHANGED <<schemas, executions, reports>>,
             scenarios' = Filter(scenarios, LAMBDA d : d.id > Last(b.ids))
      PROVE  PipelineInv'
  <2>. DEFINE I == {i \in DOMAIN scenarios : scenarios[i].id > Last(b.ids)}
  <2>1. scenarios' = Pick(scenarios, I)
    BY <1>6 DEF Filter
  <2>. HIDE DEF I
  <2>2. IsList(scenarios)
    BY <1>2, ListOf
  <2>3. \A i \in DOMAIN scenarios' : \E j \in DOMAIN scenarios : scenarios'[i] = scenarios[j]
    BY <2>1, <2>2, PickList
  <2>4. scenarios' \in Seq(Stored(Chaos))
    BY <1>2, <2>1, PickIs
  <2>5. CollectionsOK'
    BY <1>1, <1>6, <2>4 DEF PipelineInv, CollectionsOK
  <2>. QED BY <1>1, <2>3, <2>5, RequestsRest DEF PipelineInv
<1>. QED BY <1>3, <1>4, <1>5, <1>6 DEF Expire

LEMMA InvNext == PipelineInv /\ [PipelineNext]_pipelineVars => PipelineInv'
<1>. SUFFICES ASSUME PipelineInv, [PipelineNext]_pipelineVars PROVE PipelineInv'
  OBVIOUS
<1>1. ASSUME NEW file \in Files, Upload(file) PROVE PipelineInv'
  BY <1>1, UploadStep
<1>2. ASSUME NEW k \in Slots, NEW id \in Ids(schemas), StartGenerate(k, id) PROVE PipelineInv'
  BY <1>2, StartGenerateStep
<1>3. ASSUME NEW k \in Slots, NEW answer \in Replies, GenerateEndpoint(k, answer) PROVE PipelineInv'
  BY <1>3, GenerateEndpointStep
<1>4. ASSUME NEW k \in Slots, EndGenerate(k) PROVE PipelineInv'
  BY <1>4, EndGenerateStep
<1>5. ASSUME NEW k \in Slots, NEW ids \in IdLists(batches), StartExecution(k, ids) PROVE PipelineInv'
  BY <1>5, StartExecutionStep
<1>6. ASSUME NEW k \in Slots, NEW target \in Targets, EndExecution(k, target) PROVE PipelineInv'
  BY <1>6, EndExecutionStep
<1>7. ASSUME NEW id \in Ids(executions), NEW today \in day..MaxDay, ReportOn(id, today) PROVE PipelineInv'
  BY <1>7, ReportOnStep
<1>8. ASSUME NEW id \in Ids(reports), StoreReport(id) PROVE PipelineInv'
  BY <1>8, StoreReportStep
<1>9. ASSUME Expire PROVE PipelineInv'
  BY <1>9, ExpireStep
<1>10. ASSUME UNCHANGED pipelineVars PROVE PipelineInv'
  BY <1>10 DEF pipelineVars, collections, PipelineInv, CollectionsOK, RequestsOK, Provenance, Coverage
<1>. QED BY <1>1, <1>2, <1>3, <1>4, <1>5, <1>6, <1>7, <1>8, <1>9, <1>10 DEF PipelineNext

\* In every state the collections, the requests and what generate returned
\* fit together: what is stored or loaded was generated under its id, and a
\* request has covered the endpoints it has come by.
THEOREM PipelineInvariant == PipelineSpec => []PipelineInv
<1>. QED BY InvInit, InvNext, PTL DEF PipelineSpec

\* However the models answered, each call of generate returned the scenarios
\* of every kind for every endpoint, each with its id.
THEOREM PipelineCovers == PipelineSpec => []EveryEndpointCovered
<1>1. PipelineInv => EveryEndpointCovered
  BY DEF PipelineInv, Coverage, EveryEndpointCovered, ToSet
<1>. QED BY <1>1, PipelineInvariant, PTL

\* A step that ends an execution.
AnswersStep(k) ==
  request[k].op = "execute" /\ request'[k] = Idle =>
    LET asked   == request[k].ids
        results == Last(executions').doc.results
    IN  /\ Len(results) = Len(asked)
        /\ \A i \in DOMAIN asked : results[i].scenario = asked[i] /\
             \E b \in ToSet(batches) : \E n \in DOMAIN b.ids :
               /\ b.ids[n] = asked[i]
               /\ b.scenarios[n].type = results[i].type
               /\ b.scenarios[n].severity = results[i].severity

LEMMA EndExecutionAnswers ==
  ASSUME PipelineInv, NEW k \in Slots, NEW target, EndExecution(k, target)
  PROVE  AnswersStep(k)
<1>. DEFINE asked   == request[k].ids
            load    == request[k].load
            results == Results(load, target)
            n       == Len(asked)
<1>1. /\ executions'[Len(executions')].doc = Executed(load, target)
      /\ load \in Seq(Stored(Chaos))
  BY EndExecutionSaves
<1>2. Last(executions').doc.results = results
  <2>. HIDE DEF load
  <2>. QED BY <1>1 DEF Last, Executed
<1>3. asked \in Seq(Nat) /\ Len(load) = n
      /\ \A i \in DOMAIN asked : load[i].id = asked[i] /\ Generated(batches, load[i])
  <2>1. request[k].op = "execute"
    BY DEF EndExecution
  <2>2. request[k] \in Executing
    BY <2>1 DEF PipelineInv, RequestsOK, Idle, Generating
  <2>. QED BY <2>1, <2>2 DEF PipelineInv, Provenance, Executing
<1>4. DOMAIN asked = 1..n /\ n \in Nat
  BY <1>3, LenProperties
<1>. HIDE DEF load, asked
<1>5. /\ Len(results) = n
      /\ \A i \in 1..n : /\ results[i].scenario = load[i].id /\ results[i].type = load[i].doc.type
                         /\ results[i].severity = load[i].doc.severity
  BY <1>1, <1>3, ResultsOK
<1>. HIDE DEF results, n
<1>6. ASSUME NEW i \in DOMAIN asked
      PROVE  /\ results[i].scenario = asked[i]
             /\ \E b \in ToSet(batches) : \E m \in DOMAIN b.ids :
                  /\ b.ids[m] = asked[i] /\ b.scenarios[m].type = results[i].type
                  /\ b.scenarios[m].severity = results[i].severity
  <2>1. PICK j \in DOMAIN batches : \E m \in DOMAIN batches[j].ids :
          batches[j].ids[m] = load[i].id /\ batches[j].scenarios[m] = load[i].doc
    BY <1>3 DEF Generated
  <2>2. PICK m \in DOMAIN batches[j].ids :
          batches[j].ids[m] = load[i].id /\ batches[j].scenarios[m] = load[i].doc
    BY <2>1
  <2>3. batches[j] \in ToSet(batches)
    BY DEF ToSet
  <2>4. load[i].id = asked[i] /\ results[i].scenario = load[i].id /\ results[i].type = load[i].doc.type
        /\ results[i].severity = load[i].doc.severity
    BY <1>3, <1>4, <1>5
  <2>. QED BY <2>2, <2>3, <2>4
<1>. QED BY <1>2, <1>5, <1>6 DEF AnswersStep, asked, n

\* An execution answers with one result for each id that was asked for, in
\* that order and about the scenario that was generated under it, whatever
\* was saved, evicted or expired while it ran.
THEOREM PipelineAnswers == PipelineSpec => ExecutionsAnswer
<1>1. ASSUME PipelineInv, [PipelineNext]_pipelineVars, NEW k \in Slots
      PROVE  AnswersStep(k)
  <2>. SUFFICES ASSUME request[k].op = "execute", request'[k] = Idle
                PROVE  \E target : EndExecution(k, target)
    BY <1>1, EndExecutionAnswers DEF AnswersStep
  <2>1. request'[k] # request[k]
    BY DEF Idle
  <2>2. \A l \in Slots : \A r : request' = [request EXCEPT ![l] = r] => l = k
    BY <1>1, <2>1 DEF PipelineInv, RequestsOK
  <2>3. ~\E file \in Files : Upload(file)
    BY <2>1 DEF Upload
  <2>4. ASSUME NEW l \in Slots, NEW id \in Ids(schemas), StartGenerate(l, id) PROVE FALSE
    BY <2>2, <2>4 DEF StartGenerate, Idle
  <2>5. ASSUME NEW l \in Slots, NEW answer \in Replies, GenerateEndpoint(l, answer) PROVE FALSE
    <3>1. l # k
      BY <2>5 DEF GenerateEndpoint
    <3>. QED BY <1>1, <2>1, <2>5, <3>1 DEF GenerateEndpoint, PipelineInv, RequestsOK
  <2>6. ASSUME NEW l \in Slots, EndGenerate(l) PROVE FALSE
    BY <2>2, <2>6 DEF EndGenerate
  <2>7. ASSUME NEW l \in Slots, NEW ids \in IdLists(batches), StartExecution(l, ids) PROVE FALSE
    BY <2>2, <2>7 DEF StartExecution, Idle
  <2>8. ASSUME NEW l \in Slots, NEW target \in Targets, EndExecution(l, target) PROVE EndExecution(k, target)
    BY <2>2, <2>8 DEF EndExecution
  <2>9. ASSUME NEW id \in Ids(executions), NEW today \in day..MaxDay, ReportOn(id, today) PROVE FALSE
    BY <2>1, <2>9 DEF ReportOn
  <2>10. ASSUME NEW id \in Ids(reports), StoreReport(id) PROVE FALSE
    BY <2>1, <2>10 DEF StoreReport
  <2>11. ~Expire
    BY <2>1 DEF Expire
  <2>12. ~UNCHANGED pipelineVars
    BY <2>1 DEF pipelineVars
  <2>. QED BY <1>1, <2>3, <2>4, <2>5, <2>6, <2>7, <2>8, <2>9, <2>10, <2>11, <2>12 DEF PipelineNext
<1>2. PipelineInv /\ [PipelineNext]_pipelineVars =>
        [\A k \in Slots : AnswersStep(k)]_pipelineVars
  BY <1>1
<1>3. ExecutionsAnswer <=> [][\A k \in Slots : AnswersStep(k)]_pipelineVars
  BY DEF ExecutionsAnswer, AnswersStep
<1>. QED BY <1>2, <1>3, PipelineInvariant, PTL DEF PipelineSpec

LEMMA GrpcParseOK ==
  ASSUME NEW file \in ProtocolFiles
  PROVE  LET services == GrpcParse(file)
         IN  \A i \in DOMAIN services : \A j \in DOMAIN services[i].methods :
               services[i].methods[j].type \in StreamingTypes
<1>. DEFINE services == GrpcParse(file)
<1>. SUFFICES ASSUME NEW i \in DOMAIN services, NEW j \in DOMAIN services[i].methods
              PROVE  services[i].methods[j].type \in StreamingTypes
  OBVIOUS
<1>. DEFINE body == file.services[i].body
            I    == {n \in DOMAIN body : ~body[n].qualified}
            seen == Pick(body, I)
<1>1. i \in DOMAIN file.services /\ services[i].methods = ExtractMethods(body)
  BY DEF GrpcParse
<1>2. IsList(body) /\ \A n \in DOMAIN body : {body[n].clientStreams, body[n].serverStreams} \subseteq BOOLEAN
  BY <1>1, PipelineConstants DEF IsProtocolFile
<1>3. seen = Filter(body, LAMBDA m : ~m.qualified)
  BY DEF Filter
<1>. HIDE DEF I, body
<1>4. j \in DOMAIN seen /\ services[i].methods[j].type = StreamingType(seen[j])
  <2>. HIDE DEF seen, services
  <2>. QED BY <1>1, <1>3 DEF ExtractMethods
<1>5. PICK n \in DOMAIN body : seen[j] = body[n]
  BY <1>2, <1>4, PickList
<1>. HIDE DEF seen
<1>6. seen[j].clientStreams \in BOOLEAN /\ seen[j].serverStreams \in BOOLEAN
  BY <1>2, <1>5
<1>7. StreamingType(seen[j]) \in StreamingTypes
  BY <1>6 DEF StreamingType, StreamingTypes
<1>. QED BY <1>4, <1>7

LEMMA GraphQLParseOK ==
  ASSUME NEW file \in ProtocolFiles
  PROVE  LET operations == GraphQLParse(file)
         IN  \A i \in DOMAIN operations : operations[i].field.type \in MappedTypes
<1>. DEFINE kind(k)   == <<"query", "mutation", "subscription">>[k]
            found(k)  == [i \in DOMAIN file.fields[kind(k)] |->
                           [kind |-> kind(k), field |-> ExtractField(file.fields[kind(k)][i])]]
            ss        == [k \in 1..3 |-> found(k)]
<1>1. GraphQLParse(file) = FlattenSeq(ss)
  BY DEF GraphQLParse
<1>2. \A k \in 1..3 : kind(k) \in {"query", "mutation", "subscription"}
  <2>1. \A k \in 1..3 : k = 1 \/ k = 2 \/ k = 3
    OBVIOUS
  <2>. QED BY <2>1
<1>. HIDE DEF kind
<1>3. \A t : GraphQLType(t) \in MappedTypes
  BY DEF GraphQLType, GraphQLTypes, MappedTypes
<1>4. ASSUME NEW k \in 1..3
      PROVE  IsList(ss[k]) /\ \A i \in DOMAIN ss[k] : ss[k][i].field.type \in MappedTypes
  <2>. DEFINE fs == file.fields[kind(k)]
              es == ss[k]
  <2>1. IsList(fs)
    BY <1>2, PipelineConstants DEF IsProtocolFile
  <2>2. es = [i \in DOMAIN fs |-> [kind |-> kind(k), field |-> ExtractField(fs[i])]]
    OBVIOUS
  <2>. HIDE DEF fs, es
  <2>3. Len(fs) \in Nat /\ DOMAIN fs = 1..Len(fs)
    BY <2>1, ListFacts
  <2>4. es = [i \in 1..Len(fs) |-> es[i]] /\ \A i \in 1..Len(fs) : es[i].field = ExtractField(fs[i])
    BY <2>2, <2>3
  <2>5. IsList(es) /\ DOMAIN es = 1..Len(fs)
    BY <2>3, <2>4, ListIs
  <2>6. \A f : ExtractField(f).type = GraphQLType(f.type)
    BY DEF ExtractField
  <2>. QED BY <1>3, <2>4, <2>5, <2>6 DEF es
<1>5. ss = [k \in 1..3 |-> ss[k]] /\ 3 \in Nat
  OBVIOUS
<1>. HIDE DEF ss
<1>6. IsList(ss) /\ DOMAIN ss = 1..3
  BY <1>5, ListIs
<1>7. ASSUME NEW n \in DOMAIN FlattenSeq(ss) PROVE FlattenSeq(ss)[n].field.type \in MappedTypes
  <2>1. PICK i \in DOMAIN ss : \E j \in DOMAIN ss[i] : FlattenSeq(ss)[n] = ss[i][j]
    BY <1>4, <1>6, FlattenLists
  <2>. QED BY <1>4, <1>6, <2>1
<1>. QED BY <1>1, <1>7

\* What the parsers of the second version find has types a test can use.
LEMMA ParseV2OK ==
  ASSUME NEW file \in ProtocolFiles, NEW protocol
  PROVE  LET answer == ParseV2(file, protocol)
         IN  answer.op = "parse" =>
               /\ \A i \in DOMAIN answer.services : \A j \in DOMAIN answer.services[i].methods :
                    answer.services[i].methods[j].type \in StreamingTypes
               /\ \A i \in DOMAIN answer.operations : answer.operations[i].field.type \in MappedTypes
<1>. DEFINE services   == IF protocol = "grpc" THEN GrpcParse(file) ELSE <<>>
            operations == IF protocol = "graphql" THEN GraphQLParse(file) ELSE <<>>
            answer     == ParseV2(file, protocol)
<1>1. \A i \in DOMAIN services : \A j \in DOMAIN services[i].methods :
        services[i].methods[j].type \in StreamingTypes
  BY GrpcParseOK, EmptyList
<1>2. \A i \in DOMAIN operations : operations[i].field.type \in MappedTypes
  BY GraphQLParseOK, EmptyList
<1>3. answer = Refused \/ answer = [op |-> "parse", services |-> services, operations |-> operations]
  BY DEF ParseV2
<1>4. answer.op = "parse" => answer.services = services /\ answer.operations = operations
  <2>. HIDE DEF services, operations, answer
  <2>. QED BY <1>3 DEF Refused
<1>. HIDE DEF services, operations
<1>. QED BY <1>1, <1>2, <1>4

\* The collections hold whole specs, scenarios and results, and the parsers
\* of the second version answer with types the models have.
THEOREM PipelineTypes == PipelineSpec => []PipelineTypeOK
<1>1. ASSUME PipelineInv PROVE PipelineTypeOK
  <2>1. /\ schemas \in Seq(Stored(Specs)) /\ scenarios \in Seq(Stored(Chaos))
        /\ executions \in Seq(Stored(Tests)) /\ issued \in Nat /\ day \in 0..MaxDay
    BY <1>1 DEF PipelineInv, CollectionsOK
  <2>2. ASSUME NEW i \in DOMAIN schemas PROVE IsSpec(schemas[i].doc)
    <3>1. schemas[i] \in Stored(Specs)
      BY <2>1, ListOf
    <3>. QED BY <3>1, SpecsOK DEF Stored
  <2>3. ASSUME NEW i \in DOMAIN scenarios PROVE IsScenario(scenarios[i].doc)
    <3>1. scenarios[i] \in Stored(Chaos)
      BY <2>1, ListOf
    <3>2. scenarios[i].doc \in Chaos
      BY <3>1 DEF Stored
    <3>3. PICK e \in Endpoints : scenarios[i].doc.endpoint = Place(e)
      BY <3>2 DEF Chaos
    <3>4. e.method \in Methods
      BY EndpointsOK DEF IsWhole, IsEndpoint
    <3>5. scenarios[i].doc.endpoint.method \in Methods
      BY <3>3, <3>4 DEF Place
    <3>. QED BY <3>2, <3>5 DEF Chaos, IsScenario
  <2>4. ASSUME NEW i \in DOMAIN executions PROVE executions[i].doc.total = Len(executions[i].doc.results)
    <3>1. executions[i] \in Stored(Tests)
      BY <2>1, ListOf
    <3>2. executions[i].doc \in Tests
      BY <3>1 DEF Stored
    <3>. QED BY <3>2 DEF Tests
  <2>5. \A k \in Slots : request[k].op \in {"idle", "generate", "execute"}
    BY <1>1 DEF PipelineInv, RequestsOK, Idle, Generating, Executing
  <2>. QED BY <2>1, <2>2, <2>3, <2>4, <2>5, ParseV2OK DEF PipelineTypeOK
<1>. QED BY <1>1, PipelineInvariant, PTL
--------------------------------------------------------------------------
(* Reports.                                                              *)

Found == [scenario : Nat, type : ScenarioTypes, severity : ToSet(Severities), endpoint : {"none"}]

LEMMA Percent ==
  ASSUME NEW a \in Nat, NEW b \in Nat, a <= b, b > 0
  PROVE  (a * 10000) \div b \in Nat /\ (a * 10000) \div b <= 10000
OBVIOUS

LEMMA SeveritiesAre ==
  /\ \A i \in 1..5 : Severities[i] \in ToSet(Severities)
  /\ \A s \in ToSet(Severities) : \E i \in 1..5 : s = Severities[i]
  /\ \A i, j \in 1..5 : Severities[i] = Severities[j] => i = j
<1>1. DOMAIN Severities = 1..5 /\ Severities[1] = "critical" /\ Severities[2] = "high"
      /\ Severities[3] = "medium" /\ Severities[4] = "low" /\ Severities[5] = "info"
  BY DEF Severities
<1>. HIDE DEF Severities
<1>2. \A i \in 1..5 : i = 1 \/ i = 2 \/ i = 3 \/ i = 4 \/ i = 5
  OBVIOUS
<1>3. \A i, j \in 1..5 : Severities[i] = Severities[j] => i = j
  BY <1>1, <1>2
<1>. QED BY <1>1, <1>3 DEF ToSet

LEMMA RankIs ==
  ASSUME NEW i \in 1..5
  PROVE  SeverityRank[Severities[i]] = i
<1>. DEFINE s == Severities[i]
            r == CHOOSE j \in 1..5 : Severities[j] = s
<1>1. s \in ToSet(Severities)
  BY SeveritiesAre
<1>2. r \in 1..5 /\ Severities[r] = s
  OBVIOUS
<1>3. SeverityRank[s] = r
  BY <1>1 DEF SeverityRank
<1>. HIDE DEF r
<1>4. r = i
  BY <1>2, SeveritiesAre DEF s
<1>. QED BY <1>3, <1>4 DEF s

Hits(rs) == {n \in DOMAIN rs : rs[n].vulnerable}

\* The findings found are of the vulnerable results, each once, the worst first.
FindingsOf(rs, found, at) ==
  /\ at \in [1..Len(found) -> Hits(rs)]
  /\ \A k \in 1..Len(found) : found[k] = Finding(rs[at[k]])
  /\ \A j, k \in 1..Len(found) : j # k => at[j] # at[k]
  /\ \A n \in Hits(rs) : \E k \in 1..Len(found) : at[k] = n
  /\ \A j, k \in 1..Len(found) : j < k =>
       SeverityRank[found[j].severity] <= SeverityRank[found[k].severity]

LEMMA FindingsAre ==
  ASSUME NEW rs \in Seq(Result)
  PROVE  LET found == ExtractFindings(rs)
         IN  found \in Seq(Found) /\ \E at : FindingsOf(rs, found, at)
<1>. DEFINE I(i)   == {n \in DOMAIN rs : rs[n].vulnerable /\ rs[n].severity = Severities[i]}
            of(i)  == Pick(rs, I(i))
            one(i) == [j \in DOMAIN of(i) |-> Finding(of(i)[j])]
            ss     == [i \in 1..5 |-> one(i)]
            found  == FlattenSeq(ss)
            pk     == [i \in 1..5 |-> CHOOSE a : Picks(rs, I(i), of(i), a)]
<1>1. ExtractFindings(rs) = found
  BY DEF ExtractFindings, Filter
<1>2. DOMAIN rs = 1..Len(rs) /\ Len(rs) \in Nat /\ \A n \in DOMAIN rs : rs[n] \in Result
  BY ListOf, ListFacts
<1>3. \A n \in DOMAIN rs : Finding(rs[n]) \in Found /\ Finding(rs[n]).severity = rs[n].severity
  BY <1>2 DEF Finding, Found, Result
<1>4. \A i \in 1..5 : \A n \in I(i) : n \in DOMAIN rs /\ rs[n].vulnerable /\ rs[n].severity = Severities[i]
  OBVIOUS
<1>5. \A n \in Hits(rs) : \E i \in 1..5 : n \in I(i)
  BY <1>2, SeveritiesAre DEF Hits, Result
<1>. HIDE DEF I
<1>6. ASSUME NEW i \in 1..5
      PROVE  /\ of(i) \in Seq(Result) /\ Picks(rs, I(i), of(i), pk[i])
             /\ DOMAIN of(i) = 1..Len(of(i)) /\ Len(of(i)) \in Nat
  <2>1. of(i) \in Seq(Result) /\ \E a : Picks(rs, I(i), of(i), a)
    BY PickIs
  <2>2. pk[i] = CHOOSE a : Picks(rs, I(i), of(i), a)
    OBVIOUS
  <2>. HIDE DEF of, pk
  <2>3. Picks(rs, I(i), of(i), pk[i])
    BY <2>1, <2>2
  <2>. QED BY <2>1, <2>3, LenProperties
<1>. HIDE DEF pk, of
<1>7. ASSUME NEW i \in 1..5
      PROVE  /\ ss[i] \in Seq(Found) /\ Len(ss[i]) = Len(of(i))
             /\ \A j \in 1..Len(of(i)) : ss[i][j] = Finding(of(i)[j])
             /\ \A j \in 1..Len(of(i)) : pk[i][j] \in I(i) /\ of(i)[j] = rs[pk[i][j]]
  <2>. DEFINE s == ss[i]
              n == Len(of(i))
  <2>1. \A j \in 1..n : pk[i][j] \in I(i) /\ of(i)[j] = rs[pk[i][j]]
    BY <1>6 DEF Picks
  <2>2. \A j \in 1..n : Finding(of(i)[j]) \in Found
    BY <1>3, <1>4, <2>1
  <2>3. s = [j \in 1..n |-> Finding(of(i)[j])]
    BY <1>6
  <2>. HIDE DEF s
  <2>4. s = [j \in 1..n |-> s[j]] /\ \A j \in 1..n : s[j] = Finding(of(i)[j]) /\ s[j] \in Found
    BY <2>2, <2>3
  <2>5. n \in Nat
    BY <1>6
  <2>. HIDE DEF n
  <2>6. IsList(s) /\ Len(s) = n /\ DOMAIN s = 1..n
    BY <2>4, <2>5, ListIs
  <2>7. s \in Seq(Found)
    BY <2>4, <2>6, ListOf
  <2>. QED BY <2>1, <2>4, <2>6, <2>7 DEF s, n
<1>8. ss \in Seq(Seq(Found)) /\ Len(ss) = 5
  <2>1. ss = [i \in 1..5 |-> ss[i]] /\ 5 \in Nat
    OBVIOUS
  <2>. HIDE DEF ss
  <2>2. IsList(ss) /\ Len(ss) = 5 /\ DOMAIN ss = 1..5
    BY <2>1, ListIs
  <2>. QED BY <1>7, <2>2, ListOf
<1>. HIDE DEF ss, one
<1>9. found \in Seq(Found) /\ \E a : Flattens(ss, Len(ss), found, a)
  BY <1>8, FlattenIs
<1>. HIDE DEF found
<1>10. PICK fl : Flattens(ss, Len(ss), found, fl)
  BY <1>9
<1>. DEFINE N  == Len(found)
            at == [k \in 1..N |-> pk[fl[k][1]][fl[k][2]]]
<1>11. ASSUME NEW k \in 1..N
       PROVE  /\ fl[k][1] \in 1..5 /\ fl[k][2] \in 1..Len(of(fl[k][1]))
              /\ at[k] = pk[fl[k][1]][fl[k][2]] /\ at[k] \in I(fl[k][1])
              /\ found[k] = Finding(rs[at[k]])
  <2>. DEFINE i == fl[k][1]
              j == fl[k][2]
  <2>1. fl[k] \in PlacesIn(ss, Len(ss)) /\ found[k] = ss[i][j]
    BY <1>10 DEF Flattens
  <2>2. i \in 1..5 /\ j \in 1..Len(ss[i])
    BY <1>8, <2>1 DEF PlacesIn
  <2>3. at[k] = pk[i][j]
    OBVIOUS
  <2>. HIDE DEF i, j, at
  <2>4. j \in 1..Len(of(i)) /\ ss[i][j] = Finding(of(i)[j]) /\ pk[i][j] \in I(i) /\ of(i)[j] = rs[pk[i][j]]
    BY <1>7, <2>2
  <2>. QED BY <2>1, <2>2, <2>3, <2>4 DEF i, j
<1>. HIDE DEF at, N
<1>12. ASSUME NEW k \in 1..N
       PROVE  /\ at[k] \in Hits(rs) /\ rs[at[k]].severity = Severities[fl[k][1]]
              /\ found[k].severity = Severities[fl[k][1]]
  <2>1. fl[k][1] \in 1..5 /\ at[k] \in I(fl[k][1]) /\ found[k] = Finding(rs[at[k]])
    BY <1>11
  <2>2. at[k] \in DOMAIN rs /\ rs[at[k]].vulnerable /\ rs[at[k]].severity = Severities[fl[k][1]]
    BY <1>4, <2>1
  <2>3. Finding(rs[at[k]]).severity = rs[at[k]].severity
    BY <1>3, <2>2
  <2>. QED BY <2>1, <2>2, <2>3 DEF Hits
<1>13. at \in [1..N -> Hits(rs)]
  BY <1>12 DEF at
<1>14. ASSUME NEW j \in 1..N, NEW k \in 1..N, j < k
       PROVE  at[j] # at[k] /\ SeverityRank[found[j].severity] <= SeverityRank[found[k].severity]
  <2>1. Before(fl[j], fl[k])
    BY <1>10, <1>14 DEF Flattens, N
  <2>2. fl[j][1] <= fl[k][1]
    <3>1. fl[j][1] \in 1..5 /\ fl[k][1] \in 1..5
      BY <1>11
    <3>2. fl[j][1] < fl[k][1] \/ fl[j][1] = fl[k][1]
      BY <2>1 DEF Before
    <3>. QED BY <3>1, <3>2
  <2>3. SeverityRank[found[j].severity] = fl[j][1] /\ SeverityRank[found[k].severity] = fl[k][1]
    BY <1>11, <1>12, RankIs
  <2>4. CASE fl[j][1] # fl[k][1]
    BY <1>11, <1>12, <2>4, SeveritiesAre, <2>2, <2>3
  <2>5. CASE fl[j][1] = fl[k][1]
    <3>1. fl[j][2] < fl[k][2]
      BY <1>11, <2>1, <2>5 DEF Before
    <3>. DEFINE i == fl[k][1]
                a == fl[j][2]
                b == fl[k][2]
    <3>2. i \in 1..5 /\ a \in 1..Len(of(i)) /\ b \in 1..Len(of(i)) /\ at[j] = pk[i][a] /\ at[k] = pk[i][b] /\ a < b
      BY <1>11, <2>5, <3>1
    <3>. HIDE DEF i, a, b
    <3>3. pk[i][a] < pk[i][b] /\ pk[i][a] \in DOMAIN rs /\ pk[i][b] \in DOMAIN rs
      BY <1>6, <3>2 DEF Picks
    <3>4. at[j] # at[k]
      BY <1>2, <3>2, <3>3
    <3>. QED BY <2>2, <2>3, <3>4
  <2>. QED BY <2>4, <2>5
<1>15. N \in Nat
  BY <1>9, LenProperties DEF N
<1>16. \A j, k \in 1..N : j # k => at[j] # at[k]
  <2>. SUFFICES ASSUME NEW j \in 1..N, NEW k \in 1..N, j # k PROVE at[j] # at[k]
    OBVIOUS
  <2>1. j < k \/ k < j
    BY <1>15
  <2>. QED BY <1>14, <2>1
<1>17. ASSUME NEW n \in Hits(rs) PROVE \E k \in 1..N : at[k] = n
  <2>1. PICK i \in 1..5 : n \in I(i)
    BY <1>5
  <2>2. PICK j \in 1..Len(of(i)) : pk[i][j] = n
    BY <1>4, <1>6, <2>1 DEF Picks
  <2>3. <<i, j>> \in PlacesIn(ss, Len(ss))
    BY <1>6, <1>7, <1>8 DEF PlacesIn
  <2>4. PICK k \in 1..N : fl[k] = <<i, j>>
    BY <1>10, <2>3 DEF Flattens, N
  <2>. QED BY <1>11, <2>2, <2>4
<1>18. \A k \in 1..N : found[k] = Finding(rs[at[k]])
  BY <1>11
<1>19. FindingsOf(rs, found, at)
  BY <1>13, <1>14, <1>16, <1>17, <1>18 DEF FindingsOf, N
<1>. QED BY <1>1, <1>9, <1>19

LEMMA SeveritySum ==
  ASSUME NEW found \in Seq(Found)
  PROVE  SeverityCounts(found) \in Seq(Nat) /\ SumOf(SeverityCounts(found)) = Len(found)
<1>. DEFINE J(i) == {k \in DOMAIN found : found[k].severity = Severities[i]}
            s    == SeverityCounts(found)
            A    == DOMAIN found
            part == [k \in A |-> SeverityRank[found[k].severity]]
<1>1. A = 1..Len(found) /\ Len(found) \in Nat /\ \A k \in A : found[k] \in Found
  BY ListOf, ListFacts
<1>2. s = [i \in 1..5 |-> Cardinality(J(i))]
  BY DEF SeverityCounts, Count
<1>3. ASSUME NEW k \in A
      PROVE  \E j \in 1..5 : found[k].severity = Severities[j] /\ part[k] = j
  <2>1. found[k].severity \in ToSet(Severities)
    BY <1>1 DEF Found
  <2>2. PICK j \in 1..5 : found[k].severity = Severities[j]
    BY <2>1, SeveritiesAre
  <2>3. part[k] = SeverityRank[found[k].severity]
    OBVIOUS
  <2>. HIDE DEF part, A
  <2>. QED BY <2>2, <2>3, RankIs
<1>4. part \in [A -> 1..5]
  <2>1. \A k \in A : part[k] \in 1..5
    BY <1>3
  <2>2. part = [k \in A |-> part[k]]
    OBVIOUS
  <2>. HIDE DEF part, A
  <2>. QED BY <2>1, <2>2
<1>5. ASSUME NEW i \in 1..5
      PROVE  J(i) = {k \in A : part[k] = i} /\ J(i) \in SUBSET A
  <2>1. \A k \in A : part[k] = i <=> found[k].severity = Severities[i]
    <3>. HIDE DEF part, A
    <3>. QED BY <1>3, SeveritiesAre
  <2>. HIDE DEF part
  <2>. QED BY <2>1
<1>. HIDE DEF J, part
<1>6. ASSUME NEW i \in 1..5
      PROVE  s[i] \in Nat /\ s[i] = Cardinality({k \in A : part[k] = i})
  <2>1. IsFiniteSet(J(i))
    <3>1. IsFiniteSet(A)
      <4>. HIDE DEF A
      <4>. QED BY <1>1, FS_Interval
    <3>2. J(i) \in SUBSET A
      BY <1>5
    <3>. HIDE DEF A
    <3>. QED BY <3>1, <3>2, FS_Subset
  <2>2. s[i] = Cardinality(J(i))
    BY <1>2
  <2>3. Cardinality(J(i)) \in Nat
    BY <2>1, FS_CardinalityType
  <2>. QED BY <1>5, <2>2, <2>3
<1>7. s = [i \in 1..5 |-> s[i]] /\ 5 \in Nat
  BY <1>2
<1>. HIDE DEF s
<1>8. IsList(s) /\ Len(s) = 5 /\ DOMAIN s = 1..5
  BY <1>7, ListIs
<1>9. s \in Seq(Nat)
  BY <1>6, <1>8, ListOf
<1>10. PartedBy(A, s, part)
  <2>. HIDE DEF A
  <2>. QED BY <1>4, <1>6, <1>8 DEF PartedBy
<1>11. IsFiniteSet(A) /\ Cardinality(A) = Len(found)
  BY <1>1, FS_Interval
<1>. HIDE DEF A
<1>12. SumOf(s) = Len(found)
  BY <1>9, <1>10, <1>11, SumPartition
<1>. QED BY <1>9, <1>12 DEF s

\* A report accounts for the results it carries.
Accounts(r) ==
  LET s == r.summary
  IN  /\ s.passed + s.failed = s.total /\ s.total = Len(r.test.results)
      /\ s.failed = Len(r.findings) /\ SumOf(s.severities) = s.failed
      /\ s.rate <= 10000 /\ s.errors <= s.passed
      /\ \A m, n \in DOMAIN r.findings : m < n =>
           SeverityRank[r.findings[m].severity] <= SeverityRank[r.findings[n].severity]
      /\ \A n \in DOMAIN r.test.results :
           LET marked == CsvRows(r)[n].vulnerable
           IN  /\ r.test.results[n].vulnerable => marked
               /\ marked => \E m \in DOMAIN r.test.results :
                    /\ r.test.results[m].vulnerable
                    /\ r.test.results[m].scenario = r.test.results[n].scenario
      /\ HtmlReport(r).passRate <= 10000

\* The numbers of the report on the results rs with these findings.
SummaryFits(s, rs, found) ==
  /\ s.total = Len(rs) /\ s.passed \in Nat /\ s.failed \in Nat /\ s.errors \in Nat
  /\ s.passed + s.failed = s.total /\ s.failed = Len(found)
  /\ s.severities = SeverityCounts(found) /\ s.errors <= s.passed
  /\ s.rate \in Nat /\ s.rate <= 10000

LEMMA SummaryOK ==
  ASSUME NEW test \in Tests
  PROVE  LET rs    == test.results
             found == ExtractFindings(rs)
         IN  /\ rs \in Seq(Result) /\ found \in Seq(Found)
             /\ SummaryFits(BuildSummary(test, found), rs, found)
<1>. DEFINE rs     == test.results
            n      == Len(rs)
            found  == ExtractFindings(rs)
            s      == BuildSummary(test, found)
            A      == DOMAIN rs
            V      == Hits(rs)
            P      == {k \in A : ~rs[k].vulnerable}
            E      == {k \in A : rs[k].status = "failed"}
<1>1. rs \in Seq(Result) /\ test.total = n
  BY DEF Tests
<1>. HIDE DEF rs
<1>2. A = 1..n /\ n \in Nat /\ \A k \in A : rs[k] \in Result
  BY <1>1, ListOf, ListFacts
<1>3. IsFiniteSet(A) /\ Cardinality(A) = n
  BY <1>2, FS_Interval
<1>4. V \in SUBSET A /\ P = A \ V /\ E \in SUBSET P
  BY <1>2 DEF Hits, Result
<1>6. /\ s.total = IF test.total # 0 THEN test.total ELSE n
      /\ s.passed = Cardinality(P) /\ s.failed = Cardinality(V) /\ s.errors = Cardinality(E)
      /\ s.severities = SeverityCounts(found)
      /\ s.rate = IF s.total > 0 THEN (s.failed * 10000) \div s.total ELSE 0
  BY DEF BuildSummary, Count, Hits, rs
<1>. HIDE DEF s, P, V, E, A, n
<1>7. Cardinality(V) \in Nat /\ Cardinality(P) \in Nat /\ Cardinality(V) + Cardinality(P) = n
  BY <1>3, <1>4, CountApart
<1>8. Cardinality(E) \in Nat /\ Cardinality(E) <= Cardinality(P)
  <2>1. IsFiniteSet(P)
    BY <1>3, <1>4, FS_Subset
  <2>. QED BY <1>4, <2>1, FS_Subset, FS_CardinalityType
<1>9. s.total = n
  BY <1>1, <1>6
<1>10. found \in Seq(Found) /\ Len(found) = Cardinality(V)
  <2>1. found \in Seq(Found) /\ \E at : FindingsOf(rs, found, at)
    BY <1>1, FindingsAre
  <2>. HIDE DEF found
  <2>2. PICK at : FindingsOf(rs, found, at)
    BY <2>1
  <2>3. Len(found) \in Nat
    BY <2>1, LenProperties
  <2>4. Cardinality(V) = Len(found)
    BY <2>2, <2>3, Counting DEF FindingsOf, V
  <2>. QED BY <2>1, <2>4
<1>11. s.rate \in Nat /\ s.rate <= 10000
  <2>1. s.failed \in Nat /\ s.total \in Nat /\ s.failed <= s.total
    BY <1>2, <1>6, <1>7, <1>9
  <2>2. s.rate = IF s.total > 0 THEN (s.failed * 10000) \div s.total ELSE 0
    BY <1>6
  <2>. HIDE DEF s
  <2>3. CASE s.total > 0
    BY <2>1, <2>2, <2>3, Percent
  <2>4. CASE s.total = 0
    <3>1. s.rate = 0
      BY <2>2, <2>4
    <3>. QED BY <3>1
  <2>. QED BY <2>1, <2>3, <2>4
<1>12. s.passed \in Nat /\ s.failed \in Nat /\ s.errors \in Nat /\ s.passed + s.failed = s.total
       /\ s.failed = Len(found) /\ s.errors <= s.passed
  BY <1>6, <1>7, <1>8, <1>9, <1>10
<1>13. s.severities = SeverityCounts(found)
  BY <1>6
<1>14. SummaryFits(s, rs, found)
  <2>. HIDE DEF found
  <2>. QED BY <1>9, <1>11, <1>12, <1>13 DEF SummaryFits, n
<1>. QED BY <1>1, <1>10, <1>14 DEF s, rs

LEMMA ReportOK ==
  ASSUME NEW test \in Tests, NEW today
  PROVE  Accounts(GenerateReport(test, today))
<1>. DEFINE r     == GenerateReport(test, today)
            rs    == test.results
            found == ExtractFindings(rs)
            s     == BuildSummary(test, found)
<1>1. r = [summary |-> s, findings |-> found, test |-> test, day |-> today]
  BY DEF GenerateReport
<1>2. rs \in Seq(Result) /\ found \in Seq(Found) /\ SummaryFits(s, rs, found)
  BY SummaryOK
<1>3. PICK at : FindingsOf(rs, found, at)
  BY <1>2, FindingsAre
<1>. HIDE DEF found, s, r
<1>4. r.summary = s /\ r.findings = found /\ r.test.results = rs
  BY <1>1
<1>. HIDE DEF rs
<1>5. DOMAIN found = 1..Len(found) /\ Len(found) \in Nat /\ DOMAIN rs = 1..Len(rs) /\ Len(rs) \in Nat
  BY <1>2, LenProperties
<1>6. SumOf(SeverityCounts(found)) = Len(found)
  BY <1>2, SeveritySum
<1>7. ASSUME NEW n \in DOMAIN rs
      PROVE  LET marked == CsvRows(r)[n].vulnerable
             IN  /\ rs[n].vulnerable => marked
                 /\ marked => \E m \in DOMAIN rs : rs[m].vulnerable /\ rs[m].scenario = rs[n].scenario
  <2>. DEFINE hit    == \E f \in {f \in ToSet(r.findings) : TRUE} : f.scenario = r.test.results[n].scenario
              marked == CsvRows(r)[n].vulnerable
  <2>1. marked = hit
    BY <1>4 DEF CsvRows
  <2>2. hit <=> \E k \in 1..Len(found) : found[k].scenario = rs[n].scenario
    BY <1>4, <1>5 DEF ToSet
  <2>. HIDE DEF hit, marked
  <2>3. \A k \in 1..Len(found) : /\ found[k].scenario = rs[at[k]].scenario
                                 /\ at[k] \in DOMAIN rs /\ rs[at[k]].vulnerable
    <3>. SUFFICES ASSUME NEW k \in 1..Len(found)
                  PROVE  found[k].scenario = rs[at[k]].scenario /\ at[k] \in Hits(rs)
      BY DEF Hits
    <3>1. at[k] \in Hits(rs) /\ found[k] = Finding(rs[at[k]])
      BY <1>3 DEF FindingsOf
    <3>. QED BY <3>1 DEF Finding
  <2>4. ASSUME rs[n].vulnerable PROVE hit
    <3>1. n \in Hits(rs)
      BY <2>4 DEF Hits
    <3>2. PICK k \in 1..Len(found) : at[k] = n
      BY <1>3, <3>1 DEF FindingsOf
    <3>. QED BY <2>2, <2>3, <3>2
  <2>5. ASSUME hit PROVE \E m \in DOMAIN rs : rs[m].vulnerable /\ rs[m].scenario = rs[n].scenario
    BY <2>2, <2>3, <2>5
  <2>. QED BY <2>1, <2>4, <2>5 DEF marked
<1>8. \A m, n \in DOMAIN found : m < n =>
        SeverityRank[found[m].severity] <= SeverityRank[found[n].severity]
  BY <1>3, <1>5 DEF FindingsOf
<1>9. HtmlReport(r).passRate <= 10000
  <2>1. HtmlReport(r).passRate = IF s.total > 0 THEN (s.passed * 10000) \div s.total ELSE 0
    BY <1>4 DEF HtmlReport
  <2>2. s.total \in Nat /\ s.passed \in Nat /\ s.passed <= s.total
    BY <1>2, <1>5 DEF SummaryFits
  <2>3. CASE s.total > 0
    BY <2>1, <2>2, <2>3, Percent
  <2>4. CASE s.total = 0
    <3>1. HtmlReport(r).passRate = 0
      BY <2>1, <2>4
    <3>. QED BY <3>1
  <2>. QED BY <2>2, <2>3, <2>4
<1>10. /\ s.passed + s.failed = s.total /\ s.total = Len(rs)
       /\ s.failed = Len(found) /\ SumOf(s.severities) = s.failed
       /\ s.rate <= 10000 /\ s.errors <= s.passed
  BY <1>2, <1>6 DEF SummaryFits
<1>11. Accounts(r)
  BY <1>4, <1>7, <1>8, <1>9, <1>10 DEF Accounts
<1>. QED BY <1>11 DEF r

\* The numbers of a report account for the results it carries, whatever the
\* targets answered; its findings are what failed, the worst first, and the
\* rows of its export are marked accordingly.
THEOREM PipelineReports == PipelineSpec => []ReportsAccount
<1>1. ASSUME PipelineInv PROVE ReportsAccount
  <2>1. ASSUME NEW i \in DOMAIN reports PROVE Accounts(reports[i].doc)
    <3>1. reports[i] \in Stored(Reports)
      BY <1>1, ListOf DEF PipelineInv, CollectionsOK
    <3>2. PICK test \in Tests, today \in 0..MaxDay : reports[i].doc = GenerateReport(test, today)
      BY <3>1 DEF Stored, Reports
    <3>. QED BY <3>2, ReportOK
  <2>. QED BY <2>1 DEF ReportsAccount, Accounts
<1>. QED BY <1>1, PipelineInvariant, PTL
--------------------------------------------------------------------------
(* Analytics.                                                            *)

LEMMA ReportIs ==
  ASSUME NEW r \in Reports
  PROVE  /\ r.findings \in Seq(Found) /\ r.summary.total \in Nat /\ r.day \in 0..MaxDay
         /\ Len(r.findings) \in Nat /\ Len(r.findings) <= r.summary.total
<1>1. PICK test \in Tests, today \in 0..MaxDay : r = GenerateReport(test, today)
  BY DEF Reports
<1>. DEFINE rs    == test.results
            found == ExtractFindings(rs)
            s     == BuildSummary(test, found)
<1>2. r = [summary |-> s, findings |-> found, test |-> test, day |-> today]
  BY <1>1 DEF GenerateReport
<1>3. rs \in Seq(Result) /\ found \in Seq(Found) /\ SummaryFits(s, rs, found)
  BY SummaryOK
<1>. HIDE DEF rs, found, s
<1>4. r.summary = s /\ r.findings = found /\ r.day = today
  BY <1>2
<1>5. s.total \in Nat /\ Len(found) \in Nat /\ Len(found) <= s.total
  <2>1. Len(rs) \in Nat /\ Len(found) \in Nat
    BY <1>3, LenProperties
  <2>. QED BY <1>3, <2>1 DEF SummaryFits
<1>. QED BY <1>3, <1>4, <1>5

LEMMA SizeOK ==
  ASSUME NEW X, NEW s \in Seq(X)
  PROVE  IsFiniteSet(DOMAIN s) /\ Cardinality(DOMAIN s) = Len(s)
<1>1. PICK n \in Nat : n = Len(s) /\ DOMAIN s = 1..n
  BY LenProperties
<1>2. IsFiniteSet(1..n) /\ Cardinality(1..n) = n
  BY FS_Interval
<1>. QED BY <1>1, <1>2

LEMMA RankOK ==
  ASSUME NEW f \in Found
  PROVE  SeverityRank[f.severity] \in 1..5
<1>1. f.severity \in ToSet(Severities)
  BY DEF Found
<1>2. PICK i \in 1..5 : f.severity = Severities[i]
  BY <1>1, SeveritiesAre
<1>. QED BY <1>2, RankIs

\* The keys of the findings whose keys are not in S.
LEMMA KeysLeft ==
  ASSUME NEW found \in Seq(Found), NEW S
  PROVE  FindingKeys(Filter(found, LAMBDA f : FindingKey(f) \notin S)) = FindingKeys(found) \ S
<1>. DEFINE I    == {i \in DOMAIN found : FindingKey(found[i]) \notin S}
            left == Pick(found, I)
<1>1. Filter(found, LAMBDA f : FindingKey(f) \notin S) = left
  BY DEF Filter
<1>2. PICK at : Picks(found, I, left, at)
  BY PickIs
<1>3. left \in Seq(Found)
  BY PickIs
<1>4. DOMAIN left = 1..Len(left)
  BY <1>3, LenProperties
<1>. HIDE DEF left
<1>5. ASSUME NEW k \in DOMAIN left PROVE FindingKey(left[k]) \in FindingKeys(found) \ S
  <2>1. at[k] \in I /\ at[k] \in DOMAIN found /\ left[k] = found[at[k]]
    BY <1>2, <1>4 DEF Picks
  <2>. QED BY <2>1 DEF FindingKeys
<1>6. ASSUME NEW i \in DOMAIN found, FindingKey(found[i]) \notin S
      PROVE  \E k \in DOMAIN left : FindingKey(left[k]) = FindingKey(found[i])
  <2>1. PICK k \in 1..Len(left) : at[k] = i
    BY <1>2, <1>6 DEF Picks
  <2>. QED BY <1>2, <1>4, <2>1 DEF Picks
<1>7. FindingKeys(left) = FindingKeys(found) \ S
  <2>1. FindingKeys(left) \subseteq FindingKeys(found) \ S
    BY <1>5 DEF FindingKeys
  <2>2. FindingKeys(found) \ S \subseteq FindingKeys(left)
    BY <1>6 DEF FindingKeys
  <2>. QED BY <2>1, <2>2
<1>. QED BY <1>1, <1>7

\* Every finding of a known key has become more severe, or less, or neither.
LEMMA ChangesOK ==
  ASSUME NEW base \in Seq(Found), NEW found \in Seq(Found)
  PROVE  LET c == SeverityChanges(base, found)
         IN  c.increased + c.decreased + c.unchanged
               = Cardinality({i \in DOMAIN found : FindingKey(found[i]) \in FindingKeys(base)})
<1>. DEFINE K     == {i \in DOMAIN found : FindingKey(found[i]) \in FindingKeys(base)}
            known == Pick(found, K)
            J(f)  == {j \in DOMAIN base : FindingKey(base[j]) = FindingKey(f)}
            r(f)  == SeverityRank[f.severity]
            w(f)  == SeverityRank[Last(Pick(base, J(f))).severity]
            D     == DOMAIN known
            up    == {i \in D : r(known[i]) < w(known[i])}
            down  == {i \in D : r(known[i]) > w(known[i])}
            same  == {i \in D : r(known[i]) = w(known[i])}
            c     == SeverityChanges(base, found)
<1>1. c.increased = Cardinality(up) /\ c.decreased = Cardinality(down) /\ c.unchanged = Cardinality(same)
  BY DEF SeverityChanges, Filter, Count
<1>2. known \in Seq(Found) /\ Len(known) = Cardinality(K \cap DOMAIN found)
  BY PickIs, PickLen
<1>3. Len(known) \in Nat /\ D = 1..Len(known)
  BY <1>2, LenProperties
<1>4. ASSUME NEW i \in D PROVE r(known[i]) \in 1..5 /\ w(known[i]) \in 1..5
  <2>. DEFINE f  == known[i]
              of == Pick(base, J(f))
  <2>1. f \in Found
    BY <1>2, <1>3, ElementOfSeq
  <2>2. PICK at : Picks(found, K, known, at)
    BY PickIs
  <2>3. at[i] \in K /\ f = found[at[i]]
    BY <1>3, <2>2 DEF Picks
  <2>4. FindingKey(f) \in FindingKeys(base)
    BY <2>3
  <2>. HIDE DEF f, known, K
  <2>5. PICK j \in DOMAIN base : FindingKey(base[j]) = FindingKey(f)
    BY <2>4 DEF FindingKeys
  <2>6. j \in J(f) \cap DOMAIN base
    BY <2>5
  <2>. HIDE DEF J
  <2>7. PICK to : Picks(base, J(f), of, to)
    BY PickIs
  <2>8. \E k \in 1..Len(of) : to[k] = j
    BY <2>6, <2>7 DEF Picks
  <2>9. of \in Seq(Found) /\ Len(of) \in Nat
    BY PickIs, LenProperties
  <2>10. Len(of) \in 1..Len(of)
    BY <2>8, <2>9
  <2>11. Last(of) \in Found
    BY <2>9, <2>10, ElementOfSeq DEF Last
  <2>. QED BY <2>1, <2>11, RankOK DEF f
<1>. HIDE DEF known, r, w
<1>. HIDE DEF D
<1>5. IsFiniteSet(D) /\ Cardinality(D) = Len(known)
  BY <1>2, SizeOK DEF D
<1>6. up \in SUBSET D /\ down \in SUBSET (D \ up) /\ (D \ up) \ down = same
  BY <1>4
<1>. HIDE DEF up, down, same, c
<1>7. /\ Cardinality(up) \in Nat /\ Cardinality(D \ up) \in Nat
      /\ Cardinality(up) + Cardinality(D \ up) = Cardinality(D)
  BY <1>5, <1>6, CountApart
<1>8. IsFiniteSet(D \ up)
  BY <1>5, FS_Subset
<1>9. /\ Cardinality(down) \in Nat /\ Cardinality(same) \in Nat
      /\ Cardinality(down) + Cardinality(same) = Cardinality(D \ up)
  BY <1>6, <1>8, CountApart
<1>10. K \cap DOMAIN found = K
  OBVIOUS
<1>. HIDE DEF K
<1>11. Cardinality(up) + Cardinality(down) + Cardinality(same) = Cardinality(K)
  <2>1. Cardinality(D) = Cardinality(K)
    BY <1>2, <1>5, <1>10
  <2>. DEFINE x == Cardinality(up)
              y == Cardinality(down)
              z == Cardinality(same)
              m == Cardinality(D \ up)
              n == Cardinality(K)
  <2>2. x \in Nat /\ y \in Nat /\ z \in Nat /\ m \in Nat /\ x + m = n /\ y + z = m
    BY <1>7, <1>9, <2>1
  <2>. HIDE DEF x, y, z, m, n
  <2>3. x + y + z = n
    BY <2>2
  <2>. QED BY <2>3 DEF x, y, z, n
<1>. QED BY <1>1, <1>11 DEF c, K

\* What a comparison of two reports accounts for.
Balanced(a, b) ==
  LET c == CompareReports(a, b)
  IN  /\ c.changes.increased + c.changes.decreased + c.changes.unchanged + Len(c.newDetails)
           = Len(b.findings)
      /\ c.new = Cardinality(FindingKeys(c.newDetails))
      /\ c.resolved = Cardinality(FindingKeys(c.resolvedDetails))

LEMMA CompareOK ==
  ASSUME NEW ra \in Reports, NEW rb \in Reports
  PROVE  Balanced(ra, rb)
<1>. DEFINE old  == FindingKeys(ra.findings)
            now  == FindingKeys(rb.findings)
            D    == DOMAIN rb.findings
            K    == {i \in D : FindingKey(rb.findings[i]) \in old}
            N    == {i \in D : FindingKey(rb.findings[i]) \notin old}
            chg  == SeverityChanges(ra.findings, rb.findings)
            more == Filter(rb.findings, LAMBDA f : FindingKey(f) \notin old)
            less == Filter(ra.findings, LAMBDA f : FindingKey(f) \notin now)
            c    == CompareReports(ra, rb)
<1>1. ra.findings \in Seq(Found) /\ rb.findings \in Seq(Found)
  BY ReportIs
<1>2. /\ c.changes = chg /\ c.newDetails = more /\ c.resolvedDetails = less
      /\ c.new = Cardinality(now \ old) /\ c.resolved = Cardinality(old \ now)
  BY DEF CompareReports
<1>3. FindingKeys(more) = now \ old /\ FindingKeys(less) = old \ now
  BY <1>1, KeysLeft
<1>4. chg.increased + chg.decreased + chg.unchanged = Cardinality(K)
  BY <1>1, ChangesOK
<1>5. Len(more) = Cardinality(N)
  <2>1. more = Pick(rb.findings, N)
    BY DEF Filter
  <2>2. N \cap D = N
    OBVIOUS
  <2>. HIDE DEF N, more
  <2>. QED BY <1>1, <2>1, <2>2, PickLen
<1>6. IsFiniteSet(D) /\ Cardinality(D) = Len(rb.findings)
  BY <1>1, SizeOK
<1>7. K \in SUBSET D /\ D \ K = N
  OBVIOUS
<1>. HIDE DEF D, K, N, more, less, chg, c, old, now
<1>8. Cardinality(K) + Cardinality(N) = Cardinality(D)
  BY <1>6, <1>7, CountApart
<1>9. c.changes.increased + c.changes.decreased + c.changes.unchanged + Len(c.newDetails) = Len(rb.findings)
  <2>. DEFINE all == chg.increased + chg.decreased + chg.unchanged
  <2>1. all = Cardinality(K)
    BY <1>4
  <2>2. c.changes.increased + c.changes.decreased + c.changes.unchanged + Len(c.newDetails) = all + Len(more)
    BY <1>2
  <2>. HIDE DEF all
  <2>. QED BY <1>5, <1>6, <1>8, <2>1, <2>2
<1>. QED BY <1>2, <1>3, <1>9 DEF Balanced, c

Label(r, period) == r.day \div DaysOf[period]
LEMMA LabelOK ==
  ASSUME NEW r \in Reports, NEW period \in DOMAIN DaysOf
  PROVE  Label(r, period) \in 0..MaxDay
<1>1. r.day \in 0..MaxDay /\ MaxDay \in Nat
  BY ReportIs, PipelineConstants
<1>2. DaysOf[period] = 1 \/ DaysOf[period] = 2 \/ DaysOf[period] = 4
  BY DEF DaysOf
<1>. DEFINE d == r.day
<1>. HIDE DEF d
<1>3. d \in 0..MaxDay
  BY <1>1 DEF d
<1>4. d \div 1 \in 0..MaxDay /\ d \div 2 \in 0..MaxDay /\ d \div 4 \in 0..MaxDay
  BY <1>1, <1>3
<1>. QED BY <1>2, <1>4 DEF Label, d

Lists(reps) == [i \in DOMAIN reps |-> reps[i].findings]
LEMMA AllFindingsOK ==
  ASSUME NEW reps \in Seq(Reports)
  PROVE  /\ Lists(reps) \in Seq(Seq(Found)) /\ Len(Lists(reps)) = Len(reps)
         /\ DOMAIN Lists(reps) = 1..Len(reps) /\ DOMAIN reps = 1..Len(reps) /\ Len(reps) \in Nat
         /\ \A i \in 1..Len(reps) : reps[i] \in Reports /\ Lists(reps)[i] = reps[i].findings
         /\ AllFindings(reps) = FlattenSeq(Lists(reps)) /\ AllFindings(reps) \in Seq(Found)
         /\ Len(AllFindings(reps)) \in Nat
<1>. DEFINE n  == Len(reps)
            ss == Lists(reps)
<1>1. n \in Nat /\ DOMAIN reps = 1..n /\ \A i \in 1..n : reps[i] \in Reports
  BY LenProperties, ElementOfSeq
<1>2. ss = [i \in 1..n |-> reps[i].findings]
  BY <1>1 DEF Lists
<1>3. AllFindings(reps) = FlattenSeq(ss)
  BY DEF AllFindings, Lists
<1>. HIDE DEF ss
<1>4. ss = [i \in 1..n |-> ss[i]] /\ \A i \in 1..n : ss[i] = reps[i].findings
  BY <1>2
<1>5. IsList(ss) /\ Len(ss) = n /\ DOMAIN ss = 1..n
  BY <1>1, <1>4, ListIs
<1>6. \A i \in 1..n : ss[i] \in Seq(Found)
  BY <1>1, <1>4, ReportIs
<1>7. ss \in Seq(Seq(Found))
  BY <1>5, <1>6, ListOf
<1>8. FlattenSeq(ss) \in Seq(Found)
  BY <1>7, FlattenIs
<1>9. Len(FlattenSeq(ss)) \in Nat
  BY <1>8, LenProperties
<1>. QED BY <1>1, <1>3, <1>4, <1>5, <1>7, <1>8, <1>9 DEF ss

\* The findings of the reports at some positions.
LEMMA SomeFindings ==
  ASSUME NEW reps \in Seq(Reports), NEW I
  PROVE  LET B == {p \in PlacesIn(Lists(reps), Len(Lists(reps))) : p[1] \in I}
         IN  IsFiniteSet(B) /\ Len(AllFindings(Pick(reps, I))) = Cardinality(B)
<1>. DEFINE picked == Pick(reps, I)
            ss     == Lists(reps)
            tt     == Lists(picked)
<1>1. picked \in Seq(Reports)
  BY PickIs
<1>2. PICK at : Picks(reps, I, picked, at)
  BY PickIs
<1>. HIDE DEF picked
<1>3. /\ ss \in Seq(Seq(Found)) /\ DOMAIN ss = DOMAIN reps
      /\ \A i \in DOMAIN reps : ss[i] = reps[i].findings
  BY AllFindingsOK
<1>4. /\ tt \in Seq(Seq(Found)) /\ Len(tt) = Len(picked) /\ AllFindings(picked) = FlattenSeq(tt)
      /\ \A k \in 1..Len(picked) : tt[k] = picked[k].findings
  BY <1>1, AllFindingsOK
<1>. HIDE DEF ss, tt
<1>5. \A k \in 1..Len(picked) : at[k] \in I \cap DOMAIN reps /\ picked[k] = reps[at[k]]
  BY <1>2 DEF Picks
<1>6. ASSUME NEW k \in 1..Len(tt) PROVE tt[k] = ss[at[k]]
  <2>1. k \in 1..Len(picked)
    BY <1>4
  <2>2. tt[k] = picked[k].findings
    BY <1>4, <2>1
  <2>3. at[k] \in DOMAIN reps /\ picked[k] = reps[at[k]]
    BY <1>5, <2>1
  <2>4. ss[at[k]] = reps[at[k]].findings
    BY <1>3, <2>3
  <2>. QED BY <2>2, <2>3, <2>4
<1>7. Picks(ss, I, tt, at)
  <2>1. I \cap DOMAIN ss = I \cap DOMAIN reps
    BY <1>3
  <2>2. at \in [1..Len(tt) -> I \cap DOMAIN ss]
    BY <1>2, <1>4, <2>1 DEF Picks
  <2>3. \A j, k \in 1..Len(tt) : j < k => at[j] < at[k]
    BY <1>2, <1>4 DEF Picks
  <2>4. \A i \in I \cap DOMAIN ss : \E k \in 1..Len(tt) : at[k] = i
    BY <1>2, <1>4, <2>1 DEF Picks
  <2>. QED BY <1>6, <2>2, <2>3, <2>4 DEF Picks
<1>. QED BY <1>3, <1>4, <1>7, FlattenPart DEF ss, picked

\* The entries of a trend add up to all that was found.
TrendTotals(reps, period) ==
  [i \in 1..(MaxDay + 1) |-> IF i - 1 \in DOMAIN Trends(reps, period) THEN Trends(reps, period)[i - 1].total ELSE 0]

LEMMA TrendsOK ==
  ASSUME NEW reps \in Seq(Reports), NEW period \in DOMAIN DaysOf
  PROVE  SumOf(TrendTotals(reps, period)) = Len(AllFindings(reps))
<1>. DEFINE ss   == Lists(reps)
            n    == Len(reps)
            A    == PlacesIn(ss, Len(ss))
            I(l) == {i \in DOMAIN reps : Label(reps[i], period) = l}
            tr   == Trends(reps, period)
            s    == TrendTotals(reps, period)
            part == [p \in A |-> Label(reps[p[1]], period) + 1]
            labels == {Label(reps[i], period) : i \in {j \in DOMAIN reps : reps[j].findings # <<>>}}
<1>1. /\ ss \in Seq(Seq(Found)) /\ Len(ss) = n /\ DOMAIN reps = 1..n /\ n \in Nat
      /\ \A i \in 1..n : reps[i] \in Reports /\ ss[i] = reps[i].findings
      /\ AllFindings(reps) = FlattenSeq(ss)
  BY AllFindingsOK
<1>2. MaxDay \in Nat
  BY PipelineConstants
<1>3. \A i \in 1..n : Label(reps[i], period) \in 0..MaxDay
  BY <1>1, LabelOK
<1>4. IsFiniteSet(A) /\ Len(AllFindings(reps)) = Cardinality(A)
  BY <1>1, FlattenLen
<1>5. DOMAIN tr = labels /\ \A l \in labels : tr[l].total = Len(AllFindings(Pick(reps, I(l))))
  BY DEF Trends, Label, Filter
<1>6. \A p \in A : p[1] \in 1..n /\ p[2] \in 1..Len(ss[p[1]])
  BY <1>1 DEF PlacesIn
<1>7. \A p \in A : p[1] \in 1..n /\ Label(reps[p[1]], period) \in labels
  <2>. SUFFICES ASSUME NEW p \in A PROVE p[1] \in 1..n /\ Label(reps[p[1]], period) \in labels
    OBVIOUS
  <2>1. p[1] \in 1..n /\ p[2] \in 1..Len(ss[p[1]])
    BY <1>6
  <2>. HIDE DEF A
  <2>2. reps[p[1]].findings # <<>>
    BY <1>1, <2>1, EmptyList
  <2>. QED BY <1>1, <2>1, <2>2
<1>. HIDE DEF ss, tr, labels
<1>8. part \in [A -> 1..(MaxDay + 1)] /\ \A p \in A : part[p] = Label(reps[p[1]], period) + 1
  <2>1. \A p \in A : Label(reps[p[1]], period) + 1 \in 1..(MaxDay + 1)
    BY <1>2, <1>3, <1>7
  <2>. HIDE DEF A
  <2>. QED BY <2>1
<1>. HIDE DEF part
<1>9. ASSUME NEW i \in 1..(MaxDay + 1)
      PROVE  s[i] \in Nat /\ s[i] = Cardinality({p \in A : part[p] = i})
  <2>. DEFINE l == i - 1
              B == {p \in A : part[p] = i}
              C == {p \in A : p[1] \in I(l)}
  <2>1. s[i] = IF l \in DOMAIN tr THEN tr[l].total ELSE 0
    BY DEF TrendTotals, tr
  <2>2. ASSUME NEW p \in A PROVE part[p] = i <=> Label(reps[p[1]], period) = l
    <3>. DEFINE x == Label(reps[p[1]], period)
    <3>1. x \in 0..MaxDay /\ part[p] = x + 1
      BY <1>3, <1>7, <1>8
    <3>. HIDE DEF x, A
    <3>. QED BY <1>2, <3>1 DEF x
  <2>3. CASE l \in labels
    <3>1. B = C
      BY <1>1, <1>7, <2>2
    <3>2. IsFiniteSet(C) /\ Len(AllFindings(Pick(reps, I(l)))) = Cardinality(C)
      BY SomeFindings DEF ss
    <3>3. Cardinality(C) \in Nat
      BY <3>2, FS_CardinalityType
    <3>. HIDE DEF B, C, I, l
    <3>. QED BY <1>5, <2>1, <2>3, <3>1, <3>2, <3>3 DEF B
  <2>4. CASE l \notin labels
    <3>1. B = {}
      BY <1>7, <2>2, <2>4
    <3>2. s[i] = 0
      BY <1>5, <2>1, <2>4
    <3>3. Cardinality({}) = 0
      BY FS_EmptySet
    <3>. HIDE DEF B, s
    <3>4. s[i] \in Nat /\ s[i] = Cardinality(B)
      BY <3>1, <3>2, <3>3
    <3>. QED BY <3>4 DEF B
  <2>. QED BY <2>3, <2>4
<1>10. s = [i \in 1..(MaxDay + 1) |-> s[i]] /\ MaxDay + 1 \in Nat
  BY <1>2 DEF TrendTotals
<1>. HIDE DEF s, A
<1>11. IsList(s) /\ Len(s) = MaxDay + 1 /\ DOMAIN s = 1..(MaxDay + 1)
  BY <1>10, ListIs
<1>12. s \in Seq(Nat)
  BY <1>9, <1>11, ListOf
<1>13. PartedBy(A, s, part)
  BY <1>8, <1>9, <1>11 DEF PartedBy
<1>14. SumOf(s) = Cardinality(A)
  BY <1>4, <1>12, <1>13, SumPartition
<1>. QED BY <1>4, <1>14 DEF s

\* A report has no more findings than scenarios, and so have many of them.
LEMMA PassRateOK ==
  ASSUME NEW reps \in Seq(Reports)
  PROVE  PassRate(reps) \in Nat /\ PassRate(reps) <= 10000
<1>. DEFINE ss     == Lists(reps)
            n      == Len(reps)
            lens   == [i \in DOMAIN ss |-> Len(ss[i])]
            totals == [i \in DOMAIN reps |-> reps[i].summary.total]
            found  == Len(AllFindings(reps))
            all    == SumOf(totals)
            x      == PassRate(reps)
<1>1. /\ ss \in Seq(Seq(Found)) /\ DOMAIN ss = 1..n /\ DOMAIN reps = 1..n /\ n \in Nat
      /\ \A i \in 1..n : reps[i] \in Reports /\ ss[i] = reps[i].findings
      /\ AllFindings(reps) = FlattenSeq(ss) /\ found \in Nat
  BY AllFindingsOK
<1>2. x = IF reps = <<>> THEN 0 ELSE IF all = 0 THEN 10000 ELSE ((all - found) * 10000) \div all
  BY DEF PassRate
<1>. HIDE DEF ss
<1>3. lens = [i \in 1..n |-> lens[i]] /\ totals = [i \in 1..n |-> totals[i]]
      /\ \A i \in 1..n : lens[i] = Len(reps[i].findings) /\ totals[i] = reps[i].summary.total
  BY <1>1
<1>4. SumOf(lens) = found
  BY <1>1, FlattenSum
<1>. HIDE DEF lens, totals
<1>5. IsList(lens) /\ Len(lens) = n /\ DOMAIN lens = 1..n
      /\ IsList(totals) /\ Len(totals) = n /\ DOMAIN totals = 1..n
  BY <1>1, <1>3, ListIs
<1>6. \A i \in 1..n : lens[i] \in Nat /\ totals[i] \in Nat /\ lens[i] <= totals[i]
  BY <1>1, <1>3, ReportIs
<1>7. lens \in Seq(Nat) /\ totals \in Seq(Nat)
  BY <1>5, <1>6, ListOf
<1>8. SumOf(lens) <= SumOf(totals) /\ SumOf(totals) \in Nat
  BY <1>5, <1>6, <1>7, SumAtMost, SumType
<1>9. all \in Nat /\ found <= all
  BY <1>4, <1>8
<1>. HIDE DEF x, all, found
<1>10. CASE reps # <<>> /\ all # 0
  <2>. DEFINE a == all - found
  <2>1. a \in Nat /\ a <= all /\ all > 0
    BY <1>1, <1>9, <1>10 DEF found
  <2>2. x = (a * 10000) \div all
    BY <1>2, <1>10
  <2>. HIDE DEF a
  <2>3. (a * 10000) \div all \in Nat /\ (a * 10000) \div all <= 10000
    BY <1>9, <2>1, Percent
  <2>. QED BY <2>2, <2>3 DEF x
<1>11. CASE reps = <<>> \/ all = 0
  <2>1. x = 0 \/ x = 10000
    BY <1>2, <1>11
  <2>. QED BY <2>1 DEF x
<1>. QED BY <1>10, <1>11

\* A summary of some reports, for a period of its trends.
SummaryBalances(reps, period) ==
  LET s == Summary(reps, period)
  IN  /\ SumOf(s.severities) = s.vulnerabilities
      /\ s.vulnerabilities = SumOf([i \in 1..(MaxDay + 1) |->
           IF i - 1 \in DOMAIN s.trends THEN s.trends[i - 1].total ELSE 0])
      /\ s.passRate \in Nat /\ s.passRate <= 10000

LEMMA SummaryBalance ==
  ASSUME NEW reps \in Seq(Reports), NEW period \in DOMAIN DaysOf
  PROVE  SummaryBalances(reps, period)
<1>. DEFINE s     == Summary(reps, period)
            found == AllFindings(reps)
<1>1. /\ s.vulnerabilities = Len(found) /\ s.severities = SeverityCounts(found)
      /\ s.trends = Trends(reps, period) /\ s.passRate = PassRate(reps)
  BY DEF Summary
<1>2. found \in Seq(Found)
  BY AllFindingsOK
<1>3. SumOf(SeverityCounts(found)) = Len(found)
  BY <1>2, SeveritySum
<1>4. SumOf(TrendTotals(reps, period)) = Len(found)
  BY TrendsOK
<1>5. PassRate(reps) \in Nat /\ PassRate(reps) <= 10000
  BY PassRateOK
<1>. HIDE DEF s, found
<1>6. TrendTotals(reps, period) = [i \in 1..(MaxDay + 1) |->
        IF i - 1 \in DOMAIN s.trends THEN s.trends[i - 1].total ELSE 0]
  BY <1>1 DEF TrendTotals
<1>. QED BY <1>1, <1>3, <1>4, <1>5, <1>6 DEF SummaryBalances, s

\* A comparison accounts for every finding of the report compared, as new or as
\* one whose severity has changed or not, and a summary of any reports for all
\* that they found, whatever the period of its trends.
THEOREM PipelineAnalytics == PipelineSpec => []AnalyticsBalance
<1>1. ASSUME PipelineInv PROVE AnalyticsBalance
  <2>1. ASSUME NEW id \in Ids(reports) PROVE Document(reports, id) \in Reports
    <3>1. PICK i \in DOMAIN reports : reports[i].id = id /\ Document(reports, id) = reports[i].doc
      BY DocumentOK
    <3>2. reports[i] \in Stored(Reports)
      BY <1>1, ListOf DEF PipelineInv, CollectionsOK
    <3>. QED BY <3>1, <3>2 DEF Stored
  <2>2. ASSUME NEW a \in Ids(reports), NEW b \in Ids(reports)
        PROVE  LET c == Compare(a, b).result
               IN  /\ c.changes.increased + c.changes.decreased + c.changes.unchanged + Len(c.newDetails)
                        = Len(Document(reports, b).findings)
                   /\ c.new = Cardinality(FindingKeys(c.newDetails))
                   /\ c.resolved = Cardinality(FindingKeys(c.resolvedDetails))
    <3>. DEFINE ra == Document(reports, a)
                rb == Document(reports, b)
    <3>1. Compare(a, b).result = CompareReports(ra, rb)
      BY DEF Compare
    <3>2. ra \in Reports /\ rb \in Reports
      BY <2>1
    <3>. HIDE DEF ra, rb
    <3>3. Balanced(ra, rb)
      BY <3>2, CompareOK
    <3>. QED BY <3>1, <3>3 DEF Balanced, rb
  <2>3. ASSUME NEW period \in DOMAIN DaysOf
        PROVE  LET s == GetSummary(period).result
               IN  /\ SumOf(s.severities) = s.vulnerabilities
                   /\ s.vulnerabilities = SumOf([i \in 1..(MaxDay + 1) |->
                        IF i - 1 \in DOMAIN s.trends THEN s.trends[i - 1].total ELSE 0])
                   /\ s.passRate \in Nat /\ s.passRate <= 10000
    <3>1. GetSummary(period).result = Summary(analytics, period)
      BY DEF GetSummary
    <3>2. SummaryBalances(analytics, period)
      BY <1>1, SummaryBalance DEF PipelineInv, CollectionsOK
    <3>. QED BY <3>1, <3>2 DEF SummaryBalances
  <2>4. \A a, b \in Ids(reports) :
          LET c == Compare(a, b).result
          IN  /\ c.changes.increased + c.changes.decreased + c.changes.unchanged + Len(c.newDetails)
                   = Len(Document(reports, b).findings)
              /\ c.new = Cardinality(FindingKeys(c.newDetails))
              /\ c.resolved = Cardinality(FindingKeys(c.resolvedDetails))
    BY <2>2
  <2>. QED BY <2>3, <2>4 DEF AnalyticsBalance
<1>. QED BY <1>1, PipelineInvariant, PTL
--------------------------------------------------------------------------
(* A spec exported to Postman and imported again.                        *)

\* A parameter as it comes back.
Again(in, p) == [name |-> p.name, in |-> in, type |-> "string", required |-> in = "path" \/ ~ ~p.required]

\* The parameters of one location, as they come back.
Back(e, in) ==
  [i \in DOMAIN ExportedParams(e, in) |->
     [name |-> ExportedParams(e, in)[i].key, in |-> in, type |-> "string",
      required |-> in = "path" \/ ~ExportedParams(e, in)[i].disabled]]

LEMMA BackOK ==
  ASSUME NEW e, IsList(e.params), NEW in
  PROVE  /\ IsList(Back(e, in))
         /\ \A k \in DOMAIN Back(e, in) : \E j \in DOMAIN e.params :
              e.params[j].in = in /\ Back(e, in)[k] = Again(in, e.params[j])
         /\ \A j \in DOMAIN e.params : e.params[j].in = in =>
              \E k \in DOMAIN Back(e, in) : Back(e, in)[k] = Again(in, e.params[j])
<1>. DEFINE J  == {j \in DOMAIN e.params : e.params[j].in = in}
            of == Pick(e.params, J)
            n  == Len(of)
            q  == ExportedParams(e, in)
            b  == Back(e, in)
<1>1. IsList(of)
  BY PickList
<1>2. e.params \in Seq(ToSet(e.params))
  BY ListFacts
<1>3. PICK at : Picks(e.params, J, of, at)
  BY <1>2, PickIs
<1>4. q = [i \in DOMAIN of |-> [key |-> of[i].name, disabled |-> ~of[i].required]]
  BY DEF ExportedParams, Filter
<1>. HIDE DEF of, q
<1>5. n \in Nat /\ DOMAIN of = 1..n
  BY <1>1, ListFacts
<1>6. DOMAIN q = 1..n /\ \A i \in 1..n : q[i].key = of[i].name /\ (q[i].disabled <=> ~of[i].required)
  BY <1>4, <1>5
<1>7. b = [i \in 1..n |-> b[i]]
      /\ \A i \in 1..n : b[i] = [name |-> q[i].key, in |-> in, type |-> "string",
                                 required |-> in = "path" \/ ~q[i].disabled]
  BY <1>6 DEF Back, q
<1>. HIDE DEF b
<1>8. IsList(b) /\ DOMAIN b = 1..n
  BY <1>5, <1>7, ListIs
<1>9. \A k \in 1..n : at[k] \in J \cap DOMAIN e.params /\ of[k] = e.params[at[k]]
  BY <1>3 DEF Picks
<1>10. \A j \in J \cap DOMAIN e.params : \E k \in 1..n : at[k] = j
  BY <1>3 DEF Picks
<1>11. ASSUME NEW k \in 1..n
       PROVE  at[k] \in DOMAIN e.params /\ e.params[at[k]].in = in /\ b[k] = Again(in, e.params[at[k]])
  <2>1. at[k] \in DOMAIN e.params /\ e.params[at[k]].in = in
    BY <1>9
  <2>2. q[k].key = e.params[at[k]].name /\ (q[k].disabled <=> ~e.params[at[k]].required)
    BY <1>6, <1>9
  <2>. QED BY <1>7, <2>1, <2>2 DEF Again
<1>12. ASSUME NEW j \in DOMAIN e.params, e.params[j].in = in
       PROVE  \E k \in 1..n : b[k] = Again(in, e.params[j])
  <2>1. j \in J \cap DOMAIN e.params
    BY <1>12
  <2>. QED BY <1>10, <1>11, <2>1
<1>. QED BY <1>8, <1>11, <1>12 DEF b

\* What is in one list after the other is in one of them.
Concats(s, t, st) ==
  /\ \A i \in DOMAIN st : (\E k \in DOMAIN s : st[i] = s[k]) \/ (\E k \in DOMAIN t : st[i] = t[k])
  /\ \A k \in DOMAIN s : \E i \in DOMAIN st : st[i] = s[k]
  /\ \A k \in DOMAIN t : \E i \in DOMAIN st : st[i] = t[k]
LEMMA ConcatsOK ==
  ASSUME NEW s, NEW t, IsList(s), IsList(t)
  PROVE  Concats(s, t, s \o t)
<1>. DEFINE st == s \o t
            m  == Len(s)
            n  == Len(t)
<1>1. /\ DOMAIN st = 1..(m + n) /\ m \in Nat /\ n \in Nat /\ DOMAIN s = 1..m /\ DOMAIN t = 1..n
      /\ \A i \in 1..m : st[i] = s[i]
      /\ \A i \in 1..n : st[m + i] = t[i]
      /\ \A i \in DOMAIN st : \/ i \in DOMAIN s /\ st[i] = s[i]
                              \/ i - m \in DOMAIN t /\ st[i] = t[i - m]
  BY ConcatLists, ListFacts
<1>. HIDE DEF st, m, n
<1>2. \A k \in 1..m : k \in 1..(m + n)
  BY <1>1
<1>3. \A k \in 1..n : m + k \in 1..(m + n)
  BY <1>1
<1>. QED BY <1>1, <1>2, <1>3 DEF Concats, st

LEMMA ParamsReturn ==
  ASSUME NEW e, IsWhole(e)
  PROVE  LET ps == ParsePostmanParams(EndpointToItem(e))
         IN  /\ \A k \in DOMAIN ps : \E j \in DOMAIN e.params :
                  e.params[j].in # "cookie" /\ ps[k] = Again(e.params[j].in, e.params[j])
             /\ \A j \in DOMAIN e.params : e.params[j].in # "cookie" =>
                  \E k \in DOMAIN ps : ps[k] = Again(e.params[j].in, e.params[j])
<1>. DEFINE ps == ParsePostmanParams(EndpointToItem(e))
            x  == Back(e, "query")
            y  == Back(e, "path")
            z  == Back(e, "header")
<1>1. IsList(e.params) /\ \A j \in DOMAIN e.params : e.params[j].in \in {"query", "header", "path", "cookie"}
  BY DEF IsWhole, IsEndpoint, IsParameter
<1>2. ps = x \o y \o z
  BY DEF ParsePostmanParams, EndpointToItem, Back
<1>3. IsList(x) /\ IsList(y) /\ IsList(z)
  BY <1>1, BackOK
<1>4. \A in \in {"query", "path", "header"} :
        /\ \A k \in DOMAIN Back(e, in) : \E j \in DOMAIN e.params :
             e.params[j].in = in /\ Back(e, in)[k] = Again(in, e.params[j])
        /\ \A j \in DOMAIN e.params : e.params[j].in = in =>
             \E k \in DOMAIN Back(e, in) : Back(e, in)[k] = Again(in, e.params[j])
  BY <1>1, BackOK
<1>5. /\ \A k \in DOMAIN x : \E j \in DOMAIN e.params : e.params[j].in = "query" /\ x[k] = Again("query", e.params[j])
      /\ \A k \in DOMAIN y : \E j \in DOMAIN e.params : e.params[j].in = "path" /\ y[k] = Again("path", e.params[j])
      /\ \A k \in DOMAIN z : \E j \in DOMAIN e.params : e.params[j].in = "header" /\ z[k] = Again("header", e.params[j])
  BY <1>4
<1>6. /\ \A j \in DOMAIN e.params : e.params[j].in = "query"  => \E k \in DOMAIN x : x[k] = Again("query", e.params[j])
      /\ \A j \in DOMAIN e.params : e.params[j].in = "path"   => \E k \in DOMAIN y : y[k] = Again("path", e.params[j])
      /\ \A j \in DOMAIN e.params : e.params[j].in = "header" => \E k \in DOMAIN z : z[k] = Again("header", e.params[j])
  BY <1>4
<1>. HIDE DEF ps, x, y, z
<1>. DEFINE xy == x \o y
<1>7. Concats(x, y, xy) /\ IsList(xy)
  BY <1>3, ConcatLists, ConcatsOK
<1>. HIDE DEF xy
<1>8. Concats(xy, z, ps)
  BY <1>2, <1>3, <1>7, ConcatsOK DEF xy
<1>9. ASSUME NEW k \in DOMAIN ps
      PROVE  \E j \in DOMAIN e.params : e.params[j].in # "cookie" /\ ps[k] = Again(e.params[j].in, e.params[j])
  <2>1. CASE \E m \in DOMAIN z : ps[k] = z[m]
    BY <1>5, <2>1
  <2>2. CASE \E m \in DOMAIN x : ps[k] = x[m]
    BY <1>5, <2>2
  <2>3. CASE \E m \in DOMAIN y : ps[k] = y[m]
    BY <1>5, <2>3
  <2>4. (\E m \in DOMAIN xy : ps[k] = xy[m]) \/ (\E m \in DOMAIN z : ps[k] = z[m])
    BY <1>8 DEF Concats
  <2>5. \A m \in DOMAIN xy : (\E l \in DOMAIN x : xy[m] = x[l]) \/ (\E l \in DOMAIN y : xy[m] = y[l])
    BY <1>7 DEF Concats
  <2>. QED BY <2>1, <2>2, <2>3, <2>4, <2>5
<1>10. ASSUME NEW j \in DOMAIN e.params, e.params[j].in # "cookie"
       PROVE  \E k \in DOMAIN ps : ps[k] = Again(e.params[j].in, e.params[j])
  <2>1. /\ \A m \in DOMAIN xy : \E k \in DOMAIN ps : ps[k] = xy[m]
        /\ \A m \in DOMAIN z : \E k \in DOMAIN ps : ps[k] = z[m]
    BY <1>8 DEF Concats
  <2>2. /\ \A l \in DOMAIN x : \E m \in DOMAIN xy : xy[m] = x[l]
        /\ \A l \in DOMAIN y : \E m \in DOMAIN xy : xy[m] = y[l]
    BY <1>7 DEF Concats
  <2>3. CASE e.params[j].in = "query"
    BY <1>6, <2>1, <2>2, <2>3
  <2>4. CASE e.params[j].in = "path"
    BY <1>6, <2>1, <2>2, <2>4
  <2>5. CASE e.params[j].in = "header"
    BY <1>6, <2>1, <2>5
  <2>. QED BY <1>1, <1>10, <2>3, <2>4, <2>5
<1>. QED BY <1>9, <1>10 DEF ps

LEMMA NamesReturn ==
  ASSUME NEW e, IsWhole(e), NEW ps, ps = ParsePostmanParams(EndpointToItem(e))
  PROVE  Named(ps) = {<<n[1], n[2], n[1] = "path" \/ n[3]>> : n \in Named(e.params)}
<1>. DEFINE X   == {<<n[1], n[2], n[1] = "path" \/ n[3]>> : n \in Named(e.params)}
            t(p) == <<p.in, p.name, p.in = "path" \/ p.required>>
            u(n) == <<n[1], n[2], n[1] = "path" \/ n[3]>>
            v(p) == <<p.in, p.name, p.required>>
<1>1. \A k \in DOMAIN ps : \E j \in DOMAIN e.params :
        e.params[j].in # "cookie" /\ ps[k] = Again(e.params[j].in, e.params[j])
  BY ParamsReturn
<1>2. \A j \in DOMAIN e.params : e.params[j].in # "cookie" =>
        \E k \in DOMAIN ps : ps[k] = Again(e.params[j].in, e.params[j])
  BY ParamsReturn
<1>3. \A p : LET q == Again(p.in, p)
             IN  q.in = p.in /\ <<q.in, q.name, q.required>> = t(p)
  BY DEF Again
<1>4. ASSUME NEW x PROVE x \in X <=> \E j \in DOMAIN e.params : e.params[j].in # "cookie" /\ x = t(e.params[j])
  <2>1. \A n : n \in Named(e.params) <=> \E j \in DOMAIN e.params :
          e.params[j].in # "cookie" /\ n = v(e.params[j])
    BY DEF Named, ToSet
  <2>2. \A p : u(v(p)) = t(p)
    OBVIOUS
  <2>3. x \in X <=> \E n \in Named(e.params) : x = u(n)
    OBVIOUS
  <2>. HIDE DEF X, t, u, v
  <2>. QED BY <2>1, <2>2, <2>3
<1>5. ASSUME NEW x PROVE x \in Named(ps) <=> \E k \in DOMAIN ps :
                           ps[k].in # "cookie" /\ x = <<ps[k].in, ps[k].name, ps[k].required>>
  BY DEF Named, ToSet
<1>. HIDE DEF X, t
<1>6. ASSUME NEW x \in Named(ps) PROVE x \in X
  <2>1. PICK k \in DOMAIN ps : ps[k].in # "cookie" /\ x = <<ps[k].in, ps[k].name, ps[k].required>>
    BY <1>5
  <2>2. PICK j \in DOMAIN e.params : e.params[j].in # "cookie" /\ ps[k] = Again(e.params[j].in, e.params[j])
    BY <1>1
  <2>3. x = t(e.params[j])
    BY <1>3, <2>1, <2>2
  <2>. QED BY <1>4, <2>2, <2>3
<1>7. ASSUME NEW x \in X PROVE x \in Named(ps)
  <2>1. PICK j \in DOMAIN e.params : e.params[j].in # "cookie" /\ x = t(e.params[j])
    BY <1>4
  <2>2. PICK k \in DOMAIN ps : ps[k] = Again(e.params[j].in, e.params[j])
    BY <1>2, <2>1
  <2>3. ps[k].in # "cookie" /\ x = <<ps[k].in, ps[k].name, ps[k].required>>
    BY <1>3, <2>1, <2>2
  <2>. QED BY <1>5, <2>3
<1>. QED BY <1>6, <1>7 DEF X

LEMMA BodyReturns ==
  ASSUME NEW e, e.body.content \in DOMAIN BodyModes \ {"application/xml"},
         NEW b, b = ParsePostmanBody(EndpointToItem(e))
  PROVE  b.content = e.body.content /\ FieldNames(b) = FieldNames(e.body)
<1>. DEFINE content == e.body.content
            mode    == BodyModes[content]
            keys    == [i \in DOMAIN e.body.fields |-> e.body.fields[i].name]
<1>1. content \in {"application/json", "multipart/form-data", "application/x-www-form-urlencoded"}
      /\ content \in DOMAIN BodyModes
  BY DEF BodyModes
<1>2. mode # "none" /\ ContentOfMode[mode] = content
  BY <1>1 DEF BodyModes, ContentOfMode
<1>3. ExportedBody(e.body) = [mode |-> mode, keys |-> keys]
  BY <1>1 DEF ExportedBody
<1>4. EndpointToItem(e).body = ExportedBody(e.body)
  BY DEF EndpointToItem
<1>. HIDE DEF mode, keys
<1>5. EndpointToItem(e).body.mode = mode /\ EndpointToItem(e).body.keys = keys
  BY <1>3, <1>4
<1>6. b = [content |-> ContentOfMode[mode], required |-> TRUE,
           fields |-> [i \in DOMAIN keys |->
             [name |-> keys[i], type |-> "string", required |-> mode = "formdata",
              enum |-> FALSE, format |-> "none"]]]
  BY <1>2, <1>5 DEF ParsePostmanBody
<1>7. b.content = content
  BY <1>2, <1>6
<1>8. FieldNames(b) = [i \in DOMAIN keys |-> keys[i]]
  BY <1>6 DEF FieldNames
<1>9. FieldNames(b) = FieldNames(e.body)
  BY <1>8 DEF keys, FieldNames
<1>. QED BY <1>7, <1>9

\* A list with one element more in front.
LEMMA InFront ==
  ASSUME NEW a, NEW t, IsList(t)
  PROVE  /\ IsList(<<a>> \o t) /\ Len(<<a>> \o t) = 1 + Len(t) /\ DOMAIN (<<a>> \o t) = 1..(1 + Len(t))
         /\ (<<a>> \o t)[1] = a
         /\ \A i \in 1..Len(t) : (<<a>> \o t)[1 + i] = t[i]
<1>. DEFINE one == <<a>>
            u   == one \o t
<1>1. IsList(one) /\ Len(one) = 1 /\ one[1] = a
  BY Singleton
<1>2. Len(t) \in Nat
  BY ListFacts
<1>. HIDE DEF one
<1>3. /\ IsList(u) /\ Len(u) = Len(one) + Len(t) /\ DOMAIN u = 1..(Len(one) + Len(t))
      /\ \A i \in 1..Len(one) : u[i] = one[i]
      /\ \A i \in 1..Len(t) : u[Len(one) + i] = t[i]
  <2>1. IsList(one) /\ IsList(t)
    BY <1>1
  <2>. QED BY <2>1, ConcatLists
<1>. HIDE DEF u
<1>4. u[1] = a
  BY <1>1, <1>3
<1>5. \A i \in 1..Len(t) : u[1 + i] = t[i]
  BY <1>1, <1>3
<1>. QED BY <1>1, <1>3, <1>4, <1>5 DEF u, one

\* A path comes back with its segments, and itself where it is tidy.
LEMMA PathReturns ==
  ASSUME NEW p, IsList(p), NEW item, item.path = Segments(p)
  PROVE  Segments(PathOf(item)) = Segments(p) /\ (Tidy(p) => PathOf(item) = p)
<1>. DEFINE gap  == ""
            X    == ToSet(p) \cup {gap}
            I(q) == {i \in DOMAIN q : q[i] # gap}
            segs == Segments(p)
            root == <<gap, gap>>
            one  == <<gap>>
<1>1. \A q : Segments(q) = Pick(q, I(q))
  BY DEF Segments, Filter
<1>2. Tidy(p) => Len(p) >= 2 /\ p[1] = gap /\ (p = root \/ \A i \in DOMAIN p : i > 1 => p[i] # gap)
  BY DEF Tidy
<1>3. PathOf(item) = IF segs = <<>> THEN root ELSE one \o segs
  BY DEF PathOf
<1>. HIDE DEF gap
<1>4. \A q : I(q) \subseteq DOMAIN q /\ \A i \in DOMAIN q : i \in I(q) <=> q[i] # gap
  OBVIOUS
<1>5. gap \in X /\ ToSet(p) \subseteq X
  OBVIOUS
<1>6. root \in Seq({gap}) /\ DOMAIN root = 1..2 /\ root[1] = gap /\ root[2] = gap /\ Len(root) = 2
  OBVIOUS
<1>. HIDE DEF I, X, root, segs, one
<1>7. p \in Seq(X) /\ Len(p) \in Nat /\ DOMAIN p = 1..Len(p)
  BY <1>5, ListFacts, SeqMonotonic
<1>8. root \in Seq(X)
  BY <1>5, <1>6, ListOf
<1>9. segs = Pick(p, I(p)) /\ segs \in Seq(X)
  BY <1>1, <1>7, PickIs DEF segs
<1>10. \A i \in 1..Len(segs) : segs[i] # gap
  <2>1. \A k \in DOMAIN segs : \E i \in I(p) \cap DOMAIN p : segs[k] = p[i]
    BY <1>9, PickList
  <2>2. DOMAIN segs = 1..Len(segs)
    BY <1>9, LenProperties
  <2>. QED BY <1>4, <2>1, <2>2
<1>11. Segments(root) = <<>>
  <2>1. I(root) \cap DOMAIN root = {}
    <3>1. \A i \in 1..2 : root[i] = gap
      BY <1>6
    <3>. QED BY <1>4, <1>6, <3>1
  <2>2. Len(Pick(root, I(root))) = 0 /\ Pick(root, I(root)) \in Seq(X)
    BY <1>8, <2>1, FS_EmptySet, PickLen, PickIs
  <2>3. Pick(root, I(root)) = <<>>
    BY <2>2, EmptySeq
  <2>. QED BY <1>1, <2>3
\* The segments of what is made of segments.
<1>12. ASSUME NEW t \in Seq(X), \A i \in 1..Len(t) : t[i] # gap
       PROVE  Segments(one \o t) = t
  <2>. DEFINE u == one \o t
  <2>1. Len(t) \in Nat /\ DOMAIN t = 1..Len(t) /\ IsList(t)
    BY LenProperties, ListOf
  <2>2. /\ DOMAIN u = 1..(1 + Len(t))
        /\ u[1] = gap /\ \A i \in 1..Len(t) : u[1 + i] = t[i]
    BY <2>1, InFront DEF one
  <2>. HIDE DEF u
  <2>3. 1 \notin I(u)
    BY <1>4, <2>1, <2>2
  <2>4. ASSUME NEW i \in 2..(Len(t) + 1) PROVE i \in I(u)
    <3>1. i - 1 \in 1..Len(t) /\ i = 1 + (i - 1) /\ i \in DOMAIN u
      BY <2>1, <2>2
    <3>2. u[i] = t[i - 1]
      BY <2>2, <3>1
    <3>. QED BY <1>4, <1>12, <3>1, <3>2
  <2>5. Pick(u, I(u)) = t
    <3>. DEFINE J == I(u)
    <3>1. 1 \notin J /\ 2..(Len(t) + 1) \subseteq J
      BY <2>3, <2>4
    <3>. HIDE DEF J
    <3>2. Pick(one \o t, J) = t
      BY <1>5, <1>12, <3>1, PickRest DEF one
    <3>. QED BY <3>2 DEF u, J
  <2>. QED BY <1>1, <2>5 DEF u
<1>13. CASE segs = <<>>
  <2>1. PathOf(item) = root
    BY <1>3, <1>13
  <2>2. ASSUME Tidy(p), p # root PROVE FALSE
    <3>1. 2 \in DOMAIN p /\ p[2] # gap
      BY <1>2, <1>7, <2>2
    <3>2. 2 \in I(p) \cap DOMAIN p
      BY <1>4, <3>1
    <3>3. PICK at : Picks(p, I(p), segs, at)
      BY <1>7, <1>9, PickIs
    <3>4. \E k \in 1..Len(segs) : at[k] = 2
      BY <3>2, <3>3 DEF Picks
    <3>5. Len(segs) = 0
      BY <1>13, EmptyList
    <3>. QED BY <3>4, <3>5
  <2>. QED BY <1>11, <1>13, <2>1, <2>2 DEF segs
<1>14. CASE segs # <<>>
  <2>1. PathOf(item) = one \o segs
    BY <1>3, <1>14
  <2>2. Segments(one \o segs) = segs
    BY <1>9, <1>10, <1>12
  <2>3. ASSUME Tidy(p) PROVE one \o segs = p
    <3>1. p # root
      BY <1>11, <1>14 DEF segs
    <3>2. p[1] = gap /\ Len(p) >= 2 /\ \A i \in DOMAIN p : i > 1 => p[i] # gap
      BY <1>2, <2>3, <3>1
    <3>. DEFINE n == Len(p) - 1
                t == [i \in 1..n |-> p[i + 1]]
    <3>3. n \in Nat /\ \A i \in 1..n : i + 1 \in DOMAIN p /\ i + 1 > 1
      BY <1>7, <3>2
    <3>4. \A i \in 1..n : t[i] = p[i + 1] /\ t[i] # gap /\ t[i] \in X
      BY <1>7, <3>2, <3>3, ElementOfSeq
    <3>. HIDE DEF n
    <3>5. t = [i \in 1..n |-> t[i]]
      OBVIOUS
    <3>. HIDE DEF t
    <3>6. IsList(t) /\ Len(t) = n /\ DOMAIN t = 1..n
      BY <3>3, <3>5, ListIs
    <3>7. t \in Seq(X)
      BY <3>4, <3>6, ListOf
    <3>8. p = one \o t
      <4>. DEFINE u == one \o t
      <4>2. IsList(u) /\ Len(u) = 1 + n /\ u[1] = gap /\ \A i \in 1..n : u[1 + i] = t[i]
        BY <3>6, InFront DEF one
      <4>. HIDE DEF u
      <4>3. 1 + n = Len(p) /\ Len(p) \in Nat
        BY <1>7 DEF n
      <4>4. ASSUME NEW i \in 1..Len(p) PROVE u[i] = p[i]
        <5>1. CASE i = 1
          BY <3>2, <3>3, <3>6, <4>2, <4>3, <5>1
        <5>2. CASE i # 1
          <6>1. i - 1 \in 1..n /\ (i - 1) + 1 = i /\ i = 1 + (i - 1)
            BY <3>3, <4>3, <5>2
          <6>2. u[1 + (i - 1)] = t[i - 1] /\ t[i - 1] = p[(i - 1) + 1]
            BY <3>4, <4>2, <6>1
          <6>. QED BY <6>1, <6>2
        <5>. QED BY <5>1, <5>2
      <4>5. p = [i \in 1..Len(p) |-> p[i]]
        BY <1>7, LenProperties
      <4>6. u = [i \in 1..Len(u) |-> u[i]]
        BY <4>2, ListFacts
      <4>. QED BY <4>2, <4>3, <4>4, <4>5, <4>6 DEF u
    <3>9. \A i \in 1..Len(t) : t[i] # gap
      BY <3>4, <3>6
    <3>10. Segments(p) = t
      BY <1>12, <3>7, <3>8, <3>9
    <3>. QED BY <3>8, <3>10 DEF segs
  <2>. QED BY <2>1, <2>2, <2>3 DEF segs
<1>. QED BY <1>13, <1>14

LEMMA PostmanKeepsOK ==
  ASSUME NEW spec, IsList(spec.endpoints), \A i \in DOMAIN spec.endpoints : IsWhole(spec.endpoints[i])
  PROVE  PostmanKeeps(spec)
<1>. DEFINE es    == spec.endpoints
            n     == Len(es)
            c     == ExportCollection(spec)
            items == [i \in DOMAIN es |-> EndpointToItem(es[i])]
            K     == {i \in DOMAIN items : items[i].method \in Methods}
            known == Filter(items, LAMBDA item : item.method \in Methods)
            again == ImportCollection(c)
<1>1. n \in Nat /\ DOMAIN es = 1..n
  BY ListFacts
<1>2. c.version = "v2.1" /\ c.item = items
  BY DEF ExportCollection
<1>3. \A i \in 1..n : items[i] = EndpointToItem(es[i]) /\ items[i].method \in Methods
  BY <1>1 DEF EndpointToItem, IsWhole, IsEndpoint
<1>4. items = [i \in 1..n |-> items[i]]
  BY <1>1
<1>5. known = Pick(items, K)
  BY DEF Filter
<1>6. again.endpoints = [i \in DOMAIN known |-> ParseRequest(known[i])]
  BY <1>2 DEF ImportCollection, Filter
<1>. HIDE DEF items, known, c, again
<1>7. IsList(items) /\ DOMAIN items = 1..n
  BY <1>1, <1>4, ListIs
<1>8. items \in Seq(ToSet(items))
  BY <1>7, ListFacts
<1>9. DOMAIN items \subseteq K
  BY <1>3, <1>7
<1>. HIDE DEF K
<1>10. known = items
  BY <1>5, <1>8, <1>9, PickAll
<1>. DEFINE fs == again.endpoints
<1>11. fs = [i \in 1..n |-> ParseRequest(EndpointToItem(es[i]))]
  BY <1>3, <1>6, <1>7, <1>10
<1>. HIDE DEF fs
<1>12. fs = [i \in 1..n |-> fs[i]] /\ \A i \in 1..n : fs[i] = ParseRequest(EndpointToItem(es[i]))
  BY <1>11
<1>13. Len(fs) = n
  BY <1>1, <1>12, ListIs
<1>14. ASSUME NEW i \in 1..n
       PROVE  LET e == es[i]
                  f == fs[i]
              IN  /\ Segments(f.path) = Segments(e.path) /\ f.method = e.method
                  /\ Tidy(e.path) => f.path = e.path
                  /\ Named(f.params) = {<<m[1], m[2], m[1] = "path" \/ m[3]>> : m \in Named(e.params)}
                  /\ e.body.content \in DOMAIN BodyModes \ {"application/xml"} =>
                       f.body.content = e.body.content /\ FieldNames(f.body) = FieldNames(e.body)
  <2>. DEFINE e == es[i]
              f == fs[i]
  <2>1. IsWhole(e)
    BY <1>1
  <2>2. f = ParseRequest(EndpointToItem(e))
    BY <1>12
  <2>3. EndpointToItem(e).path = Segments(e.path) /\ EndpointToItem(e).method = e.method
    BY DEF EndpointToItem
  <2>. HIDE DEF e, f
  <2>4. /\ f.path = PathOf(EndpointToItem(e)) /\ f.method = e.method
        /\ f.params = ParsePostmanParams(EndpointToItem(e))
        /\ f.body = ParsePostmanBody(EndpointToItem(e))
    BY <2>2, <2>3 DEF ParseRequest
  <2>5. Named(f.params) = {<<m[1], m[2], m[1] = "path" \/ m[3]>> : m \in Named(e.params)}
    BY <2>1, <2>4, NamesReturn
  <2>6. e.body.content \in DOMAIN BodyModes \ {"application/xml"} =>
          f.body.content = e.body.content /\ FieldNames(f.body) = FieldNames(e.body)
    BY <2>4, BodyReturns
  <2>7. IsList(e.path)
    BY <2>1 DEF IsWhole, IsEndpoint
  <2>8. Segments(f.path) = Segments(e.path) /\ (Tidy(e.path) => f.path = e.path)
    BY <2>3, <2>4, <2>7, PathReturns
  <2>. QED BY <2>4, <2>5, <2>6, <2>8 DEF e, f
<1>. QED BY <1>1, <1>13, <1>14 DEF PostmanKeeps, fs, again, c
--------------------------------------------------------------------------
(* A document parsed with and without the resolver.                      *)

Bare(doc) == [doc EXCEPT !.resolvable = FALSE]
PlainBodies(doc) == \A n \in DOMAIN doc.items : \A j \in DOMAIN doc.items[n].ops : ~doc.items[n].ops[j].body.isRef

LEMMA BareOK ==
  ASSUME NEW doc, IsDocument(doc)
  PROVE  /\ Bare(doc).components = doc.components /\ Bare(doc).items = doc.items
         /\ Bare(doc).resolvable = FALSE /\ IsDocument(Bare(doc))
<1>1. /\ Bare(doc).components = doc.components /\ Bare(doc).items = doc.items
      /\ Bare(doc).resolvable = FALSE /\ DOMAIN Bare(doc) = DOMAIN doc
  BY DEF IsDocument, Bare
<1>2. ASSUME NEW i \in DOMAIN doc.items, NEW j \in DOMAIN doc.items[i].ops
      PROVE  IsOperation(Bare(doc), doc.items[i].ops[j])
  <2>1. IsOperation(doc, doc.items[i].ops[j])
    BY DEF IsDocument
  <2>. QED BY <1>1, <2>1 DEF IsOperation
<1>3. IsDocument(Bare(doc))
  <2>1. /\ {"components", "items", "resolvable"} \subseteq DOMAIN doc
        /\ IsFiniteSet(DOMAIN doc.components)
        /\ \A c \in DOMAIN doc.components : IsList(doc.components[c].schema.props)
        /\ IsList(doc.items)
        /\ \A i \in DOMAIN doc.items :
             /\ IsList(doc.items[i].path) /\ doc.items[i].path # <<>>
             /\ IsList(doc.items[i].params) /\ IsList(doc.items[i].ops)
             /\ \A j \in DOMAIN doc.items[i].params :
                  doc.items[i].params[j].in \in {"query", "header", "path", "cookie"}
    BY DEF IsDocument
  <2>. QED BY <1>1, <1>2, <2>1 DEF IsDocument
<1>. QED BY <1>1, <1>3

LEMMA BodyAlike ==
  ASSUME NEW doc, IsDocument(doc), Flat(doc), NEW op, IsOperation(doc, op), ~op.body.isRef
  PROVE  ParseRequestBody(Bare(doc), op.body) = ParseRequestBody(doc, op.body)
<1>. DEFINE raw    == op.body
            bare   == Bare(doc)
            given  == raw.content[1].schema
            known(schema, d) == IF schema.ref = "none" THEN schema ELSE ResolveRef(d, schema.ref)
<1>1. \A d : ParseRequestBody(d, raw) =
        IF ~raw.given THEN NoBody
        ELSE IF raw.content = <<>> THEN BareBody(raw.required)
        ELSE [content |-> raw.content[1].type, required |-> raw.required,
              fields |-> InferTypes(known(Resolving(d, given), d))]
  BY DEF ParseRequestBody
<1>2. CASE raw.content # <<>>
  <2>1. 1 \in DOMAIN raw.content
    BY <1>2, ListFacts, EmptySeq DEF IsOperation
  <2>2. IsList(given.props) /\ (doc.resolvable => given.ref \in DOMAIN doc.components \cup {"none"})
    BY <2>1 DEF IsOperation
  <2>3. bare.components = doc.components /\ bare.resolvable = FALSE
    BY BareOK
  <2>4. Resolving(bare, given) = given /\ \A r : ResolveRef(bare, r) = ResolveRef(doc, r)
    BY <2>3 DEF Resolving, ResolveRef
  <2>5. known(Resolving(bare, given), bare) = known(given, doc)
    BY <2>4
  <2>6. known(Resolving(doc, given), doc) = known(given, doc)
    <3>. DEFINE res == Resolving(doc, given)
    <3>1. CASE ~doc.resolvable
      BY <3>1 DEF Resolving
    <3>2. CASE doc.resolvable /\ given.ref = "none"
      <4>1. res = given
        BY <2>2, <3>2, ResolvingOK
      <4>. QED BY <4>1
    <3>3. CASE doc.resolvable /\ given.ref # "none"
      <4>1. res = doc.components[given.ref].schema
        BY <2>2, <3>3, ResolvingOK
      <4>2. given.ref \in DOMAIN doc.components
        BY <2>2, <3>3
      <4>3. res.ref = "none"
        BY <4>1, <4>2 DEF Flat
      <4>4. ResolveRef(doc, given.ref) = doc.components[given.ref].schema
        BY <4>2 DEF ResolveRef
      <4>. HIDE DEF res
      <4>. QED BY <3>3, <4>1, <4>3, <4>4 DEF res
    <3>. QED BY <3>1, <3>2, <3>3
  <2>. HIDE DEF known
  <2>. QED BY <1>1, <1>2, <2>5, <2>6
<1>3. CASE raw.content = <<>>
  BY <1>1, <1>3
<1>. QED BY <1>2, <1>3

LEMMA ItemsAlike ==
  ASSUME NEW doc, IsDocument(doc), Flat(doc), PlainBodies(doc), NEW i \in DOMAIN doc.items
  PROVE  LET es == ItemEndpoints(doc, doc.items[i])
             bs == ItemEndpoints(Bare(doc), doc.items[i])
         IN  /\ IsList(es) /\ IsList(bs) /\ Len(bs) = Len(es)
             /\ \A j \in 1..Len(bs) : bs[j].body = es[j].body
<1>. DEFINE item == doc.items[i]
            I    == {j \in DOMAIN item.ops : item.ops[j].method \in DOMAIN MethodMap /\ item.ops[j].mapping}
            ops  == Pick(item.ops, I)
            es   == ItemEndpoints(doc, item)
            bs   == ItemEndpoints(Bare(doc), item)
<1>1. /\ IsList(item.ops)
      /\ \A j \in DOMAIN item.ops : IsOperation(doc, item.ops[j]) /\ ~item.ops[j].body.isRef
  BY DEF IsDocument, PlainBodies
<1>2. IsList(ops) /\ \A k \in DOMAIN ops : \E j \in I \cap DOMAIN item.ops : ops[k] = item.ops[j]
  <2>. HIDE DEF I, item
  <2>. QED BY <1>1, PickList
<1>3. \A k \in DOMAIN ops : IsOperation(doc, ops[k]) /\ ~ops[k].body.isRef
  BY <1>1, <1>2
<1>4. \A d : ItemEndpoints(d, item) =
        IF item.mapping THEN [j \in DOMAIN ops |-> ParsedOperation(d, item, ops[j])] ELSE <<>>
  BY DEF ItemEndpoints, Filter
<1>5. IsList(es)
  BY ItemEndpointsOK
<1>6. IsList(bs)
  <2>1. IsDocument(Bare(doc)) /\ Bare(doc).items = doc.items
    BY BareOK
  <2>. QED BY <2>1, ItemEndpointsOK
<1>. HIDE DEF item, I, ops, es, bs
<1>7. CASE item.mapping
  <2>1. /\ es = [j \in DOMAIN ops |-> ParsedOperation(doc, item, ops[j])]
        /\ bs = [j \in DOMAIN ops |-> ParsedOperation(Bare(doc), item, ops[j])]
    BY <1>4, <1>7 DEF es, bs
  <2>2. DOMAIN es = DOMAIN ops /\ DOMAIN bs = DOMAIN ops
    BY <2>1
  <2>3. Len(es) \in Nat /\ Len(bs) \in Nat /\ DOMAIN es = 1..Len(es) /\ DOMAIN bs = 1..Len(bs)
    BY <1>5, <1>6, ListFacts
  <2>4. Len(bs) = Len(es)
    BY <2>2, <2>3
  <2>5. ASSUME NEW j \in DOMAIN ops PROVE bs[j].body = es[j].body
    <3>1. bs[j].body = ParseRequestBody(Bare(doc), ops[j].body) /\ es[j].body = ParseRequestBody(doc, ops[j].body)
      BY <2>1 DEF ParsedOperation
    <3>. QED BY <1>3, <3>1, BodyAlike
  <2>. QED BY <1>5, <1>6, <2>2, <2>3, <2>4, <2>5 DEF es, bs, item
<1>8. CASE ~item.mapping
  <2>1. es = <<>> /\ bs = <<>>
    BY <1>4, <1>8 DEF es, bs
  <2>2. Len(es) = 0 /\ Len(bs) = 0
    BY <2>1, EmptyList
  <2>3. Len(bs) = Len(es) /\ \A j \in 1..Len(bs) : FALSE
    BY <2>2
  <2>. QED BY <1>5, <1>6, <2>3 DEF es, bs, item
<1>. QED BY <1>7, <1>8

LEMMA BodiesAlike ==
  ASSUME NEW doc, IsDocument(doc), Flat(doc), PlainBodies(doc)
  PROVE  \A n \in DOMAIN ExtractEndpoints(Bare(doc)) :
           ExtractEndpoints(Bare(doc))[n].body = ExtractEndpoints(doc)[n].body
<1>. DEFINE N  == Len(doc.items)
            ss == [i \in DOMAIN doc.items |-> ItemEndpoints(doc, doc.items[i])]
            tt == [i \in DOMAIN doc.items |-> ItemEndpoints(Bare(doc), doc.items[i])]
<1>1. N \in Nat /\ DOMAIN doc.items = 1..N
  BY ListFacts DEF IsDocument
<1>2. ExtractEndpoints(doc) = FlattenSeq(ss)
  BY DEF ExtractEndpoints, ItemEndpoints
<1>3. ExtractEndpoints(Bare(doc)) = FlattenSeq(tt)
  <2>1. Bare(doc).items = doc.items
    BY BareOK
  <2>. DEFINE d == Bare(doc)
  <2>. HIDE DEF d
  <2>2. ExtractEndpoints(d) = FlattenSeq([i \in DOMAIN d.items |-> ItemEndpoints(d, d.items[i])])
    BY DEF ExtractEndpoints, ItemEndpoints
  <2>. QED BY <2>1, <2>2 DEF d
<1>4. \A i \in 1..N : /\ IsList(ss[i]) /\ IsList(tt[i]) /\ Len(tt[i]) = Len(ss[i])
                      /\ \A j \in 1..Len(tt[i]) : tt[i][j].body = ss[i][j].body
  BY <1>1, ItemsAlike
<1>5. ss = [i \in 1..N |-> ss[i]] /\ tt = [i \in 1..N |-> tt[i]]
  BY <1>1
<1>. HIDE DEF ss, tt, N
<1>6. IsList(ss) /\ Len(ss) = N /\ DOMAIN ss = 1..N /\ IsList(tt) /\ Len(tt) = N /\ DOMAIN tt = 1..N
  BY <1>1, <1>5, ListIs
<1>7. ss \in Seq(Seq(Elements(ss))) /\ tt \in Seq(Seq(Elements(tt))) /\ IsList(FlattenSeq(tt))
  BY <1>4, <1>6, FlattenLists
<1>8. DOMAIN FlattenSeq(tt) = 1..Len(FlattenSeq(tt))
  BY <1>7, ListFacts
<1>9. \A k \in 1..Len(FlattenSeq(tt)) : \E i \in 1..N : \E j \in 1..Len(tt[i]) :
        FlattenSeq(tt)[k] = tt[i][j] /\ FlattenSeq(ss)[k] = ss[i][j]
  <2>. DEFINE X == Elements(ss)
              Y == Elements(tt)
  <2>1. tt \in Seq(Seq(Y)) /\ ss \in Seq(Seq(X))
    BY <1>7
  <2>2. Len(tt) = Len(ss) /\ \A i \in 1..Len(tt) : Len(tt[i]) = Len(ss[i])
    BY <1>4, <1>6
  <2>. HIDE DEF X, Y
  <2>3. SamePlaces(tt, ss)
    <3>1. SameLens(tt, ss)
      BY <2>2 DEF SameLens
    <3>. QED BY <2>1, <3>1, FlattenAlike
  <2>4. \A k \in 1..Len(FlattenSeq(tt)) : \E i \in 1..Len(tt) : \E j \in 1..Len(tt[i]) :
          FlattenSeq(tt)[k] = tt[i][j] /\ FlattenSeq(ss)[k] = ss[i][j]
    BY <2>3 DEF SamePlaces
  <2>. QED BY <1>6, <2>4
<1>. SUFFICES ASSUME NEW k \in 1..Len(FlattenSeq(tt))
              PROVE  FlattenSeq(tt)[k].body = FlattenSeq(ss)[k].body
  BY <1>2, <1>3, <1>8
<1>10. PICK i \in 1..N : \E j \in 1..Len(tt[i]) :
         FlattenSeq(tt)[k] = tt[i][j] /\ FlattenSeq(ss)[k] = ss[i][j]
  BY <1>9
<1>11. PICK j \in 1..Len(tt[i]) : FlattenSeq(tt)[k] = tt[i][j] /\ FlattenSeq(ss)[k] = ss[i][j]
  BY <1>10
<1>12. tt[i][j].body = ss[i][j].body
  BY <1>4
<1>. QED BY <1>11, <1>12

\* The specs in the store survive an export to Postman and back, and the
\* parser finds the fields of their bodies one reference away when the
\* resolver does not.
THEOREM PipelineSpecs == PipelineSpec => []SpecsSurvive
<1>1. ASSUME PipelineInv PROVE SpecsSurvive
  <2>1. ASSUME NEW i \in DOMAIN schemas
        PROVE  LET spec == schemas[i].doc
                   doc  == spec.document
                   flat == /\ \A c \in DOMAIN doc.components : doc.components[c].schema.ref = "none"
                           /\ \A n \in DOMAIN doc.items : \A j \in DOMAIN doc.items[n].ops :
                                ~doc.items[n].ops[j].body.isRef
                   bare == ExtractEndpoints([doc EXCEPT !.resolvable = FALSE])
               IN  /\ PostmanKeeps(spec)
                   /\ flat => \A n \in DOMAIN bare : bare[n].body = spec.endpoints[n].body
    <3>. DEFINE spec == schemas[i].doc
    <3>1. schemas[i] \in Stored(Specs)
      BY <1>1, ListOf DEF PipelineInv, CollectionsOK
    <3>2. PICK f \in Files : Readable(f.document, SuffixFor(f)) /\ spec = Parse(f.document, SuffixFor(f))
      BY <3>1 DEF Stored, Specs
    <3>. HIDE DEF spec
    <3>. DEFINE doc == f.document
    <3>3. spec.endpoints = ExtractEndpoints(doc) /\ spec.document = doc
      BY <3>2 DEF Parse
    <3>4. IsDocument(doc)
      BY PipelineConstants
    <3>. HIDE DEF doc
    <3>5. IsList(spec.endpoints) /\ \A k \in DOMAIN spec.endpoints : IsWhole(spec.endpoints[k])
      BY <3>3, <3>4, ExtractEndpointsOK
    <3>6. PostmanKeeps(spec)
      BY <3>5, PostmanKeepsOK
    <3>7. ASSUME Flat(doc), PlainBodies(doc)
          PROVE  \A n \in DOMAIN ExtractEndpoints(Bare(doc)) :
                   ExtractEndpoints(Bare(doc))[n].body = spec.endpoints[n].body
      BY <3>3, <3>4, <3>7, BodiesAlike
    <3>. QED BY <3>3, <3>6, <3>7 DEF Flat, PlainBodies, Bare, spec
  <2>. QED BY <2>1 DEF SpecsSurvive
<1>. QED BY <1>1, PipelineInvariant, PTL
===========================================================================
