-------------------------- MODULE OperationsProofs --------------------------
(***************************************************************************)
(* Theorems about Operations, for every set of plugins, calls, pipelines,  *)
(* clients, watchers and requests, and every limit. Each part has its own  *)
(* inductive invariant; the parts share no state.                          *)
(***************************************************************************)
EXTENDS Operations, CommonLemmas

--------------------------------------------------------------------------
(* Pipelines.                                                            *)

CiCdInv ==
  /\ pipelines \in [Pipelines -> PipelineRecords \cup {NoPipeline, Deleted}]
  /\ runs \in [Pipelines -> Seq(RunStatuses)]
  /\ overtaken \subseteq Pipelines
  /\ RunsSettle

LEMMA CiCdInitInv == CiCdInit => CiCdInv
BY DEF CiCdInit, CiCdInv, RunsSettle, Lives

\* What is settled of a pipeline that no request is about stays so.
LEMMA OthersSettled ==
  ASSUME CiCdInv, NEW p \in Pipelines,
         pipelines'[p] = pipelines[p], runs'[p] = runs[p], p \in overtaken' <=> p \in overtaken
  PROVE  IF ~Lives(p)' THEN runs'[p] = <<>>
         ELSE /\ pipelines'[p].last = "none" <=> runs'[p] = <<>>
              /\ runs'[p] # <<>> /\ p \notin overtaken' => pipelines'[p].last = runs'[p][Len(runs'[p])]
              /\ pipelines'[p].last = "running" => runs'[p][Len(runs'[p])] = "running"
              /\ pipelines'[p].last \in {"completed", "failed"} =>
                   \E r \in DOMAIN runs'[p] : runs'[p][r] = pipelines'[p].last
BY DEF CiCdInv, RunsSettle, Lives

LEMMA CiCdStepInv == CiCdInv /\ (CiCdNext \/ UNCHANGED cicdVars) => CiCdInv'
<1>. DEFINE Settled(p) ==
       IF ~Lives(p) THEN runs[p] = <<>>
       ELSE /\ pipelines[p].last = "none" <=> runs[p] = <<>>
            /\ runs[p] # <<>> /\ p \notin overtaken => pipelines[p].last = runs[p][Len(runs[p])]
            /\ pipelines[p].last = "running" => runs[p][Len(runs[p])] = "running"
            /\ pipelines[p].last \in {"completed", "failed"} =>
                 \E r \in DOMAIN runs[p] : runs[p][r] = pipelines[p].last
<1>. SUFFICES ASSUME CiCdInv, CiCdNext \/ UNCHANGED cicdVars PROVE CiCdInv'
  OBVIOUS
<1>a. /\ pipelines \in [Pipelines -> PipelineRecords \cup {NoPipeline, Deleted}]
      /\ runs \in [Pipelines -> Seq(RunStatuses)]
      /\ overtaken \subseteq Pipelines
      /\ \A p \in Pipelines : Settled(p)
  BY DEF CiCdInv, RunsSettle
<1>b. ASSUME NEW p \in Pipelines, NEW record \in PipelineRecords \cup {Deleted}, NEW list \in Seq(RunStatuses),
             pipelines' = [pipelines EXCEPT ![p] = record], runs' = [runs EXCEPT ![p] = list],
             overtaken' \in {overtaken, overtaken \cup {p}, overtaken \ {p}}, Settled(p)'
      PROVE  CiCdInv'
  <2>1. ASSUME NEW q \in Pipelines PROVE Settled(q)'
    <3>1. CASE q = p
      BY <1>b, <3>1
    <3>2. CASE q # p
      <4>1. pipelines'[q] = pipelines[q] /\ runs'[q] = runs[q] /\ (q \in overtaken' <=> q \in overtaken)
        BY <1>a, <1>b, <3>2
      <4>. QED  BY <4>1, OthersSettled
    <3>. QED  BY <3>1, <3>2
  <2>2. /\ pipelines' \in [Pipelines -> PipelineRecords \cup {NoPipeline, Deleted}]
        /\ runs' \in [Pipelines -> Seq(RunStatuses)]
        /\ overtaken' \subseteq Pipelines
    BY <1>a, <1>b
  <2>. QED  BY <2>1, <2>2 DEF CiCdInv, RunsSettle
<1>1. ASSUME NEW p \in Pipelines, NEW provider \in Providers, CreatePipeline(p, provider)
      PROVE  CiCdInv'
  <2>. DEFINE record == [provider |-> provider, last |-> "none"]
  <2>1. record \in PipelineRecords
    BY DEF PipelineRecords
  <2>2. ~Lives(p) /\ runs[p] = <<>>
    BY <1>1, <1>a DEF CreatePipeline, Lives
  <2>3. pipelines' = [pipelines EXCEPT ![p] = record] /\ runs' = [runs EXCEPT ![p] = <<>>]
    BY <1>1, <1>a, <2>2 DEF CreatePipeline
  <2>4. pipelines'[p] = record /\ runs'[p] = <<>>
    BY <1>a, <2>3
  <2>5. Lives(p)'
    BY <2>1, <2>4, CiCdConstants DEF Lives
  <2>6. Settled(p)'
    BY <2>4, <2>5
  <2>7. <<>> \in Seq(RunStatuses)
    OBVIOUS
  <2>8. overtaken' = overtaken
    BY <1>1 DEF CreatePipeline
  <2>. QED  BY <1>b, <2>1, <2>3, <2>6, <2>7, <2>8
<1>2. ASSUME NEW p \in Pipelines, DeletePipeline(p)
      PROVE  CiCdInv'
  <2>1. pipelines'[p] = Deleted /\ runs'[p] = <<>> /\ <<>> \in Seq(RunStatuses)
    BY <1>2, <1>a DEF DeletePipeline
  <2>2. Settled(p)'
    BY <2>1 DEF Lives
  <2>. QED  BY <1>2, <1>b, <2>1, <2>2 DEF DeletePipeline
<1>3. ASSUME NEW p \in Pipelines, TriggerRun(p)
      PROVE  CiCdInv'
  <2>. DEFINE record == [pipelines[p] EXCEPT !.last = "running"]
              list == Append(runs[p], "running")
  <2>1. pipelines[p] \in PipelineRecords
    BY <1>3, <1>a DEF TriggerRun, Lives
  <2>2. record \in PipelineRecords /\ record.last = "running"
    BY <2>1 DEF PipelineRecords, RunStatuses
  <2>3. /\ list \in Seq(RunStatuses) /\ list # <<>> /\ list[Len(list)] = "running"
    <3>1. runs[p] \in Seq(RunStatuses) /\ "running" \in RunStatuses
      BY <1>a DEF RunStatuses
    <3>2. /\ list \in Seq(RunStatuses) /\ Len(list) = Len(runs[p]) + 1 /\ Len(runs[p]) \in Nat
          /\ list[Len(runs[p]) + 1] = "running"
      BY <3>1
    <3>3. list # <<>>
      BY <3>2
    <3>. QED  BY <3>2, <3>3
  <2>4. pipelines' = [pipelines EXCEPT ![p] = record] /\ runs' = [runs EXCEPT ![p] = list]
    BY <1>3, <1>a DEF TriggerRun
  <2>5. pipelines'[p] = record /\ runs'[p] = list
    BY <1>a, <2>4
  <2>. HIDE DEF record, list
  <2>6. Settled(p)'
    BY <2>2, <2>3, <2>5, CiCdConstants DEF Lives
  <2>7. overtaken' = overtaken \ {p}
    BY <1>3 DEF TriggerRun
  <2>. QED  BY <1>b, <2>2, <2>3, <2>4, <2>6, <2>7
<1>4. ASSUME NEW p \in Pipelines, NEW r \in DOMAIN runs[p], NEW success \in BOOLEAN, CompleteRun(p, r, success)
      PROVE  CiCdInv'
  <2>. DEFINE status == IF success THEN "completed" ELSE "failed"
              record == [pipelines[p] EXCEPT !.last = status]
              list == [runs[p] EXCEPT ![r] = status]
  <2>0. runs[p] \in Seq(RunStatuses) /\ runs[p] # <<>>
    BY <1>4, <1>a
  <2>1. Lives(p) /\ pipelines[p] \in PipelineRecords
    BY <2>0, <1>a DEF Lives
  <2>2. record \in PipelineRecords /\ record.last = status /\ status \in {"completed", "failed"}
    BY <2>1 DEF PipelineRecords, RunStatuses
  <2>3. list \in Seq(RunStatuses) /\ list # <<>> /\ r \in DOMAIN list /\ list[r] = status
    <3>1. list \in Seq(RunStatuses) /\ DOMAIN list = DOMAIN runs[p]
      BY <2>0 DEF RunStatuses
    <3>. QED  BY <1>4, <2>0, <3>1
  <2>4. runs' = [runs EXCEPT ![p] = list] /\ runs'[p][r] = status
    BY <1>4, <1>a, <2>3 DEF CompleteRun
  <2>5. pipelines' = [pipelines EXCEPT ![p] = record]
    BY <1>4, <1>a, <2>1, <2>4 DEF CompleteRun
  <2>6. pipelines'[p] = record /\ runs'[p] = list
    BY <1>a, <2>4, <2>5
  <2>7. /\ overtaken' \in {overtaken, overtaken \cup {p}, overtaken \ {p}}
        /\ p \notin overtaken' => list[Len(list)] = status
    <3>1. r \in 1..Len(runs[p]) /\ Len(list) = Len(runs[p])
      BY <1>4, <2>0 DEF RunStatuses
    <3>2. overtaken' = IF r < Len(runs[p]) THEN overtaken \cup {p} ELSE overtaken \ {p}
      BY <1>4 DEF CompleteRun, Overtakes
    <3>3. p \notin overtaken' => r = Len(list)
      BY <3>1, <3>2
    <3>. QED  BY <2>3, <3>2, <3>3
  <2>. HIDE DEF record, list, status
  <2>8. Settled(p)'
    BY <2>2, <2>3, <2>6, <2>7, CiCdConstants DEF Lives
  <2>. QED  BY <1>b, <2>2, <2>3, <2>4, <2>5, <2>7, <2>8
<1>5. CASE UNCHANGED cicdVars
  BY <1>5 DEF cicdVars, CiCdInv, RunsSettle, Lives
<1>. QED  BY <1>1, <1>2, <1>3, <1>4, <1>5 DEF CiCdNext
--------------------------------------------------------------------------
(* The frontend's client.                                                *)

RequestRecords ==
  [id : RequestIds \cup {NoId}, at : {"new", "fetch", "answered", "sleep", "cancelled", "done", "failed"},
   attempt : 0..MaxRetries, answer : Responses, aborted : BOOLEAN]

\* The calls that have begun with an id.
Same(id) == {c \in ClientCalls : request[c].at # "new" /\ request[c].id = id}

\* The controller of an id is that of its newest call, which is live; and a
\* live call has the controller of its id unless that went astray.
Controlled(id) ==
  /\ controllers[id] # NoController =>
       /\ controllers[id] \in Same(id) /\ Live(controllers[id])
       /\ \A c \in Same(id) : c = controllers[id] \/ c \in began[controllers[id]]
  /\ id \notin stray => \A c \in Same(id) : Live(c) => controllers[id] = c

ClientInv ==
  /\ request \in [ClientCalls -> RequestRecords]
  /\ controllers \in [RequestIds -> ClientCalls \cup {NoController}]
  /\ began \in [ClientCalls -> SUBSET ClientCalls]
  /\ stray \subseteq RequestIds
  /\ \A id \in RequestIds : Controlled(id)

LEMMA ClientInitInv == ClientInit => ClientInv
<1>. SUFFICES ASSUME ClientInit PROVE ClientInv
  OBVIOUS
<1>1. /\ request \in [ClientCalls -> RequestRecords]
      /\ \A c \in ClientCalls : request[c].at = "new"
  <2>1. ASSUME NEW c \in ClientCalls
        PROVE  request[c] \in RequestRecords /\ request[c].at = "new"
    <3>1. request[c] = [Sent(c, NoId) EXCEPT !.at = "new"]
      BY DEF ClientInit
    <3>2. Sent(c, NoId) \in RequestRecords
      BY ClientConstants DEF Sent, RequestRecords, Responses
    <3>. QED  BY <3>1, <3>2 DEF RequestRecords
  <2>2. request = [c \in ClientCalls |-> request[c]]
    BY DEF ClientInit
  <2>. QED  BY <2>1, <2>2
<1>. QED  BY <1>1 DEF ClientInit, ClientInv, Controlled, Same

\* A call that goes on, and stays with its id, changes nothing of this.
LEMMA GoesOn ==
  ASSUME ClientInv, NEW c \in ClientCalls, NEW r \in RequestRecords, Waiting(c),
         request' = [request EXCEPT ![c] = r],
         r.id = request[c].id, r.aborted = request[c].aborted,
         r.at \in {"fetch", "answered", "sleep"} \/ (r.at = "cancelled" /\ request[c].aborted),
         UNCHANGED <<controllers, began, stray>>
  PROVE  ClientInv'
<1>1. /\ request' \in [ClientCalls -> RequestRecords] /\ request'[c] = r
      /\ \A d \in ClientCalls \ {c} : request'[d] = request[d]
  BY DEF ClientInv
<1>2. \A d \in ClientCalls : Live(d)' <=> Live(d)
  BY <1>1 DEF Live, Waiting
<1>3. \A id \in RequestIds : Same(id)' = Same(id)
  BY <1>1 DEF Same, Waiting
<1>4. ASSUME NEW id \in RequestIds PROVE Controlled(id)'
  <2>1. Same(id)' = Same(id) /\ Same(id) \subseteq ClientCalls
    BY <1>3 DEF Same
  <2>2. Controlled(id)
    BY DEF ClientInv
  <2>. QED  BY <1>2, <2>1, <2>2 DEF Controlled
<1>. QED  BY <1>1, <1>4 DEF ClientInv

\* A call that ends takes the controller of its id with it; if that was
\* another's, the id has gone astray.
LEMMA EndsInv ==
  ASSUME ClientInv, NEW c \in ClientCalls, Waiting(c), NEW outcome \in {"done", "failed"},
         Ends(c, outcome), UNCHANGED began
  PROVE  ClientInv'
<1>. DEFINE r == [[request[c] EXCEPT !.at = outcome] EXCEPT !.answer = "ok"]
<1>0. request[c] \in RequestRecords /\ request \in [ClientCalls -> RequestRecords]
  BY DEF ClientInv
<1>1. r \in RequestRecords /\ r.at = outcome /\ r.id = request[c].id
  BY <1>0 DEF RequestRecords, Responses
<1>2. /\ request' \in [ClientCalls -> RequestRecords] /\ request'[c] = r
      /\ \A d \in ClientCalls \ {c} : request'[d] = request[d]
  BY <1>0, <1>1 DEF Ends
<1>. HIDE DEF r
<1>3. ~Live(c)' /\ \A d \in ClientCalls \ {c} : Live(d)' <=> Live(d)
  BY <1>1, <1>2 DEF Live, Waiting
<1>4. \A id \in RequestIds : Same(id)' = Same(id)
  BY <1>1, <1>2 DEF Same, Waiting
<1>5. CASE request[c].id = NoId
  <2>1. controllers' = controllers /\ stray' = stray
    BY <1>5 DEF Ends, Removed, Strayed
  <2>2. \A id \in RequestIds : c \notin Same(id)
    BY <1>5, ClientConstants DEF Same
  <2>3. ASSUME NEW id \in RequestIds PROVE Controlled(id)'
    <3>1. Controlled(id)
      BY DEF ClientInv
    <3>2. Same(id)' = Same(id) /\ Same(id) \subseteq ClientCalls \ {c}
      BY <1>4, <2>2 DEF Same
    <3>. QED  BY <1>3, <2>1, <3>1, <3>2 DEF Controlled
  <2>. QED  BY <1>2, <2>1, <2>3 DEF ClientInv
<1>6. CASE request[c].id \in RequestIds
  <2>. DEFINE own == request[c].id
  <2>0. own # NoId
    BY <1>6, ClientConstants
  <2>1. /\ controllers' = [controllers EXCEPT ![own] = NoController]
        /\ stray' = IF controllers[own] \in {c, NoController} THEN stray ELSE stray \cup {own}
    BY <2>0 DEF Ends, Removed, Strayed
  <2>2. /\ controllers' \in [RequestIds -> ClientCalls \cup {NoController}]
        /\ controllers'[own] = NoController
        /\ \A id \in RequestIds \ {own} : controllers'[id] = controllers[id]
        /\ stray' \subseteq RequestIds
        /\ \A id \in RequestIds : id \notin stray' => id \notin stray
    BY <1>6, <2>1 DEF ClientInv
  <2>3. ASSUME NEW id \in RequestIds PROVE Controlled(id)'
    <3>1. Controlled(id) /\ Same(id)' = Same(id) /\ Same(id) \subseteq ClientCalls
      BY <1>4 DEF ClientInv, Same
    <3>2. CASE id = own
      <4>1. ASSUME own \notin stray', NEW d \in Same(own), Live(d)' PROVE FALSE
        <5>1. d # c /\ Live(d)
          BY <1>3, <3>1, <3>2, <4>1
        <5>2. controllers[own] = d
          BY <2>2, <3>1, <3>2, <4>1, <5>1 DEF Controlled
        <5>. QED  BY <2>1, <3>1, <3>2, <4>1, <5>1, <5>2, ClientConstants
      <4>. QED  BY <2>2, <3>1, <3>2, <4>1 DEF Controlled
    <3>3. CASE id # own
      <4>1. c \notin Same(id)
        BY <3>3 DEF Same
      <4>. QED  BY <1>3, <2>2, <3>1, <3>3, <4>1 DEF Controlled
    <3>. QED  BY <3>2, <3>3
  <2>. QED  BY <1>2, <2>2, <2>3 DEF ClientInv
<1>. QED  BY <1>0, <1>5, <1>6 DEF RequestRecords
\* A call that begins takes over its id.
LEMMA BeginInv ==
  ASSUME ClientInv, NEW c \in ClientCalls, NEW id \in RequestIds \cup {NoId}, Begin(c, id)
  PROVE  ClientInv'
<1>0. /\ request \in [ClientCalls -> RequestRecords]
      /\ request[c].at = "new"
      /\ request' = [d \in ClientCalls |->
           IF d = c THEN Sent(c, id)
           ELSE [request[d] EXCEPT !.aborted = @ \/ (id # NoId /\ controllers[id] = d)]]
      /\ controllers' = IF id = NoId THEN controllers ELSE [controllers EXCEPT ![id] = c]
      /\ began' = [began EXCEPT ![c] = {d \in ClientCalls : request[d].at # "new"}]
      /\ stray' = stray
  BY DEF ClientInv, Begin
<1>1. /\ Sent(c, id) \in RequestRecords /\ Sent(c, id).id = id /\ Sent(c, id).at = "fetch"
      /\ Sent(c, id).aborted = FALSE
  BY ClientConstants DEF Sent, RequestRecords, Responses
<1>2. /\ request'[c] = Sent(c, id)
      /\ \A d \in ClientCalls \ {c} :
           /\ request'[d] \in RequestRecords
           /\ request'[d].id = request[d].id /\ request'[d].at = request[d].at
           /\ request'[d].aborted <=> request[d].aborted \/ (id # NoId /\ controllers[id] = d)
  <2>1. ASSUME NEW d \in ClientCalls \ {c}
        PROVE  /\ request'[d] \in RequestRecords
               /\ request'[d].id = request[d].id /\ request'[d].at = request[d].at
               /\ request'[d].aborted <=> request[d].aborted \/ (id # NoId /\ controllers[id] = d)
    <3>. DEFINE b == request[d].aborted \/ (id # NoId /\ controllers[id] = d)
    <3>1. request'[d] = [request[d] EXCEPT !.aborted = b] /\ request[d] \in RequestRecords
      BY <1>0
    <3>2. b \in BOOLEAN
      OBVIOUS
    <3>. HIDE DEF b
    <3>3. /\ request'[d] \in RequestRecords /\ request'[d].aborted = b
          /\ request'[d].id = request[d].id /\ request'[d].at = request[d].at
      BY <3>1, <3>2 DEF RequestRecords
    <3>. QED  BY <3>3 DEF b
  <2>. QED  BY <1>0, <2>1
<1>3. request' \in [ClientCalls -> RequestRecords]
  BY <1>0, <1>1, <1>2
<1>4. /\ controllers' \in [RequestIds -> ClientCalls \cup {NoController}]
      /\ \A j \in RequestIds : controllers'[j] = IF j = id THEN c ELSE controllers[j]
      /\ began' \in [ClientCalls -> SUBSET ClientCalls]
      /\ began'[c] = {d \in ClientCalls : request[d].at # "new"}
      /\ \A d \in ClientCalls \ {c} : began'[d] = began[d]
      /\ stray' \subseteq RequestIds
  BY <1>0, ClientConstants DEF ClientInv
<1>5. ASSUME NEW j \in RequestIds PROVE Controlled(j)'
  <2>1. Controlled(j) /\ \A d \in Same(j) : d \in ClientCalls \ {c}
    BY <1>0 DEF ClientInv, Same
  <2>2. CASE j = id
    <3>1. id # NoId
      BY <2>2, ClientConstants
    <3>2. Same(j)' = Same(j) \cup {c}
      BY <1>1, <1>2, <2>1, <2>2 DEF Same
    <3>3. Live(c)'
      BY <1>1, <1>2 DEF Live, Waiting
    <3>4. \A d \in Same(j) : d \in began'[c]
      BY <1>4 DEF Same
    <3>5. ASSUME j \notin stray, NEW d \in Same(j), Live(d)' PROVE FALSE
      <4>1. Live(d)
        BY <1>2, <2>1, <3>5 DEF Live, Waiting
      <4>2. controllers[j] = d
        BY <2>1, <3>5, <4>1 DEF Controlled
      <4>3. request'[d].aborted
        BY <1>2, <2>1, <2>2, <3>1, <3>5, <4>2
      <4>. QED  BY <3>5, <4>3 DEF Live
    <3>6. c \in Same(j)'
      BY <3>2
    <3>7. controllers'[j] = c
      BY <1>4, <2>2
    <3>. QED  BY <1>0, <3>2, <3>3, <3>4, <3>5, <3>6, <3>7 DEF Controlled
  <2>3. CASE j # id
    <3>1. Same(j)' = Same(j)
      BY <1>0, <1>1, <1>2, <2>1, <2>3 DEF Same
    <3>2. \A d \in Same(j) : Live(d)' <=> Live(d)
      <4>1. ASSUME NEW d \in Same(j), id # NoId PROVE controllers[id] # d
        <5>1. Controlled(id) /\ id \in RequestIds /\ d # NoController
          BY <4>1, <2>1, ClientConstants DEF ClientInv
        <5>. QED  BY <2>3, <4>1, <5>1 DEF Controlled, Same
      <4>. QED  BY <1>2, <2>1, <4>1 DEF Live, Waiting
    <3>3. controllers'[j] = controllers[j]
      BY <1>4, <2>3
    <3>4. \A d \in Same(j) : began'[d] = began[d]
      BY <1>4, <2>1
    <3>. QED  BY <1>0, <2>1, <3>1, <3>2, <3>3, <3>4 DEF Controlled
  <2>. QED  BY <2>2, <2>3
<1>. QED  BY <1>3, <1>4, <1>5 DEF ClientInv

\* Cancelling reaches the call that has the controller.
LEMMA CancelRequestInv ==
  ASSUME ClientInv, NEW id \in RequestIds, CancelRequest(id)
  PROVE  ClientInv'
<1>p. PICK c \in ClientCalls : c = controllers[id]
  BY DEF ClientInv, CancelRequest
<1>0. /\ c \in ClientCalls /\ request[c] \in RequestRecords /\ request[c].id = id
      /\ request' = [request EXCEPT ![c].aborted = TRUE]
      /\ controllers' = [controllers EXCEPT ![id] = NoController]
      /\ UNCHANGED <<began, stray>>
      /\ request \in [ClientCalls -> RequestRecords]
  BY <1>p DEF ClientInv, CancelRequest, Controlled, Same
<1>1. /\ request'[c] = [request[c] EXCEPT !.aborted = TRUE]
      /\ \A d \in ClientCalls \ {c} : request'[d] = request[d]
  BY <1>0
<1>2. /\ request'[c] \in RequestRecords /\ request'[c].aborted /\ request'[c].id = request[c].id
      /\ request'[c].at = request[c].at
  BY <1>0, <1>1 DEF RequestRecords
<1>3. request' \in [ClientCalls -> RequestRecords]
  BY <1>0, <1>1, <1>2
<1>4. /\ controllers' \in [RequestIds -> ClientCalls \cup {NoController}]
      /\ controllers'[id] = NoController
      /\ \A j \in RequestIds \ {id} : controllers'[j] = controllers[j]
  BY <1>0 DEF ClientInv
<1>5. /\ ~Live(c)'
      /\ \A d \in ClientCalls \ {c} : Live(d)' <=> Live(d)
      /\ \A j \in RequestIds : Same(j)' = Same(j)
  BY <1>0, <1>1, <1>2 DEF Live, Waiting, Same
<1>6. ASSUME NEW j \in RequestIds PROVE Controlled(j)'
  <2>1. Controlled(j) /\ Same(j)' = Same(j) /\ Same(j) \subseteq ClientCalls
    BY <1>5 DEF ClientInv, Same
  <2>2. CASE j = id
    <3>1. ASSUME j \notin stray, NEW d \in Same(j), Live(d)' PROVE FALSE
      <4>1. d # c /\ Live(d)
        BY <1>5, <2>1, <3>1
      <4>. QED  BY <1>p, <2>1, <2>2, <3>1, <4>1 DEF Controlled
    <3>. QED  BY <1>0, <1>4, <2>1, <2>2, <3>1 DEF Controlled
  <2>3. CASE j # id
    <3>1. c \notin Same(j)
      BY <1>0, <2>3 DEF Same
    <3>2. controllers'[j] = controllers[j] /\ \A d \in Same(j) : Live(d)' <=> Live(d)
      BY <1>4, <1>5, <2>1, <2>3, <3>1
    <3>3. controllers[j] # NoController => controllers[j] \in Same(j)
      BY <2>1 DEF Controlled
    <3>. QED  BY <1>0, <2>1, <3>2, <3>3 DEF Controlled
  <2>. QED  BY <2>2, <2>3
<1>. QED  BY <1>0, <1>3, <1>4, <1>6 DEF ClientInv

LEMMA ClientStepInv == ClientInv /\ (ClientNext \/ UNCHANGED clientVars) => ClientInv'
<1>. SUFFICES ASSUME ClientInv, ClientNext \/ UNCHANGED clientVars PROVE ClientInv'
  OBVIOUS
<1>a. /\ request \in [ClientCalls -> RequestRecords]
      /\ \A c \in ClientCalls : request[c] \in RequestRecords
      /\ MaxRetries \in Nat
  BY ClientConstants DEF ClientInv
<1>1. ASSUME NEW c \in ClientCalls, NEW response \in Responses, Answer(c, response)
      PROVE  ClientInv'
  <2>. DEFINE r == [[request[c] EXCEPT !.at = "answered"] EXCEPT !.answer = response]
  <2>1. /\ r \in RequestRecords /\ r.id = request[c].id /\ r.aborted = request[c].aborted
        /\ r.at = "answered"
    BY <1>a DEF RequestRecords
  <2>2. request' = [request EXCEPT ![c] = r] /\ Waiting(c) /\ UNCHANGED <<controllers, began, stray>>
    BY <1>1, <1>a DEF Answer, Waiting
  <2>. HIDE DEF r
  <2>. QED  BY <2>1, <2>2, GoesOn
<1>2. ASSUME NEW c \in ClientCalls, Rejected(c)
      PROVE  ClientInv'
  <2>. DEFINE r == [request[c] EXCEPT !.at = "cancelled"]
  <2>1. /\ r \in RequestRecords /\ r.id = request[c].id /\ r.aborted = request[c].aborted
        /\ r.at = "cancelled" /\ request[c].aborted
    BY <1>2, <1>a DEF RequestRecords, Rejected
  <2>2. request' = [request EXCEPT ![c] = r] /\ Waiting(c) /\ UNCHANGED <<controllers, began, stray>>
    BY <1>2, <1>a DEF Rejected, Waiting
  <2>. HIDE DEF r
  <2>. QED  BY <2>1, <2>2, GoesOn
<1>3. ASSUME NEW c \in ClientCalls, BackOff(c)
      PROVE  ClientInv'
  <2>. DEFINE r == [request[c] EXCEPT !.at = "sleep"]
  <2>1. /\ r \in RequestRecords /\ r.id = request[c].id /\ r.aborted = request[c].aborted
        /\ r.at = "sleep"
    BY <1>a DEF RequestRecords
  <2>2. request' = [request EXCEPT ![c] = r] /\ Waiting(c) /\ UNCHANGED <<controllers, began, stray>>
    BY <1>3, <1>a DEF BackOff, Waiting
  <2>. HIDE DEF r
  <2>. QED  BY <2>1, <2>2, GoesOn
<1>4. ASSUME NEW c \in ClientCalls, SendAgain(c)
      PROVE  ClientInv'
  <2>. DEFINE r == [[request[c] EXCEPT !.at = "fetch"] EXCEPT !.attempt = request[c].attempt + 1]
  <2>0. request[c].attempt + 1 \in 0..MaxRetries
    <3>1. request[c].attempt \in 0..MaxRetries /\ request[c].attempt < MaxRetries
      BY <1>4, <1>a DEF SendAgain, RequestRecords
    <3>. QED  BY <1>a, <3>1
  <2>1. /\ r \in RequestRecords /\ r.id = request[c].id /\ r.aborted = request[c].aborted
        /\ r.at = "fetch"
    BY <1>a, <2>0 DEF RequestRecords
  <2>2. request' = [request EXCEPT ![c] = r] /\ Waiting(c) /\ UNCHANGED <<controllers, began, stray>>
    BY <1>4, <1>a DEF SendAgain, Waiting
  <2>. HIDE DEF r
  <2>. QED  BY <2>1, <2>2, GoesOn
<1>5. ASSUME NEW c \in ClientCalls, Succeed(c) \/ GiveUp(c)
      PROVE  ClientInv'
  BY <1>5, EndsInv DEF Succeed, GiveUp, Waiting
<1>6. CASE UNCHANGED clientVars
  <2>1. \A id \in RequestIds : Controlled(id)' <=> Controlled(id)
    BY <1>6 DEF clientVars, Controlled, Same, Live, Waiting
  <2>. QED  BY <1>6, <2>1 DEF clientVars, ClientInv
<1>. QED  BY <1>1, <1>2, <1>3, <1>4, <1>5, <1>6, BeginInv, CancelRequestInv DEF ClientNext

LEMMA ClientInvLatest == ClientInv => LatestWins
BY DEF ClientInv, LatestWins, Controlled, Same
--------------------------------------------------------------------------
(* The configuration.                                                    *)

Values == {Environment[s] : s \in Sections}
          \cup UNION {{content.sets[s] : s \in DOMAIN content.sets} : content \in Contents}
Settings == [Sections -> Values]

WatcherRecords ==
  [at : {"off", "idle", "hashed", "loading", "reading", "loaded", "telling"},
   seen : Contents \cup {NoFile, Nothing}, new : Settings, old : Settings]

\* The values f are those of a content that was read, where it names them.
Shown(read, f) ==
  read \in Contents /\ read.good => \A s \in DOMAIN read.sets : f[s] = read.sets[s]

\* Where a single watcher is tells what has been told.
WatcherAgrees ==
  /\ \A v, w \in Watchers : Alive(v) /\ Alive(w) => v = w
  /\ (\A w \in Watchers : watcher[w].at \notin {"loaded", "telling"}) => told = settings /\ Shown(applied, settings)
  /\ \A w \in Watchers : watcher[w].at = "reading" => watcher[w].new = settings
  /\ \A w \in Watchers : watcher[w].at = "loaded" => told = settings /\ Shown(applied, watcher[w].new)
  /\ \A w \in Watchers : watcher[w].at = "telling" =>
       settings = watcher[w].new /\ told = watcher[w].old /\ Shown(applied, settings)

ConfigInv ==
  /\ file \in Contents \cup {NoFile}
  /\ hash \in Contents \cup {NoFile, Nothing}
  /\ settings \in Settings /\ told \in Settings
  /\ watcher \in [Watchers -> WatcherRecords]
  /\ applied \in Contents \cup {NoFile, Nothing}
  /\ doubled \in BOOLEAN
  /\ ~doubled => WatcherAgrees

LEMMA EnvironmentIsSettings == Environment \in Settings
<1>1. \A s \in Sections : Environment[s] \in Values
  BY DEF Values
<1>. QED  BY <1>1, ConfigConstants DEF Settings

\* What a file sets is set, and nothing else becomes of a setting.
LEMMA MergeSets ==
  ASSUME NEW base \in Settings, NEW content \in Contents
  PROVE  /\ Merge(base, content.sets) \in Settings
         /\ \A s \in DOMAIN content.sets : Merge(base, content.sets)[s] = content.sets[s]
<1>1. DOMAIN content.sets \subseteq Sections
  BY ConfigConstants
<1>2. \A s \in DOMAIN content.sets : content.sets[s] \in Values
  BY DEF Values
<1>3. \A s \in Sections : base[s] \in Values
  BY DEF Settings
<1>. QED  BY <1>1, <1>2, <1>3 DEF Merge, Settings

LEMMA WatcherStates ==
  /\ Off \in WatcherRecords /\ Off.at = "off"
  /\ Idle \in WatcherRecords /\ Idle.at = "idle"
  /\ [Off EXCEPT !.at = "loading"] \in WatcherRecords /\ [Off EXCEPT !.at = "loading"].at = "loading"
  /\ \A f \in Settings : /\ [[Off EXCEPT !.at = "reading"] EXCEPT !.new = f] \in WatcherRecords
                         /\ [[Off EXCEPT !.at = "reading"] EXCEPT !.new = f].at = "reading"
                         /\ [[Off EXCEPT !.at = "reading"] EXCEPT !.new = f].new = f
<1>1. Off \in WatcherRecords /\ Off.at = "off"
  BY EnvironmentIsSettings DEF Off, WatcherRecords
<1>. QED  BY <1>1 DEF Idle, WatcherRecords

LEMMA LoadedStates ==
  /\ \A r \in WatcherRecords, f \in Settings :
       /\ [[r EXCEPT !.at = "loaded"] EXCEPT !.new = f] \in WatcherRecords
       /\ [[r EXCEPT !.at = "loaded"] EXCEPT !.new = f].at = "loaded"
       /\ [[r EXCEPT !.at = "loaded"] EXCEPT !.new = f].new = f
  /\ \A r \in WatcherRecords :
       /\ [r EXCEPT !.at = "loaded"] \in WatcherRecords
       /\ [r EXCEPT !.at = "loaded"].at = "loaded"
       /\ [r EXCEPT !.at = "loaded"].new = r.new
BY DEF WatcherRecords

LEMMA ConfigInitInv == ConfigInit => ConfigInv
<1>. SUFFICES ASSUME ConfigInit PROVE ConfigInv
  OBVIOUS
<1>1. watcher \in [Watchers -> WatcherRecords] /\ \A w \in Watchers : watcher[w].at = "off"
  BY WatcherStates DEF ConfigInit
<1>2. applied \notin Contents
  BY ConfigConstants DEF ConfigInit
<1>3. WatcherAgrees
  BY <1>1, <1>2 DEF ConfigInit, WatcherAgrees, Alive, Shown
<1>. QED  BY <1>1, <1>3, EnvironmentIsSettings DEF ConfigInit, ConfigInv

\* A step of one watcher, which the others have no part in.
LEMMA WatcherSteps ==
  ASSUME ConfigInv, NEW w \in Watchers, NEW r \in WatcherRecords, Alive(w),
         watcher' = [watcher EXCEPT ![w] = r],
         hash' \in Contents \cup {NoFile, Nothing}, settings' \in Settings, told' \in Settings,
         applied' \in Contents \cup {NoFile, Nothing}, UNCHANGED <<file, doubled>>,
         ~doubled =>
           /\ r.at \notin {"loaded", "telling"} => told' = settings' /\ Shown(applied', settings')
           /\ r.at = "reading" => r.new = settings'
           /\ r.at = "loaded" => told' = settings' /\ Shown(applied', r.new)
           /\ r.at = "telling" => settings' = r.new /\ told' = r.old /\ Shown(applied', settings')
  PROVE  ConfigInv'
<1>1. /\ watcher' \in [Watchers -> WatcherRecords] /\ watcher'[w] = r
      /\ \A v \in Watchers \ {w} : watcher'[v] = watcher[v]
  BY DEF ConfigInv
<1>2. ASSUME ~doubled PROVE WatcherAgrees'
  <2>1. \A v \in Watchers \ {w} : watcher[v].at = "off" /\ watcher'[v].at = "off"
    BY <1>1, <1>2 DEF ConfigInv, WatcherAgrees, Alive
  <2>. QED  BY <1>1, <1>2, <2>1 DEF WatcherAgrees, Alive, Shown
<1>. QED  BY <1>1, <1>2 DEF ConfigInv

LEMMA ConfigStepInv == ConfigInv /\ (ConfigNext \/ UNCHANGED configVars) => ConfigInv'
<1>. SUFFICES ASSUME ConfigInv, ConfigNext \/ UNCHANGED configVars PROVE ConfigInv'
  OBVIOUS
<1>a. /\ file \in Contents \cup {NoFile}
      /\ hash \in Contents \cup {NoFile, Nothing}
      /\ settings \in Settings /\ told \in Settings
      /\ watcher \in [Watchers -> WatcherRecords]
      /\ applied \in Contents \cup {NoFile, Nothing}
      /\ doubled \in BOOLEAN
      /\ ~doubled => WatcherAgrees
  BY DEF ConfigInv
\* A single watcher that has nothing to swap or tell has told everything.
<1>b. ASSUME NEW w \in Watchers, Alive(w), watcher[w].at \notin {"loaded", "telling"}, ~doubled
      PROVE  told = settings /\ Shown(applied, settings)
  <2>1. \A v \in Watchers : watcher[v].at \notin {"loaded", "telling"}
    BY <1>a, <1>b DEF WatcherAgrees, Alive
  <2>. QED  BY <1>a, <1>b, <2>1 DEF WatcherAgrees
<1>1. ASSUME file' \in Contents \cup {NoFile},
             UNCHANGED <<hash, settings, told, watcher, applied, doubled>>
      PROVE  ConfigInv'
  BY <1>a, <1>1 DEF ConfigInv, WatcherAgrees, Alive, Shown
<1>2. ASSUME NEW w \in Watchers, Start(w)
      PROVE  ConfigInv'
  <2>1. /\ watcher' \in [Watchers -> WatcherRecords]
        /\ watcher'[w] = Idle /\ \A v \in Watchers \ {w} : watcher'[v] = watcher[v]
    BY <1>a, <1>2, WatcherStates DEF Start, Sleep
  <2>2. ASSUME ~doubled' PROVE WatcherAgrees'
    <3>1. ~doubled /\ \A v \in Watchers : ~Alive(v)
      BY <1>2, <2>2 DEF Start
    <3>2. told = settings /\ Shown(applied, settings)
      BY <1>a, <3>1 DEF WatcherAgrees, Alive
    <3>3. \A v \in Watchers : watcher'[v].at \in {"off", "idle"} /\ (watcher'[v].at # "off" => v = w)
      <4>1. watcher'[w].at = "idle"
        BY <2>1, WatcherStates
      <4>2. \A v \in Watchers \ {w} : watcher'[v].at = "off"
        BY <2>1, <3>1 DEF Alive
      <4>. QED  BY <4>1, <4>2
    <3>. QED  BY <1>2, <3>2, <3>3 DEF Start, WatcherAgrees, Alive, Shown
  <2>. QED  BY <1>a, <1>2, <2>1, <2>2 DEF Start, ConfigInv
<1>3. ASSUME NEW w \in Watchers, Exit(w)
      PROVE  ConfigInv'
  <2>1. ~doubled => told = settings /\ Shown(applied, settings)
    BY <1>b, <1>3 DEF Exit, Alive
  <2>. QED  BY <1>a, <1>3, <2>1, WatcherSteps, WatcherStates DEF Exit, Alive, Shown
<1>4. ASSUME NEW w \in Watchers, ComputeHash(w)
      PROVE  ConfigInv'
  <2>. DEFINE r == [[watcher[w] EXCEPT !.at = "hashed"] EXCEPT !.seen = file]
  <2>1. ~doubled => told = settings /\ Shown(applied, settings)
    BY <1>b, <1>4 DEF ComputeHash, Alive
  <2>2. r \in WatcherRecords /\ r.at = "hashed"
    BY <1>a DEF WatcherRecords
  <2>3. watcher' = [watcher EXCEPT ![w] = r]
    BY <1>a, <1>4 DEF ComputeHash
  <2>. HIDE DEF r
  <2>. QED  BY <1>a, <1>4, <2>1, <2>2, <2>3, WatcherSteps DEF ComputeHash, Alive, Shown
<1>5. ASSUME NEW w \in Watchers, CheckAndReload(w)
      PROVE  ConfigInv'
  <2>. DEFINE r == IF watcher[w].seen = hash THEN Idle ELSE [Off EXCEPT !.at = "loading"]
  <2>1. ~doubled => told = settings /\ Shown(applied, settings)
    BY <1>b, <1>5 DEF CheckAndReload, Alive
  <2>2. r \in WatcherRecords /\ r.at \in {"idle", "loading"}
    BY WatcherStates
  <2>3. watcher' = [watcher EXCEPT ![w] = r] /\ hash' \in Contents \cup {NoFile, Nothing}
    BY <1>a, <1>5 DEF CheckAndReload, WatcherRecords
  <2>. HIDE DEF r
  <2>. QED  BY <1>a, <1>5, <2>1, <2>2, <2>3, WatcherSteps DEF CheckAndReload, Alive, Shown
<1>6. ASSUME NEW w \in Watchers, TakeSettings(w)
      PROVE  ConfigInv'
  <2>. DEFINE r == [[Off EXCEPT !.at = "reading"] EXCEPT !.new = settings]
  <2>1. ~doubled => told = settings /\ Shown(applied, settings)
    BY <1>b, <1>6 DEF TakeSettings, Alive
  <2>2. r \in WatcherRecords /\ r.at = "reading" /\ r.new = settings
    BY <1>a, WatcherStates
  <2>3. watcher' = [watcher EXCEPT ![w] = r]
    BY <1>6 DEF TakeSettings
  <2>4. /\ Alive(w) /\ UNCHANGED <<file, hash, settings, told, applied, doubled>>
        /\ hash' \in Contents \cup {NoFile, Nothing} /\ applied' \in Contents \cup {NoFile, Nothing}
        /\ settings' \in Settings /\ told' \in Settings
    BY <1>a, <1>6 DEF TakeSettings, Alive
  <2>5. ~doubled => told' = settings' /\ Shown(applied', settings')
    BY <2>1, <2>4
  <2>. HIDE DEF r
  <2>. QED  BY <2>2, <2>3, <2>4, <2>5, WatcherSteps
<1>7. ASSUME NEW w \in Watchers, LoadConfig(w)
      PROVE  ConfigInv'
  <2>0. /\ watcher[w].at = "reading" /\ Alive(w)
        /\ watcher[w] \in WatcherRecords /\ watcher[w].new \in Settings
        /\ applied' = file /\ UNCHANGED <<file, hash, settings, told, doubled>>
        /\ applied' \in Contents \cup {NoFile, Nothing} /\ hash' \in Contents \cup {NoFile, Nothing}
        /\ settings' \in Settings /\ told' \in Settings
    BY <1>a, <1>7 DEF LoadConfig, Alive, WatcherRecords
  <2>1. ~doubled => told = settings /\ Shown(applied, settings) /\ watcher[w].new = settings
    BY <1>a, <1>b, <2>0 DEF WatcherAgrees
  <2>2. CASE file = NoFile
    <3>. DEFINE r == [watcher[w] EXCEPT !.at = "loaded"]
    <3>1. watcher' = [watcher EXCEPT ![w] = r]
      BY <1>7, <2>2 DEF LoadConfig
    <3>2. r \in WatcherRecords /\ r.at = "loaded" /\ r.new = watcher[w].new
      BY <2>0, LoadedStates
    <3>3. file \notin Contents
      BY <2>2, ConfigConstants
    <3>. HIDE DEF r
    <3>. QED  BY <2>0, <2>1, <3>1, <3>2, <3>3, WatcherSteps DEF Shown
  <2>3. CASE file # NoFile /\ file.good
    <3>. DEFINE f == Merge(watcher[w].new, file.sets)
                r == [[watcher[w] EXCEPT !.at = "loaded"] EXCEPT !.new = f]
    <3>1. watcher' = [watcher EXCEPT ![w] = r]
      BY <1>7, <2>3 DEF LoadConfig
    <3>2. /\ file \in Contents /\ f \in Settings
          /\ \A s \in DOMAIN file.sets : f[s] = file.sets[s]
      BY <1>a, <2>0, <2>3, MergeSets
    <3>3. r \in WatcherRecords /\ r.at = "loaded" /\ r.new = f
      BY <2>0, <3>2, LoadedStates
    <3>. HIDE DEF r, f
    <3>. QED  BY <2>0, <2>1, <3>1, <3>2, <3>3, WatcherSteps DEF Shown
  <2>4. CASE file # NoFile /\ ~file.good
    <3>1. watcher' = [watcher EXCEPT ![w] = Idle]
      BY <1>7, <2>4 DEF LoadConfig
    <3>. QED  BY <2>0, <2>1, <2>4, <3>1, WatcherStates, WatcherSteps DEF Shown
  <2>. QED  BY <2>2, <2>3, <2>4
<1>8. ASSUME NEW w \in Watchers, Swap(w)
      PROVE  ConfigInv'
  <2>. DEFINE r == [[watcher[w] EXCEPT !.at = "telling"] EXCEPT !.old = settings]
  <2>1. watcher[w] \in WatcherRecords /\ Alive(w) /\ watcher[w].at = "loaded"
        /\ watcher[w].new \in Settings
    BY <1>8, <1>a DEF Swap, Alive, WatcherRecords
  <2>2. ~doubled => told = settings /\ Shown(applied, watcher[w].new)
    BY <1>a, <2>1 DEF WatcherAgrees
  <2>3. r \in WatcherRecords /\ r.at = "telling" /\ r.old = settings /\ r.new = watcher[w].new
    BY <1>a, <2>1 DEF WatcherRecords
  <2>4. /\ watcher' = [watcher EXCEPT ![w] = r] /\ settings' = watcher[w].new
        /\ UNCHANGED <<file, hash, told, applied, doubled>>
    BY <1>8, <1>a DEF Swap
  <2>5. Shown(applied, watcher[w].new) => Shown(applied', settings')
    BY <2>4 DEF Shown
  <2>. HIDE DEF r
  <2>. QED  BY <1>a, <2>1, <2>2, <2>3, <2>4, <2>5, WatcherSteps
<1>9. ASSUME NEW w \in Watchers, Notify(w)
      PROVE  ConfigInv'
  <2>1. /\ watcher[w] \in WatcherRecords /\ Alive(w) /\ watcher[w].at = "telling"
        /\ watcher[w].new \in Settings
    BY <1>9, <1>a DEF Notify, Alive, WatcherRecords
  <2>2. ~doubled => settings = watcher[w].new /\ told = watcher[w].old /\ Shown(applied, settings)
    BY <1>a, <2>1 DEF WatcherAgrees
  <2>3. /\ watcher' = [watcher EXCEPT ![w] = Idle]
        /\ told' = [s \in Sections |-> IF watcher[w].old[s] # watcher[w].new[s]
                                       THEN watcher[w].new[s] ELSE told[s]]
        /\ UNCHANGED <<file, hash, settings, applied, doubled>>
    BY <1>9 DEF Notify, Sleep
  <2>4. told' \in Settings /\ (~doubled => told' = settings)
    BY <1>a, <2>1, <2>2, <2>3 DEF Settings
  <2>5. Shown(applied, settings) => Shown(applied', settings')
    BY <2>3 DEF Shown
  <2>. QED  BY <1>a, <2>1, <2>2, <2>3, <2>4, <2>5, WatcherStates, WatcherSteps
<1>10. CASE \E content \in Contents \cup {NoFile} : WriteFile(content)
  BY <1>1, <1>10 DEF WriteFile
<1>11. CASE Stop \/ StopReturns \/ UNCHANGED configVars
  BY <1>a, <1>1, <1>11 DEF Stop, StopReturns, configVars
<1>. QED  BY <1>2, <1>3, <1>4, <1>5, <1>7, <1>8, <1>9, <1>6, <1>10, <1>11 DEF ConfigNext

LEMMA ConfigInvFollows == ConfigInv => ConfigFollows
<1>. SUFFICES ASSUME ConfigInv, ~doubled, \A w \in Watchers : watcher[w].at \in {"off", "idle"}
              PROVE  /\ told = settings
                     /\ file = applied /\ file # NoFile /\ file.good =>
                          \A s \in DOMAIN file.sets : settings[s] = file.sets[s]
  BY DEF ConfigFollows
<1>1. told = settings /\ Shown(applied, settings)
  BY DEF ConfigInv, WatcherAgrees
<1>. QED  BY <1>1 DEF ConfigInv, Shown
--------------------------------------------------------------------------
(* The rate limiter.                                                     *)

BucketRecords == [tokens : 0..Full, idle : 0..(StaleThreshold + 1)]

\* What a client has a right to, with what the number of buckets forgave it.
Allowed(c) == fair[c] + forgiven[c]

\* No client is charged less than it is allowed by more than one request; what
\* has been idle long enough to be stale would be full.
Charged(c) ==
  /\ GetBucket(c).tokens <= Allowed(c) + Parts
  /\ buckets[c] # NoBucket => Allowed(c) >= Least(Full, buckets[c].idle - Parts)

RateInv ==
  /\ buckets \in [Clients -> BucketRecords \cup {NoBucket}]
  /\ sinceCleanup \in 0..CleanupInterval
  /\ fair \in [Clients -> Int]
  /\ forgiven \in [Clients -> Nat]
  /\ \A c \in Clients : Charged(c)

\* A full bucket has tokens of one part or more, and fills before it is stale.
LEMMA RateFacts ==
  /\ Full \in Nat /\ Parts \in Nat \ {0} /\ Parts <= Full
  /\ StaleThreshold \in Nat /\ StaleThreshold >= Full + Parts /\ CleanupInterval \in Nat
<1>1. RequestsPerMinute \in Nat \ {0} /\ Parts \in Nat \ {0}
  BY RateConstants
<1>2. Full \in Nat /\ Parts <= Full
  BY <1>1 DEF Full
<1>. QED  BY <1>1, <1>2, RateConstants

LEMMA BucketType ==
  ASSUME RateInv, NEW c \in Clients
  PROVE  GetBucket(c) \in BucketRecords /\ NoBucket \notin BucketRecords
<1>1. [tokens |-> Full, idle |-> 0] \in BucketRecords
  BY RateFacts DEF BucketRecords
<1>2. NoBucket \notin BucketRecords
  BY RateConstants DEF BucketRecords
<1>. QED  BY <1>1, <1>2 DEF GetBucket, RateInv

LEMMA RateInitInv == RateInit => RateInv
BY RateFacts DEF RateInit, RateInv, Charged, Allowed, GetBucket

LEMMA RateTickInv == RateInv /\ RateTick => RateInv'
<1>. SUFFICES ASSUME RateInv, RateTick PROVE RateInv'
  OBVIOUS
<1>1. ASSUME NEW c \in Clients
      PROVE  /\ buckets'[c] \in BucketRecords \cup {NoBucket}
             /\ fair'[c] \in Int /\ Charged(c)'
  <2>1. /\ Allowed(c) \in Int /\ Allowed(c)' \in Int /\ fair'[c] \in Int
        /\ Allowed(c)' >= Full \/ Allowed(c)' = Allowed(c) + 1
        /\ Charged(c)
    <3>1. fair[c] \in Int /\ forgiven[c] \in Nat /\ forgiven'[c] = forgiven[c] /\ Charged(c)
      BY DEF RateInv, RateTick
    <3>2. fair'[c] = IF Full < fair[c] + 1 THEN Full ELSE fair[c] + 1
      BY DEF RateTick, Least
    <3>. QED  BY <3>1, <3>2, RateFacts DEF Allowed
  <2>2. CASE buckets[c] = NoBucket
    <3>1. buckets'[c] = NoBucket
      BY <2>2 DEF RateTick
    <3>. QED  BY <2>1, <2>2, <3>1, RateFacts DEF Charged, GetBucket
  <2>3. CASE buckets[c] # NoBucket
    <3>. DEFINE tokens == IF Full < buckets[c].tokens + 1 THEN Full ELSE buckets[c].tokens + 1
                idle == IF StaleThreshold + 1 < buckets[c].idle + 1 THEN StaleThreshold + 1
                        ELSE buckets[c].idle + 1
    <3>1. buckets'[c] = [tokens |-> tokens, idle |-> idle]
      BY <2>3 DEF RateTick, Least
    <3>2. buckets[c].tokens \in 0..Full /\ buckets[c].idle \in 0..(StaleThreshold + 1)
      BY <2>3 DEF RateInv, BucketRecords
    <3>3. /\ tokens \in 0..Full /\ tokens <= buckets[c].tokens + 1
          /\ idle \in 0..(StaleThreshold + 1) /\ idle <= buckets[c].idle + 1
      BY <3>2, RateFacts
    <3>4. /\ buckets[c].tokens <= Allowed(c) + Parts
          /\ Allowed(c) >= Full \/ Allowed(c) >= buckets[c].idle - Parts
      BY <2>1, <2>3, <3>2, RateFacts DEF Charged, GetBucket, Least
    <3>. HIDE DEF tokens, idle
    <3>5. buckets'[c] \in BucketRecords
      BY <3>1, <3>3 DEF BucketRecords
    <3>6. buckets'[c] # NoBucket
      BY <3>5, BucketType
    <3>7. tokens <= Allowed(c)' + Parts /\ (Allowed(c)' >= Full \/ Allowed(c)' >= idle - Parts)
      BY <2>1, <3>2, <3>3, <3>4, RateFacts
    <3>8. Charged(c)'
      BY <2>1, <3>1, <3>3, <3>6, <3>7, RateFacts DEF Charged, GetBucket, Least
    <3>. QED  BY <2>1, <3>5, <3>8, RateFacts
  <2>. QED  BY <2>2, <2>3
<1>2. /\ DOMAIN buckets' = Clients /\ buckets' = [c \in Clients |-> buckets'[c]]
      /\ fair' = [c \in Clients |-> fair'[c]] /\ forgiven' = forgiven
  BY DEF RateTick
<1>3. sinceCleanup' \in 0..CleanupInterval
  BY RateFacts DEF RateTick, RateInv, Least
<1>. QED  BY <1>1, <1>2, <1>3 DEF RateInv

LEMMA DispatchInv ==
  ASSUME RateInv, NEW c \in Clients, Dispatch(c)
  PROVE  RateInv'
<1>. DEFINE due == sinceCleanup >= CleanupInterval
<1>1. PICK excess \in (IF due THEN Excess(Held(c)) ELSE {{}}) :
        LET gone == IF due THEN Stale(Held(c)) \cup excess ELSE {}
        IN  /\ buckets' = [k \in Clients |-> IF k \in gone THEN NoBucket
                                             ELSE IF k = c THEN Consume(GetBucket(c)) ELSE buckets[k]]
            /\ sinceCleanup' = IF due THEN 0 ELSE sinceCleanup
            /\ fair' = [fair EXCEPT ![c] = IF Admits(GetBucket(c)) THEN @ - Parts ELSE @]
            /\ forgiven' = [k \in Clients |-> IF k \in excess THEN forgiven[k] + Full ELSE forgiven[k]]
  BY DEF Dispatch
<1>. DEFINE gone == IF due THEN Stale(Held(c)) \cup excess ELSE {}
<1>2. /\ buckets' = [k \in Clients |-> IF k \in gone THEN NoBucket
                                       ELSE IF k = c THEN Consume(GetBucket(c)) ELSE buckets[k]]
      /\ fair' = [fair EXCEPT ![c] = IF Admits(GetBucket(c)) THEN @ - Parts ELSE @]
      /\ forgiven' = [k \in Clients |-> IF k \in excess THEN forgiven[k] + Full ELSE forgiven[k]]
      /\ sinceCleanup' \in 0..CleanupInterval
  BY <1>1, RateFacts DEF RateInv
<1>3. \A k \in excess : k \in gone
  BY <1>1
\* Whoever is dropped as stale would have a full bucket by now.
<1>4. ASSUME NEW k \in Clients, k \in gone, k \notin excess
      PROVE  Allowed(k) >= Full
  <2>1. k \in Stale(Held(c))
    BY <1>4
  <2>2. Held(c)[k].idle > StaleThreshold
    BY <2>1 DEF Stale
  <2>3. Held(c)[k] = IF k = c THEN GetBucket(c) ELSE buckets[k]
    BY DEF Held, RateInv
  <2>4. buckets[k] # NoBucket /\ buckets[k].idle > StaleThreshold
    <3>1. CASE k = c
      BY <2>2, <2>3, <3>1, RateFacts DEF GetBucket
    <3>2. CASE k # c
      BY <2>1, <2>2, <2>3, <3>2 DEF Stale
    <3>. QED  BY <3>1, <3>2
  <2>5. buckets[k].idle \in Nat /\ Allowed(k) \in Int
    BY <2>4, RateFacts DEF RateInv, BucketRecords, Allowed
  <2>6. Allowed(k) >= Least(Full, buckets[k].idle - Parts)
    BY <2>4 DEF RateInv, Charged
  <2>. QED  BY <2>4, <2>5, <2>6, RateFacts DEF Least
<1>. HIDE DEF gone, due
<1>5. ASSUME NEW k \in Clients
      PROVE  /\ buckets'[k] \in BucketRecords \cup {NoBucket}
             /\ fair'[k] \in Int /\ forgiven'[k] \in Nat /\ Charged(k)'
  <2>. DEFINE gift == IF k \in excess THEN Full ELSE 0
              cost == IF k = c /\ Admits(GetBucket(c)) THEN Parts ELSE 0
  <2>1. /\ fair'[k] = fair[k] - cost /\ forgiven'[k] = forgiven[k] + gift
        /\ fair[k] \in Int /\ forgiven[k] \in Nat /\ cost \in 0..Parts /\ gift \in {0, Full}
    BY <1>2, RateFacts DEF RateInv
  <2>2. /\ Allowed(k) \in Int /\ Allowed(k)' = Allowed(k) + gift - cost
        /\ fair'[k] \in Int /\ forgiven'[k] \in Nat
    BY <2>1, RateFacts DEF Allowed
  <2>3. /\ GetBucket(k) \in BucketRecords /\ GetBucket(k).tokens \in 0..Full
        /\ GetBucket(k).tokens <= Allowed(k) + Parts
        /\ cost <= GetBucket(k).tokens
    <3>1. GetBucket(k) \in BucketRecords /\ GetBucket(k).tokens <= Allowed(k) + Parts
      BY BucketType DEF RateInv, Charged
    <3>2. GetBucket(k).tokens \in 0..Full
      BY <3>1 DEF BucketRecords
    <3>. QED  BY <3>1, <3>2, RateFacts DEF Admits
  <2>4. CASE k \in gone
    <3>1. buckets'[k] = NoBucket
      BY <1>2, <2>4
    <3>2. Full <= Allowed(k)' + Parts
      <4>1. CASE k \in excess
        BY <2>2, <2>3, <4>1, RateFacts
      <4>2. CASE k \notin excess
        BY <1>4, <2>1, <2>2, <2>4, <4>2, RateFacts
      <4>. QED  BY <4>1, <4>2
    <3>3. GetBucket(k)'.tokens = Full
      BY <3>1 DEF GetBucket
    <3>. QED  BY <2>2, <3>1, <3>2, <3>3 DEF Charged
  <2>5. CASE k \notin gone /\ k # c
    <3>1. buckets'[k] = buckets[k] /\ gift = 0 /\ cost = 0
      BY <1>2, <1>3, <2>5
    <3>2. Allowed(k)' = Allowed(k)
      BY <2>2, <3>1
    <3>. QED  BY <2>2, <3>1, <3>2 DEF Charged, GetBucket, RateInv
  <2>6. CASE k \notin gone /\ k = c
    <3>1. buckets'[k] = Consume(GetBucket(c)) /\ gift = 0
      BY <1>2, <1>3, <2>6
    <3>2. Consume(GetBucket(c)) = [tokens |-> GetBucket(c).tokens - cost, idle |-> 0]
      BY <2>3, <2>6, RateFacts DEF Consume, Admits
    <3>3. GetBucket(c).tokens - cost \in 0..Full
      BY <2>1, <2>3, <2>6, RateFacts
    <3>4. Consume(GetBucket(c)) \in BucketRecords
      BY <3>2, <3>3, RateFacts DEF BucketRecords
    <3>5. buckets'[k] # NoBucket
      BY <3>1, <3>4, BucketType
    <3>6. GetBucket(c).tokens - cost <= Allowed(k)' + Parts /\ Allowed(k)' >= 0 - Parts
      BY <2>1, <2>2, <2>3, <2>6, <3>1, RateFacts
    <3>7. Charged(k)'
      BY <2>2, <3>1, <3>2, <3>5, <3>6, RateFacts DEF Charged, GetBucket, Least
    <3>. QED  BY <2>2, <3>1, <3>4, <3>7
  <2>. QED  BY <2>4, <2>5, <2>6
<1>6. /\ buckets' = [k \in Clients |-> buckets'[k]] /\ fair' = [k \in Clients |-> fair'[k]]
      /\ forgiven' = [k \in Clients |-> forgiven'[k]]
  BY <1>2 DEF RateInv
<1>. QED  BY <1>2, <1>5, <1>6 DEF RateInv

LEMMA RateStepInv == RateInv /\ (RateNext \/ UNCHANGED rateVars) => RateInv'
<1>1. RateInv /\ UNCHANGED rateVars => RateInv'
  BY DEF rateVars, RateInv, Charged, Allowed, GetBucket
<1>. QED  BY <1>1, RateTickInv, DispatchInv DEF RateNext

LEMMA RateInvBounded == RateInv => RateBounded
<1>. SUFFICES ASSUME RateInv, NEW c \in Clients PROVE GetBucket(c).tokens <= fair[c] + Parts + forgiven[c]
  BY DEF RateBounded
<1>1. GetBucket(c).tokens <= fair[c] + forgiven[c] + Parts
  BY DEF RateInv, Charged, Allowed
<1>2. fair[c] \in Int /\ forgiven[c] \in Nat
  BY DEF RateInv
<1>. QED  BY <1>1, <1>2, RateFacts
--------------------------------------------------------------------------
(* Plugins.                                                              *)

PluginRecords == [status : PluginStatuses, executions : Nat, started : Nat, failed : Nat]
CallRecords == [name : PluginNames, record : Nat, instance : Nat]
PluginEvents == {"none", "loaded", "enabled", "disabled"}

\* The calls under way that are counted in a record.
UnderWay(n, r) == {c \in PluginCalls : calls[c] # NoCall /\ calls[c].name = n /\ calls[c].record = r}

StatusAgrees(n) ==
  /\ lastEvent[n] = "disabled" => Current(n).status # "enabled"
  /\ lastEvent[n] # "disabled" => Current(n).status # "disabled"
  /\ Current(n).status = "error" => Current(n).failed > 0

Counted(n, r) ==
  records[n][r].started = records[n][r].executions + records[n][r].failed + Cardinality(UnderWay(n, r))

\* A call is counted in a record there is, and its instance is no newer; nor is
\* the instance of a plugin than its record.
CallsSound ==
  /\ \A n \in PluginNames : instances[n] <= Newest(n)
  /\ \A c \in PluginCalls : calls[c] # NoCall =>
       calls[c].record \in 1..Newest(calls[c].name) /\ calls[c].instance \in 1..calls[c].record

PluginInv ==
  /\ records \in [PluginNames -> Seq(PluginRecords)]
  /\ instances \in [PluginNames -> Nat]
  /\ calls \in [PluginCalls -> CallRecords \cup {NoCall}]
  /\ lastEvent \in [PluginNames -> PluginEvents]
  /\ CallsSound
  /\ \A n \in PluginNames : Known(n) => StatusAgrees(n)
  /\ \A n \in PluginNames : \A r \in 1..Newest(n) : Counted(n, r)

LEMMA FreshRecord ==
  /\ Fresh \in PluginRecords
  /\ Fresh.status = "enabled" /\ Fresh.executions = 0 /\ Fresh.started = 0 /\ Fresh.failed = 0
BY DEF Fresh, PluginRecords, PluginStatuses

LEMMA KnownHasNewest ==
  ASSUME PluginInv, NEW n \in PluginNames
  PROVE  /\ Newest(n) \in Nat /\ DOMAIN records[n] = 1..Newest(n)
         /\ Known(n) <=> Newest(n) >= 1
         /\ Known(n) => Current(n) \in PluginRecords /\ Newest(n) \in 1..Newest(n)
BY DEF PluginInv, Newest, Known, Current

LEMMA PluginInitInv == PluginInit => PluginInv
<1>. SUFFICES ASSUME PluginInit PROVE PluginInv
  OBVIOUS
<1>1. records \in [PluginNames -> Seq(PluginRecords)]
  BY FreshRecord DEF PluginInit
<1>2. ASSUME NEW n \in PluginNames
      PROVE  \/ records[n] = <<>> /\ instances[n] = 0
             \/ records[n] = <<Fresh>> /\ instances[n] = 1
  BY DEF PluginInit
<1>3. \A c \in PluginCalls : calls[c] = NoCall
  BY DEF PluginInit
<1>4. ASSUME NEW n \in PluginNames PROVE instances[n] <= Newest(n)
  <2>1. CASE records[n] = <<>> /\ instances[n] = 0
    BY <2>1 DEF Newest
  <2>2. CASE records[n] = <<Fresh>> /\ instances[n] = 1
    BY <2>2 DEF Newest
  <2>. QED  BY <1>2, <2>1, <2>2
<1>5. ASSUME NEW n \in PluginNames
      PROVE  /\ Known(n) => StatusAgrees(n)
             /\ \A r \in 1..Newest(n) : Counted(n, r)
  <2>1. CASE records[n] = <<>>
    BY <2>1 DEF Known, Newest
  <2>2. CASE records[n] = <<Fresh>>
    <3>1. Newest(n) = 1 /\ records[n][1] = Fresh /\ Current(n) = Fresh
      BY <2>2 DEF Newest, Current
    <3>2. UnderWay(n, 1) = {} /\ Cardinality({}) = 0
      BY <1>3, FS_EmptySet DEF UnderWay
    <3>3. Counted(n, 1)
      BY <3>1, <3>2 DEF Counted, Fresh
    <3>4. StatusAgrees(n)
      BY <3>1 DEF StatusAgrees, Fresh, PluginInit
    <3>. QED  BY <3>1, <3>3, <3>4
  <2>. QED  BY <1>2, <2>1, <2>2
<1>. QED  BY <1>1, <1>3, <1>4, <1>5 DEF PluginInit, PluginInv, CallsSound, PluginEvents

\* New records come without calls to them.
LEMMA LoadedInv ==
  ASSUME PluginInv, NEW names \in SUBSET PluginNames,
         records' = [n \in PluginNames |-> IF n \in names THEN Append(records[n], Fresh) ELSE records[n]],
         lastEvent' = [n \in PluginNames |-> IF n \in names THEN "loaded" ELSE lastEvent[n]],
         instances' \in [PluginNames -> Nat],
         \A n \in PluginNames : instances'[n] = instances[n]
                                \/ (n \in names /\ instances'[n] = Newest(n) + 1),
         calls' = calls
  PROVE  PluginInv'
<1>a. \A n \in PluginNames : records[n] \in Seq(PluginRecords) /\ Newest(n) \in Nat /\ Newest(n) = Len(records[n])
  BY DEF PluginInv, Newest
<1>1. ASSUME NEW n \in names
      PROVE  /\ records'[n] \in Seq(PluginRecords) /\ Len(records'[n]) = Newest(n) + 1
             /\ records'[n][Newest(n) + 1] = Fresh
             /\ \A r \in 1..Newest(n) : records'[n][r] = records[n][r]
             /\ lastEvent'[n] = "loaded"
  <2>1. n \in PluginNames /\ records'[n] = Append(records[n], Fresh)
    OBVIOUS
  <2>. QED  BY <1>a, <2>1, FreshRecord
<1>2. ASSUME NEW n \in PluginNames \ names
      PROVE  records'[n] = records[n] /\ Len(records'[n]) = Newest(n) /\ lastEvent'[n] = lastEvent[n]
  BY DEF Newest
<1>3. records' \in [PluginNames -> Seq(PluginRecords)]
  <2>1. ASSUME NEW n \in PluginNames PROVE records'[n] \in Seq(PluginRecords)
    BY <1>1, <1>2, <1>a
  <2>2. records' = [n \in PluginNames |-> records'[n]]
    OBVIOUS
  <2>. QED  BY <2>1, <2>2
<1>4. ASSUME NEW n \in PluginNames
      PROVE  Len(records'[n]) >= Newest(n) /\ Len(records'[n]) \in Nat
  <2>1. CASE n \in names
    BY <1>1, <1>a, <2>1
  <2>2. CASE n \notin names
    BY <1>2, <1>a, <2>2
  <2>. QED  BY <2>1, <2>2
<1>5. CallsSound'
  <2>1. ASSUME NEW n \in PluginNames PROVE instances'[n] <= Len(records'[n])
    <3>1. instances[n] \in Nat /\ instances[n] <= Newest(n)
      BY DEF PluginInv, CallsSound
    <3>2. CASE n \in names
      <4>1. /\ instances'[n] = instances[n] \/ instances'[n] = Newest(n) + 1
            /\ Len(records'[n]) = Newest(n) + 1 /\ Newest(n) \in Nat
        BY <1>1, <1>a, <3>2
      <4>. QED  BY <3>1, <4>1
    <3>3. CASE n \notin names
      <4>1. instances'[n] = instances[n] /\ Len(records'[n]) = Newest(n)
        BY <1>2, <3>3
      <4>. QED  BY <3>1, <4>1
    <3>. QED  BY <3>2, <3>3
  <2>2. ASSUME NEW c \in PluginCalls, calls[c] # NoCall
        PROVE  calls[c].record \in 1..Len(records'[calls[c].name]) /\ calls[c].instance \in 1..calls[c].record
    <3>1. /\ calls[c].name \in PluginNames
          /\ calls[c].record \in 1..Newest(calls[c].name) /\ calls[c].instance \in 1..calls[c].record
      BY <2>2 DEF PluginInv, CallsSound, CallRecords
    <3>2. PICK m \in PluginNames : m = calls[c].name
      BY <3>1
    <3>3. Len(records'[m]) >= Newest(m) /\ Len(records'[m]) \in Nat /\ Newest(m) \in Nat
      BY <1>4, <1>a
    <3>. QED  BY <3>1, <3>2, <3>3
  <2>3. \A c \in PluginCalls : calls'[c] # NoCall =>
          calls'[c].record \in 1..Len(records'[calls'[c].name]) /\ calls'[c].instance \in 1..calls'[c].record
    BY <2>2
  <2>. QED  BY <2>1, <2>3 DEF CallsSound, Newest
<1>6. ASSUME NEW n \in PluginNames
      PROVE  /\ Known(n)' => StatusAgrees(n)'
             /\ \A r \in 1..Len(records'[n]) : Counted(n, r)'
  <2>a. /\ \A r \in 1..Newest(n) : Counted(n, r)
        /\ Known(n) => StatusAgrees(n)
        /\ \A c \in PluginCalls : calls[c] # NoCall /\ calls[c].name = n => calls[c].record \in 1..Newest(n)
    BY DEF PluginInv, CallsSound
  <2>1. CASE n \in names
    <3>0. /\ Len(records'[n]) = Newest(n) + 1 /\ records'[n][Newest(n) + 1] = Fresh
          /\ lastEvent'[n] = "loaded" /\ Newest(n) \in Nat
          /\ \A r \in 1..Newest(n) : records'[n][r] = records[n][r]
      BY <1>1, <1>a, <2>1
    <3>1. Current(n)' = Fresh
      <4>1. records'[n][Len(records'[n])] = Fresh
        BY <3>0
      <4>. QED  BY <4>1 DEF Current, Newest
    <3>2. StatusAgrees(n)'
      BY <3>0, <3>1 DEF StatusAgrees, Fresh
    <3>3. PICK new \in Nat : new = Newest(n) + 1
      BY <3>0
    <3>4. Counted(n, new)'
      <4>1. UnderWay(n, new)' = {}
        BY <2>a, <3>0, <3>3 DEF UnderWay
      <4>2. Cardinality(UnderWay(n, new)') = 0
        BY <4>1, FS_EmptySet
      <4>3. records'[n][new] = Fresh
        BY <3>0, <3>3
      <4>4. records'[n][new].started = 0 /\ records'[n][new].executions = 0 /\ records'[n][new].failed = 0
        BY <4>3, FreshRecord
      <4>5. PICK none \in Nat : none = Cardinality(UnderWay(n, new)') /\ none = 0
        BY <4>2
      <4>6. 0 = 0 + 0 + none
        BY <4>5
      <4>7. records'[n][new].started
              = records'[n][new].executions + records'[n][new].failed + Cardinality(UnderWay(n, new)')
        BY <4>4, <4>5, <4>6
      <4>. QED  BY <4>7 DEF Counted
    <3>5. ASSUME NEW r \in 1..Newest(n) PROVE Counted(n, r)'
      <4>1. UnderWay(n, r)' = UnderWay(n, r)
        BY DEF UnderWay
      <4>. QED  BY <2>a, <3>0, <4>1 DEF Counted
    <3>6. \A r \in 1..Len(records'[n]) : r \in 1..Newest(n) \/ r = new
      BY <3>0, <3>3
    <3>7. ASSUME NEW r \in 1..Len(records'[n]) PROVE Counted(n, r)'
      <4>1. CASE r = new
        <5>1. UnderWay(n, r)' = UnderWay(n, new)'
          BY <4>1 DEF UnderWay
        <5>. QED  BY <3>4, <4>1, <5>1 DEF Counted
      <4>2. CASE r \in 1..Newest(n)
        BY <3>5, <4>2
      <4>. QED  BY <3>6, <4>1, <4>2
    <3>. QED  BY <3>2, <3>7
  <2>2. CASE n \notin names
    <3>1. records'[n] = records[n] /\ Len(records'[n]) = Newest(n) /\ lastEvent'[n] = lastEvent[n]
      BY <1>2, <2>2
    <3>2. Known(n)' => StatusAgrees(n)'
      BY <2>a, <3>1 DEF Known, StatusAgrees, Current, Newest
    <3>3. ASSUME NEW r \in 1..Newest(n) PROVE Counted(n, r)'
      <4>1. UnderWay(n, r)' = UnderWay(n, r)
        BY DEF UnderWay
      <4>. QED  BY <2>a, <3>1, <4>1 DEF Counted
    <3>. QED  BY <3>1, <3>2, <3>3
  <2>. QED  BY <2>1, <2>2
<1>7. lastEvent' \in [PluginNames -> PluginEvents] /\ calls' \in [PluginCalls -> CallRecords \cup {NoCall}]
  BY DEF PluginInv, PluginEvents
<1>8. /\ \A n \in PluginNames : Known(n)' => StatusAgrees(n)'
      /\ \A n \in PluginNames : \A r \in 1..Newest(n)' : Counted(n, r)'
  BY <1>6 DEF Newest
<1>. QED  BY <1>3, <1>5, <1>7, <1>8 DEF PluginInv

\* One record changes, with the calls that are counted in it: what the record
\* and the calls must be for the invariant to hold again.
Holding(held, n, r) == {c \in PluginCalls : held[c] # NoCall /\ held[c].name = n /\ held[c].record = r}

LEMMA RecordStepInv ==
  ASSUME PluginInv, NEW n \in PluginNames, NEW k \in 1..Newest(n), NEW rec \in PluginRecords,
         records' = [records EXCEPT ![n] = [records[n] EXCEPT ![k] = rec]],
         instances' = instances,
         calls' \in [PluginCalls -> CallRecords \cup {NoCall}],
         lastEvent' \in [PluginNames -> PluginEvents],
         \A c \in PluginCalls : calls'[c] # NoCall =>
           calls'[c].record \in 1..Newest(calls'[c].name) /\ calls'[c].instance \in 1..calls'[c].record,
         \A m \in PluginNames, j \in Nat :
           m # n \/ j # k => Holding(calls', m, j) = Holding(calls, m, j),
         rec.started = rec.executions + rec.failed + Cardinality(Holding(calls', n, k)),
         \A m \in PluginNames : m # n \/ k # Newest(n) => lastEvent'[m] = lastEvent[m],
         k = Newest(n) =>
           /\ lastEvent'[n] = "disabled" => rec.status # "enabled"
           /\ lastEvent'[n] # "disabled" => rec.status # "disabled"
           /\ rec.status = "error" => rec.failed > 0
  PROVE  PluginInv'
<1>1. /\ records' \in [PluginNames -> Seq(PluginRecords)]
      /\ \A m \in PluginNames : Len(records'[m]) = Newest(m)
      /\ records'[n][k] = rec
      /\ \A m \in PluginNames : \A j \in 1..Newest(m) :
           m # n \/ j # k => records'[m][j] = records[m][j]
  <2>1. records[n] \in Seq(PluginRecords) /\ k \in DOMAIN records[n] /\ DOMAIN records[n] = 1..Newest(n)
    BY KnownHasNewest DEF PluginInv
  <2>2. /\ records'[n] = [records[n] EXCEPT ![k] = rec]
        /\ \A m \in PluginNames \ {n} : records'[m] = records[m]
    BY DEF PluginInv
  <2>3. /\ records'[n] \in Seq(PluginRecords) /\ Len(records'[n]) = Len(records[n])
        /\ records'[n][k] = rec
        /\ \A j \in 1..Newest(n) : j # k => records'[n][j] = records[n][j]
    BY <2>1, <2>2 DEF Newest
  <2>4. records' \in [PluginNames -> Seq(PluginRecords)]
    BY <2>2, <2>3 DEF PluginInv
  <2>5. ASSUME NEW m \in PluginNames
        PROVE  Len(records'[m]) = Newest(m)
    BY <2>2, <2>3 DEF Newest
  <2>6. ASSUME NEW m \in PluginNames, NEW j \in 1..Newest(m), m # n \/ j # k
        PROVE  records'[m][j] = records[m][j]
    BY <2>2, <2>3, <2>6
  <2>. QED  BY <2>3, <2>4, <2>5, <2>6
<1>2. CallsSound'
  <2>1. ASSUME NEW m \in PluginNames PROVE instances'[m] <= Len(records'[m])
    BY <1>1 DEF PluginInv, CallsSound
  <2>2. ASSUME NEW c \in PluginCalls, calls'[c] # NoCall
        PROVE  calls'[c].record \in 1..Len(records'[calls'[c].name]) /\ calls'[c].instance \in 1..calls'[c].record
    <3>1. calls'[c].name \in PluginNames
      BY <2>2 DEF CallRecords
    <3>2. Len(records'[calls'[c].name]) = Newest(calls'[c].name)
      BY <1>1, <3>1
    <3>. QED  BY <2>2, <3>2
  <2>. QED  BY <2>1, <2>2 DEF CallsSound, Newest
<1>3. ASSUME NEW m \in PluginNames PROVE Known(m)' => StatusAgrees(m)'
  <2>. SUFFICES ASSUME Known(m)' PROVE StatusAgrees(m)'
    OBVIOUS
  <2>0. Len(records'[m]) = Newest(m) /\ Newest(m) >= 1
    <3>1. records'[m] # <<>> /\ records'[m] \in Seq(PluginRecords) /\ Len(records'[m]) = Newest(m)
      BY <1>1 DEF Known
    <3>. QED  BY <3>1
  <2>1. /\ Known(m) /\ StatusAgrees(m) /\ Newest(m) \in 1..Newest(m)
        /\ Len(records'[m]) = Newest(m)
    BY <2>0, KnownHasNewest DEF PluginInv
  <2>2. Current(m)' = records'[m][Newest(m)]
    <3>1. records'[m][Len(records'[m])] = records'[m][Newest(m)]
      BY <2>1
    <3>. QED  BY <3>1 DEF Current, Newest
  <2>3. CASE m = n /\ k = Newest(n)
    <3>1. records'[m][Newest(m)] = rec
      BY <1>1, <2>3
    <3>2. /\ lastEvent'[m] = "disabled" => rec.status # "enabled"
          /\ lastEvent'[m] # "disabled" => rec.status # "disabled"
          /\ rec.status = "error" => rec.failed > 0
      BY <2>3
    <3>. QED  BY <2>2, <3>1, <3>2 DEF StatusAgrees
  <2>4. CASE ~(m = n /\ k = Newest(n))
    <3>1. lastEvent'[m] = lastEvent[m] /\ records'[m][Newest(m)] = records[m][Newest(m)]
      BY <1>1, <2>1, <2>4
    <3>. QED  BY <2>1, <2>2, <3>1 DEF StatusAgrees, Current
  <2>. QED  BY <2>3, <2>4
<1>4. ASSUME NEW m \in PluginNames, NEW j \in 1..Newest(m) PROVE Counted(m, j)'
  <2>0. j \in Nat /\ Counted(m, j) /\ UnderWay(m, j) = Holding(calls, m, j)
    BY DEF PluginInv, UnderWay, Holding
  <2>1. UnderWay(m, j)' = Holding(calls', m, j)
    BY DEF UnderWay, Holding
  <2>2. CASE m = n /\ j = k
    <3>1. records'[m][j] = rec
      BY <1>1, <2>2
    <3>2. Cardinality(UnderWay(m, j)') = Cardinality(Holding(calls', n, k))
      BY <2>1, <2>2
    <3>3. records'[m][j].started
            = records'[m][j].executions + records'[m][j].failed + Cardinality(UnderWay(m, j)')
      BY <3>1, <3>2
    <3>. QED  BY <3>3 DEF Counted
  <2>3. CASE m # n \/ j # k
    <3>1. records'[m][j] = records[m][j]
      BY <1>1, <2>3
    <3>2. UnderWay(m, j)' = UnderWay(m, j)
      BY <2>0, <2>1, <2>3
    <3>. QED  BY <2>0, <3>1, <3>2 DEF Counted
  <2>. QED  BY <2>2, <2>3
<1>5. \A m \in PluginNames : \A j \in 1..Newest(m)' : Counted(m, j)'
  <2>1. \A m \in PluginNames : \A j \in 1..Len(records'[m]) : Counted(m, j)'
    BY <1>1, <1>4
  <2>. QED  BY <2>1 DEF Newest
<1>6. instances' \in [PluginNames -> Nat]
  BY DEF PluginInv
<1>. QED  BY <1>1, <1>2, <1>3, <1>5, <1>6 DEF PluginInv

\* Enable and Disable.
LEMMA SwitchInv ==
  ASSUME PluginInv, NEW n \in PluginNames, NEW to \in {"enabled", "disabled"}, Known(n),
         records' = [records EXCEPT ![n][Newest(n)].status = to],
         lastEvent' = [lastEvent EXCEPT ![n] = to],
         instances' = instances, calls' = calls
  PROVE  PluginInv'
<1>1. PICK k \in 1..Newest(n) : k = Newest(n)
  BY KnownHasNewest
<1>2. PICK rec \in PluginRecords : rec = [records[n][k] EXCEPT !.status = to]
  BY <1>1, KnownHasNewest DEF PluginInv, PluginRecords, PluginStatuses, Current
<1>3. /\ rec.status = to /\ rec.started = records[n][k].started
      /\ rec.executions = records[n][k].executions /\ rec.failed = records[n][k].failed
  <2>1. records[n][k] \in PluginRecords
    BY <1>1, KnownHasNewest DEF Current
  <2>. QED  BY <1>2, <2>1 DEF PluginRecords
<1>4. records' = [records EXCEPT ![n] = [records[n] EXCEPT ![k] = rec]]
  BY <1>1, <1>2 DEF PluginInv
<1>5. Counted(n, k) /\ UnderWay(n, k) = Holding(calls', n, k)
  BY DEF PluginInv, UnderWay, Holding
<1>6. rec.started = rec.executions + rec.failed + Cardinality(Holding(calls', n, k))
  BY <1>3, <1>5 DEF Counted
<1>7. /\ calls' \in [PluginCalls -> CallRecords \cup {NoCall}]
      /\ \A c \in PluginCalls : calls'[c] # NoCall =>
           calls'[c].record \in 1..Newest(calls'[c].name) /\ calls'[c].instance \in 1..calls'[c].record
      /\ \A m \in PluginNames, j \in Nat : Holding(calls', m, j) = Holding(calls, m, j)
  BY DEF PluginInv, CallsSound
<1>8. /\ lastEvent' \in [PluginNames -> PluginEvents]
      /\ \A m \in PluginNames : m # n => lastEvent'[m] = lastEvent[m]
      /\ lastEvent'[n] = to
  BY DEF PluginInv, PluginEvents
<1>. QED
  BY RecordStepInv, <1>1, <1>3, <1>4, <1>6, <1>7, <1>8

\* A call begins: it is counted as started and is under way.
LEMMA StartInv ==
  ASSUME PluginInv, NEW c \in PluginCalls, NEW n \in PluginNames, StartExecute(c, n)
  PROVE  PluginInv'
<1>1. PICK k \in 1..Newest(n) : k = Newest(n)
  BY KnownHasNewest DEF StartExecute
<1>2. records[n][k] \in PluginRecords /\ k \in Nat /\ Newest(n) \in Nat
  BY <1>1, KnownHasNewest DEF Current, StartExecute
<1>3. PICK rec \in PluginRecords : rec = [records[n][k] EXCEPT !.started = @ + 1]
  <2>1. PICK old \in PluginRecords : old = records[n][k]
    BY <1>2
  <2>2. old.started + 1 \in Nat
    BY DEF PluginRecords
  <2>3. [old EXCEPT !.started = old.started + 1] \in PluginRecords
    BY <2>2 DEF PluginRecords
  <2>. QED  BY <2>1, <2>3
<1>4. /\ rec.status = records[n][k].status /\ rec.started = records[n][k].started + 1
      /\ rec.executions = records[n][k].executions /\ rec.failed = records[n][k].failed
  BY <1>2, <1>3 DEF PluginRecords
<1>5. records' = [records EXCEPT ![n] = [records[n] EXCEPT ![k] = rec]]
  BY <1>1, <1>3 DEF PluginInv, StartExecute
<1>6. PICK call \in CallRecords : call = [name |-> n, record |-> k, instance |-> instances[n]]
  BY <1>2 DEF PluginInv, CallRecords
<1>7. /\ call.name = n /\ call.record = k /\ call.instance = instances[n] /\ call # NoCall
      /\ calls[c] = NoCall /\ calls' = [calls EXCEPT ![c] = call]
  BY <1>1, <1>6, PluginConstants DEF StartExecute, CallRecords
<1>8. calls' \in [PluginCalls -> CallRecords \cup {NoCall}] /\ calls'[c] = call
      /\ \A d \in PluginCalls : d # c => calls'[d] = calls[d]
  BY <1>7 DEF PluginInv
<1>9. ASSUME NEW d \in PluginCalls, calls'[d] # NoCall
      PROVE  calls'[d].record \in 1..Newest(calls'[d].name) /\ calls'[d].instance \in 1..calls'[d].record
  <2>1. CASE d = c
    <3>1. instances[n] \in 1..k
      BY <1>1, <1>2 DEF PluginInv, CallsSound, StartExecute
    <3>. QED  BY <1>1, <1>7, <1>8, <2>1, <3>1
  <2>2. CASE d # c
    BY <1>8, <1>9, <2>2 DEF PluginInv, CallsSound
  <2>. QED  BY <2>1, <2>2
<1>10. ASSUME NEW m \in PluginNames, NEW j \in Nat, m # n \/ j # k
       PROVE  Holding(calls', m, j) = Holding(calls, m, j)
  BY <1>7, <1>8, <1>10 DEF Holding
<1>11. PICK under \in SUBSET PluginCalls : under = UnderWay(n, k)
  BY DEF UnderWay
<1>12. Holding(calls', n, k) = under \cup {c} /\ c \notin under
  BY <1>7, <1>8, <1>11 DEF Holding, UnderWay
<1>13. IsFiniteSet(under) /\ Cardinality(under) \in Nat /\ Cardinality(under \cup {c}) = Cardinality(under) + 1
  <2>1. IsFiniteSet(under)
    BY PluginConstants, FS_Subset
  <2>. QED  BY <1>12, <2>1, FS_AddElement, FS_CardinalityType
<1>14. records[n][k].started = records[n][k].executions + records[n][k].failed + Cardinality(under)
  BY <1>11 DEF PluginInv, Counted
<1>15. rec.started = rec.executions + rec.failed + Cardinality(Holding(calls', n, k))
  <2>1. records[n][k].executions \in Nat /\ records[n][k].failed \in Nat
    BY <1>2 DEF PluginRecords
  <2>. QED  BY <1>4, <1>12, <1>13, <1>14, <2>1
<1>16. /\ lastEvent' = lastEvent /\ instances' = instances
       /\ lastEvent' \in [PluginNames -> PluginEvents]
  BY DEF PluginInv, StartExecute
<1>17. /\ lastEvent'[n] = "disabled" => rec.status # "enabled"
       /\ lastEvent'[n] # "disabled" => rec.status # "disabled"
       /\ rec.status = "error" => rec.failed > 0
  BY <1>1, <1>4, <1>16 DEF PluginInv, StatusAgrees, Current, StartExecute
<1>. QED  BY RecordStepInv, <1>5, <1>8, <1>9, <1>10, <1>15, <1>16, <1>17

\* A call ends: it is no longer under way, and counted as executed or failed.
LEMMA EndInv ==
  ASSUME PluginInv, NEW c \in PluginCalls, calls[c] # NoCall,
         NEW n \in PluginNames, n = calls[c].name,
         NEW k \in 1..Newest(n), k = calls[c].record,
         NEW rec \in PluginRecords,
         records' = [records EXCEPT ![n] = [records[n] EXCEPT ![k] = rec]],
         rec.started = records[n][k].started,
         rec.executions + rec.failed = records[n][k].executions + records[n][k].failed + 1,
         \/ rec.status = records[n][k].status /\ rec.failed = records[n][k].failed
         \/ rec.status = "error" /\ rec.failed > 0,
         calls' = [calls EXCEPT ![c] = NoCall],
         instances' = instances, lastEvent' = lastEvent
  PROVE  PluginInv'
<1>1. calls' \in [PluginCalls -> CallRecords \cup {NoCall}] /\ calls'[c] = NoCall
      /\ \A d \in PluginCalls : d # c => calls'[d] = calls[d]
  BY DEF PluginInv
<1>2. ASSUME NEW d \in PluginCalls, calls'[d] # NoCall
      PROVE  calls'[d].record \in 1..Newest(calls'[d].name) /\ calls'[d].instance \in 1..calls'[d].record
  BY <1>1, <1>2 DEF PluginInv, CallsSound
<1>3. ASSUME NEW m \in PluginNames, NEW j \in Nat, m # n \/ j # k
      PROVE  Holding(calls', m, j) = Holding(calls, m, j)
  BY <1>1, <1>3 DEF Holding
<1>4. PICK under \in SUBSET PluginCalls : under = UnderWay(n, k)
  BY DEF UnderWay
<1>5. Holding(calls', n, k) = under \ {c} /\ c \in under
  BY <1>1, <1>4 DEF Holding, UnderWay
<1>6. /\ Cardinality(under) \in Nat /\ Cardinality(under \ {c}) \in Nat
      /\ Cardinality(under) = Cardinality(under \ {c}) + 1
  <2>1. IsFiniteSet(under)
    BY PluginConstants, FS_Subset
  <2>2. IsFiniteSet(under \ {c}) /\ Cardinality(under \ {c}) = Cardinality(under) - 1
    BY <1>5, <2>1, FS_RemoveElement
  <2>3. Cardinality(under) \in Nat /\ Cardinality(under \ {c}) \in Nat
    BY <2>1, <2>2, FS_CardinalityType
  <2>. QED  BY <2>2, <2>3
<1>7. records[n][k].started = records[n][k].executions + records[n][k].failed + Cardinality(under)
  BY <1>4 DEF PluginInv, Counted
<1>8. records[n][k] \in PluginRecords
  BY DEF PluginInv, Newest
<1>9. rec.started = rec.executions + rec.failed + Cardinality(Holding(calls', n, k))
  <2>1. /\ records[n][k].executions \in Nat /\ records[n][k].failed \in Nat
        /\ rec.executions \in Nat /\ rec.failed \in Nat
    BY <1>8 DEF PluginRecords
  <2>2. PICK a \in Nat, b \in Nat : a = Cardinality(under) /\ b = Cardinality(under \ {c}) /\ a = b + 1
    BY <1>6
  <2>3. rec.started = rec.executions + rec.failed + b
    BY <1>7, <2>1, <2>2
  <2>. QED  BY <1>5, <2>2, <2>3
<1>10. ASSUME k = Newest(n)
       PROVE  /\ lastEvent'[n] = "disabled" => rec.status # "enabled"
              /\ lastEvent'[n] # "disabled" => rec.status # "disabled"
              /\ rec.status = "error" => rec.failed > 0
  <2>1. StatusAgrees(n) /\ Current(n) = records[n][k]
    BY <1>10, KnownHasNewest DEF PluginInv, Current
  <2>. QED  BY <2>1 DEF StatusAgrees
<1>11. lastEvent' \in [PluginNames -> PluginEvents]
  BY DEF PluginInv
<1>. QED  BY RecordStepInv, <1>1, <1>2, <1>3, <1>9, <1>10, <1>11

LEMMA ExecuteEndsInv ==
  ASSUME PluginInv, NEW c \in PluginCalls, ExecuteSucceeds(c) \/ ExecuteFails(c)
  PROVE  PluginInv'
<1>0. calls[c] # NoCall /\ calls' = [calls EXCEPT ![c] = NoCall] /\ instances' = instances /\ lastEvent' = lastEvent
  BY DEF ExecuteSucceeds, ExecuteFails
<1>1. PICK n \in PluginNames : n = calls[c].name
  BY <1>0 DEF PluginInv, CallRecords
<1>2. PICK k \in 1..Newest(n) : k = calls[c].record
  BY <1>0, <1>1 DEF PluginInv, CallsSound
<1>3. records[n][k] \in PluginRecords
  BY DEF PluginInv, Newest
<1>4. PICK old \in PluginRecords : old = records[n][k]
  BY <1>3
<1>5. /\ old.executions \in Nat /\ old.failed \in Nat /\ old.started \in Nat /\ old.status \in PluginStatuses
      /\ [old EXCEPT !.executions = old.executions + 1] \in PluginRecords
      /\ [[old EXCEPT !.status = "error"] EXCEPT !.failed = old.failed + 1] \in PluginRecords
  <2>1. old.executions \in Nat /\ old.failed \in Nat /\ old.started \in Nat /\ old.status \in PluginStatuses
    BY DEF PluginRecords
  <2>2. old.executions + 1 \in Nat /\ old.failed + 1 \in Nat /\ "error" \in PluginStatuses
    BY <2>1 DEF PluginStatuses
  <2>3. [old EXCEPT !.executions = old.executions + 1] \in PluginRecords
    BY <2>2 DEF PluginRecords
  <2>4. [[old EXCEPT !.status = "error"] EXCEPT !.failed = old.failed + 1] \in PluginRecords
    <3>1. PICK mid \in PluginRecords : mid = [old EXCEPT !.status = "error"]
      BY <2>2 DEF PluginRecords
    <3>2. [mid EXCEPT !.failed = old.failed + 1] \in PluginRecords
      BY <2>2 DEF PluginRecords
    <3>. QED  BY <3>1, <3>2
  <2>. QED  BY <2>1, <2>3, <2>4
<1>6. CASE ExecuteSucceeds(c)
  <2>1. PICK rec \in PluginRecords : rec = [old EXCEPT !.executions = old.executions + 1]
    BY <1>5
  <2>2. /\ rec.status = old.status /\ rec.started = old.started
        /\ rec.executions = old.executions + 1 /\ rec.failed = old.failed
    BY <2>1 DEF PluginRecords
  <2>3. records' = [records EXCEPT ![n] = [records[n] EXCEPT ![k] = rec]]
    BY <1>1, <1>2, <1>4, <1>6, <2>1 DEF PluginInv, ExecuteSucceeds
  <2>4. /\ rec.started = records[n][k].started
        /\ rec.executions + rec.failed = records[n][k].executions + records[n][k].failed + 1
        /\ rec.status = records[n][k].status /\ rec.failed = records[n][k].failed
    BY <1>4, <1>5, <2>2
  <2>. QED  BY EndInv, <1>0, <1>1, <1>2, <2>3, <2>4
<1>7. CASE ExecuteFails(c)
  <2>1. PICK rec \in PluginRecords : rec = [[old EXCEPT !.status = "error"] EXCEPT !.failed = old.failed + 1]
    BY <1>5
  <2>2. /\ rec.status = "error" /\ rec.started = old.started
        /\ rec.executions = old.executions /\ rec.failed = old.failed + 1
    BY <2>1 DEF PluginRecords
  <2>3. records' = [records EXCEPT ![n] = [records[n] EXCEPT ![k] = rec]]
    <3>1. PICK mid \in PluginRecords : mid = [old EXCEPT !.status = "error"] /\ mid.failed = old.failed
      BY <1>5 DEF PluginRecords, PluginStatuses
    <3>2. PICK once : once = [records EXCEPT ![n] = [records[n] EXCEPT ![k] = mid]]
      OBVIOUS
    <3>3. records' = [once EXCEPT ![n][k].failed = @ + 1]
      BY <1>1, <1>2, <1>4, <1>7, <3>1, <3>2 DEF ExecuteFails
    <3>4. /\ once \in [PluginNames -> Seq(PluginRecords)]
          /\ once[n] = [records[n] EXCEPT ![k] = mid] /\ once[n][k] = mid
      <4>1. records[n] \in Seq(PluginRecords) /\ k \in DOMAIN records[n]
        BY DEF PluginInv, Newest
      <4>. QED  BY <3>2, <4>1 DEF PluginInv
    <3>5. rec = [mid EXCEPT !.failed = @ + 1]
      BY <2>1, <3>1
    <3>6. records' = [once EXCEPT ![n] = [once[n] EXCEPT ![k] = rec]]
      BY <3>3, <3>4, <3>5
    <3>7. [once[n] EXCEPT ![k] = rec] = [records[n] EXCEPT ![k] = rec]
      BY <3>4
    <3>. QED  BY <3>2, <3>6, <3>7
  <2>4. /\ rec.started = records[n][k].started
        /\ rec.executions + rec.failed = records[n][k].executions + records[n][k].failed + 1
        /\ rec.status = "error" /\ rec.failed > 0
    BY <1>4, <1>5, <2>2
  <2>. QED  BY EndInv, <1>0, <1>1, <1>2, <2>3, <2>4
<1>. QED  BY <1>6, <1>7

LEMMA PluginStepInv == PluginInv /\ (PluginNext \/ UNCHANGED pluginVars) => PluginInv'
<1>. SUFFICES ASSUME PluginInv, PluginNext \/ UNCHANGED pluginVars PROVE PluginInv'
  OBVIOUS
<1>1. CASE UNCHANGED pluginVars
  BY <1>1 DEF PluginInv, pluginVars, CallsSound, StatusAgrees, Counted, UnderWay, Known, Newest, Current
<1>2. ASSUME NEW names \in SUBSET PluginNames, LoadFromDirectory(names) PROVE PluginInv'
  <2>1. instances' \in [PluginNames -> Nat] /\ \A n \in PluginNames : instances'[n] = instances[n]
    BY <1>2 DEF PluginInv, LoadFromDirectory
  <2>. QED  BY <1>2, <2>1, LoadedInv DEF LoadFromDirectory
<1>3. ASSUME NEW n \in PluginNames, LoadFromEntrypoint(n) PROVE PluginInv'
  <2>1. PICK names \in SUBSET PluginNames : names = {n}
    OBVIOUS
  <2>2. /\ records' = [m \in PluginNames |-> IF m \in names THEN Append(records[m], Fresh) ELSE records[m]]
        /\ lastEvent' = [m \in PluginNames |-> IF m \in names THEN "loaded" ELSE lastEvent[m]]
        /\ calls' = calls
    BY <1>3, <2>1 DEF PluginInv, LoadFromEntrypoint
  <2>3. /\ instances' \in [PluginNames -> Nat]
        /\ \A m \in PluginNames : instances'[m] = instances[m]
                                  \/ (m \in names /\ instances'[m] = Newest(m) + 1)
    <3>1. Newest(n) + 1 \in Nat
      BY KnownHasNewest
    <3>. QED  BY <1>3, <2>1, <3>1 DEF PluginInv, LoadFromEntrypoint
  <2>. QED  BY <2>2, <2>3, LoadedInv
<1>4. ASSUME NEW n \in PluginNames, Enable(n) \/ Disable(n) PROVE PluginInv'
  BY <1>4, SwitchInv DEF Enable, Disable
<1>. QED  BY <1>1, <1>2, <1>3, <1>4, StartInv, ExecuteEndsInv DEF PluginNext

LEMMA PluginInvAgree == PluginInv => PluginsAgree
<1>. SUFFICES ASSUME PluginInv PROVE PluginsAgree
  OBVIOUS
<1>1. ASSUME NEW n \in PluginNames, Known(n)
      PROVE  /\ StatusAgrees(n)
             /\ \A r \in DOMAIN records[n] : Counted(n, r)
  BY <1>1, KnownHasNewest DEF PluginInv
<1>2. \A c \in PluginCalls : calls[c] # NoCall => calls[c].instance \in 1..calls[c].record
  BY DEF PluginInv, CallsSound
<1>. QED  BY <1>1, <1>2 DEF PluginsAgree, StatusAgrees, Counted, UnderWay
--------------------------------------------------------------------------
OperationsInv == PluginInv /\ CiCdInv /\ RateInv /\ ConfigInv /\ ClientInv

\* The invariants of the five parts hold together, in every state of each.
THEOREM OperationsInvariant == OperationsSpec => []OperationsInv
<1>1. OperationsInit => OperationsInv
  BY PluginInitInv, CiCdInitInv, RateInitInv, ConfigInitInv, ClientInitInv
  DEF OperationsInit, OperationsInv
<1>2. OperationsInv /\ [OperationsNext]_operationVars => OperationsInv'
  <2>. SUFFICES ASSUME OperationsInv, [OperationsNext]_operationVars PROVE OperationsInv'
    OBVIOUS
  <2>1. /\ PluginNext \/ UNCHANGED pluginVars
        /\ CiCdNext \/ UNCHANGED cicdVars
        /\ RateNext \/ UNCHANGED rateVars
        /\ ConfigNext \/ UNCHANGED configVars
        /\ ClientNext \/ UNCHANGED clientVars
    BY DEF OperationsNext, operationVars
  <2>. QED
    BY <2>1, PluginStepInv, CiCdStepInv, RateStepInv, ConfigStepInv, ClientStepInv
    DEF OperationsInv
<1>. QED  BY <1>1, <1>2, PTL DEF OperationsSpec

\* A plugin has the status its last event and its calls' failures give it, and
\* every call of execute() is counted once, in the record it began with.
THEOREM PluginsDoAgree == OperationsSpec => []PluginsAgree
<1>1. OperationsInv => PluginsAgree
  BY PluginInvAgree DEF OperationsInv
<1>. QED  BY <1>1, OperationsInvariant, PTL

\* A pipeline shows the status of its newest run unless an older one ended since,
\* in whatever order trigger, complete and delete arrive.
THEOREM RunsSettled == OperationsSpec => []RunsSettle
<1>1. OperationsInv => RunsSettle
  BY DEF OperationsInv, CiCdInv
<1>. QED  BY <1>1, OperationsInvariant, PTL

\* A client of the rate limiter is at most one request better off than with a
\* bucket that is never cleaned up, and one bucket for each time its own was
\* dropped for their number, with as many clients as there may be.
THEOREM RateIsBounded == OperationsSpec => []RateBounded
<1>1. OperationsInv => RateBounded
  BY RateInvBounded DEF OperationsInv
<1>. QED  BY <1>1, OperationsInvariant, PTL

\* The reloader's settings are those of the file it read, and its callbacks
\* have been told them, whenever its one watcher is between two checks.
THEOREM ConfigIsFollowed == OperationsSpec => []ConfigFollows
<1>1. OperationsInv => ConfigFollows
  BY ConfigInvFollows DEF OperationsInv
<1>. QED  BY <1>1, OperationsInvariant, PTL

\* A cancellation in the frontend's client reaches the newest request with the
\* id or none, with as many calls and ids as there may be.
THEOREM LatestCallWins == OperationsSpec => []LatestWins
<1>1. OperationsInv => LatestWins
  BY ClientInvLatest DEF OperationsInv
<1>. QED  BY <1>1, OperationsInvariant, PTL
==========================================================================
