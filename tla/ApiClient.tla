----------------------------- MODULE ApiClient -----------------------------
(***************************************************************************)
(* request() of the frontend's services/api.ts: a call is sent, retried    *)
(* and given up, and one with an id can be cancelled, or is when the next  *)
(* with that id begins. A step ends where request() awaits something.      *)
(***************************************************************************)
EXTENDS Naturals, FiniteSets

CONSTANTS
  ClientCalls,     \* calls of request() there will be
  RequestIds,      \* ids of requests
  MaxRetries,      \* MAX_RETRIES
  NoId, NoController

ASSUME ClientConstants == MaxRetries \in Nat /\ NoId \notin RequestIds /\ NoController \notin ClientCalls

\* 429; an error that says "HTTP 4"; any other, also one of the network.
Responses == {"ok", "busy", "refused", "failed"}

VARIABLES
  request,       \* each call: its id, how far it is, its attempt, its signal
  controllers,   \* activeControllers: the call whose controller an id has
  began,         \* history: the calls that have begun when each began
  stray          \* history: the ids whose controller another call removed

clientVars == <<request, controllers, began, stray>>

Waiting(c) == request[c].at \in {"fetch", "answered", "sleep"}
Live(c)    == Waiting(c) /\ ~request[c].aborted

\* removeAbortController, at the end of a call.
Removed(c) ==
  IF request[c].id = NoId THEN controllers ELSE [controllers EXCEPT ![request[c].id] = NoController]
Strayed(c) ==
  IF request[c].id = NoId \/ controllers[request[c].id] \in {c, NoController} THEN stray
  ELSE stray \cup {request[c].id}
Ends(c, outcome) ==
  /\ request' = [request EXCEPT ![c].at = outcome, ![c].answer = "ok"]
  /\ controllers' = Removed(c)
  /\ stray' = Strayed(c)
--------------------------------------------------------------------------
Sent(c, id) == [id |-> id, at |-> "fetch", attempt |-> 0, answer |-> "ok", aborted |-> FALSE]

\* Fault variant: the call that has the id is left alone.
BeginBeside(c, id) ==
  /\ request[c].at = "new"
  /\ request' = [request EXCEPT ![c] = Sent(c, id)]
  /\ controllers' = IF id = NoId THEN controllers ELSE [controllers EXCEPT ![id] = c]
  /\ began' = [began EXCEPT ![c] = {d \in ClientCalls : request[d].at # "new"}]
  /\ UNCHANGED stray

Begin(c, id) ==
  /\ request[c].at = "new"
  /\ request' = [d \in ClientCalls |->
       IF d = c THEN Sent(c, id)
       ELSE [request[d] EXCEPT !.aborted = @ \/ (id # NoId /\ controllers[id] = d)]]
  /\ controllers' = IF id = NoId THEN controllers ELSE [controllers EXCEPT ![id] = c]
  /\ began' = [began EXCEPT ![c] = {d \in ClientCalls : request[d].at # "new"}]
  /\ UNCHANGED stray

\* A response that is there is not taken back by a later abort, which can only
\* spoil the reading of its body.
Answer(c, response) ==
  /\ request[c].at = "fetch" /\ ~request[c].aborted
  /\ request' = [request EXCEPT ![c].at = "answered", ![c].answer = response]
  /\ UNCHANGED <<controllers, began, stray>>

\* AbortError: the controller is not removed, it is another's by now or gone.
Rejected(c) ==
  /\ request[c].at = "fetch" /\ request[c].aborted
  /\ request' = [request EXCEPT ![c].at = "cancelled"]
  /\ UNCHANGED <<controllers, began, stray>>

Succeed(c) ==
  /\ request[c].at = "answered" /\ request[c].answer = "ok"
  /\ Ends(c, "done")
  /\ UNCHANGED began

\* A busy server is waited for after the last attempt too.
BackOff(c) ==
  /\ request[c].at = "answered"
  /\ \/ request[c].answer = "busy"
     \/ request[c].answer = "failed" /\ request[c].attempt < MaxRetries
  /\ request' = [request EXCEPT ![c].at = "sleep"]
  /\ UNCHANGED <<controllers, began, stray>>

\* What is not waited for is sent again at once.
SendAgain(c) ==
  /\ \/ request[c].at = "sleep"
     \/ request[c].at = "answered" /\ request[c].answer = "refused"
  /\ request[c].attempt < MaxRetries
  /\ request' = [request EXCEPT ![c].at = "fetch", ![c].attempt = @ + 1]
  /\ UNCHANGED <<controllers, began, stray>>

GiveUp(c) ==
  /\ request[c].attempt = MaxRetries
  /\ \/ request[c].at = "sleep"
     \/ request[c].at = "answered" /\ request[c].answer \in {"refused", "failed"}
  /\ Ends(c, "failed")
  /\ UNCHANGED began

CancelRequest(id) ==
  /\ controllers[id] # NoController
  /\ request' = [request EXCEPT ![controllers[id]].aborted = TRUE]
  /\ controllers' = [controllers EXCEPT ![id] = NoController]
  /\ UNCHANGED <<began, stray>>

ClientInit ==
  /\ request = [c \in ClientCalls |-> [Sent(c, NoId) EXCEPT !.at = "new"]]
  /\ controllers = [id \in RequestIds |-> NoController]
  /\ began = [c \in ClientCalls |-> {}]
  /\ stray = {}

ClientNext ==
  \/ \E c \in ClientCalls :
       \/ \E id \in RequestIds \cup {NoId} : Begin(c, id)
       \/ \E response \in Responses : Answer(c, response)
       \/ Rejected(c) \/ Succeed(c) \/ BackOff(c) \/ SendAgain(c) \/ GiveUp(c)
  \/ \E id \in RequestIds : CancelRequest(id)
===========================================================================
