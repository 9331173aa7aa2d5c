------------------------------ MODULE Store ------------------------------
(***************************************************************************)
(* One collection (schemas, scenarios, executions or reports) of the store *)
(* in either backend: the _ExpiryOrderedDict of services/store.py and the  *)
(* table of services/sqlite_store.py, over the life of the process.        *)
(*                                                                         *)
(* No store method awaits anything but a lock nobody holds across a step,  *)
(* so each is one step of the event loop.                                  *)
(***************************************************************************)
EXTENDS Naturals, FiniteSets

CONSTANTS
  Ids, Docs,     \* document ids, and what can be saved under them
  NoDoc,         \* no document
  NoCall,        \* the last step was not a call of a client
  MaxSize,       \* _maxsize
  TTL            \* _ttl, in ticks of the clock

\* A call of the interface with its document, the one saved or found, or with
\* the documents it lists.
Calls == [op : {"save", "get"}, id : Ids, doc : Docs \cup {NoDoc}]
           \cup [op : {"list"}, found : [Ids -> Docs \cup {NoDoc}]]

ASSUME StoreConstants ==
  /\ IsFiniteSet(Ids)
  /\ NoDoc \notin Docs
  /\ MaxSize \in Nat \ {0}
  /\ TTL \in Nat
  /\ NoCall \notin Calls

VARIABLES
  backend,     \* STORE_BACKEND
  doc,         \* the documents held, NoDoc under every other id
  stamped,     \* the keys of _timestamps
  age,         \* time since the timestamp, TTL + 1 for anything longer
  older,       \* <<i, j>>: i is before j in the OrderedDict
  call,        \* the last step, when a client took it
  sinceSave    \* history: time since the last save of each id

vars == <<backend, doc, stamped, age, older, call, sinceSave>>

Memory  == backend = "memory"
Held    == {i \in Ids : doc[i] # NoDoc}
--------------------------------------------------------------------------
\* _evict_expired.
Expired == {i \in stamped : age[i] > TTL}
Fresh   == Held \ Expired

\* Documents after j in the OrderedDict.
Newer(j, S, order) == {k \in S : <<j, k>> \in order}

\* Fault variants: one document too few is left, or one too many.
KeptEagerly(S, order)  == {j \in S : Cardinality(Newer(j, S, order)) + 1 < MaxSize}
KeptOneMore(S, order)  == {j \in S : Cardinality(Newer(j, S, order)) <= MaxSize}

\* _evict_oldest pops from the front while there are more than _maxsize.
Kept(S, order) == {j \in S : Cardinality(Newer(j, S, order)) < MaxSize}

\* A new key goes to the end of the OrderedDict, a known one keeps its place.
OrderWith(i) ==
  (older \cap (Fresh \X Fresh)) \cup (IF i \in Fresh THEN {} ELSE Fresh \X {i})

\* Fault variant: the timestamp of an evicted document stays.
MemorySaveLeaky(i, d) ==
  LET present == Fresh \cup {i}
      kept    == Kept(present, OrderWith(i))
  IN  /\ doc' = [j \in Ids |-> IF j \notin kept THEN NoDoc ELSE IF j = i THEN d ELSE doc[j]]
      /\ stamped' = (stamped \ Expired) \cup {i}
      /\ age' = [age EXCEPT ![i] = 0]
      /\ older' = OrderWith(i) \cap (kept \X kept)

\* __setitem__: evict what expired, store, stamp, evict the oldest.
MemorySave(i, d) ==
  LET present == Fresh \cup {i}
      kept    == Kept(present, OrderWith(i))
  IN  /\ doc' = [j \in Ids |-> IF j \notin kept THEN NoDoc ELSE IF j = i THEN d ELSE doc[j]]
      /\ stamped' = ((stamped \ Expired) \cup {i}) \ (present \ kept)
      /\ age' = [age EXCEPT ![i] = 0]
      /\ older' = OrderWith(i) \cap (kept \X kept)

\* Fault variants: the parameters of the INSERT swapped, or OR IGNORE.
SQLiteSaveSwapped(i, d) ==
  /\ doc' = [doc EXCEPT ![i] = i]
  /\ UNCHANGED <<stamped, age, older>>
SQLiteSaveOnce(i, d) ==
  /\ doc' = IF doc[i] = NoDoc THEN [doc EXCEPT ![i] = d] ELSE doc
  /\ UNCHANGED <<stamped, age, older>>

\* INSERT OR REPLACE and commit.
SQLiteSave(i, d) ==
  /\ doc' = [doc EXCEPT ![i] = d]
  /\ UNCHANGED <<stamped, age, older>>

\* save_schema, save_scenario, save_execution, save_report.
Save(i, d) ==
  /\ IF Memory THEN MemorySave(i, d) ELSE SQLiteSave(i, d)
  /\ call' = [op |-> "save", id |-> i, doc |-> d]
  /\ sinceSave' = [sinceSave EXCEPT ![i] = 0]
  /\ UNCHANGED backend

\* Fault variant: a get that leaves expired documents where they are.
GetUnchecked(i) ==
  /\ call' = [op |-> "get", id |-> i, doc |-> doc[i]]
  /\ UNCHANGED <<backend, doc, stamped, age, older, sinceSave>>

\* get_schema, get_scenario, get_execution, get_report. In memory every get
\* evicts whatever has expired; a table has no timestamps and loses nothing.
Get(i) ==
  /\ doc' = [j \in Ids |-> IF j \in Expired THEN NoDoc ELSE doc[j]]
  /\ stamped' = stamped \ Expired
  /\ older' = older \cap (Fresh \X Fresh)
  /\ call' = [op |-> "get", id |-> i, doc |-> doc'[i]]
  /\ UNCHANGED <<backend, age, sinceSave>>

\* Places in the dict, from the front.
Place(i) == Cardinality({k \in Held : <<k, i>> \in older})

\* items[offset : offset + limit] of the dict; a table's rows come in the
\* order of the wall clock, which is left open.
Pages(offset, limit) ==
  LET places == {k \in 0..Cardinality(Held) : offset <= k /\ k < offset + limit /\ k < Cardinality(Held)}
  IN  IF Memory THEN {{i \in Held : Place(i) \in places}}
      ELSE {S \in SUBSET Held : Cardinality(S) = Cardinality(places)}

\* list_schemas, list_scenarios, list_executions, list_reports: items() reads
\* past the dict's own __getitem__, so nothing is evicted.
List(offset, limit) ==
  /\ \E S \in Pages(offset, limit) :
       call' = [op |-> "list", found |-> [i \in Ids |-> IF i \in S THEN doc[i] ELSE NoDoc]]
  /\ UNCHANGED <<backend, doc, stamped, age, older, sinceSave>>

\* The end of the application's lifespan clears the store, whichever it is.
Shutdown ==
  /\ doc' = [i \in Ids |-> NoDoc]
  /\ stamped' = {}
  /\ older' = {}
  /\ call' = NoCall
  /\ UNCHANGED <<backend, age, sinceSave>>

\* The process dies: the memory is gone, the committed rows are not.
Crash ==
  /\ doc' = IF Memory THEN [i \in Ids |-> NoDoc] ELSE doc
  /\ stamped' = {}
  /\ older' = {}
  /\ call' = NoCall
  /\ UNCHANGED <<backend, age, sinceSave>>

AMomentLater(clock) == [i \in Ids |-> IF clock[i] > TTL THEN clock[i] ELSE clock[i] + 1]

Tick ==
  /\ age' = AMomentLater(age)
  /\ sinceSave' = AMomentLater(sinceSave)
  /\ call' = NoCall
  /\ UNCHANGED <<backend, doc, stamped, older>>
--------------------------------------------------------------------------
Init ==
  /\ backend \in {"memory", "sqlite"}
  /\ doc = [i \in Ids |-> NoDoc]
  /\ stamped = {} /\ older = {}
  /\ age = [i \in Ids |-> TTL + 1]
  /\ sinceSave = [i \in Ids |-> TTL + 1]
  /\ call = NoCall

Next == \/ \E i \in Ids, d \in Docs : Save(i, d)
        \/ \E i \in Ids : Get(i)
        \/ \E offset \in 0..Cardinality(Ids), limit \in 1..Cardinality(Ids) : List(offset, limit)
        \/ Shutdown
        \/ Crash
        \/ Tick

Spec == Init /\ [][Next]_vars
--------------------------------------------------------------------------
(* Properties.                                                           *)

TypeOK ==
  /\ backend \in {"memory", "sqlite"}
  /\ doc \in [Ids -> Docs \cup {NoDoc}]
  /\ stamped \subseteq Ids
  /\ age \in [Ids -> 0..(TTL + 1)]
  /\ older \subseteq Ids \X Ids
  /\ call \in Calls \cup {NoCall}
  /\ sinceSave \in [Ids -> 0..(TTL + 1)]

\* The two structures of the dict name the same keys: a document without a
\* timestamp would never expire, a timestamp without a document would leak.
StampsMatch == stamped = IF Memory THEN Held ELSE {}

\* The memory store never holds more documents than its limit.
Bounded == Memory => Cardinality(Held) <= MaxSize

\* After a save or a get the memory store holds nothing saved longer ago than
\* the TTL, and the document answered is the one it holds. So no get hands out
\* an expired document; a list may, and then one that expired since the last
\* save or get: nothing else sweeps.
SweptOnUse ==
  call # NoCall /\ Memory => (call.op \in {"save", "get"} =>
    call.doc = doc[call.id] /\ \A i \in Held : sinceSave[i] <= TTL)

\* An unexpired document is lost only to a new id in a full store, and then
\* it is the one whose id entered the dict first, however recently it was
\* read or saved again; or to the process.
NothingLostEarly ==
  [][\A i \in Fresh : doc'[i] = NoDoc =>
       \/ Memory /\ Cardinality(Fresh) = MaxSize
            /\ \E j \in Ids \ Fresh : doc'[j] # NoDoc /\ sinceSave'[j] = 0
            /\ \A k \in Fresh \ {i} : <<i, k>> \in older
       \/ call' = NoCall /\ \A k \in Ids : doc'[k] = NoDoc]_vars

\* "LRU eviction when capacity is exceeded" (store.py:77): the document just
\* read or saved is not the one the next call evicts from a dict with others.
JustUsedStays ==
  [][Memory /\ MaxSize > 1 /\ call # NoCall /\ call' # NoCall =>
       (call.op \in {"save", "get"} /\ call.doc # NoDoc => doc'[call.id] # NoDoc)]_vars

\* "Configure STORE_BACKEND=sqlite for persistence" (docs/configuration.md:99):
\* a row that was committed stays.
RowsPersist == [][~Memory => \A i \in Held : doc'[i] # NoDoc]_vars

\* Both backends keep the contract they share.
Contract == INSTANCE StoreContract WITH content <- doc
ImplementsContract == Contract!Spec
==========================================================================
