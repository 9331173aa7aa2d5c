-------------------------- MODULE StoreContract --------------------------
(***************************************************************************)
(* What a collection of the store promises its callers (the interface the  *)
(* in-memory and the SQLite store share): a get answers the document last  *)
(* saved under the id or nothing, and an id never gets another's document. *)
(* The store may drop documents when it is used, except the one it is      *)
(* saving, and a list shows some of those it holds.                        *)
(***************************************************************************)
CONSTANTS Ids, Docs, NoDoc, NoCall

VARIABLES
  content,   \* the document held under each id, NoDoc when there is none
  call       \* the last step, when a client took it: what it saved or found

\* Some documents may be gone, the others are what they were.
Dropped(before, after) == \A i \in Ids : after[i] \in {before[i], NoDoc}

Init == content = [i \in Ids |-> NoDoc] /\ call = NoCall

Save(i, d) ==
  /\ content' \in [Ids -> Docs \cup {NoDoc}]
  /\ Dropped([content EXCEPT ![i] = d], content')
  /\ content'[i] = d
  /\ call' = [op |-> "save", id |-> i, doc |-> d]

Get(i) ==
  /\ content' \in [Ids -> Docs \cup {NoDoc}]
  /\ Dropped(content, content')
  /\ call' = [op |-> "get", id |-> i, doc |-> content'[i]]

List ==
  /\ call' \in [op : {"list"}, found : [Ids -> Docs \cup {NoDoc}]]
  /\ Dropped(content, call'.found)
  /\ UNCHANGED content

Restart ==
  /\ content' \in [Ids -> Docs \cup {NoDoc}]
  /\ Dropped(content, content')
  /\ call' = NoCall

Next == \/ \E i \in Ids, d \in Docs : Save(i, d)
        \/ \E i \in Ids : Get(i)
        \/ List
        \/ Restart

Spec == Init /\ [][Next]_<<content, call>>
==========================================================================
