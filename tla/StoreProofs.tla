--------------------------- MODULE StoreProofs ---------------------------
(***************************************************************************)
(* Theorems about Store, for every set of ids and documents, every limit   *)
(* and every TTL.                                                          *)
(***************************************************************************)
EXTENDS Store, CommonLemmas

\* order puts the elements of S in a strict total order.
Ordering(order, S) ==
  /\ order \subseteq S \X S
  /\ \A i \in S : <<i, i>> \notin order
  /\ \A i, j \in S : i # j => <<i, j>> \in order \/ <<j, i>> \in order
  /\ \A i, j, k \in S : <<i, j>> \in order /\ <<j, k>> \in order => <<i, k>> \in order

\* The dict orders its keys; a table keeps none of the dict's bookkeeping.
Ordered == IF Memory THEN Ordering(older, Held) ELSE older = {}

\* The timestamps are those of the last saves.
AgesMatch == \A i \in stamped : age[i] = sinceSave[i]

\* The inductive invariant.
StoreInv == TypeOK /\ StampsMatch /\ Ordered /\ Bounded /\ AgesMatch /\ SweptOnUse
--------------------------------------------------------------------------
(* The order of the dict.                                                *)

\* Dropping elements leaves an order of the rest.
LEMMA SubOrdering ==
  ASSUME NEW order, NEW S, Ordering(order, S), NEW T \in SUBSET S
  PROVE  Ordering(order \cap (T \X T), T)
BY DEF Ordering

\* A new element goes to the end.
LEMMA AppendOrdering ==
  ASSUME NEW order, NEW S, Ordering(order, S), NEW i, i \notin S
  PROVE  Ordering(order \cup (S \X {i}), S \cup {i})
<1>. DEFINE R == order \cup (S \X {i})
<1>1. R \subseteq (S \cup {i}) \X (S \cup {i})
  BY DEF Ordering
<1>2. ASSUME NEW j \in S \cup {i}
      PROVE  <<i, j>> \notin R
  BY DEF Ordering
<1>3. ASSUME NEW j \in S, NEW k \in S \cup {i}
      PROVE  <<j, k>> \in R <=> k = i \/ <<j, k>> \in order
  BY DEF Ordering
<1>. HIDE DEF R
<1>4. \A j \in S \cup {i} : <<j, j>> \notin R
  BY <1>2, <1>3 DEF Ordering
<1>5. \A j, k \in S \cup {i} : j # k => <<j, k>> \in R \/ <<k, j>> \in R
  BY <1>3 DEF Ordering
<1>6. ASSUME NEW j \in S \cup {i}, NEW k \in S \cup {i}, NEW l \in S \cup {i},
             <<j, k>> \in R, <<k, l>> \in R
      PROVE  <<j, l>> \in R
  <2>1. j \in S /\ k \in S
    BY <1>2, <1>6
  <2>2. <<j, k>> \in order
    BY <1>3, <1>6, <2>1
  <2>. QED  BY <1>3, <1>6, <2>1, <2>2 DEF Ordering
<1>. QED  BY <1>1, <1>4, <1>5, <1>6 DEF Ordering, R

\* __setitem__ orders what it has before it evicts.
LEMMA SaveOrdering ==
  ASSUME StoreInv, Memory, NEW i \in Ids
  PROVE  Ordering(OrderWith(i), Fresh \cup {i})
<1>1. Fresh \in SUBSET Held /\ Ordering(older, Held)
  BY DEF StoreInv, Ordered, Fresh
<1>2. Ordering(older \cap (Fresh \X Fresh), Fresh)
  BY <1>1, SubOrdering
<1>3. CASE i \in Fresh
  <2>1. OrderWith(i) = older \cap (Fresh \X Fresh) /\ Fresh \cup {i} = Fresh
    BY <1>3 DEF OrderWith
  <2>. QED  BY <1>2, <2>1
<1>4. CASE i \notin Fresh
  <2>1. OrderWith(i) = (older \cap (Fresh \X Fresh)) \cup (Fresh \X {i})
    BY <1>4 DEF OrderWith
  <2>. HIDE DEF Ordering
  <2>. QED  BY <1>2, <1>4, <2>1, AppendOrdering
<1>. QED  BY <1>3, <1>4

\* _evict_oldest leaves at most the limit.
LEMMA KeptBounded ==
  ASSUME NEW S, IsFiniteSet(S), NEW order, Ordering(order, S)
  PROVE  Cardinality(Kept(S, order)) <= MaxSize
<1>. DEFINE R == [j \in S |-> Newer(j, S, order)]
<1>1. R \in [S -> SUBSET S]
  BY DEF Newer
<1>2. \A j, k \in S : k \in R[j] <=> <<j, k>> \in order
  BY DEF Newer
<1>3. Kept(S, order) = {j \in S : Cardinality(R[j]) < MaxSize}
  BY DEF Kept
<1>. HIDE DEF R
<1>4. \A j \in S : j \notin R[j]
  BY <1>2 DEF Ordering
<1>5. \A j, k \in S : j # k => j \in R[k] \/ k \in R[j]
  BY <1>2 DEF Ordering
<1>6. \A j, k \in S : j \in R[k] => R[j] \subseteq R[k]
  BY <1>1, <1>2 DEF Ordering
<1>. QED  BY <1>1, <1>3, <1>4, <1>5, <1>6, FirstFew, StoreConstants

\* What __setitem__ evicts to make room makes room for a new id, and has
\* every other document after it.
LEMMA EvictedIsOldest ==
  ASSUME StoreInv, Memory, NEW i \in Ids, NEW j \in Fresh \cup {i},
         j \notin Kept(Fresh \cup {i}, OrderWith(i))
  PROVE  /\ i \notin Fresh /\ i # j
         /\ Cardinality(Fresh) = MaxSize
         /\ \A k \in Fresh \ {j} : <<j, k>> \in older
<1>. DEFINE S == Fresh \cup {i}
            N == Newer(j, S, OrderWith(i))
<1>1. IsFiniteSet(Held) /\ IsFiniteSet(Fresh) /\ IsFiniteSet(S)
  <2>1. Held \in SUBSET Ids /\ Fresh \in SUBSET Ids /\ S \in SUBSET Ids
    BY DEF Held, Fresh
  <2>. QED  BY <2>1, FS_Subset, StoreConstants
<1>2. Ordering(OrderWith(i), S)
  BY SaveOrdering
<1>3. N \in SUBSET (S \ {j})
  BY <1>2 DEF Newer, Ordering
<1>4. /\ Cardinality(S \ {j}) = Cardinality(S) - 1
      /\ IsFiniteSet(S \ {j})
  BY <1>1, FS_RemoveElement
<1>5. /\ IsFiniteSet(N)
      /\ Cardinality(N) <= Cardinality(S \ {j})
      /\ Cardinality(S \ {j}) = Cardinality(N) => S \ {j} = N
  BY <1>3, <1>4, FS_Subset
<1>6. /\ Cardinality(N) \in Nat /\ Cardinality(S) \in Nat
      /\ Cardinality(Fresh) \in Nat /\ Cardinality(Held) \in Nat
  BY <1>1, <1>5, FS_CardinalityType
<1>7. ~(Cardinality(N) < MaxSize)
  BY DEF Kept
<1>8. Cardinality(Fresh) <= MaxSize
  <2>1. Fresh \in SUBSET Held
    BY DEF Fresh
  <2>2. Cardinality(Fresh) <= Cardinality(Held)
    BY <1>1, <2>1, FS_Subset
  <2>3. Cardinality(Held) <= MaxSize
    BY DEF StoreInv, Bounded
  <2>. QED  BY <1>6, <2>2, <2>3, StoreConstants
<1>9. Cardinality(S) = IF i \in Fresh THEN Cardinality(Fresh) ELSE Cardinality(Fresh) + 1
  BY <1>1, FS_AddElement
<1>. HIDE DEF N, S
<1>10. i \notin Fresh /\ Cardinality(Fresh) = MaxSize /\ Cardinality(N) = Cardinality(S) - 1
  BY <1>4, <1>5, <1>6, <1>7, <1>8, <1>9, StoreConstants
<1>11. N = S \ {j}
  BY <1>4, <1>5, <1>10
<1>12. i # j
  <2>. SUFFICES ASSUME i = j PROVE FALSE
    OBVIOUS
  <2>1. Cardinality(N) > 0
    BY <1>6, <1>7, StoreConstants
  <2>2. N # {}
    BY <2>1, FS_EmptySet
  <2>3. PICK k \in S : <<i, k>> \in OrderWith(i)
    BY <2>2 DEF N, Newer
  <2>. QED  BY <1>10, <2>3 DEF OrderWith
<1>13. \A k \in Fresh \ {j} : <<j, k>> \in older
  BY <1>10, <1>11 DEF N, S, Newer, OrderWith
<1>. QED  BY <1>10, <1>12, <1>13
--------------------------------------------------------------------------
(* The invariant.                                                        *)

LEMMA InitStoreInv == Init => StoreInv
<1>. SUFFICES ASSUME Init PROVE StoreInv
  OBVIOUS
<1>1. Held = {}
  BY DEF Init, Held
<1>2. TypeOK
  BY StoreConstants DEF Init, TypeOK
<1>3. StampsMatch /\ AgesMatch /\ SweptOnUse
  BY <1>1 DEF Init, StampsMatch, AgesMatch, SweptOnUse
<1>4. Ordered
  BY <1>1 DEF Init, Ordered, Ordering
<1>5. Bounded
  BY <1>1, FS_EmptySet, StoreConstants DEF Bounded
<1>. QED  BY <1>2, <1>3, <1>4, <1>5 DEF StoreInv

\* What __setitem__ does to a dict in good order.
LEMMA MemorySaveEffect ==
  ASSUME StoreInv, Memory, NEW i \in Ids, NEW d \in Docs, MemorySave(i, d)
  PROVE  LET kept == Kept(Fresh \cup {i}, OrderWith(i))
         IN  /\ kept \subseteq Fresh \cup {i} /\ i \in kept
             /\ doc' = [j \in Ids |-> IF j \notin kept THEN NoDoc ELSE IF j = i THEN d ELSE doc[j]]
             /\ doc' \in [Ids -> Docs \cup {NoDoc}]
             /\ Held' = kept /\ stamped' = kept
             /\ age' = [age EXCEPT ![i] = 0]
             /\ older' = OrderWith(i) \cap (kept \X kept)
<1>. DEFINE kept == Kept(Fresh \cup {i}, OrderWith(i))
<1>1. kept \subseteq Fresh \cup {i} /\ Fresh \subseteq Ids
  BY DEF Kept, Fresh, Held
<1>2. i \in kept
  BY EvictedIsOldest
<1>3. /\ doc' = [j \in Ids |-> IF j \notin kept THEN NoDoc ELSE IF j = i THEN d ELSE doc[j]]
      /\ stamped' = ((stamped \ Expired) \cup {i}) \ ((Fresh \cup {i}) \ kept)
      /\ age' = [age EXCEPT ![i] = 0]
      /\ older' = OrderWith(i) \cap (kept \X kept)
  BY DEF MemorySave
<1>. HIDE DEF kept
<1>4. doc' \in [Ids -> Docs \cup {NoDoc}]
  BY <1>3 DEF StoreInv, TypeOK
<1>5. Held' = kept
  BY <1>1, <1>2, <1>3, StoreConstants DEF Held, Fresh
<1>6. stamped \ Expired = Fresh
  BY DEF StoreInv, StampsMatch, Fresh
<1>7. stamped' = kept
  BY <1>1, <1>2, <1>3, <1>6
<1>. QED  BY <1>1, <1>2, <1>3, <1>4, <1>5, <1>7 DEF kept

LEMMA SaveStep ==
  ASSUME StoreInv, NEW i \in Ids, NEW d \in Docs, Save(i, d)
  PROVE  StoreInv'
<1>1. /\ backend' = backend /\ call' = [op |-> "save", id |-> i, doc |-> d]
      /\ sinceSave' = [sinceSave EXCEPT ![i] = 0]
  BY DEF Save
<1>2. ~Memory => SweptOnUse'
  BY <1>1 DEF SweptOnUse, Memory
<1>3. CASE Memory
  <2>. DEFINE kept == Kept(Fresh \cup {i}, OrderWith(i))
  <2>1. MemorySave(i, d)
    BY <1>3 DEF Save
  <2>2. /\ kept \subseteq Fresh \cup {i} /\ i \in kept
        /\ doc' = [j \in Ids |-> IF j \notin kept THEN NoDoc ELSE IF j = i THEN d ELSE doc[j]]
        /\ doc' \in [Ids -> Docs \cup {NoDoc}]
        /\ Held' = kept /\ stamped' = kept
        /\ age' = [age EXCEPT ![i] = 0]
        /\ older' = OrderWith(i) \cap (kept \X kept)
    BY <1>3, <2>1, MemorySaveEffect
  <2>3. Ordering(OrderWith(i), Fresh \cup {i})
    BY <1>3, SaveOrdering
  <2>4. Ordering(older', kept)
    BY <2>2, <2>3, SubOrdering
  <2>5. Cardinality(kept) <= MaxSize
    <3>1. Fresh \cup {i} \in SUBSET Ids
      BY DEF Fresh, Held
    <3>2. IsFiniteSet(Fresh \cup {i})
      BY <3>1, FS_Subset, StoreConstants
    <3>. QED  BY <2>3, <3>2, KeptBounded
  <2>. HIDE DEF kept
  <2>6. Fresh \subseteq stamped /\ Fresh \subseteq Ids
    BY <1>3 DEF StoreInv, StampsMatch, Fresh, Held
  <2>7. TypeOK'
    <3>1. older' \subseteq Ids \X Ids
      BY <2>2, <2>4, <2>6 DEF Ordering
    <3>. QED  BY <1>1, <2>2, <2>6, <3>1, StoreConstants DEF StoreInv, TypeOK, Calls
  <2>8. StampsMatch' /\ Bounded' /\ Memory'
    BY <1>1, <1>3, <2>2, <2>5 DEF StampsMatch, Bounded, Memory
  <2>9. Ordered'
    BY <2>2, <2>4, <2>8 DEF Ordered
  <2>10. AgesMatch'
    BY <1>1, <2>2, <2>6 DEF StoreInv, AgesMatch, TypeOK
  <2>11. SweptOnUse'
    <3>1. doc'[i] = d
      BY <2>2
    <3>2. ASSUME NEW j \in Held' PROVE sinceSave'[j] <= TTL
      <4>1. CASE j = i
        BY <1>1, <4>1, StoreConstants DEF StoreInv, TypeOK
      <4>2. CASE j # i
        <5>1. j \in Fresh
          BY <2>2, <3>2, <4>2
        <5>2. age[j] <= TTL /\ j \in stamped /\ j \in Ids
          BY <2>6, <5>1, StoreConstants DEF Fresh, Expired, StoreInv, TypeOK
        <5>. QED  BY <1>1, <4>2, <5>2 DEF StoreInv, AgesMatch, TypeOK
      <4>. QED  BY <4>1, <4>2
    <3>. QED  BY <1>1, <3>1, <3>2 DEF SweptOnUse
  <2>. QED  BY <2>7, <2>8, <2>9, <2>10, <2>11 DEF StoreInv
<1>4. CASE ~Memory
  <2>1. doc' = [doc EXCEPT ![i] = d] /\ UNCHANGED <<stamped, age, older>>
    BY <1>4 DEF Save, SQLiteSave
  <2>2. stamped = {} /\ older = {}
    BY <1>4 DEF StoreInv, StampsMatch, Ordered
  <2>3. TypeOK'
    BY <1>1, <2>1, StoreConstants DEF StoreInv, TypeOK, Calls
  <2>4. StampsMatch' /\ Ordered' /\ Bounded' /\ AgesMatch'
    BY <1>1, <1>4, <2>1, <2>2 DEF StampsMatch, Ordered, Bounded, AgesMatch, Memory
  <2>. QED  BY <1>2, <1>4, <2>3, <2>4 DEF StoreInv
<1>. QED  BY <1>3, <1>4

LEMMA GetStep ==
  ASSUME StoreInv, NEW i \in Ids, Get(i)
  PROVE  StoreInv'
<1>1. /\ doc' = [j \in Ids |-> IF j \in Expired THEN NoDoc ELSE doc[j]]
      /\ stamped' = stamped \ Expired
      /\ older' = older \cap (Fresh \X Fresh)
      /\ call' = [op |-> "get", id |-> i, doc |-> doc'[i]]
      /\ UNCHANGED <<backend, age, sinceSave>>
  BY DEF Get
<1>2. Held' = Fresh /\ doc' \in [Ids -> Docs \cup {NoDoc}]
  BY <1>1 DEF StoreInv, TypeOK, Held, Fresh
<1>3. TypeOK'
  BY <1>1, <1>2 DEF StoreInv, TypeOK, Calls
<1>4. StampsMatch'
  BY <1>1, <1>2 DEF StoreInv, StampsMatch, Fresh, Memory
<1>5. Ordered'
  <2>1. CASE Memory
    <3>1. Ordering(older, Held) /\ Fresh \in SUBSET Held
      BY <2>1 DEF StoreInv, Ordered, Fresh
    <3>2. Ordering(older', Fresh)
      BY <1>1, <3>1, SubOrdering
    <3>. QED  BY <1>1, <1>2, <2>1, <3>2 DEF Ordered, Memory
  <2>2. CASE ~Memory
    BY <1>1, <2>2 DEF StoreInv, Ordered, Memory
  <2>. QED  BY <2>1, <2>2
<1>6. Bounded'
  <2>. SUFFICES ASSUME Memory PROVE Cardinality(Fresh) <= MaxSize
    BY <1>1, <1>2 DEF Bounded, Memory
  <2>1. Held \in SUBSET Ids /\ Fresh \in SUBSET Held
    BY DEF Held, Fresh
  <2>2. IsFiniteSet(Held) /\ IsFiniteSet(Fresh) /\ Cardinality(Fresh) <= Cardinality(Held)
    BY <2>1, FS_Subset, StoreConstants
  <2>3. Cardinality(Held) <= MaxSize
    BY DEF StoreInv, Bounded
  <2>. QED  BY <2>2, <2>3, FS_CardinalityType, StoreConstants
<1>7. AgesMatch'
  BY <1>1 DEF StoreInv, AgesMatch
<1>8. SweptOnUse'
  <2>. SUFFICES ASSUME Memory, NEW j \in Fresh PROVE sinceSave[j] <= TTL
    BY <1>1, <1>2 DEF SweptOnUse, Memory
  <2>1. j \in stamped /\ j \notin Expired
    BY DEF StoreInv, StampsMatch, Fresh
  <2>2. age[j] <= TTL
    BY <2>1, StoreConstants DEF Expired, StoreInv, TypeOK
  <2>. QED  BY <2>1, <2>2 DEF StoreInv, AgesMatch
<1>. QED  BY <1>3, <1>4, <1>5, <1>6, <1>7, <1>8 DEF StoreInv

\* A list shows documents that are held.
LEMMA ListEffect ==
  ASSUME StoreInv, NEW offset, NEW limit, List(offset, limit)
  PROVE  /\ UNCHANGED <<backend, doc, stamped, age, older, sinceSave>>
         /\ call' \in [op : {"list"}, found : [Ids -> Docs \cup {NoDoc}]]
         /\ \A i \in Ids : call'.found[i] \in {doc[i], NoDoc}
<1>1. PICK S \in Pages(offset, limit) :
        call' = [op |-> "list", found |-> [i \in Ids |-> IF i \in S THEN doc[i] ELSE NoDoc]]
  BY DEF List
<1>. QED  BY <1>1 DEF List, StoreInv, TypeOK

LEMMA ListStep ==
  ASSUME StoreInv, NEW offset, NEW limit, List(offset, limit)
  PROVE  StoreInv'
<1>1. /\ UNCHANGED <<backend, doc, stamped, age, older, sinceSave>>
      /\ call' \in [op : {"list"}, found : [Ids -> Docs \cup {NoDoc}]]
  BY ListEffect
<1>2. Held' = Held /\ Memory' = Memory
  BY <1>1 DEF Held, Memory
<1>3. TypeOK'
  BY <1>1 DEF StoreInv, TypeOK, Calls
<1>4. StampsMatch' /\ Ordered' /\ Bounded' /\ AgesMatch'
  BY <1>1, <1>2 DEF StoreInv, StampsMatch, Ordered, Bounded, AgesMatch
<1>5. SweptOnUse'
  BY <1>1 DEF SweptOnUse
<1>. QED  BY <1>3, <1>4, <1>5 DEF StoreInv

LEMMA RestartStep ==
  ASSUME StoreInv, Shutdown \/ Crash
  PROVE  StoreInv'
<1>1. /\ doc' \in {doc, [i \in Ids |-> NoDoc]}
      /\ Memory => Held' = {}
      /\ stamped' = {} /\ older' = {} /\ call' = NoCall
      /\ UNCHANGED <<backend, age, sinceSave>>
  BY DEF Shutdown, Crash, Held
<1>2. TypeOK'
  BY <1>1 DEF StoreInv, TypeOK
<1>3. StampsMatch' /\ AgesMatch' /\ SweptOnUse'
  BY <1>1 DEF StampsMatch, AgesMatch, SweptOnUse, Memory
<1>4. Ordered'
  BY <1>1 DEF Ordered, Ordering, Memory
<1>5. Bounded'
  BY <1>1, FS_EmptySet, StoreConstants DEF Bounded, Memory
<1>. QED  BY <1>2, <1>3, <1>4, <1>5 DEF StoreInv

LEMMA TickStep ==
  ASSUME StoreInv, Tick
  PROVE  StoreInv'
<1>1. /\ age' = AMomentLater(age) /\ sinceSave' = AMomentLater(sinceSave)
      /\ call' = NoCall /\ UNCHANGED <<backend, doc, stamped, older>>
  BY DEF Tick
<1>2. TypeOK'
  BY <1>1, StoreConstants DEF StoreInv, TypeOK, AMomentLater
<1>3. Held' = Held /\ Memory' = Memory
  BY <1>1 DEF Held, Memory
<1>4. StampsMatch' /\ Ordered' /\ Bounded' /\ SweptOnUse'
  BY <1>1, <1>3 DEF StoreInv, StampsMatch, Ordered, Bounded, SweptOnUse
<1>5. AgesMatch'
  BY <1>1 DEF StoreInv, AgesMatch, AMomentLater, TypeOK
<1>. QED  BY <1>2, <1>4, <1>5 DEF StoreInv

LEMMA NextStoreInv == StoreInv /\ [Next]_vars => StoreInv'
<1>. SUFFICES ASSUME StoreInv, [Next]_vars PROVE StoreInv'
  OBVIOUS
<1>1. ASSUME UNCHANGED vars PROVE StoreInv'
  <2>1. Held' = Held
    BY <1>1 DEF vars, Held
  <2>. QED
    BY <1>1, <2>1 DEF vars, StoreInv, TypeOK, StampsMatch, Ordered, Bounded, AgesMatch,
                      SweptOnUse, Memory
<1>. QED  BY <1>1, SaveStep, GetStep, ListStep, RestartStep, TickStep DEF Next

LEMMA AlwaysStoreInv == Spec => []StoreInv
<1>1. Init => StoreInv
  BY InitStoreInv
<1>2. StoreInv /\ [Next]_vars => StoreInv'
  BY NextStoreInv
<1>. QED  BY <1>1, <1>2, PTL DEF Spec
--------------------------------------------------------------------------
(* What the store guarantees.                                            *)

\* Type correctness.
THEOREM TypeCorrect == Spec => []TypeOK
<1>1. StoreInv => TypeOK
  BY DEF StoreInv
<1>. QED  BY <1>1, AlwaysStoreInv, PTL

\* The dict and its timestamps never disagree on the keys.
THEOREM StampsAgree == Spec => []StampsMatch
<1>1. StoreInv => StampsMatch
  BY DEF StoreInv
<1>. QED  BY <1>1, AlwaysStoreInv, PTL

\* The memory store stays within its limit.
THEOREM CapacityHolds == Spec => []Bounded
<1>1. StoreInv => Bounded
  BY DEF StoreInv
<1>. QED  BY <1>1, AlwaysStoreInv, PTL

\* A save or a get leaves nothing expired in the memory store, and hands out
\* what is held.
THEOREM UseSweeps == Spec => []SweptOnUse
<1>1. StoreInv => SweptOnUse
  BY DEF StoreInv
<1>. QED  BY <1>1, AlwaysStoreInv, PTL

\* Unexpired documents are lost to a full dict, oldest first, or to a restart.
THEOREM LostInOrder == Spec => NothingLostEarly
<1>1. ASSUME StoreInv, [Next]_vars, NEW i \in Fresh, doc'[i] = NoDoc
      PROVE  \/ Memory /\ Cardinality(Fresh) = MaxSize
                  /\ \E j \in Ids \ Fresh : doc'[j] # NoDoc /\ sinceSave'[j] = 0
                  /\ \A k \in Fresh \ {i} : <<i, k>> \in older
             \/ call' = NoCall /\ \A k \in Ids : doc'[k] = NoDoc
  <2>1. i \in Ids /\ doc[i] # NoDoc /\ i \notin Expired
    BY DEF Fresh, Held
  <2>2. ASSUME NEW j \in Ids, NEW d \in Docs, Save(j, d), Memory
        PROVE  /\ Cardinality(Fresh) = MaxSize
               /\ \E k \in Ids \ Fresh : doc'[k] # NoDoc /\ sinceSave'[k] = 0
               /\ \A k \in Fresh \ {i} : <<i, k>> \in older
    <3>. DEFINE kept == Kept(Fresh \cup {j}, OrderWith(j))
    <3>1. MemorySave(j, d) /\ sinceSave' = [sinceSave EXCEPT ![j] = 0]
      BY <2>2 DEF Save
    <3>2. /\ j \in kept
          /\ doc' = [k \in Ids |-> IF k \notin kept THEN NoDoc ELSE IF k = j THEN d ELSE doc[k]]
      BY <1>1, <2>2, <3>1, MemorySaveEffect
    <3>. HIDE DEF kept
    <3>3. i \notin kept
      BY <1>1, <2>1, <3>2, StoreConstants
    <3>4. /\ j \notin Fresh
          /\ Cardinality(Fresh) = MaxSize
          /\ \A k \in Fresh \ {i} : <<i, k>> \in older
      BY <1>1, <2>2, <3>3, EvictedIsOldest DEF kept
    <3>5. doc'[j] = d /\ sinceSave'[j] = 0
      BY <1>1, <3>1, <3>2 DEF StoreInv, TypeOK
    <3>. QED  BY <2>2, <3>4, <3>5, StoreConstants
  <2>3. ASSUME NEW j \in Ids, NEW d \in Docs, Save(j, d), ~Memory
        PROVE  FALSE
    BY <1>1, <2>1, <2>3, StoreConstants DEF Save, SQLiteSave, StoreInv, TypeOK
  <2>4. ASSUME NEW j \in Ids, Get(j)
        PROVE  FALSE
    BY <1>1, <2>1, <2>4 DEF Get
  <2>5. ASSUME NEW offset, NEW limit, List(offset, limit)
        PROVE  FALSE
    BY <1>1, <2>1, <2>5 DEF List
  <2>6. ASSUME Shutdown \/ Crash
        PROVE  call' = NoCall /\ \A k \in Ids : doc'[k] = NoDoc
    BY <1>1, <2>1, <2>6 DEF Shutdown, Crash
  <2>7. ~Tick /\ ~UNCHANGED vars
    BY <1>1, <2>1 DEF Tick, vars
  <2>. QED  BY <1>1, <2>2, <2>3, <2>4, <2>6, <2>7, <2>5 DEF Next
<1>2. StoreInv /\ [Next]_vars =>
        [\A i \in Fresh : doc'[i] = NoDoc =>
           \/ Memory /\ Cardinality(Fresh) = MaxSize
                /\ \E j \in Ids \ Fresh : doc'[j] # NoDoc /\ sinceSave'[j] = 0
                /\ \A k \in Fresh \ {i} : <<i, k>> \in older
           \/ call' = NoCall /\ \A k \in Ids : doc'[k] = NoDoc]_vars
  BY <1>1
<1>. QED  BY <1>2, AlwaysStoreInv, PTL DEF Spec, NothingLostEarly

\* Both backends implement StoreContract.
THEOREM Refinement == Spec => ImplementsContract
<1>1. Init => Contract!Init
  BY DEF Init, Contract!Init
<1>2. StoreInv /\ [Next]_vars => [Contract!Next]_<<doc, call>>
  <2>. SUFFICES ASSUME StoreInv, [Next]_vars PROVE [Contract!Next]_<<doc, call>>
    OBVIOUS
  <2>0. doc \in [Ids -> Docs \cup {NoDoc}]
    BY DEF StoreInv, TypeOK
  <2>1. ASSUME NEW i \in Ids, NEW d \in Docs, Save(i, d)
        PROVE  Contract!Save(i, d)
    <3>1. CASE Memory
      <4>. DEFINE kept == Kept(Fresh \cup {i}, OrderWith(i))
      <4>1. /\ i \in kept
            /\ doc' = [j \in Ids |-> IF j \notin kept THEN NoDoc ELSE IF j = i THEN d ELSE doc[j]]
            /\ doc' \in [Ids -> Docs \cup {NoDoc}]
        BY <2>1, <3>1, MemorySaveEffect DEF Save
      <4>. HIDE DEF kept
      <4>2. Contract!Dropped([doc EXCEPT ![i] = d], doc')
        BY <2>0, <4>1 DEF Contract!Dropped
      <4>. QED  BY <2>1, <4>1, <4>2 DEF Contract!Save, Save
    <3>2. CASE ~Memory
      <4>1. doc' = [doc EXCEPT ![i] = d] /\ call' = [op |-> "save", id |-> i, doc |-> d]
        BY <2>1, <3>2 DEF Save, SQLiteSave
      <4>. QED  BY <2>0, <4>1 DEF Contract!Save, Contract!Dropped
    <3>. QED  BY <3>1, <3>2
  <2>2. ASSUME NEW i \in Ids, Get(i)
        PROVE  Contract!Get(i)
    BY <2>0, <2>2 DEF Get, Contract!Get, Contract!Dropped
  <2>3. ASSUME NEW offset, NEW limit, List(offset, limit)
        PROVE  Contract!List
    BY <2>3, ListEffect DEF Contract!List, Contract!Dropped
  <2>4. ASSUME Shutdown \/ Crash
        PROVE  Contract!Restart
    BY <2>0, <2>4 DEF Shutdown, Crash, Contract!Restart, Contract!Dropped
  <2>5. ASSUME Tick
        PROVE  Contract!Restart
    BY <2>0, <2>5 DEF Tick, Contract!Restart, Contract!Dropped
  <2>6. ASSUME UNCHANGED vars
        PROVE  UNCHANGED <<doc, call>>
    BY <2>6 DEF vars
  <2>. QED  BY <2>1, <2>2, <2>4, <2>5, <2>6, <2>3 DEF Next, Contract!Next
<1>. QED  BY <1>1, <1>2, AlwaysStoreInv, PTL DEF Spec, ImplementsContract, Contract!Spec
==========================================================================
