---------------------------- MODULE LruCacheProofs ---------------------------
(* Theorems about LruCache, for any threads, keys, values and capacity.    *)
EXTENDS LruCache, SequenceTheorems, TLAPS

\* The map, the list and the elements have their types.
DataTypes == /\ store \in [Key -> Elem \union {None}]
             /\ order \in Seq(Elem)
             /\ entry \in [Elem -> Entry \union {None}]

\* A Get between its two sections holds an element and a key, and a cleanup
\* has only keys of the map before it.
Holding == /\ \A t \in Thread : pc[t] # "idle" => held[t].elem \in Elem /\ held[t].key \in Key
           /\ \A k \in sweep : cleaner = "sweeping" /\ store[k] # None

IInv == TypeOK /\ Coherent /\ Bounded /\ Holding

-----------------------------------------------------------------------------
(* Lists without repetition.                                               *)

Distinct(s) == \A i, j \in 1..Len(s) : s[i] = s[j] => i = j
Members(s)  == {s[i] : i \in 1..Len(s)}

LEMMA RemoveAtFacts ==
  ASSUME NEW S, NEW s \in Seq(S), NEW i \in 1..Len(s)
  PROVE  /\ RemoveAt(s, i) \in Seq(S)
         /\ Len(RemoveAt(s, i)) = Len(s) - 1
         /\ \A j \in 1..(Len(s) - 1) : RemoveAt(s, i)[j] = IF j < i THEN s[j] ELSE s[j + 1]
<1> DEFINE a == SubSeq(s, 1, i - 1)
           b == SubSeq(s, i + 1, Len(s))
<1>0. Len(s) \in Nat /\ \A j \in 1..Len(s) : s[j] \in S
  BY LenProperties, ElementOfSeq
<1>1. a \in Seq(S) /\ Len(a) = i - 1 /\ \A j \in 1..(i - 1) : a[j] = s[j]
  <2>1. \A j \in 1..(i - 1) : s[j] \in S
    BY <1>0
  <2> QED BY <1>0, <2>1, SubSeqProperties, Z3
<1>2. b \in Seq(S) /\ Len(b) = Len(s) - i /\ \A j \in 1..(Len(s) - i) : b[j] = s[i + j]
  <2>1. \A j \in (i + 1)..Len(s) : s[j] \in S
    BY <1>0
  <2> QED BY <1>0, <2>1, SubSeqProperties, Z3
<1>4. RemoveAt(s, i) = a \o b
  BY DEF RemoveAt
<1> HIDE DEF a, b
<1>3. /\ a \o b \in Seq(S) /\ Len(a \o b) = Len(s) - 1
      /\ \A j \in 1..(Len(s) - 1) : (a \o b)[j] = IF j <= i - 1 THEN a[j] ELSE b[j - (i - 1)]
  <2>1. Len(a) + Len(b) = Len(s) - 1
    BY <1>0, <1>1, <1>2
  <2>2. /\ a \o b \in Seq(S) /\ Len(a \o b) = Len(a) + Len(b)
        /\ \A j \in 1..(Len(a) + Len(b)) :
             (a \o b)[j] = IF j <= Len(a) THEN a[j] ELSE b[j - Len(a)]
    BY <1>1, <1>2, ConcatProperties, Zenon
  <2>3. Len(a) = i - 1
    BY <1>1
  <2> QED BY <2>1, <2>2, <2>3
<1>5. ASSUME NEW j \in 1..(Len(s) - 1)
      PROVE  (a \o b)[j] = IF j < i THEN s[j] ELSE s[j + 1]
  <2>0. i \in Nat /\ j \in Nat /\ j >= 1 /\ i <= Len(s) /\ j <= Len(s) - 1
    BY <1>0, <1>5
  <2>1. (a \o b)[j] = IF j <= i - 1 THEN a[j] ELSE b[j - (i - 1)]
    BY <1>3, <1>5
  <2>2. CASE j < i
    <3>1. j \in 1..(i - 1)
      BY <2>0, <2>2
    <3> QED BY <1>1, <2>0, <2>1, <2>2, <3>1
  <2>3. CASE ~(j < i)
    <3>1. j - (i - 1) \in 1..(Len(s) - i) /\ i + (j - (i - 1)) = j + 1 /\ ~(j <= i - 1)
      BY <1>0, <2>0, <2>3
    <3>2. b[j - (i - 1)] = s[i + (j - (i - 1))]
      BY <1>2, <3>1
    <3> QED BY <2>1, <2>3, <3>1, <3>2
  <2> QED BY <2>2, <2>3
<1> QED BY <1>3, <1>4, <1>5

LEMMA RemovedFromList ==
  ASSUME NEW S, NEW s \in Seq(S), NEW i \in 1..Len(s), Distinct(s)
  PROVE  /\ RemoveAt(s, i) \in Seq(S) /\ Distinct(RemoveAt(s, i))
         /\ Len(RemoveAt(s, i)) = Len(s) - 1
         /\ Members(RemoveAt(s, i)) = Members(s) \ {s[i]}
<1> DEFINE r == RemoveAt(s, i)
<1>0. Len(s) \in Nat
  BY LenProperties
<1>1. /\ r \in Seq(S) /\ Len(r) = Len(s) - 1
      /\ \A j \in 1..(Len(s) - 1) : r[j] = IF j < i THEN s[j] ELSE s[j + 1]
  BY RemoveAtFacts
<1> HIDE DEF r
<1>2. Distinct(r)
  <2> SUFFICES ASSUME NEW j \in 1..Len(r), NEW k \in 1..Len(r), r[j] = r[k]
               PROVE  j = k
    BY DEF Distinct
  <2> DEFINE At(n) == IF n < i THEN n ELSE n + 1
  <2>1. /\ At(j) \in 1..Len(s) /\ r[j] = s[At(j)]
        /\ At(k) \in 1..Len(s) /\ r[k] = s[At(k)]
    BY <1>0, <1>1
  <2>2. At(j) = At(k)
    BY <2>1 DEF Distinct
  <2> QED BY <1>0, <1>1, <2>2
<1>3. Members(r) \subseteq Members(s) \ {s[i]}
  BY <1>0, <1>1 DEF Distinct, Members
<1>4. ASSUME NEW j \in 1..Len(s), s[j] # s[i]
      PROVE  s[j] \in Members(r)
  <2>1. CASE j < i
    <3>1. j \in 1..Len(r) /\ r[j] = s[j]
      BY <1>0, <1>1, <2>1
    <3> QED BY <3>1 DEF Members
  <2>2. CASE j > i
    <3>1. j - 1 \in 1..Len(r) /\ r[j - 1] = s[j]
      BY <1>0, <1>1, <2>2
    <3> QED BY <3>1 DEF Members
  <2> QED BY <1>4, <2>1, <2>2
<1>5. Members(s) \ {s[i]} \subseteq Members(r)
  BY <1>4 DEF Members
<1> QED BY <1>1, <1>2, <1>3, <1>5 DEF r

LEMMA PushedOnList ==
  ASSUME NEW S, NEW s \in Seq(S), NEW e \in S, e \notin Members(s), Distinct(s)
  PROVE  /\ <<e>> \o s \in Seq(S) /\ Distinct(<<e>> \o s)
         /\ Len(<<e>> \o s) = Len(s) + 1
         /\ Members(<<e>> \o s) = Members(s) \union {e}
<1> DEFINE r == <<e>> \o s
<1>0. Len(s) \in Nat /\ <<e>> \in Seq(S) /\ Len(<<e>>) = 1 /\ <<e>>[1] = e
  BY LenProperties
<1>1. /\ r \in Seq(S) /\ Len(r) = Len(s) + 1
      /\ \A j \in 1..(Len(s) + 1) : r[j] = IF j <= 1 THEN <<e>>[j] ELSE s[j - 1]
  BY <1>0, ConcatProperties, Z3
<1> HIDE DEF r
<1>2. \A j \in 1..(Len(s) + 1) : r[j] = IF j = 1 THEN e ELSE s[j - 1]
  BY <1>0, <1>1
<1>8. ASSUME NEW j \in 1..Len(r), j # 1
      PROVE  j - 1 \in 1..Len(s) /\ r[j] = s[j - 1] /\ r[j] # e
  <2>1. j - 1 \in 1..Len(s) /\ r[j] = s[j - 1]
    BY <1>0, <1>1, <1>2, <1>8
  <2> QED BY <2>1 DEF Members
<1>9. r[1] = e
  BY <1>0, <1>1, <1>2
<1>3. Distinct(r)
  <2> SUFFICES ASSUME NEW j \in 1..Len(r), NEW k \in 1..Len(r), r[j] = r[k]
               PROVE  j = k
    BY DEF Distinct
  <2>1. CASE j = 1 \/ k = 1
    BY <2>1, <1>8, <1>9
  <2>2. CASE j # 1 /\ k # 1
    <3>1. j - 1 = k - 1
      BY <2>2, <1>8 DEF Distinct
    <3> QED BY <1>0, <1>1, <3>1
  <2> QED BY <2>1, <2>2
<1>4. Members(r) \subseteq Members(s) \union {e}
  BY <1>8, <1>9 DEF Members
<1>5. e \in Members(r)
  <2>1. 1 \in 1..Len(r) /\ r[1] = e
    BY <1>0, <1>1, <1>2
  <2> QED BY <2>1 DEF Members
<1>6. ASSUME NEW j \in 1..Len(s)
      PROVE  s[j] \in Members(r)
  <2>1. j + 1 \in 1..Len(r) /\ r[j + 1] = s[j]
    BY <1>0, <1>1, <1>2
  <2> QED BY <2>1 DEF Members
<1>7. Members(s) \subseteq Members(r)
  BY <1>6 DEF Members
<1> QED BY <1>1, <1>3, <1>4, <1>5, <1>7 DEF r

LEMMA FrontOfList ==
  ASSUME NEW S, NEW s \in Seq(S), Len(s) > 0, Distinct(s)
  PROVE  /\ Front(s) \in Seq(S) /\ Distinct(Front(s))
         /\ Len(Front(s)) = Len(s) - 1
         /\ Members(Front(s)) = Members(s) \ {s[Len(s)]}
<1>0. Len(s) \in Nat /\ Len(s) \in 1..Len(s)
  BY LenProperties
<1>1. SubSeq(s, Len(s) + 1, Len(s)) = <<>>
  BY <1>0, SubSeqEmpty
<1>2. SubSeq(s, 1, Len(s) - 1) \in Seq(S)
  <2>1. \A j \in 1..(Len(s) - 1) : s[j] \in S
    BY <1>0, ElementOfSeq
  <2> QED BY <1>0, <2>1, SubSeqProperties
<1>3. RemoveAt(s, Len(s)) = Front(s)
  BY <1>1, <1>2, ConcatEmptySeq DEF RemoveAt, Front
<1> QED BY <1>0, <1>3, RemovedFromList

-----------------------------------------------------------------------------
(* What each change of the list does to it.                                *)

\* The map, the list and the elements agree: Coherent in terms of the list.
Agree == /\ Distinct(order)
         /\ \A e \in Elem : e \in Members(order) <=> entry[e] # None
         /\ \A e \in Members(order) : store[entry[e].key] = e
         /\ \A k \in Key : store[k] # None =>
              store[k] \in Members(order) /\ entry[store[k]].key = k

LEMMA CoherentList == (Coherent <=> Agree) /\ (Coherent' <=> Agree')
<1>1. Coherent <=> Agree
  BY DEF Coherent, Agree, Listed, Distinct, Members
<1>2. Coherent' <=> Agree'
  BY DEF Coherent, Agree, Listed, Distinct, Members
<1> QED BY <1>1, <1>2

LEMMA MembersType ==
  ASSUME DataTypes PROVE Members(order) \subseteq Elem
BY ElementOfSeq DEF DataTypes, Members

LEMMA UnlinkedList ==
  ASSUME DataTypes, Distinct(order), NEW e \in Members(order)
  PROVE  /\ Unlinked(e) \in Seq(Elem) /\ Distinct(Unlinked(e))
         /\ Len(Unlinked(e)) = Len(order) - 1
         /\ Members(Unlinked(e)) = Members(order) \ {e}
<1>1. Position(e) \in 1..Len(order) /\ order[Position(e)] = e
  BY DEF Members, Position
<1>2. Unlinked(e) = RemoveAt(order, Position(e))
  BY DEF Unlinked, Listed, Members
<1> QED BY <1>1, <1>2, RemovedFromList DEF DataTypes

LEMMA MovedList ==
  ASSUME DataTypes, Distinct(order), NEW e
  PROVE  /\ MovedToFront(e) \in Seq(Elem) /\ Distinct(MovedToFront(e))
         /\ Len(MovedToFront(e)) = Len(order)
         /\ Members(MovedToFront(e)) = Members(order)
<1>1. CASE e \in Members(order)
  <2>1. MovedToFront(e) = <<e>> \o Unlinked(e)
    BY <1>1 DEF MovedToFront, Listed, Members
  <2>2. e \in Elem /\ Len(order) \in Nat
    BY <1>1, MembersType, LenProperties DEF DataTypes
  <2>3. /\ Unlinked(e) \in Seq(Elem) /\ Distinct(Unlinked(e))
        /\ Len(Unlinked(e)) = Len(order) - 1
        /\ Members(Unlinked(e)) = Members(order) \ {e}
    BY <1>1, UnlinkedList
  <2>4. /\ MovedToFront(e) \in Seq(Elem) /\ Distinct(MovedToFront(e))
        /\ Len(MovedToFront(e)) = Len(order) - 1 + 1
        /\ Members(MovedToFront(e)) = (Members(order) \ {e}) \union {e}
    BY <2>1, <2>2, <2>3, PushedOnList
  <2> QED BY <1>1, <2>2, <2>4
<1>2. CASE e \notin Members(order)
  BY <1>2 DEF MovedToFront, Listed, Members, DataTypes
<1> QED BY <1>1, <1>2

-----------------------------------------------------------------------------
(* The critical sections that change the data.                             *)

Data == DataTypes /\ Agree /\ Bounded

LEMMA DataIsInvariant ==
  ASSUME IInv PROVE Data
BY CoherentList DEF IInv, Data, DataTypes, TypeOK

LEMMA DropData ==
  ASSUME Data, NEW k \in Key, store[k] # None, Drop(k)
  PROVE  /\ Data'
         /\ \A j \in Key : store'[j] = IF j = k THEN None ELSE store[j]
         /\ \A j \in Key : store'[j] # None => entry'[store'[j]] = entry[store[j]]
<1> DEFINE e == store[k]
<1>1. /\ e \in Members(order) /\ e \in Elem /\ entry[e].key = k
      /\ DataTypes /\ Agree /\ Distinct(order) /\ Len(order) \in Nat /\ Len(order) <= Size
  BY LenProperties DEF Data, DataTypes, Agree, Bounded
<1>2. /\ order' = Unlinked(e)
      /\ store' = [store EXCEPT ![k] = None] /\ entry' = [entry EXCEPT ![e] = None]
  BY DEF Drop
<1>3. /\ order' \in Seq(Elem) /\ Distinct(order') /\ Len(order') = Len(order) - 1
      /\ Members(order') = Members(order) \ {e}
  BY <1>1, <1>2, UnlinkedList
<1> HIDE DEF e
<1>4. /\ store' \in [Key -> Elem \union {None}] /\ entry' \in [Elem -> Entry \union {None}]
      /\ \A j \in Key : store'[j] = IF j = k THEN None ELSE store[j]
      /\ \A f \in Elem : entry'[f] = IF f = e THEN None ELSE entry[f]
  BY <1>1, <1>2 DEF DataTypes
<1>5. DataTypes' /\ Bounded'
  BY <1>1, <1>3, <1>4, CacheAssumption DEF DataTypes, Bounded
<1>6. \A f \in Elem : f \in Members(order') <=> entry'[f] # None
  BY <1>1, <1>3, <1>4 DEF Agree
<1>7. ASSUME NEW f \in Members(order') PROVE store'[entry'[f].key] = f
  <2>1. f \in Members(order) /\ f # e /\ f \in Elem
    BY <1>1, <1>3, MembersType
  <2>2. entry'[f] = entry[f] /\ entry[f] \in Entry
    BY <1>1, <1>4, <2>1 DEF Agree, DataTypes
  <2>3. store[entry[f].key] = f /\ entry[f].key \in Key
    BY <1>1, <2>1, <2>2 DEF Agree, Entry
  <2>4. entry[f].key # k
    BY <2>1, <2>3 DEF e
  <2> QED BY <1>4, <2>2, <2>3, <2>4
<1>8. ASSUME NEW j \in Key, store'[j] # None
      PROVE  /\ store'[j] \in Members(order') /\ entry'[store'[j]].key = j
             /\ entry'[store'[j]] = entry[store[j]]
  <2>1. j # k /\ store'[j] = store[j] /\ store[j] # None
    BY <1>4, <1>8
  <2>2. store[j] \in Members(order) /\ entry[store[j]].key = j /\ store[j] \in Elem
    BY <1>1, <2>1, MembersType DEF Agree
  <2>3. store[j] # e
    BY <1>1, <2>1, <2>2
  <2> QED BY <1>3, <1>4, <2>1, <2>2, <2>3
<1>9. Agree'
  BY <1>3, <1>6, <1>7, <1>8 DEF Agree
<1> QED BY <1>4, <1>5, <1>8, <1>9 DEF Data

\* Only the order of the list changes.
LEMMA PromoteData ==
  ASSUME Data, NEW e, order' = MovedToFront(e), UNCHANGED <<store, entry>>
  PROVE  Data'
<1>1. DataTypes /\ Agree /\ Distinct(order) /\ Bounded
  BY DEF Data, Agree
<1>2. /\ order' \in Seq(Elem) /\ Distinct(order') /\ Len(order') = Len(order)
      /\ Members(order') = Members(order)
  BY <1>1, MovedList
<1>3. DataTypes' /\ Bounded'
  BY <1>1, <1>2 DEF DataTypes, Bounded
<1>4. Agree'
  BY <1>1, <1>2 DEF Agree
<1> QED BY <1>3, <1>4 DEF Data

LEMMA SetExistingData ==
  ASSUME Data, NEW k \in Key, NEW v \in Value, NEW ttl \in 0..MaxTtl, SetExisting(k, v, ttl)
  PROVE  /\ Data' /\ UNCHANGED store
         /\ \A f \in Elem : entry'[f] = IF f = store[k] THEN [key |-> k, value |-> v, left |-> ttl]
                                                         ELSE entry[f]
<1> DEFINE e == store[k]
           new == [key |-> k, value |-> v, left |-> ttl]
<1>1. /\ DataTypes /\ Agree /\ Distinct(order) /\ Bounded
      /\ e \in Members(order) /\ e \in Elem /\ entry[e].key = k
  BY DEF Data, Agree, SetExisting, DataTypes
<1>2. new \in Entry /\ new # None /\ new.key = k
  BY CacheAssumption DEF Entry, Left
<1>3. order' = MovedToFront(e) /\ UNCHANGED store /\ entry' = [entry EXCEPT ![e] = new]
  BY DEF SetExisting
<1> HIDE DEF e, new
<1>4. /\ order' \in Seq(Elem) /\ Distinct(order') /\ Len(order') = Len(order)
      /\ Members(order') = Members(order)
  BY <1>1, <1>3, MovedList
<1>5. /\ entry' \in [Elem -> Entry \union {None}]
      /\ \A f \in Elem : entry'[f] = IF f = e THEN new ELSE entry[f]
  BY <1>1, <1>2, <1>3 DEF DataTypes
<1>6. DataTypes' /\ Bounded'
  BY <1>1, <1>3, <1>4, <1>5 DEF DataTypes, Bounded
<1>7. \A f \in Elem : entry'[f] # None => entry[f] # None /\ entry'[f].key = entry[f].key
  BY <1>1, <1>2, <1>5 DEF Agree
<1>8. \A f \in Elem : f \in Members(order') <=> entry'[f] # None
  BY <1>1, <1>2, <1>4, <1>5 DEF Agree
<1>9. Agree'
  BY <1>1, <1>3, <1>4, <1>7, <1>8, MembersType DEF Agree
<1> QED BY <1>3, <1>5, <1>6, <1>9 DEF Data, e, new

LEMMA PushFrontData ==
  ASSUME Data, NEW k \in Key, NEW v \in Value, NEW ttl \in 0..MaxTtl, NEW e \in Elem,
         PushFront(e, k, v, ttl), Len(order) < Size
  PROVE  /\ Data'
         /\ \A j \in Key : store'[j] = IF j = k THEN e ELSE store[j]
         /\ \A f \in Elem : entry'[f] = IF f = e THEN [key |-> k, value |-> v, left |-> ttl]
                                                 ELSE entry[f]
<1> DEFINE new == [key |-> k, value |-> v, left |-> ttl]
<1>1. /\ DataTypes /\ Agree /\ Distinct(order) /\ order \in Seq(Elem) /\ Len(order) \in Nat
      /\ store[k] = None /\ e \notin Members(order) /\ e # None
  BY LenProperties, CacheAssumption DEF Data, Agree, DataTypes, PushFront, Unused, Listed, Members
<1>2. new \in Entry /\ new # None /\ new.key = k
  BY CacheAssumption DEF Entry, Left
<1>3. /\ order' = <<e>> \o order
      /\ store' = [store EXCEPT ![k] = e] /\ entry' = [entry EXCEPT ![e] = new]
  BY DEF PushFront
<1> HIDE DEF new
<1>4. /\ order' \in Seq(Elem) /\ Distinct(order') /\ Len(order') = Len(order) + 1
      /\ Members(order') = Members(order) \union {e}
  BY <1>1, <1>3, PushedOnList
<1>5. /\ store' \in [Key -> Elem \union {None}] /\ entry' \in [Elem -> Entry \union {None}]
      /\ \A j \in Key : store'[j] = IF j = k THEN e ELSE store[j]
      /\ \A f \in Elem : entry'[f] = IF f = e THEN new ELSE entry[f]
  BY <1>1, <1>2, <1>3 DEF DataTypes
<1>6. DataTypes' /\ Bounded'
  BY <1>1, <1>4, <1>5, CacheAssumption DEF DataTypes, Bounded
<1>7. \A f \in Elem : f \in Members(order') <=> entry'[f] # None
  BY <1>1, <1>2, <1>4, <1>5 DEF Agree
<1>8. ASSUME NEW f \in Members(order') PROVE store'[entry'[f].key] = f
  <2>1. CASE f = e
    BY <1>2, <1>5, <2>1
  <2>2. CASE f # e
    <3>1. f \in Members(order) /\ f \in Elem /\ entry'[f] = entry[f] /\ entry[f] \in Entry
      BY <1>1, <1>4, <1>5, <2>2, MembersType DEF Agree, DataTypes
    <3>2. store[entry[f].key] = f /\ entry[f].key \in Key /\ f # None
      BY <1>1, <3>1, CacheAssumption DEF Agree, Entry
    <3> QED BY <1>1, <1>5, <3>1, <3>2
  <2> QED BY <2>1, <2>2
<1>9. ASSUME NEW j \in Key, store'[j] # None
      PROVE  store'[j] \in Members(order') /\ entry'[store'[j]].key = j
  <2>1. CASE j = k
    BY <1>2, <1>4, <1>5, <2>1
  <2>2. CASE j # k
    <3>1. store'[j] = store[j] /\ store[j] \in Members(order) /\ entry[store[j]].key = j
      BY <1>1, <1>5, <1>9, <2>2 DEF Agree
    <3>2. store[j] \in Elem /\ store[j] # e
      BY <1>1, <3>1, MembersType
    <3> QED BY <1>4, <1>5, <3>1, <3>2
  <2> QED BY <2>1, <2>2
<1>10. Agree'
  BY <1>4, <1>7, <1>8, <1>9 DEF Agree
<1> QED BY <1>5, <1>6, <1>10 DEF Data, new

LEMMA SetEvictData ==
  ASSUME Data, NEW k \in Key, NEW v \in Value, NEW ttl \in 0..MaxTtl, NEW e \in Elem,
         SetEvict(e, k, v, ttl)
  PROVE  /\ Data'
         /\ Len(order) = Size /\ Len(order') = Size
         /\ \E o \in Key :
              /\ o # k /\ store[o] = order[Len(order)]
              /\ \A j \in Key : store'[j] = IF j = k THEN e ELSE IF j = o THEN None ELSE store[j]
              /\ \A j \in Key : j # k /\ store'[j] # None => entry'[store'[j]] = entry[store[j]]
              /\ entry'[e] = [key |-> k, value |-> v, left |-> ttl]
<1> DEFINE new == [key |-> k, value |-> v, left |-> ttl]
           oldest == order[Len(order)]
           o == entry[oldest].key
<1>1. /\ DataTypes /\ Agree /\ Distinct(order) /\ order \in Seq(Elem) /\ Len(order) \in Nat
      /\ store[k] = None /\ e \notin Members(order) /\ e # None
      /\ Len(order) = Size /\ Len(order) > 0
  BY LenProperties, CacheAssumption
     DEF Data, Agree, DataTypes, Bounded, SetEvict, Unused, Listed, Members
<1>2. new \in Entry /\ new # None /\ new.key = k
  BY CacheAssumption DEF Entry, Left
<1>3. /\ order' = <<e>> \o Front(order)
      /\ store' = [store EXCEPT ![k] = e, ![o] = None]
      /\ entry' = [entry EXCEPT ![e] = new, ![oldest] = None]
  BY DEF SetEvict
<1>4. oldest \in Members(order) /\ oldest \in Elem /\ oldest # None /\ oldest # e
  BY <1>1, MembersType, CacheAssumption DEF Members
<1>5. o \in Key /\ store[o] = oldest /\ o # k
  BY <1>1, <1>4 DEF Agree, DataTypes, Entry
<1> HIDE DEF new, oldest, o
<1>6. /\ Front(order) \in Seq(Elem) /\ Distinct(Front(order))
      /\ Len(Front(order)) = Len(order) - 1
      /\ Members(Front(order)) = Members(order) \ {oldest}
  BY <1>1, FrontOfList DEF oldest
<1>7. /\ order' \in Seq(Elem) /\ Distinct(order') /\ Len(order') = Len(order) - 1 + 1
      /\ Members(order') = (Members(order) \ {oldest}) \union {e}
  BY <1>1, <1>3, <1>6, PushedOnList
<1>8. /\ store' \in [Key -> Elem \union {None}] /\ entry' \in [Elem -> Entry \union {None}]
      /\ \A j \in Key : store'[j] = IF j = k THEN e ELSE IF j = o THEN None ELSE store[j]
      /\ \A f \in Elem : entry'[f] = IF f = e THEN new ELSE IF f = oldest THEN None ELSE entry[f]
  BY <1>1, <1>2, <1>3, <1>4, <1>5 DEF DataTypes
<1>9. DataTypes' /\ Bounded' /\ Len(order') = Size
  BY <1>1, <1>7, <1>8 DEF DataTypes, Bounded
<1>10. \A f \in Elem : f \in Members(order') <=> entry'[f] # None
  BY <1>1, <1>2, <1>4, <1>7, <1>8 DEF Agree
<1>11. ASSUME NEW f \in Members(order') PROVE store'[entry'[f].key] = f
  <2>1. CASE f = e
    BY <1>2, <1>8, <2>1
  <2>2. CASE f # e
    <3>1. /\ f \in Members(order) /\ f \in Elem /\ f # oldest
          /\ entry'[f] = entry[f] /\ entry[f] \in Entry
      BY <1>1, <1>7, <1>8, <2>2, MembersType DEF Agree, DataTypes
    <3>2. store[entry[f].key] = f /\ entry[f].key \in Key /\ f # None
      BY <1>1, <3>1, CacheAssumption DEF Agree, Entry
    <3>3. entry[f].key # k /\ entry[f].key # o
      BY <1>1, <1>5, <3>1, <3>2
    <3> QED BY <1>8, <3>1, <3>2, <3>3
  <2> QED BY <2>1, <2>2
<1>12. ASSUME NEW j \in Key, j # k, store'[j] # None
       PROVE  /\ store'[j] = store[j] /\ store[j] \in Members(order') /\ store[j] \in Elem
              /\ entry'[store[j]] = entry[store[j]] /\ entry[store[j]].key = j
  <2>1. j # o /\ store'[j] = store[j]
    BY <1>8, <1>12
  <2>2. store[j] \in Members(order) /\ entry[store[j]].key = j
    BY <1>1, <1>12, <2>1 DEF Agree
  <2>3. store[j] \in Elem /\ store[j] # e /\ store[j] # oldest
    BY <1>1, <2>1, <2>2, MembersType DEF o
  <2> QED BY <1>7, <1>8, <2>1, <2>2, <2>3
<1>13. store'[k] = e /\ e \in Members(order') /\ entry'[e] = new
  BY <1>7, <1>8
<1>14. Agree'
  BY <1>2, <1>7, <1>10, <1>11, <1>12, <1>13 DEF Agree
<1>15. /\ o # k /\ store[o] = order[Len(order)]
       /\ \A j \in Key : store'[j] = IF j = k THEN e ELSE IF j = o THEN None ELSE store[j]
       /\ \A j \in Key : j # k /\ store'[j] # None => entry'[store'[j]] = entry[store[j]]
       /\ entry'[e] = [key |-> k, value |-> v, left |-> ttl]
  BY <1>5, <1>8, <1>12, <1>13 DEF oldest, new
<1> QED BY <1>1, <1>5, <1>9, <1>14, <1>15 DEF Data

LEMMA TickData ==
  ASSUME Data, Tick
  PROVE  /\ Data' /\ UNCHANGED <<store, order>>
         /\ \A f \in Elem : entry[f] # None =>
              /\ entry'[f].value = entry[f].value
              /\ entry'[f].left \in {entry[f].left, entry[f].left - 1}
<1>1. /\ DataTypes /\ Agree /\ Bounded /\ Listed = Members(order)
      /\ \A f \in Elem : f \in Listed <=> entry[f] # None
  BY DEF Data, Agree, Listed, Members
<1>2. UNCHANGED <<store, order>>
      /\ entry' = [f \in Elem |-> IF f \in Listed THEN [entry[f] EXCEPT !.left = Aged(@)]
                                                  ELSE entry[f]]
  BY DEF Tick
<1>3. ASSUME NEW f \in Elem, entry[f] # None
      PROVE  /\ entry'[f] \in Entry
             /\ entry'[f].key = entry[f].key /\ entry'[f].value = entry[f].value
             /\ entry'[f].left \in {entry[f].left, entry[f].left - 1}
  <2>1. entry[f] \in Entry /\ entry'[f] = [entry[f] EXCEPT !.left = Aged(@)]
    BY <1>1, <1>2, <1>3 DEF DataTypes
  <2>2. entry[f].left \in -1..MaxTtl /\ Aged(entry[f].left) \in -1..MaxTtl
        /\ Aged(entry[f].left) \in {entry[f].left, entry[f].left - 1}
    BY <2>1, CacheAssumption DEF Entry, Left, Aged
  <2> QED BY <2>1, <2>2 DEF Entry, Left
<1>4. \A f \in Elem : entry[f] = None => entry'[f] = None
  BY <1>1, <1>2
<1>5. entry' \in [Elem -> Entry \union {None}]
  <2>1. \A f \in Elem : entry'[f] \in Entry \union {None}
    BY <1>3, <1>4
  <2> QED BY <1>2, <2>1
<1>6. DataTypes' /\ Bounded'
  BY <1>1, <1>2, <1>5 DEF DataTypes, Bounded
<1>7. \A f \in Elem : entry[f] # None <=> entry'[f] # None
  BY <1>3, <1>4, CacheAssumption
<1>8. Agree'
  BY <1>1, <1>2, <1>3, <1>7, MembersType DEF Agree
<1> QED BY <1>2, <1>3, <1>6, <1>8 DEF Data

-----------------------------------------------------------------------------
(* Every step keeps the invariant.                                         *)

Control == /\ pc \in [Thread -> {"idle", "promote", "remove"}]
           /\ held \in [Thread -> [key : Key, elem : Elem] \union {NoHold}]
           /\ result \in [Thread -> Value \union {None}]
           /\ stopped \in BOOLEAN
           /\ cleaner \in {"waiting", "sweeping", "done"}
           /\ sweep \subseteq Key

LEMMA Parts == /\ IInv <=> Data /\ Control /\ Holding
               /\ IInv' <=> Data' /\ Control' /\ Holding'
BY CoherentList DEF IInv, Data, DataTypes, Control, TypeOK

\* A Set, a Delete or a Tick: no Get moves, and the map keeps what a cleanup
\* has before it.
LEMMA CallsStay ==
  ASSUME Control, Holding, UNCHANGED <<pc, held, result, life>>,
         \A k \in sweep : store'[k] # None
  PROVE  Control' /\ Holding'
BY DEF Control, Holding, life

LEMMA NothingSwept ==
  ASSUME Holding, Unlocked PROVE sweep = {}
BY DEF Holding, Unlocked

LEMMA ReleaseControl ==
  ASSUME Control, Holding, Unlocked, NEW t \in Thread, Release(t), UNCHANGED life
  PROVE  Control' /\ Holding'
<1>1. sweep = {} /\ UNCHANGED <<stopped, cleaner, sweep, result>>
  BY NothingSwept DEF Release, life
<1>2. /\ pc' = [pc EXCEPT ![t] = "idle"] /\ held' = [held EXCEPT ![t] = NoHold]
  BY DEF Release
<1>3. Control'
  BY <1>1, <1>2 DEF Control
<1>4. \A u \in Thread : pc'[u] # "idle" => pc[u] # "idle" /\ held'[u] = held[u]
  BY <1>2 DEF Control
<1> QED BY <1>1, <1>3, <1>4 DEF Holding

\* What an element that is in the map holds.
LEMMA StoredEntry ==
  ASSUME Data, NEW k \in Key, store[k] # None
  PROVE  /\ store[k] \in Elem /\ store[k] \in Members(order)
         /\ entry[store[k]] \in Entry /\ entry[store[k]].key = k
         /\ entry[store[k]].value \in Value /\ entry[store[k]].left \in Int
<1>1. /\ store[k] \in Elem /\ store[k] \in Members(order)
      /\ entry[store[k]] \in Entry /\ entry[store[k]].key = k
  BY DEF Data, DataTypes, Agree
<1>2. entry[store[k]].value \in Value /\ entry[store[k]].left \in -1..MaxTtl
  BY <1>1 DEF Entry, Left
<1> QED BY <1>1, <1>2

LEMMA FoundControl ==
  ASSUME Data, Control, Holding, Unlocked, NEW t \in Thread, NEW k \in Key,
         store[k] # None, NEW n \in {"promote", "remove"}, Found(t, k, n),
         result' \in [Thread -> Value \union {None}]
  PROVE  Data' /\ Control' /\ Holding'
<1>1. /\ sweep = {} /\ UNCHANGED <<store, order, entry, stopped, cleaner, sweep>>
      /\ pc' = [pc EXCEPT ![t] = n]
      /\ held' = [held EXCEPT ![t] = [key |-> k, elem |-> store[k]]]
  BY NothingSwept DEF Found, data, life
<1>2. store[k] \in Elem
  BY StoredEntry
<1>3. Data'
  BY <1>1 DEF Data, DataTypes, Agree, Bounded
<1>4. Control'
  BY <1>1, <1>2 DEF Control
<1>5. \A u \in Thread : pc'[u] # "idle" => held'[u].elem \in Elem /\ held'[u].key \in Key
  BY <1>1, <1>2 DEF Control, Holding
<1> QED BY <1>1, <1>3, <1>4, <1>5 DEF Holding

LEMMA GetIInv ==
  ASSUME IInv, Unlocked, NEW t \in Thread, Get(t)
  PROVE  IInv'
<1>0. Data /\ Control /\ Holding
  BY Parts
<1>1. PICK k \in Key : GetMiss(t, k) \/ GetExpired(t, k) \/ GetHit(t, k)
  BY DEF Get
<1>2. CASE GetMiss(t, k)
  <2>1. UNCHANGED <<store, order, entry, pc, held, stopped, cleaner, sweep>>
        /\ result' = [result EXCEPT ![t] = None]
    BY <1>2 DEF GetMiss, data, life
  <2>2. Data' /\ Control' /\ Holding'
    BY <1>0, <2>1 DEF Data, DataTypes, Agree, Bounded, Control, Holding
  <2> QED BY <2>2, Parts
<1>3. CASE GetExpired(t, k)
  <2>1. /\ store[k] # None /\ Found(t, k, "remove") /\ result' = [result EXCEPT ![t] = None]
    BY <1>3 DEF GetExpired
  <2>2. result' \in [Thread -> Value \union {None}]
    BY <1>0, <2>1 DEF Control
  <2> QED BY <1>0, <2>1, <2>2, FoundControl, Parts
<1>4. CASE GetHit(t, k)
  <2>1. /\ store[k] # None /\ Found(t, k, "promote")
        /\ result' = [result EXCEPT ![t] = entry[store[k]].value]
    BY <1>4 DEF GetHit
  <2>2. result' \in [Thread -> Value \union {None}]
    BY <1>0, <2>1, StoredEntry DEF Control
  <2> QED BY <1>0, <2>1, <2>2, FoundControl, Parts
<1> QED BY <1>1, <1>2, <1>3, <1>4

LEMMA SecondSectionIInv ==
  ASSUME IInv, Unlocked, NEW t \in Thread, Promote(t) \/ RemoveEntry(t)
  PROVE  IInv'
<1>0. Data /\ Control /\ Holding
  BY Parts
<1>1. Control' /\ Holding'
  BY <1>0, ReleaseControl DEF Promote, RemoveEntry
<1>2. CASE Promote(t)
  <2>1. Data'
    BY <1>0, <1>2, PromoteData DEF Promote
  <2> QED BY <1>1, <2>1, Parts
<1>3. CASE RemoveEntry(t)
  <2>1. CASE store[held[t].key] = held[t].elem
    <3>1. held[t].key \in Key /\ store[held[t].key] # None /\ Drop(held[t].key)
      BY <1>0, <1>3, <2>1, CacheAssumption DEF RemoveEntry, Holding
    <3> QED BY <1>0, <1>1, <3>1, DropData, Parts
  <2>2. CASE store[held[t].key] # held[t].elem
    <3>1. UNCHANGED <<store, order, entry>>
      BY <1>3, <2>2 DEF RemoveEntry, data
    <3>2. Data'
      BY <1>0, <3>1 DEF Data, DataTypes, Agree, Bounded
    <3> QED BY <1>1, <3>2, Parts
  <2> QED BY <2>1, <2>2
<1> QED BY <1>2, <1>3

LEMMA SetIInv ==
  ASSUME IInv, Unlocked, NEW k \in Key, NEW v \in Value, NEW ttl \in 0..MaxTtl, Set(k, v, ttl)
  PROVE  IInv'
<1>0. Data /\ Control /\ Holding /\ sweep = {}
  BY Parts, NothingSwept
<1>1. UNCHANGED <<pc, held, result, life>>
  BY DEF Set, SetExisting, SetNew, SetEvict, PushFront, gets, life
<1>2. Data'
  <2>1. CASE SetExisting(k, v, ttl)
    BY <1>0, <2>1, SetExistingData
  <2>2. CASE \E e \in Elem : SetNew(e, k, v, ttl) \/ SetEvict(e, k, v, ttl)
    BY <1>0, <2>2, PushFrontData, SetEvictData DEF SetNew
  <2> QED BY <2>1, <2>2 DEF Set
<1> QED BY <1>0, <1>1, <1>2, CallsStay, Parts

LEMMA DeleteIInv ==
  ASSUME IInv, Unlocked, NEW k \in Key, Delete(k)
  PROVE  IInv'
<1>0. Data /\ Control /\ Holding /\ sweep = {}
  BY Parts, NothingSwept
<1>1. UNCHANGED <<pc, held, result, life>> /\ store[k] # None /\ Drop(k)
  BY DEF Delete, gets, life
<1>2. Data'
  BY <1>0, <1>1, DropData
<1> QED BY <1>0, <1>1, <1>2, CallsStay, Parts

LEMMA VisitIInv ==
  ASSUME IInv, NEW k \in Key, Visit(k)
  PROVE  IInv'
<1>0. Data /\ Control /\ Holding
  BY Parts
<1>1. /\ k \in sweep /\ store[k] # None /\ sweep' = sweep \ {k}
      /\ UNCHANGED <<pc, held, result, stopped, cleaner>>
  BY <1>0 DEF Visit, gets, Holding
<1>2. Data' /\ \A j \in Key : j # k => store'[j] = store[j]
  <2>1. CASE IsExpired(store[k])
    BY <1>0, <1>1, <2>1, DropData DEF Visit
  <2>2. CASE ~IsExpired(store[k])
    <3>1. UNCHANGED <<store, order, entry>>
      BY <2>2 DEF Visit, data
    <3> QED BY <1>0, <3>1 DEF Data, DataTypes, Agree, Bounded
  <2> QED BY <2>1, <2>2
<1>3. Control' /\ Holding'
  BY <1>0, <1>1, <1>2 DEF Control, Holding
<1> QED BY <1>2, <1>3, Parts

\* The cleanup starts, ends or exits, or is told to.
LEMMA CleanerIInv ==
  ASSUME IInv, BeginCleanup \/ EndCleanup \/ Exit \/ Stop
  PROVE  IInv'
<1>0. Data /\ Control /\ Holding
  BY Parts
<1>1. UNCHANGED <<store, order, entry, pc, held, result>>
  BY DEF BeginCleanup, EndCleanup, Exit, Stop, data, gets
<1>2. Data'
  BY <1>0, <1>1 DEF Data, DataTypes, Agree, Bounded
<1>3. Control'
  BY <1>0, <1>1 DEF Control, BeginCleanup, EndCleanup, Exit, Stop
<1>4. Holding'
  BY <1>0, <1>1 DEF Holding, BeginCleanup, EndCleanup, Exit, Stop
<1> QED BY <1>2, <1>3, <1>4, Parts

LEMMA TickIInv ==
  ASSUME IInv, Tick
  PROVE  IInv'
<1>0. Data /\ Control /\ Holding
  BY Parts
<1>1. UNCHANGED <<pc, held, result, life>>
  BY DEF Tick, gets, life
<1>2. Data' /\ UNCHANGED store
  BY <1>0, TickData
<1>3. \A k \in sweep : store'[k] # None
  BY <1>0, <1>2 DEF Holding
<1> QED BY <1>0, <1>1, <1>2, <1>3, CallsStay, Parts

LEMMA InitIInv == Init => IInv
<1> SUFFICES ASSUME Init PROVE IInv
  OBVIOUS
<1>1. order = <<>> /\ Len(order) = 0 /\ order \in Seq(Elem) /\ Members(order) = {}
  BY DEF Init, Members
<1>2. DataTypes
  BY <1>1 DEF Init, DataTypes
<1>3. Agree
  BY <1>1, CacheAssumption DEF Init, Agree, Distinct
<1>4. Bounded
  BY <1>1, CacheAssumption DEF Bounded
<1>5. Control
  <2>1. stopped \in BOOLEAN
    BY Zenon DEF Init
  <2> QED BY <2>1 DEF Init, Control
<1>6. Holding
  BY DEF Init, Holding
<1> QED BY <1>2, <1>3, <1>4, <1>5, <1>6, Parts DEF Data

LEMMA StepIInv == IInv /\ [Next]_vars => IInv'
<1> SUFFICES ASSUME IInv, [Next]_vars PROVE IInv'
  OBVIOUS
<1>1. CASE Unlocked /\ \E t \in Thread : Get(t) \/ Promote(t) \/ RemoveEntry(t)
  BY <1>1, GetIInv, SecondSectionIInv
<1>2. CASE Unlocked /\ \E k \in Key, v \in Value, ttl \in 0..MaxTtl : Set(k, v, ttl)
  BY <1>2, SetIInv
<1>3. CASE Unlocked /\ \E k \in Key : Delete(k)
  BY <1>3, DeleteIInv
<1>4. CASE \E k \in Key : Visit(k)
  BY <1>4, VisitIInv
<1>5. CASE BeginCleanup \/ EndCleanup \/ Exit \/ Stop
  BY <1>5, CleanerIInv
<1>6. CASE Tick
  BY <1>6, TickIInv
<1>7. CASE UNCHANGED vars
  <2>1. UNCHANGED <<store, order, entry, pc, held, result, stopped, cleaner, sweep>>
    BY <1>7 DEF vars
  <2>2. Data' /\ Control' /\ Holding'
    BY <2>1, Parts DEF Data, DataTypes, Agree, Bounded, Control, Holding
  <2> QED BY <2>2, Parts
<1> QED BY <1>1, <1>2, <1>3, <1>4, <1>5, <1>6, <1>7 DEF Next

THEOREM Invariance == Spec => []IInv
BY InitIInv, StepIInv, PTL DEF Spec

-----------------------------------------------------------------------------
(* What follows from it.                                                   *)

\* Every variable keeps its shape.
THEOREM TypeCorrect == Spec => []TypeOK
<1>1. IInv => TypeOK
  BY DEF IInv
<1> QED BY <1>1, Invariance, PTL

\* The map and the list always describe the same entries.
THEOREM AlwaysCoherent == Spec => []Coherent
<1>1. IInv => Coherent
  BY DEF IInv
<1> QED BY <1>1, Invariance, PTL

\* The cache never holds more than its capacity.
THEOREM AlwaysBounded == Spec => []Bounded
<1>1. IInv => Bounded
  BY DEF IInv
<1> QED BY <1>1, Invariance, PTL

-----------------------------------------------------------------------------
(* The cache implements a map with expiry.                                 *)

\* The value a read finds under each key.
Live == [k \in Key |-> IF store[k] = None THEN None
                       ELSE IF IsExpired(store[k]) THEN None
                       ELSE entry[store[k]].value]

LEMMA MapDrop ==
  ASSUME UNCHANGED result, \A k \in Key : Live'[k] \in {None, Live[k]}
  PROVE  Map!Drop
<1> DEFINE D == {k \in Key : Live'[k] = None}
<1>1. Live' = [k \in Key |-> IF k \in D THEN None ELSE Live[k]]
  <2>1. Live' = [k \in Key |-> Live'[k]]
    BY DEF Live
  <2>2. \A k \in Key : Live'[k] = IF k \in D THEN None ELSE Live[k]
    OBVIOUS
  <2> QED BY <2>1, <2>2
<1>2. D \in SUBSET Key
  OBVIOUS
<1> HIDE DEF D
<1> QED BY <1>1, <1>2 DEF Map!Drop, Map!Without, Live, IsExpired

LEMMA MapPut ==
  ASSUME UNCHANGED result, NEW k \in Key, NEW v \in Value,
         \A j \in Key : Live'[j] \in {None, IF j = k THEN v ELSE Live[j]}
  PROVE  Map!Put(k, v)
<1> DEFINE D == {j \in Key : Live'[j] = None}
<1>1. Live' = [j \in Key |-> IF j \in D THEN None ELSE [Live EXCEPT ![k] = v][j]]
  <2>1. Live' = [j \in Key |-> Live'[j]]
    BY DEF Live
  <2>2. \A j \in Key : [Live EXCEPT ![k] = v][j] = IF j = k THEN v ELSE Live[j]
    BY DEF Live
  <2>3. \A j \in Key : Live'[j] = IF j \in D THEN None ELSE [Live EXCEPT ![k] = v][j]
    BY <2>2
  <2> QED BY <2>1, <2>3
<1>2. D \in SUBSET Key
  OBVIOUS
<1> HIDE DEF D
<1> QED BY <1>1, <1>2 DEF Map!Put, Map!Without, Live, IsExpired

LEMMA MapRead ==
  ASSUME UNCHANGED <<store, entry>>, NEW t \in Thread, NEW k \in Key,
         result' = [result EXCEPT ![t] = Live[k]]
  PROVE  Map!Read(t, k)
BY DEF Map!Read, Live, IsExpired

LEMMA MapStutter ==
  ASSUME UNCHANGED <<store, entry, result>>
  PROVE  UNCHANGED Map!vars
BY DEF Map!vars, IsExpired

\* A key that leaves the cache is dropped.
LEMMA DropMaps ==
  ASSUME IInv, NEW k \in Key, store[k] # None, Drop(k), UNCHANGED result
  PROVE  Map!Drop
<1>1. Data
  BY Parts
<1>2. /\ \A j \in Key : store'[j] = IF j = k THEN None ELSE store[j]
      /\ \A j \in Key : store'[j] # None => entry'[store'[j]] = entry[store[j]]
  BY <1>1, DropData
<1>3. \A j \in Key : Live'[j] \in {None, Live[j]}
  BY <1>2 DEF Live, IsExpired
<1> QED BY <1>3, MapDrop

LEMMA GetMaps ==
  ASSUME IInv, NEW t \in Thread, Get(t)
  PROVE  \E k \in Key : Map!Read(t, k)
<1>1. PICK k \in Key : GetMiss(t, k) \/ GetExpired(t, k) \/ GetHit(t, k)
  BY DEF Get
<1>2. UNCHANGED <<store, entry>>
  BY <1>1 DEF GetMiss, GetExpired, GetHit, Found, data
<1>3. result' = [result EXCEPT ![t] = Live[k]]
  BY <1>1 DEF GetMiss, GetExpired, GetHit, Live
<1> QED BY <1>2, <1>3, MapRead

LEMMA SecondSectionMaps ==
  ASSUME IInv, NEW t \in Thread, Promote(t) \/ RemoveEntry(t)
  PROVE  Map!Drop \/ UNCHANGED Map!vars
<1>1. UNCHANGED result
  BY DEF Promote, RemoveEntry, Release
<1>2. CASE Promote(t)
  BY <1>1, <1>2, MapStutter DEF Promote
<1>3. CASE RemoveEntry(t) /\ store[held[t].key] = held[t].elem
  <2>1. held[t].key \in Key /\ store[held[t].key] # None /\ Drop(held[t].key)
    BY <1>3, CacheAssumption DEF RemoveEntry, IInv, Holding
  <2> QED BY <1>1, <2>1, DropMaps
<1>4. CASE RemoveEntry(t) /\ store[held[t].key] # held[t].elem
  BY <1>1, <1>4, MapStutter DEF RemoveEntry, data
<1> QED BY <1>2, <1>3, <1>4

\* A Set puts its value, and drops what its life is too short for.
LEMMA SetMaps ==
  ASSUME IInv, NEW k \in Key, NEW v \in Value, NEW ttl \in 0..MaxTtl, Set(k, v, ttl)
  PROVE  Map!Put(k, v)
<1> DEFINE new == [key |-> k, value |-> v, left |-> ttl]
<1>0. Data /\ UNCHANGED result /\ new.value = v
  BY Parts DEF Set, SetExisting, SetNew, SetEvict, PushFront, gets
<1>1. CASE SetExisting(k, v, ttl)
  <2>1. /\ UNCHANGED store /\ store[k] # None
        /\ \A f \in Elem : entry'[f] = IF f = store[k] THEN new ELSE entry[f]
    <3>1. store[k] # None
      BY <1>1 DEF SetExisting
    <3> QED BY <1>0, <1>1, <3>1, SetExistingData, Zenon
  <2>2. \A j \in Key : store[j] # None =>
          store[j] \in Elem /\ (j # k => store[j] # store[k])
    BY <1>0, <2>1, StoredEntry
  <2> HIDE DEF new
  <2>3. ASSUME NEW j \in Key PROVE Live'[j] \in {None, IF j = k THEN v ELSE Live[j]}
    BY <1>0, <2>1, <2>2 DEF Live, IsExpired
  <2> QED BY <1>0, <2>3, MapPut
<1>2. CASE \E e \in Elem : SetNew(e, k, v, ttl)
  <2>0. PICK e \in Elem : SetNew(e, k, v, ttl)
    BY <1>2
  <2>1. /\ \A j \in Key : store'[j] = IF j = k THEN e ELSE store[j]
        /\ \A f \in Elem : entry'[f] = IF f = e THEN new ELSE entry[f]
    BY <1>0, <2>0, PushFrontData DEF SetNew
  <2>2. \A j \in Key : store[j] # None => store[j] \in Elem /\ store[j] # e
    BY <1>0, <2>0, StoredEntry DEF SetNew, PushFront, Unused, Listed, Members
  <2> HIDE DEF new
  <2>3. ASSUME NEW j \in Key PROVE Live'[j] \in {None, IF j = k THEN v ELSE Live[j]}
    BY <1>0, <2>1, <2>2 DEF Live, IsExpired
  <2> QED BY <1>0, <2>3, MapPut
<1>3. CASE \E e \in Elem : SetEvict(e, k, v, ttl)
  <2>0. PICK e \in Elem : SetEvict(e, k, v, ttl)
    BY <1>3
  <2>1. PICK o \in Key :
          /\ \A j \in Key : store'[j] = IF j = k THEN e ELSE IF j = o THEN None ELSE store[j]
          /\ \A j \in Key : j # k /\ store'[j] # None => entry'[store'[j]] = entry[store[j]]
          /\ entry'[e] = new
    BY <1>0, <2>0, SetEvictData
  <2> HIDE DEF new
  <2>2. ASSUME NEW j \in Key PROVE Live'[j] \in {None, IF j = k THEN v ELSE Live[j]}
    BY <1>0, <2>1 DEF Live, IsExpired
  <2> QED BY <1>0, <2>2, MapPut
<1> QED BY <1>1, <1>2, <1>3 DEF Set

\* Time only drops.
LEMMA TickMaps ==
  ASSUME IInv, Tick
  PROVE  Map!Drop
<1>1. Data /\ UNCHANGED result
  BY Parts DEF Tick, gets
<1>2. /\ UNCHANGED store
      /\ \A f \in Elem : entry[f] # None =>
           /\ entry'[f].value = entry[f].value
           /\ entry'[f].left \in {entry[f].left, entry[f].left - 1}
  BY <1>1, TickData
<1>3. ASSUME NEW k \in Key PROVE Live'[k] \in {None, Live[k]}
  <2>1. CASE store[k] = None
    BY <1>2, <2>1 DEF Live
  <2>2. CASE store[k] # None
    <3>1. /\ store[k] \in Elem /\ entry[store[k]] # None /\ entry[store[k]].left \in Int
      BY <1>1, <2>2, StoredEntry, CacheAssumption
    <3>2. IsExpired(store[k]) => IsExpired(store[k])'
      BY <1>2, <3>1, CacheAssumption DEF IsExpired
    <3> QED BY <1>2, <3>1, <3>2 DEF Live
  <2> QED BY <2>1, <2>2
<1> QED BY <1>1, <1>3, MapDrop

LEMMA StepMaps == IInv /\ [Next]_vars => [Map!Next]_(Map!vars)
<1> SUFFICES ASSUME IInv, [Next]_vars PROVE Map!Next \/ UNCHANGED Map!vars
  OBVIOUS
<1>1. CASE \E t \in Thread : Get(t)
  BY <1>1, GetMaps DEF Map!Next
<1>2. CASE \E t \in Thread : Promote(t) \/ RemoveEntry(t)
  BY <1>2, SecondSectionMaps DEF Map!Next
<1>3. CASE \E k \in Key, v \in Value, ttl \in 0..MaxTtl : Set(k, v, ttl)
  BY <1>3, SetMaps DEF Map!Next
<1>4. CASE \E k \in Key : Delete(k)
  BY <1>4, DropMaps DEF Map!Next, Delete, gets
<1>5. CASE \E k \in Key : Visit(k)
  <2>1. PICK k \in Key : Visit(k)
    BY <1>5
  <2>2. store[k] # None /\ UNCHANGED result
    BY <2>1 DEF Visit, gets, IInv, Holding
  <2>3. CASE IsExpired(store[k])
    BY <2>1, <2>2, <2>3, DropMaps DEF Visit, Map!Next
  <2>4. CASE ~IsExpired(store[k])
    BY <2>1, <2>2, <2>4, MapStutter DEF Visit, data
  <2> QED BY <2>3, <2>4
<1>6. CASE BeginCleanup \/ EndCleanup \/ Exit \/ Stop
  BY <1>6, MapStutter DEF BeginCleanup, EndCleanup, Exit, Stop, data, gets
<1>7. CASE Tick
  BY <1>7, TickMaps DEF Map!Next
<1>8. CASE UNCHANGED vars
  BY <1>8, MapStutter DEF vars
<1> QED BY <1>1, <1>2, <1>3, <1>4, <1>5, <1>6, <1>7, <1>8 DEF Next

\* A reader of the cache sees a map with expiry.
THEOREM Implementation == Spec => ImplementsMap
<1>1. Init => Map!Init
  BY DEF Init, Map!Init
<1> QED BY <1>1, StepMaps, Invariance, PTL DEF Spec, ImplementsMap, Map!Spec

-----------------------------------------------------------------------------
(* What leaves the cache before it expired.                                *)

LEMMA SetLeaves ==
  ASSUME IInv, NEW j \in Key, NEW v \in Value, NEW ttl \in 0..MaxTtl, Set(j, v, ttl),
         NEW k \in Key, store[k] # None, store'[k] = None
  PROVE  Len(order) = Size /\ order[Size] = store[k] /\ Len(order') = Size
<1>0. Data
  BY Parts
<1>1. CASE SetExisting(j, v, ttl)
  BY <1>1 DEF SetExisting
<1>2. CASE \E e \in Elem : SetNew(e, j, v, ttl)
  <2>1. PICK e \in Elem : SetNew(e, j, v, ttl)
    BY <1>2
  <2>2. \A i \in Key : store'[i] = IF i = j THEN e ELSE store[i]
    BY <1>0, <2>1, PushFrontData DEF SetNew
  <2> QED BY <2>2, CacheAssumption
<1>3. CASE \E e \in Elem : SetEvict(e, j, v, ttl)
  <2>1. PICK e \in Elem : SetEvict(e, j, v, ttl)
    BY <1>3
  <2>2. Len(order) = Size /\ Len(order') = Size
    BY <1>0, <2>1, SetEvictData
  <2>3. PICK o \in Key :
          /\ o # j /\ store[o] = order[Len(order)]
          /\ \A i \in Key : store'[i] = IF i = j THEN e ELSE IF i = o THEN None ELSE store[i]
          /\ \A i \in Key : i # j /\ store'[i] # None => entry'[store'[i]] = entry[store[i]]
          /\ entry'[e] = [key |-> j, value |-> v, left |-> ttl]
    BY <1>0, <2>1, SetEvictData
  <2> QED BY <2>2, <2>3, CacheAssumption
<1> QED BY <1>1, <1>2, <1>3 DEF Set

\* Only a Delete, an eviction, or a Get that found that very element expired
\* takes an entry that is not expired.
THEOREM FreshStays == Spec => FreshLeaves
<1> DEFINE Leaves(k) == store[k] # None /\ ~IsExpired(store[k]) /\ store'[k] = None
           Why(k) == \/ Delete(k)
                     \/ Len(order) = Size /\ order[Size] = store[k] /\ Len(order') = Size
                     \/ \E t \in Thread : pc[t] = "remove" /\ held[t].elem = store[k]
<1>1. ASSUME IInv, Next, NEW k \in Key, Leaves(k)
      PROVE  Why(k)
  <2>0. Data
    BY <1>1, Parts
  <2>1. CASE \E t \in Thread : RemoveEntry(t)
    <3>1. PICK t \in Thread : RemoveEntry(t)
      BY <2>1
    <3>2. CASE store[held[t].key] = held[t].elem
      <4>1. held[t].key \in Key /\ store[held[t].key] # None /\ Drop(held[t].key)
        BY <1>1, <3>1, <3>2, CacheAssumption DEF RemoveEntry, IInv, Holding
      <4>2. k = held[t].key
        BY <1>1, <2>0, <4>1, DropData
      <4> QED BY <3>1, <3>2, <4>2 DEF RemoveEntry
    <3>3. CASE store[held[t].key] # held[t].elem
      BY <1>1, <3>1, <3>3 DEF RemoveEntry, data
    <3> QED BY <3>2, <3>3
  <2>2. CASE \E j \in Key, v \in Value, ttl \in 0..MaxTtl : Set(j, v, ttl)
    BY <1>1, <2>2, SetLeaves
  <2>3. CASE \E j \in Key : Delete(j)
    <3>1. PICK j \in Key : Delete(j)
      BY <2>3
    <3>2. store[j] # None /\ Drop(j)
      BY <3>1 DEF Delete
    <3>3. j = k
      BY <1>1, <2>0, <3>2, DropData
    <3> QED BY <3>1, <3>3
  <2>4. CASE \E j \in Key : Visit(j)
    <3>1. PICK j \in Key : Visit(j)
      BY <2>4
    <3>2. store[j] # None
      BY <1>1, <3>1 DEF Visit, IInv, Holding
    <3>3. CASE IsExpired(store[j])
      BY <1>1, <2>0, <3>1, <3>2, <3>3, DropData DEF Visit
    <3>4. CASE ~IsExpired(store[j])
      BY <1>1, <3>1, <3>4 DEF Visit, data
    <3> QED BY <3>3, <3>4
  <2>5. CASE UNCHANGED store
    BY <1>1, <2>5
  <2>6. ASSUME NEW t \in Thread, Get(t) \/ Promote(t) PROVE UNCHANGED store
    BY <2>6 DEF Get, GetMiss, GetExpired, GetHit, Found, Promote, data
  <2>7. BeginCleanup \/ EndCleanup \/ Exit \/ Stop \/ Tick => UNCHANGED store
    BY DEF BeginCleanup, EndCleanup, Exit, Stop, Tick, data
  <2> QED BY <1>1, <2>1, <2>2, <2>3, <2>4, <2>5, <2>6, <2>7 DEF Next
<1>2. IInv /\ [Next]_vars => [\A k \in Key : Leaves(k) => Why(k)]_vars
  BY <1>1
<1> QED BY <1>2, Invariance, PTL DEF Spec, FreshLeaves
=============================================================================
