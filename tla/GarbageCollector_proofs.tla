----------------------- MODULE GarbageCollector_proofs -----------------------
(***************************************************************************)
(* The reference counts of the collected objects are exact, for any number *)
(* of objects and handles, and whatever the application does between the   *)
(* collector's calls or, with threads, during them; what the collector     *)
(* breaks up as garbage is garbage; and a full cycle leaves no garbage.    *)
(***************************************************************************)
EXTENDS GarbageCollector, FiniteSetTheorems, SequenceTheorems,
        WellFoundedInduction, TLAPS

-----------------------------------------------------------------------------
\* Counting in a list.

Places(q, o) == {i \in 1..Len(q) : q[i] = o}
Count(q, o) == Cardinality(Places(q, o))

\* The objects of the list of new ones.
Objs(l) == [i \in 1..Len(l) |-> l[i].obj]
Entry == [obj : Objects, sweeps : 0..3]

LEMMA ObjectsFinite == IsFiniteSet(Objects) /\ Null \notin Objects
  BY CollectorAssumption, FS_Interval DEF Objects, Null

LEMMA CountType ==
  ASSUME NEW S, NEW q \in Seq(S), NEW o
  PROVE  /\ IsFiniteSet(Places(q, o))
         /\ Count(q, o) \in Nat
         /\ Count(q, o) = 0 <=> \A i \in 1..Len(q) : q[i] # o
<1>1. IsFiniteSet(1..Len(q))
  BY LenProperties, FS_Interval
<1>2. IsFiniteSet(Places(q, o))
  BY <1>1, FS_Subset DEF Places
<1>3. Count(q, o) \in Nat
  BY <1>2, FS_CardinalityType DEF Count
<1>4. Count(q, o) = 0 <=> Places(q, o) = {}
  BY <1>2, FS_EmptySet DEF Count
<1> QED
  BY <1>2, <1>3, <1>4 DEF Places

LEMMA CountAppend ==
  ASSUME NEW S, NEW q \in Seq(S), NEW x \in S, NEW o
  PROVE  Count(Append(q, x), o) = Count(q, o) + IF x = o THEN 1 ELSE 0
<1> DEFINE r == Append(q, x)
           n == Len(q) + 1
<1>1. /\ n \in Nat /\ Len(r) = n /\ r[n] = x
      /\ \A i \in 1..Len(q) : r[i] = q[i]
      /\ n \notin 1..Len(q) /\ 1..n = (1..Len(q)) \cup {n}
  BY AppendProperties
<1> HIDE DEF r, n
<1>2. n \notin Places(q, o)
  BY <1>1 DEF Places
<1>3. CASE x = o
  <2>1. Places(r, o) = Places(q, o) \cup {n}
    BY <1>1, <1>3 DEF Places
  <2> QED
    BY <1>2, <1>3, <2>1, CountType, FS_AddElement DEF Count, r
<1>4. CASE x # o
  <2>1. Places(r, o) = Places(q, o)
    BY <1>1, <1>4 DEF Places
  <2>2. Count(r, o) = Count(q, o)
    BY <2>1 DEF Count
  <2> QED
    BY <1>4, <2>2, CountType DEF r
<1> QED
  BY <1>3, <1>4

\* One list behind another.
LEMMA CountConcat ==
  ASSUME NEW S, NEW q \in Seq(S), NEW r \in Seq(S), NEW o
  PROVE  Count(q \o r, o) = Count(q, o) + Count(r, o)
<1> DEFINE m == Len(q)
           n == Len(r)
           both == q \o r
           moved == {m + j : j \in Places(r, o)}
           f == [j \in Places(r, o) |-> m + j]
<1>1. /\ m \in Nat /\ n \in Nat /\ Len(both) = m + n
      /\ \A i \in 1..(m + n) : both[i] = IF i <= m THEN q[i] ELSE r[i - m]
  BY ConcatProperties
<1> HIDE DEF m, n, both
<1>2. Places(r, o) \subseteq Nat /\ \A j \in Places(r, o) : j \in 1..n /\ r[j] = o
  BY <1>1 DEF Places, n
<1>3. Places(both, o) = Places(q, o) \cup moved
  <2>1. ASSUME NEW i \in Places(both, o) PROVE i \in Places(q, o) \cup moved
    <3>1. i \in 1..(m + n) /\ both[i] = o
      BY <1>1 DEF Places
    <3>2. CASE i <= m
      BY <1>1, <3>1, <3>2 DEF Places, m
    <3>3. CASE i > m
      <4>1. i - m \in 1..n /\ r[i - m] = o /\ m + (i - m) = i
        BY <1>1, <3>1, <3>3
      <4>2. i - m \in Places(r, o)
        BY <4>1 DEF Places, n
      <4> QED
        BY <4>1, <4>2
    <3> QED
      BY <1>1, <3>1, <3>2, <3>3
  <2>2. ASSUME NEW i \in Places(q, o) PROVE i \in Places(both, o)
    BY <1>1 DEF Places, m
  <2>3. ASSUME NEW j \in Places(r, o) PROVE m + j \in Places(both, o)
    BY <1>1, <1>2 DEF Places
  <2> QED
    BY <2>1, <2>2, <2>3
<1>4. f \in Bijection(Places(r, o), moved)
  <2>1. f \in [Places(r, o) -> moved]
    OBVIOUS
  <2>2. \A a, b \in Places(r, o) : f[a] = f[b] => a = b
    BY <1>1, <1>2
  <2>3. \A t \in moved : \E a \in Places(r, o) : f[a] = t
    OBVIOUS
  <2> HIDE DEF f, moved
  <2> QED
    BY <2>1, <2>2, <2>3 DEF Bijection, Injection, Surjection, IsInjective
<1>5. IsFiniteSet(moved) /\ Cardinality(moved) = Count(r, o)
  BY <1>4, CountType, FS_Bijection DEF ExistsBijection, Count
<1>6. Places(q, o) \cap moved = {}
  BY <1>1, <1>2 DEF Places, m
<1>7. Cardinality(Places(q, o) \cup moved) = Count(q, o) + Count(r, o) - 0
  <2> HIDE DEF moved
  <2>1. Cardinality(Places(q, o) \cap moved) = 0
    BY <1>6, FS_EmptySet
  <2> QED
    BY <1>5, <2>1, CountType, FS_Union DEF Count
<1> QED
  BY <1>3, <1>7, CountType DEF Count, both

\* An element replaced by the last one.
LEMMA CountWithout ==
  ASSUME NEW S, NEW q \in Seq(S), NEW i \in 1..Len(q), NEW o
  PROVE  /\ WithoutAt(q, i) \in Seq(S)
         /\ Len(WithoutAt(q, i)) = Len(q) - 1
         /\ Count(WithoutAt(q, i), o) = Count(q, o) - IF q[i] = o THEN 1 ELSE 0
<1> DEFINE n == Len(q)
           r == WithoutAt(q, i)
<1>1. n \in Nat /\ n >= 1 /\ i \in 1..n /\ n - 1 \in Nat
  BY LenProperties
<1>2. \A j \in 1..n : q[j] \in S
  OBVIOUS
<1>3. r = [k \in 1..(n - 1) |-> IF k = i THEN q[n] ELSE q[k]]
  BY DEF WithoutAt
<1> HIDE DEF n, r
<1>4. r \in [1..(n - 1) -> S]
  BY <1>1, <1>2, <1>3
<1>5. r \in Seq(S) /\ Len(r) = n - 1
  BY <1>1, <1>4, SeqDef
<1>6. Places(q, o) \subseteq 1..n /\ \A k \in 1..n : k \in Places(q, o) <=> q[k] = o
  BY DEF Places, n
<1>7. \A k \in 1..n : k \in Places(r, o) <=>
        /\ k # n
        /\ IF k = i THEN q[n] = o ELSE q[k] = o
  BY <1>1, <1>3, <1>5 DEF Places
<1>8. Places(r, o) \subseteq 1..n
  BY <1>1, <1>5 DEF Places
<1>9. Count(r, o) = Count(q, o) - IF q[i] = o THEN 1 ELSE 0
  <2>1. CASE q[i] = o
    <3>1. PICK k \in Places(q, o) : Places(r, o) = Places(q, o) \ {k}
      <4>1. CASE q[n] = o
        <5>1. Places(r, o) = Places(q, o) \ {n}
          BY <1>1, <1>6, <1>7, <1>8, <2>1, <4>1
        <5> QED
          BY <1>1, <1>6, <4>1, <5>1
      <4>2. CASE q[n] # o
        <5>1. Places(r, o) = Places(q, o) \ {i}
          BY <1>1, <1>6, <1>7, <1>8, <2>1, <4>2
        <5> QED
          BY <1>1, <1>6, <2>1, <5>1
      <4> QED
        BY <4>1, <4>2
    <3> QED
      BY <2>1, <3>1, CountType, FS_RemoveElement, ZenonT(30) DEF Count
  <2>2. CASE q[i] # o /\ q[n] = o
    <3>1. /\ i # n /\ i \notin Places(q, o) /\ n \in Places(q, o)
          /\ Places(r, o) = (Places(q, o) \ {n}) \cup {i}
      BY <1>1, <1>6, <1>7, <1>8, <2>2
    <3>2. /\ IsFiniteSet(Places(q, o) \ {n})
          /\ Cardinality(Places(q, o) \ {n}) = Count(q, o) - 1
      BY <3>1, CountType, FS_RemoveElement DEF Count
    <3>3. Cardinality((Places(q, o) \ {n}) \cup {i}) = Count(q, o) - 1 + 1
      BY <3>1, <3>2, FS_AddElement
    <3> QED
      BY <2>2, <3>1, <3>3, CountType DEF Count
  <2>3. CASE q[i] # o /\ q[n] # o
    <3>1. Places(r, o) = Places(q, o)
      BY <1>1, <1>6, <1>7, <1>8, <2>3
    <3>2. Count(r, o) = Count(q, o)
      BY <3>1 DEF Count
    <3> QED
      BY <2>3, <3>2, CountType
  <2> QED
    BY <2>1, <2>2, <2>3
<1> QED
  BY <1>5, <1>9 DEF r, n

LEMMA ObjsType ==
  ASSUME NEW l \in Seq(Entry)
  PROVE  Objs(l) \in Seq(Objects) /\ Len(Objs(l)) = Len(l)
<1>1. Len(l) \in Nat /\ \A i \in 1..Len(l) : l[i] \in Entry
  OBVIOUS
<1>2. Objs(l) \in [1..Len(l) -> Objects]
  BY <1>1 DEF Objs, Entry
<1> QED
  BY <1>1, <1>2, SeqDef

LEMMA ObjsAppend ==
  ASSUME NEW l \in Seq(Entry), NEW x \in Entry
  PROVE  Objs(Append(l, x)) = Append(Objs(l), x.obj)
<1> DEFINE r == Append(l, x)
           s == Append(Objs(l), x.obj)
<1>1. /\ Len(l) \in Nat /\ Len(r) = Len(l) + 1 /\ r[Len(l) + 1] = x
      /\ \A i \in 1..Len(l) : r[i] = l[i]
  BY AppendProperties
<1>2. x.obj \in Objects
  BY DEF Entry
<1>3. /\ s \in Seq(Objects) /\ Len(s) = Len(l) + 1 /\ s[Len(l) + 1] = x.obj
      /\ \A i \in 1..Len(l) : s[i] = Objs(l)[i]
  BY <1>2, ObjsType, AppendProperties
<1>4. r \in Seq(Entry)
  OBVIOUS
<1> HIDE DEF r, s
<1>5. Objs(r) \in Seq(Objects) /\ Len(Objs(r)) = Len(l) + 1
  BY <1>1, <1>4, ObjsType
<1>6. \A i \in 1..(Len(l) + 1) : Objs(r)[i] = s[i]
  BY <1>1, <1>3 DEF Objs
<1>7. Objs(r) = s
  BY <1>3, <1>5, <1>6, SeqEqual
<1> QED
  BY <1>7 DEF r, s

LEMMA ObjsWithout ==
  ASSUME NEW l \in Seq(Entry), NEW i \in 1..Len(l)
  PROVE  /\ WithoutAt(l, i) \in Seq(Entry)
         /\ Objs(WithoutAt(l, i)) = WithoutAt(Objs(l), i)
<1> DEFINE r == WithoutAt(l, i)
<1>1. r \in Seq(Entry) /\ Len(r) = Len(l) - 1
  BY CountWithout
<1>2. r = [k \in 1..(Len(l) - 1) |-> IF k = i THEN l[Len(l)] ELSE l[k]]
  BY DEF WithoutAt
<1>3. Len(l) \in Nat /\ Len(l) >= 1
  BY LenProperties
<1> HIDE DEF r
<1>4. Objs(r) = [k \in 1..(Len(l) - 1) |->
                   IF k = i THEN Objs(l)[Len(l)] ELSE Objs(l)[k]]
  BY <1>1, <1>2, <1>3 DEF Objs
<1>5. Objs(r) = WithoutAt(Objs(l), i)
  BY <1>4, ObjsType DEF WithoutAt
<1> QED
  BY <1>1, <1>5 DEF r

-----------------------------------------------------------------------------
\* Counting handles.

\* The handles of the objects in a that refer to o, and those of one object.
HandlesTo(a, pr, o) == {h \in a \X Props : pr[h[1]][h[2]] = o}
To(a, pr, o) == Cardinality(HandlesTo(a, pr, o))
Own(f, o) == {p \in Props : f[p] = o}

HandleMap == [Objects -> [Props -> Objects \cup {Null}]]

LEMMA ToType ==
  ASSUME NEW a \in SUBSET Objects, NEW pr, NEW o
  PROVE  /\ IsFiniteSet(HandlesTo(a, pr, o))
         /\ To(a, pr, o) \in Nat
         /\ To(a, pr, o) = 0 <=> \A x \in a, p \in Props : pr[x][p] # o
<1>1. IsFiniteSet(a)
  BY ObjectsFinite, FS_Subset
<1>2. IsFiniteSet(a \X Props)
  BY <1>1, CollectorAssumption, FS_Product
<1>3. IsFiniteSet(HandlesTo(a, pr, o))
  <2>1. HandlesTo(a, pr, o) \in SUBSET (a \X Props)
    BY DEF HandlesTo
  <2> QED
    BY <1>2, <2>1, FS_Subset
<1>4. To(a, pr, o) \in Nat
  BY <1>3, FS_CardinalityType DEF To
<1>5. To(a, pr, o) = 0 <=> HandlesTo(a, pr, o) = {}
  BY <1>3, FS_EmptySet DEF To
<1>6. HandlesTo(a, pr, o) = {} <=> \A x \in a, p \in Props : pr[x][p] # o
  <2>1. ASSUME NEW x \in a, NEW p \in Props, pr[x][p] = o
        PROVE  <<x, p>> \in HandlesTo(a, pr, o)
    BY <2>1 DEF HandlesTo
  <2>2. ASSUME NEW h \in HandlesTo(a, pr, o)
        PROVE  \E x \in a, p \in Props : pr[x][p] = o
    BY DEF HandlesTo
  <2> QED
    BY <2>1, <2>2
<1> QED
  BY <1>3, <1>4, <1>5, <1>6

Same(x, y) == IF x = y THEN 1 ELSE 0

\* One handle changed.
LEMMA ToAssigned ==
  ASSUME NEW a \in SUBSET Objects, NEW pr \in HandleMap,
         NEW o \in a, NEW p \in Props, NEW x, pr[o][p] # x, NEW y,
         NEW new, new = [pr EXCEPT ![o][p] = x]
  PROVE  To(a, new, y) = To(a, pr, y) + (Same(y, x) - Same(y, pr[o][p]))
<1> DEFINE h == <<o, p>>
           H == HandlesTo(a, pr, y)
           K == HandlesTo(a, new, y)
<1>1. \A d \in a, q \in Props : new[d][q] = IF d = o /\ q = p THEN x ELSE pr[d][q]
  BY DEF HandleMap
<1>2. h \in a \X Props /\ h[1] = o /\ h[2] = p
  OBVIOUS
<1>3. \A k \in a \X Props : /\ k[1] \in a /\ k[2] \in Props
                            /\ k = h <=> k[1] = o /\ k[2] = p
  OBVIOUS
<1> HIDE DEF h
<1>4. /\ H \subseteq a \X Props /\ K \subseteq a \X Props
      /\ \A k \in a \X Props : /\ k \in H <=> pr[k[1]][k[2]] = y
                               /\ k \in K <=> (IF k = h THEN x ELSE pr[k[1]][k[2]]) = y
  BY <1>1, <1>3 DEF HandlesTo
<1>5. IsFiniteSet(H) /\ IsFiniteSet(K) /\ Cardinality(H) = To(a, pr, y)
      /\ Cardinality(K) = To(a, new, y) /\ To(a, pr, y) \in Nat
  BY ToType DEF To
<1> HIDE DEF H, K
<1>6. CASE y = x
  <2>1. K = H \cup {h} /\ h \notin H
    BY <1>2, <1>4, <1>6
  <2>2. To(a, new, y) = To(a, pr, y) + 1
    BY <1>5, <2>1, FS_AddElement
  <2> QED
    BY <1>5, <1>6, <2>2 DEF Same
<1>7. CASE y # x /\ y = pr[o][p]
  <2>1. K = H \ {h} /\ h \in H
    BY <1>2, <1>4, <1>7
  <2>2. To(a, new, y) = To(a, pr, y) - 1
    BY <1>5, <2>1, FS_RemoveElement
  <2> QED
    BY <1>5, <1>7, <2>2 DEF Same
<1>8. CASE y # x /\ y # pr[o][p]
  <2>1. K = H
    BY <1>2, <1>4, <1>8
  <2> QED
    BY <1>5, <1>8, <2>1 DEF Same
<1> QED
  BY <1>6, <1>7, <1>8

LEMMA OwnType ==
  ASSUME NEW f, NEW o
  PROVE  /\ IsFiniteSet(Own(f, o)) /\ Cardinality(Own(f, o)) \in Nat
         /\ Cardinality(Own(f, o)) = 0 <=> \A p \in Props : f[p] # o
<1>1. IsFiniteSet(Own(f, o))
  BY CollectorAssumption, FS_Subset DEF Own
<1>2. Cardinality(Own(f, o)) = 0 <=> Own(f, o) = {}
  BY <1>1, FS_EmptySet
<1> QED
  BY <1>1, <1>2, FS_CardinalityType DEF Own

\* All handles of one object dropped.
LEMMA ToDropped ==
  ASSUME NEW a \in SUBSET Objects, NEW pr \in HandleMap, NEW o \in a, NEW y \in Objects
  PROVE  LET new == [pr EXCEPT ![o] = NoHandles]
         IN  /\ To(a, new, y) = To(a, pr, y) - Cardinality(Own(pr[o], y))
             /\ To(a \ {o}, new, y) = To(a, new, y)
<1> DEFINE new == [pr EXCEPT ![o] = NoHandles]
           H == HandlesTo(a, pr, y)
           K == HandlesTo(a, new, y)
           D == {<<o, p>> : p \in Own(pr[o], y)}
           f == [p \in Own(pr[o], y) |-> <<o, p>>]
<1>1. /\ \A p \in Props : new[o][p] = Null
      /\ \A d \in a \ {o} : new[d] = pr[d]
  BY DEF HandleMap, NoHandles
<1>2. y # Null
  BY ObjectsFinite
<1> HIDE DEF new
<1>3. HandlesTo(a \ {o}, new, y) = K
  BY <1>1, <1>2 DEF HandlesTo
<1>4. K = H \ D
  <2>1. ASSUME NEW d \in a, NEW p \in Props
        PROVE  /\ <<d, p>> \in H <=> pr[d][p] = y
               /\ <<d, p>> \in K <=> new[d][p] = y
               /\ <<d, p>> \in D <=> d = o /\ pr[d][p] = y
    BY DEF HandlesTo, Own
  <2>2. H \subseteq a \X Props /\ K \subseteq a \X Props
    BY DEF HandlesTo
  <2> HIDE DEF H, K, D
  <2>3. ASSUME NEW d \in a, NEW p \in Props
        PROVE  <<d, p>> \in K <=> <<d, p>> \in H \ D
    <3>1. CASE d = o
      BY <1>1, <1>2, <2>1, <3>1
    <3>2. CASE d # o
      BY <1>1, <2>1, <3>2
    <3> QED
      BY <3>1, <3>2
  <2> QED
    BY <2>2, <2>3
<1>5. D \subseteq H
  BY DEF HandlesTo, Own
<1>6. f \in Bijection(Own(pr[o], y), D)
  <2>1. f \in [Own(pr[o], y) -> D]
    OBVIOUS
  <2>2. \A p, q \in Own(pr[o], y) : f[p] = f[q] => p = q
    OBVIOUS
  <2>3. \A t \in D : \E p \in Own(pr[o], y) : f[p] = t
    OBVIOUS
  <2> HIDE DEF f, D
  <2> QED
    BY <2>1, <2>2, <2>3 DEF Bijection, Injection, Surjection, IsInjective
<1>7. IsFiniteSet(D) /\ Cardinality(D) = Cardinality(Own(pr[o], y))
  BY <1>6, OwnType, FS_Bijection DEF ExistsBijection
<1>8. IsFiniteSet(H) /\ H \cap D = D
  BY <1>5, ToType
<1> HIDE DEF H, K, D
<1>9. Cardinality(K) = Cardinality(H) - Cardinality(Own(pr[o], y))
  <2>1. Cardinality(H \ D) = Cardinality(H) - Cardinality(H \cap D)
    BY <1>8, FS_Difference
  <2>2. Cardinality(H \cap D) = Cardinality(Own(pr[o], y))
    BY <1>7, <1>8, Zenon
  <2> QED
    BY <1>4, <2>1, <2>2
<1> QED
  BY <1>3, <1>9 DEF To, H, K, new

\* An object without handles added.
LEMMA ToAdded ==
  ASSUME NEW a, NEW pr, NEW o, pr[o] = NoHandles, NEW y \in Objects,
         NEW b, b = a \cup {o}
  PROVE  To(b, pr, y) = To(a, pr, y)
<1>1. y # Null /\ \A p \in Props : pr[o][p] = Null
  BY ObjectsFinite DEF NoHandles
<1>2. HandlesTo(b, pr, y) = HandlesTo(a, pr, y)
  BY <1>1 DEF HandlesTo
<1> QED
  BY <1>2 DEF To

-----------------------------------------------------------------------------
\* The inductive invariant.

CallNames == {"new", "old", "detect", "add"}
CycleType == [on : BOOLEAN, detect : BOOLEAN, destroy : BOOLEAN, count : Nat]

\* The only call to add is the last one; a full cycle is always in a call.
CallsInOrder ==
  /\ calls \in Seq(CallNames)
  /\ adding \in Objects \cup {Null}
  /\ cycle \in CycleType
  /\ \A i \in 1..Len(calls) : calls[i] = "add" <=> i = Len(calls) /\ adding # Null
  /\ calls = <<>> => adding = Null
  /\ cycle.on => calls # <<>> /\ adding = Null

ListTypes ==
  /\ alive \subseteq Objects
  /\ gcNewObjects \in Seq(Entry)
  /\ gcOldObjects \in Seq(Objects)

Listings(o) ==
  (IF o = adding THEN 1 ELSE 0) + Count(Objs(gcNewObjects), o) + Count(gcOldObjects, o)

OnceListed == \A o \in Objects : Listings(o) = IF o \in alive THEN 1 ELSE 0

LEMMA ListingsAreListed ==
  ASSUME ListTypes, NEW o
  PROVE  Listed(o) = Listings(o)
<1>1. Len(Objs(gcNewObjects)) = Len(gcNewObjects)
  BY ObjsType DEF ListTypes
<1>2. Places(Objs(gcNewObjects), o)
        = {i \in 1..Len(gcNewObjects) : gcNewObjects[i].obj = o}
  BY <1>1 DEF Places, Objs
<1> QED
  BY <1>2 DEF Listed, Listings, Count, Places

\* What is in a list is alive, and in no other place.
LEMMA InList ==
  ASSUME ListTypes, OnceListed
  PROVE  /\ \A i \in 1..Len(gcNewObjects) :
              LET o == gcNewObjects[i].obj
              IN  /\ o \in alive /\ o # adding
                  /\ Count(Objs(gcNewObjects), o) = 1 /\ Count(gcOldObjects, o) = 0
         /\ \A i \in 1..Len(gcOldObjects) :
              LET o == gcOldObjects[i]
              IN  /\ o \in alive /\ o # adding
                  /\ Count(Objs(gcNewObjects), o) = 0 /\ Count(gcOldObjects, o) = 1
         /\ adding \in Objects =>
              /\ adding \in alive
              /\ Count(Objs(gcNewObjects), adding) = 0 /\ Count(gcOldObjects, adding) = 0
<1> DEFINE new(o) == Count(Objs(gcNewObjects), o)
           old(o) == Count(gcOldObjects, o)
<1>1. ASSUME NEW o \in Objects
      PROVE  /\ new(o) \in Nat /\ old(o) \in Nat
             /\ Listings(o) = (IF o = adding THEN 1 ELSE 0) + new(o) + old(o)
             /\ Listings(o) = IF o \in alive THEN 1 ELSE 0
  <2>1. Objs(gcNewObjects) \in Seq(Objects) /\ gcOldObjects \in Seq(Objects)
    BY ObjsType DEF ListTypes
  <2>2. new(o) \in Nat /\ old(o) \in Nat
    BY <2>1, CountType
  <2> QED
    BY <2>2 DEF Listings, OnceListed
<1>2. ASSUME NEW i \in 1..Len(gcNewObjects)
      PROVE  gcNewObjects[i].obj \in Objects /\ new(gcNewObjects[i].obj) # 0
  <2>1. gcNewObjects[i].obj \in Objects
    <3>1. gcNewObjects[i] \in Entry
      BY DEF ListTypes
    <3> QED
      BY <3>1 DEF Entry
  <2>2. /\ Objs(gcNewObjects) \in Seq(Objects)
        /\ i \in 1..Len(Objs(gcNewObjects))
        /\ Objs(gcNewObjects)[i] = gcNewObjects[i].obj
    BY ObjsType DEF ListTypes, Objs
  <2> QED
    BY <2>1, <2>2, CountType
<1>3. ASSUME NEW i \in 1..Len(gcOldObjects)
      PROVE  gcOldObjects[i] \in Objects /\ old(gcOldObjects[i]) # 0
  BY CountType DEF ListTypes
<1> HIDE DEF new, old
<1>4. ASSUME NEW o \in Objects, new(o) # 0
      PROVE  o \in alive /\ o # adding /\ new(o) = 1 /\ old(o) = 0
  BY <1>1, <1>4
<1>5. ASSUME NEW o \in Objects, old(o) # 0
      PROVE  o \in alive /\ o # adding /\ new(o) = 0 /\ old(o) = 1
  BY <1>1, <1>5
<1>6. ASSUME adding \in Objects
      PROVE  adding \in alive /\ new(adding) = 0 /\ old(adding) = 0
  BY <1>1, <1>6
<1> QED
  BY <1>2, <1>3, <1>4, <1>5, <1>6 DEF new, old

-----------------------------------------------------------------------------
\* The calls to make.

LEMMA TailElements ==
  ASSUME NEW S, NEW q \in Seq(S), q # <<>>
  PROVE  /\ Len(q) \in Nat \ {0} /\ Head(q) = q[1]
         /\ Tail(q) \in Seq(S) /\ Len(Tail(q)) = Len(q) - 1
         /\ \A i \in 1..(Len(q) - 1) : Tail(q)[i] = q[i + 1]
         /\ Tail(q) = <<>> <=> Len(q) = 1
<1>1. /\ Len(q) \in Nat \ {0} /\ Head(q) = q[1]
      /\ Tail(q) \in Seq(S) /\ Len(Tail(q)) = Len(q) - 1
      /\ \A i \in 1..(Len(q) - 1) : Tail(q)[i] = q[i + 1]
  BY HeadTailProperties, EmptySeq
<1>2. Tail(q) = <<>> <=> Len(Tail(q)) = 0
  BY <1>1, EmptySeq
<1> QED
  BY <1>1, <1>2

LEMMA CallsGoOn ==
  ASSUME CallsInOrder, ListTypes, calls # <<>>, Head(calls) # "add",
         Continue \/ MoreToDo \/ NothingToDo \/ (NextCall /\ ~cycle.on)
  PROVE  CallsInOrder' /\ adding' = adding
<1>1. CASE Continue
  BY <1>1 DEF Continue, CallsInOrder
<1>2. CASE NextCall /\ ~cycle.on
  <2> DEFINE rest == Tail(calls)
  <2>1. /\ Len(calls) \in Nat \ {0} /\ Head(calls) = calls[1]
        /\ rest \in Seq(CallNames) /\ Len(rest) = Len(calls) - 1
        /\ \A i \in 1..(Len(calls) - 1) : rest[i] = calls[i + 1]
        /\ rest = <<>> <=> Len(calls) = 1
    BY TailElements DEF CallsInOrder
  <2> HIDE DEF rest
  <2>2. \A i \in 1..Len(calls) : calls[i] = "add" <=> i = Len(calls) /\ adding # Null
    BY DEF CallsInOrder
  <2>3. \A i \in 1..Len(rest) : rest[i] = "add" <=> i = Len(rest) /\ adding # Null
    BY <2>1, <2>2
  <2>4. rest = <<>> => adding = Null
    BY <2>1, <2>2
  <2>5. calls' = rest /\ UNCHANGED <<adding, cycle>>
    BY <1>2 DEF NextCall, rest
  <2> QED
    BY <1>2, <2>1, <2>3, <2>4, <2>5 DEF CallsInOrder
<1>3. CASE cycle.on /\ NothingToDo
  <2>1. adding = Null /\ adding' = adding /\ cycle \in CycleType
    BY <1>3 DEF NothingToDo, CallsInOrder
  <2>2. CASE calls' \in {<<"old">>, <<"detect">>, <<"new">>}
    <3>1. PICK kind \in CallNames \ {"add"} : calls' = <<kind>>
      BY <2>2 DEF CallNames
    <3>2. /\ calls' \in Seq(CallNames)
          /\ Len(calls') = 1 /\ calls'[1] # "add" /\ calls' # <<>>
      BY <3>1
    <3>3. cycle' \in CycleType
      <4>1. CASE cycle' = cycle
        BY <2>1, <4>1
      <4>2. CASE cycle' = [cycle EXCEPT !.count = Len(gcOldObjects)]
        <5>1. Len(gcOldObjects) \in Nat
          BY DEF ListTypes
        <5> QED
          BY <2>1, <4>2, <5>1 DEF CycleType
      <4> QED
        BY <1>3, <3>2, <4>1, <4>2 DEF NothingToDo
    <3> QED
      BY <2>1, <3>2, <3>3 DEF CallsInOrder
  <2>3. CASE calls' = <<>> /\ cycle' = NoCycle
    BY <2>1, <2>3 DEF CallsInOrder, NoCycle, CycleType
  <2> QED
    BY <1>3, <2>2, <2>3 DEF NothingToDo
<1> QED
  BY <1>1, <1>2, <1>3 DEF MoreToDo, NothingToDo

\* Every arm of the collector's switches but Add.
Arms ==
  \/ NothingOld
  \/ StartNew \/ DestroyNew \/ KeepNew \/ EndNew
  \/ StartOld \/ NextOld \/ EndOld
  \/ ClearCounters \/ BuildMapRead \/ BuildMapInsert \/ BuildMapDone
  \/ CountReferences \/ CountReferencesDone
  \/ FindLive \/ FindLiveDone \/ RemoveLive \/ RemoveLiveDone
  \/ VerifyUnmarked \/ VerifyUnmarkedDone \/ BreakCircle \/ BreakCirclesDone

LEMMA ArmsGoOn ==
  ASSUME Arms
  PROVE  /\ calls # <<>> /\ Head(calls) # "add"
         /\ Continue \/ MoreToDo \/ NothingToDo \/ (NextCall /\ ~cycle.on)
<1>1. Under("new") \/ Under("old") \/ Under("detect")
  BY DEF Arms, NothingOld, StartNew, DestroyNew, KeepNew, EndNew, NextNew,
     StartOld, NextOld, EndOld, ClearCounters, BuildMapRead, BuildMapInsert,
     BuildMapDone, CountReferences, CountReferencesDone, FindLive, FindLiveDone,
     RemoveLive, RemoveLiveDone, VerifyUnmarked, VerifyUnmarkedDone, BreakCircle,
     BreakCirclesDone, Detects, ToDetect
<1>2. SUFFICES Continue \/ MoreToDo \/ NothingToDo \/ (NextCall /\ ~cycle.on)
  BY <1>1 DEF Under
<1>3. CASE \/ NothingOld \/ StartNew \/ DestroyNew \/ KeepNew \/ EndNew
           \/ StartOld \/ NextOld \/ EndOld
  BY <1>3 DEF NothingOld, StartNew, DestroyNew, KeepNew, EndNew, NextNew, StartOld,
     NextOld, EndOld
<1>4. CASE \/ ClearCounters \/ BuildMapRead \/ BuildMapInsert \/ BuildMapDone
           \/ CountReferences \/ CountReferencesDone
  BY <1>4 DEF ClearCounters, BuildMapRead, BuildMapInsert, BuildMapDone,
     CountReferences, CountReferencesDone, Restart
<1>5. CASE \/ FindLive \/ FindLiveDone \/ RemoveLive \/ RemoveLiveDone
           \/ VerifyUnmarked \/ VerifyUnmarkedDone \/ BreakCircle \/ BreakCirclesDone
  BY <1>5 DEF FindLive, FindLiveDone, RemoveLive, RemoveLiveDone, VerifyUnmarked,
     VerifyUnmarkedDone, BreakCircle, BreakCirclesDone, Restart
<1> QED
  BY <1>3, <1>4, <1>5 DEF Arms

LEMMA AddEnds ==
  ASSUME CallsInOrder, Add
  PROVE  adding \in Objects /\ ~cycle.on
<1>1. calls # <<>> /\ calls[1] = "add" /\ 1 \in 1..Len(calls)
  BY TailElements DEF Add, Under, CallsInOrder
<1> QED
  BY <1>1 DEF CallsInOrder

\* The calls AddScriptObjectToGC makes before it adds the object.
LEMMA CallsOfCreate ==
  ASSUME NEW first \in {<<"detect", "old">>, <<>>}, NEW n \in Nat
  PROVE  LET q == first \o [i \in 1..n |-> "new"] \o <<"add">>
         IN  /\ q \in Seq(CallNames) /\ q # <<>>
             /\ \A i \in 1..Len(q) : q[i] = "add" <=> i = Len(q)
<1> DEFINE others == CallNames \ {"add"}
           sweeps == [i \in 1..n |-> "new"]
           front == first \o sweeps
           q == Append(front, "add")
<1>1. first \in Seq(others)
  <2>1. "detect" \in others /\ "old" \in others
    BY DEF CallNames
  <2> HIDE DEF others
  <2>2. CASE first = <<"detect", "old">>
    BY <2>1, <2>2
  <2>3. CASE first = <<>>
    BY <2>3
  <2> QED
    BY <2>2, <2>3
<1>2. sweeps \in Seq(others)
  BY DEF CallNames
<1> HIDE DEF others, sweeps
<1>3. front \in Seq(others)
  BY <1>1, <1>2, ConcatProperties
<1> HIDE DEF front
<1>4. /\ Len(front) \in Nat /\ \A i \in 1..Len(front) : front[i] \in others
      /\ front \in Seq(CallNames) /\ "add" \in CallNames
  BY <1>3 DEF others, CallNames
<1>5. /\ q \in Seq(CallNames) /\ q # <<>> /\ Len(q) = Len(front) + 1
      /\ q[Len(front) + 1] = "add"
      /\ \A i \in 1..Len(front) : q[i] = front[i]
  BY <1>4, AppendProperties
<1>6. q = front \o <<"add">>
  BY <1>4, AppendIsConcat
<1> HIDE DEF q
<1>7. \A i \in 1..Len(q) : q[i] = "add" <=> i = Len(q)
  BY <1>4, <1>5 DEF others
<1> QED
  BY <1>5, <1>6, <1>7 DEF front, sweeps

LEMMA CallsKept ==
  ASSUME CallsInOrder, ListTypes, ListTypes', Next
  PROVE  CallsInOrder'
<1>1. CASE Arms
  BY <1>1, ArmsGoOn, CallsGoOn
<1>2. CASE Add
  BY <1>2, AddEnds DEF Add, CallsInOrder
<1>3. CASE Take \/ Drop \/ Assign
  BY <1>3 DEF Take, Drop, Assign, Works, CallsInOrder
<1>4. CASE Create
  <2>1. cycle' = cycle
    BY <1>4 DEF Create, Works
  <2>2. CASE UNCHANGED <<calls, adding>>
    BY <2>1, <2>2 DEF CallsInOrder
  <2>3. CASE ~UNCHANGED <<calls, adding>>
    <3>1. /\ calls = <<>> /\ adding' \in Objects
          /\ calls' = (IF gcOldObjects # <<>> THEN <<"detect", "old">> ELSE <<>>)
                        \o [i \in 1..Iterations |-> "new"] \o <<"add">>
      BY <1>4, <2>3 DEF Create
    <3>2. Iterations \in Nat
      BY DEF Iterations
    <3>3. PICK first \in {<<"detect", "old">>, <<>>} :
             calls' = first \o [i \in 1..Iterations |-> "new"] \o <<"add">>
      BY <3>1
    <3>4. /\ calls' \in Seq(CallNames) /\ calls' # <<>>
          /\ \A i \in 1..Len(calls') : calls'[i] = "add" <=> i = Len(calls')
      BY <3>2, <3>3, CallsOfCreate
    <3> QED
      BY <2>1, <3>1, <3>4, ObjectsFinite DEF CallsInOrder
  <2> QED
    BY <2>2, <2>3
<1>5. CASE FullCycle
  <2>1. /\ adding = Null /\ adding' = adding
        /\ calls' \in {<<"detect">>, <<"new">>}
    BY <1>5 DEF FullCycle, CallsInOrder
  <2>2. PICK kind \in CallNames \ {"add"} : calls' = <<kind>>
    BY <2>1 DEF CallNames
  <2>3. cycle' \in CycleType
    <3>1. Len(gcOldObjects') \in Nat
      BY DEF ListTypes
    <3> QED
      BY <1>5, <3>1 DEF FullCycle, CycleType
  <2> QED
    BY <2>1, <2>2, <2>3 DEF CallsInOrder
<1>6. ASSUME NEW detect \in BOOLEAN, NEW destroy \in BOOLEAN, Collect(detect, destroy)
      PROVE  CallsInOrder'
  <2>1. adding = Null /\ ~cycle.on /\ UNCHANGED <<adding, cycle>>
    BY <1>6 DEF Collect, CallsInOrder
  <2> DEFINE others == CallNames \ {"add"}
             first == IF destroy THEN <<"new", "old">> ELSE <<>>
             second == IF detect THEN <<"detect">> ELSE <<>>
  <2>2. "new" \in others /\ "old" \in others /\ "detect" \in others
    BY DEF CallNames
  <2>3. first \in Seq(others) /\ second \in Seq(others)
    <3> HIDE DEF others
    <3> QED
      BY <2>2
  <2>4. calls' = first \o second
    BY <1>6 DEF Collect
  <2> HIDE DEF first, second
  <2>5. calls' \in Seq(others)
    BY <2>3, <2>4, ConcatProperties
  <2>6. /\ calls' \in Seq(CallNames)
        /\ \A i \in 1..Len(calls') : calls'[i] # "add"
    BY <2>5
  <2> QED
    BY <2>1, <2>6 DEF CallsInOrder
<1> QED
  BY <1>1, <1>2, <1>3, <1>4, <1>5, <1>6, CollectorAssumption
     DEF Next, Application, Collector, Arms

-----------------------------------------------------------------------------
\* The lists.

LEMMA ListCounts ==
  ASSUME ListTypes, NEW y
  PROVE  /\ Count(Objs(gcNewObjects), y) \in Nat
         /\ Count(gcOldObjects, y) \in Nat
  BY ObjsType, CountType DEF ListTypes

LEMMA NewAdded ==
  ASSUME ListTypes, NEW o \in Objects, AddNew(o)
  PROVE  /\ gcNewObjects' \in Seq(Entry) /\ gcOldObjects' = gcOldObjects
         /\ \A y : Count(Objs(gcNewObjects'), y)
                     = Count(Objs(gcNewObjects), y) + IF o = y THEN 1 ELSE 0
<1> DEFINE e == [obj |-> o, sweeps |-> 0]
<1>1. e \in Entry /\ e.obj = o
  BY DEF Entry
<1>2. gcNewObjects' = Append(gcNewObjects, e) /\ gcOldObjects' = gcOldObjects
  BY DEF AddNew
<1> HIDE DEF e
<1>3. gcNewObjects' \in Seq(Entry)
  BY <1>1, <1>2, AppendProperties DEF ListTypes
<1>4. Objs(gcNewObjects') = Append(Objs(gcNewObjects), o)
  BY <1>1, <1>2, ObjsAppend DEF ListTypes
<1>5. Objs(gcNewObjects) \in Seq(Objects)
  BY ObjsType DEF ListTypes
<1> QED
  BY <1>2, <1>3, <1>4, <1>5, CountAppend

LEMMA NewRemoved ==
  ASSUME ListTypes, NEW i \in 1..Len(gcNewObjects), NEW y
  PROVE  /\ WithoutAt(gcNewObjects, i) \in Seq(Entry)
         /\ Count(Objs(WithoutAt(gcNewObjects, i)), y)
              = Count(Objs(gcNewObjects), y) - IF gcNewObjects[i].obj = y THEN 1 ELSE 0
<1>1. /\ WithoutAt(gcNewObjects, i) \in Seq(Entry)
      /\ Objs(WithoutAt(gcNewObjects, i)) = WithoutAt(Objs(gcNewObjects), i)
  BY ObjsWithout DEF ListTypes
<1>2. /\ Objs(gcNewObjects) \in Seq(Objects) /\ i \in 1..Len(Objs(gcNewObjects))
      /\ Objs(gcNewObjects)[i] = gcNewObjects[i].obj
  BY ObjsType DEF ListTypes, Objs
<1>3. Count(WithoutAt(Objs(gcNewObjects), i), y)
        = Count(Objs(gcNewObjects), y) - IF Objs(gcNewObjects)[i] = y THEN 1 ELSE 0
  BY <1>2, CountWithout
<1> QED
  BY <1>1, <1>2, <1>3

\* What changes the lists, or what exists.
Relists == Create \/ Add \/ FullCycle \/ StartNew \/ DestroyNew \/ KeepNew \/ NextOld

LEMMA ListsAlone ==
  ASSUME CallsInOrder, ListTypes, Next, ~Relists
  PROVE  UNCHANGED <<alive, gcNewObjects, gcOldObjects, adding>>
<1>1. CASE Arms
  <2>1. adding' = adding
    BY <1>1, ArmsGoOn, CallsGoOn
  <2>2. CASE NothingOld \/ EndNew \/ StartOld \/ EndOld
    BY <2>1, <2>2 DEF NothingOld, EndNew, StartOld, EndOld, objectVars, listVars
  <2>3. CASE \/ ClearCounters \/ BuildMapRead \/ BuildMapInsert \/ BuildMapDone
             \/ CountReferences \/ CountReferencesDone
    BY <2>1, <2>3 DEF ClearCounters, BuildMapRead, BuildMapInsert, BuildMapDone,
       CountReferences, CountReferencesDone, Detects, Restart, objectVars, listVars
  <2>4. CASE \/ FindLive \/ FindLiveDone \/ RemoveLive \/ RemoveLiveDone
             \/ VerifyUnmarked \/ VerifyUnmarkedDone \/ BreakCircle \/ BreakCirclesDone
    BY <2>1, <2>4 DEF FindLive, FindLiveDone, RemoveLive, RemoveLiveDone, VerifyUnmarked,
       VerifyUnmarkedDone, BreakCircle, BreakCirclesDone, Detects, Restart, objectVars,
       listVars
  <2> QED
    BY <1>1, <2>2, <2>3, <2>4 DEF Arms, Relists
<1>2. CASE Take \/ Drop \/ Assign
  BY <1>2 DEF Take, Drop, Assign, listVars
<1>3. ASSUME NEW detect \in BOOLEAN, NEW destroy \in BOOLEAN, Collect(detect, destroy)
      PROVE  UNCHANGED <<alive, gcNewObjects, gcOldObjects, adding>>
  BY <1>3 DEF Collect, objectVars, listVars
<1> QED
  BY <1>1, <1>2, <1>3, CollectorAssumption DEF Next, Application, Collector, Arms, Relists

LEMMA ListsOfCreate ==
  ASSUME CallsInOrder, ListTypes, OnceListed, Create
  PROVE  ListTypes' /\ OnceListed'
<1>1. PICK o \in Objects \ alive :
        /\ alive' = alive \cup {o}
        /\ IF gcNewObjects # <<>> /\ calls = <<>>
             THEN adding' = o /\ UNCHANGED listVars
             ELSE AddNew(o) /\ UNCHANGED <<calls, adding>>
  BY DEF Create
<1>2. \A y \in Objects : /\ Count(Objs(gcNewObjects), y) \in Nat
                         /\ Count(gcOldObjects, y) \in Nat
                         /\ Listings(y) = IF y \in alive THEN 1 ELSE 0
  BY ListCounts DEF OnceListed
<1>3. CASE gcNewObjects # <<>> /\ calls = <<>>
  <2>1. adding = Null /\ adding' = o /\ UNCHANGED listVars
    BY <1>1, <1>3 DEF CallsInOrder
  <2>2. ListTypes'
    BY <1>1, <2>1 DEF ListTypes, listVars
  <2>3. ASSUME NEW y \in Objects
        PROVE  Listings(y)' = Listings(y) + IF y = o THEN 1 ELSE 0
    BY <1>2, <2>1, ObjectsFinite DEF Listings, listVars
  <2> QED
    BY <1>1, <1>2, <2>2, <2>3 DEF OnceListed
<1>4. CASE ~(gcNewObjects # <<>> /\ calls = <<>>)
  <2>1. AddNew(o) /\ adding' = adding
    BY <1>1, <1>4
  <2>2. /\ gcNewObjects' \in Seq(Entry) /\ gcOldObjects' = gcOldObjects
        /\ \A y : Count(Objs(gcNewObjects'), y)
                    = Count(Objs(gcNewObjects), y) + IF o = y THEN 1 ELSE 0
    BY <2>1, NewAdded
  <2>3. ListTypes'
    BY <1>1, <2>2 DEF ListTypes
  <2>4. ASSUME NEW y \in Objects
        PROVE  Listings(y)' = Listings(y) + IF y = o THEN 1 ELSE 0
    BY <1>2, <2>1, <2>2 DEF Listings
  <2> QED
    BY <1>1, <1>2, <2>3, <2>4 DEF OnceListed
<1> QED
  BY <1>3, <1>4

\* The object at i goes from one place to another, or from its last one.
LEMMA ListsOfDestroyNew ==
  ASSUME ListTypes, OnceListed, adding' = adding, gcOldObjects' = gcOldObjects,
         NEW i \in 1..Len(gcNewObjects), gcNewObjects' = WithoutAt(gcNewObjects, i),
         alive' = alive \ {gcNewObjects[i].obj}
  PROVE  ListTypes' /\ OnceListed'
<1>1. gcNewObjects[i].obj \in alive
  BY InList
<1>2. ListTypes'
  BY NewRemoved DEF ListTypes
<1>3. ASSUME NEW y \in Objects
      PROVE  Listings(y)' = Listings(y) - IF y = gcNewObjects[i].obj THEN 1 ELSE 0
  BY ListCounts, NewRemoved DEF Listings
<1>4. \A y \in Objects : Listings(y) = IF y \in alive THEN 1 ELSE 0
  BY DEF OnceListed
<1> QED
  BY <1>1, <1>2, <1>3, <1>4 DEF OnceListed

LEMMA ListsOfDestroyOld ==
  ASSUME ListTypes, OnceListed, adding' = adding, gcNewObjects' = gcNewObjects,
         NEW i \in 1..Len(gcOldObjects), gcOldObjects' = WithoutAt(gcOldObjects, i),
         alive' = alive \ {gcOldObjects[i]}
  PROVE  ListTypes' /\ OnceListed'
<1>1. gcOldObjects[i] \in alive
  BY InList
<1>2. /\ gcOldObjects' \in Seq(Objects)
      /\ \A y : Count(gcOldObjects', y)
                  = Count(gcOldObjects, y) - IF gcOldObjects[i] = y THEN 1 ELSE 0
  BY CountWithout DEF ListTypes
<1>3. ASSUME NEW y \in Objects
      PROVE  Listings(y)' = Listings(y) - IF y = gcOldObjects[i] THEN 1 ELSE 0
  BY <1>2, ListCounts DEF Listings
<1>4. \A y \in Objects : Listings(y) = IF y \in alive THEN 1 ELSE 0
  BY DEF OnceListed
<1> QED
  BY <1>1, <1>2, <1>3, <1>4 DEF OnceListed, ListTypes

LEMMA ListsOfGrowOld ==
  ASSUME ListTypes, OnceListed, adding' = adding, alive' = alive,
         NEW i \in 1..Len(gcNewObjects), gcNewObjects' = WithoutAt(gcNewObjects, i),
         gcOldObjects' = Append(gcOldObjects, gcNewObjects[i].obj)
  PROVE  ListTypes' /\ OnceListed'
<1>1. gcNewObjects[i].obj \in Objects
  BY InList DEF ListTypes
<1>2. /\ gcOldObjects' \in Seq(Objects)
      /\ \A y : Count(gcOldObjects', y)
                  = Count(gcOldObjects, y) + IF gcNewObjects[i].obj = y THEN 1 ELSE 0
  BY <1>1, CountAppend, AppendProperties DEF ListTypes
<1>3. ASSUME NEW y \in Objects
      PROVE  Listings(y)' = Listings(y)
  <2> DEFINE new == Count(Objs(gcNewObjects), y)
             old == Count(gcOldObjects, y)
             one == IF gcNewObjects[i].obj = y THEN 1 ELSE 0
  <2>1. new \in Nat /\ old \in Nat /\ one \in Nat
    BY ListCounts
  <2>2. Count(Objs(gcNewObjects'), y) = new - one
    BY NewRemoved
  <2>3. Count(gcOldObjects', y) = old + one
    BY <1>2
  <2>4. /\ Listings(y) = (IF y = adding THEN 1 ELSE 0) + new + old
        /\ Listings(y)' = (IF y = adding THEN 1 ELSE 0)
                            + Count(Objs(gcNewObjects'), y) + Count(gcOldObjects', y)
    BY DEF Listings
  <2> HIDE DEF new, old, one
  <2> QED
    BY <2>1, <2>2, <2>3, <2>4
<1> QED
  BY <1>2, <1>3, NewRemoved DEF OnceListed, ListTypes

LEMMA ListsOfFullCycle ==
  ASSUME ListTypes, OnceListed, FullCycle
  PROVE  ListTypes' /\ OnceListed'
<1>1. adding' = adding /\ alive' = alive
  BY DEF FullCycle, objectVars
<1>2. \/ gcOldObjects' = gcOldObjects /\ gcNewObjects' = gcNewObjects
      \/ gcOldObjects' = gcOldObjects \o Objs(gcNewObjects) /\ gcNewObjects' = <<>>
  BY DEF FullCycle, Objs
<1>3. CASE gcOldObjects' = gcOldObjects /\ gcNewObjects' = gcNewObjects
  BY <1>1, <1>3 DEF ListTypes, OnceListed, Listings
<1>4. CASE gcOldObjects' = gcOldObjects \o Objs(gcNewObjects) /\ gcNewObjects' = <<>>
  <2>1. Objs(gcNewObjects) \in Seq(Objects) /\ gcOldObjects \in Seq(Objects)
    BY ObjsType DEF ListTypes
  <2>2. /\ gcOldObjects' \in Seq(Objects)
        /\ \A y : Count(gcOldObjects', y)
                    = Count(gcOldObjects, y) + Count(Objs(gcNewObjects), y)
    BY <1>4, <2>1, CountConcat, ConcatProperties
  <2>3. ListTypes'
    BY <1>1, <1>4, <2>2 DEF ListTypes
  <2>4. ASSUME NEW y
        PROVE  Count(Objs(gcNewObjects'), y) = 0
    <3>1. gcNewObjects' \in Seq(Entry) /\ Len(gcNewObjects') = 0
      BY <1>4
    <3>2. Objs(gcNewObjects') \in Seq(Objects) /\ Len(Objs(gcNewObjects')) = 0
      BY <3>1, ObjsType
    <3>3. ASSUME NEW q \in Seq(Objects), Len(q) = 0
          PROVE  Count(q, y) = 0
      <4>1. 1..Len(q) = {}
        BY <3>3
      <4>2. Places(q, y) = {}
        BY <4>1 DEF Places
      <4> QED
        BY <4>2, FS_EmptySet DEF Count
    <3> QED
      BY <3>2, <3>3
  <2>5. ASSUME NEW y \in Objects
        PROVE  Listings(y)' = Listings(y)
    BY <1>1, <2>2, <2>4, ListCounts DEF Listings
  <2> QED
    BY <1>1, <2>3, <2>5 DEF OnceListed
<1> QED
  BY <1>2, <1>3, <1>4

LEMMA ListsOfStartNew ==
  ASSUME ListTypes, OnceListed, adding' = adding, StartNew
  PROVE  ListTypes' /\ OnceListed'
<1>1. alive' = alive /\ gcOldObjects' = gcOldObjects
  BY DEF StartNew, objectVars
<1>2. gcNewObjects' \in Seq(Entry) /\ Objs(gcNewObjects') = Objs(gcNewObjects)
  <2>1. CASE gcNewObjects' = gcNewObjects
    BY <2>1 DEF ListTypes
  <2>2. CASE gcNewObjects' =
               [i \in 1..Len(gcNewObjects) |->
                  [gcNewObjects[i] EXCEPT !.sweeps = IF @ = 3 THEN 3 ELSE @ + 1]]
    <3>1. Len(gcNewObjects) \in Nat /\ \A i \in 1..Len(gcNewObjects) : gcNewObjects[i] \in Entry
      BY DEF ListTypes
    <3>2. ASSUME NEW e \in Entry
          PROVE  LET f == [e EXCEPT !.sweeps = IF @ = 3 THEN 3 ELSE @ + 1]
                 IN  f \in Entry /\ f.obj = e.obj
      BY DEF Entry
    <3>3. \A i \in 1..Len(gcNewObjects) :
            gcNewObjects'[i] \in Entry /\ gcNewObjects'[i].obj = gcNewObjects[i].obj
      BY <2>2, <3>1, <3>2
    <3>4. /\ gcNewObjects' \in [1..Len(gcNewObjects) -> Entry]
          /\ Len(gcNewObjects') = Len(gcNewObjects)
      BY <2>2, <3>1, <3>3
    <3>5. gcNewObjects' \in Seq(Entry)
      BY <3>1, <3>4, SeqDef
    <3> QED
      BY <3>3, <3>4, <3>5 DEF Objs
  <2> QED
    BY <2>1, <2>2 DEF StartNew
<1> QED
  BY <1>1, <1>2 DEF ListTypes, OnceListed, Listings

LEMMA ListsKept ==
  ASSUME CallsInOrder, ListTypes, OnceListed, Next
  PROVE  ListTypes' /\ OnceListed'
<1>1. CASE ~Relists
  BY <1>1, ListsAlone DEF ListTypes, OnceListed, Listings
<1>2. CASE Create
  BY <1>2, ListsOfCreate
<1>3. CASE Add
  <2>1. /\ adding \in Objects /\ adding' = Null /\ alive' = alive
        /\ gcNewObjects' \in Seq(Entry) /\ gcOldObjects' = gcOldObjects
        /\ \A y : Count(Objs(gcNewObjects'), y)
                    = Count(Objs(gcNewObjects), y) + IF adding = y THEN 1 ELSE 0
    BY <1>3, AddEnds, NewAdded DEF Add, objectVars
  <2>2. ASSUME NEW y \in Objects
        PROVE  Listings(y)' = Listings(y)
    BY <2>1, ListCounts, ObjectsFinite DEF Listings
  <2> QED
    BY <2>1, <2>2 DEF ListTypes, OnceListed
<1>4. CASE FullCycle
  BY <1>4, ListsOfFullCycle
<1>5. ASSUME StartNew \/ DestroyNew \/ KeepNew \/ NextOld
      PROVE  adding' = adding
  BY <1>5, ArmsGoOn, CallsGoOn DEF Arms
<1>6. CASE StartNew
  BY <1>5, <1>6, ListsOfStartNew
<1>7. CASE DestroyNew
  <2>1. PICK i \in 1..Len(gcNewObjects) :
          \/ alive' = alive /\ UNCHANGED listVars
          \/ /\ gcNewObjects' = WithoutAt(gcNewObjects, i) /\ gcOldObjects' = gcOldObjects
             /\ alive' = alive \ {gcNewObjects[i].obj}
    BY <1>7 DEF DestroyNew, Resurrected, Destroyed, listVars
  <2>2. CASE alive' = alive /\ UNCHANGED listVars
    BY <1>5, <1>7, <2>2 DEF ListTypes, OnceListed, Listings, listVars
  <2> QED
    BY <1>5, <1>7, <2>1, <2>2, ListsOfDestroyNew
<1>8. CASE KeepNew
  <2>1. alive' = alive
    BY <1>8 DEF KeepNew, objectVars
  <2>2. PICK i \in 1..Len(gcNewObjects) :
          \/ UNCHANGED <<gcOldObjects, gcNewObjects>>
          \/ /\ gcNewObjects' = WithoutAt(gcNewObjects, i)
             /\ gcOldObjects' = Append(gcOldObjects, gcNewObjects[i].obj)
    BY <1>8 DEF KeepNew
  <2>3. CASE UNCHANGED <<gcOldObjects, gcNewObjects>>
    BY <1>5, <1>8, <2>1, <2>3 DEF ListTypes, OnceListed, Listings
  <2> QED
    BY <1>5, <1>8, <2>1, <2>2, <2>3, ListsOfGrowOld
<1>9. CASE NextOld
  <2>1. PICK i \in 1..Len(gcOldObjects) :
          \/ alive' = alive /\ UNCHANGED listVars
          \/ /\ gcOldObjects' = WithoutAt(gcOldObjects, i) /\ gcNewObjects' = gcNewObjects
             /\ alive' = alive \ {gcOldObjects[i]}
    BY <1>9 DEF NextOld, Resurrected, Destroyed, listVars, objectVars
  <2>2. CASE alive' = alive /\ UNCHANGED listVars
    BY <1>5, <1>9, <2>2 DEF ListTypes, OnceListed, Listings, listVars
  <2> QED
    BY <1>5, <1>9, <2>1, <2>2, ListsOfDestroyOld
<1> QED
  BY <1>1, <1>2, <1>3, <1>4, <1>6, <1>7, <1>8, <1>9 DEF Relists

-----------------------------------------------------------------------------
\* The search among the old objects.

SearchStates ==
  {"clearCounters", "buildMap", "countReferences", "findLive", "removeLive",
   "verifyUnmarked", "breakCircles", "haveGarbage"}

\* The map is of old objects; buildMap has yet to come to those that are not in it,
\* whatever else has become of the list; a call that has read a count goes on.
Search ==
  /\ detectState \in SearchStates
  /\ detectIdx \in Nat \ {0}
  /\ counted \in Nat
  /\ counted > 0 =>
       detectState = "buildMap" /\ Under("detect") /\ detectIdx <= Len(gcOldObjects)
  /\ detectState = "buildMap" =>
       \A i \in 1..Len(gcOldObjects) : gcOldObjects[i] \in DOMAIN gcMap => i < detectIdx
  /\ \A o \in DOMAIN gcMap : o \in Objects /\ Count(gcOldObjects, o) # 0
  /\ liveObjects \subseteq DOMAIN gcMap
  /\ detectState \notin {"findLive", "removeLive"} => liveObjects = {}
  /\ gcMapCursor \in Objects \cup {Null}
  /\ detectState \notin {"clearCounters", "buildMap"} => gcMapCursor \in DOMAIN gcMap \cup {Null}
  /\ detectState = "removeLive" => gcMapCursor = Null

LEMMA AfterIsNext ==
  ASSUME DOMAIN gcMap \subseteq Objects, NEW k
  PROVE  /\ After(k) \in DOMAIN gcMap \cup {Null}
         /\ After(k) = Null => ~ \E o \in DOMAIN gcMap : o > k
         /\ After(k) # Null => After(k) > k /\ \A o \in DOMAIN gcMap : o > k => After(k) <= o
<1> DEFINE S == {o \in DOMAIN gcMap : o > k}
<1>1. S \subseteq Nat /\ \A o \in S : o # Null
  BY CollectorAssumption DEF Objects, Null
<1>2. CASE S = {}
  BY <1>2 DEF After
<1>3. CASE S # {}
  <2>1. \E o \in S : \A x \in S : <<x, o>> \notin OpToRel(<, Nat)
    BY <1>1, <1>3, NatLessThanWellFounded, WFMin
  <2>2. \E o \in S : \A x \in S : o <= x
    <3>1. PICK o \in S : \A x \in S : <<x, o>> \notin OpToRel(<, Nat)
      BY <2>1
    <3>2. ASSUME NEW x \in S
          PROVE  ~(x < o)
      <4>1. <<x, o>> \notin {ss \in Nat \X Nat : ss[1] < ss[2]}
        BY <3>1 DEF OpToRel
      <4> QED
        BY <1>1, <4>1
    <3> QED
      BY <1>1, <3>2
  <2>3. After(k) = CHOOSE o \in S : \A x \in S : o <= x
    BY <1>3 DEF After
  <2> HIDE DEF S
  <2>4. After(k) \in S /\ \A x \in S : After(k) <= x
    BY <2>2, <2>3
  <2> QED
    BY <1>1, <2>4 DEF S
<1> QED
  BY <1>2, <1>3

\* An object that stands once in a list stands in one place.
LEMMA OnePlace ==
  ASSUME NEW S, NEW q \in Seq(S), NEW o, Count(q, o) = 1,
         NEW i \in 1..Len(q), NEW j \in 1..Len(q), q[i] = o, q[j] = o
  PROVE  i = j
<1> DEFINE P == Places(q, o)
<1>1. IsFiniteSet(P) /\ Cardinality(P) = 1
  BY CountType DEF Count
<1>2. i \in P /\ j \in P
  BY DEF Places
<1> HIDE DEF P
<1>3. IsFiniteSet(P \ {i}) /\ Cardinality(P \ {i}) = 0
  BY <1>1, <1>2, FS_RemoveElement
<1>4. P \ {i} = {}
  BY <1>3, FS_EmptySet
<1> QED
  BY <1>2, <1>4

LEMMA SearchQuiet ==
  ASSUME Search, UNCHANGED detectVars, UNCHANGED gcOldObjects,
         counted = 0 \/ calls' = calls
  PROVE  Search'
<1>1. counted' > 0 => Under("detect")'
  BY DEF Search, detectVars, Under
<1> QED
  BY <1>1 DEF Search, detectVars

\* No count has been read while another call is at work, or none.
LEMMA NothingRead ==
  ASSUME Search, ~Under("detect")
  PROVE  counted = 0
  BY DEF Search

LEMMA SearchOfKeepNew ==
  ASSUME Search, ListTypes, OnceListed, UNCHANGED detectVars, counted = 0,
         NEW i \in 1..Len(gcNewObjects),
         gcOldObjects' = Append(gcOldObjects, gcNewObjects[i].obj)
  PROVE  Search'
<1> DEFINE o == gcNewObjects[i].obj
<1>1. o \in Objects /\ Count(gcOldObjects, o) = 0
  BY InList DEF ListTypes
<1> HIDE DEF o
<1>2. gcOldObjects' = Append(gcOldObjects, o) /\ gcOldObjects \in Seq(Objects)
  BY DEF ListTypes, o
<1>3. /\ Len(gcOldObjects) \in Nat
      /\ Len(gcOldObjects') = Len(gcOldObjects) + 1
      /\ gcOldObjects'[Len(gcOldObjects) + 1] = o
      /\ \A j \in 1..Len(gcOldObjects) : gcOldObjects'[j] = gcOldObjects[j]
  BY <1>1, <1>2, AppendProperties
<1>4. \A x : /\ Count(gcOldObjects', x) = Count(gcOldObjects, x) + IF o = x THEN 1 ELSE 0
             /\ Count(gcOldObjects, x) \in Nat
  BY <1>1, <1>2, CountAppend, CountType
<1>5. o \notin DOMAIN gcMap
  BY <1>1 DEF Search
<1>6. \A x \in DOMAIN gcMap' : x \in Objects /\ Count(gcOldObjects', x) # 0
  BY <1>4 DEF Search, detectVars
<1>7. detectState' = "buildMap" =>
        \A j \in 1..Len(gcOldObjects') :
          gcOldObjects'[j] \in DOMAIN gcMap' => j < detectIdx'
  BY <1>3, <1>5 DEF Search, detectVars
<1> QED
  BY <1>6, <1>7 DEF Search, detectVars

\* The last object of the list takes the place of the one destroyed.
LEMMA SearchOfDestroyOld ==
  ASSUME Search, ListTypes, UNCHANGED detectVars, counted = 0,
         NEW i \in 1..Len(gcOldObjects), gcOldObjects[i] \notin DOMAIN gcMap,
         gcOldObjects' = WithoutAt(gcOldObjects, i)
  PROVE  Search'
<1>1. /\ Len(gcOldObjects) \in Nat
      /\ Len(gcOldObjects') = Len(gcOldObjects) - 1
      /\ \A x : /\ Count(gcOldObjects', x)
                     = Count(gcOldObjects, x) - IF gcOldObjects[i] = x THEN 1 ELSE 0
                /\ Count(gcOldObjects, x) \in Nat
  <2>1. gcOldObjects \in Seq(Objects)
    BY DEF ListTypes
  <2>2. \A x : Count(gcOldObjects, x) \in Nat
    BY <2>1, CountType
  <2> QED
    BY <2>1, <2>2, CountWithout, LenProperties
<1>2. gcOldObjects' = [k \in 1..(Len(gcOldObjects) - 1) |->
                         IF k = i THEN gcOldObjects[Len(gcOldObjects)] ELSE gcOldObjects[k]]
  BY DEF WithoutAt
<1>3. \A x \in DOMAIN gcMap' : x \in Objects /\ Count(gcOldObjects', x) # 0
  BY <1>1 DEF Search, detectVars
<1>4. ASSUME detectState' = "buildMap", NEW j \in 1..Len(gcOldObjects'),
             gcOldObjects'[j] \in DOMAIN gcMap'
      PROVE  j < detectIdx'
  <2>1. j \in 1..(Len(gcOldObjects) - 1)
    BY <1>1
  <2>2. gcOldObjects'[j] = IF j = i THEN gcOldObjects[Len(gcOldObjects)] ELSE gcOldObjects[j]
    BY <1>2, <2>1
  <2> QED
    BY <1>1, <1>4, <2>1, <2>2 DEF Search, detectVars
<1> QED
  BY <1>3, <1>4 DEF Search, detectVars

LEMMA SearchOfFullCycle ==
  ASSUME Search, ListTypes, FullCycle
  PROVE  Search'
<1>1. counted = 0 /\ counted' = 0 /\ gcMap' = gcMap
  BY DEF FullCycle, Search, Under
<1>2. CASE UNCHANGED <<gcOldObjects, detectState, detectIdx, gcMapCursor, liveObjects>>
  BY <1>1, <1>2 DEF Search
<1>3. CASE /\ gcOldObjects' = gcOldObjects \o Objs(gcNewObjects)
           /\ detectState' = "clearCounters" /\ detectIdx' = 1
           /\ gcMapCursor' = Null /\ liveObjects' = {}
  <2>1. Objs(gcNewObjects) \in Seq(Objects) /\ gcOldObjects \in Seq(Objects)
    BY ObjsType DEF ListTypes
  <2>2. \A x : Count(gcOldObjects', x) = Count(gcOldObjects, x) + Count(Objs(gcNewObjects), x)
    BY <1>3, <2>1, CountConcat
  <2>3. \A x \in DOMAIN gcMap' : x \in Objects /\ Count(gcOldObjects', x) # 0
    BY <1>1, <2>2, ListCounts DEF Search
  <2> QED
    BY <1>1, <1>3, <2>3 DEF Search, SearchStates
<1> QED
  BY <1>2, <1>3 DEF FullCycle, Objs

\* Nothing but the search itself changes, and the objects it looks at are old.
LEMMA SearchOfArms ==
  ASSUME Search, ListTypes, OnceListed, refCount \in [Objects -> Nat],
         \/ ClearCounters \/ BuildMapRead \/ BuildMapInsert \/ BuildMapDone
         \/ CountReferences \/ CountReferencesDone
         \/ FindLive \/ FindLiveDone \/ RemoveLive \/ RemoveLiveDone
         \/ VerifyUnmarked \/ VerifyUnmarkedDone \/ BreakCircle \/ BreakCirclesDone
  PROVE  Search'
<1>1. gcOldObjects' = gcOldObjects /\ Under("detect")
  BY DEF ClearCounters, BuildMapRead, BuildMapInsert, BuildMapDone, CountReferences,
     CountReferencesDone, FindLive, FindLiveDone, RemoveLive, RemoveLiveDone,
     VerifyUnmarked, VerifyUnmarkedDone, BreakCircle, BreakCirclesDone, Detects,
     ToDetect, Restart, listVars
<1>2. \A o \in DOMAIN gcMap : o \in Objects /\ Count(gcOldObjects, o) # 0
  BY DEF Search
<1>3. \A k : /\ After(k) \in DOMAIN gcMap \cup {Null}
             /\ After(k) \in Objects \cup {Null}
  BY <1>2, AfterIsNext
<1>4. CASE ClearCounters
  <2>1. /\ detectState = "clearCounters" /\ counted = 0 /\ counted' = 0
        /\ liveObjects = {} /\ liveObjects' = {} /\ gcMapCursor' = gcMapCursor
    BY <1>4 DEF ClearCounters, Detects, Search
  <2>2. CASE After(Null) = Null
    <3>1. detectState' = "buildMap" /\ detectIdx' = 1 /\ gcMap' = gcMap
      BY <1>4, <2>2 DEF ClearCounters
    <3>2. DOMAIN gcMap = {}
      <4>1. DOMAIN gcMap \subseteq Objects
        BY <1>2
      <4>2. ~ \E o \in DOMAIN gcMap : o > Null
        BY <2>2, <4>1, AfterIsNext
      <4> QED
        BY <4>1, <4>2, CollectorAssumption DEF Objects, Null
    <3> QED
      BY <1>1, <2>1, <3>1, <3>2 DEF Search, SearchStates
  <2>3. CASE After(Null) # Null
    <3>1. /\ detectState' = detectState /\ detectIdx' = detectIdx
          /\ DOMAIN gcMap' \subseteq DOMAIN gcMap
      BY <1>4, <2>3 DEF ClearCounters, Without
    <3> QED
      BY <1>1, <2>1, <3>1 DEF Search
  <2> QED
    BY <2>2, <2>3
<1>5. CASE BuildMapRead
  <2>1. /\ detectState = "buildMap" /\ detectState' = "buildMap" /\ gcMap' = gcMap
        /\ gcMapCursor' = gcMapCursor /\ liveObjects' = liveObjects
        /\ counted = 0 /\ detectIdx <= Len(gcOldObjects)
    BY <1>5 DEF BuildMapRead, Detects
  <2>2. Len(gcOldObjects) \in Nat /\ detectIdx \in 1..Len(gcOldObjects)
    BY <2>1 DEF Search, ListTypes
  <2>3. refCount[gcOldObjects[detectIdx]] \in Nat
    BY <2>2 DEF ListTypes
  <2>4. \/ /\ counted' = refCount[gcOldObjects[detectIdx]] /\ calls' = calls
           /\ detectIdx' = detectIdx
        \/ detectIdx' = detectIdx + 1 /\ counted' = 0
    BY <1>5, <2>1 DEF BuildMapRead, Continue
  <2> QED
    BY <1>1, <2>1, <2>2, <2>3, <2>4 DEF Search, Under
<1>6. CASE BuildMapInsert
  <2> DEFINE o == gcOldObjects[detectIdx]
  <2>1. /\ detectState = "buildMap" /\ detectState' = "buildMap"
        /\ DOMAIN gcMap' = DOMAIN gcMap \cup {o}
        /\ gcMapCursor' = gcMapCursor /\ liveObjects' = liveObjects
        /\ counted' = 0 /\ detectIdx' = detectIdx + 1 /\ counted > 0
    BY <1>6 DEF BuildMapInsert, Detects
  <2>2. Len(gcOldObjects) \in Nat /\ detectIdx \in 1..Len(gcOldObjects)
    BY <2>1 DEF Search, ListTypes
  <2>3. o \in Objects /\ Count(gcOldObjects, o) = 1
    BY <2>2, InList DEF ListTypes
  <2>4. \A j \in 1..Len(gcOldObjects) : gcOldObjects[j] = o => j = detectIdx
    BY <2>2, <2>3, OnePlace DEF ListTypes
  <2>5. \A j \in 1..Len(gcOldObjects') :
          gcOldObjects'[j] \in DOMAIN gcMap' => j < detectIdx'
    BY <1>1, <2>1, <2>2, <2>4 DEF Search
  <2>6. \A x \in DOMAIN gcMap' : x \in Objects /\ Count(gcOldObjects', x) # 0
    BY <1>1, <1>2, <2>1, <2>3
  <2> QED
    BY <2>1, <2>5, <2>6 DEF Search
<1>7. ASSUME NEW state \in SearchStates \ {"buildMap", "removeLive"},
             NEW live, Restart(state, live), counted = 0, live = {}
      PROVE  Search'
  <2>1. /\ detectState' = state /\ gcMapCursor' = After(Null) /\ liveObjects' = {}
        /\ detectIdx' = 1 /\ gcMap' = gcMap /\ counted' = 0
    BY <1>7 DEF Restart
  <2> QED
    BY <1>1, <1>3, <2>1 DEF Search
<1>8. CASE BuildMapDone \/ CountReferencesDone \/ RemoveLiveDone \/ VerifyUnmarkedDone
  <2>1. /\ counted = 0
        /\ \/ Restart("countReferences", liveObjects) /\ liveObjects = {}
           \/ Restart("findLive", {}) \/ Restart("verifyUnmarked", {})
           \/ Restart("breakCircles", {})
    BY <1>8 DEF BuildMapDone, CountReferencesDone, RemoveLiveDone, VerifyUnmarkedDone,
       Detects, Search
  <2> QED
    BY <1>7, <2>1 DEF SearchStates
<1>9. CASE CountReferences
  <2>1. /\ detectState = "countReferences" /\ detectState' = "countReferences"
        /\ DOMAIN gcMap' = DOMAIN gcMap /\ gcMapCursor' = After(gcMapCursor)
        /\ liveObjects' = liveObjects /\ counted' = counted /\ detectIdx' = detectIdx
    BY <1>9 DEF CountReferences, Detects
  <2> QED
    BY <1>1, <1>3, <2>1 DEF Search
<1>10. CASE FindLive
  <2>1. /\ detectState = "findLive" /\ detectState' = "findLive"
        /\ gcMap' = gcMap /\ gcMapCursor' = After(gcMapCursor) /\ gcMapCursor # Null
        /\ liveObjects' \subseteq liveObjects \cup {gcMapCursor}
        /\ counted' = counted /\ detectIdx' = detectIdx
    BY <1>10 DEF FindLive, Detects
  <2> QED
    BY <1>1, <1>3, <2>1 DEF Search
<1>11. CASE FindLiveDone
  <2>1. /\ detectState = "findLive" /\ detectState' = "removeLive"
        /\ gcMap' = gcMap /\ gcMapCursor = Null /\ gcMapCursor' = Null
        /\ liveObjects' = liveObjects /\ counted' = counted /\ detectIdx' = detectIdx
    BY <1>11 DEF FindLiveDone, Detects
  <2> QED
    BY <1>1, <2>1 DEF Search, SearchStates
<1>12. CASE RemoveLive
  <2>1. /\ detectState = "removeLive" /\ detectState' = "removeLive"
        /\ gcMapCursor' = gcMapCursor /\ counted' = counted /\ detectIdx' = detectIdx
        /\ DOMAIN gcMap' \subseteq DOMAIN gcMap
    BY <1>12 DEF RemoveLive, Detects, Without
  <2>2. PICK o \in liveObjects :
          IF o \in DOMAIN gcMap
            THEN /\ gcMap' = Without(o)
                 /\ liveObjects' = (liveObjects \ {o}) \cup (Targets(o) \cap DOMAIN gcMap')
            ELSE liveObjects' = liveObjects \ {o} /\ gcMap' = gcMap
    BY <1>12 DEF RemoveLive
  <2>3. liveObjects' \subseteq DOMAIN gcMap'
    BY <2>2 DEF Search, Without
  <2> QED
    BY <1>1, <2>1, <2>3 DEF Search
<1>13. CASE VerifyUnmarked
  <2>1. /\ detectState = "verifyUnmarked" /\ detectState' \in {"verifyUnmarked", "findLive"}
        /\ gcMap' = gcMap /\ \E k : gcMapCursor' = After(k)
        /\ liveObjects = {} /\ liveObjects' = {}
        /\ counted' = counted /\ detectIdx' = detectIdx
    BY <1>13 DEF VerifyUnmarked, Detects, Search
  <2>2. gcMapCursor' \in DOMAIN gcMap' \cup {Null}
    BY <1>3, <2>1
  <2> QED
    BY <1>1, <2>1, <2>2 DEF Search, SearchStates
<1>14. CASE BreakCircle
  <2>1. /\ detectState \in {"breakCircles", "haveGarbage"} /\ detectState' = "haveGarbage"
        /\ gcMap' = gcMap /\ gcMapCursor' = After(gcMapCursor)
        /\ liveObjects' = liveObjects /\ counted' = counted /\ detectIdx' = detectIdx
    BY <1>14 DEF BreakCircle
  <2> QED
    BY <1>1, <1>3, <2>1 DEF Search, SearchStates
<1>15. CASE BreakCirclesDone
  <2>1. /\ detectState \in {"breakCircles", "haveGarbage"} /\ detectState' = "clearCounters"
        /\ gcMap' = gcMap /\ gcMapCursor' = gcMapCursor
        /\ liveObjects' = liveObjects /\ counted' = counted /\ detectIdx' = detectIdx
    BY <1>15 DEF BreakCirclesDone
  <2> QED
    BY <1>1, <2>1 DEF Search, SearchStates
<1> QED
  BY <1>4, <1>5, <1>6, <1>8, <1>9, <1>10, <1>11, <1>12, <1>13, <1>14, <1>15

-----------------------------------------------------------------------------
\* The counts.

Once(o) == IF o \in alive THEN 1 ELSE 0
InMap(o) == IF o \in DOMAIN gcMap THEN 1 ELSE 0

\* Every reference of an object is accounted for; what is gone has none.
Counts ==
  /\ alive \subseteq Objects
  /\ props \in HandleMap
  /\ held \in [Objects -> Nat]
  /\ refCount \in [Objects -> Nat]
  /\ gcFlag \in [Objects -> BOOLEAN]
  /\ isDestructCalled \in [Objects -> BOOLEAN]
  /\ \A o \in Objects : refCount[o] = held[o] + Once(o) + InMap(o) + To(alive, props, o)
  /\ \A o \in Objects \ alive :
       held[o] = 0 /\ To(alive, props, o) = 0 /\ props[o] = NoHandles

LEMMA SearchKept ==
  ASSUME Search, ListTypes, OnceListed, Counts, Next
  PROVE  Search'
<1>1. CASE Application
  <2>1. UNCHANGED detectVars /\ UNCHANGED gcOldObjects
    BY <1>1 DEF Application, Create, Take, Drop, Assign, Works, AddNew, listVars
  <2>2. calls = <<>> \/ calls' = calls
    BY <1>1 DEF Application, Create, Take, Drop, Assign
  <2>3. calls = <<>> => counted = 0
    BY NothingRead DEF Under
  <2> QED
    BY <2>1, <2>2, <2>3, SearchQuiet
<1>2. CASE FullCycle
  BY <1>2, SearchOfFullCycle
<1>3. ASSUME NEW detect \in BOOLEAN, NEW destroy \in BOOLEAN, Collect(detect, destroy)
      PROVE  Search'
  BY <1>3, SearchQuiet, NothingRead DEF Collect, Under, listVars, detectVars
<1>4. CASE Add \/ StartNew \/ DestroyNew \/ EndNew \/ StartOld \/ EndOld
  <2>1. UNCHANGED detectVars /\ UNCHANGED gcOldObjects
    BY <1>4 DEF Add, AddNew, StartNew, DestroyNew, NextNew, EndNew, StartOld, EndOld, listVars
  <2>2. Under("add") \/ Under("new") \/ Under("old")
    BY <1>4 DEF Add, StartNew, DestroyNew, NextNew, EndNew, StartOld, EndOld
  <2> QED
    BY <2>1, <2>2, NothingRead, SearchQuiet DEF Under
<1>5. CASE KeepNew
  <2>1. PICK i \in 1..Len(gcNewObjects) :
          /\ NextNew(i)
          /\ \/ gcOldObjects' = gcOldObjects
             \/ gcOldObjects' = Append(gcOldObjects, gcNewObjects[i].obj)
    BY <1>5 DEF KeepNew
  <2>2. UNCHANGED detectVars /\ counted = 0
    BY <2>1, NothingRead DEF NextNew, Under
  <2> QED
    BY <2>1, <2>2, SearchQuiet, SearchOfKeepNew
<1>6. CASE NextOld
  <2>1. PICK i \in 1..Len(gcOldObjects) :
          \/ gcOldObjects' = gcOldObjects
          \/ gcOldObjects' = WithoutAt(gcOldObjects, i) /\ refCount[gcOldObjects[i]] = 1
    BY <1>6 DEF NextOld
  <2>2. UNCHANGED detectVars /\ counted = 0
    BY <1>6, NothingRead DEF NextOld, Under
  <2>3. ASSUME refCount[gcOldObjects[i]] = 1
        PROVE  gcOldObjects[i] \notin DOMAIN gcMap
    <3>1. gcOldObjects[i] \in alive
      BY InList
    <3> DEFINE o == gcOldObjects[i]
    <3>2. /\ refCount[o] = held[o] + Once(o) + InMap(o) + To(alive, props, o)
          /\ Once(o) = 1 /\ held[o] \in Nat /\ To(alive, props, o) \in Nat
      BY <3>1, ToType DEF Counts, Once
    <3> HIDE DEF o
    <3>3. InMap(o) \in {0, 1} /\ (InMap(o) = 0 => o \notin DOMAIN gcMap)
      BY DEF InMap
    <3> QED
      BY <2>3, <3>2, <3>3 DEF o
  <2> QED
    BY <2>1, <2>2, <2>3, SearchQuiet, SearchOfDestroyOld
<1>7. CASE NothingOld
  <2>1. UNCHANGED detectVars /\ UNCHANGED gcOldObjects /\ gcOldObjects = <<>>
    BY <1>7 DEF NothingOld, listVars
  <2>2. counted = 0
    BY <2>1 DEF Search
  <2> QED
    BY <2>1, <2>2, SearchQuiet
<1>8. CASE \/ ClearCounters \/ BuildMapRead \/ BuildMapInsert \/ BuildMapDone
           \/ CountReferences \/ CountReferencesDone
           \/ FindLive \/ FindLiveDone \/ RemoveLive \/ RemoveLiveDone
           \/ VerifyUnmarked \/ VerifyUnmarkedDone \/ BreakCircle \/ BreakCirclesDone
  BY <1>8, SearchOfArms DEF Counts
<1> QED
  BY <1>1, <1>2, <1>3, <1>4, <1>5, <1>6, <1>7, <1>8, CollectorAssumption
     DEF Next, Collector

LEMMA FlagsKept ==
  ASSUME Counts, Next
  PROVE  /\ gcFlag' \in [Objects -> BOOLEAN]
         /\ isDestructCalled' \in [Objects -> BOOLEAN]
<1> DEFINE flags == [Objects -> BOOLEAN]
           Right == gcFlag' \in flags /\ isDestructCalled' \in flags
<1>1. gcFlag \in flags /\ isDestructCalled \in flags
  BY DEF Counts
<1>2. ASSUME NEW S, Touch(S)
      PROVE  gcFlag' \in flags
  BY <1>2 DEF Touch
<1>3. ASSUME NEW f \in flags, NEW o, NEW b \in BOOLEAN
      PROVE  [f EXCEPT ![o] = b] \in flags
  OBVIOUS
<1>4. ASSUME NEW o, Resurrected(o) \/ Destroyed(o)
      PROVE  Right
  <2>1. gcFlag' \in flags
    BY <1>2, <1>4 DEF Resurrected, Destroyed
  <2>2. isDestructCalled' \in flags
    BY <1>1, <1>3, <1>4 DEF Resurrected, Destroyed
  <2> QED
    BY <2>1, <2>2
<1> HIDE DEF flags
<1> SUFFICES Right
  BY DEF flags
<1>5. CASE Create
  <2>1. PICK o : /\ gcFlag' = [gcFlag EXCEPT ![o] = FALSE]
                 /\ isDestructCalled' = [isDestructCalled EXCEPT ![o] = FALSE]
    BY <1>5 DEF Create
  <2>2. FALSE \in BOOLEAN
    OBVIOUS
  <2> QED
    BY <1>1, <1>3, <2>1, <2>2, Zenon
<1>6. CASE Take \/ Drop \/ Assign
  BY <1>1, <1>2, <1>6 DEF Take, Drop, Assign
<1>7. CASE \/ FullCycle \/ Add \/ NothingOld \/ StartNew \/ KeepNew \/ EndNew
           \/ StartOld \/ EndOld
  BY <1>1, <1>7 DEF FullCycle, Add, NothingOld, StartNew, KeepNew, EndNew, StartOld, EndOld,
     objectVars
<1>8. CASE DestroyNew
  BY <1>4, <1>8 DEF DestroyNew
<1>9. CASE NextOld
  BY <1>1, <1>4, <1>9 DEF NextOld, objectVars
<1>10. CASE ClearCounters \/ BuildMapRead \/ BuildMapDone
  BY <1>1, <1>2, <1>10 DEF ClearCounters, BuildMapRead, BuildMapDone, Restart, objectVars
<1>11. CASE BuildMapInsert
  BY <1>1, <1>3, <1>11 DEF BuildMapInsert
<1>12. CASE \/ CountReferences \/ CountReferencesDone \/ FindLive \/ FindLiveDone
            \/ RemoveLiveDone \/ VerifyUnmarked \/ VerifyUnmarkedDone \/ BreakCirclesDone
  BY <1>1, <1>12 DEF CountReferences, CountReferencesDone, FindLive, FindLiveDone,
     RemoveLiveDone, VerifyUnmarked, VerifyUnmarkedDone, BreakCirclesDone, Restart, objectVars
<1>13. CASE RemoveLive
  BY <1>1, <1>2, <1>13 DEF RemoveLive
<1>14. CASE BreakCircle
  BY <1>1, <1>2, <1>3, <1>14 DEF BreakCircle
<1>15. ASSUME NEW detect \in BOOLEAN, NEW destroy \in BOOLEAN, Collect(detect, destroy)
       PROVE  Right
  BY <1>1, <1>15 DEF Collect, objectVars
<1> QED
  BY <1>5, <1>6, <1>7, <1>8, <1>9, <1>10, <1>11, <1>12, <1>13, <1>14, <1>15,
     CollectorAssumption DEF Next, Application, Collector, flags

\* Counts after a step, from what the step makes of each object's references.
LEMMA CountsFollow ==
  ASSUME alive' \subseteq Objects, props' \in HandleMap, held' \in [Objects -> Nat],
         refCount' = [o \in Objects |-> refCount'[o]],
         gcFlag' \in [Objects -> BOOLEAN], isDestructCalled' \in [Objects -> BOOLEAN],
         \A o \in Objects :
           refCount'[o] = held'[o] + Once(o)' + InMap(o)' + To(alive', props', o),
         \A o \in Objects \ alive' :
           held'[o] = 0 /\ To(alive', props', o) = 0 /\ props'[o] = NoHandles
  PROVE  Counts'
<1>1. ASSUME NEW o \in Objects
      PROVE  refCount'[o] \in Nat
  <2>1. held'[o] \in Nat /\ To(alive', props', o) \in Nat
    BY ToType
  <2>2. Once(o)' \in Nat /\ InMap(o)' \in Nat
    BY DEF Once, InMap
  <2> QED
    BY <2>1, <2>2
<1>2. refCount' \in [Objects -> Nat]
  BY <1>1
<1> QED
  BY <1>2 DEF Counts

\* What the invariant says of one object.
LEMMA CountsOf ==
  ASSUME Counts, NEW o \in Objects
  PROVE  /\ held[o] \in Nat /\ To(alive, props, o) \in Nat
         /\ InMap(o) \in {0, 1} /\ Once(o) \in {0, 1} /\ refCount[o] \in Nat
         /\ refCount[o] = held[o] + Once(o) + InMap(o) + To(alive, props, o)
         /\ o \notin alive =>
              held[o] = 0 /\ To(alive, props, o) = 0 /\ props[o] = NoHandles
<1>1. To(alive, props, o) \in Nat
  BY ToType DEF Counts
<1>2. InMap(o) \in {0, 1} /\ Once(o) \in {0, 1}
  BY DEF InMap, Once
<1> QED
  BY <1>1, <1>2 DEF Counts

LEMMA CountsQuiet ==
  ASSUME Counts, Next, UNCHANGED <<alive, props, held, refCount>>,
         DOMAIN gcMap' = DOMAIN gcMap
  PROVE  Counts'
<1>1. \A o \in Objects : Once(o)' = Once(o) /\ InMap(o)' = InMap(o)
  BY DEF Once, InMap
<1> QED
  BY <1>1, FlagsKept DEF Counts

LEMMA CountsOfCreate ==
  ASSUME Counts, Next, Create, \A x \in DOMAIN gcMap : x \in alive
  PROVE  Counts'
<1>1. PICK o \in Objects \ alive :
        /\ alive' = alive \cup {o}
        /\ held' = [held EXCEPT ![o] = 1]
        /\ refCount' = [refCount EXCEPT ![o] = 2]
        /\ props' = props /\ gcMap' = gcMap
  BY DEF Create, Works, detectVars
<1>2. alive' \subseteq Objects /\ props' \in HandleMap /\ held' \in [Objects -> Nat]
      /\ refCount' = [x \in Objects |-> refCount'[x]]
  BY <1>1 DEF Counts
<1>3. props[o] = NoHandles /\ InMap(o) = 0 /\ To(alive, props, o) = 0
  BY <1>1, CountsOf DEF InMap
<1>4. ASSUME NEW x \in Objects
      PROVE  /\ To(alive', props', x) = To(alive, props, x)
             /\ InMap(x)' = InMap(x)
             /\ Once(x)' = IF x = o THEN 1 ELSE Once(x)
             /\ held'[x] = IF x = o THEN 1 ELSE held[x]
             /\ refCount'[x] = IF x = o THEN 2 ELSE refCount[x]
  <2>1. To(alive', props, x) = To(alive, props, x)
    BY <1>1, <1>3, ToAdded, SMTT(30)
  <2>2. /\ held'[x] = IF x = o THEN 1 ELSE held[x]
        /\ refCount'[x] = IF x = o THEN 2 ELSE refCount[x]
    BY <1>1 DEF Counts
  <2> QED
    BY <1>1, <2>1, <2>2 DEF Once, InMap
<1>5. ASSUME NEW x \in Objects
      PROVE  refCount'[x] = held'[x] + Once(x)' + InMap(x)' + To(alive', props', x)
  BY <1>3, <1>4, CountsOf
<1>6. ASSUME NEW x \in Objects \ alive'
      PROVE  held'[x] = 0 /\ To(alive', props', x) = 0 /\ props'[x] = NoHandles
  <2>1. x # o /\ x \in Objects \ alive
    BY <1>1
  <2> QED
    BY <1>1, <1>4, <2>1, CountsOf
<1> QED
  BY <1>2, <1>5, <1>6, CountsFollow, FlagsKept

\* A handle of the application to o, taken (d = 1) or dropped (d = -1).
LEMMA CountsOfHeld ==
  ASSUME Counts, Next, NEW o \in alive, NEW d \in {1, -1}, held[o] + d \in Nat,
         held' = [held EXCEPT ![o] = @ + d],
         AddRefs([x \in Objects |-> IF x = o THEN d ELSE 0]),
         UNCHANGED <<alive, props>>, DOMAIN gcMap' = DOMAIN gcMap
  PROVE  Counts'
<1>1. o \in Objects
  BY DEF Counts
<1>2. /\ held' \in [Objects -> Nat]
      /\ refCount' = [x \in Objects |-> refCount'[x]]
      /\ \A x \in Objects :
           /\ held'[x] = IF x = o THEN held[x] + d ELSE held[x]
           /\ refCount'[x] = refCount[x] + IF x = o THEN d ELSE 0
  BY <1>1 DEF Counts, AddRefs
<1>3. \A x \in Objects : Once(x)' = Once(x) /\ InMap(x)' = InMap(x)
  BY DEF Once, InMap
<1>4. ASSUME NEW x \in Objects
      PROVE  refCount'[x] = held'[x] + Once(x)' + InMap(x)' + To(alive', props', x)
  BY <1>2, <1>3, CountsOf
<1>5. ASSUME NEW x \in Objects \ alive'
      PROVE  held'[x] = 0 /\ To(alive', props', x) = 0 /\ props'[x] = NoHandles
  BY <1>2, CountsOf
<1>6. alive' \subseteq Objects /\ props' \in HandleMap
  BY DEF Counts
<1> QED
  BY <1>2, <1>4, <1>5, <1>6, CountsFollow, FlagsKept

LEMMA CountsOfAssign ==
  ASSUME Counts, Next, Assign
  PROVE  Counts'
<1>1. PICK o \in alive, p \in Props, x \in alive \cup {Null} :
        /\ props[o][p] # x
        /\ props' = [props EXCEPT ![o][p] = x]
        /\ AddRefs([y \in Objects |-> One(x)[y] - One(props[o][p])[y]])
  BY DEF Assign, Reachable
<1>2. UNCHANGED <<alive, held, gcMap>>
  BY DEF Assign, Works, detectVars
<1>3. o \in Objects /\ x \in Objects \cup {Null} /\ props \in HandleMap
  BY DEF Counts
<1>4. props' \in HandleMap
  BY <1>1, <1>3 DEF HandleMap
<1>5. /\ refCount' = [y \in Objects |-> refCount'[y]]
      /\ \A y \in Objects :
           refCount'[y] = refCount[y] + (Same(y, x) - Same(y, props[o][p]))
      /\ \A y, z : Same(y, z) \in {0, 1} /\ (y # z => Same(y, z) = 0)
  BY <1>1 DEF AddRefs, One, Same
<1>6. \A y : To(alive', props', y)
               = To(alive, props, y) + (Same(y, x) - Same(y, props[o][p]))
  <2>1. alive \in SUBSET Objects /\ alive' = alive
    BY <1>2 DEF Counts
  <2>2. o \in alive /\ p \in Props /\ props[o][p] # x /\ props' = [props EXCEPT ![o][p] = x]
    BY <1>1
  <2>3. ASSUME NEW y
        PROVE  To(alive, props', y)
                 = To(alive, props, y) + (Same(y, x) - Same(y, props[o][p]))
    <3> DEFINE to == x
               new == [props EXCEPT ![o][p] = to]
    <3>1. alive \in SUBSET Objects /\ props \in HandleMap /\ o \in alive /\ p \in Props
          /\ props[o][p] # to
      BY <1>3, <2>1, <2>2
    <3>2. To(alive, new, y) = To(alive, props, y) + (Same(y, to) - Same(y, props[o][p]))
      <4> HIDE DEF to
      <4> QED
        BY <3>1, ToAssigned
    <3> QED
      BY <2>2, <3>2
  <2> QED
    BY <2>1, <2>3
<1>7. \A y \in Objects : Once(y)' = Once(y) /\ InMap(y)' = InMap(y)
  BY <1>2 DEF Once, InMap
<1>8. ASSUME NEW y \in Objects
      PROVE  refCount'[y] = held'[y] + Once(y)' + InMap(y)' + To(alive', props', y)
  BY <1>2, <1>5, <1>6, <1>7, CountsOf
<1>9. ASSUME NEW y \in Objects \ alive'
      PROVE  held'[y] = 0 /\ To(alive', props', y) = 0 /\ props'[y] = NoHandles
  <2>1. y \notin alive /\ y # o /\ y # x
    BY <1>2, ObjectsFinite
  <2>2. To(alive', props', y) \in Nat
    BY <1>2, ToType DEF Counts
  <2>3. To(alive', props', y) = 0
    <3>1. To(alive, props, y) = 0 /\ Same(y, x) = 0 /\ Same(y, props[o][p]) \in {0, 1}
      BY <1>5, <2>1, CountsOf
    <3> QED
      BY <1>6, <2>2, <3>1
  <2>4. props'[y] = props[y]
    BY <1>1, <1>3, <2>1 DEF HandleMap
  <2> QED
    BY <1>2, <2>1, <2>3, <2>4, CountsOf
<1>10. alive' \subseteq Objects /\ held' \in [Objects -> Nat]
  BY <1>2 DEF Counts
<1> QED
  BY <1>4, <1>5, <1>8, <1>9, <1>10, CountsFollow, FlagsKept

\* The last reference is the list's: nothing else refers to the object.
LEMMA CountsOfDestroyed ==
  ASSUME Counts, Next, NEW o \in alive, refCount[o] = 1, Destroyed(o), gcMap' = gcMap
  PROVE  Counts'
<1>1. /\ alive' = alive \ {o} /\ held' = held
      /\ props' = [props EXCEPT ![o] = NoHandles]
      /\ AddRefs([x \in Objects |-> -Handles(o)[x] - One(o)[x]])
  BY DEF Destroyed
<1>2. o \in Objects /\ props \in HandleMap /\ alive \in SUBSET Objects
  BY DEF Counts
<1>3. Once(o) = 1
  BY DEF Once
<1>4. held[o] = 0 /\ To(alive, props, o) = 0 /\ InMap(o) = 0
  BY <1>2, <1>3, CountsOf
<1>5. alive' \subseteq Objects /\ props' \in HandleMap /\ held' \in [Objects -> Nat]
  BY <1>1, <1>2 DEF Counts, HandleMap, NoHandles
<1> DEFINE own(x) == Cardinality(Own(props[o], x))
<1>6. /\ refCount' = [x \in Objects |-> refCount'[x]]
      /\ \A x \in Objects :
           refCount'[x] = refCount[x] + (-own(x) - (IF x = o THEN 1 ELSE 0))
  BY <1>1 DEF AddRefs, One, Handles, Own
<1>7. \A x \in Objects : /\ own(x) \in Nat
                         /\ To(alive', props', x) = To(alive, props, x) - own(x)
                         /\ To(alive', props', x) \in Nat
  <2>1. ASSUME NEW x \in Objects
        PROVE  /\ own(x) \in Nat
               /\ To(alive \ {o}, [props EXCEPT ![o] = NoHandles], x)
                    = To(alive, props, x) - own(x)
    BY <1>2, OwnType, ToDropped
  <2>2. ASSUME NEW x \in Objects
        PROVE  To(alive', props', x) \in Nat
    BY <1>5, ToType
  <2> QED
    BY <1>1, <2>1, <2>2
<1> HIDE DEF own
<1>8. \A x \in Objects : /\ Once(x)' = IF x = o THEN 0 ELSE Once(x)
                         /\ InMap(x)' = InMap(x)
  BY <1>1 DEF Once, InMap
<1>9. ASSUME NEW x \in Objects
      PROVE  refCount'[x] = held'[x] + Once(x)' + InMap(x)' + To(alive', props', x)
  <2> DEFINE one == IF x = o THEN 1 ELSE 0
  <2>1. /\ held[x] \in Nat /\ To(alive, props, x) \in Nat
        /\ InMap(x) \in Nat /\ Once(x) \in Nat
        /\ refCount[x] = held[x] + Once(x) + InMap(x) + To(alive, props, x)
    BY CountsOf
  <2>2. refCount'[x] = refCount[x] + (-own(x) - one) /\ one \in {0, 1}
    BY <1>6
  <2>3. Once(x)' = Once(x) - one /\ InMap(x)' = InMap(x) /\ held'[x] = held[x]
    BY <1>1, <1>3, <1>8, <2>1
  <2>4. own(x) \in Nat /\ To(alive', props', x) = To(alive, props, x) - own(x)
    BY <1>7
  <2> HIDE DEF one
  <2> QED
    BY <2>1, <2>2, <2>3, <2>4
<1>10. ASSUME NEW x \in Objects \ alive'
       PROVE  held'[x] = 0 /\ To(alive', props', x) = 0 /\ props'[x] = NoHandles
  <2>1. x = o \/ x \notin alive
    BY <1>1
  <2>2. To(alive, props, x) = 0 /\ held[x] = 0
    BY <1>4, <2>1, CountsOf
  <2>3. To(alive', props', x) = 0
    BY <1>7, <2>2
  <2>4. x # o => x \notin alive /\ props[x] = NoHandles
    BY <2>1, CountsOf
  <2>5. props'[x] = NoHandles
    BY <1>1, <1>2, <2>4 DEF HandleMap
  <2> QED
    BY <1>1, <2>2, <2>3, <2>5
<1> QED
  BY <1>5, <1>6, <1>9, <1>10, CountsFollow, FlagsKept

\* The map takes (d = 1) or gives back (d = -1) a reference.
LEMMA CountsOfMap ==
  ASSUME Counts, Next, NEW o \in Objects, NEW d \in {1, -1},
         AddRefs([x \in Objects |-> IF x = o THEN d ELSE 0]),
         UNCHANGED <<alive, props, held>>,
         \/ d = 1 /\ o \notin DOMAIN gcMap /\ DOMAIN gcMap' = DOMAIN gcMap \cup {o}
         \/ d = -1 /\ o \in DOMAIN gcMap /\ DOMAIN gcMap' = DOMAIN gcMap \ {o}
  PROVE  Counts'
<1>1. /\ refCount' = [x \in Objects |-> refCount'[x]]
      /\ \A x \in Objects : refCount'[x] = refCount[x] + IF x = o THEN d ELSE 0
  BY DEF AddRefs
<1>2. \A x \in Objects : /\ Once(x)' = Once(x)
                         /\ InMap(x)' = InMap(x) + IF x = o THEN d ELSE 0
  BY DEF Once, InMap
<1>3. ASSUME NEW x \in Objects
      PROVE  refCount'[x] = held'[x] + Once(x)' + InMap(x)' + To(alive', props', x)
  BY <1>1, <1>2, CountsOf
<1>4. ASSUME NEW x \in Objects \ alive'
      PROVE  held'[x] = 0 /\ To(alive', props', x) = 0 /\ props'[x] = NoHandles
  BY CountsOf
<1>5. alive' \subseteq Objects /\ props' \in HandleMap /\ held' \in [Objects -> Nat]
  BY DEF Counts
<1> QED
  BY <1>1, <1>3, <1>4, <1>5, CountsFollow, FlagsKept

LEMMA CountsOfBreak ==
  ASSUME Counts, Next, BreakCircle, gcMapCursor \in alive
  PROVE  Counts'
<1> DEFINE o == gcMapCursor
<1>1. PICK taken \in {0, 1} :
        /\ held' = [held EXCEPT ![o] = @ + taken]
        /\ AddRefs([x \in Objects |-> taken * One(o)[x] - Handles(o)[x]])
  BY DEF BreakCircle
<1>2. /\ props' = [props EXCEPT ![o] = NoHandles] /\ alive' = alive /\ gcMap' = gcMap
      /\ o \in alive
  BY DEF BreakCircle
<1> HIDE DEF o
<1>3. o \in Objects /\ props \in HandleMap /\ alive \in SUBSET Objects
  BY <1>2 DEF Counts
<1>4. alive' \subseteq Objects /\ props' \in HandleMap
  BY <1>2, <1>3 DEF HandleMap, NoHandles
<1> DEFINE own(x) == Cardinality(Own(props[o], x))
           add(x) == IF x = o THEN taken ELSE 0
<1>5. \A x \in Objects : taken * One(o)[x] = add(x)
  BY DEF One
<1>6. /\ refCount' = [x \in Objects |-> refCount'[x]]
      /\ \A x \in Objects : refCount'[x] = refCount[x] + (add(x) - own(x))
  <2>1. refCount' = [x \in Objects |->
                      refCount[x] + [y \in Objects |-> taken * One(o)[y] - Handles(o)[y]][x]]
    BY <1>1 DEF AddRefs
  <2>2. \A x \in Objects : Handles(o)[x] = own(x)
    BY DEF Handles, Own
  <2> QED
    BY <1>5, <2>1, <2>2
<1>7. held' \in [Objects -> Nat] /\ \A x \in Objects : held'[x] = held[x] + add(x)
  BY <1>1, <1>3 DEF Counts
<1>8. \A x \in Objects : /\ own(x) \in Nat
                         /\ To(alive', props', x) = To(alive, props, x) - own(x)
                         /\ To(alive', props', x) \in Nat
  <2>1. ASSUME NEW x \in Objects
        PROVE  own(x) \in Nat /\ To(alive', props', x) = To(alive, props, x) - own(x)
    BY <1>2, <1>3, OwnType, ToDropped
  <2>2. ASSUME NEW x \in Objects
        PROVE  To(alive', props', x) \in Nat
    BY <1>4, ToType
  <2> QED
    BY <2>1, <2>2
<1>9. \A x \in Objects : Once(x)' = Once(x) /\ InMap(x)' = InMap(x) /\ add(x) \in {0, 1}
  BY <1>2 DEF Once, InMap
<1>10. \A x \in Objects : x # o => add(x) = 0
  OBVIOUS
<1> HIDE DEF own, add
<1>11. ASSUME NEW x \in Objects
       PROVE  refCount'[x] = held'[x] + Once(x)' + InMap(x)' + To(alive', props', x)
  BY <1>6, <1>7, <1>8, <1>9, CountsOf
<1>12. ASSUME NEW x \in Objects \ alive'
       PROVE  held'[x] = 0 /\ To(alive', props', x) = 0 /\ props'[x] = NoHandles
  <2>1. x \notin alive /\ x # o
    BY <1>2
  <2>2. held'[x] = 0 /\ To(alive', props', x) = 0
    BY <1>7, <1>8, <1>10, <2>1, CountsOf
  <2>3. props'[x] = props[x]
    BY <1>2, <1>3, <2>1 DEF HandleMap
  <2> QED
    BY <2>1, <2>2, <2>3, CountsOf
<1> QED
  BY <1>4, <1>6, <1>7, <1>11, <1>12, CountsFollow, FlagsKept

LEMMA MapIsAlive ==
  ASSUME Search, ListTypes, OnceListed
  PROVE  DOMAIN gcMap \subseteq alive
<1>1. ASSUME NEW x \in DOMAIN gcMap
      PROVE  x \in alive
  <2>1. x \in Objects /\ Count(gcOldObjects, x) # 0 /\ gcOldObjects \in Seq(Objects)
    BY DEF Search, ListTypes
  <2>2. PICK i \in 1..Len(gcOldObjects) : gcOldObjects[i] = x
    BY <2>1, CountType
  <2> QED
    BY <2>1, <2>2, InList
<1> QED
  BY <1>1

LEMMA CountsKept ==
  ASSUME Counts, Search, ListTypes, OnceListed, Next
  PROVE  Counts'
<1>1. \A x \in DOMAIN gcMap : x \in alive /\ x \in Objects
  BY MapIsAlive DEF Search
<1>2. CASE Create
  BY <1>1, <1>2, CountsOfCreate
<1>3. CASE Take \/ Drop
  <2>1. UNCHANGED <<alive, props, gcMap>>
    BY <1>3 DEF Take, Drop, Works, detectVars
  <2>2. CASE Take
    <3>1. PICK o \in alive : held' = [held EXCEPT ![o] = @ + 1] /\ AddRefs(One(o))
      BY <2>2 DEF Take, Reachable
    <3>2. held[o] + 1 \in Nat /\ 1 \in {1, -1}
      BY CountsOf DEF Counts
    <3>3. AddRefs([x \in Objects |-> IF x = o THEN 1 ELSE 0])
      BY <3>1 DEF One
    <3> QED
      BY <2>1, <3>1, <3>2, <3>3, CountsOfHeld
  <2>3. CASE Drop
    <3>1. PICK o \in alive : /\ held[o] > 0 /\ held' = [held EXCEPT ![o] = @ - 1]
                             /\ AddRefs([x \in Objects |-> -One(o)[x]])
      BY <2>3 DEF Drop
    <3>2. held[o] + (-1) \in Nat /\ -1 \in {1, -1} /\ held[o] - 1 = held[o] + (-1)
      BY <3>1, CountsOf DEF Counts
    <3>3. AddRefs([x \in Objects |-> IF x = o THEN -1 ELSE 0])
      <4>1. [x \in Objects |-> -One(o)[x]] = [x \in Objects |-> IF x = o THEN -1 ELSE 0]
        BY DEF One
      <4> QED
        BY <3>1, <4>1
    <3>4. held' = [held EXCEPT ![o] = @ + (-1)]
      BY <3>1, <3>2
    <3> QED
      BY <2>1, <3>2, <3>3, <3>4, CountsOfHeld
  <2> QED
    BY <1>3, <2>2, <2>3
<1>4. CASE Assign
  BY <1>4, CountsOfAssign
<1>5. ASSUME NEW o \in alive, refCount[o] = 1, Destroyed(o) \/ Resurrected(o), gcMap' = gcMap
      PROVE  Counts'
  <2>1. CASE Resurrected(o)
    <3>1. /\ held' = [held EXCEPT ![o] = @ + 1] /\ AddRefs(One(o))
          /\ UNCHANGED <<alive, props>>
      BY <2>1 DEF Resurrected
    <3>2. held[o] + 1 \in Nat /\ 1 \in {1, -1}
      BY CountsOf DEF Counts
    <3>3. AddRefs([x \in Objects |-> IF x = o THEN 1 ELSE 0])
      BY <3>1 DEF One
    <3> QED
      BY <1>5, <3>1, <3>2, <3>3, CountsOfHeld
  <2> QED
    BY <1>5, <2>1, CountsOfDestroyed
<1>6. CASE DestroyNew
  <2>1. PICK i \in 1..Len(gcNewObjects) :
          LET o == gcNewObjects[i].obj
          IN  refCount[o] = 1 /\ (Destroyed(o) \/ Resurrected(o)) /\ gcMap' = gcMap
    BY <1>6 DEF DestroyNew, NextNew, detectVars
  <2> QED
    BY <1>5, <2>1, InList
<1>7. ASSUME UNCHANGED objectVars, DOMAIN gcMap' = DOMAIN gcMap
      PROVE  Counts'
  BY <1>7, CountsQuiet DEF objectVars
<1>8. CASE NextOld
  <2>1. PICK i \in 1..Len(gcOldObjects) :
          LET o == gcOldObjects[i]
          IN  /\ gcMap' = gcMap
              /\ \/ refCount[o] = 1 /\ (Destroyed(o) \/ Resurrected(o))
                 \/ UNCHANGED objectVars
    BY <1>8 DEF NextOld, detectVars
  <2> QED
    BY <1>5, <1>7, <2>1, InList
<1>9. CASE \/ FullCycle \/ Add \/ NothingOld \/ StartNew \/ KeepNew \/ EndNew
           \/ StartOld \/ EndOld
  <2>1. UNCHANGED objectVars /\ gcMap' = gcMap
    BY <1>9 DEF FullCycle, Add, NothingOld, StartNew, KeepNew, NextNew, EndNew, StartOld,
       EndOld, detectVars
  <2> QED
    BY <1>7, <2>1
<1>10. CASE ClearCounters
  <2>1. UNCHANGED <<alive, props, held>>
    BY <1>10 DEF ClearCounters, Detects
  <2>2. CASE After(Null) = Null
    BY <1>10, <2>1, <2>2, CountsQuiet DEF ClearCounters
  <2>3. CASE After(Null) # Null
    <3> DEFINE o == After(Null)
    <3>1. o \in DOMAIN gcMap /\ o \in Objects
      BY <1>1, <2>3, AfterIsNext
    <3>2. AddRefs([x \in Objects |-> -One(o)[x]]) /\ gcMap' = Without(o)
      BY <1>10, <2>3 DEF ClearCounters
    <3> HIDE DEF o
    <3>3. [x \in Objects |-> -One(o)[x]] = [x \in Objects |-> IF x = o THEN -1 ELSE 0]
      BY DEF One
    <3>4. DOMAIN gcMap' = DOMAIN gcMap \ {o}
      BY <3>2 DEF Without
    <3> QED
      BY <2>1, <3>1, <3>2, <3>3, <3>4, CountsOfMap
  <2> QED
    BY <2>2, <2>3
<1>11. CASE BuildMapInsert
  <2> DEFINE o == gcOldObjects[detectIdx]
  <2>1. /\ UNCHANGED <<alive, props, held>> /\ AddRefs(One(o)) /\ counted > 0
        /\ DOMAIN gcMap' = DOMAIN gcMap \cup {o}
    BY <1>11 DEF BuildMapInsert, Detects
  <2>2. detectIdx \in 1..Len(gcOldObjects) /\ detectState = "buildMap"
    BY <2>1 DEF Search, ListTypes
  <2>3. o \in Objects /\ o \notin DOMAIN gcMap
    BY <2>2 DEF Search, ListTypes
  <2> HIDE DEF o
  <2>4. AddRefs([x \in Objects |-> IF x = o THEN 1 ELSE 0]) /\ 1 \in {1, -1}
    BY <2>1 DEF One
  <2> QED
    BY <2>1, <2>3, <2>4, CountsOfMap
<1>12. CASE \/ BuildMapRead \/ BuildMapDone
            \/ CountReferences \/ CountReferencesDone \/ FindLive \/ FindLiveDone
            \/ RemoveLiveDone \/ VerifyUnmarked \/ VerifyUnmarkedDone \/ BreakCirclesDone
  <2>1. UNCHANGED <<alive, props, held, refCount>> /\ DOMAIN gcMap' = DOMAIN gcMap
    BY <1>12 DEF BuildMapRead, BuildMapDone, CountReferences, CountReferencesDone, FindLive,
       FindLiveDone, RemoveLiveDone, VerifyUnmarked, VerifyUnmarkedDone, BreakCirclesDone,
       Detects, Restart, objectVars
  <2> QED
    BY <2>1, CountsQuiet
<1>13. CASE RemoveLive
  <2>1. UNCHANGED <<alive, props, held>>
    BY <1>13 DEF RemoveLive, Detects
  <2>2. PICK o \in liveObjects :
          IF o \in DOMAIN gcMap
            THEN gcMap' = Without(o) /\ AddRefs([x \in Objects |-> -One(o)[x]])
            ELSE UNCHANGED <<gcMap, refCount>>
    BY <1>13 DEF RemoveLive
  <2>3. CASE o \notin DOMAIN gcMap
    BY <2>1, <2>2, <2>3, CountsQuiet
  <2>4. CASE o \in DOMAIN gcMap
    <3>1. [x \in Objects |-> -One(o)[x]] = [x \in Objects |-> IF x = o THEN -1 ELSE 0]
      BY DEF One
    <3>2. DOMAIN gcMap' = DOMAIN gcMap \ {o} /\ o \in Objects
      BY <1>1, <2>2, <2>4 DEF Without
    <3> QED
      BY <2>1, <2>2, <2>4, <3>1, <3>2, CountsOfMap
  <2> QED
    BY <2>3, <2>4
<1>14. CASE BreakCircle
  <2>1. gcMapCursor \in DOMAIN gcMap
    BY <1>14 DEF BreakCircle, Search
  <2> QED
    BY <1>1, <1>14, <2>1, CountsOfBreak
<1>15. ASSUME NEW detect \in BOOLEAN, NEW destroy \in BOOLEAN, Collect(detect, destroy)
       PROVE  Counts'
  BY <1>7, <1>15 DEF Collect, detectVars
<1> QED
  BY <1>2, <1>3, <1>4, <1>6, <1>8, <1>9, <1>10, <1>11, <1>12, <1>13, <1>14, <1>15,
     CollectorAssumption DEF Next, Application, Collector

-----------------------------------------------------------------------------
\* The invariant.

IInv == ListTypes /\ OnceListed /\ CallsInOrder /\ Search /\ Counts

LEMMA InvariantStart ==
  ASSUME Init
  PROVE  IInv
<1>1. ListTypes /\ CallsInOrder
  BY DEF Init, ListTypes, CallsInOrder, NoCycle, CycleType
<1>2. \A o : Count(gcOldObjects, o) = 0 /\ Count(Objs(gcNewObjects), o) = 0
  <2>2. ASSUME NEW o
        PROVE  Places(gcOldObjects, o) = {} /\ Places(Objs(gcNewObjects), o) = {}
    BY DEF Init, Places, Objs
  <2> QED
    BY <2>2, FS_EmptySet DEF Count
<1>3. OnceListed
  BY <1>2, ObjectsFinite DEF Init, OnceListed, Listings
<1>4. Search
  BY DEF Init, Search, SearchStates
<1>5. ASSUME NEW o \in Objects
      PROVE  /\ Once(o) = 0 /\ InMap(o) = 0 /\ To(alive, props, o) = 0
             /\ held[o] = 0 /\ refCount[o] = 0 /\ props[o] = NoHandles
  <2>1. HandlesTo(alive, props, o) = {}
    BY DEF Init, HandlesTo
  <2>2. To(alive, props, o) = 0
    BY <2>1, FS_EmptySet DEF To
  <2> QED
    BY <2>2 DEF Init, Once, InMap, NoHandles
<1>6. /\ alive \subseteq Objects /\ props \in HandleMap /\ held \in [Objects -> Nat]
      /\ refCount \in [Objects -> Nat] /\ gcFlag \in [Objects -> BOOLEAN]
      /\ isDestructCalled \in [Objects -> BOOLEAN]
  BY DEF Init, HandleMap
<1>7. Counts
  BY <1>5, <1>6 DEF Counts
<1> QED
  BY <1>1, <1>3, <1>4, <1>7 DEF IInv

LEMMA InvariantKept ==
  ASSUME IInv, [Next]_vars
  PROVE  IInv'
<1>1. CASE Next
  <2>1. ListTypes' /\ OnceListed'
    BY <1>1, ListsKept DEF IInv
  <2>2. CallsInOrder'
    BY <1>1, <2>1, CallsKept DEF IInv
  <2>3. Search'
    BY <1>1, SearchKept DEF IInv
  <2>4. Counts'
    BY <1>1, CountsKept DEF IInv
  <2> QED
    BY <2>1, <2>2, <2>3, <2>4 DEF IInv
<1>2. CASE UNCHANGED vars
  <2>1. ListTypes' /\ OnceListed'
    BY <1>2 DEF IInv, ListTypes, OnceListed, Listings, vars, objectVars, listVars
  <2>2. CallsInOrder'
    BY <1>2 DEF IInv, CallsInOrder, vars
  <2>3. Search'
    BY <1>2, SearchQuiet DEF IInv, vars, listVars
  <2>4. Counts'
    BY <1>2 DEF IInv, Counts, Once, InMap, vars, objectVars, detectVars
  <2> QED
    BY <2>1, <2>2, <2>3, <2>4 DEF IInv
<1> QED
  BY <1>1, <1>2

LEMMA InvariantGivesTypes ==
  ASSUME IInv
  PROVE  TypeOK
<1>1. DOMAIN gcMap \subseteq Objects /\ liveObjects \subseteq Objects
  BY DEF IInv, Search
<1> QED
  BY <1>1 DEF IInv, TypeOK, ListTypes, CallsInOrder, Search, Counts, HandleMap, Entry, CallNames

LEMMA InvariantGivesCounts ==
  ASSUME IInv
  PROVE  CountsExact
<1>1. SUFFICES ASSUME NEW o \in Objects
               PROVE  IF o \in alive
                        THEN /\ Listed(o) = 1
                             /\ refCount[o] = held[o] + Listed(o)
                                  + (IF o \in DOMAIN gcMap THEN 1 ELSE 0)
                                  + Cardinality({h \in alive \X Props : props[h[1]][h[2]] = o})
                        ELSE /\ Listed(o) = 0 /\ held[o] = 0 /\ o \notin DOMAIN gcMap
                             /\ o \notin liveObjects
                             /\ \A x \in alive : o \notin Targets(x)
  BY DEF CountsExact
<1>2. Listed(o) = IF o \in alive THEN 1 ELSE 0
  BY ListingsAreListed DEF IInv, OnceListed
<1>3. To(alive, props, o) = Cardinality({h \in alive \X Props : props[h[1]][h[2]] = o})
  BY DEF To, HandlesTo
<1>4. CASE o \in alive
  BY <1>2, <1>3, <1>4, CountsOf DEF IInv, InMap, Once
<1>5. CASE o \notin alive
  <2>1. held[o] = 0 /\ To(alive, props, o) = 0 /\ o \notin DOMAIN gcMap
    BY <1>5, CountsOf, MapIsAlive DEF IInv
  <2>2. o \notin liveObjects
    BY <2>1 DEF IInv, Search
  <2>3. \A x \in alive, p \in Props : props[x][p] # o
    <3>1. alive \in SUBSET Objects
      BY DEF IInv, Counts
    <3>2. To(alive, props, o) = 0 <=> \A x \in alive, p \in Props : props[x][p] # o
      BY <3>1, ToType
    <3> QED
      BY <2>1, <3>2
  <2>4. \A x \in alive : o \notin Targets(x)
    BY <2>3 DEF Targets
  <2> QED
    BY <1>2, <1>5, <2>1, <2>2, <2>4
<1> QED
  BY <1>4, <1>5

-----------------------------------------------------------------------------
\* What is broken up is garbage.

From(t) == HandlesTo(alive, props, t)

\* All that refers to t is in the map.
Inside(t) == held[t] = 0 /\ \A h \in From(t) : h[1] \in DOMAIN gcMap

\* The objects the loop over the map has come by, and the handles to t of others
\* than those in S.
Passed == {x \in DOMAIN gcMap : gcMapCursor = Null \/ x < gcMapCursor}
Others(S, t) == {h \in From(t) : h[1] \notin S}

\* What the search knows about the objects of the map that have kept their flag: how
\* many references are not accounted for yet, then whether there are any from outside.
\* A flag that has gone missing is yet to be come by.
Garbage ==
  /\ counted > 0 => counted = refCount[gcOldObjects[detectIdx]]
  /\ detectState = "buildMap" =>
       \A t \in DOMAIN gcMap : gcFlag[t] => gcMap[t] = held[t] + To(alive, props, t)
  /\ detectState = "countReferences" =>
       \E S \in SUBSET Passed : \A t \in DOMAIN gcMap :
         gcFlag[t] => gcMap[t] = held[t] + Cardinality(Others(S, t))
  /\ detectState = "findLive" =>
       \A t \in DOMAIN gcMap :
         gcFlag[t] => Inside(t) \/ t \in liveObjects \/ (t \notin Passed /\ gcMap[t] > 0)
  /\ detectState = "removeLive" =>
       \A t \in DOMAIN gcMap : gcFlag[t] => Inside(t) \/ t \in liveObjects
  /\ detectState = "verifyUnmarked" =>
       /\ \A t \in DOMAIN gcMap : gcFlag[t] => Inside(t)
       /\ (\E t \in DOMAIN gcMap : ~gcFlag[t]) =>
            \E t \in DOMAIN gcMap \ Passed : ~gcFlag[t]
  /\ detectState \in {"breakCircles", "haveGarbage"} => \A t \in DOMAIN gcMap : Inside(t)

\* A destructor called to break a circle takes no handle to its object, and between
\* the reading of a count and the setting of the flag nothing changes that count.
\* Without threads of the application nothing can.
Undisturbed ==
  /\ BreakCircle => held' = held
  /\ counted > 0 /\ Application =>
       refCount'[gcOldObjects[detectIdx]] = refCount[gcOldObjects[detectIdx]]

LEMMA ReachableIsClosed ==
  /\ \A o \in alive : held[o] > 0 => o \in Reachable
  /\ \A o \in Reachable, p \in Props :
       props[o][p] # Null /\ props[o][p] \in alive => props[o][p] \in Reachable
  /\ \A S \in SUBSET alive : Closed(S) => Reachable \subseteq S
<1>1. ASSUME NEW o \in alive, held[o] > 0
      PROVE  o \in Reachable
  BY <1>1 DEF Reachable, Closed
<1>2. ASSUME NEW o \in Reachable, NEW p \in Props, props[o][p] # Null, props[o][p] \in alive
      PROVE  props[o][p] \in Reachable
  <2>1. ASSUME NEW S \in SUBSET alive, Closed(S)
        PROVE  props[o][p] \in S
    BY <1>2, <2>1 DEF Reachable, Closed, Targets
  <2> QED
    BY <1>2, <2>1 DEF Reachable
<1>3. \A S \in SUBSET alive : Closed(S) => Reachable \subseteq S
  BY DEF Reachable
<1> QED
  BY <1>1, <1>2, <1>3

LEMMA InsideIsGarbage ==
  ASSUME IInv, \A t \in DOMAIN gcMap : Inside(t)
  PROVE  DOMAIN gcMap \cap Reachable = {}
<1> DEFINE S == alive \ DOMAIN gcMap
<1>1. \A o \in alive : o \in Objects /\ held[o] \in Nat
  BY DEF IInv, Counts
<1>2. {o \in alive : held[o] > 0} \subseteq S
  BY <1>1 DEF Inside
<1>3. ASSUME NEW o \in S, NEW t \in Targets(o) \cap alive
      PROVE  t \in S
  <2>1. PICK p \in Props : props[o][p] = t
    BY DEF Targets
  <2>2. <<o, p>> \in From(t)
    BY <2>1 DEF From, HandlesTo
  <2> QED
    BY <2>2 DEF Inside
<1>4. Closed(S)
  BY <1>2, <1>3 DEF Closed
<1> QED
  BY <1>4, ReachableIsClosed

SameRefs(t) ==
  /\ held'[t] = held[t]
  /\ From(t)' = From(t)
  /\ gcFlag'[t] = gcFlag[t]
Disturbed(t) ==
  /\ gcFlag'[t] = FALSE
  /\ t \in Reachable \/ \E h \in From(t) : h[1] \notin DOMAIN gcMap

\* The last handle but the list's: not one the map has.
LEMMA LastIsNotInMap ==
  ASSUME IInv, NEW o \in alive, refCount[o] = 1
  PROVE  o \notin DOMAIN gcMap
<1>1. o \in Objects /\ Once(o) = 1
  BY DEF IInv, Counts, Once
<1>2. InMap(o) = 0
  BY <1>1, CountsOf DEF IInv
<1> QED
  BY <1>2 DEF InMap

LEMMA DestroyedDisturbs ==
  ASSUME IInv, NEW o \in alive, refCount[o] = 1, Destroyed(o) \/ Resurrected(o),
         NEW t \in DOMAIN gcMap
  PROVE  SameRefs(t) \/ Disturbed(t)
<1>1. o \notin DOMAIN gcMap /\ t # o /\ t \in Objects
  BY LastIsNotInMap DEF IInv, Search
<1>2. CASE Resurrected(o)
  <2>1. held'[t] = held[t] /\ gcFlag'[t] = gcFlag[t]
    BY <1>1, <1>2 DEF Resurrected, Touch, IInv, Counts
  <2>2. From(t)' = From(t)
    BY <1>2 DEF Resurrected, From, HandlesTo
  <2> QED
    BY <2>1, <2>2 DEF SameRefs
<1>3. CASE Destroyed(o)
  <2>1. held' = held /\ alive' = alive \ {o} /\ props' = [props EXCEPT ![o] = NoHandles]
        /\ gcFlag' = [x \in Objects |-> gcFlag[x] /\ x \notin {o} \cup Targets(o)]
    BY <1>3 DEF Destroyed
  <2>2. CASE t \in Targets(o)
    <3>1. PICK p \in Props : props[o][p] = t
      BY <2>2 DEF Targets
    <3>2. <<o, p>> \in From(t)
      BY <3>1 DEF From, HandlesTo
    <3>3. gcFlag'[t] = FALSE
      BY <1>1, <2>1, <2>2
    <3> QED
      BY <1>1, <3>2, <3>3 DEF Disturbed
  <2>3. CASE t \notin Targets(o)
    <3>1. gcFlag'[t] = gcFlag[t]
      BY <1>1, <2>1, <2>3 DEF IInv, Counts
    <3>2. t # Null
      BY <1>1, ObjectsFinite
    <3>3. \A p \in Props : props[o][p] # t
      BY <2>3, <3>2 DEF Targets
    <3>4. \A x \in alive \ {o} : props'[x] = props[x]
      BY <2>1 DEF IInv, Counts, HandleMap
    <3>5. HandlesTo(alive', props', t) = HandlesTo(alive, props, t)
      BY <2>1, <3>3, <3>4 DEF HandlesTo
    <3> QED
      BY <2>1, <3>1, <3>5 DEF SameRefs, From
  <2> QED
    BY <2>2, <2>3
<1> QED
  BY <1>2, <1>3

LEMMA ApplicationDisturbs ==
  ASSUME IInv, Application, NEW t \in DOMAIN gcMap
  PROVE  SameRefs(t) \/ Disturbed(t)
<1>1. t \in alive /\ t \in Objects /\ t # Null
  BY MapIsAlive, ObjectsFinite DEF IInv, Search
<1>2. /\ props \in HandleMap /\ held \in [Objects -> Nat] /\ gcFlag \in [Objects -> BOOLEAN]
      /\ alive \subseteq Objects
  BY DEF IInv, Counts
<1>3. CASE Create
  <2>1. PICK o \in Objects \ alive :
          /\ alive' = alive \cup {o} /\ props' = props
          /\ held' = [held EXCEPT ![o] = 1]
          /\ gcFlag' = [gcFlag EXCEPT ![o] = FALSE]
    BY <1>3 DEF Create
  <2>2. held'[t] = held[t] /\ gcFlag'[t] = gcFlag[t]
    BY <1>1, <1>2, <2>1
  <2>3. \A p \in Props : props[o][p] # t
    BY <1>1, <2>1, CountsOf DEF IInv, NoHandles
  <2>4. HandlesTo(alive', props', t) = HandlesTo(alive, props, t)
    BY <2>1, <2>3 DEF HandlesTo
  <2> QED
    BY <2>2, <2>4 DEF SameRefs, From
<1>4. CASE Take \/ Drop
  <2>1. PICK o \in Reachable, d \in {1, -1} :
          held' = [held EXCEPT ![o] = @ + d] /\ Touch({o})
    <3>1. CASE Take
      BY <3>1 DEF Take
    <3>2. CASE Drop
      <4>1. PICK o \in alive : /\ held[o] > 0 /\ held' = [held EXCEPT ![o] = @ - 1]
                               /\ Touch({o})
        BY <3>2 DEF Drop
      <4>2. o \in Reachable /\ held[o] - 1 = held[o] + (-1)
        BY <1>2, <4>1, ReachableIsClosed
      <4> QED
        BY <4>1, <4>2
    <3> QED
      BY <1>4, <3>1, <3>2
  <2>2. UNCHANGED <<alive, props>>
    BY <1>4 DEF Take, Drop
  <2>3. From(t)' = From(t)
    BY <2>2 DEF From, HandlesTo
  <2>4. CASE t = o
    BY <1>1, <2>1, <2>4 DEF Touch, Disturbed
  <2>5. CASE t # o
    <3>1. held'[t] = held[t] /\ gcFlag'[t] = gcFlag[t]
      BY <1>1, <1>2, <2>1, <2>5 DEF Touch
    <3> QED
      BY <2>3, <3>1 DEF SameRefs
  <2> QED
    BY <2>4, <2>5
<1>5. CASE Assign
  <2>1. PICK o \in Reachable, p \in Props, x \in Reachable \cup {Null} :
          /\ props' = [props EXCEPT ![o][p] = x]
          /\ Touch({x, props[o][p]})
    BY <1>5 DEF Assign
  <2>2. alive' = alive /\ held' = held
    BY <1>5 DEF Assign
  <2>3. CASE t = x \/ t = props[o][p]
    <3>1. gcFlag'[t] = FALSE
      BY <1>1, <2>1, <2>3 DEF Touch
    <3>2. t \in Reachable
      BY <1>1, <2>3, ReachableIsClosed
    <3> QED
      BY <3>1, <3>2 DEF Disturbed
  <2>4. CASE t # x /\ t # props[o][p]
    <3>1. gcFlag'[t] = gcFlag[t]
      BY <1>1, <1>2, <2>1, <2>4 DEF Touch
    <3>2. o \in alive
      BY DEF Reachable
    <3>3. \A y \in alive, q \in Props :
            props'[y][q] = IF y = o /\ q = p THEN x ELSE props[y][q]
      BY <1>2, <2>1, <3>2 DEF HandleMap
    <3>4. \A y \in alive, q \in Props : props'[y][q] = t <=> props[y][q] = t
      BY <2>4, <3>3
    <3>5. HandlesTo(alive', props', t) = HandlesTo(alive, props, t)
      BY <2>2, <3>4 DEF HandlesTo
    <3> QED
      BY <2>2, <3>1, <3>5 DEF SameRefs, From
  <2> QED
    BY <2>3, <2>4
<1> QED
  BY <1>3, <1>4, <1>5 DEF Application

\* What is known survives what goes on beside the search.
LEMMA GarbageBeside ==
  ASSUME IInv, Garbage, UNCHANGED detectVars,
         counted > 0 => counted = refCount'[gcOldObjects'[detectIdx]],
         \A t \in DOMAIN gcMap : SameRefs(t) \/ Disturbed(t)
  PROVE  Garbage'
<1>1. /\ detectState' = detectState /\ detectIdx' = detectIdx /\ gcMap' = gcMap
      /\ gcMapCursor' = gcMapCursor /\ liveObjects' = liveObjects /\ counted' = counted
      /\ Passed' = Passed
  BY DEF detectVars, Passed
<1>2. ASSUME NEW t \in DOMAIN gcMap, SameRefs(t)
      PROVE  /\ gcFlag'[t] = gcFlag[t] /\ held'[t] = held[t]
             /\ Inside(t)' = Inside(t) /\ To(alive', props', t) = To(alive, props, t)
             /\ \A S : Others(S, t)' = Others(S, t)
  BY <1>1, <1>2 DEF SameRefs, From, To, Inside, Others
<1>3. ASSUME NEW t \in DOMAIN gcMap, gcFlag'[t]
      PROVE  SameRefs(t) /\ gcFlag[t]
  BY <1>3 DEF Disturbed, SameRefs
<1>4. CASE detectState = "countReferences"
  <2>1. PICK S \in SUBSET Passed : \A t \in DOMAIN gcMap :
          gcFlag[t] => gcMap[t] = held[t] + Cardinality(Others(S, t))
    BY <1>4 DEF Garbage
  <2>2. \A t \in DOMAIN gcMap' :
          gcFlag'[t] => gcMap'[t] = held'[t] + Cardinality(Others(S, t)')
    BY <1>1, <1>2, <1>3, <2>1
  <2> QED
    BY <1>1, <1>4, <2>2 DEF Garbage
<1>5. ASSUME \A t \in DOMAIN gcMap : Inside(t)
      PROVE  \A t \in DOMAIN gcMap : SameRefs(t) /\ Inside(t)'
  <2>1. \A t \in DOMAIN gcMap : t \notin Reachable
    BY <1>5, InsideIsGarbage
  <2>2. \A t \in DOMAIN gcMap : SameRefs(t)
    BY <1>5, <2>1 DEF Disturbed, Inside
  <2> QED
    BY <1>2, <1>5, <2>2
<1>6. CASE detectState \in {"breakCircles", "haveGarbage"}
  BY <1>1, <1>5, <1>6 DEF Garbage
<1>7. CASE detectState = "verifyUnmarked"
  <2>1. \A t \in DOMAIN gcMap : gcFlag'[t] => Inside(t)'
    BY <1>2, <1>3, <1>7 DEF Garbage
  <2>2. CASE \E t \in DOMAIN gcMap : ~gcFlag[t]
    <3>1. PICK t \in DOMAIN gcMap \ Passed : ~gcFlag[t]
      BY <1>7, <2>2 DEF Garbage
    <3>2. ~gcFlag'[t]
      BY <1>3, <3>1
    <3> QED
      BY <1>1, <1>7, <2>1, <3>2 DEF Garbage
  <2>3. CASE \A t \in DOMAIN gcMap : gcFlag[t]
    <3>1. \A t \in DOMAIN gcMap : Inside(t)
      BY <1>7, <2>3 DEF Garbage
    <3>2. \A t \in DOMAIN gcMap : gcFlag'[t]
      BY <1>5, <2>3, <3>1 DEF SameRefs
    <3> QED
      BY <1>1, <1>7, <2>1, <3>2 DEF Garbage
  <2> QED
    BY <2>2, <2>3
<1>8. CASE detectState \in {"buildMap", "findLive", "removeLive"}
  <2>1. ASSUME NEW t \in DOMAIN gcMap, gcFlag'[t]
        PROVE  /\ gcFlag[t] /\ held'[t] = held[t] /\ Inside(t)' = Inside(t)
               /\ To(alive', props', t) = To(alive, props, t)
    BY <1>2, <1>3, <2>1
  <2> QED
    BY <1>1, <1>8, <2>1 DEF Garbage
<1>9. CASE detectState = "clearCounters"
  BY <1>1, <1>9 DEF Garbage
<1> QED
  BY <1>4, <1>6, <1>7, <1>8, <1>9 DEF IInv, Search, SearchStates

\* The loops over the map.
LEMMA LoopStarts ==
  ASSUME IInv, gcMapCursor' = After(Null), gcMap' = gcMap
  PROVE  Passed' = {}
<1>1. DOMAIN gcMap \subseteq Objects
  BY DEF IInv, Search
<1>2. CASE After(Null) = Null
  <2>1. ~ \E o \in DOMAIN gcMap : o > Null
    BY <1>1, <1>2, AfterIsNext
  <2>2. DOMAIN gcMap = {}
    BY <1>1, <2>1, CollectorAssumption DEF Objects, Null
  <2> QED
    BY <2>2 DEF Passed
<1>3. CASE After(Null) # Null
  <2>1. /\ After(Null) \in Objects
        /\ \A o \in DOMAIN gcMap : o > Null => After(Null) <= o
    BY <1>1, <1>3, AfterIsNext
  <2>2. \A o \in DOMAIN gcMap : ~(o < After(Null))
    BY <1>1, <2>1, CollectorAssumption DEF Objects, Null
  <2> QED
    BY <1>3, <2>2 DEF Passed
<1> QED
  BY <1>2, <1>3

LEMMA LoopGoesOn ==
  ASSUME IInv, gcMapCursor \in DOMAIN gcMap, gcMapCursor # Null,
         gcMapCursor' = After(gcMapCursor), DOMAIN gcMap' = DOMAIN gcMap
  PROVE  Passed' = Passed \cup {gcMapCursor} /\ gcMapCursor \notin Passed
<1> DEFINE c == gcMapCursor
           d == After(c)
<1>1. DOMAIN gcMap \subseteq Nat /\ c \in Nat
  BY CollectorAssumption DEF IInv, Search, Objects
<1>2. /\ d \in DOMAIN gcMap \cup {Null}
      /\ d = Null => ~ \E o \in DOMAIN gcMap : o > c
      /\ d # Null => d > c /\ \A o \in DOMAIN gcMap : o > c => d <= o
  BY AfterIsNext DEF IInv, Search
<1>3. /\ Passed = {x \in DOMAIN gcMap : x < c}
      /\ Passed' = {x \in DOMAIN gcMap : d = Null \/ x < d}
  BY DEF Passed
<1>4. c \in DOMAIN gcMap
  OBVIOUS
<1> HIDE DEF c, d
<1>5. CASE d = Null
  BY <1>1, <1>2, <1>3, <1>4, <1>5 DEF c
<1>6. CASE d # Null
  BY <1>1, <1>2, <1>3, <1>4, <1>6 DEF c
<1> QED
  BY <1>5, <1>6

LEMMA LoopEnds ==
  ASSUME gcMapCursor = Null
  PROVE  Passed = DOMAIN gcMap
  BY DEF Passed

\* The handles of one more object are accounted for.
LEMMA OthersLess ==
  ASSUME IInv, NEW S, NEW o \in alive, o \notin S, NEW t
  PROVE  /\ IsFiniteSet(Others(S, t)) /\ Cardinality(Others(S, t)) \in Nat
         /\ Cardinality(Others(S \cup {o}, t))
              = Cardinality(Others(S, t)) - Cardinality(Own(props[o], t))
<1> DEFINE H == Others(S, t)
           K == Others(S \cup {o}, t)
           D == {<<o, p>> : p \in Own(props[o], t)}
           f == [p \in Own(props[o], t) |-> <<o, p>>]
<1>1. IsFiniteSet(From(t))
  BY ToType DEF From, IInv, Counts
<1>2. IsFiniteSet(H)
  BY <1>1, FS_Subset DEF Others
<1>3. \A h \in From(t) : h \in alive \X Props /\ props[h[1]][h[2]] = t
  BY DEF From, HandlesTo
<1>4. D \subseteq H
  BY DEF Others, From, HandlesTo, Own
<1>5. K = H \ D
  <2>1. ASSUME NEW h \in H, h[1] = o
        PROVE  h \in D
    <3>1. h \in alive \X Props /\ props[h[1]][h[2]] = t
      BY <1>3 DEF Others
    <3>2. h = <<o, h[2]>> /\ h[2] \in Own(props[o], t)
      BY <2>1, <3>1 DEF Own
    <3> QED
      BY <3>2
  <2>2. \A h \in D : h[1] = o
    OBVIOUS
  <2>3. \A h : h \in K <=> h \in H /\ h[1] # o
    BY DEF Others
  <2> HIDE DEF H, K, D
  <2> QED
    BY <2>1, <2>2, <2>3
<1>6. f \in Bijection(Own(props[o], t), D)
  <2>1. f \in [Own(props[o], t) -> D]
    OBVIOUS
  <2>2. \A p, q \in Own(props[o], t) : f[p] = f[q] => p = q
    OBVIOUS
  <2>3. \A d \in D : \E p \in Own(props[o], t) : f[p] = d
    OBVIOUS
  <2> QED
    BY <2>1, <2>2, <2>3 DEF Bijection, Injection, Surjection, IsInjective
<1>7. IsFiniteSet(D) /\ Cardinality(D) = Cardinality(Own(props[o], t))
  BY <1>6, OwnType, FS_Bijection DEF ExistsBijection
<1>8. H \cap D = D
  BY <1>4
<1> HIDE DEF H, K, D
<1>9. Cardinality(H \ D) = Cardinality(H) - Cardinality(H \cap D)
  BY <1>2, FS_Difference
<1>10. Cardinality(K) = Cardinality(H) - Cardinality(Own(props[o], t))
  BY <1>5, <1>7, <1>8, <1>9
<1> QED
  BY <1>2, <1>10, FS_CardinalityType DEF H, K

LEMMA GarbageOfMap ==
  ASSUME IInv, Garbage, ClearCounters \/ BuildMapRead \/ BuildMapInsert \/ BuildMapDone
  PROVE  Garbage'
<1>1. UNCHANGED <<alive, props, held, gcOldObjects>>
  BY DEF ClearCounters, BuildMapRead, BuildMapInsert, BuildMapDone, Detects, Restart,
     objectVars, listVars
<1>2. \A t : From(t)' = From(t) /\ To(alive', props', t) = To(alive, props, t)
  BY <1>1 DEF From, To
<1>3. CASE ClearCounters
  <2>1. detectState = "clearCounters" /\ counted' = 0
    BY <1>3 DEF ClearCounters, Detects, IInv, Search
  <2>2. CASE After(Null) = Null
    <3>1. detectState' = "buildMap" /\ gcMap' = gcMap
      BY <1>3, <2>2 DEF ClearCounters
    <3>2. DOMAIN gcMap = {}
      <4>1. DOMAIN gcMap \subseteq Objects
        BY DEF IInv, Search
      <4>2. ~ \E o \in DOMAIN gcMap : o > Null
        BY <2>2, <4>1, AfterIsNext
      <4> QED
        BY <4>1, <4>2, CollectorAssumption DEF Objects, Null
    <3> QED
      BY <2>1, <3>1, <3>2 DEF Garbage
  <2>3. CASE After(Null) # Null
    <3>1. detectState' = "clearCounters"
      BY <1>3, <2>1, <2>3 DEF ClearCounters
    <3> QED
      BY <2>1, <3>1 DEF Garbage
  <2> QED
    BY <2>2, <2>3
<1>4. CASE BuildMapRead
  <2>1. /\ detectState = "buildMap" /\ detectState' = "buildMap"
        /\ gcMap' = gcMap /\ gcFlag' = gcFlag /\ refCount' = refCount
    BY <1>4 DEF BuildMapRead, Detects
  <2>2. counted' > 0 => counted' = refCount'[gcOldObjects'[detectIdx']]
    BY <1>1, <1>4 DEF BuildMapRead
  <2> QED
    BY <1>1, <1>2, <2>1, <2>2 DEF Garbage
<1>5. CASE BuildMapInsert
  <2> DEFINE o == gcOldObjects[detectIdx]
  <2>1. /\ detectState = "buildMap" /\ detectState' = "buildMap"
        /\ gcMap' = [x \in DOMAIN gcMap \cup {o} |-> IF x = o THEN counted - 1 ELSE gcMap[x]]
        /\ gcFlag' = [gcFlag EXCEPT ![o] = TRUE] /\ counted' = 0 /\ counted > 0
    BY <1>5 DEF BuildMapInsert, Detects
  <2>2. detectIdx \in 1..Len(gcOldObjects)
    BY <2>1 DEF IInv, Search, ListTypes
  <2>3. o \in Objects /\ o \notin DOMAIN gcMap /\ o \in alive
    BY <2>1, <2>2, InList DEF IInv, Search, ListTypes
  <2>4. counted = refCount[o]
    BY <2>1 DEF Garbage
  <2> HIDE DEF o
  <2>5. refCount[o] - 1 = held[o] + To(alive, props, o)
    <3>1. Once(o) = 1 /\ InMap(o) = 0
      BY <2>3 DEF Once, InMap
    <3> QED
      BY <2>3, <3>1, CountsOf DEF IInv
  <2>6. ASSUME NEW t \in DOMAIN gcMap', gcFlag'[t]
        PROVE  gcMap'[t] = held'[t] + To(alive', props', t)
    <3>1. CASE t = o
      BY <1>1, <2>1, <2>4, <2>5, <3>1
    <3>2. CASE t # o
      <4>1. t \in DOMAIN gcMap /\ t \in Objects /\ gcFlag[t] /\ gcMap'[t] = gcMap[t]
        BY <2>1, <2>6, <3>2 DEF IInv, Search, Counts
      <4> QED
        BY <1>1, <2>1, <4>1 DEF Garbage
    <3> QED
      BY <3>1, <3>2
  <2> QED
    BY <2>1, <2>6 DEF Garbage
<1>6. CASE BuildMapDone
  <2>1. /\ detectState = "buildMap" /\ detectState' = "countReferences"
        /\ counted' = 0 /\ gcMap' = gcMap /\ gcFlag' = gcFlag
    BY <1>6 DEF BuildMapDone, Detects, Restart, objectVars
  <2>2. ASSUME NEW t
        PROVE  Others({}, t)' = From(t)'
    BY DEF Others
  <2>3. ASSUME NEW t \in DOMAIN gcMap', gcFlag'[t]
        PROVE  gcMap'[t] = held'[t] + Cardinality(Others({}, t)')
    <3>1. gcMap[t] = held[t] + To(alive, props, t)
      BY <2>1, <2>3 DEF Garbage
    <3>2. To(alive, props, t) = Cardinality(From(t))
      BY DEF To, From
    <3> QED
      BY <1>1, <1>2, <2>1, <2>2, <3>1, <3>2
  <2>4. {} \in SUBSET Passed'
    OBVIOUS
  <2> QED
    BY <2>1, <2>3, <2>4 DEF Garbage
<1> QED
  BY <1>3, <1>4, <1>5, <1>6

LEMMA GarbageOfCount ==
  ASSUME IInv, Garbage, CountReferences \/ CountReferencesDone
  PROVE  Garbage'
<1>1. detectState = "countReferences" /\ UNCHANGED objectVars /\ counted' = 0
  BY DEF CountReferences, CountReferencesDone, Detects, Restart, IInv, Search
<1>2. \A t : From(t)' = From(t) /\ held'[t] = held[t] /\ gcFlag'[t] = gcFlag[t]
  BY <1>1 DEF From, objectVars
<1>3. PICK S \in SUBSET Passed : \A t \in DOMAIN gcMap :
        gcFlag[t] => gcMap[t] = held[t] + Cardinality(Others(S, t))
  BY <1>1 DEF Garbage
<1>4. S \subseteq DOMAIN gcMap
  BY DEF Passed
<1>5. CASE CountReferences
  <2> DEFINE c == gcMapCursor
  <2>1. /\ detectState' = "countReferences" /\ c # Null /\ c' = After(c)
        /\ DOMAIN gcMap' = DOMAIN gcMap
        /\ IF gcFlag[c]
             THEN gcMap' = [x \in DOMAIN gcMap |-> gcMap[x] - Handles(c)[x]]
             ELSE gcMap' = gcMap
    BY <1>1, <1>5 DEF CountReferences
  <2>2. c \in DOMAIN gcMap /\ c \in alive
    BY <1>1, <2>1, MapIsAlive DEF IInv, Search
  <2>3. Passed' = Passed \cup {c} /\ c \notin Passed
    BY <2>1, <2>2, LoopGoesOn
  <2>4. CASE gcFlag[c]
    <3>1. PICK T \in SUBSET Passed' : T = S \cup {c}
      BY <2>3
    <3>2. ASSUME NEW t \in DOMAIN gcMap', gcFlag'[t]
          PROVE  gcMap'[t] = held'[t] + Cardinality(Others(T, t)')
      <4>1. Others(T, t)' = Others(T, t)
        BY <1>2 DEF Others
      <4>2. /\ Cardinality(Others(S, t)) \in Nat
            /\ Cardinality(Others(T, t))
                 = Cardinality(Others(S, t)) - Cardinality(Own(props[c], t))
        BY <2>2, <2>3, <3>1, OthersLess
      <4>3. t \in Objects /\ t \in DOMAIN gcMap /\ held[t] \in Nat
        BY <2>1 DEF IInv, Search, Counts
      <4>4. gcMap'[t] = gcMap[t] - Cardinality(Own(props[c], t))
        BY <2>1, <2>4, <4>3 DEF Handles, Own
      <4>5. Cardinality(Own(props[c], t)) \in Nat
        BY OwnType
      <4>6. gcMap[t] = held[t] + Cardinality(Others(S, t))
        BY <1>2, <1>3, <3>2, <4>3
      <4> QED
        BY <1>2, <4>1, <4>2, <4>3, <4>4, <4>5, <4>6
    <3> QED
      BY <1>1, <2>1, <3>1, <3>2 DEF Garbage
  <2>5. CASE ~gcFlag[c]
    <3>1. S \in SUBSET Passed'
      BY <2>3
    <3>2. ASSUME NEW t \in DOMAIN gcMap', gcFlag'[t]
          PROVE  gcMap'[t] = held'[t] + Cardinality(Others(S, t)')
      <4>1. Others(S, t)' = Others(S, t)
        BY <1>2 DEF Others
      <4> QED
        BY <1>2, <1>3, <2>1, <2>5, <3>2, <4>1
    <3> QED
      BY <1>1, <2>1, <3>1, <3>2 DEF Garbage
  <2> QED
    BY <2>4, <2>5
<1>6. CASE CountReferencesDone
  <2>1. /\ detectState' = "findLive" /\ gcMap' = gcMap /\ Passed' = {}
    BY <1>6, LoopStarts DEF CountReferencesDone, Restart
  <2>2. ASSUME NEW t \in DOMAIN gcMap', gcFlag'[t]
        PROVE  Inside(t)' \/ gcMap'[t] > 0
    <3>1. t \in Objects /\ held[t] \in Nat
      BY <2>1 DEF IInv, Search, Counts
    <3>2. IsFiniteSet(From(t))
      BY ToType DEF From, IInv, Counts
    <3>3. IsFiniteSet(Others(S, t))
      BY <3>2, FS_Subset DEF Others
    <3>4. /\ Cardinality(Others(S, t)) \in Nat
          /\ Cardinality(Others(S, t)) = 0 => Others(S, t) = {}
      BY <3>3, FS_CardinalityType, FS_EmptySet
    <3>5. gcMap[t] = held[t] + Cardinality(Others(S, t))
      BY <1>2, <1>3, <2>1, <2>2
    <3>6. CASE held[t] = 0 /\ Others(S, t) = {}
      <4>1. \A h \in From(t) : h[1] \in DOMAIN gcMap
        BY <1>4, <3>6 DEF Others
      <4> QED
        BY <1>2, <2>1, <3>6, <4>1 DEF Inside
    <3> QED
      BY <2>1, <3>1, <3>4, <3>5, <3>6
  <2> QED
    BY <1>1, <2>1, <2>2 DEF Garbage
<1> QED
  BY <1>5, <1>6

LEMMA GarbageOfLive ==
  ASSUME IInv, Garbage, FindLive \/ FindLiveDone \/ RemoveLive \/ RemoveLiveDone
  PROVE  Garbage'
<1>1. UNCHANGED <<alive, props, held>> /\ counted' = 0
  BY DEF FindLive, FindLiveDone, RemoveLive, RemoveLiveDone, Detects, Restart, objectVars,
     IInv, Search
<1>2. \A t : From(t)' = From(t)
  BY <1>1 DEF From
<1>3. ASSUME gcMap' = gcMap, NEW t
      PROVE  Inside(t)' = Inside(t)
  BY <1>1, <1>2, <1>3 DEF Inside
<1>4. CASE FindLive
  <2> DEFINE c == gcMapCursor
  <2>1. /\ detectState = "findLive" /\ detectState' = "findLive"
        /\ c # Null /\ c' = After(c) /\ gcMap' = gcMap /\ gcFlag' = gcFlag
        /\ liveObjects' = IF ~gcFlag[c] \/ gcMap[c] > 0 THEN liveObjects \cup {c}
                                                       ELSE liveObjects
    BY <1>4 DEF FindLive, Detects, objectVars
  <2>2. c \in DOMAIN gcMap
    BY <2>1 DEF IInv, Search
  <2>3. Passed' = Passed \cup {c}
    BY <2>1, <2>2, LoopGoesOn
  <2>4. ASSUME NEW t \in DOMAIN gcMap', gcFlag'[t]
        PROVE  Inside(t)' \/ t \in liveObjects' \/ (t \notin Passed' /\ gcMap'[t] > 0)
    <3>1. Inside(t) \/ t \in liveObjects \/ (t \notin Passed /\ gcMap[t] > 0)
      BY <2>1, <2>4 DEF Garbage
    <3>2. Inside(t)' = Inside(t)
      BY <1>3, <2>1
    <3>3. CASE t = c
      BY <2>1, <2>4, <3>1, <3>2, <3>3
    <3>4. CASE t # c
      BY <2>1, <2>3, <3>1, <3>2, <3>4
    <3> QED
      BY <3>3, <3>4
  <2> QED
    BY <1>1, <2>1, <2>4 DEF Garbage
<1>5. CASE FindLiveDone
  <2>1. /\ detectState = "findLive" /\ detectState' = "removeLive"
        /\ gcMapCursor = Null /\ gcMap' = gcMap /\ gcFlag' = gcFlag
        /\ liveObjects' = liveObjects
    BY <1>5 DEF FindLiveDone, Detects, objectVars
  <2>2. ASSUME NEW t \in DOMAIN gcMap', gcFlag'[t]
        PROVE  Inside(t)' \/ t \in liveObjects'
    BY <1>3, <2>1, <2>2, LoopEnds DEF Garbage
  <2> QED
    BY <1>1, <2>1, <2>2 DEF Garbage
<1>6. CASE RemoveLive
  <2>1. detectState = "removeLive" /\ detectState' = "removeLive"
    BY <1>6 DEF RemoveLive, Detects
  <2>2. PICK o \in liveObjects :
          /\ gcMap' = Without(o) /\ Touch({o})
          /\ liveObjects' = (liveObjects \ {o}) \cup (Targets(o) \cap DOMAIN gcMap')
    BY <1>6 DEF RemoveLive, IInv, Search
  <2>3. o \in DOMAIN gcMap /\ DOMAIN gcMap' = DOMAIN gcMap \ {o}
    BY <2>2 DEF IInv, Search, Without
  <2>4. ASSUME NEW t \in DOMAIN gcMap', gcFlag'[t]
        PROVE  Inside(t)' \/ t \in liveObjects'
    <3>1. t \in DOMAIN gcMap /\ t # o /\ t \in Objects /\ t # Null
      BY <2>3, ObjectsFinite DEF IInv, Search
    <3>2. gcFlag[t]
      BY <2>2, <2>4, <3>1 DEF Touch
    <3>3. Inside(t) \/ t \in liveObjects
      BY <2>1, <3>1, <3>2 DEF Garbage
    <3>4. CASE t \in liveObjects \/ t \in Targets(o)
      BY <2>2, <3>1, <3>4
    <3>5. CASE Inside(t) /\ t \notin Targets(o)
      <4>1. \A h \in From(t) : h[1] # o
        <5>1. ASSUME NEW h \in From(t)
              PROVE  h[2] \in Props /\ props[h[1]][h[2]] = t
          BY DEF From, HandlesTo
        <5> QED
          BY <3>1, <3>5, <5>1 DEF Targets
      <4> QED
        BY <1>1, <1>2, <2>3, <3>5, <4>1 DEF Inside
    <3> QED
      BY <3>3, <3>4, <3>5
  <2> QED
    BY <1>1, <2>1, <2>4 DEF Garbage
<1>7. CASE RemoveLiveDone
  <2>1. /\ detectState = "removeLive" /\ detectState' = "verifyUnmarked"
        /\ liveObjects = {} /\ gcMap' = gcMap /\ gcFlag' = gcFlag /\ Passed' = {}
    BY <1>7, LoopStarts DEF RemoveLiveDone, Detects, Restart, objectVars
  <2>2. \A t \in DOMAIN gcMap' : gcFlag'[t] => Inside(t)'
    BY <1>3, <2>1 DEF Garbage
  <2> QED
    BY <1>1, <2>1, <2>2 DEF Garbage
<1> QED
  BY <1>4, <1>5, <1>6, <1>7

LEMMA GarbageOfBreak ==
  ASSUME IInv, Garbage, Undisturbed,
         VerifyUnmarked \/ VerifyUnmarkedDone \/ BreakCircle \/ BreakCirclesDone
  PROVE  Garbage'
<1>1. alive' = alive /\ held' = held /\ counted' = 0
  BY DEF VerifyUnmarked, VerifyUnmarkedDone, BreakCircle, BreakCirclesDone, Detects, Restart,
     objectVars, IInv, Search, Undisturbed
<1>2. ASSUME gcMap' = gcMap, props' = props, NEW t
      PROVE  Inside(t)' = Inside(t)
  BY <1>1, <1>2 DEF Inside, From
<1>3. CASE VerifyUnmarked
  <2> DEFINE c == gcMapCursor
  <2>1. /\ detectState = "verifyUnmarked" /\ c # Null
        /\ gcMap' = gcMap /\ gcFlag' = gcFlag /\ props' = props
    BY <1>3 DEF VerifyUnmarked, Detects, objectVars
  <2>2. c \in DOMAIN gcMap
    BY <2>1 DEF IInv, Search
  <2>3. CASE gcFlag[c]
    <3>1. detectState' = "verifyUnmarked" /\ c' = After(c)
      BY <1>3, <2>1, <2>3 DEF VerifyUnmarked
    <3>2. Passed' = Passed \cup {c}
      BY <2>1, <2>2, <3>1, LoopGoesOn
    <3> QED
      BY <1>1, <1>2, <2>1, <2>3, <3>1, <3>2 DEF Garbage
  <2>4. CASE ~gcFlag[c]
    <3>1. detectState' = "findLive"
      BY <1>3, <2>4 DEF VerifyUnmarked
    <3> QED
      BY <1>1, <1>2, <2>1, <3>1 DEF Garbage
  <2> QED
    BY <2>3, <2>4
<1>4. CASE VerifyUnmarkedDone
  <2>1. /\ detectState = "verifyUnmarked" /\ detectState' = "breakCircles"
        /\ gcMapCursor = Null /\ gcMap' = gcMap /\ props' = props
    BY <1>4 DEF VerifyUnmarkedDone, Detects, Restart, objectVars
  <2>2. \A t \in DOMAIN gcMap : Inside(t)
    BY <2>1, LoopEnds DEF Garbage
  <2> QED
    BY <1>1, <1>2, <2>1, <2>2 DEF Garbage
<1>5. CASE BreakCircle
  <2> DEFINE o == gcMapCursor
  <2>1. /\ detectState \in {"breakCircles", "haveGarbage"} /\ detectState' = "haveGarbage"
        /\ gcMap' = gcMap /\ props' = [props EXCEPT ![o] = NoHandles]
    BY <1>5 DEF BreakCircle
  <2>2. ASSUME NEW t \in DOMAIN gcMap
        PROVE  From(t)' \subseteq From(t)
    <3>1. t # Null
      BY ObjectsFinite DEF IInv, Search
    <3>2. \A x \in alive, p \in Props : props'[x][p] = t => props[x][p] = t
      BY <2>1, <3>1 DEF IInv, Counts, HandleMap, NoHandles
    <3> QED
      BY <1>1, <3>2 DEF From, HandlesTo
  <2> QED
    BY <1>1, <2>1, <2>2 DEF Garbage, Inside
<1>6. CASE BreakCirclesDone
  <2>1. detectState' = "clearCounters"
    BY <1>6 DEF BreakCirclesDone
  <2> QED
    BY <1>1, <2>1 DEF Garbage
<1> QED
  BY <1>3, <1>4, <1>5, <1>6

LEMMA GarbageKept ==
  ASSUME IInv, Garbage, Next, Undisturbed
  PROVE  Garbage'
<1>1. CASE Application
  <2>1. UNCHANGED detectVars
    BY <1>1 DEF Application, Create, Take, Drop, Assign, Works
  <2>2. gcOldObjects' = gcOldObjects
    BY <1>1 DEF Application, Create, Take, Drop, Assign, AddNew, listVars
  <2>3. counted > 0 => counted = refCount'[gcOldObjects'[detectIdx]]
    BY <1>1, <2>2 DEF Garbage, Undisturbed
  <2> QED
    BY <1>1, <2>1, <2>3, ApplicationDisturbs, GarbageBeside
<1>2. ASSUME UNCHANGED objectVars, UNCHANGED detectVars, counted = 0
      PROVE  Garbage'
  <2>1. \A t \in DOMAIN gcMap : SameRefs(t)
    BY <1>2 DEF SameRefs, From, objectVars
  <2> QED
    BY <1>2, <2>1, GarbageBeside
<1>3. ASSUME NEW detect \in BOOLEAN, NEW destroy \in BOOLEAN, Collect(detect, destroy)
      PROVE  Garbage'
  <2>1. UNCHANGED objectVars /\ UNCHANGED detectVars /\ calls = <<>>
    BY <1>3 DEF Collect
  <2> QED
    BY <1>2, <2>1, NothingRead DEF IInv, Under
<1>4. CASE FullCycle
  <2>1. UNCHANGED objectVars /\ gcMap' = gcMap /\ counted' = counted /\ counted = 0
    BY <1>4, NothingRead DEF FullCycle, IInv, Under
  <2>2. CASE detectState' = "clearCounters"
    BY <2>1, <2>2 DEF Garbage
  <2>3. CASE UNCHANGED <<detectState, detectIdx, gcMapCursor, liveObjects>>
    BY <1>2, <2>1, <2>3 DEF detectVars
  <2> QED
    BY <1>4, <2>2, <2>3 DEF FullCycle
<1>5. CASE Add \/ StartNew \/ KeepNew \/ EndNew \/ StartOld \/ EndOld
  <2>1. UNCHANGED objectVars /\ UNCHANGED detectVars
    BY <1>5 DEF Add, StartNew, KeepNew, NextNew, EndNew, StartOld, EndOld
  <2>2. Under("add") \/ Under("new") \/ Under("old")
    BY <1>5 DEF Add, StartNew, KeepNew, NextNew, EndNew, StartOld, EndOld
  <2> QED
    BY <1>2, <2>1, <2>2, NothingRead DEF IInv, Under
<1>6. CASE NothingOld
  <2>1. UNCHANGED objectVars /\ UNCHANGED detectVars /\ gcOldObjects = <<>>
    BY <1>6 DEF NothingOld
  <2>2. counted = 0
    BY <2>1 DEF IInv, Search
  <2> QED
    BY <1>2, <2>1, <2>2
<1>7. CASE DestroyNew
  <2>1. PICK i \in 1..Len(gcNewObjects) :
          LET o == gcNewObjects[i].obj
          IN  NextNew(i) /\ refCount[o] = 1 /\ (Destroyed(o) \/ Resurrected(o))
    BY <1>7 DEF DestroyNew
  <2>2. UNCHANGED detectVars /\ counted = 0
    BY <2>1, NothingRead DEF NextNew, IInv, Under
  <2>3. gcNewObjects[i].obj \in alive
    BY InList DEF IInv
  <2> QED
    BY <2>1, <2>2, <2>3, DestroyedDisturbs, GarbageBeside
<1>8. CASE NextOld
  <2>1. PICK i \in 1..Len(gcOldObjects) :
          LET o == gcOldObjects[i]
          IN  \/ refCount[o] = 1 /\ (Destroyed(o) \/ Resurrected(o))
              \/ UNCHANGED objectVars
    BY <1>8 DEF NextOld
  <2>2. UNCHANGED detectVars /\ counted = 0
    BY <1>8, NothingRead DEF NextOld, IInv, Under
  <2>3. gcOldObjects[i] \in alive
    BY InList DEF IInv
  <2> QED
    BY <1>2, <2>1, <2>2, <2>3, DestroyedDisturbs, GarbageBeside
<1>9. CASE \/ ClearCounters \/ BuildMapRead \/ BuildMapInsert \/ BuildMapDone
           \/ CountReferences \/ CountReferencesDone
  BY <1>9, GarbageOfMap, GarbageOfCount
<1>10. CASE \/ FindLive \/ FindLiveDone \/ RemoveLive \/ RemoveLiveDone
            \/ VerifyUnmarked \/ VerifyUnmarkedDone \/ BreakCircle \/ BreakCirclesDone
  BY <1>10, GarbageOfLive, GarbageOfBreak
<1> QED
  BY <1>1, <1>3, <1>4, <1>5, <1>6, <1>7, <1>8, <1>9, <1>10, CollectorAssumption
     DEF Next, Collector

-----------------------------------------------------------------------------
\* What a full cycle leaves.

\* A set with what the application holds, with what nothing refers to, which the lists
\* release by themselves, and with what an object of it refers to.  What is in every
\* such set no search may find to be garbage.
Covers(S) ==
  /\ \A o \in alive : held[o] > 0 \/ From(o) = {} => o \in S
  /\ \A o \in S : Targets(o) \cap alive \subseteq S
Kept == {o \in alive : \A S \in SUBSET alive : Covers(S) => o \in S}

InFullCycle == cycle.on /\ cycle.detect /\ cycle.destroy
Searching == InFullCycle /\ calls = <<"detect">>
Destroying == InFullCycle /\ calls = <<"old">>

\* Its calls, with all objects in the list of old ones.
FullCycleRuns ==
  /\ InFullCycle =>
       /\ gcNewObjects = <<>> /\ adding = Null
       /\ calls \in {<<"detect">>, <<"old">>}
       /\ destroyOldState \in {"init", "loop", "haveMore"} /\ destroyOldIdx \in Nat
  /\ Searching => cycle.count = Len(gcOldObjects) /\ destroyOldState = "init"
  /\ Destroying =>
       /\ detectState = "clearCounters" /\ DOMAIN gcMap = {}
       /\ Len(gcOldObjects) <= cycle.count

\* All flags stay set, so every reference is accounted for, and what is not in the map
\* any more, or is to leave it, had to be kept.  A sweep that has destroyed nothing
\* yet has seen no object with the count of the list alone.
KnowsWhatIsKept ==
  /\ Searching =>
       /\ detectState \in {"buildMap", "countReferences", "findLive", "removeLive",
                           "verifyUnmarked"} => \A t \in DOMAIN gcMap : gcFlag[t]
       /\ detectState \in {"countReferences", "findLive", "removeLive", "verifyUnmarked",
                           "breakCircles"} => alive \ DOMAIN gcMap \subseteq Kept
       /\ detectState = "buildMap" =>
            /\ counted > 0 => counted = refCount[gcOldObjects[detectIdx]]
            /\ \A t \in DOMAIN gcMap : gcMap[t] = held[t] + To(alive, props, t)
            /\ \A i \in 1..Len(gcOldObjects) :
                 i < detectIdx => gcOldObjects[i] \in DOMAIN gcMap \cup Kept
       /\ detectState = "countReferences" =>
            \A t \in DOMAIN gcMap : gcMap[t] = held[t] + Cardinality(Others(Passed, t))
       /\ detectState = "findLive" => \A t \in DOMAIN gcMap : gcMap[t] > 0 => t \in Kept
       /\ liveObjects \subseteq Kept
       /\ detectState = "breakCircles" => gcMapCursor = After(Null)
  /\ Destroying =>
       /\ cycle.count = Len(gcOldObjects) => alive \subseteq Kept
       /\ destroyOldState = "loop" =>
            \A i \in 1..Len(gcOldObjects) : i <= destroyOldIdx => refCount[gcOldObjects[i]] # 1

FullInv == IInv /\ FullCycleRuns /\ KnowsWhatIsKept

LEMMA KeptIsCovered ==
  /\ \A o \in alive : held[o] > 0 \/ From(o) = {} => o \in Kept
  /\ \A o \in Kept : Targets(o) \cap alive \subseteq Kept
<1>1. ASSUME NEW o \in alive, held[o] > 0 \/ From(o) = {}
      PROVE  o \in Kept
  BY <1>1 DEF Kept, Covers
<1>2. ASSUME NEW o \in Kept, NEW x \in Targets(o) \cap alive
      PROVE  x \in Kept
  <2>1. ASSUME NEW S \in SUBSET alive, Covers(S)
        PROVE  x \in S
    BY <2>1 DEF Kept, Covers
  <2> QED
    BY <2>1 DEF Kept
<1> QED
  BY <1>1, <1>2

LEMMA KeptSame ==
  ASSUME UNCHANGED <<alive, props, held>>
  PROVE  Kept' = Kept /\ \A t : From(t)' = From(t)
<1>1. \A t : From(t)' = From(t) /\ Targets(t)' = Targets(t)
  BY DEF From, Targets
<1>2. \A S : Covers(S)' <=> Covers(S)
  BY <1>1 DEF Covers
<1> QED
  BY <1>1, <1>2 DEF Kept

\* A handle taken only adds to what is to be kept.
LEMMA KeptMore ==
  ASSUME UNCHANGED <<alive, props>>, \A o \in alive : held[o] > 0 => held'[o] > 0
  PROVE  Kept \subseteq Kept'
<1>1. \A t : From(t)' = From(t) /\ Targets(t)' = Targets(t)
  BY DEF From, Targets
<1>2. \A S : Covers(S)' => Covers(S)
  BY <1>1 DEF Covers
<1> QED
  BY <1>2 DEF Kept

\* The count of an object outside the map is one when only the list refers to it.
LEMMA OnlyListed ==
  ASSUME IInv, NEW o \in alive, o \notin DOMAIN gcMap
  PROVE  /\ refCount[o] = 1 <=> held[o] = 0 /\ From(o) = {}
         /\ refCount[o] \in Nat /\ refCount[o] >= 1 /\ held[o] \in Nat
<1>1. o \in Objects /\ alive \subseteq Objects
  BY DEF IInv, Counts
<1>2. Once(o) = 1 /\ InMap(o) = 0
  BY DEF Once, InMap
<1>3. /\ held[o] \in Nat /\ To(alive, props, o) \in Nat
      /\ refCount[o] = held[o] + 1 + To(alive, props, o)
  BY <1>1, <1>2, CountsOf DEF IInv
<1>4. To(alive, props, o) = 0 <=> From(o) = {}
  BY <1>1, ToType, FS_EmptySet DEF To, From
<1> QED
  BY <1>3, <1>4

\* In a full cycle all objects are old.
LEMMA AllAreOld ==
  ASSUME IInv, gcNewObjects = <<>>, adding = Null, NEW o \in alive
  PROVE  \E i \in 1..Len(gcOldObjects) : gcOldObjects[i] = o
<1>1. o \in Objects /\ o # Null
  BY ObjectsFinite DEF IInv, Counts
<1>2. Count(Objs(gcNewObjects), o) = 0
  <2>1. Objs(gcNewObjects) \in Seq(Objects) /\ Len(Objs(gcNewObjects)) = 0
    BY ObjsType DEF IInv, ListTypes
  <2> QED
    BY <2>1, CountType
<1>3. Listings(o) = 1
  BY <1>1 DEF IInv, OnceListed
<1>4. gcOldObjects \in Seq(Objects)
  BY DEF IInv, ListTypes
<1>5. Count(gcOldObjects, o) \in Nat
  BY <1>4, CountType
<1>6. Count(gcOldObjects, o) # 0
  BY <1>1, <1>2, <1>3, <1>5 DEF Listings
<1> QED
  BY <1>4, <1>6, CountType

SearchArms ==
  \/ ClearCounters \/ BuildMapRead \/ BuildMapInsert \/ BuildMapDone
  \/ CountReferences \/ CountReferencesDone
  \/ FindLive \/ FindLiveDone \/ RemoveLive \/ RemoveLiveDone
  \/ VerifyUnmarked \/ VerifyUnmarkedDone \/ BreakCircle

\* Without threads nothing but these arms runs in a full cycle.
LEMMA InTheCycle ==
  ASSUME FullInv, InFullCycle, Next, Threads = FALSE
  PROVE  \/ Searching /\ (SearchArms \/ BreakCirclesDone)
         \/ Destroying /\ (StartOld \/ NextOld \/ EndOld)
<1>1. calls \in {<<"detect">>, <<"old">>} /\ calls # <<>> /\ cycle.on
  BY DEF FullInv, FullCycleRuns, InFullCycle
<1>2. ~Application /\ ~FullCycle /\ ~NothingOld
  BY <1>1 DEF Application, Create, Take, Drop, Assign, Works, FullCycle, NothingOld
<1>3. ~ \E parts \in Parts : Collect(parts.detect, parts.destroy)
  BY <1>1 DEF Collect
<1>4. CASE calls = <<"detect">>
  <2>1. ~Under("add") /\ ~Under("new") /\ ~Under("old")
    BY <1>4 DEF Under
  <2>2. ~Add /\ ~StartNew /\ ~DestroyNew /\ ~KeepNew /\ ~EndNew
    BY <2>1 DEF Add, StartNew, DestroyNew, KeepNew, EndNew, NextNew
  <2>3. ~StartOld /\ ~NextOld /\ ~EndOld
    BY <2>1 DEF StartOld, NextOld, EndOld
  <2> QED
    BY <1>2, <1>3, <1>4, <2>2, <2>3 DEF Next, Collector, Searching, SearchArms
<1>5. CASE calls = <<"old">>
  <2>1. ~Under("add") /\ ~Under("new") /\ ~Under("detect")
    BY <1>5 DEF Under
  <2>2. ~Add /\ ~StartNew /\ ~DestroyNew /\ ~KeepNew /\ ~EndNew
    BY <2>1 DEF Add, StartNew, DestroyNew, KeepNew, EndNew, NextNew
  <2>3. ~SearchArms /\ ~BreakCirclesDone
    BY <2>1 DEF SearchArms, ClearCounters, BuildMapRead, BuildMapInsert, BuildMapDone,
       CountReferences, CountReferencesDone, FindLive, FindLiveDone, RemoveLive,
       RemoveLiveDone, VerifyUnmarked, VerifyUnmarkedDone, BreakCircle, BreakCirclesDone,
       Detects, ToDetect
  <2> QED
    BY <1>2, <1>3, <1>5, <2>2, <2>3 DEF Next, Collector, Destroying, SearchArms
<1> QED
  BY <1>1, <1>4, <1>5

LEMMA SearchGoesOn ==
  ASSUME FullInv, Searching, SearchArms
  PROVE  /\ Searching' /\ ~Destroying' /\ FullCycleRuns'
         /\ gcOldObjects' = gcOldObjects /\ alive' = alive
<1>1. /\ UNCHANGED <<listVars, destroyVars, alive>>
      /\ Continue \/ MoreToDo
  BY DEF SearchArms, ClearCounters, BuildMapRead, BuildMapInsert, BuildMapDone,
     CountReferences, CountReferencesDone, FindLive, FindLiveDone, RemoveLive,
     RemoveLiveDone, VerifyUnmarked, VerifyUnmarkedDone, BreakCircle, Detects, Restart,
     objectVars
<1>2. UNCHANGED <<calls, adding, cycle>>
  BY <1>1 DEF MoreToDo, Continue, Searching, InFullCycle
<1>3. Searching'
  BY <1>2 DEF Searching, InFullCycle
<1>4. ~Destroying'
  BY <1>3 DEF Searching, Destroying
<1> QED
  BY <1>1, <1>2, <1>3, <1>4 DEF FullInv, FullCycleRuns, Searching, InFullCycle, listVars, destroyVars

LEMMA KnownOfMap ==
  ASSUME FullInv, Searching,
         ClearCounters \/ BuildMapRead \/ BuildMapInsert \/ BuildMapDone
  PROVE  KnowsWhatIsKept'
<1>1. /\ UNCHANGED <<alive, props, held, gcOldObjects, liveObjects>>
      /\ detectState \in {"clearCounters", "buildMap"} /\ liveObjects' = {}
  BY DEF ClearCounters, BuildMapRead, BuildMapInsert, BuildMapDone, Detects, Restart,
     objectVars, listVars, FullInv, IInv, Search
<1>2. Searching' /\ ~Destroying'
  BY SearchGoesOn DEF SearchArms
<1>3. Kept' = Kept /\ (\A t : From(t)' = From(t))
      /\ (\A t : To(alive', props', t) = To(alive, props, t))
  BY <1>1, KeptSame
<1>4. CASE ClearCounters
  <2>1. detectState = "clearCounters" /\ counted' = 0
    BY <1>4 DEF ClearCounters, Detects, FullInv, IInv, Search
  <2>2. CASE After(Null) = Null
    <3>1. detectState' = "buildMap" /\ gcMap' = gcMap /\ detectIdx' = 1
      BY <1>4, <2>2 DEF ClearCounters
    <3>2. DOMAIN gcMap = {}
      <4>1. DOMAIN gcMap \subseteq Objects
        BY DEF FullInv, IInv, Search
      <4>2. ~ \E o \in DOMAIN gcMap : o > Null
        BY <2>2, <4>1, AfterIsNext
      <4> QED
        BY <4>1, <4>2, CollectorAssumption DEF Objects, Null
    <3>3. \A i \in 1..Len(gcOldObjects) : ~(i < 1)
      OBVIOUS
    <3> QED
      BY <1>1, <1>2, <2>1, <3>1, <3>2, <3>3 DEF KnowsWhatIsKept
  <2>3. CASE After(Null) # Null
    <3>1. detectState' = "clearCounters"
      BY <1>4, <2>1, <2>3 DEF ClearCounters
    <3> QED
      BY <1>1, <1>2, <3>1 DEF KnowsWhatIsKept
  <2> QED
    BY <2>2, <2>3
<1>5. CASE BuildMapRead
  <2> DEFINE o == gcOldObjects[detectIdx]
  <2>1. /\ detectState = "buildMap" /\ detectState' = "buildMap"
        /\ gcMap' = gcMap /\ gcFlag' = gcFlag /\ refCount' = refCount
        /\ counted = 0 /\ detectIdx <= Len(gcOldObjects)
        /\ \/ counted' = refCount[o] /\ detectIdx' = detectIdx
           \/ ~(refCount[o] > 1) /\ counted' = counted /\ detectIdx' = detectIdx + 1
    BY <1>5 DEF BuildMapRead, Detects
  <2>2. counted' > 0 => counted' = refCount'[gcOldObjects'[detectIdx']]
    BY <1>1, <2>1
  <2>3. detectIdx \in 1..Len(gcOldObjects)
    BY <2>1 DEF FullInv, IInv, Search, ListTypes
  <2>4. o \in alive /\ o \notin DOMAIN gcMap
    BY <2>1, <2>3, InList DEF FullInv, IInv, Search, ListTypes
  <2>5. ASSUME ~(refCount[o] > 1)
        PROVE  o \in Kept
    <3>1. refCount[o] = 1
      BY <2>4, <2>5, OnlyListed DEF FullInv
    <3> QED
      BY <2>4, <3>1, OnlyListed, KeptIsCovered DEF FullInv
  <2> HIDE DEF o
  <2>6. ASSUME NEW i \in 1..Len(gcOldObjects), i < detectIdx'
        PROVE  gcOldObjects[i] \in DOMAIN gcMap \cup Kept
    <3>1. CASE i < detectIdx
      BY <2>1, <3>1 DEF FullInv, KnowsWhatIsKept
    <3>2. CASE i = detectIdx /\ ~(refCount[o] > 1)
      BY <2>5, <3>2 DEF o
    <3> QED
      BY <2>1, <2>3, <2>6, <3>1, <3>2
  <2>7. /\ \A t \in DOMAIN gcMap : gcFlag[t]
        /\ \A t \in DOMAIN gcMap : gcMap[t] = held[t] + To(alive, props, t)
    BY <2>1 DEF FullInv, KnowsWhatIsKept
  <2> QED
    BY <1>1, <1>2, <1>3, <2>1, <2>2, <2>6, <2>7 DEF KnowsWhatIsKept
<1>6. CASE BuildMapInsert
  <2> DEFINE o == gcOldObjects[detectIdx]
  <2>1. /\ detectState = "buildMap" /\ detectState' = "buildMap"
        /\ gcMap' = [x \in DOMAIN gcMap \cup {o} |-> IF x = o THEN counted - 1 ELSE gcMap[x]]
        /\ gcFlag' = [gcFlag EXCEPT ![o] = TRUE] /\ counted' = 0 /\ counted > 0
        /\ detectIdx' = detectIdx + 1
    BY <1>6 DEF BuildMapInsert, Detects
  <2>2. detectIdx \in 1..Len(gcOldObjects)
    BY <2>1 DEF FullInv, IInv, Search, ListTypes
  <2>3. o \in Objects /\ o \notin DOMAIN gcMap /\ o \in alive
    BY <2>1, <2>2, InList DEF FullInv, IInv, Search, ListTypes
  <2>4. /\ counted = refCount[o]
        /\ \A t \in DOMAIN gcMap : t \in Objects /\ gcFlag[t]
        /\ \A t \in DOMAIN gcMap : gcMap[t] = held[t] + To(alive, props, t)
        /\ \A i \in 1..Len(gcOldObjects) :
             i < detectIdx => gcOldObjects[i] \in DOMAIN gcMap \cup Kept
    BY <2>1 DEF FullInv, KnowsWhatIsKept, IInv, Search
  <2> HIDE DEF o
  <2>5. refCount[o] - 1 = held[o] + To(alive, props, o)
    <3>1. Once(o) = 1 /\ InMap(o) = 0
      BY <2>3 DEF Once, InMap
    <3> QED
      BY <2>3, <3>1, CountsOf DEF FullInv, IInv
  <2>6. DOMAIN gcMap' = DOMAIN gcMap \cup {o}
    BY <2>1
  <2>7. \A t \in DOMAIN gcMap' : gcFlag'[t]
    BY <2>1, <2>3, <2>4, <2>6 DEF FullInv, IInv, Counts
  <2>8. \A t \in DOMAIN gcMap' : gcMap'[t] = held'[t] + To(alive', props', t)
    BY <1>1, <2>1, <2>4, <2>5, <2>6
  <2>9. ASSUME NEW i \in 1..Len(gcOldObjects), i < detectIdx + 1
        PROVE  gcOldObjects[i] \in DOMAIN gcMap' \cup Kept
    <3>1. i < detectIdx \/ i = detectIdx
      BY <2>2, <2>9
    <3> QED
      BY <2>4, <2>6, <3>1 DEF o
  <2>10. \A i \in 1..Len(gcOldObjects') :
           i < detectIdx' => gcOldObjects'[i] \in DOMAIN gcMap' \cup Kept'
    BY <1>1, <1>3, <2>1, <2>9
  <2>11. detectState' = "buildMap" /\ ~(counted' > 0)
    BY <2>1
  <2> QED
    BY <1>1, <1>2, <2>7, <2>8, <2>10, <2>11 DEF KnowsWhatIsKept
<1>7. CASE BuildMapDone
  <2>1. /\ detectState = "buildMap" /\ detectState' = "countReferences"
        /\ gcMap' = gcMap /\ gcFlag' = gcFlag /\ gcMapCursor' = After(Null)
        /\ detectIdx > Len(gcOldObjects)
    BY <1>7 DEF BuildMapDone, Detects, Restart, objectVars
  <2>2. /\ \A t \in DOMAIN gcMap : gcFlag[t]
        /\ \A t \in DOMAIN gcMap : gcMap[t] = held[t] + To(alive, props, t)
        /\ \A i \in 1..Len(gcOldObjects) : gcOldObjects[i] \in DOMAIN gcMap \cup Kept
    <3>1. detectIdx \in Nat /\ Len(gcOldObjects) \in Nat
      BY DEF FullInv, IInv, Search, ListTypes
    <3>2. \A i \in 1..Len(gcOldObjects) : i < detectIdx
      BY <2>1, <3>1
    <3> QED
      BY <2>1, <3>2 DEF FullInv, KnowsWhatIsKept
  <2>3. alive \ DOMAIN gcMap \subseteq Kept
    <3>1. gcNewObjects = <<>> /\ adding = Null
      BY DEF FullInv, FullCycleRuns, Searching
    <3> QED
      BY <2>2, <3>1, AllAreOld DEF FullInv
  <2>4. Passed' = {}
    BY <2>1, LoopStarts DEF FullInv
  <2>5. ASSUME NEW t \in DOMAIN gcMap
        PROVE  gcMap[t] = held[t] + Cardinality(Others(Passed, t)')
    <3>1. Others(Passed, t)' = From(t)
      BY <1>3, <2>4 DEF Others
    <3> QED
      BY <2>2, <3>1 DEF To, From
  <2> QED
    BY <1>1, <1>2, <1>3, <2>1, <2>2, <2>3, <2>5 DEF KnowsWhatIsKept
<1> QED
  BY <1>4, <1>5, <1>6, <1>7

LEMMA KnownOfCount ==
  ASSUME FullInv, Searching, CountReferences \/ CountReferencesDone
  PROVE  KnowsWhatIsKept'
<1>1. /\ detectState = "countReferences" /\ UNCHANGED objectVars
      /\ liveObjects = {} /\ liveObjects' = {}
  BY DEF CountReferences, CountReferencesDone, Detects, Restart, FullInv, IInv, Search
<1>2. Searching' /\ ~Destroying'
  BY SearchGoesOn DEF SearchArms
<1>3. Kept' = Kept /\ (\A t : From(t)' = From(t)) /\ held' = held /\ gcFlag' = gcFlag
      /\ alive' = alive
  BY <1>1, KeptSame DEF objectVars
<1>4. /\ \A t \in DOMAIN gcMap : t \in Objects /\ held[t] \in Nat /\ gcFlag[t]
      /\ \A t \in DOMAIN gcMap : gcMap[t] = held[t] + Cardinality(Others(Passed, t))
      /\ alive \ DOMAIN gcMap \subseteq Kept
  BY <1>1 DEF FullInv, KnowsWhatIsKept, IInv, Search, Counts
<1>5. CASE CountReferences
  <2> DEFINE c == gcMapCursor
  <2>1. c # Null
    BY <1>5 DEF CountReferences
  <2>2. c \in DOMAIN gcMap /\ c \in alive
    BY <1>1, <2>1, MapIsAlive DEF FullInv, IInv, Search
  <2>3. /\ detectState' = "countReferences" /\ c' = After(c)
        /\ gcMap' = [x \in DOMAIN gcMap |-> gcMap[x] - Handles(c)[x]]
    BY <1>1, <1>4, <1>5, <2>2 DEF CountReferences
  <2>4. Passed' = Passed \cup {c} /\ c \notin Passed
    BY <2>1, <2>2, <2>3, LoopGoesOn DEF FullInv
  <2>5. ASSUME NEW t \in DOMAIN gcMap'
        PROVE  gcMap'[t] = held'[t] + Cardinality(Others(Passed, t)')
    <3>1. t \in DOMAIN gcMap /\ t \in Objects
      BY <1>4, <2>3, <2>5
    <3>2. Others(Passed, t)' = Others(Passed \cup {c}, t)
      BY <1>3, <2>4 DEF Others
    <3>3. /\ Cardinality(Others(Passed, t)) \in Nat
          /\ Cardinality(Others(Passed \cup {c}, t))
               = Cardinality(Others(Passed, t)) - Cardinality(Own(props[c], t))
      BY <2>2, <2>4, OthersLess DEF FullInv
    <3>4. gcMap'[t] = gcMap[t] - Cardinality(Own(props[c], t))
      BY <2>3, <3>1 DEF Handles, Own
    <3>5. Cardinality(Own(props[c], t)) \in Nat
      BY OwnType
    <3> QED
      BY <1>3, <1>4, <3>1, <3>2, <3>3, <3>4, <3>5
  <2>6. DOMAIN gcMap' = DOMAIN gcMap
    BY <2>3
  <2>7. detectState' = "countReferences"
    BY <2>3
  <2> QED
    BY <1>1, <1>2, <1>3, <1>4, <2>5, <2>6, <2>7 DEF KnowsWhatIsKept
<1>6. CASE CountReferencesDone
  <2>1. /\ detectState' = "findLive" /\ gcMap' = gcMap /\ gcMapCursor = Null
    BY <1>6 DEF CountReferencesDone, Restart
  <2>2. ASSUME NEW t \in DOMAIN gcMap, gcMap[t] > 0
        PROVE  t \in Kept
    <3>1. t \in alive /\ t # Null
      BY MapIsAlive, ObjectsFinite DEF FullInv, IInv, Search
    <3>2. CASE held[t] > 0
      BY <3>1, <3>2, KeptIsCovered
    <3>3. CASE ~(held[t] > 0)
      <4>1. Cardinality(Others(DOMAIN gcMap, t)) # 0
        BY <1>4, <2>1, <2>2, <3>3, LoopEnds
      <4>2. Others(DOMAIN gcMap, t) # {}
        BY <4>1, FS_EmptySet
      <4>3. PICK h \in From(t) : h[1] \notin DOMAIN gcMap
        BY <4>2 DEF Others
      <4>4. h[1] \in alive /\ h[2] \in Props /\ props[h[1]][h[2]] = t
        BY DEF From, HandlesTo
      <4>5. h[1] \in Kept
        BY <1>4, <4>3, <4>4
      <4>6. t \in Targets(h[1])
        BY <3>1, <4>4 DEF Targets
      <4> QED
        BY <3>1, <4>5, <4>6, KeptIsCovered
    <3> QED
      BY <3>2, <3>3
  <2> QED
    BY <1>1, <1>2, <1>3, <1>4, <2>1, <2>2 DEF KnowsWhatIsKept
<1> QED
  BY <1>5, <1>6

LEMMA KnownOfLive ==
  ASSUME FullInv, Searching, FindLive \/ FindLiveDone \/ RemoveLive \/ RemoveLiveDone
  PROVE  KnowsWhatIsKept'
<1>1. UNCHANGED <<alive, props, held>>
  BY DEF FindLive, FindLiveDone, RemoveLive, RemoveLiveDone, Detects, Restart, objectVars
<1>2. Searching' /\ ~Destroying'
  BY SearchGoesOn DEF SearchArms
<1>3. Kept' = Kept
  BY <1>1, KeptSame
<1>4. detectState \in {"findLive", "removeLive"}
  BY DEF FindLive, FindLiveDone, RemoveLive, RemoveLiveDone, Detects
<1>5. /\ \A t \in DOMAIN gcMap : t \in Objects /\ gcFlag[t]
      /\ alive \ DOMAIN gcMap \subseteq Kept
      /\ liveObjects \subseteq Kept
  BY <1>4 DEF FullInv, KnowsWhatIsKept, IInv, Search
<1>6. CASE FindLive
  <2>1. /\ detectState = "findLive" /\ detectState' = "findLive"
        /\ gcMapCursor # Null /\ gcMap' = gcMap /\ gcFlag' = gcFlag
        /\ liveObjects' = IF ~gcFlag[gcMapCursor] \/ gcMap[gcMapCursor] > 0
                            THEN liveObjects \cup {gcMapCursor} ELSE liveObjects
    BY <1>6 DEF FindLive, Detects, objectVars
  <2>2. gcMapCursor \in DOMAIN gcMap
    BY <2>1 DEF FullInv, IInv, Search
  <2>3. \A t \in DOMAIN gcMap : gcMap[t] > 0 => t \in Kept
    BY <2>1 DEF FullInv, KnowsWhatIsKept
  <2>4. liveObjects' \subseteq Kept
    BY <1>5, <2>1, <2>2, <2>3
  <2> QED
    BY <1>1, <1>2, <1>3, <1>5, <2>1, <2>3, <2>4 DEF KnowsWhatIsKept
<1>7. CASE FindLiveDone
  <2>1. /\ detectState' = "removeLive" /\ gcMap' = gcMap /\ gcFlag' = gcFlag
        /\ liveObjects' = liveObjects
    BY <1>7 DEF FindLiveDone, Detects, objectVars
  <2> QED
    BY <1>1, <1>2, <1>3, <1>5, <2>1 DEF KnowsWhatIsKept
<1>8. CASE RemoveLive
  <2>1. detectState' = "removeLive"
    BY <1>8 DEF RemoveLive, Detects
  <2>2. PICK o \in liveObjects :
          /\ gcMap' = Without(o) /\ Touch({o})
          /\ liveObjects' = (liveObjects \ {o}) \cup (Targets(o) \cap DOMAIN gcMap')
    BY <1>8 DEF RemoveLive, FullInv, IInv, Search
  <2>3. /\ DOMAIN gcMap' = DOMAIN gcMap \ {o}
        /\ \A t \in DOMAIN gcMap' : gcFlag'[t]
    BY <1>5, <2>2 DEF Without, Touch
  <2>4. alive' \ DOMAIN gcMap' \subseteq Kept'
    BY <1>1, <1>3, <1>5, <2>2, <2>3
  <2>5. liveObjects' \subseteq Kept'
    <3>1. DOMAIN gcMap' \subseteq alive
      BY <2>3, MapIsAlive DEF FullInv, IInv
    <3>2. o \in Kept
      BY <1>5, <2>2
    <3>3. Targets(o) \cap DOMAIN gcMap' \subseteq Kept
      BY <3>1, <3>2, KeptIsCovered
    <3> QED
      BY <1>3, <1>5, <2>2, <3>3
  <2> QED
    BY <1>2, <2>1, <2>3, <2>4, <2>5 DEF KnowsWhatIsKept
<1>9. CASE RemoveLiveDone
  <2>1. /\ detectState' = "verifyUnmarked" /\ gcMap' = gcMap /\ gcFlag' = gcFlag
        /\ liveObjects' = {}
    BY <1>9 DEF RemoveLiveDone, Detects, Restart, objectVars
  <2> QED
    BY <1>1, <1>2, <1>3, <1>5, <2>1 DEF KnowsWhatIsKept
<1> QED
  BY <1>6, <1>7, <1>8, <1>9

LEMMA KnownOfBreak ==
  ASSUME FullInv, Searching, VerifyUnmarked \/ VerifyUnmarkedDone \/ BreakCircle
  PROVE  KnowsWhatIsKept'
<1>1. Searching' /\ ~Destroying'
  BY SearchGoesOn DEF SearchArms
<1>2. CASE VerifyUnmarked
  <2>1. /\ detectState = "verifyUnmarked" /\ gcMapCursor # Null
        /\ gcMap' = gcMap /\ UNCHANGED <<alive, props, held, gcFlag>>
    BY <1>2 DEF VerifyUnmarked, Detects, objectVars
  <2>2. gcMapCursor \in DOMAIN gcMap
    BY <2>1 DEF FullInv, IInv, Search
  <2>3. /\ \A t \in DOMAIN gcMap : gcFlag[t]
        /\ alive \ DOMAIN gcMap \subseteq Kept
    BY <2>1 DEF FullInv, KnowsWhatIsKept
  <2>4. detectState' = "verifyUnmarked" /\ liveObjects' = liveObjects /\ liveObjects = {}
    BY <1>2, <2>1, <2>2, <2>3 DEF VerifyUnmarked, FullInv, IInv, Search
  <2>5. Kept' = Kept
    BY <2>1, KeptSame
  <2> QED
    BY <1>1, <2>1, <2>3, <2>4, <2>5 DEF KnowsWhatIsKept
<1>3. CASE VerifyUnmarkedDone
  <2>1. /\ detectState = "verifyUnmarked" /\ detectState' = "breakCircles"
        /\ gcMap' = gcMap /\ UNCHANGED <<alive, props, held>>
        /\ gcMapCursor' = After(Null) /\ liveObjects' = {}
    BY <1>3 DEF VerifyUnmarkedDone, Detects, Restart, objectVars
  <2>2. alive \ DOMAIN gcMap \subseteq Kept
    BY <2>1 DEF FullInv, KnowsWhatIsKept
  <2>3. Kept' = Kept /\ After(Null)' = After(Null)
    BY <2>1, KeptSame DEF After, Null
  <2> QED
    BY <1>1, <2>1, <2>2, <2>3 DEF KnowsWhatIsKept
<1>4. CASE BreakCircle
  <2>1. /\ detectState \in {"breakCircles", "haveGarbage"} /\ detectState' = "haveGarbage"
        /\ liveObjects' = liveObjects
    BY <1>4 DEF BreakCircle
  <2>2. liveObjects = {}
    BY <2>1 DEF FullInv, IInv, Search
  <2> QED
    BY <1>1, <2>1, <2>2 DEF KnowsWhatIsKept
<1> QED
  BY <1>2, <1>3, <1>4

LEMMA SearchEnds ==
  ASSUME FullInv, Searching, BreakCirclesDone
  PROVE  FullCycleRuns' /\ KnowsWhatIsKept' /\ cycle'.on
<1>1. /\ UNCHANGED objectVars /\ UNCHANGED listVars /\ UNCHANGED destroyVars
      /\ gcMap' = gcMap /\ liveObjects' = liveObjects /\ gcMapCursor = Null
      /\ detectState \in {"breakCircles", "haveGarbage"} /\ detectState' = "clearCounters"
  BY DEF BreakCirclesDone
<1>2. liveObjects' = {}
  BY <1>1 DEF FullInv, IInv, Search
<1>3. /\ cycle.on /\ cycle.detect /\ cycle.destroy /\ calls = <<"detect">>
      /\ gcNewObjects' = <<>> /\ adding = Null /\ destroyOldIdx' \in Nat
      /\ cycle.count = Len(gcOldObjects') /\ destroyOldState' = "init"
  BY <1>1 DEF Searching, InFullCycle, FullInv, FullCycleRuns, listVars, destroyVars
<1>4. CASE detectState = "haveGarbage"
  <2>1. UNCHANGED <<calls, adding, cycle>>
    BY <1>3, <1>4 DEF BreakCirclesDone, MoreToDo, Continue
  <2>2. ~Destroying' /\ detectState' = "clearCounters"
    BY <1>1, <1>3, <2>1 DEF Destroying
  <2>3. FullCycleRuns'
    BY <1>3, <2>1, <2>2 DEF FullCycleRuns
  <2>4. KnowsWhatIsKept'
    BY <1>2, <2>2 DEF KnowsWhatIsKept
  <2> QED
    BY <1>3, <2>1, <2>3, <2>4
<1>5. CASE detectState # "haveGarbage"
  <2>1. detectState = "breakCircles"
    BY <1>1, <1>5
  <2>2. calls' = <<"old">> /\ UNCHANGED <<adding, cycle>>
    BY <1>3, <1>5 DEF BreakCirclesDone, NothingToDo, Under
  <2>3. DOMAIN gcMap = {}
    <3>1. DOMAIN gcMap \subseteq Objects
      BY DEF FullInv, IInv, Search
    <3>2. After(Null) = Null
      BY <1>1, <2>1 DEF FullInv, KnowsWhatIsKept
    <3>3. ~ \E o \in DOMAIN gcMap : o > Null
      BY <3>1, <3>2, AfterIsNext
    <3> QED
      BY <3>1, <3>3, CollectorAssumption DEF Objects, Null
  <2>4. alive \subseteq Kept
    BY <2>1, <2>3 DEF FullInv, KnowsWhatIsKept
  <2>5. alive' = alive /\ Kept' = Kept
    BY <1>1, KeptSame DEF objectVars
  <2>6. ~Searching'
    BY <2>2 DEF Searching
  <2>7. Len(gcOldObjects') \in Nat
    BY <1>1 DEF FullInv, IInv, ListTypes, listVars
  <2>8. FullCycleRuns'
    BY <1>1, <1>3, <2>2, <2>3, <2>6, <2>7 DEF FullCycleRuns
  <2>9. KnowsWhatIsKept'
    BY <1>3, <2>4, <2>5, <2>6 DEF KnowsWhatIsKept
  <2> QED
    BY <1>3, <2>2, <2>8, <2>9
<1> QED
  BY <1>4, <1>5

\* What follows a sweep that has found nothing to do: another search, if the cycle has
\* destroyed something, or the end.
LEMMA SweepEnds ==
  ASSUME FullInv, Destroying, NothingToDo, UNCHANGED listVars, UNCHANGED detectVars,
         destroyOldState' = "init", destroyOldIdx' \in Nat
  PROVE  /\ FullCycleRuns' /\ KnowsWhatIsKept'
         /\ ~cycle'.on => alive \subseteq Kept
<1>1. /\ cycle.on /\ cycle.detect /\ cycle.destroy /\ calls = <<"old">> /\ cycle \in CycleType
      /\ gcNewObjects' = <<>> /\ adding = Null
      /\ detectState' = "clearCounters" /\ liveObjects' = {}
  BY DEF Destroying, InFullCycle, FullInv, FullCycleRuns, IInv, Search, CallsInOrder,
     listVars, detectVars
<1>2. Under("old")
  BY <1>1 DEF Under
<1>3. CASE cycle.count # Len(gcOldObjects)
  <2>1. /\ cycle' = [cycle EXCEPT !.count = Len(gcOldObjects)]
        /\ calls' = <<"detect">> /\ adding' = adding
    BY <1>1, <1>2, <1>3 DEF NothingToDo
  <2>2. /\ cycle'.on /\ cycle'.count = Len(gcOldObjects')
    BY <1>1, <2>1 DEF CycleType, listVars
  <2>3. ~Destroying'
    BY <2>1 DEF Destroying
  <2>4. FullCycleRuns'
    BY <1>1, <2>1, <2>2, <2>3 DEF FullCycleRuns
  <2>5. KnowsWhatIsKept'
    BY <1>1, <2>3 DEF KnowsWhatIsKept
  <2> QED
    BY <2>2, <2>4, <2>5
<1>4. CASE cycle.count = Len(gcOldObjects)
  <2>1. cycle' = NoCycle
    BY <1>1, <1>2, <1>4 DEF NothingToDo
  <2>2. ~InFullCycle'
    BY <2>1 DEF InFullCycle, NoCycle
  <2>3. FullCycleRuns' /\ KnowsWhatIsKept'
    BY <2>2 DEF FullCycleRuns, KnowsWhatIsKept, Searching, Destroying
  <2>4. alive \subseteq Kept
    BY <1>4 DEF FullInv, KnowsWhatIsKept
  <2> QED
    BY <2>3, <2>4
<1> QED
  BY <1>3, <1>4

LEMMA KnownOfSweep ==
  ASSUME FullInv, Destroying, StartOld \/ NextOld \/ EndOld
  PROVE  FullCycleRuns' /\ KnowsWhatIsKept'
<1>1. /\ cycle.on /\ calls = <<"old">>
      /\ gcNewObjects = <<>> /\ adding = Null /\ destroyOldIdx \in Nat
      /\ destroyOldState \in {"init", "loop", "haveMore"}
      /\ detectState = "clearCounters" /\ DOMAIN gcMap = {}
      /\ Len(gcOldObjects) <= cycle.count /\ cycle.count \in Nat
      /\ gcOldObjects \in Seq(Objects) /\ Len(gcOldObjects) \in Nat
      /\ cycle.count = Len(gcOldObjects) => alive \subseteq Kept
      /\ destroyOldState = "loop" =>
            \A i \in 1..Len(gcOldObjects) : i <= destroyOldIdx => refCount[gcOldObjects[i]] # 1
  BY DEF Destroying, InFullCycle, FullInv, FullCycleRuns, KnowsWhatIsKept, IInv, ListTypes,
     CallsInOrder, CycleType
<1>2. UNCHANGED detectVars /\ gcNewObjects' = gcNewObjects
  BY DEF StartOld, NextOld, EndOld, listVars
<1>3. ASSUME UNCHANGED <<calls, adding, cycle>>, Len(gcOldObjects') <= cycle.count,
             destroyOldIdx' \in Nat, destroyOldState' \in {"init", "loop", "haveMore"},
             cycle.count = Len(gcOldObjects') => alive' \subseteq Kept',
             destroyOldState' = "loop" =>
               \A i \in 1..Len(gcOldObjects') :
                 i <= destroyOldIdx' => refCount'[gcOldObjects'[i]] # 1
      PROVE  FullCycleRuns' /\ KnowsWhatIsKept'
  <2>1. ~Searching'
    BY <1>1, <1>3 DEF Searching
  <2>2. FullCycleRuns'
    BY <1>1, <1>2, <1>3, <2>1 DEF FullCycleRuns, detectVars
  <2>3. KnowsWhatIsKept'
    BY <1>3, <2>1 DEF KnowsWhatIsKept
  <2> QED
    BY <2>2, <2>3
<1>4. ASSUME UNCHANGED objectVars
      PROVE  Kept' = Kept /\ alive' = alive /\ refCount' = refCount
  BY <1>4, KeptSame DEF objectVars
<1>5. CASE StartOld
  <2>1. CASE gcOldObjects = <<>>
    <3>1. NothingToDo /\ UNCHANGED <<destroyOldIdx, destroyOldState>>
      BY <1>5, <2>1 DEF StartOld
    <3>2. destroyOldState = "init" /\ UNCHANGED listVars
      BY <1>5 DEF StartOld
    <3> QED
      BY <1>1, <1>2, <3>1, <3>2, SweepEnds
  <2>2. CASE gcOldObjects # <<>>
    <3>1. /\ destroyOldIdx' = 0 /\ destroyOldState' = "loop"
          /\ UNCHANGED <<calls, adding, cycle>> /\ UNCHANGED objectVars
          /\ gcOldObjects' = gcOldObjects
      BY <1>5, <2>2 DEF StartOld, Continue, listVars
    <3>2. \A i \in 1..Len(gcOldObjects) : ~(i <= 0)
      OBVIOUS
    <3> QED
      BY <1>1, <1>3, <1>4, <3>1, <3>2
  <2> QED
    BY <2>1, <2>2
<1>6. CASE NextOld
  <2>1. PICK i \in 1..Len(gcOldObjects) :
          LET o == gcOldObjects[i]
          IN  /\ i = destroyOldIdx + 1
              /\ \/ /\ Resurrected(o)
                    /\ destroyOldIdx' = i
                    /\ destroyOldState' = "haveMore"
                    /\ UNCHANGED gcOldObjects
                 \/ /\ destroyOldIdx' = i - 1
                    /\ destroyOldState' = "haveMore"
                    /\ gcOldObjects' = WithoutAt(gcOldObjects, i)
                 \/ /\ refCount[o] # 1
                    /\ destroyOldIdx' = i
                    /\ UNCHANGED <<objectVars, gcOldObjects, destroyOldState>>
              /\ MoreToDo
    BY <1>6 DEF NextOld
  <2> DEFINE o == gcOldObjects[i]
  <2>2. UNCHANGED <<calls, adding, cycle>>
    BY <1>1, <2>1 DEF MoreToDo, Continue
  <2>3. i \in Nat /\ i - 1 \in Nat
    OBVIOUS
  <2>4. CASE Resurrected(o) /\ destroyOldState' = "haveMore" /\ UNCHANGED gcOldObjects
             /\ destroyOldIdx' = i
    <3>1. UNCHANGED <<alive, props>> /\ held' = [held EXCEPT ![o] = @ + 1]
      BY <2>4 DEF Resurrected
    <3>2. \A x \in alive : held[x] > 0 => held'[x] > 0
      BY <3>1 DEF FullInv, IInv, Counts
    <3>3. Kept \subseteq Kept'
      BY <3>1, <3>2, KeptMore
    <3> QED
      BY <1>1, <1>3, <2>2, <2>3, <2>4, <3>1, <3>3
  <2>5. CASE destroyOldState' = "haveMore" /\ gcOldObjects' = WithoutAt(gcOldObjects, i)
             /\ destroyOldIdx' = i - 1
    <3>1. Len(gcOldObjects') = Len(gcOldObjects) - 1
      BY <1>1, <2>5, CountWithout
    <3>2. Len(gcOldObjects') <= cycle.count /\ cycle.count # Len(gcOldObjects')
      BY <1>1, <3>1
    <3> QED
      BY <1>3, <2>2, <2>3, <2>5, <3>2
  <2>6. CASE refCount[o] # 1 /\ destroyOldIdx' = i
             /\ UNCHANGED <<objectVars, gcOldObjects, destroyOldState>>
    <3>1. ASSUME destroyOldState = "loop", NEW j \in 1..Len(gcOldObjects), j <= i
          PROVE  refCount[gcOldObjects[j]] # 1
      BY <1>1, <2>1, <2>6, <3>1
    <3> QED
      BY <1>1, <1>3, <1>4, <2>2, <2>3, <2>6, <3>1
  <2> QED
    BY <2>1, <2>4, <2>5, <2>6
<1>7. CASE EndOld
  <2>1. /\ destroyOldState' = "init" /\ destroyOldIdx' = 0
        /\ UNCHANGED objectVars /\ UNCHANGED listVars
        /\ Continue \/ NothingToDo
    BY <1>7 DEF EndOld
  <2>2. CASE Continue
    BY <1>1, <1>3, <1>4, <2>1, <2>2 DEF Continue, listVars
  <2>3. CASE NothingToDo
    BY <1>2, <2>1, <2>3, SweepEnds
  <2> QED
    BY <2>1, <2>2, <2>3
<1> QED
  BY <1>5, <1>6, <1>7

LEMMA CycleStarts ==
  ASSUME FullInv, ~InFullCycle, Next
  PROVE  FullCycleRuns' /\ KnowsWhatIsKept'
<1>1. ASSUME ~InFullCycle'
      PROVE  FullCycleRuns' /\ KnowsWhatIsKept'
  BY <1>1 DEF FullCycleRuns, KnowsWhatIsKept, Searching, Destroying
<1>2. cycle \in CycleType
  BY DEF FullInv, IInv, CallsInOrder
<1>3. CASE \/ Application \/ Add
           \/ \E parts \in Parts : Collect(parts.detect, parts.destroy)
  <2>1. cycle' = cycle
    BY <1>3 DEF Application, Create, Take, Drop, Assign, Works, Add, Collect
  <2> QED
    BY <1>1, <2>1 DEF InFullCycle
<1>4. CASE Arms
  <2>1. Continue \/ MoreToDo \/ NothingToDo \/ NextCall
    BY <1>4, ArmsGoOn
  <2>2. \/ cycle' = cycle
        \/ cycle' = [cycle EXCEPT !.count = Len(gcOldObjects)]
        \/ cycle' = NoCycle
    BY <2>1 DEF Continue, MoreToDo, NothingToDo, NextCall
  <2>3. ~InFullCycle'
    BY <1>2, <2>2 DEF InFullCycle, CycleType, NoCycle
  <2> QED
    BY <1>1, <2>3
<1>5. CASE FullCycle
  <2>1. PICK detect \in BOOLEAN, destroy \in BOOLEAN :
          /\ detect => /\ gcNewObjects' = <<>>
                       /\ detectState' = "clearCounters" /\ liveObjects' = {}
          /\ destroy => destroyOldState' = "init" /\ destroyOldIdx' = 0
          /\ cycle' = [on |-> TRUE, detect |-> detect, destroy |-> destroy,
                       count |-> Len(gcOldObjects')]
          /\ calls' = IF detect THEN <<"detect">> ELSE <<"new">>
    BY <1>5 DEF FullCycle
  <2>2. calls = <<>> /\ adding' = adding
    BY <1>5 DEF FullCycle
  <2>3. adding' = Null
    BY <2>2 DEF FullInv, IInv, CallsInOrder
  <2>4. CASE detect /\ destroy
    <3>1. calls' = <<"detect">> /\ cycle'.count = Len(gcOldObjects')
      BY <2>1, <2>4
    <3>2. ~Destroying'
      BY <3>1 DEF Destroying
    <3>3. FullCycleRuns'
      BY <2>1, <2>3, <2>4, <3>1, <3>2 DEF FullCycleRuns
    <3>4. KnowsWhatIsKept'
      BY <2>1, <2>4, <3>2 DEF KnowsWhatIsKept
    <3> QED
      BY <3>3, <3>4
  <2>5. CASE ~(detect /\ destroy)
    <3>1. ~InFullCycle'
      BY <2>1, <2>5 DEF InFullCycle
    <3> QED
      BY <1>1, <3>1
  <2> QED
    BY <2>4, <2>5
<1> QED
  BY <1>3, <1>4, <1>5 DEF Next, Collector, Arms

LEMMA FullInvKept ==
  ASSUME FullInv, [Next]_vars, Threads = FALSE
  PROVE  FullInv'
<1>1. IInv'
  BY InvariantKept DEF FullInv
<1> SUFFICES FullCycleRuns' /\ KnowsWhatIsKept'
  BY <1>1 DEF FullInv
<1>2. CASE Next /\ InFullCycle
  <2>1. CASE Searching /\ SearchArms
    BY <2>1, SearchGoesOn, KnownOfMap, KnownOfCount, KnownOfLive, KnownOfBreak DEF SearchArms
  <2> QED
    BY <1>2, <2>1, InTheCycle, SearchEnds, KnownOfSweep
<1>3. CASE Next /\ ~InFullCycle
  BY <1>3, CycleStarts
<1>4. CASE UNCHANGED vars
  <2>1. /\ UNCHANGED <<alive, props, held, refCount, gcFlag, gcNewObjects, gcOldObjects,
                       destroyOldState, destroyOldIdx, detectState, detectIdx, gcMap,
                       gcMapCursor, liveObjects, counted, calls, adding, cycle>>
    BY <1>4 DEF vars, objectVars, listVars, destroyVars, detectVars
  <2>2. /\ InFullCycle' = InFullCycle /\ Searching' = Searching /\ Destroying' = Destroying
        /\ Kept' = Kept /\ Passed' = Passed /\ After(Null)' = After(Null)
        /\ \A t : Others(Passed, t)' = Others(Passed, t)
        /\ \A t : To(alive', props', t) = To(alive, props, t)
    BY <2>1, KeptSame DEF InFullCycle, Searching, Destroying, Passed, After, Others, Null
  <2>3. FullCycleRuns'
    BY <2>1, <2>2 DEF FullInv, FullCycleRuns
  <2>4. KnowsWhatIsKept'
    BY <2>1, <2>2 DEF FullInv, KnowsWhatIsKept
  <2> QED
    BY <2>3, <2>4
<1> QED
  BY <1>2, <1>3, <1>4

\* The end of the cycle: what had to be kept is what the application can reach.
LEMMA NothingIsLeft ==
  ASSUME FullInv, Next, Threads = FALSE, InFullCycle, ~cycle'.on
  PROVE  alive' \subseteq Reachable'
<1>1. Destroying /\ (StartOld \/ NextOld \/ EndOld)
  <2>1. ~(Searching /\ SearchArms)
    BY SearchGoesOn DEF Searching, InFullCycle
  <2> QED
    BY <2>1, InTheCycle, SearchEnds
<1>2. /\ cycle.on /\ gcNewObjects = <<>> /\ adding = Null /\ DOMAIN gcMap = {}
      /\ destroyOldIdx \in Nat
      /\ destroyOldState = "loop" =>
            \A i \in 1..Len(gcOldObjects) : i <= destroyOldIdx => refCount[gcOldObjects[i]] # 1
      /\ destroyOldState \in {"init", "loop", "haveMore"}
  BY <1>1 DEF FullInv, FullCycleRuns, KnowsWhatIsKept, Destroying, InFullCycle
<1>3. ~Continue /\ ~MoreToDo
  BY <1>2 DEF Continue, MoreToDo
<1>4. CASE StartOld
  <2>1. gcOldObjects = <<>> /\ UNCHANGED objectVars
    BY <1>3, <1>4 DEF StartOld
  <2>2. alive' = {}
    <3>1. ASSUME NEW o \in alive
          PROVE  FALSE
      <4>1. PICK i \in 1..Len(gcOldObjects) : gcOldObjects[i] = o
        BY <1>2, AllAreOld DEF FullInv
      <4> QED
        BY <2>1, <4>1
    <3> QED
      BY <2>1, <3>1 DEF objectVars
  <2> QED
    BY <2>2
<1>5. CASE NextOld
  BY <1>3, <1>5 DEF NextOld
<1>6. CASE EndOld
  <2>1. /\ destroyOldState = "loop" /\ destroyOldIdx >= Len(gcOldObjects) /\ NothingToDo
        /\ destroyOldState' = "init" /\ destroyOldIdx' = 0
        /\ UNCHANGED objectVars /\ UNCHANGED listVars /\ UNCHANGED detectVars
    BY <1>2, <1>3, <1>6 DEF EndOld
  <2>2. alive \subseteq Kept
    BY <1>1, <2>1, SweepEnds
  <2>3. ASSUME NEW o \in alive, From(o) = {}
        PROVE  held[o] > 0
    <3>1. PICK i \in 1..Len(gcOldObjects) : gcOldObjects[i] = o
      BY <1>2, AllAreOld DEF FullInv
    <3>2. i <= destroyOldIdx
      <4>1. Len(gcOldObjects) \in Nat
        BY DEF FullInv, IInv, ListTypes
      <4> QED
        BY <1>2, <2>1, <4>1
    <3>3. refCount[o] # 1
      BY <1>2, <2>1, <3>1, <3>2
    <3>4. held[o] # 0 /\ held[o] \in Nat
      BY <1>2, <2>3, <3>3, OnlyListed DEF FullInv
    <3> QED
      BY <3>4
  <2>4. ASSUME NEW S \in SUBSET alive, Closed(S)
        PROVE  Covers(S)
    BY <2>3, <2>4 DEF Covers, Closed
  <2>5. alive \subseteq Reachable
    BY <2>2, <2>4 DEF Kept, Reachable
  <2>6. alive' = alive /\ Reachable' = Reachable
    BY <2>1 DEF objectVars, Reachable, Closed, Targets
  <2> QED
    BY <2>5, <2>6
<1> QED
  BY <1>1, <1>4, <1>5, <1>6

-----------------------------------------------------------------------------
\* The theorems.

\* The variables have the values they are meant to have, the cursor of the loops over
\* the map and the calls under way included, in any order of what the application does
\* and the calls of the collector.
THEOREM TypesKept == Spec => []TypeOK
<1>1. IInv /\ [Next]_vars => IInv'
  BY InvariantKept
<1>2. Init => IInv
  BY InvariantStart
<1>3. IInv => TypeOK
  BY InvariantGivesTypes
<1> QED
  BY <1>1, <1>2, <1>3, PTL DEF Spec

\* The reference count of an object is what refers to it, at every step of the
\* collector and of the threads that run beside it: what is freed was referred to
\* by nothing, and no reference is to an object that is gone.
THEOREM CountsStayExact == Spec => []CountsExact
<1>1. IInv /\ [Next]_vars => IInv'
  BY InvariantKept
<1>2. Init => IInv
  BY InvariantStart
<1>3. IInv => CountsExact
  BY InvariantGivesCounts
<1> QED
  BY <1>1, <1>2, <1>3, PTL DEF Spec

\* What the collector breaks up as garbage cannot be reached by the application, if
\* nothing changes a count between the reading and the setting of the flag, and no
\* destructor it calls then takes a handle to its object.
THEOREM NothingReachableBroken ==
  Spec /\ [][Undisturbed]_vars => []OnlyGarbageBroken
<1>1. Init => IInv /\ Garbage
  BY InvariantStart DEF Init, Garbage
<1>2. IInv /\ Garbage /\ [Next]_vars /\ [Undisturbed]_vars => (IInv /\ Garbage)'
  <2>1. CASE IInv /\ Garbage /\ Next /\ Undisturbed
    BY <2>1, InvariantKept, GarbageKept
  <2>2. CASE IInv /\ Garbage /\ UNCHANGED vars
    <3>1. IInv'
      BY <2>2, InvariantKept
    <3>2. UNCHANGED detectVars /\ UNCHANGED objectVars /\ gcOldObjects' = gcOldObjects
      BY <2>2 DEF vars, listVars
    <3>3. \A t \in DOMAIN gcMap : SameRefs(t)
      BY <3>2 DEF SameRefs, From, objectVars
    <3>4. counted > 0 => counted = refCount'[gcOldObjects'[detectIdx]]
      BY <2>2, <3>2 DEF Garbage, objectVars
    <3> QED
      BY <2>2, <3>1, <3>2, <3>3, <3>4, GarbageBeside
  <2> QED
    BY <2>1, <2>2
<1>3. IInv /\ Garbage => OnlyGarbageBroken
  BY InsideIsGarbage DEF Garbage, OnlyGarbageBroken
<1> QED
  BY <1>1, <1>2, <1>3, PTL DEF Spec

\* An application without threads changes nothing during a call.
THEOREM OneThreadBreaksGarbage ==
  ASSUME Threads = FALSE, MayResurrect = FALSE
  PROVE  Spec => []OnlyGarbageBroken
<1>1. IInv /\ [Next]_vars => [Undisturbed]_vars
  <2>1. ASSUME IInv, Next
        PROVE  Undisturbed
    <3>1. ASSUME BreakCircle
          PROVE  held' = held
      <4>1. PICK taken \in {0, 1} : /\ taken = 1 => MayResurrect
                                    /\ held' = [held EXCEPT ![gcMapCursor] = @ + taken]
        BY <3>1 DEF BreakCircle
      <4>2. taken = 0
        BY <4>1
      <4>3. held \in [Objects -> Nat]
        BY <2>1 DEF IInv, Counts
      <4> QED
        BY <4>1, <4>2, <4>3
    <3>2. ASSUME Application
          PROVE  counted = 0
      <4>1. calls = <<>>
        BY <3>2 DEF Application, Create, Take, Drop, Assign, Works
      <4> QED
        BY <2>1, <4>1, NothingRead DEF IInv, Under
    <3>3. counted \in Nat
      BY <2>1 DEF IInv, Search
    <3> QED
      BY <3>1, <3>2, <3>3 DEF Undisturbed
  <2> QED
    BY <2>1
<1>2. IInv /\ [Next]_vars => IInv'
  BY InvariantKept
<1>3. Init => IInv
  BY InvariantStart
<1> QED
  BY <1>1, <1>2, <1>3, NothingReachableBroken, PTL DEF Spec

\* With one thread a full cycle that detects and destroys leaves nothing that was
\* garbage, also if destructors take handles to their objects and an incremental
\* search was under way when it began.
THEOREM FullCycleIsThorough ==
  ASSUME Threads = FALSE
  PROVE  Spec => FullCycleLeavesNoGarbage
<1>1. Init => FullInv
  <2>1. Init => ~InFullCycle
    BY DEF Init, InFullCycle, NoCycle
  <2> QED
    BY <2>1, InvariantStart
       DEF FullInv, FullCycleRuns, KnowsWhatIsKept, Searching, Destroying
<1>2. FullInv /\ [Next]_vars => FullInv'
  BY FullInvKept
<1>3. FullInv /\ [Next]_vars =>
        [cycle.on /\ ~cycle'.on /\ cycle.detect /\ cycle.destroy
           => alive' \subseteq Reachable']_vars
  BY NothingIsLeft DEF InFullCycle
<1> QED
  BY <1>1, <1>2, <1>3, PTL DEF Spec, FullCycleLeavesNoGarbage
=============================================================================
