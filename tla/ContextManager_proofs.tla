------------------------ MODULE ContextManager_proofs ------------------------
(***************************************************************************)
(* No context is lost and none is in two places, and no thread is passed   *)
(* over, for any number of contexts, as long as scripts and the            *)
(* application are careful.                                                *)
(***************************************************************************)
EXTENDS ContextManager, SequenceTheorems, TLAPS

-----------------------------------------------------------------------------
\* Sequences

LEMMA ElementRemoved ==
  ASSUME NEW S, NEW s \in Seq(S), NEW i \in 1..Len(s)
  PROVE  /\ RemoveAt(s, i) \in Seq(S)
         /\ Len(RemoveAt(s, i)) = Len(s) - 1
         /\ \A j \in 1..(Len(s) - 1) : RemoveAt(s, i)[j] = IF j < i THEN s[j] ELSE s[j + 1]
<1> DEFINE a == SubSeq(s, 1, i - 1)
           b == SubSeq(s, i + 1, Len(s))
<1>1. Len(s) \in Nat /\ i \in Nat /\ 1 <= i /\ i <= Len(s)
  OBVIOUS
<1>2. /\ a \in Seq(S)
      /\ Len(a) = i - 1
      /\ \A j \in 1..(i - 1) : a[j] = s[j]
  <2> DEFINE n == i - 1
  <2>1. n \in Nat /\ \A j \in 1..n : s[j] \in S
    BY <1>1
  <2> HIDE DEF n
  <2>2. /\ SubSeq(s, 1, n) \in Seq(S)
        /\ Len(SubSeq(s, 1, n)) = IF 1 <= n THEN n - 1 + 1 ELSE 0
        /\ \A j \in 1..(n - 1 + 1) : SubSeq(s, 1, n)[j] = s[1 + j - 1]
    BY <2>1, SubSeqProperties
  <2>3. Len(SubSeq(s, 1, n)) = n /\ \A j \in 1..n : SubSeq(s, 1, n)[j] = s[j]
    BY <2>1, <2>2
  <2> QED
    BY <2>2, <2>3 DEF n
<1>3. /\ b \in Seq(S)
      /\ Len(b) = Len(s) - i
      /\ \A j \in 1..(Len(s) - i) : b[j] = s[j + i]
  <2> DEFINE m == i + 1
             n == Len(s)
  <2>1. m \in Nat /\ n \in Nat /\ m <= n + 1 /\ \A j \in m..n : s[j] \in S
    BY <1>1
  <2>2. n - m + 1 = n - i
    BY <1>1
  <2>3. \A j \in 1..(n - i) : m + j - 1 = j + i
    BY <1>1
  <2> HIDE DEF m, n
  <2>4. /\ SubSeq(s, m, n) \in Seq(S)
        /\ Len(SubSeq(s, m, n)) = IF m <= n THEN n - m + 1 ELSE 0
        /\ \A j \in 1..(n - m + 1) : SubSeq(s, m, n)[j] = s[m + j - 1]
    BY <2>1, SubSeqProperties
  <2>5. Len(SubSeq(s, m, n)) = n - m + 1
    BY <2>1, <2>4
  <2>6. \A j \in 1..(n - i) : SubSeq(s, m, n)[j] = s[j + i]
    BY <2>2, <2>3, <2>4
  <2> QED
    BY <2>2, <2>4, <2>5, <2>6 DEF m, n
<1>4. RemoveAt(s, i) = a \o b
  BY DEF RemoveAt
<1> HIDE DEF a, b
<1>5. /\ a \o b \in Seq(S)
      /\ Len(a \o b) = Len(a) + Len(b)
      /\ \A j \in 1..(Len(a) + Len(b)) :
           (a \o b)[j] = IF j <= Len(a) THEN a[j] ELSE b[j - Len(a)]
  BY <1>2, <1>3, ConcatProperties
<1>6. ASSUME NEW j \in 1..(Len(s) - 1)
      PROVE  (a \o b)[j] = IF j < i THEN s[j] ELSE s[j + 1]
  <2>1. CASE j < i
    <3>1. j \in 1..(i - 1) /\ j <= Len(a) /\ j \in 1..(Len(a) + Len(b))
      BY <1>1, <1>2, <1>3, <2>1
    <3> QED
      BY <1>2, <1>5, <2>1, <3>1
  <2>2. CASE ~(j < i)
    <3>1. /\ ~(j <= Len(a)) /\ j \in 1..(Len(a) + Len(b))
          /\ j - Len(a) \in 1..(Len(s) - i)
          /\ (j - Len(a)) + i = j + 1
      BY <1>1, <1>2, <1>3, <2>2
    <3> QED
      BY <1>3, <1>5, <2>2, <3>1
  <2> QED
    BY <2>1, <2>2
<1> QED
  BY <1>1, <1>2, <1>3, <1>4, <1>5, <1>6

-----------------------------------------------------------------------------
\* The invariant

Thread == [coRoutines : Seq(Contexts), currentCoRoutine : Nat, sleepUntil : Nat,
           keep : Contexts \cup {None}, ran : BOOLEAN]

\* The threads, each at one of its co-routines.
ThreadsOK(ths) ==
  /\ ths \in Seq(Thread)
  /\ \A t \in 1..Len(ths) : ths[t].currentCoRoutine \in 1..Len(ths[t].coRoutines)

Has(ths, ctx) ==
  \E t \in 1..Len(ths) : \E i \in 1..Len(ths[t].coRoutines) : ths[t].coRoutines[i] = ctx

\* No two co-routines are the same context.
Apart(ths) ==
  \A s, t \in 1..Len(ths) :
    \A i \in 1..Len(ths[s].coRoutines), j \in 1..Len(ths[t].coRoutines) :
      ths[s].coRoutines[i] = ths[t].coRoutines[j] => s = t /\ i = j

\* A co-routine that is kept is the one its thread knows it has to keep.
KnowsKept(ths, keeps) ==
  \A t \in 1..Len(ths) :
    /\ ths[t].keep # None => ths[t].keep \in keeps
    /\ \A i \in 1..Len(ths[t].coRoutines) :
         ths[t].coRoutines[i] \in keeps => ths[t].coRoutines[i] = ths[t].keep

\* Every context is somewhere; the free ones are nowhere else.
Places(ths, pool, keeps) ==
  /\ pool \subseteq Contexts /\ keeps \subseteq Contexts
  /\ \A ctx \in Contexts : ctx \in pool \/ ctx \in keeps \/ Has(ths, ctx)
  /\ \A ctx \in pool : ctx \notin keeps /\ ~Has(ths, ctx)

AllPlaced(ths, pool, keeps) ==
  ThreadsOK(ths) /\ Apart(ths) /\ KnowsKept(ths, keeps) /\ Places(ths, pool, keeps)

\* The co-routine that is executed is the current one of the current thread.
Executing ==
  /\ time \in Nat /\ currentThread \in Nat /\ executing \in Nat
  /\ executing # 0 => /\ currentThread \in 1..Len(threads)
                      /\ executing = threads[currentThread].currentCoRoutine

Inv == AllPlaced(threads, free, kept) /\ Executing

-----------------------------------------------------------------------------
\* Threads that change

LEMMA FieldsOfThread ==
  ASSUME NEW ths, ThreadsOK(ths), NEW t \in 1..Len(ths)
  PROVE  /\ ths \in Seq(Thread) /\ Len(ths) \in Nat /\ ths[t] \in Thread
         /\ ths[t].coRoutines \in Seq(Contexts)
         /\ Len(ths[t].coRoutines) \in Nat
         /\ ths[t].currentCoRoutine \in 1..Len(ths[t].coRoutines)
         /\ ths[t].keep \in Contexts \cup {None}
<1>1. ths \in Seq(Thread) /\ ths[t].currentCoRoutine \in 1..Len(ths[t].coRoutines)
  BY DEF ThreadsOK
<1>2. Len(ths) \in Nat /\ ths[t] \in Thread
  BY <1>1
<1>3. ths[t].coRoutines \in Seq(Contexts) /\ ths[t].keep \in Contexts \cup {None}
  BY <1>2 DEF Thread
<1> QED
  BY <1>1, <1>2, <1>3

\* Two co-routines that are one context are in one place.
LEMMA OnePlace ==
  ASSUME NEW ths, Apart(ths), NEW s \in 1..Len(ths), NEW t \in 1..Len(ths),
         NEW i \in 1..Len(ths[s].coRoutines), NEW j \in 1..Len(ths[t].coRoutines),
         ths[s].coRoutines[i] = ths[t].coRoutines[j]
  PROVE  s = t /\ i = j
BY DEF Apart

\* Other fields of the threads may change.
LEMMA SameCoRoutines ==
  ASSUME NEW ths, NEW new, NEW pool, NEW keeps,
         AllPlaced(ths, pool, keeps),
         ThreadsOK(new),
         Len(new) = Len(ths),
         \A t \in 1..Len(ths) : /\ new[t].coRoutines = ths[t].coRoutines
                                /\ new[t].keep = ths[t].keep
  PROVE  AllPlaced(new, pool, keeps)
<1>1. \A ctx : Has(new, ctx) <=> Has(ths, ctx)
  BY DEF Has
<1>2. Apart(new)
  BY SMTT(30) DEF AllPlaced, Apart
<1>3. KnowsKept(new, keeps)
  BY DEF AllPlaced, KnowsKept
<1>4. Places(new, pool, keeps)
  BY <1>1 DEF AllPlaced, Places
<1> QED
  BY <1>2, <1>3, <1>4 DEF AllPlaced

\* One context goes back to the pool unless its thread has to keep it.
LEMMA OneContextLess ==
  ASSUME NEW ths, NEW new, NEW pool, NEW keeps, NEW ctx \in Contexts, NEW keep,
         AllPlaced(ths, pool, keeps),
         ThreadsOK(new), Apart(new), KnowsKept(new, keeps),
         Has(ths, ctx), ~Has(new, ctx),
         ctx \in keeps <=> ctx = keep,
         \A other \in Contexts \ {ctx} : Has(new, other) <=> Has(ths, other)
  PROVE  AllPlaced(new, pool \cup ({ctx} \ {keep}), keeps)
<1>1. Places(new, pool \cup ({ctx} \ {keep}), keeps)
  BY DEF AllPlaced, Places
<1> QED
  BY <1>1 DEF AllPlaced

\* A co-routine of a thread that has others is erased.
LEMMA CoRoutineErased ==
  ASSUME NEW ths, NEW new, NEW pool, NEW keeps,
         AllPlaced(ths, pool, keeps),
         NEW k \in 1..Len(ths), NEW e \in 1..Len(ths[k].coRoutines),
         ThreadsOK(new),
         Len(new) = Len(ths),
         \A t \in 1..Len(ths) : new[t].keep = ths[t].keep,
         \A t \in 1..Len(ths) : t # k => new[t].coRoutines = ths[t].coRoutines,
         new[k].coRoutines = RemoveAt(ths[k].coRoutines, e)
  PROVE  AllPlaced(new, pool \cup ({ths[k].coRoutines[e]} \ {ths[k].keep}), keeps)
<1> DEFINE old == ths[k].coRoutines
           ctx == old[e]
           Was(t, i) == IF t = k /\ i >= e THEN i + 1 ELSE i
<1>1. ThreadsOK(ths) /\ Apart(ths) /\ KnowsKept(ths, keeps) /\ Places(ths, pool, keeps)
  BY DEF AllPlaced
<1>2. \A t \in 1..Len(ths) :
        /\ ths[t].coRoutines \in Seq(Contexts)
        /\ Len(ths[t].coRoutines) \in Nat
  BY <1>1, FieldsOfThread
<1>3. old \in Seq(Contexts) /\ Len(old) \in Nat /\ ctx \in Contexts
  BY <1>2
<1>4. /\ Len(new[k].coRoutines) = Len(old) - 1
      /\ \A i \in 1..(Len(old) - 1) :
           new[k].coRoutines[i] = IF i < e THEN old[i] ELSE old[i + 1]
  BY <1>3, ElementRemoved, ZenonT(30)
<1>5. ASSUME NEW t \in 1..Len(new), NEW i \in 1..Len(new[t].coRoutines)
      PROVE  /\ Was(t, i) \in 1..Len(ths[t].coRoutines)
             /\ new[t].coRoutines[i] = ths[t].coRoutines[Was(t, i)]
             /\ t = k => Was(t, i) # e
  <2>1. CASE t = k
    <3>1. i \in 1..(Len(old) - 1) /\ i \in Nat /\ e \in Nat
      BY <1>3, <1>4, <2>1
    <3>2. CASE i < e
      <4>1. Was(t, i) = i /\ i \in 1..Len(old)
        BY <1>3, <3>1, <3>2
      <4> QED
        BY <1>4, <2>1, <3>1, <3>2, <4>1
    <3>3. CASE ~(i < e)
      <4>1. Was(t, i) = i + 1 /\ i + 1 \in 1..Len(old) /\ i + 1 # e
        BY <1>3, <2>1, <3>1, <3>3
      <4> QED
        BY <1>4, <2>1, <3>1, <3>3, <4>1
    <3> QED
      BY <3>2, <3>3
  <2>2. CASE t # k
    BY <2>2
  <2> QED
    BY <2>1, <2>2
<1>6. ASSUME NEW t \in 1..Len(new), NEW i \in 1..Len(new[t].coRoutines),
             NEW j \in 1..Len(new[t].coRoutines), Was(t, i) = Was(t, j)
      PROVE  i = j
  <2>1. i \in Int /\ j \in Int /\ e \in Int
    OBVIOUS
  <2> QED
    BY <1>6, <2>1
<1>7. ASSUME NEW t \in 1..Len(ths), NEW j \in 1..Len(ths[t].coRoutines), t # k \/ j # e
      PROVE  \E i \in 1..Len(new[t].coRoutines) :
               new[t].coRoutines[i] = ths[t].coRoutines[j]
  <2>1. CASE t # k
    BY <2>1
  <2>2. CASE t = k /\ j < e
    <3>1. j \in 1..(Len(old) - 1)
      BY <1>3, <2>2
    <3> QED
      BY <1>4, <2>2, <3>1
  <2>3. CASE t = k /\ j > e
    <3>1. j - 1 \in 1..(Len(old) - 1) /\ ~(j - 1 < e) /\ (j - 1) + 1 = j
      BY <1>3, <2>3
    <3> QED
      BY <1>4, <2>3, <3>1
  <2> QED
    BY <1>3, <1>7, <2>1, <2>2, <2>3
<1> HIDE DEF Was
<1>8. Apart(new)
  <2> SUFFICES ASSUME NEW s \in 1..Len(new), NEW t \in 1..Len(new),
                      NEW i \in 1..Len(new[s].coRoutines),
                      NEW j \in 1..Len(new[t].coRoutines),
                      new[s].coRoutines[i] = new[t].coRoutines[j]
               PROVE  s = t /\ i = j
    BY DEF Apart
  <2>1. PICK a \in 1..Len(ths[s].coRoutines) :
          a = Was(s, i) /\ new[s].coRoutines[i] = ths[s].coRoutines[a]
    BY <1>5
  <2>2. PICK b \in 1..Len(ths[t].coRoutines) :
          b = Was(t, j) /\ new[t].coRoutines[j] = ths[t].coRoutines[b]
    BY <1>5
  <2>3. s \in 1..Len(ths) /\ t \in 1..Len(ths)
    OBVIOUS
  <2>4. ths[s].coRoutines[a] = ths[t].coRoutines[b]
    BY <2>1, <2>2
  <2>5. s = t /\ a = b
    BY <1>1, <2>3, <2>4, OnePlace, SMTT(30)
  <2> QED
    BY <1>6, <2>1, <2>2, <2>5
<1>9. KnowsKept(new, keeps)
  BY <1>1, <1>5 DEF KnowsKept
<1>10. Has(ths, ctx)
  BY DEF Has
<1>11. ~Has(new, ctx)
  <2> SUFFICES ASSUME NEW t \in 1..Len(new), NEW i \in 1..Len(new[t].coRoutines),
                      new[t].coRoutines[i] = ctx
               PROVE  FALSE
    BY DEF Has
  <2>1. /\ Was(t, i) \in 1..Len(ths[t].coRoutines)
        /\ ths[t].coRoutines[Was(t, i)] = ths[k].coRoutines[e]
    BY <1>5
  <2>2. t = k /\ Was(t, i) = e
    BY <1>1, <2>1, OnePlace, SMTT(30)
  <2> QED
    BY <1>5, <2>2
<1>12. ctx \in keeps <=> ctx = ths[k].keep
  <2>1. ctx # None
    BY <1>3, ManagerAssumption
  <2> QED
    BY <1>1, <2>1 DEF KnowsKept
<1>13. ASSUME NEW other \in Contexts \ {ctx}
       PROVE  Has(new, other) <=> Has(ths, other)
  <2>1. Has(new, other) => Has(ths, other)
    <3> SUFFICES ASSUME NEW t \in 1..Len(new), NEW i \in 1..Len(new[t].coRoutines),
                        new[t].coRoutines[i] = other
                 PROVE  Has(ths, other)
      BY DEF Has
    <3>1. PICK a \in 1..Len(ths[t].coRoutines) : ths[t].coRoutines[a] = other
      BY <1>5
    <3> QED
      BY <3>1 DEF Has
  <2>2. Has(ths, other) => Has(new, other)
    <3> SUFFICES ASSUME NEW t \in 1..Len(ths), NEW j \in 1..Len(ths[t].coRoutines),
                        ths[t].coRoutines[j] = other
                 PROVE  Has(new, other)
      BY DEF Has
    <3>1. t # k \/ j # e
      OBVIOUS
    <3>2. PICK i \in 1..Len(new[t].coRoutines) : new[t].coRoutines[i] = other
      BY <1>7, <3>1
    <3> QED
      BY <3>2 DEF Has
  <2> QED
    BY <2>1, <2>2
<1> QED
  BY <1>3, <1>8, <1>9, <1>10, <1>11, <1>12, <1>13, OneContextLess

\* A thread is erased whose only co-routine is over.
LEMMA ThreadErased ==
  ASSUME NEW ths, NEW pool, NEW keeps,
         AllPlaced(ths, pool, keeps),
         NEW k \in 1..Len(ths),
         Len(ths[k].coRoutines) = 1
  PROVE  AllPlaced(RemoveAt(ths, k),
                   pool \cup ({ths[k].coRoutines[1]} \ {ths[k].keep}), keeps)
<1> DEFINE new == RemoveAt(ths, k)
           ctx == ths[k].coRoutines[1]
           Was(t) == IF t >= k THEN t + 1 ELSE t
<1>1. ThreadsOK(ths) /\ Apart(ths) /\ KnowsKept(ths, keeps) /\ Places(ths, pool, keeps)
  BY DEF AllPlaced
<1>2. ths \in Seq(Thread) /\ Len(ths) \in Nat /\ ths[k] \in Thread
  BY <1>1 DEF ThreadsOK
<1>3. /\ new \in Seq(Thread)
      /\ Len(new) = Len(ths) - 1
      /\ \A t \in 1..(Len(ths) - 1) : new[t] = IF t < k THEN ths[t] ELSE ths[t + 1]
  BY <1>2, ElementRemoved
<1>4. ctx \in Contexts
  BY <1>2 DEF Thread
<1> HIDE DEF new
<1>5. ASSUME NEW t \in 1..Len(new)
      PROVE  Was(t) \in 1..Len(ths) /\ new[t] = ths[Was(t)] /\ Was(t) # k
  BY <1>2, <1>3
<1>6. ASSUME NEW s \in 1..Len(new), NEW t \in 1..Len(new), Was(s) = Was(t)
      PROVE  s = t
  <2>1. s \in Int /\ t \in Int /\ k \in Int
    OBVIOUS
  <2> QED
    BY <1>6, <2>1
<1>7. ASSUME NEW t \in 1..Len(ths), t # k
      PROVE  \E s \in 1..Len(new) : new[s] = ths[t]
  <2>1. CASE t < k
    <3>1. t \in 1..(Len(ths) - 1)
      BY <1>2, <2>1
    <3> QED
      BY <1>3, <2>1, <3>1
  <2>2. CASE t > k
    <3>1. t - 1 \in 1..(Len(ths) - 1) /\ ~(t - 1 < k) /\ (t - 1) + 1 = t
      BY <1>2, <2>2
    <3> QED
      BY <1>3, <2>2, <3>1
  <2> QED
    BY <1>2, <1>7, <2>1, <2>2
<1> HIDE DEF Was
<1>8. ThreadsOK(new)
  BY <1>1, <1>3, <1>5 DEF ThreadsOK
<1>9. Apart(new)
  <2> SUFFICES ASSUME NEW s \in 1..Len(new), NEW t \in 1..Len(new),
                      NEW i \in 1..Len(new[s].coRoutines),
                      NEW j \in 1..Len(new[t].coRoutines),
                      new[s].coRoutines[i] = new[t].coRoutines[j]
               PROVE  s = t /\ i = j
    BY DEF Apart
  <2>1. PICK a \in 1..Len(ths) : a = Was(s) /\ new[s] = ths[a]
    BY <1>5
  <2>2. PICK b \in 1..Len(ths) : b = Was(t) /\ new[t] = ths[b]
    BY <1>5
  <2>3. i \in 1..Len(ths[a].coRoutines) /\ j \in 1..Len(ths[b].coRoutines)
    BY <2>1, <2>2
  <2>4. ths[a].coRoutines[i] = ths[b].coRoutines[j]
    BY <2>1, <2>2
  <2>5. a = b /\ i = j
    BY <1>1, <2>3, <2>4, OnePlace
  <2> QED
    BY <1>6, <2>1, <2>2, <2>5
<1>10. KnowsKept(new, keeps)
  BY <1>1, <1>5 DEF KnowsKept
<1>11. Has(ths, ctx)
  BY DEF Has
<1>12. ~Has(new, ctx)
  <2> SUFFICES ASSUME NEW t \in 1..Len(new), NEW i \in 1..Len(new[t].coRoutines),
                      new[t].coRoutines[i] = ctx
               PROVE  FALSE
    BY DEF Has
  <2>1. /\ Was(t) \in 1..Len(ths)
        /\ i \in 1..Len(ths[Was(t)].coRoutines)
        /\ ths[Was(t)].coRoutines[i] = ths[k].coRoutines[1]
    BY <1>5
  <2>2. Was(t) = k
    BY <1>1, <2>1, OnePlace, SMTT(30)
  <2> QED
    BY <1>5, <2>2
<1>13. ctx \in keeps <=> ctx = ths[k].keep
  <2>1. ctx # None
    BY <1>4, ManagerAssumption
  <2> QED
    BY <1>1, <2>1 DEF KnowsKept
<1>14. ASSUME NEW other \in Contexts \ {ctx}
       PROVE  Has(new, other) <=> Has(ths, other)
  <2>1. Has(new, other) => Has(ths, other)
    BY <1>5 DEF Has
  <2>2. Has(ths, other) => Has(new, other)
    <3> SUFFICES ASSUME NEW t \in 1..Len(ths), NEW i \in 1..Len(ths[t].coRoutines),
                        ths[t].coRoutines[i] = other
                 PROVE  Has(new, other)
      BY DEF Has
    <3>1. t # k
      OBVIOUS
    <3> QED
      BY <1>7, <3>1 DEF Has
  <2> QED
    BY <2>1, <2>2
<1> QED
  BY <1>4, <1>8, <1>9, <1>10, <1>11, <1>12, <1>13, <1>14, OneContextLess DEF new

\* A thread is added whose only co-routine has come from the pool.
LEMMA ThreadAdded ==
  ASSUME NEW ths, NEW pool, NEW keeps, AllPlaced(ths, pool, keeps),
         NEW ctx \in pool, NEW thread \in Thread, NEW keep \in BOOLEAN,
         thread.coRoutines = <<ctx>>, thread.currentCoRoutine = 1,
         thread.keep = IF keep THEN ctx ELSE None
  PROVE  AllPlaced(Append(ths, thread), pool \ {ctx},
                   IF keep THEN keeps \cup {ctx} ELSE keeps)
<1> DEFINE new == Append(ths, thread)
           n == Len(ths)
           keeps2 == IF keep THEN keeps \cup {ctx} ELSE keeps
<1>1. ThreadsOK(ths) /\ Apart(ths) /\ KnowsKept(ths, keeps) /\ Places(ths, pool, keeps)
  BY DEF AllPlaced
<1>2. ths \in Seq(Thread) /\ n \in Nat
  BY <1>1 DEF ThreadsOK
<1>3. /\ new \in Seq(Thread) /\ Len(new) = n + 1 /\ new[n + 1] = thread
      /\ \A t \in 1..n : new[t] = ths[t]
  BY <1>2, AppendProperties
<1>4. /\ Len(new[n + 1].coRoutines) = 1 /\ new[n + 1].coRoutines[1] = ctx
      /\ new[n + 1].currentCoRoutine = 1
      /\ new[n + 1].keep = IF keep THEN ctx ELSE None
  <2>1. Len(<<ctx>>) = 1 /\ <<ctx>>[1] = ctx
    OBVIOUS
  <2> HIDE DEF new, n
  <2> QED
    BY <1>3, <2>1
<1>5. ctx \in Contexts /\ ctx # None /\ ctx \notin keeps /\ ~Has(ths, ctx)
  BY <1>1, ManagerAssumption DEF Places
<1> HIDE DEF new, n
<1>6. \A t \in 1..Len(new) : t = n + 1 \/ t \in 1..n
  BY <1>2, <1>3
<1>7. \A t \in 1..n : t \in 1..Len(new) /\ t # n + 1
  BY <1>2, <1>3
<1>8. n + 1 \in 1..Len(new)
  BY <1>2, <1>3
<1>9. ThreadsOK(new)
  <2>1. ASSUME NEW t \in 1..Len(new)
        PROVE  new[t].currentCoRoutine \in 1..Len(new[t].coRoutines)
    <3>1. CASE t = n + 1
      BY <1>4, <3>1
    <3>2. CASE t \in 1..n
      BY <1>1, <1>3, <3>2, FieldsOfThread DEF n
    <3> QED
      BY <1>6, <3>1, <3>2
  <2> QED
    BY <1>3, <2>1 DEF ThreadsOK
<1>10. Apart(new)
  <2> SUFFICES ASSUME NEW s \in 1..Len(new), NEW t \in 1..Len(new),
                      NEW i \in 1..Len(new[s].coRoutines),
                      NEW j \in 1..Len(new[t].coRoutines),
                      new[s].coRoutines[i] = new[t].coRoutines[j]
               PROVE  s = t /\ i = j
    BY DEF Apart
  <2>1. CASE s \in 1..n /\ t \in 1..n
    <3>1. /\ s \in 1..Len(ths) /\ t \in 1..Len(ths)
          /\ i \in 1..Len(ths[s].coRoutines) /\ j \in 1..Len(ths[t].coRoutines)
          /\ ths[s].coRoutines[i] = ths[t].coRoutines[j]
      BY <1>3, <2>1 DEF n
    <3> QED
      BY <1>1, <3>1, OnePlace
  <2>2. CASE s = n + 1 /\ t = n + 1
    BY <1>4, <2>2
  <2>3. CASE s = n + 1 /\ t \in 1..n
    BY <1>3, <1>4, <1>5, <2>3 DEF Has, n
  <2>4. CASE s \in 1..n /\ t = n + 1
    BY <1>3, <1>4, <1>5, <2>4 DEF Has, n
  <2> QED
    BY <1>6, <2>1, <2>2, <2>3, <2>4
<1>11. KnowsKept(new, keeps2)
  <2> SUFFICES ASSUME NEW t \in 1..Len(new)
               PROVE  /\ new[t].keep # None => new[t].keep \in keeps2
                      /\ \A i \in 1..Len(new[t].coRoutines) :
                           new[t].coRoutines[i] \in keeps2
                             => new[t].coRoutines[i] = new[t].keep
    BY DEF KnowsKept
  <2>1. CASE t = n + 1
    BY <1>3, <1>4, <1>5, <2>1
  <2>2. CASE t \in 1..n
    <3>1. /\ new[t] = ths[t]
          /\ ths[t].keep # None => ths[t].keep \in keeps
          /\ \A i \in 1..Len(ths[t].coRoutines) :
               ths[t].coRoutines[i] \in keeps => ths[t].coRoutines[i] = ths[t].keep
      BY <1>1, <1>3, <2>2 DEF KnowsKept, n
    <3>2. \A i \in 1..Len(ths[t].coRoutines) : ths[t].coRoutines[i] # ctx
      BY <1>5, <2>2 DEF Has, n
    <3> QED
      BY <3>1, <3>2
  <2> QED
    BY <1>6, <2>1, <2>2
<1>12. ASSUME NEW other
       PROVE  Has(new, other) <=> Has(ths, other) \/ other = ctx
  <2>1. Has(ths, other) => Has(new, other)
    BY <1>3, <1>7 DEF Has, n
  <2>2. Has(new, ctx)
    <3>1. 1 \in 1..Len(new[n + 1].coRoutines) /\ new[n + 1].coRoutines[1] = ctx
      BY <1>4
    <3> QED
      BY <1>8, <3>1 DEF Has
  <2>3. ASSUME NEW t \in 1..Len(new), NEW i \in 1..Len(new[t].coRoutines),
               new[t].coRoutines[i] = other
        PROVE  Has(ths, other) \/ other = ctx
    <3>1. CASE t = n + 1
      BY <1>3, <1>4, <2>3, <3>1
    <3>2. CASE t \in 1..n
      <4>1. /\ t \in 1..Len(ths) /\ i \in 1..Len(ths[t].coRoutines)
            /\ ths[t].coRoutines[i] = other
        BY <1>3, <2>3, <3>2 DEF n
      <4> QED
        BY <4>1 DEF Has
    <3> QED
      BY <1>6, <3>1, <3>2
  <2>4. Has(new, other) => Has(ths, other) \/ other = ctx
    BY <2>3 DEF Has
  <2> QED
    BY <2>1, <2>2, <2>4
<1>13. Places(new, pool \ {ctx}, keeps2)
  BY <1>1, <1>5, <1>12 DEF Places
<1> QED
  BY <1>9, <1>10, <1>11, <1>13 DEF AllPlaced, new

\* A thread gets one more co-routine, from the pool.
LEMMA CoRoutineAdded ==
  ASSUME NEW ths, NEW new, NEW pool, NEW keeps, AllPlaced(ths, pool, keeps),
         NEW k \in 1..Len(ths), NEW ctx \in pool,
         ThreadsOK(new),
         Len(new) = Len(ths),
         \A t \in 1..Len(ths) : new[t].keep = ths[t].keep,
         \A t \in 1..Len(ths) : t # k => new[t].coRoutines = ths[t].coRoutines,
         new[k].coRoutines = Append(ths[k].coRoutines, ctx)
  PROVE  AllPlaced(new, pool \ {ctx}, keeps)
<1> DEFINE old == ths[k].coRoutines
           last == Len(old) + 1
<1>1. ThreadsOK(ths) /\ Apart(ths) /\ KnowsKept(ths, keeps) /\ Places(ths, pool, keeps)
  BY DEF AllPlaced
<1>2. old \in Seq(Contexts) /\ Len(old) \in Nat
  BY <1>1, FieldsOfThread
<1>3. ctx \in Contexts /\ ctx \notin keeps /\ ~Has(ths, ctx)
  BY <1>1 DEF Places
<1>4. /\ Len(new[k].coRoutines) = last /\ new[k].coRoutines[last] = ctx
      /\ \A i \in 1..Len(old) : new[k].coRoutines[i] = old[i]
  BY <1>2, <1>3, AppendProperties
<1>5. ASSUME NEW t \in 1..Len(new), NEW i \in 1..Len(new[t].coRoutines)
      PROVE  \/ t = k /\ i = last /\ new[t].coRoutines[i] = ctx
             \/ /\ i \in 1..Len(ths[t].coRoutines)
                /\ new[t].coRoutines[i] = ths[t].coRoutines[i]
                /\ ths[t].coRoutines[i] # ctx
  <2>1. CASE t = k /\ i = last
    BY <1>4, <2>1
  <2>2. CASE t = k /\ i # last
    <3>1. i \in 1..Len(old)
      BY <1>2, <1>4, <2>2
    <3> QED
      BY <1>3, <1>4, <2>2, <3>1 DEF Has
  <2>3. CASE t # k
    BY <1>3, <2>3 DEF Has
  <2> QED
    BY <2>1, <2>2, <2>3
<1>6. ASSUME NEW t \in 1..Len(ths), NEW i \in 1..Len(ths[t].coRoutines)
      PROVE  /\ i \in 1..Len(new[t].coRoutines)
             /\ new[t].coRoutines[i] = ths[t].coRoutines[i]
  BY <1>2, <1>4, SMTT(30)
<1>7. last \in 1..Len(new[k].coRoutines) /\ k \in 1..Len(new)
  BY <1>2, <1>4
<1> HIDE DEF last
<1>8. Apart(new)
  <2> SUFFICES ASSUME NEW s \in 1..Len(new), NEW t \in 1..Len(new),
                      NEW i \in 1..Len(new[s].coRoutines),
                      NEW j \in 1..Len(new[t].coRoutines),
                      new[s].coRoutines[i] = new[t].coRoutines[j]
               PROVE  s = t /\ i = j
    BY DEF Apart
  <2>1. CASE new[s].coRoutines[i] = ctx
    <3>1. s = k /\ i = last
      BY <1>5, <2>1
    <3>2. new[t].coRoutines[j] = ctx
      BY <2>1
    <3>3. t = k /\ j = last
      BY <1>5, <3>2
    <3> QED
      BY <3>1, <3>3
  <2>2. CASE new[s].coRoutines[i] # ctx
    <3>1. i \in 1..Len(ths[s].coRoutines) /\ new[s].coRoutines[i] = ths[s].coRoutines[i]
      BY <1>5, <2>2
    <3>2. j \in 1..Len(ths[t].coRoutines) /\ new[t].coRoutines[j] = ths[t].coRoutines[j]
      BY <1>5, <2>2
    <3>3. s \in 1..Len(ths) /\ t \in 1..Len(ths)
      OBVIOUS
    <3>4. ths[s].coRoutines[i] = ths[t].coRoutines[j]
      BY <3>1, <3>2
    <3> QED
      BY <1>1, <3>1, <3>2, <3>3, <3>4, OnePlace
  <2> QED
    BY <2>1, <2>2
<1>9. KnowsKept(new, keeps)
  BY <1>1, <1>3, <1>5 DEF KnowsKept
<1>10. ASSUME NEW other
       PROVE  Has(new, other) <=> Has(ths, other) \/ other = ctx
  <2>1. ASSUME NEW t \in 1..Len(ths), NEW i \in 1..Len(ths[t].coRoutines),
               ths[t].coRoutines[i] = other
        PROVE  Has(new, other)
    BY <1>6, <2>1 DEF Has
  <2>2. Has(new, ctx)
    BY <1>4, <1>7 DEF Has
  <2>3. ASSUME NEW t \in 1..Len(new), NEW i \in 1..Len(new[t].coRoutines),
               new[t].coRoutines[i] = other
        PROVE  Has(ths, other) \/ other = ctx
    BY <1>5, <2>3 DEF Has
  <2> QED
    BY <2>1, <2>2, <2>3 DEF Has
<1>11. Places(new, pool \ {ctx}, keeps)
  BY <1>1, <1>3, <1>10 DEF Places
<1> QED
  BY <1>8, <1>9, <1>11 DEF AllPlaced

-----------------------------------------------------------------------------
\* The steps

LEMMA MappedThreads ==
  ASSUME NEW ths, ThreadsOK(ths), NEW new, new = [t \in 1..Len(ths) |-> new[t]],
         \A t \in 1..Len(ths) :
           new[t] \in Thread /\ new[t].currentCoRoutine \in 1..Len(new[t].coRoutines)
  PROVE  ThreadsOK(new) /\ Len(new) = Len(ths)
<1>1. Len(ths) \in Nat
  BY DEF ThreadsOK
<1>2. new \in Seq(Thread) /\ Len(new) = Len(ths)
  BY <1>1
<1> QED
  BY <1>2 DEF ThreadsOK

\* One thread changes.
LEMMA OneThreadChanged ==
  ASSUME NEW ths, ThreadsOK(ths), NEW k \in 1..Len(ths), NEW thread \in Thread,
         thread.currentCoRoutine \in 1..Len(thread.coRoutines)
  PROVE  /\ ThreadsOK([ths EXCEPT ![k] = thread])
         /\ Len([ths EXCEPT ![k] = thread]) = Len(ths)
         /\ \A t \in 1..Len(ths) :
              [ths EXCEPT ![k] = thread][t] = IF t = k THEN thread ELSE ths[t]
<1> DEFINE new == [ths EXCEPT ![k] = thread]
<1>1. ths \in Seq(Thread)
  BY DEF ThreadsOK
<1>2. /\ new \in Seq(Thread) /\ Len(new) = Len(ths)
      /\ \A t \in 1..Len(ths) : new[t] = IF t = k THEN thread ELSE ths[t]
  BY <1>1, ExceptSeq
<1> HIDE DEF new
<1>3. ASSUME NEW t \in 1..Len(new)
      PROVE  new[t].currentCoRoutine \in 1..Len(new[t].coRoutines)
  BY <1>2, FieldsOfThread
<1>4. ThreadsOK(new)
  BY <1>2, <1>3 DEF ThreadsOK
<1> QED
  BY <1>2, <1>4 DEF new

LEMMA InitInv == Init => Inv
<1> SUFFICES ASSUME Init PROVE Inv
  OBVIOUS
<1>1. threads = <<>> /\ Len(threads) = 0 /\ threads \in Seq(Thread)
  BY DEF Init
<1>2. \A ctx : ~Has(threads, ctx)
  BY <1>1 DEF Has
<1>3. ThreadsOK(threads) /\ Apart(threads) /\ KnowsKept(threads, kept)
  BY <1>1 DEF ThreadsOK, Apart, KnowsKept
<1>4. Places(threads, free, kept)
  BY <1>2 DEF Init, Places
<1>5. Executing
  BY DEF Init, Executing
<1> QED
  BY <1>3, <1>4, <1>5 DEF Inv, AllPlaced

\* What is in a thread is what the manager has.
LEMMA ManagedIsHad ==
  ASSUME ThreadsOK(threads)
  PROVE  \A ctx : ctx \in Managed <=> Has(threads, ctx)
<1>1. \A t \in 1..Len(threads) :
        \A ctx : ctx \in Range(threads[t].coRoutines)
          <=> \E i \in 1..Len(threads[t].coRoutines) : threads[t].coRoutines[i] = ctx
  <2> SUFFICES ASSUME NEW t \in 1..Len(threads), NEW ctx
               PROVE  ctx \in Range(threads[t].coRoutines)
                        <=> \E i \in 1..Len(threads[t].coRoutines) :
                              threads[t].coRoutines[i] = ctx
    OBVIOUS
  <2>1. DOMAIN threads[t].coRoutines = 1..Len(threads[t].coRoutines)
    BY FieldsOfThread
  <2> QED
    BY <2>1 DEF Range
<1>2. ~Has(threads, None)
  BY FieldsOfThread, ManagerAssumption DEF Has
<1>3. \A ctx : ctx \in Managed
        <=> ctx # None /\ \E t \in 1..Len(threads) : ctx \in Range(threads[t].coRoutines)
  BY DEF Managed
<1>4. \A ctx : Has(threads, ctx)
        <=> \E t \in 1..Len(threads) : ctx \in Range(threads[t].coRoutines)
  BY <1>1 DEF Has
<1> QED
  BY <1>2, <1>3, <1>4

LEMMA AddContextInv ==
  ASSUME Inv, NEW keep \in BOOLEAN, AddContext(keep) PROVE Inv'
<1>1. PICK ctx \in free :
        /\ free' = free \ {ctx}
        /\ kept' = IF keep THEN kept \cup {ctx} ELSE kept
        /\ threads' = Append(threads, [coRoutines |-> <<ctx>>, currentCoRoutine |-> 1,
                                       sleepUntil |-> 0, keep |-> IF keep THEN ctx ELSE None,
                                       ran |-> FALSE])
  BY DEF AddContext
<1> DEFINE thread == [coRoutines |-> <<ctx>>, currentCoRoutine |-> 1, sleepUntil |-> 0,
                      keep |-> IF keep THEN ctx ELSE None, ran |-> FALSE]
<1>2. ctx \in Contexts
  BY DEF Inv, AllPlaced, Places
<1>3. thread \in Thread
  <2>1. <<ctx>> \in Seq(Contexts)
    BY <1>2
  <2> QED
    BY <1>2, <2>1 DEF Thread
<1>4. /\ thread.coRoutines = <<ctx>> /\ thread.currentCoRoutine = 1
      /\ thread.keep = IF keep THEN ctx ELSE None
  OBVIOUS
<1>5. threads' = Append(threads, thread)
  BY <1>1
<1> HIDE DEF thread
<1>6. AllPlaced(threads, free, kept)
  BY DEF Inv
<1>7. AllPlaced(Append(threads, thread), free \ {ctx},
                IF keep THEN kept \cup {ctx} ELSE kept)
  BY <1>3, <1>4, <1>6, ThreadAdded
<1>8. AllPlaced(threads', free', kept')
  BY <1>1, <1>5, <1>7
<1>9. Executing'
  BY DEF AddContext, Inv, Executing
<1> QED
  BY <1>8, <1>9 DEF Inv

LEMMA DoneWithContextInv ==
  ASSUME Careful, Inv, DoneWithContext PROVE Inv'
<1>1. PICK ctx \in kept \ Managed :
        /\ \A t \in 1..Len(threads) : threads[t].keep # ctx
        /\ kept' = kept \ {ctx}
        /\ free' = free \cup {ctx}
  BY DEF DoneWithContext
<1>2. threads' = threads
  BY DEF DoneWithContext
<1>3. /\ ThreadsOK(threads) /\ Apart(threads)
      /\ KnowsKept(threads, kept) /\ Places(threads, free, kept)
  BY DEF Inv, AllPlaced
<1>4. ~Has(threads, ctx)
  BY <1>3, ManagedIsHad
<1>5. KnowsKept(threads, kept')
  BY <1>1, <1>3 DEF KnowsKept
<1>6. Places(threads, free', kept')
  BY <1>1, <1>3, <1>4 DEF Places
<1>7. Executing'
  BY DEF DoneWithContext, Inv, Executing
<1> QED
  BY <1>2, <1>3, <1>5, <1>6, <1>7 DEF Inv, AllPlaced

LEMMA AbortAllInv ==
  ASSUME Inv, AbortAll PROVE Inv'
<1>1. threads' = <<>> /\ Len(threads') = 0 /\ threads' \in Seq(Thread)
  BY DEF AbortAll
<1>2. \A ctx : ~Has(threads', ctx)
  BY <1>1 DEF Has
<1>3. ThreadsOK(threads') /\ Apart(threads') /\ KnowsKept(threads', kept')
  BY <1>1 DEF ThreadsOK, Apart, KnowsKept
<1>4. ThreadsOK(threads) /\ Places(threads, free, kept)
  BY DEF Inv, AllPlaced
<1>5. Managed \subseteq Contexts
  <2> SUFFICES ASSUME NEW ctx \in Managed PROVE ctx \in Contexts
    OBVIOUS
  <2>1. Has(threads, ctx)
    BY <1>4, ManagedIsHad
  <2>2. PICK t \in 1..Len(threads) :
          \E i \in 1..Len(threads[t].coRoutines) : threads[t].coRoutines[i] = ctx
    BY <2>1 DEF Has
  <2>3. threads[t].coRoutines \in Seq(Contexts)
    BY <1>4, FieldsOfThread
  <2> QED
    BY <2>2, <2>3
<1>6. \A ctx : ctx \in Managed <=> Has(threads, ctx)
  BY <1>4, ManagedIsHad
<1>7. Places(threads', free', kept')
  <2>1. free' = free \cup Managed /\ kept' = kept \ Managed
    BY DEF AbortAll
  <2> QED
    BY <1>2, <1>4, <1>5, <1>6, <2>1 DEF Places
<1>8. Executing'
  BY DEF AbortAll, Inv, Executing
<1> QED
  BY <1>3, <1>7, <1>8 DEF Inv, AllPlaced

LEMMA TickInv ==
  ASSUME Inv, Tick PROVE Inv'
<1>1. AllPlaced(threads', free', kept')
  BY DEF Tick, Inv
<1>2. Executing'
  BY DEF Tick, Inv, Executing
<1> QED
  BY <1>1, <1>2 DEF Inv

LEMMA ExecuteScriptsInv ==
  ASSUME Inv, ExecuteScripts PROVE Inv'
<1>1. AllPlaced(threads, free, kept) /\ ThreadsOK(threads)
  BY DEF Inv, AllPlaced
<1>2. threads' = [t \in 1..Len(threads) |-> [threads[t] EXCEPT !.ran = FALSE]]
  BY DEF ExecuteScripts
<1>3. ASSUME NEW t \in 1..Len(threads)
      PROVE  /\ threads'[t] \in Thread
             /\ threads'[t].coRoutines = threads[t].coRoutines
             /\ threads'[t].keep = threads[t].keep
             /\ threads'[t].currentCoRoutine = threads[t].currentCoRoutine
  <2>1. threads[t] \in Thread /\ threads'[t] = [threads[t] EXCEPT !.ran = FALSE]
    BY <1>1, <1>2, FieldsOfThread
  <2> QED
    BY <2>1 DEF Thread
<1>4. ThreadsOK(threads') /\ Len(threads') = Len(threads)
  <2>1. threads' = [t \in 1..Len(threads) |-> threads'[t]]
    BY <1>2
  <2>2. \A t \in 1..Len(threads) :
          threads'[t].currentCoRoutine \in 1..Len(threads'[t].coRoutines)
    BY <1>1, <1>3, FieldsOfThread
  <2> QED
    BY <1>1, <1>3, <2>1, <2>2, MappedThreads
<1>5. AllPlaced(threads', free, kept)
  BY <1>1, <1>3, <1>4, SameCoRoutines
<1>6. free' = free /\ kept' = kept
  BY DEF ExecuteScripts
<1>7. Executing'
  BY DEF ExecuteScripts, Inv, Executing
<1> QED
  BY <1>5, <1>6, <1>7 DEF Inv

LEMMA ExecuteOrSkipInv ==
  ASSUME Inv, ExecuteOrSkip PROVE Inv'
<1>1. AllPlaced(threads, free, kept) /\ ThreadsOK(threads)
  BY DEF Inv, AllPlaced
<1>2. currentThread \in 1..Len(threads) /\ executing = 0 /\ time' = time
      /\ free' = free /\ kept' = kept
  BY DEF ExecuteOrSkip
<1>3. CASE threads[currentThread].sleepUntil < time
  <2>1. /\ executing' = threads[currentThread].currentCoRoutine
        /\ threads' = [threads EXCEPT ![currentThread].ran = TRUE]
        /\ currentThread' = currentThread
    BY <1>3 DEF ExecuteOrSkip
  <2> DEFINE thread == [threads[currentThread] EXCEPT !.ran = TRUE]
  <2>2. threads[currentThread] \in Thread
    BY <1>1, <1>2, FieldsOfThread
  <2>3. /\ thread \in Thread
        /\ thread.coRoutines = threads[currentThread].coRoutines
        /\ thread.keep = threads[currentThread].keep
        /\ thread.currentCoRoutine = threads[currentThread].currentCoRoutine
    BY <2>2 DEF Thread
  <2>4. threads' = [threads EXCEPT ![currentThread] = thread]
    BY <2>1
  <2> HIDE DEF thread
  <2>5. thread.currentCoRoutine \in 1..Len(thread.coRoutines)
    BY <1>1, <1>2, <2>3, FieldsOfThread
  <2>6. /\ ThreadsOK(threads') /\ Len(threads') = Len(threads)
        /\ \A t \in 1..Len(threads) :
             threads'[t] = IF t = currentThread THEN thread ELSE threads[t]
    <3> DEFINE new == [threads EXCEPT ![currentThread] = thread]
    <3>1. /\ ThreadsOK(new) /\ Len(new) = Len(threads)
          /\ \A t \in 1..Len(threads) :
               new[t] = IF t = currentThread THEN thread ELSE threads[t]
      BY <1>1, <1>2, <2>3, <2>5, OneThreadChanged
    <3>2. threads' = new
      BY <2>4
    <3> HIDE DEF new
    <3> QED
      BY <3>1, <3>2
  <2>7. \A t \in 1..Len(threads) : /\ threads'[t].coRoutines = threads[t].coRoutines
                                   /\ threads'[t].keep = threads[t].keep
    BY <2>3, <2>6
  <2>8. AllPlaced(threads', free, kept)
    BY <1>1, <2>6, <2>7, SameCoRoutines
  <2>9. Executing'
    <3>1. threads'[currentThread] = thread
      BY <1>2, <2>6
    <3>2. threads[currentThread].currentCoRoutine \in Nat
      BY <2>2 DEF Thread
    <3> QED
      BY <1>2, <2>1, <2>3, <2>6, <3>1, <3>2 DEF Inv, Executing
  <2> QED
    BY <1>2, <2>8, <2>9 DEF Inv
<1>4. CASE ~(threads[currentThread].sleepUntil < time)
  <2>1. currentThread' = currentThread + 1 /\ UNCHANGED <<threads, executing>>
    BY <1>4 DEF ExecuteOrSkip
  <2>2. Executing'
    BY <1>2, <2>1 DEF Inv, Executing
  <2> QED
    BY <1>1, <1>2, <2>1, <2>2 DEF Inv
<1> QED
  BY <1>3, <1>4

LEMMA AllExecutedInv ==
  ASSUME Inv, AllExecuted PROVE Inv'
<1>1. AllPlaced(threads', free', kept')
  BY DEF AllExecuted, Inv
<1>2. Len(threads) \in Nat
  BY DEF Inv, AllPlaced, ThreadsOK
<1>3. executing = 0 /\ executing' = 0
  BY <1>2 DEF AllExecuted, Inv, Executing
<1>4. Executing'
  BY <1>3 DEF AllExecuted, Inv, Executing
<1> QED
  BY <1>1, <1>4 DEF Inv

-----------------------------------------------------------------------------
\* The steps of a script

\* The thread that is executed and the co-routine.
LEMMA TheExecuted ==
  ASSUME Inv, executing # 0
  PROVE  /\ AllPlaced(threads, free, kept) /\ ThreadsOK(threads) /\ Apart(threads)
         /\ currentThread \in 1..Len(threads) /\ Len(threads) \in Nat
         /\ threads[currentThread] \in Thread
         /\ executing \in 1..Len(threads[currentThread].coRoutines)
         /\ executing = threads[currentThread].currentCoRoutine
         /\ Executed \in Contexts
         /\ \A t \in 1..Len(threads) :
              Current(threads[t]) = Executed <=> t = currentThread
<1>1. /\ AllPlaced(threads, free, kept) /\ ThreadsOK(threads) /\ Apart(threads)
      /\ currentThread \in 1..Len(threads)
      /\ executing = threads[currentThread].currentCoRoutine
  BY DEF Inv, AllPlaced, Executing
<1>2. /\ Len(threads) \in Nat
      /\ threads[currentThread] \in Thread
      /\ threads[currentThread].coRoutines \in Seq(Contexts)
      /\ executing \in 1..Len(threads[currentThread].coRoutines)
  BY <1>1, FieldsOfThread
<1>3. Executed \in Contexts
  BY <1>2 DEF Executed
<1>4. ASSUME NEW t \in 1..Len(threads)
      PROVE  Current(threads[t]) = Executed <=> t = currentThread
  <2>1. threads[t].currentCoRoutine \in 1..Len(threads[t].coRoutines)
    BY <1>1, FieldsOfThread
  <2>2. Current(threads[t]) = Executed => t = currentThread
    BY <1>1, <1>2, <2>1, OnePlace DEF Current, Executed
  <2>3. t = currentThread => Current(threads[t]) = Executed
    BY <1>1 DEF Current, Executed
  <2> QED
    BY <2>2, <2>3
<1> QED
  BY <1>1, <1>2, <1>3, <1>4

LEMMA ScriptYieldInv ==
  ASSUME Careful, Inv, ScriptYield PROVE Inv'
<1> DEFINE old == threads[currentThread]
           thread == NextCoRoutine(old)
           new == [threads EXCEPT ![currentThread] = thread]
<1>1. /\ executing # 0 /\ threads' = new
      /\ executing' = 0 /\ currentThread' = currentThread + 1
      /\ free' = free /\ kept' = kept /\ time' = time
  BY DEF ScriptYield, Suspended
<1>2. /\ AllPlaced(threads, free, kept) /\ ThreadsOK(threads)
      /\ currentThread \in 1..Len(threads)
      /\ old \in Thread
  BY <1>1, TheExecuted
<1>3. old.currentCoRoutine \in 1..Len(old.coRoutines) /\ Len(old.coRoutines) \in Nat
  BY <1>2, FieldsOfThread
<1>4. /\ thread \in Thread
      /\ thread.coRoutines = old.coRoutines /\ thread.keep = old.keep
      /\ thread.currentCoRoutine \in 1..Len(thread.coRoutines)
  BY <1>2, <1>3 DEF NextCoRoutine, Thread
<1> HIDE DEF thread
<1>5. /\ ThreadsOK(new) /\ Len(new) = Len(threads)
      /\ \A t \in 1..Len(threads) :
           new[t] = IF t = currentThread THEN thread ELSE threads[t]
  BY <1>2, <1>4, OneThreadChanged
<1> HIDE DEF new
<1>6. \A t \in 1..Len(threads) : /\ new[t].coRoutines = threads[t].coRoutines
                                 /\ new[t].keep = threads[t].keep
  BY <1>4, <1>5
<1>7. AllPlaced(new, free, kept)
  BY <1>2, <1>5, <1>6, SameCoRoutines
<1>8. Executing'
  BY <1>1 DEF Inv, Executing
<1> QED
  BY <1>1, <1>7, <1>8 DEF Inv

LEMMA ScriptSleepInv ==
  ASSUME Careful, Inv, ScriptSleep PROVE Inv'
<1>1. PICK milliSeconds \in 1..MaxTime :
        threads' = [t \in 1..Len(threads) |->
                      IF Current(threads[t]) = Executed
                        THEN [threads[t] EXCEPT !.sleepUntil =
                                (time + milliSeconds) % (MaxTime + 1)]
                        ELSE threads[t]]
  BY DEF ScriptSleep
<1> DEFINE until == (time + milliSeconds) % (MaxTime + 1)
<1>2. /\ executing # 0
      /\ executing' = 0 /\ currentThread' = currentThread + 1
      /\ free' = free /\ kept' = kept /\ time' = time
  BY DEF ScriptSleep, Suspended
<1>3. until \in Nat
  <2>1. MaxTime \in Nat /\ time \in Nat /\ milliSeconds \in Nat
    BY ManagerAssumption DEF Inv, Executing
  <2> QED
    BY <2>1
<1>4. AllPlaced(threads, free, kept) /\ ThreadsOK(threads)
  BY DEF Inv, AllPlaced
<1> HIDE DEF until
<1>5. ASSUME NEW t \in 1..Len(threads)
      PROVE  /\ threads'[t] \in Thread
             /\ threads'[t].coRoutines = threads[t].coRoutines
             /\ threads'[t].keep = threads[t].keep
             /\ threads'[t].currentCoRoutine = threads[t].currentCoRoutine
  <2>1. threads[t] \in Thread
    BY <1>4, FieldsOfThread
  <2>2. \/ threads'[t] = threads[t]
        \/ threads'[t] = [threads[t] EXCEPT !.sleepUntil = until]
    BY <1>1 DEF until
  <2> QED
    BY <1>3, <2>1, <2>2 DEF Thread
<1>6. ThreadsOK(threads') /\ Len(threads') = Len(threads)
  <2>1. threads' = [t \in 1..Len(threads) |-> threads'[t]]
    BY <1>1
  <2>2. \A t \in 1..Len(threads) :
          threads'[t].currentCoRoutine \in 1..Len(threads'[t].coRoutines)
    BY <1>4, <1>5, FieldsOfThread
  <2> QED
    BY <1>4, <1>5, <2>1, <2>2, MappedThreads
<1>7. AllPlaced(threads', free, kept)
  BY <1>4, <1>5, <1>6, SameCoRoutines
<1>8. Executing'
  <2>1. currentThread \in Nat
    BY DEF Inv, Executing
  <2> QED
    BY <1>2, <2>1 DEF Inv, Executing
<1> QED
  BY <1>2, <1>7, <1>8 DEF Inv

LEMMA ScriptCreateCoRoutineInv ==
  ASSUME Inv, ScriptCreateCoRoutine PROVE Inv'
<1> DEFINE old == threads[currentThread]
<1>1. PICK ctx \in free :
        /\ free' = free \ {ctx}
        /\ threads' = [t \in 1..Len(threads) |->
                         IF Current(threads[t]) = Executed
                           THEN [threads[t] EXCEPT !.coRoutines = Append(@, ctx)]
                           ELSE threads[t]]
  BY DEF ScriptCreateCoRoutine
<1>2. /\ executing # 0 /\ executing' = executing /\ currentThread' = currentThread
      /\ kept' = kept /\ time' = time
  BY DEF ScriptCreateCoRoutine
<1>3. /\ AllPlaced(threads, free, kept) /\ ThreadsOK(threads)
      /\ currentThread \in 1..Len(threads) /\ old \in Thread
      /\ executing = old.currentCoRoutine
      /\ \A t \in 1..Len(threads) : Current(threads[t]) = Executed <=> t = currentThread
  BY <1>2, TheExecuted
<1> DEFINE thread == [old EXCEPT !.coRoutines = Append(@, ctx)]
<1>4. threads' = [t \in 1..Len(threads) |-> IF t = currentThread THEN thread ELSE threads[t]]
  BY <1>1, <1>3
<1>5. ctx \in Contexts
  BY <1>3 DEF AllPlaced, Places
<1>6. /\ old.coRoutines \in Seq(Contexts)
      /\ Len(old.coRoutines) \in Nat
      /\ old.currentCoRoutine \in 1..Len(old.coRoutines)
  BY <1>3, FieldsOfThread
<1>7. /\ Append(old.coRoutines, ctx) \in Seq(Contexts)
      /\ Len(Append(old.coRoutines, ctx)) = Len(old.coRoutines) + 1
  BY <1>5, <1>6, AppendProperties
<1>8. /\ thread \in Thread
      /\ thread.coRoutines = Append(old.coRoutines, ctx)
      /\ thread.keep = old.keep
      /\ thread.currentCoRoutine = old.currentCoRoutine
  BY <1>3, <1>7 DEF Thread
<1> HIDE DEF thread
<1>9. \A t \in 1..Len(threads) :
        threads'[t] = IF t = currentThread THEN thread ELSE threads[t]
  BY <1>4
<1>10. ThreadsOK(threads') /\ Len(threads') = Len(threads)
  <2>1. threads' = [t \in 1..Len(threads) |-> threads'[t]]
    BY <1>4
  <2>2. ASSUME NEW t \in 1..Len(threads)
        PROVE  /\ threads'[t] \in Thread
               /\ threads'[t].currentCoRoutine \in 1..Len(threads'[t].coRoutines)
    <3>1. CASE t = currentThread
      BY <1>6, <1>7, <1>8, <1>9, <3>1
    <3>2. CASE t # currentThread
      BY <1>3, <1>9, <3>2, FieldsOfThread
    <3> QED
      BY <3>1, <3>2
  <2> QED
    BY <1>3, <2>1, <2>2, MappedThreads
<1>11. AllPlaced(threads', free \ {ctx}, kept)
  <2>1. \A t \in 1..Len(threads) : threads'[t].keep = threads[t].keep
    BY <1>8, <1>9
  <2>2. \A t \in 1..Len(threads) :
          t # currentThread => threads'[t].coRoutines = threads[t].coRoutines
    BY <1>9
  <2>3. threads'[currentThread].coRoutines = Append(threads[currentThread].coRoutines, ctx)
    BY <1>3, <1>8, <1>9
  <2> QED
    BY <1>3, <1>10, <2>1, <2>2, <2>3, CoRoutineAdded
<1>12. Executing'
  <2>1. threads'[currentThread].currentCoRoutine = executing
    BY <1>3, <1>8, <1>9
  <2> QED
    BY <1>2, <1>3, <1>10, <2>1 DEF Inv, Executing
<1> QED
  BY <1>1, <1>2, <1>11, <1>12 DEF Inv

\* What is erased is the co-routine that has been executed, though by then its place
\* holds the null context.
LEMMA ExecutedErased ==
  ASSUME NEW s \in Seq(Contexts), NEW e \in 1..Len(s)
  PROVE  RemoveAt(ReplaceAt(s, e, None), e) = RemoveAt(s, e)
<1> DEFINE S == Contexts \cup {None}
           r == [s EXCEPT ![e] = None]
<1>1. s \in Seq(S) /\ None \in S /\ Len(s) \in Nat
  OBVIOUS
<1>2. /\ r \in Seq(S) /\ Len(r) = Len(s)
      /\ \A j \in 1..Len(s) : j # e => r[j] = s[j]
  BY <1>1, ExceptSeq
<1> HIDE DEF r, S
<1>3. /\ RemoveAt(s, e) \in Seq(S) /\ Len(RemoveAt(s, e)) = Len(s) - 1
      /\ \A j \in 1..(Len(s) - 1) : RemoveAt(s, e)[j] = IF j < e THEN s[j] ELSE s[j + 1]
  BY <1>1, ElementRemoved
<1>4. /\ RemoveAt(r, e) \in Seq(S) /\ Len(RemoveAt(r, e)) = Len(s) - 1
      /\ \A j \in 1..(Len(s) - 1) : RemoveAt(r, e)[j] = IF j < e THEN r[j] ELSE r[j + 1]
  <2>1. e \in 1..Len(r)
    BY <1>2
  <2> QED
    BY <1>2, <2>1, ElementRemoved
<1>5. ASSUME NEW j \in 1..(Len(s) - 1)
      PROVE  RemoveAt(r, e)[j] = RemoveAt(s, e)[j]
  <2>1. CASE j < e
    <3>1. j \in 1..Len(s) /\ j # e
      BY <1>1, <2>1
    <3> QED
      BY <1>2, <1>3, <1>4, <2>1, <3>1
  <2>2. CASE ~(j < e)
    <3>1. j + 1 \in 1..Len(s) /\ j + 1 # e
      BY <1>1, <2>2
    <3> QED
      BY <1>2, <1>3, <1>4, <2>2, <3>1
  <2> QED
    BY <2>1, <2>2
<1>6. RemoveAt(r, e) = RemoveAt(s, e)
  BY <1>3, <1>4, <1>5, SeqEqual
<1> QED
  BY <1>6 DEF ReplaceAt, r

LEMMA TerminatedInv ==
  ASSUME Inv, Terminated PROVE Inv'
<1> DEFINE old == threads[currentThread]
           routines == RemoveAt(old.coRoutines, executing)
<1>1. executing # 0
  BY DEF Terminated
<1>2. /\ AllPlaced(threads, free, kept) /\ ThreadsOK(threads)
      /\ currentThread \in 1..Len(threads) /\ Len(threads) \in Nat /\ old \in Thread
      /\ executing \in 1..Len(old.coRoutines)
      /\ executing = old.currentCoRoutine
  BY <1>1, TheExecuted
<1>3. old.coRoutines \in Seq(Contexts) /\ Len(old.coRoutines) \in Nat
  BY <1>2, FieldsOfThread
<1>4. RemoveAt(ReplaceAt(old.coRoutines, executing, None), old.currentCoRoutine) = routines
  BY <1>2, <1>3, ExecutedErased
<1>5. routines \in Seq(Contexts) /\ Len(routines) = Len(old.coRoutines) - 1
  BY <1>2, <1>3, ElementRemoved
<1>6. /\ free' = free \cup ({old.coRoutines[executing]} \ {old.keep})
      /\ executing' = 0 /\ kept' = kept /\ time' = time
  BY DEF Terminated, Returned, Executed
<1>7. currentThread' \in Nat
  <2>1. currentThread \in Nat
    BY DEF Inv, Executing
  <2>2. currentThread' = currentThread \/ currentThread' = currentThread + 1
    BY DEF Terminated, ThreadAfterErase
  <2> QED
    BY <2>1, <2>2
<1>8. Executing'
  BY <1>6, <1>7 DEF Inv, Executing
<1>9. CASE routines = <<>>
  <2>1. threads' = RemoveAt(threads, currentThread)
    BY <1>4, <1>9 DEF Terminated
  <2> HIDE DEF routines
  <2>2. Len(old.coRoutines) = 1 /\ executing = 1
    <3> DEFINE n == Len(old.coRoutines)
    <3>1. Len(routines) = 0 /\ Len(routines) = n - 1
      BY <1>5, <1>9
    <3>2. n \in Nat /\ executing \in 1..n
      BY <1>2, <1>3
    <3> HIDE DEF n
    <3>3. n = 1 /\ executing = 1
      BY <3>1, <3>2
    <3> QED
      BY <3>3 DEF n
  <2>3. AllPlaced(RemoveAt(threads, currentThread),
                  free \cup ({old.coRoutines[1]} \ {old.keep}), kept)
    BY <1>2, <2>2, ThreadErased
  <2> QED
    BY <1>6, <1>8, <2>1, <2>2, <2>3 DEF Inv
<1>10. CASE routines # <<>>
  <2> DEFINE thread == [old EXCEPT !.coRoutines = routines,
                                   !.currentCoRoutine = IndexAfterErase(@, routines)]
             new == [threads EXCEPT ![currentThread] = thread]
             index == IndexAfterErase(old.currentCoRoutine, routines)
  <2>1. threads' = new
    BY <1>4, <1>10 DEF Terminated
  <2>2. Len(routines) >= 1
    BY <1>3, <1>5, <1>10
  <2>3. index \in 1..Len(routines) /\ index \in Nat
    BY <1>2, <1>3, <1>5, <2>2 DEF IndexAfterErase
  <2> HIDE DEF routines, index
  <2>4. /\ thread \in Thread
        /\ thread.coRoutines = routines /\ thread.keep = old.keep
        /\ thread.currentCoRoutine \in 1..Len(thread.coRoutines)
    <3>1. thread = [old EXCEPT !.coRoutines = routines, !.currentCoRoutine = index]
      BY DEF index
    <3> HIDE DEF thread
    <3>2. /\ thread \in Thread
          /\ thread.coRoutines = routines /\ thread.keep = old.keep
          /\ thread.currentCoRoutine = index
      BY <1>2, <1>5, <2>3, <3>1 DEF Thread
    <3> QED
      BY <2>3, <3>2
  <2> HIDE DEF thread
  <2>5. /\ ThreadsOK(new) /\ Len(new) = Len(threads)
        /\ \A t \in 1..Len(threads) :
             new[t] = IF t = currentThread THEN thread ELSE threads[t]
    BY <1>2, <2>4, OneThreadChanged
  <2> HIDE DEF new
  <2>6. \A t \in 1..Len(threads) : new[t].keep = threads[t].keep
    BY <2>4, <2>5
  <2>7. \A t \in 1..Len(threads) :
          t # currentThread => new[t].coRoutines = threads[t].coRoutines
    BY <2>5
  <2>8. new[currentThread].coRoutines
          = RemoveAt(threads[currentThread].coRoutines, executing)
    BY <1>2, <2>4, <2>5 DEF routines
  <2>9. AllPlaced(new, free \cup ({old.coRoutines[executing]} \ {old.keep}), kept)
    BY <1>2, <2>5, <2>6, <2>7, <2>8, CoRoutineErased
  <2> QED
    BY <1>6, <1>8, <2>1, <2>9 DEF Inv
<1> QED
  BY <1>9, <1>10

-----------------------------------------------------------------------------
\* The theorem

LEMMA NextInv ==
  ASSUME Careful, Inv, [Next]_vars PROVE Inv'
<1>1. CASE \E keep \in BOOLEAN : AddContext(keep)
  BY <1>1, AddContextInv
<1>2. CASE DoneWithContext
  BY <1>2, DoneWithContextInv
<1>3. CASE AbortAll
  BY <1>3, AbortAllInv
<1>4. CASE Tick
  BY <1>4, TickInv
<1>5. CASE Manager
  BY <1>5, ExecuteScriptsInv, ExecuteOrSkipInv, AllExecutedInv DEF Manager
<1>6. CASE Script
  BY <1>6, ScriptYieldInv, ScriptSleepInv, ScriptCreateCoRoutineInv, TerminatedInv
     DEF Script
<1>7. CASE UNCHANGED vars
  BY <1>7 DEF vars, Inv, Executing
<1> QED
  BY <1>1, <1>2, <1>3, <1>4, <1>5, <1>6, <1>7 DEF Next

LEMMA InvImplies == Inv => NoContextLost
<1> SUFFICES ASSUME Inv PROVE NoContextLost
  OBVIOUS
<1>1. ThreadsOK(threads) /\ Apart(threads) /\ Places(threads, free, kept)
  BY DEF Inv, AllPlaced
<1>2. \A ctx : ctx \in Managed <=> Has(threads, ctx)
  BY <1>1, ManagedIsHad
<1>3. \A ctx : Has(threads, ctx) => ctx \in Contexts
  <2> SUFFICES ASSUME NEW t \in 1..Len(threads),
                      NEW i \in 1..Len(threads[t].coRoutines)
               PROVE  threads[t].coRoutines[i] \in Contexts
    BY DEF Has
  <2>1. threads[t].coRoutines \in Seq(Contexts)
    BY <1>1, FieldsOfThread
  <2> QED
    BY <2>1
<1>4. Contexts = free \cup Managed \cup kept
  BY <1>1, <1>2, <1>3 DEF Places
<1>5. free \cap (Managed \cup kept) = {}
  BY <1>1, <1>2 DEF Places
<1> QED
  BY <1>1, <1>4, <1>5 DEF NoContextLost, Apart

LEMMA InvImpliesTypes == Inv => TypeOK
<1> SUFFICES ASSUME Inv PROVE TypeOK
  OBVIOUS
<1>1. ThreadsOK(threads) /\ free \subseteq Contexts /\ kept \subseteq Contexts
  BY DEF Inv, AllPlaced, Places
<1>2. ASSUME NEW t \in 1..Len(threads)
      PROVE  /\ threads[t].coRoutines \in Seq(Contexts) \ {<<>>}
             /\ threads[t].currentCoRoutine \in 1..Len(threads[t].coRoutines)
             /\ threads[t].keep \in Contexts \cup {None}
  <2> DEFINE routines == threads[t].coRoutines
  <2>1. /\ routines \in Seq(Contexts)
        /\ threads[t].currentCoRoutine \in 1..Len(routines)
        /\ threads[t].keep \in Contexts \cup {None}
    BY <1>1, FieldsOfThread
  <2> HIDE DEF routines
  <2>2. routines # <<>>
    BY <2>1
  <2> QED
    BY <2>1, <2>2 DEF routines
<1>3. currentThread \in Nat
  BY DEF Inv, Executing
<1> QED
  BY <1>1, <1>2, <1>3 DEF TypeOK

LEMMA Invariance ==
  ASSUME Careful PROVE Spec => []Inv
<1>1. Inv /\ [Next]_vars => Inv'
  BY NextInv
<1> QED
  BY <1>1, InitInv, PTL DEF Spec

\* A context is in the pool, in one place of one thread, or kept, and what is in the
\* pool nobody else has, for any number of contexts and threads and however scripts
\* yield, sleep, create co-routines and end.
THEOREM NothingLost ==
  ASSUME Careful PROVE Spec => []NoContextLost
BY Invariance, InvImplies, PTL

\* No thread is without a co-routine or at one it does not have, and none of its
\* co-routines is a context that has gone, though threads and co-routines are erased
\* under the indices that go over them.
THEOREM TypesKept ==
  ASSUME Careful PROVE Spec => []TypeOK
BY Invariance, InvImpliesTypes, PTL

-----------------------------------------------------------------------------
\* What ExecuteScripts has come by

\* A thread that has had its turn in this call: it was executed or sleeps.
HadTurn(thread, now) == thread.sleepUntil < now => thread.ran

\* The threads below the index have had their turn, and the one that is executed has it.
TurnsTaken ==
  /\ \A t \in 1..Len(threads) : t < currentThread => HadTurn(threads[t], time)
  /\ executing # 0 => threads[currentThread].ran

\* The index goes on by one thread, if at all, and only after its turn.
LEMMA TurnOver ==
  ASSUME Inv, TurnsTaken, Len(threads') = Len(threads), time' = time,
         currentThread \in 1..Len(threads),
         \A t \in 1..Len(threads) : t # currentThread => threads'[t] = threads[t],
         \/ currentThread' = currentThread
         \/ /\ currentThread' = currentThread + 1
            /\ HadTurn(threads'[currentThread], time),
         executing' # 0 => /\ currentThread' = currentThread
                           /\ threads'[currentThread].ran
  PROVE  TurnsTaken'
<1>1. Len(threads) \in Nat /\ currentThread \in Nat
  BY DEF Inv, Executing, AllPlaced, ThreadsOK
<1>2. ASSUME NEW t \in 1..Len(threads'), t < currentThread'
      PROVE  HadTurn(threads'[t], time')
  <2>1. CASE t = currentThread
    BY <1>1, <1>2, <2>1
  <2>2. CASE t # currentThread
    <3>1. t < currentThread /\ t \in 1..Len(threads) /\ threads'[t] = threads[t]
      BY <1>1, <1>2, <2>2
    <3> QED
      BY <3>1 DEF TurnsTaken
  <2> QED
    BY <2>1, <2>2
<1> QED
  BY <1>2 DEF TurnsTaken

\* Between two calls nothing is to be remembered.
LEMMA BetweenCalls ==
  ASSUME Inv, currentThread = 0, UNCHANGED <<currentThread, executing>>
  PROVE  TurnsTaken'
<1>1. executing = 0
  BY DEF Inv, Executing
<1> QED
  BY <1>1 DEF TurnsTaken

LEMMA ExecuteOrSkipTurn ==
  ASSUME Inv, TurnsTaken, ExecuteOrSkip PROVE TurnsTaken'
<1>1. /\ ThreadsOK(threads) /\ threads \in Seq(Thread)
      /\ currentThread \in 1..Len(threads) /\ executing = 0 /\ time' = time
  BY DEF Inv, AllPlaced, ThreadsOK, ExecuteOrSkip
<1>2. CASE threads[currentThread].sleepUntil < time
  <2> DEFINE thread == [threads[currentThread] EXCEPT !.ran = TRUE]
  <2>1. threads' = [threads EXCEPT ![currentThread] = thread] /\ currentThread' = currentThread
    BY <1>2 DEF ExecuteOrSkip
  <2>2. thread.ran
    BY <1>1 DEF Thread
  <2> HIDE DEF thread
  <2>3. /\ Len(threads') = Len(threads)
        /\ threads'[currentThread] = thread
        /\ \A t \in 1..Len(threads) : t # currentThread => threads'[t] = threads[t]
    BY <1>1, <2>1
  <2> QED
    BY <1>1, <2>1, <2>2, <2>3, TurnOver
<1>3. CASE ~(threads[currentThread].sleepUntil < time)
  <2>1. currentThread' = currentThread + 1 /\ UNCHANGED <<threads, executing>>
    BY <1>3 DEF ExecuteOrSkip
  <2> QED
    BY <1>1, <1>3, <2>1, TurnOver DEF HadTurn
<1> QED
  BY <1>2, <1>3

LEMMA ScriptYieldTurn ==
  ASSUME Careful, Inv, TurnsTaken, ScriptYield PROVE TurnsTaken'
<1> DEFINE old == threads[currentThread]
           thread == NextCoRoutine(old)
<1>1. /\ executing # 0 /\ threads' = [threads EXCEPT ![currentThread] = thread]
      /\ executing' = 0 /\ currentThread' = currentThread + 1 /\ time' = time
  BY DEF ScriptYield, Suspended
<1>2. threads \in Seq(Thread) /\ currentThread \in 1..Len(threads) /\ old \in Thread
  BY <1>1, TheExecuted DEF ThreadsOK
<1>3. thread.ran = old.ran /\ thread.sleepUntil = old.sleepUntil
  BY <1>2 DEF NextCoRoutine, Thread
<1>4. old.ran
  BY <1>1 DEF TurnsTaken
<1> HIDE DEF thread
<1>5. /\ Len(threads') = Len(threads) /\ threads'[currentThread] = thread
      /\ \A t \in 1..Len(threads) : t # currentThread => threads'[t] = threads[t]
  BY <1>1, <1>2
<1>6. threads'[currentThread].ran = old.ran
  BY <1>3, <1>5
<1> QED
  BY <1>1, <1>2, <1>4, <1>5, <1>6, TurnOver DEF HadTurn

\* A thread that is put to sleep sleeps past this moment.
LEMMA ScriptSleepTurn ==
  ASSUME Careful, Inv, TurnsTaken, ScriptSleep PROVE TurnsTaken'
<1>1. /\ executing # 0 /\ executing' = 0 /\ currentThread' = currentThread + 1
      /\ time' = time
  BY DEF ScriptSleep, Suspended
<1>2. /\ Len(threads) \in Nat /\ currentThread \in 1..Len(threads)
      /\ \A t \in 1..Len(threads) :
           Current(threads[t]) = Executed <=> t = currentThread
      /\ threads[currentThread] \in Thread
  BY <1>1, TheExecuted
<1>3. PICK until : threads' = [t \in 1..Len(threads) |->
                                 IF Current(threads[t]) = Executed
                                   THEN [threads[t] EXCEPT !.sleepUntil = until]
                                   ELSE threads[t]]
  BY DEF ScriptSleep
<1>4. /\ Len(threads') = Len(threads)
      /\ \A t \in 1..Len(threads) : t # currentThread => threads'[t] = threads[t]
      /\ threads'[currentThread] = [threads[currentThread] EXCEPT !.sleepUntil = until]
  BY <1>2, <1>3
<1>5. threads[currentThread].ran
  BY <1>1 DEF TurnsTaken
<1>6. threads'[currentThread].ran
  BY <1>2, <1>4, <1>5 DEF Thread
<1> QED
  BY <1>1, <1>2, <1>4, <1>5, <1>6, TurnOver DEF HadTurn

LEMMA ScriptCreateCoRoutineTurn ==
  ASSUME Inv, TurnsTaken, ScriptCreateCoRoutine PROVE TurnsTaken'
<1>1. /\ executing # 0 /\ UNCHANGED <<executing, currentThread, time>>
  BY DEF ScriptCreateCoRoutine
<1>2. /\ Len(threads) \in Nat /\ currentThread \in 1..Len(threads)
      /\ \A t \in 1..Len(threads) :
           Current(threads[t]) = Executed <=> t = currentThread
      /\ threads[currentThread] \in Thread
  BY <1>1, TheExecuted
<1>3. PICK ctx : threads' = [t \in 1..Len(threads) |->
                               IF Current(threads[t]) = Executed
                                 THEN [threads[t] EXCEPT !.coRoutines = Append(@, ctx)]
                                 ELSE threads[t]]
  BY DEF ScriptCreateCoRoutine
<1> DEFINE thread ==
      [threads[currentThread] EXCEPT !.coRoutines = Append(@, ctx)]
<1>4. /\ Len(threads') = Len(threads)
      /\ \A t \in 1..Len(threads) : t # currentThread => threads'[t] = threads[t]
      /\ threads'[currentThread] = thread
  BY <1>2, <1>3
<1>5. threads[currentThread].ran /\ thread.ran = threads[currentThread].ran
  BY <1>1, <1>2 DEF TurnsTaken, Thread
<1> HIDE DEF thread
<1>6. threads'[currentThread].ran
  BY <1>4, <1>5
<1> QED
  BY <1>1, <1>2, <1>4, <1>6, TurnOver

\* The thread that ends is erased and the next one takes its place, which is why the
\* index stays; or the index goes on past a thread that was executed.
LEMMA TerminatedTurn ==
  ASSUME Inv, TurnsTaken, Terminated PROVE TurnsTaken'
<1> DEFINE old == threads[currentThread]
           routines == RemoveAt(ReplaceAt(old.coRoutines, executing, None),
                                old.currentCoRoutine)
<1>1. executing # 0 /\ executing' = 0 /\ time' = time
  BY DEF Terminated
<1>2. /\ ThreadsOK(threads) /\ threads \in Seq(Thread) /\ Len(threads) \in Nat
      /\ currentThread \in 1..Len(threads) /\ old \in Thread
  BY <1>1, TheExecuted DEF ThreadsOK
<1>3. CASE routines = <<>>
  <2>1. threads' = RemoveAt(threads, currentThread) /\ currentThread' = currentThread
    BY <1>3 DEF Terminated, ThreadAfterErase
  <2>2. /\ Len(threads') = Len(threads) - 1
        /\ \A t \in 1..(Len(threads) - 1) :
             threads'[t] = IF t < currentThread THEN threads[t] ELSE threads[t + 1]
    BY <1>2, <2>1, ElementRemoved
  <2>3. ASSUME NEW t \in 1..Len(threads'), t < currentThread'
        PROVE  HadTurn(threads'[t], time')
    <3>1. t \in 1..Len(threads) /\ t < currentThread /\ threads'[t] = threads[t]
      BY <1>2, <2>1, <2>2, <2>3
    <3> QED
      BY <1>1, <3>1 DEF TurnsTaken
  <2> QED
    BY <1>1, <2>3 DEF TurnsTaken
<1>4. CASE routines # <<>>
  <2> DEFINE thread == [old EXCEPT !.coRoutines = routines,
                                   !.currentCoRoutine = IndexAfterErase(@, routines)]
  <2>1. /\ threads' = [threads EXCEPT ![currentThread] = thread]
        /\ currentThread' = currentThread + 1
    BY <1>4 DEF Terminated
  <2>2. thread.ran = old.ran /\ old.ran
    BY <1>1, <1>2 DEF Thread, TurnsTaken
  <2> HIDE DEF thread
  <2>3. /\ Len(threads') = Len(threads) /\ threads'[currentThread] = thread
        /\ \A t \in 1..Len(threads) : t # currentThread => threads'[t] = threads[t]
    BY <1>2, <2>1
  <2>4. threads'[currentThread].ran
    BY <2>2, <2>3
  <2> QED
    BY <1>1, <1>2, <2>1, <2>3, <2>4, TurnOver DEF HadTurn
<1> QED
  BY <1>3, <1>4

LEMMA NextTurn ==
  ASSUME Careful, Inv, TurnsTaken, [Next]_vars PROVE TurnsTaken'
<1>1. CASE \E keep \in BOOLEAN : AddContext(keep)
  BY <1>1, BetweenCalls DEF AddContext
<1>2. CASE DoneWithContext \/ AbortAll \/ Tick
  BY <1>2, BetweenCalls DEF DoneWithContext, AbortAll, Tick
<1>3. CASE ExecuteScripts
  <2>1. executing' = 0 /\ currentThread' = 1
    BY <1>3 DEF ExecuteScripts, Inv, Executing
  <2> QED
    BY <2>1 DEF TurnsTaken
<1>4. CASE ExecuteOrSkip
  BY <1>4, ExecuteOrSkipTurn
<1>5. CASE AllExecuted
  <2>1. executing' = 0 /\ currentThread' = 0
    BY <1>5 DEF AllExecuted, Inv, Executing, AllPlaced, ThreadsOK
  <2> QED
    BY <2>1 DEF TurnsTaken
<1>6. CASE Script
  BY <1>6, ScriptYieldTurn, ScriptSleepTurn, ScriptCreateCoRoutineTurn, TerminatedTurn
     DEF Script
<1>7. CASE UNCHANGED vars
  BY <1>7 DEF vars, TurnsTaken
<1> QED
  BY <1>1, <1>2, <1>3, <1>4, <1>5, <1>6, <1>7 DEF Next, Manager

\* No call of ExecuteScripts passes over a thread that is awake, though a script may
\* end its thread, put it to sleep or create co-routines while the loop stands at it,
\* for any number of threads and co-routines.
THEOREM NoThreadPassedOver ==
  ASSUME Careful PROVE Spec => EveryThreadRan
<1>1. Init => TurnsTaken
  BY DEF Init, TurnsTaken
<1>2. Inv /\ TurnsTaken /\ [Next]_vars => TurnsTaken'
  BY NextTurn
<1>3. ASSUME Inv, TurnsTaken, AllExecuted, NEW t \in 1..Len(threads),
             threads[t].sleepUntil < time
      PROVE  threads[t].ran
  <2>1. t < currentThread
    BY <1>3 DEF AllExecuted, Inv, Executing, AllPlaced, ThreadsOK
  <2> QED
    BY <1>3, <2>1 DEF TurnsTaken, HadTurn
<1> DEFINE Passes == AllExecuted => \A t \in 1..Len(threads) :
                       threads[t].sleepUntil < time => threads[t].ran
<1>4. Inv /\ TurnsTaken => [Passes]_vars
  BY <1>3
<1> HIDE DEF Passes
<1>5. Spec => [][Passes]_vars
  BY <1>1, <1>2, <1>4, Invariance, PTL DEF Spec
<1> QED
  BY <1>5 DEF EveryThreadRan, Passes
=============================================================================
