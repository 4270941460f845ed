-------------------------- MODULE DataEvents_proofs --------------------------
(***************************************************************************)
(* The adapter reads back what the engine has written, however writes are  *)
(* merged into data events: the texts of a location and of a number mean   *)
(* what they were made of, and the lines of a data event are at every      *)
(* moment those of whole messages.                                         *)
(***************************************************************************)
EXTENDS DataEvents, SequenceTheorems, WellFoundedInduction, TLAPS

-----------------------------------------------------------------------------
\* Numbers

\* A nonempty set of naturals has a least element.
LEMMA LeastNatural ==
  ASSUME NEW T \in SUBSET Nat, T # {}
  PROVE  \E x \in T : \A y \in T : x <= y
<1> DEFINE R == OpToRel(<, Nat)
<1>1. IsWellFoundedOn(R, Nat)
  BY NatLessThanWellFounded
<1>2. \A x, y \in Nat : y < x => <<y, x>> \in R
  BY DEF OpToRel
<1> HIDE DEF R
<1>3. PICK x \in T : \A y \in T : <<y, x>> \notin R
  BY <1>1, WFMin, Zenon
<1>4. x \in Nat /\ \A y \in T : y \in Nat /\ ~(y < x)
  BY <1>2, <1>3
<1> QED
  BY <1>3, <1>4

\* A set of naturals closed under counting has them all.
LEMMA AllNaturals ==
  ASSUME NEW T, 0 \in T, \A n \in Nat : n \in T => n + 1 \in T
  PROVE  Nat \subseteq T
<1> SUFFICES ASSUME Nat \ T # {} PROVE FALSE
  OBVIOUS
<1>1. PICK x \in Nat \ T : \A y \in Nat \ T : x <= y
  BY LeastNatural
<1>2. x # 0 /\ x \in Nat
  BY <1>1
<1>3. x - 1 \in Nat /\ ~(x <= x - 1) /\ (x - 1) + 1 = x
  BY <1>2
<1>4. x - 1 \in T
  BY <1>1, <1>3
<1> QED
  BY <1>1, <1>3, <1>4

\* And so has one closed under counting from all that is below.
LEMMA AllFromBelow ==
  ASSUME NEW T, \A n \in Nat : (\A m \in Nat : m < n => m \in T) => n \in T
  PROVE  Nat \subseteq T
<1> SUFFICES ASSUME Nat \ T # {} PROVE FALSE
  OBVIOUS
<1>1. PICK x \in Nat \ T : \A y \in Nat \ T : x <= y
  BY LeastNatural
<1>2. \A m \in Nat : m < x => m \in T
  BY <1>1
<1> QED
  BY <1>1, <1>2

\* The recursion of Value, over any start of the digits.
ValueOn(f, d, n) ==
  f = [k \in 0..n |-> IF k = 0 THEN 0 ELSE 10 * f[k - 1] + DigitValue(d[k])]

LEMMA ValueExists ==
  ASSUME NEW d, NEW n \in Nat
  PROVE  \E f : ValueOn(f, d, n)
<1> DEFINE T == {m \in Nat : \E f : ValueOn(f, d, m)}
<1>1. 0 \in T
  <2>1. ValueOn([k \in 0..0 |-> 0], d, 0)
    BY DEF ValueOn
  <2> QED
    BY <2>1
<1>2. ASSUME NEW m \in Nat, m \in T
      PROVE  m + 1 \in T
  <2>1. PICK f : ValueOn(f, d, m)
    BY <1>2
  <2> DEFINE next == 10 * f[m] + DigitValue(d[m + 1])
             g == [k \in 0..m + 1 |-> IF k <= m THEN f[k] ELSE next]
  <2>2. \A k \in 0..m : f[k] = IF k = 0 THEN 0 ELSE 10 * f[k - 1] + DigitValue(d[k])
    BY <2>1 DEF ValueOn
  <2>3. ASSUME NEW k \in 0..m + 1
        PROVE  g[k] = IF k = 0 THEN 0 ELSE 10 * g[k - 1] + DigitValue(d[k])
    <3>1. CASE k <= m
      <4>1. g[k] = f[k] /\ (k # 0 => g[k - 1] = f[k - 1])
        BY <3>1
      <4> QED
        BY <2>2, <3>1, <4>1
    <3>2. CASE k = m + 1
      <4>1. g[k] = next /\ g[k - 1] = f[m] /\ k # 0
        BY <3>2
      <4> QED
        BY <3>2, <4>1
    <3> QED
      BY <3>1, <3>2
  <2>4. g = [k \in 0..m + 1 |-> g[k]]
    OBVIOUS
  <2> HIDE DEF g
  <2>5. g = [k \in 0..m + 1 |-> IF k = 0 THEN 0 ELSE 10 * g[k - 1] + DigitValue(d[k])]
    BY <2>3, <2>4
  <2>6. ValueOn(g, d, m + 1)
    BY <2>5 DEF ValueOn
  <2> QED
    BY <2>6
<1> HIDE DEF T
<1>3. Nat \subseteq T
  BY <1>1, <1>2, AllNaturals
<1> QED
  BY <1>3 DEF T

\* Two of them agree as far as their digits do.
LEMMA ValuesAgree ==
  ASSUME NEW d, NEW e, NEW m \in Nat, NEW n \in Nat, NEW f, NEW g, NEW p \in Nat,
         p <= m, p <= n, ValueOn(f, d, m), ValueOn(g, e, n),
         \A k \in 1..p : d[k] = e[k]
  PROVE  f[p] = g[p]
<1> DEFINE T == {k \in Nat : k <= p => f[k] = g[k]}
<1>1. \A k \in 0..m : f[k] = IF k = 0 THEN 0 ELSE 10 * f[k - 1] + DigitValue(d[k])
  BY DEF ValueOn
<1>2. \A k \in 0..n : g[k] = IF k = 0 THEN 0 ELSE 10 * g[k - 1] + DigitValue(e[k])
  BY DEF ValueOn
<1>3. 0 \in T
  BY <1>1, <1>2
<1>4. ASSUME NEW k \in Nat, k \in T
      PROVE  k + 1 \in T
  <2> SUFFICES ASSUME k + 1 <= p PROVE f[k + 1] = g[k + 1]
    OBVIOUS
  <2>1. f[k] = g[k] /\ k + 1 # 0 /\ (k + 1) - 1 = k
    BY <1>4
  <2>2. f[k + 1] = 10 * f[k] + DigitValue(d[k + 1])
    BY <1>1, <2>1
  <2>3. g[k + 1] = 10 * g[k] + DigitValue(e[k + 1])
    BY <1>2, <2>1
  <2>4. d[k + 1] = e[k + 1]
    OBVIOUS
  <2> QED
    BY <2>1, <2>2, <2>3, <2>4
<1> HIDE DEF T
<1>5. Nat \subseteq T
  BY <1>3, <1>4, AllNaturals
<1> QED
  BY <1>5 DEF T

LEMMA ValueIs ==
  ASSUME NEW d, Len(d) \in Nat
  PROVE  \E f : ValueOn(f, d, Len(d)) /\ Value(d) = f[Len(d)]
<1> DEFINE v == CHOOSE f : ValueOn(f, d, Len(d))
<1>1. ValueOn(v, d, Len(d))
  BY ValueExists
<1>2. Value(d) = v[Len(d)]
  BY DEF Value, ValueOn
<1> QED
  BY <1>1, <1>2

DigitSet == {Digits[i] : i \in 1..10}

\* One more digit is ten times as much, and that digit.
LEMMA ValueOfAppend ==
  ASSUME NEW d \in Seq(DigitSet), NEW c \in DigitSet
  PROVE  Value(Append(d, c)) = 10 * Value(d) + DigitValue(c)
<1> DEFINE e == Append(d, c)
           n == Len(d)
<1>1. n \in Nat /\ Len(e) = n + 1 /\ e[n + 1] = c /\ \A k \in 1..n : e[k] = d[k]
  OBVIOUS
<1> HIDE DEF e, n
<1>2. PICK f : ValueOn(f, d, n) /\ Value(d) = f[n]
  BY <1>1, ValueIs DEF n
<1>3. PICK g : ValueOn(g, e, n + 1) /\ Value(e) = g[n + 1]
  BY <1>1, ValueIs
<1>4. g[n + 1] = IF n + 1 = 0 THEN 0 ELSE 10 * g[(n + 1) - 1] + DigitValue(e[n + 1])
  BY <1>1, <1>3 DEF ValueOn
<1>5. g[n] = f[n]
  BY <1>1, <1>2, <1>3, ValuesAgree
<1>6. (n + 1) - 1 = n /\ n + 1 # 0
  BY <1>1
<1> QED
  BY <1>1, <1>2, <1>3, <1>4, <1>5, <1>6 DEF e

LEMMA ValueOfOne ==
  ASSUME NEW c \in DigitSet
  PROVE  Value(<<c>>) = DigitValue(c)
<1>1. Len(<<c>>) = 1 /\ <<c>>[1] = c
  OBVIOUS
<1>2. PICK f : ValueOn(f, <<c>>, 1) /\ Value(<<c>>) = f[1]
  BY <1>1, ValueIs
<1>3. f[0] = 0 /\ f[1] = 10 * f[0] + DigitValue(<<c>>[1])
  BY <1>2 DEF ValueOn
<1>4. DigitValue(c) \in Int
  <2>1. \E i \in DOMAIN Digits : Digits[i] = c
    BY DEF DigitSet, Digits
  <2> QED
    BY <2>1 DEF DigitValue, Digits
<1> QED
  BY <1>1, <1>2, <1>3, <1>4

LEMMA DigitOf ==
  ASSUME NEW i \in 0..9
  PROVE  /\ Digits[i + 1] \in DigitSet
         /\ DigitValue(Digits[i + 1]) = i
         /\ IsDigit(Digits[i + 1])
<1>1. \A j, k \in DOMAIN Digits : Digits[j] = Digits[k] => j = k
  BY DEF Digits
<1>2. DOMAIN Digits = 1..10
  BY DEF Digits
<1>3. i + 1 \in DOMAIN Digits
  BY <1>2
<1>4. (CHOOSE j \in DOMAIN Digits : Digits[j] = Digits[i + 1]) = i + 1
  BY <1>1, <1>3
<1>5. Digits[i + 1] \in DigitSet
  BY DEF DigitSet
<1>6. DigitValue(Digits[i + 1]) = (i + 1) - 1
  BY <1>4 DEF DigitValue
<1>7. IsDigit(Digits[i + 1])
  BY <1>3 DEF IsDigit
<1> QED
  BY <1>5, <1>6, <1>7

-----------------------------------------------------------------------------
\* The recursion of NumberText.

TextOn(f, n) ==
  f = [m \in 0..n |-> IF m < 10 THEN <<Digits[m + 1]>>
                      ELSE Append(f[m \div 10], Digits[(m % 10) + 1])]

LEMMA Tenth ==
  ASSUME NEW n \in Nat, n >= 10
  PROVE  /\ n \div 10 \in Nat /\ n \div 10 < n
         /\ n % 10 \in 0..9 /\ n = 10 * (n \div 10) + (n % 10)
  OBVIOUS

LEMMA TextExists ==
  ASSUME NEW n \in Nat
  PROVE  \E f : TextOn(f, n)
<1> DEFINE T == {m \in Nat : \E f : TextOn(f, m)}
<1>1. 0 \in T
  <2>1. TextOn([m \in 0..0 |-> <<Digits[m + 1]>>], 0)
    BY DEF TextOn
  <2> QED
    BY <2>1
<1>2. ASSUME NEW m \in Nat, m \in T
      PROVE  m + 1 \in T
  <2>1. PICK f : TextOn(f, m)
    BY <1>2
  <2> DEFINE Step(h, k) == IF k < 10 THEN <<Digits[k + 1]>>
                           ELSE Append(h[k \div 10], Digits[(k % 10) + 1])
             g == [k \in 0..m + 1 |-> IF k <= m THEN f[k] ELSE Step(f, m + 1)]
  <2>2. \A k \in 0..m : f[k] = Step(f, k)
    BY <2>1 DEF TextOn
  <2>3. \A k \in 0..m + 1 : k >= 10 => g[k \div 10] = f[k \div 10]
    <3>1. \A k \in 0..m + 1 : k >= 10 => k \div 10 \in 0..m
      BY Tenth
    <3> QED
      BY <3>1
  <2>4. \A k \in 0..m + 1 : g[k] = Step(f, k)
    BY <2>2
  <2>5. g = [k \in 0..m + 1 |-> g[k]]
    OBVIOUS
  <2> HIDE DEF g
  <2>6. \A k \in 0..m + 1 : g[k] = Step(g, k)
    BY <2>3, <2>4
  <2>7. g = [k \in 0..m + 1 |-> Step(g, k)]
    BY <2>5, <2>6
  <2>8. TextOn(g, m + 1)
    BY <2>7 DEF TextOn
  <2> QED
    BY <2>8
<1> HIDE DEF T
<1>3. Nat \subseteq T
  BY <1>1, <1>2, AllNaturals
<1> QED
  BY <1>3 DEF T

LEMMA TextsAgree ==
  ASSUME NEW m \in Nat, NEW n \in Nat, NEW f, NEW g, TextOn(f, m), TextOn(g, n),
         NEW p \in Nat, p <= m, p <= n
  PROVE  f[p] = g[p]
<1> DEFINE Step(h, k) == IF k < 10 THEN <<Digits[k + 1]>>
                         ELSE Append(h[k \div 10], Digits[(k % 10) + 1])
           T == {k \in Nat : k <= m /\ k <= n => f[k] = g[k]}
<1>1. /\ \A k \in 0..m : f[k] = Step(f, k)
      /\ \A k \in 0..n : g[k] = Step(g, k)
  BY DEF TextOn
<1>2. ASSUME NEW k \in Nat, \A j \in Nat : j < k => j \in T
      PROVE  k \in T
  <2> SUFFICES ASSUME k <= m, k <= n PROVE f[k] = g[k]
    OBVIOUS
  <2>1. f[k] = Step(f, k) /\ g[k] = Step(g, k)
    BY <1>1
  <2>2. k >= 10 => f[k \div 10] = g[k \div 10]
    <3> SUFFICES ASSUME k >= 10 PROVE f[k \div 10] = g[k \div 10]
      OBVIOUS
    <3>1. k \div 10 \in Nat /\ k \div 10 < k
      BY Tenth
    <3>2. k \div 10 \in T /\ k \div 10 <= m /\ k \div 10 <= n
      BY <1>2, <3>1
    <3> QED
      BY <3>2
  <2> QED
    BY <2>1, <2>2
<1> HIDE DEF T
<1>3. Nat \subseteq T
  BY <1>2, AllFromBelow
<1> QED
  BY <1>3 DEF T

LEMMA NumberTextIs ==
  ASSUME NEW n \in Nat
  PROVE  NumberText[n] = IF n < 10 THEN <<Digits[n + 1]>>
                         ELSE Append(NumberText[n \div 10], Digits[(n % 10) + 1])
<1> DEFINE Step(h, k) == IF k < 10 THEN <<Digits[k + 1]>>
                         ELSE Append(h[k \div 10], Digits[(k % 10) + 1])
           on[k \in Nat] == CHOOSE f : TextOn(f, k)
           g == [k \in Nat |-> on[k][k]]
<1>1. \A k \in Nat : TextOn(on[k], k)
  BY TextExists
<1> HIDE DEF on
<1>2. \A k \in Nat : on[k][k] = Step(on[k], k)
  <2> SUFFICES ASSUME NEW k \in Nat, NEW h, TextOn(h, k) PROVE h[k] = Step(h, k)
    BY <1>1
  <2>1. \A m \in 0..k : h[m] = Step(h, m)
    BY DEF TextOn
  <2> QED
    BY <2>1
<1>3. ASSUME NEW k \in Nat
      PROVE  g[k] = Step(g, k)
  <2>1. g[k] = Step(on[k], k)
    BY <1>2
  <2>2. k >= 10 => on[k][k \div 10] = g[k \div 10]
    <3> SUFFICES ASSUME k >= 10 PROVE on[k][k \div 10] = on[k \div 10][k \div 10]
      BY Tenth
    <3>1. k \div 10 \in Nat /\ k \div 10 <= k
      BY Tenth
    <3> QED
      BY <1>1, <3>1, TextsAgree
  <2> QED
    BY <2>1, <2>2
<1>4. g = [k \in Nat |-> g[k]]
  OBVIOUS
<1> HIDE DEF g
<1>5. g = [k \in Nat |-> Step(g, k)]
  BY <1>3, <1>4
<1>6. NumberText = [k \in Nat |-> Step(NumberText, k)]
  BY <1>5 DEF NumberText
<1> QED
  BY <1>6

\* A number's text is digits, and their value is the number.
LEMMA NumberTextReads ==
  ASSUME NEW n \in Nat
  PROVE  /\ NumberText[n] \in Seq(DigitSet)
         /\ NumberText[n] # <<>>
         /\ Value(NumberText[n]) = n
<1> DEFINE T == {k \in Nat : /\ NumberText[k] \in Seq(DigitSet)
                             /\ NumberText[k] # <<>>
                             /\ Value(NumberText[k]) = k}
<1>1. ASSUME NEW k \in Nat, \A j \in Nat : j < k => j \in T
      PROVE  k \in T
  <2>1. CASE k < 10
    <3>1. NumberText[k] = <<Digits[k + 1]>>
      BY <2>1, NumberTextIs
    <3>2. Digits[k + 1] \in DigitSet /\ DigitValue(Digits[k + 1]) = k
      BY <2>1, DigitOf
    <3>3. Value(<<Digits[k + 1]>>) = k
      BY <3>2, ValueOfOne
    <3>4. <<Digits[k + 1]>> \in Seq(DigitSet) /\ <<Digits[k + 1]>> # <<>>
      BY <3>2
    <3> QED
      BY <3>1, <3>3, <3>4
  <2>2. CASE k >= 10
    <3> DEFINE j == k \div 10
               c == Digits[(k % 10) + 1]
    <3>1. j \in Nat /\ j < k /\ k % 10 \in 0..9 /\ k = 10 * j + (k % 10)
      BY <2>2, Tenth
    <3>2. NumberText[k] = Append(NumberText[j], c)
      <4>1. ~(k < 10)
        BY <2>2
      <4> QED
        BY <4>1, NumberTextIs
    <3>3. c \in DigitSet /\ DigitValue(c) = k % 10
      BY <3>1, DigitOf
    <3> HIDE DEF c, j
    <3>4. NumberText[j] \in Seq(DigitSet) /\ Value(NumberText[j]) = j
      BY <1>1, <3>1
    <3>5. Value(Append(NumberText[j], c)) = 10 * j + (k % 10)
      BY <3>3, <3>4, ValueOfAppend
    <3>6. Append(NumberText[j], c) \in Seq(DigitSet) /\ Append(NumberText[j], c) # <<>>
      BY <3>3, <3>4
    <3> QED
      BY <3>1, <3>2, <3>5, <3>6
  <2> QED
    BY <2>1, <2>2
<1> HIDE DEF T
<1>2. Nat \subseteq T
  BY <1>1, AllFromBelow
<1> QED
  BY <1>2 DEF T

-----------------------------------------------------------------------------
\* Searching in a text

\* SelectInSeq finds the first place, or 0.
LEMMA FirstPlace ==
  ASSUME NEW s, Len(s) \in Nat, NEW c
  PROVE  LET i == SelectInSeq(s, LAMBDA x : x = c)
         IN  \/ i = 0 /\ \A j \in 1..Len(s) : s[j] # c
             \/ i \in 1..Len(s) /\ s[i] = c /\ \A j \in 1..i - 1 : s[j] # c
<1> DEFINE I == {i \in 1..Len(s) : s[i] = c}
<1>1. CASE I = {}
  BY <1>1 DEF SelectInSeq
<1>2. CASE I # {}
  <2>1. I \in SUBSET Nat
    OBVIOUS
  <2>2. \E x \in I : \A y \in I : x <= y
    BY <1>2, <2>1, LeastNatural
  <2>3. SelectInSeq(s, LAMBDA x : x = c) = Min(I)
    BY <1>2 DEF SelectInSeq
  <2>4. Min(I) \in I /\ \A y \in I : Min(I) <= y
    BY <2>2 DEF Min
  <2> DEFINE m == Min(I)
  <2>5. m \in 1..Len(s) /\ s[m] = c
    BY <2>4
  <2>6. \A j \in 1..m - 1 : s[j] # c
    <3> SUFFICES ASSUME NEW j \in 1..m - 1, s[j] = c PROVE FALSE
      OBVIOUS
    <3>1. j \in 1..Len(s) /\ ~(m <= j)
      BY <2>5
    <3> QED
      BY <2>4, <3>1
  <2> HIDE DEF m
  <2> QED
    BY <2>3, <2>5, <2>6 DEF m
<1> QED
  BY <1>1, <1>2

\* The text has no such character.
Lacks(text, c) == \A i \in 1..Len(text) : text[i] # c

Joins(text, a, c, b) == text = a \o <<c>> \o b

\* What UpTo and After make of a text with c in it, and of one without.
LEMMA AtSeparator ==
  ASSUME NEW C, NEW a \in Seq(C), NEW b \in Seq(C), NEW c \in C, Lacks(a, c),
         NEW t, Joins(t, a, c, b)
  PROVE  /\ UpTo(t, c) = a
         /\ After(t, c) = b
         /\ t \in Seq(C)
         /\ ~Lacks(t, c)
<1> DEFINE i == SelectInSeq(t, LAMBDA x : x = c)
           n == Len(a)
<1>1. /\ t \in Seq(C) /\ n \in Nat /\ Len(b) \in Nat /\ Len(t) = n + 1 + Len(b)
      /\ \A j \in 1..n : t[j] = a[j]
      /\ t[n + 1] = c
      /\ \A j \in 1..Len(b) : t[n + 1 + j] = b[j]
  BY DEF Joins
<1>2. \/ i = 0 /\ \A j \in 1..Len(t) : t[j] # c
      \/ i \in 1..Len(t) /\ t[i] = c /\ \A j \in 1..i - 1 : t[j] # c
  <2>1. Len(t) \in Nat
    BY <1>1
  <2> QED
    BY <2>1, FirstPlace
<1>3. UpTo(t, c) = (IF i = 0 THEN t ELSE SubSeq(t, 1, i - 1))
  BY DEF UpTo
<1>4. After(t, c) = (IF i = 0 THEN <<>> ELSE SubSeq(t, i + 1, Len(t)))
  BY DEF After, From
<1> HIDE DEF i, n
<1>5. i = n + 1
  <2>1. n + 1 \in 1..Len(t) /\ i # 0
    BY <1>1, <1>2
  <2>2. i \in 1..Len(t) /\ t[i] = c /\ \A j \in 1..i - 1 : t[j] # c
    BY <1>2, <2>1
  <2>3. ~(n + 1 < i)
    BY <1>1, <2>1, <2>2
  <2>4. ~(i < n + 1)
    <3>1. \A j \in 1..n : t[j] # c
      BY <1>1 DEF n, Lacks
    <3> QED
      BY <1>1, <2>2, <3>1
  <2> QED
    BY <1>1, <2>2, <2>3, <2>4
<1>6. SubSeq(t, 1, n) = a
  <2>1. SubSeq(t, 1, n) \in Seq(C) /\ Len(SubSeq(t, 1, n)) = n
    BY <1>1
  <2>2. \A j \in 1..n : SubSeq(t, 1, n)[j] = a[j]
    BY <1>1
  <2> QED
    BY <2>1, <2>2 DEF n
<1>7. SubSeq(t, n + 2, Len(t)) = b
  <2> DEFINE r == SubSeq(t, n + 2, Len(t))
  <2>1. r \in Seq(C) /\ Len(r) = Len(b)
    <3>1. n + 2 \in Int /\ Len(t) \in Int /\ \A j \in n + 2..Len(t) : t[j] \in C
      BY <1>1
    <3>2. /\ r \in Seq(C)
          /\ Len(r) = IF n + 2 <= Len(t) THEN Len(t) - (n + 2) + 1 ELSE 0
      BY <3>1, SubSeqProperties
    <3>3. Len(t) - (n + 2) + 1 = Len(b) /\ (n + 2 <= Len(t) \/ Len(b) = 0)
      BY <1>1
    <3> HIDE DEF r
    <3> QED
      BY <3>2, <3>3
  <2>2. \A j \in 1..Len(b) : r[j] = b[j]
    BY <1>1
  <2> HIDE DEF r
  <2>3. r = b
    BY <2>1, <2>2, SeqEqual
  <2> QED
    BY <2>3 DEF r
<1>8. i # 0 /\ i - 1 = n /\ i + 1 = n + 2
  BY <1>1, <1>5
<1>9. ~Lacks(t, c)
  <2>1. n + 1 \in 1..Len(t)
    BY <1>1
  <2> QED
    BY <1>1, <2>1 DEF Lacks
<1>10. UpTo(t, c) = a /\ After(t, c) = b
  BY <1>3, <1>4, <1>6, <1>7, <1>8
<1> QED
  BY <1>1, <1>9, <1>10

LEMMA NoSeparator ==
  ASSUME NEW a, Len(a) \in Nat, NEW c, Lacks(a, c)
  PROVE  UpTo(a, c) = a
<1>1. SelectInSeq(a, LAMBDA x : x = c) = 0
  BY FirstPlace DEF Lacks
<1> QED
  BY <1>1 DEF UpTo

\* parseInt of what std::to_string has made of a number is that number.
THEOREM NumberReadsBack ==
  ASSUME NEW n \in Nat
  PROVE  LeadingNumber(NumberText[n]) = n
<1> DEFINE t == NumberText[n]
<1>1. t \in Seq(DigitSet) /\ t # <<>> /\ Value(t) = n
  BY NumberTextReads
<1> HIDE DEF t
<1>2. \A i \in 1..Len(t) : IsDigit(t[i])
  <2>1. \A c \in DigitSet : IsDigit(c)
    BY DEF DigitSet, IsDigit, Digits
  <2> QED
    BY <1>1, <2>1
<1>3. SelectInSeq(t, LAMBDA c : ~IsDigit(c)) = 0
  BY <1>2 DEF SelectInSeq
<1>4. LeadingNumber(t) = n
  BY <1>1, <1>3 DEF LeadingNumber
<1> QED
  BY <1>4 DEF t

\* No file name a stop is reported with has a comma.
NoCommas == \A name \in Names : Lacks(name, ",")

Locations == [path : Names, line : Lines]
Words == {"GET_BREAKPOINTS", "STOP", "VARIABLES", "initial_player_life", "123",
          "player_damage", "0xFFE0", "player_life", "987"}
Chars == STRING \cup DigitSet \cup {","} \cup Words

\* The line of a location means the location.
LEMMA LocationReadsBack ==
  ASSUME NoCommas, NEW loc \in Locations
  PROVE  LET t == LocationText(loc)
         IN  /\ t \in Seq(Chars)
             /\ \E i \in DOMAIN t : t[i] = ","
             /\ UpTo(t, ",") = loc.path
             /\ LeadingNumber(UpTo(After(t, ","), ",")) = loc.line
<1> DEFINE a == loc.path
           b == NumberText[loc.line]
           c == ","
           t == a \o <<c>> \o b
<1>1. loc.line \in Nat /\ a \in Names /\ a \in Seq(STRING)
  BY DataAssumption DEF Locations
<1>2. b \in Seq(DigitSet)
  BY <1>1, NumberTextReads
<1>3. LeadingNumber(b) = loc.line
  BY <1>1, NumberReadsBack
<1>4. Lacks(a, c)
  BY <1>1 DEF NoCommas
<1>5. LocationText(loc) = t
  BY DEF LocationText
<1>6. a \in Seq(Chars) /\ b \in Seq(Chars) /\ c \in Chars
  <2>1. STRING \subseteq Chars /\ DigitSet \subseteq Chars /\ c \in Chars
    BY DEF Chars
  <2> HIDE DEF a, b
  <2> QED
    BY <1>1, <1>2, <2>1, SeqMonotonic
<1>7. c \notin DigitSet
  <2>1. \A i \in 1..10 : Digits[i] \in {"0", "1", "2", "3", "4", "5", "6", "7", "8", "9"}
    BY DEF Digits
  <2>2. c \notin {"0", "1", "2", "3", "4", "5", "6", "7", "8", "9"}
    BY Zenon
  <2> HIDE DEF c
  <2> QED
    BY <2>1, <2>2 DEF DigitSet
<1> HIDE DEF a, b, c
<1>8. /\ UpTo(t, c) = a /\ After(t, c) = b
      /\ t \in Seq(Chars) /\ \E i \in DOMAIN t : t[i] = c
  <2>1. Joins(t, a, c, b)
    BY DEF Joins
  <2> HIDE DEF t
  <2>2. /\ UpTo(t, c) = a /\ After(t, c) = b
        /\ t \in Seq(Chars) /\ ~Lacks(t, c)
    BY <1>4, <1>6, <2>1, AtSeparator
  <2> QED
    BY <2>2 DEF Lacks
<1>9. UpTo(b, c) = b
  <2>1. Len(b) \in Nat /\ Lacks(b, c)
    <3>1. \A i \in 1..Len(b) : b[i] \in DigitSet
      BY <1>2
    <3>2. Len(b) \in Nat
      BY <1>2
    <3> QED
      BY <1>7, <3>1, <3>2 DEF Lacks
  <2> QED
    BY <2>1, NoSeparator
<1> HIDE DEF t
<1> QED
  BY <1>3, <1>5, <1>8, <1>9 DEF a, c

-----------------------------------------------------------------------------
\* Lines and the messages they are of

\* What a call of handleSocketData handles: a message, or the empty line that
\* split leaves.
Kinds == {"GET_BREAKPOINTS", "STOP", "VARIABLES", "empty"}

LinesOf(k, loc) ==
  CASE k = "GET_BREAKPOINTS" -> << <<"GET_BREAKPOINTS">> >>
    [] k = "STOP" -> << <<"STOP">>, LocationText(loc) >>
    [] k = "VARIABLES" -> VariablesLines
    [] OTHER -> << <<>> >>

Size(k) == CASE k = "STOP" -> 2 [] k = "VARIABLES" -> 8 [] OTHER -> 1

\* A place between two messages of all that is written: how many lines, stops,
\* requests and lists of variables are in front of it.
Places == [line : Nat, stop : Nat, ask : Nat, vars : Nat]

OneIf(b) == IF b THEN 1 ELSE 0
Past(p, k) == [line |-> p.line + Size(k),
               stop |-> p.stop + OneIf(k = "STOP"),
               ask  |-> p.ask + OneIf(k = "GET_BREAKPOINTS"),
               vars |-> p.vars + OneIf(k = "VARIABLES")]

Holds(lines, n, text) == \A j \in 1..Len(text) : lines[n + j] = text[j]

\* The lines between places p and q are those of messages of kinds K, with the
\* places P between them; s are the locations of all stops.
Cut(lines, s, K, P, p, q) ==
  /\ K \in Seq(Kinds) /\ P \in [1..Len(K) + 1 -> Places]
  /\ P[1] = p /\ P[Len(K) + 1] = q
  /\ q.line = p.line + Len(lines)
  /\ \A i \in 1..Len(K) + 1 :
       /\ p.line <= P[i].line /\ P[i].line <= q.line
       /\ P[i].stop <= q.stop /\ P[i].vars <= q.vars
  /\ \A i \in 1..Len(K) :
       /\ P[i + 1] = Past(P[i], K[i])
       /\ Holds(lines, P[i].line - p.line, LinesOf(K[i], s[P[i].stop + 1]))

Between(lines, s, p, q) == \E K, P : Cut(lines, s, K, P, p, q)

LEMMA SizeIs ==
  ASSUME NEW k \in Kinds, NEW loc
  PROVE  Len(LinesOf(k, loc)) = Size(k) /\ Size(k) \in Nat /\ Size(k) >= 1
<1>1. CASE k = "GET_BREAKPOINTS"
  BY <1>1 DEF LinesOf, Size
<1>2. CASE k = "STOP"
  BY <1>2 DEF LinesOf, Size
<1>3. CASE k = "VARIABLES"
  <2>1. Len(VariablesLines) = 8
    BY DEF VariablesLines
  <2> QED
    BY <1>3, <2>1 DEF LinesOf, Size
<1>4. CASE k = "empty"
  BY <1>4 DEF LinesOf, Size
<1> QED
  BY <1>1, <1>2, <1>3, <1>4 DEF Kinds

LEMMA NatOrder ==
  ASSUME NEW a \in Nat, NEW b \in Nat, NEW c \in Nat, a <= b, b <= c
  PROVE  a <= c
  OBVIOUS

LEMMA PlaceParts ==
  ASSUME NEW p \in Places
  PROVE  p.line \in Nat /\ p.stop \in Nat /\ p.ask \in Nat /\ p.vars \in Nat
  BY DEF Places

LEMMA PastIs ==
  ASSUME NEW p \in Places, NEW k \in Kinds
  PROVE  /\ Past(p, k) \in Places
         /\ Past(p, k).line = p.line + Size(k)
         /\ Past(p, k).line > p.line
         /\ Past(p, k).stop \in {p.stop, p.stop + 1}
         /\ k = "STOP" => Past(p, k).stop = p.stop + 1
         /\ Past(p, k).vars >= p.vars
  BY SizeIs DEF Past, Places, OneIf

\* No lines are between a place and itself, and nowhere else.
LEMMA BetweenNone ==
  ASSUME NEW p \in Places, NEW s
  PROVE  Between(<<>>, s, p, p)
<1> DEFINE P == [i \in 1..1 |-> p]
<1>1. /\ <<>> \in Seq(Kinds) /\ Len(<<>>) = 0
      /\ P \in [1..1 -> Places] /\ P[1] = p
  OBVIOUS
<1>2. p.line \in Nat /\ p.stop \in Nat /\ p.vars \in Nat
  BY DEF Places
<1> HIDE DEF P
<1>3. Cut(<<>>, s, <<>>, P, p, p)
  BY <1>1, <1>2 DEF Cut
<1> QED
  BY <1>1, <1>3 DEF Between

LEMMA NoneBetween ==
  ASSUME NEW s, NEW p, NEW q, NEW lines, lines = <<>>, Between(lines, s, p, q)
  PROVE  p = q
<1>1. PICK K, P : Cut(lines, s, K, P, p, q)
  BY DEF Between
<1> K \in Seq(Kinds) /\ P \in [1..Len(K) + 1 -> Places]
  BY <1>1 DEF Cut
<1>2. CASE Len(K) = 0
  BY <1>1, <1>2 DEF Cut
<1>3. CASE Len(K) # 0
  <2>1. 1 \in 1..Len(K) /\ 2 \in 1..Len(K) + 1 /\ 1 \in 1..Len(K) + 1
    BY <1>3
  <2>2. P[1] = p /\ P[2] = Past(p, K[1]) /\ P[2].line <= q.line
    BY <1>1, <2>1 DEF Cut
  <2>3. p \in Places /\ K[1] \in Kinds
    BY <2>1, <2>2
  <2>4. q.line = p.line + 0
    BY <1>1 DEF Cut
  <2>5. Past(p, K[1]).line > p.line /\ p.line \in Nat /\ Past(p, K[1]).line \in Nat
    BY <2>3, PastIs DEF Places
  <2>6. Past(p, K[1]).line <= p.line + 0
    BY <2>2, <2>4
  <2> QED
    BY <2>5, <2>6
<1> QED
  BY <1>2, <1>3

LEMMA BetweenOrder ==
  ASSUME NEW s, NEW p, NEW q, NEW lines, Between(lines, s, p, q)
  PROVE  p \in Places /\ q \in Places /\ p.stop <= q.stop /\ p.vars <= q.vars
<1>1. PICK K, P : Cut(lines, s, K, P, p, q)
  BY DEF Between
<1> K \in Seq(Kinds) /\ P \in [1..Len(K) + 1 -> Places]
  BY <1>1 DEF Cut
<1>2. 1 \in 1..Len(K) + 1 /\ Len(K) + 1 \in 1..Len(K) + 1
  OBVIOUS
<1> QED
  BY <1>1, <1>2 DEF Cut

Texts == Seq(Chars)

Concat(more, lines, text) == more = lines \o text

\* A message's lines are among those it is one of.
LEMMA Inside ==
  ASSUME NEW s, NEW p, NEW q, NEW lines \in Seq(Texts), NEW K, NEW P,
         Cut(lines, s, K, P, p, q), NEW i \in 1..Len(K)
  PROVE  /\ P[i].line - p.line \in Nat
         /\ (P[i].line - p.line) + Size(K[i]) <= Len(lines)
         /\ Size(K[i]) \in Nat
<1>1. /\ K \in Seq(Kinds) /\ P \in [1..Len(K) + 1 -> Places]
      /\ q.line = p.line + Len(lines) /\ P[i + 1] = Past(P[i], K[i])
  BY DEF Cut
<1>2. i \in 1..Len(K) + 1 /\ i + 1 \in 1..Len(K) + 1 /\ K[i] \in Kinds
  BY <1>1
<1>3. p.line <= P[i].line /\ P[i + 1].line <= q.line
  BY <1>2 DEF Cut
<1>4. P[i] \in Places /\ p \in Places
  <2>1. Between(lines, s, p, q)
    BY DEF Between
  <2> HIDE DEF Texts
  <2> QED
    BY <1>1, <1>2, <2>1, BetweenOrder
<1>5. P[i + 1].line = P[i].line + Size(K[i])
  <2>1. Past(P[i], K[i]).line = P[i].line + Size(K[i])
    BY <1>2, <1>4, PastIs
  <2> QED
    BY <1>1, <2>1
<1>6. P[i].line \in Nat /\ p.line \in Nat /\ Size(K[i]) \in Nat /\ Len(lines) \in Nat
  <2>1. P[i].line \in Nat /\ p.line \in Nat
    BY <1>4, PlaceParts
  <2>2. Size(K[i]) \in Nat
    BY <1>2, SizeIs
  <2> QED
    BY <2>1, <2>2
<1>7. P[i].line + Size(K[i]) <= p.line + Len(lines)
  BY <1>1, <1>3, <1>5
<1> HIDE DEF Texts
<1> QED
  BY <1>3, <1>6, <1>7

\* A message written is one message more.
LEMMA OneMore ==
  ASSUME NEW s, NEW p, NEW q, NEW lines \in Seq(Texts), Between(lines, s, p, q),
         NEW k \in Kinds, NEW text \in Seq(Texts), text = LinesOf(k, s[q.stop + 1]),
         NEW more, Concat(more, lines, text)
  PROVE  Between(more, s, p, Past(q, k))
<1>1. PICK K, P : Cut(lines, s, K, P, p, q)
  BY DEF Between
<1> DEFINE n == Len(K)
           r == Past(q, k)
           L == Append(K, k)
           Q == [i \in 1..n + 2 |-> IF i <= n + 1 THEN P[i] ELSE r]
<1>2. /\ K \in Seq(Kinds) /\ P \in [1..n + 1 -> Places] /\ n \in Nat
      /\ P[1] = p /\ P[n + 1] = q /\ q.line = p.line + Len(lines)
  BY <1>1 DEF Cut
<1>3. \A i \in 1..n + 1 :
        /\ p.line <= P[i].line /\ P[i].line <= q.line
        /\ P[i].stop <= q.stop /\ P[i].vars <= q.vars
  BY <1>1 DEF Cut
<1>4. \A i \in 1..n :
        /\ P[i + 1] = Past(P[i], K[i])
        /\ Holds(lines, P[i].line - p.line, LinesOf(K[i], s[P[i].stop + 1]))
  BY <1>1 DEF Cut
<1>5. /\ q \in Places /\ p \in Places
      /\ p.line \in Nat /\ q.line \in Nat /\ q.stop \in Nat /\ q.vars \in Nat
  <2>1. q \in Places /\ p \in Places
    <3> HIDE DEF n
    <3>1. 1 \in 1..n + 1 /\ n + 1 \in 1..n + 1
      BY <1>2
    <3> QED
      BY <1>2, <3>1
  <2> QED
    BY <2>1, PlaceParts
<1>6. /\ r \in Places /\ r.line = q.line + Size(k) /\ r.stop >= q.stop
      /\ r.vars >= q.vars /\ Size(k) \in Nat
      /\ r.line \in Nat /\ r.stop \in Nat /\ r.vars \in Nat
  <2>1. /\ r \in Places /\ r.line = q.line + Size(k) /\ r.stop \in {q.stop, q.stop + 1}
        /\ r.vars >= q.vars
    BY <1>5, PastIs
  <2> HIDE DEF r
  <2>2. r.line \in Nat /\ r.stop \in Nat /\ r.vars \in Nat
    BY <2>1, PlaceParts
  <2> QED
    BY <1>5, <2>1, <2>2, SizeIs
<1>7. Len(text) = Size(k)
  BY SizeIs
<1>8. Len(lines) \in Nat /\ Len(more) = Len(lines) + Size(k)
  BY <1>7 DEF Concat
<1>9. /\ \A j \in 1..Len(lines) : more[j] = lines[j]
      /\ Holds(more, Len(lines), text)
  BY DEF Concat, Holds
<1>10. /\ L \in Seq(Kinds) /\ Len(L) = n + 1 /\ L[n + 1] = k
       /\ \A i \in 1..n : L[i] = K[i]
  BY <1>2
<1>11. /\ Q \in [1..n + 2 -> Places]
       /\ \A i \in 1..n + 1 : Q[i] = P[i]
       /\ Q[n + 2] = r
  BY <1>2, <1>6
<1> HIDE DEF n, r, L, Q
<1>12. Q[1] = p /\ Q[Len(L) + 1] = r /\ r.line = p.line + Len(more)
  <2>1. 1 \in 1..n + 1 /\ Len(L) + 1 = n + 2
    BY <1>2, <1>10
  <2>2. Q[1] = p /\ Q[Len(L) + 1] = r
    BY <1>2, <1>11, <2>1
  <2>3. r.line = p.line + Len(more)
    BY <1>2, <1>5, <1>6, <1>8
  <2> QED
    BY <2>2, <2>3
<1>13. ASSUME NEW i \in 1..n + 2
       PROVE  /\ p.line <= Q[i].line /\ Q[i].line <= r.line
              /\ Q[i].stop <= r.stop /\ Q[i].vars <= r.vars
  <2>1. CASE i = n + 2
    <3>1. Q[i] = r
      BY <1>11, <2>1
    <3>2. p.line <= r.line
      BY <1>2, <1>5, <1>6, <1>8
    <3> QED
      BY <1>6, <3>1, <3>2
  <2>2. CASE i \in 1..n + 1
    <3>1. Q[i] = P[i] /\ P[i] \in Places
      BY <1>2, <1>11, <2>2
    <3>2. /\ p.line <= P[i].line /\ P[i].line <= q.line
          /\ P[i].stop <= q.stop /\ P[i].vars <= q.vars
      BY <1>3, <2>2
    <3>3. P[i].line \in Nat /\ P[i].stop \in Nat /\ P[i].vars \in Nat
      BY <3>1, PlaceParts
    <3>4. q.line <= r.line /\ q.stop <= r.stop /\ q.vars <= r.vars
      BY <1>5, <1>6
    <3>5. P[i].line <= r.line
      BY <1>5, <1>6, <3>2, <3>3, <3>4, NatOrder
    <3>6. P[i].stop <= r.stop
      BY <1>5, <1>6, <3>2, <3>3, <3>4, NatOrder
    <3>7. P[i].vars <= r.vars
      BY <1>5, <1>6, <3>2, <3>3, <3>4, NatOrder
    <3> QED
      BY <3>1, <3>2, <3>5, <3>6, <3>7
  <2> QED
    BY <1>2, <2>1, <2>2
<1>14. ASSUME NEW i \in 1..n + 1
       PROVE  /\ Q[i + 1] = Past(Q[i], L[i])
              /\ Holds(more, Q[i].line - p.line, LinesOf(L[i], s[Q[i].stop + 1]))
  <2>1. CASE i = n + 1
    <3>1. Q[i + 1] = r /\ Q[i] = q /\ L[i] = k
      BY <1>2, <1>10, <1>11, <2>1
    <3>2. q.line - p.line = Len(lines)
      <4>1. q.line = p.line + Len(lines)
        BY <1>2
      <4>2. p.line \in Nat /\ Len(lines) \in Nat
        BY <1>5, <1>8
      <4> QED
        BY <4>1, <4>2
    <3> QED
      BY <1>9, <3>1, <3>2 DEF r
  <2>2. CASE i \in 1..n
    <3>1. /\ Q[i + 1] = P[i + 1] /\ Q[i] = P[i] /\ L[i] = K[i]
          /\ K[i] \in Kinds /\ P[i] \in Places
          /\ i \in 1..n + 1 /\ i + 1 \in 1..n + 1
      BY <1>2, <1>10, <1>11, <2>2
    <3> DEFINE t == LinesOf(K[i], s[P[i].stop + 1])
               b == P[i].line - p.line
    <3>2. P[i + 1] = Past(P[i], K[i]) /\ Holds(lines, b, t)
      BY <1>4, <2>2
    <3>3. b \in Nat /\ b + Size(K[i]) <= Len(lines) /\ Size(K[i]) \in Nat
      BY <1>1, <2>2, Inside DEF n
    <3>4. Len(t) = Size(K[i])
      BY <3>1, SizeIs
    <3> HIDE DEF t, b
    <3>5. \A j \in 1..Len(t) : b + j \in 1..Len(lines)
      BY <1>8, <3>3, <3>4
    <3>6. Holds(more, b, t)
      BY <1>9, <3>2, <3>5 DEF Holds
    <3> QED
      BY <3>1, <3>2, <3>6 DEF t, b
  <2> QED
    BY <1>2, <2>1, <2>2
<1>15. Cut(more, s, L, Q, p, r)
  <2>1. Len(L) = n + 1 /\ Len(L) + 1 = n + 2
    BY <1>2, <1>10
  <2> QED
    BY <1>10, <1>11, <1>12, <1>13, <1>14, <2>1 DEF Cut
<1> QED
  BY <1>15 DEF Between, r

\* A stop written later changes none of the lines in front of it.
LEMMA StopsGrow ==
  ASSUME NEW s \in Seq(Locations), NEW x, NEW p, NEW q, NEW lines,
         Between(lines, s, p, q), q.stop <= Len(s)
  PROVE  Between(lines, Append(s, x), p, q)
<1>1. PICK K, P : Cut(lines, s, K, P, p, q)
  BY DEF Between
<1> DEFINE n == Len(K)
           z == Append(s, x)
<1>2. K \in Seq(Kinds) /\ P \in [1..n + 1 -> Places] /\ n \in Nat
  BY <1>1 DEF Cut
<1>3. \A i \in 1..n + 1 : P[i].stop <= q.stop
  BY <1>1 DEF Cut
<1>4. \A i \in 1..n :
        /\ P[i + 1] = Past(P[i], K[i])
        /\ Holds(lines, P[i].line - p.line, LinesOf(K[i], s[P[i].stop + 1]))
  BY <1>1 DEF Cut
<1>5. ASSUME NEW i \in 1..n
      PROVE  LinesOf(K[i], z[P[i].stop + 1]) = LinesOf(K[i], s[P[i].stop + 1])
  <2>1. CASE K[i] = "STOP"
    <3>1. i \in 1..n + 1 /\ i + 1 \in 1..n + 1 /\ K[i] \in Kinds /\ P[i] \in Places
      BY <1>2
    <3>2. P[i + 1].stop <= q.stop /\ q \in Places
      BY <1>1, <1>3, <3>1, BetweenOrder DEF Between
    <3>3. P[i + 1].stop = P[i].stop + 1
      BY <1>4, <2>1, <3>1, PastIs
    <3>4. P[i].stop \in Nat /\ q.stop \in Nat
      BY <3>1, <3>2, PlaceParts
    <3> DEFINE j == P[i].stop + 1
    <3>5. j \in 1..Len(s)
      BY <3>2, <3>3, <3>4
    <3> HIDE DEF j
    <3>6. z[j] = s[j]
      BY <3>5
    <3> QED
      BY <3>6 DEF j
  <2>2. CASE K[i] # "STOP"
    BY <2>2 DEF LinesOf
  <2> QED
    BY <2>1, <2>2
<1> HIDE DEF z
<1>6. \A i \in 1..n :
        /\ P[i + 1] = Past(P[i], K[i])
        /\ Holds(lines, P[i].line - p.line, LinesOf(K[i], z[P[i].stop + 1]))
  BY <1>4, <1>5
<1>7. Cut(lines, z, K, P, p, q)
  BY <1>1, <1>6 DEF Cut
<1> QED
  BY <1>7 DEF Between, z

\* Places follow each other.
LEMMA PlacesFollow ==
  ASSUME NEW s, NEW p, NEW q, NEW lines, NEW K, NEW P, Cut(lines, s, K, P, p, q),
         NEW i \in 1..Len(K) + 1, i >= 2
  PROVE  P[2].line <= P[i].line
<1> DEFINE n == Len(K)
           T == {m \in Nat : m + 2 <= n + 1 => P[2].line <= P[m + 2].line}
<1>1. K \in Seq(Kinds) /\ P \in [1..n + 1 -> Places] /\ n \in Nat
  BY DEF Cut
<1>2. \A j \in 1..n : P[j + 1] = Past(P[j], K[j])
  BY DEF Cut
<1>3. 0 \in T
  <2> SUFFICES ASSUME 2 <= n + 1 PROVE P[2].line <= P[2].line
    OBVIOUS
  <2>1. P[2] \in Places
    BY <1>1
  <2>2. P[2].line \in Nat
    BY <2>1, PlaceParts
  <2> QED
    BY <2>2
<1>4. ASSUME NEW m \in Nat, m \in T
      PROVE  m + 1 \in T
  <2> SUFFICES ASSUME (m + 1) + 2 <= n + 1 PROVE P[2].line <= P[(m + 1) + 2].line
    OBVIOUS
  <2>1. m + 2 <= n + 1 /\ m + 2 \in 1..n /\ (m + 1) + 2 = (m + 2) + 1 /\ 2 \in 1..n + 1
        /\ m + 2 \in 1..n + 1
    BY <1>1
  <2>2. P[2].line <= P[m + 2].line
    BY <1>4, <2>1
  <2>3. P[m + 2] \in Places /\ K[m + 2] \in Kinds /\ P[2] \in Places
    BY <1>1, <2>1
  <2>4. P[(m + 2) + 1] = Past(P[m + 2], K[m + 2])
    BY <1>2, <2>1
  <2>5. P[(m + 2) + 1].line > P[m + 2].line /\ P[(m + 2) + 1] \in Places
    BY <2>3, <2>4, PastIs
  <2>6. P[2].line \in Nat /\ P[m + 2].line \in Nat /\ P[(m + 2) + 1].line \in Nat
    BY <2>3, <2>5, PlaceParts
  <2> QED
    BY <2>1, <2>2, <2>5, <2>6
<1> HIDE DEF T
<1>5. Nat \subseteq T
  BY <1>3, <1>4, AllNaturals
<1>6. i - 2 \in T /\ (i - 2) + 2 = i /\ i <= n + 1
  BY <1>1, <1>5
<1> QED
  BY <1>6 DEF T

\* In front of lines not handled yet are those of one message.
LEMMA TakeOne ==
  ASSUME NEW s, NEW p, NEW q, NEW lines \in Seq(Texts), Between(lines, s, p, q),
         lines # <<>>
  PROVE  \E k \in Kinds :
           /\ Size(k) <= Len(lines)
           /\ Holds(lines, 0, LinesOf(k, s[p.stop + 1]))
           /\ Between(SubSeq(lines, Size(k) + 1, Len(lines)), s, Past(p, k), q)
<1>1. PICK K, P : Cut(lines, s, K, P, p, q)
  BY DEF Between
<1> DEFINE n == Len(K)
           k == K[1]
           r == Past(p, k)
           L == Tail(K)
           Q == [i \in 1..n |-> P[i + 1]]
           rest == SubSeq(lines, Size(k) + 1, Len(lines))
<1>2. /\ K \in Seq(Kinds) /\ P \in [1..n + 1 -> Places] /\ n \in Nat
      /\ P[1] = p /\ P[n + 1] = q /\ q.line = p.line + Len(lines)
  BY <1>1 DEF Cut
<1>3. \A i \in 1..n + 1 :
        /\ p.line <= P[i].line /\ P[i].line <= q.line
        /\ P[i].stop <= q.stop /\ P[i].vars <= q.vars
  BY <1>1 DEF Cut
<1>4. \A i \in 1..n :
        /\ P[i + 1] = Past(P[i], K[i])
        /\ Holds(lines, P[i].line - p.line, LinesOf(K[i], s[P[i].stop + 1]))
  BY <1>1 DEF Cut
<1>5. /\ p \in Places /\ q \in Places /\ p.line \in Nat /\ q.line \in Nat
      /\ Len(lines) \in Nat
  <2>1. p \in Places /\ q \in Places
    BY BetweenOrder
  <2> QED
    BY <2>1, PlaceParts
<1>6. n # 0
  <2> SUFFICES ASSUME n = 0 PROVE FALSE
    OBVIOUS
  <2>1. p = q
    BY <1>2
  <2>2. Len(lines) = 0
    BY <1>2, <1>5, <2>1
  <2> QED
    BY <2>2
<1>7. 1 \in 1..n /\ 1 + 1 = 2 /\ k \in Kinds /\ 2 \in 1..n + 1
  BY <1>2, <1>6
<1>8. P[2] = r /\ Holds(lines, p.line - p.line, LinesOf(k, s[p.stop + 1]))
  BY <1>2, <1>4, <1>7
<1>9. Holds(lines, 0, LinesOf(k, s[p.stop + 1]))
  BY <1>5, <1>8
<1>10. Size(k) \in Nat /\ Size(k) <= Len(lines)
  <2> HIDE DEF k, n
  <2>1. p.line - p.line = 0
    BY <1>5
  <2>2. (P[1].line - p.line) + Size(K[1]) <= Len(lines) /\ Size(K[1]) \in Nat
    BY <1>1, <1>7, Inside DEF n
  <2>3. 0 + Size(k) <= Len(lines) /\ Size(k) \in Nat
    BY <1>2, <2>1, <2>2 DEF k
  <2> QED
    BY <2>3
<1>11. r \in Places /\ r.line = p.line + Size(k) /\ r.line \in Nat
  <2>1. r \in Places /\ r.line = p.line + Size(k)
    BY <1>5, <1>7, PastIs
  <2> HIDE DEF r
  <2> QED
    BY <2>1, PlaceParts
<1> HIDE DEF r, k
<1>12. /\ L \in Seq(Kinds) /\ Len(L) + 1 = n
       /\ \A i \in 1..Len(L) : L[i] = K[i + 1] /\ i + 1 \in 1..n
  BY <1>2, <1>6
<1>13. /\ Q \in [1..n -> Places]
       /\ \A i \in 1..n : Q[i] = P[i + 1] /\ i + 1 \in 1..n + 1
  BY <1>2
<1>14. /\ Len(rest) \in Nat /\ Len(lines) = Len(rest) + Size(k)
       /\ \A j \in 1..Len(rest) : rest[j] = lines[Size(k) + j]
  <2> DEFINE m == Size(k)
             N == Len(lines)
  <2>1. m + 1 \in Int /\ N \in Int /\ \A j \in m + 1..N : lines[j] \in Texts
    <3>1. \A j \in 1..N : lines[j] \in Texts
      OBVIOUS
    <3> HIDE DEF m, Texts
    <3> QED
      BY <1>5, <1>10, <3>1 DEF m
  <2> HIDE DEF m, Texts
  <2>2. /\ Len(rest) = IF m + 1 <= N THEN N - (m + 1) + 1 ELSE 0
        /\ \A j \in 1..N - (m + 1) + 1 : rest[j] = lines[(m + 1) + j - 1]
    BY <2>1, SubSeqProperties DEF m
  <2>3. N \in Nat /\ m \in Nat /\ m <= N
    BY <1>5, <1>10 DEF m
  <2> HIDE DEF N, rest
  <2>4. Len(rest) = N - m
    BY <2>2, <2>3
  <2>5. \A j \in 1..N - m : rest[j] = lines[m + j]
    <3> SUFFICES ASSUME NEW j \in 1..N - m PROVE rest[j] = lines[m + j]
      OBVIOUS
    <3>1. j \in 1..N - (m + 1) + 1 /\ (m + 1) + j - 1 = m + j
      BY <2>3
    <3> QED
      BY <2>2, <3>1
  <2>6. Len(rest) \in Nat /\ N = Len(rest) + m
    BY <2>3, <2>4
  <2> QED
    BY <2>4, <2>5, <2>6 DEF m, N
<1> HIDE DEF rest, Q, L
<1>15. Q[1] = r /\ Q[Len(L) + 1] = q /\ q.line = r.line + Len(rest)
  <2>1. Q[1] = r
    BY <1>7, <1>8, <1>13
  <2>2. n \in 1..n
    BY <1>2, <1>6
  <2>3. Q[Len(L) + 1] = q
    BY <1>2, <1>12, <1>13, <2>2
  <2>4. q.line = r.line + Len(rest)
    BY <1>2, <1>5, <1>10, <1>11, <1>14
  <2> QED
    BY <2>1, <2>3, <2>4
<1>16. ASSUME NEW i \in 1..n
       PROVE  /\ r.line <= Q[i].line /\ Q[i].line <= q.line
              /\ Q[i].stop <= q.stop /\ Q[i].vars <= q.vars
  <2>1. Q[i] = P[i + 1] /\ i + 1 \in 1..n + 1 /\ i + 1 >= 2
    BY <1>13
  <2>2. P[2].line <= P[i + 1].line
    BY <1>1, <2>1, PlacesFollow
  <2> HIDE DEF n
  <2> QED
    BY <1>3, <1>8, <2>1, <2>2
<1>17. ASSUME NEW i \in 1..Len(L)
       PROVE  /\ Q[i + 1] = Past(Q[i], L[i])
              /\ Holds(rest, Q[i].line - r.line, LinesOf(L[i], s[Q[i].stop + 1]))
  <2>1. i \in 1..n /\ i + 1 \in 1..n /\ L[i] = K[i + 1]
    BY <1>2, <1>12
  <2>2. Q[i] = P[i + 1] /\ Q[i + 1] = P[(i + 1) + 1]
    BY <1>13, <2>1
  <2> DEFINE a == P[i + 1]
             t == LinesOf(K[i + 1], s[a.stop + 1])
             b == a.line - p.line
             c == a.line - r.line
  <2>3. P[(i + 1) + 1] = Past(a, K[i + 1]) /\ Holds(lines, b, t)
    BY <1>4, <2>1
  <2>4. b \in Nat /\ b + Size(K[i + 1]) <= Len(lines) /\ Size(K[i + 1]) \in Nat
    BY <1>1, <2>1, Inside
  <2>5. r.line <= a.line /\ a \in Places
    BY <1>2, <1>13, <1>16, <2>1, <2>2
  <2>6. Len(t) = Size(K[i + 1])
    <3>1. K[i + 1] \in Kinds
      BY <1>2, <2>1
    <3> QED
      BY <3>1, SizeIs
  <2>7. a.line \in Nat
    BY <2>5, PlaceParts
  <2>8. c \in Nat /\ b = c + Size(k)
    <3> HIDE DEF a
    <3>1. p.line + Size(k) <= a.line
      BY <1>11, <2>5
    <3>2. c = a.line - (p.line + Size(k))
      BY <1>11
    <3> QED
      BY <1>5, <1>10, <2>7, <3>1, <3>2
  <2> HIDE DEF a, t, b, c
  <2>9. \A j \in 1..Len(t) : /\ c + j \in 1..Len(rest)
                              /\ Size(k) + (c + j) = b + j
    <3>1. c + Len(t) <= Len(rest)
      <4>1. (c + Size(k)) + Len(t) <= Len(rest) + Size(k)
        BY <1>14, <2>4, <2>6, <2>8
      <4>2. c \in Nat /\ Len(t) \in Nat /\ Len(rest) \in Nat /\ Size(k) \in Nat
        BY <1>10, <1>14, <2>4, <2>6, <2>8
      <4> QED
        BY <4>1, <4>2
    <3>2. /\ c \in Nat /\ Len(t) \in Nat /\ Len(rest) \in Nat /\ Size(k) \in Nat
          /\ b = c + Size(k)
      BY <1>10, <1>14, <2>4, <2>6, <2>8
    <3> QED
      BY <3>1, <3>2
  <2>10. Holds(rest, c, t)
    BY <1>14, <2>3, <2>9 DEF Holds
  <2> QED
    BY <2>1, <2>2, <2>3, <2>10 DEF a, t, c
<1>18. Cut(rest, s, L, Q, r, q)
  BY <1>12, <1>13, <1>15, <1>16, <1>17 DEF Cut
<1>19. Between(rest, s, r, q)
  BY <1>18 DEF Between
<1> QED
  BY <1>7, <1>9, <1>10, <1>19 DEF r, k, rest

-----------------------------------------------------------------------------
\* The invariant

Types ==
  /\ stops \in Seq(Locations)
  /\ owes \in BOOLEAN
  /\ told \in Nat /\ answered \in Nat /\ asked \in Nat
  /\ messages \in Seq(Texts)
  /\ received \in Seq(Texts)

\* The adapter stands at f, what is not handled of the data event ends at m, and
\* what is written at e.
Apart(f, m, e) ==
  /\ f.stop = told /\ f.ask = answered
  /\ e.stop = Len(stops) /\ e.ask = asked
  /\ Between(messages, stops, f, m)
  /\ Between(received, stops, m, e)
  /\ f.vars = e.vars /\ stops # <<>> /\ ~owes => variables = Placeholders

\* At every moment the lines of the data event, and those not in it yet, are
\* those of whole messages, and what the adapter has counted are those in front.
WholeMessages ==
  /\ Types
  /\ told > 0 => current = stops[told]
  /\ \E f, m, e : Apart(f, m, e)

LEMMA LinesAre ==
  ASSUME NEW loc
  PROVE  /\ LinesOf("GET_BREAKPOINTS", loc) = << <<"GET_BREAKPOINTS">> >>
         /\ LinesOf("STOP", loc) = << <<"STOP">>, LocationText(loc) >>
         /\ LinesOf("VARIABLES", loc) = VariablesLines
         /\ LinesOf("empty", loc) = << <<>> >>
  BY DEF LinesOf

LEMMA KindsAre ==
  /\ "GET_BREAKPOINTS" \in Kinds /\ Size("GET_BREAKPOINTS") = 1
  /\ "STOP" \in Kinds /\ Size("STOP") = 2
  /\ "VARIABLES" \in Kinds /\ Size("VARIABLES") = 8
  /\ "empty" \in Kinds /\ Size("empty") = 1
  BY DEF Kinds, Size

LEMMA WordIsText ==
  ASSUME NEW c, c \in Words
  PROVE  <<c>> \in Texts
<1>1. c \in Chars
  BY DEF Chars
<1> HIDE DEF Chars, Words
<1> QED
  BY <1>1 DEF Texts

\* All that is written is texts.
LEMMA RequestIsText ==
  << <<"GET_BREAKPOINTS">> >> \in Seq(Texts)
<1> DEFINE a == <<"GET_BREAKPOINTS">>
<1>1. "GET_BREAKPOINTS" \in Words
  BY DEF Words
<1>2. a \in Texts
  BY <1>1, WordIsText
<1> HIDE DEF a, Texts
<1>3. <<a>> \in Seq(Texts)
  BY <1>2
<1> QED
  BY <1>3 DEF a

LEMMA EmptyIsText ==
  << <<>> >> \in Seq(Texts) /\ <<>> \in Texts
  BY DEF Texts

LEMMA StopIsText ==
  ASSUME NoCommas, NEW loc \in Locations
  PROVE  << <<"STOP">>, LocationText(loc) >> \in Seq(Texts)
<1> DEFINE a == <<"STOP">>
           b == LocationText(loc)
<1>1. "STOP" \in Words
  BY DEF Words
<1>2. a \in Texts
  BY <1>1, WordIsText
<1>3. b \in Texts
  BY LocationReadsBack DEF Texts
<1> HIDE DEF a, b, Texts
<1>4. <<a, b>> \in Seq(Texts)
  BY <1>2, <1>3
<1> QED
  BY <1>4 DEF a, b

LEMMA VariablesAreTexts == VariablesLines \in Seq(Texts)
<1> DEFINE a == <<"VARIABLES">>
           b == NumberText[3]
           a1 == <<"initial_player_life">>
           b1 == <<"123">>
           a2 == <<"player_damage">>
           b2 == <<"0xFFE0">>
           a3 == <<"player_life">>
           b3 == <<"987">>
<1>1. /\ "VARIABLES" \in Words /\ "initial_player_life" \in Words /\ "123" \in Words
      /\ "player_damage" \in Words /\ "0xFFE0" \in Words
      /\ "player_life" \in Words /\ "987" \in Words
  BY DEF Words
<1>2. /\ a \in Texts /\ a1 \in Texts /\ b1 \in Texts /\ a2 \in Texts
      /\ b2 \in Texts /\ a3 \in Texts /\ b3 \in Texts
  BY <1>1, WordIsText
<1>3. b \in Texts
  <2>1. b \in Seq(DigitSet)
    BY NumberTextReads
  <2>2. DigitSet \subseteq Chars
    BY DEF Chars
  <2> HIDE DEF b
  <2>3. b \in Seq(Chars)
    BY <2>1, <2>2, SeqMonotonic
  <2> QED
    BY <2>3 DEF Texts
<1>4. VariablesLines = <<a, b, a1, b1, a2, b2, a3, b3>>
  BY DEF VariablesLines, Placeholders
<1> HIDE DEF a, b, a1, b1, a2, b2, a3, b3, Texts
<1>5. <<a, b, a1, b1, a2, b2, a3, b3>> \in Seq(Texts)
  BY <1>2, <1>3
<1> QED
  BY <1>4, <1>5

\* A write of one message keeps what is in front of it.
LEMMA WriteOne ==
  ASSUME Types, NEW f, NEW m, NEW e,
         Between(messages, stops, f, m), Between(received, stops, m, e),
         NEW k \in Kinds, NEW text \in Seq(Texts), text = LinesOf(k, stops[e.stop + 1]),
         NEW more, Concat(more, received, text)
  PROVE  Between(more, stops, m, Past(e, k)) /\ more \in Seq(Texts)
<1>1. received \in Seq(Texts)
  BY DEF Types
<1>2. Between(more, stops, m, Past(e, k))
  BY <1>1, OneMore
<1> HIDE DEF Texts
<1>3. more \in Seq(Texts)
  BY <1>1 DEF Concat
<1> QED
  BY <1>2, <1>3

LEMMA PastParts ==
  ASSUME NEW p
  PROVE  /\ LET r == Past(p, "GET_BREAKPOINTS")
            IN  r.stop = p.stop + 0 /\ r.ask = p.ask + 1 /\ r.vars = p.vars + 0
         /\ LET r == Past(p, "STOP")
            IN  r.stop = p.stop + 1 /\ r.ask = p.ask + 0 /\ r.vars = p.vars + 0
         /\ LET r == Past(p, "VARIABLES")
            IN  r.stop = p.stop + 0 /\ r.ask = p.ask + 0 /\ r.vars = p.vars + 1
         /\ LET r == Past(p, "empty")
            IN  r.stop = p.stop + 0 /\ r.ask = p.ask + 0 /\ r.vars = p.vars + 0
  BY DEF Past, OneIf

LEMMA ApartPlaces ==
  ASSUME Types, NEW f, NEW m, NEW e, Apart(f, m, e)
  PROVE  /\ f \in Places /\ m \in Places /\ e \in Places
         /\ f.stop <= m.stop /\ m.stop <= e.stop /\ f.stop <= e.stop
         /\ f.vars <= m.vars /\ m.vars <= e.vars /\ f.vars <= e.vars
<1>1. /\ f \in Places /\ m \in Places /\ f.stop <= m.stop /\ f.vars <= m.vars
  BY BetweenOrder DEF Apart
<1>2. e \in Places /\ m.stop <= e.stop /\ m.vars <= e.vars
  BY BetweenOrder DEF Apart
<1>3. /\ f.stop \in Nat /\ m.stop \in Nat /\ e.stop \in Nat
      /\ f.vars \in Nat /\ m.vars \in Nat /\ e.vars \in Nat
  BY <1>1, <1>2, PlaceParts
<1>4. f.stop <= e.stop
  BY <1>1, <1>2, <1>3
<1>5. f.vars <= e.vars
  BY <1>1, <1>2, <1>3
<1> QED
  BY <1>1, <1>2, <1>4, <1>5

LEMMA InitWhole == Init => WholeMessages
<1> SUFFICES ASSUME Init PROVE WholeMessages
  OBVIOUS
<1> DEFINE z == [line |-> 0, stop |-> 0, ask |-> 0, vars |-> 0]
<1>1. z \in Places /\ z.stop = 0 /\ z.ask = 0
  BY DEF Places
<1> HIDE DEF z
<1>2. Between(<<>>, <<>>, z, z)
  BY <1>1, BetweenNone
<1>3. Apart(z, z, z)
  BY <1>1, <1>2 DEF Apart, Init
<1>4. Types
  <2>1. owes = FALSE /\ told = 0 /\ answered = 0 /\ asked = 0
    BY DEF Init
  <2>2. stops = <<>> /\ messages = <<>> /\ received = <<>>
    BY DEF Init
  <2>3. <<>> \in Seq(Locations) /\ <<>> \in Seq(Texts)
    OBVIOUS
  <2> QED
    BY <2>1, <2>2, <2>3 DEF Types
<1>5. ~(told > 0)
  BY DEF Init
<1> QED
  BY <1>3, <1>4, <1>5 DEF WholeMessages

LEMMA RequestStep == WholeMessages /\ SendBreakpointsRequest => WholeMessages'
<1> SUFFICES ASSUME WholeMessages, SendBreakpointsRequest PROVE WholeMessages'
  OBVIOUS
<1>1. PICK f, m, e : Apart(f, m, e)
  BY DEF WholeMessages
<1>2. Types
  BY DEF WholeMessages
<1> DEFINE text == << <<"GET_BREAKPOINTS">> >>
           k == "GET_BREAKPOINTS"
           r == Past(e, k)
<1>3. /\ k \in Kinds /\ text = LinesOf(k, stops[e.stop + 1])
      /\ r.stop = e.stop + 0 /\ r.ask = e.ask + 1 /\ r.vars = e.vars + 0
  BY KindsAre, LinesAre, PastParts
<1>4. text \in Seq(Texts)
  BY RequestIsText
<1>5. Concat(received', received, text)
  BY DEF SendBreakpointsRequest, Write, Concat
<1>6. /\ UNCHANGED <<messages, current, variables, told, answered, owes, stops>>
      /\ asked' = asked + 1
  BY DEF SendBreakpointsRequest, adapterVars
<1> HIDE DEF text, k, Texts
<1>7. Between(received', stops, m, r) /\ received' \in Seq(Texts)
  BY <1>1, <1>2, <1>3, <1>4, <1>5, WriteOne DEF Apart
<1> HIDE DEF r
<1>8. e.stop + 0 = e.stop /\ e.vars + 0 = e.vars
  <2>1. e \in Places
    BY <1>1, <1>2, ApartPlaces
  <2>2. e.stop \in Nat /\ e.vars \in Nat
    BY <2>1, PlaceParts
  <2> QED
    BY <2>2
<1>9. Types'
  BY <1>2, <1>6, <1>7 DEF Types
<1>10. Apart(f, m, r)'
  BY <1>1, <1>3, <1>6, <1>7, <1>8 DEF Apart
<1>11. told' > 0 => current' = stops'[told']
  BY <1>6 DEF WholeMessages
<1> QED
  BY <1>9, <1>10, <1>11 DEF WholeMessages

LEMMA StopStep == NoCommas /\ WholeMessages /\ SendStop => WholeMessages'
<1> SUFFICES ASSUME NoCommas, WholeMessages, SendStop PROVE WholeMessages'
  OBVIOUS
<1>1. PICK f, m, e : Apart(f, m, e)
  BY DEF WholeMessages
<1>2. Types
  BY DEF WholeMessages
<1>3. PICK loc \in Locations :
        /\ received' = received \o << <<"STOP">>, LocationText(loc) >>
        /\ stops' = Append(stops, loc)
  BY DEF SendStop, Write, Locations
<1>4. UNCHANGED <<messages, current, variables, told, answered, asked>> /\ owes' = TRUE
  BY DEF SendStop, adapterVars
<1> DEFINE text == << <<"STOP">>, LocationText(loc) >>
           k == "STOP"
           r == Past(e, k)
           z == Append(stops, loc)
<1>5. /\ k \in Kinds /\ r.stop = e.stop + 1 /\ r.ask = e.ask + 0
  BY KindsAre, PastParts
<1>6. text \in Seq(Texts)
  BY StopIsText
<1>7. stops \in Seq(Locations) /\ e.stop = Len(stops) /\ m.stop <= Len(stops)
  BY <1>1, <1>2, ApartPlaces DEF Apart, Types
<1>8. z \in Seq(Locations) /\ Len(z) = Len(stops) + 1 /\ z[e.stop + 1] = loc
  BY <1>7
<1>9. text = LinesOf(k, z[e.stop + 1])
  BY <1>8, LinesAre
<1>10. Concat(received', received, text)
  BY <1>3 DEF Concat
<1>11. Between(messages, z, f, m) /\ Between(received, z, m, e)
  BY <1>1, <1>7, StopsGrow DEF Apart
<1> HIDE DEF text, k, Texts, z
<1>12. received \in Seq(Texts)
  BY <1>2 DEF Types
<1>13. Between(received', z, m, r)
  BY <1>5, <1>6, <1>9, <1>10, <1>11, <1>12, OneMore
<1>14. received' \in Seq(Texts)
  BY <1>6, <1>10, <1>12 DEF Concat
<1> HIDE DEF r
<1>15. e.ask + 0 = e.ask
  <2>1. e \in Places
    BY <1>1, <1>2, ApartPlaces
  <2>2. e.ask \in Nat
    BY <2>1, PlaceParts
  <2> QED
    BY <2>2
<1>16. Types'
  BY <1>2, <1>3, <1>4, <1>8, <1>14 DEF Types, z
<1>17. Apart(f, m, r)'
  BY <1>1, <1>3, <1>4, <1>5, <1>7, <1>8, <1>11, <1>13, <1>15 DEF Apart, z
<1>18. told' > 0 => current' = stops'[told']
  <2> SUFFICES ASSUME told > 0 PROVE current = z[told]
    BY <1>3, <1>4 DEF z
  <2>1. told \in Nat /\ told <= Len(stops) /\ current = stops[told]
    BY <1>1, <1>2, <1>7, ApartPlaces DEF Apart, Types, WholeMessages
  <2>2. told \in 1..Len(stops)
    BY <1>7, <2>1
  <2> QED
    BY <1>7, <2>1, <2>2 DEF z
<1> QED
  BY <1>16, <1>17, <1>18 DEF WholeMessages

LEMMA VariablesStep == WholeMessages /\ SendVariables => WholeMessages'
<1> SUFFICES ASSUME WholeMessages, SendVariables PROVE WholeMessages'
  OBVIOUS
<1>1. PICK f, m, e : Apart(f, m, e)
  BY DEF WholeMessages
<1>2. Types
  BY DEF WholeMessages
<1> DEFINE text == VariablesLines
           k == "VARIABLES"
           r == Past(e, k)
<1>3. /\ k \in Kinds /\ text = LinesOf(k, stops[e.stop + 1])
      /\ r.stop = e.stop + 0 /\ r.ask = e.ask + 0 /\ r.vars = e.vars + 1
  BY KindsAre, LinesAre, PastParts
<1>4. text \in Seq(Texts)
  BY VariablesAreTexts
<1>5. Concat(received', received, text)
  BY DEF SendVariables, Write, Concat
<1>6. /\ UNCHANGED <<messages, current, variables, told, answered, stops, asked>>
      /\ owes' = FALSE
  BY DEF SendVariables, adapterVars
<1> HIDE DEF text, k, Texts
<1>7. Between(received', stops, m, r) /\ received' \in Seq(Texts)
  BY <1>1, <1>2, <1>3, <1>4, <1>5, WriteOne DEF Apart
<1> HIDE DEF r
<1>8. e.stop + 0 = e.stop /\ e.ask + 0 = e.ask /\ f.vars # e.vars + 1
  <2>1. e \in Places /\ f \in Places /\ f.vars <= e.vars
    BY <1>1, <1>2, ApartPlaces
  <2>2. e.stop \in Nat /\ e.ask \in Nat /\ e.vars \in Nat /\ f.vars \in Nat
    BY <2>1, PlaceParts
  <2>3. e.stop + 0 = e.stop /\ e.ask + 0 = e.ask
    BY <2>2
  <2>4. f.vars # e.vars + 1
    BY <2>1, <2>2
  <2> QED
    BY <2>3, <2>4
<1>9. Types'
  BY <1>2, <1>6, <1>7 DEF Types
<1>10. Apart(f, m, r)'
  BY <1>1, <1>3, <1>6, <1>7, <1>8 DEF Apart
<1>11. told' > 0 => current' = stops'[told']
  BY <1>6 DEF WholeMessages
<1> QED
  BY <1>9, <1>10, <1>11 DEF WholeMessages

LEMMA DataEventStep == WholeMessages /\ DataEvent => WholeMessages'
<1> SUFFICES ASSUME WholeMessages, DataEvent PROVE WholeMessages'
  OBVIOUS
<1>1. PICK f, m, e : Apart(f, m, e)
  BY DEF WholeMessages
<1>2. Types
  BY DEF WholeMessages
<1> DEFINE text == << <<>> >>
           k == "empty"
           r == Past(e, k)
           more == received \o text
<1>3. /\ k \in Kinds /\ text = LinesOf(k, stops[e.stop + 1])
      /\ r.stop = e.stop + 0 /\ r.ask = e.ask + 0 /\ r.vars = e.vars + 0
  BY KindsAre, LinesAre, PastParts
<1>4. text \in Seq(Texts)
  BY EmptyIsText
<1>5. /\ messages = <<>> /\ messages' = Append(received, <<>>) /\ received' = <<>>
      /\ UNCHANGED <<current, variables, told, answered, owes, stops, asked>>
  BY DEF DataEvent, engineVars
<1>6. messages' = more
  <2>1. received \in Seq(Texts) /\ <<>> \in Texts
    BY <1>2, EmptyIsText DEF Types
  <2> HIDE DEF Texts
  <2>2. Append(received, <<>>) = received \o << <<>> >>
    BY <2>1
  <2> QED
    BY <1>5, <2>2
<1>7. Concat(more, received, text)
  BY DEF Concat
<1> HIDE DEF text, k, Texts, more
<1>8. Between(more, stops, m, r) /\ more \in Seq(Texts)
  BY <1>1, <1>2, <1>3, <1>4, <1>7, WriteOne DEF Apart
<1>9. f = m
  BY <1>1, <1>5, NoneBetween DEF Apart
<1>10. e \in Places /\ r \in Places
  <2>1. e \in Places
    BY <1>1, <1>2, ApartPlaces
  <2> QED
    BY <1>3, <2>1, PastIs
<1> HIDE DEF r
<1>11. Between(<<>>, stops, r, r)
  BY <1>10, BetweenNone
<1>12. e.stop + 0 = e.stop /\ e.ask + 0 = e.ask /\ e.vars + 0 = e.vars
  <2>1. e.stop \in Nat /\ e.ask \in Nat /\ e.vars \in Nat
    BY <1>10, PlaceParts
  <2> QED
    BY <2>1
<1>13. Types'
  BY <1>2, <1>5, <1>6, <1>8 DEF Types
<1>14. Apart(f, r, r)'
  BY <1>1, <1>3, <1>5, <1>6, <1>8, <1>9, <1>11, <1>12 DEF Apart
<1>15. told' > 0 => current' = stops'[told']
  BY <1>5 DEF WholeMessages
<1> QED
  BY <1>13, <1>14, <1>15 DEF WholeMessages

\* The lines of an invocation of handleSocketData are those of one message.
Takes(k, f, m) ==
  /\ messages[1] = IF k = "empty" THEN <<>> ELSE <<k>>
  /\ Size(k) <= Len(messages)
  /\ Holds(messages, 0, LinesOf(k, stops[told + 1]))
  /\ SubSeq(messages, Size(k) + 1, Len(messages)) \in Seq(Texts)
  /\ Between(SubSeq(messages, Size(k) + 1, Len(messages)), stops, Past(f, k), m)

LEMMA OneTaken ==
  ASSUME Types, NEW f, NEW m, NEW e, Apart(f, m, e), messages # <<>>
  PROVE  \E k \in Kinds : Takes(k, f, m)
<1>1. messages \in Seq(Texts) /\ f.stop = told
  BY DEF Types, Apart
<1>2. PICK k \in Kinds :
        /\ Size(k) <= Len(messages)
        /\ Holds(messages, 0, LinesOf(k, stops[told + 1]))
        /\ Between(SubSeq(messages, Size(k) + 1, Len(messages)), stops, Past(f, k), m)
  <2>1. Between(messages, stops, f, m)
    BY DEF Apart
  <2> HIDE DEF Texts
  <2>2. \E k \in Kinds :
          /\ Size(k) <= Len(messages)
          /\ Holds(messages, 0, LinesOf(k, stops[f.stop + 1]))
          /\ Between(SubSeq(messages, Size(k) + 1, Len(messages)), stops, Past(f, k), m)
    BY <1>1, <2>1, TakeOne
  <2> QED
    BY <1>1, <2>2
<1>3. messages[1] = IF k = "empty" THEN <<>> ELSE <<k>>
  <2> DEFINE text == LinesOf(k, stops[told + 1])
  <2>1. Len(text) = Size(k) /\ Size(k) \in Nat /\ Size(k) >= 1
    BY SizeIs
  <2>2. text[1] = IF k = "empty" THEN <<>> ELSE <<k>>
    BY DEF LinesOf, VariablesLines, Kinds
  <2> HIDE DEF text
  <2>3. 1 \in 1..Len(text) /\ 0 + 1 = 1
    BY <2>1
  <2>4. messages[1] = text[1]
    BY <1>2, <2>3 DEF Holds, text
  <2> QED
    BY <2>2, <2>4
<1>4. SubSeq(messages, Size(k) + 1, Len(messages)) \in Seq(Texts)
  <2> DEFINE a == Size(k) + 1
             b == Len(messages)
  <2> HIDE DEF Texts
  <2>1. b \in Int /\ \A i \in 1..b : messages[i] \in Texts
    BY <1>1
  <2>2. Size(k) \in Nat
    BY SizeIs
  <2>3. a \in Int /\ a >= 1
    BY <2>2
  <2> HIDE DEF a, b
  <2>4. \A i \in a..b : messages[i] \in Texts
    BY <2>1, <2>3
  <2>5. SubSeq(messages, a, b) \in Seq(Texts)
    BY <2>1, <2>3, <2>4, SubSeqProperties
  <2> QED
    BY <2>5 DEF a, b
<1> QED
  BY <1>2, <1>3, <1>4 DEF Takes

LEMMA WordTells ==
  ASSUME NEW k, NEW word, (IF k = "empty" THEN <<>> ELSE <<k>>) = <<word>>
  PROVE  k = word
  OBVIOUS

\* After a call that took a message of kind k from the front.
LEMMA Taken ==
  ASSUME Types, NEW f, NEW m, NEW e, Apart(f, m, e),
         NEW k \in Kinds, messages' \in Seq(Texts),
         Between(messages', stops, Past(f, k), m),
         UNCHANGED <<received, owes, stops, asked>>,
         Past(f, k).stop = told', Past(f, k).ask = answered',
         \/ Past(f, k).vars = f.vars /\ variables' = variables
         \/ variables' = Placeholders
  PROVE  Types' /\ Apart(Past(f, k), m, e)'
<1> DEFINE r == Past(f, k)
<1>1. r \in Places
  BY ApartPlaces, PastIs
<1> HIDE DEF r
<1>2. r.stop \in Nat /\ r.ask \in Nat
  BY <1>1, PlaceParts
<1>3. told' \in Nat /\ answered' \in Nat
  BY <1>2 DEF r
<1>4. Types'
  BY <1>3 DEF Types
<1>5. \/ r.vars = f.vars /\ variables' = variables
      \/ variables' = Placeholders
  BY DEF r
<1>6. Apart(r, m, e)'
  BY <1>5 DEF Apart, r
<1> QED
  BY <1>4, <1>6 DEF r

LEMMA HandleGetBreakpointsStep ==
  WholeMessages /\ HandleGetBreakpoints => WholeMessages'
<1> SUFFICES ASSUME WholeMessages, HandleGetBreakpoints PROVE WholeMessages'
  OBVIOUS
<1>1. PICK f, m, e : Apart(f, m, e)
  BY DEF WholeMessages
<1>2. Types
  BY DEF WholeMessages
<1>3. /\ messages # <<>> /\ messages[1] = <<"GET_BREAKPOINTS">>
      /\ messages' = SubSeq(messages, 1 + 1, Len(messages))
      /\ answered' = answered + 1
      /\ UNCHANGED <<received, current, variables, told, owes, stops, asked>>
  BY DEF HandleGetBreakpoints, Method, Shift, engineVars
<1>4. PICK k \in Kinds :
        /\ messages[1] = IF k = "empty" THEN <<>> ELSE <<k>>
        /\ SubSeq(messages, Size(k) + 1, Len(messages)) \in Seq(Texts)
        /\ Between(SubSeq(messages, Size(k) + 1, Len(messages)), stops, Past(f, k), m)
  BY <1>1, <1>2, <1>3, OneTaken DEF Takes
<1>5. k = "GET_BREAKPOINTS"
  BY <1>3, <1>4, WordTells
<1>6. Size(k) = 1
  BY <1>5, KindsAre
<1>7. /\ Past(f, k).stop = f.stop + 0 /\ Past(f, k).ask = f.ask + 1
      /\ Past(f, k).vars = f.vars + 0
  BY <1>5, PastParts
<1>8. f.stop + 0 = told /\ f.ask + 1 = answered + 1 /\ f.vars + 0 = f.vars
  <2>1. f \in Places
    BY <1>1, <1>2, ApartPlaces
  <2>2. f.vars \in Nat /\ f.stop \in Nat
    BY <2>1, PlaceParts
  <2> QED
    BY <1>1, <2>2 DEF Apart
<1>9. Types' /\ Apart(Past(f, k), m, e)'
  <2>1. messages' \in Seq(Texts) /\ Between(messages', stops, Past(f, k), m)
    BY <1>3, <1>4, <1>6
  <2> HIDE DEF Texts
  <2>2. /\ Past(f, k).stop = told' /\ Past(f, k).ask = answered'
        /\ Past(f, k).vars = f.vars /\ variables' = variables
    BY <1>3, <1>7, <1>8
  <2> QED
    BY <1>1, <1>2, <1>3, <2>1, <2>2, Taken
<1>10. told' > 0 => current' = stops'[told']
  BY <1>3 DEF WholeMessages
<1> QED
  BY <1>9, <1>10 DEF WholeMessages

LEMMA HandleUnknownStep == WholeMessages /\ HandleUnknown => WholeMessages'
<1> SUFFICES ASSUME WholeMessages, HandleUnknown PROVE WholeMessages'
  OBVIOUS
<1>1. PICK f, m, e : Apart(f, m, e)
  BY DEF WholeMessages
<1>2. Types
  BY DEF WholeMessages
<1>3. /\ messages # <<>>
      /\ messages[1] \notin {<<"GET_BREAKPOINTS">>, <<"STOP">>, <<"VARIABLES">>}
      /\ messages' = SubSeq(messages, 1 + 1, Len(messages))
      /\ UNCHANGED <<received, current, variables, told, answered, owes, stops, asked>>
  BY DEF HandleUnknown, Shift, engineVars
<1>4. PICK k \in Kinds :
        /\ messages[1] = IF k = "empty" THEN <<>> ELSE <<k>>
        /\ SubSeq(messages, Size(k) + 1, Len(messages)) \in Seq(Texts)
        /\ Between(SubSeq(messages, Size(k) + 1, Len(messages)), stops, Past(f, k), m)
  BY <1>1, <1>2, <1>3, OneTaken DEF Takes
<1>5. k = "empty"
  BY <1>3, <1>4 DEF Kinds
<1>6. Size(k) = 1
  BY <1>5, KindsAre
<1>7. /\ Past(f, k).stop = f.stop + 0 /\ Past(f, k).ask = f.ask + 0
      /\ Past(f, k).vars = f.vars + 0
  BY <1>5, PastParts
<1>8. f.stop + 0 = told /\ f.ask + 0 = answered /\ f.vars + 0 = f.vars
  <2>1. f \in Places
    BY <1>1, <1>2, ApartPlaces
  <2>2. f.vars \in Nat /\ f.stop \in Nat /\ f.ask \in Nat
    BY <2>1, PlaceParts
  <2> QED
    BY <1>1, <2>2 DEF Apart
<1>9. Types' /\ Apart(Past(f, k), m, e)'
  <2>1. messages' \in Seq(Texts) /\ Between(messages', stops, Past(f, k), m)
    BY <1>3, <1>4, <1>6
  <2> HIDE DEF Texts
  <2>2. /\ Past(f, k).stop = told' /\ Past(f, k).ask = answered'
        /\ Past(f, k).vars = f.vars /\ variables' = variables
    BY <1>3, <1>7, <1>8
  <2> QED
    BY <1>1, <1>2, <1>3, <2>1, <2>2, Taken
<1>10. told' > 0 => current' = stops'[told']
  BY <1>3 DEF WholeMessages
<1> QED
  BY <1>9, <1>10 DEF WholeMessages

LEMMA HandleStopStep == NoCommas /\ WholeMessages /\ HandleStop => WholeMessages'
<1> SUFFICES ASSUME NoCommas, WholeMessages, HandleStop PROVE WholeMessages'
  OBVIOUS
<1>1. PICK f, m, e : Apart(f, m, e)
  BY DEF WholeMessages
<1>2. Types
  BY DEF WholeMessages
<1>3. /\ messages # <<>> /\ messages[1] = <<"STOP">>
      /\ messages' = SubSeq(messages, 2 + 1, Len(messages))
      /\ UNCHANGED <<received, variables, answered, owes, stops, asked>>
  <2>1. /\ Method(<<"STOP">>) /\ Shift(2)
        /\ UNCHANGED <<received, variables, answered, engineVars>>
    BY DEF HandleStop
  <2> QED
    BY <2>1 DEF Method, Shift, engineVars
<1>4. PICK k \in Kinds :
        /\ messages[1] = IF k = "empty" THEN <<>> ELSE <<k>>
        /\ Size(k) <= Len(messages)
        /\ Holds(messages, 0, LinesOf(k, stops[told + 1]))
        /\ SubSeq(messages, Size(k) + 1, Len(messages)) \in Seq(Texts)
        /\ Between(SubSeq(messages, Size(k) + 1, Len(messages)), stops, Past(f, k), m)
  BY <1>1, <1>2, <1>3, OneTaken DEF Takes
<1>5. k = "STOP"
  BY <1>3, <1>4, WordTells
<1>6. Size(k) = 2
  BY <1>5, KindsAre
<1>7. /\ Past(f, k).stop = f.stop + 1 /\ Past(f, k).ask = f.ask + 0
      /\ Past(f, k).vars = f.vars + 0
  BY <1>5, PastParts
<1>8. /\ f.stop + 1 = told + 1 /\ f.ask + 0 = answered /\ f.vars + 0 = f.vars
      /\ told + 1 \in 1..Len(stops)
  <2>1. f \in Places /\ m \in Places /\ m.stop <= e.stop /\ e \in Places
    BY <1>1, <1>2, ApartPlaces
  <2>2. f.vars \in Nat /\ f.stop \in Nat /\ f.ask \in Nat /\ m.stop \in Nat /\ e.stop \in Nat
    BY <2>1, PlaceParts
  <2>3. Past(f, k).stop <= m.stop
    BY <1>4, BetweenOrder
  <2>4. told = f.stop /\ answered = f.ask /\ e.stop = Len(stops)
    BY <1>1 DEF Apart
  <2>5. told + 1 <= Len(stops)
    BY <1>7, <2>1, <2>2, <2>3, <2>4
  <2> QED
    BY <2>2, <2>4, <2>5
<1> DEFINE loc == stops[told + 1]
<1>9. loc \in Locations
  BY <1>2, <1>8 DEF Types
<1>10. Argument = LocationText(loc)
  <2> DEFINE b == LocationText(loc)
  <2> HIDE DEF b
  <2>1. LinesOf(k, loc) = << <<"STOP">>, b >>
    BY <1>5, LinesAre DEF b
  <2>2. messages[2] = b
    <3> HIDE DEF loc
    <3>1. Len(<< <<"STOP">>, b >>) = 2 /\ << <<"STOP">>, b >>[2] = b
      OBVIOUS
    <3>2. 2 \in 1..2 /\ 0 + 2 = 2
      OBVIOUS
    <3> QED
      BY <1>4, <2>1, <3>1, <3>2 DEF Holds, loc
  <2>3. Len(messages) > 1
    <3>1. Len(messages) \in Nat
      BY <1>2 DEF Types
    <3> QED
      BY <1>4, <1>6, <3>1
  <2> QED
    BY <2>2, <2>3 DEF Argument, b
<1>11. current' = loc /\ told' = told + 1
  <2> DEFINE t == LocationText(loc)
             c == ","
  <2> HIDE DEF loc
  <2>1. /\ \E i \in DOMAIN t : t[i] = c
        /\ UpTo(t, c) = loc.path
        /\ LeadingNumber(UpTo(After(t, c), c)) = loc.line
    BY <1>9, LocationReadsBack
  <2>2. \/ /\ current' = [path |-> UpTo(t, c),
                          line |-> LeadingNumber(UpTo(After(t, c), c))]
           /\ told' = told + 1
        \/ ~\E i \in DOMAIN t : t[i] = c
    BY <1>10 DEF HandleStop
  <2> HIDE DEF t, c
  <2>3. loc = [path |-> loc.path, line |-> loc.line]
    BY <1>9 DEF Locations
  <2> QED
    BY <2>1, <2>2, <2>3
<1> HIDE DEF loc
<1>12. Types' /\ Apart(Past(f, k), m, e)'
  <2>1. messages' \in Seq(Texts) /\ Between(messages', stops, Past(f, k), m)
    BY <1>3, <1>4, <1>6
  <2> HIDE DEF Texts
  <2>2. /\ Past(f, k).stop = told' /\ Past(f, k).ask = answered'
        /\ Past(f, k).vars = f.vars /\ variables' = variables
    BY <1>3, <1>7, <1>8, <1>11
  <2> QED
    BY <1>1, <1>2, <1>3, <2>1, <2>2, Taken
<1>13. told' > 0 => current' = stops'[told']
  BY <1>3, <1>11 DEF loc
<1> QED
  BY <1>12, <1>13 DEF WholeMessages

LEMMA HandleVariablesStep == WholeMessages /\ HandleVariables => WholeMessages'
<1> SUFFICES ASSUME WholeMessages, HandleVariables PROVE WholeMessages'
  OBVIOUS
<1>1. PICK f, m, e : Apart(f, m, e)
  BY DEF WholeMessages
<1>2. Types
  BY DEF WholeMessages
<1>3. /\ messages # <<>> /\ messages[1] = <<"VARIABLES">>
      /\ UNCHANGED <<received, current, told, answered, owes, stops, asked>>
  BY DEF HandleVariables, Method, engineVars
<1>4. PICK k \in Kinds :
        /\ messages[1] = IF k = "empty" THEN <<>> ELSE <<k>>
        /\ Size(k) <= Len(messages)
        /\ Holds(messages, 0, LinesOf(k, stops[told + 1]))
        /\ SubSeq(messages, Size(k) + 1, Len(messages)) \in Seq(Texts)
        /\ Between(SubSeq(messages, Size(k) + 1, Len(messages)), stops, Past(f, k), m)
  BY <1>1, <1>2, <1>3, OneTaken DEF Takes
<1>5. k = "VARIABLES"
  BY <1>3, <1>4, WordTells
<1>6. Size(k) = 8
  BY <1>5, KindsAre
<1>7. /\ Past(f, k).stop = f.stop + 0 /\ Past(f, k).ask = f.ask + 0
  BY <1>5, PastParts
<1>8. f.stop + 0 = told /\ f.ask + 0 = answered
  <2>1. f \in Places
    BY <1>1, <1>2, ApartPlaces
  <2>2. f.stop \in Nat /\ f.ask \in Nat
    BY <2>1, PlaceParts
  <2> QED
    BY <1>1, <2>2 DEF Apart
<1>9. LinesOf(k, stops[told + 1]) = VariablesLines
  BY <1>5, LinesAre
<1> DEFINE n == Len(messages)
<1>10. n \in Nat /\ n >= 8
  BY <1>2, <1>4, <1>6 DEF Types
<1>11. \A j \in 1..8 : messages[j] = VariablesLines[j]
  <2>1. Len(VariablesLines) = 8
    BY DEF VariablesLines
  <2>2. \A j \in 1..8 : messages[0 + j] = VariablesLines[j]
    BY <1>4, <1>9, <2>1 DEF Holds
  <2>3. \A j \in 1..8 : 0 + j = j
    OBVIOUS
  <2> QED
    BY <2>2, <2>3
<1>12. LeadingNumber(Argument) = 3
  <2>1. messages[2] = NumberText[3]
    BY <1>11 DEF VariablesLines
  <2>2. Argument = NumberText[3]
    BY <1>10, <2>1 DEF Argument
  <2> QED
    BY <2>2, NumberReadsBack
<1> DEFINE pairs == (n - 2) \div 2
<1>13. pairs \in Nat /\ 3 <= pairs
  BY <1>10
<1>14. /\ messages' = SubSeq(messages, 8 + 1, Len(messages))
       /\ variables' = [i \in 1..3 |-> [name |-> messages[2 * i + 1],
                                        value |-> messages[2 * i + 2]]]
  <2> DEFINE lead == LeadingNumber(Argument)
             count == IF lead > 0 THEN lead ELSE 0
  <2>1. /\ messages' = SubSeq(messages, (2 + 2 * count) + 1, Len(messages))
        /\ variables' = [i \in 1..(IF count <= pairs THEN count ELSE pairs) |->
                           [name |-> messages[2 * i + 1], value |-> messages[2 * i + 2]]]
    BY DEF HandleVariables, Shift
  <2>2. count = 3
    BY <1>12
  <2> HIDE DEF count, pairs
  <2>3. 2 + 2 * count = 8 /\ (IF count <= pairs THEN count ELSE pairs) = 3
    BY <1>13, <2>2
  <2> QED
    BY <2>1, <2>3
<1>15. variables' = Placeholders
  <2> DEFINE v(i) == [name |-> messages[2 * i + 1], value |-> messages[2 * i + 2]]
  <2>1. /\ messages[3] = VariablesLines[3] /\ messages[4] = VariablesLines[4]
        /\ messages[5] = VariablesLines[5] /\ messages[6] = VariablesLines[6]
        /\ messages[7] = VariablesLines[7] /\ messages[8] = VariablesLines[8]
    BY <1>11
  <2>2. /\ v(1) = [name |-> messages[3], value |-> messages[4]]
        /\ v(2) = [name |-> messages[5], value |-> messages[6]]
        /\ v(3) = [name |-> messages[7], value |-> messages[8]]
    OBVIOUS
  <2>3. /\ v(1) = [name |-> <<"initial_player_life">>, value |-> <<"123">>]
        /\ v(2) = [name |-> <<"player_damage">>, value |-> <<"0xFFE0">>]
        /\ v(3) = [name |-> <<"player_life">>, value |-> <<"987">>]
    BY <2>1, <2>2 DEF VariablesLines, Placeholders
  <2>4. variables' = [i \in 1..3 |-> v(i)]
    BY <1>14
  <2> HIDE DEF v
  <2>5. [i \in 1..3 |-> v(i)] = <<v(1), v(2), v(3)>>
    OBVIOUS
  <2> QED
    BY <2>3, <2>4, <2>5 DEF Placeholders
<1>16. Types' /\ Apart(Past(f, k), m, e)'
  <2>1. messages' \in Seq(Texts) /\ Between(messages', stops, Past(f, k), m)
    BY <1>4, <1>6, <1>14
  <2> HIDE DEF Texts
  <2>2. /\ Past(f, k).stop = told' /\ Past(f, k).ask = answered'
    BY <1>3, <1>7, <1>8
  <2> QED
    BY <1>1, <1>2, <1>3, <1>15, <2>1, <2>2, Taken
<1>17. told' > 0 => current' = stops'[told']
  BY <1>3 DEF WholeMessages
<1> QED
  BY <1>16, <1>17 DEF WholeMessages

LEMMA StutterStep == WholeMessages /\ UNCHANGED vars => WholeMessages'
  BY DEF WholeMessages, Types, Apart, vars, adapterVars, engineVars

-----------------------------------------------------------------------------
\* The results

\* The lines of a data event are at every moment those of whole messages, so
\* that each call of handleSocketData takes exactly one of them.
THEOREM WholeMessagesHolds == NoCommas => (Spec => []WholeMessages)
<1> SUFFICES ASSUME NoCommas PROVE Spec => []WholeMessages
  OBVIOUS
<1>1. WholeMessages /\ [Next]_vars => WholeMessages'
  BY RequestStep, StopStep, VariablesStep, DataEventStep, HandleGetBreakpointsStep,
     HandleStopStep, HandleVariablesStep, HandleUnknownStep, StutterStep
  DEF Next
<1> QED
  BY InitWhole, <1>1, PTL DEF Spec

LEMMA WholeReadsBack == WholeMessages => StopsReadBack
<1> SUFFICES ASSUME WholeMessages PROVE StopsReadBack
  OBVIOUS
<1>1. PICK f, m, e : Apart(f, m, e)
  BY DEF WholeMessages
<1>2. Types
  BY DEF WholeMessages
<1>3. told <= Len(stops)
  BY <1>1, <1>2, ApartPlaces DEF Apart
<1>4. told > 0 => current = stops[told]
  BY DEF WholeMessages
<1>5. ASSUME messages = <<>>, received = <<>>
      PROVE  /\ told = Len(stops) /\ answered = asked
             /\ stops # <<>> /\ ~owes => variables = Placeholders
  <2>1. f = m /\ m = e
    BY <1>1, <1>5, NoneBetween DEF Apart
  <2> QED
    BY <1>1, <2>1 DEF Apart
<1> QED
  BY <1>3, <1>4, <1>5 DEF StopsReadBack

\* If no file name has a comma: however writes are merged into data events, no
\* stop is lost, told twice or out of order, the location held is that of the
\* stop told last, and when all is read nothing of what was written is missing.
THEOREM StopsReadBackHolds == NoCommas => (Spec => []StopsReadBack)
<1> SUFFICES ASSUME NoCommas PROVE Spec => []StopsReadBack
  OBVIOUS
<1> QED
  BY WholeMessagesHolds, WholeReadsBack, PTL
=============================================================================
