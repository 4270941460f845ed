--------------------------- MODULE NameScan_proofs ---------------------------
(***************************************************************************)
(* The loop of AreSameFiles decides what ScriptPaths says of any two       *)
(* names, over any characters and of any length.                           *)
(***************************************************************************)
EXTENDS NameScan, WellFoundedInduction, SequenceTheorems, TLAPS

\* A nonempty set of naturals has a least element.
LEMMA LeastNat ==
  ASSUME NEW T \in SUBSET Nat, T # {}
  PROVE  \E x \in T : \A y \in T : x <= y
<1> DEFINE R == OpToRel(<, Nat)
<1>1. \E x \in T : \A y \in T : <<y, x>> \notin R
  <2>1. IsWellFoundedOn(R, Nat)
    BY NatLessThanWellFounded
  <2> HIDE DEF R
  <2> QED  BY <2>1, WFMin, Zenon
<1>2. \A x, y \in Nat : y < x => <<y, x>> \in R
  BY DEF OpToRel
<1>3. PICK x \in T : \A y \in T : <<y, x>> \notin R
  BY <1>1
<1>4. \A y \in T : ~(y < x)
  BY <1>2, <1>3
<1>5. \A y \in T : y \in Nat /\ x \in Nat
  OBVIOUS
<1>6. \A y \in T : x <= y
  BY <1>4, <1>5
<1> QED  BY <1>6

\* The part after the last separator begins somewhere.
LEMMA BaseStartFacts ==
  ASSUME NEW name \in Seq(Chars)
  PROVE  LET i == BaseStart(name)
         IN  /\ i \in 1..Len(name) + 1
             /\ i = 1 \/ name[i - 1] \in Separators
             /\ \A j \in i..Len(name) : name[j] \notin Separators
<1> DEFINE Free(i) == \A j \in i..Len(name) : name[j] \notin Separators
           T == {i \in 1..Len(name) + 1 : Free(i)}
<1>1. Len(name) \in Nat
  OBVIOUS
<1>2. Len(name) + 1 \in T /\ T \in SUBSET Nat
  BY <1>1
<1>3. PICK x \in T : \A y \in T : x <= y
  BY <1>2, LeastNat
<1>4. x = 1 \/ name[x - 1] \in Separators
  <2> SUFFICES ASSUME x # 1, name[x - 1] \notin Separators
               PROVE  FALSE
    OBVIOUS
  <2>1. x \in 1..Len(name) + 1 /\ Free(x)
    BY <1>3
  <2>2. x - 1 \in 1..Len(name) + 1
    BY <2>1, <1>1
  <2>3. \A j \in x - 1..Len(name) : j = x - 1 \/ j \in x..Len(name)
    BY <2>1, <1>1
  <2>4. Free(x - 1)
    BY <2>1, <2>3
  <2> QED  BY <2>2, <2>4, <1>3, <1>1
<1> QED  BY <1>3, <1>4 DEF BaseStart

\* Where a separator, or nothing, precedes a separator-free rest, that rest is
\* what follows the last separator.
LEMMA BaseStartUnique ==
  ASSUME NEW name \in Seq(Chars), NEW i \in 1..Len(name) + 1,
         i = 1 \/ name[i - 1] \in Separators,
         \A j \in i..Len(name) : name[j] \notin Separators
  PROVE  BaseStart(name) = i
<1> DEFINE b == BaseStart(name)
<1>1. /\ b \in 1..Len(name) + 1
      /\ b = 1 \/ name[b - 1] \in Separators
      /\ \A j \in b..Len(name) : name[j] \notin Separators
  BY BaseStartFacts
<1> HIDE DEF b
<1>2. Len(name) \in Nat
  OBVIOUS
<1>3. ASSUME b < i PROVE FALSE
  <2>1. i - 1 \in b..Len(name) /\ i # 1
    BY <1>1, <1>2, <1>3
  <2> QED  BY <2>1, <1>1
<1>4. ASSUME i < b PROVE FALSE
  <2>1. b - 1 \in i..Len(name) /\ b # 1
    BY <1>1, <1>2, <1>4
  <2> QED  BY <2>1, <1>1
<1> QED  BY <1>1, <1>2, <1>3, <1>4 DEF b

-----------------------------------------------------------------------------
LEMMA Start == Init => Walked /\ ScanDecides
<1> SUFFICES ASSUME Init PROVE Walked /\ ScanDecides
  OBVIOUS
<1>1. lhs \in Seq(Chars) /\ rhs \in Seq(Chars)
  BY DEF Init, Names
<1>2. Len(lhs) \in Nat /\ Len(rhs) \in Nat
  BY <1>1
<1> QED  BY <1>1, <1>2 DEF Init, Walked, ScanDecides

\* One character further back.
LEMMA WalkKeeps == Walked /\ Walk => Walked'
<1> SUFFICES ASSUME Walked, Walk PROVE Walked'
  OBVIOUS
<1>1. /\ lhs \in Seq(Chars) /\ rhs \in Seq(Chars)
      /\ Len(lhs) \in Nat /\ Len(rhs) \in Nat
      /\ l \in 1..Len(lhs) /\ r \in 1..Len(rhs)
      /\ lhs[l] \notin Separators /\ rhs[r] \notin Separators
      /\ Len(lhs) - l = Len(rhs) - r
  BY DEF Walked, Walk, Over, IsSeparator
<1>2. /\ lhs' = lhs /\ rhs' = rhs /\ verdict' = verdict
      /\ l' = l - 1 /\ r' = r - 1
  BY DEF Walk
<1>3. /\ l' \in 0..Len(lhs) /\ r' \in 0..Len(rhs)
      /\ Len(lhs) - l' = Len(rhs) - r'
  BY <1>1, <1>2
<1>4. ASSUME NEW i \in l' + 1..Len(lhs)
      PROVE  /\ lhs[i] \notin Separators
             /\ rhs[i - l' + r'] \notin Separators
             /\ ToLower(lhs[i]) = ToLower(rhs[i - l' + r'])
  <2>1. i - l' + r' = i - l + r /\ (i = l \/ i \in l + 1..Len(lhs))
    BY <1>1, <1>2
  <2>2. CASE i = l
    <3>1. i - l' + r' = r
      BY <2>2, <1>1, <1>2
    <3> QED  BY <3>1, <2>2, <1>1 DEF Walk
  <2>3. CASE i \in l + 1..Len(lhs)
    BY <2>1, <2>3 DEF Walked
  <2> QED  BY <2>1, <2>2, <2>3
<1> QED  BY <1>1, <1>2, <1>3, <1>4 DEF Walked

\* What the loop has left, at a separator or used up, is the file name's start.
LEMMA OverIsBase ==
  ASSUME NEW name \in Seq(Chars), NEW i \in 0..Len(name),
         \A j \in i + 1..Len(name) : name[j] \notin Separators
  PROVE  /\ i = 0 \/ name[i] \in Separators => BaseStart(name) = i + 1
         /\ i > 0 /\ name[i] \notin Separators => BaseStart(name) \in 1..i
<1>1. Len(name) \in Nat
  OBVIOUS
<1>2. ASSUME i = 0 \/ name[i] \in Separators PROVE BaseStart(name) = i + 1
  <2>1. i + 1 \in 1..Len(name) + 1 /\ (i + 1) - 1 = i
    BY <1>1
  <2>2. i + 1 = 1 \/ name[(i + 1) - 1] \in Separators
    BY <1>2, <2>1
  <2> QED  BY <2>1, <2>2, BaseStartUnique
<1>3. ASSUME i > 0, name[i] \notin Separators PROVE BaseStart(name) \in 1..i
  <2> DEFINE b == BaseStart(name)
  <2>1. b \in 1..Len(name) + 1 /\ (b = 1 \/ name[b - 1] \in Separators)
    BY BaseStartFacts
  <2> HIDE DEF b
  <2>2. ASSUME b > i PROVE FALSE
    <3>1. b - 1 = i \/ b - 1 \in i + 1..Len(name)
      BY <2>1, <2>2, <1>1
    <3> QED  BY <3>1, <2>1, <2>2, <1>3
  <2>3. b \in 1..i
    BY <2>1, <2>2, <1>1
  <2> QED  BY <2>3 DEF b
<1> QED  BY <1>2, <1>3

\* The lengths and characters of the names compared.
LEMMA BaseNameFacts ==
  ASSUME NEW name \in Seq(Chars)
  PROVE  LET b == BaseStart(name)
         IN  /\ BaseName(name) \in Seq(Chars)
             /\ DOMAIN BaseName(name) = 1..Len(BaseName(name))
             /\ Len(BaseName(name)) = Len(name) - b + 1
             /\ \A k \in 1..Len(name) - b + 1 : BaseName(name)[k] = name[b + k - 1]
<1> DEFINE b == BaseStart(name)
<1>1. b \in 1..Len(name) + 1
  BY BaseStartFacts
<1> HIDE DEF b
<1>2. Len(name) \in Nat /\ \A j \in b..Len(name) : name[j] \in Chars
  BY <1>1
<1> DEFINE s == SubSeq(name, b, Len(name))
<1>3. /\ s \in Seq(Chars)
      /\ Len(s) = IF b <= Len(name) THEN Len(name) - b + 1 ELSE 0
      /\ \A k \in 1..Len(name) - b + 1 : s[k] = name[b + k - 1]
  BY <1>1, <1>2, SubSeqProperties
<1>4. DOMAIN s = 1..Len(s)
  BY <1>3
<1>5. Len(s) = Len(name) - b + 1
  BY <1>1, <1>2, <1>3
<1> QED  BY <1>3, <1>4, <1>5 DEF BaseName, b

\* What the names are where the loop stands.
LEMMA AtStop ==
  ASSUME Walked
  PROVE  /\ lhs \in Seq(Chars) /\ rhs \in Seq(Chars)
         /\ Len(lhs) \in Nat /\ Len(rhs) \in Nat
         /\ l \in 0..Len(lhs) /\ r \in 0..Len(rhs)
         /\ Len(lhs) - l = Len(rhs) - r
         /\ \A j \in l + 1..Len(lhs) : lhs[j] \notin Separators
         /\ \A j \in r + 1..Len(rhs) : rhs[j] \notin Separators
<1>1. /\ lhs \in Seq(Chars) /\ rhs \in Seq(Chars)
      /\ Len(lhs) \in Nat /\ Len(rhs) \in Nat
      /\ l \in 0..Len(lhs) /\ r \in 0..Len(rhs)
      /\ Len(lhs) - l = Len(rhs) - r
  BY DEF Walked
<1>2. \A j \in l + 1..Len(lhs) : lhs[j] \notin Separators
  BY DEF Walked
<1>3. ASSUME NEW j \in r + 1..Len(rhs) PROVE rhs[j] \notin Separators
  <2> DEFINE i == j + l - r
  <2>1. i \in l + 1..Len(lhs) /\ i - l + r = j
    BY <1>1
  <2>2. rhs[i - l + r] \notin Separators
    BY <2>1 DEF Walked
  <2> QED  BY <2>1, <2>2
<1> QED  BY <1>1, <1>2, <1>3

\* Both names end: their rests have been compared as a whole.
LEMMA BothEnd ==
  ASSUME Walked,
         l = 0 \/ lhs[l] \in Separators, r = 0 \/ rhs[r] \in Separators
  PROVE  AreSameFiles(lhs, rhs)
<1>0. /\ Len(lhs) \in Nat /\ Len(rhs) \in Nat
      /\ l \in 0..Len(lhs) /\ r \in 0..Len(rhs)
      /\ Len(lhs) - l = Len(rhs) - r
  BY AtStop
<1> DEFINE bl == BaseStart(lhs)  br == BaseStart(rhs)
<1>1. bl = l + 1 /\ br = r + 1
  BY AtStop, OverIsBase
<1>2. /\ Len(BaseName(lhs)) = Len(lhs) - bl + 1
      /\ \A k \in 1..Len(lhs) - bl + 1 : BaseName(lhs)[k] = lhs[bl + k - 1]
      /\ DOMAIN BaseName(lhs) = 1..Len(BaseName(lhs))
  BY AtStop, BaseNameFacts
<1>3. /\ Len(BaseName(rhs)) = Len(rhs) - br + 1
      /\ \A k \in 1..Len(rhs) - br + 1 : BaseName(rhs)[k] = rhs[br + k - 1]
  BY AtStop, BaseNameFacts
<1> HIDE DEF bl, br
<1>4. Len(BaseName(lhs)) = Len(lhs) - l /\ Len(BaseName(rhs)) = Len(lhs) - l
  BY <1>0, <1>1, <1>2, <1>3
<1>5. ASSUME NEW k \in 1..Len(lhs) - l
      PROVE  ToLower(BaseName(lhs)[k]) = ToLower(BaseName(rhs)[k])
  <2> DEFINE i == l + k
  <2>1. /\ i \in l + 1..Len(lhs) /\ bl + k - 1 = i /\ br + k - 1 = i - l + r
        /\ k \in 1..Len(lhs) - bl + 1 /\ k \in 1..Len(rhs) - br + 1
    BY <1>0, <1>1
  <2>2. ToLower(lhs[i]) = ToLower(rhs[i - l + r])
    BY <2>1 DEF Walked
  <2> QED  BY <2>1, <2>2, <1>2, <1>3
<1> QED  BY <1>2, <1>4, <1>5 DEF AreSameFiles

\* Only one of them ends: the other one's rest is longer.
LEMMA OneEnds ==
  ASSUME Walked,
         \/ (l = 0 \/ lhs[l] \in Separators) /\ r > 0 /\ rhs[r] \notin Separators
         \/ (r = 0 \/ rhs[r] \in Separators) /\ l > 0 /\ lhs[l] \notin Separators
  PROVE  ~AreSameFiles(lhs, rhs)
<1>0. /\ Len(lhs) \in Nat /\ Len(rhs) \in Nat
      /\ l \in 0..Len(lhs) /\ r \in 0..Len(rhs)
      /\ Len(lhs) - l = Len(rhs) - r
  BY AtStop
<1> DEFINE bl == BaseStart(lhs)  br == BaseStart(rhs)
<1>1. \/ bl = l + 1 /\ br \in 1..r
      \/ br = r + 1 /\ bl \in 1..l
  BY AtStop, OverIsBase
<1>2. /\ Len(BaseName(lhs)) = Len(lhs) - bl + 1
      /\ Len(BaseName(rhs)) = Len(rhs) - br + 1
  BY AtStop, BaseNameFacts
<1> HIDE DEF bl, br
<1>3. Len(BaseName(lhs)) # Len(BaseName(rhs))
  BY <1>0, <1>1, <1>2
<1> QED  BY <1>3 DEF AreSameFiles

\* A difference before either ends is one of the file names.
LEMMA DifferenceCounts ==
  ASSUME Walked, l > 0, r > 0, lhs[l] \notin Separators, rhs[r] \notin Separators,
         ToLower(lhs[l]) # ToLower(rhs[r])
  PROVE  ~AreSameFiles(lhs, rhs)
<1>0. /\ Len(lhs) \in Nat /\ Len(rhs) \in Nat
      /\ l \in 0..Len(lhs) /\ r \in 0..Len(rhs)
      /\ Len(lhs) - l = Len(rhs) - r
  BY AtStop
<1> DEFINE bl == BaseStart(lhs)  br == BaseStart(rhs)
<1>1. bl \in 1..l /\ br \in 1..r
  BY AtStop, OverIsBase
<1>2. /\ Len(BaseName(lhs)) = Len(lhs) - bl + 1
      /\ \A k \in 1..Len(lhs) - bl + 1 : BaseName(lhs)[k] = lhs[bl + k - 1]
      /\ DOMAIN BaseName(lhs) = 1..Len(BaseName(lhs))
  BY AtStop, BaseNameFacts
<1>3. /\ Len(BaseName(rhs)) = Len(rhs) - br + 1
      /\ \A k \in 1..Len(rhs) - br + 1 : BaseName(rhs)[k] = rhs[br + k - 1]
  BY AtStop, BaseNameFacts
<1> HIDE DEF bl, br
<1> SUFFICES ASSUME AreSameFiles(lhs, rhs) PROVE FALSE
  OBVIOUS
<1>4. Len(lhs) - bl + 1 = Len(rhs) - br + 1
  BY <1>2, <1>3 DEF AreSameFiles
<1> DEFINE k == l - bl + 1
<1>5. /\ k \in 1..Len(lhs) - bl + 1 /\ k \in 1..Len(rhs) - br + 1
      /\ bl + k - 1 = l /\ br + k - 1 = r
  BY <1>0, <1>1, <1>4
<1> HIDE DEF k
<1>6. k \in DOMAIN BaseName(lhs)
  BY <1>2, <1>5
<1>7. ToLower(BaseName(lhs)[k]) = ToLower(BaseName(rhs)[k])
  BY <1>6 DEF AreSameFiles
<1>8. BaseName(lhs)[k] = lhs[l] /\ BaseName(rhs)[k] = rhs[r]
  BY <1>2, <1>3, <1>5
<1> QED  BY <1>7, <1>8

\* One step of the loop, or of what follows it.
LEMMA StepKeeps == Walked /\ ScanDecides /\ [Next]_vars => Walked' /\ ScanDecides'
<1> SUFFICES ASSUME Walked, ScanDecides, [Next]_vars PROVE Walked' /\ ScanDecides'
  OBVIOUS
<1>1. CASE Walk
  <2>1. Walked'
    BY <1>1, WalkKeeps
  <2>2. verdict' = "none"
    BY <1>1 DEF Walk
  <2> QED  BY <2>1, <2>2 DEF ScanDecides
<1>2. CASE Differ
  <2>1. /\ lhs' = lhs /\ rhs' = rhs /\ l' = l /\ r' = r
        /\ verdict' = "different"
    BY <1>2 DEF Differ
  <2>2. Walked'
    BY <2>1 DEF Walked
  <2>3. /\ l > 0 /\ r > 0 /\ lhs[l] \notin Separators /\ rhs[r] \notin Separators
        /\ ToLower(lhs[l]) # ToLower(rhs[r])
    BY <1>2, AtStop DEF Differ, Over, IsSeparator
  <2>4. ~AreSameFiles(lhs, rhs)
    BY <2>3, DifferenceCounts
  <2> QED  BY <2>1, <2>2, <2>4 DEF ScanDecides
<1>3. CASE Decide
  <2>1. lhs' = lhs /\ rhs' = rhs /\ l' = l /\ r' = r
    BY <1>3 DEF Decide
  <2>2. verdict' = IF \/ l > 0 /\ lhs[l] \notin Separators
                      \/ r > 0 /\ rhs[r] \notin Separators
                     THEN "different" ELSE "same"
    BY <1>3, AtStop DEF Decide, IsSeparator
  <2>3. Walked'
    BY <2>1, <2>2 DEF Walked
  <2>4. \/ l = 0 \/ lhs[l] \in Separators
        \/ r = 0 \/ rhs[r] \in Separators
    BY <1>3, AtStop DEF Decide, Over, IsSeparator
  <2>5. CASE (l = 0 \/ lhs[l] \in Separators) /\ (r = 0 \/ rhs[r] \in Separators)
    <3>1. AreSameFiles(lhs, rhs) /\ verdict' = "same"
      BY <2>5, <2>2, BothEnd, AtStop
    <3> QED  BY <3>1, <2>1, <2>3 DEF ScanDecides
  <2>6. CASE ~((l = 0 \/ lhs[l] \in Separators) /\ (r = 0 \/ rhs[r] \in Separators))
    <3>1. \/ (l = 0 \/ lhs[l] \in Separators) /\ r > 0 /\ rhs[r] \notin Separators
          \/ (r = 0 \/ rhs[r] \in Separators) /\ l > 0 /\ lhs[l] \notin Separators
      BY <2>4, <2>6, AtStop
    <3>2. ~AreSameFiles(lhs, rhs) /\ verdict' = "different"
      BY <3>1, <2>2, OneEnds
    <3> QED  BY <3>2, <2>1, <2>3 DEF ScanDecides
  <2> QED  BY <2>5, <2>6
<1>4. CASE UNCHANGED vars
  BY <1>4 DEF vars, Walked, ScanDecides
<1> QED  BY <1>1, <1>2, <1>3, <1>4 DEF Next

\* AreSameFiles of the code and of ScriptPaths agree on any two names, of any
\* length: both say whether the parts after the last separators are the same
\* but for case.
THEOREM ComparesFileNames == Spec => []ScanDecides
<1>1. Spec => [](Walked /\ ScanDecides)
  BY Start, StepKeeps, PTL DEF Spec
<1> QED  BY <1>1, PTL

=============================================================================
