------------------------------- MODULE NameScan ------------------------------
(***************************************************************************)
(* The loop of AreSameFiles (asdbg_backend.hpp): it walks two file names   *)
(* backwards, character by character, and decides on the way.  The other   *)
(* modules use ScriptPaths!AreSameFiles, which says what it computes; this *)
(* one has the loop itself.                                                *)
(***************************************************************************)
EXTENDS ScriptPaths, Integers

CONSTANTS
  Chars,    \* the characters of names
  MaxChars  \* bound: the length of a name

ASSUME NameAssumption == MaxChars \in Nat

VARIABLES
  lhs,     \* the names compared
  rhs,
  l,       \* the positions the loop has reached in them, 0 past the first
  r,
  verdict  \* "none" while the loop runs, then what is returned

vars == <<lhs, rhs, l, r, verdict>>

Names == UNION {[1..n -> Chars] : n \in 0..MaxChars}

Init ==
  /\ lhs \in Names
  /\ rhs \in Names
  /\ l = Len(lhs)
  /\ r = Len(rhs)
  /\ verdict = "none"

IsSeparator(name, i) == i > 0 /\ name[i] \in Separators

\* The loop is left without a difference: a name is used up or at a separator.
Over == l = 0 \/ r = 0 \/ IsSeparator(lhs, l) \/ IsSeparator(rhs, r)

\* Both characters are the same but for case: one further.
Walk ==
  /\ verdict = "none"
  /\ ~Over
  /\ ToLower(lhs[l]) = ToLower(rhs[r])
  /\ l' = l - 1
  /\ r' = r - 1
  /\ UNCHANGED <<lhs, rhs, verdict>>

Differ ==
  /\ verdict = "none"
  /\ ~Over
  /\ ToLower(lhs[l]) # ToLower(rhs[r])
  /\ verdict' = "different"
  /\ UNCHANGED <<lhs, rhs, l, r>>

\* Mutant: the loop's end decides, whatever is left of the names.
Decide_atOnce ==
  /\ verdict = "none"
  /\ Over
  /\ verdict' = "same"
  /\ UNCHANGED <<lhs, rhs, l, r>>

\* After the loop neither name may have a character of its own left.
Decide ==
  /\ verdict = "none"
  /\ Over
  /\ verdict' = IF \/ l > 0 /\ ~IsSeparator(lhs, l)
                   \/ r > 0 /\ ~IsSeparator(rhs, r)
                  THEN "different" ELSE "same"
  /\ UNCHANGED <<lhs, rhs, l, r>>

Next == Walk \/ Differ \/ Decide

Spec == Init /\ [][Next]_vars

-----------------------------------------------------------------------------
\* What lies behind the loop: as many characters of either name, the same but
\* for case, and no separator among them.
Walked ==
  /\ lhs \in Seq(Chars) /\ rhs \in Seq(Chars)
  /\ l \in 0..Len(lhs) /\ r \in 0..Len(rhs)
  /\ verdict \in {"none", "same", "different"}
  /\ Len(lhs) - l = Len(rhs) - r
  /\ \A i \in l + 1..Len(lhs) :
       /\ lhs[i] \notin Separators
       /\ rhs[i - l + r] \notin Separators
       /\ ToLower(lhs[i]) = ToLower(rhs[i - l + r])

\* The loop finds out what AreSameFiles of ScriptPaths says, of any two names:
\* whether the parts after their last separators are the same but for case.
ScanDecides ==
  verdict # "none" => ((verdict = "same") <=> AreSameFiles(lhs, rhs))
=============================================================================
