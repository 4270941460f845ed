----------------------------- MODULE ScriptPaths -----------------------------
(***************************************************************************)
(* File names as the backend compares them (namespace detail of            *)
(* asdbg_backend.hpp).  A name is a sequence of one-character strings.     *)
(* The engine knows a script by its section name ("lazy.as"), VS Code by   *)
(* an absolute path; the two are matched with AreSameFiles when a          *)
(* breakpoint is looked up and with EndWith when a location is reported.   *)
(***************************************************************************)
EXTENDS Naturals, Sequences

Upper == <<"A", "B", "C", "D", "E", "F", "G", "H", "I", "J", "K", "L", "M",
           "N", "O", "P", "Q", "R", "S", "T", "U", "V", "W", "X", "Y", "Z">>
Lower == <<"a", "b", "c", "d", "e", "f", "g", "h", "i", "j", "k", "l", "m",
           "n", "o", "p", "q", "r", "s", "t", "u", "v", "w", "x", "y", "z">>

\* std::tolower on one character.
ToLower(c) ==
  IF \E i \in DOMAIN Upper : Upper[i] = c
    THEN Lower[CHOOSE i \in DOMAIN Upper : Upper[i] = c]
    ELSE c

Separators == {"/", "\\"}

\* Where the part of a name after its last separator begins.
BaseStart(name) ==
  CHOOSE i \in 1..Len(name) + 1 :
    /\ i = 1 \/ name[i - 1] \in Separators
    /\ \A j \in i..Len(name) : name[j] \notin Separators

\* What follows the last separator of a name.
BaseName(name) == SubSeq(name, BaseStart(name), Len(name))

\* The comparison loop walks both names backwards, ignoring case, until one
\* of them is used up or at a separator, and the other must then be too.
AreSameFiles(lhs, rhs) ==
  LET l == BaseName(lhs)
      r == BaseName(rhs)
  IN  /\ Len(l) = Len(r)
      /\ \A i \in DOMAIN l : ToLower(l[i]) = ToLower(r[i])

\* A plain suffix test: case matters, and the suffix may begin anywhere.
EndWith(str, suffix) ==
  /\ Len(suffix) <= Len(str)
  /\ SubSeq(str, Len(str) - Len(suffix) + 1, Len(str)) = suffix

\* The filter of setBreakPointsRequest: args.source.path?.endsWith('.as').
IsScriptFile(path) == EndWith(path, <<".", "a", "s">>)

=============================================================================
