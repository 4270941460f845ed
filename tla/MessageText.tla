---------------------------- MODULE MessageText -----------------------------
(***************************************************************************)
(* The text of locations and numbers, and how the two ends take it apart   *)
(* again: std::to_string, std::stoi and find of the backend, template      *)
(* strings, split and parseInt of the adapter.                             *)
(*                                                                         *)
(* A text is a sequence of characters; a keyword, or a part of one that    *)
(* can be cut off, counts as one character.                                *)
(***************************************************************************)
EXTENDS SequencesExt, Integers

Digits == <<"0", "1", "2", "3", "4", "5", "6", "7", "8", "9">>
IsDigit(c) == \E i \in DOMAIN Digits : Digits[i] = c
DigitValue(c) == (CHOOSE i \in DOMAIN Digits : Digits[i] = c) - 1

\* std::to_string and ${bp.line}
NumberText[n \in Nat] ==
  IF n < 10 THEN <<Digits[n + 1]>>
            ELSE Append(NumberText[n \div 10], Digits[(n % 10) + 1])

LocationText(loc) == loc.path \o <<",">> \o NumberText[loc.line]

From(text, i) == SubSeq(text, i, Len(text))

UpTo(text, c) ==
  LET i == SelectInSeq(text, LAMBDA x : x = c)
  IN  IF i = 0 THEN text ELSE SubSeq(text, 1, i - 1)

\* What follows the first c; the empty text if there is none.
After(text, c) ==
  LET i == SelectInSeq(text, LAMBDA x : x = c)
  IN  IF i = 0 THEN <<>> ELSE From(text, i + 1)

Value(digits) ==
  LET value[k \in 0..Len(digits)] ==
        IF k = 0 THEN 0 ELSE 10 * value[k - 1] + DigitValue(digits[k])
  IN  value[Len(digits)]

\* std::stoi and parseInt: the number a text begins with, none if it does not.
NotANumber == -1
LeadingNumber(text) ==
  LET noDigit == SelectInSeq(text, LAMBDA c : ~IsDigit(c))
      digits == IF noDigit = 0 THEN text ELSE SubSeq(text, 1, noDigit - 1)
  IN  IF digits = <<>> THEN NotANumber ELSE Value(digits)
=============================================================================
