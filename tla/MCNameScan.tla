----------------------------- MODULE MCNameScan ------------------------------
(***************************************************************************)
(* An instance of NameScan for TLC: names with both separators, a letter   *)
(* in both cases and another one.                                          *)
(***************************************************************************)
EXTENDS NameScan

FewChars == {"a", "A", "b", "/", "\\"}
=============================================================================
