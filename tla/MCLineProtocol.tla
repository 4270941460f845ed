---------------------------- MODULE MCLineProtocol ---------------------------
(***************************************************************************)
(* Instances of LineProtocol for TLC.                                      *)
(***************************************************************************)
EXTENDS LineProtocol

NoEngines == {}
ShortPath == {<<"a">>}
OneSection == {<<"s">>}
LongLines == {2, 23}
=============================================================================
