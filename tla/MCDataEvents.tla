----------------------------- MODULE MCDataEvents ----------------------------
(***************************************************************************)
(* Instances of DataEvents for TLC.                                        *)
(***************************************************************************)
EXTENDS DataEvents

TwoNames == {<<"a">>, <<"s", ".", "a", "s">>}
LongLines == {2, 203}
=============================================================================
