----------------------------- MODULE MCOneEngine -----------------------------
(***************************************************************************)
(* Instances of OneEngine for TLC.                                         *)
(***************************************************************************)
EXTENDS OneEngine

CONSTANT e1  \* model value: the engine

Section == <<"a", ".", "a", "s">>
ScriptFile == <<"/", "w", "/", "A", ".", "a", "s">>

OneSection == {Section}
OneFile == {ScriptFile}
OnlyEngine == {e1}
OneLine == {1}
=============================================================================
