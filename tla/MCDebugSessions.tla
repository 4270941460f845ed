--------------------------- MODULE MCDebugSessions ---------------------------
(***************************************************************************)
(* Instances of DebugSessions for TLC.                                     *)
(***************************************************************************)
EXTENDS DebugSessions

CONSTANT e1  \* model value: an engine process

Section == <<"a", ".", "a", "s">>
ScriptFile == <<"/", "w", "/", "A", ".", "a", "s">>
OtherFile == <<"/", "w", "/", "n">>

OneSection == {Section}
ScriptAndOther == {ScriptFile, OtherFile}
OneEngine == {e1}
OneLine == {1}
=============================================================================
