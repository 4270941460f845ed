---------------------------- MODULE MCDebugSystem ----------------------------
(***************************************************************************)
(* Instances of DebugSystem for TLC: the names its runs choose from.       *)
(***************************************************************************)
EXTENDS DebugSystem, TLC

CONSTANTS e1, e2  \* model values: engine processes

\* The section the mock engine executes, two files of that name, of which only one
\* is found when a stop is reported, another script, and a file that is no script.
Section == <<"a", ".", "a", "s">>
ScriptFile == <<"/", "w", "/", "A", ".", "a", "s">>
SameScript == <<"/", "x", "/", "a", ".", "a", "s">>
OtherScript == <<"/", "w", "/", "b", ".", "a", "s">>
OtherFile == <<"/", "w", "/", "n">>

OneSection == {Section}
OneFile == {ScriptFile}
TwoScripts == {SameScript, OtherScript}
ScriptAndOther == {ScriptFile, OtherFile}

OneEngine == {e1}
TwoEngines == {e1, e2}
EngineSymmetry == Permutations(TwoEngines)

OneLine == {1}
LongLine == {23}
=============================================================================
