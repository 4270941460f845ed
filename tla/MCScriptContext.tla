-------------------------- MODULE MCScriptContext ----------------------------
(***************************************************************************)
(* Instances of ScriptContext: the constants of the runs are numbers.      *)
(***************************************************************************)
EXTENDS ScriptContext
=============================================================================
