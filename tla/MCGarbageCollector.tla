-------------------------- MODULE MCGarbageCollector -------------------------
(***************************************************************************)
(* Instances of GarbageCollector: one handle in an object, few objects.    *)
(***************************************************************************)
EXTENDS GarbageCollector

MCProps == {"p"}

\* What an iteration is asked for: no flag, and with asGC_DESTROY_GARBAGE.
Both == {[detect |-> TRUE, destroy |-> TRUE]}
BothOrDestroy == Both \cup {[detect |-> FALSE, destroy |-> TRUE]}
=============================================================================
