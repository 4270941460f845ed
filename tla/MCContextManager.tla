--------------------------- MODULE MCContextManager ---------------------------
(* An instance of ContextManager: three contexts.                          *)
EXTENDS ContextManager

CONSTANTS c1, c2, c3

ThreeContexts == {c1, c2, c3}
=============================================================================
