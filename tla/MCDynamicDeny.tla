--------------------------- MODULE MCDynamicDeny ---------------------------
(* Instances of DynamicDeny for TLC. *)
EXTENDS DynamicDeny

CONSTANTS h1, h2

OneHandler  == {h1}
TwoHandlers == {h1, h2}

Calm       == {}
Everything == AllSituations
=============================================================================
