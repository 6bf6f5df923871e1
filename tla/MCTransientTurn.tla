--------------------------- MODULE MCTransientTurn ---------------------------
(* Model checking of TransientTurn: see the README for the runs.           *)
EXTENDS TransientTurnInvariant

CONSTANT r1

OneRun == {r1}

=============================================================================
