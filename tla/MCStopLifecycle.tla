--------------------------- MODULE MCStopLifecycle --------------------------
(* Model values for StopLifecycle.  Stops are interchangeable, and so are  *)
(* request slots: permuting them maps behaviours to behaviours.  The       *)
(* symmetry is used for safety only.                                       *)
EXTENDS StopLifecycle, TLC

StopOrRequest == Permutations(Stop) \union Permutations(Request)

(* What a completion may report beside its cleaning.                       *)
AnyHazards == SUBSET Hazard
NoHazards == {{}}
=============================================================================
