--------------------------- MODULE MCEventManager ---------------------------
(***************************************************************************)
(* Instances of EventManager for TLC.                                      *)
(***************************************************************************)
EXTENDS EventManager

\* Coroutines, requests and raw operations are interchangeable.
Symmetry == Permutations(Coros) \cup Permutations(Reqs) \cup Permutations(Raws)
=============================================================================
