--------------------------- MODULE MCCaptureSystem ---------------------------
(***************************************************************************)
(* CaptureSystem and its refinement mapping instantiated for TLC: the       *)
(* permutations under which the request handlers and the worker threads of  *)
(* one process are alike.                                                   *)
(***************************************************************************)
EXTENDS CaptureRefinement, TLC

Symmetry == Permutations(Clients) \cup Permutations(ApiWorkers)
=============================================================================
