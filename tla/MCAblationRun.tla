--------------------------- MODULE MCAblationRun ---------------------------
(***************************************************************************)
(* Instance of AblationRun for TLC, with thresholds scaled down to tables  *)
(* of two comparisons: two wins pass, a loss without a win fails.          *)
(***************************************************************************)
EXTENDS AblationRunRefinement

MCPassing == {<<2, 0>>}
MCFailing == {<<0, 1>>, <<0, 2>>}
=============================================================================
