--------------------------- MODULE MCCuptiCollector ---------------------------
(* CuptiCollector for model checking: one device with the two banks of the *)
(* source, three slots.  No symmetry, because the run checks liveness.     *)
EXTENDS CuptiCollector
==============================================================================
