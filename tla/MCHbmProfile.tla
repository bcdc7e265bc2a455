---------------------------- MODULE MCHbmProfile ----------------------------
(* Model checking instance of HbmProfile.                                  *)
EXTENDS HbmProfile, TLC
=============================================================================
