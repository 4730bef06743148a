-------------------------- MODULE MCHorizontalScale --------------------------
(* HorizontalScale on small instances; the cfg files give the constants.   *)
EXTENDS HorizontalScale
==============================================================================
