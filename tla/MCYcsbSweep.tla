----------------------------- MODULE MCYcsbSweep -----------------------------
(* YcsbSweep on small instances; the cfg files give the constants.         *)
EXTENDS YcsbSweep
==============================================================================
