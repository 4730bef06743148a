--------------------------- MODULE MCScaleScripts ---------------------------
(* ScaleScripts on small instances; the cfg files give the constants.      *)
EXTENDS ScaleScripts
==============================================================================
