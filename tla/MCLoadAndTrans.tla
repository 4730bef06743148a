--------------------------- MODULE MCLoadAndTrans ---------------------------
(* LoadAndTrans on small instances; the cfg files give the constants.      *)
EXTENDS LoadAndTrans

\* An experiment with keys of an earlier run is not followed after the flush:
\* the properties that stale bears on promise nothing of it.
Flushed == ~stale
==============================================================================
