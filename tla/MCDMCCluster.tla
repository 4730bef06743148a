---------------------------- MODULE MCDMCCluster ----------------------------
(* DMCCluster on small instances; the cfg files give the constants.        *)
EXTENDS DMCCluster

\* An experiment with keys of an earlier run is not followed after the flush:
\* the properties that stale bears on promise nothing of it.
Flushed == ~stale
==============================================================================
