--------------------------- MODULE MCMemcachedSync ---------------------------
(* MemcachedSync on small instances; the cfg files give the constants.     *)
EXTENDS MemcachedSync
==============================================================================
