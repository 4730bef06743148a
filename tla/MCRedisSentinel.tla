---------------------------- MODULE MCRedisSentinel ----------------------------
(* Values of the constants of RedisSentinel for TLC: see the .cfg files.      *)
EXTENDS RedisSentinel
==============================================================================
