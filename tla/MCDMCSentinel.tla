---------------------------- MODULE MCDMCSentinel ----------------------------
(* DMCSentinel on small instances; the cfg files give the constants.       *)
EXTENDS DMCSentinel
==============================================================================
