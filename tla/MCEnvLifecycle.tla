--------------------------- MODULE MCEnvLifecycle ----------------------------
(***************************************************************************)
(* Small instances of EnvLifecycle: three goroutines, one of which may     *)
(* close the environment and one copy it.                                  *)
(***************************************************************************)
EXTENDS EnvLifecycle

CONSTANTS t1, t2, t3
==============================================================================
