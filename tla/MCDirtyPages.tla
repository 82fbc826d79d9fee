---------------------------- MODULE MCDirtyPages -----------------------------
(***************************************************************************)
(* Small instances of DirtyPages: two transaction objects, tables of four  *)
(* buckets, segments of three slots in words of two bits.                  *)
(***************************************************************************)
EXTENDS DirtyPages

CONSTANTS t1, t2

Symmetry == Permutations(Txns)
==============================================================================
