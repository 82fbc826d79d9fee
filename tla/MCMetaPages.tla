----------------------------- MODULE MCMetaPages -----------------------------
(***************************************************************************)
(* Small instances of MetaPages: one process with its readers, or two      *)
(* processes of which the first has them.                                  *)
(***************************************************************************)
EXTENDS MetaPages

CONSTANTS p1, p2, r1

HomeP1 == [r \in Readers |-> p1]
==============================================================================
