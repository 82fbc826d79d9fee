----------------------------- MODULE MCNamedTrees -----------------------------
(***************************************************************************)
(* Small instances of NamedTrees: two databases, two handles, one reader.  *)
(***************************************************************************)
EXTENDS NamedTrees, TLC

CONSTANTS n1, n2, r1

NamesAreAlike == Permutations({n1, n2})
==============================================================================
