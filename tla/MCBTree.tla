------------------------------- MODULE MCBTree -------------------------------
(***************************************************************************)
(* Small instances of BTree.  A page of six units takes two leaf nodes or  *)
(* three branch entries of keys and values of one unit.  A page of ten     *)
(* units takes three such nodes, or one node of a key and a value of the   *)
(* greatest inline lengths.  Big values go to one overflow page or two.    *)
(***************************************************************************)
EXTENDS BTree

CONSTANT r1

ShortKeys  == [k \in Keys |-> 1]
OneLongKey == [k \in Keys |-> IF k = 2 THEN MaxKeyLen ELSE 1]
Lengths == [v \in Vals |-> CASE v = "small" -> 1 [] v = "long" -> MaxValLen
                              [] v \in {"big", "large"} -> Room [] v = "huge" -> 2 * Room]

SmallPuts   == Keys \X {"small"}
SomeBigPuts == SmallPuts \cup ({2} \X {"big", "huge"})
OneLongPut  == SmallPuts \cup {<<2, "long">>}
OnlyBigPuts == Keys \X {"big", "large"}
==============================================================================
