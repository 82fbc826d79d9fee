---------------------------- MODULE MCReaderTable ----------------------------
(***************************************************************************)
(* Small instances of ReaderTable: process p1 with two transactions and p2 *)
(* with one, over two slots.                                               *)
(***************************************************************************)
EXTENDS ReaderTable

CONSTANTS p1, p2, t1, t2, t3

AnyPC == ThreadPCs
NotMidRelease == ThreadPCs \ {"clear"}

HomeTwoAndOne == [t \in Threads |-> IF t = t3 THEN p2 ELSE p1]
==============================================================================
