------------------------------ MODULE MCCursors ------------------------------
(***************************************************************************)
(* Small instances of Cursors.  A page of nine units takes three leaf      *)
(* nodes or four branch entries of keys and values of one unit.            *)
(***************************************************************************)
EXTENDS Cursors

CONSTANTS r1, writer

ShortKeys == [k \in Keys |-> 1]
ShortVals == [v \in Vals |-> 1]
AllPuts   == Keys \X Vals

\* Keys put in ascending order fill their leaves, in descending order they
\* split them.
BothOrders == {<<1, 2, 3, 4, 5>>, <<5, 4, 3, 2, 1>>}

Client(moves, reads, changes, moveAfterPut) ==
  [moves |-> moves, reads |-> reads, changes |-> changes, moveAfterPut |-> moveAfterPut]

Seekers == {"First", "Last", "Set", "SetRange", "SetUpperbound"}
Scan    == {"First", "Next"}

\* Deletes through the cursor it moves; prunes with Txn.Del on its way; puts
\* and deletes where it sought; deletes ranges.  Readers make every move beside
\* the first, and scan beside the others.
Careful == {Client(Seekers \cup {"Next", "NextNoDup", "GetCurrent"}, Map!Moves, {"Cursor.Del"}, FALSE),
            Client({"First", "SetRange", "NextNoDup"}, Scan, {"Txn.Del"}, FALSE),
            Client({"First", "SetRange", "Next"}, Scan, {"Cursor.Put", "Cursor.Del"}, FALSE),
            Client({"First"}, Scan, {"Txn.DeleteRange", "Cursor.Del"}, FALSE)}
Pruning   == {Client(Scan, Scan, {"Txn.Del"}, FALSE)}
Mixing    == {Client(Scan, Scan, {"Txn.Del", "Cursor.Del"}, FALSE)}
Choosing  == {Client(Scan, Scan, {"Cursor.Del"}, FALSE)}
Putting   == {Client({"Next"}, Scan, {"Cursor.Put", "Cursor.Del"}, TRUE)}
Reusing   == {Client({}, Scan, {"Txn.DeleteRange", "Cursor.Put"}, FALSE)}
Backwards == {Client({"Last", "Prev"}, Scan, {"Cursor.Del"}, FALSE)}
==============================================================================
