------------------------------ MODULE MapCursor ------------------------------
(***************************************************************************)
(* What a cursor promises its client (the comments on the operations of    *)
(* Cursor.Get): a place in the sorted keys of a map.  The client knows     *)
(* whether the cursor is new, at a key or at the end, the key it was given *)
(* last, what the last move gave it and what that move should have given.  *)
(***************************************************************************)
EXTENDS Integers, FiniteSetsExt

Nothing == 0   \* NotFound

MinOf(S) == IF S = {} THEN Nothing ELSE Min(S)
MaxOf(S) == IF S = {} THEN Nothing ELSE Max(S)

New == [state |-> "new", at |-> Nothing, ret |-> Nothing, want |-> Nothing]

Relative == {"Next", "Prev", "NextNoDup", "PrevNoDup", "GetCurrent"}
Moves    == Relative \cup {"First", "Last", "Set", "SetRange", "SetUpperbound"}

\* The key a move gives a client at v, if the map has these keys.
Promised(v, op, k, keys) ==
  CASE op = "First" \/ (op \in {"Next", "NextNoDup"} /\ v.state = "new") -> MinOf(keys)
    [] op = "Last" \/ (op \in {"Prev", "PrevNoDup"} /\ v.state = "new")
         \/ (op = "Prev" /\ v.state = "eof") -> MaxOf(keys)
    [] op = "Set"           -> MinOf(keys \cap {k})
    [] op = "SetRange"      -> MinOf({x \in keys : x >= k})
    [] op = "SetUpperbound" -> MinOf({x \in keys : x > k})
    [] op \in Relative /\ v.state # "at"  -> Nothing
    [] op \in {"Next", "NextNoDup"} -> MinOf({x \in keys : x > v.at})
    [] op \in {"Prev", "PrevNoDup"} -> MaxOf({x \in keys : x < v.at})
    [] op = "GetCurrent" -> MinOf(keys \cap {v.at})

\* Where a move that gave ret leaves the client.  Next stays at the last key,
\* and a seek behind the last key ends there; other moves that find nothing
\* end the iteration.
After(v, op, k, keys, ret) ==
  LET stays == IF op = "GetCurrent" \/ (op = "Next" /\ v.state = "at") THEN v
               ELSE [v EXCEPT !.state = "eof"]
      seen  == IF ret # Nothing THEN [v EXCEPT !.state = "at", !.at = ret]
               ELSE IF op \in {"SetRange", "SetUpperbound"} /\ keys # {}
               THEN [v EXCEPT !.state = "at", !.at = Max(keys)]
               ELSE stays
  IN [seen EXCEPT !.ret = ret, !.want = Promised(v, op, k, keys)]
==============================================================================
