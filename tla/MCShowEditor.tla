----------------------------- MODULE MCShowEditor -----------------------------
(***************************************************************************)
(* Small shows for the editor.                                             *)
(***************************************************************************)
EXTENDS ShowEditor

\* The tree of a list, from its rows that are not empty.
TreeOf(rows, playhead) ==
  [row |-> [p \in Place |-> IF p \in DOMAIN rows THEN rows[p] ELSE << >>],
   playhead |-> playhead]

CONSTANTS l1, l2

OneList(rows) ==
  [order |-> <<l1>>, active |-> l1,
   show |-> [l \in List |-> IF l = l1 THEN TreeOf(rows, FirstOf(rows[Top])) ELSE EmptyTree]]

\* A group in a group and a cue after it, and a new show.
NestedShow == OneList([p \in {0, 1} |-> IF p = 0 THEN <<1, 3>> ELSE <<2>>])
NewShow == OneList([p \in {0} |-> << >>])

Shows == {NestedShow, NewShow}

=============================================================================
