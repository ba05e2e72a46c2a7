----------------------------- MODULE EditTimeline -----------------------------
(***************************************************************************)
(* What an undo history promises: the states of the edited thing form one  *)
(* timeline with a cursor on the present one.  An edit forgets what was    *)
(* undone and adds a state; undo and redo only move the cursor, so going   *)
(* back and forth never changes a state.  The present may also change in   *)
(* place, without an entry: the Playhead moves, another list is shown.     *)
(***************************************************************************)
EXTENDS Integers, Sequences

CONSTANT Depth  \* how many states back the timeline reaches

VARIABLES timeline, cursor

Init == cursor = 1 /\ Len(timeline) = 1

\* The states that stay when an edit adds one.
Kept == SubSeq(timeline, IF cursor > Depth THEN 2 ELSE 1, cursor)

Edit ==
  /\ cursor' = Len(Kept) + 1
  /\ Len(timeline') = cursor' /\ SubSeq(timeline', 1, Len(Kept)) = Kept

Undo == cursor > 1 /\ cursor' = cursor - 1 /\ UNCHANGED timeline
Redo == cursor < Len(timeline) /\ cursor' = cursor + 1 /\ UNCHANGED timeline

ChangeInPlace ==
  /\ Len(timeline') = Len(timeline) /\ UNCHANGED cursor
  /\ \A i \in 1 .. Len(timeline) : i # cursor => timeline'[i] = timeline[i]

Next == Edit \/ Undo \/ Redo \/ ChangeInPlace

Spec == Init /\ [][Next]_<<timeline, cursor>>

=============================================================================
