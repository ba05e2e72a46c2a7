-------------------------------- MODULE CueTree --------------------------------
(***************************************************************************)
(* A cue list as a tree of cues, and what each editing operation of        *)
(* show/cue_list.rs makes of it.  The top-level cues and the children of   *)
(* every group are rows; a cue is named by its UUID, here a number.        *)
(*                                                                         *)
(* The operations look a cue up by its UUID, so they are defined for trees *)
(* that list each UUID once.  Cue numbers, Number cues and the inner       *)
(* playhead of a Sequential group are left out.                            *)
(***************************************************************************)
EXTENDS Integers, SequencesExt

CONSTANT MaxCues  \* how many UUIDs a behaviour may use

Cue == 1 .. MaxCues
Top == 0     \* the row of the list itself
NoCue == 0   \* no Playhead
Place == Cue \cup {Top}
Tree == [row : [Place -> Seq(Cue)], playhead : Cue \cup {NoCue}]

EmptyTree == [row |-> [p \in Place |-> << >>], playhead |-> NoCue]

Listed(t) == UNION {Range(t.row[p]) : p \in Place}
TopLevel(t) == Range(t.row[Top])
PlaceOf(t, x) == CHOOSE p \in Place : x \in Range(t.row[p])
PositionIn(s, x) == CHOOSE i \in DOMAIN s : s[i] = x
FirstOf(s) == IF s = << >> THEN NoCue ELSE s[1]

\* A cue and everything below it: no tree is deeper than it has cues.
Subtree(t, x) ==
  LET upTo[n \in 0 .. MaxCues] ==
        IF n = 0 THEN {x}
        ELSE LET above == upTo[n - 1] IN above \cup UNION {Range(t.row[z]) : z \in above}
  IN  upTo[MaxCues]

\* The cues of s that are in S, in their order.
Among(s, S) ==
  LET upTo[n \in 0 .. Len(s)] ==
        IF n = 0 THEN << >>
        ELSE IF s[n] \in S THEN Append(upTo[n - 1], s[n]) ELSE upTo[n - 1]
  IN  upTo[Len(s)]

\* The rows once the cues of S are taken out of them, each with its own row.
RowsWithout(t, S) == [p \in Place |-> Among(t.row[p], Cue \ S)]

\* The rows once whole subtrees are dropped.
RowsDropping(t, gone) ==
  [p \in Place |-> IF p \in gone THEN << >> ELSE RowsWithout(t, gone)[p]]

\* push at the end, insert elsewhere: a pushed cue becomes the Playhead of an
\* empty list only, an inserted one whenever there is none.
Pushed(t, x, i) ==
  LET top == t.row[Top]
      parks == IF i > Len(top) THEN top = << >> ELSE t.playhead = NoCue
  IN  [row |-> [t.row EXCEPT ![Top] = InsertAt(top, i, x)],
       playhead |-> IF parks THEN x ELSE t.playhead]

\* Mutant: the Playhead stays on a cue that is removed.
RemovedUnderPlayhead(t, S) ==
  [t EXCEPT !.row = RowsDropping(t, UNION {Subtree(t, x) : x \in S})]

\* remove_many_anywhere: a Playhead on a removed cue goes to the next one left,
\* or to the last.
Removed(t, S) ==
  LET gone == UNION {Subtree(t, x) : x \in S}
      row == RowsDropping(t, gone)
      at == PositionIn(t.row[Top], t.playhead)
      next == Among(SubSeq(t.row[Top], at, Len(t.row[Top])), Cue \ S)
  IN  [row |-> row,
       playhead |-> IF t.playhead \notin S \cap TopLevel(t) THEN t.playhead
                    ELSE IF next # << >> THEN next[1]
                    ELSE IF row[Top] # << >> THEN Last(row[Top]) ELSE NoCue]

\* Mutant: the moved cues overwrite the cue they are put before.
MovedOver(t, ids, before) ==
  LET staying == RowsWithout(t, Range(ids))[Top]
      at == IF before \in Range(staying) THEN PositionIn(staying, before)
            ELSE Len(staying) + 1
  IN  IF before \in Range(ids) THEN t
      ELSE [t EXCEPT !.row[Top] = SubSeq(staying, 1, at - 1) \o ids
                                    \o SubSeq(staying, at + 1, Len(staying))]

\* move_cue and move_before: top-level cues go before another one, or to the end.
MovedBefore(t, ids, before) ==
  LET staying == RowsWithout(t, Range(ids))[Top]
      at == IF before \in Range(staying) THEN PositionIn(staying, before)
            ELSE Len(staying) + 1
  IN  IF before \in Range(ids) THEN t
      ELSE [t EXCEPT !.row[Top] = SubSeq(staying, 1, at - 1) \o ids
                                    \o SubSeq(staying, at, Len(staying))]

\* group_cues: the new group takes the place of the first selected cue.
Grouped(t, ids, g) ==
  LET first == CHOOSE i \in DOMAIN t.row[Top] :
                 /\ t.row[Top][i] \in Range(ids)
                 /\ \A j \in 1 .. i - 1 : t.row[Top][j] \notin Range(ids)
  IN  [t EXCEPT !.row = [RowsWithout(t, Range(ids)) EXCEPT
                           ![Top] = InsertAt(@, first, g), ![g] = ids]]

\* ungroup: the children take the group's place.
Ungrouped(t, g) ==
  LET top == t.row[Top]
      at == PositionIn(top, g)
  IN  [row |-> [t.row EXCEPT
                  ![Top] = SubSeq(top, 1, at - 1) \o t.row[g] \o SubSeq(top, at + 1, Len(top)),
                  ![g] = << >>],
       playhead |-> IF t.playhead = g THEN FirstOf(t.row[g]) ELSE t.playhead]

\* A cue that leaves its place takes the Playhead to the first one left.
PlayheadWithout(t, x) ==
  IF t.playhead = x THEN FirstOf(RowsWithout(t, {x})[Top]) ELSE t.playhead

\* add_to_group: the cue is taken out before the group is looked for, so a cue
\* that goes into its own subtree is dropped with all of it.
MovedIntoGroup(t, x, g, i) ==
  LET row == RowsWithout(t, {x})
  IN  [row |-> IF g \in Subtree(t, x) THEN RowsDropping(t, Subtree(t, x))
               ELSE [row EXCEPT ![g] = InsertAt(@, IF i > Len(@) THEN Len(@) + 1 ELSE i, x)],
       playhead |-> PlayheadWithout(t, x)]

\* Mutant: the child is put after the group and stays in it.
CopiedOutOfGroup(t, g, x) ==
  [t EXCEPT !.row[Top] = InsertAt(@, PositionIn(@, g) + 1, x)]

\* remove_from_group: right after the group, which is a top-level one.
TakenOutOfGroup(t, g, x) ==
  LET row == RowsWithout(t, {x})
  IN  [t EXCEPT !.row = [row EXCEPT ![Top] = InsertAt(@, PositionIn(@, g) + 1, x)]]

\* move_to_top_level_before, from anywhere.
MovedToTopLevel(t, x, before) ==
  LET row == RowsWithout(t, {x})
      at == IF before \in Range(row[Top]) THEN PositionIn(row[Top], before)
            ELSE Len(row[Top]) + 1
  IN  [row |-> [row EXCEPT ![Top] = InsertAt(@, at, x)],
       playhead |-> PlayheadWithout(t, x)]

\* duplicate_cue and duplicate_cues: each copy comes right after its source, and
\* only its root gets a new UUID.
Duplicated(t, ids, n) ==
  LET withCopies(s) ==
        FlattenSeq([i \in DOMAIN s |->
          IF s[i] \in Range(ids) THEN <<s[i], n + PositionIn(ids, s[i])>> ELSE <<s[i]>>])
  IN  [t EXCEPT !.row = [p \in Place |->
         IF p \in n + 1 .. n + Len(ids) THEN t.row[ids[p - n]] ELSE withCopies(t.row[p])]]

\* The cues of a list from top to bottom, each group before its children.
Playlist(t) ==
  LET from[n \in 0 .. MaxCues] ==
        [x \in Cue |->
           IF n = 0 THEN <<x>>
           ELSE <<x>> \o FlattenSeq([i \in DOMAIN t.row[x] |-> from[n - 1][t.row[x][i]]])]
  IN  FlattenSeq([i \in DOMAIN t.row[Top] |-> from[MaxCues][t.row[Top][i]]])

EmptyClipboard == [roots |-> << >>, row |-> << >>, groups |-> {}]

\* copy_cues: the selected cues that are not inside another selected one, with
\* all below them, in playlist order.  The copies are numbered from 1.
Copied(t, S, groups) ==
  LET below(x) == Subtree(t, x)
      ids == Among(Playlist(t), UNION {below(x) : x \in S})
      roots == Among(ids, {y \in S : \A x \in S \ {y} : y \notin below(x)})
      numbers(s) == [i \in DOMAIN s |-> PositionIn(ids, s[i])]
  IN  [roots |-> numbers(roots),
       row |-> [i \in DOMAIN ids |-> numbers(t.row[ids[i]])],
       groups |-> {i \in DOMAIN ids : ids[i] \in groups}]

\* paste_cue: every cue of the clipboard gets a new UUID, after n.  The roots go
\* after the anchor in its row; without one they are inserted at the end.
Pasted(t, clip, n, after) ==
  LET fresh(s) == [i \in DOMAIN s |-> n + s[i]]
      anchored == after \in Listed(t)
      place == IF anchored THEN PlaceOf(t, after) ELSE Top
      at == IF anchored THEN PositionIn(t.row[place], after) ELSE Len(t.row[Top])
  IN  [row |-> [p \in Place |->
         IF p \in n + 1 .. n + Len(clip.row) THEN fresh(clip.row[p - n])
         ELSE IF p # place THEN t.row[p]
         ELSE SubSeq(t.row[p], 1, at) \o fresh(clip.roots)
                \o SubSeq(t.row[p], at + 1, Len(t.row[p]))],
       playhead |-> IF anchored \/ t.playhead # NoCue THEN t.playhead
                    ELSE n + clip.roots[1]]

\* set_playhead: a nested cue parks the Playhead on its top-level ancestor.
Parked(t, x) ==
  IF x = NoCue \/ x \in TopLevel(t) THEN x
  ELSE CHOOSE a \in TopLevel(t) : x \in Subtree(t, a)

\* restore_snapshot: the Playhead of the snapshot, if it is a top-level cue.
Restored(t) ==
  [row |-> t.row,
   playhead |-> IF t.playhead \in TopLevel(t) THEN t.playhead ELSE NoCue]

\* Every UUID is listed once, in the row of the list or of a listed group.
EachListedOnce(t, groups) ==
  /\ \A p, q \in Place : \A i \in DOMAIN t.row[p], j \in DOMAIN t.row[q] :
       t.row[p][i] = t.row[q][j] => p = q /\ i = j
  /\ \A p \in Cue : t.row[p] # << >> => p \in groups
  /\ Listed(t) = UNION {Subtree(t, x) : x \in TopLevel(t)}

=============================================================================
