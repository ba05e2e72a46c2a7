------------------------------ MODULE ShowEditor ------------------------------
(***************************************************************************)
(* Editing a show: the commands of cue_cmds.rs that change the tree of the *)
(* active cue list, the commands of cue_list_cmds.rs that add, remove and  *)
(* switch lists, the replacement of the show, and the undo history of      *)
(* undo_cmds.rs and undo_stack.rs, which is one for all of them.           *)
(*                                                                         *)
(* The commands are synchronous, so the main thread runs them one after    *)
(* the other; cues start and end between them.                             *)
(***************************************************************************)
EXTENDS CueTree

CONSTANTS
  List,        \* the cue lists
  Project,     \* the shows that can be opened
  FileGroups,  \* the group cues of those shows
  FileCues,    \* their cues are 1 .. FileCues
  MaxUndo,     \* how far the history reaches back
  MaxSelected, \* bound on the cues of one selection
  MaxBusy,     \* bound on the cues running in one list
  MaxEdits,    \* bound on the recorded edits of a behaviour
  Operations   \* what this instance lets the operator do

OperationNames ==
  {"add", "remove", "move", "group", "nest", "duplicate", "lists", "open", "run",
   "paste", "nestInside", "groupPlayhead", "duplicateTree"}

ASSUME BoundsAssumption ==
  /\ MaxCues \in Nat /\ FileCues \in 0 .. MaxCues /\ FileGroups \subseteq 1 .. FileCues
  /\ MaxUndo \in Nat \ {0} /\ MaxSelected \in Nat /\ MaxBusy \in Nat /\ MaxEdits \in Nat
ASSUME OperationsAssumption == Operations \subseteq OperationNames
ASSUME ProjectAssumption ==
  /\ Project # {}
  /\ \A p \in Project :
       /\ p.order \in Seq(List) /\ p.order # << >> /\ p.active \in Range(p.order)
       /\ p.show \in [List -> Tree]
\* A project file holds what an editor saved: its UUIDs are given out, each is
\* listed once, and the Playhead is on a top-level cue.
ASSUME OpenedShowsAssumption ==
  \A p \in Project, l \in List :
    /\ EachListedOnce(p.show[l], FileGroups) /\ Listed(p.show[l]) \subseteq 1 .. FileCues
    /\ p.show[l].playhead \in TopLevel(p.show[l]) \cup {NoCue}

VARIABLES
  order,    \* the lists of the show, in order
  active,   \* the list shown in the current tab
  show,     \* show[l]: the cues of list l
  busy,     \* busy[l]: the cues of list l that run, are paused, preloaded or loading
  groups,   \* the cues that are groups
  used,     \* UUIDs 1 .. used are given out
  past,     \* the snapshots an undo can restore, the latest last
  future,   \* the snapshots a redo can restore, the next one last
  edits,    \* recorded edits so far
  clipboard \* the cues copied last

vars == <<order, active, show, busy, groups, used, past, future, edits, clipboard>>

Current == show[active]
Lists == Range(order)

(***************************************************************************)
(* The history                                                             *)
(***************************************************************************)
\* Mutant: the oldest snapshot is not trimmed.
RecordUntrimmed == past' = Append(past, Current) /\ future' = << >>

\* push_current_snapshot and push_action: before the change, for the active list.
Record ==
  /\ past' = IF Len(past) < MaxUndo THEN Append(past, Current)
             ELSE Append(Tail(past), Current)
  /\ future' = << >>

\* A recorded edit makes t of the active list.
Edit(t) ==
  /\ edits' = edits + 1
  /\ Record
  /\ show' = [show EXCEPT ![active] = t]
  /\ UNCHANGED <<order, active, clipboard>>

\* Edits that stop nothing and need no new UUID.
EditInPlace(t) == Edit(t) /\ UNCHANGED <<busy, groups, used>>

\* Edits that give out the next n UUIDs.
EditWithNew(t, n, newGroups) ==
  /\ used + n <= MaxCues /\ used' = used + n
  /\ groups' = groups \cup newGroups
  /\ Edit(t) /\ UNCHANGED busy

\* Mutant: only the top-level cues are asked whether they are active.
IdleAtTop == busy[active] \cap TopLevel(Current) = {}

\* ensure_transport_safe: no cue of the list, nested or not, is active.
Idle == busy[active] \cap Listed(Current) = {}

Undo ==
  /\ Idle /\ past # << >>
  /\ show' = [show EXCEPT ![active] = Restored(Last(past))]
  /\ past' = Front(past) /\ future' = Append(future, Current)
  /\ UNCHANGED <<order, active, busy, groups, used, edits, clipboard>>

\* Mutant: redo restores the state that was undone first.
RedoFirstUndone ==
  /\ Idle /\ future # << >>
  /\ show' = [show EXCEPT ![active] = Restored(future[1])]
  /\ past' = Append(past, Current) /\ future' = Tail(future)
  /\ UNCHANGED <<order, active, busy, groups, used, edits, clipboard>>

Redo ==
  /\ Idle /\ future # << >>
  /\ show' = [show EXCEPT ![active] = Restored(Last(future))]
  /\ past' = Append(past, Current) /\ future' = Front(future)
  /\ UNCHANGED <<order, active, busy, groups, used, edits, clipboard>>

(***************************************************************************)
(* Edits of the active list                                                *)
(***************************************************************************)
\* What a selection of cues of S can be.
SelectionOf(S) ==
  {ids \in UNION {[1 .. n -> S] : n \in 1 .. MaxSelected} :
     \A i, j \in DOMAIN ids : ids[i] = ids[j] => i = j}
Selection == SelectionOf(TopLevel(Current))

\* add_cue and add_targeted_cue.
AddCue ==
  "add" \in Operations /\ \E i \in 1 .. Len(Current.row[Top]) + 1, isGroup \in BOOLEAN :
    EditWithNew(Pushed(Current, used + 1, i), 1, IF isGroup THEN {used + 1} ELSE {})

\* A snapshot is taken, then the command changes properties only or fails: a
\* cue of the request is gone, nested where a top-level one is needed, or the
\* selection is empty.
EditWithoutMove == EditInPlace(Current)

\* remove_cue and remove_cues stop the trees they remove.
RemoveCues ==
  "remove" \in Operations /\ \E S \in SUBSET Listed(Current) :
    /\ Cardinality(S) \in 1 .. MaxSelected
    /\ Edit(Removed(Current, S))
    /\ busy' = [busy EXCEPT ![active] = @ \ UNION {Subtree(Current, x) : x \in S}]
    /\ UNCHANGED <<groups, used>>

MoveCues ==
  "move" \in Operations /\ \E ids \in Selection, before \in TopLevel(Current) \cup {NoCue} :
    EditInPlace(MovedBefore(Current, ids, before))

\* A selection with the Playhead leaves it on a nested cue.
GroupCues ==
  "group" \in Operations /\ \E ids \in Selection :
    /\ Current.playhead \in Range(ids) => "groupPlayhead" \in Operations
    /\ EditWithNew(Grouped(Current, ids, used + 1), 1, {used + 1})

\* The object of the group goes, with its state; its children stay.
Ungroup ==
  "group" \in Operations /\ \E g \in groups \cap TopLevel(Current) :
    /\ Edit(Ungrouped(Current, g))
    /\ busy' = [busy EXCEPT ![active] = @ \ {g}]
    /\ UNCHANGED <<groups, used>>

\* The front end only keeps a cue from going into itself.
AddCueToGroup(x, g, i) ==
  /\ "nest" \in Operations
  /\ x \in Listed(Current) /\ g \in groups \cap Listed(Current) /\ x # g
  /\ g \in Subtree(Current, x) => "nestInside" \in Operations
  /\ EditInPlace(MovedIntoGroup(Current, x, g, i))

RemoveCueFromGroup(x, g) ==
  /\ "nest" \in Operations
  /\ g \in TopLevel(Current) /\ x \in Range(Current.row[g])
  /\ EditInPlace(TakenOutOfGroup(Current, g, x))

MoveToTopLevel(x, before) ==
  /\ "nest" \in Operations
  /\ x \in Listed(Current) /\ before \in TopLevel(Current) \cup {NoCue}
  /\ EditInPlace(MovedToTopLevel(Current, x, before))

\* duplicate_cue and duplicate_cues.
DuplicateCues ==
  "duplicate" \in Operations /\ \E ids \in SelectionOf(Listed(Current)) :
    /\ (\E x \in Range(ids) : Current.row[x] # << >>) => "duplicateTree" \in Operations
    /\ used + Len(ids) <= MaxCues
    /\ EditWithNew(Duplicated(Current, ids, used), Len(ids),
                   {used + i : i \in {j \in DOMAIN ids : ids[j] \in groups}})

\* Into any list, after any of its cues or at the end.
PasteCues ==
  "paste" \in Operations /\ clipboard.roots # << >>
  /\ used + Len(clipboard.row) <= MaxCues
  /\ \E after \in Listed(Current) \cup {NoCue} :
       EditWithNew(Pasted(Current, clipboard, used, after), Len(clipboard.row),
                   {used + i : i \in clipboard.groups})

\* Lookups by UUID are only followed while no UUID is listed twice.
Editable == edits < MaxEdits /\ EachListedOnce(Current, groups)

(***************************************************************************)
(* Changes that are not recorded                                           *)
(***************************************************************************)
\* copy_cue and copy_cues; copies there are no UUIDs left to paste are left out.
CopyCues ==
  /\ "paste" \in Operations /\ Editable
  /\ \E S \in SUBSET Listed(Current) :
       Cardinality(S) \in 1 .. MaxSelected /\ clipboard' = Copied(Current, S, groups)
  /\ used + Len(clipboard'.row) <= MaxCues
  /\ UNCHANGED <<order, active, show, busy, groups, used, past, future, edits>>

\* The Playhead and the cues of a list; a GO moves the Playhead likewise.
SetPlayhead ==
  /\ \E x \in Listed(Current) \cup {NoCue} :
       show' = [show EXCEPT ![active].playhead = Parked(Current, x)]
  /\ EachListedOnce(Current, groups)
  /\ UNCHANGED <<order, active, busy, groups, used, past, future, edits, clipboard>>

CueStarts(l, x) ==
  /\ "run" \in Operations /\ l \in Lists
  /\ x \in Listed(show[l]) \ busy[l] /\ Cardinality(busy[l]) < MaxBusy
  /\ busy' = [busy EXCEPT ![l] = @ \cup {x}]
  /\ UNCHANGED <<order, active, show, groups, used, past, future, edits, clipboard>>

CueEnds(l, x) ==
  /\ x \in busy[l]
  /\ busy' = [busy EXCEPT ![l] = @ \ {x}]
  /\ UNCHANGED <<order, active, show, groups, used, past, future, edits, clipboard>>

AddCueList(l) ==
  /\ "lists" \in Operations /\ l \notin Lists
  /\ order' = Append(order, l) /\ active' = l
  /\ show' = [show EXCEPT ![l] = EmptyTree] /\ busy' = [busy EXCEPT ![l] = {}]
  /\ UNCHANGED <<groups, used, past, future, edits, clipboard>>

\* The last list stays; the cues of the removed one are stopped.
RemoveCueList(l) ==
  /\ "lists" \in Operations /\ l \in Lists /\ Len(order) > 1
  /\ order' = RemoveAt(order, PositionIn(order, l))
  /\ active' = IF active = l THEN order'[1] ELSE active
  /\ show' = [show EXCEPT ![l] = EmptyTree] /\ busy' = [busy EXCEPT ![l] = {}]
  /\ UNCHANGED <<groups, used, past, future, edits, clipboard>>

SetActiveCueList(l) ==
  /\ "lists" \in Operations /\ l \in Lists
  /\ active' = l
  /\ UNCHANGED <<order, show, busy, groups, used, past, future, edits, clipboard>>

\* new_workspace and load_workspace: the history stays.
OpenShow(p) ==
  /\ "open" \in Operations
  /\ order' = p.order /\ active' = p.active /\ show' = p.show
  /\ busy' = [l \in List |-> {}]
  /\ UNCHANGED <<groups, used, past, future, edits, clipboard>>

(***************************************************************************)
(* The system                                                              *)
(***************************************************************************)
Init ==
  /\ \E p \in Project : order = p.order /\ active = p.active /\ show = p.show
  /\ busy = [l \in List |-> {}]
  /\ groups = FileGroups /\ used = FileCues
  /\ past = << >> /\ future = << >> /\ edits = 0
  /\ clipboard = EmptyClipboard

\* Moves of cues within the tree.
MoveInTree ==
  \/ MoveCues \/ GroupCues
  \/ \E x \in Cue, g \in groups :
       \/ RemoveCueFromGroup(x, g)
       \/ \E i \in 1 .. Len(Current.row[g]) + 1 : AddCueToGroup(x, g, i)
  \/ \E x \in Cue, before \in Cue \cup {NoCue} : MoveToTopLevel(x, before)

EditList ==
  /\ Editable
  /\ \/ AddCue \/ EditWithoutMove \/ RemoveCues \/ Ungroup \/ DuplicateCues \/ PasteCues
     \/ MoveInTree

Next ==
  \/ EditList \/ Undo \/ Redo \/ CopyCues \/ SetPlayhead
  \/ \E l \in List :
       \/ \E x \in Cue : CueStarts(l, x) \/ CueEnds(l, x)
       \/ AddCueList(l) \/ RemoveCueList(l) \/ SetActiveCueList(l)
  \/ \E p \in Project : OpenShow(p)

Spec == Init /\ [][Next]_vars

(***************************************************************************)
(* Properties                                                              *)
(***************************************************************************)

\* Whatever is edited, undone and opened, a list shows each of its cues in one
\* place, and only groups have children.
CuesInOnePlace == \A l \in List : EachListedOnce(show[l], groups)

\* A UUID names one cue of the whole workspace, as it is documented.
UuidsAreUnique ==
  /\ CuesInOnePlace
  /\ \A k, l \in Lists : k # l => Listed(show[k]) \cap Listed(show[l]) = {}

\* A cue that runs is in its list, where it can be stopped: no edit, undo or
\* redo takes it away.
BusyCuesAreListed == \A l \in List : busy[l] \subseteq Listed(show[l])

\* The Playhead is only ever on a top-level cue, where the next GO finds it.
PlayheadOnTopLevel ==
  \A l \in List : show[l].playhead \in TopLevel(show[l]) \cup {NoCue}

\* Moving cues into, out of and between groups loses none of them.
MovesKeepEveryCue ==
  [][edits' # edits /\ ~(Listed(Current) \subseteq Listed(show'[active]))
       => ~MoveInTree]_vars

\* Undo and redo together reach at most as far as the history is deep.
HistoryIsBounded == Len(past) + Len(future) <= MaxUndo

\* The states of the history around the present one c.  A restored list has its
\* Playhead on a top-level cue, so the states are compared as they are restored.
TimelineOf(p, f, c) ==
  [i \in 1 .. Len(p) + 1 + Len(f) |->
     Restored(IF i <= Len(p) THEN p[i]
              ELSE IF i = Len(p) + 1 THEN c
              ELSE f[Len(p) + Len(f) + 2 - i])]

States == TimelineOf(past, future, Current)

Timeline == INSTANCE EditTimeline WITH
  timeline <- States,
  cursor <- Len(past) + 1,
  Depth <- MaxUndo

\* The snapshots behave as one timeline: going back and forth changes no state,
\* and only a new edit makes one unreachable.
HistoryIsATimeline == Timeline!Spec

=============================================================================
