----------------------------- MODULE EditorProofs -----------------------------
(***************************************************************************)
(* What editing promises, for any shows and any edits: of the undo         *)
(* history, that it stays within its bound and behaves as one timeline; of *)
(* the tree of cues, that each cue stays in one place, a running cue stays *)
(* in its list, moves lose no cue, and the Playhead stays at the top.      *)
(*                                                                         *)
(* The history comes first.  The edits of the tree are operations on       *)
(* sequences, while its promises speak of sets: what a row lists, and what *)
(* is below a cue.  So the module then says what each operation on         *)
(* sequences lists, and what each edit makes of the rows as sets, and      *)
(* argues about reachability with those alone.                             *)
(***************************************************************************)
EXTENDS ShowEditor, SequenceTheorems, FiniteSetTheorems, Recursion

(***************************************************************************)
(* The history within its bound                                            *)
(***************************************************************************)
\* The active list is a list of the show, and the history is a sequence.
Shaped ==
  /\ order \in Seq(List) /\ active \in List /\ DOMAIN show = List
  /\ \E S : past \in Seq(S) /\ future \in Seq(S)

Inv == Shaped /\ HistoryIsBounded

\* Every edit of the active list records one snapshot.
LEMMA EditsRecord ==
  EditList => /\ Record /\ UNCHANGED <<order, active>>
              /\ DOMAIN show' = DOMAIN show
<1> DEFINE Recorded == /\ Record /\ UNCHANGED <<order, active>>
                       /\ DOMAIN show' = DOMAIN show
<1>1. \A t : Edit(t) => Recorded
  BY DEF Edit
<1>2. AddCue => Recorded
  BY <1>1 DEF AddCue, EditWithNew
<1>3. EditWithoutMove => Recorded
  BY <1>1 DEF EditWithoutMove, EditInPlace
<1>4. RemoveCues => Recorded
  BY <1>1 DEF RemoveCues
<1>5. Ungroup => Recorded
  BY <1>1 DEF Ungroup
<1>6. DuplicateCues => Recorded
  BY <1>1 DEF DuplicateCues, EditWithNew
<1>8. PasteCues => Recorded
  BY <1>1 DEF PasteCues, EditWithNew
<1>7. MoveInTree => Recorded
  <2>1. MoveCues => Recorded
    BY <1>1 DEF MoveCues, EditInPlace
  <2>2. GroupCues => Recorded
    BY <1>1 DEF GroupCues, EditWithNew
  <2>3. \A x, g, i : AddCueToGroup(x, g, i) => Recorded
    BY <1>1 DEF AddCueToGroup, EditInPlace
  <2>4. \A x, g : RemoveCueFromGroup(x, g) => Recorded
    BY <1>1 DEF RemoveCueFromGroup, EditInPlace
  <2>5. \A x, before : MoveToTopLevel(x, before) => Recorded
    BY <1>1 DEF MoveToTopLevel, EditInPlace
  <2> QED
    BY <2>1, <2>2, <2>3, <2>4, <2>5 DEF MoveInTree
<1> QED
  BY <1>2, <1>3, <1>4, <1>5, <1>6, <1>7, <1>8 DEF EditList

\* The steps that leave the history alone.
Elsewhere ==
  \/ SetPlayhead \/ CopyCues
  \/ \E l \in List :
       \/ \E x \in Cue : CueStarts(l, x) \/ CueEnds(l, x)
       \/ AddCueList(l) \/ RemoveCueList(l) \/ SetActiveCueList(l)
  \/ \E p \in Project : OpenShow(p)

LEMMA NextSplit == Next => EditList \/ Undo \/ Redo \/ Elsewhere
  BY DEF Next, Elsewhere

LEMMA ElsewhereKeepsHistory == Elsewhere => UNCHANGED <<past, future>>
  BY DEF Elsewhere, SetPlayhead, CopyCues, CueStarts, CueEnds, AddCueList, RemoveCueList,
         SetActiveCueList, OpenShow

\* What is left of a sequence without its last element.
LEMMA Ends ==
  ASSUME NEW S, NEW s \in Seq(S), s # << >>
  PROVE  /\ Len(s) \in Nat \ {0} /\ Last(s) = s[Len(s)] /\ Last(s) \in S
         /\ Front(s) \in Seq(S) /\ Len(Front(s)) = Len(s) - 1
         /\ \A i \in 1 .. Len(s) - 1 : Front(s)[i] = s[i]
<1>1. Len(s) \in Nat \ {0} /\ s[Len(s)] \in S
  OBVIOUS
<1> DEFINE f == SubSeq(s, 1, Len(s) - 1)
<1>2. \A i \in 1 .. Len(s) - 1 : s[i] \in S
  BY <1>1
<1>3. /\ f \in Seq(S) /\ Len(f) = IF 1 <= Len(s) - 1 THEN Len(s) - 1 - 1 + 1 ELSE 0
      /\ \A i \in 1 .. Len(s) - 1 - 1 + 1 : f[i] = s[1 + i - 1]
  BY <1>1, <1>2, SubSeqProperties
<1> HIDE DEF f
<1>4. Len(f) = Len(s) - 1
  <2>1. \A n \in Nat \ {0} : (IF 1 <= n - 1 THEN n - 1 - 1 + 1 ELSE 0) = n - 1
    OBVIOUS
  <2>2. Len(f) = IF 1 <= Len(s) - 1 THEN Len(s) - 1 - 1 + 1 ELSE 0
    BY <1>3
  <2> QED
    BY <2>1, <2>2, <1>1
<1>5. ASSUME NEW i \in 1 .. Len(s) - 1 PROVE f[i] = s[i]
  <2>1. i \in 1 .. Len(s) - 1 - 1 + 1 /\ 1 + i - 1 = i
    BY <1>1
  <2> QED
    BY <2>1, <1>3
<1> QED
  BY <1>1, <1>3, <1>4, <1>5 DEF Front, Last, f

LEMMA Appended ==
  ASSUME NEW S, NEW s \in Seq(S), NEW x \in S
  PROVE  /\ Append(s, x) \in Seq(S) /\ Len(Append(s, x)) = Len(s) + 1
         /\ Append(s, x)[Len(s) + 1] = x
         /\ \A i \in 1 .. Len(s) : Append(s, x)[i] = s[i]
  OBVIOUS

\* A list that is removed leaves a list to show.
LEMMA ListsStay ==
  ASSUME NEW S, NEW s \in Seq(S), Len(s) > 1, NEW x \in Range(s)
  PROVE  /\ RemoveAt(s, PositionIn(s, x)) \in Seq(S)
         /\ RemoveAt(s, PositionIn(s, x))[1] \in S
<1> DEFINE i == PositionIn(s, x)
<1>1. i \in 1 .. Len(s)
  BY DEF PositionIn, Range
<1> HIDE DEF i
<1>2. /\ SubSeq(s, 1, i - 1) \in Seq(S) /\ Len(SubSeq(s, 1, i - 1)) = i - 1
      /\ SubSeq(s, i + 1, Len(s)) \in Seq(S) /\ Len(SubSeq(s, i + 1, Len(s))) = Len(s) - i
  BY <1>1
<1> DEFINE r == SubSeq(s, 1, i - 1) \o SubSeq(s, i + 1, Len(s))
<1>3. r \in Seq(S) /\ Len(r) = Len(s) - 1
  <2>1. r \in Seq(S) /\ Len(r) = (i - 1) + (Len(s) - i)
    BY <1>2
  <2>2. (i - 1) + (Len(s) - i) = Len(s) - 1
    BY <1>1
  <2> HIDE DEF r
  <2> QED
    BY <2>1, <2>2
<1>4. r[1] \in S
  <2>1. 1 \in 1 .. Len(r)
    BY <1>3
  <2> HIDE DEF r
  <2> QED
    BY <2>1, <1>3
<1> QED
  BY <1>3, <1>4 DEF RemoveAt, i

LEMMA ShapedStays == Shaped /\ [Next]_vars => Shaped'
<1> SUFFICES ASSUME Shaped, [Next]_vars PROVE Shaped'
  OBVIOUS
<1>1. CASE EditList
  <2>1. order' \in Seq(List) /\ active' \in List /\ DOMAIN show' = List
    BY <1>1, EditsRecord DEF Shaped
  <2>2. PICK S : past \in Seq(S) /\ future \in Seq(S)
    BY DEF Shaped
  <2> DEFINE T == S \cup {Current}
  <2>3. past \in Seq(T) /\ Current \in T
    BY <2>2
  <2>4. past' \in Seq(T)
    <3>1. CASE Len(past) < MaxUndo
      BY <3>1, <1>1, <2>3, EditsRecord DEF Record
    <3>2. CASE ~(Len(past) < MaxUndo)
      <4>1. Len(past) \in Nat /\ MaxUndo \in Nat \ {0}
        BY <2>3, BoundsAssumption
      <4>2. past # << >>
        BY <3>2, <4>1
      <4> QED
        BY <3>2, <4>2, <1>1, <2>3, EditsRecord DEF Record
    <3> QED
      BY <3>1, <3>2
  <2>5. future' \in Seq(T)
    BY <1>1, EditsRecord DEF Record
  <2> QED
    BY <2>1, <2>4, <2>5 DEF Shaped
<1>2. CASE Undo \/ Redo
  <2>1. order' \in Seq(List) /\ active' \in List /\ DOMAIN show' = List
    BY <1>2 DEF Shaped, Undo, Redo
  <2>2. PICK S : past \in Seq(S) /\ future \in Seq(S)
    BY DEF Shaped
  <2> DEFINE T == S \cup {Current}
  <2>3. past \in Seq(T) /\ future \in Seq(T) /\ Current \in T
    BY <2>2
  <2>4. past' \in Seq(T) /\ future' \in Seq(T)
    <3>1. CASE Undo
      <4>1. past # << >> /\ past' = Front(past) /\ future' = Append(future, Current)
        BY <3>1 DEF Undo
      <4> HIDE DEF T
      <4> QED
        BY <4>1, <2>3, Ends
    <3>2. CASE Redo
      <4>1. future # << >> /\ future' = Front(future) /\ past' = Append(past, Current)
        BY <3>2 DEF Redo
      <4> HIDE DEF T
      <4> QED
        BY <4>1, <2>3, Ends
    <3> QED
      BY <1>2, <3>1, <3>2
  <2> QED
    BY <2>1, <2>4 DEF Shaped
<1>3. CASE Elsewhere
  <2>1. past' = past /\ future' = future
    BY <1>3, ElsewhereKeepsHistory
  <2>2. order' \in Seq(List) /\ active' \in List /\ DOMAIN show' = List
    <3>1. CASE SetPlayhead \/ CopyCues
      BY <3>1 DEF Shaped, SetPlayhead, CopyCues
    <3>2. ASSUME NEW l \in List, \E x \in Cue : CueStarts(l, x) \/ CueEnds(l, x)
          PROVE  order' \in Seq(List) /\ active' \in List /\ DOMAIN show' = List
      BY <3>2 DEF Shaped, CueStarts, CueEnds
    <3>3. ASSUME NEW l \in List, AddCueList(l) \/ SetActiveCueList(l)
          PROVE  order' \in Seq(List) /\ active' \in List /\ DOMAIN show' = List
      <4>1. order \in Seq(List) /\ active \in List /\ DOMAIN show = List
        BY DEF Shaped
      <4>2. CASE AddCueList(l)
        BY <4>1, <4>2 DEF AddCueList
      <4>3. CASE SetActiveCueList(l)
        BY <4>1, <4>3 DEF SetActiveCueList
      <4> QED
        BY <3>3, <4>2, <4>3
    <3>4. ASSUME NEW l \in List, RemoveCueList(l)
          PROVE  order' \in Seq(List) /\ active' \in List /\ DOMAIN show' = List
      BY <3>4, ListsStay DEF Shaped, RemoveCueList, Lists
    <3>5. ASSUME NEW p \in Project, OpenShow(p)
          PROVE  order' \in Seq(List) /\ active' \in List /\ DOMAIN show' = List
      BY <3>5, ProjectAssumption DEF OpenShow, Range
    <3> QED
      BY <1>3, <3>1, <3>2, <3>3, <3>4, <3>5 DEF Elsewhere
  <2> QED
    BY <2>1, <2>2 DEF Shaped
<1>4. CASE UNCHANGED vars
  BY <1>4 DEF vars, Shaped
<1> QED
  BY <1>1, <1>2, <1>3, <1>4, NextSplit

\* Undo and redo pass snapshots from one side to the other, and an edit trims
\* the only side it leaves, so no redo needs to trim.
LEMMA BoundStays == Shaped /\ HistoryIsBounded /\ [Next]_vars => HistoryIsBounded'
<1> SUFFICES ASSUME Shaped, HistoryIsBounded, [Next]_vars PROVE HistoryIsBounded'
  OBVIOUS
<1>1. PICK S : past \in Seq(S) /\ future \in Seq(S)
  BY DEF Shaped
<1>2. /\ Len(past) \in Nat /\ Len(future) \in Nat /\ MaxUndo \in Nat \ {0}
      /\ Len(past) + Len(future) <= MaxUndo
  BY <1>1, BoundsAssumption DEF HistoryIsBounded
<1>3. CASE EditList
  <2>1. Record /\ Len(future') = 0
    BY <1>3, EditsRecord DEF Record
  <2>2. CASE Len(past) < MaxUndo
    <3>1. Len(past') = Len(past) + 1
      BY <1>1, <2>1, <2>2 DEF Record
    <3> QED
      BY <1>2, <2>1, <2>2, <3>1 DEF HistoryIsBounded
  <2>3. CASE ~(Len(past) < MaxUndo)
    <3>1. Len(Tail(past)) = Len(past) - 1
      BY <1>1, <1>2, <2>3
    <3>2. Len(past') = Len(past)
      BY <1>1, <1>2, <2>1, <2>3, <3>1 DEF Record
    <3> QED
      BY <1>2, <2>1, <3>2 DEF HistoryIsBounded
  <2> QED
    BY <2>2, <2>3
<1>4. CASE Undo
  <2>1. Len(past') = Len(past) - 1 /\ Len(future') = Len(future) + 1
    <3>1. past # << >> /\ past' = Front(past) /\ future' = Append(future, Current)
      BY <1>4 DEF Undo
    <3>2. Len(Front(past)) = Len(past) - 1
      BY <3>1, <1>1, Ends
    <3> QED
      BY <3>1, <3>2, <1>1
  <2> QED
    BY <2>1, <1>2 DEF HistoryIsBounded
<1>5. CASE Redo
  <2>1. Len(past') = Len(past) + 1 /\ Len(future') = Len(future) - 1
    <3>1. future # << >> /\ future' = Front(future) /\ past' = Append(past, Current)
      BY <1>5 DEF Redo
    <3>2. Len(Front(future)) = Len(future) - 1
      BY <3>1, <1>1, Ends
    <3> QED
      BY <3>1, <3>2, <1>1
  <2> QED
    BY <2>1, <1>2 DEF HistoryIsBounded
<1>6. CASE Elsewhere \/ UNCHANGED vars
  BY <1>6, ElsewhereKeepsHistory DEF vars, HistoryIsBounded
<1> QED
  BY <1>3, <1>4, <1>5, <1>6, NextSplit

LEMMA InitHolds == Init => Inv
  BY ProjectAssumption, BoundsAssumption DEF Init, Inv, Shaped, HistoryIsBounded, Range

LEMMA Invariant == Spec => []Inv
<1>1. Inv /\ [Next]_vars => Inv'
  BY ShapedStays, BoundStays DEF Inv
<1> QED
  BY InitHolds, <1>1, PTL DEF Spec

\* Whatever is edited, undone and redone, the snapshots kept for undo and redo
\* together are at most MaxUndo, although redo never trims.
THEOREM HistoryBounded == Spec => []HistoryIsBounded
<1>1. Inv => HistoryIsBounded
  BY DEF Inv
<1> QED
  BY Invariant, <1>1, PTL

(***************************************************************************)
(* The history as a timeline                                               *)
(***************************************************************************)
LEMMA RestoredTwice == \A t : Restored(Restored(t)) = Restored(t)
  BY DEF Restored, TopLevel

\* The timeline is a sequence as long as the history and the present.
LEMMA TimelineIsSequence ==
  ASSUME NEW S, NEW p \in Seq(S), NEW f \in Seq(S), NEW c
  PROVE  /\ \E T : TimelineOf(p, f, c) \in Seq(T)
         /\ Len(TimelineOf(p, f, c)) = Len(p) + 1 + Len(f)
<1> DEFINE line == TimelineOf(p, f, c)
           T == {line[i] : i \in 1 .. Len(p) + 1 + Len(f)}
<1>1. Len(p) + 1 + Len(f) \in Nat
  OBVIOUS
<1>2. line \in [1 .. Len(p) + 1 + Len(f) -> T]
  BY DEF TimelineOf
<1> HIDE DEF line, T
<1>3. line \in Seq(T) /\ Len(line) = Len(p) + 1 + Len(f)
  BY <1>1, <1>2
<1> QED
  BY <1>3 DEF line

\* Going back walks along the timeline.
LEMMA UndoKeepsTimeline ==
  ASSUME NEW S, NEW p \in Seq(S), NEW f \in Seq(S), NEW c \in S, p # << >>
  PROVE  TimelineOf(Front(p), Append(f, c), Restored(Last(p))) = TimelineOf(p, f, c)
<1>0. /\ Len(p) \in Nat \ {0} /\ Last(p) = p[Len(p)] /\ Len(Front(p)) = Len(p) - 1
      /\ \A i \in 1 .. Len(p) - 1 : Front(p)[i] = p[i]
  BY Ends
<1> DEFINE b == Front(p)
           a == Append(f, c)
           n == Len(p)
           m == Len(f)
<1>1. /\ n \in Nat \ {0} /\ m \in Nat /\ Len(b) = n - 1 /\ Last(p) = p[n]
      /\ \A i \in 1 .. n - 1 : b[i] = p[i]
  BY <1>0
<1>2. /\ Len(a) = m + 1 /\ a[m + 1] = c
      /\ \A i \in 1 .. m : a[i] = f[i]
  OBVIOUS
<1> HIDE DEF a, b, n, m
<1>3. Len(b) + 1 + Len(a) = n + 1 + m /\ \A i \in Int : Len(b) + Len(a) + 2 - i = n + m + 2 - i
  BY <1>1, <1>2
<1>4. ASSUME NEW i \in 1 .. n + 1 + m
      PROVE  Restored(IF i <= Len(b) THEN b[i] ELSE IF i = Len(b) + 1 THEN Restored(p[n])
                      ELSE a[n + m + 2 - i])
             = Restored(IF i <= n THEN p[i] ELSE IF i = n + 1 THEN c ELSE f[n + m + 2 - i])
  <2>1. CASE i <= n - 1
    BY <2>1, <1>1
  <2>2. CASE i = n
    BY <2>2, <1>1, RestoredTwice
  <2>3. CASE i = n + 1
    <3>1. n + m + 2 - i = m + 1 /\ ~(i <= Len(b)) /\ i # Len(b) + 1 /\ ~(i <= n)
      BY <2>3, <1>1
    <3> QED
      BY <3>1, <2>3, <1>2
  <2>4. CASE i > n + 1
    <3>1. /\ n + m + 2 - i \in 1 .. m /\ ~(i <= Len(b)) /\ i # Len(b) + 1
          /\ ~(i <= n) /\ i # n + 1
      BY <2>4, <1>1
    <3> QED
      BY <3>1, <1>2
  <2>5. i <= n - 1 \/ i = n \/ i = n + 1 \/ i > n + 1
    BY <1>1
  <2> QED
    BY <2>1, <2>2, <2>3, <2>4, <2>5
<1>5. TimelineOf(b, a, Restored(p[n])) = TimelineOf(p, f, c)
  BY <1>3, <1>4 DEF TimelineOf, n, m
<1> QED
  BY <1>1, <1>5 DEF a, b

\* Going forth walks along it too.
LEMMA RedoKeepsTimeline ==
  ASSUME NEW S, NEW p \in Seq(S), NEW f \in Seq(S), NEW c \in S, f # << >>
  PROVE  TimelineOf(Append(p, c), Front(f), Restored(Last(f))) = TimelineOf(p, f, c)
<1> DEFINE b == Front(f)
           a == Append(p, c)
           n == Len(p)
           m == Len(f)
<1>1. /\ m \in Nat \ {0} /\ n \in Nat /\ Len(b) = m - 1 /\ Last(f) = f[m]
      /\ \A i \in 1 .. m - 1 : b[i] = f[i]
  BY Ends
<1>2. /\ Len(a) = n + 1 /\ a[n + 1] = c
      /\ \A i \in 1 .. n : a[i] = p[i]
  OBVIOUS
<1> HIDE DEF a, b, n, m
<1>3. Len(a) + 1 + Len(b) = n + 1 + m /\ \A i \in Int : Len(a) + Len(b) + 2 - i = n + m + 2 - i
  BY <1>1, <1>2
<1>4. ASSUME NEW i \in 1 .. n + 1 + m
      PROVE  Restored(IF i <= Len(a) THEN a[i] ELSE IF i = Len(a) + 1 THEN Restored(f[m])
                      ELSE b[n + m + 2 - i])
             = Restored(IF i <= n THEN p[i] ELSE IF i = n + 1 THEN c ELSE f[n + m + 2 - i])
  <2>1. CASE i <= n
    BY <2>1, <1>1, <1>2
  <2>2. CASE i = n + 1
    BY <2>2, <1>1, <1>2
  <2>3. CASE i = n + 2
    <3>1. n + m + 2 - i = m /\ ~(i <= Len(a)) /\ i = Len(a) + 1 /\ ~(i <= n) /\ i # n + 1
      BY <2>3, <1>1, <1>2
    <3> QED
      BY <3>1, RestoredTwice
  <2>4. CASE i > n + 2
    <3>1. /\ n + m + 2 - i \in 1 .. m - 1 /\ ~(i <= Len(a)) /\ i # Len(a) + 1
          /\ ~(i <= n) /\ i # n + 1
      BY <2>4, <1>1, <1>2
    <3> QED
      BY <3>1, <1>1
  <2>5. i <= n \/ i = n + 1 \/ i = n + 2 \/ i > n + 2
    BY <1>1
  <2> QED
    BY <2>1, <2>2, <2>3, <2>4, <2>5
<1>5. TimelineOf(a, b, Restored(f[m]))
        = [i \in 1 .. n + 1 + m |->
             Restored(IF i <= Len(a) THEN a[i] ELSE IF i = Len(a) + 1 THEN Restored(f[m])
                      ELSE b[n + m + 2 - i])]
  BY <1>1, <1>3 DEF TimelineOf
<1>6. TimelineOf(p, f, c)
        = [i \in 1 .. n + 1 + m |->
             Restored(IF i <= n THEN p[i] ELSE IF i = n + 1 THEN c ELSE f[n + m + 2 - i])]
  BY DEF TimelineOf, n, m
<1>7. TimelineOf(a, b, Restored(f[m])) = TimelineOf(p, f, c)
  BY <1>4, <1>5, <1>6
<1> QED
  BY <1>1, <1>7 DEF a, b


\* What an edit keeps of the timeline is the start of the new one.
KeptOf(p, f, c) ==
  SubSeq(TimelineOf(p, f, c), IF Len(p) + 1 > MaxUndo THEN 2 ELSE 1, Len(p) + 1)

Extends(q, d, kept) ==
  /\ Len(kept) = Len(q) /\ Len(TimelineOf(q, << >>, d)) = Len(q) + 1
  /\ SubSeq(TimelineOf(q, << >>, d), 1, Len(kept)) = kept

LEMMA EditKeepsPast ==
  ASSUME NEW S, NEW p \in Seq(S), NEW f \in Seq(S), NEW c \in S, NEW d, NEW q,
         q = IF Len(p) < MaxUndo THEN Append(p, c) ELSE Append(Tail(p), c)
  PROVE  Extends(q, d, KeptOf(p, f, c))
<1> DEFINE line == TimelineOf(p, f, c)
           next == TimelineOf(q, << >>, d)
           n == Len(p)
           k == IF n + 1 > MaxUndo THEN 2 ELSE 1
           kept == SubSeq(line, k, n + 1)
<1>1. n \in Nat /\ Len(f) \in Nat /\ MaxUndo \in Nat \ {0}
  BY BoundsAssumption
<1>2. \A i \in 1 .. n : line[i] = Restored(p[i])
  BY <1>1 DEF TimelineOf
<1>3. line[n + 1] = Restored(c)
  BY <1>1 DEF TimelineOf
<1>4. /\ q \in Seq(S) /\ Len(q) = n + 2 - k
      /\ \A i \in 1 .. n + 2 - k : Restored(q[i]) = line[k + i - 1]
  <2>1. CASE n < MaxUndo
    <3>1. k = 1 /\ q = Append(p, c)
      BY <2>1, <1>1
    <3> HIDE DEF line, next, k, n, kept
    <3>3. /\ Append(p, c) \in Seq(S) /\ Len(Append(p, c)) = Len(p) + 1
          /\ Append(p, c)[Len(p) + 1] = c
          /\ \A i \in 1 .. Len(p) : Append(p, c)[i] = p[i]
      BY Appended
    <3>2. q \in Seq(S) /\ Len(q) = n + 1 /\ q[n + 1] = c /\ \A i \in 1 .. n : q[i] = p[i]
      BY <3>1, <3>3 DEF n
    <3> HIDE DEF n, k
    <3> QED
      BY <3>1, <3>2, <1>1, <1>2, <1>3
  <2>2. CASE ~(n < MaxUndo)
    <3>1. k = 2 /\ q = Append(Tail(p), c) /\ p # << >>
      BY <2>2, <1>1
    <3> HIDE DEF line, next
    <3>2. /\ Tail(p) \in Seq(S) /\ Len(Tail(p)) = n - 1
          /\ \A i \in 1 .. n - 1 : Tail(p)[i] = p[i + 1]
      BY <3>1, HeadTailProperties
    <3> DEFINE r == Tail(p)
    <3> HIDE DEF r, n, k
    <3>5. q \in Seq(S) /\ Len(q) = Len(r) + 1 /\ q[Len(r) + 1] = c
          /\ \A i \in 1 .. Len(r) : q[i] = r[i]
      BY <3>1, <3>2, Appended DEF r
    <3>3. q \in Seq(S) /\ Len(q) = n /\ q[n] = c /\ \A i \in 1 .. n - 1 : q[i] = p[i + 1]
      BY <3>2, <3>5, <1>1 DEF r
    <3>4. ASSUME NEW i \in 1 .. n + 2 - k PROVE Restored(q[i]) = line[k + i - 1]
      <4>1. k + i - 1 = i + 1 /\ i \in 1 .. n
        BY <3>1, <1>1
      <4>2. CASE i = n
        BY <4>1, <4>2, <3>3, <1>3
      <4>3. CASE i # n
        BY <4>1, <4>3, <3>3, <1>1, <1>2
      <4> QED
        BY <4>2, <4>3
    <3>6. Len(q) = n + 2 - k
      BY <3>1, <3>3, <1>1
    <3> QED
      BY <3>3, <3>4, <3>6
  <2> QED
    BY <2>1, <2>2
<1>5. PICK T : line \in Seq(T)
  BY TimelineIsSequence
<1>6. Len(line) = n + 1 + Len(f)
  BY TimelineIsSequence
<1>7. k \in 1 .. 2 /\ (n = 0 => k = 1)
  BY <1>1
<1>8. /\ kept \in Seq(T) /\ Len(kept) = n + 2 - k
      /\ \A i \in 1 .. n + 2 - k : kept[i] = line[k + i - 1]
  <2> HIDE DEF line, k, n
  <2>1. \A i \in k .. n + 1 : line[i] \in T
    BY <1>1, <1>5, <1>6, <1>7
  <2>2. /\ kept \in Seq(T)
        /\ Len(kept) = IF k <= n + 1 THEN n + 1 - k + 1 ELSE 0
        /\ \A i \in 1 .. n + 1 - k + 1 : kept[i] = line[k + i - 1]
    BY <2>1, <1>1, <1>7, SubSeqProperties
  <2> HIDE DEF kept
  <2> QED
    BY <2>2, <1>1, <1>7
<1>9. Len(next) = Len(q) + 1
  <2>1. << >> \in Seq(S) /\ Len(<< >>) = 0
    OBVIOUS
  <2>2. Len(next) = Len(q) + 1 + Len(<< >>)
    BY <2>1, <1>4, TimelineIsSequence
  <2> HIDE DEF next
  <2> QED
    BY <2>1, <2>2, <1>4
<1>10. PICK U : next \in Seq(U)
  <2>1. << >> \in Seq(S)
    OBVIOUS
  <2> QED
    BY <2>1, <1>4, TimelineIsSequence
<1>11. \A i \in 1 .. Len(q) : next[i] = Restored(q[i])
  BY <1>4 DEF TimelineOf
<1>12. Len(kept) = Len(q)
  BY <1>4, <1>8
<1>13. SubSeq(next, 1, Len(q)) = kept
  <2> HIDE DEF line, next, k, kept, n
  <2>1. Len(q) \in Nat
    BY <1>4
  <2>2. \A i \in 1 .. Len(q) : next[i] \in U
    BY <1>9, <1>10, <2>1
  <2>3. /\ SubSeq(next, 1, Len(q)) \in Seq(U)
        /\ Len(SubSeq(next, 1, Len(q))) = IF 1 <= Len(q) THEN Len(q) - 1 + 1 ELSE 0
        /\ \A i \in 1 .. Len(q) - 1 + 1 : SubSeq(next, 1, Len(q))[i] = next[1 + i - 1]
    BY <2>1, <2>2, SubSeqProperties
  <2> DEFINE s == SubSeq(next, 1, Len(q))
  <2> HIDE DEF s
  <2>4. s \in Seq(U) /\ Len(s) = Len(q) /\ \A i \in 1 .. Len(q) : s[i] = next[i]
    BY <2>1, <2>3 DEF s
  <2>5. \A i \in 1 .. Len(q) : s[i] = kept[i]
    BY <2>1, <2>4, <1>4, <1>8, <1>11
  <2>6. s \in Seq(U \cup T) /\ kept \in Seq(U \cup T)
    BY <2>4, <1>8, SeqMonotonic
  <2> QED
    BY <2>4, <2>5, <2>6, <1>12, SeqEqual DEF s
<1> QED
  BY <1>9, <1>12, <1>13 DEF Extends, KeptOf

LEMMA TimelineInit == Init => Timeline!Init
<1> SUFFICES ASSUME Init PROVE Timeline!Init
  OBVIOUS
<1>1. past \in Seq({}) /\ future \in Seq({}) /\ Len(past) = 0 /\ Len(future) = 0
  BY DEF Init
<1>2. Len(States) = Len(past) + 1 + Len(future)
  BY <1>1, TimelineIsSequence DEF States
<1> QED
  BY <1>1, <1>2 DEF Timeline!Init

\* An edit, undo and redo are the timeline's; all else changes the present in
\* place, if it changes the timeline at all.
LEMMA TimelineStep == Shaped /\ [Next]_vars => Timeline!Next
<1> SUFFICES ASSUME Shaped, [Next]_vars
             PROVE  Timeline!Next
  OBVIOUS
<1>1. PICK S : past \in Seq(S) /\ future \in Seq(S) /\ Current \in S
  <2>1. PICK R : past \in Seq(R) /\ future \in Seq(R)
    BY DEF Shaped
  <2>2. past \in Seq(R \cup {Current}) /\ future \in Seq(R \cup {Current})
    BY <2>1, SeqMonotonic
  <2> QED
    BY <2>2
<1>2. Len(past) \in Nat /\ Len(future) \in Nat
  BY <1>1
<1>3. CASE EditList
  <2>1. /\ past' = IF Len(past) < MaxUndo THEN Append(past, Current)
                   ELSE Append(Tail(past), Current)
        /\ future' = << >>
    BY <1>3, EditsRecord DEF Record
  <2>2. Extends(past', Current', KeptOf(past, future, Current))
    <3>1. PICK q, d : q = past' /\ d = Current'
      OBVIOUS
    <3>2. q = IF Len(past) < MaxUndo THEN Append(past, Current)
              ELSE Append(Tail(past), Current)
      BY <3>1, <2>1
    <3>3. Extends(q, d, KeptOf(past, future, Current))
      BY <3>2, <1>1, EditKeepsPast
    <3> QED
      BY <3>1, <3>3
  <2>3. States' = TimelineOf(past', << >>, Current')
    BY <2>1 DEF States
  <2>4. KeptOf(past, future, Current) = Timeline!Kept
    BY DEF Timeline!Kept, KeptOf, States
  <2> QED
    BY <2>2, <2>3, <2>4 DEF Extends, Timeline!Next, Timeline!Edit
<1>4. CASE Undo
  <2>1. /\ past # << >> /\ past' = Front(past) /\ future' = Append(future, Current)
        /\ Current' = Restored(Last(past))
    BY <1>4 DEF Undo, Shaped, Current
  <2>2. Len(past') + 1 = Len(past) + 1 - 1 /\ Len(past) + 1 > 1
    BY <2>1, <1>1, <1>2, Ends
  <2>3. States' = States
    BY <2>1, <1>1, UndoKeepsTimeline DEF States
  <2> QED
    BY <2>2, <2>3 DEF Timeline!Next, Timeline!Undo
<1>5. CASE Redo
  <2>1. /\ future # << >> /\ past' = Append(past, Current) /\ future' = Front(future)
        /\ Current' = Restored(Last(future))
    BY <1>5 DEF Redo, Shaped, Current
  <2>2. Len(past') + 1 = Len(past) + 1 + 1
    BY <2>1, <1>1
  <2>3. States' = States
    BY <2>1, <1>1, RedoKeepsTimeline DEF States
  <2>4. Len(future) > 0
    BY <2>1, <1>1, EmptySeq
  <2>5. Len(past) + 1 < Len(States)
    BY <2>4, <1>1, <1>2, TimelineIsSequence DEF States
  <2> QED
    BY <2>2, <2>3, <2>5 DEF Timeline!Next, Timeline!Redo
<1>6. CASE Elsewhere \/ UNCHANGED vars
  <2>1. past' = past /\ future' = future
    BY <1>6, ElsewhereKeepsHistory DEF vars
  <2>2. Len(TimelineOf(past, future, Current')) = Len(States)
    BY <1>1, TimelineIsSequence DEF States
  <2>3. \A i \in 1 .. Len(States) :
          i # Len(past) + 1 => TimelineOf(past, future, Current')[i] = States[i]
    <3>1. Len(States) = Len(past) + 1 + Len(future)
      BY <1>1, TimelineIsSequence DEF States
    <3> QED
      BY <3>1, <1>2 DEF TimelineOf, States
  <2>4. States' = TimelineOf(past, future, Current')
    BY <2>1 DEF States
  <2> QED
    BY <2>1, <2>2, <2>3, <2>4 DEF Timeline!Next, Timeline!ChangeInPlace
<1> QED
  BY <1>3, <1>4, <1>5, <1>6, NextSplit

\* The undo history implements the timeline: undo and redo walk along it
\* without changing any state, and an edit gives up only what was undone and,
\* at the limit, the oldest state.
THEOREM HistoryIsTimeline == Spec => HistoryIsATimeline
<1>1. Inv /\ [Next]_vars => Timeline!Next
  BY TimelineStep DEF Inv
<1> QED
  BY Invariant, TimelineInit, <1>1, PTL DEF Spec, Timeline!Spec, HistoryIsATimeline

(***************************************************************************)
(* What sequences list                                                     *)
(***************************************************************************)
LEMMA Members ==
  ASSUME NEW X, NEW s \in Seq(X)
  PROVE  /\ Len(s) \in Nat /\ DOMAIN s = 1 .. Len(s)
         /\ Range(s) \subseteq X
         /\ s # << >> => s[1] \in Range(s) /\ Last(s) \in Range(s)
         /\ s = << >> <=> Range(s) = {}
BY DEF Range, Last

\* Position(s) finds what is listed.
LEMMA Found ==
  ASSUME NEW X, NEW s \in Seq(X), NEW x \in Range(s)
  PROVE  PositionIn(s, x) \in 1 .. Len(s) /\ s[PositionIn(s, x)] = x
<1>1. \E i \in DOMAIN s : s[i] = x
  BY DEF Range
<1>2. DOMAIN s = 1 .. Len(s)
  OBVIOUS
<1> QED BY <1>1, <1>2 DEF PositionIn

LEMMA AppendLists ==
  ASSUME NEW X, NEW s \in Seq(X), NEW x \in X
  PROVE  /\ Append(s, x) \in Seq(X) /\ Range(Append(s, x)) = Range(s) \cup {x}
         /\ IsInjective(s) /\ x \notin Range(s) => IsInjective(Append(s, x))
<1> DEFINE a == Append(s, x)
<1>1. /\ Len(s) \in Nat /\ DOMAIN s = 1 .. Len(s) /\ DOMAIN a = 1 .. Len(s) + 1
      /\ \A i \in 1 .. Len(s) : a[i] = s[i]
      /\ a[Len(s) + 1] = x /\ a \in Seq(X)
  OBVIOUS
<1> HIDE DEF a
<1>2. \A i \in 1 .. Len(s) + 1 : i \in 1 .. Len(s) \/ i = Len(s) + 1
  BY <1>1
<1>3. ASSUME NEW y PROVE y \in Range(a) <=> y \in Range(s) \cup {x}
  BY <1>1, <1>2 DEF Range
<1>4. ASSUME IsInjective(s), x \notin Range(s) PROVE IsInjective(a)
  <2>1. \A i \in 1 .. Len(s) : s[i] # x
    BY <1>1, <1>4 DEF Range
  <2> QED BY <1>1, <1>2, <1>4, <2>1 DEF IsInjective
<1>5. Range(a) = Range(s) \cup {x}
  BY <1>3
<1> USE DEF a
<1> QED BY <1>1, <1>4, <1>5

AmongStep(s, S, e, n) ==
  IF n = 0 THEN << >>
  ELSE IF s[n] \in S THEN Append(e[n - 1], s[n]) ELSE e[n - 1]

LEMMA AmongIsChosen ==
  ASSUME NEW s, NEW S
  PROVE  Among(s, S) = (CHOOSE e : e = [n \in 0 .. Len(s) |-> AmongStep(s, S, e, n)])[Len(s)]
BY Zenon DEF Among, AmongStep

\* Among lists what is in both, each as often as before, and keeps what comes
\* before the first cue it leaves out.
LEMMA AmongLists ==
  ASSUME NEW X, NEW s \in Seq(X), NEW S
  PROVE  /\ Among(s, S) \in Seq(X)
         /\ Range(Among(s, S)) = Range(s) \cap S
         /\ IsInjective(s) => IsInjective(Among(s, S))
         /\ \A k \in 0 .. Len(s) : (\A j \in 1 .. k : s[j] \in S) => Len(Among(s, S)) >= k
<1> DEFINE m == Len(s)
           e == CHOOSE e : e = [n \in 0 .. m |-> AmongStep(s, S, e, n)]
<1>1. m \in Nat
  OBVIOUS
<1>2. e = [n \in 0 .. m |-> AmongStep(s, S, e, n)]
  <2> DEFINE V == Seq(X)
             G == [n \in 1 .. m |-> [v \in V |-> IF s[n] \in S THEN Append(v, s[n]) ELSE v]]
  <2>1. G \in [1 .. m -> [V -> V]] /\ << >> \in V
    OBVIOUS
  <2>2. PICK f : Steps(m, V, << >>, G, f)
    <3> HIDE DEF G, m, V
    <3> QED BY <1>1, <2>1, RecursionExists
  <2>3. ASSUME NEW n \in 0 .. m PROVE f[n] = AmongStep(s, S, f, n)
    <3>1. n # 0 => n \in 1 .. m /\ n - 1 \in 0 .. m /\ f[n - 1] \in V
      BY <1>1, <2>2 DEF Steps
    <3> HIDE DEF V
    <3> QED BY <2>2, <3>1 DEF AmongStep, Steps
  <2>4. f = [n \in 0 .. m |-> AmongStep(s, S, f, n)]
    BY <2>2, <2>3 DEF Steps
  <2> QED BY <2>4
<1>3. Among(s, S) = e[m]
  BY AmongIsChosen
<1> HIDE DEF e, m
<1> DEFINE Right(n) ==
             /\ e[n] \in Seq(X)
             /\ Range(e[n]) = {s[i] : i \in 1 .. n} \cap S
             /\ IsInjective(s) => IsInjective(e[n])
             /\ \A k \in 0 .. n : (\A j \in 1 .. k : s[j] \in S) => Len(e[n]) >= k
           T == {n \in Nat : n <= m => Right(n)}
<1>4. Right(0)
  <2>1. e[0] = << >>
    BY <1>1, <1>2 DEF AmongStep
  <2> QED BY <2>1 DEF Range, IsInjective
<1>5. ASSUME NEW n \in Nat, n + 1 <= m, Right(n) PROVE Right(n + 1)
  <2>1. e[n + 1] = IF s[n + 1] \in S THEN Append(e[n], s[n + 1]) ELSE e[n]
    <3>1. n + 1 \in 0 .. m /\ n + 1 # 0 /\ (n + 1) - 1 = n
      BY <1>1, <1>5
    <3>2. e[n + 1] = AmongStep(s, S, e, n + 1)
      BY <1>2, <3>1
    <3> QED BY <3>1, <3>2 DEF AmongStep
  <2>2. n + 1 \in DOMAIN s /\ s[n + 1] \in X /\ 1 .. n + 1 = (1 .. n) \cup {n + 1}
        /\ 1 .. n \subseteq DOMAIN s
    BY <1>1, <1>5 DEF m
  <2>3. {s[i] : i \in 1 .. n + 1} = {s[i] : i \in 1 .. n} \cup {s[n + 1]}
    BY <2>2
  <2>6. \A k \in 0 .. n + 1 : k \in 0 .. n \/ k = n + 1
    BY <1>5
  <2>7. n + 1 \in 1 .. n + 1 /\ n \in 0 .. n /\ \A j \in 1 .. n : j \in 1 .. n + 1
    BY <1>5
  <2>4. CASE s[n + 1] \notin S
    <3>1. e[n + 1] = e[n]
      BY <2>1, <2>4
    <3>2. \A k \in 0 .. n + 1 : (\A j \in 1 .. k : s[j] \in S) => Len(e[n]) >= k
      BY <1>5, <2>4, <2>6, <2>7
    <3> QED BY <1>5, <2>3, <2>4, <3>1, <3>2
  <2>5. CASE s[n + 1] \in S
    <3>1. e[n + 1] = Append(e[n], s[n + 1])
      BY <2>1, <2>5
    <3>2. /\ e[n + 1] \in Seq(X) /\ Range(e[n + 1]) = Range(e[n]) \cup {s[n + 1]}
          /\ IsInjective(e[n]) /\ s[n + 1] \notin Range(e[n]) => IsInjective(e[n + 1])
      BY <1>5, <2>2, <3>1, AppendLists
    <3>3. ASSUME IsInjective(s) PROVE s[n + 1] \notin Range(e[n])
      BY <1>5, <2>2, <3>3 DEF IsInjective
    <3>4. Len(e[n + 1]) = Len(e[n]) + 1 /\ Len(e[n]) \in Nat
      BY <1>5, <2>2, <3>1
    <3>5. \A k \in 0 .. n + 1 : (\A j \in 1 .. k : s[j] \in S) => Len(e[n + 1]) >= k
      BY <1>5, <2>6, <2>7, <3>4
    <3> QED BY <1>5, <2>3, <2>5, <3>2, <3>3, <3>5
  <2> QED BY <2>4, <2>5
<1> HIDE DEF Right
<1>6. m \in T
  <2>1. 0 \in T
    BY <1>4
  <2>2. \A n \in Nat : n \in T => n + 1 \in T
    BY <1>1, <1>5
  <2> HIDE DEF T
  <2> QED BY <1>1, <2>1, <2>2, NatSetInduction
<1>7. Range(s) = {s[i] : i \in 1 .. m}
  BY DEF Range, m
<1>8. Right(m)
  BY <1>1, <1>6
<1> USE DEF Right
<1>9. /\ e[m] \in Seq(X) /\ Range(e[m]) = Range(s) \cap S
      /\ IsInjective(s) => IsInjective(e[m])
      /\ \A k \in 0 .. m : (\A j \in 1 .. k : s[j] \in S) => Len(e[m]) >= k
  BY <1>7, <1>8
<1> HIDE DEF Right
<1> QED BY <1>3, <1>9 DEF m

LEMMA ConcatLists ==
  ASSUME NEW X, NEW s \in Seq(X), NEW t \in Seq(X)
  PROVE  /\ s \o t \in Seq(X) /\ Range(s \o t) = Range(s) \cup Range(t)
         /\ IsInjective(s) /\ IsInjective(t) /\ Range(s) \cap Range(t) = {}
              => IsInjective(s \o t)
<1> DEFINE a == s \o t
<1>1. /\ Len(s) \in Nat /\ Len(t) \in Nat /\ DOMAIN s = 1 .. Len(s) /\ DOMAIN t = 1 .. Len(t)
      /\ DOMAIN a = 1 .. Len(s) + Len(t) /\ a \in Seq(X)
      /\ \A i \in 1 .. Len(s) : a[i] = s[i]
      /\ \A i \in 1 .. Len(t) : a[Len(s) + i] = t[i]
  OBVIOUS
<1> HIDE DEF a
<1>2. \A i \in 1 .. Len(s) + Len(t) :
        i \in 1 .. Len(s) \/ (i - Len(s) \in 1 .. Len(t) /\ Len(s) + (i - Len(s)) = i)
  BY <1>1
<1>3. \A i \in 1 .. Len(s) + Len(t) : i \notin 1 .. Len(s) => a[i] = t[i - Len(s)]
  BY <1>1, <1>2
<1>4. ASSUME NEW y \in Range(a) PROVE y \in Range(s) \cup Range(t)
  <2>1. PICK i \in 1 .. Len(s) + Len(t) : y = a[i]
    BY <1>1 DEF Range
  <2>2. CASE i \in 1 .. Len(s)
    <3>1. y = s[i] /\ i \in DOMAIN s
      BY <1>1, <2>1, <2>2
    <3> QED BY <3>1 DEF Range
  <2>3. CASE i \notin 1 .. Len(s)
    <3>1. y = t[i - Len(s)] /\ i - Len(s) \in DOMAIN t
      BY <1>1, <1>2, <1>3, <2>1, <2>3
    <3> QED BY <3>1 DEF Range
  <2> QED BY <2>2, <2>3
<1>5. \A i \in 1 .. Len(t) : Len(s) + i \in 1 .. Len(s) + Len(t)
  BY <1>1
<1>6. \A i \in 1 .. Len(s) : i \in 1 .. Len(s) + Len(t)
  BY <1>1
<1>7. Range(s) \subseteq Range(a)
  BY <1>1, <1>6 DEF Range
<1>8. Range(t) \subseteq Range(a)
  BY <1>1, <1>5 DEF Range
<1>9. ASSUME IsInjective(s), IsInjective(t), Range(s) \cap Range(t) = {},
             NEW i \in 1 .. Len(s) + Len(t), NEW j \in 1 .. Len(s) + Len(t), a[i] = a[j]
      PROVE  i = j
  <2>1. \A h \in 1 .. Len(s), k \in 1 .. Len(t) : s[h] # t[k]
    BY <1>1, <1>9 DEF Range
  <2>2. CASE i \in 1 .. Len(s) /\ j \in 1 .. Len(s)
    BY <1>1, <1>9, <2>2 DEF IsInjective
  <2>3. CASE i \notin 1 .. Len(s) /\ j \notin 1 .. Len(s)
    <3>1. t[i - Len(s)] = t[j - Len(s)]
          /\ i - Len(s) \in 1 .. Len(t) /\ j - Len(s) \in 1 .. Len(t)
      BY <1>2, <1>3, <1>9, <2>3
    <3>2. i - Len(s) = j - Len(s)
      BY <1>1, <1>9, <3>1 DEF IsInjective
    <3> QED BY <1>1, <3>2
  <2>4. CASE i \in 1 .. Len(s) /\ j \notin 1 .. Len(s)
    BY <1>1, <1>2, <1>3, <1>9, <2>1, <2>4
  <2>5. CASE i \notin 1 .. Len(s) /\ j \in 1 .. Len(s)
    BY <1>1, <1>2, <1>3, <1>9, <2>1, <2>5
  <2> QED BY <2>2, <2>3, <2>4, <2>5
<1>10. IsInjective(s) /\ IsInjective(t) /\ Range(s) \cap Range(t) = {} => IsInjective(a)
  BY <1>1, <1>9 DEF IsInjective
<1>11. a \in Seq(X) /\ Range(a) = Range(s) \cup Range(t)
  BY <1>1, <1>4, <1>7, <1>8
<1> QED BY <1>10, <1>11 DEF a

LEMMA CutLists ==
  ASSUME NEW X, NEW s \in Seq(X), NEW i \in 1 .. Len(s) + 1, NEW j \in 0 .. Len(s)
  PROVE  /\ SubSeq(s, i, j) \in Seq(X) /\ Range(SubSeq(s, i, j)) = {s[k] : k \in i .. j}
         /\ IsInjective(s) => IsInjective(SubSeq(s, i, j))
<1> DEFINE a == SubSeq(s, i, j)
<1>1. Len(s) \in Nat /\ DOMAIN s = 1 .. Len(s) /\ i \in Nat /\ j \in Nat
  OBVIOUS
<1>2. CASE j < i
  <2>1. a = << >> /\ i .. j = {}
    BY <1>1, <1>2
  <2> QED BY <2>1 DEF Range, IsInjective
<1>3. CASE i <= j
  <2>1. /\ a \in Seq(X) /\ DOMAIN a = 1 .. j - i + 1 /\ Len(a) = j - i + 1
        /\ \A k \in 1 .. j - i + 1 : a[k] = s[i + k - 1]
    BY <1>1, <1>3
  <2> HIDE DEF a
  <2>2. \A k \in i .. j : k - i + 1 \in 1 .. j - i + 1 /\ i + (k - i + 1) - 1 = k
    BY <1>1, <1>3
  <2>3. \A k \in 1 .. j - i + 1 : i + k - 1 \in i .. j /\ i + k - 1 \in 1 .. Len(s)
    BY <1>1, <1>3
  <2>4. Range(a) \subseteq {s[k] : k \in i .. j}
    BY <2>1, <2>3 DEF Range
  <2>5. ASSUME NEW k \in i .. j PROVE s[k] \in Range(a)
    <3>1. a[k - i + 1] = s[k]
      BY <2>1, <2>2
    <3> QED BY <2>1, <2>2, <3>1 DEF Range
  <2>6. ASSUME IsInjective(s), NEW k \in 1 .. j - i + 1, NEW h \in 1 .. j - i + 1, a[k] = a[h]
        PROVE  k = h
    <3>1. s[i + k - 1] = s[i + h - 1]
      BY <2>1, <2>6
    <3>2. i + k - 1 = i + h - 1
      BY <1>1, <2>3, <2>6, <3>1 DEF IsInjective
    <3> QED BY <1>1, <3>2
  <2>7. IsInjective(s) => IsInjective(a)
    BY <2>1, <2>6 DEF IsInjective
  <2>8. Range(a) = {s[k] : k \in i .. j}
    BY <2>4, <2>5
  <2> QED BY <2>1, <2>7, <2>8 DEF a
<1> QED BY <1>1, <1>2, <1>3

\* Some cues are inserted before position i.
Inserted(s, m, i) == SubSeq(s, 1, i - 1) \o m \o SubSeq(s, i, Len(s))

LEMMA InsertLists ==
  ASSUME NEW X, NEW s \in Seq(X), NEW m \in Seq(X), NEW i \in 1 .. Len(s) + 1
  PROVE  /\ Inserted(s, m, i) \in Seq(X)
         /\ Range(Inserted(s, m, i)) = Range(s) \cup Range(m)
         /\ IsInjective(s) /\ IsInjective(m) /\ Range(s) \cap Range(m) = {}
              => IsInjective(Inserted(s, m, i))
<1> DEFINE a == Inserted(s, m, i)
           b == SubSeq(s, 1, i - 1)
           c == SubSeq(s, i, Len(s))
<1>1. Len(s) \in Nat /\ DOMAIN s = 1 .. Len(s) /\ i - 1 \in 0 .. Len(s) /\ 1 \in 1 .. Len(s) + 1
      /\ Len(s) \in 0 .. Len(s)
  OBVIOUS
<1>2. /\ b \in Seq(X) /\ Range(b) = {s[k] : k \in 1 .. i - 1} /\ (IsInjective(s) => IsInjective(b))
      /\ c \in Seq(X) /\ Range(c) = {s[k] : k \in i .. Len(s)} /\ (IsInjective(s) => IsInjective(c))
  BY <1>1, CutLists
<1>3. a = b \o m \o c
  BY DEF Inserted
<1> HIDE DEF a, b, c
<1>4. /\ b \o m \in Seq(X) /\ Range(b \o m) = Range(b) \cup Range(m)
      /\ IsInjective(b) /\ IsInjective(m) /\ Range(b) \cap Range(m) = {} => IsInjective(b \o m)
  BY <1>2, ConcatLists
<1>5. /\ a \in Seq(X) /\ Range(a) = Range(b \o m) \cup Range(c)
      /\ IsInjective(b \o m) /\ IsInjective(c) /\ Range(b \o m) \cap Range(c) = {} => IsInjective(a)
  <2> DEFINE d == b \o m
  <2>1. d \in Seq(X) /\ c \in Seq(X) /\ a = d \o c
    BY <1>2, <1>3, <1>4
  <2> HIDE DEF d
  <2>2. /\ d \o c \in Seq(X) /\ Range(d \o c) = Range(d) \cup Range(c)
        /\ IsInjective(d) /\ IsInjective(c) /\ Range(d) \cap Range(c) = {} => IsInjective(d \o c)
    BY <2>1, ConcatLists
  <2>3. /\ a \in Seq(X) /\ Range(a) = Range(d) \cup Range(c)
        /\ IsInjective(d) /\ IsInjective(c) /\ Range(d) \cap Range(c) = {} => IsInjective(a)
    BY <2>1, <2>2, Zenon
  <2> QED BY <2>3 DEF d
<1>6. \A k \in 1 .. Len(s) : k \in 1 .. i - 1 \/ k \in i .. Len(s)
  BY <1>1
<1>7. \A k : (k \in 1 .. i - 1 => k \in 1 .. Len(s) /\ k \notin i .. Len(s))
             /\ (k \in i .. Len(s) => k \in 1 .. Len(s))
  BY <1>1
<1>8. Range(s) = Range(b) \cup Range(c)
  BY <1>1, <1>2, <1>6, <1>7 DEF Range
<1>9. ASSUME IsInjective(s) PROVE Range(b) \cap Range(c) = {}
  <2>1. \A h \in 1 .. i - 1, k \in i .. Len(s) : s[h] # s[k]
    BY <1>1, <1>7, <1>9 DEF IsInjective
  <2> QED BY <1>2, <2>1
<1> QED BY <1>2, <1>4, <1>5, <1>8, <1>9 DEF a

\* Some cues take the place of the one at position i.
Replaced(s, m, i) == SubSeq(s, 1, i - 1) \o m \o SubSeq(s, i + 1, Len(s))

LEMMA ReplaceLists ==
  ASSUME NEW X, NEW s \in Seq(X), NEW m \in Seq(X), NEW i \in 1 .. Len(s), IsInjective(s)
  PROVE  /\ Replaced(s, m, i) \in Seq(X)
         /\ Range(Replaced(s, m, i)) = (Range(s) \ {s[i]}) \cup Range(m)
         /\ IsInjective(m) /\ Range(s) \cap Range(m) = {} => IsInjective(Replaced(s, m, i))
<1> DEFINE a == Replaced(s, m, i)
           b == SubSeq(s, 1, i - 1)
           c == SubSeq(s, i + 1, Len(s))
<1>1. Len(s) \in Nat /\ DOMAIN s = 1 .. Len(s) /\ i - 1 \in 0 .. Len(s) /\ 1 \in 1 .. Len(s) + 1
      /\ Len(s) \in 0 .. Len(s) /\ i + 1 \in 1 .. Len(s) + 1
  OBVIOUS
<1>2. /\ b \in Seq(X) /\ Range(b) = {s[k] : k \in 1 .. i - 1} /\ IsInjective(b)
      /\ c \in Seq(X) /\ Range(c) = {s[k] : k \in i + 1 .. Len(s)} /\ IsInjective(c)
  BY <1>1, CutLists
<1>3. a = b \o m \o c
  BY DEF Replaced
<1> HIDE DEF a, b, c
<1>4. /\ b \o m \in Seq(X) /\ Range(b \o m) = Range(b) \cup Range(m)
      /\ IsInjective(b) /\ IsInjective(m) /\ Range(b) \cap Range(m) = {} => IsInjective(b \o m)
  BY <1>2, ConcatLists
<1>5. /\ a \in Seq(X) /\ Range(a) = Range(b \o m) \cup Range(c)
      /\ IsInjective(b \o m) /\ IsInjective(c) /\ Range(b \o m) \cap Range(c) = {} => IsInjective(a)
  <2> DEFINE d == b \o m
  <2>1. d \in Seq(X) /\ c \in Seq(X) /\ a = d \o c
    BY <1>2, <1>3, <1>4
  <2> HIDE DEF d
  <2>2. /\ d \o c \in Seq(X) /\ Range(d \o c) = Range(d) \cup Range(c)
        /\ IsInjective(d) /\ IsInjective(c) /\ Range(d) \cap Range(c) = {} => IsInjective(d \o c)
    BY <2>1, ConcatLists
  <2>3. /\ a \in Seq(X) /\ Range(a) = Range(d) \cup Range(c)
        /\ IsInjective(d) /\ IsInjective(c) /\ Range(d) \cap Range(c) = {} => IsInjective(a)
    BY <2>1, <2>2, Zenon
  <2> QED BY <2>3 DEF d
<1>6. \A k \in 1 .. Len(s) : k \in 1 .. i - 1 \/ k = i \/ k \in i + 1 .. Len(s)
  BY <1>1
<1>7. \A k : (k \in 1 .. i - 1 => k \in 1 .. Len(s) /\ k # i /\ k \notin i + 1 .. Len(s))
             /\ (k \in i + 1 .. Len(s) => k \in 1 .. Len(s) /\ k # i)
  BY <1>1
<1>8. Range(s) \ {s[i]} = Range(b) \cup Range(c)
  <2>1. Range(s) = {s[k] : k \in 1 .. Len(s)}
    BY <1>1 DEF Range
  <2>2. \A k \in 1 .. Len(s) : k # i => s[k] # s[i]
    BY <1>1 DEF IsInjective
  <2>3. ASSUME NEW y \in Range(s) \ {s[i]} PROVE y \in Range(b) \cup Range(c)
    BY <1>2, <1>6, <2>1
  <2>4. ASSUME NEW y \in Range(b) \cup Range(c) PROVE y \in Range(s) \ {s[i]}
    BY <1>2, <1>7, <2>1, <2>2
  <2> QED BY <2>3, <2>4
<1>9. Range(b) \cap Range(c) = {}
  <2>1. \A h \in 1 .. i - 1, k \in i + 1 .. Len(s) : s[h] # s[k]
    BY <1>1, <1>7 DEF IsInjective
  <2> QED BY <1>2, <2>1
<1> QED BY <1>2, <1>4, <1>5, <1>8, <1>9 DEF a

FlattenStep(ss, e, i) == IF i = 1 THEN ss[i] ELSE e[i - 1] \o ss[i]

LEMMA FlattenIsChosen ==
  ASSUME NEW ss
  PROVE  FlattenSeq(ss) =
           IF Len(ss) = 0 THEN ss
           ELSE (CHOOSE e : e = [i \in 1 .. Len(ss) |-> FlattenStep(ss, e, i)])[Len(ss)]
BY Zenon DEF FlattenSeq, FlattenStep

\* Flattening lists what the parts list.
LEMMA FlattenLists ==
  ASSUME NEW X, NEW ss \in Seq(Seq(X))
  PROVE  /\ FlattenSeq(ss) \in Seq(X)
         /\ Range(FlattenSeq(ss)) = UNION {Range(ss[i]) : i \in DOMAIN ss}
         /\ (/\ \A i \in DOMAIN ss : IsInjective(ss[i])
             /\ \A i, j \in DOMAIN ss : i # j => Range(ss[i]) \cap Range(ss[j]) = {})
              => IsInjective(FlattenSeq(ss))
<1> DEFINE m == Len(ss)
           e == CHOOSE e : e = [i \in 1 .. m |-> FlattenStep(ss, e, i)]
           V == Seq(X)
<1>1. m \in Nat /\ DOMAIN ss = 1 .. m /\ \A i \in 1 .. m : ss[i] \in V
  OBVIOUS
<1>2. CASE m = 0
  <2>1. FlattenSeq(ss) = << >> /\ DOMAIN ss = {}
    <3>1. ss = << >>
      BY <1>2
    <3> QED BY <1>2, <3>1, FlattenIsChosen
  <2> QED BY <2>1 DEF Range, IsInjective
<1>3. CASE m # 0
  <2>1. e = [i \in 1 .. m |-> FlattenStep(ss, e, i)]
    <3> DEFINE G == [i \in 1 .. m |-> [v \in V |-> v \o ss[i]]]
    <3>1. << >> \in V /\ \A i \in 1 .. m, v \in V : v \o ss[i] \in V
      BY <1>1
    <3>2. G \in [1 .. m -> [V -> V]]
      <4> HIDE DEF V, m
      <4> QED BY <3>1
    <3>3. PICK f : Steps(m, V, << >>, G, f)
      <4> HIDE DEF G, m, V
      <4> QED BY <1>1, <3>1, <3>2, RecursionExists
    <3> DEFINE h == [i \in 1 .. m |-> f[i]]
    <3>4. ASSUME NEW i \in 1 .. m PROVE h[i] = FlattenStep(ss, h, i)
      <4>1. i - 1 \in 0 .. m /\ f[i - 1] \in V
        <5>1. f \in [0 .. m -> V]
          <6> HIDE DEF V, G, m
          <6> QED BY <3>3 DEF Steps
        <5>2. i - 1 \in 0 .. m
          <6> HIDE DEF m
          <6> QED BY <1>1
        <5> HIDE DEF V, G, m
        <5> QED BY <5>1, <5>2
      <4>2. f[i] = f[i - 1] \o ss[i]
        <5>1. G[i][f[i - 1]] = f[i - 1] \o ss[i]
          <6> HIDE DEF V
          <6> QED BY <4>1
        <5>2. f[i] = G[i][f[i - 1]]
          <6> HIDE DEF V, G
          <6> QED BY <3>3 DEF Steps
        <5> QED BY <5>1, <5>2
      <4>3. CASE i = 1
        <5>1. f[0] = << >> /\ ss[i] \in Seq(X) /\ i - 1 = 0
          BY <1>1, <3>3, <4>3 DEF Steps
        <5>2. << >> \o ss[i] = ss[i]
          BY <5>1
        <5>3. f[i] = ss[i]
          <6> HIDE DEF G, V
          <6> QED BY <4>2, <5>1, <5>2
        <5> HIDE DEF G, V
        <5> QED BY <4>3, <5>3 DEF FlattenStep
      <4>4. CASE i # 1
        <5>1. i - 1 \in 1 .. m
          BY <1>1, <4>4
        <5> QED BY <4>2, <4>4, <5>1 DEF FlattenStep
      <4> QED BY <4>3, <4>4
    <3>5. h = [i \in 1 .. m |-> FlattenStep(ss, h, i)]
      BY <3>4
    <3> HIDE DEF h
    <3> QED BY <3>5
  <2>2. FlattenSeq(ss) = e[m]
    BY <1>3, FlattenIsChosen
  <2> HIDE DEF e, m
  <2> DEFINE Right(n) ==
               /\ e[n] \in Seq(X)
               /\ Range(e[n]) = UNION {Range(ss[i]) : i \in 1 .. n}
               /\ (/\ \A i \in DOMAIN ss : IsInjective(ss[i])
                   /\ \A i, j \in DOMAIN ss : i # j => Range(ss[i]) \cap Range(ss[j]) = {})
                    => IsInjective(e[n])
             T == {n \in Nat : n + 1 <= m => Right(n + 1)}
  <2>3. Right(1)
    <3>1. e[1] = ss[1] /\ 1 \in DOMAIN ss /\ ss[1] \in Seq(X) /\ 1 .. 1 = {1}
      BY <1>1, <1>3, <2>1 DEF FlattenStep
    <3>2. UNION {Range(ss[i]) : i \in 1 .. 1} = Range(ss[1])
      BY <3>1
    <3>3. (\A i \in DOMAIN ss : IsInjective(ss[i])) => IsInjective(e[1])
      BY <3>1
    <3>4. e[1] \in Seq(X) /\ Range(e[1]) = UNION {Range(ss[i]) : i \in 1 .. 1}
      BY <3>1, <3>2
    <3> QED BY <3>3, <3>4, Zenon
  <2>4. ASSUME NEW n \in 1 .. m, n + 1 <= m, Right(n) PROVE Right(n + 1)
    <3>1. n + 1 \in 1 .. m /\ n + 1 # 1 /\ (n + 1) - 1 = n /\ 1 .. n + 1 = (1 .. n) \cup {n + 1}
          /\ n + 1 \in DOMAIN ss /\ ss[n + 1] \in Seq(X) /\ 1 .. n \subseteq DOMAIN ss
          /\ n + 1 \notin 1 .. n
      <4>1. n \in Nat /\ m \in Nat /\ 1 <= n /\ n + 1 <= m
        BY <1>1, <2>4
      <4> HIDE DEF Right
      <4>2. /\ n + 1 \in 1 .. m /\ n + 1 # 1 /\ (n + 1) - 1 = n /\ 1 .. n + 1 = (1 .. n) \cup {n + 1}
            /\ 1 .. n \subseteq 1 .. m /\ n + 1 \notin 1 .. n
        BY <4>1
      <4> QED BY <1>1, <4>2
    <3>2. e[n + 1] = e[n] \o ss[n + 1]
      BY <2>1, <3>1 DEF FlattenStep
    <3>3. /\ e[n + 1] \in Seq(X) /\ Range(e[n + 1]) = Range(e[n]) \cup Range(ss[n + 1])
          /\ IsInjective(e[n]) /\ IsInjective(ss[n + 1]) /\ Range(e[n]) \cap Range(ss[n + 1]) = {}
               => IsInjective(e[n + 1])
      <4>1. e[n] \in Seq(X)
        BY <2>4
      <4> HIDE DEF Right, V
      <4>2. /\ e[n] \o ss[n + 1] \in Seq(X)
            /\ Range(e[n] \o ss[n + 1]) = Range(e[n]) \cup Range(ss[n + 1])
            /\ IsInjective(e[n]) /\ IsInjective(ss[n + 1]) /\ Range(e[n]) \cap Range(ss[n + 1]) = {}
                 => IsInjective(e[n] \o ss[n + 1])
        BY <3>1, <4>1, ConcatLists
      <4> QED BY <3>2, <4>2, Zenon
    <3>4. UNION {Range(ss[i]) : i \in 1 .. n + 1}
            = (UNION {Range(ss[i]) : i \in 1 .. n}) \cup Range(ss[n + 1])
      BY <3>1
    <3>5. ASSUME \A i, j \in DOMAIN ss : i # j => Range(ss[i]) \cap Range(ss[j]) = {}
          PROVE  Range(e[n]) \cap Range(ss[n + 1]) = {}
      <4>1. Range(e[n]) = UNION {Range(ss[i]) : i \in 1 .. n}
        BY <2>4
      <4>2. \A i \in 1 .. n : Range(ss[i]) \cap Range(ss[n + 1]) = {}
        BY <3>1, <3>5
      <4> HIDE DEF Right
      <4> QED BY <4>1, <4>2
    <3> QED BY <2>4, <3>1, <3>3, <3>4, <3>5
  <2> HIDE DEF Right
  <2>5. m - 1 \in T
    <3>1. 0 \in T
      BY <2>3
    <3>2. \A n \in Nat : n \in T => n + 1 \in T
      BY <1>1, <2>4
    <3> HIDE DEF T
    <3> QED BY <1>1, <1>3, <3>1, <3>2, NatSetInduction
  <2>6. Right(m)
    BY <1>1, <1>3, <2>5
  <2> USE DEF Right
  <2> QED BY <1>1, <2>2, <2>6
<1> QED BY <1>2, <1>3

(***************************************************************************)
(* What is below a cue                                                     *)
(***************************************************************************)
\* S has the children of all its groups.
Closed(t, S) == \A z \in S : Range(t.row[z]) \subseteq S

\* A tree that lists each cue once, in terms of what its rows list.
Reached(t) ==
  \A S \in SUBSET Cue : TopLevel(t) \subseteq S /\ Closed(t, S) => Listed(t) \subseteq S
Apart(t) ==
  /\ \A p \in Place : IsInjective(t.row[p])
  /\ \A p, q \in Place : p # q => Range(t.row[p]) \cap Range(t.row[q]) = {}
OnlyIn(t, G) == \A p \in Cue : p \notin G => Range(t.row[p]) = {}
Once(t, G) == Apart(t) /\ OnlyIn(t, G) /\ Reached(t)

LEMMA Rows ==
  ASSUME MaxCues \in Nat, NEW t \in Tree
  PROVE  /\ \A p \in Place : t.row[p] \in Seq(Cue) /\ Range(t.row[p]) \subseteq Listed(t)
         /\ \A x \in Listed(t) : \E p \in Place : x \in Range(t.row[p])
         /\ Listed(t) \subseteq Cue /\ TopLevel(t) \subseteq Listed(t)
         /\ Top \in Place /\ Top \notin Cue /\ Cue \subseteq Place
         /\ \A p \in Place : p = Top \/ p \in Cue
         /\ t.playhead \in Cue \cup {NoCue} /\ t = [row |-> t.row, playhead |-> t.playhead]
         /\ t.row \in [Place -> Seq(Cue)]
<1>1. t.row \in [Place -> Seq(Cue)] /\ t.playhead \in Cue \cup {NoCue}
      /\ t = [row |-> t.row, playhead |-> t.playhead]
  BY DEF Tree
<1>2. \A p \in Place : t.row[p] \in Seq(Cue) /\ Range(t.row[p]) \subseteq Cue
  BY <1>1, Members
<1>3. Top \in Place /\ Top \notin Cue /\ Cue \subseteq Place /\ \A p \in Place : p = Top \/ p \in Cue
  BY DEF Top, Place, Cue
<1> QED BY <1>1, <1>2, <1>3 DEF Listed, TopLevel

BallStep(t, x, u, n) ==
  IF n = 0 THEN {x} ELSE u[n - 1] \cup UNION {Range(t.row[z]) : z \in u[n - 1]}
Ball(t, x) == CHOOSE u : u = [n \in 0 .. MaxCues |-> BallStep(t, x, u, n)]

LEMMA SubtreeIsBall ==
  ASSUME NEW t, NEW x
  PROVE  Subtree(t, x) = Ball(t, x)[MaxCues]
BY Zenon DEF Subtree, Ball, BallStep

LEMMA BallGrows ==
  ASSUME MaxCues \in Nat, NEW t \in Tree, NEW x \in Cue
  PROVE  /\ Ball(t, x) \in [0 .. MaxCues -> SUBSET Cue]
         /\ Ball(t, x)[0] = {x}
         /\ \A n \in 1 .. MaxCues :
              Ball(t, x)[n] = Ball(t, x)[n - 1]
                              \cup UNION {Range(t.row[z]) : z \in Ball(t, x)[n - 1]}
<1> DEFINE V == SUBSET Cue
           Below(v) == UNION {Range(t.row[z]) : z \in v}
           G == [n \in 1 .. MaxCues |-> [v \in V |-> v \cup Below(v)]]
           u == Ball(t, x)
<1>1. \A v \in V : v \cup Below(v) \in V
  BY Rows
<1>2. {x} \in V
  OBVIOUS
<1>3. G \in [1 .. MaxCues -> [V -> V]]
  <2> HIDE DEF V, Below
  <2> QED BY <1>1
<1>4. PICK f : Steps(MaxCues, V, {x}, G, f)
  <2> HIDE DEF V, G
  <2> QED BY <1>2, <1>3, RecursionExists
<1>5. f \in [0 .. MaxCues -> V] /\ f[0] = {x} /\ \A n \in 1 .. MaxCues : f[n] = G[n][f[n - 1]]
  <2> HIDE DEF V, G
  <2> QED BY <1>4 DEF Steps
<1>6. \A n \in 1 .. MaxCues : n - 1 \in 0 .. MaxCues
  OBVIOUS
<1>7. \A n \in 1 .. MaxCues : f[n] = f[n - 1] \cup Below(f[n - 1])
  <2> HIDE DEF V, Below
  <2> QED BY <1>5, <1>6
<1>8. \A n \in 0 .. MaxCues : f[n] = BallStep(t, x, f, n)
  <2>1. \A n \in 0 .. MaxCues : n # 0 => n \in 1 .. MaxCues
    OBVIOUS
  <2> QED BY <1>5, <1>7, <2>1 DEF BallStep
<1>9. f = [n \in 0 .. MaxCues |-> BallStep(t, x, f, n)]
  BY <1>5, <1>8
<1>10. u = [n \in 0 .. MaxCues |-> BallStep(t, x, u, n)]
  BY <1>9 DEF Ball
<1> HIDE DEF u
<1>11. \A n \in 1 .. MaxCues : u[n] = u[n - 1] \cup Below(u[n - 1])
  <2>1. \A n \in 1 .. MaxCues : n # 0 /\ n \in 0 .. MaxCues
    OBVIOUS
  <2> QED BY <1>10, <2>1 DEF BallStep
<1>12. 0 \in 0 .. MaxCues /\ u[0] = {x} /\ DOMAIN u = 0 .. MaxCues
  BY <1>10 DEF BallStep
<1> DEFINE S == {n \in Nat : n <= MaxCues => u[n] \in V}
<1>13. ASSUME NEW n \in Nat, n \in S PROVE n + 1 \in S
  <2>1. CASE n + 1 <= MaxCues
    <3>1. n + 1 \in 1 .. MaxCues /\ (n + 1) - 1 = n /\ n <= MaxCues
      BY <2>1
    <3>2. u[n] \in V
      BY <1>13, <3>1
    <3>3. u[n + 1] = u[n] \cup Below(u[n])
      BY <1>11, <3>1
    <3>4. u[n + 1] \in V
      BY <1>1, <3>2, <3>3
    <3> QED BY <3>4
  <2>2. CASE ~(n + 1 <= MaxCues)
    BY <2>2
  <2> QED BY <2>1, <2>2
<1>14. \A n \in 0 .. MaxCues : u[n] \in V
  <2>1. 0 \in S
    BY <1>2, <1>12
  <2>2. \A n \in 0 .. MaxCues : n \in S
    <3> HIDE DEF S
    <3> QED BY <1>13, <2>1, NatSetInduction
  <2> QED BY <2>2
<1>15. u \in [0 .. MaxCues -> V]
  <2> HIDE DEF V
  <2> QED BY <1>10, <1>14
<1> QED BY <1>11, <1>12, <1>15 DEF u

\* Unless it is closed already, a ball grows with its radius; so the last one,
\* whose radius is the number of cues, is closed.
LEMMA LastBallIsClosed ==
  ASSUME MaxCues \in Nat, NEW t \in Tree, NEW x \in Cue
  PROVE  Closed(t, Ball(t, x)[MaxCues])
<1> DEFINE u == Ball(t, x)
           S == {n \in Nat : n <= MaxCues => Closed(t, u[n]) \/ Cardinality(u[n]) > n}
<1>1. IsFiniteSet(Cue) /\ Cardinality(Cue) = MaxCues
  BY FS_Interval DEF Cue
<1>2. \A T \in SUBSET Cue : IsFiniteSet(T) /\ Cardinality(T) \in Nat /\ Cardinality(T) <= MaxCues
  BY <1>1, FS_Subset, FS_CardinalityType
<1>3. \A n \in 0 .. MaxCues : u[n] \in SUBSET Cue
  BY BallGrows
<1>4. 0 \in S
  <2>1. u[0] = {x}
    BY BallGrows
  <2>2. Cardinality(u[0]) = 1
    BY <2>1, FS_Singleton
  <2> HIDE DEF u
  <2> QED BY <2>2
<1>5. ASSUME NEW n \in Nat, n \in S, n + 1 <= MaxCues
      PROVE  Closed(t, u[n + 1]) \/ Cardinality(u[n + 1]) > n + 1
  <2>1. n + 1 \in 1 .. MaxCues /\ (n + 1) - 1 = n /\ n <= MaxCues /\ n \in 0 .. MaxCues
        /\ n + 1 \in 0 .. MaxCues
    BY <1>5
  <2>2. u[n + 1] = u[n] \cup UNION {Range(t.row[z]) : z \in u[n]}
    BY <2>1, BallGrows
  <2>3. u[n] \in SUBSET Cue /\ u[n + 1] \in SUBSET Cue
    BY <1>3, <2>1
  <2> HIDE DEF u
  <2>4. CASE Closed(t, u[n])
    <3>1. u[n + 1] = u[n]
      BY <2>2, <2>4 DEF Closed
    <3> QED BY <2>4, <3>1
  <2>5. CASE ~Closed(t, u[n])
    <3>1. Cardinality(u[n]) > n
      BY <1>5, <2>1, <2>5
    <3>2. u[n] \subseteq u[n + 1] /\ u[n] # u[n + 1]
      BY <2>2, <2>5 DEF Closed
    <3>3. IsFiniteSet(u[n + 1])
      BY <1>2, <2>3
    <3>4. Cardinality(u[n]) < Cardinality(u[n + 1])
      <4>1. Cardinality(u[n]) <= Cardinality(u[n + 1]) /\ Cardinality(u[n]) # Cardinality(u[n + 1])
        BY <3>2, <3>3, FS_Subset
      <4> QED BY <1>2, <2>3, <4>1
    <3> QED BY <1>2, <2>3, <3>1, <3>4
  <2> QED BY <2>4, <2>5
<1>6. MaxCues \in S
  <2>1. \A n \in Nat : n \in S => n + 1 \in S
    BY <1>5
  <2> HIDE DEF S
  <2> QED BY <1>4, <2>1, NatSetInduction
<1>7. u[MaxCues] \in SUBSET Cue
  BY <1>3
<1> HIDE DEF u
<1>8. Closed(t, u[MaxCues])
  BY <1>2, <1>6, <1>7
<1> QED BY <1>8 DEF u

\* Subtree(t, x) is the least set with x and the children of its groups.
LEMMA SubtreeIsLeast ==
  ASSUME MaxCues \in Nat, NEW t \in Tree, NEW x \in Cue
  PROVE  /\ Subtree(t, x) \subseteq Cue /\ x \in Subtree(t, x) /\ Closed(t, Subtree(t, x))
         /\ \A S : x \in S /\ Closed(t, S) => Subtree(t, x) \subseteq S
<1> DEFINE u == Ball(t, x)
<1>1. MaxCues \in 0 .. MaxCues /\ Subtree(t, x) = u[MaxCues]
  BY SubtreeIsBall
<1>2. u[MaxCues] \in SUBSET Cue /\ Closed(t, u[MaxCues])
  BY <1>1, BallGrows, LastBallIsClosed
<1> DEFINE Grown(n) == x \in u[n] /\ \A S : x \in S /\ Closed(t, S) => u[n] \subseteq S
           I == {n \in Nat : n <= MaxCues => Grown(n)}
<1>3. Grown(0)
  BY BallGrows
<1>4. ASSUME NEW n \in Nat, n + 1 <= MaxCues, Grown(n) PROVE Grown(n + 1)
  <2>1. n + 1 \in 1 .. MaxCues /\ (n + 1) - 1 = n
    BY <1>4
  <2>2. u[n + 1] = u[n] \cup UNION {Range(t.row[z]) : z \in u[n]}
    BY <2>1, BallGrows
  <2> HIDE DEF u
  <2> QED BY <1>4, <2>2 DEF Closed
<1>5. MaxCues \in I
  <2> HIDE DEF Grown
  <2>1. 0 \in I
    BY <1>3
  <2>2. ASSUME NEW n \in Nat, n \in I PROVE n + 1 \in I
    <3>1. n + 1 <= MaxCues => n <= MaxCues
      OBVIOUS
    <3> QED BY <1>4, <2>2, <3>1
  <2> HIDE DEF I
  <2> QED BY <2>1, <2>2, NatSetInduction
<1>6. Grown(MaxCues)
  BY <1>5
<1> HIDE DEF u
<1> QED BY <1>1, <1>2, <1>6

(***************************************************************************)
(* Trees that list each cue once                                           *)
(***************************************************************************)
LEMMA ListedIsClosed ==
  ASSUME MaxCues \in Nat, NEW t \in Tree
  PROVE  /\ Closed(t, Listed(t)) /\ Closed(t, Listed(t) \cup {Top})
         /\ \A x \in Listed(t) : Subtree(t, x) \subseteq Listed(t)
<1>1. \A z \in Place : Range(t.row[z]) \subseteq Listed(t)
  BY Rows
<1>2. Listed(t) \subseteq Place /\ Listed(t) \subseteq Cue /\ Top \in Place
  BY Rows
<1>3. Closed(t, Listed(t)) /\ Closed(t, Listed(t) \cup {Top})
  BY <1>1, <1>2 DEF Closed
<1> QED BY <1>2, <1>3, SubtreeIsLeast

LEMMA ReachedFromTop ==
  ASSUME MaxCues \in Nat, NEW t \in Tree
  PROVE  Reached(t) <=> Listed(t) = UNION {Subtree(t, x) : x \in TopLevel(t)}
<1> DEFINE U == UNION {Subtree(t, x) : x \in TopLevel(t)}
<1>1. TopLevel(t) \subseteq Cue /\ TopLevel(t) \subseteq Listed(t)
  BY Rows
<1>2. /\ \A x \in TopLevel(t) : x \in Subtree(t, x) /\ Subtree(t, x) \subseteq Cue
                                /\ Closed(t, Subtree(t, x))
      /\ \A x \in TopLevel(t) : \A S : x \in S /\ Closed(t, S) => Subtree(t, x) \subseteq S
  BY <1>1, SubtreeIsLeast
<1>3. U \subseteq Listed(t)
  BY <1>1, ListedIsClosed
<1>4. TopLevel(t) \subseteq U /\ Closed(t, U) /\ U \in SUBSET Cue
  BY <1>2 DEF Closed
<1>5. Reached(t) => Listed(t) \subseteq U
  <2> HIDE DEF U
  <2> QED BY <1>4 DEF Reached
<1>6. ASSUME Listed(t) = U PROVE Reached(t)
  BY <1>2, <1>6 DEF Reached
<1> QED BY <1>3, <1>5, <1>6

LEMMA OnceIs ==
  ASSUME MaxCues \in Nat, NEW t \in Tree, NEW G
  PROVE  EachListedOnce(t, G) <=> Once(t, G)
<1> DEFINE A == \A p, q \in Place : \A i \in DOMAIN t.row[p], j \in DOMAIN t.row[q] :
                  t.row[p][i] = t.row[q][j] => p = q /\ i = j
           B == \A p \in Cue : t.row[p] # << >> => p \in G
<1>1. A => Apart(t)
  BY DEF Apart, IsInjective, Range
<1>2. ASSUME Apart(t) PROVE A
  <2> SUFFICES ASSUME NEW p \in Place, NEW q \in Place, NEW i \in DOMAIN t.row[p],
                      NEW j \in DOMAIN t.row[q], t.row[p][i] = t.row[q][j]
               PROVE  p = q /\ i = j
    OBVIOUS
  <2>1. t.row[p][i] \in Range(t.row[p]) /\ t.row[q][j] \in Range(t.row[q])
    BY DEF Range
  <2>2. p = q
    BY <1>2, <2>1 DEF Apart
  <2> QED BY <1>2, <2>2 DEF Apart, IsInjective
<1>3. \A p \in Cue : t.row[p] = << >> <=> Range(t.row[p]) = {}
  <2>1. \A p \in Cue : t.row[p] \in Seq(Cue)
    BY Rows
  <2> QED BY <2>1, Members
<1>4. B <=> OnlyIn(t, G)
  BY <1>3 DEF OnlyIn
<1>5. EachListedOnce(t, G) <=> A /\ B /\ Listed(t) = UNION {Subtree(t, x) : x \in TopLevel(t)}
  BY DEF EachListedOnce
<1> HIDE DEF A, B
<1> QED BY <1>1, <1>2, <1>4, <1>5, ReachedFromTop DEF Once

\* A cue that is not listed has no children.
LEMMA UnlistedAreBare ==
  ASSUME MaxCues \in Nat, NEW t \in Tree, NEW G, Once(t, G), NEW z \in Cue \ Listed(t)
  PROVE  Range(t.row[z]) = {}
<1> DEFINE S == UNION {Range(t.row[q]) : q \in Listed(t) \cup {Top}}
<1>1. TopLevel(t) \subseteq S /\ S \subseteq Listed(t) /\ S \in SUBSET Cue
  BY Rows DEF TopLevel
<1>2. Closed(t, S)
  BY <1>1 DEF Closed
<1>3. Listed(t) \subseteq S
  <2> HIDE DEF S
  <2> QED BY <1>1, <1>2 DEF Once, Reached
<1>4. ASSUME NEW y \in Range(t.row[z]) PROVE FALSE
  <2>1. y \in Listed(t)
    BY Rows
  <2>2. PICK q \in Listed(t) \cup {Top} : y \in Range(t.row[q])
    BY <1>3, <2>1
  <2>3. q \in Place /\ z \in Place /\ q # z
    BY Rows
  <2> QED BY <1>4, <2>2, <2>3 DEF Once, Apart
<1> QED BY <1>4

\* A top-level cue is below no other cue.
LEMMA TopIsAbove ==
  ASSUME MaxCues \in Nat, NEW t \in Tree, NEW G, Once(t, G), NEW x \in Cue,
         NEW y \in TopLevel(t), y \in Subtree(t, x)
  PROVE  y = x
<1> SUFFICES ASSUME y # x PROVE FALSE
  OBVIOUS
<1> DEFINE S == Subtree(t, x) \ {y}
<1>1. /\ Subtree(t, x) \subseteq Cue /\ x \in Subtree(t, x) /\ Closed(t, Subtree(t, x))
      /\ \A T : x \in T /\ Closed(t, T) => Subtree(t, x) \subseteq T
  BY SubtreeIsLeast
<1>2. \A z \in Cue : y \notin Range(t.row[z])
  BY Rows DEF Once, Apart, TopLevel
<1>3. x \in S /\ Closed(t, S)
  BY <1>1, <1>2 DEF Closed
<1> HIDE DEF S
<1>4. Subtree(t, x) \subseteq S
  BY <1>1, <1>3
<1> QED BY <1>4 DEF S

(***************************************************************************)
(* What an edit makes of the sets its rows list                            *)
(***************************************************************************)
\* Rows are put in another order.
Reorders(t, u) ==
  \A p \in Place : IsInjective(u.row[p]) /\ Range(u.row[p]) = Range(t.row[p])

LEMMA ReorderedKeeps ==
  ASSUME MaxCues \in Nat, NEW t \in Tree, NEW u \in Tree, NEW G, Once(t, G), Reorders(t, u)
  PROVE  Once(u, G) /\ Listed(u) = Listed(t) /\ TopLevel(u) = TopLevel(t)
<1> USE DEF Reorders
<1>1. Listed(u) = Listed(t) /\ TopLevel(u) = TopLevel(t)
  BY Rows DEF Listed, TopLevel
<1>2. \A S \in SUBSET Cue : Closed(u, S) => Closed(t, S)
  BY Rows DEF Closed
<1>3. Reached(u)
  BY <1>1, <1>2 DEF Once, Reached
<1>4. Apart(u) /\ OnlyIn(u, G)
  BY Rows DEF Once, Apart, OnlyIn
<1> QED BY <1>1, <1>3, <1>4 DEF Once

\* A closed set of cues is dropped.
Drops(t, u, gone) ==
  \A p \in Place :
    /\ IsInjective(u.row[p])
    /\ Range(u.row[p]) = IF p \in gone THEN {} ELSE Range(t.row[p]) \ gone

LEMMA DroppedKeeps ==
  ASSUME MaxCues \in Nat, NEW t \in Tree, NEW u \in Tree, NEW G, Once(t, G),
         NEW gone \in SUBSET Cue, Closed(t, gone), Drops(t, u, gone)
  PROVE  Once(u, G) /\ Listed(u) = Listed(t) \ gone
<1> USE DEF Drops
<1>1. \A p \in Place : Range(u.row[p]) \subseteq Range(t.row[p]) \ gone
  OBVIOUS
<1>2. Listed(u) \subseteq Listed(t) \ gone
  BY <1>1, Rows DEF Listed
<1>3. ASSUME NEW y \in Listed(t) \ gone PROVE y \in Listed(u)
  <2>1. PICK p \in Place : y \in Range(t.row[p])
    BY Rows
  <2>2. p \notin gone
    BY <1>3, <2>1 DEF Closed
  <2> QED BY <1>3, <2>1, <2>2, Rows
<1>4. Apart(u)
  BY <1>1 DEF Once, Apart
<1>5. OnlyIn(u, G)
  BY <1>1, Rows DEF Once, OnlyIn
<1>6. ASSUME NEW S \in SUBSET Cue, TopLevel(u) \subseteq S, Closed(u, S)
      PROVE  Listed(u) \subseteq S
  <2>1. S \cup gone \in SUBSET Cue
    OBVIOUS
  <2>2. TopLevel(t) \subseteq S \cup gone
    <3>1. Top \in Place /\ Top \notin gone
      BY Rows
    <3> QED BY <1>6, <3>1 DEF TopLevel
  <2>3. Closed(t, S \cup gone)
    BY <1>6, Rows DEF Closed
  <2>4. Listed(t) \subseteq S \cup gone
    BY <2>1, <2>2, <2>3 DEF Once, Reached
  <2> QED BY <1>2, <2>4
<1> QED BY <1>2, <1>3, <1>4, <1>5, <1>6 DEF Once, Reached

\* A cue moves, with all below it, to a row that is not below it.
Moves(t, u, x, p) ==
  \A q \in Place :
    /\ IsInjective(u.row[q])
    /\ Range(u.row[q]) = (Range(t.row[q]) \ {x}) \cup (IF q = p THEN {x} ELSE {})

LEMMA MovedKeeps ==
  ASSUME MaxCues \in Nat, NEW t \in Tree, NEW u \in Tree, NEW G, Once(t, G),
         NEW x \in Listed(t), NEW p \in Place, p = Top \/ (p \in Listed(t) \cap G),
         p \notin Subtree(t, x), Moves(t, u, x, p)
  PROVE  Once(u, G) /\ Listed(u) = Listed(t)
<1> USE DEF Moves
<1>1. x \in Cue /\ x \in Range(u.row[p]) /\ p \in Place
  <2>1. Listed(t) \subseteq Cue
    BY Rows
  <2> QED BY <2>1
<1>2. \A q \in Place : Range(u.row[q]) \subseteq Range(t.row[q]) \cup {x}
                       /\ Range(t.row[q]) \subseteq Range(u.row[q]) \cup {x}
  OBVIOUS
<1>3. Listed(u) = Listed(t)
  <2>0. \A q \in Place : Range(u.row[q]) \subseteq Listed(t)
    BY <1>2, Rows
  <2>1. \A y \in Listed(u) : y \in Listed(t)
    BY <2>0, Rows
  <2>2. x \in Listed(u)
    BY <1>1, Rows
  <2>3. \A q \in Place : Range(t.row[q]) \subseteq Listed(u)
    BY <1>2, <2>2, Rows
  <2>4. \A y \in Listed(t) : y \in Listed(u)
    BY <2>3, Rows
  <2> QED BY <2>1, <2>4
<1>4. Apart(u)
  <2> SUFFICES ASSUME NEW q \in Place, NEW r \in Place, q # r,
                      NEW y \in Range(u.row[q]), y \in Range(u.row[r])
               PROVE  FALSE
    BY DEF Apart
  <2>1. CASE y = x
    BY <2>1
  <2>2. CASE y # x
    BY <1>2, <2>2 DEF Once, Apart
  <2> QED BY <2>1, <2>2
<1>5. OnlyIn(u, G)
  <2> SUFFICES ASSUME NEW q \in Cue, q \notin G PROVE Range(u.row[q]) = {}
    BY DEF OnlyIn
  <2>1. q # p /\ q \in Place /\ Range(t.row[q]) = {}
    BY Rows DEF Once, OnlyIn
  <2> QED BY <2>1
<1>6. ASSUME NEW S \in SUBSET Cue, TopLevel(u) \subseteq S, Closed(u, S)
      PROVE  Listed(u) \subseteq S
  <2>1. /\ Subtree(t, x) \subseteq Cue /\ x \in Subtree(t, x) /\ Closed(t, Subtree(t, x))
    BY <1>1, SubtreeIsLeast
  <2> DEFINE B == S \cup Subtree(t, x)
  <2>2. B \in SUBSET Cue /\ TopLevel(t) \subseteq B /\ Closed(t, B)
    <3>1. TopLevel(t) \subseteq B
      BY <1>2, <1>6, <2>1, Rows DEF TopLevel
    <3>2. ASSUME NEW z \in S PROVE Range(t.row[z]) \subseteq B
      <4>1. z \in Place /\ Range(u.row[z]) \subseteq S
        BY <1>6, Rows DEF Closed
      <4> QED BY <1>2, <2>1, <4>1
    <3> QED BY <2>1, <3>1, <3>2 DEF Closed
  <2>3. Listed(t) \subseteq B
    <3> HIDE DEF B
    <3> QED BY <2>2 DEF Once, Reached
  <2>4. x \in S
    <3>1. p = Top \/ p \in S
      BY <2>3
    <3> QED BY <1>1, <1>6, <3>1 DEF TopLevel, Closed
  <2>5. TopLevel(t) \subseteq S
    <3>1. Top \in Place
      BY Rows
    <3> QED BY <1>2, <1>6, <2>4, <3>1 DEF TopLevel
  <2>6. ASSUME NEW z \in S PROVE Range(t.row[z]) \subseteq S
    <3>1. z \in Place /\ Range(u.row[z]) \subseteq S
      BY <1>6, Rows DEF Closed
    <3> QED BY <1>2, <2>4, <3>1
  <2> QED BY <1>3, <2>5, <2>6 DEF Once, Reached, Closed
<1> QED BY <1>3, <1>4, <1>5, <1>6 DEF Once, Reached

\* A new cue g is put at the top and takes the top-level cues I as its children.
Wraps(t, u, g, I) ==
  \A p \in Place :
    /\ IsInjective(u.row[p])
    /\ Range(u.row[p]) = CASE p = Top -> (TopLevel(t) \ I) \cup {g}
                           [] p = g -> I
                           [] OTHER -> Range(t.row[p])

LEMMA WrappedKeeps ==
  ASSUME MaxCues \in Nat, NEW t \in Tree, NEW u \in Tree, NEW G, NEW H, Once(t, G), G \subseteq H,
         NEW g \in Cue \ Listed(t), NEW I \in SUBSET TopLevel(t), I # {} => g \in H,
         Wraps(t, u, g, I)
  PROVE  Once(u, H) /\ Listed(u) = Listed(t) \cup {g}
<1> USE DEF Wraps
<1>1. /\ Top \in Place /\ g \in Place /\ g # Top
      /\ Range(u.row[Top]) = (TopLevel(t) \ I) \cup {g} /\ Range(u.row[g]) = I
      /\ \A p \in Place \ {Top, g} : Range(u.row[p]) = Range(t.row[p])
  BY Rows
<1>2. Range(t.row[g]) = {}
  BY UnlistedAreBare
<1>3. TopLevel(t) \subseteq Listed(t) /\ TopLevel(t) = Range(t.row[Top])
  BY Rows DEF TopLevel
<1>4. Listed(u) = Listed(t) \cup {g}
  <2>1. \A p \in Place : Range(u.row[p]) \subseteq Listed(t) \cup {g}
    BY <1>1, <1>3, Rows
  <2>2. \A p \in Place : Range(t.row[p]) \subseteq Listed(u) \cup I
    <3>1. \A p \in Place : Range(u.row[p]) \subseteq Listed(u)
      BY Rows
    <3>2. TopLevel(t) \subseteq Range(u.row[Top]) \cup I
      BY <1>1
    <3> QED BY <1>1, <1>2, <1>3, <3>1, <3>2
  <2>3. I \subseteq Listed(u) /\ g \in Listed(u)
    BY <1>1, Rows
  <2>4. \A y \in Listed(u) : y \in Listed(t) \cup {g}
    BY <2>1, Rows
  <2>5. \A y \in Listed(t) : y \in Listed(u)
    BY <2>2, <2>3, Rows
  <2> QED BY <2>3, <2>4, <2>5
<1>5. Apart(u)
  <2> SUFFICES ASSUME NEW q \in Place, NEW r \in Place, q # r,
                      NEW y \in Range(u.row[q]), y \in Range(u.row[r])
               PROVE  FALSE
    BY DEF Apart
  <2>1. CASE y = g
    <3>1. \A p \in Place \ {Top} : g \notin Range(u.row[p])
      BY <1>1, <1>3, Rows
    <3> QED BY <2>1, <3>1
  <2>2. CASE y # g
    <3>1. \A p \in Place : y \in Range(u.row[p]) =>
             IF y \in I THEN p = g ELSE y \in Range(t.row[p])
      BY <1>1, <1>3, <2>2 DEF Once, Apart
    <3> QED BY <3>1 DEF Once, Apart
  <2> QED BY <2>1, <2>2
<1>6. OnlyIn(u, H)
  BY <1>1, Rows DEF Once, OnlyIn
<1>7. ASSUME NEW S \in SUBSET Cue, TopLevel(u) \subseteq S, Closed(u, S)
      PROVE  Listed(u) \subseteq S
  <2>1. g \in S /\ I \subseteq S
    BY <1>1, <1>7 DEF TopLevel, Closed
  <2>2. TopLevel(t) \subseteq S
    BY <1>1, <1>7, <2>1 DEF TopLevel
  <2>3. Closed(t, S)
    <3>1. ASSUME NEW z \in S PROVE Range(t.row[z]) \subseteq S
      <4>1. CASE z = g
        BY <1>2, <4>1
      <4>2. CASE z # g
        <5>1. z \in Place \ {Top, g}
          BY <4>2, Rows
        <5> QED BY <1>1, <1>7, <5>1 DEF Closed
      <4> QED BY <4>1, <4>2
    <3> QED BY <3>1 DEF Closed
  <2> QED BY <1>4, <2>1, <2>2, <2>3 DEF Once, Reached
<1> QED BY <1>4, <1>5, <1>6, <1>7 DEF Once, Reached

\* A top-level cue goes and its children take its place.
Unwraps(t, u, g) ==
  \A p \in Place :
    /\ IsInjective(u.row[p])
    /\ Range(u.row[p]) = CASE p = Top -> (TopLevel(t) \ {g}) \cup Range(t.row[g])
                           [] p = g -> {}
                           [] OTHER -> Range(t.row[p])

LEMMA UnwrappedKeeps ==
  ASSUME MaxCues \in Nat, NEW t \in Tree, NEW u \in Tree, NEW G, Once(t, G), NEW g \in TopLevel(t),
         Unwraps(t, u, g)
  PROVE  Once(u, G) /\ Listed(u) = Listed(t) \ {g}
<1> USE DEF Unwraps
<1>1. TopLevel(t) \subseteq Listed(t) /\ TopLevel(t) = Range(t.row[Top]) /\ g \in Cue
  BY Rows DEF TopLevel
<1>2. /\ Top \in Place /\ g \in Place /\ g # Top
      /\ Range(u.row[Top]) = (TopLevel(t) \ {g}) \cup Range(t.row[g]) /\ Range(u.row[g]) = {}
      /\ \A p \in Place \ {Top, g} : Range(u.row[p]) = Range(t.row[p])
  BY <1>1, Rows
<1>3. \A p \in Place : p # Top => g \notin Range(t.row[p])
  BY <1>1, <1>2 DEF Once, Apart
<1>4. Listed(u) = Listed(t) \ {g}
  <2>1. \A p \in Place : Range(u.row[p]) \subseteq Listed(t) \ {g}
    <3>1. \A p \in Place : Range(t.row[p]) \subseteq Listed(t)
      BY Rows
    <3>2. g \notin Range(t.row[g])
      BY <1>2, <1>3
    <3>3. Range(u.row[Top]) \subseteq Listed(t) \ {g}
      BY <1>1, <1>2, <3>1, <3>2
    <3>4. \A p \in Place \ {Top, g} : Range(u.row[p]) \subseteq Listed(t) \ {g}
      BY <1>2, <1>3, <3>1
    <3> QED BY <1>2, <3>3, <3>4
  <2>2. \A p \in Place : Range(t.row[p]) \subseteq Listed(u) \cup {g}
    <3>1. \A p \in Place : Range(u.row[p]) \subseteq Listed(u)
      BY Rows
    <3>2. TopLevel(t) \cup Range(t.row[g]) \subseteq Range(u.row[Top]) \cup {g}
      BY <1>2
    <3> QED BY <1>1, <1>2, <3>1, <3>2
  <2>3. \A y \in Listed(u) : y \in Listed(t) \ {g}
    BY <2>1, Rows
  <2>4. \A y \in Listed(t) : y \in Listed(u) \cup {g}
    BY <2>2, Rows
  <2> QED BY <2>3, <2>4
<1>5. Apart(u)
  <2> SUFFICES ASSUME NEW q \in Place, NEW r \in Place, q # r,
                      NEW y \in Range(u.row[q]), y \in Range(u.row[r])
               PROVE  FALSE
    BY DEF Apart
  <2>1. \A p \in Place : y \in Range(u.row[p]) =>
          IF y \in Range(t.row[g]) THEN p = Top ELSE y \in Range(t.row[p])
    BY <1>1, <1>2 DEF Once, Apart
  <2> QED BY <2>1 DEF Once, Apart
<1>6. OnlyIn(u, G)
  BY <1>2, Rows DEF Once, OnlyIn
<1>7. ASSUME NEW S \in SUBSET Cue, TopLevel(u) \subseteq S, Closed(u, S)
      PROVE  Listed(u) \subseteq S
  <2>1. Range(t.row[g]) \subseteq S /\ TopLevel(t) \subseteq S \cup {g} /\ S \cup {g} \in SUBSET Cue
    BY <1>1, <1>2, <1>7 DEF TopLevel
  <2>2. Closed(t, S \cup {g})
    <3>1. ASSUME NEW z \in S \cup {g} PROVE Range(t.row[z]) \subseteq S \cup {g}
      <4>1. CASE z = g
        BY <2>1, <4>1
      <4>2. CASE z # g
        <5>1. z \in S /\ z \in Place \ {Top, g}
          BY <3>1, <4>2, Rows
        <5> QED BY <1>2, <1>7, <5>1 DEF Closed
      <4> QED BY <4>1, <4>2
    <3> QED BY <3>1 DEF Closed
  <2>3. Listed(t) \subseteq S \cup {g}
    BY <2>1, <2>2 DEF Once, Reached
  <2> QED BY <1>4, <2>3
<1> QED BY <1>4, <1>5, <1>6, <1>7 DEF Once, Reached

\* New cues N are added, A[p] to what p has, all of them reached.
Grafts(t, u, N, A) ==
  /\ A \in [Place -> SUBSET N]
  /\ \A p, q \in Place : p # q => A[p] \cap A[q] = {}
  /\ \A S \in SUBSET N : (\A p \in Listed(t) \cup {Top} \cup S : A[p] \subseteq S)
                         => \A p \in Place : A[p] \subseteq S
  /\ \A p \in Place : /\ IsInjective(u.row[p])
                      /\ Range(u.row[p]) = Range(t.row[p]) \cup A[p]

LEMMA GraftedKeeps ==
  ASSUME MaxCues \in Nat, NEW t \in Tree, NEW u \in Tree, NEW G, NEW H, Once(t, G), G \subseteq H,
         NEW N \in SUBSET (Cue \ Listed(t)), NEW A, Grafts(t, u, N, A),
         \A p \in Cue : A[p] # {} => p \in H
  PROVE  Once(u, H) /\ Listed(u) = Listed(t) \cup UNION {A[p] : p \in Place}
<1> USE DEF Grafts
<1>1. \A p \in Place : A[p] \subseteq N
  OBVIOUS
<1>2. Listed(u) = Listed(t) \cup UNION {A[p] : p \in Place}
  <2>1. \A y \in Listed(u) : y \in Listed(t) \cup UNION {A[p] : p \in Place}
    BY Rows
  <2>2. \A p \in Place : Range(u.row[p]) \subseteq Listed(u)
    BY Rows
  <2>3. \A p \in Place : Range(t.row[p]) \subseteq Listed(u) /\ A[p] \subseteq Listed(u)
    BY <2>2
  <2>4. \A y \in Listed(t) : y \in Listed(u)
    BY <2>3, Rows
  <2> QED BY <2>1, <2>3, <2>4
<1>3. Apart(u)
  <2> SUFFICES ASSUME NEW q \in Place, NEW r \in Place, q # r,
                      NEW y \in Range(u.row[q]), y \in Range(u.row[r])
               PROVE  FALSE
    BY DEF Apart
  <2>1. CASE y \in N
    <3>1. y \notin Range(t.row[q]) /\ y \notin Range(t.row[r])
      BY <2>1, Rows
    <3>2. y \in A[q] /\ y \in A[r]
      BY <3>1
    <3> QED BY <3>2
  <2>2. CASE y \notin N
    <3>1. y \in Range(t.row[q]) /\ y \in Range(t.row[r])
      BY <1>1, <2>2
    <3> QED BY <3>1 DEF Once, Apart
  <2> QED BY <2>1, <2>2
<1>4. OnlyIn(u, H)
  <2> SUFFICES ASSUME NEW q \in Cue, q \notin H PROVE Range(u.row[q]) = {}
    BY DEF OnlyIn
  <2>1. A[q] = {} /\ Range(t.row[q]) = {} /\ q \in Place
    BY Rows DEF Once, OnlyIn
  <2> QED BY <2>1
<1>5. ASSUME NEW S \in SUBSET Cue, TopLevel(u) \subseteq S, Closed(u, S)
      PROVE  Listed(u) \subseteq S
  <2>1. TopLevel(t) \subseteq S
    <3>1. Top \in Place
      BY Rows
    <3>2. Range(t.row[Top]) \subseteq Range(u.row[Top])
      BY <3>1
    <3> HIDE DEF Grafts
    <3> QED BY <1>5, <3>2 DEF TopLevel
  <2>2. Closed(t, S)
    <3>1. \A z \in S : z \in Place
      BY Rows
    <3>2. \A z \in S : Range(t.row[z]) \subseteq Range(u.row[z])
      BY <3>1
    <3> HIDE DEF Grafts
    <3> QED BY <1>5, <3>2 DEF Closed
  <2>3. Listed(t) \subseteq S
    BY <2>1, <2>2 DEF Once, Reached
  <2>4. ASSUME NEW p \in Listed(t) \cup {Top} \cup (S \cap N) PROVE A[p] \subseteq S \cap N
    <3>1. p \in Place /\ (p = Top \/ p \in S)
      BY <2>3, Rows
    <3>2. Range(u.row[p]) \subseteq S
      BY <1>5, <3>1 DEF Closed, TopLevel
    <3> QED BY <1>1, <3>1, <3>2
  <2>5. \A p \in Place : A[p] \subseteq S \cap N
    <3>1. S \cap N \in SUBSET N
      OBVIOUS
    <3> QED BY <2>4, <3>1
  <2> QED BY <1>2, <2>3, <2>5
<1> QED BY <1>2, <1>3, <1>4, <1>5 DEF Once, Reached

(***************************************************************************)
(* The edits                                                               *)
(***************************************************************************)
ParkedAtTop(t) == t.playhead \in TopLevel(t) \cup {NoCue}

LEMMA Without ==
  ASSUME MaxCues \in Nat, NEW t \in Tree, NEW S
  PROVE  /\ RowsWithout(t, S) \in [Place -> Seq(Cue)]
         /\ \A p \in Place :
              /\ RowsWithout(t, S)[p] = Among(t.row[p], Cue \ S)
              /\ RowsWithout(t, S)[p] \in Seq(Cue)
              /\ Range(RowsWithout(t, S)[p]) = Range(t.row[p]) \ S
              /\ IsInjective(t.row[p]) => IsInjective(RowsWithout(t, S)[p])
<1>1. ASSUME NEW p \in Place
      PROVE  /\ Among(t.row[p], Cue \ S) \in Seq(Cue)
             /\ Range(Among(t.row[p], Cue \ S)) = Range(t.row[p]) \ S
             /\ IsInjective(t.row[p]) => IsInjective(Among(t.row[p], Cue \ S))
  <2>1. t.row[p] \in Seq(Cue) /\ Range(t.row[p]) \subseteq Cue
    BY Rows
  <2>2. Range(t.row[p]) \cap (Cue \ S) = Range(t.row[p]) \ S
    BY <2>1
  <2> QED BY <2>1, <2>2, AmongLists
<1> QED BY <1>1 DEF RowsWithout

LEMMA OneCue ==
  ASSUME NEW X, NEW x \in X
  PROVE  <<x>> \in Seq(X) /\ Range(<<x>>) = {x} /\ IsInjective(<<x>>) /\ Len(<<x>>) = 1
<1>1. DOMAIN <<x>> = {1} /\ <<x>>[1] = x
  OBVIOUS
<1> QED BY <1>1 DEF Range, IsInjective

\* InsertAt puts x among the cues of s.
LEMMA InsertedOne ==
  ASSUME NEW X, NEW s \in Seq(X), NEW x \in X, NEW i \in 1 .. Len(s) + 1
  PROVE  /\ InsertAt(s, i, x) \in Seq(X) /\ Range(InsertAt(s, i, x)) = Range(s) \cup {x}
         /\ IsInjective(s) /\ x \notin Range(s) => IsInjective(InsertAt(s, i, x))
<1> DEFINE m == <<x>>
<1>1. m \in Seq(X) /\ Range(m) = {x} /\ IsInjective(m)
  BY OneCue
<1>2. InsertAt(s, i, x) = Inserted(s, m, i)
  BY DEF InsertAt, Inserted
<1> HIDE DEF m
<1> QED BY <1>1, <1>2, InsertLists

\* add_cue.
LEMMA PushedKeeps ==
  ASSUME MaxCues \in Nat, NEW t \in Tree, NEW G, NEW H, Once(t, G), G \subseteq H,
         NEW x \in Cue \ Listed(t), NEW i \in 1 .. Len(t.row[Top]) + 1
  PROVE  /\ Pushed(t, x, i) \in Tree /\ Once(Pushed(t, x, i), H)
         /\ Listed(Pushed(t, x, i)) = Listed(t) \cup {x}
         /\ ParkedAtTop(t) => ParkedAtTop(Pushed(t, x, i))
<1> DEFINE top == t.row[Top]
           u == Pushed(t, x, i)
<1>1. top \in Seq(Cue) /\ Top \in Place /\ x \in Place /\ x # Top /\ IsInjective(top)
      /\ Range(top) = TopLevel(t) /\ TopLevel(t) \subseteq Listed(t)
  BY Rows DEF Once, Apart, TopLevel
<1>2. /\ InsertAt(top, i, x) \in Seq(Cue) /\ Range(InsertAt(top, i, x)) = Range(top) \cup {x}
      /\ IsInjective(InsertAt(top, i, x))
  <2> HIDE DEF top
  <2>1. x \notin Range(top) /\ x \in Cue
    BY <1>1
  <2>2. i \in 1 .. Len(top) + 1
    BY DEF top
  <2> QED BY <1>1, <2>1, <2>2, InsertedOne
<1>3. u.row = [t.row EXCEPT ![Top] = InsertAt(top, i, x)]
      /\ u.playhead \in {x, t.playhead} /\ u = [row |-> u.row, playhead |-> u.playhead]
  BY DEF Pushed
<1> HIDE DEF u, top
<1>4. t.row \in [Place -> Seq(Cue)] /\ t.playhead \in Cue \cup {NoCue}
  BY Rows
<1>5. u.row \in [Place -> Seq(Cue)] /\ u.row[Top] = InsertAt(top, i, x)
      /\ \A p \in Place : p # Top => u.row[p] = t.row[p]
  BY <1>1, <1>2, <1>3, <1>4
<1>6. u \in Tree
  BY <1>3, <1>4, <1>5 DEF Tree
<1>7. Wraps(t, u, x, {})
  <2>1. Range(t.row[x]) = {}
    BY UnlistedAreBare
  <2> QED BY <1>1, <1>2, <1>5, <2>1 DEF Once, Apart, Wraps
<1>8. Once(u, H) /\ Listed(u) = Listed(t) \cup {x}
  <2>1. {} \in SUBSET TopLevel(t)
    OBVIOUS
  <2> QED BY <1>6, <1>7, <2>1, WrappedKeeps
<1>9. ParkedAtTop(t) => ParkedAtTop(u)
  BY <1>1, <1>2, <1>3, <1>5 DEF ParkedAtTop, TopLevel
<1> QED BY <1>6, <1>8, <1>9 DEF u

\* What is dropped with its subtrees is closed, and of the top only what was
\* chosen goes.
Trees(t, S) == UNION {Subtree(t, x) : x \in S}

LEMMA SubtreesOf ==
  ASSUME MaxCues \in Nat, NEW t \in Tree, NEW G, Once(t, G), NEW S \in SUBSET Listed(t)
  PROVE  /\ Trees(t, S) \in SUBSET Cue /\ Trees(t, S) \subseteq Listed(t)
         /\ S \subseteq Trees(t, S) /\ Closed(t, Trees(t, S))
         /\ TopLevel(t) \ Trees(t, S) = TopLevel(t) \ S
<1> DEFINE gone == UNION {Subtree(t, x) : x \in S}
<1>1. \A x \in S : x \in Cue /\ Subtree(t, x) \subseteq Listed(t)
  BY Rows, ListedIsClosed
<1>2. \A x \in S : x \in Subtree(t, x) /\ Closed(t, Subtree(t, x)) /\ Subtree(t, x) \subseteq Cue
  BY <1>1, SubtreeIsLeast
<1>3. Closed(t, gone)
  BY <1>2 DEF Closed
<1>4. \A y \in TopLevel(t) : y \in gone => y \in S
  BY <1>1, TopIsAbove
<1> QED BY <1>1, <1>2, <1>3, <1>4 DEF Trees

\* Rows that lose a closed set of cues.
LEMMA DroppingDrops ==
  ASSUME MaxCues \in Nat, NEW t \in Tree, NEW G, Once(t, G), NEW gone \in SUBSET Cue,
         NEW u, u.row = RowsDropping(t, gone)
  PROVE  u.row \in [Place -> Seq(Cue)] /\ Drops(t, u, gone)
<1>1. ASSUME NEW p \in Place
      PROVE  /\ u.row[p] \in Seq(Cue) /\ IsInjective(u.row[p])
             /\ Range(u.row[p]) = IF p \in gone THEN {} ELSE Range(t.row[p]) \ gone
  <2>1. u.row[p] = IF p \in gone THEN << >> ELSE RowsWithout(t, gone)[p]
    BY DEF RowsDropping
  <2>2. << >> \in Seq(Cue) /\ Range(<< >>) = {} /\ IsInjective(<< >>)
    BY DEF Range, IsInjective
  <2>3. /\ RowsWithout(t, gone)[p] \in Seq(Cue)
        /\ Range(RowsWithout(t, gone)[p]) = Range(t.row[p]) \ gone
        /\ IsInjective(RowsWithout(t, gone)[p])
    BY Without DEF Once, Apart
  <2> QED BY <2>1, <2>2, <2>3
<1>2. u.row = [p \in Place |-> u.row[p]]
  BY DEF RowsDropping
<1> QED BY <1>1, <1>2 DEF Drops

\* remove_cue and remove_cues.
LEMMA RemovedKeeps ==
  ASSUME MaxCues \in Nat, NEW t \in Tree, NEW G, Once(t, G), NEW S \in SUBSET Listed(t)
  PROVE  /\ Removed(t, S) \in Tree /\ Once(Removed(t, S), G)
         /\ Listed(Removed(t, S)) = Listed(t) \ UNION {Subtree(t, x) : x \in S}
         /\ ParkedAtTop(t) => ParkedAtTop(Removed(t, S))
<1> DEFINE gone == UNION {Subtree(t, x) : x \in S}
           u == Removed(t, S)
           top == t.row[Top]
           at == PositionIn(top, t.playhead)
           next == Among(SubSeq(top, at, Len(top)), Cue \ S)
<1>1. /\ gone \in SUBSET Cue /\ gone \subseteq Listed(t) /\ S \subseteq gone /\ Closed(t, gone)
      /\ TopLevel(t) \ gone = TopLevel(t) \ S
  <2>1. gone = Trees(t, S)
    BY DEF Trees
  <2> HIDE DEF gone
  <2> QED BY <2>1, SubtreesOf
<1>2. u.row = RowsDropping(t, gone) /\ u = [row |-> u.row, playhead |-> u.playhead]
      /\ u.playhead = IF t.playhead \notin S \cap TopLevel(t) THEN t.playhead
                      ELSE IF next # << >> THEN next[1]
                      ELSE IF u.row[Top] # << >> THEN Last(u.row[Top]) ELSE NoCue
  BY DEF Removed
<1>3. /\ top \in Seq(Cue) /\ Range(top) = TopLevel(t) /\ Top \in Place /\ Top \notin Cue
      /\ t.playhead \in Cue \cup {NoCue}
  BY Rows DEF TopLevel
<1> HIDE DEF u, gone, next
<1>4. u.row \in [Place -> Seq(Cue)] /\ Drops(t, u, gone)
  BY <1>1, <1>2, DroppingDrops
<1>5. TopLevel(u) = TopLevel(t) \ S /\ u.row[Top] \in Seq(Cue)
  BY <1>1, <1>3, <1>4 DEF Drops, TopLevel
<1>6. u.row[Top] # << >> => Last(u.row[Top]) \in TopLevel(u) /\ Last(u.row[Top]) \in Cue
  BY <1>5, Members DEF TopLevel
<1>7. ASSUME t.playhead \in TopLevel(t), next # << >>
      PROVE  next[1] \in TopLevel(u) /\ next[1] \in Cue
  <2>1. at \in 1 .. Len(top)
    BY <1>3, <1>7, Found
  <2> HIDE DEF at, top
  <2> DEFINE tail == SubSeq(top, at, Len(top))
  <2>2. tail \in Seq(Cue) /\ Range(tail) = {top[k] : k \in at .. Len(top)}
    <3>1. at \in 1 .. Len(top) + 1 /\ Len(top) \in 0 .. Len(top)
      BY <1>3, <2>1
    <3> QED BY <1>3, <3>1, CutLists
  <2>3. Range(tail) \subseteq TopLevel(t)
    <3>1. \A k \in at .. Len(top) : k \in DOMAIN top
      BY <1>3, <2>1
    <3> QED BY <1>3, <2>2, <3>1 DEF Range
  <2>4. next = Among(tail, Cue \ S)
    BY DEF next
  <2> HIDE DEF tail
  <2>5. next \in Seq(Cue) /\ Range(next) = Range(tail) \cap (Cue \ S)
    BY <2>2, <2>4, AmongLists
  <2>6. next[1] \in Range(next)
    BY <1>7, <2>5, Members
  <2> QED BY <1>5, <2>3, <2>5, <2>6
<1>8. u.playhead \in Cue \cup {NoCue}
  BY <1>2, <1>3, <1>6, <1>7
<1>9. u \in Tree
  BY <1>2, <1>4, <1>8 DEF Tree
<1>10. Once(u, G) /\ Listed(u) = Listed(t) \ gone
  BY <1>1, <1>4, <1>9, DroppedKeeps
<1>11. ASSUME ParkedAtTop(t) PROVE ParkedAtTop(u)
  BY <1>2, <1>5, <1>6, <1>7, <1>11 DEF ParkedAtTop
<1> QED BY <1>9, <1>10, <1>11 DEF u, gone

\* move_cue and move_before.
LEMMA MovedBeforeKeeps ==
  ASSUME MaxCues \in Nat, NEW t \in Tree, NEW G, Once(t, G),
         NEW ids \in Seq(TopLevel(t)), IsInjective(ids), NEW before
  PROVE  /\ MovedBefore(t, ids, before) \in Tree /\ Once(MovedBefore(t, ids, before), G)
         /\ Listed(MovedBefore(t, ids, before)) = Listed(t)
         /\ ParkedAtTop(t) => ParkedAtTop(MovedBefore(t, ids, before))
<1> DEFINE staying == RowsWithout(t, Range(ids))[Top]
           at == IF before \in Range(staying) THEN PositionIn(staying, before) ELSE Len(staying) + 1
           u == MovedBefore(t, ids, before)
<1>1. /\ Top \in Place /\ TopLevel(t) = Range(t.row[Top]) /\ TopLevel(t) \subseteq Cue
      /\ t.row \in [Place -> Seq(Cue)] /\ t = [row |-> t.row, playhead |-> t.playhead]
      /\ t.playhead \in Cue \cup {NoCue}
  BY Rows DEF TopLevel
<1>2. CASE before \in Range(ids)
  <2>1. u = t
    BY <1>2 DEF MovedBefore
  <2> HIDE DEF u
  <2>2. MovedBefore(t, ids, before) = t
    BY <2>1 DEF u
  <2> QED BY <2>2
<1>3. CASE before \notin Range(ids)
  <2>1. u = [t EXCEPT !.row[Top] = Inserted(staying, ids, at)]
    BY <1>3 DEF MovedBefore, Inserted
  <2>2. staying \in Seq(Cue) /\ Range(staying) = TopLevel(t) \ Range(ids) /\ IsInjective(staying)
    <3> HIDE DEF u, at
    <3> DEFINE I == Range(ids)
    <3>1. IsInjective(t.row[Top])
      BY <1>1 DEF Once, Apart
    <3>2. staying = RowsWithout(t, I)[Top]
      OBVIOUS
    <3> HIDE DEF I, staying
    <3>3. /\ RowsWithout(t, I)[Top] \in Seq(Cue) /\ IsInjective(RowsWithout(t, I)[Top])
          /\ Range(RowsWithout(t, I)[Top]) = Range(t.row[Top]) \ I
      BY <1>1, <3>1, Without
    <3> QED BY <1>1, <3>2, <3>3 DEF I
  <2> HIDE DEF staying
  <2>3. at \in 1 .. Len(staying) + 1
    <3>1. before \in Range(staying) => PositionIn(staying, before) \in 1 .. Len(staying)
      BY <2>2, Found
    <3>2. Len(staying) \in Nat
      BY <2>2
    <3> QED BY <3>1, <3>2
  <2> HIDE DEF at, u
  <2>4. ids \in Seq(Cue) /\ Range(ids) \subseteq TopLevel(t)
    BY <1>1, Members
  <2>5. /\ Inserted(staying, ids, at) \in Seq(Cue) /\ IsInjective(Inserted(staying, ids, at))
        /\ Range(Inserted(staying, ids, at)) = TopLevel(t)
    <3>1. /\ Inserted(staying, ids, at) \in Seq(Cue)
          /\ Range(Inserted(staying, ids, at)) = Range(staying) \cup Range(ids)
          /\ IsInjective(staying) /\ IsInjective(ids) /\ Range(staying) \cap Range(ids) = {}
               => IsInjective(Inserted(staying, ids, at))
      BY <2>2, <2>3, <2>4, InsertLists
    <3> QED BY <2>2, <2>4, <3>1
  <2>6. /\ u.row = [t.row EXCEPT ![Top] = Inserted(staying, ids, at)]
        /\ u = [row |-> u.row, playhead |-> t.playhead] /\ u.playhead = t.playhead
    BY <1>1, <2>1
  <2>7. u.row \in [Place -> Seq(Cue)] /\ Reorders(t, u)
    BY <1>1, <2>5, <2>6 DEF Reorders, Once, Apart
  <2>8. u \in Tree
    BY <1>1, <2>6, <2>7 DEF Tree
  <2>9. Once(u, G) /\ Listed(u) = Listed(t) /\ TopLevel(u) = TopLevel(t)
    BY <2>7, <2>8, ReorderedKeeps
  <2>10. ParkedAtTop(t) => ParkedAtTop(u)
    BY <2>6, <2>9 DEF ParkedAtTop
  <2> QED BY <2>8, <2>9, <2>10 DEF u
<1> QED BY <1>2, <1>3

\* The rows once the cues of S left them.
LEMMA Leaving ==
  ASSUME MaxCues \in Nat, NEW t \in Tree, NEW G, Once(t, G), NEW S
  PROVE  /\ RowsWithout(t, S) \in [Place -> Seq(Cue)]
         /\ \A p \in Place : /\ RowsWithout(t, S)[p] \in Seq(Cue)
                             /\ IsInjective(RowsWithout(t, S)[p])
                             /\ Range(RowsWithout(t, S)[p]) = Range(t.row[p]) \ S
BY Without DEF Once, Apart

\* A cue that is taken out of its row and put into row p.
LEMMA MovingMoves ==
  ASSUME MaxCues \in Nat, NEW t \in Tree, NEW G, Once(t, G), NEW x \in Cue, NEW p \in Place,
         NEW i \in 1 .. Len(RowsWithout(t, {x})[p]) + 1, NEW u,
         u.row = [RowsWithout(t, {x}) EXCEPT ![p] = InsertAt(RowsWithout(t, {x})[p], i, x)]
  PROVE  u.row \in [Place -> Seq(Cue)] /\ Moves(t, u, x, p)
<1> DEFINE row == RowsWithout(t, {x})
           new == InsertAt(row[p], i, x)
<1>1. /\ row \in [Place -> Seq(Cue)]
      /\ \A q \in Place : /\ row[q] \in Seq(Cue) /\ IsInjective(row[q])
                          /\ Range(row[q]) = Range(t.row[q]) \ {x}
  BY Leaving
<1>2. i \in 1 .. Len(row[p]) + 1 /\ u.row = [row EXCEPT ![p] = new]
  OBVIOUS
<1> HIDE DEF row
<1>3. new \in Seq(Cue) /\ IsInjective(new) /\ Range(new) = (Range(t.row[p]) \ {x}) \cup {x}
  <2>1. x \notin Range(row[p])
    BY <1>1
  <2> QED BY <1>1, <1>2, <2>1, InsertedOne
<1> HIDE DEF new
<1>4. u.row \in [Place -> Seq(Cue)] /\ u.row[p] = new /\ \A q \in Place : q # p => u.row[q] = row[q]
  BY <1>1, <1>2, <1>3
<1> QED BY <1>1, <1>3, <1>4 DEF Moves

LEMMA FirstOfTop ==
  ASSUME MaxCues \in Nat, NEW t \in Tree, NEW G, Once(t, G), NEW x
  PROVE  /\ FirstOf(RowsWithout(t, {x})[Top]) \in (TopLevel(t) \ {x}) \cup {NoCue}
         /\ PlayheadWithout(t, x) \in Cue \cup {NoCue}
         /\ ParkedAtTop(t) => PlayheadWithout(t, x) \in (TopLevel(t) \ {x}) \cup {NoCue}
<1> DEFINE top == RowsWithout(t, {x})[Top]
<1>1. Top \in Place /\ TopLevel(t) = Range(t.row[Top]) /\ TopLevel(t) \subseteq Cue
      /\ t.playhead \in Cue \cup {NoCue}
  BY Rows DEF TopLevel
<1>2. top \in Seq(Cue) /\ Range(top) = TopLevel(t) \ {x}
  <2> DEFINE row == RowsWithout(t, {x})
  <2>1. \A q \in Place : row[q] \in Seq(Cue) /\ Range(row[q]) = Range(t.row[q]) \ {x}
    BY Leaving
  <2> HIDE DEF row
  <2>2. row[Top] \in Seq(Cue) /\ Range(row[Top]) = TopLevel(t) \ {x}
    BY <1>1, <2>1
  <2> QED BY <2>2 DEF row
<1>3. PlayheadWithout(t, x) = IF t.playhead = x THEN FirstOf(top) ELSE t.playhead
  BY DEF PlayheadWithout
<1> HIDE DEF top
<1>4. FirstOf(top) \in (TopLevel(t) \ {x}) \cup {NoCue}
  BY <1>2, Members DEF FirstOf
<1>5. PlayheadWithout(t, x) \in Cue \cup {NoCue}
  BY <1>1, <1>3, <1>4
<1>6. ParkedAtTop(t) => PlayheadWithout(t, x) \in (TopLevel(t) \ {x}) \cup {NoCue}
  BY <1>3, <1>4 DEF ParkedAtTop
<1> QED BY <1>4, <1>5, <1>6 DEF top

\* move_to_top_level_before.
LEMMA MovedToTopLevelKeeps ==
  ASSUME MaxCues \in Nat, NEW t \in Tree, NEW G, Once(t, G), NEW x \in Listed(t), NEW before
  PROVE  /\ MovedToTopLevel(t, x, before) \in Tree /\ Once(MovedToTopLevel(t, x, before), G)
         /\ Listed(MovedToTopLevel(t, x, before)) = Listed(t)
         /\ ParkedAtTop(t) => ParkedAtTop(MovedToTopLevel(t, x, before))
<1> DEFINE row == RowsWithout(t, {x})
           at == IF before \in Range(row[Top]) THEN PositionIn(row[Top], before)
                 ELSE Len(row[Top]) + 1
           u == MovedToTopLevel(t, x, before)
<1>1. /\ Top \in Place /\ Top \notin Cue /\ TopLevel(t) = Range(t.row[Top]) /\ x \in Cue
  BY Rows DEF TopLevel
<1>2. /\ u.row = [row EXCEPT ![Top] = InsertAt(row[Top], at, x)]
      /\ u.playhead = PlayheadWithout(t, x) /\ u = [row |-> u.row, playhead |-> u.playhead]
  BY DEF MovedToTopLevel
<1> HIDE DEF u
<1>3. row[Top] \in Seq(Cue)
  BY <1>1, Leaving
<1>4. at \in 1 .. Len(row[Top]) + 1
  <2> HIDE DEF row
  <2>1. before \in Range(row[Top]) => PositionIn(row[Top], before) \in 1 .. Len(row[Top])
    BY <1>3, Found
  <2>2. Len(row[Top]) \in Nat
    BY <1>3
  <2> QED BY <2>1, <2>2
<1> HIDE DEF at
<1>5. u.row \in [Place -> Seq(Cue)] /\ Moves(t, u, x, Top)
  BY <1>1, <1>2, <1>4, MovingMoves
<1>6. u \in Tree
  BY <1>2, <1>5, FirstOfTop DEF Tree
<1>7. Top \notin Subtree(t, x)
  BY <1>1, SubtreeIsLeast
<1>8. Once(u, G) /\ Listed(u) = Listed(t)
  BY <1>1, <1>5, <1>6, <1>7, MovedKeeps
<1>9. TopLevel(u) = (TopLevel(t) \ {x}) \cup {x}
  BY <1>1, <1>5 DEF Moves, TopLevel
<1>10. ParkedAtTop(t) => ParkedAtTop(u)
  BY <1>2, <1>9, FirstOfTop DEF ParkedAtTop
<1> QED BY <1>6, <1>8, <1>10 DEF u

\* remove_from_group.
LEMMA TakenOutKeeps ==
  ASSUME MaxCues \in Nat, NEW t \in Tree, NEW G, Once(t, G), NEW g \in TopLevel(t),
         NEW x \in Range(t.row[g])
  PROVE  /\ TakenOutOfGroup(t, g, x) \in Tree /\ Once(TakenOutOfGroup(t, g, x), G)
         /\ Listed(TakenOutOfGroup(t, g, x)) = Listed(t)
         /\ ParkedAtTop(t) => ParkedAtTop(TakenOutOfGroup(t, g, x))
<1> DEFINE row == RowsWithout(t, {x})
           at == PositionIn(row[Top], g) + 1
           u == TakenOutOfGroup(t, g, x)
<1>1. /\ Top \in Place /\ Top \notin Cue /\ TopLevel(t) = Range(t.row[Top]) /\ TopLevel(t) \subseteq Cue
      /\ t.playhead \in Cue \cup {NoCue} /\ t = [row |-> t.row, playhead |-> t.playhead]
  BY Rows DEF TopLevel
<1>2. g \in Cue /\ g \in Place /\ x \in Listed(t) /\ x \in Cue
  BY <1>1, Rows
<1>3. x \notin TopLevel(t) /\ x # g
  BY <1>1, <1>2 DEF Once, Apart
<1>4. u = [t EXCEPT !.row = [row EXCEPT ![Top] = InsertAt(row[Top], at, x)]]
  BY DEF TakenOutOfGroup
<1>5. /\ u.row = [row EXCEPT ![Top] = InsertAt(row[Top], at, x)] /\ u.playhead = t.playhead
      /\ u = [row |-> u.row, playhead |-> u.playhead]
  <2> HIDE DEF row, at, u
  <2> QED BY <1>1, <1>4
<1> HIDE DEF u
<1>6. row[Top] \in Seq(Cue) /\ g \in Range(row[Top])
  <2>1. \A q \in Place : row[q] \in Seq(Cue) /\ Range(row[q]) = Range(t.row[q]) \ {x}
    BY Leaving
  <2> HIDE DEF row
  <2> QED BY <1>1, <1>3, <2>1
<1>7. at \in 1 .. Len(row[Top]) + 1
  <2> HIDE DEF row
  <2>1. PositionIn(row[Top], g) \in 1 .. Len(row[Top]) /\ Len(row[Top]) \in Nat
    BY <1>6, Found
  <2> QED BY <2>1
<1> HIDE DEF at
<1>8. u.row \in [Place -> Seq(Cue)] /\ Moves(t, u, x, Top)
  BY <1>1, <1>2, <1>5, <1>7, MovingMoves
<1>9. u \in Tree
  BY <1>1, <1>5, <1>8 DEF Tree
<1>10. Top \notin Subtree(t, x)
  BY <1>1, <1>2, SubtreeIsLeast
<1>11. Once(u, G) /\ Listed(u) = Listed(t)
  BY <1>1, <1>2, <1>8, <1>9, <1>10, MovedKeeps
<1>12. TopLevel(t) \subseteq TopLevel(u)
  BY <1>1, <1>3, <1>8 DEF Moves, TopLevel
<1>13. ParkedAtTop(t) => ParkedAtTop(u)
  BY <1>5, <1>12 DEF ParkedAtTop
<1> QED BY <1>9, <1>11, <1>13 DEF u

\* add_to_group: only a cue that goes into its own subtree is lost.
LEMMA MovedIntoGroupKeeps ==
  ASSUME MaxCues \in Nat, NEW t \in Tree, NEW G, Once(t, G), NEW x \in Listed(t),
         NEW g \in Listed(t) \cap G, NEW i \in Nat \ {0}
  PROVE  /\ MovedIntoGroup(t, x, g, i) \in Tree /\ Once(MovedIntoGroup(t, x, g, i), G)
         /\ Listed(MovedIntoGroup(t, x, g, i)) \subseteq Listed(t)
         /\ g \notin Subtree(t, x) => Listed(MovedIntoGroup(t, x, g, i)) = Listed(t)
         /\ ParkedAtTop(t) => ParkedAtTop(MovedIntoGroup(t, x, g, i))
<1> DEFINE row == RowsWithout(t, {x})
           at == IF i > Len(row[g]) THEN Len(row[g]) + 1 ELSE i
           u == MovedIntoGroup(t, x, g, i)
<1>1. /\ Top \in Place /\ Top \notin Cue /\ TopLevel(t) = Range(t.row[Top]) /\ x \in Cue
      /\ g \in Cue /\ g \in Place /\ g # Top
  BY Rows DEF TopLevel
<1>2. /\ u.row = IF g \in Subtree(t, x) THEN RowsDropping(t, Subtree(t, x))
                 ELSE [row EXCEPT ![g] = InsertAt(row[g], at, x)]
      /\ u.playhead = PlayheadWithout(t, x) /\ u = [row |-> u.row, playhead |-> u.playhead]
  BY DEF MovedIntoGroup
<1> HIDE DEF u
<1>3. CASE g \in Subtree(t, x)
  <2> DEFINE gone == Subtree(t, x)
  <2>1. gone \in SUBSET Cue /\ Closed(t, gone)
    BY <1>1, SubtreeIsLeast
  <2>2. u.row = RowsDropping(t, gone)
    BY <1>2, <1>3
  <2>3. TopLevel(t) \ gone = TopLevel(t) \ {x}
    <3>1. Trees(t, {x}) = Subtree(t, x) /\ {x} \in SUBSET Listed(t)
      BY DEF Trees
    <3> HIDE DEF gone
    <3>2. TopLevel(t) \ Trees(t, {x}) = TopLevel(t) \ {x}
      BY <3>1, SubtreesOf
    <3> QED BY <3>1, <3>2 DEF gone
  <2> HIDE DEF gone
  <2>4. u.row \in [Place -> Seq(Cue)] /\ Drops(t, u, gone)
    BY <2>1, <2>2, DroppingDrops
  <2>5. u \in Tree
    BY <1>2, <2>4, FirstOfTop DEF Tree
  <2>6. Once(u, G) /\ Listed(u) = Listed(t) \ gone
    BY <2>1, <2>4, <2>5, DroppedKeeps
  <2>7. TopLevel(u) = TopLevel(t) \ {x}
    BY <1>1, <2>1, <2>3, <2>4 DEF Drops, TopLevel
  <2>8. ParkedAtTop(t) => ParkedAtTop(u)
    BY <1>2, <2>7, FirstOfTop DEF ParkedAtTop
  <2> QED BY <1>3, <2>5, <2>6, <2>8 DEF u
<1>4. CASE g \notin Subtree(t, x)
  <2>1. at \in 1 .. Len(row[g]) + 1
    <3>1. row[g] \in Seq(Cue)
      BY <1>1, Leaving
    <3> HIDE DEF row
    <3>2. Len(row[g]) \in Nat
      BY <3>1
    <3> QED BY <3>2
  <2>2. u.row = [row EXCEPT ![g] = InsertAt(row[g], at, x)]
    BY <1>2, <1>4
  <2> HIDE DEF at
  <2>3. u.row \in [Place -> Seq(Cue)] /\ Moves(t, u, x, g)
    BY <1>1, <2>1, <2>2, MovingMoves
  <2>4. u \in Tree
    BY <1>2, <2>3, FirstOfTop DEF Tree
  <2>5. Once(u, G) /\ Listed(u) = Listed(t)
    BY <1>1, <1>4, <2>3, <2>4, MovedKeeps
  <2>6. TopLevel(u) = TopLevel(t) \ {x}
    BY <1>1, <2>3 DEF Moves, TopLevel
  <2>7. ParkedAtTop(t) => ParkedAtTop(u)
    BY <1>2, <2>6, FirstOfTop DEF ParkedAtTop
  <2> QED BY <2>4, <2>5, <2>7 DEF u
<1> QED BY <1>3, <1>4

LEMMA SmallestExists ==
  ASSUME NEW S \in SUBSET Nat, S # {}
  PROVE  \E x \in S : \A y \in S : ~(y < x)
<1>1. PICK x \in S : \A y \in S : <<y, x>> \notin OpToRel(<, Nat)
  <2>1. IsWellFoundedOn(OpToRel(<, Nat), Nat) /\ S \subseteq Nat
    BY NatLessThanWellFounded
  <2> QED BY <2>1, WFMin, Zenon
<1>2. \A y \in S : ~(y < x)
  BY <1>1 DEF OpToRel
<1> QED BY <1>2

\* group_cues: the group becomes a top-level cue with the selection below it.
LEMMA GroupedKeeps ==
  ASSUME MaxCues \in Nat, NEW t \in Tree, NEW G, NEW H, Once(t, G), G \subseteq H,
         NEW ids \in Seq(TopLevel(t)), IsInjective(ids), ids # << >>,
         NEW g \in Cue \ Listed(t), g \in H
  PROVE  /\ Grouped(t, ids, g) \in Tree /\ Once(Grouped(t, ids, g), H)
         /\ Listed(t) \subseteq Listed(Grouped(t, ids, g))
         /\ Listed(Grouped(t, ids, g)) \subseteq Listed(t) \cup {g}
         /\ ParkedAtTop(t) /\ t.playhead \notin Range(ids) => ParkedAtTop(Grouped(t, ids, g))
<1> DEFINE I == Range(ids)
           top == t.row[Top]
           row == RowsWithout(t, I)
           IsFirst(i) == top[i] \in I /\ \A j \in 1 .. i - 1 : top[j] \notin I
           first == CHOOSE i \in DOMAIN top : IsFirst(i)
           u == Grouped(t, ids, g)
<1>1. /\ Top \in Place /\ Top \notin Cue /\ top \in Seq(Cue) /\ TopLevel(t) = Range(top)
      /\ TopLevel(t) \subseteq Cue /\ TopLevel(t) \subseteq Listed(t) /\ g \in Place /\ g # Top
      /\ t.playhead \in Cue \cup {NoCue} /\ t = [row |-> t.row, playhead |-> t.playhead]
  BY Rows DEF TopLevel
<1>2. ids \in Seq(Cue) /\ I \in SUBSET TopLevel(t) /\ I # {}
  BY <1>1, Members
<1>3. u = [t EXCEPT !.row = [row EXCEPT ![Top] = InsertAt(row[Top], first, g), ![g] = ids]]
  <2>1. u = [t EXCEPT !.row = [row EXCEPT ![Top] = InsertAt(@, first, g), ![g] = ids]]
    BY DEF Grouped
  <2>2. row \in [Place -> Seq(Cue)]
    BY Leaving
  <2> HIDE DEF row, u, first
  <2> QED BY <2>1, <2>2, <1>1
<1>4. /\ row \in [Place -> Seq(Cue)]
      /\ \A p \in Place : /\ row[p] \in Seq(Cue) /\ IsInjective(row[p])
                          /\ Range(row[p]) = Range(t.row[p]) \ I
  <2> HIDE DEF I, u, first
  <2> QED BY Leaving
<1>5. first \in DOMAIN top /\ IsFirst(first)
  <2> DEFINE C == {i \in DOMAIN top : top[i] \in I}
  <2>1. C \in SUBSET Nat /\ DOMAIN top = 1 .. Len(top) /\ Len(top) \in Nat
    BY <1>1
  <2>2. C # {}
    <3>1. PICK y \in I : y \in Range(top)
      BY <1>1, <1>2
    <3> HIDE DEF I
    <3> QED BY <3>1 DEF Range
  <2>3. PICK i \in C : \A j \in C : ~(j < i)
    <3> HIDE DEF C
    <3> QED BY <2>1, <2>2, SmallestExists
  <2>4. i \in DOMAIN top /\ IsFirst(i)
    <3>1. \A j \in 1 .. i - 1 : j \in DOMAIN top /\ j < i
      BY <2>1
    <3> QED BY <2>3, <3>1
  <2> HIDE DEF IsFirst
  <2> QED BY <2>4
<1> HIDE DEF u, first
<1>6. first \in 1 .. Len(row[Top]) + 1
  <2> DEFINE k == first - 1
  <2>1. k \in 0 .. Len(top) /\ Len(top) \in Nat /\ first \in 1 .. Len(top)
    BY <1>1, <1>5
  <2>2. \A j \in 1 .. k : top[j] \in Cue \ I
    <3>1. \A j \in 1 .. k : j \in 1 .. Len(top)
      BY <2>1
    <3> QED BY <1>1, <1>5, <3>1
  <2>3. row[Top] = Among(top, Cue \ I)
    BY <1>1 DEF RowsWithout
  <2>4. Len(row[Top]) \in Nat
    BY <1>1, <1>4
  <2>5. Len(Among(top, Cue \ I)) >= k
    <3> HIDE DEF I, row, k, top
    <3> QED BY <1>1, <2>1, <2>2, AmongLists
  <2> HIDE DEF row, I, top
  <2> QED BY <2>1, <2>3, <2>4, <2>5
<1> HIDE DEF row, I, top, IsFirst
<1>7. /\ InsertAt(row[Top], first, g) \in Seq(Cue) /\ IsInjective(InsertAt(row[Top], first, g))
      /\ Range(InsertAt(row[Top], first, g)) = (TopLevel(t) \ I) \cup {g}
  <2>1. g \in Cue /\ g \notin Range(row[Top]) /\ Range(row[Top]) = TopLevel(t) \ I
    BY <1>1, <1>4 DEF top
  <2> QED BY <1>1, <1>4, <1>6, <2>1, InsertedOne
<1> DEFINE new == InsertAt(row[Top], first, g)
<1>8. /\ u.row = [row EXCEPT ![Top] = new, ![g] = ids] /\ u.playhead = t.playhead
      /\ u = [row |-> u.row, playhead |-> u.playhead]
  BY <1>1, <1>3
<1> HIDE DEF new
<1>9. /\ u.row \in [Place -> Seq(Cue)] /\ u.row[Top] = new /\ u.row[g] = ids
      /\ \A p \in Place : p # Top /\ p # g => u.row[p] = row[p]
  BY <1>1, <1>2, <1>4, <1>7, <1>8 DEF new
<1>10. u \in Tree
  BY <1>1, <1>8, <1>9 DEF Tree
<1>11. Wraps(t, u, g, I)
  <2>1. ASSUME NEW p \in Place, p # Top, p # g
        PROVE  IsInjective(u.row[p]) /\ Range(u.row[p]) = Range(t.row[p])
    <3>1. Range(t.row[p]) \cap Range(t.row[Top]) = {}
      BY <1>1, <2>1 DEF Once, Apart
    <3>2. Range(t.row[p]) \ I = Range(t.row[p])
      BY <1>2, <3>1 DEF TopLevel
    <3>3. u.row[p] = row[p]
      BY <1>9, <2>1
    <3>4. IsInjective(row[p]) /\ Range(row[p]) = Range(t.row[p]) \ I
      BY <1>4
    <3> QED BY <3>2, <3>3, <3>4
  <2>2. IsInjective(u.row[Top]) /\ Range(u.row[Top]) = (TopLevel(t) \ I) \cup {g}
    BY <1>7, <1>9 DEF new
  <2>3. IsInjective(u.row[g]) /\ Range(u.row[g]) = I
    BY <1>9 DEF I
  <2> QED BY <1>1, <2>1, <2>2, <2>3 DEF Wraps
<1>12. Once(u, H) /\ Listed(u) = Listed(t) \cup {g}
  BY <1>2, <1>10, <1>11, WrappedKeeps
<1>13. TopLevel(u) = (TopLevel(t) \ I) \cup {g}
  BY <1>7, <1>9 DEF new, TopLevel
<1>14. ParkedAtTop(t) /\ t.playhead \notin I => ParkedAtTop(u)
  BY <1>8, <1>13 DEF ParkedAtTop
<1> QED BY <1>10, <1>12, <1>14 DEF u, I

\* ungroup.
LEMMA UngroupedKeeps ==
  ASSUME MaxCues \in Nat, NEW t \in Tree, NEW G, Once(t, G), NEW g \in TopLevel(t)
  PROVE  /\ Ungrouped(t, g) \in Tree /\ Once(Ungrouped(t, g), G)
         /\ Listed(Ungrouped(t, g)) = Listed(t) \ {g}
         /\ ParkedAtTop(t) => ParkedAtTop(Ungrouped(t, g))
<1> DEFINE top == t.row[Top]
           at == PositionIn(top, g)
           new == Replaced(top, t.row[g], at)
           u == Ungrouped(t, g)
<1>1. /\ Top \in Place /\ Top \notin Cue /\ top \in Seq(Cue) /\ TopLevel(t) = Range(top)
      /\ g \in Cue /\ g \in Place /\ t.row[g] \in Seq(Cue) /\ t.row \in [Place -> Seq(Cue)]
      /\ t.playhead \in Cue \cup {NoCue}
  BY Rows DEF TopLevel
<1>2. /\ u.row = [t.row EXCEPT ![Top] = new, ![g] = << >>]
      /\ u.playhead = IF t.playhead = g THEN FirstOf(t.row[g]) ELSE t.playhead
      /\ u = [row |-> u.row, playhead |-> u.playhead]
  BY DEF Ungrouped, Replaced
<1>3. at \in 1 .. Len(top) /\ top[at] = g
  <2> HIDE DEF top
  <2> QED BY <1>1, Found
<1>4. IsInjective(top) /\ IsInjective(t.row[g]) /\ Range(top) \cap Range(t.row[g]) = {}
  BY <1>1 DEF Once, Apart
<1> HIDE DEF u, at, top
<1>5. /\ new \in Seq(Cue) /\ IsInjective(new)
      /\ Range(new) = (TopLevel(t) \ {g}) \cup Range(t.row[g])
  BY <1>1, <1>3, <1>4, ReplaceLists
<1> HIDE DEF new
<1>6. << >> \in Seq(Cue) /\ Range(<< >>) = {} /\ IsInjective(<< >>)
  BY DEF Range, IsInjective
<1>7. /\ u.row \in [Place -> Seq(Cue)] /\ u.row[Top] = new /\ u.row[g] = << >>
      /\ \A p \in Place : p # Top /\ p # g => u.row[p] = t.row[p]
  BY <1>1, <1>2, <1>5, <1>6
<1>8. FirstOf(t.row[g]) \in Range(t.row[g]) \cup {NoCue} /\ Range(t.row[g]) \subseteq Cue
  BY <1>1, Members DEF FirstOf
<1>9. u \in Tree
  BY <1>1, <1>2, <1>7, <1>8 DEF Tree
<1>10. Unwraps(t, u, g)
  BY <1>1, <1>5, <1>6, <1>7 DEF Unwraps, Once, Apart
<1>11. Once(u, G) /\ Listed(u) = Listed(t) \ {g}
  BY <1>9, <1>10, UnwrappedKeeps
<1>12. TopLevel(u) = (TopLevel(t) \ {g}) \cup Range(t.row[g])
  BY <1>5, <1>7 DEF TopLevel
<1>13. ParkedAtTop(t) => ParkedAtTop(u)
  BY <1>2, <1>8, <1>12 DEF ParkedAtTop
<1> QED BY <1>9, <1>11, <1>13 DEF u

\* set_playhead parks on a top-level cue.
LEMMA ParkedIsAtTop ==
  ASSUME MaxCues \in Nat, NEW t \in Tree, NEW G, Once(t, G), NEW x \in Listed(t) \cup {NoCue}
  PROVE  Parked(t, x) \in TopLevel(t) \cup {NoCue}
<1>1. CASE x = NoCue \/ x \in TopLevel(t)
  BY <1>1 DEF Parked
<1>2. CASE ~(x = NoCue \/ x \in TopLevel(t))
  <2>1. \E a \in TopLevel(t) : x \in Subtree(t, a)
    BY <1>2, ReachedFromTop DEF Once
  <2> QED BY <1>2, <2>1 DEF Parked
<1> QED BY <1>1, <1>2

\* restore_snapshot changes at most the Playhead.
LEMMA RestoredKeeps ==
  ASSUME MaxCues \in Nat, NEW t \in Tree
  PROVE  /\ Restored(t) \in Tree /\ ParkedAtTop(Restored(t)) /\ Listed(Restored(t)) = Listed(t)
         /\ \A G : Once(t, G) => Once(Restored(t), G)
<1>1. Restored(t).row = t.row /\ Restored(t) \in Tree /\ TopLevel(Restored(t)) = TopLevel(t)
      /\ ParkedAtTop(Restored(t))
  BY Rows DEF Restored, Tree, TopLevel, ParkedAtTop
<1>2. Listed(Restored(t)) = Listed(t)
  BY <1>1 DEF Listed
<1>3. \A G : Once(t, G) => Once(Restored(t), G)
  BY <1>1, <1>2 DEF Once, Apart, OnlyIn, Reached, Closed
<1> QED BY <1>1, <1>2, <1>3

\* A list without cues.
LEMMA EmptyKeeps ==
  ASSUME MaxCues \in Nat, NEW G
  PROVE  EmptyTree \in Tree /\ Once(EmptyTree, G) /\ Listed(EmptyTree) = {} /\ ParkedAtTop(EmptyTree)
<1>1. << >> \in Seq(Cue) /\ Range(<< >>) = {} /\ IsInjective(<< >>)
  BY DEF Range, IsInjective
<1>2. /\ EmptyTree \in Tree /\ EmptyTree.playhead = NoCue
      /\ \A p \in Place : EmptyTree.row[p] = << >>
  BY DEF EmptyTree, Tree
<1>3. Listed(EmptyTree) = {}
  BY <1>1, <1>2 DEF Listed
<1>4. Once(EmptyTree, G)
  BY <1>1, <1>2, <1>3, Rows DEF Once, Apart, OnlyIn, Reached
<1> QED BY <1>2, <1>3, <1>4 DEF ParkedAtTop

\* A row with copies: the cue of ids[k] is followed by the new cue n + k.
Pair(y, ids, n) == IF y \in Range(ids) THEN <<y, n + PositionIn(ids, y)>> ELSE <<y>>
WithCopies(s, ids, n) == FlattenSeq([i \in DOMAIN s |-> Pair(s[i], ids, n)])
CopyOf(y, ids, n) == IF y \in Range(ids) THEN {n + PositionIn(ids, y)} ELSE {}
CopiesOf(s, ids, n) == UNION {CopyOf(y, ids, n) : y \in Range(s)}

LEMMA CopyIsNew ==
  ASSUME NEW ids \in Seq(Cue), MaxCues \in Nat, NEW n \in Nat, n + Len(ids) <= MaxCues, NEW y
  PROVE  /\ CopyOf(y, ids, n) \subseteq n + 1 .. n + Len(ids)
         /\ n + 1 .. n + Len(ids) \subseteq Cue
         /\ \A z : CopyOf(y, ids, n) \cap CopyOf(z, ids, n) # {} => y = z
<1>1. Len(ids) \in Nat
  OBVIOUS
<1>2. \A z \in Range(ids) : PositionIn(ids, z) \in 1 .. Len(ids) /\ ids[PositionIn(ids, z)] = z
  BY Found
<1>3. \A z \in Range(ids) : PositionIn(ids, z) \in Nat
  BY <1>1, <1>2
<1>4. CopyOf(y, ids, n) \subseteq n + 1 .. n + Len(ids)
  BY <1>1, <1>2, <1>3 DEF CopyOf
<1>5. n + 1 .. n + Len(ids) \subseteq Cue
  BY <1>1 DEF Cue
<1>6. ASSUME NEW z, NEW k \in CopyOf(y, ids, n), k \in CopyOf(z, ids, n) PROVE y = z
  <2>1. y \in Range(ids) /\ z \in Range(ids) /\ k = n + PositionIn(ids, y) /\ k = n + PositionIn(ids, z)
    BY <1>6 DEF CopyOf
  <2>2. PositionIn(ids, y) = PositionIn(ids, z)
    BY <1>3, <2>1
  <2> QED BY <1>2, <2>1, <2>2
<1>7. \A z : CopyOf(y, ids, n) \cap CopyOf(z, ids, n) # {} => y = z
  BY <1>6
<1> QED BY <1>4, <1>5, <1>7

LEMMA PairLists ==
  ASSUME NEW ids \in Seq(Cue), MaxCues \in Nat, NEW n \in Nat, n + Len(ids) <= MaxCues,
         NEW y \in Cue, y \notin n + 1 .. n + Len(ids)
  PROVE  /\ Pair(y, ids, n) \in Seq(Cue) /\ IsInjective(Pair(y, ids, n))
         /\ Range(Pair(y, ids, n)) = {y} \cup CopyOf(y, ids, n)
<1>1. CASE y \notin Range(ids)
  <2>1. Pair(y, ids, n) = <<y>> /\ CopyOf(y, ids, n) = {}
    BY <1>1 DEF Pair, CopyOf
  <2> QED BY <2>1, OneCue
<1>2. CASE y \in Range(ids)
  <2> DEFINE k == n + PositionIn(ids, y)
  <2>1. Pair(y, ids, n) = <<y, k>> /\ CopyOf(y, ids, n) = {k}
    BY <1>2 DEF Pair, CopyOf
  <2>2. k \in Cue /\ k # y
    BY <2>1, CopyIsNew
  <2> HIDE DEF k
  <2>3. DOMAIN <<y, k>> = {1, 2} /\ <<y, k>>[1] = y /\ <<y, k>>[2] = k /\ <<y, k>> \in Seq(Cue)
    BY <2>2
  <2>4. Range(<<y, k>>) = {y, k} /\ IsInjective(<<y, k>>)
    BY <2>2, <2>3 DEF Range, IsInjective
  <2> QED BY <2>1, <2>3, <2>4
<1> QED BY <1>1, <1>2

LEMMA CopiesLists ==
  ASSUME NEW ids \in Seq(Cue), MaxCues \in Nat, NEW n \in Nat, n + Len(ids) <= MaxCues,
         NEW s \in Seq(Cue), IsInjective(s), Range(s) \cap (n + 1 .. n + Len(ids)) = {}
  PROVE  /\ WithCopies(s, ids, n) \in Seq(Cue) /\ IsInjective(WithCopies(s, ids, n))
         /\ Range(WithCopies(s, ids, n)) = Range(s) \cup CopiesOf(s, ids, n)
<1> DEFINE ss == [i \in DOMAIN s |-> Pair(s[i], ids, n)]
<1>1. Len(s) \in Nat /\ DOMAIN s = 1 .. Len(s) /\ DOMAIN ss = DOMAIN s
  OBVIOUS
<1>2. \A i \in DOMAIN s : s[i] \in Range(s) /\ s[i] \in Cue
  BY DEF Range
<1>3. ASSUME NEW i \in DOMAIN s
      PROVE  /\ ss[i] \in Seq(Cue) /\ IsInjective(ss[i])
             /\ Range(ss[i]) = {s[i]} \cup CopyOf(s[i], ids, n)
  <2>1. s[i] \notin n + 1 .. n + Len(ids)
    BY <1>2
  <2> QED BY <1>2, <2>1, PairLists
<1>4. ss \in Seq(Seq(Cue))
  BY <1>1, <1>3
<1>5. ASSUME NEW i \in DOMAIN ss, NEW j \in DOMAIN ss, i # j
      PROVE  Range(ss[i]) \cap Range(ss[j]) = {}
  <2>1. s[i] # s[j]
    BY <1>5 DEF IsInjective
  <2>2. /\ CopyOf(s[i], ids, n) \subseteq n + 1 .. n + Len(ids)
        /\ CopyOf(s[j], ids, n) \subseteq n + 1 .. n + Len(ids)
        /\ CopyOf(s[i], ids, n) \cap CopyOf(s[j], ids, n) = {}
    BY <2>1, CopyIsNew
  <2>3. s[i] \notin n + 1 .. n + Len(ids) /\ s[j] \notin n + 1 .. n + Len(ids)
    BY <1>2
  <2>4. /\ Range(ss[i]) = {s[i]} \cup CopyOf(s[i], ids, n)
        /\ Range(ss[j]) = {s[j]} \cup CopyOf(s[j], ids, n)
    BY <1>1, <1>3
  <2> DEFINE new == n + 1 .. n + Len(ids)
  <2>5. /\ CopyOf(s[i], ids, n) \subseteq new /\ CopyOf(s[j], ids, n) \subseteq new
        /\ s[i] \notin new /\ s[j] \notin new
    BY <2>2, <2>3
  <2> HIDE DEF ss, new
  <2> QED BY <2>1, <2>2, <2>4, <2>5
<1>6. WithCopies(s, ids, n) = FlattenSeq(ss)
  BY DEF WithCopies
<1> HIDE DEF ss
<1>7. /\ FlattenSeq(ss) \in Seq(Cue) /\ Range(FlattenSeq(ss)) = UNION {Range(ss[i]) : i \in DOMAIN ss}
      /\ IsInjective(FlattenSeq(ss))
  <2>1. \A i \in DOMAIN ss : IsInjective(ss[i])
    BY <1>1, <1>3
  <2> QED BY <1>4, <1>5, <2>1, FlattenLists
<1>8. UNION {Range(ss[i]) : i \in DOMAIN ss} = Range(s) \cup CopiesOf(s, ids, n)
  <2> DEFINE U == UNION {Range(ss[i]) : i \in DOMAIN ss}
  <2>1. ASSUME NEW y \in U PROVE y \in Range(s) \cup CopiesOf(s, ids, n)
    <3>1. PICK i \in DOMAIN ss : y \in Range(ss[i])
      BY <2>1
    <3>2. y \in {s[i]} \cup CopyOf(s[i], ids, n) /\ s[i] \in Range(s)
      BY <1>1, <1>2, <1>3, <3>1
    <3> QED BY <3>2 DEF CopiesOf
  <2>2. ASSUME NEW z \in Range(s) PROVE {z} \cup CopyOf(z, ids, n) \subseteq U
    <3>1. PICK i \in DOMAIN s : z = s[i]
      BY DEF Range
    <3>2. Range(ss[i]) = {z} \cup CopyOf(z, ids, n) /\ i \in DOMAIN ss
      BY <1>1, <1>3, <3>1
    <3> QED BY <3>2
  <2> HIDE DEF U
  <2>3. Range(s) \cup CopiesOf(s, ids, n) \subseteq U
    BY <2>2 DEF CopiesOf
  <2>4. U = Range(s) \cup CopiesOf(s, ids, n)
    BY <2>1, <2>3
  <2> QED BY <2>4 DEF U
<1> QED BY <1>6, <1>7, <1>8

\* duplicate_cue and duplicate_cues: every cue stays where it is, and cues without
\* children are copied once.
LEMMA DuplicatedKeeps ==
  ASSUME MaxCues \in Nat, NEW t \in Tree, NEW G, NEW H, Once(t, G), G \subseteq H,
         NEW ids \in Seq(Listed(t)), NEW n \in Nat, n + Len(ids) <= MaxCues, Listed(t) \subseteq 1 .. n
  PROVE  /\ Duplicated(t, ids, n) \in Tree
         /\ Listed(t) \subseteq Listed(Duplicated(t, ids, n))
         /\ Listed(Duplicated(t, ids, n)) \subseteq 1 .. n + Len(ids)
         /\ (\A x \in Range(ids) : t.row[x] = << >>) => Once(Duplicated(t, ids, n), H)
         /\ ParkedAtTop(t) => ParkedAtTop(Duplicated(t, ids, n))
<1> DEFINE u == Duplicated(t, ids, n)
           N == n + 1 .. n + Len(ids)
           A == [p \in Place |-> CopiesOf(t.row[p], ids, n)]
<1>1. /\ Top \in Place /\ Top \notin Cue /\ Cue \subseteq Place /\ Listed(t) \subseteq Cue
      /\ \A p \in Place : t.row[p] \in Seq(Cue) /\ Range(t.row[p]) \subseteq Listed(t)
                          /\ IsInjective(t.row[p])
      /\ t.playhead \in Cue \cup {NoCue} /\ t = [row |-> t.row, playhead |-> t.playhead]
      /\ \A p \in Place : p = Top \/ p \in Cue
      /\ \A x \in Listed(t) : \E p \in Place : x \in Range(t.row[p])
  BY Rows DEF Once, Apart
<1>2. ids \in Seq(Cue) /\ Len(ids) \in Nat /\ Range(ids) \subseteq Listed(t)
  BY <1>1, Members
<1>3. N \subseteq Cue /\ N \cap Listed(t) = {} /\ Top \notin N /\ N \cup (1 .. n) = 1 .. n + Len(ids)
  <2>1. N \cap (1 .. n) = {} /\ N \subseteq Cue /\ N \cup (1 .. n) = 1 .. n + Len(ids)
    BY <1>2 DEF Cue
  <2> QED BY <1>1, <2>1
<1>4. \A p \in N : Range(t.row[p]) = {} /\ A[p] = {}
  <2>1. \A p \in N : Range(t.row[p]) = {} /\ p \in Place
    BY <1>1, <1>3, UnlistedAreBare
  <2> QED BY <2>1 DEF CopiesOf
<1>5. u = [t EXCEPT !.row = [p \in Place |-> IF p \in N THEN t.row[ids[p - n]]
                                              ELSE WithCopies(t.row[p], ids, n)]]
  BY DEF Duplicated, WithCopies, Pair
<1>6. /\ u.playhead = t.playhead /\ u = [row |-> u.row, playhead |-> u.playhead]
      /\ u.row = [p \in Place |-> IF p \in N THEN t.row[ids[p - n]]
                                   ELSE WithCopies(t.row[p], ids, n)]
  BY <1>1, <1>5
<1> HIDE DEF u
<1>7. \A p \in N : ids[p - n] \in Range(ids) /\ ids[p - n] \in Place
  <2>1. \A p \in N : p - n \in DOMAIN ids
    BY <1>2
  <2>2. \A p \in N : ids[p - n] \in Range(ids)
    BY <2>1 DEF Range
  <2> QED BY <1>1, <1>2, <2>2
<1>8. \A p \in N : u.row[p] \in Seq(Cue) /\ Range(u.row[p]) \subseteq Listed(t)
  BY <1>1, <1>3, <1>6, <1>7
<1>9. \A p \in Place \ N : /\ u.row[p] \in Seq(Cue) /\ IsInjective(u.row[p])
                           /\ Range(u.row[p]) = Range(t.row[p]) \cup A[p]
  <2> SUFFICES ASSUME NEW p \in Place \ N
               PROVE  /\ u.row[p] \in Seq(Cue) /\ IsInjective(u.row[p])
                      /\ Range(u.row[p]) = Range(t.row[p]) \cup A[p]
    OBVIOUS
  <2> DEFINE s == t.row[p]
  <2>1. s \in Seq(Cue) /\ IsInjective(s) /\ Range(s) \cap N = {}
    BY <1>1, <1>3
  <2>2. u.row[p] = WithCopies(s, ids, n) /\ A[p] = CopiesOf(s, ids, n)
    BY <1>6
  <2> HIDE DEF s, A
  <2>3. /\ WithCopies(s, ids, n) \in Seq(Cue) /\ IsInjective(WithCopies(s, ids, n))
        /\ Range(WithCopies(s, ids, n)) = Range(s) \cup CopiesOf(s, ids, n)
    BY <1>2, <2>1, CopiesLists
  <2> QED BY <2>2, <2>3 DEF s
<1>10. u.row \in [Place -> Seq(Cue)]
  <2>1. \A p \in Place : u.row[p] \in Seq(Cue)
    BY <1>8, <1>9
  <2> QED BY <1>6, <2>1
<1>11. u \in Tree
  BY <1>1, <1>6, <1>10 DEF Tree
<1>12. \A y : CopyOf(y, ids, n) \subseteq N
  BY <1>2, CopyIsNew
<1>13. \A p \in Place : A[p] \subseteq N
  BY <1>12 DEF CopiesOf
<1> HIDE DEF N
<1>14. Listed(u) \subseteq 1 .. n + Len(ids)
  <2>1. \A p \in Place : Range(u.row[p]) \subseteq Listed(t) \cup N
    BY <1>1, <1>8, <1>9, <1>13
  <2> QED BY <1>3, <2>1 DEF Listed
<1>15. Listed(t) \subseteq Listed(u)
  <2> SUFFICES ASSUME NEW x \in Listed(t) PROVE x \in Listed(u)
    OBVIOUS
  <2>1. PICK p \in Place : x \in Range(t.row[p])
    BY <1>1
  <2>2. p \notin N
    BY <1>4, <2>1
  <2>3. x \in Range(u.row[p])
    BY <1>9, <2>1, <2>2
  <2> QED BY <2>1, <2>3 DEF Listed
<1>16. ASSUME \A x \in Range(ids) : t.row[x] = << >> PROVE Once(u, H)
  <2>1. \A p \in N : u.row[p] = << >>
    BY <1>1, <1>3, <1>6, <1>7, <1>16
  <2>2. \A p \in N : IsInjective(u.row[p]) /\ Range(u.row[p]) = Range(t.row[p]) \cup A[p]
    <3>1. Range(<< >>) = {} /\ IsInjective(<< >>)
      BY DEF Range, IsInjective
    <3> QED BY <1>4, <2>1, <3>1
  <2>3. \A p \in Place : IsInjective(u.row[p]) /\ Range(u.row[p]) = Range(t.row[p]) \cup A[p]
    BY <1>9, <2>2
  <2>4. A \in [Place -> SUBSET N]
    BY <1>13
  <2>5. ASSUME NEW p \in Place, NEW q \in Place, p # q, NEW k \in A[p], k \in A[q] PROVE FALSE
    <3>1. PICK y \in Range(t.row[p]) : k \in CopyOf(y, ids, n)
      BY DEF CopiesOf
    <3>2. PICK z \in Range(t.row[q]) : k \in CopyOf(z, ids, n)
      BY <2>5 DEF CopiesOf
    <3>3. y = z
      BY <1>2, <3>1, <3>2, CopyIsNew
    <3> QED BY <2>5, <3>3 DEF Once, Apart
  <2>6. ASSUME NEW S \in SUBSET N, \A p \in Listed(t) \cup {Top} \cup S : A[p] \subseteq S,
               NEW p \in Place
        PROVE  A[p] \subseteq S
    <3>1. CASE p \in Listed(t) \cup {Top}
      BY <2>6, <3>1
    <3>2. CASE p \notin Listed(t) \cup {Top}
      <4>1. Range(t.row[p]) = {}
        BY <1>1, <3>2, UnlistedAreBare
      <4> QED BY <4>1 DEF CopiesOf
    <3> QED BY <3>1, <3>2
  <2>7. Grafts(t, u, N, A)
    <3> HIDE DEF A
    <3> QED BY <2>3, <2>4, <2>5, <2>6 DEF Grafts
  <2>8. \A p \in Cue : A[p] # {} => p \in H
    BY <1>1 DEF CopiesOf, Once, OnlyIn
  <2>9. N \in SUBSET (Cue \ Listed(t))
    BY <1>3
  <2> HIDE DEF A
  <2> QED BY <1>11, <2>7, <2>8, <2>9, GraftedKeeps
<1>17. ParkedAtTop(t) => ParkedAtTop(u)
  BY <1>1, <1>3, <1>6, <1>9 DEF ParkedAtTop, TopLevel
<1> QED BY <1>11, <1>14, <1>15, <1>16, <1>17 DEF u

(***************************************************************************)
(* Copying: a list from top to bottom                                      *)
(***************************************************************************)
\* What is below a cue and not that cue has its parent there too.
LEMMA ParentIsBelow ==
  ASSUME MaxCues \in Nat, NEW t \in Tree, NEW G, Once(t, G), NEW x \in Cue,
         NEW c \in Subtree(t, x), c # x, NEW p \in Place, c \in Range(t.row[p])
  PROVE  p \in Subtree(t, x)
<1> SUFFICES ASSUME p \notin Subtree(t, x) PROVE FALSE
  OBVIOUS
<1> DEFINE S == Subtree(t, x) \ {c}
<1>1. /\ Subtree(t, x) \subseteq Cue /\ x \in Subtree(t, x) /\ Closed(t, Subtree(t, x))
      /\ \A T : x \in T /\ Closed(t, T) => Subtree(t, x) \subseteq T
  BY SubtreeIsLeast
<1>2. \A w \in S : c \notin Range(t.row[w])
  BY <1>1, Rows DEF Once, Apart
<1>3. x \in S /\ Closed(t, S)
  BY <1>1, <1>2 DEF Closed
<1> HIDE DEF S
<1>4. Subtree(t, x) \subseteq S
  BY <1>1, <1>3
<1> QED BY <1>4 DEF S

\* A subtree has the subtrees of its cues.
LEMMA BelowIsBelow ==
  ASSUME MaxCues \in Nat, NEW t \in Tree, NEW x \in Cue, NEW y \in Subtree(t, x)
  PROVE  y \in Cue /\ Subtree(t, y) \subseteq Subtree(t, x)
<1>1. y \in Cue /\ Closed(t, Subtree(t, x))
  BY SubtreeIsLeast
<1>2. \A S : y \in S /\ Closed(t, S) => Subtree(t, y) \subseteq S
  BY <1>1, SubtreeIsLeast
<1> QED BY <1>1, <1>2

\* No cue is below its own child.
LEMMA NotBelowItsChild ==
  ASSUME MaxCues \in Nat, NEW t \in Tree, NEW G, Once(t, G), NEW x \in Cue,
         NEW y \in Range(t.row[x])
  PROVE  y \in Cue /\ x \notin Subtree(t, y)
<1>1. y \in Cue /\ y \in Listed(t) /\ x \in Place /\ x # Top /\ Top \in Place
  BY Rows
<1>2. /\ y \in Subtree(t, y) /\ Subtree(t, y) \subseteq Cue
      /\ Closed(t, Subtree(t, y))
  BY <1>1, SubtreeIsLeast
<1>3. SUFFICES ASSUME x \in Subtree(t, y) PROVE FALSE
  BY <1>1
<1> DEFINE S == Listed(t) \ Subtree(t, y)
<1>4. TopLevel(t) \subseteq S
  <2>1. y \notin TopLevel(t)
    BY <1>1 DEF Once, Apart, TopLevel
  <2>2. TopLevel(t) \subseteq Listed(t)
    BY Rows
  <2>3. \A w \in TopLevel(t) : w \in Subtree(t, y) => w = y
    BY <1>1, TopIsAbove
  <2> QED BY <2>1, <2>2, <2>3
<1>5. Closed(t, S)
  <2> SUFFICES ASSUME NEW w \in S, NEW c \in Range(t.row[w]) PROVE c \in S
    BY DEF Closed
  <2>1. w \in Place /\ c \in Listed(t)
    BY Rows
  <2>2. c = y => w = x
    BY <1>1, <2>1 DEF Once, Apart
  <2>3. c # y /\ c \in Subtree(t, y) => w \in Subtree(t, y)
    BY <1>1, <2>1, ParentIsBelow
  <2> QED BY <1>3, <2>1, <2>2, <2>3
<1>6. S \in SUBSET Cue
  BY Rows
<1> HIDE DEF S
<1>7. Listed(t) \subseteq S
  BY <1>4, <1>5, <1>6 DEF Once, Reached
<1> QED BY <1>1, <1>2, <1>7 DEF S

\* The subtrees of two cues of a row have nothing in common.
LEMMA SiblingsAreApart ==
  ASSUME MaxCues \in Nat, NEW t \in Tree, NEW G, Once(t, G), NEW p \in Place,
         NEW y \in Range(t.row[p]), NEW z \in Range(t.row[p]), y # z
  PROVE  Subtree(t, y) \cap Subtree(t, z) = {}
<1>1. y \in Cue /\ z \in Cue /\ p \in Place /\ (p # Top => p \in Cue)
  BY Rows
<1>2. /\ y \in Subtree(t, y) /\ Subtree(t, y) \subseteq Cue /\ Subtree(t, z) \subseteq Cue
      /\ Closed(t, Subtree(t, y))
      /\ \A T : y \in T /\ Closed(t, T) => Subtree(t, y) \subseteq T
  BY <1>1, SubtreeIsLeast
<1>3. p \notin Subtree(t, z) /\ p \notin Subtree(t, y)
  <2>1. CASE p = Top
    BY <1>2, <2>1, Rows
  <2>2. CASE p # Top
    BY <1>1, <2>2, NotBelowItsChild
  <2> QED BY <2>1, <2>2
<1>4. y \notin Subtree(t, z)
  BY <1>1, <1>3, ParentIsBelow
<1> DEFINE S == Subtree(t, y) \ Subtree(t, z)
<1>5. y \in S
  BY <1>2, <1>4
<1>6. Closed(t, S)
  <2> SUFFICES ASSUME NEW w \in S, NEW c \in Range(t.row[w]) PROVE c \in S
    BY DEF Closed
  <2>1. w \in Cue /\ w \in Place /\ c \in Subtree(t, y)
    BY <1>2, Rows DEF Closed
  <2>2. c = z => w = p
    BY <1>1, <2>1 DEF Once, Apart
  <2>3. c # z /\ c \in Subtree(t, z) => w \in Subtree(t, z)
    BY <1>1, <2>1, ParentIsBelow
  <2> QED BY <1>3, <2>1, <2>2, <2>3
<1> HIDE DEF S
<1>7. Subtree(t, y) \subseteq S
  BY <1>2, <1>5, <1>6
<1> QED BY <1>7 DEF S

ListStep(t, f, n) ==
  [x \in Cue |->
     IF n = 0 THEN <<x>>
     ELSE <<x>> \o FlattenSeq([i \in DOMAIN t.row[x] |-> f[n - 1][t.row[x][i]]])]
From(t) == CHOOSE f : f = [n \in 0 .. MaxCues |-> ListStep(t, f, n)]

LEMMA PlaylistIsFlat ==
  ASSUME NEW t
  PROVE  Playlist(t) = FlattenSeq([i \in DOMAIN t.row[Top] |-> From(t)[MaxCues][t.row[Top][i]]])
BY Zenon DEF Playlist, From, ListStep

\* The lists of the children of x, one after the other.
Below(t, v, x) == FlattenSeq([i \in DOMAIN t.row[x] |-> v[t.row[x][i]]])

LEMMA BelowLists ==
  ASSUME MaxCues \in Nat, NEW t \in Tree, NEW v \in [Cue -> Seq(Cue)], NEW p \in Place
  PROVE  /\ Below(t, v, p) \in Seq(Cue)
         /\ Range(Below(t, v, p)) = UNION {Range(v[y]) : y \in Range(t.row[p])}
         /\ (/\ IsInjective(t.row[p]) /\ \A y \in Range(t.row[p]) : IsInjective(v[y])
             /\ \A y, z \in Range(t.row[p]) : y # z => Range(v[y]) \cap Range(v[z]) = {})
            => IsInjective(Below(t, v, p))
<1> DEFINE s == t.row[p]
           ss == [i \in DOMAIN s |-> v[s[i]]]
<1>1. s \in Seq(Cue)
  BY Rows
<1>2. Len(s) \in Nat /\ DOMAIN s = 1 .. Len(s) /\ DOMAIN ss = DOMAIN s
      /\ \A i \in DOMAIN s : s[i] \in Range(s) /\ s[i] \in Cue
  BY <1>1 DEF Range
<1>3. \A i \in DOMAIN s : ss[i] = v[s[i]] /\ ss[i] \in Seq(Cue)
  BY <1>2
<1>4. ss \in Seq(Seq(Cue)) /\ Below(t, v, p) = FlattenSeq(ss)
  <2>1. Below(t, v, p) = FlattenSeq(ss)
    BY DEF Below
  <2> HIDE DEF s
  <2> QED BY <1>2, <1>3, <2>1
<1> HIDE DEF ss, s
<1>5. /\ FlattenSeq(ss) \in Seq(Cue)
      /\ Range(FlattenSeq(ss)) = UNION {Range(ss[i]) : i \in DOMAIN ss}
      /\ (/\ \A i \in DOMAIN ss : IsInjective(ss[i])
          /\ \A i, j \in DOMAIN ss : i # j => Range(ss[i]) \cap Range(ss[j]) = {})
         => IsInjective(FlattenSeq(ss))
  BY <1>4, FlattenLists
<1>6. UNION {Range(ss[i]) : i \in DOMAIN ss} = UNION {Range(v[y]) : y \in Range(s)}
  <2>1. \A i \in DOMAIN ss : \E y \in Range(s) : Range(ss[i]) = Range(v[y])
    BY <1>2, <1>3
  <2>2. \A y \in Range(s) : \E i \in DOMAIN ss : Range(ss[i]) = Range(v[y])
    <3>1. \A y \in Range(s) : \E i \in DOMAIN s : s[i] = y
      BY DEF Range
    <3> QED BY <1>2, <1>3, <3>1
  <2> QED BY <2>1, <2>2
<1>7. ASSUME /\ IsInjective(s) /\ \A y \in Range(s) : IsInjective(v[y])
             /\ \A y, z \in Range(s) : y # z => Range(v[y]) \cap Range(v[z]) = {}
      PROVE  IsInjective(Below(t, v, p))
  <2>1. \A i \in DOMAIN ss : IsInjective(ss[i])
    BY <1>2, <1>3, <1>7
  <2>2. \A i, j \in DOMAIN ss : i # j => s[i] # s[j]
    BY <1>2, <1>7 DEF IsInjective
  <2>3. ASSUME NEW i \in DOMAIN ss, NEW j \in DOMAIN ss, i # j
        PROVE  Range(ss[i]) \cap Range(ss[j]) = {}
    <3>1. s[i] \in Range(s) /\ s[j] \in Range(s) /\ s[i] # s[j]
      BY <1>2, <2>2, <2>3
    <3>2. Range(v[s[i]]) \cap Range(v[s[j]]) = {}
      BY <1>7, <3>1
    <3>3. ss[i] = v[s[i]] /\ ss[j] = v[s[j]]
      BY <1>2, <1>3
    <3> QED BY <3>2, <3>3
  <2> QED BY <1>4, <1>5, <2>1, <2>3
<1> QED BY <1>4, <1>5, <1>6, <1>7 DEF s

LEMMA FromIs ==
  ASSUME MaxCues \in Nat, NEW t \in Tree
  PROVE  /\ From(t) \in [0 .. MaxCues -> [Cue -> Seq(Cue)]]
         /\ \A x \in Cue : From(t)[0][x] = <<x>>
         /\ \A n \in 1 .. MaxCues, x \in Cue : From(t)[n][x] = <<x>> \o Below(t, From(t)[n - 1], x)
<1> DEFINE V == [Cue -> Seq(Cue)]
           b == [x \in Cue |-> <<x>>]
           Next1(v) == [x \in Cue |-> <<x>> \o Below(t, v, x)]
           G == [n \in 1 .. MaxCues |-> [v \in V |-> Next1(v)]]
<1>1. b \in V
  OBVIOUS
<1>2. ASSUME NEW v \in V PROVE Next1(v) \in V
  <2>1. \A x \in Cue : Below(t, v, x) \in Seq(Cue)
    BY BelowLists, Rows
  <2> QED BY <2>1
<1>3. G \in [1 .. MaxCues -> [V -> V]]
  <2> HIDE DEF V, Next1
  <2> QED BY <1>2
<1>4. PICK f : Steps(MaxCues, V, b, G, f)
  <2> HIDE DEF V, b, G
  <2> QED BY <1>1, <1>3, RecursionExists
<1>5. /\ f \in [0 .. MaxCues -> V] /\ f[0] = b
      /\ \A n \in 1 .. MaxCues : f[n] = Next1(f[n - 1])
  <2>1. \A n \in 1 .. MaxCues : n - 1 \in 0 .. MaxCues
    OBVIOUS
  <2> HIDE DEF V, b, Next1
  <2> QED BY <1>4, <2>1 DEF Steps
<1>6. \A n \in 0 .. MaxCues : f[n] = ListStep(t, f, n)
  <2>1. f[0] = ListStep(t, f, 0)
    BY <1>5 DEF ListStep
  <2>2. \A n \in 1 .. MaxCues : f[n] = ListStep(t, f, n)
    BY <1>5 DEF ListStep, Below
  <2> QED BY <2>1, <2>2
<1>7. f = [n \in 0 .. MaxCues |-> ListStep(t, f, n)]
  BY <1>5, <1>6
<1> DEFINE h == From(t)
<1>8. h = [n \in 0 .. MaxCues |-> ListStep(t, h, n)]
  BY <1>7, Zenon DEF From
<1> HIDE DEF h
<1>9. \A n \in 0 .. MaxCues : h[n] = ListStep(t, h, n)
  BY <1>8, Zenon
<1>10. h[0] = b
  <2>1. 0 \in 0 .. MaxCues
    OBVIOUS
  <2>2. h[0] = ListStep(t, h, 0)
    BY <1>9, <2>1
  <2>3. ListStep(t, h, 0) = b
    BY DEF ListStep
  <2> HIDE DEF b
  <2> QED BY <2>2, <2>3
<1>11. \A n \in 1 .. MaxCues : h[n] = Next1(h[n - 1])
  <2>1. \A n \in 1 .. MaxCues : n \in 0 .. MaxCues /\ n # 0
    OBVIOUS
  <2>2. \A n \in 1 .. MaxCues : ListStep(t, h, n) = Next1(h[n - 1])
    BY <2>1 DEF ListStep, Below
  <2> HIDE DEF Next1
  <2> QED BY <1>9, <2>1, <2>2
<1>12. \A n \in Nat : n <= MaxCues => h[n] \in V
  <2> DEFINE I == {n \in Nat : n <= MaxCues => h[n] \in V}
  <2> HIDE DEF V, b, Next1
  <2>1. 0 \in I
    BY <1>1, <1>10
  <2>2. ASSUME NEW n \in Nat, n \in I PROVE n + 1 \in I
    <3>1. n + 1 <= MaxCues => n + 1 \in 1 .. MaxCues /\ (n + 1) - 1 = n /\ n <= MaxCues
      OBVIOUS
    <3>2. ASSUME n + 1 <= MaxCues PROVE h[n + 1] \in V
      <4>1. h[n] \in V
        BY <2>2, <3>1, <3>2
      <4>2. h[n + 1] = Next1(h[n])
        BY <1>11, <3>1, <3>2
      <4> QED BY <1>2, <4>1, <4>2
    <3> QED BY <3>2
  <2> HIDE DEF I
  <2>3. Nat \subseteq I
    BY <2>1, <2>2, NatSetInduction
  <2> QED BY <2>3 DEF I
<1>13. h \in [0 .. MaxCues -> V]
  <2>1. \A n \in 0 .. MaxCues : n \in Nat /\ n <= MaxCues
    OBVIOUS
  <2> HIDE DEF V, b, Next1
  <2>2. \A n \in 0 .. MaxCues : h[n] \in V
    BY <1>12, <2>1
  <2>3. h = [n \in 0 .. MaxCues |-> h[n]]
    BY <1>8, <1>9
  <2> QED BY <2>2, <2>3
<1> QED BY <1>10, <1>11, <1>13 DEF h

\* What the recursion lists is below the cue it starts from, and each once.
LEMMA FromStays ==
  ASSUME MaxCues \in Nat, NEW t \in Tree, NEW G, Once(t, G), NEW m \in Nat
  PROVE  m <= MaxCues => \A x \in Cue : /\ From(t)[m][x] \in Seq(Cue) /\ IsInjective(From(t)[m][x])
                                        /\ Range(From(t)[m][x]) \subseteq Subtree(t, x)
<1> DEFINE Good(n) == \A x \in Cue : /\ From(t)[n][x] \in Seq(Cue) /\ IsInjective(From(t)[n][x])
                                     /\ Range(From(t)[n][x]) \subseteq Subtree(t, x)
           I == {n \in Nat : n <= MaxCues => Good(n)}
<1>1. \A x \in Cue : x \in Subtree(t, x) /\ Range(t.row[x]) \subseteq Subtree(t, x)
  BY SubtreeIsLeast DEF Closed
<1>2. Good(0)
  <2> SUFFICES ASSUME NEW x \in Cue
               PROVE  /\ From(t)[0][x] \in Seq(Cue) /\ IsInjective(From(t)[0][x])
                      /\ Range(From(t)[0][x]) \subseteq Subtree(t, x)
    OBVIOUS
  <2>1. From(t)[0][x] = <<x>>
    BY FromIs
  <2>2. <<x>> \in Seq(Cue) /\ IsInjective(<<x>>) /\ Range(<<x>>) = {x}
    BY OneCue
  <2> QED BY <1>1, <2>1, <2>2
<1>3. ASSUME NEW n \in Nat, n + 1 <= MaxCues, Good(n) PROVE Good(n + 1)
  <2> SUFFICES ASSUME NEW x \in Cue
               PROVE  /\ From(t)[n + 1][x] \in Seq(Cue) /\ IsInjective(From(t)[n + 1][x])
                      /\ Range(From(t)[n + 1][x]) \subseteq Subtree(t, x)
    OBVIOUS
  <2> DEFINE v == From(t)[n]
             b == Below(t, v, x)
  <2>1. n + 1 \in 1 .. MaxCues /\ (n + 1) - 1 = n /\ n \in 0 .. MaxCues
    BY <1>3
  <2>2. From(t)[n + 1][x] = <<x>> \o b /\ v \in [Cue -> Seq(Cue)]
    BY <2>1, FromIs
  <2>3. \A y \in Cue : IsInjective(v[y]) /\ Range(v[y]) \subseteq Subtree(t, y)
    BY <1>3
  <2> HIDE DEF v
  <2>4. x \in Place /\ Range(t.row[x]) \subseteq Cue /\ IsInjective(t.row[x])
    BY Rows DEF Once, Apart
  <2>5. ASSUME NEW y \in Range(t.row[x]), NEW z \in Range(t.row[x]), y # z
        PROVE  Range(v[y]) \cap Range(v[z]) = {}
    <3>1. Subtree(t, y) \cap Subtree(t, z) = {}
      BY <2>4, <2>5, SiblingsAreApart
    <3> QED BY <2>3, <2>4, <3>1
  <2>6. /\ b \in Seq(Cue) /\ Range(b) = UNION {Range(v[y]) : y \in Range(t.row[x])}
        /\ IsInjective(b)
    <3>1. \A y \in Range(t.row[x]) : IsInjective(v[y])
      BY <2>3, <2>4
    <3> QED BY <2>2, <2>4, <2>5, <3>1, BelowLists
  <2>7. \A y \in Range(t.row[x]) : Range(v[y]) \subseteq Subtree(t, y) /\ x \notin Subtree(t, y)
                                   /\ Subtree(t, y) \subseteq Subtree(t, x)
    BY <1>1, <2>3, <2>4, NotBelowItsChild, BelowIsBelow
  <2>8. Range(b) \subseteq Subtree(t, x) /\ x \notin Range(b)
    BY <2>6, <2>7
  <2> HIDE DEF b
  <2>9. <<x>> \in Seq(Cue) /\ IsInjective(<<x>>) /\ Range(<<x>>) = {x}
    BY OneCue
  <2> DEFINE a == <<x>>
  <2> HIDE DEF a
  <2>10. /\ a \o b \in Seq(Cue) /\ Range(a \o b) = Range(a) \cup Range(b) /\ IsInjective(a \o b)
    <3>1. a \in Seq(Cue) /\ IsInjective(a) /\ Range(a) = {x}
      BY <2>9 DEF a
    <3>2. Range(a) \cap Range(b) = {}
      BY <2>8, <3>1
    <3> QED BY <2>6, <3>1, <3>2, ConcatLists
  <2> QED BY <1>1, <2>2, <2>8, <2>9, <2>10 DEF a
<1>4. Nat \subseteq I
  <2> HIDE DEF Good
  <2>1. 0 \in I
    BY <1>2
  <2>2. ASSUME NEW n \in Nat, n \in I PROVE n + 1 \in I
    <3>1. n + 1 <= MaxCues => n <= MaxCues
      OBVIOUS
    <3> QED BY <1>3, <2>2, <3>1
  <2> HIDE DEF I
  <2> QED BY <2>1, <2>2, NatSetInduction
<1> QED BY <1>4

\* A cue is in every ball around it, and a ball is around the children, one smaller.
LEMMA BallOfChildren ==
  ASSUME MaxCues \in Nat, NEW t \in Tree, NEW x \in Cue, NEW m \in Nat
  PROVE  m + 1 <= MaxCues =>
           Ball(t, x)[m + 1] \subseteq {x} \cup (UNION {Ball(t, y)[m] : y \in Range(t.row[x])})
<1> DEFINE Kids == Range(t.row[x])
           Good(n) == /\ Ball(t, x)[n + 1] \subseteq {x} \cup (UNION {Ball(t, y)[n] : y \in Kids})
                      /\ \A y \in Kids : y \in Ball(t, y)[n]
           I == {n \in Nat : n + 1 <= MaxCues => Good(n)}
<1>1. Kids \subseteq Cue
  BY Rows
<1>2. ASSUME NEW n \in Nat, n + 1 <= MaxCues, NEW y \in Cue
      PROVE  Ball(t, y)[n + 1] = Ball(t, y)[n] \cup (UNION {Range(t.row[z]) : z \in Ball(t, y)[n]})
  <2>1. n + 1 \in 1 .. MaxCues /\ (n + 1) - 1 = n
    BY <1>2
  <2> QED BY <2>1, BallGrows
<1>3. \A y \in Cue : Ball(t, y)[0] = {y}
  BY BallGrows
<1>4. 1 <= MaxCues => Good(0)
  <2> SUFFICES ASSUME 1 <= MaxCues PROVE Good(0)
    OBVIOUS
  <2>1. 0 + 1 = 1 /\ 0 + 1 <= MaxCues
    OBVIOUS
  <2>2. Ball(t, x)[0 + 1] = Ball(t, x)[0] \cup (UNION {Range(t.row[z]) : z \in Ball(t, x)[0]})
    BY <1>2, <2>1
  <2> HIDE DEF Kids
  <2>3. Ball(t, x)[0 + 1] = {x} \cup Kids
    BY <1>3, <2>2 DEF Kids
  <2>4. \A y \in Kids : Ball(t, y)[0] = {y}
    BY <1>1, <1>3
  <2> QED BY <2>3, <2>4
<1>5. ASSUME NEW n \in Nat, (n + 1) + 1 <= MaxCues, Good(n) PROVE Good(n + 1)
  <2>1. n + 1 <= MaxCues /\ n + 1 \in Nat
    BY <1>5
  <2>2. Ball(t, x)[(n + 1) + 1] = Ball(t, x)[n + 1]
                                  \cup (UNION {Range(t.row[z]) : z \in Ball(t, x)[n + 1]})
    BY <1>2, <1>5, <2>1
  <2>3. \A y \in Kids : Ball(t, y)[n + 1] = Ball(t, y)[n]
                                            \cup (UNION {Range(t.row[z]) : z \in Ball(t, y)[n]})
    BY <1>1, <1>2, <2>1
  <2>4. Range(t.row[x]) = Kids
    OBVIOUS
  <2> HIDE DEF Kids
  <2>5. \A z \in Ball(t, x)[n + 1] : z = x \/ \E y \in Kids : z \in Ball(t, y)[n]
    BY <1>5
  <2>6. \A y \in Kids : y \in Ball(t, y)[n + 1]
    BY <1>5, <2>3
  <2>7. \A z \in Ball(t, x)[n + 1] : z = x \/ \E y \in Kids : z \in Ball(t, y)[n + 1]
    BY <2>3, <2>5
  <2>8. \A z \in Ball(t, x)[n + 1] : \A w \in Range(t.row[z]) : \E y \in Kids : w \in Ball(t, y)[n + 1]
    BY <2>3, <2>4, <2>5, <2>6
  <2>9. Ball(t, x)[(n + 1) + 1] \subseteq {x} \cup (UNION {Ball(t, y)[n + 1] : y \in Kids})
    BY <2>2, <2>7, <2>8
  <2> QED BY <2>6, <2>9
<1>6. Nat \subseteq I
  <2> HIDE DEF Good
  <2>1. 0 \in I
    BY <1>4
  <2>2. ASSUME NEW n \in Nat, n \in I PROVE n + 1 \in I
    <3>1. (n + 1) + 1 <= MaxCues => n + 1 <= MaxCues
      OBVIOUS
    <3> QED BY <1>5, <2>2, <3>1
  <2> HIDE DEF I
  <2> QED BY <2>1, <2>2, NatSetInduction
<1> QED BY <1>6

LEMMA FromReaches ==
  ASSUME MaxCues \in Nat, NEW t \in Tree, NEW m \in Nat
  PROVE  m <= MaxCues => \A x \in Cue : Ball(t, x)[m] \subseteq Range(From(t)[m][x])
<1> DEFINE Good(n) == \A x \in Cue : Ball(t, x)[n] \subseteq Range(From(t)[n][x])
           I == {n \in Nat : n <= MaxCues => Good(n)}
<1>1. Good(0)
  <2> SUFFICES ASSUME NEW x \in Cue PROVE Ball(t, x)[0] \subseteq Range(From(t)[0][x])
    OBVIOUS
  <2>1. From(t)[0][x] = <<x>> /\ Ball(t, x)[0] = {x}
    BY FromIs, BallGrows
  <2>2. Range(<<x>>) = {x}
    BY OneCue
  <2> QED BY <2>1, <2>2
<1>2. ASSUME NEW n \in Nat, n + 1 <= MaxCues, Good(n) PROVE Good(n + 1)
  <2> SUFFICES ASSUME NEW x \in Cue PROVE Ball(t, x)[n + 1] \subseteq Range(From(t)[n + 1][x])
    OBVIOUS
  <2> DEFINE v == From(t)[n]
             b == Below(t, v, x)
             a == <<x>>
  <2>1. n + 1 \in 1 .. MaxCues /\ (n + 1) - 1 = n /\ n \in 0 .. MaxCues
    BY <1>2
  <2>2. From(t)[n + 1][x] = a \o b /\ v \in [Cue -> Seq(Cue)]
    BY <2>1, FromIs
  <2>3. \A y \in Cue : Ball(t, y)[n] \subseteq Range(v[y])
    BY <1>2
  <2> HIDE DEF v
  <2>4. x \in Place /\ Range(t.row[x]) \subseteq Cue
    BY Rows
  <2>5. b \in Seq(Cue) /\ Range(b) = UNION {Range(v[y]) : y \in Range(t.row[x])}
    BY <2>2, <2>4, BelowLists
  <2>6. a \in Seq(Cue) /\ Range(a) = {x}
    BY OneCue
  <2> HIDE DEF a, b
  <2>7. Range(a \o b) = {x} \cup Range(b)
    BY <2>5, <2>6, ConcatLists
  <2>8. Ball(t, x)[n + 1] \subseteq {x} \cup (UNION {Ball(t, y)[n] : y \in Range(t.row[x])})
    BY <1>2, BallOfChildren
  <2>9. UNION {Ball(t, y)[n] : y \in Range(t.row[x])} \subseteq Range(b)
    BY <2>3, <2>4, <2>5
  <2> QED BY <2>2, <2>7, <2>8, <2>9
<1>3. Nat \subseteq I
  <2> HIDE DEF Good
  <2>1. 0 \in I
    BY <1>1
  <2>2. ASSUME NEW n \in Nat, n \in I PROVE n + 1 \in I
    <3>1. n + 1 <= MaxCues => n <= MaxCues
      OBVIOUS
    <3> QED BY <1>2, <2>2, <3>1
  <2> HIDE DEF I
  <2> QED BY <2>1, <2>2, NatSetInduction
<1> QED BY <1>3

\* The playlist lists every cue of the list, once.
LEMMA PlaylistLists ==
  ASSUME MaxCues \in Nat, NEW t \in Tree, NEW G, Once(t, G)
  PROVE  Playlist(t) \in Seq(Cue) /\ IsInjective(Playlist(t)) /\ Range(Playlist(t)) = Listed(t)
<1> DEFINE v == From(t)[MaxCues]
<1>1. Playlist(t) = Below(t, v, Top)
  BY PlaylistIsFlat, Zenon DEF Below
<1>2. v \in [Cue -> Seq(Cue)]
  <2>1. MaxCues \in 0 .. MaxCues
    OBVIOUS
  <2> QED BY <2>1, FromIs
<1>3. \A x \in Cue : IsInjective(v[x]) /\ Range(v[x]) = Subtree(t, x)
  <2>1. MaxCues <= MaxCues
    OBVIOUS
  <2>2. \A x \in Cue : IsInjective(v[x]) /\ Range(v[x]) \subseteq Subtree(t, x)
    BY <2>1, FromStays
  <2>3. \A x \in Cue : Ball(t, x)[MaxCues] \subseteq Range(v[x])
    BY <2>1, FromReaches
  <2>4. \A x \in Cue : Subtree(t, x) = Ball(t, x)[MaxCues]
    BY SubtreeIsBall
  <2> HIDE DEF v
  <2> QED BY <2>2, <2>3, <2>4
<1> HIDE DEF v
<1>4. Top \in Place /\ Range(t.row[Top]) = TopLevel(t) /\ TopLevel(t) \subseteq Cue
      /\ IsInjective(t.row[Top])
  BY Rows DEF TopLevel, Once, Apart
<1>5. ASSUME NEW y \in Range(t.row[Top]), NEW z \in Range(t.row[Top]), y # z
      PROVE  Range(v[y]) \cap Range(v[z]) = {}
  <2>1. Subtree(t, y) \cap Subtree(t, z) = {}
    BY <1>4, <1>5, SiblingsAreApart
  <2> QED BY <1>3, <1>4, <2>1
<1>6. /\ Below(t, v, Top) \in Seq(Cue) /\ IsInjective(Below(t, v, Top))
      /\ Range(Below(t, v, Top)) = UNION {Range(v[y]) : y \in Range(t.row[Top])}
  <2>1. \A y \in Range(t.row[Top]) : IsInjective(v[y])
    BY <1>3, <1>4
  <2> QED BY <1>2, <1>4, <1>5, <2>1, BelowLists
<1>7. UNION {Range(v[y]) : y \in Range(t.row[Top])} = UNION {Subtree(t, y) : y \in TopLevel(t)}
  BY <1>3, <1>4
<1>8. UNION {Subtree(t, y) : y \in TopLevel(t)} = Listed(t)
  BY ReachedFromTop DEF Once
<1> QED BY <1>1, <1>6, <1>7, <1>8

(***************************************************************************)
(* The clipboard                                                           *)
(***************************************************************************)
Copies(c) == 1 .. Len(c.row)

\* The clipboard is a forest over its copies, each of them in one place.
ClipTyped(c) ==
  /\ Len(c.row) \in Nat /\ DOMAIN c.row = Copies(c)
  /\ c.roots \in Seq(Copies(c)) /\ c.groups \subseteq Copies(c)
  /\ \A i \in Copies(c) : c.row[i] \in Seq(Copies(c))

ClipReached(c) ==
  \A S \in SUBSET Copies(c) :
    Range(c.roots) \subseteq S /\ (\A i \in S : Range(c.row[i]) \subseteq S)
      => \A i \in Copies(c) : Range(c.row[i]) \subseteq S

ClipOnce(c) ==
  /\ IsInjective(c.roots) /\ \A i \in Copies(c) : IsInjective(c.row[i])
  /\ \A i \in Copies(c) : Range(c.roots) \cap Range(c.row[i]) = {}
  /\ \A i, j \in Copies(c) : i # j => Range(c.row[i]) \cap Range(c.row[j]) = {}
  /\ \A i \in Copies(c) : Range(c.row[i]) # {} => i \in c.groups
  /\ ClipReached(c)

LEMMA EmptyClipboardIsOnce ==
  ClipTyped(EmptyClipboard) /\ ClipOnce(EmptyClipboard)
<1>1. /\ EmptyClipboard.roots = << >> /\ EmptyClipboard.row = << >> /\ EmptyClipboard.groups = {}
      /\ Len(<< >>) = 0 /\ DOMAIN << >> = {} /\ << >> \in Seq({})
  BY DEF EmptyClipboard
<1>2. Copies(EmptyClipboard) = {}
  BY <1>1 DEF Copies
<1>3. ClipTyped(EmptyClipboard)
  BY <1>1, <1>2 DEF ClipTyped
<1>4. IsInjective(<< >>)
  BY <1>1 DEF IsInjective
<1> QED BY <1>1, <1>2, <1>3, <1>4 DEF ClipOnce, ClipReached

\* A sequence without repetition numbers what it lists.
LEMMA PositionsNumber ==
  ASSUME NEW X, NEW ids \in Seq(X), IsInjective(ids)
  PROVE  /\ \A y \in Range(ids) : PositionIn(ids, y) \in 1 .. Len(ids) /\ ids[PositionIn(ids, y)] = y
         /\ \A k \in 1 .. Len(ids) : ids[k] \in Range(ids) /\ PositionIn(ids, ids[k]) = k
<1>1. \A y \in Range(ids) : PositionIn(ids, y) \in 1 .. Len(ids) /\ ids[PositionIn(ids, y)] = y
  BY Found
<1>2. DOMAIN ids = 1 .. Len(ids)
  OBVIOUS
<1>3. \A k \in 1 .. Len(ids) : ids[k] \in Range(ids)
  BY <1>2 DEF Range
<1>4. \A k \in 1 .. Len(ids) : PositionIn(ids, ids[k]) = k
  BY <1>1, <1>2, <1>3 DEF IsInjective
<1> QED BY <1>1, <1>3, <1>4

Numbers(ids, s) == [i \in DOMAIN s |-> PositionIn(ids, s[i])]
NumberOf(ids, U) == {PositionIn(ids, y) : y \in U}

LEMMA NumbersLists ==
  ASSUME NEW X, NEW ids \in Seq(X), IsInjective(ids), NEW s \in Seq(X), IsInjective(s),
         Range(s) \subseteq Range(ids)
  PROVE  /\ Numbers(ids, s) \in Seq(1 .. Len(ids)) /\ IsInjective(Numbers(ids, s))
         /\ Range(Numbers(ids, s)) = NumberOf(ids, Range(s))
<1> DEFINE a == Numbers(ids, s)
<1>1. /\ Len(s) \in Nat /\ DOMAIN s = 1 .. Len(s)
      /\ \A i \in DOMAIN s : s[i] \in Range(ids) /\ s[i] \in Range(s)
  <2>1. Len(s) \in Nat /\ DOMAIN s = 1 .. Len(s)
    OBVIOUS
  <2>2. \A i \in DOMAIN s : s[i] \in Range(s)
    BY DEF Range
  <2> QED BY <2>1, <2>2
<1>2. DOMAIN a = DOMAIN s /\ \A i \in DOMAIN s : a[i] = PositionIn(ids, s[i])
  BY DEF Numbers
<1>3. \A i \in DOMAIN s : a[i] \in 1 .. Len(ids) /\ ids[a[i]] = s[i]
  BY <1>1, <1>2, PositionsNumber
<1>4. a \in Seq(1 .. Len(ids))
  <2>1. a = [i \in 1 .. Len(s) |-> a[i]]
    BY <1>1 DEF Numbers
  <2> HIDE DEF a
  <2> QED BY <1>1, <1>2, <1>3, <2>1
<1> HIDE DEF a
<1>5. IsInjective(a)
  BY <1>2, <1>3 DEF IsInjective
<1>6. Range(a) = NumberOf(ids, Range(s))
  BY <1>2 DEF Range, NumberOf
<1> QED BY <1>4, <1>5, <1>6 DEF a

\* Numbers of disjoint sets are disjoint.
LEMMA NumbersAreApart ==
  ASSUME NEW X, NEW ids \in Seq(X), IsInjective(ids), NEW U \in SUBSET Range(ids),
         NEW W \in SUBSET Range(ids)
  PROVE  /\ U \cap W = {} => NumberOf(ids, U) \cap NumberOf(ids, W) = {}
         /\ NumberOf(ids, U) = {k \in 1 .. Len(ids) : ids[k] \in U}
         /\ NumberOf(ids, U) # {} => U # {}
<1>1. /\ \A y \in Range(ids) : PositionIn(ids, y) \in 1 .. Len(ids) /\ ids[PositionIn(ids, y)] = y
      /\ \A k \in 1 .. Len(ids) : ids[k] \in Range(ids) /\ PositionIn(ids, ids[k]) = k
  BY PositionsNumber
<1>2. NumberOf(ids, U) = {k \in 1 .. Len(ids) : ids[k] \in U}
  BY <1>1 DEF NumberOf
<1>3. NumberOf(ids, W) = {k \in 1 .. Len(ids) : ids[k] \in W}
  BY <1>1 DEF NumberOf
<1>4. NumberOf(ids, U) # {} => U # {}
  BY DEF NumberOf
<1> QED BY <1>2, <1>3, <1>4

\* The roots of a selection: what is not below another selected cue.
Roots(t, S) == {y \in S : \A x \in S \ {y} : y \notin Subtree(t, x)}
CopiedIds(t, S) == Among(Playlist(t), Trees(t, S))

\* Every selected cue is below a root.
LEMMA RootsReach ==
  ASSUME MaxCues \in Nat, NEW t \in Tree, NEW G, Once(t, G), NEW S \in SUBSET Listed(t)
  PROVE  /\ \A y \in Roots(t, S), w \in Trees(t, S) : y \notin Range(t.row[w])
         /\ \A U : Roots(t, S) \subseteq U /\ Closed(t, U) => Trees(t, S) \subseteq U
<1> DEFINE R == Roots(t, S)
           T == Trees(t, S)
           W == {y \in Listed(t) : y \in T => y \in Trees(t, R)}
<1>1. /\ T \in SUBSET Cue /\ T \subseteq Listed(t) /\ S \subseteq T /\ Closed(t, T)
      /\ TopLevel(t) \ T = TopLevel(t) \ S
  BY SubtreesOf
<1>2. R \subseteq S /\ \A y \in R : \A x \in S : y \in Subtree(t, x) => x = y
  BY DEF Roots
<1>3. /\ \A x \in S : x \in Cue /\ x \in Subtree(t, x) /\ Subtree(t, x) \subseteq Cue
                      /\ Closed(t, Subtree(t, x))
      /\ TopLevel(t) \subseteq Listed(t)
  BY SubtreeIsLeast, Rows
<1>4. /\ T = UNION {Subtree(t, x) : x \in S} /\ Trees(t, R) = UNION {Subtree(t, x) : x \in R}
      /\ \A y : y \in S /\ (\A x \in S : y \in Subtree(t, x) => x = y) => y \in R
  BY DEF Trees, Roots
<1>5. Closed(t, Trees(t, R))
  BY <1>2, <1>3, <1>4 DEF Closed
<1>6. R \subseteq Trees(t, R)
  BY <1>2, <1>3, <1>4
<1> HIDE DEF R, T
<1>7. ASSUME NEW y \in R, NEW w \in T, y \in Range(t.row[w]) PROVE FALSE
  <2>1. PICK x \in S : w \in Subtree(t, x)
    BY <1>4
  <2>2. x = y /\ w \in Cue
    BY <1>2, <1>3, <1>7, <2>1 DEF Closed
  <2>3. w \notin Subtree(t, y)
    BY <1>7, <2>2, NotBelowItsChild
  <2> QED BY <2>1, <2>2, <2>3
<1>8. TopLevel(t) \subseteq W
  <2> SUFFICES ASSUME NEW y \in TopLevel(t), y \in T PROVE y \in Trees(t, R)
    BY <1>3
  <2>1. y \in S
    BY <1>1
  <2>2. \A x \in S : y \in Subtree(t, x) => x = y
    BY <1>3, TopIsAbove
  <2> QED BY <1>4, <1>6, <2>1, <2>2
<1>9. Closed(t, W)
  <2> SUFFICES ASSUME NEW w \in W, NEW c \in Range(t.row[w]), c \in T PROVE c \in Trees(t, R)
    <3>1. \A w \in W : Range(t.row[w]) \subseteq Listed(t)
      BY Rows
    <3> QED BY <3>1 DEF Closed
  <2>1. w \in Listed(t) /\ w \in Place
    BY Rows
  <2>2. CASE w \in T
    BY <1>5, <2>2 DEF Closed
  <2>3. CASE w \notin T
    <3>1. \A x \in S : c \in Subtree(t, x) => x = c
      <4>1. \A x \in S : c \in Subtree(t, x) /\ c # x => w \in Subtree(t, x)
        BY <1>3, <2>1, ParentIsBelow
      <4> QED BY <1>4, <2>3, <4>1
    <3>2. c \in S
      BY <1>4, <3>1
    <3> QED BY <1>4, <1>6, <3>1, <3>2
  <2> QED BY <2>2, <2>3
<1>10. W \in SUBSET Cue
  BY Rows
<1>11. Listed(t) \subseteq W
  <2> HIDE DEF W
  <2> QED BY <1>8, <1>9, <1>10 DEF Once, Reached
<1>12. T \subseteq Trees(t, R)
  BY <1>1, <1>11
<1>13. ASSUME NEW U, R \subseteq U, Closed(t, U) PROVE T \subseteq U
  <2>1. \A x \in R : Subtree(t, x) \subseteq U
    BY <1>2, <1>3, <1>13, SubtreeIsLeast
  <2> QED BY <1>4, <1>12, <2>1
<1> QED BY <1>7, <1>13 DEF R, T

\* copy_cue and copy_cues make a forest of what they copy.
LEMMA CopiedIsOnce ==
  ASSUME MaxCues \in Nat, NEW t \in Tree, NEW G, Once(t, G), NEW S \in SUBSET Listed(t)
  PROVE  ClipTyped(Copied(t, S, G)) /\ ClipOnce(Copied(t, S, G))
<1> DEFINE c == Copied(t, S, G)
           T == Trees(t, S)
           R == Roots(t, S)
           ids == CopiedIds(t, S)
           m == Len(ids)
           tops == Among(ids, R)
<1>1. /\ T \in SUBSET Cue /\ T \subseteq Listed(t) /\ S \subseteq T /\ Closed(t, T)
  BY SubtreesOf
<1>2. ids \in Seq(Cue) /\ IsInjective(ids) /\ Range(ids) = T
  <2>1. Playlist(t) \in Seq(Cue) /\ IsInjective(Playlist(t)) /\ Range(Playlist(t)) = Listed(t)
    BY PlaylistLists
  <2>2. ids = Among(Playlist(t), T)
    BY DEF CopiedIds
  <2> HIDE DEF T, ids
  <2>3. /\ Among(Playlist(t), T) \in Seq(Cue) /\ IsInjective(Among(Playlist(t), T))
        /\ Range(Among(Playlist(t), T)) = Range(Playlist(t)) \cap T
    BY <2>1, AmongLists
  <2> QED BY <1>1, <2>1, <2>2, <2>3
<1>3. R \subseteq T
  BY <1>1 DEF Roots
<1>4. /\ c.roots = Numbers(ids, tops) /\ c.groups = {i \in DOMAIN ids : ids[i] \in G}
      /\ c.row = [i \in DOMAIN ids |-> Numbers(ids, t.row[ids[i]])]
  BY DEF Copied, CopiedIds, Trees, Roots, Numbers
<1> HIDE DEF c, T, R, ids
<1>5. tops \in Seq(Cue) /\ IsInjective(tops) /\ Range(tops) = R
  <2>1. /\ Among(ids, R) \in Seq(Cue) /\ IsInjective(Among(ids, R))
        /\ Range(Among(ids, R)) = Range(ids) \cap R
    BY <1>2, AmongLists
  <2> QED BY <1>2, <1>3, <2>1
<1> HIDE DEF tops
<1>6. m \in Nat /\ DOMAIN ids = 1 .. m
  BY <1>2
<1>7. \A i \in 1 .. m : ids[i] \in T /\ ids[i] \in Cue /\ ids[i] \in Place
  BY <1>1, <1>2, <1>6, Rows DEF Range
<1>8. \A i \in 1 .. m : /\ t.row[ids[i]] \in Seq(Cue) /\ IsInjective(t.row[ids[i]])
                        /\ Range(t.row[ids[i]]) \subseteq T
  BY <1>1, <1>7, Rows DEF Closed, Once, Apart
<1>9. /\ c.roots \in Seq(1 .. m) /\ IsInjective(c.roots) /\ Range(c.roots) = NumberOf(ids, R)
  BY <1>2, <1>3, <1>4, <1>5, NumbersLists
<1>10. ASSUME NEW i \in 1 .. m
       PROVE  /\ c.row[i] \in Seq(1 .. m) /\ IsInjective(c.row[i])
              /\ Range(c.row[i]) = NumberOf(ids, Range(t.row[ids[i]]))
  <2> DEFINE s == t.row[ids[i]]
  <2>1. c.row[i] = Numbers(ids, s)
    BY <1>4, <1>6
  <2>2. s \in Seq(Cue) /\ IsInjective(s) /\ Range(s) \subseteq Range(ids)
    BY <1>2, <1>8
  <2> HIDE DEF s
  <2>3. /\ Numbers(ids, s) \in Seq(1 .. m) /\ IsInjective(Numbers(ids, s))
        /\ Range(Numbers(ids, s)) = NumberOf(ids, Range(s))
    BY <1>2, <2>2, NumbersLists
  <2> QED BY <2>1, <2>3 DEF s
<1>11. Len(c.row) = m /\ DOMAIN c.row = 1 .. m
  BY <1>4, <1>6
<1>12. Copies(c) = 1 .. m
  BY <1>11 DEF Copies
<1>13. ClipTyped(c)
  BY <1>4, <1>6, <1>9, <1>10, <1>11, <1>12 DEF ClipTyped
<1>14. ASSUME NEW i \in 1 .. m PROVE Range(c.roots) \cap Range(c.row[i]) = {}
  <2>1. R \cap Range(t.row[ids[i]]) = {}
    BY <1>7, RootsReach DEF R, T
  <2> DEFINE U == Range(t.row[ids[i]])
  <2>2. U \subseteq Range(ids) /\ Range(c.row[i]) = NumberOf(ids, U) /\ R \cap U = {}
    BY <1>2, <1>8, <1>10, <2>1
  <2> HIDE DEF U
  <2> QED BY <1>2, <1>3, <1>9, <2>2, NumbersAreApart
<1>15. ASSUME NEW i \in 1 .. m, NEW j \in 1 .. m, i # j
       PROVE  Range(c.row[i]) \cap Range(c.row[j]) = {}
  <2>1. ids[i] # ids[j]
    BY <1>2, <1>6, <1>15 DEF IsInjective
  <2>2. Range(t.row[ids[i]]) \cap Range(t.row[ids[j]]) = {}
    BY <1>7, <2>1 DEF Once, Apart
  <2> DEFINE U == Range(t.row[ids[i]])
             W == Range(t.row[ids[j]])
  <2>3. /\ U \subseteq Range(ids) /\ W \subseteq Range(ids) /\ U \cap W = {}
        /\ Range(c.row[i]) = NumberOf(ids, U) /\ Range(c.row[j]) = NumberOf(ids, W)
    BY <1>2, <1>8, <1>10, <2>2
  <2> HIDE DEF U, W
  <2> QED BY <1>2, <2>3, NumbersAreApart
<1>16. ASSUME NEW i \in 1 .. m, Range(c.row[i]) # {} PROVE i \in c.groups
  <2>1. Range(t.row[ids[i]]) # {}
    BY <1>10, <1>16 DEF NumberOf
  <2>2. ids[i] \in G
    BY <1>7, <2>1 DEF Once, OnlyIn
  <2> QED BY <1>4, <1>6, <2>2
<1>17. ASSUME NEW Z \in SUBSET (1 .. m), Range(c.roots) \subseteq Z,
              \A i \in Z : Range(c.row[i]) \subseteq Z
       PROVE  Z = 1 .. m
  <2> DEFINE U == {ids[k] : k \in Z}
  <2>1. \A k \in 1 .. m : ids[k] \in Range(ids) /\ PositionIn(ids, ids[k]) = k
    BY <1>2, PositionsNumber
  <2>2. \A y \in Range(ids) : PositionIn(ids, y) \in 1 .. m /\ ids[PositionIn(ids, y)] = y
    BY <1>2, PositionsNumber
  <2>3. R \subseteq U
    <3>1. \A y \in R : PositionIn(ids, y) \in Z
      BY <1>9, <1>17 DEF NumberOf
    <3> QED BY <1>2, <1>3, <2>2, <3>1
  <2>4. Closed(t, U)
    <3> SUFFICES ASSUME NEW k \in Z, NEW y \in Range(t.row[ids[k]]) PROVE y \in U
      BY DEF Closed
    <3>1. y \in Range(ids)
      BY <1>2, <1>8
    <3>2. PositionIn(ids, y) \in Z
      BY <1>10, <1>17 DEF NumberOf
    <3> QED BY <2>2, <3>1, <3>2
  <2> HIDE DEF U
  <2>5. T \subseteq U
    BY <2>3, <2>4, RootsReach DEF R, T
  <2>6. ASSUME NEW k \in 1 .. m PROVE k \in Z
    <3>1. PICK j \in Z : ids[j] = ids[k]
      BY <1>7, <2>5 DEF U
    <3> QED BY <2>1, <3>1
  <2> QED BY <2>6
<1>18. ClipReached(c)
  <2> SUFFICES ASSUME NEW Z \in SUBSET (1 .. m), Range(c.roots) \subseteq Z,
                      \A i \in Z : Range(c.row[i]) \subseteq Z, NEW i \in 1 .. m
               PROVE  Range(c.row[i]) \subseteq Z
    BY <1>12 DEF ClipReached
  <2>1. Z = 1 .. m
    BY <1>17
  <2> QED BY <2>1
<1>19. ClipOnce(c)
  BY <1>9, <1>10, <1>12, <1>14, <1>15, <1>16, <1>18 DEF ClipOnce
<1> QED BY <1>13, <1>19 DEF c

Fresh(s, n) == [i \in DOMAIN s |-> n + s[i]]
Above(U, n) == {n + k : k \in U}

LEMMA FreshLists ==
  ASSUME MaxCues \in Nat, NEW n \in Nat, NEW m \in Nat, n + m <= MaxCues,
         NEW s \in Seq(1 .. m), IsInjective(s)
  PROVE  /\ Fresh(s, n) \in Seq(Cue) /\ IsInjective(Fresh(s, n))
         /\ Range(Fresh(s, n)) = Above(Range(s), n)
<1> DEFINE a == Fresh(s, n)
<1>1. Len(s) \in Nat /\ DOMAIN s = 1 .. Len(s) /\ \A i \in DOMAIN s : s[i] \in 1 .. m
  OBVIOUS
<1>2. DOMAIN a = DOMAIN s /\ \A i \in DOMAIN s : a[i] = n + s[i]
  BY DEF Fresh
<1>3. \A i \in DOMAIN s : a[i] \in Cue
  BY <1>1, <1>2 DEF Cue
<1>4. a \in Seq(Cue)
  <2>1. a = [i \in 1 .. Len(s) |-> a[i]]
    BY <1>1 DEF Fresh
  <2> HIDE DEF a
  <2> QED BY <1>1, <1>2, <1>3, <2>1
<1> HIDE DEF a
<1>5. IsInjective(a)
  <2> SUFFICES ASSUME NEW i \in DOMAIN s, NEW j \in DOMAIN s, a[i] = a[j] PROVE i = j
    BY <1>2 DEF IsInjective
  <2>1. n + s[i] = n + s[j] /\ s[i] \in Nat /\ s[j] \in Nat
    BY <1>1, <1>2
  <2>2. s[i] = s[j]
    BY <2>1
  <2> QED BY <2>2 DEF IsInjective
<1>6. Range(a) = Above(Range(s), n)
  BY <1>2 DEF Range, Above
<1> QED BY <1>4, <1>5, <1>6 DEF a

LEMMA AboveIsApart ==
  ASSUME NEW n \in Nat, NEW m \in Nat, NEW U, U \subseteq 1 .. m
  PROVE  /\ Above(U, n) \subseteq n + 1 .. n + m
         /\ \A W : W \subseteq 1 .. m /\ U \cap W = {} => Above(U, n) \cap Above(W, n) = {}
<1>1. \A k \in 1 .. m : k \in Nat /\ n + k \in n + 1 .. n + m
  OBVIOUS
<1>2. \A k, l \in 1 .. m : n + k = n + l => k = l
  OBVIOUS
<1> QED BY <1>1, <1>2 DEF Above

\* paste_cue: the forest is grafted into a row, with new cues only.
LEMMA PastedKeeps ==
  ASSUME MaxCues \in Nat, NEW t \in Tree, NEW G, NEW H, Once(t, G), NEW n \in Nat,
         NEW c, ClipTyped(c), ClipOnce(c), c.roots # << >>, n + Len(c.row) <= MaxCues,
         Listed(t) \subseteq 1 .. n, G \subseteq H, Above(c.groups, n) \subseteq H,
         NEW after \in Listed(t) \cup {NoCue}
  PROVE  /\ Pasted(t, c, n, after) \in Tree /\ Once(Pasted(t, c, n, after), H)
         /\ Listed(t) \subseteq Listed(Pasted(t, c, n, after))
         /\ Listed(Pasted(t, c, n, after)) \subseteq 1 .. n + Len(c.row)
         /\ ParkedAtTop(t) => ParkedAtTop(Pasted(t, c, n, after))
<1> DEFINE u == Pasted(t, c, n, after)
           m == Len(c.row)
           N == n + 1 .. n + m
           anchored == after \in Listed(t)
           place == IF anchored THEN PlaceOf(t, after) ELSE Top
           s == t.row[place]
           at == IF anchored THEN PositionIn(t.row[place], after) ELSE Len(t.row[Top])
           new == SubSeq(s, 1, at) \o Fresh(c.roots, n) \o SubSeq(s, at + 1, Len(s))
           A == [p \in Place |-> IF p \in N THEN Above(Range(c.row[p - n]), n)
                                 ELSE IF p = place THEN Above(Range(c.roots), n) ELSE {}]
<1>1. /\ Top \in Place /\ Top \notin Cue /\ Cue \subseteq Place /\ Listed(t) \subseteq Cue
      /\ \A p \in Place : t.row[p] \in Seq(Cue) /\ Range(t.row[p]) \subseteq Listed(t)
                          /\ IsInjective(t.row[p])
      /\ t.playhead \in Cue \cup {NoCue} /\ t = [row |-> t.row, playhead |-> t.playhead]
      /\ \A p \in Place : p = Top \/ p \in Cue
      /\ \A x \in Listed(t) : \E p \in Place : x \in Range(t.row[p])
  BY Rows DEF Once, Apart
<1>2. /\ m \in Nat /\ DOMAIN c.row = 1 .. m /\ c.roots \in Seq(1 .. m) /\ c.groups \subseteq 1 .. m
      /\ \A i \in 1 .. m : c.row[i] \in Seq(1 .. m)
      /\ Copies(c) = 1 .. m
  BY DEF ClipTyped, Copies
<1>3. N \subseteq Cue /\ N \cap Listed(t) = {} /\ Top \notin N /\ N \cup (1 .. n) = 1 .. n + m
  <2>1. N \cap (1 .. n) = {} /\ N \subseteq Cue /\ N \cup (1 .. n) = 1 .. n + m
    BY <1>2 DEF Cue
  <2> QED BY <1>1, <2>1
<1>4. \A p \in N : p - n \in 1 .. m /\ n + (p - n) = p /\ p \in Place
  BY <1>1, <1>2, <1>3
<1>5. \A p \in N : Range(t.row[p]) = {}
  BY <1>3, UnlistedAreBare
<1>6. /\ u.playhead = IF anchored \/ t.playhead # NoCue THEN t.playhead ELSE n + c.roots[1]
      /\ u = [row |-> u.row, playhead |-> u.playhead]
      /\ u.row = [p \in Place |-> IF p \in N THEN Fresh(c.row[p - n], n)
                                   ELSE IF p # place THEN t.row[p]
                                   ELSE SubSeq(t.row[p], 1, at) \o Fresh(c.roots, n)
                                          \o SubSeq(t.row[p], at + 1, Len(t.row[p]))]
  BY DEF Pasted, Fresh
<1>7. place \in Place /\ place \in Listed(t) \cup {Top} /\ place \notin N
  <2>1. CASE anchored
    <3>1. after \in Range(t.row[PlaceOf(t, after)]) /\ PlaceOf(t, after) \in Place
      BY <1>1, <2>1 DEF PlaceOf
    <3>2. place = PlaceOf(t, after)
      BY <2>1
    <3> HIDE DEF place, N
    <3>3. place \notin N
      BY <1>5, <3>1, <3>2
    <3>4. place \in Listed(t) \cup {Top}
      BY <1>1, <3>1, <3>2, UnlistedAreBare
    <3> QED BY <3>1, <3>2, <3>3, <3>4
  <2>2. CASE ~anchored
    BY <1>1, <1>3, <2>2
  <2> QED BY <2>1, <2>2
<1>8. s \in Seq(Cue) /\ IsInjective(s) /\ Range(s) \subseteq Listed(t)
  BY <1>1, <1>7
<1>9. at + 1 \in 1 .. Len(s) + 1 /\ at \in Nat /\ (at + 1) - 1 = at
  <2>1. CASE anchored
    <3>1. after \in Range(t.row[PlaceOf(t, after)])
      BY <1>1, <2>1 DEF PlaceOf
    <3>2. at = PositionIn(s, after) /\ after \in Range(s)
      BY <2>1, <3>1
    <3> HIDE DEF at, s, anchored, place
    <3>3. at \in 1 .. Len(s) /\ Len(s) \in Nat
      BY <1>8, <3>2, Found
    <3> QED BY <3>3
  <2>2. CASE ~anchored
    <3>1. at = Len(s)
      BY <2>2
    <3> HIDE DEF at, s, anchored, place
    <3>2. Len(s) \in Nat
      BY <1>8
    <3> QED BY <3>1, <3>2
  <2> QED BY <2>1, <2>2
<1>10. \A p \in Place : /\ p \in N => u.row[p] = Fresh(c.row[p - n], n)
                        /\ p \notin N /\ p # place => u.row[p] = t.row[p]
                        /\ p = place => u.row[p] = new
  <2> HIDE DEF u, N, anchored, at
  <2>1. \A p \in Place : u.row[p] = IF p \in N THEN Fresh(c.row[p - n], n)
                                    ELSE IF p # place THEN t.row[p]
                                    ELSE SubSeq(t.row[p], 1, at) \o Fresh(c.roots, n)
                                           \o SubSeq(t.row[p], at + 1, Len(t.row[p]))
    BY <1>6
  <2> HIDE DEF place
  <2> QED BY <1>7, <2>1
<1> HIDE DEF at, s
<1>11. /\ new \in Seq(Cue) /\ IsInjective(new) /\ Range(new) = Range(s) \cup Above(Range(c.roots), n)
  <2> DEFINE f == Fresh(c.roots, n)
  <2>1. f \in Seq(Cue) /\ IsInjective(f) /\ Range(f) = Above(Range(c.roots), n)
    BY <1>2, FreshLists DEF ClipOnce
  <2>2. Range(c.roots) \subseteq 1 .. m
    BY <1>2, Members
  <2>3. Range(f) \subseteq N
    <3> HIDE DEF f, m
    <3>1. Above(Range(c.roots), n) \subseteq n + 1 .. n + m
      BY <1>2, <2>2, AboveIsApart DEF m
    <3> QED BY <2>1, <3>1
  <2> HIDE DEF f
  <2>4. new = Inserted(s, f, at + 1)
    BY <1>9 DEF Inserted, f
  <2>5. Range(s) \cap Range(f) = {}
    BY <1>3, <1>8, <2>3
  <2> HIDE DEF new, N
  <2>6. /\ Inserted(s, f, at + 1) \in Seq(Cue) /\ IsInjective(Inserted(s, f, at + 1))
        /\ Range(Inserted(s, f, at + 1)) = Range(s) \cup Range(f)
    BY <1>8, <1>9, <2>1, <2>5, InsertLists
  <2> QED BY <2>1, <2>4, <2>6
<1> HIDE DEF u, new
<1>12. \A i \in 1 .. m : /\ Range(c.row[i]) \subseteq 1 .. m
                         /\ Fresh(c.row[i], n) \in Seq(Cue) /\ IsInjective(Fresh(c.row[i], n))
                         /\ Range(Fresh(c.row[i], n)) = Above(Range(c.row[i]), n)
  <2>1. \A i \in 1 .. m : c.row[i] \in Seq(1 .. m) /\ IsInjective(c.row[i])
    BY <1>2 DEF ClipOnce
  <2> QED BY <1>2, <2>1, FreshLists, Members
<1>13. Range(c.roots) \subseteq 1 .. m
  BY <1>2, Members
<1> HIDE DEF m, anchored, place
<1>14. \A p \in Place : /\ u.row[p] \in Seq(Cue) /\ IsInjective(u.row[p])
                        /\ Range(u.row[p]) = Range(t.row[p]) \cup A[p]
  <2> SUFFICES ASSUME NEW p \in Place
               PROVE  /\ u.row[p] \in Seq(Cue) /\ IsInjective(u.row[p])
                      /\ Range(u.row[p]) = Range(t.row[p]) \cup A[p]
    OBVIOUS
  <2>1. CASE p \in N
    <3>1. u.row[p] = Fresh(c.row[p - n], n) /\ A[p] = Above(Range(c.row[p - n]), n)
          /\ Range(t.row[p]) = {} /\ p - n \in 1 .. m
      BY <1>4, <1>5, <1>10, <2>1
    <3> HIDE DEF A, N
    <3> QED BY <1>12, <3>1
  <2>2. CASE p = place
    <3>1. u.row[p] = new /\ A[p] = Above(Range(c.roots), n)
      BY <1>7, <1>10, <2>2
    <3> HIDE DEF A, N
    <3> QED BY <1>11, <2>2, <3>1 DEF s
  <2>3. CASE p \notin N /\ p # place
    <3>1. u.row[p] = t.row[p] /\ A[p] = {}
      BY <1>10, <2>3
    <3> HIDE DEF A, N
    <3> QED BY <1>1, <3>1
  <2> QED BY <2>1, <2>2, <2>3
<1>15. u.row \in [Place -> Seq(Cue)]
  <2>1. \A p \in Place : u.row[p] \in Seq(Cue)
    BY <1>14
  <2>2. u.row = [p \in Place |-> u.row[p]]
    BY <1>6
  <2> QED BY <2>1, <2>2
<1>16. c.roots[1] \in Range(c.roots) /\ n + c.roots[1] \in Above(Range(c.roots), n)
  <2>1. c.roots[1] \in Range(c.roots)
    BY <1>2, Members
  <2> QED BY <2>1 DEF Above
<1>17. Above(Range(c.roots), n) \subseteq N
  BY <1>2, <1>13, AboveIsApart DEF m
<1>18. u \in Tree
  <2>1. u.playhead \in Cue \cup {NoCue}
    BY <1>1, <1>3, <1>6, <1>16, <1>17
  <2> QED BY <1>6, <1>15, <2>1 DEF Tree
<1>19. A \in [Place -> SUBSET N]
  <2>1. \A p \in N : Above(Range(c.row[p - n]), n) \subseteq N
    <3>1. \A i \in 1 .. m : Above(Range(c.row[i]), n) \subseteq N
      BY <1>2, <1>12, AboveIsApart DEF m
    <3> QED BY <1>4, <3>1
  <2> QED BY <1>17, <2>1
<1>20. ASSUME NEW p \in Place, NEW q \in Place, p # q PROVE A[p] \cap A[q] = {}
  <2>1. CASE p \in N /\ q \in N
    <3> DEFINE i == p - n
               j == q - n
    <3>1. i \in 1 .. m /\ j \in 1 .. m /\ n + i = p /\ n + j = q
      BY <1>4, <2>1
    <3>2. A[p] = Above(Range(c.row[i]), n) /\ A[q] = Above(Range(c.row[j]), n)
      BY <2>1
    <3> HIDE DEF i, j, A, N
    <3>3. i # j
      BY <1>20, <3>1
    <3>4. Range(c.row[i]) \cap Range(c.row[j]) = {}
      BY <1>2, <3>1, <3>3 DEF ClipOnce
    <3> DEFINE U == Range(c.row[i])
               W == Range(c.row[j])
    <3>5. U \subseteq 1 .. m /\ W \subseteq 1 .. m /\ U \cap W = {} /\ m \in Nat
      BY <1>2, <1>12, <3>1, <3>4 DEF m
    <3>6. A[p] = Above(U, n) /\ A[q] = Above(W, n)
      BY <3>2
    <3> HIDE DEF U, W
    <3>7. Above(U, n) \cap Above(W, n) = {}
      BY <3>5, AboveIsApart
    <3> QED BY <3>6, <3>7
  <2>2. ASSUME NEW r \in Place, r \in N
        PROVE  Above(Range(c.roots), n) \cap A[r] = {}
    <3> DEFINE i == r - n
    <3>1. i \in 1 .. m
      BY <1>4, <2>2
    <3>2. A[r] = Above(Range(c.row[i]), n)
      BY <2>2
    <3> HIDE DEF i, A, N
    <3>3. Range(c.roots) \cap Range(c.row[i]) = {}
      BY <1>2, <3>1 DEF ClipOnce
    <3> QED BY <1>2, <1>12, <1>13, <3>1, <3>2, <3>3, AboveIsApart DEF m
  <2>3. \A r \in Place : r \notin N => A[r] = IF r = place THEN Above(Range(c.roots), n) ELSE {}
    OBVIOUS
  <2> HIDE DEF A, N
  <2> QED BY <1>20, <2>1, <2>2, <2>3
<1>21. ASSUME NEW S \in SUBSET N, \A p \in Listed(t) \cup {Top} \cup S : A[p] \subseteq S,
              NEW p \in Place
       PROVE  A[p] \subseteq S
  <2> DEFINE Z == {k \in 1 .. m : n + k \in S}
  <2>1. Z \in SUBSET Copies(c)
    BY <1>2 DEF m
  <2>2. \A U \in SUBSET (1 .. m) : Above(U, n) \subseteq S <=> U \subseteq Z
    BY DEF Above
  <2>3. A[place] \subseteq S /\ A[place] = Above(Range(c.roots), n)
    <3>1. A[place] = Above(Range(c.roots), n)
      BY <1>7
    <3> HIDE DEF A, N
    <3> QED BY <1>7, <1>21, <3>1
  <2>4. Range(c.roots) \subseteq Z
    <3> HIDE DEF Z, A
    <3> QED BY <1>13, <2>2, <2>3
  <2>5. ASSUME NEW i \in 1 .. m PROVE n + i \in N /\ A[n + i] = Above(Range(c.row[i]), n)
    <3>1. n + i \in N /\ (n + i) - n = i
      BY <1>2 DEF m
    <3>2. n + i \in Place
      BY <1>4, <3>1
    <3> HIDE DEF N
    <3> QED BY <3>1, <3>2
  <2>6. \A i \in Z : Range(c.row[i]) \subseteq Z
    <3>1. \A i \in Z : i \in 1 .. m /\ n + i \in S
      OBVIOUS
    <3>2. \A i \in Z : A[n + i] \subseteq S
      BY <1>21, <3>1
    <3> SUFFICES ASSUME NEW i \in Z PROVE Range(c.row[i]) \subseteq Z
      OBVIOUS
    <3>3. i \in 1 .. m /\ A[n + i] = Above(Range(c.row[i]), n) /\ A[n + i] \subseteq S
      BY <2>5, <3>1, <3>2
    <3> HIDE DEF Z, A
    <3>4. Range(c.row[i]) \subseteq 1 .. m /\ Above(Range(c.row[i]), n) \subseteq S
      BY <1>12, <3>3
    <3> QED BY <2>2, <3>4
  <2>7. \A i \in 1 .. m : Range(c.row[i]) \subseteq Z
    <3> HIDE DEF Z
    <3> QED BY <1>2, <2>1, <2>4, <2>6 DEF ClipOnce, ClipReached
  <2>8. CASE p \in N
    <3>1. p - n \in 1 .. m /\ n + (p - n) = p
      BY <1>4, <2>8
    <3> HIDE DEF Z, A, N
    <3>2. A[p] = Above(Range(c.row[p - n]), n)
      BY <2>5, <3>1
    <3> QED BY <1>12, <2>2, <2>7, <3>1, <3>2
  <2>9. CASE p \notin N
    <3>1. A[p] = {} \/ p = place
      BY <2>9
    <3> HIDE DEF A
    <3> QED BY <2>3, <3>1
  <2> QED BY <2>8, <2>9
<1>22. Grafts(t, u, N, A)
  <2> HIDE DEF A, N
  <2> QED BY <1>14, <1>19, <1>20, <1>21 DEF Grafts
<1>23. ASSUME NEW p \in Cue, A[p] # {} PROVE p \in H
  <2>1. CASE p \in N
    <3>1. p - n \in 1 .. m /\ n + (p - n) = p
      BY <1>4, <2>1
    <3>2. A[p] = Above(Range(c.row[p - n]), n)
      BY <1>1, <2>1
    <3>3. Range(c.row[p - n]) # {}
      BY <1>23, <3>2 DEF Above
    <3>4. p - n \in c.groups
      BY <1>2, <3>1, <3>3 DEF ClipOnce
    <3>5. p \in Above(c.groups, n)
      BY <3>1, <3>4 DEF Above
    <3> QED BY <3>5
  <2>2. CASE p \notin N
    <3>1. p = place /\ p # Top
      BY <1>1, <1>23, <2>2
    <3>2. anchored
      BY <3>1 DEF place
    <3>3. after \in Range(t.row[place])
      BY <1>1, <3>2 DEF PlaceOf, place, anchored
    <3> QED BY <3>1, <3>3 DEF Once, OnlyIn
  <2> QED BY <2>1, <2>2
<1>24. N \in SUBSET (Cue \ Listed(t))
  BY <1>3
<1>25. Once(u, H)
  <2>1. \A p \in Cue : A[p] # {} => p \in H
    BY <1>23
  <2> HIDE DEF A, N
  <2> QED BY <1>18, <1>22, <1>24, <2>1, GraftedKeeps
<1>26. Listed(u) \subseteq 1 .. n + m
  <2>1. \A p \in Place : A[p] \subseteq N
    BY <1>19
  <2> HIDE DEF A, N
  <2>2. \A p \in Place : Range(u.row[p]) \subseteq Listed(t) \cup N
    BY <1>1, <1>14, <2>1
  <2>3. Listed(u) \subseteq Listed(t) \cup N
    BY <2>2 DEF Listed
  <2>4. Listed(t) \subseteq 1 .. n + m /\ N \subseteq 1 .. n + m
    BY <1>3
  <2> QED BY <2>3, <2>4
<1>27. ASSUME ParkedAtTop(t) PROVE ParkedAtTop(u)
  <2>1. TopLevel(t) \subseteq TopLevel(u)
    <3>1. Range(u.row[Top]) = Range(t.row[Top]) \cup A[Top]
      BY <1>1, <1>14
    <3> HIDE DEF A
    <3> QED BY <3>1 DEF TopLevel
  <2>2. ~anchored => n + c.roots[1] \in TopLevel(u)
    <3>1. ~anchored => place = Top
      BY DEF place
    <3> QED BY <1>7, <1>10, <1>11, <1>16, <3>1 DEF TopLevel
  <2> HIDE DEF A, N
  <2> QED BY <1>6, <1>27, <2>1, <2>2 DEF ParkedAtTop
<1>28. Listed(t) \subseteq Listed(u)
  <2> HIDE DEF A
  <2> QED BY <1>14 DEF Listed
<1> QED BY <1>18, <1>25, <1>26, <1>27, <1>28 DEF u, m

(***************************************************************************)
(* Editing: what every recorded edit makes of the active list              *)
(***************************************************************************)
\* The show, the history and the clipboard hold trees of the cues given out.
EditorTypes ==
  /\ active \in List /\ show \in [List -> Tree] /\ busy \in [List -> SUBSET Cue]
  /\ past \in Seq(Tree) /\ future \in Seq(Tree)
  /\ used \in Nat /\ FileCues <= used /\ used <= MaxCues /\ FileGroups \subseteq groups
  /\ ClipTyped(clipboard) /\ ClipOnce(clipboard)

Snapshots == Range(past) \cup Range(future)

GivenOut ==
  /\ \A l \in List : Listed(show[l]) \subseteq 1 .. used
  /\ \A t \in Snapshots : Listed(t) \subseteq 1 .. used

\* What an edit makes of the active list, once the known losses are left out.
EditMade ==
  /\ used' \in Nat /\ used <= used' /\ used' <= MaxCues /\ groups \subseteq groups'
  /\ show'[active] \in Tree /\ \A l \in List \ {active} : show'[l] = show[l]
  /\ show' = [l \in List |-> show'[l]]
  /\ Listed(show'[active]) \subseteq 1 .. used'
  /\ "duplicateTree" \notin Operations => Once(show'[active], groups')
  /\ "groupPlayhead" \notin Operations /\ ParkedAtTop(Current) => ParkedAtTop(show'[active])
  /\ busy' \in [List -> SUBSET Cue] /\ \A l \in List \ {active} : busy'[l] = busy[l]
  /\ "nestInside" \notin Operations /\ busy[active] \subseteq Listed(Current)
       => busy'[active] \subseteq Listed(show'[active])
  /\ UNCHANGED <<active, clipboard>>

Editing == EditorTypes /\ GivenOut /\ Editable

LEMMA OnceGrows ==
  ASSUME NEW t, NEW G, NEW H, Once(t, G), G \subseteq H
  PROVE  Once(t, H)
BY DEF Once, OnlyIn

LEMMA EditingCurrent ==
  ASSUME Editing
  PROVE  /\ MaxCues \in Nat /\ Current \in Tree /\ Once(Current, groups)
         /\ Listed(Current) \subseteq 1 .. used /\ active \in List
<1>1. MaxCues \in Nat /\ Current \in Tree /\ active \in List /\ Listed(Current) \subseteq 1 .. used
  BY BoundsAssumption DEF Editing, EditorTypes, GivenOut, Current
<1>2. Once(Current, groups)
  BY <1>1, OnceIs DEF Editing, Editable
<1> QED BY <1>1, <1>2

\* A new tree of the active list, with nothing stopped.
LEMMA EditMakes ==
  ASSUME Editing, NEW t \in Tree, Edit(t), UNCHANGED busy,
         used' \in Nat, used <= used', used' <= MaxCues, groups \subseteq groups',
         Listed(t) \subseteq 1 .. used', "duplicateTree" \notin Operations => Once(t, groups'),
         "groupPlayhead" \notin Operations /\ ParkedAtTop(Current) => ParkedAtTop(t),
         "nestInside" \notin Operations => Listed(Current) \subseteq Listed(t)
  PROVE  EditMade
<1>1. /\ show' = [show EXCEPT ![active] = t] /\ UNCHANGED <<active, clipboard>>
      /\ show \in [List -> Tree] /\ active \in List /\ busy \in [List -> SUBSET Cue]
  BY DEF Edit, Editing, EditorTypes
<1>2. /\ show'[active] = t /\ \A l \in List \ {active} : show'[l] = show[l]
      /\ show' = [l \in List |-> show'[l]]
  BY <1>1
<1> QED BY <1>1, <1>2 DEF EditMade

LEMMA InPlaceMakes ==
  ASSUME Editing, NEW t \in Tree, EditInPlace(t), Once(t, groups),
         Listed(t) \subseteq Listed(Current),
         ParkedAtTop(Current) => ParkedAtTop(t),
         "nestInside" \notin Operations => Listed(Current) \subseteq Listed(t)
  PROVE  EditMade
<1>1. Edit(t) /\ UNCHANGED <<busy, groups, used>>
  BY DEF EditInPlace
<1>2. Listed(t) \subseteq 1 .. used /\ used \in Nat /\ used <= MaxCues
  BY EditingCurrent DEF Editing, EditorTypes
<1> QED BY <1>1, <1>2, EditMakes

LEMMA WithNewMakes ==
  ASSUME Editing, NEW t \in Tree, NEW n \in Nat, NEW N, EditWithNew(t, n, N),
         Listed(t) \subseteq 1 .. used + n,
         "duplicateTree" \notin Operations => Once(t, groups \cup N),
         "groupPlayhead" \notin Operations /\ ParkedAtTop(Current) => ParkedAtTop(t),
         Listed(Current) \subseteq Listed(t)
  PROVE  EditMade
<1>1. Edit(t) /\ UNCHANGED busy /\ used' = used + n /\ used + n <= MaxCues
      /\ groups' = groups \cup N
  BY DEF EditWithNew
<1>2. used \in Nat
  BY DEF Editing, EditorTypes
<1>3. used' \in Nat /\ used <= used' /\ used' <= MaxCues /\ Listed(t) \subseteq 1 .. used'
  BY <1>1, <1>2
<1>4. "duplicateTree" \notin Operations => Once(t, groups')
  BY <1>1
<1> QED BY <1>1, <1>3, <1>4, EditMakes

LEMMA AddMakes == Editing /\ AddCue => EditMade
<1> SUFFICES ASSUME Editing, AddCue PROVE EditMade
  OBVIOUS
<1>1. PICK i \in 1 .. Len(Current.row[Top]) + 1, isGroup \in BOOLEAN :
        EditWithNew(Pushed(Current, used + 1, i), 1, IF isGroup THEN {used + 1} ELSE {})
  BY DEF AddCue
<1> DEFINE N == IF isGroup THEN {used + 1} ELSE {}
           x == used + 1
           t == Pushed(Current, x, i)
<1>2. /\ MaxCues \in Nat /\ Current \in Tree /\ Once(Current, groups)
      /\ Listed(Current) \subseteq 1 .. used /\ used \in Nat
  BY EditingCurrent DEF Editing, EditorTypes
<1>3. EditWithNew(t, 1, N) /\ used + 1 <= MaxCues
  BY <1>1 DEF EditWithNew
<1>4. x \in Cue \ Listed(Current)
  BY <1>2, <1>3 DEF Cue
<1> HIDE DEF N
<1>5. /\ t \in Tree /\ Once(t, groups \cup N) /\ Listed(t) = Listed(Current) \cup {x}
      /\ ParkedAtTop(Current) => ParkedAtTop(t)
  BY <1>2, <1>4, PushedKeeps
<1>6. Listed(t) \subseteq 1 .. used + 1 /\ Listed(Current) \subseteq Listed(t)
  BY <1>2, <1>5
<1> HIDE DEF t
<1> QED BY <1>3, <1>5, <1>6, WithNewMakes

LEMMA SelectionIsSeq ==
  ASSUME NEW S, NEW ids \in SelectionOf(S)
  PROVE  ids \in Seq(S) /\ IsInjective(ids) /\ ids # << >> /\ Len(ids) \in Nat
<1>1. PICK n \in 1 .. MaxSelected : ids \in [1 .. n -> S]
  BY DEF SelectionOf
<1>2. n \in Nat \ {0}
  BY <1>1, BoundsAssumption
<1>3. ids \in Seq(S) /\ Len(ids) = n
  BY <1>1, <1>2
<1>4. IsInjective(ids)
  BY DEF SelectionOf, IsInjective
<1> QED BY <1>2, <1>3, <1>4

LEMMA UnmovedMakes == Editing /\ EditWithoutMove => EditMade
<1> SUFFICES ASSUME Editing, EditInPlace(Current) PROVE EditMade
  BY DEF EditWithoutMove
<1> QED BY EditingCurrent, InPlaceMakes

LEMMA RemoveMakes == Editing /\ RemoveCues => EditMade
<1> SUFFICES ASSUME Editing, RemoveCues PROVE EditMade
  OBVIOUS
<1>1. PICK S \in SUBSET Listed(Current) :
        /\ Edit(Removed(Current, S))
        /\ busy' = [busy EXCEPT ![active] = @ \ UNION {Subtree(Current, x) : x \in S}]
        /\ UNCHANGED <<groups, used>>
  BY DEF RemoveCues
<1> DEFINE t == Removed(Current, S)
           gone == UNION {Subtree(Current, x) : x \in S}
<1>2. /\ MaxCues \in Nat /\ Current \in Tree /\ Once(Current, groups)
      /\ Listed(Current) \subseteq 1 .. used /\ used \in Nat /\ used <= MaxCues
      /\ show \in [List -> Tree] /\ active \in List /\ busy \in [List -> SUBSET Cue]
  BY EditingCurrent DEF Editing, EditorTypes
<1>3. /\ t \in Tree /\ Once(t, groups) /\ Listed(t) = Listed(Current) \ gone
      /\ ParkedAtTop(Current) => ParkedAtTop(t)
  <2> HIDE DEF gone
  <2>1. Listed(t) = Listed(Current) \ UNION {Subtree(Current, x) : x \in S}
    BY <1>2, RemovedKeeps
  <2>2. t \in Tree /\ Once(t, groups) /\ (ParkedAtTop(Current) => ParkedAtTop(t))
    BY <1>2, RemovedKeeps
  <2> QED BY <2>1, <2>2 DEF gone
<1>4. busy' = [busy EXCEPT ![active] = busy[active] \ gone]
  BY <1>1
<1>5. show' = [show EXCEPT ![active] = t] /\ UNCHANGED <<active, clipboard>>
  BY <1>1 DEF Edit
<1> HIDE DEF t, gone
<1>6. /\ show'[active] = t /\ \A l \in List \ {active} : show'[l] = show[l]
      /\ show' = [l \in List |-> show'[l]]
  BY <1>2, <1>5
<1>7. /\ busy' \in [List -> SUBSET Cue] /\ busy'[active] = busy[active] \ gone
      /\ \A l \in List \ {active} : busy'[l] = busy[l]
  BY <1>2, <1>4
<1> QED BY <1>1, <1>2, <1>3, <1>5, <1>6, <1>7 DEF EditMade

LEMMA UngroupMakes == Editing /\ Ungroup => EditMade
<1> SUFFICES ASSUME Editing, Ungroup PROVE EditMade
  OBVIOUS
<1>1. PICK g \in groups \cap TopLevel(Current) :
        /\ Edit(Ungrouped(Current, g))
        /\ busy' = [busy EXCEPT ![active] = @ \ {g}]
        /\ UNCHANGED <<groups, used>>
  BY DEF Ungroup
<1> DEFINE t == Ungrouped(Current, g)
<1>2. /\ MaxCues \in Nat /\ Current \in Tree /\ Once(Current, groups)
      /\ Listed(Current) \subseteq 1 .. used /\ used \in Nat /\ used <= MaxCues
      /\ show \in [List -> Tree] /\ active \in List /\ busy \in [List -> SUBSET Cue]
  BY EditingCurrent DEF Editing, EditorTypes
<1>3. /\ t \in Tree /\ Once(t, groups) /\ Listed(t) = Listed(Current) \ {g}
      /\ ParkedAtTop(Current) => ParkedAtTop(t)
  BY <1>2, UngroupedKeeps
<1>5. show' = [show EXCEPT ![active] = t] /\ UNCHANGED <<active, clipboard>>
  BY <1>1 DEF Edit
<1> HIDE DEF t
<1>6. /\ show'[active] = t /\ \A l \in List \ {active} : show'[l] = show[l]
      /\ show' = [l \in List |-> show'[l]]
  BY <1>2, <1>5
<1>7. /\ busy' \in [List -> SUBSET Cue] /\ busy'[active] = busy[active] \ {g}
      /\ \A l \in List \ {active} : busy'[l] = busy[l]
  BY <1>1, <1>2
<1> QED BY <1>1, <1>2, <1>3, <1>5, <1>6, <1>7 DEF EditMade

LEMMA DuplicateMakes == Editing /\ DuplicateCues => EditMade
<1> SUFFICES ASSUME Editing, DuplicateCues PROVE EditMade
  OBVIOUS
<1>1. PICK ids \in SelectionOf(Listed(Current)) :
        /\ (\E x \in Range(ids) : Current.row[x] # << >>) => "duplicateTree" \in Operations
        /\ used + Len(ids) <= MaxCues
        /\ EditWithNew(Duplicated(Current, ids, used), Len(ids),
                       {used + i : i \in {j \in DOMAIN ids : ids[j] \in groups}})
  BY DEF DuplicateCues
<1> DEFINE t == Duplicated(Current, ids, used)
           n == Len(ids)
           N == {used + i : i \in {j \in DOMAIN ids : ids[j] \in groups}}
<1>2. /\ MaxCues \in Nat /\ Current \in Tree /\ Once(Current, groups)
      /\ Listed(Current) \subseteq 1 .. used /\ used \in Nat
  BY EditingCurrent DEF Editing, EditorTypes
<1>3. ids \in Seq(Listed(Current)) /\ n \in Nat
  BY <1>1, SelectionIsSeq
<1>4. EditWithNew(t, n, N) /\ used + n <= MaxCues
  BY <1>1
<1> HIDE DEF N
<1> DEFINE H == groups \cup N
<1>5. groups \subseteq H
  OBVIOUS
<1> HIDE DEF H
<1>6. /\ t \in Tree /\ Listed(Current) \subseteq Listed(t) /\ Listed(t) \subseteq 1 .. used + n
      /\ (\A x \in Range(ids) : Current.row[x] = << >>) => Once(t, H)
      /\ ParkedAtTop(Current) => ParkedAtTop(t)
  BY <1>1, <1>2, <1>3, <1>5, DuplicatedKeeps
<1>7. "duplicateTree" \notin Operations => Once(t, groups \cup N)
  BY <1>1, <1>6 DEF H
<1> HIDE DEF t, n
<1> QED BY <1>3, <1>4, <1>6, <1>7, WithNewMakes

LEMMA PasteMakes == Editing /\ PasteCues => EditMade
<1> SUFFICES ASSUME Editing, PasteCues PROVE EditMade
  OBVIOUS
<1>1. PICK after \in Listed(Current) \cup {NoCue} :
        EditWithNew(Pasted(Current, clipboard, used, after), Len(clipboard.row),
                    {used + i : i \in clipboard.groups})
  BY DEF PasteCues
<1> DEFINE t == Pasted(Current, clipboard, used, after)
           n == Len(clipboard.row)
           N == Above(clipboard.groups, used)
           H == groups \cup N
<1>2. /\ MaxCues \in Nat /\ Current \in Tree /\ Once(Current, groups)
      /\ Listed(Current) \subseteq 1 .. used /\ used \in Nat
      /\ ClipTyped(clipboard) /\ ClipOnce(clipboard) /\ n \in Nat
  BY EditingCurrent DEF Editing, EditorTypes, ClipTyped
<1>3. EditWithNew(t, n, N) /\ used + n <= MaxCues /\ clipboard.roots # << >>
  BY <1>1 DEF Above, PasteCues
<1>4. groups \subseteq H /\ N \subseteq H
  OBVIOUS
<1> HIDE DEF H
<1>5. /\ t \in Tree /\ Once(t, H) /\ Listed(Current) \subseteq Listed(t)
      /\ Listed(t) \subseteq 1 .. used + n
      /\ ParkedAtTop(Current) => ParkedAtTop(t)
  BY <1>2, <1>3, <1>4, PastedKeeps
<1>6. Once(t, groups \cup N)
  BY <1>5 DEF H
<1> HIDE DEF t, n, N
<1> QED BY <1>2, <1>3, <1>5, <1>6, WithNewMakes

\* Moves within the tree, and what they keep.
MoveMade ==
  EditMade /\ ("nestInside" \notin Operations => Listed(Current) \subseteq Listed(show'[active]))

LEMMA InPlaceShows ==
  ASSUME Editing, NEW t \in Tree, Edit(t)
  PROVE  show'[active] = t
BY DEF Edit, Editing, EditorTypes

LEMMA MoveCuesMakes == Editing /\ MoveCues => MoveMade
<1> SUFFICES ASSUME Editing, MoveCues PROVE MoveMade
  OBVIOUS
<1>1. PICK ids \in SelectionOf(TopLevel(Current)), before \in TopLevel(Current) \cup {NoCue} :
        EditInPlace(MovedBefore(Current, ids, before))
  BY DEF MoveCues, Selection
<1> DEFINE t == MovedBefore(Current, ids, before)
<1>2. MaxCues \in Nat /\ Current \in Tree /\ Once(Current, groups)
  BY EditingCurrent
<1>3. ids \in Seq(TopLevel(Current)) /\ IsInjective(ids)
  BY SelectionIsSeq
<1>4. /\ t \in Tree /\ Once(t, groups) /\ Listed(t) = Listed(Current)
      /\ ParkedAtTop(Current) => ParkedAtTop(t)
  BY <1>2, <1>3, MovedBeforeKeeps
<1>5. EditInPlace(t)
  BY <1>1
<1> HIDE DEF t
<1>6. EditMade
  BY <1>4, <1>5, InPlaceMakes
<1>7. show'[active] = t
  BY <1>4, <1>5, InPlaceShows DEF EditInPlace
<1> QED BY <1>4, <1>6, <1>7 DEF MoveMade

LEMMA GroupMakes == Editing /\ GroupCues => MoveMade
<1> SUFFICES ASSUME Editing, GroupCues PROVE MoveMade
  OBVIOUS
<1>1. PICK ids \in SelectionOf(TopLevel(Current)) :
        /\ Current.playhead \in Range(ids) => "groupPlayhead" \in Operations
        /\ EditWithNew(Grouped(Current, ids, used + 1), 1, {used + 1})
  BY DEF GroupCues, Selection
<1> DEFINE g == used + 1
           t == Grouped(Current, ids, g)
           H == groups \cup {g}
<1>2. /\ MaxCues \in Nat /\ Current \in Tree /\ Once(Current, groups)
      /\ Listed(Current) \subseteq 1 .. used /\ used \in Nat
  BY EditingCurrent DEF Editing, EditorTypes
<1>3. ids \in Seq(TopLevel(Current)) /\ IsInjective(ids) /\ ids # << >>
  BY SelectionIsSeq
<1>4. EditWithNew(t, 1, {g}) /\ used + 1 <= MaxCues
  BY <1>1 DEF EditWithNew
<1>5. g \in Cue \ Listed(Current) /\ Listed(Current) \cup {g} \subseteq 1 .. used + 1
  BY <1>2, <1>4 DEF Cue
<1>6. groups \subseteq H /\ g \in H
  OBVIOUS
<1> HIDE DEF g, H
<1>7. /\ t \in Tree /\ Once(t, H)
      /\ Listed(Current) \subseteq Listed(t) /\ Listed(t) \subseteq Listed(Current) \cup {g}
      /\ ParkedAtTop(Current) /\ Current.playhead \notin Range(ids) => ParkedAtTop(t)
  <2>1. g \in Cue \ Listed(Current)
    BY <1>5
  <2>2. /\ MaxCues \in Nat /\ Current \in Tree /\ Once(Current, groups) /\ groups \subseteq H
        /\ ids \in Seq(TopLevel(Current)) /\ IsInjective(ids) /\ ids # << >>
        /\ g \in Cue \ Listed(Current) /\ g \in H
    BY <1>2, <1>3, <1>6, <2>1
  <2> QED BY <2>2, GroupedKeeps
<1>8. "groupPlayhead" \notin Operations /\ ParkedAtTop(Current) => ParkedAtTop(t)
  BY <1>1, <1>7
<1>9. Once(t, groups \cup {g}) /\ Listed(t) \subseteq 1 .. used + 1 /\ Listed(Current) \subseteq Listed(t)
  BY <1>5, <1>7 DEF H
<1> HIDE DEF t
<1>10. EditMade
  BY <1>4, <1>7, <1>8, <1>9, WithNewMakes
<1>11. show'[active] = t
  BY <1>4, <1>7, InPlaceShows DEF EditWithNew
<1> QED BY <1>9, <1>10, <1>11 DEF MoveMade

LEMMA IntoGroupMakes ==
  ASSUME Editing, NEW x, NEW g \in groups, NEW i \in 1 .. Len(Current.row[g]) + 1,
         AddCueToGroup(x, g, i)
  PROVE  MoveMade
<1> DEFINE t == MovedIntoGroup(Current, x, g, i)
<1>1. MaxCues \in Nat /\ Current \in Tree /\ Once(Current, groups)
  BY EditingCurrent
<1>2. /\ x \in Listed(Current) /\ g \in Listed(Current) \cap groups
      /\ g \in Subtree(Current, x) => "nestInside" \in Operations
      /\ EditInPlace(t)
  BY DEF AddCueToGroup
<1>3. i \in Nat \ {0}
  OBVIOUS
<1>4. /\ t \in Tree /\ Once(t, groups) /\ Listed(t) \subseteq Listed(Current)
      /\ g \notin Subtree(Current, x) => Listed(t) = Listed(Current)
      /\ ParkedAtTop(Current) => ParkedAtTop(t)
  BY <1>1, <1>2, <1>3, MovedIntoGroupKeeps
<1> HIDE DEF t
<1>5. "nestInside" \notin Operations => Listed(Current) \subseteq Listed(t)
  BY <1>2, <1>4
<1>6. EditMade
  BY <1>2, <1>4, <1>5, InPlaceMakes
<1>7. show'[active] = t
  BY <1>2, <1>4, InPlaceShows DEF EditInPlace
<1> QED BY <1>5, <1>6, <1>7 DEF MoveMade

LEMMA OutOfGroupMakes ==
  ASSUME Editing, NEW x, NEW g, RemoveCueFromGroup(x, g)
  PROVE  MoveMade
<1> DEFINE t == TakenOutOfGroup(Current, g, x)
<1>1. MaxCues \in Nat /\ Current \in Tree /\ Once(Current, groups)
  BY EditingCurrent
<1>2. g \in TopLevel(Current) /\ x \in Range(Current.row[g]) /\ EditInPlace(t)
  BY DEF RemoveCueFromGroup
<1>3. /\ t \in Tree /\ Once(t, groups) /\ Listed(t) = Listed(Current)
      /\ ParkedAtTop(Current) => ParkedAtTop(t)
  BY <1>1, <1>2, TakenOutKeeps
<1> HIDE DEF t
<1>4. EditMade
  BY <1>2, <1>3, InPlaceMakes
<1>5. show'[active] = t
  BY <1>2, <1>3, InPlaceShows DEF EditInPlace
<1> QED BY <1>3, <1>4, <1>5 DEF MoveMade

LEMMA ToTopLevelMakes ==
  ASSUME Editing, NEW x, NEW before, MoveToTopLevel(x, before)
  PROVE  MoveMade
<1> DEFINE t == MovedToTopLevel(Current, x, before)
<1>1. MaxCues \in Nat /\ Current \in Tree /\ Once(Current, groups)
  BY EditingCurrent
<1>2. x \in Listed(Current) /\ EditInPlace(t)
  BY DEF MoveToTopLevel
<1>3. /\ t \in Tree /\ Once(t, groups) /\ Listed(t) = Listed(Current)
      /\ ParkedAtTop(Current) => ParkedAtTop(t)
  BY <1>1, <1>2, MovedToTopLevelKeeps
<1> HIDE DEF t
<1>4. EditMade
  BY <1>2, <1>3, InPlaceMakes
<1>5. show'[active] = t
  BY <1>2, <1>3, InPlaceShows DEF EditInPlace
<1> QED BY <1>3, <1>4, <1>5 DEF MoveMade

LEMMA MoveMakes == Editing /\ MoveInTree => MoveMade
<1> SUFFICES ASSUME Editing, MoveInTree PROVE MoveMade
  OBVIOUS
<1>1. CASE MoveCues
  BY <1>1, MoveCuesMakes
<1>2. CASE GroupCues
  BY <1>2, GroupMakes
<1>3. ASSUME NEW x \in Cue, NEW g \in groups, RemoveCueFromGroup(x, g) PROVE MoveMade
  BY <1>3, OutOfGroupMakes
<1>4. ASSUME NEW x \in Cue, NEW g \in groups, NEW i \in 1 .. Len(Current.row[g]) + 1,
             AddCueToGroup(x, g, i)
      PROVE  MoveMade
  BY <1>4, IntoGroupMakes
<1>5. ASSUME NEW x \in Cue, NEW before \in Cue \cup {NoCue}, MoveToTopLevel(x, before)
      PROVE  MoveMade
  BY <1>5, ToTopLevelMakes
<1> QED BY <1>1, <1>2, <1>3, <1>4, <1>5 DEF MoveInTree

LEMMA EditListMakes == EditorTypes /\ GivenOut /\ EditList => EditMade
<1> SUFFICES ASSUME EditorTypes, GivenOut, EditList PROVE EditMade
  OBVIOUS
<1>1. Editing
  BY DEF Editing, EditList
<1> QED BY <1>1, AddMakes, UnmovedMakes, RemoveMakes, UngroupMakes, DuplicateMakes, PasteMakes,
           MoveMakes DEF EditList, MoveMade

(***************************************************************************)
(* The invariant                                                           *)
(***************************************************************************)
\* What the history may hold, whatever is recorded next.
LEMMA SnapshotsAre ==
  ASSUME EditorTypes, Shaped, [Next]_vars
  PROVE  /\ past' \in Seq(Tree) /\ future' \in Seq(Tree)
         /\ Snapshots' \subseteq Snapshots \cup {Current}
<1> DEFINE T == Tree
<1>1. past \in Seq(T) /\ future \in Seq(T) /\ Current \in T
  BY DEF EditorTypes, Current
<1> HIDE DEF T
<1>2. ASSUME NEW s \in Seq(T) PROVE Append(s, Current) \in Seq(T)
                                   /\ Range(Append(s, Current)) = Range(s) \cup {Current}
  BY <1>1, AppendLists
<1>3. ASSUME NEW s \in Seq(T), s # << >>
      PROVE  /\ Front(s) \in Seq(T) /\ Range(Front(s)) \subseteq Range(s)
             /\ Tail(s) \in Seq(T) /\ Range(Tail(s)) \subseteq Range(s)
  <2>1. Front(s) \in Seq(T) /\ Len(s) \in Nat \ {0} /\ Len(Front(s)) = Len(s) - 1
        /\ \A i \in 1 .. Len(s) - 1 : Front(s)[i] = s[i]
    BY <1>3, Ends
  <2>2. \A i \in DOMAIN Front(s) : i \in DOMAIN s /\ Front(s)[i] = s[i]
    BY <2>1
  <2>3. Tail(s) \in Seq(T) /\ \A i \in DOMAIN Tail(s) : i + 1 \in DOMAIN s /\ Tail(s)[i] = s[i + 1]
    BY <1>3
  <2> QED BY <2>1, <2>2, <2>3 DEF Range
<1>4. /\ << >> \in Seq(T) /\ Range(<< >>) = {}
  BY DEF Range
<1>5. CASE EditList
  <2>1. Record
    BY <1>5, EditsRecord
  <2>2. Len(past) < MaxUndo \/ past # << >>
    <3>1. past = << >> => Len(past) = 0
      OBVIOUS
    <3> QED BY <3>1, BoundsAssumption
  <2>3. CASE Len(past) < MaxUndo
    <3>1. past' = Append(past, Current) /\ future' = << >>
      BY <2>1, <2>3 DEF Record
    <3> QED BY <1>1, <1>2, <1>4, <3>1 DEF Snapshots, T
  <2>4. CASE ~(Len(past) < MaxUndo)
    <3>1. past' = Append(Tail(past), Current) /\ future' = << >>
      BY <2>1, <2>4 DEF Record
    <3>2. Tail(past) \in Seq(T) /\ Range(Tail(past)) \subseteq Range(past)
      BY <1>1, <1>3, <2>2, <2>4
    <3> QED BY <1>2, <1>4, <3>1, <3>2 DEF Snapshots, T
  <2> QED BY <2>3, <2>4
<1>6. CASE Undo
  <2>1. past # << >> /\ past' = Front(past) /\ future' = Append(future, Current)
    BY <1>6 DEF Undo
  <2> QED BY <1>1, <1>2, <1>3, <2>1 DEF Snapshots, T
<1>7. CASE Redo
  <2>1. future # << >> /\ past' = Append(past, Current) /\ future' = Front(future)
    BY <1>7 DEF Redo
  <2> QED BY <1>1, <1>2, <1>3, <2>1 DEF Snapshots, T
<1>8. CASE Elsewhere \/ UNCHANGED vars
  <2>1. UNCHANGED <<past, future>>
    BY <1>8, ElsewhereKeepsHistory DEF vars
  <2> QED BY <1>1, <2>1 DEF Snapshots, T
<1> QED BY <1>5, <1>6, <1>7, <1>8, NextSplit

\* What the steps that record no edit make of a list and of what runs in it.
Left(l) == show'[l] = show[l] /\ busy'[l] \subseteq busy[l] \cup Listed(show[l])
Back(l) ==
  /\ \E t \in Snapshots : show'[l] = Restored(t)
  /\ busy'[l] = busy[l] /\ busy[l] \cap Listed(show[l]) = {}
Parks(l) == show'[l].row = show[l].row /\ busy'[l] = busy[l] /\ ParkedAtTop(show'[l])
Emptied(l) == show'[l] = EmptyTree /\ busy'[l] = {}
Opened(l) == busy'[l] = {} /\ \E p \in Project : show'[l] = p.show[l]

OtherStep ==
  /\ UNCHANGED <<used, groups>> /\ ClipTyped(clipboard') /\ ClipOnce(clipboard')
  /\ show' \in [List -> Tree] /\ busy' \in [List -> SUBSET Cue]
  /\ \A l \in List : Left(l) \/ Back(l) \/ Parks(l) \/ Emptied(l) \/ Opened(l)

LEMMA WalkingBack ==
  ASSUME EditorTypes, NEW t \in Snapshots, Idle, show' = [show EXCEPT ![active] = Restored(t)],
         UNCHANGED <<busy, groups, used, clipboard>>
  PROVE  OtherStep
<1>1. /\ MaxCues \in Nat /\ show \in [List -> Tree] /\ busy \in [List -> SUBSET Cue]
      /\ active \in List /\ ClipTyped(clipboard) /\ ClipOnce(clipboard)
  BY BoundsAssumption DEF EditorTypes
<1>2. t \in Tree
  <2> DEFINE T == Tree
  <2>1. past \in Seq(T) /\ future \in Seq(T)
    BY DEF EditorTypes
  <2> HIDE DEF T
  <2>2. Range(past) \subseteq T /\ Range(future) \subseteq T
    BY <2>1, Members
  <2> QED BY <2>2 DEF Snapshots, T
<1>3. Restored(t) \in Tree
  BY <1>1, <1>2, RestoredKeeps
<1>4. /\ show' \in [List -> Tree] /\ show'[active] = Restored(t)
      /\ \A l \in List : l # active => show'[l] = show[l]
  BY <1>1, <1>3
<1>5. Back(active)
  BY <1>4 DEF Back, Idle, Current
<1>6. \A l \in List : l # active => Left(l)
  BY <1>4 DEF Left
<1> QED BY <1>1, <1>4, <1>5, <1>6 DEF OtherStep

LEMMA CopyStep == EditorTypes /\ CopyCues => OtherStep
<1> SUFFICES ASSUME EditorTypes, CopyCues PROVE OtherStep
  OBVIOUS
<1>1. PICK S \in SUBSET Listed(Current) : clipboard' = Copied(Current, S, groups)
  BY DEF CopyCues
<1>2. /\ EachListedOnce(Current, groups) /\ UNCHANGED <<show, busy, groups, used>>
      /\ show \in [List -> Tree] /\ busy \in [List -> SUBSET Cue] /\ MaxCues \in Nat
      /\ Current \in Tree
  BY BoundsAssumption DEF CopyCues, Editable, EditorTypes, Current
<1>3. Once(Current, groups)
  BY <1>2, OnceIs
<1>4. ClipTyped(clipboard') /\ ClipOnce(clipboard')
  BY <1>1, <1>2, <1>3, CopiedIsOnce
<1>5. \A l \in List : Left(l)
  BY <1>2 DEF Left
<1> QED BY <1>2, <1>4, <1>5 DEF OtherStep

LEMMA PlayheadStep == EditorTypes /\ SetPlayhead => OtherStep
<1> SUFFICES ASSUME EditorTypes, SetPlayhead PROVE OtherStep
  OBVIOUS
<1>1. PICK x \in Listed(Current) \cup {NoCue} :
        show' = [show EXCEPT ![active].playhead = Parked(Current, x)]
  BY DEF SetPlayhead
<1>2. /\ EachListedOnce(Current, groups) /\ UNCHANGED <<busy, groups, used, clipboard>>
      /\ show \in [List -> Tree] /\ busy \in [List -> SUBSET Cue] /\ MaxCues \in Nat
      /\ Current \in Tree /\ active \in List /\ ClipTyped(clipboard) /\ ClipOnce(clipboard)
  BY BoundsAssumption DEF SetPlayhead, EditorTypes, Current
<1>3. Once(Current, groups)
  BY <1>2, OnceIs
<1> DEFINE a == Parked(Current, x)
<1>4. a \in TopLevel(Current) \cup {NoCue}
  BY <1>2, <1>3, ParkedIsAtTop
<1> HIDE DEF a
<1> DEFINE t == [Current EXCEPT !.playhead = a]
<1>5. Current = [row |-> Current.row, playhead |-> Current.playhead]
      /\ Current.row \in [Place -> Seq(Cue)] /\ TopLevel(Current) \subseteq Cue
  BY <1>2, Rows
<1>6. t = [row |-> Current.row, playhead |-> a]
  BY <1>5
<1>7. t \in Tree /\ t.row = Current.row /\ ParkedAtTop(t)
  BY <1>4, <1>5, <1>6 DEF Tree, ParkedAtTop, TopLevel
<1>8. show' = [show EXCEPT ![active] = t]
  BY <1>1, <1>2 DEF a, Current
<1> HIDE DEF t
<1>9. /\ show' \in [List -> Tree] /\ show'[active] = t
      /\ \A l \in List : l # active => show'[l] = show[l]
  BY <1>2, <1>7, <1>8
<1>10. Parks(active)
  BY <1>2, <1>7, <1>9 DEF Parks, Current
<1>11. \A l \in List : l # active => Left(l)
  BY <1>2, <1>9 DEF Left
<1> QED BY <1>2, <1>9, <1>10, <1>11 DEF OtherStep

LEMMA OtherSteps == EditorTypes /\ [Next]_vars => EditList \/ OtherStep
<1> SUFFICES ASSUME EditorTypes, [Next]_vars PROVE EditList \/ OtherStep
  OBVIOUS
<1> USE DEF EditorTypes
<1>1. /\ MaxCues \in Nat /\ show \in [List -> Tree] /\ busy \in [List -> SUBSET Cue]
      /\ active \in List /\ ClipTyped(clipboard) /\ ClipOnce(clipboard)
      /\ past \in Seq(Tree) /\ future \in Seq(Tree)
  BY BoundsAssumption
<1>2. CASE Undo
  <2>1. past # << >> /\ show' = [show EXCEPT ![active] = Restored(Last(past))] /\ Idle
        /\ UNCHANGED <<busy, groups, used, clipboard>>
    BY <1>2 DEF Undo
  <2>2. Last(past) \in Snapshots
    <3> DEFINE T == Tree
    <3>1. past \in Seq(T)
      BY <1>1
    <3> HIDE DEF T
    <3> QED BY <2>1, <3>1, Members DEF Snapshots
  <2> QED BY <2>1, <2>2, WalkingBack
<1>3. CASE Redo
  <2>1. future # << >> /\ show' = [show EXCEPT ![active] = Restored(Last(future))] /\ Idle
        /\ UNCHANGED <<busy, groups, used, clipboard>>
    BY <1>3 DEF Redo
  <2>2. Last(future) \in Snapshots
    <3> DEFINE T == Tree
    <3>1. future \in Seq(T)
      BY <1>1
    <3> HIDE DEF T
    <3> QED BY <2>1, <3>1, Members DEF Snapshots
  <2> QED BY <2>1, <2>2, WalkingBack
<1>4. CASE CopyCues
  BY <1>4, CopyStep
<1>5. CASE SetPlayhead
  BY <1>5, PlayheadStep
<1>6. ASSUME NEW l \in List, NEW x \in Cue, CueStarts(l, x) PROVE OtherStep
  <2>1. /\ x \in Listed(show[l]) /\ busy' = [busy EXCEPT ![l] = busy[l] \cup {x}]
        /\ UNCHANGED <<show, groups, used, clipboard>>
    BY <1>6 DEF CueStarts
  <2>2. /\ busy' \in [List -> SUBSET Cue] /\ busy'[l] = busy[l] \cup {x}
        /\ \A k \in List : k # l => busy'[k] = busy[k]
    BY <1>1, <2>1
  <2>3. \A k \in List : Left(k)
    BY <2>1, <2>2 DEF Left
  <2> QED BY <1>1, <2>1, <2>2, <2>3 DEF OtherStep
<1>7. ASSUME NEW l \in List, NEW x \in Cue, CueEnds(l, x) PROVE OtherStep
  <2>1. busy' = [busy EXCEPT ![l] = busy[l] \ {x}] /\ UNCHANGED <<show, groups, used, clipboard>>
    BY <1>7 DEF CueEnds
  <2>2. /\ busy' \in [List -> SUBSET Cue] /\ busy'[l] = busy[l] \ {x}
        /\ \A k \in List : k # l => busy'[k] = busy[k]
    BY <1>1, <2>1
  <2>3. \A k \in List : Left(k)
    BY <2>1, <2>2 DEF Left
  <2> QED BY <1>1, <2>1, <2>2, <2>3 DEF OtherStep
<1>8. ASSUME NEW l \in List, AddCueList(l) \/ RemoveCueList(l) PROVE OtherStep
  <2>1. /\ show' = [show EXCEPT ![l] = EmptyTree] /\ busy' = [busy EXCEPT ![l] = {}]
        /\ UNCHANGED <<groups, used, clipboard>>
    BY <1>8 DEF AddCueList, RemoveCueList
  <2>2. EmptyTree \in Tree /\ {} \in SUBSET Cue
    BY <1>1, EmptyKeeps
  <2>3. /\ show' \in [List -> Tree] /\ busy' \in [List -> SUBSET Cue]
        /\ show'[l] = EmptyTree /\ busy'[l] = {}
        /\ \A k \in List : k # l => show'[k] = show[k] /\ busy'[k] = busy[k]
    BY <1>1, <2>1, <2>2
  <2>4. Emptied(l) /\ \A k \in List : k # l => Left(k)
    BY <2>3 DEF Emptied, Left
  <2> QED BY <1>1, <2>1, <2>3, <2>4 DEF OtherStep
<1>9. ASSUME NEW l \in List, SetActiveCueList(l) PROVE OtherStep
  <2>1. UNCHANGED <<show, busy, groups, used, clipboard>>
    BY <1>9 DEF SetActiveCueList
  <2> QED BY <1>1, <2>1 DEF OtherStep, Left
<1>10. ASSUME NEW p \in Project, OpenShow(p) PROVE OtherStep
  <2>1. /\ show' = p.show /\ busy' = [l \in List |-> {}] /\ UNCHANGED <<groups, used, clipboard>>
    BY <1>10 DEF OpenShow
  <2>2. p.show \in [List -> Tree]
    BY ProjectAssumption
  <2>3. \A l \in List : Opened(l)
    BY <2>1 DEF Opened
  <2> QED BY <1>1, <2>1, <2>2, <2>3 DEF OtherStep
<1>11. CASE UNCHANGED vars
  <2>1. UNCHANGED <<show, busy, groups, used, clipboard>>
    BY <1>11 DEF vars
  <2> QED BY <1>1, <2>1 DEF OtherStep, Left
<1> HIDE DEF EditorTypes
<1> QED BY <1>2, <1>3, <1>4, <1>5, <1>6, <1>7, <1>8, <1>9, <1>10, <1>11 DEF Next

\* The same cues in the same places.
LEMMA SameRows ==
  ASSUME NEW t, NEW u, u.row = t.row
  PROVE  Listed(u) = Listed(t) /\ \A G : Once(t, G) => Once(u, G)
<1>1. Listed(u) = Listed(t)
  BY DEF Listed
<1>2. TopLevel(u) = TopLevel(t)
  BY DEF TopLevel
<1> QED BY <1>1, <1>2 DEF Once, Apart, OnlyIn, Reached, Closed

\* What a project file holds.
LEMMA OpenedLists ==
  ASSUME NEW p \in Project, NEW l \in List
  PROVE  /\ p.show[l] \in Tree /\ Once(p.show[l], FileGroups) /\ ParkedAtTop(p.show[l])
         /\ Listed(p.show[l]) \subseteq 1 .. FileCues
<1>1. MaxCues \in Nat /\ p.show[l] \in Tree
  BY BoundsAssumption, ProjectAssumption
<1>2. EachListedOnce(p.show[l], FileGroups) /\ Listed(p.show[l]) \subseteq 1 .. FileCues
      /\ ParkedAtTop(p.show[l])
  BY OpenedShowsAssumption DEF ParkedAtTop
<1> QED BY <1>1, <1>2, OnceIs

\* What is promised of every list, and of the lists the history keeps.
OnceEverywhere ==
  (\A l \in List : Once(show[l], groups)) /\ \A t \in Snapshots : Once(t, groups)
ParkedEverywhere == \A l \in List : ParkedAtTop(show[l])

LEMMA InitialEditor ==
  Init => EditorTypes /\ GivenOut /\ OnceEverywhere /\ ParkedEverywhere /\ BusyCuesAreListed
<1> SUFFICES ASSUME Init
             PROVE  EditorTypes /\ GivenOut /\ OnceEverywhere /\ ParkedEverywhere /\ BusyCuesAreListed
  OBVIOUS
<1>1. PICK p \in Project : active = p.active /\ show = p.show
  BY DEF Init
<1>2. active \in List /\ show \in [List -> Tree]
  <2>1. p.order \in Seq(List) /\ p.active \in Range(p.order) /\ p.show \in [List -> Tree]
    BY ProjectAssumption
  <2>2. Range(p.order) \subseteq List
    BY <2>1, Members
  <2> QED BY <1>1, <2>1, <2>2
<1>3. /\ busy \in [List -> SUBSET Cue] /\ \A l \in List : busy[l] = {}
  BY DEF Init
<1>4. /\ past = << >> /\ future = << >> /\ past \in Seq(Tree) /\ future \in Seq(Tree)
      /\ groups = FileGroups /\ used = FileCues /\ clipboard = EmptyClipboard
      /\ used \in Nat /\ used <= MaxCues
  BY BoundsAssumption DEF Init
<1>5. Snapshots = {}
  BY <1>4 DEF Snapshots, Range
<1>6. EditorTypes
  BY <1>2, <1>3, <1>4, EmptyClipboardIsOnce DEF EditorTypes
<1>7. \A l \in List : /\ Once(show[l], groups) /\ ParkedAtTop(show[l])
                      /\ Listed(show[l]) \subseteq 1 .. used
  BY <1>1, <1>4, OpenedLists
<1> QED BY <1>3, <1>5, <1>6, <1>7 DEF GivenOut, OnceEverywhere, ParkedEverywhere, BusyCuesAreListed

LEMMA SnapshotsAreTrees == EditorTypes => \A t \in Snapshots : t \in Tree
<1> SUFFICES ASSUME EditorTypes PROVE \A t \in Snapshots : t \in Tree
  OBVIOUS
<1> DEFINE T == Tree
<1>1. past \in Seq(T) /\ future \in Seq(T)
  BY DEF EditorTypes
<1> HIDE DEF T
<1>2. Range(past) \subseteq T /\ Range(future) \subseteq T
  BY <1>1, Members
<1> QED BY <1>2 DEF Snapshots, T

\* Steps that record no edit show no cue that was not given out.
LEMMA OtherListed ==
  ASSUME EditorTypes, GivenOut, OtherStep, NEW l \in List
  PROVE  Listed(show'[l]) \subseteq 1 .. used
<1>1. Left(l) \/ Back(l) \/ Parks(l) \/ Emptied(l) \/ Opened(l)
  BY DEF OtherStep
<1>2. MaxCues \in Nat /\ Listed(show[l]) \subseteq 1 .. used
      /\ \A t \in Snapshots : Listed(t) \subseteq 1 .. used
  BY BoundsAssumption DEF GivenOut
<1>3. CASE Left(l)
  BY <1>2, <1>3 DEF Left
<1>4. CASE Back(l)
  <2>1. PICK t \in Snapshots : show'[l] = Restored(t)
    BY <1>4 DEF Back
  <2>2. Listed(Restored(t)) = Listed(t)
    BY <1>2, <2>1, SnapshotsAreTrees, RestoredKeeps
  <2> QED BY <1>2, <2>1, <2>2
<1>5. CASE Parks(l)
  <2>1. show'[l].row = show[l].row
    BY <1>5 DEF Parks
  <2>2. Listed(show'[l]) = Listed(show[l])
    BY <2>1, SameRows
  <2> QED BY <1>2, <2>2
<1>6. CASE Emptied(l)
  BY <1>2, <1>6, EmptyKeeps DEF Emptied
<1>7. CASE Opened(l)
  <2>1. PICK p \in Project : show'[l] = p.show[l]
    BY <1>7 DEF Opened
  <2>2. Listed(show'[l]) \subseteq 1 .. FileCues
    BY <2>1, OpenedLists
  <2>3. FileCues <= used /\ used \in Nat /\ FileCues \in Nat
    BY BoundsAssumption DEF EditorTypes
  <2> QED BY <2>2, <2>3
<1> QED BY <1>1, <1>3, <1>4, <1>5, <1>6, <1>7

LEMMA EditorStays ==
  EditorTypes /\ GivenOut /\ Shaped /\ Shaped' /\ [Next]_vars => EditorTypes' /\ GivenOut'
<1> SUFFICES ASSUME EditorTypes, GivenOut, Shaped, Shaped', [Next]_vars
             PROVE  EditorTypes' /\ GivenOut'
  OBVIOUS
<1>1. /\ past' \in Seq(Tree) /\ future' \in Seq(Tree)
      /\ Snapshots' \subseteq Snapshots \cup {Current} /\ active' \in List
  BY SnapshotsAre DEF Shaped
<1>2. /\ show \in [List -> Tree] /\ active \in List /\ used \in Nat /\ FileCues <= used
      /\ FileCues \in Nat /\ FileGroups \subseteq groups /\ used <= MaxCues
      /\ ClipTyped(clipboard) /\ ClipOnce(clipboard)
  BY BoundsAssumption DEF EditorTypes
<1>3. \A t \in Snapshots' : Listed(t) \subseteq 1 .. used
  BY <1>1, <1>2 DEF GivenOut, Current
<1>4. CASE EditList
  <2>1. EditMade
    BY <1>4, EditListMakes
  <2>2. /\ used' \in Nat /\ used <= used' /\ used' <= MaxCues /\ groups \subseteq groups'
        /\ show'[active] \in Tree /\ \A l \in List \ {active} : show'[l] = show[l]
        /\ show' = [l \in List |-> show'[l]] /\ busy' \in [List -> SUBSET Cue]
        /\ Listed(show'[active]) \subseteq 1 .. used' /\ UNCHANGED <<active, clipboard>>
    BY <2>1 DEF EditMade
  <2>3. FileCues <= used' /\ 1 .. used \subseteq 1 .. used'
    BY <1>2, <2>2
  <2>4. \A l \in List : show'[l] \in Tree /\ Listed(show'[l]) \subseteq 1 .. used'
    BY <1>2, <2>2, <2>3 DEF GivenOut
  <2>5. show' \in [List -> Tree]
    BY <2>2, <2>4
  <2>6. GivenOut'
    BY <1>3, <2>3, <2>4 DEF GivenOut
  <2>7. ClipTyped(clipboard') /\ ClipOnce(clipboard')
    BY <1>2, <2>2
  <2> QED BY <1>1, <1>2, <2>2, <2>3, <2>5, <2>6, <2>7 DEF EditorTypes
<1>5. CASE OtherStep
  <2>1. /\ UNCHANGED <<used, groups>> /\ ClipTyped(clipboard') /\ ClipOnce(clipboard')
        /\ show' \in [List -> Tree] /\ busy' \in [List -> SUBSET Cue]
    BY <1>5 DEF OtherStep
  <2>2. \A l \in List : Listed(show'[l]) \subseteq 1 .. used'
    BY <1>5, <2>1, OtherListed
  <2>3. GivenOut'
    BY <1>3, <2>1, <2>2 DEF GivenOut
  <2> QED BY <1>1, <1>2, <2>1, <2>3 DEF EditorTypes
<1> QED BY <1>4, <1>5, OtherSteps

\* Each cue in one place.  The snapshots are of lists that were, so they hold as
\* long as the lists do.
LEMMA OnceStays ==
  /\ EditorTypes /\ GivenOut /\ Shaped /\ OnceEverywhere /\ [Next]_vars
  /\ "duplicateTree" \notin Operations
  => OnceEverywhere'
<1> SUFFICES ASSUME EditorTypes, GivenOut, Shaped, OnceEverywhere, [Next]_vars,
                    "duplicateTree" \notin Operations
             PROVE  OnceEverywhere'
  OBVIOUS
<1>1. /\ Snapshots' \subseteq Snapshots \cup {Current} /\ active \in List /\ MaxCues \in Nat
      /\ FileGroups \subseteq groups
  BY SnapshotsAre, BoundsAssumption DEF EditorTypes
<1>2. /\ \A l \in List : Once(show[l], groups)
      /\ \A t \in Snapshots \cup {Current} : Once(t, groups)
  BY <1>1 DEF OnceEverywhere, Current
<1>3. CASE EditList
  <2>1. EditMade
    BY <1>3, EditListMakes
  <2>2. /\ groups \subseteq groups' /\ Once(show'[active], groups')
        /\ \A l \in List \ {active} : show'[l] = show[l]
    BY <2>1 DEF EditMade
  <2>3. \A l \in List : Once(show'[l], groups')
    BY <1>2, <2>2, OnceGrows
  <2>4. \A t \in Snapshots' : Once(t, groups')
    BY <1>1, <1>2, <2>2, OnceGrows
  <2> QED BY <2>3, <2>4 DEF OnceEverywhere
<1>4. CASE OtherStep
  <2>1. groups' = groups
    BY <1>4 DEF OtherStep
  <2>2. ASSUME NEW l \in List PROVE Once(show'[l], groups)
    <3>1. Left(l) \/ Back(l) \/ Parks(l) \/ Emptied(l) \/ Opened(l)
      BY <1>4 DEF OtherStep
    <3>2. CASE Left(l)
      BY <1>2, <3>2 DEF Left
    <3>3. CASE Back(l)
      <4>1. PICK t \in Snapshots : show'[l] = Restored(t)
        BY <3>3 DEF Back
      <4>2. \A G : Once(t, G) => Once(Restored(t), G)
        BY <1>1, <4>1, SnapshotsAreTrees, RestoredKeeps
      <4> QED BY <1>2, <4>1, <4>2
    <3>4. CASE Parks(l)
      <4>1. show'[l].row = show[l].row
        BY <3>4 DEF Parks
      <4>2. \A G : Once(show[l], G) => Once(show'[l], G)
        BY <4>1, SameRows
      <4> QED BY <1>2, <4>2
    <3>5. CASE Emptied(l)
      BY <1>1, <3>5, EmptyKeeps DEF Emptied
    <3>6. CASE Opened(l)
      <4>1. PICK p \in Project : show'[l] = p.show[l]
        BY <3>6 DEF Opened
      <4>2. Once(show'[l], FileGroups)
        BY <4>1, OpenedLists
      <4> QED BY <1>1, <4>2, OnceGrows
    <3> QED BY <3>1, <3>2, <3>3, <3>4, <3>5, <3>6
  <2> QED BY <1>1, <1>2, <2>1, <2>2 DEF OnceEverywhere
<1> QED BY <1>3, <1>4, OtherSteps

\* The Playhead on a top-level cue.  Undo needs nothing of the snapshot it goes
\* back to: the Playhead is put right as it is restored.
LEMMA ParkedStays ==
  /\ EditorTypes /\ GivenOut /\ Shaped /\ ParkedEverywhere /\ [Next]_vars
  /\ "groupPlayhead" \notin Operations
  => ParkedEverywhere'
<1> SUFFICES ASSUME EditorTypes, GivenOut, Shaped, ParkedEverywhere, [Next]_vars,
                    "groupPlayhead" \notin Operations, NEW l \in List
             PROVE  ParkedAtTop(show'[l])
  BY DEF ParkedEverywhere
<1>1. active \in List /\ MaxCues \in Nat /\ ParkedAtTop(show[l]) /\ ParkedAtTop(Current)
  BY BoundsAssumption DEF EditorTypes, ParkedEverywhere, Current
<1>2. CASE EditList
  <2>1. EditMade
    BY <1>2, EditListMakes
  <2>2. ParkedAtTop(show'[active]) /\ \A k \in List \ {active} : show'[k] = show[k]
    BY <1>1, <2>1 DEF EditMade
  <2> QED BY <1>1, <2>2
<1>3. CASE OtherStep
  <2>1. Left(l) \/ Back(l) \/ Parks(l) \/ Emptied(l) \/ Opened(l)
    BY <1>3 DEF OtherStep
  <2>2. CASE Left(l)
    BY <1>1, <2>2 DEF Left
  <2>3. CASE Back(l)
    <3>1. PICK t \in Snapshots : show'[l] = Restored(t)
      BY <2>3 DEF Back
    <3> QED BY <1>1, <3>1, SnapshotsAreTrees, RestoredKeeps
  <2>4. CASE Parks(l)
    BY <2>4 DEF Parks
  <2>5. CASE Emptied(l)
    BY <1>1, <2>5, EmptyKeeps DEF Emptied
  <2>6. CASE Opened(l)
    <3>1. PICK p \in Project : show'[l] = p.show[l]
      BY <2>6 DEF Opened
    <3> QED BY <3>1, OpenedLists
  <2> QED BY <2>1, <2>2, <2>3, <2>4, <2>5, <2>6
<1> QED BY <1>2, <1>3, OtherSteps

\* What runs stays in its list: a list that is replaced is idle.
LEMMA BusyStays ==
  /\ EditorTypes /\ GivenOut /\ Shaped /\ BusyCuesAreListed /\ [Next]_vars
  /\ "nestInside" \notin Operations
  => BusyCuesAreListed'
<1> SUFFICES ASSUME EditorTypes, GivenOut, Shaped, BusyCuesAreListed, [Next]_vars,
                    "nestInside" \notin Operations, NEW l \in List
             PROVE  busy'[l] \subseteq Listed(show'[l])
  BY DEF BusyCuesAreListed
<1>1. active \in List /\ busy[l] \subseteq Listed(show[l]) /\ busy[active] \subseteq Listed(Current)
  BY DEF EditorTypes, BusyCuesAreListed, Current
<1>2. CASE EditList
  <2>1. EditMade
    BY <1>2, EditListMakes
  <2>2. /\ busy'[active] \subseteq Listed(show'[active])
        /\ \A k \in List \ {active} : show'[k] = show[k] /\ busy'[k] = busy[k]
    BY <1>1, <2>1 DEF EditMade
  <2> QED BY <1>1, <2>2
<1>3. CASE OtherStep
  <2>1. Left(l) \/ Back(l) \/ Parks(l) \/ Emptied(l) \/ Opened(l)
    BY <1>3 DEF OtherStep
  <2>2. CASE Left(l)
    BY <1>1, <2>2 DEF Left
  <2>3. CASE Back(l)
    BY <1>1, <2>3 DEF Back
  <2>4. CASE Parks(l)
    <3>1. show'[l].row = show[l].row /\ busy'[l] = busy[l]
      BY <2>4 DEF Parks
    <3>2. Listed(show'[l]) = Listed(show[l])
      BY <3>1, SameRows
    <3> QED BY <1>1, <3>1, <3>2
  <2>5. CASE Emptied(l) \/ Opened(l)
    BY <2>5 DEF Emptied, Opened
  <2> QED BY <2>1, <2>2, <2>3, <2>4, <2>5
<1> QED BY <1>2, <1>3, OtherSteps

LEMMA EditorInvariant == Spec => [](Shaped /\ EditorTypes /\ GivenOut)
<1>1. Inv => Shaped
  BY DEF Inv
<1>2. Init => EditorTypes /\ GivenOut
  BY InitialEditor
<1> QED BY Invariant, EditorStays, <1>1, <1>2, PTL DEF Spec

(***************************************************************************)
(* The theorems                                                            *)
(***************************************************************************)
\* Whatever is added, removed, moved, grouped, pasted, undone and opened, each
\* list shows each of its cues in one place, and only groups have children: as
\* long as no group is duplicated with its children, whose UUIDs are then given
\* twice.
THEOREM EachCueInOnePlace == "duplicateTree" \notin Operations => (Spec => []CuesInOnePlace)
<1> SUFFICES ASSUME "duplicateTree" \notin Operations PROVE Spec => []CuesInOnePlace
  OBVIOUS
<1>1. Init => OnceEverywhere
  BY InitialEditor
<1>2. Shaped /\ EditorTypes /\ GivenOut /\ OnceEverywhere /\ [Next]_vars => OnceEverywhere'
  BY OnceStays
<1>3. EditorTypes /\ OnceEverywhere => CuesInOnePlace
  <2>1. EditorTypes => MaxCues \in Nat /\ \A l \in List : show[l] \in Tree
    BY BoundsAssumption DEF EditorTypes
  <2> QED BY <2>1, OnceIs DEF OnceEverywhere, CuesInOnePlace
<1> QED BY <1>1, <1>2, <1>3, EditorInvariant, PTL DEF Spec

\* The next GO finds the Playhead of every list on a top-level cue, as long as no
\* group is made of the cue it is on.
THEOREM PlayheadStaysOnTop == "groupPlayhead" \notin Operations => (Spec => []PlayheadOnTopLevel)
<1> SUFFICES ASSUME "groupPlayhead" \notin Operations PROVE Spec => []PlayheadOnTopLevel
  OBVIOUS
<1>1. Init => ParkedEverywhere
  BY InitialEditor
<1>2. Shaped /\ EditorTypes /\ GivenOut /\ ParkedEverywhere /\ [Next]_vars => ParkedEverywhere'
  BY ParkedStays
<1>3. ParkedEverywhere => PlayheadOnTopLevel
  BY DEF ParkedEverywhere, PlayheadOnTopLevel, ParkedAtTop
<1> QED BY <1>1, <1>2, <1>3, EditorInvariant, PTL DEF Spec

\* A cue that runs is in its list, where it can be stopped, through every edit,
\* undo, redo and change of lists, as long as no group is moved into itself.
THEOREM RunningCuesStayListed == "nestInside" \notin Operations => (Spec => []BusyCuesAreListed)
<1> SUFFICES ASSUME "nestInside" \notin Operations PROVE Spec => []BusyCuesAreListed
  OBVIOUS
<1>1. Init => BusyCuesAreListed
  BY InitialEditor
<1>2. Shaped /\ EditorTypes /\ GivenOut /\ BusyCuesAreListed /\ [Next]_vars => BusyCuesAreListed'
  BY BusyStays
<1> QED BY <1>1, <1>2, EditorInvariant, PTL DEF Spec

\* Only an edit counts as one.
LEMMA OthersRecordNothing == [Next]_vars => EditList \/ edits' = edits
<1>1. Elsewhere => edits' = edits
  BY DEF Elsewhere, SetPlayhead, CopyCues, CueStarts, CueEnds, AddCueList, RemoveCueList,
         SetActiveCueList, OpenShow
<1>2. Undo \/ Redo => edits' = edits
  BY DEF Undo, Redo
<1> QED BY <1>1, <1>2, NextSplit DEF vars

\* Moving cues into, out of and between groups loses none of them, as long as no
\* group is moved into itself.
THEOREM MovesLoseNoCue == "nestInside" \notin Operations => (Spec => MovesKeepEveryCue)
<1> SUFFICES ASSUME "nestInside" \notin Operations PROVE Spec => MovesKeepEveryCue
  OBVIOUS
<1> DEFINE Loses == edits' # edits /\ ~(Listed(Current) \subseteq Listed(show'[active]))
<1>1. Shaped /\ EditorTypes /\ GivenOut /\ [Next]_vars => [Loses => ~MoveInTree]_vars
  <2> SUFFICES ASSUME EditorTypes, GivenOut, [Next]_vars, Loses, MoveInTree PROVE FALSE
    OBVIOUS
  <2>1. EditList
    BY OthersRecordNothing
  <2>2. Editing
    BY <2>1 DEF Editing, EditList
  <2>3. MoveMade
    BY <2>2, MoveMakes
  <2> QED BY <2>3 DEF MoveMade
<1> QED BY <1>1, EditorInvariant, PTL DEF Spec, MovesKeepEveryCue

===============================================================================
