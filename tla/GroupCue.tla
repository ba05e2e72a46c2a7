-------------------------------- MODULE GroupCue --------------------------------
(***************************************************************************)
(* One top-level group of cue/group_cue.rs and what drives it: the GO of   *)
(* show/transport.rs while the Playhead is on it, the tick of              *)
(* show/event_loop.rs, the transport commands on single cues, and the      *)
(* edits that change which children a group has and in what order, none of *)
(* which asks whether it runs.  The children are audio cues.               *)
(*                                                                         *)
(* Time is counted in units: Elapse lets one pass for every clock that     *)
(* runs.  A child's voice sounds until its cue has played its Length.      *)
(* Number cues, nested groups and edits of what is authored but the order  *)
(* and the disabled mark (mode, loop, waits, continue modes) are left out. *)
(***************************************************************************)
EXTENDS Integers, FiniteSetsExt, SequencesExt

CONSTANTS
  Child,   \* the cues that are in the group or may come into it
  Length,  \* Length[c]: how long its media plays
  Shows,   \* the groups to start from
  NoCue,   \* no child
  MaxActs  \* bound on the operator's commands

GroupModes == {"simultaneous", "sequential", "playlist", "startRandom"}
ContinueModes == {"doNotContinue", "autoContinue", "autoFollow"}

ASSUME LengthAssumption == Length \in [Child -> Nat \ {0}]
ASSUME NoCueAssumption == NoCue \notin Child
ASSUME ShowsAssumption ==
  Shows \subseteq [mode : GroupModes, loop : BOOLEAN, pre : Nat, kids : Seq(Child),
                   broken : SUBSET Child,
                   cm : [Child -> ContinueModes], post : [Child -> Nat]]
\* A child is one cue, in one place of its group.
ASSUME KidsAssumption == \A s \in Shows : IsInjective(s.kids)

VARIABLES
  show,      \* what is authored: mode, playlist_loop, pre-wait, the children whose
             \*   media is missing, their continue modes and post-waits
  kids,      \* the children, in order
  off,       \* the disabled ones
  gone,      \* the cues that were deleted
  g,         \* the group's own execution state
  ch,        \* ch[c]: state, auto-continue marker and clock of cue c
  here,      \* the Playhead of the list is on the group
  poisoned,  \* a panic under the workspace mutex has poisoned it
  acts,      \* operator commands so far
  \* history, for the properties only
  lost,      \* children whose live voice a completion of the group has left behind
  direct,    \* active cues that were started past the group or brought into it
  round,     \* what the random group has drawn since the bag was filled
  shifted,   \* an edit has renumbered children since the bag was filled
  cancelled  \* the child whose pending advance the operator has cancelled

authored == <<show, kids, off, gone>>
history == <<lost, direct, round, shifted, cancelled>>
vars == <<authored, g, ch, here, poisoned, acts, history>>

NoAdvance == [left |-> 0, src |-> NoCue, expect |-> NoCue, same |-> FALSE]
IdleChild == [state |-> "standby", marker |-> FALSE, elapsed |-> 0]
IdleGroup == [state |-> "standby", inPre |-> FALSE, elapsed |-> 0, cur |-> NoCue,
              done |-> FALSE, pend |-> NoAdvance, bag |-> {}, drawn |-> 0]

(***************************************************************************)
(* Questions.  s stands for a pair [g, ch].                                *)
(***************************************************************************)
N == Len(kids)
Kids == Range(kids)
Pos(c) == IF c \in Kids THEN CHOOSE i \in 1 .. N : kids[i] = c ELSE 0
Ordered == show.mode \in {"sequential", "playlist"}
Over(x, c) == x[c].elapsed >= Length[c]
Live(x, c) == x[c].state # "standby" /\ ~Over(x, c)
Active(x) == {c \in Kids : x[c].state # "standby"}

\* Mutant: the scan begins one child too late.
NextArmedBeyond(i) ==
  LET armed == {j \in i + 1 .. N : kids[j] \notin off}
  IN  IF armed = {} THEN 0 ELSE Min(armed)

\* The first child from position i on that is not disabled, or 0.
NextArmed(i) ==
  LET armed == {j \in i .. N : kids[j] \notin off}
  IN  IF armed = {} THEN 0 ELSE Min(armed)

\* has_next_sequential_child counts the disabled children too.
HasNext(s) == IF s.g.cur = NoCue THEN kids # << >>
              ELSE s.g.cur \in Kids /\ Pos(s.g.cur) < N

InAction(s) == s.g.state = "running" /\ ~s.g.inPre
Loops == show.mode = "playlist" /\ show.loop

AbsorbsGo(s) ==
  InAction(s) /\ \/ Ordered /\ (Loops \/ HasNext(s))
                 \/ show.mode = "startRandom"

HoldsPlayhead(s) ==
  /\ s.g.state = "running"
  /\ \/ Ordered /\ (s.g.inPre \/ Loops \/ HasNext(s))
     \/ show.mode = "startRandom"

ReleasedPlayhead(s) ==
  InAction(s) /\ Ordered /\ ~Loops /\ s.g.cur # NoCue /\ ~HasNext(s)

\* Mutant: children that are paused do not keep the group from completing.
IsCompleteUnlessRunning(s) ==
  /\ InAction(s) /\ \A c \in Kids : s.ch[c].state # "running"
  /\ Ordered => s.g.done /\ ~HasNext(s) /\ ~Loops
  /\ show.mode = "startRandom" => s.g.drawn = 0

IsComplete(s) ==
  /\ InAction(s) /\ Active(s.ch) = {}
  /\ Ordered => s.g.done /\ ~HasNext(s) /\ ~Loops
  /\ show.mode = "startRandom" => s.g.drawn = 0

\* duration: none for a group whose length the children do not determine.
Timed ==
  /\ show.mode # "startRandom" /\ ~Loops
  /\ show.mode = "sequential" => \A c \in Kids : show.cm[c] # "autoContinue"
Duration ==
  LET length(c) == Length[c] + show.post[c]
  IN  show.pre + IF show.mode = "simultaneous" THEN Max({length(c) : c \in Kids} \cup {0})
                 ELSE MapThenSumSet(length, Kids)
TimeDone(s) == InAction(s) /\ Timed /\ s.g.elapsed >= Duration

\* active_child_id: what the list shows as the child the next GO fires.
ActiveChild(s) ==
  IF ~Ordered THEN NoCue
  ELSE IF s.g.cur = NoCue THEN IF kids = << >> THEN NoCue ELSE kids[1]
  ELSE IF HasNext(s) THEN kids[Pos(s.g.cur) + 1] ELSE NoCue

(***************************************************************************)
(* A child that is started: a duplicate GO is ignored.                     *)
(***************************************************************************)
Started(k) == IF k.state = "running" THEN k
              ELSE [state |-> "running", marker |-> FALSE, elapsed |-> 0]

\* Auto-Continue, polled from the child's own clock.
Due(k, c) == k.state = "running" /\ ~k.marker /\ k.elapsed >= show.post[c]
Managed(s, c) ==
  /\ show.mode = "sequential" /\ c \in Kids /\ show.cm[c] = "autoContinue"
  /\ s.ch[c].state # "standby" /\ ~s.ch[c].marker

\* A child that, once fired, fires the next one in the same call.
FiresNext(s, c) ==
  /\ show.mode = "sequential" /\ show.cm[c] = "autoContinue" /\ c \notin show.broken
  /\ Due(Started(s.ch[c]), c)

\* The positions fired by one call that begins with position i.
Chain(s, i) ==
  LET from[j \in 0 .. N] ==
        IF j = 0 THEN << >>
        ELSE <<j>> \o (IF FiresNext(s, kids[j]) THEN from[NextArmed(j + 1)] ELSE << >>)
  IN  from[i]

\* Mutant: a paused child of a playlist is not stopped by the next one.
AfterExclusionOfRunning(x, keep) ==
  [c \in Child |-> IF c # keep /\ c \in Kids /\ x[c].state = "running"
                    THEN IdleChild ELSE x[c]]

\* stop_other_children
AfterExclusion(x, keep) ==
  [c \in Child |-> IF c # keep /\ c \in Kids /\ x[c].state # "standby" THEN IdleChild ELSE x[c]]

\* fire_next_sequential, with the auto-continues it runs into.
FireNext(s, after) ==
  LET calm == [s EXCEPT !.g.pend = NoAdvance]
      first == NextArmed(IF after = NoCue THEN 1 ELSE Pos(after) + 1)
      chain == Chain(s, IF first = 0 /\ Loops THEN NextArmed(1) ELSE first)
      fired == {kids[i] : i \in Range(chain)}
      last == IF chain = << >> THEN NoCue ELSE kids[Last(chain)]
      started == [c \in Child |->
                    IF c \in fired \ show.broken
                    THEN [Started(s.ch[c]) EXCEPT !.marker = @ \/ FiresNext(s, c)]
                    ELSE IF c = after /\ s.ch[c].state = "standby" THEN IdleChild ELSE s.ch[c]]
  IN  IF after # NoCue /\ after \notin Kids THEN calm
      ELSE [g |-> [calm.g EXCEPT
                     !.cur = IF last = NoCue THEN @ ELSE last,
                     !.done = @ \/ last = NoCue \/ last \in show.broken \/ FiresNext(s, last)],
            ch |-> IF show.mode = "playlist" /\ last # NoCue /\ last \notin show.broken
                   THEN AfterExclusion(started, last) ELSE started]

(***************************************************************************)
(* The start of the group's action, and GO on the group                    *)
(***************************************************************************)
\* refill_random_bag
Refill == 1 .. N

\* draw_random_child: what popping from the shuffled bag may come to.  The
\* disabled children popped before the one that is drawn are gone.
Draws(s) ==
  LET bag == IF s.g.bag = {} THEN Refill ELSE s.g.bag
      armed == {i \in bag : i <= N /\ kids[i] \notin off}
      drop == {i \in bag : i <= N /\ kids[i] \in off}
  IN  IF N = 0 THEN {[bag |-> s.g.bag, to |-> 0]}
      ELSE {[bag |-> bag \ (d \cup {i}), to |-> i] : d \in SUBSET drop, i \in armed}
             \cup (IF armed = {} /\ bag = drop THEN {[bag |-> {}, to |-> 0]} ELSE {})

\* An index past the end panics.
DrawPanics(s) ==
  N # 0 /\ \E i \in (IF s.g.bag = {} THEN Refill ELSE s.g.bag) : i > N

\* Mutant: the child that is drawn stays in the bag.
FireDrawnKeeping(s, d) ==
  IF d.to = 0 THEN [s EXCEPT !.g.bag = d.bag]
  ELSE LET c == kids[d.to]
       IN  IF c \in show.broken THEN [s EXCEPT !.g.bag = d.bag, !.g.drawn = 0]
           ELSE [s EXCEPT !.g.bag = d.bag \cup {d.to}, !.g.drawn = d.to, !.ch[c] = Started(@)]

FireDrawn(s, d) ==
  IF d.to = 0 THEN [s EXCEPT !.g.bag = d.bag]
  ELSE LET c == kids[d.to]
       IN  IF c \in show.broken THEN [s EXCEPT !.g.bag = d.bag, !.g.drawn = 0]
           ELSE [s EXCEPT !.g.bag = d.bag, !.g.drawn = d.to, !.ch[c] = Started(@)]

\* start_action, for the modes that draw no lot.
Action(s) ==
  LET begun == [s EXCEPT !.g.inPre = FALSE, !.g.state = "running", !.g.elapsed = 0,
                         !.g.done = FALSE, !.g.pend = NoAdvance]
  IN  CASE Ordered -> FireNext(begun, s.g.cur)
        [] show.mode = "simultaneous" ->
             [begun EXCEPT !.ch = [c \in Child |-> IF c \in Kids \ (off \cup show.broken)
                                                   THEN Started(s.ch[c]) ELSE s.ch[c]]]
        [] OTHER -> begun

\* go, as far as it starts the group again.
Begin(s) ==
  IF show.pre > 0
  THEN [s EXCEPT !.g.inPre = TRUE, !.g.state = "running", !.g.elapsed = 0]
  ELSE Action(s)

\* go on a group: an ordered group in action advances, whatever is left of it.
Advances(s) ==
  InAction(s) /\ Ordered /\ ((s.g.done /\ HasNext(s)) \/ s.g.cur # NoCue)
Went(s) == IF Advances(s) THEN FireNext([s EXCEPT !.g.done = FALSE], s.g.cur) ELSE Begin(s)

\* A lot is drawn by the start of a random group and by each GO it absorbs.
DrawsOnGo(s) == show.mode = "startRandom" /\ (InAction(s) \/ show.pre = 0)

Now == [g |-> g, ch |-> ch]

Becomes(s) ==
  /\ g' = s.g /\ ch' = s.ch
  /\ direct' = direct \cap {c \in Child : s.ch[c].state # "standby"}

\* The outcomes of drawing in s.
Draw(s) ==
  \/ /\ DrawPanics(s) /\ poisoned' = TRUE
     /\ UNCHANGED <<g, ch, history>>
  \/ \E d \in Draws(s) :
       /\ Becomes(FireDrawn(s, d))
       /\ round' = (IF s.g.bag = {} THEN {} ELSE round) \cup
                     (IF d.to = 0 THEN {} ELSE {kids[d.to]})
       /\ shifted' = (shifted /\ s.g.bag # {})
       /\ UNCHANGED <<poisoned, lost, cancelled>>

Calm == ~poisoned
Act == Calm /\ acts < MaxActs /\ acts' = acts + 1

\* GO in show/transport.rs: a group that absorbs it keeps the Playhead unless
\* that fired its last child; else the Playhead moves on, and comes back if the
\* group that has started holds it.
PlayheadAfterGo(before, after) ==
  IF AbsorbsGo(before) THEN ~ReleasedPlayhead(after)
  ELSE after.g.state = "running" /\ HoldsPlayhead(after)

Go ==
  /\ Act /\ here /\ UNCHANGED authored
  /\ IF DrawsOnGo(Now)
     THEN /\ Draw(IF InAction(Now) THEN Now ELSE Action(Now))
          /\ here' = TRUE
     ELSE /\ Becomes(Went(Now))
          /\ here' = PlayheadAfterGo(Now, Went(Now))
          /\ cancelled' = NoCue
          /\ UNCHANGED <<poisoned, lost, round, shifted>>

(***************************************************************************)
(* The operator                                                            *)
(***************************************************************************)
MovePlayhead ==
  /\ Act /\ here' = ~here
  /\ UNCHANGED <<authored, g, ch, poisoned, history>>

\* set_active_child: on the child before it, so that GO fires this one.
ParkBefore(c) ==
  [g EXCEPT !.cur = IF Pos(c) = 1 THEN NoCue ELSE kids[Pos(c) - 1],
            !.done = TRUE, !.pend = NoAdvance]

\* set_playhead on a child; go_by_id of a nested cue begins with it.
Park(c) ==
  /\ Act /\ c \in Kids
  /\ here' = TRUE /\ g' = IF Ordered THEN ParkBefore(c) ELSE g
  /\ cancelled' = IF Ordered THEN NoCue ELSE cancelled
  /\ UNCHANGED <<authored, ch, poisoned, lost, direct, round, shifted>>

\* stop, hard_stop and reset_children; the list commands also reset.
StopGroup ==
  /\ Act /\ g.state # "standby"
  /\ g' = IdleGroup /\ ch' = [c \in Child |-> IF c \in Kids THEN IdleChild ELSE ch[c]]
  /\ direct' = {} /\ round' = {} /\ shifted' = FALSE /\ cancelled' = NoCue
  /\ UNCHANGED <<authored, here, poisoned, lost>>

\* pause and resume: the children that run, and those that are paused.
PauseGroup ==
  /\ Act /\ g.state = "running"
  /\ g' = [g EXCEPT !.state = "paused"]
  /\ ch' = [c \in Child |-> IF c \in Kids /\ ch[c].state = "running"
                            THEN [ch[c] EXCEPT !.state = "paused"] ELSE ch[c]]
  /\ UNCHANGED <<authored, here, poisoned, history>>

ResumeGroup ==
  /\ Act /\ g.state = "paused"
  /\ g' = [g EXCEPT !.state = "running"]
  /\ ch' = [c \in Child |-> IF c \in Kids /\ ch[c].state = "paused"
                            THEN [ch[c] EXCEPT !.state = "running"] ELSE ch[c]]
  /\ UNCHANGED <<authored, here, poisoned, history>>

\* Commands on one cue, in the group or moved out of it, which do not ask the group.
StopChild(c) ==
  /\ Act /\ ch[c] # IdleChild /\ ch' = [ch EXCEPT ![c] = IdleChild]
  /\ direct' = direct \ {c}
  /\ cancelled' = IF g.pend.same /\ g.pend.src = c /\ ~g.inPre THEN c ELSE cancelled
  /\ UNCHANGED <<authored, g, here, poisoned, lost, round, shifted>>

PauseChild(c) ==
  /\ Act /\ ch[c].state = "running"
  /\ ch' = [ch EXCEPT ![c].state = "paused"]
  /\ UNCHANGED <<authored, g, here, poisoned, history>>

ResumeChild(c) ==
  /\ Act /\ ch[c].state = "paused"
  /\ ch' = [ch EXCEPT ![c].state = "running"]
  /\ UNCHANGED <<authored, g, here, poisoned, history>>

\* A Command cue that starts the cue; one that is paused starts again.
StartChild(c) ==
  /\ Act /\ c \notin gone \cup off \cup show.broken /\ ch[c].state # "running"
  /\ ch' = [ch EXCEPT ![c] = Started(@)]
  /\ g' = IF g.pend.src = c THEN [g EXCEPT !.pend.same = FALSE] ELSE g
  /\ direct' = direct \cup {c}
  /\ cancelled' = IF cancelled = c THEN NoCue ELSE cancelled
  /\ UNCHANGED <<authored, here, poisoned, lost, round, shifted>>

ToggleDisabled(c) ==
  /\ Act /\ c \in Kids /\ off' = IF c \in off THEN off \ {c} ELSE off \cup {c}
  /\ UNCHANGED <<show, kids, gone, g, ch, here, poisoned, history>>

(***************************************************************************)
(* Edits of the children.  The group is not told: its indices, its current *)
(* child and its pending advance stay as they are.                         *)
(***************************************************************************)
Edited(ks) ==
  /\ Act /\ kids' = ks
  /\ shifted' = (shifted \/ \E i \in 1 .. N : i > Len(ks) \/ ks[i] # kids[i])
  /\ UNCHANGED <<show, g, here, poisoned, lost, round>>

\* remove_cue: the cue is hard-stopped first.  Undo brings none back to a group that
\* runs.
RemoveChild(c) ==
  /\ c \in Kids /\ Edited(RemoveAt(kids, Pos(c))) /\ gone' = gone \cup {c}
  /\ off' = off \ {c} /\ ch' = [ch EXCEPT ![c] = IdleChild] /\ direct' = direct \ {c}
  /\ UNCHANGED cancelled

\* move_to_top_level, remove_from_group: the cue leaves as it is, playing or not.
MoveOut(c) ==
  /\ c \in Kids /\ Edited(RemoveAt(kids, Pos(c)))
  /\ direct' = direct \ {c}
  /\ UNCHANGED <<off, gone, ch, cancelled>>

\* insert_after_anywhere (a copy, a pasted cue) and add_to_group (a cue moved in
\* as it is).  If a tick has dropped a cancelled advance while its source was out
\* of the group, the source comes back as a child that is over.
AddChild(c, i) ==
  /\ c \notin Kids \cup gone /\ Edited(InsertAt(kids, i, c))
  /\ direct' = IF ch[c].state = "standby" THEN direct ELSE direct \cup {c}
  /\ cancelled' = IF cancelled = c /\ g.pend = NoAdvance /\ ~g.done THEN NoCue ELSE cancelled
  /\ UNCHANGED <<off, gone, ch>>

\* add_to_group within the group: taken out and put back at position i.
MoveChild(c, i) ==
  /\ c \in Kids /\ i # Pos(c) /\ Edited(InsertAt(RemoveAt(kids, Pos(c)), i, c))
  /\ UNCHANGED <<off, gone, ch, direct, cancelled>>

(***************************************************************************)
(* Time                                                                    *)
(***************************************************************************)
\* No clock is read past these.
ClockEnd(c) == Max({Length[c], show.post[c]})

\* The source of advance p is a child that is paused.
SourcePaused(x, p) == p.src \in Kids /\ x[p.src].state = "paused"

Remaining(p) ==
  p.left - IF p.left > 0 /\ ~SourcePaused(ch, p) THEN 1 ELSE 0

\* A deadline is put off while the group or the child it waits on is paused.
Elapse ==
  LET pre == g.inPre /\ g.elapsed < show.pre
      ran == ~g.inPre /\ g.elapsed < Duration
  IN  /\ g' = IF g.state # "running" THEN g
              ELSE [g EXCEPT !.elapsed = @ + IF pre \/ ran THEN 1 ELSE 0,
                             !.pend.left = IF g.pend = NoAdvance THEN 0 ELSE Remaining(g.pend)]
      /\ ch' = [c \in Child |-> IF ch[c].state = "running" /\ ch[c].elapsed < ClockEnd(c)
                                THEN [ch[c] EXCEPT !.elapsed = @ + 1] ELSE ch[c]]
      /\ <<g, ch>>' # <<g, ch>>
      /\ UNCHANGED <<authored, here, poisoned, acts, history>>

(***************************************************************************)
(* The tick                                                                *)
(***************************************************************************)
\* pending_advance_is_valid, for the execution it was armed by.
PendingHolds(s) ==
  /\ s.g.cur = s.g.pend.expect /\ s.g.pend.src \in Kids
  /\ s.g.pend.same /\ s.ch[s.g.pend.src].marker

\* Mutant: the stopped source of a pending advance is taken for a finished one.
ForgetCancelled(s) == [s EXCEPT !.g.pend = NoAdvance]

\* A source that was stopped or reset cancels its advance: the sequence parks.
CancelPending(s) ==
  [s EXCEPT !.g.done = @ \/ /\ s.g.cur = s.g.pend.expect /\ s.g.pend.src \in Kids
                            /\ s.g.pend.same /\ ~s.ch[s.g.pend.src].marker,
            !.g.pend = NoAdvance]

\* Mutant: a child that is not followed leaves the sequence unparked.
DriverDoneUnparked(s) ==
  LET c == s.g.cur
      reset == [s EXCEPT !.ch[c] = IdleChild]
  IN  IF show.mode = "sequential" /\ show.cm[c] # "autoFollow" THEN reset
      ELSE IF show.post[c] = 0 THEN FireNext(reset, c)
      ELSE [reset EXCEPT !.ch[c].marker = TRUE,
                         !.g.pend = [left |-> show.post[c], src |-> c,
                                     expect |-> c, same |-> TRUE]]

\* The current child is over: on to the next, after its post-wait, or park.
DriverDone(s) ==
  LET c == s.g.cur
      reset == [s EXCEPT !.ch[c] = IdleChild]
  IN  IF show.mode = "sequential" /\ show.cm[c] # "autoFollow"
      THEN [reset EXCEPT !.g.done = TRUE]
      ELSE IF show.post[c] = 0 THEN FireNext(reset, c)
      ELSE [reset EXCEPT !.ch[c].marker = TRUE,
                         !.g.pend = [left |-> show.post[c], src |-> c,
                                     expect |-> c, same |-> TRUE]]

\* tick_sequential, once no advance is pending.
Drive(s) ==
  LET c == s.g.cur
  IN  IF Managed(s, c)
      THEN IF Due(s.ch[c], c) THEN FireNext([s EXCEPT !.ch[c].marker = TRUE], c) ELSE s
      ELSE IF c \in Kids /\ ~s.g.done /\ (s.ch[c].state = "standby" \/
                                          (s.ch[c].state = "running" /\ Over(s.ch, c)))
           THEN DriverDone(s) ELSE s

\* Those of the given cues that have played out are reset.
Swept(x, these) ==
  [c \in Child |-> IF c \in these /\ x[c].state = "running" /\ Over(x, c)
                   THEN IdleChild ELSE x[c]]

TickSequential(s) ==
  LET swept == [s EXCEPT !.ch = Swept(s.ch, Kids \ {s.g.cur})]
      pend == s.g.pend
  IN  IF pend = NoAdvance THEN Drive(swept)
      ELSE IF SourcePaused(swept.ch, pend) THEN swept
      ELSE IF ~PendingHolds(swept) THEN Drive(CancelPending(swept))
      ELSE IF pend.left = 0 THEN FireNext(swept, pend.src)
      ELSE swept

\* tick of the group, but for the lot a random group draws after its pre-wait.
Ticked(s) ==
  CASE s.g.state # "running" -> s
    [] s.g.inPre -> IF s.g.elapsed >= show.pre THEN Action(s) ELSE s
    [] Ordered -> TickSequential(s)
    [] OTHER ->
         [s EXCEPT !.ch = Swept(s.ch, Kids),
                   !.g.drawn = IF @ \in 1 .. N /\ s.ch[kids[@]].state = "running"
                                    /\ Over(s.ch, kids[@]) THEN 0 ELSE @]

TickDraws == g.state = "running" /\ g.inPre /\ g.elapsed >= show.pre /\ show.mode = "startRandom"

\* The rest of the event loop's tick: the Playhead of a group that has fired its
\* last child, the cues whose voices have reported their end, completion.
Settle(s, reported) ==
  \E reaped \in {[s EXCEPT !.ch = Swept(s.ch, reported)]} :
  LET completes == TimeDone(reaped) \/ IsComplete(reaped)
  IN  /\ here' = (/\ here /\ ~ReleasedPlayhead(s)
                  /\ ~(completes /\ HoldsPlayhead(reaped)))
      /\ IF completes
         THEN /\ Becomes([g |-> IdleGroup,
                          ch |-> [c \in Child |-> IF c \in Kids THEN IdleChild ELSE ch[c]]])
              /\ lost' = lost \cup {c \in Kids : Live(reaped.ch, c)}
              /\ round' = {} /\ shifted' = FALSE /\ cancelled' = NoCue
         ELSE Becomes(reaped) /\ UNCHANGED <<lost, round, shifted, cancelled>>

Ended == {c \in Child : ch[c].state = "running" /\ Over(ch, c)}

Tick ==
  /\ UNCHANGED <<authored, acts>>
  /\ IF poisoned THEN UNCHANGED <<g, ch, here, poisoned, history>>
     ELSE IF TickDraws THEN Draw(Action(Now)) /\ UNCHANGED here
     ELSE /\ UNCHANGED poisoned
          /\ \E s \in {Ticked(Now)}, reported \in SUBSET Ended : Settle(s, reported)

Init ==
  /\ show \in Shows /\ kids = show.kids /\ off = {} /\ gone = {}
  /\ g = IdleGroup /\ ch = [c \in Child |-> IdleChild]
  /\ here = TRUE /\ poisoned = FALSE /\ acts = 0
  /\ lost = {} /\ direct = {} /\ round = {} /\ shifted = FALSE /\ cancelled = NoCue

Operator ==
  \/ Go \/ MovePlayhead \/ StopGroup \/ PauseGroup \/ ResumeGroup
  \/ \E c \in Child : \/ Park(c) \/ StopChild(c) \/ PauseChild(c) \/ ResumeChild(c)
                      \/ StartChild(c) \/ ToggleDisabled(c) \/ RemoveChild(c) \/ MoveOut(c)
                      \/ \E i \in 1 .. N + 1 : AddChild(c, i)
                      \/ \E i \in 1 .. N : MoveChild(c, i)

Next == Operator \/ Elapse \/ Tick

\* Time does not stop and the loop ticks: as long as there is something for a clock
\* or a tick to do, one of them does something.
Spec == Init /\ [][Next]_vars /\ WF_vars(Elapse \/ Tick)

(***************************************************************************)
(* Properties                                                              *)
(***************************************************************************)
\* A Playlist has at most one child active, paused ones included, but for those a
\* command has started past the group (stop_other_children).
PlaylistExclusive ==
  show.mode = "playlist" => Cardinality(Active(ch) \ direct) <= 1

\* A random group plays every child once before it repeats one: what it has
\* drawn in this round is not in the bag (draw_random_child).  The bag holds
\* indices: a child taken out, put in or moved renumbers others, and the bag then
\* means other children.  Until then, and whatever is added behind the last child,
\* disabled or started past the group, no draw repeats a child or is out of range,
\* which would poison the workspace.
OncePerRound ==
  ~shifted => /\ g.bag \subseteq 1 .. N
              /\ {kids[i] : i \in g.bag} \cap round = {}
              /\ ~poisoned

\* Completion takes the handle of a live voice only from a group the loop
\* completes by the clock; is_complete waits for every child, paused or running.
LostOnlyByClock == [][lost' # lost => Timed]_vars

\* GO fires the child the list shows as the next one of the group.
GoFiresShownChild ==
  [][LET c == ActiveChild(Now)
     IN  Ordered /\ show.pre = 0 /\ c \in Kids \ (off \cup show.broken) /\ Go
           => ch'[c].state = "running"]_vars

\* Once the operator has stopped the child whose post-wait was running, no tick
\* starts a child: only GO and the Playhead take the sequence up again.  (A GO
\* on a paused group has already done so: it waits out the pre-wait.)
CancelledAdvanceStays ==
  [][cancelled # NoCue /\ Tick
       => \A c \in Child : ch[c].state = "standby" => ch'[c].state = "standby"]_vars

\* Nothing more happens without the operator.
Attended ==
  \/ poisoned \/ Loops \/ \E c \in Kids : ch[c].state = "paused"
  \/ Ordered /\ g.done /\ HasNext(Now)
  \/ Ordered /\ g.cur # NoCue /\ g.cur \notin Kids
  \/ show.mode = "startRandom" /\ g.drawn # 0 /\ Active(ch) = {}

\* A group left alone comes to its end or to a point where it waits for the
\* operator: no child that has played out holds it up.
Settles == g.state = "running" ~> g.state # "running" \/ Attended

=============================================================================
