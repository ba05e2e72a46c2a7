--------------------------- MODULE EventLoopProofs ---------------------------
(***************************************************************************)
(* Theorems about EventLoop, for every show: any cues, lists, targets,     *)
(* continue modes and commands.  First its types; then its continuations:  *)
(* their tokens are unique, and plans, tokens and hand-overs implement the *)
(* ContinuationLedger.                                                     *)
(*                                                                         *)
(* Every step treats the plans in one of four ways.  PlanSteps names them; *)
(* StepsOnPlans shows, action by action, that there is no other, and the   *)
(* proofs about tokens and the ledger never look at the actions again.     *)
(*                                                                         *)
(* Then: no run fires its successor after it was stopped, in any show; and *)
(* in shows without Start cues no run fires it twice, nor loses its plan   *)
(* while it plays.                                                         *)
(***************************************************************************)
EXTENDS EventLoop, TLAPS

LEMMA PlansWithoutType ==
  ASSUME NEW S, PlansOK
  PROVE  PlansWithout(S) \in [Cue -> Plan]
BY DEF PlansOK, PlansWithout, NoPlan, Plan

LEMMA FirstArmedType ==
  ASSUME NEW l, NEW s \in Seq(Cue)
  PROVE  FirstArmed(l, s) \in Cue \cup {NoCue}
<1>1. CASE \E i \in DOMAIN s : IsFirstArmed(l, s, i)
  <2>1. (CHOOSE i \in DOMAIN s : IsFirstArmed(l, s, i)) \in DOMAIN s
    BY <1>1
  <2>2. QED BY <1>1, <2>1 DEF FirstArmed
<1>2. CASE ~\E i \in DOMAIN s : IsFirstArmed(l, s, i)
  BY <1>2 DEF FirstArmed
<1>3. QED BY <1>1, <1>2

LEMMA PositionType ==
  ASSUME NEW l \in List, NEW c \in Members(l), ListsOK
  PROVE  /\ Position(l, c) \in 1 .. Len(order[l])
         /\ order[l][Position(l, c)] = c
<1>1. PICK i \in DOMAIN order[l] : order[l][i] = c
  BY DEF Members, ToSet
<1>2. Position(l, c) \in DOMAIN order[l] /\ order[l][Position(l, c)] = c
  BY <1>1 DEF Position
<1>3. order[l] \in Seq(Cue)
  BY DEF ListsOK
<1>4. QED BY <1>2, <1>3

LEMMA SuccessorsType ==
  ASSUME NEW l \in List, NEW c, ListsOK
  PROVE  Successors(l, c) \in Seq(Cue)
<1>1. CASE c \in Members(l)
  <2>1. Position(l, c) \in 1 .. Len(order[l]) /\ order[l] \in Seq(Cue)
    BY <1>1, PositionType DEF ListsOK
  <2>2. SubSeq(order[l], Position(l, c) + 1, Len(order[l])) \in Seq(Cue)
    BY <2>1
  <2>3. QED BY <1>1, <2>2 DEF Successors
<1>2. CASE c \notin Members(l)
  BY <1>2 DEF Successors
<1>3. QED BY <1>1, <1>2

LEMMA AdvancedType ==
  ASSUME NEW l \in List, ListsOK
  PROVE  Advanced(l) \in Cue \cup {NoCue}
BY SuccessorsType, FirstArmedType DEF Advanced, ListsOK

(***************************************************************************)
(* What the operators that change several variables preserve.              *)
(***************************************************************************)
LEMMA DropPlansType ==
  ASSUME NEW S, PlansOK, DropPlans(S)
  PROVE  PlansOK'
BY PlansWithoutType DEF DropPlans, PlansOK

LEMMA BindPlanType ==
  ASSUME NEW c \in Cue, NEW gen \in Nat, NEW ts \in Seq(Cue), PlansOK, BindPlan(c, gen, ts)
  PROVE  PlansOK'
<1>1. Home[c] \in List
  BY HomeAssumption
<1>2. nextToken[Home[c]] + 1 \in Nat
  BY <1>1 DEF PlansOK
<1>3. [gen |-> gen, token |-> nextToken[Home[c]] + 1, targets |-> ts] \in Plan
  BY <1>2 DEF Plan
<1>4. QED
  BY <1>1, <1>2, <1>3 DEF BindPlan, PlansOK

LEMMA RunCueType ==
  ASSUME NEW c \in Cue, NEW S, NEW ok \in BOOLEAN, CuesOK, RunCue(c, S, ok)
  PROVE  CuesOK'
<1>1. StateAfterGo(c, ok) \in CueStates
  BY DEF StateAfterGo, CuesOK, CueStates
<1>2. state' \in [Cue -> CueStates]
  <2>1. \A x \in Cue : state[x] \in CueStates
    BY DEF CuesOK
  <2>2. "standby" \in CueStates
    BY DEF CueStates
  <2>3. QED BY <1>1, <2>1, <2>2 DEF RunCue
<1>3. generation' \in [Cue -> Nat]
  BY DEF RunCue, CuesOK
<1>4. fired' \in [Cue -> BOOLEAN] /\ ripe' \in [Cue -> BOOLEAN] /\ ended' \in [Cue -> BOOLEAN]
  BY Zenon DEF RunCue
<1>5. QED BY <1>2, <1>3, <1>4 DEF CuesOK

LEMMA HaltCuesType ==
  ASSUME NEW S, CuesOK, HaltCues(S)
  PROVE  CuesOK'
<1>1. state' \in [Cue -> CueStates]
  <2>1. \A x \in Cue : state[x] \in CueStates
    BY DEF CuesOK
  <2>2. "standby" \in CueStates
    BY DEF CueStates
  <2>3. QED BY <2>1, <2>2 DEF HaltCues
<1>2. fired' \in [Cue -> BOOLEAN] /\ ripe' \in [Cue -> BOOLEAN] /\ ended' \in [Cue -> BOOLEAN]
  BY Zenon DEF HaltCues
<1>3. QED BY <1>1, <1>2 DEF CuesOK, HaltCues

LEMMA SetStatesType ==
  ASSUME NEW S, NEW s \in CueStates, CuesOK, SetStates(S, s)
  PROVE  CuesOK'
<1>1. state' \in [Cue -> CueStates]
  <2>1. \A x \in Cue : state[x] \in CueStates
    BY DEF CuesOK
  <2>2. QED BY <2>1 DEF SetStates
<1>2. QED BY <1>1 DEF CuesOK, SetStates

LEMMA NoteHaltedType ==
  ASSUME NEW S \in SUBSET Cue, CuesOK, halted \in SUBSET (Cue \X Nat), NoteHalted(S)
  PROVE  halted' \in SUBSET (Cue \X Nat)
BY DEF NoteHalted, CuesOK

LEMMA HandedEntry ==
  ASSUME NEW c, NEW g, NEW t, NoteHanded(c, g, t)
  PROVE  \E h : h.cue = c /\ h.gen = g /\ h.token = t /\ handed' = handed \cup {h}
<1> DEFINE again == \E h \in handed : h.cue = c /\ h.gen = g
           entry == [cue |-> c, gen |-> g, token |-> t, again |-> again]
<1>1. handed' = handed \cup {entry}
  BY Zenon DEF NoteHanded
<1>2. entry.cue = c /\ entry.gen = g /\ entry.token = t
  <2> HIDE DEF again
  <2> QED OBVIOUS
<1>3. QED
  <2> HIDE DEF entry
  <2> QED BY <1>1, <1>2

LEMMA NoteHandedType ==
  ASSUME NEW c \in Cue, NEW g \in Nat, NEW t \in Nat,
         handed \in SUBSET HandOver, NoteHanded(c, g, t)
  PROVE  handed' \in SUBSET HandOver
<1> DEFINE again == \E h \in handed : h.cue = c /\ h.gen = g
           entry == [cue |-> c, gen |-> g, token |-> t, again |-> again]
<1>1. again \in BOOLEAN
  OBVIOUS
<1>2. entry \in HandOver
  <2> HIDE DEF again
  <2> QED BY <1>1 DEF HandOver
<1>3. handed' = handed \cup {entry}
  BY Zenon DEF NoteHanded
<1>4. QED BY <1>2, <1>3

(***************************************************************************)
(* Frames and the work stack.                                              *)
(***************************************************************************)
LEMMA FrameType ==
  ASSUME NEW op \in CueOps, NEW l \in List, NEW c \in Cue,
         NEW ts \in Seq(Cue), NEW active \in BOOLEAN, NEW gen \in Nat
  PROVE  Frame(op, l, c, ts, active, gen) \in FrameSet
BY DEF Frame, FrameSet

LEMMA CueFrameType ==
  /\ \A op \in CueOps, c \in Cue, ts \in Seq(Cue) : CueFrame(op, c, ts) \in FrameSet
  /\ \A op \in CueOps, c \in Cue : CueFrame(op, c, <<>>) \in FrameSet
<1>1. \A op \in CueOps, c \in Cue, ts \in Seq(Cue) : CueFrame(op, c, ts) \in FrameSet
  BY HomeAssumption, FrameType DEF CueFrame
<1>2. <<>> \in Seq(Cue)
  OBVIOUS
<1>3. QED BY <1>1, <1>2

\* Pushing frames on a stack.
LEMMA PushType ==
  ASSUME NEW s \in Seq(FrameSet)
  PROVE  /\ \A x \in FrameSet : <<x>> \o s \in Seq(FrameSet)
         /\ \A x, y \in FrameSet : <<x, y>> \o s \in Seq(FrameSet)
         /\ \A x, y, z \in FrameSet : <<x, y, z>> \o s \in Seq(FrameSet)
OBVIOUS

LEMMA GoFrameType ==
  /\ \A l \in List : GoFrame(l) \in FrameSet
  /\ \A c \in Cue : GoByIdFrame(c) \in FrameSet
<1>1. <<>> \in Seq(Cue)
  OBVIOUS
<1>2. \A l \in List : GoFrame(l) \in FrameSet
  BY <1>1 DEF GoFrame, Frame, FrameSet
<1>3. \A c \in Cue : GoByIdFrame(c) \in FrameSet
  BY <1>1, HomeAssumption DEF GoByIdFrame, Frame, FrameSet
<1>4. QED BY <1>2, <1>3

LEMMA TopType ==
  ASSUME stack \in Seq(FrameSet), stack # <<>>
  PROVE  /\ Top \in FrameSet /\ Rest \in Seq(FrameSet)
         /\ Top.list \in List /\ Top.targets \in Seq(Cue)
         /\ Top.gen \in Nat /\ Top.active \in BOOLEAN
         /\ Top.op # "go" => Top.cue \in Cue
<1>1. Top \in FrameSet /\ Rest \in Seq(FrameSet)
  BY DEF Top, Rest
<1>2. QED BY <1>1 DEF FrameSet

LEMMA DoingType ==
  ASSUME NEW op, CallOK, Doing(op)
  PROVE  /\ Top \in FrameSet /\ Rest \in Seq(FrameSet) /\ Top.op = op
         /\ Top.list \in List /\ Top.targets \in Seq(Cue)
         /\ Top.gen \in Nat /\ Top.active \in BOOLEAN
         /\ op # "go" => Top.cue \in Cue
BY TopType DEF CallOK, Doing

\* Replacing one part of the innermost dispatch context keeps its type.
LEMMA ContextType ==
  ASSUME NEW S \in SUBSET Cue, ctx \in Seq(Context)
  PROVE  /\ [ctx EXCEPT ![1].cancelled = @ \cup S] \in Seq(Context)
         /\ [ctx EXCEPT ![1].started = @ \cup S] \in Seq(Context)
         /\ [ctx EXCEPT ![1].path = @ \cup S] \in Seq(Context)
         /\ [ctx EXCEPT ![1].path = @ \ S] \in Seq(Context)
<1>1. CASE ctx = <<>>
  <2>1. \A x : [ctx EXCEPT ![1] = x] = ctx
    BY <1>1
  <2>2. /\ [ctx EXCEPT ![1].cancelled = @ \cup S] = ctx
        /\ [ctx EXCEPT ![1].started = @ \cup S] = ctx
        /\ [ctx EXCEPT ![1].path = @ \cup S] = ctx
        /\ [ctx EXCEPT ![1].path = @ \ S] = ctx
    BY <2>1
  <2>3. QED BY <2>2
<1>2. CASE ctx # <<>>
  <2>1. ctx[1] \in Context
    BY <1>2
  <2>2. /\ [ctx[1] EXCEPT !.cancelled = @ \cup S] \in Context
        /\ [ctx[1] EXCEPT !.started = @ \cup S] \in Context
        /\ [ctx[1] EXCEPT !.path = @ \cup S] \in Context
        /\ [ctx[1] EXCEPT !.path = @ \ S] \in Context
    BY <2>1 DEF Context
  <2>3. \A x \in Context : [ctx EXCEPT ![1] = x] \in Seq(Context)
    BY <1>2
  <2>4. QED BY <1>2, <2>2, <2>3
<1>3. QED BY <1>1, <1>2

(***************************************************************************)
(* Type correctness, one lemma per kind of step.                           *)
(***************************************************************************)
LEMMA Untouched ==
  /\ ListsOK /\ UNCHANGED listVars => ListsOK'
  /\ PlansOK /\ UNCHANGED planVars => PlansOK'
  /\ CuesOK /\ UNCHANGED cueVars => CuesOK'
  /\ AuthoredOK /\ UNCHANGED authoredVars => AuthoredOK'
  /\ CallOK /\ UNCHANGED callVars => CallOK'
  /\ HistoryOK /\ UNCHANGED <<commands, historyVars>> => HistoryOK'
BY DEF ListsOK, listVars, PlansOK, planVars, CuesOK, cueVars, AuthoredOK, authoredVars,
       CallOK, callVars, HistoryOK, historyVars

LEMMA GoCueAtPlayheadType ==
  ASSUME NEW ok \in BOOLEAN, TransportTypeOK, Doing("go"), GoCueAtPlayhead(ok)
  PROVE  /\ playhead[Top.list] \in Cue
         /\ playhead' \in [List -> Cue \cup {NoCue}]
         /\ PlansOK' /\ CuesOK' /\ halted' \in SUBSET (Cue \X Nat)
<1> DEFINE l == Top.list
           c == playhead[l]
<1>1. l \in List
  BY DoingType DEF TransportTypeOK
<1>2. c \in Cue
  BY <1>1 DEF GoCueAtPlayhead, Armed, Members, ToSet, TransportTypeOK, ListsOK
<1>3. playhead' \in [List -> Cue \cup {NoCue}]
  BY <1>1, AdvancedType DEF GoCueAtPlayhead, TransportTypeOK, ListsOK
<1>4. PlansOK'
  BY DropPlansType DEF GoCueAtPlayhead, TransportTypeOK
<1>5. CuesOK'
  BY <1>2, RunCueType DEF GoCueAtPlayhead, TransportTypeOK
<1>6. StoppedByGo(l, c) \in SUBSET Cue
  BY <1>1 DEF StoppedByGo, Members, ToSet, TransportTypeOK, ListsOK
<1>7. halted' \in SUBSET (Cue \X Nat)
  BY <1>6, NoteHaltedType DEF GoCueAtPlayhead, TransportTypeOK, HistoryOK
<1>8. QED BY <1>2, <1>3, <1>4, <1>5, <1>7

LEMMA GoStepType ==
  ASSUME TransportTypeOK, GoStep
  PROVE  TransportTypeOK'
<1>1. CASE GoNothing
  <2>1. CallOK'
    BY <1>1, DoingType DEF GoNothing, TransportTypeOK, CallOK
  <2>2. QED BY <1>1, <2>1, Untouched DEF GoNothing, TransportTypeOK
<1>2. CASE GoSkipsDisabled
  <2>1. Top.list \in List
    BY <1>2, DoingType DEF GoSkipsDisabled, TransportTypeOK
  <2>2. ListsOK'
    BY <1>2, <2>1, AdvancedType DEF GoSkipsDisabled, TransportTypeOK, ListsOK
  <2>3. QED BY <1>2, <2>2, Untouched DEF GoSkipsDisabled, TransportTypeOK
<1>3. CASE GoFires
  <2> DEFINE l == Top.list
             c == playhead[l]
             end == Frame("finish", l, c, Successors(l, c), Active(c), generation[c])
  <2>1. Doing("go") /\ GoCueAtPlayhead(TRUE)
    BY <1>3 DEF GoFires
  <2>2. /\ c \in Cue /\ playhead' \in [List -> Cue \cup {NoCue}]
        /\ PlansOK' /\ CuesOK' /\ halted' \in SUBSET (Cue \X Nat)
    BY <2>1, GoCueAtPlayheadType
  <2>3. l \in List /\ Rest \in Seq(FrameSet)
    BY <2>1, DoingType DEF TransportTypeOK
  <2>4. Successors(l, c) \in Seq(Cue) /\ Active(c) \in BOOLEAN /\ generation[c] \in Nat
    <3>1. Successors(l, c) \in Seq(Cue)
      BY <2>3, SuccessorsType DEF TransportTypeOK
    <3>2. Active(c) \in BOOLEAN
      BY DEF Active
    <3>3. generation[c] \in Nat
      BY <2>2 DEF TransportTypeOK, CuesOK
    <3>4. QED BY <3>1, <3>2, <3>3
  <2>5. end \in FrameSet
    BY <2>2, <2>3, <2>4, FrameType DEF CueOps
  <2>6. CueFrame("act", c, <<>>) \in FrameSet /\ CueFrame("close", c, <<>>) \in FrameSet
    BY <2>2, CueFrameType DEF CueOps
  <2>7. stack' = <<CueFrame("act", c, <<>>), CueFrame("close", c, <<>>), end>> \o Rest
    BY <1>3 DEF GoFires
  <2>8. stack' \in Seq(FrameSet)
    BY <2>3, <2>5, <2>6, <2>7, PushType
  <2>9. NewContext(c) \in Context
    BY <2>2 DEF NewContext, Context
  <2>10. ctx' \in Seq(Context)
    BY <1>3, <2>9 DEF GoFires, TransportTypeOK, CallOK
  <2>11. ListsOK' /\ CallOK' /\ HistoryOK' /\ AuthoredOK'
    BY <1>3, <2>2, <2>8, <2>10, Untouched
       DEF GoFires, TransportTypeOK, ListsOK, CallOK, HistoryOK
  <2>12. QED BY <2>2, <2>11 DEF TransportTypeOK
<1>4. CASE GoFails
  <2>1. Doing("go") /\ GoCueAtPlayhead(FALSE)
    BY <1>4 DEF GoFails
  <2>2. /\ playhead' \in [List -> Cue \cup {NoCue}]
        /\ PlansOK' /\ CuesOK' /\ halted' \in SUBSET (Cue \X Nat)
    BY <2>1, GoCueAtPlayheadType
  <2>3. Rest \in Seq(FrameSet)
    BY <2>1, DoingType DEF TransportTypeOK
  <2>4. ListsOK' /\ CallOK' /\ HistoryOK' /\ AuthoredOK'
    BY <1>4, <2>2, <2>3, Untouched
       DEF GoFails, TransportTypeOK, ListsOK, CallOK, HistoryOK
  <2>5. QED BY <2>2, <2>4 DEF TransportTypeOK
<1>5. QED BY <1>1, <1>2, <1>3, <1>4 DEF GoStep

LEMMA TargetsType ==
  ASSUME NEW c \in Cue, TransportTypeOK
  PROVE  StopTargets(c) \in SUBSET Cue /\ ControlTargets(c) \in SUBSET Cue
<1>1. order[Home[c]] \in Seq(Cue) /\ Targets[c] \in Seq(Cue)
  BY HomeAssumption, TargetsAssumption DEF TransportTypeOK, ListsOK
<1>2. ToSet(order[Home[c]]) \in SUBSET Cue /\ ToSet(Targets[c]) \in SUBSET Cue
  BY <1>1 DEF ToSet
<1>3. QED BY <1>2 DEF StopTargets, ControlTargets, Members

LEMMA ActStepType ==
  ASSUME TransportTypeOK, ActStep
  PROVE  TransportTypeOK'
<1> DEFINE c == Top.cue
<1>1. Doing("act")
  BY DEF ActStep, ActSkipped, ActPlain, ActStop, ActGoto, ActPauseResume, ActReset, ActArm,
         ActStart, Dispatches
<1>2. c \in Cue /\ Rest \in Seq(FrameSet)
  BY <1>1, DoingType DEF TransportTypeOK
<1>3. StopTargets(c) \in SUBSET Cue /\ ControlTargets(c) \in SUBSET Cue
  BY <1>2, TargetsType
<1>4. CASE ActSkipped
  BY <1>2, <1>4, Untouched DEF ActSkipped, TransportTypeOK, CallOK
<1>5. CASE ActPlain
  BY <1>2, <1>5, Untouched DEF ActPlain, TransportTypeOK, CallOK
<1>6. CASE ActStop
  <2>1. CuesOK' /\ PlansOK'
    BY <1>6, HaltCuesType, DropPlansType DEF ActStop, TransportTypeOK
  <2>2. CuesOf(Home[c]) \in SUBSET Cue
    BY DEF CuesOf
  <2>3. halted' \in SUBSET (Cue \X Nat)
    BY <1>3, <1>6, <2>2, NoteHaltedType DEF ActStop, TransportTypeOK, HistoryOK
  <2>4. ctx' \in Seq(Context)
    BY <1>3, <1>6, ContextType DEF ActStop, Cancelled, TransportTypeOK, CallOK
  <2>5. CallOK' /\ HistoryOK'
    BY <1>2, <1>6, <2>3, <2>4 DEF ActStop, TransportTypeOK, CallOK, HistoryOK
  <2>6. QED BY <1>6, <2>1, <2>5, Untouched DEF ActStop, TransportTypeOK
<1>7. CASE ActGoto
  <2> DEFINE targets == IF Targets[c] = <<>> THEN {} ELSE {Head(Targets[c])} \cap ControlTargets(c)
  <2>1. targets \in SUBSET Cue
    BY <1>3
  <2>2. playhead' = [l \in List |-> IF \E t \in targets : Home[t] = l
                                   THEN CHOOSE t \in targets : TRUE ELSE playhead[l]]
    BY <1>7 DEF ActGoto
  <2>3. ListsOK'
    <3>1. order' = order
      BY <1>7 DEF ActGoto
    <3> HIDE DEF targets
    <3> QED BY <2>1, <2>2, <3>1 DEF TransportTypeOK, ListsOK
  <2>4. UNION {CuesOf(Home[t]) : t \in targets} \in SUBSET Cue
    BY DEF CuesOf
  <2>5. halted' \in SUBSET (Cue \X Nat)
    BY <1>7, <2>4, NoteHaltedType DEF ActGoto, TransportTypeOK, HistoryOK
  <2>6. PlansOK'
    BY <1>7, DropPlansType DEF ActGoto, TransportTypeOK
  <2>7. CallOK' /\ HistoryOK'
    BY <1>2, <1>7, <2>5 DEF ActGoto, TransportTypeOK, CallOK, HistoryOK
  <2>8. QED BY <1>7, <2>3, <2>6, <2>7, Untouched DEF ActGoto, TransportTypeOK
<1>8. CASE ActPauseResume
  <2>1. CuesOK'
    BY <1>8, SetStatesType DEF ActPauseResume, TransportTypeOK, CueStates
  <2>2. CallOK'
    BY <1>2, <1>8 DEF ActPauseResume, TransportTypeOK, CallOK
  <2>3. QED BY <1>8, <2>1, <2>2, Untouched DEF ActPauseResume, TransportTypeOK
<1>9. CASE ActReset
  <2>1. CuesOK' /\ PlansOK'
    BY <1>9, HaltCuesType, DropPlansType DEF ActReset, TransportTypeOK
  <2>2. halted' \in SUBSET (Cue \X Nat)
    BY <1>3, <1>9, NoteHaltedType DEF ActReset, TransportTypeOK, HistoryOK
  <2>3. ctx' \in Seq(Context)
    BY <1>3, <1>9, ContextType DEF ActReset, Cancelled, TransportTypeOK, CallOK
  <2>4. CallOK' /\ HistoryOK'
    BY <1>2, <1>9, <2>2, <2>3 DEF ActReset, TransportTypeOK, CallOK, HistoryOK
  <2>5. QED BY <1>9, <2>1, <2>4, Untouched DEF ActReset, TransportTypeOK
<1>10. CASE ActArm
  <2>1. disabled' \in [Cue -> BOOLEAN]
    <3>1. \A x \in Cue : disabled[x] \in BOOLEAN
      BY DEF TransportTypeOK, AuthoredOK
    <3>2. QED BY <1>10, <3>1, Zenon DEF ActArm
  <2>2. CallOK' /\ AuthoredOK'
    BY <1>2, <1>10, <2>1 DEF ActArm, TransportTypeOK, CallOK, AuthoredOK
  <2>3. QED BY <1>10, <2>2, Untouched DEF ActArm, TransportTypeOK
<1>11. CASE ActStart
  <2>1. ctx' \in Seq(Context)
    BY <1>2, <1>11, ContextType DEF ActStart, TransportTypeOK, CallOK
  <2>2. CueFrame("start", c, Targets[c]) \in FrameSet
    BY <1>2, TargetsAssumption, CueFrameType DEF CueOps
  <2>3. stack' \in Seq(FrameSet)
    BY <1>2, <1>11, <2>2, PushType DEF ActStart
  <2>4. CallOK'
    BY <1>2, <1>11, <2>1, <2>3 DEF ActStart, TransportTypeOK, CallOK
  <2>5. QED BY <1>11, <2>4, Untouched DEF ActStart, TransportTypeOK
<1>12. QED
  BY <1>4, <1>5, <1>6, <1>7, <1>8, <1>9, <1>10, <1>11 DEF ActStep

LEMMA StartStepType ==
  ASSUME TransportTypeOK, StartStep
  PROVE  TransportTypeOK'
<1> DEFINE c == Top.cue
<1>1. /\ c \in Cue /\ Rest \in Seq(FrameSet) /\ Top.targets \in Seq(Cue)
      /\ CallOK
  <2>1. Doing("start") \/ Doing("imm")
    BY DEF StartStep, StartsDone, StartSkips, StartFires, StartFails, ImmediateSkipped,
       ImmediateFires
  <2>2. CallOK
    BY DEF TransportTypeOK
  <2>3. QED BY <2>1, <2>2, DoingType
<1>2. ASSUME Top.targets # <<>>
      PROVE  /\ Head(Top.targets) \in Cue
             /\ StartRest \o Rest \in Seq(FrameSet)
  <2>1. Head(Top.targets) \in Cue /\ Tail(Top.targets) \in Seq(Cue)
    BY <1>1, <1>2
  <2>2. CueFrame("start", Top.cue, Tail(Top.targets)) \in FrameSet
    BY <1>1, <2>1, CueFrameType DEF CueOps
  <2>3. StartRest \o Rest \in Seq(FrameSet)
    BY <1>1, <2>2, PushType DEF StartRest
  <2>4. QED BY <2>1, <2>3
<1>3. CASE StartsDone
  <2>1. ctx' \in Seq(Context)
    BY <1>1, <1>3, ContextType DEF StartsDone, CallOK
  <2>2. CallOK'
    BY <1>1, <1>3, <2>1 DEF StartsDone, CallOK
  <2>3. QED BY <1>3, <2>2, Untouched DEF StartsDone, TransportTypeOK
<1>4. CASE StartSkips
  <2>1. CallOK'
    BY <1>1, <1>2, <1>4 DEF StartSkips, CallOK
  <2>2. QED BY <1>4, <2>1, Untouched DEF StartSkips, TransportTypeOK
<1>5. CASE StartFires
  <2> DEFINE t == Head(Top.targets)
  <2>1. t \in Cue /\ StartRest \o Rest \in Seq(FrameSet)
    BY <1>2, <1>5 DEF StartFires
  <2>2. CuesOK'
    BY <1>5, <2>1, RunCueType DEF StartFires, TransportTypeOK
  <2>3. CueFrame("act", t, <<>>) \in FrameSet /\ CueFrame("imm", t, <<>>) \in FrameSet
    BY <2>1, CueFrameType DEF CueOps
  <2>4. stack' \in Seq(FrameSet)
    <3>1. stack' = <<CueFrame("act", t, <<>>), CueFrame("imm", t, <<>>)>> \o (StartRest \o Rest)
      BY <1>5 DEF StartFires
    <3>2. QED BY <2>1, <2>3, <3>1, PushType
  <2>5. ctx' \in Seq(Context)
    BY <1>1, <1>5, <2>1, ContextType DEF StartFires, CallOK
  <2>6. PlansOK'
    <3>1. generation[t] + 1 \in Nat /\ Successors(Home[t], t) \in Seq(Cue)
      BY <2>1, HomeAssumption, SuccessorsType DEF TransportTypeOK, CuesOK
    <3>2. \/ BindPlan(t, generation[t] + 1, Successors(Home[t], t))
          \/ DropPlans(IF IgnoresGo(t) THEN {} ELSE {t})
      BY <1>5 DEF StartFires
    <3>3. QED BY <2>1, <3>1, <3>2, BindPlanType, DropPlansType DEF TransportTypeOK
  <2>7. CallOK'
    BY <1>1, <1>5, <2>4, <2>5 DEF StartFires, CallOK
  <2>8. QED BY <1>5, <2>2, <2>6, <2>7, Untouched DEF StartFires, TransportTypeOK
<1>6. CASE StartFails
  <2>1. CuesOK'
    BY <1>2, <1>6, RunCueType DEF StartFails, TransportTypeOK
  <2>2. CallOK'
    BY <1>1, <1>2, <1>6 DEF StartFails, CallOK
  <2>3. QED BY <1>6, <2>1, <2>2, Untouched DEF StartFails, TransportTypeOK
<1>7. CASE ImmediateSkipped
  <2>1. CallOK'
    BY <1>1, <1>7 DEF ImmediateSkipped, CallOK
  <2>2. QED BY <1>7, <2>1, Untouched DEF ImmediateSkipped, TransportTypeOK
<1>8. CASE ImmediateFires
  <2> DEFINE l == Home[c]
             target == FirstArmed(l, plan[c].targets)
  <2>1. /\ l \in List /\ plan[c] \in Plan
        /\ plan[c].targets \in Seq(Cue) /\ plan[c].gen \in Nat /\ plan[c].token \in Nat
    BY <1>1, HomeAssumption DEF TransportTypeOK, PlansOK, Plan
  <2>2. target \in Cue \cup {NoCue}
    BY <2>1, FirstArmedType
  <2>3. \/ /\ playhead' = [playhead EXCEPT ![l] = target]
           /\ stack' = <<GoFrame(l)>> \o Rest
           /\ NoteHanded(c, plan[c].gen, plan[c].token)
        \/ stack' = Rest /\ UNCHANGED <<playhead, handed>>
    BY <1>8 DEF ImmediateFires
  <2>4. ListsOK'
    <3>1. order' = order
      BY <1>8 DEF ImmediateFires
    <3>2. QED BY <2>1, <2>2, <2>3, <3>1 DEF TransportTypeOK, ListsOK
  <2>5. stack' \in Seq(FrameSet)
    <3>1. GoFrame(l) \in FrameSet
      BY <2>1, GoFrameType
    <3>2. <<GoFrame(l)>> \o Rest \in Seq(FrameSet)
      BY <1>1, <3>1, PushType
    <3>3. stack' \in Seq(FrameSet)
      BY <1>1, <2>3, <3>2
    <3>4. guard \in SUBSET Cue
      BY <1>1 DEF CallOK
    <3>5. QED BY <1>1, <2>3, <3>3, <3>4
  <2>6. CallOK'
    BY <1>1, <1>8, <2>5 DEF ImmediateFires, CallOK
  <2>7. HistoryOK'
    <3>1. handed' \in SUBSET HandOver
      BY <1>1, <2>1, <2>3, NoteHandedType DEF TransportTypeOK, HistoryOK
    <3>2. QED BY <1>8, <3>1 DEF ImmediateFires, TransportTypeOK, HistoryOK
  <2>8. PlansOK'
    BY <1>8, DropPlansType DEF ImmediateFires, TransportTypeOK
  <2>9. CuesOK'
    <3>1. fired' = fired \/ fired' = [fired EXCEPT ![c] = TRUE]
      BY <1>8 DEF ImmediateFires, MarkFired
    <3>2. QED BY <1>8, <3>1 DEF ImmediateFires, TransportTypeOK, CuesOK
  <2>10. QED
    BY <1>8, <2>4, <2>6, <2>7, <2>8, <2>9, Untouched DEF ImmediateFires, TransportTypeOK
<1>9. QED BY <1>3, <1>4, <1>5, <1>6, <1>7, <1>8 DEF StartStep

LEMMA FinishStepType ==
  ASSUME TransportTypeOK, FinishStep
  PROVE  TransportTypeOK'
<1> DEFINE c == Top.cue
<1>1. /\ c \in Cue /\ Rest \in Seq(FrameSet) /\ Top.targets \in Seq(Cue) /\ Top.list \in List
      /\ CallOK
  BY DoingType DEF FinishStep, FinishIgnored, FinishEnds, FinishBinds, FinishChains,
     TransportTypeOK
<1>2. CASE FinishIgnored
  <2>1. CallOK'
    BY <1>1, <1>2 DEF FinishIgnored, CallOK
  <2>2. QED BY <1>2, <2>1, Untouched DEF FinishIgnored, TransportTypeOK
<1>3. CASE FinishEnds
  <2>1. CallOK'
    BY <1>1, <1>3 DEF FinishEnds, CallOK
  <2>2. PlansOK'
    BY <1>3, DropPlansType DEF FinishEnds, TransportTypeOK
  <2>3. QED BY <1>3, <2>1, <2>2, Untouched DEF FinishEnds, TransportTypeOK
<1>4. CASE FinishBinds
  <2>1. CallOK'
    BY <1>1, <1>4 DEF FinishBinds, CallOK
  <2>2. generation[c] \in Nat
    BY <1>1 DEF TransportTypeOK, CuesOK
  <2>3. PlansOK'
    BY <1>1, <1>4, <2>2, BindPlanType DEF FinishBinds, TransportTypeOK
  <2>4. QED BY <1>4, <2>1, <2>3, Untouched DEF FinishBinds, TransportTypeOK
<1>5. CASE FinishChains
  <2> DEFINE l == Top.list
             token == nextToken[Home[c]] + 1
             target == FirstArmed(l, Top.targets)
  <2>1. Home[c] \in List /\ token \in Nat /\ generation[c] \in Nat
    BY <1>1, HomeAssumption DEF TransportTypeOK, PlansOK, CuesOK
  <2>2. target \in Cue \cup {NoCue}
    BY <1>1, FirstArmedType
  <2>3. PlansOK'
    <3>1. nextToken' \in [List -> Nat]
      BY <1>5, <2>1 DEF FinishChains, TransportTypeOK, PlansOK
    <3>2. plan' \in [Cue -> Plan]
      BY <1>5, PlansWithoutType DEF FinishChains, TransportTypeOK
    <3>3. QED BY <3>1, <3>2 DEF PlansOK
  <2>4. ListsOK'
    <3>1. order' = order /\ (playhead' = playhead \/ playhead' = [playhead EXCEPT ![l] = target])
      BY <1>5 DEF FinishChains
    <3>2. QED BY <1>1, <2>2, <3>1 DEF TransportTypeOK, ListsOK
  <2>5. \/ /\ guard' = guard \cup {c} /\ stack' = <<GoFrame(l)>> \o Rest
           /\ NoteHanded(c, generation[c], token)
        \/ stack' = Rest /\ UNCHANGED <<guard, handed>>
    BY <1>5 DEF FinishChains
  <2>6. stack' \in Seq(FrameSet) /\ guard' \in SUBSET Cue
    <3>1. GoFrame(l) \in FrameSet
      BY <1>1, GoFrameType
    <3>2. <<GoFrame(l)>> \o Rest \in Seq(FrameSet)
      BY <1>1, <3>1, PushType
    <3>3. stack' \in Seq(FrameSet)
      BY <1>1, <2>5, <3>2
    <3>4. guard \in SUBSET Cue
      BY <1>1 DEF CallOK
    <3>5. QED BY <1>1, <2>5, <3>3, <3>4
  <2>7. CallOK'
    BY <1>1, <1>5, <2>6 DEF FinishChains, CallOK
  <2>8. HistoryOK'
    <3>1. handed' \in SUBSET HandOver
      BY <1>1, <2>1, <2>5, NoteHandedType DEF TransportTypeOK, HistoryOK
    <3>2. QED BY <1>5, <3>1 DEF FinishChains, TransportTypeOK, HistoryOK
  <2>9. CuesOK'
    <3>1. fired' = fired \/ fired' = [fired EXCEPT ![c] = TRUE]
      BY <1>5 DEF FinishChains, MarkFired
    <3>2. QED BY <1>5, <3>1 DEF FinishChains, TransportTypeOK, CuesOK
  <2>10. QED
    BY <1>5, <2>3, <2>4, <2>7, <2>8, <2>9, Untouched DEF FinishChains, TransportTypeOK
<1>6. QED BY <1>2, <1>3, <1>4, <1>5 DEF FinishStep

LEMMA CallStepType ==
  ASSUME TransportTypeOK, CallStep
  PROVE  TransportTypeOK'
<1>1. CASE CloseDispatch
  <2>1. Rest \in Seq(FrameSet)
    BY <1>1, DoingType DEF CloseDispatch, TransportTypeOK
  <2>2. ctx' \in Seq(Context)
    BY <1>1 DEF CloseDispatch, TransportTypeOK, CallOK
  <2>3. CallOK'
    BY <1>1, <2>1, <2>2 DEF CloseDispatch, TransportTypeOK, CallOK
  <2>4. QED BY <1>1, <2>3, Untouched DEF CloseDispatch, TransportTypeOK
<1>2. QED
  BY <1>1, GoStepType, ActStepType, StartStepType, FinishStepType DEF CallStep

(***************************************************************************)
(* Commands.                                                               *)
(***************************************************************************)
LEMMA EditedOrderType ==
  ASSUME NEW s \in Seq(Cue), NEW at \in 1 .. Len(s)
  PROVE  /\ RemoveAt(s, at) \in Seq(Cue)
         /\ \A c \in Cue, i \in 1 .. Len(RemoveAt(s, at)) + 1 :
              InsertAt(RemoveAt(s, at), i, c) \in Seq(Cue)
<1>1. RemoveAt(s, at) \in Seq(Cue)
  BY DEF RemoveAt
<1>2. ASSUME NEW r \in Seq(Cue), NEW c \in Cue, NEW i \in 1 .. Len(r) + 1
      PROVE  InsertAt(r, i, c) \in Seq(Cue)
  <2>1. SubSeq(r, 1, i - 1) \in Seq(Cue) /\ SubSeq(r, i, Len(r)) \in Seq(Cue)
    OBVIOUS
  <2>2. SubSeq(r, 1, i - 1) \o <<c>> \in Seq(Cue)
    BY <2>1
  <2>3. QED BY <2>1, <2>2 DEF InsertAt
<1>3. QED BY <1>1, <1>2

LEMMA LaunchGoType ==
  ASSUME CallOK, NEW frame \in FrameSet, NEW who \in {"command", "tick"}, LaunchGo(frame, who)
  PROVE  CallOK'
BY DEF LaunchGo, CallOK

LEMMA HaltType ==
  ASSUME TransportTypeOK, NEW S, NEW T, NEW H \in SUBSET Cue,
         HaltCues(S), DropPlans(T), NoteHalted(H)
  PROVE  CuesOK' /\ PlansOK' /\ halted' \in SUBSET (Cue \X Nat)
BY HaltCuesType, DropPlansType, NoteHaltedType DEF TransportTypeOK, HistoryOK

LEMMA IssuesType ==
  ASSUME NEW op, TransportTypeOK, Issues(op)
  PROVE  commands' \in Nat /\ (UNCHANGED historyVars => HistoryOK')
BY DEF Issues, TransportTypeOK, HistoryOK, historyVars

LEMMA CueCommandType ==
  ASSUME TransportTypeOK, NEW c \in Cue,
         \/ GoCue(c) \/ StopCue(c) \/ PauseCue(c) \/ ResumeCue(c)
         \/ SetPlayhead(c) \/ ToggleDisabled(c) \/ \E m \in Modes : SetMode(c, m)
  PROVE  TransportTypeOK'
<1>1. Home[c] \in List
  BY HomeAssumption
<1>2. ASSUME playhead' = [playhead EXCEPT ![Home[c]] = c], order' = order
      PROVE  ListsOK'
  BY <1>1, <1>2 DEF TransportTypeOK, ListsOK
<1>3. CASE GoCue(c)
  <2>1. CallOK'
    BY <1>3, GoFrameType, LaunchGoType DEF GoCue, TransportTypeOK
  <2>2. QED
    BY <1>2, <1>3, <2>1, IssuesType, Untouched DEF GoCue, TransportTypeOK
<1>4. CASE StopCue(c)
  <2>1. CuesOK' /\ PlansOK' /\ halted' \in SUBSET (Cue \X Nat)
    BY <1>4, HaltType DEF StopCue
  <2>2. HistoryOK'
    BY <1>4, <2>1, IssuesType DEF StopCue, TransportTypeOK, HistoryOK
  <2>3. QED BY <1>4, <2>1, <2>2, Untouched DEF StopCue, TransportTypeOK
<1>5. CASE PauseCue(c)
  <2>1. CuesOK'
    BY <1>5, SetStatesType DEF PauseCue, TransportTypeOK, CueStates
  <2>2. QED BY <1>5, <2>1, IssuesType, Untouched DEF PauseCue, TransportTypeOK
<1>6. CASE ResumeCue(c)
  <2>1. CuesOK'
    BY <1>6, SetStatesType DEF ResumeCue, TransportTypeOK, CueStates
  <2>2. QED BY <1>6, <2>1, IssuesType, Untouched DEF ResumeCue, TransportTypeOK
<1>7. CASE SetPlayhead(c)
  BY <1>2, <1>7, IssuesType, Untouched DEF SetPlayhead, TransportTypeOK
<1>8. CASE ToggleDisabled(c)
  <2>1. disabled' = [disabled EXCEPT ![c] = ~@] /\ mode' = mode
    BY <1>8 DEF ToggleDisabled
  <2>2. AuthoredOK'
    BY <2>1 DEF TransportTypeOK, AuthoredOK
  <2>3. QED BY <1>8, <2>2, IssuesType, Untouched DEF ToggleDisabled, TransportTypeOK
<1>9. CASE \E m \in Modes : SetMode(c, m)
  <2>1. PICK m \in Modes : SetMode(c, m)
    BY <1>9
  <2>2. AuthoredOK'
    BY <2>1 DEF SetMode, TransportTypeOK, AuthoredOK
  <2>3. QED BY <2>1, <2>2, IssuesType, Untouched DEF SetMode, TransportTypeOK
<1>10. QED BY <1>3, <1>4, <1>5, <1>6, <1>7, <1>8, <1>9

LEMMA EditCommandType ==
  ASSUME TransportTypeOK, NEW c \in Cue,
         RemoveCue(c) \/ \E i \in DOMAIN order[Home[c]] : MoveCue(c, i)
  PROVE  TransportTypeOK'
<1> DEFINE l == Home[c]
           at == Position(l, c)
           left == RemoveAt(order[l], at)
<1>1. l \in List
  BY HomeAssumption
<1>2. Present(c)
  BY DEF RemoveCue, MoveCue
<1>3. order[l] \in Seq(Cue) /\ at \in 1 .. Len(order[l])
  BY <1>1, <1>2, PositionType DEF Present, TransportTypeOK, ListsOK
<1>4. left \in Seq(Cue)
  BY <1>3, EditedOrderType
<1>5. CASE RemoveCue(c)
  <2>1. CuesOK' /\ PlansOK' /\ halted' \in SUBSET (Cue \X Nat)
    BY <1>5, HaltType DEF RemoveCue
  <2>2. HistoryOK'
    BY <1>5, <2>1, IssuesType DEF RemoveCue, TransportTypeOK, HistoryOK
  <2>3. order' \in [List -> Seq(Cue)]
    BY <1>1, <1>4, <1>5 DEF RemoveCue, TransportTypeOK, ListsOK
  <2>4. playhead' \in [List -> Cue \cup {NoCue}]
    <3> DEFINE next == IF left = <<>> THEN NoCue
                       ELSE IF at <= Len(left) THEN left[at] ELSE left[Len(left)]
    <3>1. next \in Cue \cup {NoCue}
      <4>1. left # <<>> => Len(left) \in 1 .. Len(left)
        BY <1>4
      <4>2. at <= Len(left) => at \in 1 .. Len(left)
        BY <1>3, <1>4
      <4>3. \A i \in 1 .. Len(left) : left[i] \in Cue
        BY <1>4
      <4>4. QED
        <5> HIDE DEF left, at
        <5> QED BY <4>1, <4>2, <4>3
    <3>2. playhead' = playhead \/ playhead' = [playhead EXCEPT ![l] = next]
      BY <1>5 DEF RemoveCue
    <3>3. QED
      <4> HIDE DEF next
      <4> QED BY <1>1, <3>1, <3>2 DEF TransportTypeOK, ListsOK
  <2>5. ListsOK'
    BY <2>3, <2>4 DEF ListsOK
  <2>6. QED BY <1>5, <2>1, <2>2, <2>5, Untouched DEF RemoveCue, TransportTypeOK
<1>6. CASE \E i \in DOMAIN order[Home[c]] : MoveCue(c, i)
  <2>1. PICK i \in DOMAIN order[Home[c]] : MoveCue(c, i)
    BY <1>6
  <2>2. i \in 1 .. Len(left) + 1 /\ order' = [order EXCEPT ![l] = InsertAt(left, i, c)]
    BY <2>1 DEF MoveCue
  <2>3. InsertAt(left, i, c) \in Seq(Cue)
    BY <1>3, <2>2, EditedOrderType
  <2>4. ListsOK'
    <3>1. playhead' = playhead
      BY <2>1 DEF MoveCue
    <3> HIDE DEF left
    <3>2. QED BY <1>1, <2>2, <2>3, <3>1 DEF TransportTypeOK, ListsOK
  <2>5. QED BY <2>1, <2>4, IssuesType, Untouched DEF MoveCue, TransportTypeOK
<1>7. QED BY <1>5, <1>6

LEMMA CommandType ==
  ASSUME TransportTypeOK, Command
  PROVE  TransportTypeOK'
<1>1. ASSUME NEW l \in List, Go(l)
      PROVE  TransportTypeOK'
  <2>1. CallOK'
    BY <1>1, GoFrameType, LaunchGoType DEF Go, TransportTypeOK
  <2>2. QED BY <1>1, <2>1, IssuesType, Untouched DEF Go, TransportTypeOK
<1>2. ASSUME NEW l \in List, StopAll(l)
      PROVE  TransportTypeOK'
  <2>1. CuesOf(l) \in SUBSET Cue
    BY DEF CuesOf
  <2>2. CuesOK' /\ PlansOK' /\ halted' \in SUBSET (Cue \X Nat)
    BY <1>2, <2>1, HaltType DEF StopAll
  <2>3. QED
    BY <1>2, <2>2, Untouched DEF StopAll, TransportTypeOK, HistoryOK
<1>3. CASE HardStopAll
  <2>1. CuesOK' /\ PlansOK' /\ halted' \in SUBSET (Cue \X Nat)
    BY <1>3, HaltType DEF HardStopAll
  <2>2. QED
    BY <1>3, <2>1, Untouched DEF HardStopAll, TransportTypeOK, HistoryOK
<1>4. QED
  BY <1>1, <1>2, <1>3, CueCommandType, EditCommandType DEF Command

(***************************************************************************)
(* The event loop.                                                         *)
(***************************************************************************)
LEMMA ClockType ==
  ASSUME TypeOK, NEW c \in Cue, PlaybackEnds(c) \/ PostWaitElapses(c) \/ DeadlinePasses(c)
  PROVE  TypeOK'
<1>1. CASE PlaybackEnds(c)
  <2>1. CuesOK'
    BY <1>1 DEF PlaybackEnds, TypeOK, TransportTypeOK, CuesOK
  <2>2. UNCHANGED loopVars
    BY <1>1 DEF PlaybackEnds
  <2>3. QED
    BY <1>1, <2>1, <2>2, Untouched DEF PlaybackEnds, TypeOK, TransportTypeOK, loopVars
<1>2. CASE PostWaitElapses(c)
  <2>1. CuesOK'
    BY <1>2 DEF PostWaitElapses, TypeOK, TransportTypeOK, CuesOK
  <2>2. UNCHANGED loopVars
    BY <1>2 DEF PostWaitElapses
  <2>3. QED
    BY <1>2, <2>1, <2>2, Untouched DEF PostWaitElapses, TypeOK, TransportTypeOK, loopVars
<1>3. CASE DeadlinePasses(c)
  <2>1. TransportTypeOK'
    BY <1>3, Untouched DEF DeadlinePasses, TypeOK, TransportTypeOK, transportVars
  <2>2. pending' \in [Cue -> Pending]
    BY <1>3 DEF DeadlinePasses, TypeOK, Pending
  <2>3. QED BY <1>3, <2>1, <2>2 DEF DeadlinePasses, TypeOK
<1>4. QED BY <1>1, <1>2, <1>3

LEMMA TickType ==
  ASSUME TypeOK, Tick
  PROVE  TypeOK'
<1> DEFINE done == {c \in Cue : Completing(c)}
           resolved == {c \in Cue : PendingValid(c) /\ pending[c].due}
           waiting == {c \in Cue : PendingValid(c) /\ ~pending[c].due}
           followed == {c \in done : CompletesWithPlan(c)}
           delayed == {c \in Cue : DelayedDue(c)}
           deferred == {c \in followed : WaitsAfterCompletion(c)}
           due == resolved \cup delayed \cup (followed \ deferred)
<1>1. CuesOK'
  <2>1. state' = [c \in Cue |-> IF c \in done THEN "standby" ELSE state[c]]
    BY DEF Tick
  <2>2. state' \in [Cue -> CueStates]
    <3>1. \A x \in Cue : state[x] \in CueStates
      BY DEF TypeOK, TransportTypeOK, CuesOK
    <3>2. "standby" \in CueStates
      BY DEF CueStates
    <3> HIDE DEF done
    <3>3. QED BY <2>1, <3>1, <3>2
  <2>3. ripe' \in [Cue -> BOOLEAN] /\ ended' \in [Cue -> BOOLEAN]
    BY Zenon DEF Tick
  <2>4. fired' \in [Cue -> BOOLEAN]
    <3>1. fired' = [c \in Cue |-> IF c \in followed \cup delayed THEN TRUE
                                  ELSE fired[c] /\ c \notin done]
      BY DEF Tick
    <3> HIDE DEF followed, delayed, done
    <3>2. QED BY <3>1, Zenon
  <2>5. generation' = generation
    BY DEF Tick
  <2>6. QED BY <2>2, <2>3, <2>4, <2>5 DEF TypeOK, TransportTypeOK, CuesOK
<1>2. \A c \in Cue : plan[c].token \in Nat /\ generation[c] \in Nat /\ mode[c] \in Modes
  BY DEF TypeOK, TransportTypeOK, PlansOK, Plan, CuesOK, AuthoredOK
<1>3. pending' \in [Cue -> Pending]
  <2>1. pending' = [c \in Cue |->
          IF c \in deferred
          THEN [gen |-> generation[c], token |-> plan[c].token, mode |-> mode[c], due |-> FALSE]
          ELSE IF c \in waiting THEN pending[c] ELSE NoPending]
    BY DEF Tick
  <2>2. NoPending \in Pending
    BY DEF NoPending, Pending, Modes
  <2>3. \A c \in Cue :
          /\ pending[c] \in Pending
          /\ [gen |-> generation[c], token |-> plan[c].token, mode |-> mode[c], due |-> FALSE]
               \in Pending
    BY <1>2 DEF TypeOK, Pending
  <2> HIDE DEF deferred, waiting
  <2>4. QED BY <2>1, <2>2, <2>3
<1>4. ready' \in SUBSET Ready
  <2>1. ready' = {[list |-> Home[c], token |-> plan[c].token, cue |-> c] : c \in due}
    BY DEF Tick
  <2>2. due \subseteq Cue
    OBVIOUS
  <2> HIDE DEF due
  <2>3. QED BY <1>2, <2>1, <2>2, HomeAssumption DEF Ready
<1>5. holder' \in {"none", "tick"}
  BY DEF Tick
<1>6. CallOK'
  BY <1>5 DEF Tick, TypeOK, TransportTypeOK, CallOK
<1>7. TransportTypeOK'
  BY <1>1, <1>6, Untouched DEF Tick, TypeOK, TransportTypeOK
<1>8. QED BY <1>3, <1>4, <1>7 DEF TypeOK

LEMMA TickStepType ==
  ASSUME TypeOK, TickStep
  PROVE  TypeOK'
<1>1. ASSUME NEW r \in ready, StaleReady(r)
      PROVE  TypeOK'
  BY <1>1, Untouched DEF StaleReady, TypeOK, TransportTypeOK, transportVars
<1>2. ASSUME NEW r \in ready, FireReady(r)
      PROVE  TypeOK'
  <2> DEFINE c == r.cue
             target == FirstArmed(r.list, plan[c].targets)
  <2>1. c \in Cue /\ r.list \in List
    BY DEF TypeOK, Ready
  <2>2. plan[c].targets \in Seq(Cue) /\ plan[c].gen \in Nat /\ plan[c].token \in Nat
    BY <2>1 DEF TypeOK, TransportTypeOK, PlansOK, Plan
  <2>3. target \in Cue \cup {NoCue}
    BY <2>2, FirstArmedType
  <2>4. \/ /\ playhead' = [playhead EXCEPT ![r.list] = target]
           /\ LaunchGo(GoFrame(r.list), "tick")
           /\ NoteHanded(c, plan[c].gen, plan[c].token)
        \/ UNCHANGED <<playhead, callVars, handed>>
    BY <1>2 DEF FireReady
  <2>5. ListsOK'
    BY <1>2, <2>1, <2>3, <2>4 DEF FireReady, TypeOK, TransportTypeOK, ListsOK
  <2>6. CallOK'
    BY <2>1, <2>4, GoFrameType, LaunchGoType, Untouched DEF TypeOK, TransportTypeOK
  <2>7. handed' \in SUBSET HandOver
    BY <2>1, <2>2, <2>4, NoteHandedType DEF TypeOK, TransportTypeOK, HistoryOK
  <2>8. HistoryOK'
    BY <1>2, <2>7 DEF FireReady, TypeOK, TransportTypeOK, HistoryOK
  <2>9. PlansOK'
    BY <1>2, DropPlansType DEF FireReady, TypeOK, TransportTypeOK
  <2>10. TransportTypeOK'
    BY <1>2, <2>5, <2>6, <2>8, <2>9, Untouched DEF FireReady, TypeOK, TransportTypeOK
  <2>11. QED BY <1>2, <2>10 DEF FireReady, TypeOK
<1>3. CASE TickReturns
  <2>1. CallOK'
    BY <1>3 DEF TickReturns, TypeOK, TransportTypeOK, CallOK
  <2>2. QED
    BY <1>3, <2>1, Untouched DEF TickReturns, TypeOK, TransportTypeOK, loopVars
<1>4. QED BY <1>1, <1>2, <1>3 DEF TickStep

(***************************************************************************)
(* The theorem.                                                            *)
(***************************************************************************)
LEMMA InitType == Init => TypeOK
<1> SUFFICES ASSUME Init
             PROVE  TypeOK
  OBVIOUS
<1>1. ListsOK
  <2>1. \A l \in List : order[l] \in Seq(Cue)
    BY OrderAssumption DEF Init, TransportInit
  <2>2. \A l \in List : order[l] # <<>> => Head(order[l]) \in Cue
    BY <2>1
  <2>3. QED BY <2>1, <2>2, OrderAssumption DEF Init, TransportInit, ListsOK
<1>2. PlansOK
  BY DEF Init, TransportInit, PlansOK, Plan, NoPlan
<1>3. CuesOK
  BY DEF Init, TransportInit, CuesOK, CueStates
<1>4. AuthoredOK
  BY ModesAssumption DEF Init, TransportInit, AuthoredOK
<1>5. CallOK /\ HistoryOK
  BY DEF Init, TransportInit, CallOK, HistoryOK
<1>6. pending \in [Cue -> Pending] /\ ready \in SUBSET Ready
  BY DEF Init, NoPending, Pending, Modes
<1>7. QED BY <1>1, <1>2, <1>3, <1>4, <1>5, <1>6 DEF TypeOK, TransportTypeOK

LEMMA NextType == TypeOK /\ [Next]_vars => TypeOK'
<1> SUFFICES ASSUME TypeOK, [Next]_vars
             PROVE  TypeOK'
  OBVIOUS
<1>1. CASE (Command \/ CallStep) /\ UNCHANGED loopVars
  BY <1>1, CommandType, CallStepType DEF TypeOK, loopVars
<1>2. CASE CommandReturns /\ UNCHANGED loopVars
  <2>1. CallOK'
    BY <1>2 DEF CommandReturns, TypeOK, TransportTypeOK, CallOK
  <2>2. QED
    BY <1>2, <2>1, Untouched DEF CommandReturns, TypeOK, TransportTypeOK, loopVars
<1>3. CASE UNCHANGED vars
  BY <1>3, Untouched DEF vars, transportVars, loopVars, TypeOK, TransportTypeOK
<1>4. QED
  BY <1>1, <1>2, <1>3, TickType, TickStepType, ClockType DEF Next

\* Type correctness: whatever the shows, the commands and the timing, the
\* lists, cues, work stack, plans and books of the loop keep their types.
THEOREM TypeCorrect == Spec => []TypeOK
BY InitType, NextType, PTL DEF Spec

(***************************************************************************)
(* The ways a step treats plans                                            *)
(***************************************************************************)
\* Plans are dropped and nothing is handed over.
Drops == \E S : DropPlans(S) /\ UNCHANGED handed

\* A plan is bound to a run and waits.
Binds == \E c \in Cue, g \in Nat, ts \in Seq(Cue) : BindPlan(c, g, ts) /\ UNCHANGED handed

\* The plan of c is taken and fires the successor.
Spends == \E c \in Cue : /\ plan[c] # NoPlan /\ DropPlans({c})
                         /\ NoteHanded(c, plan[c].gen, plan[c].token)

\* A chain takes a token of its own and fires the successor at once, or finds none.
Chains == \E c \in Cue :
  LET token == nextToken[Home[c]] + 1 IN
  /\ nextToken' = [nextToken EXCEPT ![Home[c]] = token]
  /\ plan' = PlansWithout({c})
  /\ NoteHanded(c, generation[c], token) \/ UNCHANGED handed

PlansUntouched == UNCHANGED <<planVars, handed>>
PlanSteps == Drops \/ Binds \/ Spends \/ Chains \/ PlansUntouched

(***************************************************************************)
(* Every step is one of PlanSteps.                                         *)
(***************************************************************************)
LEMMA CallStepOnPlans ==
  ASSUME TypeOK, CallStep
  PROVE  PlanSteps
<1> USE DEF PlanSteps
<1>1. CASE GoStep
  BY <1>1 DEF GoStep, GoNothing, GoSkipsDisabled, GoFires, GoFails, GoCueAtPlayhead, Drops,
     PlansUntouched, historyVars
<1>2. CASE ActStep
  BY <1>2 DEF ActStep, ActSkipped, ActPlain, ActStop, ActGoto, ActPauseResume, ActReset, ActArm,
     ActStart, Drops, PlansUntouched, historyVars
<1>3. CASE StartFires
  <2> DEFINE t == Head(Top.targets)
  <2>1. t \in Cue
    BY <1>3, DoingType DEF StartFires, TypeOK, TransportTypeOK
  <2>2. generation[t] + 1 \in Nat /\ Successors(Home[t], t) \in Seq(Cue)
    BY <2>1, HomeAssumption, SuccessorsType DEF TypeOK, TransportTypeOK, CuesOK
  <2>3. /\ UNCHANGED handed
        /\ \/ BindPlan(t, generation[t] + 1, Successors(Home[t], t))
           \/ DropPlans(IF IgnoresGo(t) THEN {} ELSE {t})
    BY <1>3 DEF StartFires, historyVars
  <2>4. QED BY <2>1, <2>2, <2>3 DEF Binds, Drops
<1>4. CASE ImmediateFires
  <2> DEFINE c == Top.cue
  <2>1. c \in Cue
    BY <1>4, DoingType DEF ImmediateFires, TypeOK, TransportTypeOK
  <2>2. \/ DropPlans({c}) /\ plan[c] # NoPlan /\ NoteHanded(c, plan[c].gen, plan[c].token)
        \/ (\E S : DropPlans(S)) /\ UNCHANGED handed
    BY <1>4 DEF ImmediateFires
  <2>3. QED BY <2>1, <2>2 DEF Spends, Drops
<1>5. CASE StartsDone \/ StartSkips \/ StartFails \/ ImmediateSkipped \/ CloseDispatch
  BY <1>5 DEF StartsDone, StartSkips, StartFails, ImmediateSkipped, CloseDispatch,
     PlansUntouched, historyVars
<1>6. CASE FinishIgnored \/ FinishEnds
  BY <1>6 DEF FinishIgnored, FinishEnds, Drops, PlansUntouched, historyVars
<1>7. CASE FinishBinds
  <2>1. /\ Top.cue \in Cue /\ generation[Top.cue] \in Nat /\ Top.targets \in Seq(Cue)
    BY <1>7, DoingType DEF FinishBinds, TypeOK, TransportTypeOK, CuesOK
  <2>2. QED BY <1>7, <2>1 DEF FinishBinds, Binds, historyVars
<1>8. CASE FinishChains
  <2>1. Top.cue \in Cue
    BY <1>8, DoingType DEF FinishChains, TypeOK, TransportTypeOK
  <2>2. QED BY <1>8, <2>1 DEF FinishChains, Chains
<1>9. QED
  BY <1>1, <1>2, <1>3, <1>4, <1>5, <1>6, <1>7, <1>8 DEF CallStep, StartStep, FinishStep

LEMMA CommandOnPlans ==
  ASSUME Command
  PROVE  PlanSteps
BY DEF Command, Go, GoCue, StopCue, StopAll, HardStopAll, PauseCue, ResumeCue, SetPlayhead,
   ToggleDisabled, SetMode, MoveCue, RemoveCue, PlanSteps, Drops, PlansUntouched, historyVars

LEMMA LoopOnPlans ==
  ASSUME TypeOK, TokensAreUnique,
         \/ CommandReturns \/ Tick \/ TickStep \/ UNCHANGED vars
         \/ \E c \in Cue : PlaybackEnds(c) \/ PostWaitElapses(c) \/ DeadlinePasses(c)
  PROVE  PlanSteps
<1> USE DEF PlanSteps
<1>1. ASSUME NEW r \in ready, FireReady(r)
      PROVE  PlanSteps
  <2> DEFINE c == r.cue
  <2>1. c \in Cue /\ plan[c].token = r.token /\ r.token \in 1 .. nextToken[r.list]
    BY <1>1 DEF FireReady, TypeOK, Ready, TokensAreUnique
  <2>2. plan[c] # NoPlan
    BY <2>1 DEF NoPlan
  <2>3. /\ DropPlans({c})
        /\ NoteHanded(c, plan[c].gen, plan[c].token) \/ UNCHANGED handed
    BY <1>1 DEF FireReady
  <2>4. QED BY <2>1, <2>2, <2>3 DEF Spends, Drops
<1>2. ASSUME NEW r \in ready, StaleReady(r)
      PROVE  PlanSteps
  BY <1>2 DEF StaleReady, transportVars, PlansUntouched, historyVars
<1>3. CASE CommandReturns \/ Tick \/ TickReturns
  BY <1>3 DEF CommandReturns, Tick, TickReturns, PlansUntouched, historyVars
<1>4. ASSUME NEW c \in Cue, PlaybackEnds(c) \/ PostWaitElapses(c) \/ DeadlinePasses(c)
      PROVE  PlanSteps
  BY <1>4 DEF PlaybackEnds, PostWaitElapses, DeadlinePasses, transportVars, PlansUntouched,
     historyVars
<1>5. CASE UNCHANGED vars
  BY <1>5 DEF vars, transportVars, PlansUntouched, historyVars
<1>6. QED BY <1>1, <1>2, <1>3, <1>4, <1>5 DEF TickStep

LEMMA StepsOnPlans ==
  ASSUME TypeOK, TokensAreUnique, [Next]_vars
  PROVE  PlanSteps
BY CallStepOnPlans, CommandOnPlans, LoopOnPlans DEF Next

(***************************************************************************)
(* Tokens.                                                                 *)
(***************************************************************************)

\* The part of TokensAreUnique about plans, and the part about the loop's books.
PlanTokens ==
  /\ \A c \in Cue : /\ plan[c].token <= nextToken[Home[c]]
                    /\ (plan[c] # NoPlan => plan[c].token > 0)
  /\ \A c, d \in Cue : c # d /\ Home[c] = Home[d] /\ plan[c] # NoPlan
                         => plan[c].token # plan[d].token
LoopTokens ==
  /\ \A c \in Cue : pending[c].token <= nextToken[Home[c]]
  /\ \A r \in ready : r.list = Home[r.cue] /\ r.token \in 1 .. nextToken[r.list]

LEMMA TokenParts == TokensAreUnique <=> PlanTokens /\ LoopTokens
BY DEF TokensAreUnique, PlanTokens, LoopTokens

LEMMA TokenTypes ==
  ASSUME TypeOK
  PROVE  /\ \A c \in Cue : /\ Home[c] \in List /\ plan[c].token \in Nat
                           /\ pending[c].token \in Nat /\ nextToken[Home[c]] \in Nat
         /\ \A l \in List : nextToken[l] \in Nat
         /\ nextToken \in [List -> Nat] /\ plan \in [Cue -> Plan]
         /\ NoPlan.token = 0
<1>1. \A c \in Cue : Home[c] \in List
  BY HomeAssumption
<1>2. plan \in [Cue -> Plan] /\ nextToken \in [List -> Nat] /\ pending \in [Cue -> Pending]
  BY DEF TypeOK, TransportTypeOK, PlansOK
<1>3. QED BY <1>1, <1>2 DEF Plan, Pending, NoPlan

\* Dropping plans disturbs no token.
LEMMA DroppingKeepsTokens ==
  ASSUME TypeOK, PlanTokens, NEW S, plan' = PlansWithout(S),
         \A l \in List : nextToken[l] <= nextToken'[l] /\ nextToken'[l] \in Nat
  PROVE  PlanTokens'
<1>1. \A c \in Cue : plan'[c] = NoPlan \/ plan'[c] = plan[c]
  BY DEF PlansWithout
<1>2. ASSUME NEW c \in Cue
      PROVE  plan'[c].token <= nextToken'[Home[c]] /\ (plan'[c] # NoPlan => plan'[c].token > 0)
  BY <1>1, TokenTypes DEF PlanTokens
<1>3. ASSUME NEW c \in Cue, NEW d \in Cue, c # d, Home[c] = Home[d], plan'[c] # NoPlan
      PROVE  plan'[c].token # plan'[d].token
  <2>1. plan'[c] = plan[c] /\ plan[c].token > 0
    BY <1>1, <1>3 DEF PlanTokens
  <2>2. CASE plan'[d] = NoPlan
    BY <2>1, <2>2, TokenTypes
  <2>3. CASE plan'[d] = plan[d]
    BY <1>3, <2>1, <2>3 DEF PlanTokens
  <2>4. QED BY <1>1, <2>2, <2>3
<1>4. QED BY <1>2, <1>3 DEF PlanTokens

LEMMA PlanStepsKeepTokens ==
  ASSUME TypeOK, PlanTokens, PlanSteps
  PROVE  /\ PlanTokens'
         /\ \A l \in List : nextToken[l] <= nextToken'[l] /\ nextToken'[l] \in Nat
<1>1. CASE Drops \/ Spends
  <2>1. PICK S : plan' = PlansWithout(S) /\ nextToken' = nextToken
    BY <1>1 DEF Drops, Spends, DropPlans
  <2>2. QED BY <2>1, DroppingKeepsTokens, TokenTypes
<1>2. CASE Chains
  <2>1. PICK c \in Cue : /\ plan' = PlansWithout({c})
                         /\ nextToken' = [nextToken EXCEPT ![Home[c]] = nextToken[Home[c]] + 1]
    BY <1>2 DEF Chains
  <2>2. \A l \in List : nextToken[l] <= nextToken'[l] /\ nextToken'[l] \in Nat
    BY <2>1, TokenTypes
  <2>3. QED BY <2>1, <2>2, DroppingKeepsTokens
<1>3. CASE Binds
  <2>1. PICK c \in Cue, g \in Nat, ts \in Seq(Cue) : BindPlan(c, g, ts)
    BY <1>3 DEF Binds
  <2> DEFINE token == nextToken[Home[c]] + 1
             new == [gen |-> g, token |-> token, targets |-> ts]
  <2>2. /\ nextToken' = [nextToken EXCEPT ![Home[c]] = token]
        /\ plan' = [plan EXCEPT ![c] = new]
        /\ new.token = token
    BY <2>1 DEF BindPlan
  <2> HIDE DEF new
  <2>3. \A l \in List : nextToken[l] <= nextToken'[l] /\ nextToken'[l] \in Nat
    BY <2>2, TokenTypes
  <2>4. plan'[c].token = token /\ nextToken'[Home[c]] = token
    BY <2>2, TokenTypes
  <2>5. \A d \in Cue \ {c} : plan'[d] = plan[d]
    BY <2>2, TokenTypes
  <2>6. ASSUME NEW d \in Cue
        PROVE  plan'[d].token <= nextToken'[Home[d]] /\ (plan'[d] # NoPlan => plan'[d].token > 0)
    BY <2>3, <2>4, <2>5, TokenTypes DEF PlanTokens
  <2>7. \A d \in Cue \ {c} : Home[d] = Home[c] => plan'[d].token # token
    BY <2>5, TokenTypes DEF PlanTokens
  <2>8. ASSUME NEW x \in Cue, NEW y \in Cue, x # y, Home[x] = Home[y], plan'[x] # NoPlan
        PROVE  plan'[x].token # plan'[y].token
    <3>1. CASE x = c \/ y = c
      BY <2>4, <2>7, <2>8, <3>1
    <3>2. CASE x # c /\ y # c
      BY <2>5, <2>8, <3>2 DEF PlanTokens
    <3>3. QED BY <3>1, <3>2
  <2>9. QED BY <2>3, <2>6, <2>8 DEF PlanTokens
<1>4. CASE PlansUntouched
  BY <1>4, TokenTypes DEF PlansUntouched, planVars, PlanTokens
<1>5. QED BY <1>1, <1>2, <1>3, <1>4 DEF PlanSteps

\* The loop's books change in a tick, where they take the tokens of plans, and
\* shrink otherwise.
LEMMA BooksKeepTokens ==
  ASSUME TypeOK, TokensAreUnique, [Next]_vars,
         \A l \in List : nextToken[l] <= nextToken'[l] /\ nextToken'[l] \in Nat
  PROVE  LoopTokens'
<1>1. CASE Tick
  <2>1. ASSUME NEW c \in Cue
        PROVE  \/ pending'[c].token = plan[c].token
               \/ pending'[c] = pending[c]
               \/ pending'[c].token = 0
    <3> DEFINE deferred == {x \in {y \in {z \in Cue : Completing(z)} : CompletesWithPlan(y)} :
                              WaitsAfterCompletion(x)}
               waiting == {x \in Cue : PendingValid(x) /\ ~pending[x].due}
    <3>1. pending'[c] = IF c \in deferred
            THEN [gen |-> generation[c], token |-> plan[c].token, mode |-> mode[c], due |-> FALSE]
            ELSE IF c \in waiting THEN pending[c] ELSE NoPending
      BY <1>1 DEF Tick
    <3> HIDE DEF deferred, waiting
    <3>2. QED BY <3>1 DEF NoPending
  <2>2. \A r \in ready' : \E c \in Cue : /\ r.list = Home[c] /\ r.token = plan[c].token
                                         /\ r.cue = c /\ plan[c] # NoPlan
    <3>1. \A r \in ready' : \E c \in Cue :
            /\ r = [list |-> Home[c], token |-> plan[c].token, cue |-> c]
            /\ PendingValid(c) \/ DelayedDue(c) \/ CompletesWithPlan(c)
      BY <1>1 DEF Tick
    <3>2. \A c : PendingValid(c) \/ DelayedDue(c) \/ CompletesWithPlan(c) => plan[c] # NoPlan
      BY DEF PendingValid, DelayedDue, CompletesWithPlan, HasPlan
    <3>3. QED BY <3>1, <3>2
  <2>3. \A c \in Cue : pending'[c].token <= nextToken'[Home[c]]
    BY <2>1, TokenTypes DEF TokensAreUnique
  <2>4. \A r \in ready' : r.list = Home[r.cue] /\ r.token \in 1 .. nextToken'[r.list]
    BY <2>2, TokenTypes DEF TokensAreUnique
  <2>5. QED BY <2>3, <2>4 DEF LoopTokens
<1>2. ASSUME \A c \in Cue : pending'[c].token = pending[c].token, ready' \in SUBSET ready
      PROVE  LoopTokens'
  <2>1. \A c \in Cue : pending'[c].token <= nextToken'[Home[c]]
    BY <1>2, TokenTypes DEF TokensAreUnique
  <2>2. \A r \in ready' : r.list = Home[r.cue] /\ r.token \in 1 .. nextToken[r.list] /\ r.list \in List
    BY <1>2, HomeAssumption DEF TokensAreUnique, TypeOK, Ready
  <2>3. \A r \in ready' : r.list = Home[r.cue] /\ r.token \in 1 .. nextToken'[r.list]
    BY <2>2, TokenTypes
  <2>4. QED BY <2>1, <2>3 DEF LoopTokens
<1>3. CASE UNCHANGED loopVars
  BY <1>2, <1>3 DEF loopVars
<1>4. ASSUME NEW c \in Cue, DeadlinePasses(c)
      PROVE  LoopTokens'
  <2>1. \A d \in Cue : pending'[d].token = pending[d].token
    <3>1. pending' = [pending EXCEPT ![c].due = TRUE]
      BY <1>4 DEF DeadlinePasses
    <3>2. pending \in [Cue -> Pending]
      BY DEF TypeOK
    <3>3. QED BY <3>1, <3>2 DEF Pending
  <2>2. QED BY <1>2, <1>4, <2>1 DEF DeadlinePasses
<1>5. ASSUME NEW r \in ready, StaleReady(r) \/ FireReady(r)
      PROVE  LoopTokens'
  BY <1>2, <1>5 DEF StaleReady, FireReady
<1>6. QED
  BY <1>1, <1>3, <1>4, <1>5 DEF Next, TickStep, TickReturns, PlaybackEnds, PostWaitElapses, vars

LEMMA TokensInductive == TypeOK /\ TokensAreUnique /\ [Next]_vars => TokensAreUnique'
<1> SUFFICES ASSUME TypeOK, TokensAreUnique, [Next]_vars
             PROVE  TokensAreUnique'
  OBVIOUS
<1>1. PlanTokens /\ PlanSteps
  BY TokenParts, StepsOnPlans
<1>2. PlanTokens' /\ LoopTokens'
  BY <1>1, PlanStepsKeepTokens, BooksKeepTokens
<1>3. QED BY <1>2 DEF TokensAreUnique, PlanTokens, LoopTokens

LEMMA TokensInit == Init => TokensAreUnique
BY HomeAssumption DEF Init, TransportInit, TokensAreUnique, NoPlan, NoPending

\* No two cues of a list ever hold the same token, and no plan, deadline or due
\* continuation carries a token that was not issued: a continuation that was
\* cancelled can not be mistaken for a later one.
THEOREM TokensUnique == Spec => []TokensAreUnique
BY TypeCorrect, TokensInit, TokensInductive, PTL DEF Spec

(***************************************************************************)
(* Refinement: EventLoop implements ContinuationLedger.                    *)
(***************************************************************************)
LEMMA LedgerInit == Init => Ledger!Init
BY DEF Init, TransportInit, Ledger!Init, NoPlan

\* Dropping the plans of S takes the continuations of those cues back.
LEMMA DroppingTakesBack ==
  ASSUME TypeOK, NEW S, plan' = PlansWithout(S)
  PROVE  Ledger!TakeBack(S \cap Cue)
BY TokenTypes DEF PlansWithout, Ledger!TakeBack

LEMMA LedgerStep ==
  TypeOK /\ TokensAreUnique /\ [Next]_vars => [Ledger!Next]_(Ledger!ledger)
<1> SUFFICES ASSUME TypeOK, TokensAreUnique, [Next]_vars
             PROVE  Ledger!Next \/ UNCHANGED Ledger!ledger
  BY DEF Ledger!ledger
<1> DEFINE spent == {<<h.cue, h.token>> : h \in handed}
<1>1. ASSUME NEW c \in Cue, NEW g, NEW t, NoteHanded(c, g, t)
      PROVE  {<<h.cue, h.token>> : h \in handed'} = spent \cup {<<c, t>>}
  BY <1>1, HandedEntry
<1>2. CASE Drops
  <2>1. PICK S : DropPlans(S) /\ UNCHANGED handed
    BY <1>2 DEF Drops
  <2>2. Ledger!Cancel(S \cap Cue)
    BY <2>1, DroppingTakesBack DEF DropPlans, Ledger!Cancel
  <2>3. QED BY <2>2 DEF Ledger!Next
<1>3. CASE Binds
  <2>1. PICK c \in Cue, g \in Nat, ts \in Seq(Cue) : BindPlan(c, g, ts) /\ UNCHANGED handed
    BY <1>3 DEF Binds
  <2>2. Ledger!Issue(c)
    BY <2>1, TokenTypes DEF BindPlan, Ledger!Issue, Ledger!Count
  <2>3. QED BY <2>2 DEF Ledger!Next
<1>4. CASE Spends
  <2>1. PICK c \in Cue : /\ plan[c] # NoPlan /\ DropPlans({c})
                         /\ NoteHanded(c, plan[c].gen, plan[c].token)
    BY <1>4 DEF Spends
  <2>2. plan[c].token # 0
    BY <2>1, TokenTypes DEF TokensAreUnique
  <2>3. Ledger!TakeBack({c})
    <3>1. {c} \cap Cue = {c}
      OBVIOUS
    <3>2. QED BY <2>1, <3>1, DroppingTakesBack DEF DropPlans
  <2>4. Ledger!Spend(c)
    BY <1>1, <2>1, <2>2, <2>3 DEF DropPlans, Ledger!Spend
  <2>5. QED BY <2>4 DEF Ledger!Next
<1>5. CASE Chains
  <2>1. PICK c \in Cue :
          /\ nextToken' = [nextToken EXCEPT ![Home[c]] = nextToken[Home[c]] + 1]
          /\ plan' = PlansWithout({c})
          /\ \/ NoteHanded(c, generation[c], nextToken[Home[c]] + 1)
             \/ UNCHANGED handed
    BY <1>5 DEF Chains
  <2>2. Ledger!TakeBack({c})
    <3>1. {c} \cap Cue = {c}
      OBVIOUS
    <3>2. QED BY <2>1, <3>1, DroppingTakesBack
  <2>3. Ledger!IssueNow(c)
    BY <1>1, <2>1, <2>2 DEF Ledger!IssueNow, Ledger!Count
  <2>4. QED BY <2>3 DEF Ledger!Next
<1>6. CASE PlansUntouched
  BY <1>6 DEF PlansUntouched, planVars, Ledger!ledger
<1>7. QED BY <1>2, <1>3, <1>4, <1>5, <1>6, StepsOnPlans DEF PlanSteps

\* The event loop and the transport implement the ledger: a continuation fires
\* its successor at most once, and never after it was taken back.
THEOREM LedgerImplemented == Spec => ImplementsLedger
<1>1. Spec => [](TypeOK /\ TokensAreUnique)
  BY TypeCorrect, TokensUnique, PTL
<1>2. QED BY <1>1, LedgerInit, LedgerStep, PTL DEF Spec, Ledger!Spec, ImplementsLedger

(***************************************************************************)
(* A run that was stopped never fires its successor afterwards, in any     *)
(* show.  The property is an action property; the invariant behind it says *)
(* where a stopped run could still come back from: a plan that it holds,   *)
(* or a GO that is still open and will bind a plan at its end.             *)
(***************************************************************************)
FinishesIn(s) == {s[i] : i \in {j \in DOMAIN s : s[j].op = "finish"}}

\* What is halted is a run that has begun; no plan is ahead of its cue; and
\* neither the plan of the current run nor the GO that will bind one belongs to
\* a halted run.
NoHaltedRunContinues ==
  /\ \A x \in halted : x[2] <= generation[x[1]]
  /\ \A c \in Cue : plan[c].gen <= generation[c]
  /\ \A c \in Cue : plan[c] # NoPlan /\ plan[c].gen = generation[c]
                      => <<c, generation[c]>> \notin halted
  /\ \A f \in FinishesIn(stack) : RunStarted(f) => <<f.cue, generation[f.cue]>> \notin halted

\* What a step may do to generations, halted runs, plans and open GOs.
RespectsHalts ==
  /\ \A c \in Cue : generation'[c] \in {generation[c], generation[c] + 1}
  /\ \A x \in halted' \ halted : \E c \in Cue \ OpenGos :
       x = <<c, generation[c]>> /\ plan'[c] = NoPlan /\ generation'[c] = generation[c]
  /\ \A c \in Cue :
       \/ plan'[c] \in {NoPlan, plan[c]}
       \/ plan'[c].gen = generation'[c] /\ <<c, generation'[c]>> \notin halted'
  /\ \A f \in FinishesIn(stack') \ FinishesIn(stack) :
       ~f.active \/ generation'[f.cue] # f.gen => <<f.cue, generation'[f.cue]>> \notin halted'

LEMMA RunTypes ==
  ASSUME TypeOK
  PROVE  /\ \A c \in Cue : generation[c] \in Nat /\ plan[c].gen \in Nat
         /\ \A f \in FinishesIn(stack) : f.cue \in Cue /\ f.cue \in OpenGos
         /\ halted \in SUBSET (Cue \X Nat)
         /\ NoPlan.gen = 0
<1>1. \A c \in Cue : generation[c] \in Nat /\ plan[c].gen \in Nat
  BY DEF TypeOK, TransportTypeOK, CuesOK, PlansOK, Plan
<1>2. ASSUME NEW f \in FinishesIn(stack)
      PROVE  f.cue \in Cue /\ f.cue \in OpenGos
  <2>1. PICK i \in DOMAIN stack : f = stack[i] /\ stack[i].op = "finish"
    BY <1>2 DEF FinishesIn
  <2>2. stack[i] \in FrameSet
    BY <2>1 DEF TypeOK, TransportTypeOK, CallOK
  <2>3. f.cue \in Cue
    BY <2>1, <2>2 DEF FrameSet
  <2>4. QED BY <2>1, <2>3 DEF OpenGos
<1>3. halted \in SUBSET (Cue \X Nat) /\ NoPlan.gen = 0
  BY DEF TypeOK, TransportTypeOK, HistoryOK, NoPlan
<1>4. QED BY <1>1, <1>2, <1>3

LEMMA RespectfulStep ==
  ASSUME TypeOK, NoHaltedRunContinues, RespectsHalts
  PROVE  NoHaltedRunContinues'
<1>1. \A c \in Cue : generation[c] \in Nat /\ plan[c].gen \in Nat
  BY RunTypes
<1>2. ASSUME NEW x \in halted'
      PROVE  x[2] <= generation'[x[1]]
  <2>1. CASE x \in halted
    <3>1. x[1] \in Cue /\ x[2] \in Nat /\ x[2] <= generation[x[1]]
      BY <2>1, RunTypes DEF NoHaltedRunContinues
    <3>2. QED BY <1>1, <3>1 DEF RespectsHalts
  <2>2. CASE x \notin halted
    <3>1. PICK c \in Cue : x = <<c, generation[c]>> /\ generation'[c] = generation[c]
      BY <1>2, <2>2 DEF RespectsHalts
    <3>2. QED BY <1>1, <3>1
  <2>3. QED BY <2>1, <2>2
<1>3. ASSUME NEW c \in Cue
      PROVE  plan'[c].gen <= generation'[c]
  <2>1. generation'[c] \in Nat /\ generation[c] <= generation'[c]
    BY <1>1 DEF RespectsHalts
  <2>2. plan[c].gen <= generation[c] /\ NoPlan.gen = 0
    BY RunTypes DEF NoHaltedRunContinues
  <2>3. plan'[c] = NoPlan \/ plan'[c] = plan[c] \/ plan'[c].gen = generation'[c]
    BY DEF RespectsHalts
  <2>4. QED BY <1>1, <2>1, <2>2, <2>3
\* A run that has just begun was not halted, nor is it by this step.
<1>4. ASSUME NEW c \in Cue, generation'[c] = generation[c] + 1
      PROVE  <<c, generation'[c]>> \notin halted'
  <2>1. <<c, generation'[c]>> \notin halted
    BY <1>1, <1>4 DEF NoHaltedRunContinues
  <2>2. QED BY <1>1, <1>4, <2>1 DEF RespectsHalts
<1>5. ASSUME NEW c \in Cue, plan'[c] # NoPlan, plan'[c].gen = generation'[c]
      PROVE  <<c, generation'[c]>> \notin halted'
  <2>1. CASE generation'[c] = generation[c] + 1
    BY <1>4, <2>1
  <2>2. CASE generation'[c] = generation[c] /\ plan'[c] = plan[c]
    <3>1. <<c, generation[c]>> \notin halted
      BY <1>5, <2>2 DEF NoHaltedRunContinues
    <3>2. QED BY <1>5, <2>2, <3>1 DEF RespectsHalts
  <2>3. QED BY <1>5, <2>1, <2>2 DEF RespectsHalts
<1>6. ASSUME NEW f \in FinishesIn(stack'), ~f.active \/ generation'[f.cue] # f.gen
      PROVE  <<f.cue, generation'[f.cue]>> \notin halted'
  <2>1. CASE f \in FinishesIn(stack)
    <3>1. f.cue \in Cue /\ f.cue \in OpenGos
      BY <2>1, RunTypes
    <3>2. CASE generation'[f.cue] = generation[f.cue] + 1
      BY <1>4, <3>1, <3>2
    <3>3. CASE generation'[f.cue] = generation[f.cue]
      <4>1. <<f.cue, generation[f.cue]>> \notin halted
        BY <1>6, <2>1, <3>3 DEF NoHaltedRunContinues, RunStarted
      <4>2. QED BY <3>1, <3>3, <4>1 DEF RespectsHalts
    <3>4. QED BY <3>1, <3>2, <3>3 DEF RespectsHalts
  <2>2. CASE f \notin FinishesIn(stack)
    BY <1>6, <2>2 DEF RespectsHalts
  <2>3. QED BY <2>1, <2>2
<1>7. QED BY <1>2, <1>3, <1>5, <1>6 DEF NoHaltedRunContinues, RunStarted

(***************************************************************************)
(* The work stack: which open GOs a step leaves.                           *)
(***************************************************************************)
LEMMA FinishesOnStack ==
  ASSUME NEW s \in Seq(FrameSet), s # <<>>
  PROVE  FinishesIn(Tail(s)) \subseteq FinishesIn(s)
<1>1. \A i \in DOMAIN Tail(s) : i + 1 \in DOMAIN s /\ Tail(s)[i] = s[i + 1]
  OBVIOUS
<1>2. QED BY <1>1 DEF FinishesIn

LEMMA FinishesPushed ==
  ASSUME NEW s \in Seq(FrameSet), NEW x \in FrameSet, x.op # "finish"
  PROVE  FinishesIn(<<x>> \o s) \subseteq FinishesIn(s)
<1>1. \A i \in DOMAIN (<<x>> \o s) :
        \/ (<<x>> \o s)[i] = x
        \/ i - 1 \in DOMAIN s /\ (<<x>> \o s)[i] = s[i - 1]
  OBVIOUS
<1>2. QED BY <1>1 DEF FinishesIn

LEMMA FinishesPushedMore ==
  ASSUME NEW s \in Seq(FrameSet), NEW x \in FrameSet, NEW y \in FrameSet,
         x.op # "finish", y.op # "finish"
  PROVE  /\ FinishesIn(<<x, y>> \o s) \subseteq FinishesIn(s)
         /\ \A z \in FrameSet : FinishesIn(<<x, y, z>> \o s) \subseteq FinishesIn(s) \cup {z}
<1>1. \A i \in DOMAIN (<<x, y>> \o s) :
        \/ (<<x, y>> \o s)[i] \in {x, y}
        \/ i - 2 \in DOMAIN s /\ (<<x, y>> \o s)[i] = s[i - 2]
  OBVIOUS
<1>2. ASSUME NEW z \in FrameSet
      PROVE  FinishesIn(<<x, y, z>> \o s) \subseteq FinishesIn(s) \cup {z}
  <2>1. \A i \in DOMAIN (<<x, y, z>> \o s) :
          \/ (<<x, y, z>> \o s)[i] \in {x, y, z}
          \/ i - 3 \in DOMAIN s /\ (<<x, y, z>> \o s)[i] = s[i - 3]
    OBVIOUS
  <2>2. QED BY <2>1 DEF FinishesIn
<1>3. FinishesIn(<<x, y>> \o s) \subseteq FinishesIn(s)
  BY <1>1 DEF FinishesIn
<1>4. QED BY <1>2, <1>3

(***************************************************************************)
(* The kinds of steps.                                                     *)
(***************************************************************************)

\* No run begins and none is halted; plans are at most dropped.
LEMMA CalmStep ==
  ASSUME UNCHANGED <<generation, halted>>, TypeOK,
         plan' = plan \/ \E S : plan' = PlansWithout(S),
         FinishesIn(stack') \subseteq FinishesIn(stack)
  PROVE  RespectsHalts
<1>1. \A c \in Cue : plan'[c] \in {NoPlan, plan[c]}
  BY DEF PlansWithout
<1>2. QED BY <1>1 DEF RespectsHalts

\* The runs of S are halted and lose their plans.
LEMMA HaltingStep ==
  ASSUME UNCHANGED generation, TypeOK, NEW S, NEW T, S \subseteq T, S \subseteq Cue,
         NoteHalted(S), plan' = PlansWithout(T),
         FinishesIn(stack') \subseteq FinishesIn(stack)
  PROVE  RespectsHalts
<1>1. \A c \in Cue : plan'[c] \in {NoPlan, plan[c]} /\ (c \in S => plan'[c] = NoPlan)
  BY DEF PlansWithout
<1>2. \A x \in halted' \ halted : \E c \in S \ OpenGos : x = <<c, generation[c]>>
  BY DEF NoteHalted
<1>3. QED BY <1>1, <1>2 DEF RespectsHalts

\* Only the cue of the GO starts a new run.
LEMMA RunCueGeneration ==
  ASSUME TypeOK, NEW c \in Cue, NEW S, NEW ok, RunCue(c, S, ok)
  PROVE  /\ \A d \in Cue \ {c} : generation'[d] = generation[d]
         /\ IgnoresGo(c) => generation'[c] = generation[c] /\ Active(c)
         /\ ~IgnoresGo(c) => generation'[c] = generation[c] + 1
BY DEF RunCue, TypeOK, TransportTypeOK, CuesOK, IgnoresGo, Active

LEMMA FreshRun ==
  ASSUME TypeOK, NoHaltedRunContinues, NEW c \in Cue
  PROVE  <<c, generation[c] + 1>> \notin halted
BY RunTypes DEF NoHaltedRunContinues

(***************************************************************************)
(* The steps of a call.                                                    *)
(***************************************************************************)
LEMMA GoRespectsHalts ==
  ASSUME TypeOK, NoHaltedRunContinues, GoStep
  PROVE  RespectsHalts
<1> DEFINE l == Top.list
           c == playhead[l]
<1>1. /\ Doing("go") /\ l \in List /\ Rest \in Seq(FrameSet)
      /\ FinishesIn(Rest) \subseteq FinishesIn(stack)
  <2>1. Doing("go")
    BY DEF GoStep, GoNothing, GoSkipsDisabled, GoFires, GoFails
  <2>2. stack \in Seq(FrameSet) /\ stack # <<>>
    BY <2>1 DEF Doing, TypeOK, TransportTypeOK, CallOK
  <2>3. QED BY <2>1, <2>2, DoingType, FinishesOnStack DEF Rest, TypeOK, TransportTypeOK
<1>2. CASE GoNothing \/ GoSkipsDisabled
  BY <1>1, <1>2, CalmStep DEF GoNothing, GoSkipsDisabled, planVars, cueVars, callVars, historyVars
<1>3. ASSUME NEW ok \in BOOLEAN, GoCueAtPlayhead(ok),
             \A f \in FinishesIn(stack') \ FinishesIn(stack) :
               f.cue = c /\ f.active = Active(c) /\ f.gen = generation[c]
      PROVE  RespectsHalts
  <2> DEFINE stopped == StoppedByGo(l, c)
  <2>1. c \in Cue /\ stopped \subseteq Cue \ {c}
    <3>1. order[l] \in Seq(Cue)
      BY <1>1 DEF TypeOK, TransportTypeOK, ListsOK
    <3>2. Members(l) \subseteq Cue
      BY <3>1 DEF Members, ToSet
    <3>3. QED BY <1>3, <3>2 DEF GoCueAtPlayhead, Armed, StoppedByGo
  <2>2. plan' = PlansWithout(stopped) /\ NoteHalted(stopped) /\ RunCue(c, stopped, ok)
    BY <1>3 DEF GoCueAtPlayhead, DropPlans
  <2>3. /\ \A d \in Cue \ {c} : generation'[d] = generation[d]
        /\ IgnoresGo(c) => generation'[c] = generation[c] /\ Active(c)
        /\ ~IgnoresGo(c) => generation'[c] = generation[c] + 1
    BY <2>1, <2>2, RunCueGeneration
  <2>4. \A x \in halted' \ halted : \E d \in stopped \ OpenGos : x = <<d, generation[d]>>
    BY <2>2 DEF NoteHalted
  <2>5. \A d \in Cue : plan'[d] \in {NoPlan, plan[d]} /\ (d \in stopped => plan'[d] = NoPlan)
    BY <2>2 DEF PlansWithout
  <2>6. ~IgnoresGo(c) => <<c, generation'[c]>> \notin halted'
    <3>1. ~IgnoresGo(c) => <<c, generation'[c]>> \notin halted
      BY <2>1, <2>3, FreshRun
    <3> HIDE DEF stopped, c
    <3>2. QED BY <2>1, <2>4, <3>1
  <2>7. ASSUME NEW f \in FinishesIn(stack') \ FinishesIn(stack),
               ~f.active \/ generation'[f.cue] # f.gen
        PROVE  <<f.cue, generation'[f.cue]>> \notin halted'
    BY <1>3, <2>3, <2>6, <2>7
  <2>8. \A d \in Cue : generation'[d] \in {generation[d], generation[d] + 1}
    BY <2>1, <2>3
  <2>9. \A x \in halted' \ halted : \E d \in Cue \ OpenGos :
          x = <<d, generation[d]>> /\ plan'[d] = NoPlan /\ generation'[d] = generation[d]
    <3> HIDE DEF stopped, c
    <3> QED BY <2>1, <2>3, <2>4, <2>5
  <2>10. QED BY <2>5, <2>7, <2>8, <2>9 DEF RespectsHalts
<1>4. CASE GoFires
  <2> DEFINE end == Frame("finish", l, c, Successors(l, c), Active(c), generation[c])
             close == CueFrame("close", c, <<>>)
             act == CueFrame("act", c, <<>>)
  <2>1. c \in Cue /\ TransportTypeOK
    BY <1>4, GoCueAtPlayheadType DEF GoFires, TypeOK
  <2>2. end \in FrameSet /\ close \in FrameSet /\ act \in FrameSet
    <3>1. Successors(l, c) \in Seq(Cue) /\ generation[c] \in Nat
      BY <1>1, <2>1, SuccessorsType DEF TransportTypeOK, CuesOK
    <3>2. Active(c) \in BOOLEAN
      BY DEF Active
    <3>3. end \in FrameSet
      BY <1>1, <2>1, <3>1, <3>2, FrameType DEF CueOps
    <3>4. QED BY <2>1, <3>3, CueFrameType DEF CueOps
  <2>3. stack' = <<act, close, end>> \o Rest
    BY <1>4 DEF GoFires
  <2>4. act.op = "act" /\ close.op = "close"
    BY DEF CueFrame, Frame
  <2>5. end.cue = c /\ end.active = Active(c) /\ end.gen = generation[c]
    BY DEF Frame
  <2>6. FinishesIn(stack') \subseteq FinishesIn(Rest) \cup {end}
    <3> HIDE DEF act, close, end
    <3> QED BY <1>1, <2>2, <2>3, <2>4, FinishesPushedMore
  <2>7. \A f \in FinishesIn(stack') \ FinishesIn(stack) : f = end
    BY <1>1, <2>6
  <2>8. QED BY <1>3, <1>4, <2>5, <2>7 DEF GoFires
<1>5. CASE GoFails
  BY <1>1, <1>3, <1>5 DEF GoFails
<1>6. QED BY <1>2, <1>4, <1>5 DEF GoStep

LEMMA ActRespectsHalts ==
  ASSUME TypeOK, ActStep
  PROVE  RespectsHalts
<1> DEFINE c == Top.cue
<1>1. Doing("act")
  BY DEF ActStep, ActSkipped, ActPlain, ActStop, ActGoto, ActPauseResume, ActReset, ActArm,
         ActStart, Dispatches
<1>2. c \in Cue /\ Rest \in Seq(FrameSet) /\ FinishesIn(Rest) \subseteq FinishesIn(stack)
  <2>1. stack \in Seq(FrameSet) /\ stack # <<>>
    BY <1>1 DEF Doing, TypeOK, TransportTypeOK, CallOK
  <2>2. QED BY <1>1, <2>1, DoingType, FinishesOnStack DEF Rest, TypeOK, TransportTypeOK
<1>3. StopTargets(c) \in SUBSET Cue /\ ControlTargets(c) \in SUBSET Cue
  BY <1>2, TargetsType DEF TypeOK
<1>4. CASE ActSkipped \/ ActPlain \/ ActPauseResume \/ ActArm
  BY <1>2, <1>4, CalmStep
     DEF ActSkipped, ActPlain, ActPauseResume, ActArm, SetStates, planVars, cueVars, historyVars
<1>5. CASE ActStop
  <2> DEFINE stopped == StopTargets(c)
             cancelled == IF stopped = {} THEN {} ELSE Head(ctx).cancelled \cup stopped
             cleared == IF Targets[c] = <<>> THEN CuesOf(Home[c]) ELSE {}
  <2>1. stopped \cup cleared \subseteq cancelled \cup cleared /\ stopped \cup cleared \subseteq Cue
    BY <1>3 DEF CuesOf
  <2>2. /\ UNCHANGED generation /\ NoteHalted(stopped \cup cleared)
        /\ plan' = PlansWithout(cancelled \cup cleared) /\ stack' = Rest
    BY <1>5 DEF ActStop, HaltCues, DropPlans
  <2> HIDE DEF stopped, cancelled, cleared
  <2>3. QED BY <1>2, <2>1, <2>2, HaltingStep
<1>6. CASE ActGoto
  <2> DEFINE targets == IF Targets[c] = <<>> THEN {} ELSE {Head(Targets[c])} \cap ControlTargets(c)
             S == UNION {CuesOf(Home[t]) : t \in targets}
  <2>1. S \subseteq Cue
    BY DEF CuesOf
  <2>2. /\ UNCHANGED generation /\ NoteHalted(S) /\ plan' = PlansWithout(S) /\ stack' = Rest
    BY <1>6 DEF ActGoto, DropPlans, cueVars
  <2> HIDE DEF S
  <2>3. QED BY <1>2, <2>1, <2>2, HaltingStep
<1>7. CASE ActReset
  <2> DEFINE reset == ControlTargets(c)
             T == IF reset = {} THEN {} ELSE Head(ctx).cancelled \cup reset
  <2>1. reset \subseteq T /\ reset \subseteq Cue
    BY <1>3
  <2>2. /\ UNCHANGED generation /\ NoteHalted(reset) /\ plan' = PlansWithout(T) /\ stack' = Rest
    BY <1>7 DEF ActReset, HaltCues, DropPlans
  <2> HIDE DEF reset, T
  <2>3. QED BY <1>2, <2>1, <2>2, HaltingStep
<1>8. CASE ActStart
  <2> DEFINE start == CueFrame("start", c, Targets[c])
  <2>1. start \in FrameSet /\ start.op = "start"
    BY <1>2, TargetsAssumption, CueFrameType DEF CueOps, CueFrame, Frame
  <2>2. stack' = <<start>> \o Rest
    BY <1>8 DEF ActStart
  <2>3. FinishesIn(stack') \subseteq FinishesIn(stack)
    <3> HIDE DEF start
    <3> QED BY <1>2, <2>1, <2>2, FinishesPushed
  <2>4. QED BY <1>8, <2>3, CalmStep DEF ActStart, planVars, cueVars, historyVars
<1>9. QED BY <1>4, <1>5, <1>6, <1>7, <1>8 DEF ActStep

LEMMA StartRespectsHalts ==
  ASSUME TypeOK, NoHaltedRunContinues, StartStep
  PROVE  RespectsHalts
<1> DEFINE c == Top.cue
           t == Head(Top.targets)
           start == CueFrame("start", Top.cue, Tail(Top.targets))
<1>1. /\ c \in Cue /\ Rest \in Seq(FrameSet) /\ Top.targets \in Seq(Cue)
      /\ FinishesIn(Rest) \subseteq FinishesIn(stack)
  <2>1. Doing("start") \/ Doing("imm")
    BY DEF StartStep, StartsDone, StartSkips, StartFires, StartFails, ImmediateSkipped,
       ImmediateFires
  <2>2. stack \in Seq(FrameSet) /\ stack # <<>>
    BY <2>1 DEF Doing, TypeOK, TransportTypeOK, CallOK
  <2>3. QED BY <2>1, <2>2, DoingType, FinishesOnStack DEF Rest, TypeOK, TransportTypeOK
<1>2. ASSUME Top.targets # <<>>
      PROVE  /\ t \in Cue /\ start \in FrameSet /\ start.op = "start"
             /\ StartRest = <<start>>
             /\ FinishesIn(StartRest \o Rest) \subseteq FinishesIn(stack)
             /\ StartRest \o Rest \in Seq(FrameSet)
  <2>1. t \in Cue /\ Tail(Top.targets) \in Seq(Cue)
    BY <1>1, <1>2
  <2>2. start \in FrameSet /\ start.op = "start"
    BY <1>1, <2>1, CueFrameType DEF CueOps, CueFrame, Frame
  <2>3. StartRest = <<start>>
    BY DEF StartRest
  <2>4. FinishesIn(<<start>> \o Rest) \subseteq FinishesIn(stack)
    BY <1>1, <2>2, FinishesPushed
  <2>5. <<start>> \o Rest \in Seq(FrameSet)
    BY <1>1, <2>2, PushType
  <2>6. QED BY <2>1, <2>2, <2>3, <2>4, <2>5
<1>3. CASE StartsDone \/ ImmediateSkipped
  BY <1>1, <1>3, CalmStep DEF StartsDone, ImmediateSkipped, planVars, cueVars, historyVars
<1>4. CASE StartSkips
  BY <1>2, <1>4, CalmStep DEF StartSkips, planVars, cueVars, historyVars
\* A target's new run is fresh, and so is the plan bound to it.
<1>5. CASE StartFires
  <2> DEFINE act == CueFrame("act", t, <<>>)
             imm == CueFrame("imm", t, <<>>)
  <2>1. /\ t \in Cue /\ RunCue(t, {}, TRUE) /\ UNCHANGED halted
    BY <1>2, <1>5 DEF StartFires, historyVars
  <2>2. FinishesIn(stack') \subseteq FinishesIn(stack)
    <3>1. stack' = <<act, imm>> \o (StartRest \o Rest)
      BY <1>5 DEF StartFires
    <3>2. act \in FrameSet /\ imm \in FrameSet /\ act.op = "act" /\ imm.op = "imm"
      BY <2>1, CueFrameType DEF CueOps, CueFrame, Frame
    <3>3. Top.targets # <<>>
      BY <1>5 DEF StartFires
    <3> HIDE DEF act, imm
    <3>4. QED BY <1>2, <3>1, <3>2, <3>3, FinishesPushedMore
  <2>3. /\ \A d \in Cue \ {t} : generation'[d] = generation[d]
        /\ IgnoresGo(t) => generation'[t] = generation[t]
        /\ ~IgnoresGo(t) => generation'[t] = generation[t] + 1
    BY <2>1, RunCueGeneration
  <2>4. <<t, generation[t] + 1>> \notin halted'
    BY <2>1, FreshRun
  <2>5. ASSUME NEW d \in Cue
        PROVE  \/ plan'[d] \in {NoPlan, plan[d]}
               \/ plan'[d].gen = generation'[d] /\ <<d, generation'[d]>> \notin halted'
    <3>1. \/ ~IgnoresGo(t) /\ BindPlan(t, generation[t] + 1, Successors(Home[t], t))
          \/ \E S : DropPlans(S)
      BY <1>5 DEF StartFires
    <3>2. CASE \E S : DropPlans(S)
      BY <3>2 DEF DropPlans, PlansWithout
    <3>3. CASE ~IgnoresGo(t) /\ BindPlan(t, generation[t] + 1, Successors(Home[t], t))
      <4>1. /\ d # t => plan'[d] = plan[d]
            /\ plan'[t].gen = generation[t] + 1
        BY <2>1, <3>3 DEF BindPlan, TypeOK, TransportTypeOK, PlansOK
      <4>2. QED BY <2>3, <2>4, <3>3, <4>1
    <3>4. QED BY <3>1, <3>2, <3>3
  <2>6. QED BY <2>1, <2>2, <2>3, <2>5 DEF RespectsHalts
<1>6. CASE StartFails
  <2>1. t \in Cue /\ RunCue(t, {}, FALSE) /\ UNCHANGED <<plan, halted>>
    BY <1>2, <1>6 DEF StartFails, planVars, historyVars
  <2>2. FinishesIn(stack') \subseteq FinishesIn(stack)
    BY <1>2, <1>6 DEF StartFails
  <2>3. \A d \in Cue : generation'[d] \in {generation[d], generation[d] + 1}
    BY <2>1, RunCueGeneration
  <2>4. QED BY <2>1, <2>2, <2>3 DEF RespectsHalts
<1>7. CASE ImmediateFires
  <2>1. /\ UNCHANGED <<generation, halted>>
        /\ \E S : plan' = PlansWithout(S)
    BY <1>7 DEF ImmediateFires, DropPlans
  <2>2. stack' = <<GoFrame(Home[c])>> \o Rest \/ stack' = Rest
    BY <1>7 DEF ImmediateFires
  <2>3. GoFrame(Home[c]) \in FrameSet /\ GoFrame(Home[c]).op = "go"
    BY <1>1, HomeAssumption, GoFrameType DEF GoFrame, Frame
  <2>4. FinishesIn(stack') \subseteq FinishesIn(stack)
    BY <1>1, <2>2, <2>3, FinishesPushed
  <2>5. QED BY <2>1, <2>4, CalmStep
<1>8. QED BY <1>3, <1>4, <1>5, <1>6, <1>7 DEF StartStep

LEMMA FinishRespectsHalts ==
  ASSUME TypeOK, NoHaltedRunContinues, FinishStep
  PROVE  RespectsHalts
<1> DEFINE c == Top.cue
<1>1. /\ Doing("finish") /\ c \in Cue /\ Top.list \in List /\ Rest \in Seq(FrameSet)
      /\ FinishesIn(Rest) \subseteq FinishesIn(stack)
      /\ Top \in FinishesIn(stack)
  <2>1. Doing("finish")
    BY DEF FinishStep, FinishIgnored, FinishEnds, FinishBinds, FinishChains
  <2>2. stack \in Seq(FrameSet) /\ stack # <<>> /\ Top.op = "finish"
    BY <2>1 DEF Doing, TypeOK, TransportTypeOK, CallOK
  <2>3. Top \in FinishesIn(stack)
    <3>1. 1 \in DOMAIN stack /\ Top = stack[1]
      BY <2>2 DEF Top
    <3>2. QED BY <2>2, <3>1 DEF FinishesIn
  <2>4. QED BY <2>1, <2>2, <2>3, DoingType, FinishesOnStack DEF Rest, TypeOK, TransportTypeOK
<1>2. CASE FinishIgnored \/ FinishEnds
  BY <1>1, <1>2, CalmStep DEF FinishIgnored, FinishEnds, DropPlans, planVars, cueVars, historyVars
<1>3. CASE FinishBinds
  <2>1. BindPlan(c, generation[c], Top.targets) /\ UNCHANGED <<generation, halted>> /\ stack' = Rest
    BY <1>3 DEF FinishBinds, cueVars, historyVars
  <2>2. <<c, generation[c]>> \notin halted
    BY <1>1, <1>3 DEF FinishBinds, NoHaltedRunContinues
  <2>3. \A d \in Cue : IF d = c THEN plan'[d].gen = generation[d] ELSE plan'[d] = plan[d]
    BY <1>1, <2>1 DEF BindPlan, TypeOK, TransportTypeOK, PlansOK
  <2>4. QED BY <1>1, <2>1, <2>2, <2>3 DEF RespectsHalts
<1>4. CASE FinishChains
  <2>1. UNCHANGED <<generation, halted>> /\ plan' = PlansWithout({c})
    BY <1>4 DEF FinishChains
  <2>2. stack' = <<GoFrame(Top.list)>> \o Rest \/ stack' = Rest
    BY <1>4 DEF FinishChains
  <2>3. GoFrame(Top.list) \in FrameSet /\ GoFrame(Top.list).op = "go"
    BY <1>1, GoFrameType DEF GoFrame, Frame
  <2>4. FinishesIn(stack') \subseteq FinishesIn(stack)
    BY <1>1, <2>2, <2>3, FinishesPushed
  <2>5. QED BY <2>1, <2>4, CalmStep
<1>5. QED BY <1>2, <1>3, <1>4 DEF FinishStep

(***************************************************************************)
(* Commands and the loop.                                                  *)
(***************************************************************************)
LEMMA CommandRespectsHalts ==
  ASSUME TypeOK, Command
  PROVE  RespectsHalts
<1>1. ASSUME NEW S \in SUBSET Cue, NEW T, S \subseteq T,
             HaltCues(T) \/ \E U : HaltCues(U), DropPlans(T), NoteHalted(S), UNCHANGED callVars
      PROVE  RespectsHalts
  <2>1. UNCHANGED <<generation, stack>> /\ plan' = PlansWithout(T)
    BY <1>1 DEF HaltCues, DropPlans, callVars
  <2>2. QED BY <1>1, <2>1, HaltingStep
<1>2. ASSUME NEW c \in Cue, StopCue(c) \/ RemoveCue(c)
      PROVE  RespectsHalts
  <2>1. HaltCues({c}) /\ DropPlans({c}) /\ NoteHalted({c}) /\ UNCHANGED callVars
    BY <1>2 DEF StopCue, RemoveCue
  <2>2. QED BY <1>1, <2>1
<1>3. ASSUME NEW l \in List, StopAll(l)
      PROVE  RespectsHalts
  <2>1. /\ \E U : HaltCues(U)
        /\ DropPlans(CuesOf(l)) /\ NoteHalted(CuesOf(l)) /\ UNCHANGED callVars
    BY <1>3 DEF StopAll
  <2>2. CuesOf(l) \in SUBSET Cue
    BY DEF CuesOf
  <2>3. QED BY <1>1, <2>1, <2>2
<1>4. CASE HardStopAll
  BY <1>1, <1>4 DEF HardStopAll
<1>5. ASSUME UNCHANGED <<planVars, generation, historyVars>>,
             UNCHANGED stack \/ \E x \in FrameSet : x.op = "go" /\ stack' = <<x>>
      PROVE  RespectsHalts
  <2>1. FinishesIn(stack') \subseteq FinishesIn(stack)
    BY <1>5 DEF FinishesIn
  <2>2. QED BY <1>5, <2>1, CalmStep DEF planVars, historyVars
<1>6. ASSUME NEW l \in List, Go(l)
      PROVE  RespectsHalts
  <2>1. GoFrame(l) \in FrameSet /\ GoFrame(l).op = "go"
    BY GoFrameType DEF GoFrame, Frame
  <2>2. stack' = <<GoFrame(l)>> /\ UNCHANGED <<planVars, generation, historyVars>>
    BY <1>6 DEF Go, LaunchGo, cueVars
  <2>3. QED BY <1>5, <2>1, <2>2
<1>7. ASSUME NEW c \in Cue, GoCue(c)
      PROVE  RespectsHalts
  <2>1. GoByIdFrame(c) \in FrameSet /\ GoByIdFrame(c).op = "go"
    BY GoFrameType DEF GoByIdFrame, Frame
  <2>2. stack' = <<GoByIdFrame(c)>> /\ UNCHANGED <<planVars, generation, historyVars>>
    BY <1>7 DEF GoCue, LaunchGo, cueVars
  <2>3. QED BY <1>5, <2>1, <2>2
<1>8. ASSUME NEW c \in Cue,
             \/ PauseCue(c) \/ ResumeCue(c) \/ SetPlayhead(c) \/ ToggleDisabled(c)
             \/ (\E m \in Modes : SetMode(c, m)) \/ (\E i \in DOMAIN order[Home[c]] : MoveCue(c, i))
      PROVE  RespectsHalts
  <2>1. UNCHANGED <<planVars, generation, historyVars, stack>>
    BY <1>8 DEF PauseCue, ResumeCue, SetPlayhead, ToggleDisabled, SetMode, MoveCue, SetStates,
       cueVars, callVars
  <2>2. QED BY <1>5, <2>1
<1>9. QED BY <1>2, <1>3, <1>4, <1>6, <1>7, <1>8 DEF Command

LEMMA LoopRespectsHalts ==
  ASSUME TypeOK,
         \/ CloseDispatch \/ CommandReturns \/ Tick \/ TickStep \/ UNCHANGED vars
         \/ \E c \in Cue : PlaybackEnds(c) \/ PostWaitElapses(c) \/ DeadlinePasses(c)
  PROVE  RespectsHalts
<1>1. CASE CloseDispatch
  <2>1. stack \in Seq(FrameSet) /\ stack # <<>>
    BY <1>1 DEF CloseDispatch, Doing, TypeOK, TransportTypeOK, CallOK
  <2>2. FinishesIn(stack') \subseteq FinishesIn(stack)
    BY <1>1, <2>1, FinishesOnStack DEF CloseDispatch, Rest
  <2>3. QED BY <1>1, <2>2, CalmStep DEF CloseDispatch, planVars, cueVars, historyVars
<1>2. ASSUME NEW r \in ready, FireReady(r)
      PROVE  RespectsHalts
  <2>1. r.list \in List
    BY DEF TypeOK, Ready
  <2>2. GoFrame(r.list).op = "go"
    BY DEF GoFrame, Frame
  <2>3. stack' = <<GoFrame(r.list)>> \/ UNCHANGED stack
    BY <1>2 DEF FireReady, LaunchGo, callVars
  <2>4. FinishesIn(stack') \subseteq FinishesIn(stack)
    BY <2>2, <2>3 DEF FinishesIn
  <2>5. QED BY <1>2, <2>4, CalmStep DEF FireReady, DropPlans, cueVars
<1>3. ASSUME UNCHANGED <<plan, generation, halted, stack>>
      PROVE  RespectsHalts
  BY <1>3, CalmStep
<1>4. ASSUME NEW r \in ready, StaleReady(r)
      PROVE  RespectsHalts
  BY <1>3, <1>4 DEF StaleReady, transportVars, planVars, cueVars, callVars, historyVars
<1>5. CASE CommandReturns \/ Tick \/ TickReturns
  BY <1>3, <1>5 DEF CommandReturns, Tick, TickReturns, planVars, cueVars, historyVars
<1>6. ASSUME NEW c \in Cue, PlaybackEnds(c) \/ PostWaitElapses(c) \/ DeadlinePasses(c)
      PROVE  RespectsHalts
  BY <1>3, <1>6 DEF PlaybackEnds, PostWaitElapses, DeadlinePasses, transportVars, planVars,
     cueVars, callVars, historyVars
<1>7. CASE UNCHANGED vars
  BY <1>3, <1>7 DEF vars, transportVars, planVars, cueVars, callVars, historyVars
<1>8. QED BY <1>1, <1>2, <1>4, <1>5, <1>6, <1>7 DEF TickStep

LEMMA HaltsInductive ==
  TypeOK /\ NoHaltedRunContinues /\ [Next]_vars => NoHaltedRunContinues'
<1> SUFFICES ASSUME TypeOK, NoHaltedRunContinues, [Next]_vars
             PROVE  NoHaltedRunContinues'
  OBVIOUS
<1>1. RespectsHalts
  BY GoRespectsHalts, ActRespectsHalts, StartRespectsHalts, FinishRespectsHalts,
     CommandRespectsHalts, LoopRespectsHalts DEF Next, CallStep
<1>2. QED BY <1>1, RespectfulStep

LEMMA HaltsInit == Init => NoHaltedRunContinues
BY DEF Init, TransportInit, NoHaltedRunContinues, FinishesIn, NoPlan

(***************************************************************************)
(* The theorem.                                                            *)
(***************************************************************************)
LEMMA HandOverStep ==
  ASSUME TypeOK, TokensAreUnique, NoHaltedRunContinues, [Next]_vars
  PROVE  \A h \in handed' \ handed : <<h.cue, h.gen>> \notin halted
<1> DEFINE Safe == \A h \in handed' \ handed : <<h.cue, h.gen>> \notin halted
<1>1. ASSUME UNCHANGED handed
      PROVE  Safe
  BY <1>1
<1>2. ASSUME NEW c, NEW g, NEW t, NoteHanded(c, g, t), <<c, g>> \notin halted
      PROVE  Safe
  BY <1>2, HandedEntry
<1>3. CASE ImmediateFires
  <2> DEFINE c == Top.cue
  <2>1. c \in Cue
    BY <1>3, DoingType DEF ImmediateFires, TypeOK, TransportTypeOK
  <2>2. \/ UNCHANGED handed
        \/ /\ plan[c] # NoPlan /\ plan[c].gen = generation[c]
           /\ NoteHanded(c, plan[c].gen, plan[c].token)
    BY <1>3 DEF ImmediateFires
  <2>3. QED BY <1>1, <1>2, <2>1, <2>2 DEF NoHaltedRunContinues
<1>4. CASE FinishChains
  <2> DEFINE c == Top.cue
  <2>1. Top \in FinishesIn(stack) /\ RunStarted(Top)
    <3>1. stack \in Seq(FrameSet) /\ stack # <<>> /\ Top.op = "finish"
      BY <1>4 DEF FinishChains, Doing, TypeOK, TransportTypeOK, CallOK
    <3>2. 1 \in DOMAIN stack /\ Top = stack[1]
      BY <3>1 DEF Top
    <3>3. Top \in FinishesIn(stack)
      BY <3>1, <3>2 DEF FinishesIn
    <3>4. QED BY <1>4, <3>3 DEF FinishChains
  <2>2. <<c, generation[c]>> \notin halted
    BY <2>1 DEF NoHaltedRunContinues
  <2>3. UNCHANGED handed \/ \E t : NoteHanded(c, generation[c], t)
    BY <1>4 DEF FinishChains
  <2>4. QED BY <1>1, <1>2, <2>2, <2>3
<1>5. ASSUME NEW r \in ready, FireReady(r)
      PROVE  Safe
  <2> DEFINE c == r.cue
  <2>1. c \in Cue /\ r.token = plan[c].token
    BY <1>5 DEF FireReady, TypeOK, Ready
  <2>2. \/ UNCHANGED handed
        \/ plan[c].gen = generation[c] /\ NoteHanded(c, plan[c].gen, plan[c].token)
    BY <1>5 DEF FireReady, SourceValid
  <2>3. plan[c] # NoPlan
    BY <2>1 DEF NoPlan, TokensAreUnique
  <2>4. QED BY <1>1, <1>2, <2>1, <2>2, <2>3 DEF NoHaltedRunContinues
<1>6. ASSUME ~ImmediateFires, ~FinishChains, ~\E r \in ready : FireReady(r)
      PROVE  UNCHANGED handed
  <2>1. CASE CallStep
    BY <1>6, <2>1 DEF CallStep, GoStep, GoNothing, GoSkipsDisabled, GoFires, GoFails, ActStep,
       ActSkipped, ActPlain, ActStop, ActGoto, ActPauseResume, ActReset, ActArm, ActStart,
       StartStep, StartsDone, StartSkips, StartFires, StartFails, ImmediateSkipped, CloseDispatch,
       FinishStep, FinishIgnored, FinishEnds, FinishBinds, historyVars
  <2>2. CASE Command
    BY <2>2 DEF Command, Go, GoCue, StopCue, StopAll, HardStopAll, PauseCue, ResumeCue,
       SetPlayhead, ToggleDisabled, SetMode, MoveCue, RemoveCue, historyVars
  <2>3. CASE CommandReturns \/ Tick \/ TickStep \/ UNCHANGED vars
    BY <1>6, <2>3 DEF CommandReturns, Tick, TickStep, StaleReady, TickReturns, vars,
       transportVars, historyVars
  <2>4. CASE \E c \in Cue : PlaybackEnds(c) \/ PostWaitElapses(c) \/ DeadlinePasses(c)
    BY <2>4 DEF PlaybackEnds, PostWaitElapses, DeadlinePasses, transportVars, historyVars
  <2>5. QED BY <2>1, <2>2, <2>3, <2>4 DEF Next
<1>7. QED BY <1>1, <1>3, <1>4, <1>5, <1>6

\* In every show a run that was stopped, reset, removed or superseded by a Goto
\* never fires its successor afterwards: not from a plan, not from a deadline,
\* not from the tick that found it due before.
THEOREM StoppedRunsStayStopped == Spec => NoHandOverAfterStop
<1>1. Spec => [](TypeOK /\ TokensAreUnique /\ NoHaltedRunContinues)
  BY TypeCorrect, TokensUnique, HaltsInit, HaltsInductive, PTL DEF Spec
<1>2. TypeOK /\ TokensAreUnique /\ NoHaltedRunContinues /\ [Next]_vars
        => [\A h \in handed' \ handed : <<h.cue, h.gen>> \notin halted]_vars
  BY HandOverStep
<1>3. QED BY <1>1, <1>2, PTL DEF Spec, NoHandOverAfterStop

(***************************************************************************)
(* Shows without Start cues: a GO opens one run at a time.                 *)
(***************************************************************************)
NoStarts == \A c \in Cue : Kind[c] # "start"

\* What is left of a GO whose cue was fired: its action, the end of the
\* dispatch, and the rest f of the GO.
Acting(c) == CueFrame("act", c, << >>)
Closing(c) == CueFrame("close", c, << >>)
Opened(f) == {<<Acting(f.cue), Closing(f.cue), f>>, <<Closing(f.cue), f>>, <<f>>}

FlatCall ==
  /\ \/ stack = << >>
     \/ \E x \in FrameSet : x.op = "go" /\ stack = <<x>>
     \/ \E f \in FrameSet : f.op = "finish" /\ stack \in Opened(f)
  /\ holder = "none" => stack = << >>
  /\ stack # << >> /\ Top.op = "act" => ctx # << >> /\ Head(ctx).cancelled = {}

LEMMA OpenedStacks ==
  ASSUME NEW f \in FrameSet, f.op = "finish", NEW s \in Opened(f)
  PROVE  /\ s # << >> /\ FinishesIn(s) = {f}
         /\ Head(s).op \in {"act", "close", "finish"} /\ Head(s).cue = f.cue
         /\ Head(s).op \in {"act", "close"} =>
              Tail(s) \in Opened(f) /\ Head(Tail(s)).op \in {"close", "finish"}
         /\ Head(s).op = "finish" => Head(s) = f /\ Tail(s) = << >>
<1> DEFINE a == Acting(f.cue)
           b == Closing(f.cue)
<1>1. /\ a.op = "act" /\ a.cue = f.cue /\ b.op = "close" /\ b.cue = f.cue
  BY DEF Acting, Closing, CueFrame, Frame
<1> HIDE DEF a, b
<1>2. s \in {<<a, b, f>>, <<b, f>>, <<f>>}
  BY DEF Opened, a, b
<1>3. CASE s = <<a, b, f>>
  <2>1. Head(s) = a /\ Tail(s) = <<b, f>> /\ Head(<<b, f>>) = b
    BY <1>3
  <2>2. DOMAIN s = 1 .. 3 /\ s[1] = a /\ s[2] = b /\ s[3] = f
    BY <1>3
  <2>3. FinishesIn(s) = {f}
    BY <1>1, <2>2 DEF FinishesIn
  <2>4. Tail(s) \in Opened(f)
    BY <2>1 DEF Opened, a, b
  <2> QED BY <1>1, <1>3, <2>1, <2>3, <2>4
<1>4. CASE s = <<b, f>>
  <2>1. Head(s) = b /\ Tail(s) = <<f>> /\ Head(<<f>>) = f
    BY <1>4
  <2>2. DOMAIN s = 1 .. 2 /\ s[1] = b /\ s[2] = f
    BY <1>4
  <2>3. FinishesIn(s) = {f}
    BY <1>1, <2>2 DEF FinishesIn
  <2>4. Tail(s) \in Opened(f)
    BY <2>1 DEF Opened, a, b
  <2> QED BY <1>1, <1>4, <2>1, <2>3, <2>4
<1>5. CASE s = <<f>>
  <2>1. Head(s) = f /\ Tail(s) = << >>
    BY <1>5
  <2>2. DOMAIN s = 1 .. 1 /\ s[1] = f
    BY <1>5
  <2>3. FinishesIn(s) = {f}
    BY <2>2 DEF FinishesIn
  <2> QED BY <1>5, <2>1, <2>3
<1> QED BY <1>2, <1>3, <1>4, <1>5

\* What is known of the stack at each kind of step.
LEMMA FlatTop ==
  ASSUME FlatCall, stack # << >>
  PROVE  /\ holder # "none" /\ Top.op \in {"go", "act", "close", "finish"}
         /\ Top.op = "go" => Rest = << >> /\ FinishesIn(stack) = {}
         /\ Top.op # "go" => \E f \in FrameSet :
              /\ f.op = "finish" /\ f.cue = Top.cue /\ FinishesIn(stack) = {f}
              /\ Top.op \in {"act", "close"} =>
                   Rest \in Opened(f) /\ Head(Rest).op \in {"close", "finish"}
              /\ Top.op = "finish" => f = Top /\ Rest = << >>
<1>1. holder # "none"
  BY DEF FlatCall
<1>2. ASSUME NEW x \in FrameSet, x.op = "go", stack = <<x>>
      PROVE  Top.op = "go" /\ Rest = << >> /\ FinishesIn(stack) = {}
  <2>1. DOMAIN stack = 1 .. 1 /\ stack[1] = x /\ Top = x /\ Rest = << >>
    BY <1>2 DEF Top, Rest
  <2> QED BY <1>2, <2>1 DEF FinishesIn
<1>3. ASSUME NEW f \in FrameSet, f.op = "finish", stack \in Opened(f)
      PROVE  /\ Top.op \in {"act", "close", "finish"}
             /\ f.cue = Top.cue /\ FinishesIn(stack) = {f}
             /\ Top.op \in {"act", "close"} =>
                  Rest \in Opened(f) /\ Head(Rest).op \in {"close", "finish"}
             /\ Top.op = "finish" => f = Top /\ Rest = << >>
  BY <1>3, OpenedStacks DEF Top, Rest
<1> QED BY <1>1, <1>2, <1>3 DEF FlatCall

\* The runs behind it.
Finishing(c) == \E f \in FinishesIn(stack) : f.cue = c /\ RunStarted(f)

Runs ==
  /\ \A c \in Cue : Active(c) => generation[c] > 0 /\ Kind[c] \in Timed
  /\ \A c \in Cue : pending[c].gen <= generation[c]
  /\ \A f \in FinishesIn(stack) : state[f.cue] # "paused"

Flat == TypeOK /\ FlatCall /\ Runs

LEMMA FlatCallStays ==
  ASSUME NoStarts, TypeOK, FlatCall, [Next]_vars
  PROVE  FlatCall'
<1> DEFINE Empty == /\ stack' = << >>
           Go1 == \E x \in FrameSet : x.op = "go" /\ stack' = <<x>>
<1>1. Empty => FlatCall'
  BY DEF FlatCall
<1>2. Go1 /\ holder' # "none" => FlatCall'
  <2> SUFFICES ASSUME holder' # "none", NEW x \in FrameSet, x.op = "go", stack' = <<x>>
               PROVE  FlatCall'
    OBVIOUS
  <2>1. stack' # << >> /\ Head(stack') = x
    OBVIOUS
  <2> QED BY <2>1 DEF FlatCall, Top
<1>3. ASSUME NEW f \in FrameSet, f.op = "finish", stack' \in Opened(f), holder' # "none",
             Head(stack').op # "act" \/ (ctx' # << >> /\ Head(ctx').cancelled = {})
      PROVE  FlatCall'
  BY <1>3 DEF FlatCall, Top
<1>4. UNCHANGED <<stack, ctx>> /\ (holder' = "none" => holder = "none" \/ stack = << >>) => FlatCall'
  BY DEF FlatCall, Top
<1>5. CASE GoStep
  <2>1. Doing("go") /\ stack # << >> /\ Top.op = "go"
    BY <1>5 DEF GoStep, GoNothing, GoSkipsDisabled, GoFires, GoFails, Doing
  <2>2. Rest = << >> /\ holder # "none" /\ holder' = holder
    BY <1>5, <2>1, FlatTop
       DEF GoStep, GoNothing, GoSkipsDisabled, GoFires, GoFails, callVars
  <2>3. CASE GoNothing \/ GoFails
    BY <1>1, <2>2, <2>3 DEF GoNothing, GoFails
  <2>4. CASE GoSkipsDisabled
    BY <1>4, <2>2, <2>4 DEF GoSkipsDisabled, callVars
  <2>5. CASE GoFires
    <3> DEFINE l == Top.list
               c == playhead[l]
               f == Frame("finish", l, c, Successors(l, c), Active(c), generation[c])
    <3>1. stack' = <<Acting(c), Closing(c), f>> \o Rest /\ ctx' = <<NewContext(c)>> \o ctx
      BY <2>5 DEF GoFires, Acting, Closing
    <3>2. f.op = "finish" /\ f.cue = c
      BY DEF Frame
    <3>3. f \in FrameSet
      <4>1. TransportTypeOK /\ l \in List
        BY <2>1, DoingType DEF TypeOK, TransportTypeOK
      <4>2. c \in Cue
        BY <2>1, <2>5, <4>1, GoCueAtPlayheadType DEF GoFires
      <4>3. Successors(l, c) \in Seq(Cue) /\ generation[c] \in Nat /\ Active(c) \in BOOLEAN
        BY <4>1, <4>2, SuccessorsType DEF TransportTypeOK, CuesOK, Active
      <4> QED BY <4>1, <4>2, <4>3, FrameType DEF CueOps
    <3>4. stack' = <<Acting(c), Closing(c), f>>
      <4> HIDE DEF f, c
      <4> QED BY <2>2, <3>1
    <3>5. stack' \in Opened(f)
      BY <3>2, <3>4 DEF Opened
    <3>6. ctx' # << >> /\ Head(ctx').cancelled = {}
      <4>1. ctx \in Seq(Context)
        BY DEF TypeOK, TransportTypeOK, CallOK
      <4>2. ctx' # << >> /\ Head(ctx') = NewContext(c)
        BY <3>1, <4>1
      <4> QED BY <4>2 DEF NewContext
    <3> HIDE DEF f, c
    <3> QED BY <1>3, <2>2, <3>2, <3>3, <3>5, <3>6
  <2> QED BY <1>5, <2>3, <2>4, <2>5 DEF GoStep
<1>6. CASE ActStep \/ CloseDispatch
  <2>1. /\ stack # << >> /\ Top.op \in {"act", "close"} /\ holder' = holder
        /\ stack' = Rest
    <3>1. ~ActStart
      BY TargetsAssumption, DoingType
         DEF NoStarts, ActStart, Dispatches, TypeOK, TransportTypeOK
    <3> QED BY <1>6, <3>1
         DEF ActStep, ActSkipped, ActPlain, ActStop, ActGoto, ActPauseResume, ActReset, ActArm,
             Dispatches, CloseDispatch, Doing
  <2>2. PICK f \in FrameSet : /\ f.op = "finish" /\ Rest \in Opened(f)
                              /\ Head(Rest).op \in {"close", "finish"} /\ holder # "none"
    BY <2>1, FlatTop
  <2> QED BY <1>3, <2>1, <2>2
<1>7. ~StartStep
  <2>1. StartStep => stack # << >> /\ Top.op \in {"start", "imm"}
    BY DEF StartStep, StartsDone, StartSkips, StartFires, StartFails, ImmediateSkipped,
           ImmediateFires, Doing
  <2> QED BY <2>1, FlatTop
<1>8. CASE FinishStep
  <2>1. stack # << >> /\ Top.op = "finish" /\ holder' = holder /\ TransportTypeOK /\ Doing("finish")
    BY <1>8 DEF FinishStep, FinishIgnored, FinishEnds, FinishBinds, FinishChains, Doing, TypeOK
  <2>2. Rest = << >> /\ holder # "none" /\ Top.list \in List
    BY <2>1, FlatTop, DoingType DEF TransportTypeOK
  <2>3. stack' = Rest \/ stack' = <<GoFrame(Top.list)>> \o Rest
    BY <1>8 DEF FinishStep, FinishIgnored, FinishEnds, FinishBinds, FinishChains
  <2>4. GoFrame(Top.list) \in FrameSet /\ GoFrame(Top.list).op = "go"
    BY <2>2, GoFrameType DEF GoFrame, Frame
  <2>5. stack' = << >> \/ stack' = <<GoFrame(Top.list)>>
    BY <2>2, <2>3
  <2> QED BY <1>1, <1>2, <2>1, <2>2, <2>4, <2>5
<1>9. CASE CommandReturns
  BY <1>4, <1>9 DEF CommandReturns
<1>10. CASE Command
  <2>1. ASSUME NEW l \in List, Go(l) PROVE FlatCall'
    <3>1. GoFrame(l) \in FrameSet /\ GoFrame(l).op = "go"
      BY GoFrameType DEF GoFrame, Frame
    <3> QED BY <1>2, <2>1, <3>1 DEF Go, LaunchGo
  <2>2. ASSUME NEW c \in Cue, GoCue(c) PROVE FlatCall'
    <3>1. GoByIdFrame(c) \in FrameSet /\ GoByIdFrame(c).op = "go"
      BY GoFrameType DEF GoByIdFrame, Frame
    <3> QED BY <1>2, <2>2, <3>1 DEF GoCue, LaunchGo
  <2>3. Command => UNCHANGED callVars \/ (\E l \in List : Go(l)) \/ (\E c \in Cue : GoCue(c))
    BY DEF Command, StopCue, StopAll, HardStopAll, PauseCue, ResumeCue, SetPlayhead,
           ToggleDisabled, SetMode, MoveCue, RemoveCue
  <2> QED BY <1>4, <1>10, <2>1, <2>2, <2>3 DEF callVars
<1>11. CASE Tick
  BY <1>4, <1>11 DEF Tick
<1>12. CASE TickStep
  <2>1. ASSUME NEW r \in ready, FireReady(r) PROVE FlatCall'
    <3>1. r.list \in List
      BY DEF TypeOK, Ready
    <3>2. GoFrame(r.list) \in FrameSet /\ GoFrame(r.list).op = "go"
      BY <3>1, GoFrameType DEF GoFrame, Frame
    <3> QED BY <1>2, <1>4, <2>1, <3>2 DEF FireReady, LaunchGo, callVars
  <2>2. ASSUME NEW r \in ready, StaleReady(r) PROVE FlatCall'
    BY <1>4, <2>2 DEF StaleReady, transportVars, callVars
  <2>3. CASE TickReturns
    BY <1>4, <2>3 DEF TickReturns
  <2> QED BY <1>12, <2>1, <2>2, <2>3 DEF TickStep
<1>13. CASE \/ UNCHANGED vars
            \/ \E c \in Cue : PlaybackEnds(c) \/ PostWaitElapses(c) \/ DeadlinePasses(c)
  BY <1>4, <1>13 DEF vars, transportVars, callVars, PlaybackEnds, PostWaitElapses, DeadlinePasses
<1> QED BY <1>5, <1>6, <1>7, <1>8, <1>9, <1>10, <1>11, <1>12, <1>13 DEF Next, CallStep

(***************************************************************************)
(* What a step makes of the runs and of the plans                          *)
(***************************************************************************)
\* A run stays, ends, or is a new one with its GO still open.
RunsOn(c) ==
  \/ generation'[c] = generation[c] /\ (Active(c)' => Active(c))
  \/ /\ generation'[c] = generation[c] + 1
     /\ Active(c)' => Kind[c] \in Timed /\ Finishing(c)'

\* Only the GO that is open binds a plan, to the run it began.
PlansOn(c) ==
  /\ Finishing(c)' => \/ generation'[c] = generation[c] + 1
                      \/ generation'[c] = generation[c] /\ Finishing(c)
  /\ \/ plan'[c] \in {NoPlan, plan[c]}
     \/ plan'[c].gen = generation'[c] /\ generation'[c] = generation[c] /\ Finishing(c)
          /\ ~Finishing(c)'

\* The run of c fires its successor, with the plan it holds or at its end.
HandsOver(c) ==
  /\ generation'[c] = generation[c] /\ plan'[c] = NoPlan /\ ~Finishing(c)'
  /\ Finishing(c) \/ (plan[c] # NoPlan /\ plan[c].gen = generation[c])
  /\ \E t : NoteHanded(c, generation[c], t)

FlatStep ==
  /\ \A c \in Cue : RunsOn(c) /\ PlansOn(c)
  /\ \A f \in FinishesIn(stack') : state'[f.cue] # "paused"
  /\ UNCHANGED handed \/ \E c \in Cue : HandsOver(c)

\* No run begins, no plan is bound and nothing is handed over.
LEMMA QuietStep ==
  ASSUME TypeOK, UNCHANGED <<generation, handed>>,
         \A c \in Cue : Active(c)' => Active(c),
         FinishesIn(stack') \subseteq FinishesIn(stack),
         plan' = plan \/ \E S : plan' = PlansWithout(S),
         \A f \in FinishesIn(stack') : state'[f.cue] # "paused"
  PROVE  FlatStep
<1>1. \A c \in Cue : plan'[c] \in {NoPlan, plan[c]}
  BY DEF PlansWithout
<1>2. \A f : RunStarted(f)' = RunStarted(f)
  BY DEF RunStarted
<1>3. \A c \in Cue : Finishing(c)' => Finishing(c)
  BY <1>2 DEF Finishing
<1> QED BY <1>1, <1>3 DEF FlatStep, RunsOn, PlansOn

\* The states of some cues change as they do when cues are stopped and paused.
LEMMA SettledStates ==
  ASSUME TypeOK, NEW S, NEW s \in CueStates,
         HaltCues(S) \/ SetStates({x \in S : Pausable(x)}, "paused")
           \/ SetStates({x \in S : state[x] = "paused"}, "running") \/ UNCHANGED state
  PROVE  \A c \in Cue : (Active(c)' => Active(c))
                        /\ (c \notin S /\ state[c] # "paused" => state'[c] # "paused")
BY DEF HaltCues, SetStates, Pausable, Active

LEMMA FlatGo ==
  ASSUME Flat, GoStep
  PROVE  FlatStep
<1> DEFINE l == Top.list
           c == playhead[l]
<1>1. /\ TypeOK /\ TransportTypeOK /\ Doing("go") /\ Rest = << >> /\ FinishesIn(stack) = {}
      /\ l \in List
  <2>1. Doing("go") /\ TypeOK /\ FlatCall
    BY DEF Flat, GoStep, GoNothing, GoSkipsDisabled, GoFires, GoFails
  <2> QED BY <2>1, FlatTop, DoingType DEF Doing, TypeOK, TransportTypeOK
<1>2. FinishesIn(<< >>) = {}
  BY DEF FinishesIn
<1>3. CASE GoNothing \/ GoSkipsDisabled
  <2>1. UNCHANGED <<generation, handed, state, plan>> /\ (stack' = Rest \/ stack' = stack)
    BY <1>3 DEF GoNothing, GoSkipsDisabled, cueVars, planVars, historyVars, callVars
  <2>2. FinishesIn(stack') = {}
    BY <1>1, <1>2, <2>1
  <2>3. \A d \in Cue : Active(d)' => Active(d)
    BY <2>1 DEF Active
  <2> QED BY <1>1, <2>1, <2>2, <2>3, QuietStep
<1>4. ASSUME NEW ok \in BOOLEAN, GoCueAtPlayhead(ok)
      PROVE  /\ c \in Cue
             /\ \A d \in Cue \ {c} : generation'[d] = generation[d] /\ (Active(d)' => Active(d))
             /\ \A d \in Cue : plan'[d] \in {NoPlan, plan[d]}
             /\ IF IgnoresGo(c)
                THEN generation'[c] = generation[c] /\ state'[c] = state[c] /\ state[c] = "running"
                ELSE /\ generation'[c] = generation[c] + 1
                     /\ state'[c] \in {"standby", "running", "completed"}
                     /\ state'[c] = "running" => ok /\ Kind[c] \in Timed
  <2> DEFINE S == StoppedByGo(l, c)
  <2>1. c \in Cue
    BY <1>1, <1>4, GoCueAtPlayheadType
  <2>2. plan' = PlansWithout(S) /\ RunCue(c, S, ok)
    BY <1>4 DEF GoCueAtPlayhead, DropPlans
  <2> HIDE DEF S, c
  <2>3. \A d \in Cue : plan'[d] \in {NoPlan, plan[d]}
    BY <2>2 DEF PlansWithout
  <2>4. \A d \in Cue \ {c} : generation'[d] = generation[d]
    BY <1>1, <2>1, <2>2, RunCueGeneration
  <2>5. IF IgnoresGo(c) THEN generation'[c] = generation[c]
                        ELSE generation'[c] = generation[c] + 1
    BY <1>1, <2>1, <2>2, RunCueGeneration
  <2>6. /\ state'[c] = StateAfterGo(c, ok)
        /\ \A d \in Cue \ {c} : state'[d] \in {state[d], "standby"}
    BY <2>1, <2>2 DEF RunCue
  <2>7. \A d \in Cue \ {c} : Active(d)' => Active(d)
    BY <2>6 DEF Active
  <2> QED BY <2>1, <2>3, <2>4, <2>5, <2>6, <2>7 DEF StateAfterGo, IgnoresGo
<1>5. CASE GoFires
  <2> DEFINE f == Frame("finish", l, c, Successors(l, c), Active(c), generation[c])
  <2>1. stack' = <<Acting(c), Closing(c), f>>
    <3>1. stack' = <<Acting(c), Closing(c), f>> \o Rest
      BY <1>5 DEF GoFires, Acting, Closing
    <3> HIDE DEF f, c
    <3> QED BY <1>1, <3>1
  <2>2. f.op = "finish" /\ f.cue = c /\ f.active = Active(c) /\ f.gen = generation[c]
    BY DEF Frame
  <2>3. f \in FrameSet
    <3>1. c \in Cue
      BY <1>5, <1>4 DEF GoFires
    <3>2. Successors(l, c) \in Seq(Cue) /\ generation[c] \in Nat /\ Active(c) \in BOOLEAN
      BY <1>1, <3>1, SuccessorsType DEF TransportTypeOK, CuesOK, Active
    <3> QED BY <1>1, <3>1, <3>2, FrameType DEF CueOps
  <2>4. FinishesIn(stack') = {f}
    <3>1. stack' \in Opened(f)
      BY <2>1, <2>2 DEF Opened
    <3> HIDE DEF f
    <3> QED BY <2>2, <2>3, <3>1, OpenedStacks
  <2>5. /\ c \in Cue
        /\ \A d \in Cue \ {c} : generation'[d] = generation[d] /\ (Active(d)' => Active(d))
        /\ \A d \in Cue : plan'[d] \in {NoPlan, plan[d]}
        /\ IF IgnoresGo(c)
           THEN generation'[c] = generation[c] /\ state'[c] = state[c] /\ state[c] = "running"
           ELSE /\ generation'[c] = generation[c] + 1
                /\ state'[c] \in {"standby", "running", "completed"}
                /\ state'[c] = "running" => Kind[c] \in Timed
    BY <1>4, <1>5 DEF GoFires
  <2>6. handed' = handed /\ generation[c] \in Nat
    BY <1>1, <1>5, <2>5 DEF GoFires, TransportTypeOK, CuesOK
  <2> HIDE DEF f, c
  <2>7. \A d \in Cue : Finishing(d)' <=> d = c /\ ~IgnoresGo(c)
    <3>1. IgnoresGo(c) => f.active
      BY <2>2, <2>5 DEF Active
    <3>2. (~f.active \/ generation'[f.cue] # f.gen) <=> ~IgnoresGo(c)
      <4>1. generation'[c] = generation[c] <=> IgnoresGo(c)
        BY <2>5, <2>6
      <4> QED BY <2>2, <3>1, <4>1
    <3>3. \A d \in Cue : (\E g \in FinishesIn(stack') :
                           g.cue = d /\ (~g.active \/ generation'[g.cue] # g.gen))
                         <=> d = c /\ ~IgnoresGo(c)
      BY <2>2, <2>4, <3>2
    <3> QED BY <3>3 DEF Finishing, RunStarted
  <2>8. \A d \in Cue : RunsOn(d) /\ PlansOn(d)
    BY <2>5, <2>6, <2>7 DEF RunsOn, PlansOn, Active
  <2>9. \A g \in FinishesIn(stack') : state'[g.cue] # "paused"
    BY <2>2, <2>4, <2>5
  <2> QED BY <2>6, <2>8, <2>9 DEF FlatStep
<1>6. CASE GoFails
  <2>1. stack' = << >> /\ handed' = handed /\ GoCueAtPlayhead(FALSE) /\ ~IgnoresGo(c)
    BY <1>1, <1>6 DEF GoFails, MayFail
  <2>2. /\ c \in Cue
        /\ \A d \in Cue \ {c} : generation'[d] = generation[d] /\ (Active(d)' => Active(d))
        /\ \A d \in Cue : plan'[d] \in {NoPlan, plan[d]}
        /\ generation'[c] = generation[c] + 1 /\ state'[c] \in {"standby", "completed"}
    BY <1>4, <2>1
  <2> HIDE DEF c
  <2>3. \A d \in Cue : ~Finishing(d)'
    BY <1>2, <2>1 DEF Finishing
  <2>4. \A d \in Cue : RunsOn(d) /\ PlansOn(d)
    BY <2>2, <2>3 DEF RunsOn, PlansOn, Active
  <2> QED BY <1>2, <2>1, <2>4 DEF FlatStep
<1> QED BY <1>3, <1>5, <1>6 DEF GoStep

LEMMA FlatAct ==
  ASSUME NoStarts, Flat, ActStep \/ CloseDispatch
  PROVE  FlatStep
<1> DEFINE c == Top.cue
<1>1. /\ TypeOK /\ TransportTypeOK /\ stack # << >> /\ Top.op \in {"act", "close"}
      /\ c \in Cue /\ Top.op # "finish" /\ Top.op # "go"
  <2>1. Doing("act") \/ Doing("close")
    BY DEF ActStep, ActSkipped, ActPlain, ActStop, ActGoto, ActPauseResume, ActReset, ActArm,
           ActStart, Dispatches, CloseDispatch
  <2>2. TypeOK /\ TransportTypeOK
    BY DEF Flat, TypeOK
  <2> QED BY <2>1, <2>2, DoingType DEF Doing, TransportTypeOK
<1>2. ~ActStart
  BY <1>1, TargetsAssumption DEF NoStarts, ActStart, Dispatches
<1>3. /\ stack' = Rest /\ UNCHANGED <<generation, handed>>
      /\ plan' = plan \/ \E S : plan' = PlansWithout(S)
  BY <1>2 DEF ActStep, ActSkipped, ActPlain, ActStop, ActGoto, ActPauseResume, ActReset, ActArm,
     CloseDispatch, HaltCues, SetStates, DropPlans, planVars, cueVars, historyVars
<1>4. PICK f \in FrameSet : /\ f.op = "finish" /\ f.cue = c /\ FinishesIn(stack) = {f}
                            /\ Rest \in Opened(f)
  BY <1>1, FlatTop DEF Flat
<1>5. FinishesIn(stack') = {f}
  BY <1>3, <1>4, OpenedStacks
<1>6. state[c] # "paused"
  BY <1>4 DEF Flat, Runs
<1>7. c \notin StopTargets(c) /\ c \notin ControlTargets(c)
  BY DEF StopTargets, ControlTargets
<1>8. ASSUME NEW S, c \notin S,
             HaltCues(S) \/ SetStates({x \in S : Pausable(x)}, "paused")
               \/ SetStates({x \in S : state[x] = "paused"}, "running") \/ UNCHANGED state
      PROVE  state'[c] # "paused" /\ \A d \in Cue : Active(d)' => Active(d)
  BY <1>1, <1>6, <1>8, SettledStates DEF CueStates
<1>9. state'[c] # "paused" /\ \A d \in Cue : Active(d)' => Active(d)
  <2>1. CASE ActStop
    BY <1>7, <1>8, <2>1 DEF ActStop
  <2>2. CASE ActReset \/ ActPauseResume
    BY <1>7, <1>8, <2>2 DEF ActReset, ActPauseResume
  <2>3. CASE ActSkipped \/ ActPlain \/ ActGoto \/ ActArm \/ CloseDispatch
    <3>1. UNCHANGED state /\ c \notin {}
      BY <2>3 DEF ActSkipped, ActPlain, ActGoto, ActArm, CloseDispatch, cueVars
    <3> QED BY <1>8, <3>1
  <2> QED BY <1>2, <2>1, <2>2, <2>3 DEF ActStep
<1> QED BY <1>1, <1>3, <1>4, <1>5, <1>9, QuietStep

LEMMA FlatFinish ==
  ASSUME Flat, FinishStep
  PROVE  FlatStep
<1> DEFINE c == Top.cue
<1>1. /\ TypeOK /\ TransportTypeOK /\ stack # << >> /\ Doing("finish") /\ Top.op = "finish"
      /\ c \in Cue /\ Top.list \in List
  <2>1. Doing("finish") /\ TypeOK /\ TransportTypeOK
    BY DEF Flat, TypeOK, FinishStep, FinishIgnored, FinishEnds, FinishBinds, FinishChains
  <2> QED BY <2>1, DoingType DEF Doing, TransportTypeOK
<1>2. FinishesIn(stack) = {Top} /\ Rest = << >>
  BY <1>1, FlatTop DEF Flat
<1>3. FinishesIn(stack') = {}
  <2>1. stack' = Rest \/ stack' = <<GoFrame(Top.list)>> \o Rest
    BY DEF FinishStep, FinishIgnored, FinishEnds, FinishBinds, FinishChains
  <2>2. GoFrame(Top.list) \in FrameSet /\ GoFrame(Top.list).op = "go"
    BY <1>1, GoFrameType DEF GoFrame, Frame
  <2>3. FinishesIn(<< >>) = {} /\ << >> \in Seq(FrameSet)
    BY DEF FinishesIn
  <2>4. FinishesIn(<<GoFrame(Top.list)>> \o << >>) \subseteq FinishesIn(<< >>)
    BY <2>2, <2>3, FinishesPushed
  <2> QED BY <1>2, <2>1, <2>3, <2>4
<1>4. /\ \A d \in Cue : ~Finishing(d)'
      /\ RunStarted(Top) => Finishing(c)
  BY <1>2, <1>3 DEF Finishing
<1>5. /\ UNCHANGED <<state, generation>>
      /\ \A d \in Cue : Active(d)' => Active(d)
  BY DEF FinishStep, FinishIgnored, FinishEnds, FinishBinds, FinishChains, cueVars, Active
<1>6. CASE FinishIgnored \/ FinishEnds
  <2>1. UNCHANGED handed /\ (plan' = plan \/ \E S : plan' = PlansWithout(S))
    BY <1>6 DEF FinishIgnored, FinishEnds, DropPlans, planVars, historyVars
  <2> QED BY <1>1, <1>3, <1>5, <2>1, QuietStep
<1>7. CASE FinishBinds
  <2>1. BindPlan(c, generation[c], Top.targets) /\ RunStarted(Top) /\ UNCHANGED handed
    BY <1>7 DEF FinishBinds, historyVars
  <2>2. \A d \in Cue : IF d = c THEN plan'[d].gen = generation[d] ELSE plan'[d] = plan[d]
    BY <1>1, <2>1 DEF BindPlan, TransportTypeOK, PlansOK
  <2>3. \A d \in Cue : RunsOn(d) /\ PlansOn(d)
    BY <1>4, <1>5, <2>1, <2>2 DEF RunsOn, PlansOn
  <2> QED BY <1>3, <2>1, <2>3 DEF FlatStep
<1>8. CASE FinishChains
  <2>1. RunStarted(Top) /\ plan' = PlansWithout({c})
    BY <1>8 DEF FinishChains
  <2>2. UNCHANGED handed \/ \E t : NoteHanded(c, generation[c], t)
    BY <1>8 DEF FinishChains
  <2>3. \A d \in Cue : plan'[d] \in {NoPlan, plan[d]} /\ plan'[c] = NoPlan
    BY <1>1, <2>1 DEF PlansWithout
  <2>4. \A d \in Cue : RunsOn(d) /\ PlansOn(d)
    BY <1>4, <1>5, <2>3 DEF RunsOn, PlansOn
  <2>5. PICK d \in Cue : d = c
    BY <1>1
  <2>6. UNCHANGED handed \/ HandsOver(d)
    <3>1. /\ generation'[d] = generation[d] /\ plan'[d] = NoPlan
          /\ ~Finishing(d)' /\ Finishing(d)
      BY <1>4, <1>5, <2>1, <2>3, <2>5
    <3> HIDE DEF c
    <3> QED BY <2>2, <2>5, <3>1 DEF HandsOver
  <2> QED BY <1>3, <2>4, <2>6 DEF FlatStep
<1> QED BY <1>6, <1>7, <1>8 DEF FinishStep

\* While no call is open nothing is on the stack.
LEMMA IdleStack ==
  ASSUME FlatCall
  PROVE  FinishesIn(<< >>) = {} /\ (holder = "none" => stack = << >> /\ FinishesIn(stack) = {})
BY DEF FlatCall, FinishesIn

LEMMA LaunchedGo ==
  ASSUME NEW x \in FrameSet, x.op = "go", NEW who, LaunchGo(x, who)
  PROVE  FinishesIn(stack') = {}
<1>1. stack' = <<x>> /\ DOMAIN stack' = 1 .. 1 /\ stack'[1] = x
  BY DEF LaunchGo
<1> QED BY <1>1 DEF FinishesIn

LEMMA FlatCommand ==
  ASSUME Flat, Command
  PROVE  FlatStep
<1>1. TypeOK /\ holder = "none" /\ FinishesIn(stack) = {}
  <2>1. TypeOK /\ FlatCall
    BY DEF Flat
  <2>2. holder = "none"
    BY DEF Command, Go, GoCue, StopCue, StopAll, HardStopAll, PauseCue, ResumeCue, SetPlayhead,
       ToggleDisabled, SetMode, MoveCue, RemoveCue, Issues
  <2> QED BY <2>1, <2>2, IdleStack
<1>2. UNCHANGED callVars \/ (\E l \in List : Go(l)) \/ (\E c \in Cue : GoCue(c))
  BY DEF Command, StopCue, StopAll, HardStopAll, PauseCue, ResumeCue, SetPlayhead,
         ToggleDisabled, SetMode, MoveCue, RemoveCue
<1>3. FinishesIn(stack') = {}
  <2>1. ASSUME NEW l \in List, Go(l) PROVE FinishesIn(stack') = {}
    <3>1. GoFrame(l) \in FrameSet /\ GoFrame(l).op = "go"
      BY GoFrameType DEF GoFrame, Frame
    <3> QED BY <2>1, <3>1, LaunchedGo DEF Go
  <2>2. ASSUME NEW c \in Cue, GoCue(c) PROVE FinishesIn(stack') = {}
    <3>1. GoByIdFrame(c) \in FrameSet /\ GoByIdFrame(c).op = "go"
      BY GoFrameType DEF GoByIdFrame, Frame
    <3> QED BY <2>2, <3>1, LaunchedGo DEF GoCue
  <2> QED BY <1>1, <1>2, <2>1, <2>2 DEF callVars
<1>4. UNCHANGED <<generation, handed>> /\ (plan' = plan \/ \E S : plan' = PlansWithout(S))
  BY DEF Command, Go, GoCue, StopCue, StopAll, HardStopAll, PauseCue, ResumeCue, SetPlayhead,
     ToggleDisabled, SetMode, MoveCue, RemoveCue, HaltCues, SetStates, DropPlans, planVars,
     cueVars, historyVars
<1>5. \A d \in Cue : Active(d)' => Active(d)
  <2>1. \/ UNCHANGED state \/ \E S : HaltCues(S)
        \/ \E c \in Cue : state[c] \in {"running", "paused"}
                          /\ (SetStates({c}, "paused") \/ SetStates({c}, "running"))
    BY DEF Command, Go, GoCue, StopCue, StopAll, HardStopAll, PauseCue, ResumeCue, SetPlayhead,
       ToggleDisabled, SetMode, MoveCue, RemoveCue, Pausable, cueVars
  <2> QED BY <1>1, <2>1 DEF HaltCues, SetStates, Active
<1> QED BY <1>1, <1>3, <1>4, <1>5, QuietStep

LEMMA FlatLoop ==
  ASSUME Flat, TokensAreUnique,
         \/ CommandReturns \/ Tick \/ TickStep \/ UNCHANGED vars
         \/ \E c \in Cue : PlaybackEnds(c) \/ PostWaitElapses(c) \/ DeadlinePasses(c)
  PROVE  FlatStep
<1>1. TypeOK /\ FlatCall /\ Runs
  BY DEF Flat
<1>2. ASSUME UNCHANGED <<generation, handed, plan, stack>>,
             \A d \in Cue : state'[d] \in {state[d], "standby"}
      PROVE  FlatStep
  <2>1. \A d \in Cue : Active(d)' => Active(d)
    BY <1>2 DEF Active
  <2>2. \A f \in FinishesIn(stack) : f.cue \in Cue
    BY <1>1, RunTypes
  <2>3. \A f \in FinishesIn(stack') : state'[f.cue] # "paused"
    BY <1>1, <1>2, <2>2 DEF Runs
  <2> QED BY <1>1, <1>2, <2>1, <2>3, QuietStep
<1>3. CASE Tick
  BY <1>2, <1>3 DEF Tick, planVars, historyVars
<1>4. ASSUME UNCHANGED <<generation, handed, plan, stack, state>>
      PROVE  FlatStep
  BY <1>2, <1>4
<1>5. CASE CommandReturns \/ TickReturns \/ UNCHANGED vars
  BY <1>4, <1>5 DEF CommandReturns, TickReturns, vars, transportVars, planVars, cueVars, callVars,
     historyVars
<1>6. ASSUME NEW c \in Cue, PlaybackEnds(c) \/ PostWaitElapses(c) \/ DeadlinePasses(c)
      PROVE  FlatStep
  BY <1>4, <1>6 DEF PlaybackEnds, PostWaitElapses, DeadlinePasses, transportVars, planVars,
     cueVars, callVars, historyVars
<1>7. ASSUME NEW r \in ready, StaleReady(r)
      PROVE  FlatStep
  BY <1>4, <1>7 DEF StaleReady, transportVars, planVars, cueVars, callVars, historyVars
<1>8. ASSUME NEW r \in ready, FireReady(r)
      PROVE  FlatStep
  <2> DEFINE c == r.cue
  <2>1. /\ c \in Cue /\ r.list \in List /\ stack = << >> /\ plan[c].token = r.token
        /\ r.token \in Nat
    BY <1>1, <1>8 DEF FireReady, Turn, TypeOK, Ready
  <2>2. plan[c] # NoPlan
    BY <2>1 DEF NoPlan, TokensAreUnique
  <2>3. /\ plan' = PlansWithout({c}) /\ UNCHANGED <<generation, state>>
        /\ \/ UNCHANGED <<stack, handed>>
           \/ /\ LaunchGo(GoFrame(r.list), "tick") /\ plan[c].gen = generation[c]
              /\ NoteHanded(c, plan[c].gen, plan[c].token)
    BY <1>8 DEF FireReady, DropPlans, SourceValid, cueVars, callVars
  <2>4. FinishesIn(stack') = {}
    <3>1. GoFrame(r.list) \in FrameSet /\ GoFrame(r.list).op = "go"
      BY <2>1, GoFrameType DEF GoFrame, Frame
    <3> QED BY <1>1, <2>1, <2>3, <3>1, LaunchedGo, IdleStack
  <2>5. \A d \in Cue : ~Finishing(d)' /\ plan'[d] \in {NoPlan, plan[d]} /\ plan'[c] = NoPlan
    BY <2>1, <2>3, <2>4 DEF Finishing, PlansWithout
  <2>6. \A d \in Cue : RunsOn(d) /\ PlansOn(d)
    BY <2>3, <2>5 DEF RunsOn, PlansOn, Active
  <2>7. UNCHANGED handed \/ HandsOver(c)
    BY <2>1, <2>2, <2>3, <2>5 DEF HandsOver
  <2> QED BY <2>1, <2>4, <2>6, <2>7 DEF FlatStep
<1> QED BY <1>3, <1>5, <1>6, <1>7, <1>8 DEF TickStep

LEMMA FlatStepTaken ==
  ASSUME NoStarts, Flat, TokensAreUnique, [Next]_vars
  PROVE  FlatStep
<1>1. ~StartStep
  <2>1. StartStep => stack # << >> /\ Top.op \in {"start", "imm"}
    BY DEF StartStep, StartsDone, StartSkips, StartFires, StartFails, ImmediateSkipped,
           ImmediateFires, Doing
  <2> QED BY <2>1, FlatTop DEF Flat
<1> QED BY <1>1, FlatGo, FlatAct, FlatFinish, FlatCommand, FlatLoop DEF Next, CallStep

(***************************************************************************)
(* One hand-over per run                                                   *)
(***************************************************************************)
\* A deadline is dropped, kept, or set for a run that has just completed.
BooksOn(c) ==
  \/ pending'[c] = NoPending
  \/ pending[c] # NoPending /\ pending'[c].gen = pending[c].gen
  \/ pending'[c].gen = generation'[c] /\ generation'[c] = generation[c] /\ ~Active(c)'

LEMMA BooksStep ==
  ASSUME TypeOK, [Next]_vars
  PROVE  \A c \in Cue : BooksOn(c)
<1> SUFFICES ASSUME NEW c \in Cue PROVE BooksOn(c)
  OBVIOUS
<1>1. CASE Tick
  <2> DEFINE done == {x \in Cue : Completing(x)}
             deferred == {x \in {y \in done : CompletesWithPlan(y)} : WaitsAfterCompletion(x)}
             waiting == {x \in Cue : PendingValid(x) /\ ~pending[x].due}
  <2>1. pending'[c] = IF c \in deferred
          THEN [gen |-> generation[c], token |-> plan[c].token, mode |-> mode[c], due |-> FALSE]
          ELSE IF c \in waiting THEN pending[c] ELSE NoPending
    BY <1>1 DEF Tick
  <2>2. generation' = generation /\ (c \in done => state'[c] = "standby")
    BY <1>1 DEF Tick
  <2>3. c \in deferred => c \in done
    OBVIOUS
  <2>4. c \in waiting => pending[c] # NoPending
    BY DEF PendingValid
  <2> HIDE DEF deferred, done, waiting
  <2> QED BY <2>1, <2>2, <2>3, <2>4 DEF BooksOn, Active
<1>2. ASSUME UNCHANGED pending
      PROVE  BooksOn(c)
  BY <1>2 DEF BooksOn
<1>3. ASSUME NEW d \in Cue, DeadlinePasses(d)
      PROVE  BooksOn(c)
  <2>1. pending \in [Cue -> Pending] /\ pending[d] # NoPending
    BY <1>3 DEF TypeOK, DeadlinePasses
  <2>2. pending' = [pending EXCEPT ![d].due = TRUE]
    BY <1>3 DEF DeadlinePasses
  <2>3. pending'[c].gen = pending[c].gen /\ (c # d => pending'[c] = pending[c])
    BY <2>1, <2>2 DEF Pending
  <2> QED BY <2>1, <2>3 DEF BooksOn
<1> QED
  BY <1>1, <1>2, <1>3 DEF Next, TickStep, StaleReady, FireReady, TickReturns, PlaybackEnds,
     PostWaitElapses, vars, loopVars

LEMMA FlatStays ==
  ASSUME NoStarts, Flat, TokensAreUnique, [Next]_vars
  PROVE  Flat'
<1>1. TypeOK /\ FlatCall /\ Runs /\ FlatStep
  BY FlatStepTaken DEF Flat
<1>2. TypeOK' /\ FlatCall'
  BY <1>1, NextType, FlatCallStays
<1>3. /\ \A c \in Cue : generation[c] \in Nat /\ generation'[c] \in Nat
      /\ \A c \in Cue : pending[c].gen \in Nat
  BY <1>1, <1>2 DEF TypeOK, TransportTypeOK, CuesOK, Pending
<1>4. \A c \in Cue : Active(c)' => generation'[c] > 0 /\ Kind[c] \in Timed
  BY <1>1, <1>3 DEF FlatStep, RunsOn, Runs
<1>5. ASSUME NEW c \in Cue
      PROVE  pending'[c].gen <= generation'[c]
  <2>1. BooksOn(c) /\ RunsOn(c) /\ pending[c].gen <= generation[c]
    BY <1>1, BooksStep DEF FlatStep, Runs
  <2>2. generation[c] <= generation'[c]
    BY <1>3, <2>1 DEF RunsOn
  <2> QED BY <1>3, <2>1, <2>2 DEF BooksOn, NoPending
<1>6. Runs'
  BY <1>1, <1>4, <1>5 DEF Runs, FlatStep
<1> QED BY <1>2, <1>6 DEF Flat

LEMMA FlatInit == Init => Flat
<1> SUFFICES ASSUME Init PROVE Flat
  OBVIOUS
<1>1. stack = << >> /\ FinishesIn(stack) = {}
  BY DEF Init, TransportInit, FinishesIn
<1>2. Runs
  BY <1>1 DEF Init, TransportInit, Runs, Active, NoPending
<1> QED BY <1>1, <1>2, InitType DEF Flat, FlatCall

\* A run that handed over has nothing left to hand over with.
HandedOnce ==
  \A h \in handed :
    /\ ~h.again /\ h.gen <= generation[h.cue]
    /\ h.gen = generation[h.cue]
         => ~Finishing(h.cue) /\ (plan[h.cue] = NoPlan \/ plan[h.cue].gen # h.gen)

LEMMA FirstHandOver ==
  ASSUME NEW c, NEW g, NEW t, NoteHanded(c, g, t), \A h \in handed : ~(h.cue = c /\ h.gen = g)
  PROVE  handed' = handed \cup {[cue |-> c, gen |-> g, token |-> t, again |-> FALSE]}
<1> DEFINE again == \E h \in handed : h.cue = c /\ h.gen = g
           entry == [cue |-> c, gen |-> g, token |-> t, again |-> again]
<1>1. handed' = handed \cup {entry}
  BY Zenon DEF NoteHanded
<1>2. again = FALSE
  BY Zenon
<1> HIDE DEF again
<1> QED BY <1>1, <1>2, Zenon

LEMMA HandedOnceStays ==
  ASSUME TypeOK, TypeOK', FlatStep, HandedOnce
  PROVE  HandedOnce'
<1> DEFINE Spent(h) == /\ ~h.again /\ h.gen <= generation'[h.cue]
                       /\ h.gen = generation'[h.cue]
                            => ~Finishing(h.cue)' /\ (plan'[h.cue] = NoPlan \/ plan'[h.cue].gen # h.gen)
<1>1. /\ \A c \in Cue : generation[c] \in Nat /\ generation'[c] \in Nat
      /\ \A h \in handed : h.cue \in Cue /\ h.gen \in Nat
  BY DEF TypeOK, TransportTypeOK, CuesOK, HistoryOK, HandOver
<1>2. ASSUME NEW h \in handed
      PROVE  Spent(h)
  <2>1. /\ h.cue \in Cue /\ RunsOn(h.cue) /\ PlansOn(h.cue)
        /\ generation[h.cue] \in Nat /\ generation'[h.cue] \in Nat /\ h.gen \in Nat
    BY <1>1 DEF FlatStep
  <2>2. generation[h.cue] <= generation'[h.cue]
    BY <2>1 DEF RunsOn
  <2>3. /\ ~h.again /\ h.gen <= generation[h.cue]
        /\ h.gen = generation[h.cue]
             => ~Finishing(h.cue) /\ (plan[h.cue] = NoPlan \/ plan[h.cue].gen # h.gen)
    BY DEF HandedOnce
  <2>4. CASE h.gen = generation'[h.cue]
    <3>1. h.gen = generation[h.cue] /\ generation'[h.cue] = generation[h.cue]
      BY <2>1, <2>2, <2>3, <2>4
    <3>2. ~Finishing(h.cue) /\ ~Finishing(h.cue)' /\ plan'[h.cue] \in {NoPlan, plan[h.cue]}
      BY <2>1, <2>3, <3>1 DEF PlansOn
    <3> QED BY <2>1, <2>3, <3>1, <3>2
  <2>5. h.gen <= generation'[h.cue]
    BY <2>1, <2>2, <2>3
  <2> QED BY <2>3, <2>4, <2>5
<1>3. ASSUME NEW c \in Cue, HandsOver(c)
      PROVE  \A h \in handed' : Spent(h)
  <2>1. /\ generation'[c] = generation[c] /\ plan'[c] = NoPlan /\ ~Finishing(c)'
        /\ Finishing(c) \/ (plan[c] # NoPlan /\ plan[c].gen = generation[c])
    BY <1>3 DEF HandsOver
  <2>2. PICK t : NoteHanded(c, generation[c], t)
    BY <1>3 DEF HandsOver
  <2>3. \A h \in handed : ~(h.cue = c /\ h.gen = generation[c])
    BY <2>1 DEF HandedOnce
  <2> PICK g : g = generation[c]
    OBVIOUS
  <2>4. NoteHanded(c, g, t) /\ \A h \in handed : ~(h.cue = c /\ h.gen = g)
    BY <2>2, <2>3
  <2> DEFINE h == [cue |-> c, gen |-> g, token |-> t, again |-> FALSE]
  <2>5. handed' = handed \cup {h}
    BY <2>4, FirstHandOver, Zenon
  <2>6. h.cue = c /\ h.gen = g /\ h.again = FALSE
    OBVIOUS
  <2> HIDE DEF h
  <2>7. Spent(h)
    BY <1>1, <2>1, <2>6
  <2> QED BY <1>2, <2>5, <2>7
<1>4. \A h \in handed' : Spent(h)
  BY <1>2, <1>3 DEF FlatStep
<1> QED BY <1>4 DEF HandedOnce

\* In every show without Start cues one run of a cue fires its successor at most
\* once, whichever of its GO, the scan of the loop and its deadline comes first,
\* and whatever is edited, moved, stopped or removed meanwhile.
THEOREM HandsOverOnce == NoStarts => (Spec => []OneHandOverPerRun)
<1> SUFFICES ASSUME NoStarts PROVE Spec => []OneHandOverPerRun
  OBVIOUS
<1>1. Init => Flat /\ HandedOnce
  BY FlatInit DEF Init, TransportInit, HandedOnce
<1>2. Flat /\ HandedOnce /\ TokensAreUnique /\ [Next]_vars => Flat' /\ HandedOnce'
  <2> SUFFICES ASSUME Flat, HandedOnce, TokensAreUnique, [Next]_vars PROVE Flat' /\ HandedOnce'
    OBVIOUS
  <2>1. Flat' /\ FlatStep
    BY FlatStays, FlatStepTaken
  <2>2. TypeOK /\ TypeOK'
    BY <2>1 DEF Flat
  <2> QED BY <2>1, <2>2, HandedOnceStays
<1>3. HandedOnce => OneHandOverPerRun
  BY DEF HandedOnce, OneHandOverPerRun
<1> QED BY <1>1, <1>2, <1>3, TokensUnique, PTL DEF Spec

(***************************************************************************)
(* A followed run keeps its plan                                           *)
(***************************************************************************)
\* A run that plays and will be followed has its plan, was halted, or its GO is
\* still open; a deadline and a due continuation belong to a run that is over.
FollowersHold ==
  /\ \A c \in Cue : Active(c) /\ mode[c] = "autoFollow" =>
       \/ plan[c].gen = generation[c] \/ <<c, generation[c]>> \in halted \/ Finishing(c)
  /\ \A c \in Cue : pending[c] # NoPending /\ pending[c].gen = generation[c] => ~Active(c)
  /\ \A r \in ready :
       /\ plan[r.cue].token = r.token /\ plan[r.cue].gen = generation[r.cue]
       /\ mode[r.cue] = "autoFollow"
       => ~Active(r.cue)

\* The step takes the plan of a run that plays on only by halting that run, and
\* its GO only by binding the plan.
Keeps(c) ==
  /\ plan[c].gen = generation[c]
       => plan'[c].gen = generation[c] \/ <<c, generation[c]>> \in halted'
  /\ Finishing(c) => Finishing(c)' \/ plan'[c].gen = generation[c]

LEMMA ModesStay ==
  ASSUME "setMode" \notin Commands, [Next]_vars
  PROVE  UNCHANGED mode
<1>1. CASE CallStep
  BY <1>1 DEF CallStep, GoStep, GoNothing, GoSkipsDisabled, GoFires, GoFails, ActStep,
     ActSkipped, ActPlain, ActStop, ActGoto, ActPauseResume, ActReset, ActArm, ActStart,
     StartStep, StartsDone, StartSkips, StartFires, StartFails, ImmediateSkipped,
     ImmediateFires, CloseDispatch, FinishStep, FinishIgnored, FinishEnds, FinishBinds,
     FinishChains, authoredVars
<1>2. CASE Command
  BY <1>2 DEF Command, Go, GoCue, StopCue, StopAll, HardStopAll, PauseCue, ResumeCue,
     SetPlayhead, ToggleDisabled, SetMode, Issues, MoveCue, RemoveCue, authoredVars
<1>3. CASE CommandReturns \/ Tick \/ TickStep \/ UNCHANGED vars
  BY <1>3 DEF CommandReturns, Tick, TickStep, StaleReady, FireReady, TickReturns, vars,
     transportVars, authoredVars
<1>4. CASE \E c \in Cue : PlaybackEnds(c) \/ PostWaitElapses(c) \/ DeadlinePasses(c)
  BY <1>4 DEF PlaybackEnds, PostWaitElapses, DeadlinePasses, transportVars, authoredVars
<1> QED BY <1>1, <1>2, <1>3, <1>4 DEF Next

LEMMA HaltedGrows ==
  ASSUME [Next]_vars
  PROVE  halted \subseteq halted'
<1>1. ASSUME NEW S, NoteHalted(S) PROVE halted \subseteq halted'
  BY <1>1 DEF NoteHalted
<1>2. ASSUME UNCHANGED halted PROVE halted \subseteq halted'
  BY <1>2
<1>3. CASE CallStep
  <2>1. UNCHANGED halted \/ \E S : NoteHalted(S)
    BY <1>3 DEF CallStep, GoStep, GoNothing, GoSkipsDisabled, GoFires, GoFails, GoCueAtPlayhead,
       ActStep, ActSkipped, ActPlain, ActStop, ActGoto, ActPauseResume, ActReset, ActArm, ActStart,
       StartStep, StartsDone, StartSkips, StartFires, StartFails, ImmediateSkipped,
       ImmediateFires, CloseDispatch, FinishStep, FinishIgnored, FinishEnds, FinishBinds,
       FinishChains, historyVars
  <2> QED BY <1>1, <1>2, <2>1
<1>4. CASE Command
  <2>1. UNCHANGED halted \/ \E S : NoteHalted(S)
    BY <1>4 DEF Command, Go, GoCue, StopCue, StopAll, HardStopAll, PauseCue, ResumeCue,
       SetPlayhead, ToggleDisabled, SetMode, MoveCue, RemoveCue, historyVars
  <2> QED BY <1>1, <1>2, <2>1
<1>5. CASE CommandReturns \/ Tick \/ TickStep \/ UNCHANGED vars
  BY <1>2, <1>5 DEF CommandReturns, Tick, TickStep, StaleReady, FireReady, TickReturns, vars,
     transportVars, historyVars
<1>6. CASE \E c \in Cue : PlaybackEnds(c) \/ PostWaitElapses(c) \/ DeadlinePasses(c)
  BY <1>2, <1>6 DEF PlaybackEnds, PostWaitElapses, DeadlinePasses, transportVars, historyVars
<1> QED BY <1>3, <1>4, <1>5, <1>6 DEF Next

\* The plans of T go, the runs of S are halted.
LEMMA TakenByHalt ==
  ASSUME TypeOK, Runs, NEW c \in Cue, Active(c), NEW S, NEW T, plan' = PlansWithout(T),
         NoteHalted(S), c \in T => c \in S \ OpenGos
  PROVE  plan[c].gen = generation[c]
           => plan'[c].gen = generation[c] \/ <<c, generation[c]>> \in halted'
<1>1. generation[c] > 0
  BY DEF Runs
<1>2. CASE c \in T
  BY <1>1, <1>2 DEF NoteHalted
<1>3. CASE c \notin T
  BY <1>3 DEF PlansWithout
<1> QED BY <1>2, <1>3

LEMMA PlanUntouched ==
  ASSUME NEW c \in Cue, plan'[c] = plan[c], Finishing(c) => Finishing(c)'
  PROVE  Keeps(c)
BY DEF Keeps

\* What is open when a step of a call is taken.
LEMMA OpenCue ==
  ASSUME Flat, stack # << >>
  PROVE  /\ Top.op = "go" => OpenGos = {} /\ FinishesIn(stack) = {}
         /\ Top.op # "go" => OpenGos = {Top.cue}
<1>1. OpenGos = {f.cue : f \in FinishesIn(stack)}
  BY DEF OpenGos, FinishesIn
<1> QED BY <1>1, FlatTop DEF Flat

LEMMA GoKeeps ==
  ASSUME Flat, GoStep, NEW c \in Cue, Active(c)
  PROVE  Keeps(c)
<1>1. Doing("go")
  BY DEF GoStep, GoNothing, GoSkipsDisabled, GoFires, GoFails
<1>2. OpenGos = {} /\ ~Finishing(c)
  BY <1>1, OpenCue DEF Doing, Finishing
<1>3. CASE GoNothing \/ GoSkipsDisabled
  BY <1>2, <1>3, PlanUntouched DEF GoNothing, GoSkipsDisabled, planVars
<1>4. CASE GoFires \/ GoFails
  <2>1. \E S : plan' = PlansWithout(S) /\ NoteHalted(S)
    BY <1>4 DEF GoFires, GoFails, GoCueAtPlayhead, DropPlans
  <2> QED BY <1>2, <2>1, TakenByHalt DEF Keeps, Flat
<1> QED BY <1>3, <1>4 DEF GoStep

LEMMA ActKeeps ==
  ASSUME NoStarts, Flat, ActStep \/ CloseDispatch, NEW c \in Cue, Active(c)
  PROVE  Keeps(c)
<1> DEFINE a == Top.cue
<1>1. /\ TypeOK /\ TransportTypeOK /\ Runs /\ FlatCall /\ stack # << >>
      /\ Top.op \in {"act", "close"} /\ a \in Cue /\ Top.op # "finish" /\ Top.op # "go"
  <2>1. Doing("act") \/ Doing("close")
    BY DEF ActStep, ActSkipped, ActPlain, ActStop, ActGoto, ActPauseResume, ActReset, ActArm,
           ActStart, Dispatches, CloseDispatch
  <2>2. TypeOK /\ TransportTypeOK /\ Runs /\ FlatCall
    BY DEF Flat, TypeOK
  <2> QED BY <2>1, <2>2, DoingType DEF Doing, TransportTypeOK
<1>2. ~ActStart
  BY <1>1, TargetsAssumption DEF NoStarts, ActStart, Dispatches
<1>3. OpenGos = {a}
  BY <1>1, OpenCue
<1>4. Finishing(c) => Finishing(c)'
  <2>1. stack' = Rest /\ UNCHANGED generation
    BY <1>2 DEF ActStep, ActSkipped, ActPlain, ActStop, ActGoto, ActPauseResume, ActReset, ActArm,
       CloseDispatch, HaltCues, SetStates, cueVars
  <2>2. FinishesIn(stack') = FinishesIn(stack)
    BY <1>1, <2>1, FlatTop, OpenedStacks
  <2> QED BY <2>1, <2>2 DEF Finishing, RunStarted
<1>5. ASSUME NEW S, NEW T, plan' = PlansWithout(T), NoteHalted(S), T \subseteq S,
             Kind[a] \notin Timed
      PROVE  Keeps(c)
  <2>1. c # a
    BY <1>1, <1>5 DEF Runs
  <2> QED BY <1>1, <1>3, <1>4, <1>5, <2>1, TakenByHalt DEF Keeps
<1>6. Top.op = "act" => Head(ctx).cancelled = {}
  BY <1>1 DEF FlatCall
<1>7. CASE ActStop
  <2> DEFINE stopped == StopTargets(a)
             cancelled == IF stopped = {} THEN {} ELSE Head(ctx).cancelled \cup stopped
             cleared == IF Targets[a] = <<>> THEN CuesOf(Home[a]) ELSE {}
  <2>1. /\ plan' = PlansWithout(cancelled \cup cleared) /\ NoteHalted(stopped \cup cleared)
        /\ Top.op = "act" /\ Kind[a] \notin Timed
    BY <1>7 DEF ActStop, DropPlans, Dispatches, Doing, Timed
  <2>2. cancelled \subseteq stopped
    BY <1>6, <2>1
  <2> HIDE DEF stopped, cancelled, cleared
  <2> QED BY <1>5, <2>1, <2>2
<1>8. CASE ActGoto
  <2>1. \E S : plan' = PlansWithout(S) /\ NoteHalted(S)
    BY <1>8 DEF ActGoto, DropPlans
  <2>2. Kind[a] \notin Timed
    BY <1>8 DEF ActGoto, Dispatches, Timed
  <2> QED BY <1>5, <2>1, <2>2
<1>9. CASE ActReset
  <2> DEFINE reset == ControlTargets(a)
             T == IF reset = {} THEN {} ELSE Head(ctx).cancelled \cup reset
  <2>1. /\ plan' = PlansWithout(T) /\ NoteHalted(reset)
        /\ Top.op = "act" /\ Kind[a] \notin Timed
    BY <1>9 DEF ActReset, DropPlans, Dispatches, Doing, Timed
  <2>2. T \subseteq reset
    BY <1>6, <2>1
  <2> HIDE DEF reset, T
  <2> QED BY <1>5, <2>1, <2>2
<1>10. CASE ActSkipped \/ ActPlain \/ ActPauseResume \/ ActArm \/ CloseDispatch
  BY <1>4, <1>10, PlanUntouched
     DEF ActSkipped, ActPlain, ActPauseResume, ActArm, CloseDispatch, planVars
<1> QED BY <1>2, <1>7, <1>8, <1>9, <1>10 DEF ActStep

LEMMA FinishKeeps ==
  ASSUME Flat, FinishStep, NEW c \in Cue, Active(c), mode[c] = "autoFollow"
  PROVE  Keeps(c)
<1>1. /\ TypeOK /\ TransportTypeOK /\ Runs /\ stack # << >> /\ Top.op = "finish"
      /\ FinishesIn(stack) = {Top}
  <2>1. Doing("finish") /\ TypeOK /\ TransportTypeOK /\ Runs
    BY DEF Flat, TypeOK, FinishStep, FinishIgnored, FinishEnds, FinishBinds, FinishChains
  <2>2. stack # << >> /\ Top.op = "finish"
    BY <2>1 DEF Doing
  <2> QED BY <2>1, <2>2, FlatTop DEF Flat
<1>2. CASE c # Top.cue
  <2>1. ~Finishing(c)
    BY <1>1, <1>2 DEF Finishing
  <2>2. plan'[c] = plan[c]
    BY <1>1, <1>2 DEF FinishStep, FinishIgnored, FinishEnds, FinishBinds, FinishChains,
       DropPlans, PlansWithout, BindPlan, planVars, TransportTypeOK, PlansOK
  <2> QED BY <2>1, <2>2, PlanUntouched
<1>3. CASE c = Top.cue
  <2>1. state[c] = "running"
    BY <1>1, <1>3 DEF Runs, Active
  <2>2. ~FinishEnds /\ ~FinishChains
    BY <1>3, <2>1 DEF FinishEnds, FinishChains, Immediate
  <2>3. CASE FinishIgnored
    <3>1. plan' = plan /\ ~Finishing(c)
      BY <1>1, <2>3 DEF FinishIgnored, Finishing, planVars
    <3> QED BY <3>1, PlanUntouched
  <2>4. CASE FinishBinds
    <3>1. plan'[c].gen = generation[c]
      BY <1>1, <1>3, <2>4 DEF FinishBinds, BindPlan, TransportTypeOK, PlansOK
    <3> QED BY <3>1 DEF Keeps
  <2> QED BY <2>2, <2>3, <2>4 DEF FinishStep
<1> QED BY <1>2, <1>3

LEMMA CommandKeeps ==
  ASSUME Flat, Command, NEW c \in Cue, Active(c)
  PROVE  Keeps(c)
<1>1. TypeOK /\ Runs /\ holder = "none" /\ stack = << >> /\ FinishesIn(stack) = {}
  <2>1. TypeOK /\ FlatCall /\ Runs
    BY DEF Flat
  <2>2. holder = "none"
    BY DEF Command, Go, GoCue, StopCue, StopAll, HardStopAll, PauseCue, ResumeCue, SetPlayhead,
       ToggleDisabled, SetMode, MoveCue, RemoveCue, Issues
  <2> QED BY <2>1, <2>2, IdleStack
<1>2. ~Finishing(c) /\ OpenGos = {}
  BY <1>1 DEF Finishing, OpenGos
<1>3. UNCHANGED plan \/ \E S : plan' = PlansWithout(S) /\ NoteHalted(S)
  BY DEF Command, Go, GoCue, StopCue, StopAll, HardStopAll, PauseCue, ResumeCue, SetPlayhead,
     ToggleDisabled, SetMode, MoveCue, RemoveCue, DropPlans, planVars
<1> QED BY <1>1, <1>2, <1>3, TakenByHalt, PlanUntouched DEF Keeps

LEMMA LoopKeeps ==
  ASSUME Flat, FollowersHold,
         \/ CommandReturns \/ Tick \/ TickStep \/ UNCHANGED vars
         \/ \E d \in Cue : PlaybackEnds(d) \/ PostWaitElapses(d) \/ DeadlinePasses(d),
         NEW c \in Cue, Active(c), mode[c] = "autoFollow"
  PROVE  Keeps(c)
<1>1. TypeOK /\ FlatCall
  BY DEF Flat
<1>2. ASSUME UNCHANGED <<generation, plan, stack>>
      PROVE  Keeps(c)
  BY <1>2, PlanUntouched DEF Finishing, RunStarted
<1>3. CASE CommandReturns \/ Tick \/ TickReturns \/ UNCHANGED vars
  BY <1>2, <1>3 DEF CommandReturns, Tick, TickReturns, vars, transportVars, planVars, cueVars,
     callVars
<1>4. CASE \E d \in Cue : PlaybackEnds(d) \/ PostWaitElapses(d) \/ DeadlinePasses(d)
  BY <1>2, <1>4 DEF PlaybackEnds, PostWaitElapses, DeadlinePasses, transportVars, planVars,
     cueVars, callVars
<1>5. ASSUME NEW r \in ready, StaleReady(r)
      PROVE  Keeps(c)
  BY <1>2, <1>5 DEF StaleReady, transportVars, planVars, cueVars, callVars
<1>6. ASSUME NEW r \in ready, FireReady(r)
      PROVE  Keeps(c)
  <2>1. stack = << >> /\ plan[r.cue].token = r.token /\ plan' = PlansWithout({r.cue})
    BY <1>6 DEF FireReady, Turn, DropPlans
  <2>2. ~Finishing(c)
    BY <1>1, <2>1, IdleStack DEF Finishing
  <2>3. CASE c = r.cue
    BY <2>1, <2>2, <2>3 DEF FollowersHold, Keeps
  <2>4. CASE c # r.cue
    BY <2>1, <2>2, <2>4, PlanUntouched DEF PlansWithout
  <2> QED BY <2>3, <2>4
<1> QED BY <1>3, <1>4, <1>5, <1>6 DEF TickStep

LEMMA StepKeeps ==
  ASSUME NoStarts, Flat, TokensAreUnique, FollowersHold, [Next]_vars,
         NEW c \in Cue, Active(c), mode[c] = "autoFollow"
  PROVE  Keeps(c)
<1>1. ~StartStep
  <2>1. StartStep => stack # << >> /\ Top.op \in {"start", "imm"}
    BY DEF StartStep, StartsDone, StartSkips, StartFires, StartFails, ImmediateSkipped,
           ImmediateFires, Doing
  <2> QED BY <2>1, FlatTop DEF Flat
<1> QED BY <1>1, GoKeeps, ActKeeps, FinishKeeps, CommandKeeps, LoopKeeps DEF Next, CallStep

\* A plan that changes hands gets a token that no due continuation carries.
LEMMA PlansRenewed ==
  ASSUME TypeOK, TokensAreUnique, [Next]_vars, NEW c \in Cue
  PROVE  plan'[c] \in {NoPlan, plan[c]} \/ plan'[c].token = nextToken[Home[c]] + 1
<1>1. ASSUME NEW S, plan' = PlansWithout(S)
      PROVE  plan'[c] \in {NoPlan, plan[c]}
  BY <1>1 DEF PlansWithout
<1>2. CASE Drops \/ Spends \/ Chains \/ PlansUntouched
  BY <1>1, <1>2 DEF Drops, Spends, Chains, PlansUntouched, DropPlans, planVars
<1>3. CASE Binds
  BY <1>3 DEF Binds, BindPlan, TypeOK, TransportTypeOK, PlansOK
<1> QED BY <1>2, <1>3, StepsOnPlans DEF PlanSteps

\* What a tick puts on its books is over.
LEMMA TickFindsRunsOver ==
  ASSUME TypeOK, FollowersHold, Tick, NEW r \in ready', mode[r.cue] = "autoFollow"
  PROVE  ~Active(r.cue)'
<1> DEFINE done == {x \in Cue : Completing(x)}
           resolved == {x \in Cue : PendingValid(x) /\ pending[x].due}
           followed == {x \in done : CompletesWithPlan(x)}
           delayed == {x \in Cue : DelayedDue(x)}
           deferred == {x \in followed : WaitsAfterCompletion(x)}
           due == resolved \cup delayed \cup (followed \ deferred)
<1>1. /\ ready' = {[list |-> Home[x], token |-> plan[x].token, cue |-> x] : x \in due}
      /\ state' = [x \in Cue |-> IF x \in done THEN "standby" ELSE state[x]]
  BY DEF Tick
<1>2. PICK c \in due : r = [list |-> Home[c], token |-> plan[c].token, cue |-> c]
  <2> HIDE DEF due
  <2> QED BY <1>1
<1>3. c \in Cue /\ r.cue = c
  BY <1>2
<1>4. CASE c \in resolved
  <2>1. pending[c] # NoPending /\ pending[c].gen = generation[c]
    BY <1>4 DEF PendingValid
  <2>2. ~Active(c)
    BY <1>3, <2>1 DEF FollowersHold
  <2> QED BY <1>1, <1>3, <2>2 DEF Active
<1>5. CASE c \in delayed
  BY <1>1, <1>3, <1>5 DEF DelayedDue, Active
<1>6. CASE c \in followed
  BY <1>1, <1>3, <1>6 DEF Active
<1> QED BY <1>2, <1>4, <1>5, <1>6

LEMMA FollowersStay ==
  ASSUME NoStarts, "setMode" \notin Commands, Flat, TokensAreUnique, NoHaltedRunContinues,
         FollowersHold, [Next]_vars
  PROVE  FollowersHold'
<1>1. /\ TypeOK /\ TypeOK' /\ Runs /\ FlatStep /\ mode' = mode /\ halted \subseteq halted'
  BY FlatStays, FlatStepTaken, ModesStay, HaltedGrows DEF Flat
<1>2. /\ \A c \in Cue : generation[c] \in Nat /\ generation'[c] \in Nat /\ plan[c].gen \in Nat
                        /\ pending[c].gen \in Nat /\ nextToken[Home[c]] \in Nat
      /\ \A c \in Cue : RunsOn(c) /\ PlansOn(c)
      /\ \A r \in ready : r.cue \in Cue /\ r.list = Home[r.cue]
                          /\ r.token \in 1 .. nextToken[Home[r.cue]]
  BY <1>1, TokenTypes DEF TypeOK, TransportTypeOK, CuesOK, PlansOK, Plan, Pending, Ready, FlatStep,
     TokensAreUnique
<1>3. ASSUME NEW c \in Cue, Active(c)', mode'[c] = "autoFollow"
      PROVE  \/ plan'[c].gen = generation'[c] \/ <<c, generation'[c]>> \in halted'
             \/ Finishing(c)'
  <2>1. CASE generation'[c] = generation[c] + 1
    BY <1>2, <1>3, <2>1 DEF RunsOn
  <2>2. CASE generation'[c] = generation[c] /\ Active(c)
    <3>1. Keeps(c)
      BY <1>1, <1>3, <2>2, StepKeeps
    <3>2. plan[c].gen = generation[c] \/ <<c, generation[c]>> \in halted \/ Finishing(c)
      BY <1>1, <1>3, <2>2 DEF FollowersHold
    <3> QED BY <1>1, <2>2, <3>1, <3>2 DEF Keeps
  <2> QED BY <1>2, <1>3, <2>1, <2>2 DEF RunsOn
<1>4. ASSUME NEW c \in Cue, pending'[c] # NoPending, pending'[c].gen = generation'[c], Active(c)'
      PROVE  FALSE
  <2>1. /\ pending[c] # NoPending /\ pending'[c].gen = pending[c].gen
    BY <1>1, <1>4, BooksStep DEF BooksOn
  <2>2. generation'[c] = generation[c] /\ Active(c)
    <3>1. /\ generation[c] \in Nat /\ generation'[c] \in Nat
          /\ \/ generation'[c] = generation[c] /\ (Active(c)' => Active(c))
             \/ generation'[c] = generation[c] + 1
      BY <1>2 DEF RunsOn
    <3>2. generation'[c] <= generation[c]
      BY <1>1, <1>4, <2>1 DEF Runs
    <3> QED BY <1>4, <3>1, <3>2
  <2> QED BY <1>4, <2>1, <2>2 DEF FollowersHold
<1>5. ASSUME NEW r \in ready', plan'[r.cue].token = r.token, plan'[r.cue].gen = generation'[r.cue],
             mode'[r.cue] = "autoFollow", Active(r.cue)'
      PROVE  FALSE
  <2>1. CASE Tick
    BY <1>1, <1>5, <2>1, TickFindsRunsOver
  <2>2. CASE r \in ready
    <3> DEFINE c == r.cue
    <3>1. c \in Cue /\ r.token \in 1 .. nextToken[Home[c]] /\ nextToken[Home[c]] \in Nat
      BY <1>2, <2>2
    <3>2. plan'[c] = plan[c]
      BY <1>1, <1>5, <3>1, PlansRenewed DEF NoPlan
    <3>3. plan[c].gen <= generation[c]
      BY <3>1 DEF NoHaltedRunContinues
    <3>4. generation'[c] = generation[c] /\ Active(c)
      BY <1>2, <1>5, <3>1, <3>2, <3>3 DEF RunsOn
    <3> QED BY <1>1, <1>5, <2>2, <3>2, <3>4 DEF FollowersHold
  <2>3. Tick \/ ready' \subseteq ready
    BY DEF Next, TickStep, StaleReady, FireReady, TickReturns, PlaybackEnds, PostWaitElapses,
       DeadlinePasses, vars, loopVars
  <2> QED BY <2>1, <2>2, <2>3
<1> QED BY <1>3, <1>4, <1>5 DEF FollowersHold

\* In every show without Start cues whose continue modes are not edited while it
\* runs, a cue that plays and will be followed holds the plan of its current run,
\* or that run was stopped, removed or superseded: an Auto-Follow is not lost.
THEOREM FollowersKeepTheirPlans ==
  NoStarts /\ "setMode" \notin Commands => (Spec => []FollowerKeepsPlan)
<1> SUFFICES ASSUME NoStarts, "setMode" \notin Commands PROVE Spec => []FollowerKeepsPlan
  OBVIOUS
<1>1. Init => Flat /\ FollowersHold
  BY FlatInit DEF Init, TransportInit, FollowersHold, Active
<1>2. Flat /\ FollowersHold /\ TokensAreUnique /\ NoHaltedRunContinues /\ [Next]_vars
        => Flat' /\ FollowersHold'
  BY FlatStays, FollowersStay
<1>3. Flat /\ FollowersHold => FollowerKeepsPlan
  <2> SUFFICES ASSUME Flat, FollowersHold, NEW c \in Cue, holder = "none", Active(c),
                      mode[c] = "autoFollow"
               PROVE  plan[c].gen = generation[c] \/ <<c, generation[c]>> \in halted
    BY DEF FollowerKeepsPlan
  <2>1. ~Finishing(c)
    BY IdleStack DEF Flat, Finishing
  <2> QED BY <2>1 DEF FollowersHold
<1>4. TypeOK /\ NoHaltedRunContinues /\ [Next]_vars => NoHaltedRunContinues'
  BY HaltsInductive
<1> QED BY <1>1, <1>2, <1>3, <1>4, HaltsInit, TokensUnique, TypeCorrect, PTL DEF Spec

=============================================================================
