------------------------------ MODULE Transport ------------------------------
(***************************************************************************)
(* show/transport.rs over the cue lists of show/cue_list.rs: GO, the       *)
(* dispatch of the action cues that a GO fires, and the immediate          *)
(* Auto-Continue / Auto-Follow chains.                                     *)
(*                                                                         *)
(* Every transport call runs under the workspace mutex (`holder`).  The    *)
(* code recurses: go -> dispatch -> Start target -> immediate continuation *)
(* -> go.  Here the recursion is the work stack `stack`, one action per    *)
(* step; the sets the code threads through the recursion are `dispatched`  *)
(* and `guard` (shared by the whole call tree) and `ctx` (one record per   *)
(* dispatch call: the cancelled and started cues and the current path).    *)
(*                                                                         *)
(* Cue lists are flat here: groups, whose children have clocks of their    *)
(* own, are a component of their own.                                      *)
(***************************************************************************)
EXTENDS Naturals, Sequences, FiniteSets, SequencesExt

CONSTANTS
  Cue,           \* every cue of the workspace
  List,          \* the cue lists, numbered in the order of their ids
  NoCue,         \* no cue: a Playhead past the end of its list
  Home,          \* Home[c]: the list that owns cue c
  InitialOrder,  \* InitialOrder[l]: the top-level cues of list l
  Kind,          \* Kind[c]: the type of cue c
  Targets,       \* Targets[c]: target_cue_ids of an action cue
  PostWait,      \* PostWait[c]: the cue has a non-zero post-wait
  Fragile,       \* the media cues whose start may fail (file missing, not ready)
  InitialModes,  \* the continue modes the cues may be authored with
  Commands,      \* the operator commands this instance issues
  MaxCommands    \* bound on the commands issued

Modes == {"doNotContinue", "autoContinue", "autoFollow"}
CueStates == {"standby", "running", "paused", "completed"}

\* What a GO of the cue does: play media (audio) or show text until stopped,
\* wait, or complete at once (memo and the action cues).
Timed == {"media", "text", "wait"}
ControlKinds == {"start", "goto", "pause", "resume", "reset", "arm", "disarm"}
Kinds == Timed \cup {"memo", "stop"} \cup ControlKinds

CommandKinds == {"go", "goCue", "stopCue", "pause", "resume", "setPlayhead",
                 "setMode", "toggleDisabled", "move", "remove"}

ASSUME ListAssumption == List \subseteq Nat
ASSUME NoCueAssumption == NoCue \notin Cue
ASSUME HomeAssumption == Home \in [Cue -> List]
ASSUME OrderAssumption ==
  /\ InitialOrder \in [List -> Seq(Cue)]
  /\ \A l \in List : \A i \in DOMAIN InitialOrder[l] : Home[InitialOrder[l][i]] = l
ASSUME KindAssumption == Kind \in [Cue -> Kinds]
ASSUME TargetsAssumption == Targets \in [Cue -> Seq(Cue)]
ASSUME PostWaitAssumption == PostWait \in [Cue -> BOOLEAN]
ASSUME FragileAssumption == \A c \in Fragile : c \in Cue /\ Kind[c] = "media"
ASSUME ModesAssumption == InitialModes \subseteq Modes
ASSUME CommandsAssumption == Commands \subseteq CommandKinds /\ MaxCommands \in Nat

VARIABLES
  \* the cue lists
  order,       \* order[l]: cues
  playhead,    \* playhead[l]: playhead_cue_id
  plan,        \* plan[c]: the entry of continuation_plans for source c
  nextToken,   \* nextToken[l]: next_continuation_token
  \* the cues
  state,       \* CueState
  generation,  \* play_generation
  fired,       \* auto_continue_marker
  ripe,        \* the post-wait clock of the running action has elapsed
  ended,       \* playback or the wait has run out
  mode,        \* continue_mode
  disabled,    \* is_disabled
  \* the call that holds the workspace mutex
  holder, stack, ctx, dispatched, guard,
  commands,    \* operator commands issued so far
  \* history
  handed,      \* the continuations that have fired a successor
  halted       \* the runs <<cue, generation>> that were stopped or superseded

listVars == <<order, playhead>>
planVars == <<plan, nextToken>>
cueVars == <<state, generation, fired, ripe, ended>>
authoredVars == <<mode, disabled>>
callVars == <<holder, stack, ctx, dispatched, guard>>
historyVars == <<handed, halted>>
transportVars == <<listVars, planVars, cueVars, authoredVars, callVars,
                   commands, historyVars>>

NoPlan == [gen |-> 0, token |-> 0, targets |-> <<>>]
Plan == [gen : Nat, token : Nat, targets : Seq(Cue)]

\* One pending piece of the call: a GO of a list, the action of a fired cue,
\* the end of a dispatch, the rest of a GO after its dispatch, the targets of a
\* Start cue still to do, or the immediate continuation of a started target.
CueOps == {"act", "close", "finish", "start", "imm"}
FrameSet ==
  [op : {"go"}, list : List, cue : Cue \cup {NoCue}, targets : Seq(Cue),
   active : BOOLEAN, gen : Nat]
  \cup
  [op : CueOps, list : List, cue : Cue, targets : Seq(Cue), active : BOOLEAN, gen : Nat]
Frame(op, l, c, ts, active, gen) ==
  [op |-> op, list |-> l, cue |-> c, targets |-> ts, active |-> active, gen |-> gen]
GoFrame(l) == Frame("go", l, NoCue, <<>>, FALSE, 0)
GoByIdFrame(c) == Frame("go", Home[c], c, <<>>, FALSE, 0)
CueFrame(op, c, ts) == Frame(op, Home[c], c, ts, FALSE, 0)

Context == [cancelled : SUBSET Cue, started : SUBSET Cue, path : SUBSET Cue]
NewContext(c) == [cancelled |-> {}, started |-> {c}, path |-> {}]

\* One continuation that fired a successor; `again` if its run had done so before.
HandOver == [cue : Cue, gen : Nat, token : Nat, again : BOOLEAN]

(***************************************************************************)
(* The cue list                                                            *)
(***************************************************************************)
Members(l) == ToSet(order[l])
Present(c) == c \in Members(Home[c])
Armed(l, c) == c \in Members(l) /\ ~disabled[c]
Active(c) == state[c] \in {"running", "paused"}

Position(l, c) == CHOOSE i \in DOMAIN order[l] : order[l][i] = c

\* continuation_successors: the cues after c, frozen when its GO begins.
Successors(l, c) ==
  IF c \in Members(l) THEN SubSeq(order[l], Position(l, c) + 1, Len(order[l])) ELSE <<>>

IsFirstArmed(l, s, i) == /\ Armed(l, s[i])
                         /\ \A j \in 1 .. (i - 1) : ~Armed(l, s[j])

\* next_continuation_target: the first of s that is still there and armed.
FirstArmed(l, s) ==
  IF \E i \in DOMAIN s : IsFirstArmed(l, s, i)
  THEN s[CHOOSE i \in DOMAIN s : IsFirstArmed(l, s, i)]
  ELSE NoCue

\* Mutant: at the end of the list the Playhead stays on the last cue.
AdvancedOrLast(l) ==
  LET next == FirstArmed(l, Successors(l, playhead[l]))
  IN IF next = NoCue THEN playhead[l] ELSE next

\* advance_playhead: nothing moves when the Playhead is nowhere.
Advanced(l) ==
  IF playhead[l] \in Members(l) THEN FirstArmed(l, Successors(l, playhead[l]))
                                ELSE playhead[l]

\* Mutant: a plan that was taken or cancelled stays in the list.
PlansKept(S) == plan

PlansWithout(S) == [c \in Cue |-> IF c \in S THEN NoPlan ELSE plan[c]]
CuesOf(l) == {c \in Cue : Home[c] = l}

\* Mutant: the token counter is read and not advanced.
BindPlanReusingToken(c, gen, targets) ==
  /\ UNCHANGED nextToken
  /\ plan' = [plan EXCEPT ![c] = [gen |-> gen, token |-> nextToken[Home[c]] + 1,
                                  targets |-> targets]]

\* bind_continuation: a fresh token; an older plan of the cue is overwritten.
BindPlan(c, gen, targets) ==
  /\ nextToken' = [nextToken EXCEPT ![Home[c]] = @ + 1]
  /\ plan' = [plan EXCEPT ![c] = [gen |-> gen, token |-> nextToken[Home[c]] + 1,
                                  targets |-> targets]]

DropPlans(S) == plan' = PlansWithout(S) /\ UNCHANGED nextToken

(***************************************************************************)
(* The cues                                                                *)
(***************************************************************************)

\* Audio and Text ignore a GO while they run; every other GO is a new run.
IgnoresGo(c) == Kind[c] \in {"media", "text"} /\ state[c] = "running"
MayFail(c) == c \in Fragile /\ ~IgnoresGo(c)

\* Mutant: a cue that fails to start is left in a state of its own.
StateAfterGoOrError(c, ok) ==
  IF IgnoresGo(c) THEN state[c]
  ELSE IF ~ok THEN "error"
  ELSE IF Kind[c] \in Timed THEN "running" ELSE "completed"

\* A run that fails to start has taken its generation all the same.
StateAfterGo(c, ok) ==
  IF IgnoresGo(c) THEN state[c]
  ELSE IF ~ok THEN "standby"
  ELSE IF Kind[c] \in Timed THEN "running" ELSE "completed"

\* Cue::go of c, after the cues of `stopped` were stopped.
RunCue(c, stopped, ok) ==
  LET clear(f) == [x \in Cue |-> f[x] /\ x \notin stopped /\ (x = c => IgnoresGo(c))]
  IN /\ state' = [x \in Cue |-> IF x = c THEN StateAfterGo(c, ok)
                                ELSE IF x \in stopped THEN "standby" ELSE state[x]]
     /\ generation' = IF IgnoresGo(c) THEN generation
                      ELSE [generation EXCEPT ![c] = @ + 1]
     /\ fired' = clear(fired)
     /\ ripe' = clear(ripe)
     /\ ended' = clear(ended)

\* stop, hard_stop and reset of the cues of S.
HaltCues(S) ==
  LET clear(f) == [x \in Cue |-> f[x] /\ x \notin S]
  IN /\ state' = [x \in Cue |-> IF x \in S THEN "standby" ELSE state[x]]
     /\ fired' = clear(fired)
     /\ ripe' = clear(ripe)
     /\ ended' = clear(ended)
     /\ UNCHANGED generation

Pausable(c) == Kind[c] \in Timed /\ state[c] = "running"
SetStates(S, s) ==
  /\ state' = [x \in Cue |-> IF x \in S THEN s ELSE state[x]]
  /\ UNCHANGED <<generation, fired, ripe, ended>>

MarkFired(c) == fired' = [fired EXCEPT ![c] = TRUE]

\* History: the runs of S are over for the operator.  A cue whose own GO is
\* still on the stack is left out: that GO binds its continuation at its end.
OpenGos == {stack[i].cue : i \in {j \in DOMAIN stack : stack[j].op = "finish"}}
NoteHalted(S) ==
  halted' = halted \cup {<<c, generation[c]>> : c \in {x \in S \ OpenGos : generation[x] > 0}}
NoteHanded(c, g, t) ==
  handed' = handed \cup {[cue |-> c, gen |-> g, token |-> t,
                          again |-> \E h \in handed : h.cue = c /\ h.gen = g]}

(***************************************************************************)
(* The steps of a call, under the workspace mutex                          *)
(***************************************************************************)
Top == Head(stack)
Rest == Tail(stack)
Doing(op) == holder # "none" /\ stack # <<>> /\ Top.op = op

\* go: with nothing at the Playhead the call is over.
GoNothing ==
  /\ Doing("go") /\ playhead[Top.list] = NoCue
  /\ stack' = Rest
  /\ UNCHANGED <<listVars, planVars, cueVars, authoredVars, holder, ctx, dispatched,
                 guard, commands, historyVars>>

\* go: a disabled cue at the Playhead is passed over.
GoSkipsDisabled ==
  /\ Doing("go")
  /\ LET l == Top.list IN
       /\ playhead[l] \in Members(l) /\ disabled[playhead[l]]
       /\ playhead' = [playhead EXCEPT ![l] = Advanced(l)]
  /\ UNCHANGED <<order, planVars, cueVars, authoredVars, callVars, commands, historyVars>>

\* The Text cues that the next GO of the list takes down.
StoppedByGo(l, c) ==
  {x \in Members(l) \ {c} : Kind[x] = "text" /\ state[x] = "running"}

\* go: the Playhead moves on, the next-GO stops are applied and the cue is
\* triggered.
GoCueAtPlayhead(ok) ==
  LET l == Top.list
      c == playhead[l]
      stopped == StoppedByGo(l, c)
  IN /\ Armed(l, c)
     /\ playhead' = [playhead EXCEPT ![l] = Advanced(l)]
     /\ DropPlans(stopped)
     /\ RunCue(c, stopped, ok)
     /\ NoteHalted(stopped)

\* The successors were frozen before the Playhead moved.  The action of the cue
\* runs before its continuation is looked at.
GoFires ==
  /\ Doing("go") /\ GoCueAtPlayhead(TRUE)
  /\ LET l == Top.list
         c == playhead[l]
     IN /\ stack' = <<CueFrame("act", c, <<>>), CueFrame("close", c, <<>>),
                      Frame("finish", l, c, Successors(l, c), Active(c), generation[c])>> \o Rest
        /\ ctx' = <<NewContext(c)>> \o ctx
  /\ UNCHANGED <<order, authoredVars, holder, dispatched, guard, commands, handed>>

\* The error of a cue that does not start ends this GO; the Playhead has moved.
GoFails ==
  /\ Doing("go") /\ GoCueAtPlayhead(FALSE) /\ MayFail(playhead[Top.list])
  /\ stack' = Rest
  /\ UNCHANGED <<order, authoredVars, holder, ctx, dispatched, guard, commands, handed>>

\* dispatch_action_recursive does nothing for a cue that was cancelled, is on
\* the path or was already dispatched in this call tree.
Dispatchable(c) ==
  c \notin Head(ctx).cancelled \cup Head(ctx).path \cup dispatched

ActSkipped ==
  /\ Doing("act") /\ ~Dispatchable(Top.cue)
  /\ stack' = Rest
  /\ UNCHANGED <<listVars, planVars, cueVars, authoredVars, holder, ctx, dispatched,
                 guard, commands, historyVars>>

Dispatches(kinds) == Doing("act") /\ Dispatchable(Top.cue) /\ Kind[Top.cue] \in kinds

\* A cue without an action: media, text, wait and memo.
ActPlain ==
  /\ Dispatches(Timed \cup {"memo"})
  /\ dispatched' = dispatched \cup {Top.cue}
  /\ stack' = Rest
  /\ UNCHANGED <<listVars, planVars, cueVars, authoredVars, holder, ctx, guard,
                 commands, historyVars>>

\* A Stop cue: its targets, or every other active cue of its list.
StopTargets(c) ==
  IF Targets[c] = <<>> THEN {x \in Members(Home[c]) \ {c} : Active(x)}
                       ELSE {x \in ToSet(Targets[c]) \ {c} : Present(x)}

Cancelled(S) == [ctx EXCEPT ![1].cancelled = @ \cup S]

ActStop ==
  /\ Dispatches({"stop"})
  /\ LET c == Top.cue
         stopped == StopTargets(c)
         cancelled == IF stopped = {} THEN {} ELSE Head(ctx).cancelled \cup stopped
         cleared == IF Targets[c] = <<>> THEN CuesOf(Home[c]) ELSE {}
     IN /\ HaltCues(stopped)
        /\ DropPlans(cancelled \cup cleared)
        /\ NoteHalted(stopped \cup cleared)
        /\ ctx' = Cancelled(stopped)
        /\ dispatched' = dispatched \cup {c}
  /\ stack' = Rest
  /\ UNCHANGED <<listVars, authoredVars, holder, guard, commands, handed>>

\* The targets a Control cue reaches, itself excluded.
ControlTargets(c) == {x \in ToSet(Targets[c]) \ {c} : Present(x)}

\* Goto keeps only its first target; it cancels the chains of that list.
ActGoto ==
  /\ Dispatches({"goto"})
  /\ LET c == Top.cue
         targets == IF Targets[c] = <<>> THEN {} ELSE {Head(Targets[c])} \cap ControlTargets(c)
     IN /\ playhead' = [l \in List |-> IF \E t \in targets : Home[t] = l
                                      THEN CHOOSE t \in targets : TRUE ELSE playhead[l]]
        /\ DropPlans(UNION {CuesOf(Home[t]) : t \in targets})
        /\ NoteHalted(UNION {CuesOf(Home[t]) : t \in targets})
        /\ dispatched' = dispatched \cup {c}
  /\ stack' = Rest
  /\ UNCHANGED <<order, cueVars, authoredVars, holder, ctx, guard, commands, handed>>

ActPauseResume ==
  /\ Dispatches({"pause", "resume"})
  /\ LET c == Top.cue IN
       /\ IF Kind[c] = "pause"
          THEN SetStates({x \in ControlTargets(c) : Pausable(x)}, "paused")
          ELSE SetStates({x \in ControlTargets(c) : state[x] = "paused"}, "running")
       /\ dispatched' = dispatched \cup {c}
  /\ stack' = Rest
  /\ UNCHANGED <<listVars, planVars, authoredVars, holder, ctx, guard, commands,
                 historyVars>>

ActReset ==
  /\ Dispatches({"reset"})
  /\ LET c == Top.cue
         reset == ControlTargets(c)
     IN /\ HaltCues(reset)
        /\ DropPlans(IF reset = {} THEN {} ELSE Head(ctx).cancelled \cup reset)
        /\ NoteHalted(reset)
        /\ ctx' = Cancelled(reset)
        /\ dispatched' = dispatched \cup {c}
  /\ stack' = Rest
  /\ UNCHANGED <<listVars, authoredVars, holder, guard, commands, handed>>

ActArm ==
  /\ Dispatches({"arm", "disarm"})
  /\ LET c == Top.cue IN
       /\ disabled' = [x \in Cue |-> IF x \in ControlTargets(c) THEN Kind[c] = "disarm"
                                                              ELSE disabled[x]]
       /\ dispatched' = dispatched \cup {c}
  /\ stack' = Rest
  /\ UNCHANGED <<listVars, planVars, cueVars, mode, holder, ctx, guard, commands,
                 historyVars>>

\* A Start cue: its targets one by one, with the cue on the path.
ActStart ==
  /\ Dispatches({"start"})
  /\ LET c == Top.cue IN
       /\ ctx' = [ctx EXCEPT ![1].path = @ \cup {c}]
       /\ dispatched' = dispatched \cup {c}
       /\ stack' = <<CueFrame("start", c, Targets[c])>> \o Rest
  /\ UNCHANGED <<listVars, planVars, cueVars, authoredVars, holder, guard, commands,
                 historyVars>>

StartsDone ==
  /\ Doing("start") /\ Top.targets = <<>>
  /\ ctx' = [ctx EXCEPT ![1].path = @ \ {Top.cue}]
  /\ stack' = Rest
  /\ UNCHANGED <<listVars, planVars, cueVars, authoredVars, holder, dispatched, guard,
                 commands, historyVars>>

Startable(t) ==
  /\ Present(t) /\ ~disabled[t]
  /\ t \notin Head(ctx).path \cup Head(ctx).started

StartRest == <<CueFrame("start", Top.cue, Tail(Top.targets))>>

StartSkips ==
  /\ Doing("start") /\ Top.targets # <<>> /\ ~Startable(Head(Top.targets))
  /\ stack' = StartRest \o Rest
  /\ UNCHANGED <<listVars, planVars, cueVars, authoredVars, holder, ctx, dispatched,
                 guard, commands, historyVars>>

\* A new run of the target gets a plan of its own before its action runs.
StartFires ==
  /\ Doing("start") /\ Top.targets # <<>>
  /\ LET t == Head(Top.targets)
         continues == ~IgnoresGo(t) /\ mode[t] # "doNotContinue"
     IN /\ Startable(t)
        /\ RunCue(t, {}, TRUE)
        /\ stack' = <<CueFrame("act", t, <<>>), CueFrame("imm", t, <<>>)>> \o (StartRest \o Rest)
        /\ ctx' = [ctx EXCEPT ![1].started = @ \cup {t}]
        /\ IF continues THEN BindPlan(t, generation[t] + 1, Successors(Home[t], t))
           ELSE DropPlans(IF IgnoresGo(t) THEN {} ELSE {t})
  /\ UNCHANGED <<listVars, authoredVars, holder, dispatched, guard, commands,
                 historyVars>>

\* The error of a target is swallowed and the next target is tried.
StartFails ==
  /\ Doing("start") /\ Top.targets # <<>>
  /\ LET t == Head(Top.targets) IN Startable(t) /\ MayFail(t) /\ RunCue(t, {}, FALSE)
  /\ stack' = StartRest \o Rest
  /\ UNCHANGED <<listVars, planVars, authoredVars, holder, ctx, dispatched, guard,
                 commands, historyVars>>

\* The continuation of c is due at once, without waiting for the event loop.
Immediate(c) ==
  /\ ~PostWait[c]
  /\ \/ mode[c] = "autoContinue"
     \/ mode[c] = "autoFollow" /\ state[c] # "running"

\* fire_immediate_continuation of a started target.
ImmediateSkipped ==
  /\ Doing("imm") /\ ~Immediate(Top.cue)
  /\ stack' = Rest
  /\ UNCHANGED <<listVars, planVars, cueVars, authoredVars, holder, ctx, dispatched,
                 guard, commands, historyVars>>

ImmediateFires ==
  /\ Doing("imm") /\ Immediate(Top.cue)
  /\ LET c == Top.cue
         l == Home[c]
         current == plan[c] # NoPlan /\ plan[c].gen = generation[c]
         target == FirstArmed(l, plan[c].targets)
     IN /\ IF mode[c] = "autoContinue" THEN MarkFired(c) ELSE UNCHANGED fired
        /\ DropPlans(IF current THEN {c} ELSE {})
        /\ IF current /\ target # NoCue
           THEN /\ playhead' = [playhead EXCEPT ![l] = target]
                /\ stack' = <<GoFrame(l)>> \o Rest
                /\ NoteHanded(c, plan[c].gen, plan[c].token)
           ELSE stack' = Rest /\ UNCHANGED <<playhead, handed>>
  /\ UNCHANGED <<order, state, generation, ripe, ended, authoredVars, holder, ctx,
                 dispatched, guard, commands, halted>>

\* The end of a dispatch call.
CloseDispatch ==
  /\ Doing("close") /\ ctx # <<>>
  /\ ctx' = Tail(ctx)
  /\ stack' = Rest
  /\ UNCHANGED <<listVars, planVars, cueVars, authoredVars, holder, dispatched, guard,
                 commands, historyVars>>

(***************************************************************************)
(* The rest of a GO, once its dispatch is over                             *)
(***************************************************************************)

\* Mutant: a retrigger of a cue that was still active is not a new run.
RunStartedFromIdle(f) == ~f.active

\* execution_started: the GO made a new run and was not ignored.
RunStarted(f) == ~f.active \/ generation[f.cue] # f.gen

FinishIgnored ==
  /\ Doing("finish") /\ ~RunStarted(Top)
  /\ stack' = Rest
  /\ UNCHANGED <<listVars, planVars, cueVars, authoredVars, holder, ctx, dispatched,
                 guard, commands, historyVars>>

FinishEnds ==
  /\ Doing("finish") /\ RunStarted(Top) /\ mode[Top.cue] = "doNotContinue"
  /\ DropPlans({Top.cue})
  /\ stack' = Rest
  /\ UNCHANGED <<listVars, cueVars, authoredVars, holder, ctx, dispatched,
                 guard, commands, historyVars>>

\* The continuation waits for a clock: the plan stays for the event loop.
FinishBinds ==
  /\ Doing("finish") /\ RunStarted(Top) /\ mode[Top.cue] # "doNotContinue"
  /\ ~Immediate(Top.cue)
  /\ BindPlan(Top.cue, generation[Top.cue], Top.targets)
  /\ stack' = Rest
  /\ UNCHANGED <<listVars, cueVars, authoredVars, holder, ctx, dispatched,
                 guard, commands, historyVars>>

\* chain_now: the plan is bound and taken at once, the Playhead goes to the
\* successor, and it is fired unless this cue already chained in this call tree.
FinishChains ==
  /\ Doing("finish") /\ RunStarted(Top) /\ Immediate(Top.cue)
  /\ LET c == Top.cue
         l == Top.list
         token == nextToken[Home[c]] + 1
         target == FirstArmed(l, Top.targets)
     IN /\ IF mode[c] = "autoContinue" THEN MarkFired(c) ELSE UNCHANGED fired
        /\ nextToken' = [nextToken EXCEPT ![Home[c]] = token]
        /\ plan' = PlansWithout({c})
        /\ playhead' = IF target = NoCue THEN playhead ELSE [playhead EXCEPT ![l] = target]
        /\ IF target # NoCue /\ c \notin guard
           THEN /\ guard' = guard \cup {c}
                /\ stack' = <<GoFrame(l)>> \o Rest
                /\ NoteHanded(c, generation[c], token)
           ELSE stack' = Rest /\ UNCHANGED <<guard, handed>>
  /\ UNCHANGED <<order, state, generation, ripe, ended, authoredVars, holder, ctx,
                 dispatched, commands, halted>>

\* The command returns and the workspace mutex is free.
CommandReturns ==
  /\ holder = "command" /\ stack = <<>>
  /\ holder' = "none" /\ dispatched' = {} /\ guard' = {}
  /\ UNCHANGED <<listVars, planVars, cueVars, authoredVars, stack, ctx, commands,
                 historyVars>>

GoStep == GoNothing \/ GoSkipsDisabled \/ GoFires \/ GoFails
ActStep == \/ ActSkipped \/ ActPlain \/ ActStop \/ ActGoto \/ ActPauseResume
           \/ ActReset \/ ActArm \/ ActStart
StartStep == \/ StartsDone \/ StartSkips \/ StartFires \/ StartFails
             \/ ImmediateSkipped \/ ImmediateFires
FinishStep == FinishIgnored \/ FinishEnds \/ FinishBinds \/ FinishChains
CallStep == GoStep \/ ActStep \/ StartStep \/ CloseDispatch \/ FinishStep

(***************************************************************************)
(* Operator commands.  Each takes the mutex; those that fire cues keep it  *)
(* until their call tree is done, the others are done in one step.         *)
(***************************************************************************)
Issues(op) ==
  /\ holder = "none" /\ op \in Commands /\ commands < MaxCommands
  /\ commands' = commands + 1

\* The outermost GO of a call by `who`, with fresh cycle guards.
LaunchGo(frame, who) ==
  /\ holder' = who
  /\ stack' = <<frame>>
  /\ dispatched' = {} /\ guard' = {}
  /\ UNCHANGED ctx

Go(l) ==
  /\ Issues("go")
  /\ LaunchGo(GoFrame(l), "command")
  /\ UNCHANGED <<listVars, planVars, cueVars, authoredVars, historyVars>>

\* go_by_id_in_workspace: cart buttons, MIDI and timecode triggers.
GoCue(c) ==
  /\ Issues("goCue") /\ Present(c)
  /\ playhead' = [playhead EXCEPT ![Home[c]] = c]
  /\ LaunchGo(GoByIdFrame(c), "command")
  /\ UNCHANGED <<order, planVars, cueVars, authoredVars, historyVars>>

StopCue(c) ==
  /\ Issues("stopCue") /\ Present(c)
  /\ HaltCues({c}) /\ DropPlans({c}) /\ NoteHalted({c})
  /\ UNCHANGED <<listVars, authoredVars, callVars, handed>>

\* Mutant: only the plans of the cues that are still active are cleared.
StopAllActivePlans(l) ==
  /\ holder = "none"
  /\ HaltCues({c \in Members(l) : Active(c)})
  /\ DropPlans({c \in Members(l) : Active(c)}) /\ NoteHalted(CuesOf(l))
  /\ UNCHANGED <<listVars, authoredVars, callVars, commands, handed>>

\* Soft Stop All of a list; the operator can always press it.
StopAll(l) ==
  /\ holder = "none"
  /\ HaltCues({c \in Members(l) : Active(c)})
  /\ DropPlans(CuesOf(l)) /\ NoteHalted(CuesOf(l))
  /\ UNCHANGED <<listVars, authoredVars, callVars, commands, handed>>

\* Hard Stop All, the panic path: every list, every cue, every plan.
HardStopAll ==
  /\ holder = "none"
  /\ HaltCues(Cue) /\ DropPlans(Cue) /\ NoteHalted(Cue)
  /\ UNCHANGED <<listVars, authoredVars, callVars, commands, handed>>

PauseCue(c) ==
  /\ Issues("pause") /\ Present(c) /\ Pausable(c)
  /\ SetStates({c}, "paused")
  /\ UNCHANGED <<listVars, planVars, authoredVars, callVars, historyVars>>

ResumeCue(c) ==
  /\ Issues("resume") /\ Present(c) /\ state[c] = "paused"
  /\ SetStates({c}, "running")
  /\ UNCHANGED <<listVars, planVars, authoredVars, callVars, historyVars>>

SetPlayhead(c) ==
  /\ Issues("setPlayhead") /\ Present(c)
  /\ playhead' = [playhead EXCEPT ![Home[c]] = c]
  /\ UNCHANGED <<order, planVars, cueVars, authoredVars, callVars, historyVars>>

\* Inspector edits that are applied in place, whatever the cue is doing.
SetMode(c, m) ==
  /\ Issues("setMode") /\ Present(c) /\ m # mode[c]
  /\ mode' = [mode EXCEPT ![c] = m]
  /\ UNCHANGED <<listVars, planVars, cueVars, disabled, callVars, historyVars>>

ToggleDisabled(c) ==
  /\ Issues("toggleDisabled") /\ Present(c)
  /\ disabled' = [disabled EXCEPT ![c] = ~@]
  /\ UNCHANGED <<listVars, planVars, cueVars, mode, callVars, historyVars>>

\* move_cue: neither the Playhead nor a frozen plan follows the new order.
MoveCue(c, i) ==
  /\ Issues("move") /\ Present(c)
  /\ LET l == Home[c]
         without == RemoveAt(order[l], Position(l, c))
     IN /\ i \in 1 .. Len(without) + 1
        /\ order' = [order EXCEPT ![l] = InsertAt(without, i, c)]
  /\ UNCHANGED <<playhead, planVars, cueVars, authoredVars, callVars, historyVars>>

\* remove: the cue is hard-stopped, its plan dropped; a Playhead on it goes to
\* the cue now at its index, or to the last one.
RemoveCue(c) ==
  /\ Issues("remove") /\ Present(c)
  /\ LET l == Home[c]
         at == Position(l, c)
         left == RemoveAt(order[l], at)
     IN /\ order' = [order EXCEPT ![l] = left]
        /\ playhead' = IF playhead[l] # c THEN playhead
                       ELSE [playhead EXCEPT ![l] = IF left = <<>> THEN NoCue
                                               ELSE IF at <= Len(left) THEN left[at]
                                               ELSE left[Len(left)]]
  /\ HaltCues({c}) /\ DropPlans({c}) /\ NoteHalted({c})
  /\ UNCHANGED <<authoredVars, callVars, handed>>

Command ==
  \/ \E l \in List : Go(l) \/ StopAll(l)
  \/ HardStopAll
  \/ \E c \in Cue : \/ GoCue(c) \/ StopCue(c) \/ PauseCue(c) \/ ResumeCue(c)
                    \/ SetPlayhead(c) \/ ToggleDisabled(c) \/ RemoveCue(c)
                    \/ \E m \in Modes : SetMode(c, m)
                    \/ \E i \in DOMAIN order[Home[c]] : MoveCue(c, i)

TransportInit ==
  /\ order = InitialOrder
  /\ playhead = [l \in List |-> IF order[l] = <<>> THEN NoCue ELSE Head(order[l])]
  /\ plan = [c \in Cue |-> NoPlan] /\ nextToken = [l \in List |-> 0]
  /\ state = [c \in Cue |-> "standby"] /\ generation = [c \in Cue |-> 0]
  /\ fired = [c \in Cue |-> FALSE] /\ ripe = fired /\ ended = fired
  /\ mode \in [Cue -> InitialModes] /\ disabled = [c \in Cue |-> FALSE]
  /\ holder = "none" /\ stack = <<>> /\ ctx = <<>>
  /\ dispatched = {} /\ guard = {} /\ commands = 0
  /\ handed = {} /\ halted = {}

\* The types of the variables, group by group.
ListsOK == order \in [List -> Seq(Cue)] /\ playhead \in [List -> Cue \cup {NoCue}]
PlansOK == plan \in [Cue -> Plan] /\ nextToken \in [List -> Nat]
CuesOK == /\ state \in [Cue -> CueStates] /\ generation \in [Cue -> Nat]
          /\ fired \in [Cue -> BOOLEAN] /\ ripe \in [Cue -> BOOLEAN] /\ ended \in [Cue -> BOOLEAN]
AuthoredOK == mode \in [Cue -> Modes] /\ disabled \in [Cue -> BOOLEAN]
CallOK == /\ holder \in {"none", "command", "tick"}
          /\ stack \in Seq(FrameSet) /\ ctx \in Seq(Context)
          /\ dispatched \in SUBSET Cue /\ guard \in SUBSET Cue
HistoryOK == /\ commands \in Nat
             /\ handed \in SUBSET HandOver /\ halted \in SUBSET (Cue \X Nat)
TransportTypeOK == ListsOK /\ PlansOK /\ CuesOK /\ AuthoredOK /\ CallOK /\ HistoryOK

=============================================================================
