------------------------------ MODULE EventLoop ------------------------------
(***************************************************************************)
(* The 30 Hz show event loop of show/event_loop.rs, composed with the      *)
(* transport: natural completion, delayed Auto-Continue and Auto-Follow,   *)
(* and the dispatch of the continuations that are due.                     *)
(*                                                                         *)
(* A tick takes the workspace mutex with try_lock and holds it to its end. *)
(* Resolving the pending continuations and scanning the cues is one step   *)
(* (nothing else can run in between and the lists do not interact); each   *)
(* continuation it then fires is a GO call of its own.                     *)
(***************************************************************************)
EXTENDS Transport

VARIABLES
  pending,  \* pending[c]: the post-wait deadline of a cue that has completed
  ready     \* the continuations the current tick has still to fire

loopVars == <<pending, ready>>
vars == <<transportVars, loopVars>>

NoPending == [gen |-> 0, token |-> 0, mode |-> "doNotContinue", due |-> FALSE]
Pending == [gen : Nat, token : Nat, mode : Modes, due : BOOLEAN]
Ready == [list : List, token : Nat, cue : Cue]

(***************************************************************************)
(* Time: media plays out, waits run down, deadlines pass.  A clock runs    *)
(* only while its cue runs; the loop reads the clocks when it ticks, so    *)
(* nothing is lost by letting them move only while the mutex is free.      *)
(***************************************************************************)
PlaybackEnds(c) ==
  /\ holder = "none" /\ state[c] = "running" /\ Kind[c] \in {"media", "wait"} /\ ~ended[c]
  /\ ended' = [ended EXCEPT ![c] = TRUE]
  /\ UNCHANGED <<listVars, planVars, state, generation, fired, ripe, authoredVars,
                 callVars, commands, historyVars, loopVars>>

PostWaitElapses(c) ==
  /\ holder = "none" /\ state[c] \in {"running", "completed"} /\ PostWait[c] /\ ~ripe[c]
  /\ ripe' = [ripe EXCEPT ![c] = TRUE]
  /\ UNCHANGED <<listVars, planVars, state, generation, fired, ended, authoredVars,
                 callVars, commands, historyVars, loopVars>>

DeadlinePasses(c) ==
  /\ holder = "none" /\ pending[c] # NoPending /\ ~pending[c].due
  /\ pending' = [pending EXCEPT ![c].due = TRUE]
  /\ UNCHANGED <<transportVars, ready>>

(***************************************************************************)
(* The tick                                                                *)
(***************************************************************************)
Ripe(c) == PostWait[c] => ripe[c]

\* pending_continuation_is_valid: the same execution, still followed.
PendingValid(c) ==
  /\ pending[c] # NoPending /\ Present(c)
  /\ pending[c].mode = mode[c] /\ ~disabled[c]
  /\ pending[c].gen = generation[c] /\ fired[c]
  /\ plan[c] # NoPlan
  /\ plan[c].gen = pending[c].gen /\ plan[c].token = pending[c].token

HasPlan(c) == Present(c) /\ plan[c] # NoPlan
Completing(c) == Present(c) /\ state[c] = "running" /\ ended[c]

\* Mutant: a cue that completed at once is not looked at again.
DelayedDueWhileRunning(c) ==
  /\ HasPlan(c) /\ ~Completing(c) /\ ~fired[c] /\ Ripe(c)
  /\ state[c] = "running" /\ mode[c] = "autoContinue"

\* The scan of a tick: cues that are still running or completed at once and
\* whose post-wait is over, and the running cues that have just completed.
DelayedDue(c) ==
  /\ HasPlan(c) /\ ~Completing(c) /\ ~fired[c] /\ Ripe(c)
  /\ \/ state[c] = "running" /\ mode[c] = "autoContinue"
     \/ state[c] = "completed" /\ mode[c] \in {"autoContinue", "autoFollow"}

CompletesWithPlan(c) == Completing(c) /\ HasPlan(c) /\ mode[c] # "doNotContinue"

\* Auto-Continue's post-wait runs from the start of the action, Auto-Follow's
\* from the completion.
WaitsAfterCompletion(c) ==
  IF mode[c] = "autoContinue" THEN ~Ripe(c) ELSE PostWait[c]

Tick ==
  LET resolved == {c \in Cue : PendingValid(c) /\ pending[c].due}
      waiting == {c \in Cue : PendingValid(c) /\ ~pending[c].due}
      done == {c \in Cue : Completing(c)}
      followed == {c \in done : CompletesWithPlan(c)}
      delayed == {c \in Cue : DelayedDue(c)}
      deferred == {c \in followed : WaitsAfterCompletion(c)}
      due == resolved \cup delayed \cup (followed \ deferred)
  IN /\ holder = "none"
     /\ state' = [c \in Cue |-> IF c \in done THEN "standby" ELSE state[c]]
     /\ ripe' = [c \in Cue |-> ripe[c] /\ c \notin done]
     /\ ended' = [c \in Cue |-> ended[c] /\ c \notin done]
     /\ fired' = [c \in Cue |-> IF c \in followed \cup delayed THEN TRUE
                                ELSE fired[c] /\ c \notin done]
     /\ pending' = [c \in Cue |->
          IF c \in deferred
          THEN [gen |-> generation[c], token |-> plan[c].token, mode |-> mode[c], due |-> FALSE]
          ELSE IF c \in waiting THEN pending[c] ELSE NoPending]
     /\ ready' = {[list |-> Home[c], token |-> plan[c].token, cue |-> c] : c \in due}
     /\ holder' = IF due = {} THEN "none" ELSE "tick"
     /\ UNCHANGED <<listVars, planVars, generation, authoredVars, stack, ctx, dispatched,
                    guard, commands, historyVars>>

\* ordered_ready_continuations: by list, then in the order of the tokens.
Earlier(r, s) == r.list < s.list \/ (r.list = s.list /\ r.token <= s.token)

\* continue_from_source: the plan must still be the one that became due, and
\* its source still in the run that bound it.
SourceValid(c) ==
  plan[c].gen = generation[c] /\ mode[c] # "doNotContinue" /\ fired[c]

Turn(r) == /\ holder = "tick" /\ stack = <<>> /\ r \in ready
           /\ \A s \in ready : Earlier(r, s)

\* The plan was cancelled or replaced since the scan: nothing happens.
StaleReady(r) ==
  /\ Turn(r) /\ plan[r.cue].token # r.token
  /\ ready' = ready \ {r}
  /\ UNCHANGED <<transportVars, pending>>

FireReady(r) ==
  /\ Turn(r) /\ plan[r.cue].token = r.token
  /\ LET c == r.cue
         target == FirstArmed(r.list, plan[c].targets)
     IN /\ DropPlans({c})
        /\ IF SourceValid(c) /\ target # NoCue
           THEN /\ playhead' = [playhead EXCEPT ![r.list] = target]
                /\ LaunchGo(GoFrame(r.list), "tick")
                /\ NoteHanded(c, plan[c].gen, plan[c].token)
           ELSE UNCHANGED <<playhead, callVars, handed>>
  /\ ready' = ready \ {r}
  /\ UNCHANGED <<order, cueVars, authoredVars, commands, halted, pending>>

TickReturns ==
  /\ holder = "tick" /\ stack = <<>> /\ ready = {}
  /\ holder' = "none" /\ dispatched' = {} /\ guard' = {}
  /\ UNCHANGED <<listVars, planVars, cueVars, authoredVars, stack, ctx, commands,
                 historyVars, loopVars>>

TickStep == (\E r \in ready : StaleReady(r) \/ FireReady(r)) \/ TickReturns

(***************************************************************************)
(* The system                                                              *)
(***************************************************************************)
Init == TransportInit /\ pending = [c \in Cue |-> NoPending] /\ ready = {}

Next ==
  \/ Command /\ UNCHANGED loopVars
  \/ CallStep /\ UNCHANGED loopVars
  \/ CommandReturns /\ UNCHANGED loopVars
  \/ Tick
  \/ TickStep
  \/ \E c \in Cue : PlaybackEnds(c) \/ PostWaitElapses(c) \/ DeadlinePasses(c)

\* A call under the mutex runs to its end, the loop ticks again and again, and
\* clocks run.  Nothing is assumed of the operator.
Fairness ==
  /\ WF_vars(CallStep /\ UNCHANGED loopVars)
  /\ WF_vars(CommandReturns /\ UNCHANGED loopVars)
  /\ WF_vars(Tick) /\ WF_vars(TickStep)
  /\ \A c \in Cue : /\ WF_vars(PlaybackEnds(c))
                    /\ WF_vars(PostWaitElapses(c))
                    /\ WF_vars(DeadlinePasses(c))

Spec == Init /\ [][Next]_vars
FairSpec == Spec /\ Fairness

(***************************************************************************)
(* Properties                                                              *)
(***************************************************************************)

\* Every variable keeps its type: the shape of the cue lists, the cues, the
\* call under the mutex and the loop's books.
TypeOK ==
  /\ TransportTypeOK
  /\ pending \in [Cue -> Pending] /\ ready \in SUBSET Ready

\* A token names one execution for ever: two cues of a list never hold the
\* same one, and neither a plan, a deadline nor a due continuation carries a
\* token the list has not issued, so a stale one can never match a later plan.
TokensAreUnique ==
  /\ \A c \in Cue : /\ plan[c].token <= nextToken[Home[c]]
                    /\ pending[c].token <= nextToken[Home[c]]
                    /\ (plan[c] # NoPlan => plan[c].token > 0)
  /\ \A c, d \in Cue : c # d /\ Home[c] = Home[d] /\ plan[c] # NoPlan
                         => plan[c].token # plan[d].token
  /\ \A r \in ready : r.list = Home[r.cue] /\ r.token \in 1 .. nextToken[r.list]

\* One run of a cue fires its successor at most once, whichever of the GO, the
\* Start cue that ran it, the scan and the deadline gets there first.
OneHandOverPerRun == \A h \in handed : ~h.again

\* A run that was stopped, reset or superseded by a Goto never fires its
\* successor afterwards: not from a plan, a deadline or the current tick.
NoHandOverAfterStop ==
  [][\A h \in handed' \ handed : <<h.cue, h.gen>> \notin halted]_vars

\* A cue that is followed when it finishes is not forgotten while it runs: it
\* holds a plan of its current run, unless an operator or a cue stopped it or
\* redirected its list.
FollowerKeepsPlan ==
  \A c \in Cue :
    holder = "none" /\ Present(c) /\ Active(c) /\ mode[c] = "autoFollow"
      => plan[c].gen = generation[c] \/ <<c, generation[c]>> \in halted

\* The workspace mutex is always given back: no chain of actions, disabled
\* cues or due continuations keeps the loop or the operator out for ever.
MutexIsReleased == holder # "none" ~> holder = "none"

\* A continuation that waits for a clock is dispatched or cancelled in the end;
\* only a paused cue, and a Text that is shown until stopped, hold it back.
ContinuationsResolve ==
  \A c \in Cue :
    plan[c] # NoPlan /\ plan[c].gen = generation[c] /\ Kind[c] # "text"
      ~> \/ plan[c] = NoPlan \/ plan[c].gen # generation[c]
         \/ state[c] = "paused"

\* The plans, tokens and hand-overs implement the abstract ledger: a
\* continuation is spent at most once, and never after it was taken back.
Ledger == INSTANCE ContinuationLedger
  WITH issued <- nextToken,
       live <- [c \in Cue |-> plan[c].token],
       spent <- {<<h.cue, h.token>> : h \in handed}
ImplementsLedger == Ledger!Spec

=============================================================================
