----------------------------- MODULE AudioVoices -----------------------------
(***************************************************************************)
(* Audio cues and the voices that sound for them.  Three threads meet      *)
(* here: the operator's commands and the show loop, which hold the         *)
(* workspace and act one at a time, and the audio callback of each output  *)
(* device.  They share the pools of voices and, per device, a bounded ring *)
(* of commands one way and a bounded ring of reports the other.            *)
(*                                                                         *)
(* A callback loads the pool once a block, obeys the commands queued,      *)
(* which it looks up in what it loaded, and mixes.  The main device is     *)
(* replaced by a restart, which opens new rings and keeps the voices; an   *)
(* aux device is opened by the first GO routed to it and closed with its   *)
(* voices.                                                                 *)
(***************************************************************************)
EXTENDS Naturals, SequencesExt

CONSTANTS
  CueOrder,     \* the audio cues in the order of their lists
  Voice,        \* identities of voices; one that nothing mentions is fresh
  NoVoice,
  AuxCue,       \* cues whose Output Patch names a device of its own
  StreamCue,    \* cues that may read their file while they play: those not decoded,
                \* and those with slices that were not cached in time
  FadeCue,      \* cues with a fade-out of their own, which starts before the end
  LoopCue,      \* cues that loop samples in memory for ever, and so have no duration
  RingCapacity, \* commands a ring holds
  MaxCommands,  \* bound: commands of the operator
  MaxFaults     \* bound: devices lost, closed or restarted

Cue == ToSet(CueOrder)

ASSUME OrderAssumption == CueOrder \in Seq(Cue) /\ IsInjective(CueOrder)
ASSUME VoiceAssumption == NoVoice \notin Voice
ASSUME CueAssumption == AuxCue \subseteq Cue /\ StreamCue \subseteq Cue /\ FadeCue \subseteq Cue
                         /\ LoopCue \subseteq Cue \ StreamCue
ASSUME BoundAssumption == RingCapacity \in Nat \ {0} /\ MaxCommands \in Nat /\ MaxFaults \in Nat

VARIABLES
  state,      \* of a cue, as the show loop sees it
  handle,     \* active_voice_id of a cue
  waiting,    \* waiting_for_stream_ready of a cue
  timeDone,   \* the clock of a cue has passed its duration
  fadeSent,   \* eof_fade_started of a cue
  voice,      \* state of a voice
  source,     \* what a voice reads: samples, a loop of them, a stream, or one that was cancelled
  pool,       \* master list of each device
  running,    \* the callbacks of a device are called
  ring,       \* commands on their way to a device
  reports,    \* voices a device has reported completed
  loaded,     \* what a block that is obeying commands has loaded, or NoBlock
  frozen,     \* the loop takes the main device for frozen
  autoPaused, \* cues the loop has paused for that
  commands,   \* how many commands the operator has given
  faults,     \* how many devices were lost, closed or restarted
  adrift      \* history: voices a transport command for which was lost

cueVars == <<state, handle, waiting, timeDone, fadeSent>>
rtVars == <<voice, source, loaded>>
linkVars == <<pool, running, ring, reports>>
loopVars == <<frozen, autoPaused>>
bounds == <<commands, faults>>
vars == <<cueVars, rtVars, linkVars, loopVars, bounds, adrift>>

Device == {"main", "aux"}
Home(c) == IF c \in AuxCue THEN "aux" ELSE "main"
NoBlock == {NoVoice}
Sounding == {"playing", "fadingOut"}

----------------------------------------------------------------------------
\* The rings

Command == [op : {"play", "pause", "resume", "fade", "cut", "marked"}, of : SUBSET Voice]
Tell(op, v) == [op |-> op, of |-> {v}]

Full(q) == Len(q) >= RingCapacity
HasRoom(d) == ~Full(ring[d])

\* try_push of a command to a set of devices: a full ring takes nothing.
Pushed(rings, ds, cmd) ==
  [d \in Device |-> IF d \in ds /\ ~Full(rings[d]) THEN Append(rings[d], cmd) ELSE rings[d]]

Addressed(q, v) == \E i \in DOMAIN q : v \in q[i].of
Queued(d, v) == {ring[d][i].op : i \in {j \in DOMAIN ring[d] : v \in ring[d][j].of}}

\* Voices that lose their commands with the ring.  A voice plays from the
\* start, so its Play is no loss.
Severed(d) == {v \in pool[d] : Queued(d, v) \ {"play"} # {}}

\* apply_command: what a voice does when told.
Obeyed(op, s) ==
  IF op \in {"play", "resume"} THEN "playing"
  ELSE IF op = "pause" THEN "paused"
  ELSE IF op = "fade" /\ s # "paused" THEN "fadingOut"
  ELSE "stopped"

\* What becomes of a voice in state s as the commands of a ring are obeyed one by one.
FateStep(s, q, v, fates, i) ==
  IF i = 0 THEN s
  ELSE IF v \in q[i].of THEN Obeyed(q[i].op, fates[i - 1]) ELSE fates[i - 1]
Fates(s, q, v) == LET fates[i \in 0 .. Len(q)] == FateStep(s, q, v, fates, i) IN fates
Outcome(s, q, v) == Fates(s, q, v)[Len(q)]
Fate(q, v) == Outcome(voice[v], q, v)
Ending(s) == s \in {"fadingOut", "stopped"}

Pooled(v) == \E d \in Device : v \in pool[d]

\* voice_is_alive: found in a pool, and neither stopped nor idle.
Alive(v) == Pooled(v) /\ voice[v] # "stopped"

\* A device has a stream: the main one always, an aux one while it runs, and
\* after it failed until its last voice is collected.
Exists(d) == d = "main" \/ running[d] \/ pool[d] # {}
Streams == {d \in Device : Exists(d)}

\* Voices of a device that a full ring keeps a command from.
Unreached(ds, vs) == {v \in vs : \E d \in ds : v \in pool[d] /\ ~HasRoom(d)}

----------------------------------------------------------------------------
\* The commands of the engine, as the cues and the loop use them

\* Mutant: what goes to every device goes to the main one.
ToMainOnly(rings, cmd) == Pushed(rings, {"main"}, cmd)

\* stop_voice and resume_voice go to every device.
Broadcast(rings, cmd) == Pushed(rings, Streams, cmd)

\* pause_voice goes to the main device.
PauseTo == {"main"}
PauseVoice(rings, v) == Pushed(rings, PauseTo, Tell("pause", v))

Mentioned(v) ==
  \/ \E c \in Cue : handle[c] = v
  \/ \E d \in Device : \/ v \in pool[d] \cup reports[d]
                       \/ loaded[d] # NoBlock /\ v \in loaded[d]
                       \/ Addressed(ring[d], v)

----------------------------------------------------------------------------
Init ==
  /\ state = [c \in Cue |-> "standby"]
  /\ handle = [c \in Cue |-> NoVoice]
  /\ waiting = [c \in Cue |-> FALSE]
  /\ timeDone = [c \in Cue |-> FALSE]
  /\ fadeSent = [c \in Cue |-> FALSE]
  /\ voice = [v \in Voice |-> "stopped"]
  /\ source = [v \in Voice |-> "memory"]
  /\ pool = [d \in Device |-> {}]
  /\ running = [d \in Device |-> d = "main"]
  /\ ring = [d \in Device |-> << >>]
  /\ reports = [d \in Device |-> {}]
  /\ loaded = [d \in Device |-> NoBlock]
  /\ frozen = FALSE
  /\ autoPaused = {}
  /\ commands = 0
  /\ faults = 0
  /\ adrift = {}

----------------------------------------------------------------------------
\* The operator

\* The cue fields a GO sets before the voice is submitted, and takes back when
\* that fails.  A GO that fails keeps the voice of the run before.
Started(c, v, waits) ==
  /\ state' = [state EXCEPT ![c] = "running"]
  /\ handle' = [handle EXCEPT ![c] = v]
  /\ waiting' = [waiting EXCEPT ![c] = waits]
  /\ timeDone' = [timeDone EXCEPT ![c] = FALSE]
  /\ fadeSent' = [fadeSent EXCEPT ![c] = FALSE]

NotStarted(c) ==
  /\ state' = [state EXCEPT ![c] = "standby"]
  /\ waiting' = [waiting EXCEPT ![c] = FALSE]
  /\ timeDone' = [timeDone EXCEPT ![c] = FALSE]
  /\ UNCHANGED <<handle, fadeSent>>

\* The voice a GO would overwrite loses its only handle.
Overwritten(c) == {handle[c]} \cap Voice

\* What a cue may play from.
Sources(c) == (IF c \in LoopCue THEN {"loop"} ELSE {"memory"})
              \cup (IF c \in StreamCue THEN {"stream"} ELSE {})

\* A stream that is not ready yet is submitted paused.
NewVoice(c, v, waits) ==
  /\ voice' = [voice EXCEPT ![v] = IF waits THEN "paused" ELSE "playing"]
  /\ \E s \in Sources(c) : /\ waits => s = "stream"
                           /\ source' = [source EXCEPT ![v] = s]

\* GO of a cue on the main device: the voice joins the pool, then its Play is
\* queued.  With the ring full the cue does not start, and the voice stays.
GoMain(c, v, waits) ==
  /\ NewVoice(c, v, waits)
  /\ pool' = [pool EXCEPT !["main"] = @ \cup {v}]
  /\ \/ /\ waits \/ HasRoom("main")
        /\ Started(c, v, waits)
        /\ ring' = IF waits THEN ring ELSE Pushed(ring, {"main"}, Tell("play", v))
        /\ adrift' = (adrift \ {v}) \cup Overwritten(c)
     \/ /\ ~waits /\ ~HasRoom("main")
        /\ NotStarted(c)
        /\ adrift' = adrift \cup {v}
        /\ UNCHANGED ring
  /\ UNCHANGED <<running, reports, loaded>>

\* A device that failed goes away with its voices before it is opened again.
Reopens == ~running["aux"]
AuxBefore == IF Reopens THEN {} ELSE pool["aux"]

\* GO of a cue on its own device, opened if need be.  Whether the ring takes
\* the Play does not matter.
GoAux(c, v, waits) ==
  /\ \/ /\ Started(c, v, waits)
        /\ NewVoice(c, v, waits)
        /\ running' = [running EXCEPT !["aux"] = TRUE]
        /\ pool' = [pool EXCEPT !["aux"] = AuxBefore \cup {v}]
        /\ LET kept == [ring EXCEPT !["aux"] = IF Reopens THEN << >> ELSE @]
           IN  ring' = IF waits THEN kept ELSE Pushed(kept, {"aux"}, Tell("play", v))
        /\ adrift' = (adrift \ {v}) \cup Overwritten(c)
     \/ /\ Reopens
        /\ NotStarted(c)
        /\ pool' = [pool EXCEPT !["aux"] = {}]
        /\ ring' = [ring EXCEPT !["aux"] = << >>]
        /\ UNCHANGED <<voice, source, running, adrift>>
  /\ reports' = [reports EXCEPT !["aux"] = IF Reopens THEN {} ELSE @]
  /\ UNCHANGED loaded

\* AudioCue::go without a pre-wait.  A GO on a paused cue starts a new voice.
Go(c) ==
  /\ state[c] # "running"
  /\ \E v \in Voice, waits \in BOOLEAN :
       /\ ~Mentioned(v)
       /\ waits => c \in StreamCue
       /\ IF Home(c) = "main" THEN GoMain(c, v, waits) ELSE GoAux(c, v, waits)
  /\ UNCHANGED <<loopVars>>

\* The cue fields Stop and reset clear.
Cleared(cs) ==
  /\ state' = [c \in Cue |-> IF c \in cs THEN "standby" ELSE state[c]]
  /\ timeDone' = [c \in Cue |-> timeDone[c] /\ c \notin cs]
  /\ fadeSent' = [c \in Cue |-> fadeSent[c] /\ c \notin cs]

\* AudioCue::stop and hard_stop: the handle is taken first, so a main ring that
\* is full leaves the cue running without a voice.
Stop(c, op) ==
  /\ state[c] # "standby" \/ handle[c] # NoVoice
  /\ waiting' = [waiting EXCEPT ![c] = FALSE]
  /\ handle' = [handle EXCEPT ![c] = NoVoice]
  /\ IF handle[c] = NoVoice
     THEN Cleared({c}) /\ UNCHANGED <<ring, adrift>>
     ELSE /\ ring' = Broadcast(ring, Tell(op, handle[c]))
          /\ adrift' = adrift \cup Unreached(Device, {handle[c]})
          /\ IF HasRoom("main") THEN Cleared({c})
             ELSE UNCHANGED <<state, timeDone, fadeSent>>
  /\ UNCHANGED <<rtVars, pool, running, reports, loopVars>>

\* Mutant: the cue is paused whether or not the ring took the command.
PausesAnyway(c) == state[c] = "running"

\* AudioCue::pause: a voice that waits for its stream is paused already.
CanPause(c) == state[c] = "running" /\ (waiting[c] \/ handle[c] = NoVoice \/ HasRoom("main"))
TellsVoice(c) == ~waiting[c] /\ handle[c] # NoVoice

Pause(c) ==
  /\ CanPause(c)
  /\ state' = [state EXCEPT ![c] = "paused"]
  /\ ring' = IF TellsVoice(c) THEN PauseVoice(ring, handle[c]) ELSE ring
  /\ UNCHANGED <<handle, waiting, timeDone, fadeSent, rtVars, pool, running, reports, loopVars, adrift>>

\* AudioCue::resume: with the main ring full the cue stays paused, though an
\* aux device has got the command.
Resume(c) ==
  /\ state[c] = "paused"
  /\ IF TellsVoice(c)
     THEN /\ ring' = Broadcast(ring, Tell("resume", handle[c]))
          /\ adrift' = adrift \cup Unreached(Device, {handle[c]})
                              \cup (IF HasRoom("main") THEN {} ELSE {handle[c]})
          /\ state' = [state EXCEPT ![c] = IF HasRoom("main") THEN "running" ELSE @]
     ELSE state' = [state EXCEPT ![c] = "running"] /\ UNCHANGED <<ring, adrift>>
  /\ UNCHANGED <<handle, waiting, timeDone, fadeSent, rtVars, pool, running, reports, loopVars>>

\* panic_stop_all_except with nothing to keep: every voice is marked anew, so
\* what an earlier panic has queued finds no mark of its own any more.  A full
\* main ring stops it before the aux devices.
Unmarked(rings) ==
  [d \in Device |-> [i \in DOMAIN rings[d] |->
     IF rings[d][i].op = "marked" THEN [rings[d][i] EXCEPT !.of = @ \ UNION {pool[e] : e \in Device}]
     ELSE rings[d][i]]]
Marked(rings) ==
  LET all == [op |-> "marked", of |-> UNION {pool[d] : d \in Device}]
  IN  Pushed(Unmarked(rings), IF Full(rings["main"]) THEN {} ELSE Streams, all)

\* What the cues do one after the other, i of them so far.
Visits == 0 .. Len(CueOrder)

\* hard_stop_all: a cut for every active cue that has a voice, the reset of
\* every cue, and the mark of all voices.
CutBy(rings, c) ==
  IF state[c] # "standby" /\ handle[c] # NoVoice
  THEN Broadcast(rings, Tell("cut", handle[c])) ELSE rings
CutStep(at, i) == IF i = 0 THEN ring ELSE CutBy(at[i - 1], CueOrder[i])
Cuts == LET at[i \in Visits] == CutStep(at, i) IN at[Len(CueOrder)]

Panic ==
  LET told == Marked(Cuts)
  IN  /\ \E c \in Cue : state[c] # "standby"
      /\ Cleared(Cue)
      /\ handle' = [c \in Cue |-> NoVoice]
      /\ waiting' = [c \in Cue |-> FALSE]
      /\ ring' = told
      /\ adrift' = adrift \cup {v \in Voice : \E d \in Device : v \in pool[d]
                       /\ ~Ending(Fate(told[d], v))}
      /\ UNCHANGED <<rtVars, pool, running, reports, loopVars>>

----------------------------------------------------------------------------
\* The audio callback

Load(d) ==
  /\ running[d]
  /\ loaded[d] = NoBlock
  /\ loaded' = [loaded EXCEPT ![d] = pool[d]]
  /\ UNCHANGED <<voice, source, cueVars, linkVars, loopVars, adrift>>

\* set_stopped cancels the stream of the voice.
Cancelled(vs) == [v \in Voice |-> IF v \in vs /\ source[v] = "stream" THEN "cancelled" ELSE source[v]]

\* Stopped by one of the commands, whatever came after it.
StoppedBy(q, v) == \E i \in DOMAIN q : v \in q[i].of /\ Fates(voice[v], q, v)[i] = "stopped"

\* The commands queued are popped one after the other.  A voice submitted
\* after the block was loaded is not found, and its commands have no effect.
Drain(d) ==
  /\ loaded[d] # NoBlock
  /\ LET found == loaded[d] \cap pool[d]
     IN  /\ voice' = [v \in Voice |-> IF v \in found THEN Fate(ring[d], v) ELSE voice[v]]
         /\ source' = Cancelled({v \in found : StoppedBy(ring[d], v)})
         /\ adrift' = adrift \cup (Severed(d) \ found)
  /\ ring' = [ring EXCEPT ![d] = << >>]
  /\ loaded' = [loaded EXCEPT ![d] = NoBlock]
  /\ UNCHANGED <<cueVars, pool, running, reports, loopVars>>

\* A voice reaches its end, or the end of its fade, while it is mixed.  A
\* voice whose stream was cancelled reaches neither.  A loop has no end.
Ends(v) ==
  /\ voice[v] \in Sounding
  /\ source[v] # "cancelled"
  /\ voice[v] = "playing" => source[v] # "loop"
  /\ \E d \in Device :
       /\ running[d] /\ loaded[d] = NoBlock /\ v \in pool[d] /\ "play" \notin Queued(d, v)
       /\ reports' = [reports EXCEPT ![d] = @ \cup {v}]
  /\ voice' = [voice EXCEPT ![v] = "stopped"]
  /\ source' = Cancelled({v})
  /\ UNCHANGED <<loaded, cueVars, pool, running, ring, loopVars, adrift>>

----------------------------------------------------------------------------
\* The devices

\* The callbacks of a device cease; nothing else is known yet.
DeviceLost(d) ==
  /\ running[d]
  /\ running' = [running EXCEPT ![d] = FALSE]
  /\ loaded' = [loaded EXCEPT ![d] = NoBlock]
  /\ UNCHANGED <<voice, source, cueVars, pool, ring, reports, loopVars, adrift>>

\* The main device was only held up.
DeviceReturns ==
  /\ ~running["main"]
  /\ running' = [running EXCEPT !["main"] = TRUE]
  /\ UNCHANGED <<rtVars, cueVars, pool, ring, reports, loopVars, adrift>>

\* What is left of a voice that leaves the pool is nobody's any more.
Dropped(vs) ==
  /\ voice' = [v \in Voice |-> IF v \in vs THEN "stopped" ELSE voice[v]]
  /\ source' = [v \in Voice |-> IF v \in vs THEN "memory" ELSE source[v]]

\* close_all_aux: an Output Patch was edited.
CloseAux ==
  /\ running["aux"] \/ pool["aux"] # {}
  /\ running' = [running EXCEPT !["aux"] = FALSE]
  /\ pool' = [pool EXCEPT !["aux"] = {}]
  /\ ring' = [ring EXCEPT !["aux"] = << >>]
  /\ reports' = [reports EXCEPT !["aux"] = {}]
  /\ loaded' = [loaded EXCEPT !["aux"] = NoBlock]
  /\ Dropped(pool["aux"])
  /\ adrift' = adrift \ pool["aux"]
  /\ UNCHANGED <<cueVars, loopVars>>

\* restart: the main device opens anew, or does not; the aux devices close.
\* Voices of the main device stay in the pool, what was queued for them is gone.
Restart ==
  /\ pool' = [pool EXCEPT !["aux"] = {}]
  /\ loaded' = [d \in Device |-> NoBlock]
  /\ \/ /\ running' = [d \in Device |-> d = "main"]
        /\ ring' = [d \in Device |-> << >>]
        /\ reports' = [d \in Device |-> {}]
        /\ adrift' = (adrift \ pool["aux"]) \cup Severed("main")
     \/ /\ running' = [d \in Device |-> FALSE]
        /\ ring' = [ring EXCEPT !["aux"] = << >>]
        /\ reports' = [reports EXCEPT !["aux"] = {}]
        /\ adrift' = adrift \ pool["aux"]
  /\ Dropped(pool["aux"])
  /\ UNCHANGED <<cueVars, loopVars>>

----------------------------------------------------------------------------
\* The show loop

ClockPasses(c) ==
  /\ state[c] = "running" /\ ~waiting[c] /\ c \notin LoopCue /\ ~timeDone[c]
  /\ timeDone' = [timeDone EXCEPT ![c] = TRUE]
  /\ UNCHANGED <<state, handle, waiting, fadeSent, rtVars, linkVars, loopVars, adrift>>

\* Sections 1 to 3: completion reports are taken, and are lost when a command
\* holds the workspace then.
TickBusy ==
  /\ \E d \in Device : reports[d] # {}
  /\ reports' = [d \in Device |-> {}]
  /\ UNCHANGED <<cueVars, rtVars, pool, running, ring, loopVars, adrift>>

\* A report of a voice that is alive again is dropped.
Heard == {v \in reports["main"] \cup reports["aux"] : ~Alive(v)}

\* Section 3b: a main device that is silent is taken for frozen after a while,
\* and for thawed at its next callback.
FrozenNow(now) == IF running["main"] THEN ~now ELSE frozen => now

\* The guard pauses the running cues at the onset of a freeze, while the main
\* ring has room, and at its end resumes those of them that are still paused.
PausedBy(at, c) ==
  LET quiet == [at EXCEPT !.state[c] = "paused", !.auto = @ \cup {c}]
  IN  IF at.state[c] # "running" \/ handle[c] = NoVoice THEN at
      ELSE IF at.waiting[c] THEN quiet
      ELSE IF Full(at.ring["main"]) THEN at
      ELSE [quiet EXCEPT !.ring = PauseVoice(@, handle[c])]

FullRings(rings) == {d \in Device : Full(rings[d])}

ResumedBy(at, c) ==
  LET full == FullRings(at.ring)
      missed == IF "main" \in full \/ \E d \in full : handle[c] \in pool[d] THEN {handle[c]} ELSE {}
  IN  IF c \notin autoPaused \/ at.state[c] # "paused" THEN at
      ELSE IF at.waiting[c] \/ handle[c] = NoVoice THEN [at EXCEPT !.state[c] = "running"]
      ELSE [at EXCEPT !.ring = Broadcast(@, Tell("resume", handle[c])), !.lost = @ \cup missed,
                      !.state[c] = IF "main" \in full THEN @ ELSE "running"]

GuardedBy(now, at, c) ==
  IF now = frozen THEN at ELSE IF now THEN PausedBy(at, c) ELSE ResumedBy(at, c)

\* What a tick works on, as the cues are visited in turn.
Entered == [ring |-> ring, state |-> state, auto |-> autoPaused, waiting |-> waiting,
            fadeSent |-> fadeSent, lost |-> {}]
GuardStep(now, at, i) == IF i = 0 THEN Entered ELSE GuardedBy(now, at[i - 1], CueOrder[i])
Guarded(now) == LET at[i \in Visits] == GuardStep(now, at, i) IN at[Len(CueOrder)]

\* Section 5, AudioCue::tick of the running cues: a stream that is ready is
\* resumed, and a fade-out before the end is asked for once.
StreamStarts(at, c) ==
  LET full == FullRings(at.ring)
      missed == IF "main" \notin full /\ \E d \in full : handle[c] \in pool[d] THEN {handle[c]} ELSE {}
  IN  IF ~at.waiting[c] \/ handle[c] = NoVoice THEN at
      ELSE [at EXCEPT !.ring = Broadcast(@, Tell("resume", handle[c])),
                      !.waiting[c] = "main" \in full, !.lost = @ \cup missed]

FadeStarts(at, c) ==
  IF at.waiting[c] \/ at.fadeSent[c] \/ handle[c] = NoVoice \/ c \in LoopCue \/ timeDone[c] THEN at
  ELSE [at EXCEPT !.ring = Broadcast(@, Tell("fade", handle[c])), !.fadeSent[c] = TRUE]

CueTick(at, c, ready, fading) ==
  LET begun == IF c \in ready THEN StreamStarts(at, c) ELSE at
  IN  IF at.state[c] # "running" THEN at
      ELSE IF c \in fading THEN FadeStarts(begun, c) ELSE begun
TickStep(from, ready, fading, at, i) ==
  IF i = 0 THEN from ELSE CueTick(at[i - 1], CueOrder[i], ready, fading)
Ticked(from, ready, fading) ==
  LET at[i \in Visits] == TickStep(from, ready, fading, at, i) IN at[Len(CueOrder)]

\* Mutant: only a report completes a cue.
CompletesOnReport(c) == handle[c] # NoVoice /\ handle[c] \in Heard

\* should_complete_cue
ShouldComplete(c) ==
  IF handle[c] = NoVoice THEN timeDone[c]
  ELSE ~Alive(handle[c]) /\ (handle[c] \in Heard \/ timeDone[c])

\* Mutant: voices that were reported are collected.
ReportedGone == [d \in Device |-> pool[d] \ reports[d]]

\* gc_voices: stopped voices go, and a failed aux device that has none left.
Collected == [d \in Device |-> {v \in pool[d] : voice[v] # "stopped"}]
AuxCollected == ~running["aux"] /\ Collected["aux"] = {}

\* What a tick leaves once the cues are visited: the cues whose voice has come
\* to its end are over, and what nobody can hear is lost no more.
Concluded(now, ticked) ==
  LET done == {c \in Cue : ticked.state[c] = "running" /\ ShouldComplete(c)}
  IN  /\ frozen' = now
      /\ autoPaused' = IF frozen /\ ~now THEN {} ELSE ticked.auto
      /\ ring' = [ticked.ring EXCEPT !["aux"] = IF AuxCollected THEN << >> ELSE @]
      /\ state' = [c \in Cue |-> IF c \in done THEN "standby" ELSE ticked.state[c]]
      /\ handle' = [c \in Cue |-> IF c \in done THEN NoVoice ELSE handle[c]]
      /\ waiting' = [c \in Cue |-> ticked.waiting[c] /\ c \notin done]
      /\ timeDone' = [c \in Cue |-> timeDone[c] /\ c \notin done]
      /\ fadeSent' = [c \in Cue |-> ticked.fadeSent[c] /\ c \notin done]
      /\ adrift' = {v \in adrift \cup ticked.lost : voice[v] # "stopped"}

\* The rest of a tick: the freeze guard, the ticks of the cues, the
\* completions, and the collection of stopped voices.
TickRun ==
  /\ \E now \in BOOLEAN, ready \in SUBSET StreamCue, fading \in SUBSET FadeCue :
       /\ FrozenNow(now)
       /\ \E guarded \in {Guarded(now)} : \E ticked \in {Ticked(guarded, ready, fading)} :
            Concluded(now, ticked)
  /\ pool' = Collected
  /\ source' = [v \in Voice |-> IF voice[v] = "stopped" THEN "memory" ELSE source[v]]
  /\ reports' = [d \in Device |-> {}]
  /\ UNCHANGED <<voice, loaded, running>>

----------------------------------------------------------------------------
Operator ==
  /\ commands < MaxCommands
  /\ commands' = commands + 1
  /\ \/ \E c \in Cue : Go(c) \/ Stop(c, "fade") \/ Stop(c, "cut") \/ Pause(c) \/ Resume(c)
     \/ Panic
  /\ UNCHANGED faults

Fault ==
  /\ faults < MaxFaults
  /\ faults' = faults + 1
  /\ UNCHANGED commands
  /\ (\E d \in Device : DeviceLost(d)) \/ CloseAux \/ Restart

Callback(d) == Load(d) \/ Drain(d)

\* What goes on by itself.
Proceed ==
  /\ \/ \E d \in Device : Callback(d)
     \/ \E v \in Voice : Ends(v)
     \/ \E c \in Cue : ClockPasses(c)
     \/ DeviceReturns \/ TickBusy \/ TickRun
  /\ UNCHANGED bounds

Next == Operator \/ Fault \/ Proceed

Spec == Init /\ [][Next]_vars

\* The callbacks of a device that runs are called and come to their end, what
\* sounds ends, clocks move on, and not every tick finds the workspace held.
Fairness ==
  /\ \A d \in Device : WF_vars(Callback(d) /\ UNCHANGED bounds)
  /\ \A v \in Voice : SF_vars(Ends(v) /\ UNCHANGED bounds)
  /\ \A c \in Cue : WF_vars(ClockPasses(c) /\ UNCHANGED bounds)
  /\ SF_vars(TickRun /\ UNCHANGED bounds)

FairSpec == Spec /\ Fairness

----------------------------------------------------------------------------
\* Properties

CueStates == {"standby", "running", "paused"}
VoiceStates == {"playing", "paused", "fadingOut", "stopped"}

CuesOK ==
  /\ state \in [Cue -> CueStates] /\ handle \in [Cue -> Voice \cup {NoVoice}]
  /\ waiting \in [Cue -> BOOLEAN] /\ timeDone \in [Cue -> BOOLEAN] /\ fadeSent \in [Cue -> BOOLEAN]
VoicesOK ==
  /\ voice \in [Voice -> VoiceStates]
  /\ source \in [Voice -> {"memory", "loop", "stream", "cancelled"}]
DevicesOK ==
  /\ pool \in [Device -> SUBSET Voice] /\ running \in [Device -> BOOLEAN]
  /\ reports \in [Device -> SUBSET Voice]
  /\ loaded \in [Device -> SUBSET (Voice \cup {NoVoice})]
  /\ \A d \in Device : loaded[d] # NoBlock => loaded[d] \subseteq Voice
LoopOK ==
  frozen \in BOOLEAN /\ autoPaused \in SUBSET Cue /\ adrift \in SUBSET Voice
BoundsOK == commands \in 0 .. MaxCommands /\ faults \in 0 .. MaxFaults
Rings == {q \in [Device -> Seq(Command)] : \A d \in Device : Len(q[d]) <= RingCapacity}

\* Every variable keeps its type, and no ring ever holds more than it has room
\* for: send_command and broadcast_command give up instead.
TypeOK == CuesOK /\ VoicesOK /\ DevicesOK /\ ring \in Rings /\ LoopOK /\ BoundsOK

Held(v) == \E c \in Cue : handle[c] = v

\* A voice in a pool is held by a cue, which can stop it, or it ends with the
\* commands that are on their way: otherwise it sounds until a panic.  The
\* ways to lose one are those the history records: a ring that is full or
\* closed by a restart, a command that overtakes the pool, a GO on a paused
\* cue, and a completion while commands are queued.
StraysAreAccounted ==
  \A d \in Device : \A v \in pool[d] \ adrift : Held(v) \/ Ending(Fate(ring[d], v))

\* A cue that is paused is silent once the main device has obeyed.  On the
\* device of an Output Patch it sounds on: pause_voice tells only the main one.
PausedIsSilent ==
  \A c \in Cue :
    state[c] = "paused" /\ handle[c] \in pool["main"] \ adrift /\ Queued("main", handle[c]) = {}
      => voice[handle[c]] \notin Sounding

\* Whatever is lost on the way, a cue with a duration does not stay running for
\* ever: it ends, is paused, or waits for its stream or for a device that is
\* gone, or a command for its voice was lost or overtaken, or the voice was
\* revived after its stream had been cancelled.
Revived(v) == v \in Voice /\ source[v] = "cancelled" /\ Alive(v)
DeviceGone(c) == ~running[Home(c)]

EveryPlayEnds ==
  \A c \in Cue \ LoopCue :
    []<>(state[c] # "running" \/ waiting[c] \/ DeviceGone(c)
           \/ handle[c] \in adrift \/ Revived(handle[c]))

\* Voices no cue holds leave the pools, so that these do not grow.
MayStay(v) == Held(v) \/ v \in adrift \/ Revived(v) \/ \E d \in Device : v \in pool[d] /\ ~running[d]

VoicesAreCollected == []<>(\A v \in Voice : Pooled(v) => MayStay(v))

==============================================================================
