# Qlisa in TLA+

Qlisa is a show-control application: a Tauri back end in Rust
(`src/src-tauri/src`) runs cue lists during a live show, and a React front end
(`src/src`) edits and operates them.  This directory holds the specifications
of the back end's core logic, the TLC runs that check them on small shows, and
the TLAPS proofs of the properties that matter most.

Paths below are relative to `src/src-tauri/src` unless they start with `docs/`
or `src/`.

## 1. The system

### Actors

The back end is a handful of threads around one mutex, `workspace`.

| actor | what it does | takes `workspace` |
|---|---|---|
| Tauri commands (`commands/*.rs`), run one after the other on the main thread | GO, Stop, edits, undo, save ... | with `lock` |
| show event loop (`show/event_loop.rs`), 30 Hz | natural completion, delayed continuations, groups, triggers, status | with `try_lock`; a busy tick is skipped |
| autosave thread (`lib.rs`), every 3 s | the crash-recovery snapshot | with `lock`, released before the file is written |
| audio callback, output engine, MIDI, timecode and OSC receivers, network workers | play and receive | never: they talk through rings, channels and atomics |

The event loop calls back into the transport (`Transport::continue_from_source`,
`Transport::go`), the transport calls the cues (`Cue::go`, `stop`, `pause`), the
cues command the engines, and the engines report back to the loop through
statuses.  The front end sees events and polls; it calls commands.

### Components

| component | state it keeps | operations | what is hard about it | what makes it correct |
|---|---|---|---|---|
| Transport, `show/transport.rs` | none of its own; per call: the dispatched set, the guard of active Start cues, cancelled and started cues of a dispatch, the path | `go`, `go_by_id`, action cues, chains, Stop, Stop All, panic, Pause, Resume | unbounded recursion go → dispatch → Start → chain → go under one mutex; several cycle guards with different lifetimes; actions of one GO that undo each other | the mutex is given back; a GO makes a bounded number of GOs; a stopped run hands nothing over |
| Event loop, `show/event_loop.rs` | pending post-wait deadlines, continuations ready this tick, trigger and device memory | `tick` (the body of the loop) | deadlines outlive the run that set them; several continuations due in one tick disturb each other; what is drained before a failed `try_lock` is lost | one hand-over per run, none after a stop, none forgotten |
| Cue list, `show/cue_list.rs` | cues (a tree), Playhead, continuation plans and their token counter, trigger tables | push, insert, remove, move, group, ungroup, nest, promote, renumber, set and advance the Playhead, bind and take plans | lookups by UUID at any depth; an operation that takes a cue out before it knows where to put it; Playhead and plans follow the edits | nothing lost or listed twice; Playhead on a top-level cue; tokens unique |
| Groups and Numbers, `cue/group_cue.rs`, Number parts of the transport | the child that is current, a pending advance, the random bag, the group's clock; Number clock and phases | go, fire and draw a child, advance on completion, loop, park, pause, stop | child indices kept across edits; disabled last children; an advance whose source is stopped; two ways of completing | a Playlist plays one child; a random group repeats none within a round; GO fires what is shown; a group left alone comes to rest |
| Media cues, `cue/audio_cue.rs`, `video_cue.rs` ... | run state, generation, voices or layers | go, stop, fade out, pause, resume, reset, preload | start may fail or be late; completion by clock or by report | state matches what plays |
| Other cues (memo, wait, stop, control, fade, devamp, MIDI, OSC, light, script, timecode) | run state, markers | go, stop, reset | complete at once, so the loop never sees them running | their continuation still fires |
| Cue editing commands, `commands/cue_cmds.rs` | none | some 55 commands | snapshot, validation and edit under separate locks; stopping what is removed | running cues stay reachable; every edit can be undone |
| Undo and clipboard, `show/undo_stack.rs`, `commands/undo_cmds.rs` | past and future snapshots, the clipboard | record, undo, redo, copy, paste | one history for all lists and all shows | undo and redo walk along one timeline |
| Cue list management, `commands/cue_list_cmds.rs` | the lists and the active one | add, remove, rename, switch | what refers to the old active list | some list is active |
| Workspace files and recovery, `show/workspace.rs`, `recovery.rs`, `lib.rs` | the document, its revision and modified flag, project file, recovery file, locals of the autosave thread | save, load, new, import, collect, restore, discard, close | the thread writes after it released the mutex; crashes anywhere; failing writes | unsaved work reaches the disk, and is only replaced by later work |
| External triggers, `engine/timecode_receiver.rs`, `timecode_types.rs`, `midi_trigger.rs`, `osc_server.rs`, sections 0, 0b and 9b of the loop | the assembler's nibbles, the channel of positions, the last position, a mark per list, notes, what is to fire | assemble, drain, mark, fire, reconfigure | rewinds; drains on busy ticks; one mark for all triggers of a list | each trigger passed fires, once a pass |
| Audio engine, `engine/audio_engine.rs`, `voice.rs`, `ring_command.rs` | per device a pool of voices, a ring of commands, a ring of reports; the freeze guard | submit, stop, fade, pause, resume, panic, restart, collect | a callback that sees the pool and the commands at different moments; full rings; devices that vanish | a sounding voice is in reach of its cue; a cue ends; voices are collected |
| Output engine, `engine/output_engine/` | slots, windows, layers | show, clear, fade layers | external players | the right layer is on top |
| Network video, `engine/network_io.rs`, the program-audio taps of `audio_engine.rs` | per destination a worker, its latest frame, its tap, the format it was opened for | apply, start, stop, publish, send, retry | workers replaced while they send; a restart of the audio device; failures that last | one sender per destination; audio live and of the right format; an Apply ends; sending resumes |
| Lighting, `engine/dmx_*.rs`, `fixture.rs` | universes, fades | set, fade, send | timing | levels reach their targets |
| Media conversion and cache, `media_converter.rs`, `engine/media_cache.rs` | jobs, cache entries | queue, cancel, finish, evict | late results of cancelled jobs | one result per job |
| Preferences, devices, machine configuration | settings, device lists | get, set, migrate | – | data |
| QLab import, `qlab_import/` | none | convert | – | data |
| Front end, `src/src` | copies of the show, selection, GO queue, project-open queue | event handlers | stale copies, events out of order | converges to the back end |

## 2. The modules

    EventLoop  --EXTENDS-->  Transport            EventLoop   implements  ContinuationLedger
    ShowEditor --EXTENDS-->  CueTree              ShowEditor  implements  EditTimeline
    Recovery    GroupCue    TriggerDispatch    Timecode    AudioVoices    NetworkOutputs
    MCEventLoop, MCShowEditor, MCGroupCue, MCTriggerDispatch, MCAudioVoices   small shows for TLC
    EventLoopProofs                           proofs about EventLoop and its continuations
    EditorProofs                              proofs about ShowEditor and CueTree
    RecoveryProofs, GroupProofs, TriggerProofs (with Timecode), AudioProofs, NetworkProofs
    Recursion       what a recursive function over numbers is, for the proofs that meet one

| module | models | variables ↔ code |
|---|---|---|
| `Transport` | `show/transport.rs` over flat cue lists, with the life cycle of the cues it triggers | `order`, `playhead`, `plan`, `nextToken` = `CueList::{cues, playhead_cue_id, continuation_plans, next_continuation_token}`; `state`, `generation`, `fired`, `mode`, `disabled` = the cue's `state`, `play_generation`, `auto_continue_marker`, `continue_mode`, `is_disabled`; `ripe` and `ended` abstract the clocks; `holder`, `stack`, `ctx`, `dispatched`, `guard` = the call under the mutex; `handed`, `halted` are history |
| `EventLoop` | the continuation half of `event_loop.rs`, composed with the transport | `pending` = the loop's deadlines, `ready` = the continuations due this tick |
| `ContinuationLedger` | what Auto-Continue and Auto-Follow promise | – |
| `CueTree` | a list as a tree of cues, one operator per editing method of `CueList` | `row[Top]` = `CueList::cues`, `row[g]` = the children of group g |
| `ShowEditor` | the commands that edit, undo, redo, switch lists and replace the show | `past`, `future` = `UndoStack::{past, future}`; `busy` = cues that `ensure_transport_safe` refuses; `used`, `groups` give out UUIDs; `clipboard` = `AppState::clipboard`, its cues numbered from 1 |
| `EditTimeline` | what an undo history promises | – |
| `Recovery` | project file, recovery file, autosave thread, restart | `doc` = the `Workspace` (file, version, modified, revision); `autosave` = the locals of the thread; `prompt` = the recovery dialog; `misled`, `touched`, `crossed` are history |
| `GroupCue` | one top-level group of `cue/group_cue.rs` in its four modes with the parts of the transport and of the tick that drive it | `g` = the group's state, clock, current child, `pending_advance`, `random_bag`, `completed` flag; `ch` = state, marker and clock of the children; `gone` = the cues that were deleted; `here` = the Playhead is on the group; `poisoned` = the mutex after a panic; `lost`, `direct`, `round`, `shifted`, `cancelled` are history |
| `TriggerDispatch` | MTC assembly, the receiver's channel, the trigger windows of the lists, MIDI triggers, the three moments of a tick that deal with them | `asm` = `MtcAssembler`; `rx`, `sub`, `chan` = the receiver's broadcast channel and the loop's subscription; `prev` = `prev_tc_frame`; `mark` = `tc_last_triggered_frame`; `queued` = `tc_fire`; `tape` is the master; `fresh`, `sent`, `spent`, `loose`, `unread` are history |
| `Timecode` | SMPTE positions and frame numbers, `engine/timecode_types.rs` | operators only |
| `AudioVoices` | audio cues, their voices, and the callbacks of a main and an aux device | `state`, `handle`, `waiting`, `fadeSent` = the cue's `state`, `active_voice_id`, `waiting_for_stream_ready`, `eof_fade_started`; `voice`, `source` = the voice; `pool`, `ring`, `reports`, `running` = per device; `loaded` = the snapshot a block works on; `frozen`, `autoPaused` = the loop's freeze guard; `adrift` is history |
| `NetworkOutputs` | the Apply of the output preferences, the network workers, their taps and formats | `published` = `NetworkOutputManager::endpoints`; `worker` = the thread's locals with `running` and its slot for one frame; `taps`, `heard` = `ProgramAudioTapRegistry` and what is in a tap; `format` = `ProgramAudioFormat`; `pc`, `next`, `todo`, `taken` = the locals of the Apply; `delayed`, `wrong` are history |

`PROJECT.json` maps every definition to its lines.

### Transport and EventLoop

The code recurses under the mutex; the module keeps the recursion as a work
stack, one action per stack frame: `go` (the Playhead's cue), `act` (dispatch of
one fired cue), `close` (the end of a dispatch), `finish` (the rest of a GO, with
the successors that were frozen when it began), `start` (the remaining targets of
a Start cue) and `imm` (the immediate continuation of a started target).  The sets
that guard against cycles live as long as they do in the code: `dispatched` and
`guard` for the whole call tree, `ctx` for one dispatch.

A tick resolves the deadlines and scans every list in one step, since it holds the
mutex throughout and the scan of one list does not read another; each continuation
it then fires is a GO call with all its steps.  Clocks move only while the mutex is
free: the loop reads them when it ticks, so this loses no outcome.

What the data abstraction leaves out: pre-wait, groups and Numbers, fades and
devamp, preloading, the browser cue's owner, background protection; the two
no-op outcomes "GO refused by double-GO protection" and "GO while loading"; `u64`
wrap of the token counter (tokens are natural numbers).  List numbers stand for the
order of the list UUIDs, which decides the order of the continuations of one tick.
A `Fragile` media cue may fail to start, with its generation already taken.

### ShowEditor

A command records a snapshot and edits under two separate locks, but commands run
one after the other on the main thread, so the model takes both in one step; only
the Playhead and the run states can move between the two in the code.  A command
that fails validation after it took its snapshot is `EditWithoutMove`, as is every
edit of properties.  A lookup by UUID takes the first match; the model only edits
while each UUID is listed once (`Editable`), and the run `undo` shows how it comes to
be listed twice.  Three defects of the code are kept out of the runs and described in
section 5: nesting a group in itself, grouping the cue with the Playhead, duplicating
a group.  Unlike the duplicate, a paste gives every cue of a tree a new UUID, so `tree`
pastes groups too; the clipboard stays through undo, list switches and opened shows.
Out of the model: numbering, Number cues, the inner playhead of Sequential groups,
the media of pasted cues, list names and modes.  The front end only offers
Ungroup on groups, so `Ungroup` is guarded by it.

### Recovery

Commands are steps of the main thread; a save is two (the project file, then the
snapshot it deletes).  The thread's loop is four: look (under the mutex), write,
fail, clear.  A `Crash` can happen anywhere; `Close` deletes the snapshot and exits
one step later, so the thread may write in between.  The recovery prompt is only drawn
over the window (`src/src/App.tsx:244-290`): the shortcuts
(`src/src/hooks/useKeyboardShortcuts.ts:163-396`) and the commands work under it, so
the show may be edited, saved and replaced while it is open.  Three history variables
say when less is promised.  `touched`: something was edited, imported or saved under this
prompt, which may cost the snapshot it asks about.  `crossed`: a restore read the snapshot
while the thread was about to replace it, until the thread has written the restored
show.  `misled`: since the thread last took the show in, its write failed, its file was
discarded, or another show came to a revision it may have seen; revisions start again
with every workspace.  The snapshot is written to a temporary file and renamed, hence
atomic.  A torn project file (`show/workspace.rs:490` writes
in place), collecting media and dropping files are not modelled.

### GroupCue

One top-level group with audio children.  A tick is one action: it holds the
workspace from the pending advance to the completion of the group, and its parts are
operators over a state record, in the order of the code.  `Elapse` lets a unit pass
for each clock that runs, the clock of the group included, which runs on while its
children are paused: that is how a group can end by its clock while a child still
sounds.  A voice sounds until its cue has played its length.  Operations on single
children go past the group, as transport commands by UUID do.

No edit asks whether the group runs, and none tells it: children are removed, copied or
pasted in, moved in from the list, moved out, moved about and disabled, while the group's
indices, its current child and its pending advance stay.  A cue that was moved out
goes on as it is; outside the group it only ages, is commanded and is reset once its
voice has ended.  Left out are groups in groups, Number cues, edits of the mode, the
loop, the waits and the continue modes of a running group, and the group's own
post-wait.  `elapsed` stands for both clocks of a group, that of the pre-wait
(`started_at`) and that of the action (`action_started_at`): the second starts when the
first is over.

### TriggerDispatch and Timecode

Frame numbers are sent in `Pieces` digits to the base `Base` (eight nibbles of 4 bits
in the code): the sender takes the digits off by division, the receiver puts its nibbles
together from the highest, and `PiecesHoldEveryFrame` says that no frame needs more.  The tick is split where it releases the workspace: it drains positions
and marks what was crossed (sections 0 and 0b), and fires it later (9b); at each of
its attempts a command may hold the workspace.  The receiver can be restarted on a new
channel while the loop listens to the old one.  A trigger may be set, moved and cleared.
A change of the timecode configuration replaces the thread of the receiver at once.  In
the code the flag that stops the old thread is taken back after 50 ms
(`engine/timecode_receiver.rs:251-263`), and a thread that has not looked at it by then
(`366-367`) goes on beside the new one, on the same channel; the model has one.  LTC, the flywheel of the receiver and
OSC are left out.

### AudioVoices

Commands and the loop act one at a time under the workspace; a callback takes two
steps, `Load` of the pool and `Drain` of the commands queued until then, so that a
voice may be submitted between the two.  The pool of the main device survives a
restart, its rings do not.  What a panic, the freeze guard and a tick do to the cues
they do one after the other, in the order of the lists (`CueOrder`), since a ring may be
full for the second and not for the first.  A stream that was cancelled is a source of its own: a
voice that reads one ends only if it is heard.  `adrift` names the voices a command
for which was lost, one way or another; what is promised of the others is the point
of the module.  Mixing, slices and gains are left out.

### NetworkOutputs

An Apply is one thread under the configure gate, in the stages of the code: taps
replaced, new workers started, old ones taken out of sight, stopped and joined one
after the other, new ones published, compositors changed, any of which may fail in
the last stage.  A worker is a thread with the locals of `network_output_loop`; it
looks at `running` and at the format at the top of its loop and nowhere else.
A restart of the audio engine changes the format first and the rate of the engine
later.  A frame slot holds one frame, the latest.  A frame is published to the workers of the
outputs in force; in the code a new compositor renders from its creation on, a moment
before the map of outputs is replaced (`engine/output_engine/mod.rs:1629-1664`).  Generations are numbers that only
grow.  Status texts, counters, the length of the back-off and the transports themselves
are left out.

## 3. The runs

| run | instance | distinct states | properties and what they show |
|---|---|---|---|
| `actions` | two lists, five cues: Start cues, two of which start each other through a chain, reach into a list with a sound, a Goto and a Stop cue; every assignment of Auto-Continue and Auto-Follow; the operator edits modes and disables cues; 2 commands plus Stop All and panic without bound | 167,904 | `OneHandOverPerRun`, `NoHandOverAfterStop`, `ImplementsLedger`: whoever gets there first – the GO, the Start cue, the scan, a deadline – a run fires its successor at most once and never after it was stopped, reset or passed over by a Goto; `MutexIsReleased`: every call tree ends |
| `controls` | Reset, Pause and Resume cues and the operator's pause, resume and stop around a sound that may fail to start and a text; post-waits; 3 commands | 40,244 | `TypeOK`, `TokensAreUnique`, `ContinuationsResolve`: no continuation token is used twice, and none waits for ever |
| `edits` | one list; move, remove, disarm, set the Playhead while continuations wait; 4 commands | 718,036 | `FollowerKeepsPlan`: the plan of a running follower stays |
| `tree` | a group in a group and a cue after it; every structural edit with undo and redo, 5 UUIDs, 2 edits, selections of 2, a clipboard, one running cue | 612,675 | `CuesInOnePlace`, `BusyCuesAreListed`, `PlayheadOnTopLevel`, `MovesKeepEveryCue` |
| `history` | removals, undo, redo, list switches and opened shows; 3 edits, 2 steps back | 357,265 | `HistoryIsBounded`, `HistoryIsATimeline` |
| `recovery` | two project files, 3 edits or imports, failing writes and restores, crashes, closes | 208,175 | `TypeOK`, `AutosaveIsCurrent`, `UnsavedWorkReachesDisk`, `PromptedSnapshotStays`, `SnapshotMovesForward` |
| `modes` | seven groups of two or three children: each mode, looping or not, with and without pre- and post-waits, every continue mode, a child whose media is missing; 4 commands of the operator, edits of the children among them | 588,764 | `PlaylistExclusive`, `OncePerRound`, `LostOnlyByClock`, `GoFiresShownChild`, `CancelledAdvanceStays`; `Settles`: a group left alone ends or waits for the operator |
| `timecode` | two lists, three cues, one note, timecode of three pieces up to frame 2; 3 acts of the operators of show and master | 963,879 | `NothingMissed`, `RewindRearms`, `OncePerPass`, `WholeFramesAreRight` |
| `voices` | two cues, one of them streamed and fading out by itself, one looping on a device of its own; 2 voices, rings of 2; 3 commands, 1 fault | 517,587 | `StraysAreAccounted`, `PausedIsSilent` |
| `ends` | one streamed cue with a fade-out; 2 voices, rings of 2; 3 commands, 1 fault | 128,128 | `EveryPlayEnds`, `VoicesAreCollected` |
| `network` | two destinations of which one may be sent to at a time; 3 Applies, a restart of the audio device, a failure of a transport | 235,286 | `OneSenderPerDestination`, `AudioIsFed`, `WorkersAreOwned`, `NoDelayedBurst`, `OneStaleBlock`; `ApplyEnds`, `DestinationsRecover` |
| `undo` | two lists, 2 edits | – | `UuidsAreUnique`: a violation, section 5 |

**Bounds.**  `MaxCommands`, `MaxEdits`, `MaxCues`, `MaxSelected` and `MaxBusy` bound
the operator, never the program: a call, a tick or a write always runs to its end.
Two commands are enough for the races of `actions` because clocks, ticks and Stop
All are not counted; the hazards need one GO and one more intervention.  Four
commands in `edits` let two edits fall between two GOs.  `MaxUndo` (`MAX_UNDO`) is 50
in the code and 2 here, with 3 edits, so that the trimming of the oldest
snapshot happens; `tree` needs only one step back, because its properties are about
the tree and not the history.  Five UUIDs allow the three cues of the show, a group
and a copy, or a pasted group with its child; what could not be pasted any more is not
copied.  Stop All and panic are not counted, so no state of the transport runs is a
deadlock.  `modes` needs four commands: a GO, a pause, the GO that
takes the group up again, and a stop of the child whose post-wait runs; one child that
plays longer than the others lets completions fall into different ticks; the groups of
two leave a cue that can be copied or moved in.  In
`timecode` a frame of three pieces lets a locate cut one in the middle, and three acts
are a roll, a locate and a change of a trigger or of the receiver.  `voices` needs two
cues, since what one loses must not be found by the other, and two voices, for the one
that fades while its cue is started again; a ring of two is full after two commands.
In `network` the Applies go there and back between two destinations, and one Apply
can fall into the back-off of a worker, one into a restart; `MaxDestinations` (8 in the
code) is 1 so that too many are asked for too, and the proof covers any number.
Deadlock is checked except in `voices`, `ends`, `timecode` and `network`, where all may
have come to rest with the operator's commands used up.

**Fairness.**  `EventLoop`: weak fairness of the steps of a call and its return (a
thread that holds a mutex keeps running), of the tick and its steps (the loop sleeps
33 ms and tries again) and of the clocks.  `try_lock` may fail on one tick, but every
call returns and operators pause, so weak fairness of `Tick` – enabled as long as the
mutex stays free – is what the code gives.  `Recovery`: weak fairness of the second
half of a save and of each step of the thread, which loops for ever with a 3 s sleep;
a write may succeed or fail, so only their disjunction is fair.  Nothing is assumed
of the operator, of crashes or of the disk.  `GroupCue`: time passes or the loop ticks, as
long as either changes something.
`AudioVoices`: the callback of a running device is called and ends, clocks pass, and a
tick finds the workspace free again and again (strong fairness, as commands come in
between); a voice that sounds comes to its end, likewise strongly, since a pause takes
the step away and gives it back.  `NetworkOutputs`: threads run, joins return, a
compositor with a picture publishes again and again; failures of a transport are
bounded, otherwise nothing would promise that it ever streams.

**Limits of single properties.**  `ContinuationsResolve` is checked without edits of
the mode and of the arming: a pending continuation of a cue that is disabled, or whose
mode is edited, is dropped with its plan left in the list until the cue's next run.
`OneHandOverPerRun` and `FollowerKeepsPlan` hold for shows without the configurations
of Start cues described in section 5, and `FollowerKeepsPlan` as long as continue modes
are not edited under a cue that runs: one that is made a follower in the middle of its
run has no plan, and finishes without firing anything.  `NothingMissed` and `RewindRearms` except what a
busy tick, a disabled list or a trigger set behind the timecode takes away, and
`WholeFramesAreRight` except positions with pieces from before a locate; both
exceptions are history variables (`loose`, `unread`, `fresh`), so that nothing else
hides in them.  `StraysAreAccounted`, `PausedIsSilent`, `EveryPlayEnds` and
`VoicesAreCollected` except the voices in `adrift`, each entry of which is a named way
to lose a command (section 5).
`Settles` excepts the points named in `Attended`.  `OncePerRound` holds until an edit
renumbers the children of a running random group (`shifted`; a cue added behind the last
child, a disabled child or a command on one does not), and `LostOnlyByClock` excepts the
groups that end by their clock, and speaks of completions only: the voice that a GO on a
paused child leaves behind is a matter of `StraysAreAccounted`.  `PromptedSnapshotStays` holds as long as nothing is
edited, imported or saved under the prompt, `SnapshotMovesForward` unless a restore
crosses a write, `AutosaveIsCurrent` and `UnsavedWorkReachesDisk` unless the thread was
misled.  The run of `FollowerKeepsPlan` has no Stop, Reset or Start cue, and that of
`ContinuationsResolve` no edits.

## 4. The proofs

All constants are arbitrary: any cues, lists, targets, modes, shows and bounds that
satisfy the named assumptions of the modules.

| theorem | statement | argument |
|---|---|---|
| `EventLoopProofs!TypeCorrect` | `Spec => []TypeOK` | `TypeOK` is inductive; one lemma per action |
| `EventLoopProofs!TokensUnique` | `Spec => []TokensAreUnique` | inductive with `TypeOK`; every step does one of four things to plans and tokens (`PlanSteps`): drops plans, binds one with a fresh token, spends one, or issues and spends at once |
| `EventLoopProofs!LedgerImplemented` | `Spec => ImplementsLedger` | the same four things are the ledger's actions under the mapping |
| `EventLoopProofs!StoppedRunsStayStopped` | `Spec => NoHandOverAfterStop` | `NoHaltedRunContinues`: halted runs are never ahead of the cue's generation, no plan is ahead of it, and neither the plan of the current run nor a GO still open belongs to a halted run.  The property itself is not inductive: it only speaks of hand-overs, while what forbids them is that each way of stopping a run also removes its plan |
| `EventLoopProofs!HandsOverOnce` | `NoStarts => (Spec => []OneHandOverPerRun)` | `HandedOnce`: a run that has fired its successor has no open GO and no plan left, so nothing can fire another; see below |
| `EventLoopProofs!FollowersKeepTheirPlans` | `NoStarts /\ "setMode" \notin Commands => (Spec => []FollowerKeepsPlan)` | `FollowersHold`: a run that plays and will be followed holds its plan, was halted, or its GO is still open; deadlines and due continuations belong to runs that are over, so the loop never takes a plan away from one that plays |
| `RecoveryProofs!RecoveryTypes`, `AutosaveStaysCurrent`, `PromptedSnapshotKept` | `TypeOK`, `AutosaveIsCurrent`, `PromptedSnapshotStays` | invariant `TypeOK /\ ThreadFollows /\ Quiet`: what the thread last saw is never ahead of the document, equal revisions mean equal contents unless it was misled, and under a prompt with nothing touched the show is still unmodified, so that the thread has nothing to write and owns no file |
| `RecoveryProofs!SnapshotNeverGoesBack` | `SnapshotMovesForward` | `VersionsInOrder`: no version is ahead of the edits made, and as long as no restore has crossed a write a modified document is never behind the snapshot, and what the thread is about to write is neither behind what it replaces nor ahead of the document |
| `EditorProofs!HistoryBounded` | `Spec => []HistoryIsBounded` | undo and redo preserve the sum of the two lengths; only an edit adds, and it drops the redo side |
| `EditorProofs!HistoryIsTimeline` | `Spec => HistoryIsATimeline` | `TimelineOf` of the snapshots around the present list is the same sequence before and after an undo or a redo (`UndoKeepsTimeline`, `RedoKeepsTimeline`), restoring twice is restoring once, and an edit keeps a prefix of it, or all but the first state |
| `EditorProofs!EachCueInOnePlace` | `"duplicateTree" \notin Operations => (Spec => []CuesInOnePlace)` | `OnceEverywhere`: the lists and every snapshot list each cue once, with children only under groups; see below |
| `EditorProofs!PlayheadStaysOnTop` | `"groupPlayhead" \notin Operations => (Spec => []PlayheadOnTopLevel)` | each edit keeps the Playhead at the top, and a restored list puts it there whatever the snapshot says |
| `EditorProofs!RunningCuesStayListed`, `MovesLoseNoCue` | `BusyCuesAreListed` and `MovesKeepEveryCue`, with `"nestInside" \notin Operations` | what each edit takes out of the list is exactly what it stops, a move takes nothing out, and undo and redo replace only a list where nothing runs |
| `GroupProofs!PlaylistIsExclusive`, `RandomRoundsAreFair`, `OnlyClockedGroupsLoseVoices`, `GoFiresWhatIsShown`, `CancelledStaysCancelled` | `PlaylistExclusive`, `OncePerRound`, `LostOnlyByClock`, `GoFiresShownChild`, `CancelledAdvanceStays` | one invariant, `GroupInv`: a pending advance belongs to the child the sequence is at (`Coherent`); at most one child is active besides those started past the group, since whatever a call fires is all that it adds (`Narrows`); and a cancelled advance leaves the sequence parked at a child at rest, with the tick about to notice or having noticed (`Parked`).  An edit that adds or moves a child keeps all three because it only adds cues that are at rest or counted as started past the group (`InsertAtOf`, `EditKept`) |
| `TriggerProofs!NoTriggerMissed`, `RewoundListsRearm`, `FiredOncePerPass` | `NothingMissed`, `RewindRearms`, `OncePerPass` | one invariant relates a list's mark to what has fired: what was fired is covered by the mark (`SpentIsCovered`), and a mark ahead of the timecode, which only an untold rewind leaves, covers only triggers that are given up (`CoveredAheadIsLoose`) |
| `TriggerProofs!WholeFramesAssemble` | `Spec => []WholeFramesAreRight` | `Received`: the pieces received in sequence since the stream was cut are the ones before the next to send, and their nibbles are the digits of the master's present frame; digits taken off one by one and put together again spell the number (`DigitsSpell`) |
| `TriggerProofs!FramesSurvivePositions` | `ToFrameNumber(FromFrameNumber(n, rate)) = n` for every frame of the day and every rate | division with remainder by blocks of ten minutes and by minutes; TLC evaluates the same at the seams of the numbering (`PositionsRoundTrip`) |
| `AudioProofs!AudioTypes`, `StraysAccounted`, `PausedCuesAreSilent` | `TypeOK` of `AudioVoices` (with the bound on the rings; no run repeats it), `StraysAreAccounted`, `PausedIsSilent` | one invariant, `AudioInv`, about what becomes of a voice once its ring is obeyed; see below |
| `NetworkProofs!OneSender`, `WorkersOwned`, `AudioFed`, `NoBurst`, `OneStale` | `OneSenderPerDestination`, `WorkersAreOwned`, `AudioIsFed`, `NoDelayedBurst`, `OneStaleBlock` | one invariant.  None of the properties is inductive: that a destination has one sender rests on frames reaching only workers that are or were published (`HiddenAreIdle`), and those of an Apply and its predecessor never being in sight together (`Stages`); that one stale block is the most rests on the format only ever growing and on a worker that sent one having the look at the format before its tap (`Formats`) |

**Shows without Start cues.**  Start cues are what makes a GO open other runs inside
its own dispatch; two properties of the continuations fail for some of them (section 5)
and are proved for every show that has none (`NoStarts`; chains, Stop, Goto, Reset,
Pause and Arm cues, deadlines and edits all remain).  There the recursion is flat:
`FlatCall` says that the stack holds a GO to do or what is left of one GO – its action,
the end of the dispatch, its rest – and nothing else.  `FlatStep` collects what any step
makes of a cue: its run stays, ends, or is a new one whose GO is open (`RunsOn`); a plan
is dropped, kept, or bound by the open GO to the run it began (`PlansOn`); a successor
is fired only by the open GO or by the plan of the current run, which is then gone
(`HandsOver`).  Both invariants follow from that, the second with one more fact for each
way to drop a plan: it halts the run, or the run is over (`Keeps`).

**The editor's trees.**  `EditorProofs` goes from sequences to sets and from sets to the
editor.  `Subtree` is shown to be the least set with the cue in it that is closed under
children (`Closed`), and `EachListedOnce` to be the three facts `Apart` (no cue in two
places), `OnlyIn` (only groups have children) and `Reached` (every cue hangs below a
top-level one, so no group is inside itself).  Each operator of `CueTree` is then one
of a few changes of the sets of cues in the rows – cues are reordered, dropped with all
below them, moved to another row, wrapped in a new group, unwrapped, or grafted under
new UUIDs – and each of those keeps the three facts by an argument about sets.  A
clipboard is such a forest of its own, over the numbers of the copies.  `EditMade`
collects what a recorded edit makes of the active list, `OtherStep` what every other
step makes of a list; the invariants are two short case splits over them.  The
hypotheses leave out the three operations of section 5 that lose or double cues, each
for the property it breaks and for no other, as the runs do.

**Voices.**  `Fate` says what a voice will be once its callback has obeyed all that is
queued.  `AudioProofs` first shows how it behaves: a command queued last decides last
(`OutcomeOfAppend`), one for another voice changes nothing, a voice that is told
nothing but to play stays or plays (`OutcomeOfPlays`), and one that reaches its end
early becomes what it would have been, or ends where it would have sounded
(`OutcomeOfEnding`).  So a callback that has what it needs turns fate into state, and
one that comes too early or a restart that empties the ring can only take a voice away
from playing.  `PausedIsSilent` is not inductive, since it speaks of voices that
nothing is queued for; `MainIsQuiet` replaces that by the fate, and has to cover the cues
that wait for a stream as well, whose voices a Pause does not tell again.  That commands
for one cue leave the voice of another alone needs two more invariants: no two cues hold
one voice (`HandlesApart`), and no voice is in two pools (`PoolsApart`), without which the
drain of one device would change what the other's ring decides.  The freeze guard and the
tick send commands for cue after cue; `Good` collects what holds after each of them, and
`GuardedIsIn` and `TickedIsIn` carry it to the end of the list.  A tick that completes a
cue gives up only the handle of a voice that is no longer alive, which the same tick
collects.

**Assumptions on the constants.**  A project file holds what an editor saved: each list
has each UUID once, and its Playhead on a top-level cue (`OpenedShowsAssumption`).  The
children of a group have UUIDs of their own (`KidsAssumption`).  The order of the audio cues names each once
(`OrderAssumption`).  The other assumptions
are the types and ranges of the constants.  Induction over data is out of the provers'
reach as a rule for operators, but not over sets: what a recursive function gives for
every number up to a bound (`Subtree`, `Among`, `Playlist`, `Fates`, the chains of the transport)
is proved by showing that the set of the numbers for which it holds is all of them
(`Recursion`, whose `RecursionExists` also says that such a function is what its
definition says).

Only model-checked: liveness (`MutexIsReleased`, `ContinuationsResolve`,
`UnsavedWorkReachesDisk`, `Settles`, `EveryPlayEnds`, `VoicesAreCollected`, `ApplyEnds`,
`DestinationsRecover`), which is beyond the provers here; and `OneHandOverPerRun` in shows
with Start cues, of which `actions` checks one.

## 5. Where code and documentation differ

The run `undo` finds the first.

- The undo history is one for all lists, and a snapshot does not name its list
  (`commands/undo_cmds.rs:192`).  An undo after a switch of lists overwrites another
  list with the cues of the first, so that a UUID names two cues, against
  `docs/cross-list-commands.md:9-10`.

Others, met while modelling and not given a run.

Workspace files and recovery:

- The recovery prompt keeps nothing from working under it.  Saving deletes the snapshot
  that it asks about (`commands/workspace_cmds.rs:163`) and an edit lets the thread
  overwrite it, against `lib.rs:442-446`; what Restore then brings back, or Discard
  deletes, is work of this session.
- The autosave thread compares revisions (`lib.rs:455`), and those start again with
  every workspace.  A show that comes to the revision the thread saw of the one before
  is taken for written and its unsaved work never reaches the recovery file, against
  `recovery.rs:3-5`.  One way there is an edit under the prompt and a
  Restore after it; if the thread is about to write the edit at that moment, the file may
  also go back to the older of the two.
- A failed autosave is not tried again before the next edit (`lib.rs:473`); a write in
  flight can put the file back after a save or a close has deleted it
  (`commands/workspace_cmds.rs:161`, `lib.rs:197`); closing the window with the
  recovery prompt unanswered deletes the snapshot of the session before.

Cue lists and transport:

- `add_to_group` (`show/cue_list.rs:779`) takes the cue out of the list before it looks
  for the group.  A group dropped into its own subgroup disappears with all its cues;
  the front end guards only against a cue dropped on itself.
- `group_cues` (`show/cue_list.rs:727`) leaves the Playhead on a cue that is now nested,
  against lines 571-572.
- The copy of a group keeps the UUIDs of the children (`commands/cue_cmds.rs:3864`).
- A Start cycle that passes through a chain is not rejected (`show/transport.rs:418`):
  a target's immediate continuation calls `go`, and every `go` starts with a fresh
  path, so a Start cue can run again inside its own GO, against
  `docs/runtime-control-audit.md:51-52`.  The call still ends, as `actions` shows.
- A Reset or Stop target removes the plans of every cue cancelled so far in the
  dispatch (`show/transport.rs:811`), so a Start cue with the targets Stop b, b,
  Reset c loses the continuation of the b it restarted, against
  `docs/cross-list-commands.md:30-32`.
- A Stop of a cue whose own GO is still open does not prevent the continuation that
  this GO binds at its end.  (`halted` therefore leaves out cues with an open GO.)
- `go_by_id` goes through the Playhead (`show/transport.rs:1114`): of a disabled cue
  it fires the next armed one, and the Playhead of the owning list moves.
- The documentation of `remove_many` (`show/cue_list.rs:527-529`) puts the Playhead at
  the lowest removed position; the code searches from the Playhead's own.
- `restore_snapshot` leaves the list's continuation plans in place, and an edit that
  fails validation has already recorded a snapshot and cleared the redo side.

Groups:

- A Sequential or Playlist group whose last children are disabled counts them as next
  children (`cue/group_cue.rs:1068`): it does not complete, and takes every GO of its
  list.  A random group all of whose drawn children fail stays running likewise.
- Taking a child out of a running random group leaves indices past the end in its bag,
  and the next draw panics under the workspace mutex (`group_cue.rs:1200`); taking out
  the current child leaves the group running without one.  A child copied or pasted in
  (`commands/cue_cmds.rs:3844` and `show/cue_list.rs:616` ask for no state of the group)
  or moved in shifts what the indices of the bag mean, and a child is drawn twice in
  its round.
- If the source of an advance that was cancelled is moved out of the group, a tick passes
  and the source is moved back, the tick has dropped the advance without parking the
  sequence, which goes on, although `group_cue.rs:956-957` says that a source that has
  disappeared parks it.
- A group ends when its clock has passed its duration, although a child that was paused
  or sought still sounds, and its reset drops the child's handle
  (`show/event_loop.rs:1215`).  A stop and a retrigger of a child within one tick arm
  the cancelled advance again.

External triggers:

- A full frame sent by a located master does not reset the assembler
  (`engine/timecode_receiver.rs:110`), so the next position can have stale nibbles.
- The loop subscribes to the receiver's channel once, at start (`lib.rs:400-404`), so a
  receiver configured later (`commands/timecode_cmds.rs:36`) is not heard.
- Rewinds, notes and what was crossed are drained before the workspace is tried
  (`event_loop.rs:650`, `703`, `952`), so a busy tick loses them.  A trigger at exactly
  the frame rewound to, or at frame 0, does not fire, since the window is open below.

Audio:

- A Stop with a full ring takes the voice's handle first (`cue/audio_cue.rs:834`), a
  GO on a paused cue drops the handle of the paused voice (`:797`), and a command for a
  voice that the callback's snapshot does not have yet is dropped
  (`engine/audio_engine.rs:2800`): each leaves a voice only a panic ends.
- A pause of a cue routed to an aux device never reaches it (`audio_engine.rs:2036-2038`
  against `:1688-1690`); the loss of an aux device leaves its looping cues running.
- A streamed voice that has ended and is revived before it is collected, by a Resume or
  a Stop with a fade, is silent and never ends; its cue stays running.
- Commands queued on the main device are lost in a restart.
- What the freeze guard resumes is decided by UUID (`event_loop.rs:1009`): a cue stopped,
  started and paused during a freeze is resumed at its end, and a cue started during it
  is not paused.
- A pool keeps its last three snapshots so that the callback never frees one
  (`audio_engine.rs:547`); three changes of the pool within a block make it the last
  owner nevertheless.  (Not modelled.)

Network outputs:

- If a compositor cannot be created, the workers have already been replaced, although
  `engine/output_engine/mod.rs:1557-1559` says that a failed creation leaves the old
  routing untouched.
- A worker that finds its format stale ends, after every restart of the audio device
  with the same rate too, and only the next Apply replaces it.  One that is in its
  back-off at that Apply still counts as current, and ends later, against
  `engine/network_io.rs:3690-3696`.
- A restart between a worker's look at the format and its block sends one block of the
  new format to a sender opened for the old one, against `audio_engine.rs:2615-2619`.
- An Apply during a restart records the rate of before, so the next one replaces all
  workers though nothing has changed.
- After a reconnect a still picture is not sent again: the destination shows an error
  until a new frame comes.

## 6. Not modelled

- Number cues, groups in groups, fades and devamp, pre-wait and background protection of
  the transport; the bulk and Number commands of the editor; the media of
  pasted cues.
- LTC, the flywheel and the OSC server; the audio preview, inputs, meters, and the
  watchdog of the audio device (`lib.rs:519-626`).  Of the watchdog two things were seen:
  a default device that fails in its fallback is not tried again, and its restart is not
  serialised with that of an Apply.
- Rendering, libmpv, mixing, decoding, NDI and SRT, windows: I/O and pixel work, the
  larger part of the source by far.  DMX fades are numeric.
- Media conversion and cache: planned.  Preferences, device lists and the QLab import are
  conversions of data without a protocol.  The front end is modelled by the commands it
  gives.

`PROJECT.json` lists every component with its status, and the hazards that no property
covers yet with the reason.

## 7. What would come next

1. `ShowEditor` further: Number cues and inner playheads; a composition with the transport, so that removals and undo meet plans and deadlines.
2. `NumberScheduler`: master clock, action offsets, pause, seek and stop; groups in groups.
3. The audio preview session with its generation, the device watchdog and its fallback.
4. The job queue of the media converter and its cache; the front end's GO queue and
   project-open queue.
5. Proofs: which shows with Start cues keep `OneHandOverPerRun`.
