--------------------------- MODULE NetworkOutputs ---------------------------
(***************************************************************************)
(* Programme video and audio sent to network destinations (NDI, SRT).      *)
(* Each destination has a worker thread.  Four parties meet here: an Apply *)
(* of the preferences, which replaces the audio taps, starts new workers,  *)
(* stops the old ones and only then lets the compositor see the new; the   *)
(* compositors, which replace the one frame a worker has waiting; the      *)
(* audio callback, which fills the taps; and a restart of the audio        *)
(* engine, which makes the format of every worker stale.                   *)
(***************************************************************************)
EXTENDS Naturals, FiniteSets

CONSTANTS
  Dest,           \* destinations the preferences name
  Setting,        \* transport settings of a destination
  Off,            \* a destination that is disabled
  Rate,           \* sample rates of audio devices
  MaxDestinations,\* MAX_NETWORK_OUTPUT_DESTINATIONS
  MaxApplies,     \* bound: how often preferences are applied
  MaxRestarts,    \* bound: restarts of the audio engine
  MaxFailures     \* bound: failures of a transport

ASSUME OffAssumption == Off \notin Setting
ASSUME BoundAssumption == MaxDestinations \in Nat /\ MaxApplies \in Nat
                          /\ MaxRestarts \in Nat /\ MaxFailures \in Nat

\* A destination has at most two workers at a time, the published one and its successor.
Worker == Dest \X {0, 1}

VARIABLES
  published, \* endpoints: the worker of a destination frames are published to
  outputs,   \* destinations that have a compositor
  pc,        \* where the Apply is, "idle" without one
  wanted,    \* what it was asked for
  rate,      \* the sample rate it read, which is recorded with the new workers
  next,      \* the workers it will publish
  todo,      \* destinations whose new worker it has still to start
  taken,     \* workers it has taken out of the map and not joined yet
  worker,    \* the threads
  taps,      \* workers whose tap the audio callback fills
  heard,     \* what is in a tap: "late", from a time without a sender, "other", of another format
  format,    \* ProgramAudioFormat
  engineRate,\* sample rate of the audio engine
  applies, restarts, failures,
  delayed,   \* history: audio from a time without a sender was sent
  wrong      \* history: blocks of another format a worker sent

applyVars == <<published, outputs, pc, wanted, rate, next, todo, taken>>
audioVars == <<taps, format, engineRate>>
sentVars == <<delayed, wrong>>
vars == <<applyVars, audioVars, worker, heard, applies, restarts, failures, sentVars>>

Request == [Dest -> Setting \cup {Off}]
Wanted(req) == {d \in Dest : req[d] # Off}

NoWorker == 2
Published == {w \in Worker : published[w[1]] = w[2]}
Upcoming == {w \in Worker : next[w[1]] = w[2]}
Live(w) == worker[w].phase # "gone"

Gone == [phase |-> "gone", running |-> FALSE, sender |-> FALSE, pending |-> FALSE, frame |-> FALSE,
         new |-> FALSE, expected |-> 0, setting |-> Off, rate |-> 0, status |-> "waiting"]

----------------------------------------------------------------------------
Init ==
  /\ published = [d \in Dest |-> NoWorker]
  /\ outputs = {}
  /\ pc = "idle"
  /\ wanted = [d \in Dest |-> Off]
  /\ rate = 0
  /\ next = [d \in Dest |-> NoWorker]
  /\ todo = {}
  /\ taken = {}
  /\ worker = [w \in Worker |-> Gone]
  /\ taps = {}
  /\ heard = [w \in Worker |-> {}]
  /\ engineRate \in Rate
  /\ format = [generation |-> 2, rate |-> engineRate]
  /\ applies = 0 /\ restarts = 0 /\ failures = 0
  /\ delayed = FALSE
  /\ wrong = [w \in Worker |-> 0]

----------------------------------------------------------------------------
\* An Apply.  Applies are one at a time (configure gate).

\* is_current_configuration: every published worker may stay, and they are
\* those asked for.  A worker that waits to try its transport again may stay.
Reusable(w) == worker[w].running /\ Live(w)
IsCurrent(req) ==
  /\ \A w \in Published : Reusable(w)
  /\ {w[1] : w \in Published} = Wanted(req)
  /\ \A w \in Published : worker[w].setting = req[w[1]] /\ worker[w].rate = engineRate

\* Too many destinations are refused before anything has changed.
WithinLimit(req) == Cardinality(Wanted(req)) <= MaxDestinations

\* The successors of the published workers, one for every destination asked for.
Successors(req) == [d \in Dest |-> IF req[d] = Off THEN NoWorker ELSE IF published[d] = 0 THEN 1 ELSE 0]
TapsOf(at) == {w \in Worker : at[w[1]] = w[2]}

\* Mutant: every Apply replaces the taps.
TapsAlwaysReplaced(req) == TapsOf(Successors(req))
\* replace_network_audio_taps, unless the workers stay.
TapsAfter(req) == IF IsCurrent(req) THEN taps ELSE TapsOf(Successors(req))

\* configure_outputs up to the replaced taps.  Where nothing is to change it
\* is no step.
Apply(req) ==
  /\ pc = "idle"
  /\ WithinLimit(req)
  /\ taps' = TapsAfter(req)
  /\ heard' = [w \in Worker |-> IF w \in taps' \ taps THEN {} ELSE heard[w]]
  /\ IF IsCurrent(req)
     THEN /\ outputs # Wanted(req)
          /\ pc' = "outputs" /\ wanted' = req
          /\ UNCHANGED <<rate, next, todo>>
     ELSE /\ pc' = "start" /\ wanted' = req
          /\ rate' = engineRate
          /\ next' = Successors(req)
          /\ todo' = Wanted(req)
  /\ UNCHANGED <<published, outputs, taken, worker, format, engineRate, sentVars>>

\* NetworkOutputEndpoint::start: the format expected is the one at this moment.
Start(d) ==
  /\ pc = "start"
  /\ d \in todo
  /\ todo' = todo \ {d}
  /\ worker' = [worker EXCEPT ![<<d, next[d]>>] =
       [Gone EXCEPT !.phase = "top", !.running = TRUE, !.expected = format.generation,
                    !.setting = wanted[d], !.rate = rate]]
  /\ UNCHANGED <<published, outputs, pc, wanted, rate, next, taken, audioVars, heard, sentVars>>

\* Mutant: the new workers are published before the old are stopped.
NoGap == next
\* What the compositors see while the old workers are stopped: nothing.
Gap == [d \in Dest |-> NoWorker]

\* Mutant: only the workers of destinations no longer wanted are stopped.
UnwantedOnly == {w \in Published : w[1] \notin Wanted(wanted)}
ToStop == Published

TakeOld ==
  /\ pc = "start" /\ todo = {}
  /\ pc' = "stop"
  /\ taken' = ToStop
  /\ published' = Gap
  /\ UNCHANGED <<outputs, wanted, rate, next, todo, worker, audioVars, heard, sentVars>>

\* NetworkOutputEndpoint::stop, one worker after the other; once joined, the
\* endpoint is dropped with its status and its tap.
Stop(w) ==
  /\ pc = "stop"
  /\ w \in taken /\ \A u \in taken : worker[u].running
  /\ worker' = [worker EXCEPT ![w] = [@ EXCEPT !.running = FALSE]]
  /\ UNCHANGED <<applyVars, audioVars, heard, sentVars>>

Join(w) ==
  /\ pc = "stop"
  /\ w \in taken /\ ~worker[w].running /\ ~Live(w)
  /\ taken' = taken \ {w}
  /\ worker' = [worker EXCEPT ![w] = Gone]
  /\ heard' = [heard EXCEPT ![w] = {}]
  /\ wrong' = [wrong EXCEPT ![w] = 0]
  /\ UNCHANGED <<published, outputs, pc, wanted, rate, next, todo, audioVars, delayed>>

PublishNew ==
  /\ pc = "stop" /\ taken = {}
  /\ pc' = "outputs"
  /\ published' = next
  /\ UNCHANGED <<outputs, wanted, rate, next, todo, taken, worker, audioVars, heard, sentVars>>

\* Locals of the Apply, which end with it.
Forgotten ==
  /\ wanted' = [d \in Dest |-> Off] /\ rate' = 0 /\ next' = [d \in Dest |-> NoWorker]

\* The rest of configure_outputs: compositors for what is new, and the end of
\* those no longer wanted.  Where a compositor cannot be created, none changes.
ChangeOutputs ==
  /\ pc = "outputs"
  /\ pc' = "idle"
  /\ \/ outputs' = Wanted(wanted)
     \/ Wanted(wanted) \ outputs # {} /\ UNCHANGED outputs
  /\ Forgotten
  /\ UNCHANGED <<published, todo, taken, worker, audioVars, heard, sentVars>>

ApplyStep ==
  \/ \E d \in Dest : Start(d)
  \/ \E w \in Worker : Stop(w) \/ Join(w)
  \/ TakeOld \/ PublishNew \/ ChangeOutputs

----------------------------------------------------------------------------
\* The worker: network_output_loop

Stale(w) == worker[w].expected # format.generation

\* Mutant: the format is looked at before a sender is opened, and not after.
NoticesUnopened(w) == Stale(w) /\ ~worker[w].sender
NoticesStale(w) == Stale(w)

\* Mutant: a worker told to stop first tries to get what it was given across.
LeavesWhenIdle(w) == ~worker[w].running /\ ~worker[w].frame
Leaves(w) == ~worker[w].running

\* A worker whose format is stale ends with an error; only an Apply replaces it.
Ended(r) == [r EXCEPT !.phase = "gone", !.sender = FALSE, !.status = "error"]

\* What a worker does next once it has seen whether a frame waits.
Seen(r) ==
  LET frame == r.frame \/ r.pending
  IN  [r EXCEPT !.new = r.pending, !.frame = frame, !.pending = FALSE,
                !.phase = IF r.sender THEN "audio" ELSE IF frame THEN "open" ELSE "top"]

Look(w) ==
  /\ worker[w].phase = "top"
  /\ worker' = [worker EXCEPT ![w] =
       IF Leaves(w) THEN [@ EXCEPT !.phase = "gone", !.sender = FALSE]
       ELSE IF NoticesStale(w) THEN Ended(@) ELSE Seen(@)]
  /\ UNCHANGED <<heard, failures, sentVars>>

\* Mutant: a worker gives up when its transport fails.
GivesUp(r) == [r EXCEPT !.phase = "gone", !.sender = FALSE, !.status = "error"]
\* The sender is dropped and tried again after a while, which a stop cuts short.
Failed(r) == [r EXCEPT !.phase = "backoff", !.sender = FALSE, !.status = "error"]

Fail(w) ==
  /\ failures < MaxFailures
  /\ failures' = failures + 1
  /\ worker' = [worker EXCEPT ![w] = Failed(@)]

\* Mutant: what was queued before there was a sender stays.
Kept(q) == q
\* discard_queued
Discarded(q) == {}

\* start_network_senders
Open(w) ==
  /\ worker[w].phase = "open"
  /\ \/ /\ worker' = [worker EXCEPT ![w] = [@ EXCEPT !.sender = TRUE, !.phase = "audio"]]
        /\ heard' = [heard EXCEPT ![w] = Discarded(@)]
        /\ UNCHANGED failures
     \/ Fail(w) /\ UNCHANGED heard
  /\ UNCHANGED sentVars

\* The health of the sender, then whatever its tap has.
Audio(w) ==
  /\ worker[w].phase = "audio"
  /\ \/ /\ worker' = [worker EXCEPT ![w] = [@ EXCEPT !.phase = IF worker[w].new THEN "send" ELSE "top"]]
        /\ heard' = [heard EXCEPT ![w] = {}]
        /\ delayed' = (delayed \/ "late" \in heard[w])
        /\ wrong' = [wrong EXCEPT ![w] = IF "other" \in heard[w] /\ @ < 2 THEN @ + 1 ELSE @]
        /\ UNCHANGED failures
     \/ /\ Fail(w)
        /\ heard' \in {heard, [heard EXCEPT ![w] = {}]}
        /\ UNCHANGED sentVars

Send(w) ==
  /\ worker[w].phase = "send"
  /\ \/ /\ worker' = [worker EXCEPT ![w] = [@ EXCEPT !.phase = "top", !.status = "streaming"]]
        /\ UNCHANGED failures
     \/ Fail(w)
  /\ UNCHANGED <<heard, sentVars>>

Backoff(w) ==
  /\ worker[w].phase = "backoff"
  /\ worker' = [worker EXCEPT ![w] = [@ EXCEPT !.phase = "top"]]
  /\ UNCHANGED <<heard, failures, sentVars>>

WorkerStep(w) == Look(w) \/ Open(w) \/ Audio(w) \/ Send(w) \/ Backoff(w)

----------------------------------------------------------------------------
\* The compositors, the audio callback and the audio engine

\* NetworkFrameSink::publish.  It may have looked the worker up just before
\* the old ones were taken.
Publish(w) ==
  /\ w[1] \in outputs
  /\ w \in Published \cup taken
  /\ worker[w].running
  /\ worker' = [worker EXCEPT ![w] = [@ EXCEPT !.pending = TRUE]]
  /\ UNCHANGED <<applyVars, audioVars, heard, sentVars>>

\* push_stereo for every tap.
AudioBlock ==
  /\ heard' = [w \in Worker |->
       IF w \notin taps THEN heard[w]
       ELSE heard[w] \cup (IF ~worker[w].sender THEN {"late"} ELSE {})
                     \cup (IF worker[w].sender /\ Stale(w) THEN {"other"} ELSE {})]
  /\ UNCHANGED <<applyVars, audioVars, worker, sentVars>>

\* update_for_restart: the generation is odd while the rate changes.
Renewed(g) == g + 2

\* restart: the format changes when the new stream is about to play, the rate
\* of the engine once it does, if it does.
RestartOpens(r) ==
  /\ format' = [generation |-> Renewed(format.generation), rate |-> r]
  /\ UNCHANGED <<applyVars, taps, engineRate, worker, heard, sentVars>>

RestartEnds ==
  /\ engineRate' = format.rate
  /\ UNCHANGED <<applyVars, taps, format, worker, heard, applies, restarts, failures, sentVars>>

----------------------------------------------------------------------------
Next ==
  \/ /\ applies < MaxApplies /\ applies' = applies + 1
     /\ \E req \in Request : Apply(req)
     /\ UNCHANGED <<restarts, failures>>
  \/ /\ restarts < MaxRestarts /\ restarts' = restarts + 1
     /\ \E r \in Rate : RestartOpens(r)
     /\ UNCHANGED <<applies, failures>>
  \/ /\ ApplyStep \/ AudioBlock \/ \E w \in Worker : Publish(w)
     /\ UNCHANGED <<applies, restarts, failures>>
  \/ \E w \in Worker : WorkerStep(w) /\ UNCHANGED <<applyVars, audioVars, applies, restarts>>
  \/ RestartEnds

Spec == Init /\ [][Next]_vars

\* Threads run, joins return, and while the programme plays every compositor
\* publishes.  Transports fail, but not for ever; restarts are not promised.
Fairness ==
  /\ WF_vars(ApplyStep /\ UNCHANGED <<applies, restarts, failures>>)
  /\ \A w \in Worker :
       /\ WF_vars(WorkerStep(w) /\ UNCHANGED <<applyVars, audioVars, applies, restarts>>)
       /\ WF_vars(Publish(w) /\ UNCHANGED <<applies, restarts, failures>>)

FairSpec == Spec /\ Fairness

----------------------------------------------------------------------------
\* Properties

\* A destination never has two senders open: receivers find one source under
\* one name, and a listening port is free when its successor asks for it
\* (stop_endpoints_before_publish).
OneSenderPerDestination ==
  \A d \in Dest : ~(worker[<<d, 0>>].sender /\ worker[<<d, 1>>].sender)

\* Between Applies the callback fills the tap of every published worker that
\* lives, however the last Apply ended: pictures never go out silent.
AudioIsFed == pc = "idle" => \A w \in Published : Live(w) => w \in taps

\* A thread that runs can be stopped: it is published, or the Apply has it.
WorkersAreOwned ==
  \A w \in Worker : Live(w) => w \in Published \cup taken \/ (pc \in {"start", "stop"} /\ w \in Upcoming)

\* Audio from a time without a sender is never sent late, in a burst.
NoDelayedBurst == ~delayed

\* A worker sends at most one block of a format its sender was not opened for:
\* the restart may come between its look at the format and the block.
OneStaleBlock == \A w \in Worker : wrong[w] <= 1

\* An Apply ends, whatever the workers it stops are doing.
ApplyEnds == []<>(pc = "idle")

\* A destination with a compositor streams again once its transport stops
\* failing, unless its format went stale, which takes an Apply.
DestinationsRecover ==
  \A d \in Dest : \A i \in {0, 1} :
    []<>(\/ published[d] # i \/ d \notin outputs
         \/ worker[<<d, i>>].status = "streaming"
         \/ ~Live(<<d, i>>) /\ Stale(<<d, i>>))

=============================================================================
