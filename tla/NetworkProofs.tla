---------------------------- MODULE NetworkProofs ----------------------------
(***************************************************************************)
(* For any number of destinations, settings, Applies, restarts and         *)
(* failures: the workers of a destination follow each other without        *)
(* overlap, are never lost, are fed, and send live audio of their own      *)
(* format, but for one block.  One invariant carries all of it; its centre *)
(* is that only a worker in sight of the compositors, or one just taken    *)
(* out of their sight, has ever been given a frame, and no other opens a   *)
(* sender.                                                                 *)
(***************************************************************************)
EXTENDS NetworkOutputs, TLAPS

WorkerRecord ==
  [phase : {"gone", "top", "open", "audio", "send", "backoff"}, running : BOOLEAN,
   sender : BOOLEAN, pending : BOOLEAN, frame : BOOLEAN, new : BOOLEAN, expected : Nat,
   setting : Setting \cup {Off}, rate : Rate \cup {0}, status : {"waiting", "streaming", "error"}]

\* The types the argument needs.
Types ==
  /\ published \in [Dest -> {0, 1, NoWorker}] /\ next \in [Dest -> {0, 1, NoWorker}]
  /\ todo \subseteq Dest /\ taken \subseteq Worker
  /\ pc \in {"idle", "start", "stop", "outputs"}
  /\ wanted \in Request /\ rate \in Rate \cup {0} /\ engineRate \in Rate
  /\ worker \in [Worker -> WorkerRecord]
  /\ heard \in [Worker -> SUBSET {"late", "other"}]
  /\ format \in [generation : Nat, rate : Rate]
  /\ delayed \in BOOLEAN /\ wrong \in [Worker -> Nat]

InSight == Published \cup taken

\* A worker nobody sees has neither frames nor a sender.
HiddenAreIdle ==
  \A w \in Worker \ InSight :
    /\ ~worker[w].sender /\ ~worker[w].frame /\ ~worker[w].pending
    /\ wrong[w] = 0 /\ "other" \notin heard[w]

\* What a worker has in each phase.
Phases ==
  \A w \in Worker :
    /\ worker[w].phase = "open" => worker[w].frame
    /\ worker[w].phase \in {"audio", "send"} => worker[w].sender
    /\ worker[w].phase = "gone" => ~worker[w].sender

\* The stages of an Apply: old and new workers are never in sight together.
Stages ==
  /\ pc # "stop" => taken = {}
  /\ pc = "stop" => Published = {} /\ todo = {}
  /\ pc \in {"start", "stop"} => Upcoming \cap InSight = {}
  /\ \A d \in Dest : ~(<<d, 0>> \in taken /\ <<d, 1>> \in taken)

\* Only workers that were taken are told to stop.
Running ==
  /\ \A w \in Published : worker[w].running
  /\ pc \in {"start", "stop"} => \A w \in Upcoming : w[1] \in todo \/ worker[w].running

\* Whose taps the callback fills.
Fed ==
  /\ pc \in {"idle", "outputs"} => Published \subseteq taps
  /\ pc \in {"start", "stop"} => Upcoming \subseteq taps

\* Audio that a sender finds in its tap is live.
Fresh == ~delayed /\ \A w \in Worker : worker[w].sender => "late" \notin heard[w]

\* A worker that has sent or got a block of another format is stale, and one
\* that has sent it does not come to its tap again.
Formats ==
  \A w \in Worker :
    /\ worker[w].expected <= format.generation
    /\ "other" \in heard[w] => Stale(w)
    /\ wrong[w] \in {0, 1}
    /\ wrong[w] = 1 => Stale(w) /\ worker[w].phase \notin {"open", "audio"}

IInv == /\ Types /\ HiddenAreIdle /\ Phases /\ Stages /\ Running /\ WorkersAreOwned /\ Fed
        /\ Fresh /\ Formats

LEMMA InitIInv == Init => IInv
<1> SUFFICES ASSUME Init PROVE IInv
  OBVIOUS
<1>1. Published = {} /\ InSight = {}
  BY DEF Init, InSight, Published, NoWorker, Worker
<1>2. Types
  BY DEF Init, Types, WorkerRecord, Gone, Request
<1>3. \A w \in Worker : worker[w] = Gone
  BY DEF Init
<1>4. HiddenAreIdle /\ Phases /\ WorkersAreOwned
  BY <1>3 DEF Init, HiddenAreIdle, Phases, WorkersAreOwned, Live, Gone
<1>5. Stages /\ Running /\ Fed
  BY <1>1 DEF Init, Stages, Running, Fed
<1>6. Fresh /\ Formats
  BY <1>3 DEF Init, Fresh, Formats, Gone, Stale
<1> QED
  BY <1>2, <1>4, <1>5, <1>6 DEF IInv

----------------------------------------------------------------------------
\* The worker: what its steps have in common.

LEMMA WorkerChange ==
  ASSUME IInv, NEW w \in Worker, NEW r \in WorkerRecord,
         worker' = [worker EXCEPT ![w] = r], UNCHANGED <<applyVars, audioVars>>, Live(w) \/ w \in InSight,
         r.expected = worker[w].expected, r.running = worker[w].running,
         r.phase = "open" => r.frame,
         r.phase \in {"audio", "send"} => r.sender,
         r.phase = "gone" => ~r.sender,
         w \notin InSight => ~r.sender /\ ~r.frame /\ ~r.pending,
         NEW q \in SUBSET heard[w], heard' = [heard EXCEPT ![w] = q], r.sender => "late" \notin q,
         NEW n \in {0, 1}, wrong' = [wrong EXCEPT ![w] = n], delayed' = FALSE,
         n = 1 => w \in InSight /\ Stale(w) /\ r.phase \notin {"open", "audio"}
  PROVE  IInv'
<1>1. Types'
  <2>1. worker' \in [Worker -> WorkerRecord]
    BY DEF IInv, Types
  <2>2. heard' \in [Worker -> SUBSET {"late", "other"}]
    BY DEF IInv, Types
  <2>3. wrong' \in [Worker -> Nat]
    <3>1. wrong \in [Worker -> Nat] /\ n \in Nat
      BY DEF IInv, Types
    <3> QED BY <3>1
  <2>4. delayed' \in BOOLEAN
    OBVIOUS
  <2> QED
    BY <2>1, <2>2, <2>3, <2>4 DEF IInv, Types, applyVars, audioVars
<1>2. InSight' = InSight /\ Published' = Published /\ Upcoming' = Upcoming
  BY DEF InSight, Published, Upcoming, applyVars
<1>3. HiddenAreIdle'
  BY <1>2 DEF IInv, Types, HiddenAreIdle
<1>4. Phases'
  BY DEF IInv, Types, Phases
<1>5. Stages'
  BY <1>2 DEF IInv, Stages, applyVars
<1>6. Running'
  BY <1>2 DEF IInv, Types, Running, applyVars
<1>7. WorkersAreOwned'
  <2>1. \A u \in Worker : Live(u)' => Live(u) \/ u \in InSight
    BY DEF IInv, Types, Live
  <2> QED
    BY <1>2, <2>1 DEF IInv, WorkersAreOwned, InSight, applyVars
<1>8. Fed'
  BY <1>2 DEF IInv, Fed, applyVars, audioVars
<1>9. Fresh'
  BY DEF IInv, Types, Fresh
<1>10. Formats'
  BY DEF IInv, Types, Formats, Stale, audioVars
<1> QED
  BY <1>1, <1>3, <1>4, <1>5, <1>6, <1>7, <1>8, <1>9, <1>10 DEF IInv

\* A worker that stays as it is with regard to its tap and its frames.
LEMMA LookStep == ASSUME IInv, NEW w \in Worker, Look(w), UNCHANGED <<applyVars, audioVars>>
                  PROVE  IInv'
<1> DEFINE r == IF Leaves(w) THEN [worker[w] EXCEPT !.phase = "gone", !.sender = FALSE]
                ELSE IF NoticesStale(w) THEN Ended(worker[w]) ELSE Seen(worker[w])
<1>1. worker[w] \in WorkerRecord /\ worker[w].phase = "top"
  BY DEF IInv, Types, Look
<1>2. /\ worker' = [worker EXCEPT ![w] = r] /\ heard' = [heard EXCEPT ![w] = heard[w]]
      /\ wrong' = [wrong EXCEPT ![w] = wrong[w]] /\ delayed' = FALSE
  BY DEF Look, IInv, Types, Fresh, sentVars
<1>3. /\ r \in WorkerRecord /\ r.expected = worker[w].expected /\ r.running = worker[w].running
      /\ r.phase = "open" => r.frame
      /\ r.phase \in {"audio", "send"} => r.sender
      /\ r.phase = "gone" => ~r.sender
      /\ r.sender => worker[w].sender
      /\ r.frame \/ r.pending => worker[w].frame \/ worker[w].pending
      /\ r.phase \in {"open", "audio"} => ~Stale(w)
  <2>1. CASE Leaves(w)
    <3>1. r = [worker[w] EXCEPT !.phase = "gone", !.sender = FALSE]
      BY <2>1
    <3> HIDE DEF r
    <3> QED BY <1>1, <3>1 DEF WorkerRecord
  <2>2. CASE ~Leaves(w) /\ NoticesStale(w)
    <3>1. r = Ended(worker[w])
      BY <2>2
    <3> HIDE DEF r
    <3> QED BY <1>1, <3>1 DEF WorkerRecord, Ended
  <2>3. CASE ~Leaves(w) /\ ~NoticesStale(w)
    <3>1. r = Seen(worker[w]) /\ ~Stale(w)
      BY <2>3 DEF NoticesStale
    <3> HIDE DEF r
    <3> QED BY <1>1, <3>1 DEF WorkerRecord, Seen
  <2> QED BY <2>1, <2>2, <2>3
<1>4. w \notin InSight => ~r.sender /\ ~r.frame /\ ~r.pending /\ wrong[w] = 0
  BY <1>3 DEF IInv, HiddenAreIdle
<1>5. wrong[w] \in {0, 1} /\ (wrong[w] = 1 => w \in InSight /\ Stale(w) /\ r.phase \notin {"open", "audio"})
  BY <1>3, <1>4 DEF IInv, Formats
<1>6. r.sender => "late" \notin heard[w]
  BY <1>3 DEF IInv, Fresh
<1>7. heard[w] \in SUBSET heard[w] /\ Live(w)
  BY <1>1 DEF Live
<1> HIDE DEF r
<1> QED
  BY <1>1, <1>2, <1>3, <1>4, <1>5, <1>6, <1>7, WorkerChange

\* A transport that failed: the worker has no sender any more.
LEMMA FailStep ==
  ASSUME IInv, NEW w \in Worker, Fail(w), UNCHANGED <<applyVars, audioVars, sentVars>>,
         Live(w), heard' \in {heard, [heard EXCEPT ![w] = {}]}
  PROVE  IInv'
<1> DEFINE r == Failed(worker[w])
<1>1. worker[w] \in WorkerRecord
  BY DEF IInv, Types
<1>2. /\ worker' = [worker EXCEPT ![w] = r]
      /\ wrong' = [wrong EXCEPT ![w] = wrong[w]] /\ delayed' = FALSE
  BY DEF Fail, IInv, Types, Fresh, sentVars
<1>3. PICK q \in SUBSET heard[w] : heard' = [heard EXCEPT ![w] = q]
  BY DEF IInv, Types
<1>4. /\ r \in WorkerRecord /\ r.expected = worker[w].expected /\ r.running = worker[w].running
      /\ r.phase = "backoff" /\ ~r.sender
      /\ r.frame = worker[w].frame /\ r.pending = worker[w].pending
  BY <1>1 DEF WorkerRecord, Failed
<1>5. w \notin InSight => ~r.sender /\ ~r.frame /\ ~r.pending /\ wrong[w] = 0
  BY <1>4 DEF IInv, HiddenAreIdle
<1>6. wrong[w] \in {0, 1} /\ (wrong[w] = 1 => w \in InSight /\ Stale(w))
  BY <1>5 DEF IInv, Formats
<1> HIDE DEF r
<1> QED
  BY <1>2, <1>3, <1>4, <1>5, <1>6, WorkerChange

LEMMA OpenStep == ASSUME IInv, NEW w \in Worker, Open(w), UNCHANGED <<applyVars, audioVars>>
                  PROVE  IInv'
<1>1. worker[w] \in WorkerRecord /\ worker[w].phase = "open" /\ worker[w].frame /\ Live(w)
  BY DEF IInv, Types, Phases, Open, Live
<1>2. CASE Fail(w) /\ UNCHANGED heard
  BY <1>1, <1>2, FailStep DEF Open
<1>3. CASE worker' = [worker EXCEPT ![w] = [@ EXCEPT !.sender = TRUE, !.phase = "audio"]]
           /\ heard' = [heard EXCEPT ![w] = Discarded(@)]
  <2> DEFINE r == [worker[w] EXCEPT !.sender = TRUE, !.phase = "audio"]
  <2>1. /\ worker' = [worker EXCEPT ![w] = r] /\ heard' = [heard EXCEPT ![w] = {}]
        /\ wrong' = [wrong EXCEPT ![w] = 0] /\ delayed' = FALSE
    <3>1. wrong[w] = 0
      BY <1>1 DEF IInv, Types, Formats
    <3> QED BY <1>3, <3>1 DEF Open, IInv, Types, Fresh, sentVars, Discarded
  <2>2. /\ r \in WorkerRecord /\ r.expected = worker[w].expected /\ r.running = worker[w].running
        /\ r.phase = "audio" /\ r.sender
    BY <1>1 DEF WorkerRecord
  <2>3. w \in InSight
    BY <1>1 DEF IInv, HiddenAreIdle
  <2>4. PICK q \in SUBSET heard[w] : heard' = [heard EXCEPT ![w] = q] /\ "late" \notin q
    BY <2>1
  <2>5. PICK n \in {0, 1} : wrong' = [wrong EXCEPT ![w] = n] /\ n # 1
    BY <2>1
  <2> HIDE DEF r
  <2> QED
    BY <1>1, <2>1, <2>2, <2>3, <2>4, <2>5, WorkerChange
<1> QED
  BY <1>2, <1>3 DEF Open

LEMMA AudioStep == ASSUME IInv, NEW w \in Worker, Audio(w), UNCHANGED <<applyVars, audioVars>>
                   PROVE  IInv'
<1>1. /\ worker[w] \in WorkerRecord /\ worker[w].phase = "audio" /\ worker[w].sender /\ Live(w)
      /\ wrong[w] = 0 /\ "late" \notin heard[w] /\ w \in InSight
      /\ "other" \in heard[w] => Stale(w)
  BY DEF IInv, Types, Phases, Audio, Live, Fresh, Formats, HiddenAreIdle
<1>2. CASE Fail(w) /\ heard' \in {heard, [heard EXCEPT ![w] = {}]} /\ UNCHANGED sentVars
  BY <1>1, <1>2, FailStep
<1>3. CASE /\ worker' = [worker EXCEPT ![w] = [@ EXCEPT !.phase = IF worker[w].new THEN "send" ELSE "top"]]
           /\ heard' = [heard EXCEPT ![w] = {}]
           /\ delayed' = (delayed \/ "late" \in heard[w])
           /\ wrong' = [wrong EXCEPT ![w] = IF "other" \in heard[w] /\ @ < 2 THEN @ + 1 ELSE @]
  <2> DEFINE r == [worker[w] EXCEPT !.phase = IF worker[w].new THEN "send" ELSE "top"]
             n == IF "other" \in heard[w] THEN 1 ELSE 0
  <2>1. /\ worker' = [worker EXCEPT ![w] = r]
        /\ wrong' = [wrong EXCEPT ![w] = n] /\ delayed' = FALSE
    BY <1>1, <1>3 DEF IInv, Types, Fresh
  <2>2. /\ r \in WorkerRecord /\ r.expected = worker[w].expected /\ r.running = worker[w].running
        /\ r.phase \in {"send", "top"} /\ r.sender
    BY <1>1 DEF WorkerRecord
  <2>3. n \in {0, 1} /\ (n = 1 => Stale(w))
    BY <1>1
  <2>4. PICK q \in SUBSET heard[w] : heard' = [heard EXCEPT ![w] = q] /\ "late" \notin q
    BY <1>3
  <2> HIDE DEF r, n
  <2> QED
    BY <1>1, <2>1, <2>2, <2>3, <2>4, WorkerChange
<1> QED
  BY <1>2, <1>3 DEF Audio

LEMMA SendStep == ASSUME IInv, NEW w \in Worker, Send(w), UNCHANGED <<applyVars, audioVars>>
                  PROVE  IInv'
<1>1. /\ worker[w] \in WorkerRecord /\ worker[w].phase = "send" /\ worker[w].sender /\ Live(w)
      /\ wrong[w] \in {0, 1} /\ "late" \notin heard[w] /\ w \in InSight
      /\ wrong[w] = 1 => Stale(w)
  BY DEF IInv, Types, Phases, Send, Live, Fresh, Formats, HiddenAreIdle
<1>2. CASE Fail(w)
  BY <1>1, <1>2, FailStep DEF Send
<1>3. CASE worker' = [worker EXCEPT ![w] = [@ EXCEPT !.phase = "top", !.status = "streaming"]]
  <2> DEFINE r == [worker[w] EXCEPT !.phase = "top", !.status = "streaming"]
  <2>1. /\ worker' = [worker EXCEPT ![w] = r] /\ heard' = [heard EXCEPT ![w] = heard[w]]
        /\ wrong' = [wrong EXCEPT ![w] = wrong[w]] /\ delayed' = FALSE
    BY <1>3 DEF Send, IInv, Types, Fresh, sentVars
  <2>2. /\ r \in WorkerRecord /\ r.expected = worker[w].expected /\ r.running = worker[w].running
        /\ r.phase = "top" /\ r.sender
    BY <1>1 DEF WorkerRecord
  <2> HIDE DEF r
  <2> QED
    BY <1>1, <2>1, <2>2, WorkerChange
<1> QED
  BY <1>2, <1>3 DEF Send

LEMMA BackoffStep == ASSUME IInv, NEW w \in Worker, Backoff(w), UNCHANGED <<applyVars, audioVars>>
                     PROVE  IInv'
<1> DEFINE r == [worker[w] EXCEPT !.phase = "top"]
<1>1. /\ worker[w] \in WorkerRecord /\ worker[w].phase = "backoff" /\ Live(w)
      /\ worker[w].sender => "late" \notin heard[w]
      /\ wrong[w] \in {0, 1} /\ (wrong[w] = 1 => Stale(w) /\ w \in InSight)
      /\ w \notin InSight => ~worker[w].sender /\ ~worker[w].frame /\ ~worker[w].pending
  BY DEF IInv, Types, Phases, Backoff, Live, Fresh, Formats, HiddenAreIdle
<1>2. /\ worker' = [worker EXCEPT ![w] = r] /\ heard' = [heard EXCEPT ![w] = heard[w]]
      /\ wrong' = [wrong EXCEPT ![w] = wrong[w]] /\ delayed' = FALSE
  BY DEF Backoff, IInv, Types, Fresh, sentVars
<1>3. /\ r \in WorkerRecord /\ r.expected = worker[w].expected /\ r.running = worker[w].running
      /\ r.phase = "top" /\ r.sender = worker[w].sender
      /\ r.frame = worker[w].frame /\ r.pending = worker[w].pending
  BY <1>1 DEF WorkerRecord
<1> HIDE DEF r
<1> QED
  BY <1>1, <1>2, <1>3, WorkerChange

LEMMA WorkerSteps ==
  ASSUME IInv, NEW w \in Worker, WorkerStep(w), UNCHANGED <<applyVars, audioVars>>
  PROVE  IInv'
  BY LookStep, OpenStep, AudioStep, SendStep, BackoffStep DEF WorkerStep

----------------------------------------------------------------------------
\* The compositors, the audio callback and the audio engine.

LEMMA PublishStep == ASSUME IInv, NEW w \in Worker, Publish(w) PROVE IInv'
<1> DEFINE r == [worker[w] EXCEPT !.pending = TRUE]
<1>1. /\ worker[w] \in WorkerRecord /\ w \in InSight
      /\ worker[w].sender => "late" \notin heard[w]
      /\ wrong[w] \in {0, 1} /\ (wrong[w] = 1 => Stale(w) /\ worker[w].phase \notin {"open", "audio"})
      /\ worker[w].phase = "open" => worker[w].frame
      /\ worker[w].phase \in {"audio", "send"} => worker[w].sender
      /\ worker[w].phase = "gone" => ~worker[w].sender
  BY DEF IInv, Types, Phases, Publish, Fresh, Formats, InSight
<1>2. /\ worker' = [worker EXCEPT ![w] = r] /\ heard' = [heard EXCEPT ![w] = heard[w]]
      /\ wrong' = [wrong EXCEPT ![w] = wrong[w]] /\ delayed' = FALSE
  BY DEF Publish, IInv, Types, Fresh, sentVars
<1>3. /\ r \in WorkerRecord /\ r.expected = worker[w].expected /\ r.running = worker[w].running
      /\ r.phase = worker[w].phase /\ r.sender = worker[w].sender
      /\ r.frame = worker[w].frame
  BY <1>1 DEF WorkerRecord
<1>4. UNCHANGED <<applyVars, audioVars>>
  BY DEF Publish
<1> HIDE DEF r
<1> QED
  BY <1>1, <1>2, <1>3, <1>4, WorkerChange

LEMMA AudioBlockStep == ASSUME IInv, AudioBlock PROVE IInv'
<1>1. /\ UNCHANGED <<published, next, todo, taken, pc, wanted, rate, engineRate, worker, format,
                     taps, delayed, wrong>>
      /\ InSight' = InSight /\ Published' = Published /\ Upcoming' = Upcoming
  BY DEF AudioBlock, applyVars, audioVars, sentVars, InSight, Published, Upcoming
<1>2. \A w \in Worker :
        /\ heard'[w] \subseteq heard[w] \cup {"late", "other"}
        /\ "late" \in heard'[w] => "late" \in heard[w] \/ ~worker[w].sender
        /\ "other" \in heard'[w] => "other" \in heard[w] \/ (worker[w].sender /\ Stale(w))
  BY DEF AudioBlock
<1>3. heard' \in [Worker -> SUBSET {"late", "other"}]
  BY DEF AudioBlock, IInv, Types
<1>4. Types'
  BY <1>1, <1>3 DEF IInv, Types
<1>5. HiddenAreIdle'
  BY <1>1, <1>2 DEF IInv, HiddenAreIdle
<1>6. Phases' /\ Stages' /\ Running' /\ WorkersAreOwned' /\ Fed'
  BY <1>1 DEF IInv, Phases, Stages, Running, WorkersAreOwned, Fed, Live
<1>7. Fresh'
  BY <1>1, <1>2 DEF IInv, Fresh
<1>8. Formats'
  BY <1>1, <1>2 DEF IInv, Formats, Stale
<1> QED
  BY <1>4, <1>5, <1>6, <1>7, <1>8 DEF IInv

\* Every worker's format is older than the new one.
LEMMA RestartOpensStep == ASSUME IInv, NEW r \in Rate, RestartOpens(r) PROVE IInv'
<1>1. /\ UNCHANGED <<published, next, todo, taken, pc, wanted, rate, engineRate, worker, heard,
                     taps, delayed, wrong>>
      /\ InSight' = InSight /\ Published' = Published /\ Upcoming' = Upcoming
  BY DEF RestartOpens, applyVars, sentVars, InSight, Published, Upcoming
<1>2. /\ format.generation \in Nat /\ format'.generation = format.generation + 2
      /\ format' \in [generation : Nat, rate : Rate]
  BY DEF RestartOpens, Renewed, IInv, Types
<1>3. Types'
  BY <1>1, <1>2 DEF IInv, Types
<1>4. HiddenAreIdle' /\ Phases' /\ Stages' /\ Running' /\ WorkersAreOwned' /\ Fed' /\ Fresh'
  BY <1>1 DEF IInv, HiddenAreIdle, Phases, Stages, Running, WorkersAreOwned, Fed, Fresh, Live
<1>5. Formats'
  <2>1. \A w \in Worker : worker[w].expected \in Nat
    BY DEF IInv, Types, WorkerRecord
  <2> QED
    BY <1>1, <1>2, <2>1 DEF IInv, Formats, Stale
<1> QED
  BY <1>3, <1>4, <1>5 DEF IInv

LEMMA RestartEndsStep == ASSUME IInv, RestartEnds PROVE IInv'
<1>1. /\ UNCHANGED <<published, next, todo, taken, pc, wanted, rate, worker, heard, format,
                     taps, delayed, wrong>>
      /\ InSight' = InSight /\ Published' = Published /\ Upcoming' = Upcoming
  BY DEF RestartEnds, applyVars, sentVars, InSight, Published, Upcoming
<1>2. engineRate' \in Rate
  BY DEF RestartEnds, IInv, Types
<1>3. Types'
  BY <1>1, <1>2 DEF IInv, Types
<1>4. HiddenAreIdle' /\ Phases' /\ Stages' /\ Running' /\ WorkersAreOwned' /\ Fed' /\ Fresh' /\ Formats'
  BY <1>1 DEF IInv, HiddenAreIdle, Phases, Stages, Running, WorkersAreOwned, Fed, Fresh, Formats,
              Live, Stale
<1> QED
  BY <1>3, <1>4 DEF IInv

----------------------------------------------------------------------------
\* The Apply.

\* The successors are of the destinations asked for, and none is published.
LEMMA SuccessorsFresh ==
  ASSUME IInv, NEW req \in Request
  PROVE  /\ Successors(req) \in [Dest -> {0, 1, NoWorker}]
         /\ TapsOf(Successors(req)) \cap Published = {}
         /\ \A w \in TapsOf(Successors(req)) : w[1] \in Wanted(req)
<1>1. Successors(req) \in [Dest -> {0, 1, NoWorker}]
  BY DEF Successors, NoWorker
<1>2. ASSUME NEW w \in Worker, Successors(req)[w[1]] = w[2]
      PROVE  published[w[1]] # w[2] /\ w[1] \in Wanted(req)
  <2>1. w[1] \in Dest /\ w[2] \in {0, 1} /\ published[w[1]] \in {0, 1, NoWorker}
    BY DEF Worker, IInv, Types
  <2> QED
    BY <1>2, <2>1 DEF Successors, Wanted, NoWorker
<1> QED
  BY <1>1, <1>2 DEF TapsOf, Published

LEMMA ApplyBegins == ASSUME IInv, NEW req \in Request, Apply(req) PROVE IInv'
<1>1. /\ pc = "idle" /\ taken = {} /\ UNCHANGED <<published, taken, worker, format, engineRate, delayed, wrong>>
      /\ Published' = Published /\ InSight' = InSight
  BY DEF Apply, IInv, Stages, sentVars, Published, InSight
<1>2. heard' \in [Worker -> SUBSET {"late", "other"}] /\ \A w \in Worker : heard'[w] \subseteq heard[w]
  BY DEF Apply, IInv, Types
<1>3. HiddenAreIdle' /\ Phases' /\ Fresh' /\ Formats'
  BY <1>1, <1>2 DEF IInv, HiddenAreIdle, Phases, Fresh, Formats, Stale
<1>4. \A w \in Worker : Live(w) => w \in InSight
  BY <1>1 DEF IInv, WorkersAreOwned, InSight
<1>5. WorkersAreOwned'
  BY <1>1, <1>4 DEF WorkersAreOwned, InSight, Live
<1>6. CASE IsCurrent(req)
  <2>1. pc' = "outputs" /\ wanted' = req /\ UNCHANGED <<rate, next, todo, taps>>
    BY <1>6 DEF Apply, TapsAfter
  <2>2. Types'
    BY <1>1, <1>2, <2>1 DEF IInv, Types
  <2>3. Stages' /\ Running' /\ Fed'
    BY <1>1, <2>1 DEF IInv, Stages, Running, Fed
  <2> QED
    BY <1>3, <1>5, <2>2, <2>3 DEF IInv
<1>7. CASE ~IsCurrent(req)
  <2>1. /\ pc' = "start" /\ wanted' = req /\ rate' = engineRate /\ next' = Successors(req)
        /\ todo' = Wanted(req) /\ taps' = TapsOf(Successors(req))
        /\ Upcoming' = TapsOf(Successors(req))
    BY <1>7 DEF Apply, TapsAfter, TapsOf, Upcoming
  <2>2. Types'
    <3>1. next' \in [Dest -> {0, 1, NoWorker}] /\ todo' \subseteq Dest /\ rate' \in Rate \cup {0}
      BY <2>1, SuccessorsFresh DEF Wanted, IInv, Types
    <3> QED
      BY <1>1, <1>2, <2>1, <3>1 DEF IInv, Types
  <2>3. Stages' /\ Running' /\ Fed'
    <3>1. Upcoming' \cap Published = {} /\ \A w \in Upcoming' : w[1] \in todo'
      BY <2>1, SuccessorsFresh
    <3> QED
      BY <1>1, <2>1, <3>1 DEF IInv, Stages, Running, Fed, InSight
  <2> QED
    BY <1>3, <1>5, <2>2, <2>3 DEF IInv
<1> QED
  BY <1>6, <1>7

LEMMA StartStep == ASSUME IInv, NEW d \in Dest, Start(d) PROVE IInv'
<1> DEFINE u == <<d, next[d]>>
           r == [Gone EXCEPT !.phase = "top", !.running = TRUE, !.expected = format.generation,
                             !.setting = wanted[d], !.rate = rate]
<1>1. /\ pc = "start" /\ d \in todo /\ todo' = todo \ {d} /\ worker' = [worker EXCEPT ![u] = r]
      /\ UNCHANGED <<published, pc, wanted, rate, next, taken, engineRate, format, taps, heard,
                     delayed, wrong>>
      /\ Published' = Published /\ InSight' = InSight /\ Upcoming' = Upcoming
  BY DEF Start, audioVars, sentVars, Published, InSight, Upcoming
<1>2. /\ r \in WorkerRecord /\ ~r.sender /\ ~r.frame /\ ~r.pending /\ r.phase = "top" /\ r.running
      /\ r.expected = format.generation
  <2>1. format.generation \in Nat /\ wanted[d] \in Setting \cup {Off} /\ rate \in Rate \cup {0}
    BY DEF IInv, Types, Request
  <2> QED
    BY <2>1 DEF WorkerRecord, Gone
<1>3. u \in Worker => u \in Upcoming /\ u \notin InSight /\ wrong[u] = 0 /\ "other" \notin heard[u]
  BY <1>1 DEF Upcoming, IInv, Stages, HiddenAreIdle
<1>4. \A w \in Worker : worker'[w] = IF w = u THEN r ELSE worker[w]
  BY <1>1 DEF IInv, Types
<1>5. \A w \in Upcoming : w[1] = d => w = u
  BY DEF Upcoming, Worker
<1> HIDE DEF u, r
<1>6. Types'
  <2>1. worker' \in [Worker -> WorkerRecord]
    BY <1>1, <1>2 DEF IInv, Types
  <2> QED
    BY <1>1, <2>1 DEF IInv, Types
<1>7. HiddenAreIdle'
  BY <1>1, <1>2, <1>3, <1>4 DEF IInv, HiddenAreIdle
<1>8. Phases'
  BY <1>2, <1>4 DEF IInv, Phases
<1>9. Stages' /\ Fed'
  BY <1>1 DEF IInv, Stages, Fed
<1>10. Running'
  BY <1>1, <1>2, <1>4, <1>5 DEF IInv, Running, Published, Upcoming
<1>11. WorkersAreOwned'
  BY <1>1, <1>3, <1>4 DEF IInv, WorkersAreOwned, Live
<1>12. Fresh'
  BY <1>1, <1>2, <1>4 DEF IInv, Fresh
<1>13. Formats'
  <2>1. \A w \in Worker : w # u => worker'[w] = worker[w] /\ (Stale(w)' <=> Stale(w))
    BY <1>1, <1>4 DEF Stale
  <2>2. format.generation \in Nat
    BY DEF IInv, Types
  <2> QED
    BY <1>1, <1>2, <1>3, <1>4, <2>1, <2>2 DEF IInv, Formats
<1> QED
  BY <1>6, <1>7, <1>8, <1>9, <1>10, <1>11, <1>12, <1>13 DEF IInv

\* From here no worker is published until the old ones are joined.
LEMMA TakeOldStep == ASSUME IInv, TakeOld PROVE IInv'
<1>1. /\ pc = "start" /\ todo = {} /\ pc' = "stop" /\ taken = {} /\ taken' = Published
      /\ UNCHANGED <<wanted, rate, next, todo, worker, engineRate, format, taps, heard, delayed, wrong>>
      /\ published' = [d \in Dest |-> NoWorker] /\ Upcoming' = Upcoming
  BY DEF TakeOld, ToStop, Gap, audioVars, sentVars, IInv, Stages, Upcoming
<1>2. Published' = {}
  BY <1>1 DEF Published, Worker, NoWorker
<1>3. InSight' = InSight
  BY <1>1, <1>2 DEF InSight
<1>4. Types'
  BY <1>1 DEF IInv, Types, Published
<1>5. HiddenAreIdle' /\ Phases' /\ Fresh' /\ Formats'
  BY <1>1, <1>3 DEF IInv, HiddenAreIdle, Phases, Fresh, Formats, Stale
<1>6. Stages'
  <2>1. \A d \in Dest : ~(<<d, 0>> \in Published /\ <<d, 1>> \in Published)
    BY DEF Published
  <2> QED
    BY <1>1, <1>2, <1>3, <2>1 DEF IInv, Stages
<1>7. Running' /\ Fed'
  BY <1>1, <1>2 DEF IInv, Running, Fed
<1>8. WorkersAreOwned'
  BY <1>1, <1>3 DEF IInv, WorkersAreOwned, InSight, Live
<1> QED
  BY <1>4, <1>5, <1>6, <1>7, <1>8 DEF IInv

LEMMA StopStep == ASSUME IInv, NEW w \in Worker, Stop(w) PROVE IInv'
<1> DEFINE r == [worker[w] EXCEPT !.running = FALSE]
<1>1. /\ pc = "stop" /\ w \in taken /\ worker' = [worker EXCEPT ![w] = r]
      /\ UNCHANGED <<published, pc, wanted, rate, next, todo, taken, engineRate, format, taps, heard,
                     delayed, wrong>>
      /\ Published' = Published /\ InSight' = InSight /\ Upcoming' = Upcoming
  BY DEF Stop, applyVars, audioVars, sentVars, Published, InSight, Upcoming
<1>2. /\ r \in WorkerRecord /\ ~r.running /\ r.phase = worker[w].phase /\ r.sender = worker[w].sender
      /\ r.frame = worker[w].frame /\ r.expected = worker[w].expected
  <2>1. worker[w] \in WorkerRecord
    BY DEF IInv, Types
  <2> QED
    BY <2>1 DEF WorkerRecord
<1>3. \A v \in Worker : worker'[v] = IF v = w THEN r ELSE worker[v]
  BY <1>1 DEF IInv, Types
<1>4. w \in InSight /\ w \notin Upcoming /\ Published = {}
  BY <1>1 DEF InSight, IInv, Stages
<1> HIDE DEF r
<1>5. Types'
  <2>1. worker' \in [Worker -> WorkerRecord]
    BY <1>1, <1>2 DEF IInv, Types
  <2> QED
    BY <1>1, <2>1 DEF IInv, Types
<1>6. HiddenAreIdle'
  BY <1>1, <1>3, <1>4 DEF IInv, HiddenAreIdle
<1>7. Phases'
  BY <1>2, <1>3 DEF IInv, Phases
<1>8. Stages' /\ Fed'
  BY <1>1 DEF IInv, Stages, Fed
<1>9. Running' /\ WorkersAreOwned'
  BY <1>1, <1>2, <1>3, <1>4 DEF IInv, Running, WorkersAreOwned, Live, Upcoming
<1>10. Fresh'
  BY <1>1, <1>2, <1>3 DEF IInv, Fresh
<1>11. Formats'
  BY <1>1, <1>2, <1>3 DEF IInv, Formats, Stale
<1> QED
  BY <1>5, <1>6, <1>7, <1>8, <1>9, <1>10, <1>11 DEF IInv

LEMMA JoinStep == ASSUME IInv, NEW w \in Worker, Join(w) PROVE IInv'
<1>1. /\ pc = "stop" /\ w \in taken /\ ~Live(w) /\ taken' = taken \ {w}
      /\ worker' = [worker EXCEPT ![w] = Gone] /\ heard' = [heard EXCEPT ![w] = {}]
      /\ wrong' = [wrong EXCEPT ![w] = 0]
      /\ UNCHANGED <<published, pc, wanted, rate, next, todo, engineRate, format, taps, delayed>>
      /\ Published' = Published /\ Upcoming' = Upcoming
  BY DEF Join, audioVars, Published, Upcoming
<1>2. InSight \subseteq InSight' \cup {w} /\ InSight' \subseteq InSight /\ w \notin Upcoming
      /\ Published = {}
  BY <1>1 DEF InSight, IInv, Stages
<1>3. \A v \in Worker : /\ v # w => /\ worker'[v] = worker[v] /\ heard'[v] = heard[v]
                                    /\ wrong'[v] = wrong[v] /\ (Stale(v)' <=> Stale(v))
                        /\ v = w => worker'[v] = Gone /\ heard'[v] = {} /\ wrong'[v] = 0
  BY <1>1 DEF IInv, Types, Stale
<1>4. /\ Gone \in WorkerRecord /\ ~Gone.sender /\ ~Gone.frame /\ ~Gone.pending /\ Gone.phase = "gone"
      /\ Gone.expected = 0
  BY DEF WorkerRecord, Gone
<1> HIDE DEF Gone
<1>5. Types'
  <2>1. worker' \in [Worker -> WorkerRecord]
    BY <1>1, <1>4 DEF IInv, Types
  <2>2. heard' \in [Worker -> SUBSET {"late", "other"}] /\ wrong' \in [Worker -> Nat]
    BY <1>1 DEF IInv, Types
  <2> QED
    BY <1>1, <2>1, <2>2 DEF IInv, Types
<1>6. HiddenAreIdle'
  BY <1>2, <1>3, <1>4 DEF IInv, HiddenAreIdle
<1>7. Phases'
  BY <1>3, <1>4 DEF IInv, Phases
<1>8. Stages' /\ Fed'
  BY <1>1, <1>2 DEF IInv, Stages, Fed
<1>9. Running'
  BY <1>1, <1>2, <1>3 DEF IInv, Running, Upcoming
<1>10. WorkersAreOwned'
  BY <1>1, <1>3, <1>4 DEF IInv, WorkersAreOwned, Live
<1>11. Fresh'
  BY <1>1, <1>3, <1>4 DEF IInv, Fresh
<1>12. Formats'
  <2>1. format.generation \in Nat
    BY DEF IInv, Types
  <2> QED
    BY <1>1, <1>3, <1>4, <2>1 DEF IInv, Formats
<1> QED
  BY <1>5, <1>6, <1>7, <1>8, <1>9, <1>10, <1>11, <1>12 DEF IInv

LEMMA PublishNewStep == ASSUME IInv, PublishNew PROVE IInv'
<1>1. /\ pc = "stop" /\ taken = {} /\ pc' = "outputs" /\ published' = next /\ todo = {}
      /\ UNCHANGED <<wanted, rate, next, todo, taken, worker, engineRate, format, taps, heard,
                     delayed, wrong>>
      /\ Published' = Upcoming /\ Published = {}
  BY DEF PublishNew, audioVars, sentVars, IInv, Stages, Published, Upcoming
<1>2. InSight = {} /\ InSight' = Upcoming
  BY <1>1 DEF InSight
<1>3. Types'
  BY <1>1 DEF IInv, Types
<1>4. HiddenAreIdle' /\ Phases' /\ Fresh' /\ Formats'
  BY <1>1, <1>2 DEF IInv, HiddenAreIdle, Phases, Fresh, Formats, Stale
<1>5. Stages' /\ Fed'
  BY <1>1 DEF IInv, Stages, Fed
<1>6. Running'
  BY <1>1 DEF IInv, Running
<1>7. WorkersAreOwned'
  BY <1>1 DEF IInv, WorkersAreOwned, Live
<1> QED
  BY <1>3, <1>4, <1>5, <1>6, <1>7 DEF IInv

LEMMA ChangeOutputsStep == ASSUME IInv, ChangeOutputs PROVE IInv'
<1>1. /\ pc = "outputs" /\ pc' = "idle" /\ wanted' = [d \in Dest |-> Off] /\ rate' = 0
      /\ next' = [d \in Dest |-> NoWorker]
      /\ UNCHANGED <<published, todo, taken, worker, engineRate, format, taps, heard, delayed, wrong>>
      /\ Published' = Published /\ InSight' = InSight
  BY DEF ChangeOutputs, Forgotten, audioVars, sentVars, Published, InSight
<1>2. Types'
  BY <1>1 DEF IInv, Types, Request
<1>3. HiddenAreIdle' /\ Phases' /\ Fresh' /\ Formats'
  BY <1>1 DEF IInv, HiddenAreIdle, Phases, Fresh, Formats, Stale
<1>4. Stages' /\ Running' /\ Fed'
  BY <1>1 DEF IInv, Stages, Running, Fed
<1>5. WorkersAreOwned'
  BY <1>1 DEF IInv, WorkersAreOwned, Live
<1> QED
  BY <1>2, <1>3, <1>4, <1>5 DEF IInv

----------------------------------------------------------------------------
LEMMA StutterStep == ASSUME IInv, UNCHANGED vars PROVE IInv'
<1>1. /\ UNCHANGED <<published, next, todo, taken, pc, wanted, rate, engineRate, worker, heard,
                     format, taps, delayed, wrong>>
      /\ InSight' = InSight /\ Published' = Published /\ Upcoming' = Upcoming
  BY DEF vars, applyVars, audioVars, sentVars, InSight, Published, Upcoming
<1>2. Types' /\ HiddenAreIdle' /\ Phases' /\ Stages'
  BY <1>1 DEF IInv, Types, HiddenAreIdle, Phases, Stages
<1>3. Running' /\ WorkersAreOwned' /\ Fed' /\ Fresh' /\ Formats'
  BY <1>1 DEF IInv, Running, WorkersAreOwned, Fed, Fresh, Formats, Live, Stale
<1> QED
  BY <1>2, <1>3 DEF IInv

LEMMA NextStep == ASSUME IInv, [Next]_vars PROVE IInv'
<1>1. CASE UNCHANGED vars
  BY <1>1, StutterStep
<1>2. CASE \E req \in Request : Apply(req)
  BY <1>2, ApplyBegins
<1>3. CASE \E r \in Rate : RestartOpens(r)
  BY <1>3, RestartOpensStep
<1>4. CASE ApplyStep
  BY <1>4, StartStep, StopStep, JoinStep, TakeOldStep, PublishNewStep, ChangeOutputsStep DEF ApplyStep
<1>5. CASE AudioBlock \/ \E w \in Worker : Publish(w)
  BY <1>5, AudioBlockStep, PublishStep
<1>6. CASE \E w \in Worker : WorkerStep(w) /\ UNCHANGED <<applyVars, audioVars, applies, restarts>>
  BY <1>6, WorkerSteps
<1>7. CASE RestartEnds
  BY <1>7, RestartEndsStep
<1> QED
  BY <1>1, <1>2, <1>3, <1>4, <1>5, <1>6, <1>7 DEF Next

THEOREM NetworkInvariant == Spec => []IInv
<1> QED
  BY InitIInv, NextStep, PTL DEF Spec

\* A sender is open only in a worker in sight, and old and new workers of a
\* destination are never in sight together: replacing the endpoints of any
\* number of destinations never has a name or a port twice.
THEOREM OneSender == Spec => []OneSenderPerDestination
<1>1. IInv => OneSenderPerDestination
  <2> SUFFICES ASSUME IInv, NEW d \in Dest, worker[<<d, 0>>].sender, worker[<<d, 1>>].sender
               PROVE  FALSE
    BY DEF OneSenderPerDestination
  <2>1. <<d, 0>> \in Worker /\ <<d, 1>> \in Worker
    BY DEF Worker
  <2>2. <<d, 0>> \in InSight /\ <<d, 1>> \in InSight
    BY <2>1 DEF IInv, HiddenAreIdle
  <2>3. ~(<<d, 0>> \in Published /\ <<d, 1>> \in Published)
    BY DEF Published
  <2>4. Published = {} \/ taken = {}
    BY DEF IInv, Stages
  <2> QED
    BY <2>2, <2>3, <2>4 DEF InSight, IInv, Stages
<1> QED
  BY <1>1, NetworkInvariant, PTL

\* Whatever happened to the Apply, the callback feeds every published worker.
THEOREM AudioFed == Spec => []AudioIsFed
<1>1. IInv => AudioIsFed
  BY DEF IInv, Fed, AudioIsFed
<1> QED
  BY <1>1, NetworkInvariant, PTL

\* No thread of a worker is ever beyond the reach of a stop.
THEOREM WorkersOwned == Spec => []WorkersAreOwned
<1>1. IInv => WorkersAreOwned
  BY DEF IInv
<1> QED
  BY <1>1, NetworkInvariant, PTL

\* What is in a tap when its sender is opened is discarded, so a worker that
\* was out of reach for any time does not send what it missed.
THEOREM NoBurst == Spec => []NoDelayedBurst
<1>1. IInv => NoDelayedBurst
  BY DEF IInv, Fresh, NoDelayedBurst
<1> QED
  BY <1>1, NetworkInvariant, PTL

\* However often the engine restarts, a worker that sent a block of another
\* format looks at the format before it comes to its tap again, and ends.
THEOREM OneStale == Spec => []OneStaleBlock
<1>1. IInv => OneStaleBlock
  BY DEF IInv, Formats, OneStaleBlock
<1> QED
  BY <1>1, NetworkInvariant, PTL

=============================================================================
