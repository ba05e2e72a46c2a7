---------------------------- MODULE TriggerDispatch ----------------------------
(***************************************************************************)
(* Cues fired from outside: the timecode master, the receiver that         *)
(* assembles its messages (engine/timecode_receiver.rs), the trigger       *)
(* windows of the lists (show/cue_list.rs), the MIDI triggers and the      *)
(* sections 0, 0b and 9b of the tick (show/event_loop.rs).                 *)
(*                                                                         *)
(* A frame number is sent in Pieces quarter frames, one digit each (eight  *)
(* nibbles in the code), or at once as a full frame when the master        *)
(* locates.  A tick takes the workspace up to three times, and an operator *)
(* command may hold it each time.  Only the MTC source is modelled.        *)
(***************************************************************************)
EXTENDS Integers, FiniteSetsExt, SequencesExt

CONSTANTS
  Cue, List, Note,
  Home,     \* Home[c]: the list of cue c
  Bound,    \* Bound[c]: the notes that trigger c
  Base, Pieces,
  MaxFrame, \* bound on the master's position
  MaxActs,  \* bound on what the operators of show and master do
  MaxChan   \* bound on what is waiting in a channel

NoFrame == -1

ASSUME SizeAssumption ==
  /\ Base \in Nat \ {0, 1} /\ Pieces \in Nat \ {0} /\ MaxFrame \in Nat
  /\ MaxActs \in Nat /\ MaxChan \in Nat /\ IsFiniteSet(Cue)
ASSUME HomeAssumption == Home \in [Cue -> List] /\ Bound \in [Cue -> SUBSET Note]

VARIABLES
  tape,    \* the master: its frame, the next piece to send, whether it rolls
  asm,     \* MtcAssembler: the nibbles and the count
  rx,      \* the channel of the receiver that runs, 0 without one
  sub,     \* the channel the event loop reads, taken when the program starts
  chan,    \* positions waiting in that channel
  notes,   \* MIDI messages waiting
  prev,    \* prev_tc_frame
  mark,    \* mark[l]: tc_last_triggered_frame
  on,      \* the lists whose timecode is enabled
  trig,    \* trig[c]: the frame of the cue's trigger
  cues,    \* the cues that exist
  queued,  \* tc_fire, between the two halves of a tick
  firing,  \* the tick is between its halves
  acts,    \* what the operators have done so far
  \* history, for the properties only
  fresh,   \* pieces received in sequence since the stream was cut
  sent,    \* the last assembled position, and if it has fresh pieces only
  spent,   \* cues timecode has fired since it last ran back before them
  loose,   \* cues the tick could not try when timecode passed them
  unread   \* lists that were not told of a rewind

master == <<tape, asm, rx, chan, notes, fresh, sent>>
loop == <<prev, mark, queued, firing>>
authored == <<on, trig, cues>>
past == <<spent, loose, unread>>
vars == <<master, sub, loop, authored, acts, past>>

Act == acts < MaxActs /\ acts' = acts + 1

(***************************************************************************)
(* The receiver                                                            *)
(***************************************************************************)
Piece == 0 .. Pieces - 1

\* What is left of a frame number when digits are taken off, the lowest first.
LeftStep(n, left, p) == IF p = 0 THEN n ELSE left[p - 1] \div Base
Left(n) == LET left[p \in 0 .. Pieces] == LeftStep(n, left, p) IN left
Digit(n, p) == Left(n)[p] % Base

ASSUME PiecesHoldEveryFrame == \A n \in 0 .. MaxFrame : Left(n)[Pieces] = 0

\* assemble: what the last k nibbles spell, whichever frames they are of.
SpelledStep(nib, spelled, k) ==
  IF k = 0 THEN 0 ELSE nib[Pieces - k] + Base * spelled[k - 1]
Spelled(nib) == LET spelled[k \in 0 .. Pieces] == SpelledStep(nib, spelled, k) IN spelled
Assemble(nib) == Spelled(nib)[Pieces]

FreshAsm == [nib |-> [p \in Piece |-> 0], count |-> 0]

\* Mutant: the nibbles are stored as they come.
StoredInSequence(p) == [asm.nib EXCEPT ![asm.count % Pieces] = Digit(tape.at, p)]

Stored(p) == [asm.nib EXCEPT ![p] = Digit(tape.at, p)]
Completes(p) == p = Pieces - 1 \/ asm.count + 1 >= Pieces

\* What the loop can still read of a position that is sent.
Send(n) == IF rx # 0 /\ rx = sub THEN Append(chan, n) ELSE chan

\* push_quarter_frame, for the next piece of the master's frame.
QuarterFrame ==
  LET p == tape.piece
  IN  /\ tape.rolling /\ Len(chan) < MaxChan
      /\ IF p = Pieces - 1
         THEN tape.at < MaxFrame /\ tape' = [tape EXCEPT !.at = @ + 1, !.piece = 0]
         ELSE tape' = [tape EXCEPT !.piece = @ + 1]
      /\ IF rx = 0 THEN UNCHANGED <<asm, chan, fresh, sent>>
         ELSE /\ asm' = [nib |-> Stored(p),
                         count |-> IF Completes(p) THEN 0 ELSE asm.count + 1]
              /\ chan' = IF Completes(p) THEN Send(Assemble(Stored(p))) ELSE chan
              /\ fresh' = IF p = 0 THEN 1 ELSE IF fresh = 0 THEN 0 ELSE fresh + 1
              /\ sent' = IF Completes(p)
                         THEN [pos |-> Assemble(Stored(p)), of |-> tape.at,
                               whole |-> fresh' = Pieces]
                         ELSE sent
      /\ UNCHANGED <<rx, sub, notes, loop, authored, acts, past>>

\* push_full_frame: the master is located.
Locate(n) ==
  /\ Act /\ Len(chan) < MaxChan
  /\ tape' = [tape EXCEPT !.at = n, !.piece = 0]
  /\ asm' = IF rx = 0 THEN asm ELSE [asm EXCEPT !.count = Pieces]
  /\ chan' = Send(n) /\ fresh' = 0
  /\ UNCHANGED <<rx, sub, notes, loop, authored, sent, past>>

\* The master starts and stops; a group that was cut is not taken up again.
RollOrHalt ==
  /\ Act /\ tape' = [tape EXCEPT !.rolling = ~@, !.piece = 0] /\ fresh' = 0
  /\ UNCHANGED <<asm, rx, sub, chan, notes, loop, authored, sent, past>>

\* set_tc_config: start, reconfigure (same channel, new thread) or drop.
SetTcConfig(enabled) ==
  /\ Act
  /\ rx' = IF ~enabled THEN 0 ELSE IF rx # 0 THEN rx ELSE acts + 2
  /\ asm' = FreshAsm /\ fresh' = 0
  /\ UNCHANGED <<tape, sub, chan, notes, loop, authored, sent, past>>

\* The listener queues every channel-voice message.
NoteArrives(m) ==
  /\ Act /\ Len(notes) < MaxChan /\ notes' = Append(notes, m)
  /\ UNCHANGED <<tape, asm, rx, sub, chan, loop, authored, fresh, sent, past>>

(***************************************************************************)
(* The operator                                                            *)
(***************************************************************************)
\* set_cue_tc_trigger; NoFrame takes the trigger out of the table.
SetTrigger(c, f) ==
  /\ Act /\ c \in cues /\ trig' = [trig EXCEPT ![c] = f]
  /\ spent' = spent \ {c}
  /\ loose' = IF f > prev /\ Home[c] \notin unread THEN loose \ {c} ELSE loose \cup {c}
  /\ UNCHANGED <<master, sub, loop, on, cues, unread>>

\* set_cuelist_tc_config
ToggleTc(l) ==
  /\ Act /\ on' = IF l \in on THEN on \ {l} ELSE on \cup {l}
  /\ UNCHANGED <<master, sub, loop, trig, cues, past>>

\* remove_cue leaves the trigger in the table.
RemoveCue(c) ==
  /\ Act /\ c \in cues /\ cues' = cues \ {c}
  /\ UNCHANGED <<master, sub, loop, on, trig, past>>

(***************************************************************************)
(* The tick, first half: sections 0 and 0b                                 *)
(***************************************************************************)
\* Mutant: the window is open at the position itself.
CrossedBefore(l, m, f) == {c \in Cue : Home[c] = l /\ trig[c] > m /\ trig[c] < f}

\* tc_triggers_crossed: the window (m, f].
Crossed(l, m, f) == {c \in Cue : Home[c] = l /\ trig[c] > m /\ trig[c] <= f}

\* Mutant: a list re-arms only when it fires something.
CoveredIfCrossed(l, f) ==
  IF f < prev /\ Crossed(l, mark[l], f) # {} THEN f ELSE mark[l]

\* The covered mark of list l when the window up to f is tried.
Covered(l, f) == IF f < prev THEN f ELSE mark[l]

\* Mutant: the mark is not moved when the window has fired.
MarkUnmoved(l, f) == Covered(l, f)

MarkAfter(l, f) == IF Crossed(l, Covered(l, f), f) = {} THEN Covered(l, f) ELSE f

\* What the lists that are tried fire when a position moves the loop to f.
Fires(f, tried) ==
  {c \in cues : Home[c] \in tried /\ c \in Crossed(Home[c], Covered(Home[c], f), f)}

\* The cues timecode has passed, or run back before.
Passed(f) == IF f < prev THEN {c \in Cue : trig[c] > f}
             ELSE {c \in Cue : trig[c] \in prev + 1 .. f}

\* Section 0: only the last position counts.  tried: the lists the tick got to,
\* fires: what it found crossed there.
Move(f, tried, fires) ==
  LET missed == {c \in Passed(f) : Home[c] \notin tried}
      again == IF f < prev THEN {c \in Cue : trig[c] > f /\ Home[c] \in tried} ELSE {}
  IN  /\ mark' = [l \in List |-> IF l \in tried THEN MarkAfter(l, f) ELSE mark[l]]
      /\ spent' = (spent \ again) \cup fires
      /\ loose' = ((loose \ again) \ fires) \cup missed
      /\ unread' = IF f < prev THEN (unread \ tried) \cup (List \ tried) ELSE unread

\* Section 0b: the cues bound to each message that arrived.
Played == FoldLeft(LAMBDA done, m : {d \o o : d \in done,
                                       o \in SetToSeqs({c \in cues : m \in Bound[c]})},
                   {<< >>}, notes)

\* The first half.  busyTc, busyMidi: a command holds the workspace when the
\* section tries it; the triggers of one section come in arbitrary order.
Drain(busyTc, busyMidi) ==
  LET moves == chan # << >> /\ Last(chan) # prev
      tried == IF busyTc THEN {} ELSE on
      fires == IF moves THEN Fires(Last(chan), tried) ELSE {}
  IN  /\ ~firing /\ (chan # << >> \/ notes # << >>) /\ firing' = TRUE
      /\ chan' = << >> /\ notes' = << >>
      /\ prev' = IF chan = << >> THEN prev ELSE Last(chan)
      /\ IF moves THEN Move(Last(chan), tried, fires) ELSE UNCHANGED <<mark, past>>
      /\ \E tc \in SetToSeqs(fires), midi \in IF busyMidi \/ notes = << >> THEN {<< >>} ELSE Played :
           queued' = tc \o midi
      /\ UNCHANGED <<tape, asm, rx, sub, authored, acts, fresh, sent>>

\* The second half, section 9b: what was queued goes, if it still exists.  The
\* half is skipped, and what was queued with it, when the workspace is held.
Dispatch(busy) ==
  /\ firing /\ firing' = FALSE /\ queued' = << >>
  /\ loose' = IF busy THEN loose \cup Range(queued) ELSE loose
  /\ spent' = IF busy THEN spent \ Range(queued) ELSE spent
  /\ UNCHANGED <<master, sub, prev, mark, authored, acts, unread>>

Init ==
  /\ tape = [at |-> 0, piece |-> 0, rolling |-> FALSE]
  /\ asm = FreshAsm /\ rx \in {0, 1} /\ sub = rx
  /\ chan = << >> /\ notes = << >> /\ queued = << >> /\ firing = FALSE
  /\ prev = NoFrame /\ mark = [l \in List |-> 0] /\ on = List
  /\ trig \in [Cue -> {NoFrame, 1, 2}] /\ cues = Cue /\ acts = 0
  /\ fresh = 0 /\ sent = [pos |-> 0, of |-> 0, whole |-> TRUE]
  /\ spent = {} /\ loose = {} /\ unread = {}

Operator ==
  \/ RollOrHalt
  \/ \E n \in 0 .. MaxFrame : Locate(n)
  \/ \E enabled \in BOOLEAN : SetTcConfig(enabled)
  \/ \E m \in Note : NoteArrives(m)
  \/ \E c \in Cue : RemoveCue(c) \/ \E f \in NoFrame .. MaxFrame : SetTrigger(c, f)
  \/ \E l \in List : ToggleTc(l)

Tick == \/ \E busyTc, busyMidi \in BOOLEAN : Drain(busyTc, busyMidi)
        \/ \E busy \in BOOLEAN : Dispatch(busy)

Next == QuarterFrame \/ Operator \/ Tick
Spec == Init /\ [][Next]_vars

(***************************************************************************)
(* Properties                                                              *)
(***************************************************************************)
\* The one mark a list keeps stands for what it has fired: every trigger the
\* timecode has passed was fired, unless a command held the workspace, the list
\* was off or the trigger was set behind the timecode (tc_triggers_crossed).
NothingMissed ==
  \A c \in cues \ loose : trig[c] \in 1 .. prev => c \in spent

\* Forward timecode fires a cue once: it fires again only after timecode was seen
\* to run back before its trigger, or the trigger was set anew.
OncePerPass ==
  [][~firing /\ firing' /\ notes = << >> => Range(queued') \cap spent = {}]_vars

\* After a rewind no list covers a frame timecode has still to come to, unless it
\* was not told of the rewind: every trigger ahead is armed (section 0).
RewindRearms == \A l \in List : mark[l] <= prev \/ mark[l] = 0 \/ l \in unread

\* What is assembled from the quarter frames of one frame is that frame, however
\* the stream was joined or cut before (MtcAssembler).
WholeFramesAreRight == sent.whole => sent.pos = sent.of

=============================================================================
