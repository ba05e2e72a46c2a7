----------------------------- MODULE TriggerProofs -----------------------------
(***************************************************************************)
(* For every show and every timecode: what the receiver assembles from the *)
(* pieces of one frame is that frame, and a list's one mark stands exactly *)
(* for the triggers it has fired.                                          *)
(*                                                                         *)
(* The first argument is that a number is spelled by its digits, and that  *)
(* the nibbles hold the digits of the tape's frame as far as they arrived  *)
(* in sequence.  The second is one invariant that relates the mark, the    *)
(* loop's last position and the cues that were fired or could not be tried.*)
(***************************************************************************)
EXTENDS TriggerDispatch, Timecode, FiniteSetTheorems, Recursion

(***************************************************************************)
(* What the receiver assembles                                             *)
(***************************************************************************)
\* The digits of a frame number are taken off by division.
LEMMA LeftIs ==
  ASSUME NEW n \in Nat
  PROVE  /\ Left(n) \in [0 .. Pieces -> Nat] /\ Left(n)[0] = n
         /\ \A p \in 1 .. Pieces : Left(n)[p] = Left(n)[p - 1] \div Base
<1> DEFINE G == [p \in 1 .. Pieces |-> [v \in Nat |-> v \div Base]]
           h == Left(n)
<1>1. Pieces \in Nat /\ \A v \in Nat : v \div Base \in Nat
  BY SizeAssumption
<1>2. G \in [1 .. Pieces -> [Nat -> Nat]]
  BY <1>1
<1>3. \A p \in 1 .. Pieces : p \in 0 .. Pieces /\ p - 1 \in 0 .. Pieces /\ p # 0
  BY <1>1
<1>4. \A v \in Nat, p \in 1 .. Pieces : G[p][v] = v \div Base
  OBVIOUS
<1> HIDE DEF G
<1>5. PICK f : Steps(Pieces, Nat, n, G, f)
  BY <1>1, <1>2, RecursionExists
<1>6. f = [p \in 0 .. Pieces |-> LeftStep(n, f, p)]
  <2>1. f \in [0 .. Pieces -> Nat] /\ f[0] = n /\ \A p \in 1 .. Pieces : f[p] = G[p][f[p - 1]]
    BY <1>5 DEF Steps
  <2>2. ASSUME NEW p \in 0 .. Pieces PROVE f[p] = LeftStep(n, f, p)
    <3>1. CASE p = 0
      BY <2>1, <3>1 DEF LeftStep
    <3>2. CASE p # 0
      <4>1. p \in 1 .. Pieces
        BY <1>1, <3>2
      <4>2. f[p] = f[p - 1] \div Base
        BY <1>3, <1>4, <2>1, <4>1
      <4> QED BY <3>2, <4>2 DEF LeftStep
    <3> QED BY <3>1, <3>2
  <2> QED BY <2>1, <2>2
<1>7. h = [p \in 0 .. Pieces |-> LeftStep(n, h, p)]
  BY <1>6, Zenon DEF Left
<1> HIDE DEF h
<1>8. \A p \in 0 .. Pieces : h[p] = LeftStep(n, h, p)
  BY <1>7, Zenon
<1>9. h[0] = n
  BY <1>1, <1>8 DEF LeftStep
<1>10. \A p \in 1 .. Pieces : h[p] = h[p - 1] \div Base
  BY <1>3, <1>8 DEF LeftStep
<1>11. h = [p \in 0 .. Pieces |-> h[p]]
  BY <1>7, <1>8
<1>12. Steps(Pieces, Nat, n, G, h)
  <2>1. \A p \in 1 .. Pieces : h[p - 1] \in Nat => h[p] = G[p][h[p - 1]]
    BY <1>4, <1>10
  <2> QED BY <1>1, <1>2, <1>9, <1>11, <2>1, RecursionIsIn
<1> QED BY <1>9, <1>10, <1>12 DEF Steps, h

\* A number is spelled from its highest digit.
LEMMA SpelledIs ==
  ASSUME NEW nib \in [Piece -> Nat]
  PROVE  /\ Spelled(nib) \in [0 .. Pieces -> Nat] /\ Spelled(nib)[0] = 0
         /\ \A k \in 1 .. Pieces : Spelled(nib)[k] = nib[Pieces - k] + Base * Spelled(nib)[k - 1]
<1> DEFINE G == [k \in 1 .. Pieces |-> [v \in Nat |-> nib[Pieces - k] + Base * v]]
           h == Spelled(nib)
<1>1. /\ Pieces \in Nat /\ Base \in Nat /\ \A v \in Nat : Base * v \in Nat
      /\ \A k \in 1 .. Pieces : Pieces - k \in Piece
  BY SizeAssumption DEF Piece
<1>2. G \in [1 .. Pieces -> [Nat -> Nat]]
  <2>1. ASSUME NEW k \in 1 .. Pieces, NEW v \in Nat PROVE nib[Pieces - k] + Base * v \in Nat
    <3>1. nib[Pieces - k] \in Nat /\ Base * v \in Nat
      BY <1>1
    <3> QED BY <3>1
  <2> QED BY <2>1
<1>3. \A k \in 1 .. Pieces : k \in 0 .. Pieces /\ k - 1 \in 0 .. Pieces /\ k # 0
  BY <1>1
<1>4. \A v \in Nat, k \in 1 .. Pieces : G[k][v] = nib[Pieces - k] + Base * v
  OBVIOUS
<1> HIDE DEF G
<1>5. PICK f : Steps(Pieces, Nat, 0, G, f)
  BY <1>1, <1>2, RecursionExists
<1>6. f = [k \in 0 .. Pieces |-> SpelledStep(nib, f, k)]
  <2>1. f \in [0 .. Pieces -> Nat] /\ f[0] = 0 /\ \A k \in 1 .. Pieces : f[k] = G[k][f[k - 1]]
    BY <1>5 DEF Steps
  <2>2. ASSUME NEW k \in 0 .. Pieces PROVE f[k] = SpelledStep(nib, f, k)
    <3>1. CASE k = 0
      BY <2>1, <3>1 DEF SpelledStep
    <3>2. CASE k # 0
      <4>1. k \in 1 .. Pieces
        BY <1>1, <3>2
      <4>2. f[k] = nib[Pieces - k] + Base * f[k - 1]
        BY <1>3, <1>4, <2>1, <4>1
      <4> QED BY <3>2, <4>2 DEF SpelledStep
    <3> QED BY <3>1, <3>2
  <2> QED BY <2>1, <2>2
<1>7. h = [k \in 0 .. Pieces |-> SpelledStep(nib, h, k)]
  BY <1>6, Zenon DEF Spelled
<1> HIDE DEF h
<1>8. \A k \in 0 .. Pieces : h[k] = SpelledStep(nib, h, k)
  BY <1>7, Zenon
<1>9. h[0] = 0
  BY <1>1, <1>8 DEF SpelledStep
<1>10. \A k \in 1 .. Pieces : h[k] = nib[Pieces - k] + Base * h[k - 1]
  BY <1>3, <1>8 DEF SpelledStep
<1>11. h = [k \in 0 .. Pieces |-> h[k]]
  BY <1>7, <1>8
<1>12. Steps(Pieces, Nat, 0, G, h)
  <2>1. \A k \in 1 .. Pieces : h[k - 1] \in Nat => h[k] = G[k][h[k - 1]]
    BY <1>4, <1>10
  <2> QED BY <1>1, <1>2, <1>9, <1>11, <2>1, RecursionIsIn
<1> QED BY <1>9, <1>10, <1>12 DEF Steps, h

LEMMA AssembledIsNat == ASSUME NEW nib \in [Piece -> Nat] PROVE Assemble(nib) \in Nat
<1>1. Pieces \in 0 .. Pieces
  BY SizeAssumption
<1> QED BY <1>1, SpelledIs DEF Assemble

\* The digits of a frame number spell it.
LEMMA DigitsSpell ==
  ASSUME NEW n \in 0 .. MaxFrame, NEW nib \in [Piece -> Nat],
         \A p \in Piece : nib[p] = Digit(n, p)
  PROVE  Assemble(nib) = n
<1> DEFINE left == Left(n)
           spelled == Spelled(nib)
           S == {k \in Nat : k <= Pieces => spelled[k] = left[Pieces - k]}
<1>1. /\ n \in Nat /\ Pieces \in Nat /\ Base \in Nat \ {0} /\ left[Pieces] = 0
  BY SizeAssumption, PiecesHoldEveryFrame
<1>2. /\ left \in [0 .. Pieces -> Nat] /\ left[0] = n
      /\ \A p \in 1 .. Pieces : left[p] = left[p - 1] \div Base
  BY <1>1, LeftIs
<1>3. /\ spelled[0] = 0
      /\ \A k \in 1 .. Pieces : spelled[k] = nib[Pieces - k] + Base * spelled[k - 1]
  BY SpelledIs
<1>4. \A p \in Piece : nib[p] = left[p] % Base
  BY DEF Digit
<1> HIDE DEF left, spelled
<1>5. 0 \in S
  BY <1>1, <1>3
<1>6. ASSUME NEW k \in Nat, k \in S PROVE k + 1 \in S
  <2> SUFFICES ASSUME k + 1 <= Pieces PROVE spelled[k + 1] = left[Pieces - (k + 1)]
    OBVIOUS
  <2> DEFINE p == Pieces - (k + 1)
  <2>1. /\ p \in Piece /\ p \in 0 .. Pieces /\ p + 1 \in 1 .. Pieces /\ (p + 1) - 1 = p
        /\ p + 1 = Pieces - k /\ k + 1 \in 1 .. Pieces /\ (k + 1) - 1 = k
    BY <1>1 DEF Piece
  <2>2. spelled[k] = left[Pieces - k]
    <3>1. k <= Pieces
      BY <1>1
    <3> QED BY <1>6, <3>1
  <2>3. spelled[k + 1] = nib[p] + Base * left[p + 1]
    BY <1>3, <2>1, <2>2
  <2> HIDE DEF p
  <2>4. left[p + 1] = left[p] \div Base /\ left[p] \in Nat
    BY <1>2, <2>1
  <2>5. spelled[k + 1] = (left[p] % Base) + Base * (left[p] \div Base)
    BY <1>4, <2>1, <2>3, <2>4
  <2>6. \A x \in Nat : (x % Base) + Base * (x \div Base) = x
    BY <1>1
  <2>7. spelled[k + 1] = left[p]
    BY <2>4, <2>5, <2>6
  <2> QED BY <2>7 DEF p
<1>7. Pieces \in S
  <2> HIDE DEF S
  <2> QED BY <1>1, <1>5, <1>6, NatSetInduction
<1>8. spelled[Pieces] = left[0]
  <2>1. Pieces - Pieces = 0
    BY <1>1
  <2> QED BY <1>1, <1>7, <2>1
<1> QED BY <1>2, <1>8 DEF Assemble, spelled

\* What has arrived since the stream was cut is what the tape has sent.
Received ==
  /\ tape \in [at : 0 .. MaxFrame, piece : Piece, rolling : BOOLEAN]
  /\ asm \in [nib : [Piece -> Nat], count : Nat] /\ fresh \in 0 .. Pieces
  /\ rx \in Nat /\ acts \in Nat
  /\ rx = 0 => fresh = 0
  /\ tape.piece # 0 /\ fresh # 0
       => /\ fresh = tape.piece
          /\ \A q \in Piece : q < fresh => asm.nib[q] = Digit(tape.at, q)

RxInv == Received /\ WholeFramesAreRight

LEMMA InitRxInv == Init => RxInv
<1> SUFFICES ASSUME Init PROVE RxInv
  OBVIOUS
<1>1. 0 \in Piece /\ 0 \in 0 .. Pieces /\ 0 \in 0 .. MaxFrame
  BY SizeAssumption DEF Piece
<1>2. FreshAsm \in [nib : [Piece -> Nat], count : Nat]
  BY DEF FreshAsm
<1> QED BY <1>1, <1>2 DEF Init, RxInv, Received, WholeFramesAreRight

\* A digit is a number, and what is stored of one piece leaves the others.
LEMMA StoredIs ==
  ASSUME Received, NEW p \in Piece
  PROVE  /\ Stored(p) \in [Piece -> Nat] /\ Stored(p)[p] = Digit(tape.at, p)
         /\ \A q \in Piece : q # p => Stored(p)[q] = asm.nib[q]
<1>1. asm.nib \in [Piece -> Nat] /\ tape.at \in Nat
  BY SizeAssumption DEF Received
<1>2. p \in 0 .. Pieces
  BY SizeAssumption DEF Piece
<1>3. Left(tape.at)[p] \in Nat
  BY <1>1, <1>2, LeftIs
<1>4. \A v \in Nat : v % Base \in Nat
  BY SizeAssumption
<1>5. Digit(tape.at, p) \in Nat
  BY <1>3, <1>4 DEF Digit
<1> QED BY <1>1, <1>5 DEF Stored

LEMMA QuarterFrameKeeps ==
  ASSUME RxInv, QuarterFrame
  PROVE  RxInv'
<1> DEFINE p == tape.piece
           nib == Stored(p)
           last == p = Pieces - 1
<1>1. /\ p \in Piece /\ p \in Nat /\ Pieces \in Nat \ {0} /\ p <= Pieces - 1
      /\ tape.at \in 0 .. MaxFrame /\ MaxFrame \in Nat /\ fresh \in 0 .. Pieces /\ asm.count \in Nat
      /\ acts \in Nat /\ rx \in Nat
  BY SizeAssumption DEF RxInv, Received, Piece
<1>2. UNCHANGED <<rx, acts>>
  BY DEF QuarterFrame
<1>3. /\ tape' \in [at : 0 .. MaxFrame, piece : Piece, rolling : BOOLEAN]
      /\ last => tape'.piece = 0
      /\ ~last => tape'.at = tape.at /\ tape'.piece = p + 1
  <2>1. tape \in [at : 0 .. MaxFrame, piece : Piece, rolling : BOOLEAN]
    BY DEF RxInv, Received
  <2>2. CASE last
    <3>1. tape.at < MaxFrame /\ tape' = [tape EXCEPT !.at = @ + 1, !.piece = 0]
      BY <2>2 DEF QuarterFrame
    <3>2. tape.at + 1 \in 0 .. MaxFrame /\ 0 \in Piece
      BY <1>1, <3>1 DEF Piece
    <3> QED BY <2>1, <2>2, <3>1, <3>2
  <2>3. CASE ~last
    <3>1. tape' = [tape EXCEPT !.piece = @ + 1]
      BY <2>3 DEF QuarterFrame
    <3>2. p + 1 \in Piece
      BY <1>1, <2>3 DEF Piece
    <3> QED BY <2>1, <2>3, <3>1, <3>2
  <2> QED BY <2>2, <2>3
<1>4. CASE rx = 0
  <2>1. UNCHANGED <<asm, fresh, sent>> /\ fresh = 0
    BY <1>4 DEF QuarterFrame, RxInv, Received
  <2> QED BY <1>2, <1>3, <2>1 DEF RxInv, Received, WholeFramesAreRight
<1>5. CASE rx # 0
  <2>1. /\ asm' = [nib |-> nib, count |-> IF Completes(p) THEN 0 ELSE asm.count + 1]
        /\ fresh' = IF p = 0 THEN 1 ELSE IF fresh = 0 THEN 0 ELSE fresh + 1
        /\ sent' = IF Completes(p)
                   THEN [pos |-> Assemble(nib), of |-> tape.at, whole |-> fresh' = Pieces]
                   ELSE sent
    BY <1>5, Zenon DEF QuarterFrame
  <2>2. /\ nib \in [Piece -> Nat] /\ nib[p] = Digit(tape.at, p)
        /\ \A q \in Piece : q # p => nib[q] = asm.nib[q]
    BY <1>1, StoredIs DEF RxInv
  <2>3. /\ fresh' \in 0 .. Pieces /\ (fresh' = 0 \/ fresh' = p + 1)
        /\ p # 0 /\ fresh' # 0 => fresh = p /\ \A q \in Piece : q < p => asm.nib[q] = Digit(tape.at, q)
    <3>1. p # 0 /\ fresh # 0 => fresh = p /\ \A q \in Piece : q < p => asm.nib[q] = Digit(tape.at, q)
      BY DEF RxInv, Received
    <3> HIDE DEF p
    <3> QED BY <1>1, <2>1, <3>1
  <2> HIDE DEF nib
  <2>4. ASSUME fresh' # 0, NEW q \in Piece, q < fresh' PROVE nib[q] = Digit(tape.at, q)
    <3>1. q \in Nat /\ q < p + 1
      BY <2>3, <2>4 DEF Piece
    <3>2. CASE q = p
      BY <2>2, <3>2
    <3>3. CASE q # p
      <4>1. q < p /\ p # 0
        BY <1>1, <3>1, <3>3
      <4> QED BY <2>2, <2>3, <2>4, <3>3, <4>1
    <3> QED BY <3>2, <3>3
  <2>5. asm' \in [nib : [Piece -> Nat], count : Nat] /\ asm'.nib = nib
    BY <1>1, <2>1, <2>2
  <2>6. Received'
    <3>1. tape'.piece # 0 /\ fresh' # 0
            => /\ fresh' = tape'.piece
               /\ \A q \in Piece : q < fresh' => asm'.nib[q] = Digit(tape'.at, q)
      BY <1>3, <2>3, <2>4, <2>5
    <3> QED BY <1>1, <1>2, <1>3, <1>5, <2>3, <2>5, <3>1 DEF Received
  <2>7. WholeFramesAreRight'
    <3>1. CASE Completes(p)
      <4>1. sent'.pos = Assemble(nib) /\ sent'.of = tape.at /\ (sent'.whole <=> fresh' = Pieces)
        BY <2>1, <3>1
      <4>2. ASSUME fresh' = Pieces PROVE Assemble(nib) = tape.at
        <5>1. fresh' # 0 /\ \A q \in Piece : q < fresh'
          BY <1>1, <4>2 DEF Piece
        <5>2. \A q \in Piece : nib[q] = Digit(tape.at, q)
          BY <2>4, <5>1
        <5> QED BY <1>1, <2>2, <5>2, DigitsSpell
      <4> QED BY <4>1, <4>2 DEF WholeFramesAreRight
    <3>2. CASE ~Completes(p)
      BY <2>1, <3>2 DEF WholeFramesAreRight, RxInv
    <3> QED BY <3>1, <3>2
  <2> QED BY <2>6, <2>7 DEF RxInv
<1> QED BY <1>4, <1>5

\* Whoever cuts the stream begins anew.
LEMMA CutKeeps ==
  ASSUME RxInv, RollOrHalt \/ (\E n \in 0 .. MaxFrame : Locate(n))
                \/ (\E enabled \in BOOLEAN : SetTcConfig(enabled))
  PROVE  RxInv'
<1>1. /\ fresh' = 0 /\ UNCHANGED sent /\ acts' = acts + 1
      /\ rx' = 0 \/ rx' = rx \/ rx' = acts + 2
  BY DEF RollOrHalt, Locate, SetTcConfig, Act
<1>2. 0 \in Piece /\ FreshAsm \in [nib : [Piece -> Nat], count : Nat] /\ Pieces \in Nat
  BY SizeAssumption DEF FreshAsm, Piece
<1>3. tape' \in [at : 0 .. MaxFrame, piece : Piece, rolling : BOOLEAN]
  BY <1>2 DEF RollOrHalt, Locate, SetTcConfig, RxInv, Received
<1>4. asm' \in [nib : [Piece -> Nat], count : Nat]
  BY <1>2 DEF RollOrHalt, Locate, SetTcConfig, RxInv, Received
<1> QED BY <1>1, <1>2, <1>3, <1>4 DEF RxInv, Received, WholeFramesAreRight

LEMMA NextRxInv == RxInv /\ [Next]_vars => RxInv'
<1> SUFFICES ASSUME RxInv, [Next]_vars PROVE RxInv'
  OBVIOUS
<1>1. CASE QuarterFrame
  BY <1>1, QuarterFrameKeeps
<1>2. CASE RollOrHalt \/ (\E n \in 0 .. MaxFrame : Locate(n))
           \/ (\E enabled \in BOOLEAN : SetTcConfig(enabled))
  BY <1>2, CutKeeps
<1>3. CASE UNCHANGED <<tape, asm, rx, fresh, sent>> /\ (acts' = acts \/ acts' = acts + 1)
  BY <1>3 DEF RxInv, Received, WholeFramesAreRight
<1>4. CASE Tick \/ UNCHANGED vars
  BY <1>3, <1>4 DEF Tick, Drain, Dispatch, vars, master
<1>5. CASE \/ \E m \in Note : NoteArrives(m)
           \/ \E c \in Cue : RemoveCue(c) \/ \E f \in NoFrame .. MaxFrame : SetTrigger(c, f)
           \/ \E l \in List : ToggleTc(l)
  BY <1>3, <1>5 DEF NoteArrives, RemoveCue, SetTrigger, ToggleTc, Act, master
<1> QED BY <1>1, <1>2, <1>4, <1>5 DEF Next, Operator

LEMMA RxInvHolds == Spec => []RxInv
  BY InitRxInv, NextRxInv, PTL DEF Spec

\* What is assembled from the pieces of one frame, received one after the other,
\* is that frame, wherever the stream was joined, cut or taken up before.
THEOREM WholeFramesAssemble == Spec => []WholeFramesAreRight
<1>1. RxInv => WholeFramesAreRight
  BY DEF RxInv
<1> QED BY <1>1, RxInvHolds, PTL

(***************************************************************************)
(* The marks of the lists                                                  *)
(***************************************************************************)
\* The types the argument needs.
LoopTypes ==
  /\ prev \in Int /\ prev >= NoFrame
  /\ mark \in [List -> Int]
  /\ trig \in [Cue -> Int]
  /\ chan \in Seq(Nat)
  /\ on \subseteq List /\ unread \subseteq List

\* What was fired by timecode is covered.
SpentIsCovered == \A c \in spent : c \in Cue /\ trig[c] <= mark[Home[c]]

\* A mark is ahead of timecode only where a rewind was not told, and what it
\* covers there is given up.
CoveredAheadIsLoose ==
  \A c \in Cue : trig[c] > prev /\ trig[c] > 0 /\ trig[c] <= mark[Home[c]] => c \in loose

IInv == /\ LoopTypes /\ SpentIsCovered /\ RewindRearms /\ CoveredAheadIsLoose
        /\ NothingMissed /\ cues \subseteq Cue

LEMMA InitIInv == Init => IInv
  BY HomeAssumption, SizeAssumption
     DEF Init, IInv, LoopTypes, SpentIsCovered, RewindRearms, CoveredAheadIsLoose,
         NothingMissed, NoFrame

LEMMA SentIsNat == ASSUME chan \in Seq(Nat), NEW n \in Nat PROVE Send(n) \in Seq(Nat)
  BY DEF Send

\* A step of the master, the receiver or the MIDI port leaves the loop alone.
LEMMA MasterStep ==
  ASSUME IInv, RxInv, QuarterFrame \/ RollOrHalt \/ (\E n \in 0 .. MaxFrame : Locate(n))
               \/ (\E enabled \in BOOLEAN : SetTcConfig(enabled))
               \/ (\E m \in Note : NoteArrives(m))
  PROVE  IInv'
<1>0. chan \in Seq(Nat) /\ \A n \in Nat : Send(n) \in Seq(Nat)
  BY SentIsNat DEF IInv, LoopTypes
<1>1. chan' \in Seq(Nat)
  <2>1. CASE QuarterFrame
    <3>1. chan' = chan \/ chan' = Send(Assemble(Stored(tape.piece)))
      BY <2>1 DEF QuarterFrame
    <3>2. tape.piece \in Piece
      BY DEF RxInv, Received
    <3>3. Assemble(Stored(tape.piece)) \in Nat
      BY <3>2, StoredIs, AssembledIsNat DEF RxInv
    <3> QED BY <1>0, <3>1, <3>3
  <2>2. CASE \E n \in 0 .. MaxFrame : Locate(n)
    <3>1. PICK n \in 0 .. MaxFrame : chan' = Send(n)
      BY <2>2 DEF Locate
    <3> QED BY <1>0, <3>1
  <2>3. CASE UNCHANGED chan
    BY <1>0, <2>3
  <2> QED
    BY <2>1, <2>2, <2>3 DEF RollOrHalt, SetTcConfig, NoteArrives
<1>2. UNCHANGED <<loop, authored, past>>
  BY DEF QuarterFrame, RollOrHalt, Locate, SetTcConfig, NoteArrives
<1> QED
  BY <1>1, <1>2
     DEF IInv, LoopTypes, SpentIsCovered, RewindRearms, CoveredAheadIsLoose,
         NothingMissed, loop, authored, past

LEMMA SetTriggerStep ==
  ASSUME IInv, NEW c \in Cue, NEW f \in NoFrame .. MaxFrame, SetTrigger(c, f)
  PROVE  IInv'
<1>1. f \in Int
  BY SizeAssumption
<1>2. /\ trig' = [trig EXCEPT ![c] = f] /\ spent' = spent \ {c}
      /\ loose' = IF f > prev /\ Home[c] \notin unread THEN loose \ {c} ELSE loose \cup {c}
      /\ UNCHANGED <<prev, mark, chan, on, cues, unread>>
  BY DEF SetTrigger, master, loop
<1>3. LoopTypes' /\ RewindRearms' /\ (cues \subseteq Cue)'
  BY <1>1, <1>2 DEF IInv, LoopTypes, RewindRearms
<1>4. SpentIsCovered'
  BY <1>2 DEF IInv, LoopTypes, SpentIsCovered
<1>5. CoveredAheadIsLoose'
  <2> SUFFICES ASSUME NEW d \in Cue,
                      trig'[d] > prev, trig'[d] > 0, trig'[d] <= mark[Home[d]]
               PROVE  d \in loose'
    BY <1>2 DEF CoveredAheadIsLoose
  <2>1. CASE d = c
    <3>1. trig'[d] = f /\ Home[d] \in List /\ mark[Home[d]] \in Int /\ prev \in Int
      BY <1>2, <2>1, HomeAssumption DEF IInv, LoopTypes
    <3>2. mark[Home[d]] <= prev \/ mark[Home[d]] = 0 \/ Home[d] \in unread
      BY <3>1 DEF IInv, RewindRearms
    <3>3. f > prev /\ f > 0 /\ f <= mark[Home[d]]
      BY <1>2, <3>1
    <3>4. Home[c] \in unread
      BY <1>1, <2>1, <3>1, <3>2, <3>3
    <3> QED BY <1>2, <2>1, <3>4
  <2>2. CASE d # c
    BY <1>2, <2>2 DEF IInv, LoopTypes, CoveredAheadIsLoose
  <2> QED BY <2>1, <2>2
<1>6. NothingMissed'
  BY <1>1, <1>2 DEF IInv, LoopTypes, NothingMissed
<1> QED
  BY <1>3, <1>4, <1>5, <1>6 DEF IInv

LEMMA EditStep ==
  ASSUME IInv, (\E l \in List : ToggleTc(l)) \/ (\E c \in Cue : RemoveCue(c))
  PROVE  IInv'
<1>1. /\ UNCHANGED <<prev, mark, trig, chan, past>> /\ on' \subseteq List
      /\ cues' \subseteq cues
  BY DEF IInv, LoopTypes, ToggleTc, RemoveCue, master, loop
<1> QED
  BY <1>1 DEF IInv, LoopTypes, SpentIsCovered, RewindRearms, CoveredAheadIsLoose,
              NothingMissed, past

LEMMA DispatchStep ==
  ASSUME IInv, NEW busy \in BOOLEAN, Dispatch(busy)
  PROVE  IInv'
<1>1. /\ UNCHANGED <<prev, mark, trig, chan, on, cues, unread>>
      /\ \/ spent' = spent /\ loose' = loose
         \/ \E S : spent' = spent \ S /\ loose' = loose \cup S
  BY DEF Dispatch, master, authored
<1> QED
  BY <1>1 DEF IInv, LoopTypes, SpentIsCovered, RewindRearms, CoveredAheadIsLoose,
              NothingMissed

(***************************************************************************)
(* A position moves the loop to f.                                         *)
(***************************************************************************)
LEMMA MarkAfterTried ==
  ASSUME LoopTypes, NEW l \in List, NEW f \in Nat
  PROVE  /\ MarkAfter(l, f) \in Int
         /\ f < prev => MarkAfter(l, f) = f
         /\ ~(f < prev) => MarkAfter(l, f) >= mark[l] /\ MarkAfter(l, f) \in {mark[l], f}
<1>1. CASE f < prev
  BY <1>1 DEF MarkAfter, Covered, LoopTypes
<1>2. CASE ~(f < prev)
  <2>1. CASE Crossed(l, mark[l], f) = {}
    BY <1>2, <2>1 DEF MarkAfter, Covered, LoopTypes
  <2>2. CASE Crossed(l, mark[l], f) # {}
    <3>1. PICK c \in Cue : trig[c] > mark[l] /\ trig[c] <= f
      BY <2>2 DEF Crossed
    <3> QED BY <1>2, <2>2, <3>1 DEF MarkAfter, Covered, LoopTypes
  <2> QED BY <2>1, <2>2
<1> QED BY <1>1, <1>2

LEMMA FiresExactly ==
  ASSUME LoopTypes, NEW f \in Nat, NEW tried \in SUBSET List, NEW c \in Cue
  PROVE  c \in Fires(f, tried) <=>
           /\ c \in cues /\ Home[c] \in tried /\ ~(f < prev)
           /\ trig[c] > mark[Home[c]] /\ trig[c] <= f
<1>1. c \in Fires(f, tried) <=>
        c \in cues /\ Home[c] \in tried /\ c \in Crossed(Home[c], Covered(Home[c], f), f)
  BY Zenon DEF Fires
<1>2. Home[c] \in List /\ mark[Home[c]] \in Int /\ trig[c] \in Int /\ prev \in Int
  BY HomeAssumption DEF LoopTypes
<1> QED
  BY <1>1, <1>2 DEF Crossed, Covered

LEMMA MoveStep ==
  ASSUME IInv, NEW f \in Nat, NEW tried \in SUBSET List,
         Move(f, tried, Fires(f, tried)), prev' = f, f # prev,
         UNCHANGED <<trig, cues, on>>, chan' \in Seq(Nat)
  PROVE  IInv' /\ Fires(f, tried) \cap spent = {}
<1> DEFINE fires == Fires(f, tried)
           again == IF f < prev THEN {c \in Cue : trig[c] > f /\ Home[c] \in tried} ELSE {}
           missed == {c \in Passed(f) : Home[c] \notin tried}
<1> USE HomeAssumption
<1>1. /\ mark' = [l \in List |-> IF l \in tried THEN MarkAfter(l, f) ELSE mark[l]]
      /\ spent' = (spent \ again) \cup fires
      /\ loose' = ((loose \ again) \ fires) \cup missed
      /\ unread' = IF f < prev THEN (unread \ tried) \cup (List \ tried) ELSE unread
  BY Zenon DEF Move
<1>2. LoopTypes /\ fires \subseteq Cue
  BY DEF IInv, Fires
<1>0. ASSUME NEW c \in Cue
      PROVE  c \in fires <=> /\ c \in cues /\ Home[c] \in tried /\ ~(f < prev)
                             /\ trig[c] > mark[Home[c]] /\ trig[c] <= f
  BY <1>2, FiresExactly
<1>3. LoopTypes'
  BY <1>1, <1>2, MarkAfterTried DEF LoopTypes, NoFrame
<1>4. ASSUME NEW c \in Cue
      PROVE  /\ Home[c] \in List /\ mark[Home[c]] \in Int /\ mark'[Home[c]] \in Int
             /\ trig[c] \in Int
             /\ Home[c] \in tried /\ f < prev => mark'[Home[c]] = f
             /\ Home[c] \in tried /\ ~(f < prev) =>
                  mark'[Home[c]] >= mark[Home[c]] /\ mark'[Home[c]] \in {mark[Home[c]], f}
             /\ Home[c] \notin tried => mark'[Home[c]] = mark[Home[c]]
  BY <1>1, <1>2, MarkAfterTried DEF LoopTypes
<1>5. ASSUME NEW c \in fires
      PROVE  trig[c] <= mark'[Home[c]] /\ mark'[Home[c]] = f
  <2>1. c \in Crossed(Home[c], Covered(Home[c], f), f) /\ Home[c] \in tried
    BY <1>2, FiresExactly DEF Fires, Crossed
  <2>2. MarkAfter(Home[c], f) = f
    BY <2>1 DEF MarkAfter
  <2> QED BY <1>1, <1>2, <1>4, <2>1, <2>2 DEF Crossed
<1>6. SpentIsCovered'
  <2> SUFFICES ASSUME NEW c \in spent' PROVE c \in Cue /\ trig[c] <= mark'[Home[c]]
    BY DEF SpentIsCovered
  <2>1. CASE c \in fires
    BY <1>2, <1>5, <2>1
  <2>2. CASE c \in spent \ again
    <3>1. c \in Cue /\ trig[c] <= mark[Home[c]]
      BY <2>2 DEF IInv, SpentIsCovered
    <3> QED BY <1>2, <1>4, <2>2, <3>1 DEF LoopTypes
  <2> QED BY <1>1, <2>1, <2>2
<1>7. RewindRearms'
  <2> SUFFICES ASSUME NEW l \in List
               PROVE  mark'[l] <= f \/ mark'[l] = 0 \/ l \in unread'
    BY DEF RewindRearms
  <2>1. mark[l] <= prev \/ mark[l] = 0 \/ l \in unread
    BY DEF IInv, RewindRearms
  <2> QED BY <1>1, <1>2, <2>1, MarkAfterTried DEF LoopTypes
<1>8. CoveredAheadIsLoose'
  <2> SUFFICES ASSUME NEW c \in Cue, trig[c] > f, trig[c] > 0, trig[c] <= mark'[Home[c]]
               PROVE  c \in loose'
    BY DEF CoveredAheadIsLoose
  <2>1. c \notin fires
    BY <1>0, <1>4
  <2>2. CASE f < prev
    <3>1. Home[c] \notin tried
      BY <1>4, <2>2
    <3> QED BY <1>1, <2>2, <3>1 DEF Passed
  <2>3. CASE ~(f < prev)
    <3>1. trig[c] <= mark[Home[c]] /\ trig[c] > prev
      <4>1. prev \in Int
        BY <1>2 DEF LoopTypes
      <4>2. mark'[Home[c]] = mark[Home[c]]
        BY <1>4, <2>3
      <4> QED BY <1>4, <2>3, <4>1, <4>2
    <3>2. c \in loose /\ c \notin again
      BY <2>3, <3>1 DEF IInv, CoveredAheadIsLoose
    <3> QED BY <1>1, <2>1, <3>2
  <2> QED BY <2>2, <2>3
<1>9. NothingMissed'
  <2> SUFFICES ASSUME NEW c \in cues, c \notin loose', trig[c] \in 1 .. f
               PROVE  c \in spent'
    BY DEF NothingMissed
  <2>1. c \in Cue
    BY DEF IInv
  <2>2. CASE f < prev
    <3>1. c \notin again /\ c \notin fires
      BY <1>0, <1>4, <2>1, <2>2
    <3>2. c \notin loose /\ trig[c] \in 1 .. prev
      BY <1>1, <1>2, <2>2, <3>1 DEF LoopTypes
    <3> QED BY <1>1, <3>1, <3>2 DEF IInv, NothingMissed
  <2>3. CASE ~(f < prev)
    <3>1. CASE c \in fires
      BY <1>1, <3>1
    <3>2. CASE c \notin fires
      <4>1. c \notin loose /\ c \notin missed
        BY <1>1, <2>3, <3>2
      <4>2. CASE trig[c] <= prev
        BY <1>1, <1>2, <2>3, <4>1, <4>2 DEF IInv, NothingMissed, LoopTypes
      <4>3. CASE ~(trig[c] <= prev)
        <5>1. Home[c] \in tried
          BY <1>2, <2>1, <2>3, <4>1, <4>3 DEF Passed, LoopTypes
        <5>2. trig[c] <= mark[Home[c]]
          BY <1>0, <1>4, <2>1, <2>3, <3>2, <5>1
        <5>3. trig[c] > prev /\ trig[c] > 0
          BY <1>2, <2>1, <4>3 DEF LoopTypes
        <5> QED
          BY <2>1, <4>1, <5>2, <5>3 DEF IInv, CoveredAheadIsLoose
      <4> QED BY <4>2, <4>3
    <3> QED BY <3>1, <3>2
  <2> QED BY <2>2, <2>3
<1>10. fires \cap spent = {}
  BY <1>2, <1>4, FiresExactly DEF IInv, SpentIsCovered
<1> QED
  BY <1>3, <1>6, <1>7, <1>8, <1>9, <1>10 DEF IInv

LEMMA DrainStep ==
  ASSUME IInv, NEW busyTc \in BOOLEAN, NEW busyMidi \in BOOLEAN, Drain(busyTc, busyMidi)
  PROVE  /\ IInv'
         /\ notes = << >> => Range(queued') \cap spent = {}
<1> DEFINE f == Last(chan)
           moves == chan # << >> /\ f # prev
           tried == IF busyTc THEN {} ELSE on
           fires == IF moves THEN Fires(f, tried) ELSE {}
<1>1. /\ chan' = << >> /\ prev' = (IF chan = << >> THEN prev ELSE f)
      /\ IF moves THEN Move(f, tried, fires) ELSE UNCHANGED <<mark, past>>
      /\ \E tc \in SetToSeqs(fires), midi \in IF busyMidi \/ notes = << >> THEN {<< >>} ELSE Played :
           queued' = tc \o midi
      /\ UNCHANGED <<trig, cues, on>>
  BY Zenon DEF Drain, authored
<1>2. chan' \in Seq(Nat)
  BY <1>1
<1>3. chan # << >> => f \in Nat
  BY DEF IInv, LoopTypes, Last
<1>4. tried \in SUBSET List
  BY DEF IInv, LoopTypes
<1>5. IInv' /\ fires \cap spent = {}
  <2>1. CASE moves
    <3>1. Move(f, tried, Fires(f, tried)) /\ prev' = f /\ f # prev /\ f \in Nat
      BY <1>1, <1>3, <2>1
    <3> HIDE DEF f, tried
    <3> QED BY <1>1, <1>2, <1>4, <2>1, <3>1, MoveStep
  <2>2. CASE ~moves
    <3>1. prev' = prev /\ UNCHANGED <<mark, past, trig, cues, on>>
      BY <1>1, <2>2
    <3> QED
      BY <1>2, <2>2, <3>1
         DEF IInv, LoopTypes, SpentIsCovered, RewindRearms, CoveredAheadIsLoose,
             NothingMissed, past
  <2> QED BY <2>1, <2>2
<1>6. notes = << >> => Range(queued') \subseteq fires
  <2> SUFFICES ASSUME notes = << >> PROVE Range(queued') \subseteq fires
    OBVIOUS
  <2>1. PICK tc \in SetToSeqs(fires) : queued' = tc \o << >>
    BY <1>1
  <2>2. IsFiniteSet(fires)
    <3>1. fires \subseteq Cue
      BY DEF Fires, Crossed
    <3> QED BY <3>1, SizeAssumption, FS_Subset
  <2>3. PICK n \in Nat : tc \in [1 .. n -> fires]
    <3> HIDE DEF fires
    <3> QED BY <2>2, FS_CardinalityType DEF SetToSeqs
  <2>4. queued' \in Seq(fires)
    <3> HIDE DEF fires
    <3> QED BY <2>1, <2>3
  <2> HIDE DEF fires
  <2> QED BY <2>4 DEF Range
<1> QED BY <1>5, <1>6

LEMMA NextIInv == IInv /\ RxInv /\ [Next]_vars => IInv'
<1> SUFFICES ASSUME IInv, RxInv, [Next]_vars PROVE IInv'
  OBVIOUS
<1>1. CASE QuarterFrame
  BY <1>1, MasterStep
<1>2. CASE Operator
  BY <1>2, MasterStep, SetTriggerStep, EditStep DEF Operator
<1>3. CASE Tick
  BY <1>3, DrainStep, DispatchStep DEF Tick
<1>4. CASE UNCHANGED vars
  BY <1>4 DEF vars, master, loop, authored, past, IInv, LoopTypes, SpentIsCovered,
              RewindRearms, CoveredAheadIsLoose, NothingMissed
<1> QED BY <1>1, <1>2, <1>3, <1>4 DEF Next

LEMMA InvariantHolds == Spec => []IInv
  BY InitIInv, NextIInv, RxInvHolds, PTL DEF Spec

\* No trigger the timecode has passed is missed, but for the ticks and the edits
\* that give it up.
THEOREM NoTriggerMissed == Spec => []NothingMissed
<1>1. IInv => NothingMissed
  BY DEF IInv
<1> QED BY <1>1, InvariantHolds, PTL

\* After a rewind every list that was told of it is armed again.
THEOREM RewoundListsRearm == Spec => []RewindRearms
<1>1. IInv => RewindRearms
  BY DEF IInv
<1> QED BY <1>1, InvariantHolds, PTL

\* Forward timecode fires a cue once.
THEOREM FiredOncePerPass == Spec => OncePerPass
<1> DEFINE Once == ~firing /\ firing' /\ notes = << >> => Range(queued') \cap spent = {}
<1>1. IInv /\ [Next]_vars => [Once]_vars
  <2> SUFFICES ASSUME IInv, Next, ~firing, firing', notes = << >>
               PROVE  Range(queued') \cap spent = {}
    OBVIOUS
  <2>1. Tick
    BY DEF Next, Operator, QuarterFrame, RollOrHalt, Locate, SetTcConfig, NoteArrives,
           SetTrigger, ToggleTc, RemoveCue, loop
  <2> QED BY <2>1, DrainStep DEF Tick, Dispatch
<1> QED BY <1>1, InvariantHolds, PTL DEF Spec, OncePerPass

(***************************************************************************)
(* A frame number survives the way through an SMPTE position, drop-frame   *)
(* numbering included: a trigger kept as a position is compared at the     *)
(* frame it was set for.                                                   *)
(***************************************************************************)
\* Quotient and remainder, in the form the solver takes.
LEMMA Div30 ==
  ASSUME NEW a \in Nat
  PROVE  /\ a \div 30 \in Nat /\ a % 30 \in 0 .. 29
         /\ a % 30 = a - 30 * (a \div 30)
<1>1. a \div 30 \in Nat /\ a % 30 \in 0 .. 29
  OBVIOUS
<1>2. a % 30 = a - 30 * (a \div 30)
  OBVIOUS
<1> QED BY <1>1, <1>2

LEMMA Div60 ==
  ASSUME NEW a \in Nat
  PROVE  /\ a \div 60 \in Nat /\ a % 60 \in 0 .. 59
         /\ a % 60 = a - 60 * (a \div 60)
<1>1. a \div 60 \in Nat /\ a % 60 \in 0 .. 59
  OBVIOUS
<1>2. a % 60 = a - 60 * (a \div 60)
  OBVIOUS
<1> QED BY <1>1, <1>2

LEMMA Div1798 ==
  ASSUME NEW a \in Nat
  PROVE  /\ a \div 1798 \in Nat /\ a % 1798 \in 0 .. 1797
         /\ a % 1798 = a - 1798 * (a \div 1798)
<1>1. a \div 1798 \in Nat /\ a % 1798 \in 0 .. 1797
  OBVIOUS
<1>2. a % 1798 = a - 1798 * (a \div 1798)
  OBVIOUS
<1> QED BY <1>1, <1>2

\* The tens of a minute count.
LEMMA Div10 == ASSUME NEW a \in Nat, NEW b \in 0 .. 9
  PROVE  (a * 10 + b) \div 10 = a
  OBVIOUS

\* to_frame_number at the drop-frame rate.
LEMMA DropNumber ==
  ASSUME NEW h \in Nat, NEW m \in Nat, NEW s \in Nat, NEW f \in Nat
  PROVE  ToFrameNumber([h |-> h, m |-> m, s |-> s, f |-> f, rate |-> "29.97df"])
           = ((h * 60 + m) * 60 + s) * 30 + f - 2 * ((h * 60 + m) - (h * 60 + m) \div 10)
<1>1. Fps("29.97df") = 30
  BY DEF Fps
<1> QED BY <1>1 DEF ToFrameNumber

\* Minute and frame of a count past the first minute of its block.
LEMMA LaterMinute ==
  ASSUME NEW rest \in Nat, rest < 17982, ~(rest < 1800),
         NEW minute, minute = ((rest - 1800) \div 1798) + 1,
         NEW frame, frame = ((rest - 1800) % 1798) + 2
  PROVE  /\ minute \in 0 .. 9 /\ frame \in 0 .. 1799
         /\ rest = minute * 1800 + frame - 2 * minute
<1> DEFINE y == rest - 1800
<1>1. y \in Nat /\ y < 16182 /\ rest = y + 1800
  OBVIOUS
<1>2. minute = (y \div 1798) + 1 /\ frame = (y % 1798) + 2
  OBVIOUS
<1> HIDE DEF y
<1> DEFINE q == y \div 1798
           r == y % 1798
<1>3. q \in Nat /\ r \in 0 .. 1797 /\ r = y - 1798 * q
  BY <1>1, Div1798
<1>4. minute = q + 1 /\ frame = r + 2
  BY <1>2
<1> HIDE DEF q, r
<1>5. q \in 0 .. 8
  BY <1>1, <1>3
<1>6. minute \in 1 .. 9 /\ frame \in 2 .. 1799
  BY <1>3, <1>4, <1>5
<1>7. y = 1798 * q + r
  BY <1>1, <1>3
<1>8. minute * 1800 + frame - 2 * minute = 1798 * (q + 1) + r + 2
  BY <1>3, <1>4
<1>9. 1798 * (q + 1) + r + 2 = rest
  BY <1>1, <1>3, <1>7
<1> QED
  BY <1>6, <1>8, <1>9

\* A frame number of the day survives the way through a drop-frame position.
LEMMA DropRoundTrip ==
  ASSUME NEW n \in Nat, n < 144 * 17982
  PROVE  ToFrameNumber(FromFrameNumber(n, "29.97df")) = n
<1> DEFINE rest == n % Block
           d == n \div Block
           minute == IF rest < 1800 THEN 0 ELSE ((rest - 1800) \div 1798) + 1
           frame == IF rest < 1800 THEN rest ELSE ((rest - 1800) % 1798) + 2
           minutes == d * 10 + minute
           h == minutes \div 60
           m == minutes % 60
           s == frame \div 30
           f == frame % 30
<1>1. d \in 0 .. 143 /\ rest \in 0 .. 17981 /\ n = d * 17982 + rest
  BY DEF Block
<1>2. /\ minute \in 0 .. 9 /\ frame \in 0 .. 1799
      /\ rest = minute * 1800 + frame - 2 * minute
  <2>1. ASSUME rest < 1800 PROVE minute = 0 /\ frame = rest
    BY <2>1
  <2>2. ASSUME ~(rest < 1800)
        PROVE  minute = ((rest - 1800) \div 1798) + 1 /\ frame = ((rest - 1800) % 1798) + 2
    BY <2>2
  <2>3. rest \in Nat /\ rest < 17982
    BY DEF Block
  <2> HIDE DEF rest, minute, frame
  <2>4. CASE rest < 1800
    <3>1. minute = 0 /\ frame = rest
      BY <2>1, <2>4
    <3>2. minute \in 0 .. 9 /\ frame \in 0 .. 1799
      BY <2>3, <2>4, <3>1
    <3> QED
      BY <2>3, <3>1, <3>2
  <2>5. CASE ~(rest < 1800)
    <3>1. minute = ((rest - 1800) \div 1798) + 1 /\ frame = ((rest - 1800) % 1798) + 2
      BY <2>2, <2>5
    <3> QED
      BY <2>3, <2>5, <3>1, LaterMinute
  <2> QED BY <2>4, <2>5
<1>3. FromFrameNumber(n, "29.97df") =
        [h |-> h % 24, m |-> m, s |-> s, f |-> f, rate |-> "29.97df"]
  BY DEF FromFrameNumber
<1> HIDE DEF rest, d, minute, frame
<1>4. d \in Nat /\ d <= 143
  <2>1. d \in 0 .. 143
    BY <1>1
  <2> QED BY <2>1
<1>5. n = d * 17982 + rest
  BY <1>1
<1>6. minute \in 0 .. 9 /\ minute \in Int /\ frame \in Int
  <2>1. minute \in 0 .. 9 /\ frame \in 0 .. 1799
    BY <1>2
  <2> QED BY <2>1
<1>7. rest = minute * 1800 + frame - 2 * minute
  BY <1>2
<1>8. minutes \in 0 .. 1439 /\ minutes \div 10 = d
  <2>1. d \in Nat /\ d <= 143 /\ minute \in 0 .. 9
    BY <1>4, <1>6
  <2>2. (d * 10 + minute) \div 10 = d
    BY <2>1, Div10
  <2>3. d * 10 + minute \in 0 .. 1439
    BY <2>1
  <2> QED BY <2>2, <2>3
<1> HIDE DEF minutes
<1>9. h % 24 = h /\ h * 60 + m = minutes
  <2>1. h \in Nat /\ m = minutes - 60 * h /\ h < 24
    BY <1>8, Div60
  <2> HIDE DEF h, m
  <2>2. h % 24 = h
    BY <2>1
  <2> QED BY <1>8, <2>1, <2>2
<1>10. s \in Nat /\ f \in Nat /\ s * 30 + f = frame
  <2>1. s \in Nat /\ f \in Nat /\ f = frame - 30 * s
    BY <1>2, Div30
  <2> HIDE DEF s, f
  <2> QED BY <1>2, <2>1
<1> HIDE DEF h, m, s, f
<1>11. ToFrameNumber(FromFrameNumber(n, "29.97df")) =
        (minutes * 60 + s) * 30 + f - 2 * (minutes - d)
  <2>1. h \in Nat /\ m \in Nat
    BY <1>8, Div60 DEF h, m
  <2>2. FromFrameNumber(n, "29.97df") = [h |-> h, m |-> m, s |-> s, f |-> f, rate |-> "29.97df"]
    BY <1>3, <1>9
  <2>3. ToFrameNumber([h |-> h, m |-> m, s |-> s, f |-> f, rate |-> "29.97df"])
          = ((h * 60 + m) * 60 + s) * 30 + f - 2 * ((h * 60 + m) - (h * 60 + m) \div 10)
    BY <1>10, <2>1, DropNumber
  <2> QED BY <1>8, <1>9, <2>2, <2>3
<1>12. d \in Int /\ minute \in Int /\ frame \in Int /\ minutes \in Int /\ minutes = d * 10 + minute
  BY <1>4, <1>6 DEF minutes
<1>13. (minutes * 60 + s) * 30 + f - 2 * (minutes - d) = minutes * 1800 + frame - 2 * (minutes - d)
  BY <1>10, <1>12
<1>14. minutes * 1800 + frame - 2 * (minutes - d) = d * 17982 + (minute * 1800 + frame - 2 * minute)
  BY <1>12
<1>15. ToFrameNumber(FromFrameNumber(n, "29.97df")) = minutes * 1800 + frame - 2 * (minutes - d)
  BY <1>11, <1>13
<1>16. n = d * 17982 + (minute * 1800 + frame - 2 * minute)
  BY <1>5, <1>7
<1> QED
  BY <1>14, <1>15, <1>16

\* Hours, minutes and seconds of a count of seconds below a day.
LEMMA ClockOfSeconds ==
  ASSUME NEW sec \in Nat, sec < 86400,
         NEW mins, mins = sec \div 60, NEW s, s = sec % 60,
         NEW h, h = mins \div 60, NEW m, m = mins % 60
  PROVE  h % 24 = h /\ h \in 0 .. 23 /\ (h * 60 + m) * 60 + s = sec
<1>1. mins \in Nat /\ s \in 0 .. 59 /\ s = sec - 60 * mins
  BY Div60
<1>2. h \in Nat /\ m \in 0 .. 59 /\ m = mins - 60 * h
  BY <1>1, Div60
<1>3. h \in 0 .. 23
  BY <1>1, <1>2
<1>4. h % 24 = h
  BY <1>3
<1>5. h * 60 + m = mins
  BY <1>1, <1>2
<1>6. mins * 60 + s = sec
  BY <1>1
<1> QED
  BY <1>3, <1>4, <1>5, <1>6

\* Whole seconds and frames of a frame number, at each rate.
LEMMA Split24 ==
  ASSUME NEW n \in Nat, n < DaySeconds * 24,
         NEW q, q = n \div 24, NEW r, r = n % 24
  PROVE  q \in Nat /\ q < DaySeconds /\ r \in 0 .. 23 /\ q * 24 + r = n
<1>1. q \in Nat /\ r \in 0 .. 23 /\ r = n - 24 * q
  OBVIOUS
<1>2. q < DaySeconds
  BY <1>1 DEF DaySeconds
<1>3. q * 24 + r = n
  BY <1>1
<1> QED BY <1>1, <1>2, <1>3

LEMMA Split25 ==
  ASSUME NEW n \in Nat, n < DaySeconds * 25,
         NEW q, q = n \div 25, NEW r, r = n % 25
  PROVE  q \in Nat /\ q < DaySeconds /\ r \in 0 .. 24 /\ q * 25 + r = n
<1>1. q \in Nat /\ r \in 0 .. 24 /\ r = n - 25 * q
  OBVIOUS
<1>2. q < DaySeconds
  BY <1>1 DEF DaySeconds
<1>3. q * 25 + r = n
  BY <1>1
<1> QED BY <1>1, <1>2, <1>3

LEMMA Split30 ==
  ASSUME NEW n \in Nat, n < DaySeconds * 30,
         NEW q, q = n \div 30, NEW r, r = n % 30
  PROVE  q \in Nat /\ q < DaySeconds /\ r \in 0 .. 29 /\ q * 30 + r = n
<1>1. q \in Nat /\ r \in 0 .. 29 /\ r = n - 30 * q
  OBVIOUS
<1>2. q < DaySeconds
  BY <1>1 DEF DaySeconds
<1>3. q * 30 + r = n
  BY <1>1
<1> QED BY <1>1, <1>2, <1>3

\* A frame number of the day survives the way through a position at the rates that
\* drop no frames.
LEMMA PlainRoundTrip ==
  ASSUME NEW rate \in Rates \ {"29.97df"}, NEW n \in Nat, n < DaySeconds * Fps(rate)
  PROVE  ToFrameNumber(FromFrameNumber(n, rate)) = n
<1> DEFINE fps == Fps(rate)
           sec == n \div fps
           f == n % fps
           mins == sec \div 60
           s == sec % 60
           h == mins \div 60
           m == mins % 60
<1>1. fps \in {24, 25, 30}
  BY DEF Fps
<1>2. rate # "29.97df"
  OBVIOUS
<1>3. FromFrameNumber(n, rate) = [h |-> h % 24, m |-> m, s |-> s, f |-> f, rate |-> rate]
  BY <1>2 DEF FromFrameNumber
<1>4. ToFrameNumber([h |-> h, m |-> m, s |-> s, f |-> f, rate |-> rate])
        = ((h * 60 + m) * 60 + s) * fps + f
  BY <1>2 DEF ToFrameNumber
<1> HIDE DEF fps
<1>5. n < DaySeconds * fps
  BY DEF fps
<1>6. sec = n \div fps /\ f = n % fps
  OBVIOUS
<1>7. mins = sec \div 60 /\ s = sec % 60 /\ h = mins \div 60 /\ m = mins % 60
  OBVIOUS
<1> HIDE DEF sec, f, mins, s, h, m
<1>8. sec \in Nat /\ sec < DaySeconds /\ f \in 0 .. 29 /\ sec * fps + f = n
  <2>1. CASE fps = 24
    <3>1. n < DaySeconds * 24 /\ sec = n \div 24 /\ f = n % 24
      BY <1>5, <1>6, <2>1
    <3>2. sec \in Nat /\ sec < DaySeconds /\ f \in 0 .. 23 /\ sec * 24 + f = n
      BY <3>1, Split24
    <3>3. sec * fps = sec * 24 /\ f \in 0 .. 29
      BY <2>1, <3>2
    <3> QED BY <3>2, <3>3
  <2>2. CASE fps = 25
    <3>1. n < DaySeconds * 25 /\ sec = n \div 25 /\ f = n % 25
      BY <1>5, <1>6, <2>2
    <3>2. sec \in Nat /\ sec < DaySeconds /\ f \in 0 .. 24 /\ sec * 25 + f = n
      BY <3>1, Split25
    <3>3. sec * fps = sec * 25 /\ f \in 0 .. 29
      BY <2>2, <3>2
    <3> QED BY <3>2, <3>3
  <2>3. CASE fps = 30
    <3>1. n < DaySeconds * 30 /\ sec = n \div 30 /\ f = n % 30
      BY <1>5, <1>6, <2>3
    <3>2. sec \in Nat /\ sec < DaySeconds /\ f \in 0 .. 29 /\ sec * 30 + f = n
      BY <3>1, Split30
    <3>3. sec * fps = sec * 30 /\ f \in 0 .. 29
      BY <2>3, <3>2
    <3> QED BY <3>2, <3>3
  <2> QED BY <1>1, <2>1, <2>2, <2>3
<1>9. h % 24 = h /\ (h * 60 + m) * 60 + s = sec
  BY <1>7, <1>8, ClockOfSeconds DEF DaySeconds
<1> QED
  BY <1>3, <1>4, <1>8, <1>9

\* TRUE for every rate and every frame of the day: to_frame_number undoes
\* from_frame_number, so the frame a trigger is compared at is the one it was set for.
THEOREM FramesSurvivePositions ==
  \A rate \in Rates : \A n \in Nat :
    n < Day(rate) => ToFrameNumber(FromFrameNumber(n, rate)) = n
<1> SUFFICES ASSUME NEW rate \in Rates, NEW n \in Nat, n < Day(rate)
             PROVE  ToFrameNumber(FromFrameNumber(n, rate)) = n
  OBVIOUS
<1>1. CASE rate = "29.97df"
  <2>1. n < 144 * 17982
    BY <1>1 DEF Day, Block
  <2> QED BY <1>1, <2>1, DropRoundTrip
<1>2. CASE rate # "29.97df"
  BY <1>2, PlainRoundTrip DEF Day
<1> QED BY <1>1, <1>2

================================================================================
