------------------------------ MODULE AudioProofs ------------------------------
(***************************************************************************)
(* For any cues, voices and sizes of the rings: a voice that no cue holds  *)
(* ends, and a paused cue is silent, however the commands, the callbacks,  *)
(* the show loop and the faults of the devices interleave, but for the     *)
(* voices a command for which was lost.                                    *)
(*                                                                         *)
(* Both rest on what becomes of a voice once the commands on their way are *)
(* obeyed, which a callback, the end of a voice and commands for other     *)
(* voices leave as it is.                                                  *)
(***************************************************************************)
EXTENDS AudioVoices, SequenceTheorems, Recursion

(***************************************************************************)
(* What becomes of a voice                                                 *)
(***************************************************************************)
LEMMA ObeyedType ==
  ASSUME NEW cmd \in Command, NEW s \in VoiceStates
  PROVE  Obeyed(cmd.op, s) \in VoiceStates
<1>1. cmd.op \in {"play", "pause", "resume", "fade", "cut", "marked"}
  BY DEF Command
<1> QED BY <1>1 DEF Obeyed, VoiceStates

LEMMA FatesAre ==
  ASSUME NEW s \in VoiceStates, NEW q \in Seq(Command), NEW v
  PROVE  /\ Fates(s, q, v) \in [0 .. Len(q) -> VoiceStates] /\ Fates(s, q, v)[0] = s
         /\ \A i \in 1 .. Len(q) :
              Fates(s, q, v)[i] = IF v \in q[i].of THEN Obeyed(q[i].op, Fates(s, q, v)[i - 1])
                                  ELSE Fates(s, q, v)[i - 1]
<1> DEFINE m == Len(q)
           G == [i \in 1 .. m |-> [x \in VoiceStates |->
                   IF v \in q[i].of THEN Obeyed(q[i].op, x) ELSE x]]
           h == Fates(s, q, v)
<1>1. m \in Nat /\ \A i \in 1 .. m : q[i] \in Command
  OBVIOUS
<1>2. G \in [1 .. m -> [VoiceStates -> VoiceStates]]
  <2>1. ASSUME NEW i \in 1 .. m, NEW x \in VoiceStates
        PROVE  (IF v \in q[i].of THEN Obeyed(q[i].op, x) ELSE x) \in VoiceStates
    BY <1>1, ObeyedType
  <2> QED BY <2>1
<1>3. \A i \in 1 .. m : i \in 0 .. m /\ i - 1 \in 0 .. m /\ i # 0
  BY <1>1
<1>4. \A x \in VoiceStates, i \in 1 .. m : G[i][x] = IF v \in q[i].of THEN Obeyed(q[i].op, x) ELSE x
  OBVIOUS
<1> HIDE DEF G, m
<1>5. PICK f : Steps(m, VoiceStates, s, G, f)
  BY <1>1, <1>2, RecursionExists
<1>6. f = [i \in 0 .. m |-> FateStep(s, q, v, f, i)]
  <2>1. f \in [0 .. m -> VoiceStates] /\ f[0] = s /\ \A i \in 1 .. m : f[i] = G[i][f[i - 1]]
    BY <1>5 DEF Steps
  <2>2. ASSUME NEW i \in 0 .. m PROVE f[i] = FateStep(s, q, v, f, i)
    <3>1. CASE i = 0
      BY <2>1, <3>1 DEF FateStep
    <3>2. CASE i # 0
      <4>1. i \in 1 .. m
        BY <1>1, <3>2
      <4>2. f[i] = IF v \in q[i].of THEN Obeyed(q[i].op, f[i - 1]) ELSE f[i - 1]
        BY <1>3, <1>4, <2>1, <4>1
      <4> QED BY <3>2, <4>2 DEF FateStep
    <3> QED BY <3>1, <3>2
  <2> QED BY <2>1, <2>2
<1>7. h = [i \in 0 .. m |-> FateStep(s, q, v, h, i)]
  BY <1>6, Zenon DEF Fates, m
<1> HIDE DEF h
<1>8. \A i \in 0 .. m : h[i] = FateStep(s, q, v, h, i)
  BY <1>7, Zenon
<1>9. h[0] = s
  BY <1>1, <1>8 DEF FateStep
<1>10. \A i \in 1 .. m : h[i] = IF v \in q[i].of THEN Obeyed(q[i].op, h[i - 1]) ELSE h[i - 1]
  BY <1>3, <1>8 DEF FateStep
<1>11. h = [i \in 0 .. m |-> h[i]]
  BY <1>7, <1>8
<1>12. Steps(m, VoiceStates, s, G, h)
  <2>1. \A i \in 1 .. m : h[i - 1] \in VoiceStates => h[i] = G[i][h[i - 1]]
    BY <1>4, <1>10
  <2> QED BY <1>1, <1>2, <1>9, <1>11, <2>1, RecursionIsIn
<1> QED BY <1>9, <1>10, <1>12 DEF Steps, h, m

LEMMA OutcomeType ==
  ASSUME NEW s \in VoiceStates, NEW q \in Seq(Command), NEW v
  PROVE  Outcome(s, q, v) \in VoiceStates
<1>1. Len(q) \in 0 .. Len(q)
  OBVIOUS
<1> QED BY <1>1, FatesAre DEF Outcome

LEMMA OutcomeOfNone ==
  ASSUME NEW s \in VoiceStates, NEW q \in Seq(Command), Len(q) = 0, NEW v
  PROVE  Outcome(s, q, v) = s
<1>1. \A p \in Seq(Command) : Fates(s, p, v)[0] = s
  BY FatesAre
<1> QED BY <1>1 DEF Outcome

\* A command that is queued last is obeyed last.
LEMMA OutcomeOfAppend ==
  ASSUME NEW s \in VoiceStates, NEW q \in Seq(Command), NEW cmd \in Command, NEW v
  PROVE  Outcome(s, Append(q, cmd), v)
           = IF v \in cmd.of THEN Obeyed(cmd.op, Outcome(s, q, v)) ELSE Outcome(s, q, v)
<1> DEFINE p == Append(q, cmd)
           f == Fates(s, q, v)
           g == Fates(s, p, v)
           S == {i \in Nat : i <= Len(q) => g[i] = f[i]}
<1>1. /\ p \in Seq(Command) /\ Len(p) = Len(q) + 1 /\ Len(q) \in Nat /\ p[Len(q) + 1] = cmd
      /\ \A i \in 1 .. Len(q) : p[i] = q[i]
  OBVIOUS
<1>2. /\ f[0] = s
      /\ \A i \in 1 .. Len(q) : f[i] = IF v \in q[i].of THEN Obeyed(q[i].op, f[i - 1]) ELSE f[i - 1]
  BY FatesAre
<1> HIDE DEF p
<1>3. /\ g[0] = s
      /\ \A i \in 1 .. Len(p) : g[i] = IF v \in p[i].of THEN Obeyed(p[i].op, g[i - 1]) ELSE g[i - 1]
  BY <1>1, FatesAre
<1> HIDE DEF f, g
<1>4. 0 \in S
  BY <1>2, <1>3
<1>5. ASSUME NEW i \in Nat, i \in S PROVE i + 1 \in S
  <2> SUFFICES ASSUME i + 1 <= Len(q) PROVE g[i + 1] = f[i + 1]
    OBVIOUS
  <2>1. /\ i + 1 \in 1 .. Len(q) /\ i + 1 \in 1 .. Len(p) /\ (i + 1) - 1 = i /\ i <= Len(q)
    BY <1>1
  <2>2. g[i] = f[i]
    BY <1>5, <2>1
  <2> QED BY <1>1, <1>2, <1>3, <2>1, <2>2
<1>6. g[Len(q)] = f[Len(q)]
  <2>1. Len(q) \in S
    <3> HIDE DEF S
    <3> QED BY <1>1, <1>4, <1>5, NatSetInduction
  <2> QED BY <1>1, <2>1
<1>7. g[Len(p)] = IF v \in cmd.of THEN Obeyed(cmd.op, f[Len(q)]) ELSE f[Len(q)]
  <2>1. Len(p) \in 1 .. Len(p) /\ Len(p) - 1 = Len(q)
    BY <1>1
  <2> QED BY <1>1, <1>3, <1>6, <2>1
<1> QED BY <1>7 DEF Outcome, p, f, g

\* A voice that is only told to play stays as it is, or plays.
LEMMA OutcomeOfPlays ==
  ASSUME NEW s \in VoiceStates, NEW q \in Seq(Command), NEW v,
         \A i \in DOMAIN q : v \in q[i].of => q[i].op = "play"
  PROVE  Outcome(s, q, v) = s \/ (Outcome(s, q, v) = "playing" /\ Addressed(q, v))
<1> DEFINE f == Fates(s, q, v)
           Near(i) == f[i] = s \/ (f[i] = "playing" /\ Addressed(q, v))
           S == {i \in Nat : i <= Len(q) => Near(i)}
<1>1. Len(q) \in Nat /\ DOMAIN q = 1 .. Len(q)
  OBVIOUS
<1>2. /\ f[0] = s
      /\ \A i \in 1 .. Len(q) : f[i] = IF v \in q[i].of THEN Obeyed(q[i].op, f[i - 1]) ELSE f[i - 1]
  BY FatesAre
<1> HIDE DEF f
<1>3. 0 \in S
  BY <1>2
<1>4. ASSUME NEW i \in Nat, i \in S PROVE i + 1 \in S
  <2> SUFFICES ASSUME i + 1 <= Len(q) PROVE Near(i + 1)
    OBVIOUS
  <2>1. i + 1 \in 1 .. Len(q) /\ (i + 1) - 1 = i /\ i <= Len(q)
    BY <1>1
  <2>2. Near(i)
    BY <1>4, <2>1
  <2>3. v \in q[i + 1].of => q[i + 1].op = "play" /\ Addressed(q, v)
    BY <1>1, <2>1 DEF Addressed
  <2> QED BY <1>2, <2>1, <2>2, <2>3 DEF Obeyed
<1>5. Len(q) \in S
  <2> HIDE DEF S
  <2> QED BY <1>1, <1>3, <1>4, NatSetInduction
<1> QED BY <1>1, <1>5 DEF Outcome, f

\* A voice that reaches its end while commands are on their way becomes what
\* it would have, or ends where it would have sounded on.
LEMMA OutcomeOfEnding ==
  ASSUME NEW s \in Sounding, NEW q \in Seq(Command), NEW v
  PROVE  \/ Outcome(s, q, v) = Outcome("stopped", q, v)
         \/ Outcome(s, q, v) \in Sounding /\ Ending(Outcome("stopped", q, v))
<1> DEFINE f == Fates(s, q, v)
           g == Fates("stopped", q, v)
           Near(i) == f[i] = g[i] \/ (f[i] \in Sounding /\ Ending(g[i]))
           S == {i \in Nat : i <= Len(q) => Near(i)}
<1>1. Len(q) \in Nat /\ s \in VoiceStates /\ "stopped" \in VoiceStates
  BY DEF Sounding, VoiceStates
<1>2. /\ f[0] = s
      /\ \A i \in 1 .. Len(q) : /\ q[i] \in Command
                                /\ f[i] = IF v \in q[i].of THEN Obeyed(q[i].op, f[i - 1]) ELSE f[i - 1]
  BY <1>1, FatesAre
<1>3. /\ g[0] = "stopped"
      /\ \A i \in 1 .. Len(q) : g[i] = IF v \in q[i].of THEN Obeyed(q[i].op, g[i - 1]) ELSE g[i - 1]
  BY <1>1, FatesAre
<1> HIDE DEF f, g
<1>4. 0 \in S
  BY <1>2, <1>3 DEF Ending
<1>5. ASSUME NEW i \in Nat, i \in S PROVE i + 1 \in S
  <2> SUFFICES ASSUME i + 1 <= Len(q) PROVE Near(i + 1)
    OBVIOUS
  <2>1. i + 1 \in 1 .. Len(q) /\ (i + 1) - 1 = i /\ i <= Len(q)
    BY <1>1
  <2>2. Near(i)
    BY <1>5, <2>1
  <2> DEFINE op == q[i + 1].op
  <2>3. op \in {"play", "pause", "resume", "fade", "cut", "marked"}
    BY <1>2, <2>1 DEF Command
  <2>4. CASE v \in q[i + 1].of
    <3>1. f[i + 1] = Obeyed(op, f[i]) /\ g[i + 1] = Obeyed(op, g[i])
      BY <1>2, <1>3, <2>1, <2>4
    <3>2. Obeyed(op, f[i]) = Obeyed(op, g[i])
      BY <2>2, <2>3 DEF Obeyed, Sounding, Ending
    <3> QED BY <3>1, <3>2
  <2>5. CASE v \notin q[i + 1].of
    BY <1>2, <1>3, <2>1, <2>2, <2>5
  <2> QED BY <2>4, <2>5
<1>6. Len(q) \in S
  <2> HIDE DEF S
  <2> QED BY <1>1, <1>4, <1>5, NatSetInduction
<1> QED BY <1>1, <1>6 DEF Outcome, f, g

(***************************************************************************)
(* The rings                                                               *)
(***************************************************************************)
LEMMA TellType ==
  ASSUME NEW op \in {"play", "pause", "resume", "fade", "cut", "marked"}, NEW v \in Voice
  PROVE  /\ Tell(op, v) \in Command /\ Tell(op, v).op = op
         /\ \A w : w \in Tell(op, v).of <=> w = v
BY DEF Tell, Command

LEMMA PushedType ==
  ASSUME NEW rings \in Rings, NEW ds, NEW cmd \in Command
  PROVE  /\ Pushed(rings, ds, cmd) \in Rings
         /\ \A d \in Device : Pushed(rings, ds, cmd)[d]
              = IF d \in ds /\ ~Full(rings[d]) THEN Append(rings[d], cmd) ELSE rings[d]
<1>1. \A d \in Device : rings[d] \in Seq(Command) /\ Len(rings[d]) <= RingCapacity
  BY DEF Rings
<1>2. ASSUME NEW d \in Device, ~Full(rings[d])
      PROVE  Append(rings[d], cmd) \in Seq(Command) /\ Len(Append(rings[d], cmd)) <= RingCapacity
  <2>1. Len(rings[d]) < RingCapacity
    BY <1>1, <1>2, BoundAssumption DEF Full
  <2>2. Len(Append(rings[d], cmd)) = Len(rings[d]) + 1
    BY <1>1
  <2> QED BY <1>1, <2>1, <2>2, BoundAssumption
<1> QED BY <1>1, <1>2 DEF Pushed, Rings

\* A command for one voice leaves the others as they are.
LEMMA PushedOutcome ==
  ASSUME NEW rings \in Rings, NEW ds, NEW cmd \in Command, NEW d \in Device,
         NEW s \in VoiceStates, NEW v
  PROVE  Outcome(s, Pushed(rings, ds, cmd)[d], v)
           = IF v \in cmd.of /\ d \in ds /\ ~Full(rings[d])
             THEN Obeyed(cmd.op, Outcome(s, rings[d], v)) ELSE Outcome(s, rings[d], v)
<1>1. rings[d] \in Seq(Command)
  BY DEF Rings
<1> QED BY <1>1, PushedType, OutcomeOfAppend

(***************************************************************************)
(* What the cues do one after the other                                    *)
(***************************************************************************)
\* What the first ring has and every cut keeps, the rings of a panic have.
LEMMA CutsAreIn ==
  ASSUME NEW V, ring \in V,
         \A at \in V, c \in Cue : CutBy(at, c) \in V
  PROVE  Cuts \in V
<1> DEFINE m == Len(CueOrder)
           G == [i \in 1 .. m |-> [at \in V |-> CutBy(at, CueOrder[i])]]
           h == CHOOSE at : at = [i \in Visits |-> CutStep(at, i)]
<1>1. /\ m \in Nat /\ Visits = 0 .. m /\ \A i \in 1 .. m : CueOrder[i] \in Cue
      /\ \A i \in 1 .. m : i \in 0 .. m /\ i - 1 \in 0 .. m /\ i # 0
      /\ \A i \in 0 .. m : i # 0 => i \in 1 .. m
  BY OrderAssumption DEF Visits
<1> HIDE DEF m
<1>2. G \in [1 .. m -> [V -> V]]
  BY <1>1
<1>3. \A at \in V, i \in 1 .. m : G[i][at] = CutBy(at, CueOrder[i])
  OBVIOUS
<1> HIDE DEF G
<1>4. PICK f : Steps(m, V, ring, G, f)
  BY <1>1, <1>2, RecursionExists
<1>5. f = [i \in Visits |-> CutStep(f, i)]
  <2>1. f \in [0 .. m -> V] /\ f[0] = ring /\ \A i \in 1 .. m : f[i] = G[i][f[i - 1]]
    BY <1>4 DEF Steps
  <2>2. ASSUME NEW i \in 0 .. m PROVE f[i] = CutStep(f, i)
    <3>1. CASE i = 0
      BY <2>1, <3>1 DEF CutStep
    <3>2. CASE i # 0
      <4>1. i \in 1 .. m /\ f[i - 1] \in V
        BY <1>1, <2>1, <3>2
      <4>2. f[i] = CutBy(f[i - 1], CueOrder[i])
        BY <1>3, <2>1, <4>1
      <4> QED BY <3>2, <4>2 DEF CutStep
    <3> QED BY <3>1, <3>2
  <2> QED BY <1>1, <2>1, <2>2
<1>6. h = [i \in Visits |-> CutStep(h, i)]
  BY <1>5, Zenon
<1>7. Cuts = h[m]
  BY Zenon DEF Cuts, m
<1> HIDE DEF h
<1>8. \A i \in 0 .. m : h[i] = CutStep(h, i)
  BY <1>1, <1>6, Zenon
<1>9. h[0] = ring /\ h = [i \in 0 .. m |-> h[i]]
  <2>1. 0 \in 0 .. m
    BY <1>1
  <2>2. h[0] = ring
    BY <1>8, <2>1 DEF CutStep
  <2> QED BY <1>1, <1>6, <1>8, <2>2
<1>10. \A i \in 1 .. m : h[i] = CutBy(h[i - 1], CueOrder[i])
  BY <1>1, <1>8 DEF CutStep
<1>11. Steps(m, V, ring, G, h)
  <2>1. \A i \in 1 .. m : h[i - 1] \in V => h[i] = G[i][h[i - 1]]
    BY <1>3, <1>10
  <2> QED BY <1>1, <1>2, <1>9, <2>1, RecursionIsIn
<1>12. h[m] \in V
  BY <1>1, <1>11 DEF Steps
<1> QED BY <1>7, <1>12

\* What a tick is entered with and every cue keeps, the guard leaves.
LEMMA GuardedIsIn ==
  ASSUME NEW now, NEW V, Entered \in V,
         \A at \in V, c \in Cue : GuardedBy(now, at, c) \in V
  PROVE  Guarded(now) \in V
<1> DEFINE m == Len(CueOrder)
           G == [i \in 1 .. m |-> [at \in V |-> GuardedBy(now, at, CueOrder[i])]]
           h == CHOOSE at : at = [i \in Visits |-> GuardStep(now, at, i)]
<1>1. /\ m \in Nat /\ Visits = 0 .. m /\ \A i \in 1 .. m : CueOrder[i] \in Cue
      /\ \A i \in 1 .. m : i \in 0 .. m /\ i - 1 \in 0 .. m /\ i # 0
      /\ \A i \in 0 .. m : i # 0 => i \in 1 .. m
  BY OrderAssumption DEF Visits
<1> HIDE DEF m
<1>2. G \in [1 .. m -> [V -> V]]
  BY <1>1
<1>3. \A at \in V, i \in 1 .. m : G[i][at] = GuardedBy(now, at, CueOrder[i])
  OBVIOUS
<1> HIDE DEF G
<1>4. PICK f : Steps(m, V, Entered, G, f)
  BY <1>1, <1>2, RecursionExists
<1>5. f = [i \in Visits |-> GuardStep(now, f, i)]
  <2>1. f \in [0 .. m -> V] /\ f[0] = Entered /\ \A i \in 1 .. m : f[i] = G[i][f[i - 1]]
    BY <1>4 DEF Steps
  <2>2. ASSUME NEW i \in 0 .. m PROVE f[i] = GuardStep(now, f, i)
    <3>1. CASE i = 0
      BY <2>1, <3>1 DEF GuardStep
    <3>2. CASE i # 0
      <4>1. i \in 1 .. m /\ f[i - 1] \in V
        BY <1>1, <2>1, <3>2
      <4>2. f[i] = GuardedBy(now, f[i - 1], CueOrder[i])
        BY <1>3, <2>1, <4>1
      <4> QED BY <3>2, <4>2 DEF GuardStep
    <3> QED BY <3>1, <3>2
  <2> QED BY <1>1, <2>1, <2>2
<1>6. h = [i \in Visits |-> GuardStep(now, h, i)]
  BY <1>5, Zenon
<1>7. Guarded(now) = h[m]
  BY Zenon DEF Guarded, m
<1> HIDE DEF h
<1>8. \A i \in 0 .. m : h[i] = GuardStep(now, h, i)
  BY <1>1, <1>6, Zenon
<1>9. h[0] = Entered /\ h = [i \in 0 .. m |-> h[i]]
  <2>1. 0 \in 0 .. m
    BY <1>1
  <2>2. h[0] = Entered
    BY <1>8, <2>1 DEF GuardStep
  <2> QED BY <1>1, <1>6, <1>8, <2>2
<1>10. \A i \in 1 .. m : h[i] = GuardedBy(now, h[i - 1], CueOrder[i])
  BY <1>1, <1>8 DEF GuardStep
<1>11. Steps(m, V, Entered, G, h)
  <2>1. \A i \in 1 .. m : h[i - 1] \in V => h[i] = G[i][h[i - 1]]
    BY <1>3, <1>10
  <2> QED BY <1>1, <1>2, <1>9, <2>1, RecursionIsIn
<1>12. h[m] \in V
  BY <1>1, <1>11 DEF Steps
<1> QED BY <1>7, <1>12

\* What the guard leaves and every cue keeps, the ticks of the cues leave.
LEMMA TickedIsIn ==
  ASSUME NEW from, NEW ready, NEW fading, NEW V, from \in V,
         \A at \in V, c \in Cue : CueTick(at, c, ready, fading) \in V
  PROVE  Ticked(from, ready, fading) \in V
<1> DEFINE m == Len(CueOrder)
           G == [i \in 1 .. m |-> [at \in V |-> CueTick(at, CueOrder[i], ready, fading)]]
           h == CHOOSE at : at = [i \in Visits |-> TickStep(from, ready, fading, at, i)]
<1>1. /\ m \in Nat /\ Visits = 0 .. m /\ \A i \in 1 .. m : CueOrder[i] \in Cue
      /\ \A i \in 1 .. m : i \in 0 .. m /\ i - 1 \in 0 .. m /\ i # 0
      /\ \A i \in 0 .. m : i # 0 => i \in 1 .. m
  BY OrderAssumption DEF Visits
<1> HIDE DEF m
<1>2. G \in [1 .. m -> [V -> V]]
  BY <1>1
<1>3. \A at \in V, i \in 1 .. m : G[i][at] = CueTick(at, CueOrder[i], ready, fading)
  OBVIOUS
<1> HIDE DEF G
<1>4. PICK f : Steps(m, V, from, G, f)
  BY <1>1, <1>2, RecursionExists
<1>5. f = [i \in Visits |-> TickStep(from, ready, fading, f, i)]
  <2>1. f \in [0 .. m -> V] /\ f[0] = from /\ \A i \in 1 .. m : f[i] = G[i][f[i - 1]]
    BY <1>4 DEF Steps
  <2>2. ASSUME NEW i \in 0 .. m PROVE f[i] = TickStep(from, ready, fading, f, i)
    <3>1. CASE i = 0
      BY <2>1, <3>1 DEF TickStep
    <3>2. CASE i # 0
      <4>1. i \in 1 .. m /\ f[i - 1] \in V
        BY <1>1, <2>1, <3>2
      <4>2. f[i] = CueTick(f[i - 1], CueOrder[i], ready, fading)
        BY <1>3, <2>1, <4>1
      <4> QED BY <3>2, <4>2 DEF TickStep
    <3> QED BY <3>1, <3>2
  <2> QED BY <1>1, <2>1, <2>2
<1>6. h = [i \in Visits |-> TickStep(from, ready, fading, h, i)]
  BY <1>5, Zenon
<1>7. Ticked(from, ready, fading) = h[m]
  BY Zenon DEF Ticked, m
<1> HIDE DEF h
<1>8. \A i \in 0 .. m : h[i] = TickStep(from, ready, fading, h, i)
  BY <1>1, <1>6, Zenon
<1>9. h[0] = from /\ h = [i \in 0 .. m |-> h[i]]
  <2>1. 0 \in 0 .. m
    BY <1>1
  <2>2. h[0] = from
    BY <1>8, <2>1 DEF TickStep
  <2> QED BY <1>1, <1>6, <1>8, <2>2
<1>10. \A i \in 1 .. m : h[i] = CueTick(h[i - 1], CueOrder[i], ready, fading)
  BY <1>1, <1>8 DEF TickStep
<1>11. Steps(m, V, from, G, h)
  <2>1. \A i \in 1 .. m : h[i - 1] \in V => h[i] = G[i][h[i - 1]]
    BY <1>3, <1>10
  <2> QED BY <1>1, <1>2, <1>9, <2>1, RecursionIsIn
<1>12. h[m] \in V
  BY <1>1, <1>11 DEF Steps
<1> QED BY <1>7, <1>12

(***************************************************************************)
(* The invariant                                                           *)
(***************************************************************************)
PoolsApart == pool["main"] \cap pool["aux"] = {}
HandlesApart == \A c, x \in Cue : handle[c] = handle[x] /\ handle[c] # NoVoice => c = x

\* A cue that is paused, or waits for its stream, has told its voice so, and
\* nothing on its way tells the voice otherwise.
MainIsQuiet ==
  \A c \in Cue : (state[c] = "paused" \/ waiting[c]) /\ handle[c] \in pool["main"] \ adrift
                   => Fate(ring["main"], handle[c]) \notin Sounding

AudioInv == TypeOK /\ PoolsApart /\ HandlesApart /\ StraysAreAccounted /\ MainIsQuiet

LEMMA InvIsSilent == ASSUME TypeOK, MainIsQuiet PROVE PausedIsSilent
<1> SUFFICES ASSUME NEW c \in Cue, state[c] = "paused", handle[c] \in pool["main"] \ adrift,
                    Queued("main", handle[c]) = {}
             PROVE  voice[handle[c]] \notin Sounding
  BY DEF PausedIsSilent
<1> DEFINE v == handle[c]
           q == ring["main"]
<1>1. "main" \in Device
  BY DEF Device
<1>2. q \in Seq(Command) /\ v \in Voice /\ voice[v] \in VoiceStates
  BY <1>1 DEF TypeOK, Rings, DevicesOK, VoicesOK
<1>3. \A i \in DOMAIN q : v \notin q[i].of
  BY DEF Queued
<1>4. Outcome(voice[v], q, v) \notin Sounding
  BY DEF MainIsQuiet, Fate
<1> HIDE DEF q, v
<1>5. Outcome(voice[v], q, v) = voice[v] \/ Outcome(voice[v], q, v) = "playing"
  BY <1>2, <1>3, OutcomeOfPlays
<1> QED BY <1>4, <1>5 DEF Sounding, v

(***************************************************************************)
(* What a tick works on                                                    *)
(***************************************************************************)
Work == [ring : Rings, state : [Cue -> CueStates], auto : SUBSET Cue, waiting : [Cue -> BOOLEAN],
         fadeSent : [Cue -> BOOLEAN], lost : SUBSET Voice]

\* What is on its way to voices that no cue holds has the same end.
StraysKept(at) ==
  \A d \in Device, v \in Voice : ~Held(v) => Fate(at.ring[d], v) = Fate(ring[d], v)
QuietFor(at, c) ==
  (at.state[c] = "paused" \/ at.waiting[c]) /\ handle[c] \in pool["main"] \ (adrift \cup at.lost)
    => Fate(at.ring["main"], handle[c]) \notin Sounding
Good == {at \in Work : StraysKept(at) /\ \A c \in Cue : QuietFor(at, c)}

LEMMA EnteredIsGood == ASSUME TypeOK, MainIsQuiet PROVE Entered \in Good
<1>1. Entered \in Work
  BY DEF Entered, Work, TypeOK, CuesOK, LoopOK
<1>2. StraysKept(Entered) /\ \A c \in Cue : QuietFor(Entered, c)
  BY DEF Entered, StraysKept, QuietFor, MainIsQuiet
<1> QED BY <1>1, <1>2 DEF Good

\* A cue that tells its own voice something leaves all other voices alone.
Ops == {"play", "pause", "resume", "fade", "cut", "marked"}
Own(at, rings, ds, op, c) ==
  /\ rings \in Rings
  /\ \A d \in Device, v \in Voice : v # handle[c] => Fate(rings[d], v) = Fate(at.ring[d], v)
  /\ Fate(rings["main"], handle[c])
       = IF "main" \in ds /\ ~Full(at.ring["main"])
         THEN Obeyed(op, Fate(at.ring["main"], handle[c])) ELSE Fate(at.ring["main"], handle[c])

LEMMA TellsItsOwn ==
  ASSUME TypeOK, HandlesApart, NEW at \in Good, NEW c \in Cue, handle[c] # NoVoice, NEW ds,
         NEW op \in Ops
  PROVE  Own(at, Pushed(at.ring, ds, Tell(op, handle[c])), ds, op, c)
<1> DEFINE cmd == Tell(op, handle[c])
           rings == Pushed(at.ring, ds, cmd)
<1>1. handle[c] \in Voice /\ at.ring \in Rings /\ \A v \in Voice : voice[v] \in VoiceStates
  BY DEF TypeOK, CuesOK, VoicesOK, Good, Work
<1>2. cmd \in Command /\ cmd.op = op /\ \A w : w \in cmd.of <=> w = handle[c]
  BY <1>1, TellType DEF Ops
<1>3. rings = Pushed(at.ring, ds, cmd)
  OBVIOUS
<1> HIDE DEF cmd, rings
<1>4. rings \in Rings
  BY <1>1, <1>2, <1>3, PushedType
<1>5. \A d \in Device, v \in Voice :
        Fate(rings[d], v)
          = IF v = handle[c] /\ d \in ds /\ ~Full(at.ring[d])
            THEN Obeyed(op, Fate(at.ring[d], v)) ELSE Fate(at.ring[d], v)
  <2> TAKE d \in Device, v \in Voice
  <2>1. Outcome(voice[v], rings[d], v)
          = IF v \in cmd.of /\ d \in ds /\ ~Full(at.ring[d])
            THEN Obeyed(cmd.op, Outcome(voice[v], at.ring[d], v)) ELSE Outcome(voice[v], at.ring[d], v)
    BY <1>1, <1>2, <1>3, PushedOutcome
  <2> QED BY <1>2, <2>1 DEF Fate
<1>6. "main" \in Device
  BY DEF Device
<1> QED BY <1>1, <1>4, <1>5, <1>6 DEF Own, rings, cmd

\* One cue after the other: what a cue does to itself decides.
LEMMA GoodStep ==
  ASSUME TypeOK, HandlesApart, NEW at \in Good, NEW c \in Cue, handle[c] # NoVoice,
         NEW new \in Work, at.lost \subseteq new.lost,
         \A x \in Cue : x # c => new.state[x] = at.state[x] /\ new.waiting[x] = at.waiting[x],
         \A d \in Device, v \in Voice :
           v # handle[c] => Fate(new.ring[d], v) = Fate(at.ring[d], v),
         QuietFor(new, c)
  PROVE  new \in Good
<1>1. at \in Work /\ StraysKept(at) /\ \A x \in Cue : QuietFor(at, x)
  BY DEF Good
<1>2. StraysKept(new)
  <2> SUFFICES ASSUME NEW d \in Device, NEW v \in Voice, ~Held(v)
               PROVE  Fate(new.ring[d], v) = Fate(ring[d], v)
    BY DEF StraysKept
  <2>1. v # handle[c]
    BY DEF Held
  <2> QED BY <1>1, <2>1 DEF StraysKept
<1>3. ASSUME NEW x \in Cue, x # c PROVE QuietFor(new, x)
  <2> SUFFICES ASSUME new.state[x] = "paused" \/ new.waiting[x],
                      handle[x] \in pool["main"] \ (adrift \cup new.lost)
               PROVE  Fate(new.ring["main"], handle[x]) \notin Sounding
    BY DEF QuietFor
  <2>1. "main" \in Device /\ handle[x] \in Voice
    BY DEF Device, TypeOK, DevicesOK
  <2>2. handle[x] # handle[c]
    BY <1>3 DEF HandlesApart
  <2>3. Fate(at.ring["main"], handle[x]) \notin Sounding
    BY <1>1, <1>3 DEF QuietFor
  <2> QED BY <2>1, <2>2, <2>3
<1> QED BY <1>2, <1>3 DEF Good

LEMMA PausedIsGood ==
  ASSUME TypeOK, HandlesApart, NEW at \in Good, NEW c \in Cue
  PROVE  PausedBy(at, c) \in Good
<1> DEFINE quiet == [at EXCEPT !.state[c] = "paused", !.auto = @ \cup {c}]
           told == [quiet EXCEPT !.ring = PauseVoice(@, handle[c])]
<1>1. at \in Work /\ \A x \in Cue : QuietFor(at, x)
  BY DEF Good
<1>2. /\ quiet \in Work /\ quiet.ring = at.ring /\ quiet.lost = at.lost
      /\ quiet.waiting = at.waiting /\ quiet.state = [at.state EXCEPT ![c] = "paused"]
  BY <1>1 DEF Work, CueStates
<1> HIDE DEF quiet
<1>3. CASE handle[c] # NoVoice /\ at.state[c] = "running" /\ at.waiting[c]
  <2>1. QuietFor(quiet, c)
    BY <1>1, <1>2, <1>3 DEF QuietFor
  <2>2. quiet \in Good
    BY <1>1, <1>2, <1>3, <2>1, GoodStep DEF Work
  <2> QED BY <1>3, <2>2 DEF PausedBy, quiet
<1>4. CASE handle[c] # NoVoice /\ ~at.waiting[c] /\ ~Full(at.ring["main"])
  <2> DEFINE rings == Pushed(at.ring, PauseTo, Tell("pause", handle[c]))
  <2>0. Own(at, rings, PauseTo, "pause", c)
    <3>1. "pause" \in Ops
      BY DEF Ops
    <3> QED BY <1>4, <3>1, TellsItsOwn, Zenon
  <2> HIDE DEF rings
  <2>1. /\ rings \in Rings
        /\ \A d \in Device, v \in Voice : v # handle[c] => Fate(rings[d], v) = Fate(at.ring[d], v)
        /\ Fate(rings["main"], handle[c]) = Obeyed("pause", Fate(at.ring["main"], handle[c]))
    BY <1>4, <2>0 DEF Own, PauseTo
  <2>2. told.ring = rings /\ told.lost = at.lost /\ told.waiting = at.waiting /\ told.state = quiet.state
    BY <1>2 DEF Work, PauseVoice, rings
  <2>3. told \in Work
    BY <1>2, <2>1, <2>2 DEF Work
  <2> HIDE DEF told
  <2>4. QuietFor(told, c)
    BY <2>1, <2>2 DEF QuietFor, Obeyed, Sounding
  <2>5. told \in Good
    BY <1>1, <1>2, <1>4, <2>1, <2>2, <2>3, <2>4, GoodStep DEF Work
  <2> QED BY <1>4, <2>5 DEF PausedBy, told, quiet
<1>5. CASE handle[c] = NoVoice \/ at.state[c] # "running" \/ (~at.waiting[c] /\ Full(at.ring["main"]))
  BY <1>5 DEF PausedBy
<1> QED BY <1>3, <1>4, <1>5

LEMMA ResumedIsGood ==
  ASSUME TypeOK, HandlesApart, NEW at \in Good, NEW c \in Cue
  PROVE  ResumedBy(at, c) \in Good
<1> DEFINE full == FullRings(at.ring)
           missed == IF "main" \in full \/ \E d \in full : handle[c] \in pool[d] THEN {handle[c]} ELSE {}
           rings == Broadcast(at.ring, Tell("resume", handle[c]))
           runs == [at EXCEPT !.state[c] = "running"]
           told == [at EXCEPT !.ring = Broadcast(@, Tell("resume", handle[c])), !.lost = @ \cup missed,
                              !.state[c] = IF "main" \in full THEN @ ELSE "running"]
<1>1. at \in Work /\ \A x \in Cue : QuietFor(at, x)
  BY DEF Good
<1>2. CASE c \notin autoPaused \/ at.state[c] # "paused"
  BY <1>2 DEF ResumedBy
<1>3. CASE c \in autoPaused /\ at.state[c] = "paused" /\ (at.waiting[c] \/ handle[c] = NoVoice)
  <2>1. /\ runs \in Work /\ runs.ring = at.ring /\ runs.lost = at.lost
        /\ runs.waiting = at.waiting /\ runs.state = [at.state EXCEPT ![c] = "running"]
    BY <1>1 DEF Work, CueStates
  <2> HIDE DEF runs
  <2>2. QuietFor(runs, c)
    BY <1>1, <1>3, <2>1 DEF QuietFor
  <2>3. runs \in Good
    <3>1. CASE handle[c] # NoVoice
      BY <1>1, <2>1, <2>2, <3>1, GoodStep DEF Work
    <3>2. CASE handle[c] = NoVoice
      <4>1. NoVoice \notin pool["main"]
        BY VoiceAssumption DEF TypeOK, DevicesOK, Device
      <4>2. StraysKept(runs)
        BY <2>1 DEF StraysKept, Good
      <4>3. \A x \in Cue : QuietFor(runs, x)
        BY <1>1, <2>1, <2>2 DEF QuietFor, Work
      <4> QED BY <2>1, <4>2, <4>3 DEF Good
    <3> QED BY <3>1, <3>2
  <2> QED BY <1>3, <2>3 DEF ResumedBy, runs
<1>4. CASE c \in autoPaused /\ at.state[c] = "paused" /\ ~at.waiting[c] /\ handle[c] # NoVoice
  <2>0. Own(at, rings, Streams, "resume", c)
    <3>1. "resume" \in Ops
      BY DEF Ops
    <3> QED BY <1>4, <3>1, TellsItsOwn, Zenon DEF Broadcast
  <2> HIDE DEF rings
  <2>1. /\ rings \in Rings
        /\ \A d \in Device, v \in Voice : v # handle[c] => Fate(rings[d], v) = Fate(at.ring[d], v)
    BY <1>4, <2>0 DEF Own
  <2>2. missed \in SUBSET Voice /\ ("main" \in full => handle[c] \in missed)
    BY <1>4 DEF TypeOK, CuesOK
  <2> HIDE DEF missed, full
  <2>3. /\ told \in Work /\ told.ring = rings /\ told.lost = at.lost \cup missed
        /\ told.waiting = at.waiting
        /\ told.state = [at.state EXCEPT ![c] = IF "main" \in full THEN @ ELSE "running"]
    BY <1>1, <2>1, <2>2 DEF Work, CueStates, rings
  <2> HIDE DEF told
  <2>4. QuietFor(told, c)
    BY <1>1, <1>4, <2>2, <2>3 DEF QuietFor, Work
  <2>5. told \in Good
    BY <1>1, <1>4, <2>1, <2>3, <2>4, GoodStep DEF Work
  <2> QED BY <1>4, <2>5 DEF ResumedBy, told, missed, full
<1> QED BY <1>2, <1>3, <1>4 DEF Good, Work

LEMMA GuardIsGood ==
  ASSUME TypeOK, HandlesApart, MainIsQuiet, NEW now
  PROVE  Guarded(now) \in Good
<1>1. \A at \in Good, c \in Cue : GuardedBy(now, at, c) \in Good
  BY PausedIsGood, ResumedIsGood DEF GuardedBy
<1> QED BY <1>1, EnteredIsGood, GuardedIsIn

LEMMA StreamIsGood ==
  ASSUME TypeOK, HandlesApart, NEW at \in Good, NEW c \in Cue, at.state[c] = "running"
  PROVE  StreamStarts(at, c) \in Good /\ StreamStarts(at, c).state = at.state
<1> DEFINE full == FullRings(at.ring)
           missed == IF "main" \notin full /\ \E d \in full : handle[c] \in pool[d] THEN {handle[c]} ELSE {}
           rings == Broadcast(at.ring, Tell("resume", handle[c]))
           told == [at EXCEPT !.ring = Broadcast(@, Tell("resume", handle[c])),
                              !.waiting[c] = "main" \in full, !.lost = @ \cup missed]
<1>1. at \in Work /\ \A x \in Cue : QuietFor(at, x)
  BY DEF Good
<1>2. CASE ~at.waiting[c] \/ handle[c] = NoVoice
  BY <1>2 DEF StreamStarts
<1>3. CASE at.waiting[c] /\ handle[c] # NoVoice
  <2>0. Own(at, rings, Streams, "resume", c)
    <3>1. "resume" \in Ops
      BY DEF Ops
    <3> QED BY <1>3, <3>1, TellsItsOwn, Zenon DEF Broadcast
  <2> HIDE DEF rings
  <2>1. /\ rings \in Rings
        /\ \A d \in Device, v \in Voice : v # handle[c] => Fate(rings[d], v) = Fate(at.ring[d], v)
        /\ Full(at.ring["main"]) => Fate(rings["main"], handle[c]) = Fate(at.ring["main"], handle[c])
    BY <1>3, <2>0 DEF Own
  <2>2. /\ missed \in SUBSET Voice /\ ("main" \in full) \in BOOLEAN
        /\ "main" \in full <=> Full(at.ring["main"])
    BY <1>3 DEF TypeOK, CuesOK, FullRings, Device
  <2> HIDE DEF missed, full
  <2>3. /\ told \in Work /\ told.ring = rings /\ told.lost = at.lost \cup missed
        /\ told.waiting = [at.waiting EXCEPT ![c] = "main" \in full] /\ told.state = at.state
    BY <1>1, <2>1, <2>2 DEF Work, rings
  <2> HIDE DEF told
  <2>4. QuietFor(told, c)
    BY <1>1, <1>3, <2>1, <2>2, <2>3 DEF QuietFor, Work
  <2>5. told \in Good
    BY <1>1, <1>3, <2>1, <2>3, <2>4, GoodStep DEF Work
  <2> QED BY <1>3, <2>3, <2>5 DEF StreamStarts, told, missed, full
<1> QED BY <1>2, <1>3

LEMMA FadeIsGood ==
  ASSUME TypeOK, HandlesApart, NEW at \in Good, NEW c \in Cue, at.state[c] = "running"
  PROVE  FadeStarts(at, c) \in Good
<1> DEFINE rings == Broadcast(at.ring, Tell("fade", handle[c]))
           told == [at EXCEPT !.ring = Broadcast(@, Tell("fade", handle[c])), !.fadeSent[c] = TRUE]
<1>1. at \in Work /\ \A x \in Cue : QuietFor(at, x)
  BY DEF Good
<1>2. CASE ~at.waiting[c] /\ handle[c] # NoVoice
  <2>0. Own(at, rings, Streams, "fade", c)
    <3>1. "fade" \in Ops
      BY DEF Ops
    <3> QED BY <1>2, <3>1, TellsItsOwn, Zenon DEF Broadcast
  <2> HIDE DEF rings
  <2>1. /\ rings \in Rings
        /\ \A d \in Device, v \in Voice : v # handle[c] => Fate(rings[d], v) = Fate(at.ring[d], v)
    BY <1>2, <2>0 DEF Own
  <2>2. /\ told \in Work /\ told.ring = rings /\ told.lost = at.lost
        /\ told.waiting = at.waiting /\ told.state = at.state
    BY <1>1, <2>1 DEF Work, rings
  <2> HIDE DEF told
  <2>3. QuietFor(told, c)
    BY <1>2, <2>2 DEF QuietFor
  <2>4. told \in Good
    BY <1>1, <1>2, <2>1, <2>2, <2>3, GoodStep DEF Work
  <2> QED BY <2>4 DEF FadeStarts, told
<1>3. CASE at.waiting[c] \/ handle[c] = NoVoice
  BY <1>3 DEF FadeStarts
<1> QED BY <1>2, <1>3

LEMMA TicksAreGood ==
  ASSUME TypeOK, HandlesApart, NEW from \in Good, NEW ready, NEW fading
  PROVE  Ticked(from, ready, fading) \in Good
<1>1. ASSUME NEW at \in Good, NEW c \in Cue PROVE CueTick(at, c, ready, fading) \in Good
  <2>1. CASE at.state[c] = "running"
    <3>1. StreamStarts(at, c) \in Good /\ StreamStarts(at, c).state[c] = "running"
      BY <2>1, StreamIsGood
    <3> DEFINE begun == IF c \in ready THEN StreamStarts(at, c) ELSE at
    <3>2. begun \in Good /\ begun.state[c] = "running"
      BY <2>1, <3>1
    <3> HIDE DEF begun
    <3>3. FadeStarts(begun, c) \in Good
      BY <3>2, FadeIsGood
    <3> QED BY <2>1, <3>2, <3>3 DEF CueTick, begun
  <2> QED BY <2>1 DEF CueTick
<1> QED BY <1>1, TickedIsIn

(***************************************************************************)
(* The operator                                                            *)
(***************************************************************************)
\* What every step but those that count owes to the invariant.
Kept == /\ CuesOK /\ VoicesOK /\ DevicesOK /\ ring \in Rings /\ LoopOK
        /\ PoolsApart /\ HandlesApart /\ StraysAreAccounted /\ MainIsQuiet

\* What is seen of a voice by a step that leaves it and its commands alone.
LEMMA FateOfOthers ==
  ASSUME NEW d \in Device, NEW v \in Voice, voice'[v] = voice[v],
         Outcome(voice[v], ring'[d], v) = Outcome(voice[v], ring[d], v)
  PROVE  Fate(ring[d], v)' = Fate(ring[d], v)
BY DEF Fate

LEMMA UnaddressedFate ==
  ASSUME NEW q \in Seq(Command), NEW s \in VoiceStates, NEW v, ~Addressed(q, v)
  PROVE  Outcome(s, q, v) = s
<1>1. \A i \in DOMAIN q : v \in q[i].of => q[i].op = "play"
  BY DEF Addressed
<1> QED BY <1>1, OutcomeOfPlays

\* Nothing the invariant speaks of changes.
LEMMA NothingChanges ==
  ASSUME AudioInv, UNCHANGED <<state, handle, waiting, voice, pool, ring, adrift>>
  PROVE  (PoolsApart /\ HandlesApart /\ StraysAreAccounted /\ MainIsQuiet)'
BY DEF AudioInv, PoolsApart, HandlesApart, StraysAreAccounted, MainIsQuiet, Held, Fate

LEMMA LoadKeeps == ASSUME AudioInv, NEW d \in Device, Load(d) PROVE Kept'
<1>1. (PoolsApart /\ HandlesApart /\ StraysAreAccounted /\ MainIsQuiet)'
  BY NothingChanges DEF Load, cueVars, linkVars
<1>2. (CuesOK /\ VoicesOK /\ ring \in Rings /\ LoopOK)'
  BY DEF Load, AudioInv, TypeOK, CuesOK, VoicesOK, LoopOK, cueVars, linkVars, loopVars
<1>3. DevicesOK'
  BY VoiceAssumption DEF Load, AudioInv, TypeOK, DevicesOK, NoBlock, linkVars
<1> QED BY <1>1, <1>2, <1>3 DEF Kept

LEMMA DeviceLostKeeps == ASSUME AudioInv, NEW d \in Device, DeviceLost(d) PROVE Kept'
<1>1. (PoolsApart /\ HandlesApart /\ StraysAreAccounted /\ MainIsQuiet)'
  BY NothingChanges DEF DeviceLost, cueVars
<1>2. (CuesOK /\ VoicesOK /\ ring \in Rings /\ LoopOK)'
  BY DEF DeviceLost, AudioInv, TypeOK, CuesOK, VoicesOK, LoopOK, cueVars, loopVars
<1>3. DevicesOK'
  BY DEF DeviceLost, AudioInv, TypeOK, DevicesOK, NoBlock
<1> QED BY <1>1, <1>2, <1>3 DEF Kept

LEMMA DeviceReturnsKeeps == ASSUME AudioInv, DeviceReturns PROVE Kept'
<1>1. (PoolsApart /\ HandlesApart /\ StraysAreAccounted /\ MainIsQuiet)'
  BY NothingChanges DEF DeviceReturns, cueVars, rtVars
<1>2. (CuesOK /\ VoicesOK /\ ring \in Rings /\ LoopOK)'
  BY DEF DeviceReturns, AudioInv, TypeOK, CuesOK, VoicesOK, LoopOK, cueVars, loopVars, rtVars
<1>3. DevicesOK'
  BY DEF DeviceReturns, AudioInv, TypeOK, DevicesOK, rtVars
<1> QED BY <1>1, <1>2, <1>3 DEF Kept

LEMMA ClockPassesKeeps == ASSUME AudioInv, NEW c \in Cue, ClockPasses(c) PROVE Kept'
<1>1. (PoolsApart /\ HandlesApart /\ StraysAreAccounted /\ MainIsQuiet)'
  BY NothingChanges DEF ClockPasses, linkVars, rtVars
<1>2. (VoicesOK /\ DevicesOK /\ ring \in Rings /\ LoopOK)'
  BY DEF ClockPasses, AudioInv, TypeOK, VoicesOK, DevicesOK, LoopOK, linkVars, loopVars, rtVars
<1>3. CuesOK'
  BY DEF ClockPasses, AudioInv, TypeOK, CuesOK
<1> QED BY <1>1, <1>2, <1>3 DEF Kept

LEMMA TickBusyKeeps == ASSUME AudioInv, TickBusy PROVE Kept'
<1>1. (PoolsApart /\ HandlesApart /\ StraysAreAccounted /\ MainIsQuiet)'
  BY NothingChanges DEF TickBusy, cueVars, rtVars
<1>2. (CuesOK /\ VoicesOK /\ ring \in Rings /\ LoopOK)'
  BY DEF TickBusy, AudioInv, TypeOK, CuesOK, VoicesOK, LoopOK, cueVars, loopVars, rtVars
<1>3. DevicesOK'
  BY DEF TickBusy, AudioInv, TypeOK, DevicesOK, rtVars
<1> QED BY <1>1, <1>2, <1>3 DEF Kept

\* A voice that nothing mentions has nothing on its way, and no cue.
LEMMA FreshVoice ==
  ASSUME AudioInv, NEW v \in Voice, ~Mentioned(v)
  PROVE  /\ \A c \in Cue : handle[c] # v
         /\ \A d \in Device : v \notin pool[d] /\ ~Addressed(ring[d], v)
BY DEF Mentioned

\* What a GO leaves of the commands on their way to the voices there were.
LEMMA GoLeavesRest ==
  ASSUME AudioInv, NEW c \in Cue, NEW v \in Voice, ~Mentioned(v), NEW waits \in BOOLEAN,
         NEW rings \in Rings, NEW ds, NEW d \in Device, NEW w \in Voice, w # v,
         voice'[w] = voice[w],
         \/ ring'[d] = ring[d]
         \/ rings[d] = ring[d] /\ ring'[d] = Pushed(rings, ds, Tell("play", v))[d]
  PROVE  Fate(ring[d], w)' = Fate(ring[d], w)
<1>1. voice[w] \in VoiceStates
  BY DEF AudioInv, TypeOK, VoicesOK
<1>2. /\ Tell("play", v) \in Command
      /\ \A x : x \in Tell("play", v).of <=> x = v
  BY DEF Tell, Command
<1>3. CASE ring'[d] = ring[d]
  BY <1>3, FateOfOthers
<1>4. CASE rings[d] = ring[d] /\ ring'[d] = Pushed(rings, ds, Tell("play", v))[d]
  <2> DEFINE cmd == Tell("play", v)
  <2> HIDE DEF cmd
  <2>1. Outcome(voice[w], Pushed(rings, ds, cmd)[d], w)
          = IF w \in cmd.of /\ d \in ds /\ ~Full(rings[d])
            THEN Obeyed(cmd.op, Outcome(voice[w], rings[d], w)) ELSE Outcome(voice[w], rings[d], w)
    BY <1>1, <1>2, PushedOutcome DEF cmd
  <2>2. w \notin cmd.of
    BY <1>2 DEF cmd
  <2>3. Outcome(voice[w], ring'[d], w) = Outcome(voice[w], ring[d], w)
    BY <1>4, <2>1, <2>2 DEF cmd
  <2> QED BY <2>3, FateOfOthers
<1> QED BY <1>3, <1>4

LEMMA NewVoiceType ==
  ASSUME AudioInv, NEW c \in Cue, NEW v \in Voice, NEW waits \in BOOLEAN, NewVoice(c, v, waits)
  PROVE  /\ VoicesOK' /\ \A w \in Voice : w # v => voice'[w] = voice[w]
         /\ waits => voice'[v] = "paused"
<1>1. voice \in [Voice -> VoiceStates] /\ source \in [Voice -> {"memory", "loop", "stream", "cancelled"}]
  BY DEF AudioInv, TypeOK, VoicesOK
<1>2. PICK s \in Sources(c) : source' = [source EXCEPT ![v] = s]
  BY DEF NewVoice
<1>3. s \in {"memory", "loop", "stream", "cancelled"}
  BY DEF Sources
<1>4. voice' = [voice EXCEPT ![v] = IF waits THEN "paused" ELSE "playing"]
  BY DEF NewVoice
<1> QED BY <1>1, <1>2, <1>3, <1>4 DEF VoicesOK, VoiceStates

LEMMA StartedType ==
  ASSUME AudioInv, NEW c \in Cue, NEW v \in Voice, NEW waits \in BOOLEAN,
         Started(c, v, waits) \/ NotStarted(c)
  PROVE  CuesOK'
BY DEF AudioInv, TypeOK, CuesOK, CueStates, Started, NotStarted

LEMMA StartedApart ==
  ASSUME AudioInv, NEW c \in Cue, NEW v \in Voice, NEW waits \in BOOLEAN, ~Mentioned(v),
         Started(c, v, waits) \/ NotStarted(c)
  PROVE  HandlesApart'
BY FreshVoice DEF AudioInv, TypeOK, CuesOK, HandlesApart, Started, NotStarted

LEMMA GoMainTypes ==
  ASSUME AudioInv, NEW c \in Cue, NEW v \in Voice, ~Mentioned(v), NEW waits \in BOOLEAN,
         GoMain(c, v, waits), UNCHANGED loopVars
  PROVE  /\ (CuesOK /\ VoicesOK /\ DevicesOK /\ ring \in Rings /\ LoopOK)'
         /\ (PoolsApart /\ HandlesApart)'
<1>1. VoicesOK' /\ CuesOK' /\ HandlesApart'
  BY NewVoiceType, StartedType, StartedApart DEF GoMain
<1>2. DevicesOK' /\ PoolsApart'
  BY FreshVoice DEF GoMain, AudioInv, TypeOK, DevicesOK, PoolsApart, Device
<1>3. ring' \in Rings
  <2>1. Tell("play", v) \in Command /\ ring \in Rings
    BY DEF Tell, Command, AudioInv, TypeOK
  <2>2. Pushed(ring, {"main"}, Tell("play", v)) \in Rings
    BY <2>1, PushedType
  <2> QED BY <2>1, <2>2 DEF GoMain
<1>4. LoopOK'
  BY DEF GoMain, AudioInv, TypeOK, CuesOK, LoopOK, loopVars, Overwritten
<1> QED BY <1>1, <1>2, <1>3, <1>4

LEMMA GoMainKeeps ==
  ASSUME AudioInv, NEW c \in Cue, NEW v \in Voice, ~Mentioned(v), NEW waits \in BOOLEAN,
         GoMain(c, v, waits), UNCHANGED loopVars
  PROVE  Kept'
<1>1. /\ ring \in Rings /\ "main" \in Device /\ Device = {"main", "aux"}
      /\ pool' = [pool EXCEPT !["main"] = @ \cup {v}]
      /\ pool \in [Device -> SUBSET Voice] /\ handle \in [Cue -> Voice \cup {NoVoice}]
  BY DEF AudioInv, TypeOK, CuesOK, DevicesOK, Device, GoMain
<1>2. \A w \in Voice : w # v => voice'[w] = voice[w]
  BY NewVoiceType DEF GoMain
<1>3. ASSUME NEW d \in Device, NEW w \in Voice, w # v
      PROVE  Fate(ring[d], w)' = Fate(ring[d], w)
  <2>1. ring' = ring \/ ring' = Pushed(ring, {"main"}, Tell("play", v))
    BY DEF GoMain
  <2>2. voice'[w] = voice[w]
    BY <1>2, <1>3
  <2> QED BY <1>1, <1>3, <2>1, <2>2, GoLeavesRest
<1>4. StraysAreAccounted'
  <2> SUFFICES ASSUME NEW d \in Device, NEW w \in pool'[d], w \notin adrift'
               PROVE  Held(w)' \/ Ending(Fate(ring[d], w)')
    BY DEF StraysAreAccounted, Ending
  <2>1. w \in Voice /\ (w # v => w \in pool[d])
    BY <1>1
  <2>2. CASE w = v
    <3>1. handle'[c] = v
      BY <1>1, <2>2 DEF GoMain, Started
    <3> QED BY <2>2, <3>1 DEF Held
  <2>3. CASE w # v
    <3>1. w \notin adrift /\ (handle'[c] = handle[c] \/ w # handle[c])
      BY <2>1, <2>3 DEF GoMain, Started, NotStarted, Overwritten
    <3>2. Held(w) => Held(w)'
      BY <1>1, <3>1 DEF Held, GoMain, Started, NotStarted
    <3>3. Held(w) \/ Ending(Fate(ring[d], w))
      BY <2>1, <2>3, <3>1 DEF AudioInv, StraysAreAccounted
    <3> QED BY <1>3, <2>1, <2>3, <3>2, <3>3
  <2> QED BY <2>2, <2>3
<1>5. MainIsQuiet'
  <2> SUFFICES ASSUME NEW x \in Cue, state'[x] = "paused" \/ waiting'[x],
                      handle'[x] \in pool'["main"], handle'[x] \notin adrift'
               PROVE  Fate(ring["main"], handle[x])' \notin Sounding
    BY DEF MainIsQuiet
  <2>1. CASE x = c
    <3>1. waiting'[c] /\ waits /\ handle'[c] = v /\ ring' = ring
      BY <2>1 DEF GoMain, Started, NotStarted, AudioInv, TypeOK, CuesOK
    <3>2. voice'[v] = "paused"
      BY <3>1, NewVoiceType DEF GoMain
    <3>3. ring["main"] \in Seq(Command) /\ "paused" \in VoiceStates /\ ~Addressed(ring["main"], v)
      BY <1>1, FreshVoice DEF Rings, VoiceStates
    <3>4. Outcome("paused", ring["main"], v) = "paused"
      BY <3>3, UnaddressedFate
    <3> QED BY <2>1, <3>1, <3>2, <3>4 DEF Fate, Sounding
  <2>2. CASE x # c
    <3>1. state'[x] = state[x] /\ waiting'[x] = waiting[x] /\ handle'[x] = handle[x]
      BY <2>2 DEF GoMain, Started, NotStarted, AudioInv, TypeOK, CuesOK
    <3>2. handle[x] # v /\ handle[x] \in pool["main"]
      BY <1>1, <3>1, FreshVoice
    <3>3. handle[x] \notin adrift /\ handle[x] \in Voice
      BY <1>1, <3>1, <3>2 DEF GoMain
    <3>4. Fate(ring["main"], handle[x]) \notin Sounding
      BY <3>1, <3>2, <3>3 DEF AudioInv, MainIsQuiet
    <3>5. Fate(ring["main"], handle[x])' = Outcome(voice'[handle[x]], ring'["main"], handle[x])
      BY <3>1 DEF Fate
    <3>6. Outcome(voice'[handle[x]], ring'["main"], handle[x]) = Fate(ring["main"], handle[x])
      BY <1>1, <1>3, <3>2, <3>3 DEF Fate
    <3> QED BY <3>4, <3>5, <3>6
  <2> QED BY <2>1, <2>2
<1> QED BY <1>4, <1>5, GoMainTypes DEF Kept

LEMMA GoAuxTypes ==
  ASSUME AudioInv, NEW c \in Cue, NEW v \in Voice, ~Mentioned(v), NEW waits \in BOOLEAN,
         GoAux(c, v, waits), UNCHANGED loopVars
  PROVE  /\ (CuesOK /\ VoicesOK /\ DevicesOK /\ LoopOK)' /\ (PoolsApart /\ HandlesApart)'
         /\ pool'["main"] = pool["main"] /\ ring'["main"] = ring["main"]
         /\ \A w \in Voice : w # v => voice'[w] = voice[w]
         /\ ring' \in Rings
         /\ \A w \in pool'["aux"] : w = v \/ (w \in pool["aux"] /\ ~Reopens)
<1>1. /\ CuesOK' /\ HandlesApart' /\ LoopOK'
  BY StartedType, StartedApart DEF GoAux, AudioInv, TypeOK, CuesOK, LoopOK, loopVars, Overwritten
<1>2. VoicesOK' /\ \A w \in Voice : w # v => voice'[w] = voice[w]
  <2>1. NewVoice(c, v, waits) \/ UNCHANGED <<voice, source>>
    BY DEF GoAux
  <2> QED BY <2>1, NewVoiceType DEF AudioInv, TypeOK, VoicesOK
<1>3. /\ pool \in [Device -> SUBSET Voice] /\ Device = {"main", "aux"}
      /\ v \notin pool["main"] /\ v \notin pool["aux"] /\ pool["main"] \cap pool["aux"] = {}
      /\ reports \in [Device -> SUBSET Voice] /\ running \in [Device -> BOOLEAN]
  BY FreshVoice DEF AudioInv, TypeOK, DevicesOK, PoolsApart, Device
<1>4. \/ pool' = [pool EXCEPT !["aux"] = AuxBefore \cup {v}]
      \/ pool' = [pool EXCEPT !["aux"] = {}]
  BY DEF GoAux
<1>5. DevicesOK'
  <2>1. pool' \in [Device -> SUBSET Voice]
    BY <1>3, <1>4 DEF AuxBefore
  <2>2. reports' \in [Device -> SUBSET Voice] /\ running' \in [Device -> BOOLEAN]
    BY <1>3 DEF GoAux
  <2> QED BY <2>1, <2>2 DEF DevicesOK, GoAux, AudioInv, TypeOK
<1>6. PoolsApart' /\ pool'["main"] = pool["main"]
  BY <1>3, <1>4 DEF PoolsApart, AuxBefore
<1>7. \A w \in pool'["aux"] : w = v \/ (w \in pool["aux"] /\ ~Reopens)
  BY <1>3, <1>4 DEF AuxBefore
<1>8. ring' \in Rings /\ ring'["main"] = ring["main"]
  <2> DEFINE kept == [ring EXCEPT !["aux"] = IF Reopens THEN << >> ELSE @]
             cmd == Tell("play", v)
  <2>1. ring \in Rings /\ cmd \in Command
    BY DEF AudioInv, TypeOK, Tell, Command
  <2>2. << >> \in Seq(Command) /\ Len(<< >>) = 0 /\ 0 <= RingCapacity
    BY BoundAssumption
  <2>3. ASSUME NEW q \in Seq(Command), Len(q) <= RingCapacity
        PROVE  [ring EXCEPT !["aux"] = q] \in Rings /\ [ring EXCEPT !["aux"] = q]["main"] = ring["main"]
    BY <1>3, <2>1, <2>3 DEF Rings
  <2>4. kept \in Rings /\ kept["main"] = ring["main"] /\ [ring EXCEPT !["aux"] = << >>] \in Rings
        /\ [ring EXCEPT !["aux"] = << >>]["main"] = ring["main"]
    BY <1>3, <2>1, <2>2, <2>3 DEF Rings
  <2>5. \/ ring' = kept \/ ring' = Pushed(kept, {"aux"}, cmd)
        \/ ring' = [ring EXCEPT !["aux"] = << >>]
    BY DEF GoAux
  <2> HIDE DEF kept, cmd
  <2>6. Pushed(kept, {"aux"}, cmd) \in Rings /\ Pushed(kept, {"aux"}, cmd)["main"] = kept["main"]
    BY <1>3, <2>1, <2>4, PushedType
  <2> QED BY <2>4, <2>5, <2>6
<1> QED BY <1>1, <1>2, <1>5, <1>6, <1>7, <1>8

LEMMA GoAuxKeeps ==
  ASSUME AudioInv, NEW c \in Cue, NEW v \in Voice, ~Mentioned(v), NEW waits \in BOOLEAN,
         GoAux(c, v, waits), UNCHANGED loopVars
  PROVE  Kept'
<1>1. /\ ring \in Rings /\ Device = {"main", "aux"}
      /\ pool \in [Device -> SUBSET Voice] /\ handle \in [Cue -> Voice \cup {NoVoice}]
      /\ pool' \in [Device -> SUBSET Voice]
  BY GoAuxTypes DEF AudioInv, TypeOK, CuesOK, DevicesOK, Device
<1>2. /\ pool'["main"] = pool["main"] /\ ring'["main"] = ring["main"]
      /\ \A w \in Voice : w # v => voice'[w] = voice[w]
      /\ \A w \in pool'["aux"] : w = v \/ (w \in pool["aux"] /\ ~Reopens)
  BY GoAuxTypes
<1>3. ASSUME NEW d \in Device, NEW w \in pool'[d], w # v
      PROVE  Fate(ring[d], w)' = Fate(ring[d], w) /\ w \in pool[d]
  <2>1. w \in Voice /\ voice'[w] = voice[w]
    BY <1>1, <1>2, <1>3
  <2>2. CASE d = "main"
    BY <1>2, <2>1, <2>2, FateOfOthers
  <2>3. CASE d = "aux"
    <3>1. ~Reopens
      BY <1>2, <1>3, <2>3
    <3>2. ring' = ring \/ ring' = Pushed(ring, {"aux"}, Tell("play", v))
      <4>1. [ring EXCEPT !["aux"] = ring["aux"]] = ring
        BY <1>1 DEF Rings
      <4> QED BY <3>1, <4>1 DEF GoAux
    <3>3. w \in pool[d]
      BY <1>2, <1>3, <2>3
    <3> QED BY <1>1, <1>3, <2>1, <3>2, <3>3, GoLeavesRest
  <2> QED BY <1>1, <2>2, <2>3
<1>4. StraysAreAccounted'
  <2> SUFFICES ASSUME NEW d \in Device, NEW w \in pool'[d], w \notin adrift'
               PROVE  Held(w)' \/ Ending(Fate(ring[d], w)')
    BY DEF StraysAreAccounted, Ending
  <2>1. w \in Voice
    BY <1>1
  <2>2. CASE w = v
    <3>1. Started(c, v, waits)
      <4>1. ASSUME pool' = [pool EXCEPT !["aux"] = {}] PROVE FALSE
        BY <1>1, <2>2, <4>1, FreshVoice
      <4> QED BY <4>1 DEF GoAux
    <3>2. handle'[c] = v
      BY <1>1, <3>1 DEF Started
    <3> QED BY <2>2, <3>2 DEF Held
  <2>3. CASE w # v
    <3>1. w \notin adrift /\ (handle'[c] = handle[c] \/ w # handle[c])
      BY <2>1, <2>3 DEF GoAux, Started, NotStarted, Overwritten
    <3>2. Held(w) => Held(w)'
      BY <1>1, <3>1 DEF Held, GoAux, Started, NotStarted
    <3>3. w \in pool[d] /\ Fate(ring[d], w)' = Fate(ring[d], w)
      BY <1>3, <2>3
    <3>4. Held(w) \/ Ending(Fate(ring[d], w))
      BY <3>1, <3>3 DEF AudioInv, StraysAreAccounted
    <3> QED BY <3>2, <3>3, <3>4
  <2> QED BY <2>2, <2>3
<1>5. MainIsQuiet'
  <2> SUFFICES ASSUME NEW x \in Cue, state'[x] = "paused" \/ waiting'[x],
                      handle'[x] \in pool'["main"], handle'[x] \notin adrift'
               PROVE  Fate(ring["main"], handle[x])' \notin Sounding
    BY DEF MainIsQuiet
  <2>1. v \notin pool["main"]
    BY <1>1, FreshVoice
  <2>2. x # c
    BY <1>1, <1>2, <2>1 DEF GoAux, Started, NotStarted, AudioInv, TypeOK, CuesOK
  <2>3. state'[x] = state[x] /\ waiting'[x] = waiting[x] /\ handle'[x] = handle[x]
    BY <2>2 DEF GoAux, Started, NotStarted, AudioInv, TypeOK, CuesOK
  <2>4. handle[x] # v /\ handle[x] \in pool["main"] /\ handle[x] \in Voice
    BY <1>1, <1>2, <2>1, <2>3
  <2>5. handle[x] \notin adrift
    BY <2>3, <2>4 DEF GoAux
  <2>6. Fate(ring["main"], handle[x]) \notin Sounding
    BY <2>3, <2>4, <2>5 DEF AudioInv, MainIsQuiet
  <2>7. Fate(ring["main"], handle[x])' = Fate(ring["main"], handle[x])
    BY <1>2, <2>3, <2>4 DEF Fate
  <2> QED BY <2>6, <2>7
<1> QED BY <1>4, <1>5, GoAuxTypes DEF Kept

LEMMA GoKeeps == ASSUME AudioInv, NEW c \in Cue, Go(c) PROVE Kept'
<1>1. PICK v \in Voice, waits \in BOOLEAN :
        ~Mentioned(v) /\ IF Home(c) = "main" THEN GoMain(c, v, waits) ELSE GoAux(c, v, waits)
  BY DEF Go
<1>2. UNCHANGED loopVars
  BY DEF Go
<1> QED BY <1>1, <1>2, GoMainKeeps, GoAuxKeeps

\* What becomes of a voice, as seen after a step.
NextFate(d, v) == Outcome(voice'[v], ring'[d], v)

\* A command for one voice, queued for some devices.
LEMMA TellsOne ==
  ASSUME TypeOK, NEW v \in Voice, NEW ds, NEW op \in Ops,
         ring' = Pushed(ring, ds, Tell(op, v)), voice' = voice
  PROVE  /\ ring' \in Rings
         /\ \A d \in Device, w \in Voice :
              NextFate(d, w) = IF w = v /\ d \in ds /\ HasRoom(d)
                                  THEN Obeyed(op, Fate(ring[d], w)) ELSE Fate(ring[d], w)
<1> DEFINE cmd == Tell(op, v)
<1>1. ring \in Rings /\ \A w \in Voice : voice[w] \in VoiceStates
  BY DEF TypeOK, VoicesOK
<1>2. cmd \in Command /\ cmd.op = op /\ (\A w : w \in cmd.of <=> w = v) /\ ring' = Pushed(ring, ds, cmd)
  BY TellType DEF Ops
<1> HIDE DEF cmd
<1>3. ring' \in Rings
  BY <1>1, <1>2, PushedType
<1>4. ASSUME NEW d \in Device, NEW w \in Voice
      PROVE  NextFate(d, w) = IF w = v /\ d \in ds /\ HasRoom(d)
                                 THEN Obeyed(op, Fate(ring[d], w)) ELSE Fate(ring[d], w)
  <2>1. Outcome(voice[w], Pushed(ring, ds, cmd)[d], w)
          = IF w \in cmd.of /\ d \in ds /\ ~Full(ring[d])
            THEN Obeyed(cmd.op, Outcome(voice[w], ring[d], w)) ELSE Outcome(voice[w], ring[d], w)
    BY <1>1, <1>2, PushedOutcome
  <2> QED BY <1>2, <2>1 DEF Fate, NextFate, HasRoom
<1> QED BY <1>3, <1>4

\* A cue tells its own voice something, and leaves the others as they are.
LeavesOthers(c, v) ==
  /\ \A x \in Cue : x # c => /\ handle'[x] = handle[x] /\ waiting'[x] = waiting[x]
                             /\ state'[x] = "paused" => state[x] = "paused"
  /\ \A d \in Device, w \in Voice : w # v => NextFate(d, w) = Fate(ring[d], w)

\* The voice ends if it is let go, and is silent if the cue is paused or waits.
MindsOwn(c, v) ==
  /\ handle'[c] = NoVoice => \A d \in Device : v \in pool[d] \ adrift' => Ending(NextFate(d, v))
  /\ handle'[c] \in pool["main"] \ adrift' /\ (state'[c] = "paused" \/ waiting'[c])
       => NextFate("main", v) \notin Sounding

LEMMA OwnStep ==
  ASSUME AudioInv, NEW c \in Cue, NEW v, v = handle[c],
         voice' = voice, pool' = pool, adrift \subseteq adrift',
         handle'[c] \in {v, NoVoice}, LeavesOthers(c, v), MindsOwn(c, v)
  PROVE  (PoolsApart /\ HandlesApart /\ StraysAreAccounted /\ MainIsQuiet)'
<1>1. /\ "main" \in Device /\ pool \in [Device -> SUBSET Voice]
      /\ handle \in [Cue -> Voice \cup {NoVoice}] /\ HandlesApart
  BY DEF AudioInv, TypeOK, CuesOK, DevicesOK, Device
<1>2. PoolsApart' /\ HandlesApart'
  BY DEF AudioInv, PoolsApart, HandlesApart, LeavesOthers
<1>3. StraysAreAccounted'
  <2> SUFFICES ASSUME NEW d \in Device, NEW w \in pool[d], w \notin adrift'
               PROVE  Held(w)' \/ Ending(Fate(ring[d], w)')
    BY DEF StraysAreAccounted, Ending
  <2>0. Fate(ring[d], w)' = NextFate(d, w)
    BY DEF Fate, NextFate
  <2>1. w \in Voice /\ w # NoVoice
    BY <1>1, VoiceAssumption
  <2>2. CASE w = v
    <3>1. CASE handle'[c] = v
      BY <2>2, <3>1 DEF Held
    <3>2. CASE handle'[c] = NoVoice
      BY <2>0, <2>2, <3>2 DEF MindsOwn
    <3> QED BY <3>1, <3>2
  <2>3. CASE w # v
    <3>1. Held(w) => Held(w)'
      BY <2>3 DEF Held, LeavesOthers
    <3>2. Held(w) \/ Ending(Fate(ring[d], w))
      BY DEF AudioInv, StraysAreAccounted
    <3> QED BY <2>0, <2>1, <2>3, <3>1, <3>2 DEF LeavesOthers
  <2> QED BY <2>2, <2>3
<1>4. MainIsQuiet'
  <2> SUFFICES ASSUME NEW x \in Cue, state'[x] = "paused" \/ waiting'[x],
                      handle'[x] \in pool["main"], handle'[x] \notin adrift'
               PROVE  Fate(ring["main"], handle[x])' \notin Sounding
    BY DEF MainIsQuiet
  <2>1. handle'[x] \in Voice /\ handle'[x] # NoVoice
    BY <1>1, VoiceAssumption
  <2>2. CASE x = c
    <3>1. handle'[c] = v
      BY <2>1, <2>2
    <3>2. NextFate("main", v) \notin Sounding
      BY <2>2 DEF MindsOwn
    <3>3. NextFate("main", v) = Fate(ring["main"], handle[x])'
      BY <2>2, <3>1 DEF Fate, NextFate
    <3> QED BY <3>2, <3>3
  <2>3. CASE x # c
    <3>1. handle'[x] = handle[x] /\ handle[x] # v
      BY <1>1, <2>1, <2>3 DEF HandlesApart, LeavesOthers
    <3>2. Fate(ring["main"], handle[x]) \notin Sounding
      BY <2>3, <3>1 DEF AudioInv, MainIsQuiet, LeavesOthers
    <3>3. Fate(ring["main"], handle[x])' = Outcome(voice'[handle[x]], ring'["main"], handle[x])
      BY <3>1 DEF Fate
    <3>4. Outcome(voice'[handle[x]], ring'["main"], handle[x]) = Fate(ring["main"], handle[x])
      BY <1>1, <2>1, <3>1 DEF NextFate, LeavesOthers
    <3> QED BY <3>2, <3>3, <3>4
  <2> QED BY <2>2, <2>3
<1> QED BY <1>2, <1>3, <1>4

LEMMA StopKeeps ==
  ASSUME AudioInv, NEW c \in Cue, NEW op \in {"fade", "cut"}, Stop(c, op) PROVE Kept'
<1>0. PICK v : v = handle[c]
  OBVIOUS
<1>1. TypeOK /\ ring \in Rings /\ pool \in [Device -> SUBSET Voice]
      /\ handle \in [Cue -> Voice \cup {NoVoice}] /\ HandlesApart
  BY DEF AudioInv, TypeOK, CuesOK, DevicesOK
<1>2. /\ voice' = voice /\ pool' = pool /\ handle' = [handle EXCEPT ![c] = NoVoice]
      /\ waiting' = [waiting EXCEPT ![c] = FALSE]
      /\ state' = state \/ Cleared({c})
  BY DEF Stop, rtVars
<1>3. CuesOK'
  <2>1. state' \in [Cue -> CueStates]
    BY <1>2 DEF AudioInv, TypeOK, CuesOK, CueStates, Cleared
  <2>2. timeDone' \in [Cue -> BOOLEAN] /\ fadeSent' \in [Cue -> BOOLEAN]
    <3>1. Cleared({c}) \/ UNCHANGED <<timeDone, fadeSent>>
      BY DEF Stop
    <3>2. \A x \in Cue : (timeDone[x] /\ x \notin {c}) \in BOOLEAN /\ (fadeSent[x] /\ x \notin {c}) \in BOOLEAN
      OBVIOUS
    <3> QED BY <3>1, <3>2, Zenon DEF Cleared, AudioInv, TypeOK, CuesOK
  <2>3. handle' \in [Cue -> Voice \cup {NoVoice}] /\ waiting' \in [Cue -> BOOLEAN]
    BY <1>1, <1>2 DEF AudioInv, TypeOK, CuesOK
  <2> QED BY <2>1, <2>2, <2>3 DEF CuesOK
<1>4. VoicesOK' /\ DevicesOK'
  BY DEF Stop, AudioInv, TypeOK, VoicesOK, DevicesOK, rtVars
<1>5. LoopOK'
  BY DEF Stop, AudioInv, TypeOK, LoopOK, loopVars, Unreached, CuesOK
<1>6. CASE handle[c] = NoVoice
  <2>1. ring' = ring /\ adrift' = adrift
    BY <1>6 DEF Stop
  <2>2. \A d \in Device : v \notin pool[d]
    BY <1>0, <1>1, <1>6, VoiceAssumption
  <2>3. \A d \in Device, w \in Voice : w # v => NextFate(d, w) = Fate(ring[d], w)
    BY <1>2, <2>1 DEF Fate, NextFate
  <2>4. handle'[c] = NoVoice /\ NoVoice \notin pool["main"]
    BY <1>1, <1>2, VoiceAssumption DEF Device
  <2>5. \A x \in Cue : x # c => /\ handle'[x] = handle[x] /\ waiting'[x] = waiting[x]
                                /\ state'[x] = "paused" => state[x] = "paused"
    BY <1>1, <1>2 DEF Cleared, AudioInv, TypeOK, CuesOK
  <2>6. (PoolsApart /\ HandlesApart /\ StraysAreAccounted /\ MainIsQuiet)'
    <3>1. MindsOwn(c, v) /\ LeavesOthers(c, v)
      BY <2>2, <2>3, <2>4, <2>5 DEF MindsOwn, LeavesOthers
    <3> QED BY <1>0, <1>2, <2>1, <2>4, <3>1, OwnStep
  <2> QED BY <1>1, <1>3, <1>4, <1>5, <2>1, <2>6 DEF Kept
<1>7. CASE handle[c] # NoVoice
  <2>1. v \in Voice /\ op \in Ops /\ ring' = Pushed(ring, Streams, Tell(op, v))
        /\ adrift' = adrift \cup Unreached(Device, {v})
    BY <1>0, <1>1, <1>7 DEF Stop, Broadcast, Ops
  <2>2. /\ ring' \in Rings
        /\ \A d \in Device, w \in Voice :
              NextFate(d, w) = IF w = v /\ d \in Streams /\ HasRoom(d)
                                  THEN Obeyed(op, Fate(ring[d], w)) ELSE Fate(ring[d], w)
    BY <1>1, <1>2, <2>1, TellsOne
  <2>3. ASSUME NEW d \in Device, v \in pool[d] \ adrift'
        PROVE  Ending(NextFate(d, v))
    <3>1. HasRoom(d) /\ d \in Streams
      BY <2>1, <2>3 DEF Unreached, Streams, Exists
    <3>2. NextFate(d, v) = Obeyed(op, Fate(ring[d], v))
      BY <2>1, <2>2, <3>1
    <3> QED BY <3>2 DEF Ending, Obeyed
  <2>4. handle'[c] = NoVoice /\ NoVoice \notin pool["main"]
    BY <1>0, <1>1, <1>2, VoiceAssumption DEF Device
  <2>5. \A x \in Cue : x # c => /\ handle'[x] = handle[x] /\ waiting'[x] = waiting[x]
                                /\ state'[x] = "paused" => state[x] = "paused"
    BY <1>1, <1>2 DEF Cleared, AudioInv, TypeOK, CuesOK
  <2>6. (PoolsApart /\ HandlesApart /\ StraysAreAccounted /\ MainIsQuiet)'
    <3>1. MindsOwn(c, v)
      BY <2>3, <2>4 DEF MindsOwn
    <3>2. LeavesOthers(c, v)
      BY <2>2, <2>5 DEF LeavesOthers
    <3> QED BY <1>0, <1>2, <2>1, <2>4, <3>1, <3>2, OwnStep
  <2> QED BY <1>3, <1>4, <1>5, <2>2, <2>6 DEF Kept
<1> QED BY <1>6, <1>7

LEMMA PauseKeeps == ASSUME AudioInv, NEW c \in Cue, Pause(c) PROVE Kept'
<1>0. PICK v : v = handle[c]
  OBVIOUS
<1>1. TypeOK /\ ring \in Rings /\ pool \in [Device -> SUBSET Voice] /\ "main" \in Device
      /\ handle \in [Cue -> Voice \cup {NoVoice}]
  BY DEF AudioInv, TypeOK, CuesOK, DevicesOK, Device
<1>2. /\ voice' = voice /\ pool' = pool /\ handle' = handle /\ adrift' = adrift
      /\ waiting' = waiting /\ state' = [state EXCEPT ![c] = "paused"]
  BY DEF Pause, rtVars
<1>3. CuesOK' /\ VoicesOK' /\ DevicesOK' /\ LoopOK'
  BY DEF Pause, AudioInv, TypeOK, CuesOK, CueStates, VoicesOK, DevicesOK, LoopOK, rtVars, loopVars
<1>4. \A x \in Cue : x # c => /\ handle'[x] = handle[x] /\ waiting'[x] = waiting[x]
                              /\ state'[x] = "paused" => state[x] = "paused"
  BY <1>2 DEF AudioInv, TypeOK, CuesOK
<1>5. CASE TellsVoice(c)
  <2>1. v \in Voice /\ "pause" \in Ops /\ ring' = Pushed(ring, PauseTo, Tell("pause", v))
    BY <1>0, <1>1, <1>5 DEF Pause, PauseVoice, TellsVoice, Ops
  <2>2. /\ ring' \in Rings
        /\ \A d \in Device, w \in Voice :
              NextFate(d, w) = IF w = v /\ d \in PauseTo /\ HasRoom(d)
                                  THEN Obeyed("pause", Fate(ring[d], w)) ELSE Fate(ring[d], w)
    BY <1>1, <1>2, <2>1, TellsOne
  <2>3. HasRoom("main") /\ "main" \in PauseTo
    BY <1>5 DEF Pause, CanPause, TellsVoice, PauseTo
  <2>4. NextFate("main", v) = "paused"
    BY <1>1, <2>1, <2>2, <2>3 DEF Obeyed
  <2>5. (PoolsApart /\ HandlesApart /\ StraysAreAccounted /\ MainIsQuiet)'
    <3>1. MindsOwn(c, v) /\ LeavesOthers(c, v)
      BY <1>0, <1>2, <1>4, <1>5, <2>2, <2>4 DEF MindsOwn, LeavesOthers, TellsVoice, Sounding
    <3> QED BY <1>0, <1>2, <3>1, OwnStep
  <2> QED BY <1>3, <2>2, <2>5 DEF Kept
<1>6. CASE ~TellsVoice(c)
  <2>1. ring' = ring
    BY <1>6 DEF Pause
  <2>2. \A d \in Device, w \in Voice : NextFate(d, w) = Fate(ring[d], w)
    BY <1>2, <2>1 DEF Fate, NextFate
  <2>3. ASSUME v \in pool["main"] \ adrift
        PROVE  NextFate("main", v) \notin Sounding
    <3>1. v \in Voice /\ waiting[c]
      BY <1>0, <1>1, <1>6, <2>3, VoiceAssumption DEF TellsVoice
    <3>2. Fate(ring["main"], v) \notin Sounding
      BY <1>0, <2>3, <3>1 DEF AudioInv, MainIsQuiet
    <3> QED BY <1>1, <2>2, <3>1, <3>2
  <2>4. handle'[c] = NoVoice => \A d \in Device : v \notin pool[d]
    BY <1>0, <1>1, <1>2, VoiceAssumption
  <2>5. (PoolsApart /\ HandlesApart /\ StraysAreAccounted /\ MainIsQuiet)'
    <3>1. MindsOwn(c, v) /\ LeavesOthers(c, v)
      BY <1>0, <1>2, <1>4, <2>2, <2>3, <2>4 DEF MindsOwn, LeavesOthers
    <3> QED BY <1>0, <1>2, <3>1, OwnStep
  <2> QED BY <1>1, <1>3, <2>1, <2>5 DEF Kept
<1> QED BY <1>5, <1>6

LEMMA ResumeKeeps == ASSUME AudioInv, NEW c \in Cue, Resume(c) PROVE Kept'
<1>0. PICK v : v = handle[c]
  OBVIOUS
<1>1. TypeOK /\ ring \in Rings /\ pool \in [Device -> SUBSET Voice] /\ "main" \in Device
      /\ handle \in [Cue -> Voice \cup {NoVoice}]
  BY DEF AudioInv, TypeOK, CuesOK, DevicesOK, Device
<1>2. /\ voice' = voice /\ pool' = pool /\ handle' = handle /\ waiting' = waiting
      /\ adrift \subseteq adrift'
      /\ state' = [state EXCEPT ![c] = "running"] \/ state' = [state EXCEPT ![c] = @]
  BY DEF Resume, rtVars
<1>3. CuesOK' /\ VoicesOK' /\ DevicesOK'
  BY <1>2 DEF Resume, AudioInv, TypeOK, CuesOK, CueStates, VoicesOK, DevicesOK, rtVars
<1>4. LoopOK'
  BY DEF Resume, AudioInv, TypeOK, LoopOK, loopVars, Unreached, CuesOK, TellsVoice
<1>5. \A x \in Cue : x # c => /\ handle'[x] = handle[x] /\ waiting'[x] = waiting[x]
                              /\ state'[x] = "paused" => state[x] = "paused"
  BY <1>2 DEF AudioInv, TypeOK, CuesOK
<1>6. handle'[c] = NoVoice => \A d \in Device : v \notin pool[d]
  BY <1>0, <1>1, <1>2, VoiceAssumption
<1>7. CASE TellsVoice(c)
  <2>1. v \in Voice /\ "resume" \in Ops /\ ring' = Pushed(ring, Streams, Tell("resume", v))
    BY <1>0, <1>1, <1>7 DEF Resume, Broadcast, TellsVoice, Ops
  <2>2. /\ ring' \in Rings
        /\ \A d \in Device, w \in Voice :
              NextFate(d, w) = IF w = v /\ d \in Streams /\ HasRoom(d)
                                  THEN Obeyed("resume", Fate(ring[d], w)) ELSE Fate(ring[d], w)
    BY <1>1, <1>2, <2>1, TellsOne
  <2>3. ~(handle'[c] \in pool["main"] \ adrift' /\ (state'[c] = "paused" \/ waiting'[c]))
    BY <1>0, <1>2, <1>7 DEF Resume, TellsVoice, AudioInv, TypeOK, CuesOK
  <2>4. (PoolsApart /\ HandlesApart /\ StraysAreAccounted /\ MainIsQuiet)'
    <3>1. MindsOwn(c, v) /\ LeavesOthers(c, v)
      BY <1>0, <1>2, <1>5, <1>6, <2>2, <2>3 DEF MindsOwn, LeavesOthers
    <3> QED BY <1>0, <1>2, <3>1, OwnStep
  <2> QED BY <1>3, <1>4, <2>2, <2>4 DEF Kept
<1>8. CASE ~TellsVoice(c)
  <2>1. ring' = ring /\ adrift' = adrift
    BY <1>8 DEF Resume
  <2>2. \A d \in Device, w \in Voice : NextFate(d, w) = Fate(ring[d], w)
    BY <1>2, <2>1 DEF Fate, NextFate
  <2>3. ASSUME v \in pool["main"] \ adrift
        PROVE  NextFate("main", v) \notin Sounding
    <3>1. v \in Voice /\ waiting[c]
      BY <1>0, <1>1, <1>8, <2>3, VoiceAssumption DEF TellsVoice
    <3>2. Fate(ring["main"], v) \notin Sounding
      BY <1>0, <2>3, <3>1 DEF AudioInv, MainIsQuiet
    <3> QED BY <1>1, <2>2, <3>1, <3>2
  <2>4. (PoolsApart /\ HandlesApart /\ StraysAreAccounted /\ MainIsQuiet)'
    <3>1. MindsOwn(c, v) /\ LeavesOthers(c, v)
      BY <1>0, <1>2, <1>5, <1>6, <2>1, <2>2, <2>3 DEF MindsOwn, LeavesOthers
    <3> QED BY <1>0, <1>2, <3>1, OwnStep
  <2> QED BY <1>1, <1>3, <1>4, <2>1, <2>4 DEF Kept
<1> QED BY <1>7, <1>8

LEMMA EmptyRing == << >> \in Seq(Command) /\ Len(<< >>) = 0 /\ Len(<< >>) <= RingCapacity
BY BoundAssumption

LEMMA SequenceOf ==
  ASSUME NEW S, NEW n \in Nat, NEW f \in [1 .. n -> S] PROVE f \in Seq(S) /\ Len(f) = n
<1>1. f \in Seq(S)
  BY SeqDef
<1>2. Len(f) \in Nat /\ 1 .. Len(f) = 1 .. n
  BY <1>1
<1>3. Len(f) = n
  <2>1. ASSUME Len(f) < n PROVE FALSE
    <3>1. n \in 1 .. n /\ n \notin 1 .. Len(f)
      BY <1>2, <2>1
    <3> QED BY <1>2, <3>1
  <2>2. ASSUME n < Len(f) PROVE FALSE
    <3>1. Len(f) \in 1 .. Len(f) /\ Len(f) \notin 1 .. n
      BY <1>2, <2>2
    <3> QED BY <1>2, <3>1
  <2> QED BY <1>2, <2>1, <2>2
<1> QED BY <1>1, <1>3

LEMMA MarkedType == ASSUME TypeOK, NEW rings \in Rings PROVE Marked(rings) \in Rings
<1> DEFINE all == [op |-> "marked", of |-> UNION {pool[d] : d \in Device}]
           left == [d \in Device |-> [i \in DOMAIN rings[d] |->
                     IF rings[d][i].op = "marked"
                     THEN [rings[d][i] EXCEPT !.of = @ \ UNION {pool[e] : e \in Device}]
                     ELSE rings[d][i]]]
           ds == IF Full(rings["main"]) THEN {} ELSE Streams
<1>1. all \in Command
  BY DEF Command, TypeOK, DevicesOK
<1>2. left \in Rings
  <2>1. ASSUME NEW d \in Device PROVE left[d] \in Seq(Command) /\ Len(left[d]) = Len(rings[d])
    <3>1. rings[d] \in Seq(Command) /\ Len(rings[d]) \in Nat /\ DOMAIN rings[d] = 1 .. Len(rings[d])
      BY DEF Rings
    <3>2. ASSUME NEW i \in DOMAIN rings[d]
          PROVE  (IF rings[d][i].op = "marked"
                  THEN [rings[d][i] EXCEPT !.of = @ \ UNION {pool[e] : e \in Device}]
                  ELSE rings[d][i]) \in Command
      <4>1. rings[d][i] \in Command
        BY <3>1
      <4> QED BY <4>1 DEF Command
    <3>3. left[d] \in [1 .. Len(rings[d]) -> Command]
      BY <3>1, <3>2
    <3> QED BY <3>1, <3>3, SequenceOf
  <2> QED BY <2>1 DEF Rings
<1>3. Unmarked(rings) = left
  BY DEF Unmarked
<1> HIDE DEF left
<1>4. Marked(rings) = Pushed(left, ds, all)
  BY <1>3 DEF Marked
<1> HIDE DEF all, ds
<1> QED BY <1>1, <1>2, <1>4, PushedType

LEMMA PanicKeeps == ASSUME AudioInv, Panic PROVE Kept'
<1> DEFINE told == Marked(Cuts)
<1>1. TypeOK /\ pool \in [Device -> SUBSET Voice] /\ "main" \in Device
  BY DEF AudioInv, TypeOK, DevicesOK, Device
<1>2. told \in Rings
  <2>1. ASSUME NEW at \in Rings, NEW c \in Cue PROVE CutBy(at, c) \in Rings
    <3>1. CASE handle[c] = NoVoice
      BY <3>1 DEF CutBy
    <3>2. CASE handle[c] # NoVoice
      <4>1. Tell("cut", handle[c]) \in Command
        BY <1>1, <3>2 DEF TypeOK, CuesOK, Tell, Command
      <4>2. Pushed(at, Streams, Tell("cut", handle[c])) \in Rings
        BY <4>1, PushedType
      <4> QED BY <4>2 DEF CutBy, Broadcast
    <3> QED BY <3>1, <3>2
  <2>2. Cuts \in Rings
    BY <1>1, <2>1, CutsAreIn DEF TypeOK
  <2> QED BY <1>1, <2>2, MarkedType
<1> HIDE DEF told
<1>3. /\ voice' = voice /\ pool' = pool /\ handle' = [c \in Cue |-> NoVoice] /\ ring' = told
      /\ waiting' = [c \in Cue |-> FALSE] /\ state' = [c \in Cue |-> "standby"]
      /\ adrift' = adrift \cup {v \in Voice : \E d \in Device : v \in pool[d]
                       /\ ~Ending(Fate(told[d], v))}
  BY DEF Panic, rtVars, Cleared, told
<1>4. CuesOK'
  <2>1. timeDone' \in [Cue -> BOOLEAN] /\ fadeSent' \in [Cue -> BOOLEAN]
    <3>1. \A x \in Cue : (timeDone[x] /\ x \notin Cue) \in BOOLEAN /\ (fadeSent[x] /\ x \notin Cue) \in BOOLEAN
      OBVIOUS
    <3> QED BY <3>1, Zenon DEF Cleared, Panic
  <2> QED BY <1>3, <2>1 DEF CuesOK, CueStates
<1>5. VoicesOK' /\ DevicesOK' /\ LoopOK'
  BY <1>3 DEF Panic, AudioInv, TypeOK, VoicesOK, DevicesOK, LoopOK, rtVars, loopVars
<1>6. PoolsApart' /\ HandlesApart'
  BY <1>3 DEF AudioInv, PoolsApart, HandlesApart
<1>7. StraysAreAccounted'
  <2> SUFFICES ASSUME NEW d \in Device, NEW w \in pool[d], w \notin adrift'
               PROVE  Ending(Fate(ring[d], w)')
    BY <1>3 DEF StraysAreAccounted, Ending
  <2>1. Ending(Fate(told[d], w))
    BY <1>1, <1>3
  <2>2. Fate(ring[d], w)' = Fate(told[d], w)
    BY <1>3 DEF Fate
  <2> QED BY <2>1, <2>2
<1>8. MainIsQuiet'
  BY <1>1, <1>3, VoiceAssumption DEF MainIsQuiet
<1> QED BY <1>2, <1>3, <1>4, <1>5, <1>6, <1>7, <1>8 DEF Kept

(***************************************************************************)
(* The audio callback and the devices                                      *)
(***************************************************************************)
\* What stays in a pool is as it was, or would have sounded and now plays or ends.
StaysPut ==
  \A d \in Device : \A w \in pool'[d] \ adrift' :
    /\ w \in pool[d] \ adrift
    /\ \/ NextFate(d, w) = Fate(ring[d], w)
       \/ Fate(ring[d], w) = "playing"
       \/ Fate(ring[d], w) \in Sounding /\ Ending(NextFate(d, w))

LEMMA PutStep ==
  ASSUME AudioInv, UNCHANGED <<state, handle, waiting>>, StaysPut, pool' \in [Device -> SUBSET Voice],
         \A d \in Device : pool'[d] \subseteq pool[d]
  PROVE  (PoolsApart /\ HandlesApart /\ StraysAreAccounted /\ MainIsQuiet)'
<1>1. PoolsApart' /\ HandlesApart'
  BY DEF AudioInv, PoolsApart, HandlesApart, Device
<1>2. StraysAreAccounted'
  <2> SUFFICES ASSUME NEW d \in Device, NEW w \in pool'[d], w \notin adrift', ~Held(w)'
               PROVE  Ending(Fate(ring[d], w)')
    BY DEF StraysAreAccounted, Ending
  <2>1. Fate(ring[d], w)' = NextFate(d, w)
    BY DEF Fate, NextFate
  <2>2. /\ w \in pool[d] \ adrift
        /\ \/ NextFate(d, w) = Fate(ring[d], w) \/ Fate(ring[d], w) = "playing"
           \/ Ending(NextFate(d, w))
    BY DEF StaysPut
  <2>3. Ending(Fate(ring[d], w))
    BY <2>2 DEF AudioInv, StraysAreAccounted, Held
  <2> QED BY <2>1, <2>2, <2>3 DEF Ending
<1>3. MainIsQuiet'
  <2> SUFFICES ASSUME NEW x \in Cue, state[x] = "paused" \/ waiting[x],
                      handle[x] \in pool'["main"], handle[x] \notin adrift'
               PROVE  Fate(ring["main"], handle[x])' \notin Sounding
    BY DEF MainIsQuiet
  <2>1. Fate(ring["main"], handle[x])' = NextFate("main", handle[x])
    BY DEF Fate, NextFate
  <2>2. /\ handle[x] \in pool["main"] \ adrift
        /\ \/ NextFate("main", handle[x]) = Fate(ring["main"], handle[x])
           \/ Fate(ring["main"], handle[x]) \in Sounding
    BY DEF StaysPut, Device, Sounding
  <2>3. Fate(ring["main"], handle[x]) \notin Sounding
    BY <2>2 DEF AudioInv, MainIsQuiet
  <2> QED BY <2>1, <2>2, <2>3
<1> QED BY <1>1, <1>2, <1>3

\* A voice that a ring goes by without, and that it told nothing but to play.
LEMMA LeftBehind ==
  ASSUME AudioInv, NEW d \in Device, NEW w \in pool[d], w \notin Severed(d),
         voice'[w] = voice[w], ring'[d] = << >>
  PROVE  NextFate(d, w) = Fate(ring[d], w) \/ Fate(ring[d], w) = "playing"
<1> DEFINE q == ring[d]
<1>1. q \in Seq(Command) /\ w \in Voice /\ voice[w] \in VoiceStates
  BY DEF AudioInv, TypeOK, Rings, DevicesOK, VoicesOK
<1>2. \A i \in DOMAIN q : w \in q[i].of => q[i].op = "play"
  BY DEF Severed, Queued
<1>3. NextFate(d, w) = voice[w]
  <2>1. \A p \in Seq(Command) : Len(p) = 0 => Outcome(voice[w], p, w) = voice[w]
    BY <1>1, OutcomeOfNone
  <2> QED BY <2>1, EmptyRing DEF NextFate
<1> HIDE DEF q
<1>4. Outcome(voice[w], q, w) = voice[w] \/ Outcome(voice[w], q, w) = "playing"
  BY <1>1, <1>2, OutcomeOfPlays
<1> QED BY <1>3, <1>4 DEF Fate, q

LEMMA CancelledType ==
  ASSUME TypeOK, NEW vs PROVE Cancelled(vs) \in [Voice -> {"memory", "loop", "stream", "cancelled"}]
BY DEF TypeOK, VoicesOK, Cancelled

LEMMA DrainKeeps == ASSUME AudioInv, NEW d \in Device, Drain(d) PROVE Kept'
<1> DEFINE found == loaded[d] \cap pool[d]
<1>1. /\ TypeOK /\ pool' = pool /\ pool \in [Device -> SUBSET Voice] /\ ring \in Rings
      /\ voice \in [Voice -> VoiceStates] /\ UNCHANGED <<state, handle, waiting>>
      /\ ring' = [ring EXCEPT ![d] = << >>] /\ adrift' = adrift \cup (Severed(d) \ found)
      /\ voice' = [v \in Voice |-> IF v \in found THEN Fate(ring[d], v) ELSE voice[v]]
  BY DEF Drain, cueVars, AudioInv, TypeOK, DevicesOK, VoicesOK
<1>2. \A v \in Voice : Fate(ring[d], v) \in VoiceStates
  BY <1>1, OutcomeType DEF Fate, Rings
<1>3. ring' \in Rings /\ ring'[d] = << >> /\ \A e \in Device : e # d => ring'[e] = ring[e]
  BY <1>1, EmptyRing DEF Rings
<1>4. VoicesOK'
  <2>1. voice' \in [Voice -> VoiceStates]
    BY <1>1, <1>2
  <2>2. source' \in [Voice -> {"memory", "loop", "stream", "cancelled"}]
    BY <1>1, CancelledType DEF Drain
  <2> QED BY <2>1, <2>2 DEF VoicesOK
<1>5. CuesOK' /\ LoopOK'
  BY <1>1 DEF Drain, TypeOK, CuesOK, LoopOK, cueVars, loopVars, Severed
<1>6. DevicesOK'
  BY DEF Drain, AudioInv, TypeOK, DevicesOK, NoBlock
<1>7. ASSUME NEW e \in Device, NEW w \in pool[e], w \notin adrift'
      PROVE  NextFate(e, w) = Fate(ring[e], w) \/ Fate(ring[e], w) = "playing"
  <2>1. w \in Voice
    BY <1>1
  <2>2. CASE e = d /\ w \in found
    <3>1. voice'[w] = Fate(ring[d], w) /\ Fate(ring[d], w) \in VoiceStates
      BY <1>1, <1>2, <2>1, <2>2
    <3>2. Outcome(voice'[w], ring'[d], w) = voice'[w]
      BY <1>3, <3>1, EmptyRing, OutcomeOfNone
    <3> QED BY <2>2, <3>1, <3>2 DEF NextFate
  <2>3. CASE e = d /\ w \notin found
    BY <1>1, <1>3, <1>7, <2>1, <2>3, LeftBehind
  <2>4. CASE e # d
    <3>1. w \notin pool[d]
      BY <2>4 DEF AudioInv, PoolsApart, Device
    <3> QED BY <1>1, <1>3, <2>1, <2>4, <3>1 DEF NextFate, Fate
  <2> QED BY <2>2, <2>3, <2>4
<1>8. StaysPut
  BY <1>1, <1>7 DEF StaysPut
<1> QED BY <1>1, <1>3, <1>4, <1>5, <1>6, <1>8, PutStep DEF Kept

LEMMA EndsKeeps == ASSUME AudioInv, NEW v \in Voice, Ends(v) PROVE Kept'
<1>1. /\ TypeOK /\ pool' = pool /\ pool \in [Device -> SUBSET Voice] /\ ring \in Rings /\ ring' = ring
      /\ voice \in [Voice -> VoiceStates] /\ UNCHANGED <<state, handle, waiting, adrift>>
      /\ voice[v] \in Sounding /\ voice' = [voice EXCEPT ![v] = "stopped"]
  BY DEF Ends, cueVars, AudioInv, TypeOK, DevicesOK, VoicesOK
<1>2. VoicesOK'
  <2>1. source' \in [Voice -> {"memory", "loop", "stream", "cancelled"}]
    BY <1>1, CancelledType DEF Ends
  <2> QED BY <1>1, <2>1 DEF VoicesOK, VoiceStates
<1>3. CuesOK' /\ LoopOK' /\ DevicesOK'
  BY <1>1 DEF Ends, TypeOK, CuesOK, LoopOK, DevicesOK, cueVars, loopVars
<1>4. ASSUME NEW d \in Device, NEW w \in pool[d]
      PROVE  \/ NextFate(d, w) = Fate(ring[d], w)
             \/ Fate(ring[d], w) \in Sounding /\ Ending(NextFate(d, w))
  <2>1. w \in Voice /\ ring[d] \in Seq(Command)
    BY <1>1 DEF Rings
  <2>2. CASE w = v
    <3>1. voice'[v] = "stopped"
      BY <1>1
    <3>2. \/ Outcome(voice[v], ring[d], v) = Outcome("stopped", ring[d], v)
          \/ Outcome(voice[v], ring[d], v) \in Sounding /\ Ending(Outcome("stopped", ring[d], v))
      BY <1>1, <2>1, OutcomeOfEnding
    <3> QED BY <1>1, <2>2, <3>1, <3>2 DEF NextFate, Fate
  <2>3. CASE w # v
    BY <1>1, <2>1, <2>3 DEF NextFate, Fate
  <2> QED BY <2>2, <2>3
<1>5. StaysPut
  BY <1>1, <1>4 DEF StaysPut
<1> QED BY <1>1, <1>2, <1>3, <1>5, PutStep DEF Kept

LEMMA DroppedType ==
  ASSUME TypeOK, NEW vs \in SUBSET Voice, Dropped(vs)
  PROVE  VoicesOK' /\ \A w \in Voice \ vs : voice'[w] = voice[w]
BY DEF TypeOK, VoicesOK, VoiceStates, Dropped

LEMMA CloseAuxKeeps == ASSUME AudioInv, CloseAux PROVE Kept'
<1>1. /\ TypeOK /\ pool \in [Device -> SUBSET Voice] /\ ring \in Rings /\ Device = {"main", "aux"}
      /\ pool' = [pool EXCEPT !["aux"] = {}] /\ ring' = [ring EXCEPT !["aux"] = << >>]
      /\ adrift' = adrift \ pool["aux"] /\ UNCHANGED <<state, handle, waiting>>
  BY DEF CloseAux, cueVars, AudioInv, TypeOK, DevicesOK, Device
<1>2. VoicesOK' /\ \A w \in Voice \ pool["aux"] : voice'[w] = voice[w]
  BY <1>1, DroppedType DEF CloseAux
<1>3. ring' \in Rings /\ ring'["main"] = ring["main"]
  BY <1>1, EmptyRing DEF Rings
<1>4. CuesOK' /\ LoopOK' /\ DevicesOK'
  BY <1>1 DEF CloseAux, TypeOK, CuesOK, LoopOK, DevicesOK, cueVars, loopVars, NoBlock
<1>5. ASSUME NEW d \in Device, NEW w \in pool'[d] \ adrift'
      PROVE  w \in pool[d] \ adrift /\ NextFate(d, w) = Fate(ring[d], w)
  <2>1. d = "main" /\ w \in pool["main"] /\ w \notin pool["aux"]
    BY <1>1, <1>5 DEF AudioInv, PoolsApart
  <2>2. w \in Voice /\ w \notin adrift
    BY <1>1, <1>5, <2>1
  <2> QED BY <1>2, <1>3, <2>1, <2>2 DEF NextFate, Fate
<1>6. StaysPut
  BY <1>5 DEF StaysPut
<1> QED BY <1>1, <1>2, <1>3, <1>4, <1>6, PutStep DEF Kept

LEMMA RestartKeeps == ASSUME AudioInv, Restart PROVE Kept'
<1>1. /\ TypeOK /\ pool \in [Device -> SUBSET Voice] /\ ring \in Rings /\ Device = {"main", "aux"}
      /\ pool' = [pool EXCEPT !["aux"] = {}] /\ UNCHANGED <<state, handle, waiting>>
      /\ \/ ring' = [d \in Device |-> << >>] /\ adrift' = (adrift \ pool["aux"]) \cup Severed("main")
         \/ ring' = [ring EXCEPT !["aux"] = << >>] /\ adrift' = adrift \ pool["aux"]
  BY DEF Restart, cueVars, AudioInv, TypeOK, DevicesOK, Device
<1>2. VoicesOK' /\ \A w \in Voice \ pool["aux"] : voice'[w] = voice[w]
  BY <1>1, DroppedType DEF Restart
<1>3. ring' \in Rings
  BY <1>1, EmptyRing DEF Rings
<1>4. CuesOK' /\ LoopOK'
  BY <1>1 DEF Restart, TypeOK, CuesOK, LoopOK, cueVars, loopVars, Severed
<1>5. DevicesOK'
  <2>1. running' \in [Device -> BOOLEAN] /\ reports' \in [Device -> SUBSET Voice]
    BY <1>1 DEF Restart, TypeOK, DevicesOK
  <2>2. loaded' = [d \in Device |-> NoBlock]
    BY DEF Restart
  <2> QED BY <1>1, <2>1, <2>2 DEF DevicesOK, NoBlock
<1>6. ASSUME NEW d \in Device, NEW w \in pool'[d] \ adrift'
      PROVE  /\ w \in pool[d] \ adrift
             /\ NextFate(d, w) = Fate(ring[d], w) \/ Fate(ring[d], w) = "playing"
  <2>1. d = "main" /\ w \in pool["main"] /\ w \notin pool["aux"]
    BY <1>1, <1>6 DEF AudioInv, PoolsApart
  <2>2. w \in Voice /\ w \notin adrift /\ voice'[w] = voice[w]
    BY <1>1, <1>2, <1>6, <2>1
  <2>3. CASE ring' = [e \in Device |-> << >>] /\ adrift' = (adrift \ pool["aux"]) \cup Severed("main")
    <3>1. ring'[d] = << >> /\ w \notin Severed(d)
      BY <1>6, <2>1, <2>3
    <3> QED BY <2>1, <2>2, <3>1, LeftBehind
  <2>4. CASE ring' = [ring EXCEPT !["aux"] = << >>]
    <3>1. ring'["main"] = ring["main"]
      BY <1>1, <2>4 DEF Rings
    <3> QED BY <2>1, <2>2, <3>1 DEF NextFate, Fate
  <2> QED BY <1>1, <2>3, <2>4
<1>7. StaysPut
  BY <1>6 DEF StaysPut
<1> QED BY <1>1, <1>2, <1>3, <1>4, <1>5, <1>7, PutStep DEF Kept

(***************************************************************************)
(* The show loop                                                           *)
(***************************************************************************)
LEMMA TickRunKeeps == ASSUME AudioInv, TickRun PROVE Kept'
<1>1. /\ TypeOK /\ HandlesApart /\ MainIsQuiet /\ pool \in [Device -> SUBSET Voice]
      /\ "main" \in Device /\ handle \in [Cue -> Voice \cup {NoVoice}]
      /\ voice' = voice /\ pool' = Collected
  BY DEF TickRun, AudioInv, TypeOK, CuesOK, DevicesOK, Device
<1>2. PICK now \in BOOLEAN, ready \in SUBSET StreamCue, fading \in SUBSET FadeCue :
        Concluded(now, Ticked(Guarded(now), ready, fading))
  BY DEF TickRun
<1> DEFINE ticked == Ticked(Guarded(now), ready, fading)
           done == {c \in Cue : ticked.state[c] = "running" /\ ShouldComplete(c)}
<1> HIDE DEF ticked
<1>3. ticked \in Good /\ ticked \in Work
  <2>1. Guarded(now) \in Good
    BY <1>1, GuardIsGood
  <2>2. Ticked(Guarded(now), ready, fading) \in Good
    BY <1>1, <2>1, TicksAreGood
  <2> QED BY <2>2 DEF Good, ticked
<1>4. done \subseteq Cue /\ \A c \in done : ShouldComplete(c)
  OBVIOUS
<1>5. /\ frozen' = now
      /\ autoPaused' = IF frozen /\ ~now THEN {} ELSE ticked.auto
      /\ ring' = [ticked.ring EXCEPT !["aux"] = IF AuxCollected THEN << >> ELSE @]
      /\ state' = [c \in Cue |-> IF c \in done THEN "standby" ELSE ticked.state[c]]
      /\ handle' = [c \in Cue |-> IF c \in done THEN NoVoice ELSE handle[c]]
      /\ adrift' = {v \in adrift \cup ticked.lost : voice[v] # "stopped"}
  BY <1>2 DEF Concluded, ticked
<1>6. /\ waiting' = [c \in Cue |-> ticked.waiting[c] /\ c \notin done]
      /\ timeDone' = [c \in Cue |-> timeDone[c] /\ c \notin done]
      /\ fadeSent' = [c \in Cue |-> ticked.fadeSent[c] /\ c \notin done]
  BY <1>2 DEF Concluded, ticked
<1> HIDE DEF done
<1>7. CuesOK'
  <2>1. state' \in [Cue -> CueStates] /\ handle' \in [Cue -> Voice \cup {NoVoice}]
    BY <1>1, <1>3, <1>5 DEF Work, CueStates
  <2>2. /\ waiting' \in [Cue -> BOOLEAN] /\ timeDone' \in [Cue -> BOOLEAN]
        /\ fadeSent' \in [Cue -> BOOLEAN]
    <3>1. \A c \in Cue : /\ (ticked.waiting[c] /\ c \notin done) \in BOOLEAN
                         /\ (timeDone[c] /\ c \notin done) \in BOOLEAN
                         /\ (ticked.fadeSent[c] /\ c \notin done) \in BOOLEAN
      OBVIOUS
    <3> QED BY <1>6, <3>1, Zenon
  <2> QED BY <2>1, <2>2 DEF CuesOK
<1>8. VoicesOK' /\ DevicesOK'
  BY <1>1 DEF TickRun, TypeOK, VoicesOK, DevicesOK, Collected
<1>9. LoopOK'
  BY <1>3, <1>5 DEF AudioInv, TypeOK, LoopOK, Work
<1>10. ring' \in Rings /\ \A d \in Device : pool'[d] # {} => ring'[d] = ticked.ring[d]
  <2>1. ticked.ring \in Rings
    BY <1>3 DEF Work
  <2>2. ring' \in Rings
    BY <1>5, <2>1, EmptyRing DEF Rings
  <2>3. AuxCollected => pool'["aux"] = {}
    BY <1>1 DEF AuxCollected
  <2> QED BY <1>5, <2>1, <2>2, <2>3 DEF Rings
<1>11. ASSUME NEW d \in Device, NEW w \in pool'[d], w \notin adrift'
       PROVE  /\ w \in pool[d] /\ w \notin adrift \cup ticked.lost /\ w \in Voice
              /\ Alive(w) /\ ring'[d] = ticked.ring[d]
  <2>1. w \in pool[d] /\ voice[w] # "stopped" /\ w \in Voice
    BY <1>1 DEF Collected
  <2>2. Alive(w)
    BY <2>1 DEF Alive, Pooled
  <2> QED BY <1>5, <1>10, <1>11, <2>1, <2>2
<1>12. PoolsApart' /\ HandlesApart'
  <2>1. pool'["main"] \subseteq pool["main"] /\ pool'["aux"] \subseteq pool["aux"]
    BY <1>1 DEF Collected, Device
  <2> QED BY <1>1, <1>5, <2>1 DEF AudioInv, PoolsApart, HandlesApart
<1>13. StraysAreAccounted'
  <2> SUFFICES ASSUME NEW d \in Device, NEW w \in pool'[d], w \notin adrift'
               PROVE  Held(w)' \/ Ending(Fate(ring[d], w)')
    BY DEF StraysAreAccounted, Ending
  <2>1. /\ w \in pool[d] /\ w \notin adrift \cup ticked.lost /\ w \in Voice
        /\ Alive(w) /\ ring'[d] = ticked.ring[d]
    BY <1>11
  <2>2. CASE Held(w)
    <3>1. PICK c \in Cue : handle[c] = w
      BY <2>2 DEF Held
    <3>2. c \notin done
      BY <1>4, <2>1, <3>1, VoiceAssumption DEF ShouldComplete
    <3>3. handle'[c] = w
      BY <1>5, <3>1, <3>2
    <3> QED BY <3>3 DEF Held
  <2>3. CASE ~Held(w)
    <3>1. Fate(ticked.ring[d], w) = Fate(ring[d], w)
      BY <1>3, <2>1, <2>3 DEF Good, StraysKept
    <3>2. Ending(Fate(ring[d], w))
      BY <2>1, <2>3 DEF AudioInv, StraysAreAccounted
    <3>3. Fate(ring[d], w)' = Fate(ticked.ring[d], w)
      BY <1>1, <2>1 DEF Fate
    <3> QED BY <3>1, <3>2, <3>3
  <2> QED BY <2>2, <2>3
<1>14. MainIsQuiet'
  <2> SUFFICES ASSUME NEW x \in Cue, state'[x] = "paused" \/ waiting'[x],
                      handle'[x] \in pool'["main"], handle'[x] \notin adrift'
               PROVE  Fate(ring["main"], handle[x])' \notin Sounding
    BY DEF MainIsQuiet
  <2>1. /\ handle'[x] \in pool["main"] /\ handle'[x] \notin adrift \cup ticked.lost
        /\ handle'[x] \in Voice /\ ring'["main"] = ticked.ring["main"]
    BY <1>1, <1>11
  <2>2. x \notin done
    BY <1>5, <2>1, VoiceAssumption
  <2>3. handle'[x] = handle[x] /\ (ticked.state[x] = "paused" \/ ticked.waiting[x])
    BY <1>5, <1>6, <2>2
  <2>4. Fate(ticked.ring["main"], handle[x]) \notin Sounding
    BY <1>3, <2>1, <2>3 DEF Good, QuietFor
  <2>5. Fate(ring["main"], handle[x])' = Fate(ticked.ring["main"], handle[x])
    BY <1>1, <2>1, <2>3 DEF Fate
  <2> QED BY <2>4, <2>5
<1> QED BY <1>7, <1>8, <1>9, <1>10, <1>12, <1>13, <1>14 DEF Kept

(***************************************************************************)
(* The invariant holds                                                     *)
(***************************************************************************)
LEMMA InitInv == ASSUME Init PROVE AudioInv
<1>1. CuesOK /\ VoicesOK
  BY DEF Init, CuesOK, CueStates, VoicesOK, VoiceStates
<1>2. DevicesOK
  <2>1. running \in [Device -> BOOLEAN]
    <3>1. \A d \in Device : (d = "main") \in BOOLEAN
      OBVIOUS
    <3> QED BY <3>1, Zenon DEF Init
  <2> QED BY <2>1 DEF Init, DevicesOK, NoBlock
<1>3. LoopOK /\ BoundsOK
  <2>1. LoopOK
    BY Zenon DEF Init, LoopOK
  <2>2. 0 \in 0 .. MaxCommands /\ 0 \in 0 .. MaxFaults
    BY BoundAssumption
  <2> QED BY <2>1, <2>2 DEF Init, BoundsOK
<1>4. ring \in Rings
  BY EmptyRing DEF Init, Rings
<1>5. PoolsApart /\ HandlesApart /\ StraysAreAccounted /\ MainIsQuiet
  BY DEF Init, PoolsApart, HandlesApart, StraysAreAccounted, MainIsQuiet, Device
<1> QED BY <1>1, <1>2, <1>3, <1>4, <1>5 DEF AudioInv, TypeOK

LEMMA StepInv == ASSUME AudioInv, [Next]_vars PROVE AudioInv'
<1>1. CASE Operator
  <2>1. Kept'
    <3>1. ASSUME NEW c \in Cue, Go(c) \/ Stop(c, "fade") \/ Stop(c, "cut") \/ Pause(c) \/ Resume(c)
          PROVE  Kept'
      BY <3>1, GoKeeps, StopKeeps, PauseKeeps, ResumeKeeps
    <3> QED BY <1>1, <3>1, PanicKeeps DEF Operator
  <2>2. BoundsOK'
    BY <1>1, BoundAssumption DEF Operator, AudioInv, TypeOK, BoundsOK
  <2> QED BY <2>1, <2>2 DEF Kept, AudioInv, TypeOK
<1>2. CASE Fault
  <2>1. Kept'
    BY <1>2, DeviceLostKeeps, CloseAuxKeeps, RestartKeeps DEF Fault
  <2>2. BoundsOK'
    BY <1>2, BoundAssumption DEF Fault, AudioInv, TypeOK, BoundsOK
  <2> QED BY <2>1, <2>2 DEF Kept, AudioInv, TypeOK
<1>3. CASE Proceed
  <2>1. Kept'
    <3>1. ASSUME NEW d \in Device, Callback(d) PROVE Kept'
      BY <3>1, LoadKeeps, DrainKeeps DEF Callback
    <3> QED BY <1>3, <3>1, EndsKeeps, ClockPassesKeeps, DeviceReturnsKeeps, TickBusyKeeps,
               TickRunKeeps DEF Proceed
  <2>2. BoundsOK'
    BY <1>3 DEF Proceed, AudioInv, TypeOK, BoundsOK, bounds
  <2> QED BY <2>1, <2>2 DEF Kept, AudioInv, TypeOK
<1>4. CASE UNCHANGED vars
  <2>1. (PoolsApart /\ HandlesApart /\ StraysAreAccounted /\ MainIsQuiet)'
    BY <1>4, NothingChanges DEF vars, cueVars, rtVars, linkVars
  <2>2. TypeOK'
    BY <1>4 DEF AudioInv, TypeOK, CuesOK, VoicesOK, DevicesOK, LoopOK, BoundsOK,
                vars, cueVars, rtVars, linkVars, loopVars, bounds
  <2> QED BY <2>1, <2>2 DEF AudioInv
<1> QED BY <1>1, <1>2, <1>3, <1>4 DEF Next

\* In every state the pools of the devices have no voice in common, no two
\* cues hold the same voice, a voice in a pool is held or ends, and a cue that
\* is paused or waits has silenced its voice once the main ring is obeyed.
THEOREM AudioInvariant == Spec => []AudioInv
<1>1. Init => AudioInv
  BY InitInv
<1>2. AudioInv /\ [Next]_vars => AudioInv'
  BY StepInv
<1> QED BY <1>1, <1>2, PTL DEF Spec

\* Every variable keeps its type, and no ring holds more commands than it has
\* room for, whatever the operator, the show loop and the callbacks do.
THEOREM AudioTypes == Spec => []TypeOK
<1>1. AudioInv => TypeOK
  BY DEF AudioInv
<1> QED BY <1>1, AudioInvariant, PTL

\* A voice that sounds is held by a cue, ends with the commands on their way,
\* or lost a command in one of the ways the history records.
THEOREM StraysAccounted == Spec => []StraysAreAccounted
<1>1. AudioInv => StraysAreAccounted
  BY DEF AudioInv
<1> QED BY <1>1, AudioInvariant, PTL

\* A paused cue on the main device is silent once its commands are obeyed, if
\* none of them was lost.
THEOREM PausedCuesAreSilent == Spec => []PausedIsSilent
<1>1. AudioInv => PausedIsSilent
  BY InvIsSilent DEF AudioInv
<1> QED BY <1>1, AudioInvariant, PTL

================================================================================
