------------------------------ MODULE GroupProofs ------------------------------
(***************************************************************************)
(* What a group promises for any children, any modes and any operator: the *)
(* exclusiveness of a playlist, the fairness of a random group, the voices *)
(* completion loses, the child a GO fires, and the cancelled advance.      *)
(*                                                                         *)
(* All that fires children goes through FireNext, so the module is built   *)
(* on what one call of it does: first the chain of positions it fires, a   *)
(* recursive function over positions that grow, then the two states.       *)
(***************************************************************************)
EXTENDS GroupCue, FiniteSetTheorems, Recursion

(***************************************************************************)
(* Induction over numbers and positions                                    *)
(***************************************************************************)
LEMMA MinOf ==
  ASSUME NEW S, S \subseteq Nat, S # {}
  PROVE  Min(S) \in S /\ \A y \in S : Min(S) <= y
<1>1. PICK x \in S : \A y \in S : <<y, x>> \notin OpToRel(<, Nat)
  BY NatLessThanWellFounded, WFMin, Zenon
<1>2. ASSUME NEW y \in S, y < x PROVE FALSE
  <2>1. <<y, x>> \in OpToRel(<, Nat)
    BY <1>2 DEF OpToRel
  <2> QED BY <1>1, <2>1
<1>3. \A y \in S : x <= y
  BY <1>2
<1> QED BY <1>3 DEF Min

LEMMA SeqElements ==
  ASSUME NEW S, NEW q \in Seq(S)
  PROVE  Range(q) \subseteq S /\ (q # << >> => Last(q) \in S /\ Last(q) \in Range(q))
BY DEF Range, Last

LEMMA KidsAreChildren ==
  ASSUME kids \in Seq(Child)
  PROVE  /\ N \in Nat /\ DOMAIN kids = 1 .. N
         /\ \A i \in 1 .. N : kids[i] \in Kids /\ kids[i] \in Child
         /\ \A c \in Kids : \E i \in 1 .. N : kids[i] = c
         /\ Kids \subseteq Child
BY DEF N, Kids, Range

LEMMA PosOf ==
  ASSUME kids \in Seq(Child), NEW c
  PROVE  /\ Pos(c) \in 0 .. N
         /\ c \in Kids => Pos(c) \in 1 .. N /\ kids[Pos(c)] = c
BY KidsAreChildren DEF Pos

LEMMA NextArmedOf ==
  ASSUME kids \in Seq(Child), NEW i \in Nat \ {0}
  PROVE  /\ NextArmed(i) = 0 \/ NextArmed(i) \in i .. N
         /\ i \in 1 .. N /\ kids[i] \notin off => NextArmed(i) = i
<1> DEFINE armed == {j \in i .. N : kids[j] \notin off}
<1>1. CASE armed = {}
  BY <1>1, KidsAreChildren DEF NextArmed
<1>2. CASE armed # {}
  <2>1. armed \subseteq Nat
    BY KidsAreChildren
  <2>2. Min(armed) \in armed /\ \A y \in armed : Min(armed) <= y
    <3> HIDE DEF armed
    <3> QED BY <1>2, <2>1, MinOf
  <2>3. NextArmed(i) = Min(armed)
    BY <1>2 DEF NextArmed
  <2>4. Min(armed) \in i .. N
    BY <2>2
  <2>5. ASSUME i \in 1 .. N, kids[i] \notin off PROVE Min(armed) = i
    <3>1. i \in armed
      BY <2>5, KidsAreChildren
    <3>2. Min(armed) <= i
      BY <2>2, <3>1
    <3> HIDE DEF armed
    <3> QED BY <2>4, <3>2, KidsAreChildren
  <2> HIDE DEF armed
  <2> QED BY <2>3, <2>4, <2>5
<1> QED BY <1>1, <1>2

(***************************************************************************)
(* The chain of positions one call fires                                   *)
(***************************************************************************)
ChainStep(s, f, j) ==
  IF j = 0 THEN << >>
  ELSE <<j>> \o (IF FiresNext(s, kids[j]) THEN f[NextArmed(j + 1)] ELSE << >>)
Solves(s, f) == f = [j \in 0 .. N |-> ChainStep(s, f, j)]

\* f is right from position k on, and at 0.
SolvesFrom(s, f, k) ==
  /\ f \in [0 .. N -> Seq(1 .. N)]
  /\ \A j \in 0 .. N : j = 0 \/ j >= k => f[j] = ChainStep(s, f, j)

LEMMA ChainIsChosen ==
  ASSUME NEW s, NEW i
  PROVE  Chain(s, i) = (CHOOSE f : Solves(s, f))[i]
BY Zenon DEF Chain, Solves, ChainStep

LEMMA NextIsLater ==
  ASSUME kids \in Seq(Child), NEW j \in 1 .. N
  PROVE  NextArmed(j + 1) \in 0 .. N /\ (NextArmed(j + 1) = 0 \/ NextArmed(j + 1) > j)
<1>1. N \in Nat /\ j + 1 \in Nat \ {0}
  BY KidsAreChildren
<1>2. NextArmed(j + 1) = 0 \/ NextArmed(j + 1) \in j + 1 .. N
  BY <1>1, NextArmedOf
<1> QED BY <1>1, <1>2

\* The recursion has a solution: it is built from the last position down.
LEMMA ChainExists ==
  ASSUME kids \in Seq(Child), NEW s
  PROVE  \E f : SolvesFrom(s, f, 1)
<1> DEFINE S == {n \in Nat : \E f : SolvesFrom(s, f, N + 1 - n)}
<1>1. N \in Nat
  BY KidsAreChildren
<1>2. 0 \in S
  <2>1. SolvesFrom(s, [j \in 0 .. N |-> << >>], N + 1)
    BY <1>1 DEF SolvesFrom, ChainStep
  <2> QED BY <1>1, <2>1
<1>3. ASSUME NEW n \in Nat, n \in S PROVE n + 1 \in S
  <2>1. PICK f : SolvesFrom(s, f, N + 1 - n)
    BY <1>3
  <2> DEFINE k == N - n
             e == [f EXCEPT ![k] = ChainStep(s, f, k)]
  <2>2. CASE ~(k \in 1 .. N)
    <3>1. SolvesFrom(s, f, k)
      BY <1>1, <2>1, <2>2 DEF SolvesFrom
    <3> QED BY <1>1, <3>1
  <2>3. CASE k \in 1 .. N
    <3>1. NextArmed(k + 1) \in 0 .. N
      BY <2>3, NextIsLater
    <3>2. ChainStep(s, f, k) \in Seq(1 .. N)
      <4>1. <<k>> \in Seq(1 .. N) /\ k # 0
        BY <1>1, <2>3
      <4>2. f[NextArmed(k + 1)] \in Seq(1 .. N)
        BY <2>1, <3>1 DEF SolvesFrom
      <4> HIDE DEF k
      <4>3. <<k>> \o f[NextArmed(k + 1)] \in Seq(1 .. N) /\ <<k>> \o << >> \in Seq(1 .. N)
        BY <4>1, <4>2
      <4> QED BY <4>1, <4>3 DEF ChainStep
    <3>3. e \in [0 .. N -> Seq(1 .. N)] /\ e[k] = ChainStep(s, f, k)
          /\ \A j \in 0 .. N : j # k => e[j] = f[j]
      BY <1>1, <2>1, <2>3, <3>2 DEF SolvesFrom
    <3> HIDE DEF e
    <3>4. ASSUME NEW j \in 0 .. N, j = 0 \/ j >= k PROVE e[j] = ChainStep(s, e, j)
      <4>1. CASE j = 0
        BY <2>1, <2>3, <3>3, <4>1 DEF ChainStep, SolvesFrom
      <4>2. CASE j # 0
        <5>1. NextArmed(j + 1) \in 0 .. N /\ (NextArmed(j + 1) = 0 \/ NextArmed(j + 1) > j)
          BY <4>2, NextIsLater
        <5>2. e[NextArmed(j + 1)] = f[NextArmed(j + 1)]
          <6>1. NextArmed(j + 1) # k
            BY <1>1, <2>3, <3>4, <4>2, <5>1
          <6> QED BY <3>3, <5>1, <6>1
        <5>3. ChainStep(s, e, j) = ChainStep(s, f, j)
          BY <5>2 DEF ChainStep
        <5>4. j = k \/ f[j] = ChainStep(s, f, j)
          BY <1>1, <2>1, <3>4, <4>2 DEF SolvesFrom
        <5> QED BY <3>3, <5>3, <5>4
      <4> QED BY <4>1, <4>2
    <3>5. SolvesFrom(s, e, k)
      BY <3>3, <3>4 DEF SolvesFrom
    <3>6. N + 1 - (n + 1) = k
      BY <1>1
    <3> QED BY <3>5, <3>6
  <2> QED BY <2>2, <2>3
<1>4. N \in S
  <2> HIDE DEF S
  <2> QED BY <1>1, <1>2, <1>3, NatSetInduction
<1>5. N + 1 - N = 1
  BY <1>1
<1> QED BY <1>4, <1>5

LEMMA ChainSolves ==
  ASSUME kids \in Seq(Child), NEW s, NEW i \in 0 .. N
  PROVE  /\ i = 0 => Chain(s, i) = << >>
         /\ i # 0 => Chain(s, i) = <<i>> \o (IF FiresNext(s, kids[i])
                                           THEN Chain(s, NextArmed(i + 1)) ELSE << >>)
<1> DEFINE f == CHOOSE e : Solves(s, e)
<1>1. \E e : Solves(s, e)
  <2>1. PICK e : SolvesFrom(s, e, 1)
    BY ChainExists
  <2>2. e = [j \in 0 .. N |-> e[j]] /\ \A j \in 0 .. N : e[j] = ChainStep(s, e, j)
    BY <2>1, KidsAreChildren DEF SolvesFrom
  <2>3. Solves(s, e)
    BY <2>2 DEF Solves
  <2> QED BY <2>3
<1>2. Solves(s, f)
  BY <1>1
<1>3. \A j : Chain(s, j) = f[j]
  BY ChainIsChosen
<1> HIDE DEF f
<1>4. Chain(s, i) = ChainStep(s, f, i)
  BY <1>2, <1>3 DEF Solves
<1> QED BY <1>3, <1>4 DEF ChainStep

LEMMA ChainType ==
  ASSUME kids \in Seq(Child), NEW s, NEW i \in 0 .. N
  PROVE  /\ Chain(s, i) \in Seq(1 .. N)
         /\ i # 0 => Chain(s, i) # << >> /\ Chain(s, i)[1] = i
<1> DEFINE S == {n \in Nat : \A j \in 0 .. N : j = 0 \/ j >= N + 1 - n => Chain(s, j) \in Seq(1 .. N)}
<1>1. N \in Nat
  BY KidsAreChildren
<1>0. Chain(s, 0) \in Seq(1 .. N)
  <2>1. 0 \in 0 .. N /\ << >> \in Seq(1 .. N)
    BY <1>1
  <2>2. Chain(s, 0) = << >>
    BY <2>1, ChainSolves
  <2> QED BY <2>1, <2>2
<1>2. 0 \in S
  BY <1>0, <1>1
<1>3. ASSUME NEW n \in Nat, n \in S PROVE n + 1 \in S
  <2> SUFFICES ASSUME NEW j \in 1 .. N, j >= N - n PROVE Chain(s, j) \in Seq(1 .. N)
    <3>1. \A k \in 0 .. N : k = 0 \/ k >= N + 1 - (n + 1) => k = 0 \/ (k \in 1 .. N /\ k >= N - n)
      BY <1>1
    <3> QED BY <1>0, <3>1
  <2>0. NextArmed(j + 1) \in 0 .. N /\ (NextArmed(j + 1) = 0 \/ NextArmed(j + 1) > j)
    BY NextIsLater
  <2>1. NextArmed(j + 1) = 0 \/ NextArmed(j + 1) >= N + 1 - n
    BY <1>1, <2>0
  <2>2. Chain(s, NextArmed(j + 1)) \in Seq(1 .. N)
    BY <1>3, <2>0, <2>1
  <2>3. <<j>> \o Chain(s, NextArmed(j + 1)) \in Seq(1 .. N) /\ <<j>> \o << >> \in Seq(1 .. N)
    BY <2>2
  <2>4. j \in 0 .. N /\ j # 0
    BY <1>1
  <2> QED BY <2>3, <2>4, ChainSolves
<1>4. N \in S
  <2> HIDE DEF S
  <2> QED BY <1>1, <1>2, <1>3, NatSetInduction
<1>5. \A j \in 0 .. N : Chain(s, j) \in Seq(1 .. N)
  BY <1>1, <1>4
<1>6. ASSUME i # 0 PROVE Chain(s, i) # << >> /\ Chain(s, i)[1] = i
  <2>1. CASE FiresNext(s, kids[i])
    <3>0. i \in 1 .. N
      BY <1>1, <1>6
    <3>1. NextArmed(i + 1) \in 0 .. N
      BY <3>0, NextIsLater
    <3>2. Chain(s, i) = <<i>> \o Chain(s, NextArmed(i + 1)) /\ Chain(s, NextArmed(i + 1)) \in Seq(1 .. N)
      BY <1>5, <1>6, <2>1, <3>1, ChainSolves
    <3> QED BY <3>2
  <2>2. CASE ~FiresNext(s, kids[i])
    <3>1. Chain(s, i) = <<i>> \o << >>
      BY <1>6, <2>2, ChainSolves
    <3> QED BY <3>1
  <2> QED BY <2>1, <2>2
<1> QED BY <1>5, <1>6

\* Outside of sequences no child runs into the next one.
LEMMA PlaylistChain ==
  ASSUME kids \in Seq(Child), show.mode # "sequential", NEW s, NEW i \in 0 .. N
  PROVE  Chain(s, i) = IF i = 0 THEN << >> ELSE <<i>>
<1>1. ~FiresNext(s, kids[i])
  BY DEF FiresNext
<1>2. <<i>> \o << >> = <<i>>
  OBVIOUS
<1> QED BY <1>1, <1>2, ChainSolves

(***************************************************************************)
(* The two states a call works on, and what one may do to them             *)
(***************************************************************************)
States == {"standby", "running", "paused"}
Pending == [left : Nat, src : Child \cup {NoCue}, expect : Child \cup {NoCue}, same : BOOLEAN]
GroupStates == [state : States, inPre : BOOLEAN, elapsed : Nat, cur : Child \cup {NoCue},
                done : BOOLEAN, pend : Pending, bag : SUBSET (Nat \ {0}), drawn : Nat]
ChildStates == [state : States, marker : BOOLEAN, elapsed : Nat]
Pairs == [g : GroupStates, ch : [Child -> ChildStates]]

AuthoredTypes ==
  /\ show \in Shows
  /\ kids \in Seq(Child) /\ IsInjective(kids)
  /\ off \subseteq Child

\* A pending advance belongs to the child the sequence is at.
Coherent(s) ==
  \/ s.g.pend = NoAdvance
  \/ Ordered /\ s.g.cur \in Child /\ s.g.pend.src = s.g.cur /\ s.g.pend.expect = s.g.cur

\* Nothing but the child a playlist has just fired is active that was not before.
Narrows(x, y) == Active(y) \subseteq Active(x) \/ \E c : Active(y) \subseteq {c}

\* What every call that fires children does to the pair.
Keeps(s, t) ==
  /\ t \in Pairs
  /\ t.g.bag = s.g.bag
  /\ Coherent(s) => Coherent(t)
  /\ show.mode = "playlist" => Narrows(s.ch, t.ch)

LEMMA KeepsTransitive ==
  ASSUME NEW s, NEW t, NEW u, Keeps(s, t), Keeps(t, u)
  PROVE  Keeps(s, u)
<1>1. ASSUME show.mode = "playlist" PROVE Narrows(s.ch, u.ch)
  <2>1. Narrows(s.ch, t.ch) /\ Narrows(t.ch, u.ch)
    BY <1>1 DEF Keeps
  <2> QED BY <2>1 DEF Narrows
<1> QED BY <1>1 DEF Keeps

LEMMA StartedType ==
  ASSUME NEW k \in ChildStates
  PROVE  Started(k) \in ChildStates /\ Started(k).state = "running" /\ IdleChild \in ChildStates
BY DEF ChildStates, Started, IdleChild, States

(***************************************************************************)
(* One call of fire_next_sequential                                        *)
(***************************************************************************)
LEMMA FireNextKeeps ==
  ASSUME AuthoredTypes, NEW s \in Pairs, NEW after \in Child \cup {NoCue}
  PROVE  Keeps(s, FireNext(s, after)) /\ FireNext(s, after).g.pend = NoAdvance
<1> DEFINE calm == [s EXCEPT !.g.pend = NoAdvance]
           first == NextArmed(IF after = NoCue THEN 1 ELSE Pos(after) + 1)
           start == IF first = 0 /\ Loops THEN NextArmed(1) ELSE first
           chain == Chain(s, start)
           fired == {kids[i] : i \in Range(chain)}
           last == IF chain = << >> THEN NoCue ELSE kids[Last(chain)]
           started == [c \in Child |->
                    IF c \in fired \ show.broken
                    THEN [Started(s.ch[c]) EXCEPT !.marker = @ \/ FiresNext(s, c)]
                    ELSE IF c = after /\ s.ch[c].state = "standby" THEN IdleChild ELSE s.ch[c]]
           fg == [calm.g EXCEPT
                     !.cur = IF last = NoCue THEN @ ELSE last,
                     !.done = @ \/ last = NoCue \/ last \in show.broken \/ FiresNext(s, last)]
           fc == IF show.mode = "playlist" /\ last # NoCue /\ last \notin show.broken
                 THEN AfterExclusion(started, last) ELSE started
<1>0. kids \in Seq(Child) /\ N \in Nat
  BY KidsAreChildren DEF AuthoredTypes
<1>1. s.g \in GroupStates /\ s.ch \in [Child -> ChildStates] /\ s = [g |-> s.g, ch |-> s.ch]
  BY DEF Pairs
<1>2. NoAdvance \in Pending
  BY DEF NoAdvance, Pending
<1>3. calm \in Pairs /\ calm.g.pend = NoAdvance /\ calm.ch = s.ch /\ calm.g.bag = s.g.bag
      /\ calm.g.cur = s.g.cur
  BY <1>2 DEF Pairs, GroupStates
<1>4. start \in 0 .. N
  <2>1. Pos(after) + 1 \in Nat \ {0} /\ 1 \in Nat \ {0}
    BY <1>0, PosOf
  <2>2. first \in 0 .. N /\ NextArmed(1) \in 0 .. N
    BY <1>0, <2>1, NextArmedOf
  <2> QED BY <2>2
<1>5. chain \in Seq(1 .. N)
  <2> HIDE DEF start
  <2> QED BY <1>0, <1>4, ChainType
<1>6. last \in Child \cup {NoCue} /\ fired \subseteq Child
  <2> HIDE DEF chain
  <2>1. \A i \in Range(chain) : i \in 1 .. N
    BY <1>5, SeqElements
  <2>2. chain # << >> => Last(chain) \in 1 .. N
    BY <1>5, SeqElements
  <2> QED BY <1>0, <2>1, <2>2, KidsAreChildren
<1>7. started \in [Child -> ChildStates]
  <2> HIDE DEF fired
  <2> SUFFICES ASSUME NEW c \in Child PROVE started[c] \in ChildStates
    OBVIOUS
  <2>1. s.ch[c] \in ChildStates /\ Started(s.ch[c]) \in ChildStates /\ IdleChild \in ChildStates
    BY <1>1, StartedType
  <2>2. FiresNext(s, c) \in BOOLEAN
    BY DEF FiresNext
  <2>3. [Started(s.ch[c]) EXCEPT !.marker = @ \/ FiresNext(s, c)] \in ChildStates
    BY <2>1, <2>2 DEF ChildStates
  <2> QED BY <2>1, <2>3
<1>8. fc \in [Child -> ChildStates]
  <2> HIDE DEF started, last
  <2>1. IdleChild \in ChildStates
    BY DEF IdleChild, ChildStates, States
  <2> QED BY <1>7, <2>1 DEF AfterExclusion
<1>9. fg \in GroupStates /\ fg.pend = NoAdvance /\ fg.bag = s.g.bag
  <2> HIDE DEF last
  <2>1. FiresNext(s, last) \in BOOLEAN /\ (last \in show.broken) \in BOOLEAN
    BY DEF FiresNext
  <2>2. calm.g \in GroupStates
    BY <1>3 DEF Pairs
  <2> HIDE DEF calm
  <2> QED BY <1>3, <1>6, <2>1, <2>2 DEF GroupStates
<1>10. ASSUME show.mode = "playlist" PROVE Narrows(s.ch, fc)
  <2>1. chain = IF start = 0 THEN << >> ELSE <<start>>
    <3> HIDE DEF start
    <3> QED BY <1>0, <1>4, <1>10, PlaylistChain
  <2>2. fired = (IF start = 0 THEN {} ELSE {kids[start]}) /\ last = (IF start = 0 THEN NoCue ELSE kids[start])
    <3> HIDE DEF chain, start
    <3>1. start = 0 => fired = {} /\ last = NoCue
      BY <2>1 DEF Range
    <3>2. start # 0 => Range(chain) = {start} /\ Last(chain) = start /\ chain # << >>
      BY <2>1 DEF Range, Last
    <3> QED BY <3>1, <3>2
  <2> HIDE DEF fired, last, start, chain
  <2>3. \A c \in Child : started[c].state # "standby" => s.ch[c].state # "standby" \/ c \in fired \ show.broken
    BY DEF IdleChild
  <2> HIDE DEF started
  <2>4. CASE last # NoCue /\ last \notin show.broken
    <3>1. fc = AfterExclusion(started, last)
      BY <1>10, <2>4
    <3>2. Active(fc) \subseteq {last}
      BY <1>0, <3>1, KidsAreChildren DEF AfterExclusion, Active, IdleChild
    <3> QED BY <3>2 DEF Narrows
  <2>5. CASE ~(last # NoCue /\ last \notin show.broken)
    <3>1. fired \ show.broken = {} /\ fc = started
      <4>1. start # 0 => kids[start] # NoCue
        BY <1>0, <1>4, KidsAreChildren, NoCueAssumption
      <4> QED BY <2>2, <2>5, <4>1
    <3>2. Active(fc) \subseteq Active(s.ch)
      BY <1>0, <2>3, <3>1, KidsAreChildren DEF Active
    <3> QED BY <3>2 DEF Narrows
  <2> QED BY <2>4, <2>5
<1>11. FireNext(s, after) = IF after # NoCue /\ after \notin Kids THEN calm ELSE [g |-> fg, ch |-> fc]
  BY DEF FireNext
<1> HIDE DEF calm, fg, fc
<1> DEFINE f == FireNext(s, after)
<1>12. ASSUME after # NoCue /\ after \notin Kids PROVE Keeps(s, f) /\ f.g.pend = NoAdvance
  <2>1. f = calm
    BY <1>11, <1>12
  <2>2. Narrows(s.ch, f.ch)
    BY <1>3, <2>1 DEF Narrows
  <2> HIDE DEF f
  <2> QED BY <1>3, <2>1, <2>2 DEF Keeps, Coherent
<1>13. ASSUME ~(after # NoCue /\ after \notin Kids) PROVE Keeps(s, f) /\ f.g.pend = NoAdvance
  <2>1. f = [g |-> fg, ch |-> fc]
    BY <1>11, <1>13
  <2> HIDE DEF f
  <2>2. f \in Pairs /\ f.g = fg /\ f.ch = fc
    BY <1>8, <1>9, <2>1 DEF Pairs
  <2> QED BY <1>9, <1>10, <2>2 DEF Keeps, Coherent
<1> QED BY <1>12, <1>13

(***************************************************************************)
(* The calls it is made from                                               *)
(***************************************************************************)
LEMMA ShowFields ==
  ASSUME AuthoredTypes
  PROVE  /\ show.mode \in GroupModes /\ show.pre \in Nat /\ show.post \in [Child -> Nat]
         /\ kids \in Seq(Child) /\ N \in Nat /\ Kids \subseteq Child
BY ShowsAssumption, KidsAreChildren DEF AuthoredTypes

\* A step that fires nothing.
LEMMA FewerKept ==
  ASSUME NEW s \in Pairs, NEW t \in Pairs, t.g.bag = s.g.bag,
         Coherent(s) => Coherent(t), Active(t.ch) \subseteq Active(s.ch)
  PROVE  Keeps(s, t)
BY DEF Keeps, Narrows

LEMMA SameKept ==
  ASSUME NEW s \in Pairs
  PROVE  Keeps(s, s)
BY DEF Keeps, Narrows

LEMMA ActionKeeps ==
  ASSUME AuthoredTypes, NEW s \in Pairs
  PROVE  Keeps(s, Action(s)) /\ Action(s).g.pend = NoAdvance
<1> DEFINE begun == [s EXCEPT !.g.inPre = FALSE, !.g.state = "running", !.g.elapsed = 0,
                              !.g.done = FALSE, !.g.pend = NoAdvance]
           all == [c \in Child |-> IF c \in Kids \ (off \cup show.broken)
                                    THEN Started(s.ch[c]) ELSE s.ch[c]]
<1>1. begun \in Pairs /\ begun.g.bag = s.g.bag /\ begun.g.pend = NoAdvance /\ begun.ch = s.ch
  BY DEF Pairs, GroupStates, NoAdvance, Pending, States
<1>2. s.g.cur \in Child \cup {NoCue} /\ s.ch \in [Child -> ChildStates]
  BY DEF Pairs, GroupStates
<1>3. all \in [Child -> ChildStates]
  BY <1>2, StartedType
<1>4. Action(s) = CASE Ordered -> FireNext(begun, s.g.cur)
                    [] show.mode = "simultaneous" -> [begun EXCEPT !.ch = all]
                    [] OTHER -> begun
  BY DEF Action
<1> HIDE DEF begun, all
<1>5. Keeps(s, begun)
  BY <1>1, FewerKept DEF Coherent
<1>6. CASE Ordered
  <2>1. Action(s) = FireNext(begun, s.g.cur)
    BY <1>4, <1>6 DEF Ordered
  <2> QED BY <1>1, <1>2, <1>5, <2>1, FireNextKeeps, KeepsTransitive
<1>7. CASE ~Ordered /\ show.mode = "simultaneous"
  <2>1. Action(s) = [begun EXCEPT !.ch = all]
    BY <1>4, <1>7
  <2>2. Action(s) \in Pairs /\ Action(s).g = begun.g
    BY <1>1, <1>3, <2>1 DEF Pairs
  <2>3. show.mode # "playlist"
    BY <1>7 DEF Ordered
  <2> HIDE DEF Action
  <2> QED BY <1>1, <2>2, <2>3 DEF Keeps, Coherent
<1>8. CASE ~Ordered /\ show.mode # "simultaneous"
  <2>1. Action(s) = begun
    BY <1>4, <1>8
  <2> QED BY <1>1, <1>5, <2>1
<1> QED BY <1>6, <1>7, <1>8

LEMMA WentKeeps ==
  ASSUME AuthoredTypes, NEW s \in Pairs
  PROVE  Keeps(s, Went(s))
<1>1. s.g.cur \in Child \cup {NoCue}
  BY DEF Pairs, GroupStates
<1>2. CASE Advances(s)
  <2> DEFINE b == [s EXCEPT !.g.done = FALSE]
  <2>1. b \in Pairs /\ b.g.bag = s.g.bag /\ b.g.pend = s.g.pend /\ b.g.cur = s.g.cur /\ b.ch = s.ch
    BY DEF Pairs, GroupStates
  <2>2. Went(s) = FireNext(b, s.g.cur)
    BY <1>2 DEF Went
  <2> HIDE DEF b
  <2>3. Keeps(s, b)
    BY <2>1, FewerKept DEF Coherent
  <2> QED BY <1>1, <2>1, <2>2, <2>3, FireNextKeeps, KeepsTransitive
<1>3. CASE ~Advances(s) /\ show.pre > 0
  <2> DEFINE b == [s EXCEPT !.g.inPre = TRUE, !.g.state = "running", !.g.elapsed = 0]
  <2>1. b \in Pairs /\ b.g.bag = s.g.bag /\ b.g.pend = s.g.pend /\ b.g.cur = s.g.cur /\ b.ch = s.ch
    BY DEF Pairs, GroupStates, States
  <2>2. Went(s) = b
    BY <1>3 DEF Went, Begin
  <2> HIDE DEF b
  <2> QED BY <2>1, <2>2, FewerKept DEF Coherent
<1>4. CASE ~Advances(s) /\ ~(show.pre > 0)
  <2>1. Went(s) = Action(s)
    BY <1>4 DEF Went, Begin
  <2> QED BY <2>1, ActionKeeps
<1> QED BY <1>2, <1>3, <1>4

\* One child is reset.
LEMMA ResetKeeps ==
  ASSUME AuthoredTypes, NEW s \in Pairs, NEW c \in Child
  PROVE  LET reset == [s EXCEPT !.ch[c] = IdleChild]
         IN  Keeps(s, reset) /\ reset.g = s.g /\ reset \in Pairs
<1> DEFINE reset == [s EXCEPT !.ch[c] = IdleChild]
<1>1. reset \in Pairs /\ reset.g = s.g /\ reset.ch = [s.ch EXCEPT ![c] = IdleChild]
  BY StartedType DEF Pairs, IdleChild, ChildStates, States
<1> HIDE DEF reset
<1>2. Active(reset.ch) \subseteq Active(s.ch)
  BY <1>1, ShowFields DEF Active, IdleChild, Pairs
<1>3. Coherent(s) => Coherent(reset)
  BY <1>1 DEF Coherent
<1> QED BY <1>1, <1>2, <1>3, FewerKept DEF reset

LEMMA DriverDoneKeeps ==
  ASSUME AuthoredTypes, Ordered, NEW s \in Pairs, s.g.cur \in Kids
  PROVE  Keeps(s, DriverDone(s))
<1> DEFINE c == s.g.cur
           reset == [s EXCEPT !.ch[c] = IdleChild]
           parked == [reset EXCEPT !.g.done = TRUE]
           waits == [reset EXCEPT !.ch[c].marker = TRUE,
                                  !.g.pend = [left |-> show.post[c], src |-> c,
                                              expect |-> c, same |-> TRUE]]
<1>1. c \in Child /\ c \in Child \cup {NoCue}
  BY ShowFields
<1>2. Keeps(s, reset) /\ reset.g = s.g /\ reset \in Pairs
  BY <1>1, ResetKeeps
<1>3. DriverDone(s) \in {parked, FireNext(reset, c), waits}
  BY DEF DriverDone
<1>4. Keeps(reset, FireNext(reset, c))
  <2> HIDE DEF reset
  <2> QED BY <1>1, <1>2, FireNextKeeps
<1>5. Keeps(reset, parked)
  <2> HIDE DEF reset
  <2>1. parked \in Pairs /\ parked.g.bag = reset.g.bag /\ parked.g.pend = reset.g.pend
        /\ parked.g.cur = reset.g.cur /\ parked.ch = reset.ch
    BY <1>2 DEF Pairs, GroupStates
  <2> HIDE DEF parked
  <2> QED BY <1>2, <2>1, FewerKept DEF Coherent
<1>6. Keeps(reset, waits)
  <2> HIDE DEF reset
  <2>1. [left |-> show.post[c], src |-> c, expect |-> c, same |-> TRUE] \in Pending
    BY <1>1, ShowFields DEF Pending
  <2> DEFINE p == [left |-> show.post[c], src |-> c, expect |-> c, same |-> TRUE]
             wg == [reset.g EXCEPT !.pend = p]
             wc == [reset.ch EXCEPT ![c].marker = TRUE]
  <2>2. waits = [g |-> wg, ch |-> wc]
    <3>1. waits = [[reset EXCEPT !.ch = wc] EXCEPT !.g = wg]
      BY Zenon
    <3> HIDE DEF waits, wg, wc
    <3> QED BY <1>2, <3>1 DEF Pairs
  <2>3. wg \in GroupStates /\ wg.pend = p /\ wg.bag = reset.g.bag /\ wg.cur = c
    BY <1>2, <2>1 DEF Pairs, GroupStates
  <2>4. wc \in [Child -> ChildStates] /\ \A x \in Child : wc[x].state = reset.ch[x].state
    <3>1. reset.ch \in [Child -> ChildStates] /\ c \in Child
      BY <1>1, <1>2 DEF Pairs
    <3> DEFINE marked == [reset.ch[c] EXCEPT !.marker = TRUE]
    <3>2. marked \in ChildStates /\ marked.state = reset.ch[c].state
      BY <3>1 DEF ChildStates
    <3>3. wc = [reset.ch EXCEPT ![c] = marked]
      OBVIOUS
    <3> HIDE DEF wc, marked
    <3> QED BY <3>1, <3>2, <3>3
  <2> HIDE DEF wg, wc
  <2>5. waits \in Pairs /\ waits.g = wg /\ waits.ch = wc
    BY <2>2, <2>3, <2>4 DEF Pairs
  <2> HIDE DEF waits
  <2>6. Active(waits.ch) \subseteq Active(reset.ch)
    BY <2>4, <2>5, ShowFields DEF Active
  <2>7. Coherent(waits)
    BY <1>1, <2>3, <2>5 DEF Coherent
  <2> QED BY <1>2, <2>3, <2>5, <2>6, <2>7, FewerKept
<1> HIDE DEF reset, parked, waits
<1> QED BY <1>2, <1>3, <1>4, <1>5, <1>6, KeepsTransitive

LEMMA SweptType ==
  ASSUME AuthoredTypes, NEW x \in [Child -> ChildStates], NEW these
  PROVE  /\ Swept(x, these) \in [Child -> ChildStates]
         /\ Active(Swept(x, these)) \subseteq Active(x)
         /\ \A c \in Child : x[c].state = "standby" => Swept(x, these)[c] = x[c]
<1>1. IdleChild \in ChildStates /\ IdleChild.state = "standby"
  BY DEF IdleChild, ChildStates, States
<1>2. Kids \subseteq Child
  BY ShowFields
<1> QED BY <1>1, <1>2 DEF Swept, Active

LEMMA SweptKeeps ==
  ASSUME AuthoredTypes, NEW s \in Pairs, NEW these
  PROVE  LET swept == [s EXCEPT !.ch = Swept(s.ch, these)]
         IN  Keeps(s, swept) /\ swept.g = s.g /\ swept.ch = Swept(s.ch, these) /\ swept \in Pairs
<1> DEFINE swept == [s EXCEPT !.ch = Swept(s.ch, these)]
<1>1. s.ch \in [Child -> ChildStates]
  BY DEF Pairs
<1>2. swept \in Pairs /\ swept.g = s.g /\ swept.ch = Swept(s.ch, these)
  BY <1>1, SweptType DEF Pairs
<1> HIDE DEF swept
<1>3. Active(swept.ch) \subseteq Active(s.ch)
  BY <1>1, <1>2, SweptType
<1>4. Keeps(s, swept)
  BY <1>2, <1>3, FewerKept DEF Coherent
<1> QED BY <1>2, <1>4 DEF swept

LEMMA CancelKeeps ==
  ASSUME AuthoredTypes, NEW s \in Pairs
  PROVE  /\ Keeps(s, CancelPending(s))
         /\ CancelPending(s).ch = s.ch /\ CancelPending(s).g.cur = s.g.cur
         /\ CancelPending(s).g.pend = NoAdvance /\ CancelPending(s).g.inPre = s.g.inPre
<1> DEFINE parks == /\ s.g.cur = s.g.pend.expect /\ s.g.pend.src \in Kids
                    /\ s.g.pend.same /\ ~s.ch[s.g.pend.src].marker
           t == CancelPending(s)
<1>1. t = [s EXCEPT !.g.done = @ \/ parks, !.g.pend = NoAdvance]
  BY Zenon DEF CancelPending
<1>2. parks \in BOOLEAN /\ NoAdvance \in Pending
  BY DEF NoAdvance, Pending
<1> HIDE DEF parks, t
<1>3. t \in Pairs /\ t.ch = s.ch /\ t.g.cur = s.g.cur /\ t.g.pend = NoAdvance
      /\ t.g.inPre = s.g.inPre /\ t.g.bag = s.g.bag
  BY <1>1, <1>2 DEF Pairs, GroupStates
<1>4. Keeps(s, t)
  BY <1>3, FewerKept DEF Coherent
<1> QED BY <1>3, <1>4 DEF t

LEMMA DriveKeeps ==
  ASSUME AuthoredTypes, Ordered, NEW s \in Pairs
  PROVE  Keeps(s, Drive(s))
<1> DEFINE c == s.g.cur
           marked == [s EXCEPT !.ch[c].marker = TRUE]
<1>1. Drive(s) = s \/ (c \in Kids /\ Drive(s) = DriverDone(s))
      \/ (c \in Kids /\ Drive(s) = FireNext(marked, c))
  BY DEF Drive, Managed
<1>2. ASSUME c \in Kids PROVE Keeps(s, FireNext(marked, c))
  <2>1. c \in Child
    BY <1>2, ShowFields
  <2>2. marked \in Pairs /\ marked.g = s.g /\ \A x \in Child : marked.ch[x].state = s.ch[x].state
    BY <2>1 DEF Pairs, ChildStates
  <2> HIDE DEF marked
  <2>3. Active(marked.ch) \subseteq Active(s.ch)
    BY <2>2, ShowFields DEF Active
  <2>4. Keeps(s, marked)
    BY <2>2, <2>3, FewerKept DEF Coherent
  <2> QED BY <2>1, <2>2, <2>4, FireNextKeeps, KeepsTransitive
<1>3. Keeps(s, s)
  BY SameKept
<1> HIDE DEF marked
<1> QED BY <1>1, <1>2, <1>3, DriverDoneKeeps

LEMMA TickSequentialKeeps ==
  ASSUME AuthoredTypes, Ordered, NEW s \in Pairs
  PROVE  Keeps(s, TickSequential(s))
<1> DEFINE swept == [s EXCEPT !.ch = Swept(s.ch, Kids \ {s.g.cur})]
<1>1. Keeps(s, swept) /\ swept.g = s.g /\ swept \in Pairs
  BY SweptKeeps
<1>2. TickSequential(s) \in {Drive(swept), swept, Drive(CancelPending(swept)),
                            FireNext(swept, s.g.pend.src)}
  BY DEF TickSequential
<1> HIDE DEF swept
<1>3. Keeps(swept, Drive(swept)) /\ Keeps(swept, Drive(CancelPending(swept)))
  <2>1. Keeps(swept, CancelPending(swept)) /\ CancelPending(swept) \in Pairs
    BY <1>1, CancelKeeps DEF Keeps
  <2> QED BY <1>1, <2>1, DriveKeeps, KeepsTransitive
<1>4. Keeps(swept, FireNext(swept, s.g.pend.src))
  <2>1. s.g.pend.src \in Child \cup {NoCue}
    BY DEF Pairs, GroupStates, Pending
  <2> QED BY <1>1, <2>1, FireNextKeeps
<1> QED BY <1>1, <1>2, <1>3, <1>4, KeepsTransitive

LEMMA TickedKeeps ==
  ASSUME AuthoredTypes, NEW s \in Pairs
  PROVE  Keeps(s, Ticked(s))
<1> DEFINE swept == [s EXCEPT !.ch = Swept(s.ch, Kids)]
           drawn == IF s.g.drawn \in 1 .. N /\ s.ch[kids[s.g.drawn]].state = "running"
                         /\ Over(s.ch, kids[s.g.drawn]) THEN 0 ELSE s.g.drawn
           t == [s EXCEPT !.ch = Swept(s.ch, Kids), !.g.drawn = drawn]
<1>1. Ticked(s) = s \/ Ticked(s) = Action(s) \/ (Ordered /\ Ticked(s) = TickSequential(s))
      \/ Ticked(s) = t
  BY DEF Ticked
<1>2. Keeps(s, t)
  <2>1. Keeps(s, swept) /\ swept.g = s.g /\ swept.ch = Swept(s.ch, Kids) /\ swept \in Pairs
    BY SweptKeeps
  <2>2. t = [swept EXCEPT !.g.drawn = drawn]
    OBVIOUS
  <2>3. drawn \in Nat
    BY DEF Pairs, GroupStates
  <2> HIDE DEF swept, drawn, t
  <2>4. t \in Pairs /\ t.g.bag = swept.g.bag /\ t.g.pend = swept.g.pend
        /\ t.g.cur = swept.g.cur /\ t.ch = swept.ch
    BY <2>1, <2>2, <2>3 DEF Pairs, GroupStates
  <2>5. Keeps(swept, t)
    BY <2>1, <2>4, FewerKept DEF Coherent
  <2> QED BY <2>1, <2>5, KeepsTransitive
<1>3. Keeps(s, s)
  BY SameKept
<1> HIDE DEF t
<1> QED BY <1>1, <1>2, <1>3, ActionKeeps, TickSequentialKeeps

(***************************************************************************)
(* The lot a random group draws                                            *)
(***************************************************************************)
Bag(s) == IF s.g.bag = {} THEN Refill ELSE s.g.bag

LEMMA DrawOf ==
  ASSUME AuthoredTypes, NEW s \in Pairs, NEW d \in Draws(s)
  PROVE  /\ d.bag \subseteq Bag(s) /\ d.bag \subseteq Nat \ {0}
         /\ d.to = 0 \/ (d.to \in 1 .. N /\ d.to \in Bag(s) \ d.bag)
         /\ N = 0 => d.bag = s.g.bag
<1> DEFINE bag == Bag(s)
           armed == {i \in bag : i <= N /\ kids[i] \notin off}
           drop == {i \in bag : i <= N /\ kids[i] \in off}
<1>1. N \in Nat /\ s.g.bag \subseteq Nat \ {0}
  BY ShowFields DEF Pairs, GroupStates
<1>2. bag \subseteq Nat \ {0} /\ s.g.bag \subseteq bag
  BY <1>1 DEF Bag, Refill
<1>3. \/ N = 0 /\ d = [bag |-> s.g.bag, to |-> 0]
      \/ \E e \in SUBSET drop, i \in armed : d = [bag |-> bag \ (e \cup {i}), to |-> i]
      \/ N # 0 /\ d = [bag |-> {}, to |-> 0]
  BY DEF Draws, Bag
<1>4. CASE N = 0 /\ d = [bag |-> s.g.bag, to |-> 0]
  BY <1>1, <1>2, <1>4
<1>5. CASE \E e \in SUBSET drop, i \in armed : d = [bag |-> bag \ (e \cup {i}), to |-> i]
  <2>1. PICK e \in SUBSET drop, i \in armed : d = [bag |-> bag \ (e \cup {i}), to |-> i]
    BY <1>5
  <2>2. d.bag = bag \ (e \cup {i}) /\ d.to = i
    BY <2>1
  <2>3. i \in bag /\ i \in 1 .. N
    BY <1>1, <1>2
  <2> QED BY <1>1, <1>2, <2>2, <2>3
<1>6. CASE N # 0 /\ d = [bag |-> {}, to |-> 0]
  BY <1>6
<1> QED BY <1>3, <1>4, <1>5, <1>6

LEMMA FireDrawnOf ==
  ASSUME AuthoredTypes, NEW s \in Pairs, NEW d \in Draws(s)
  PROVE  /\ FireDrawn(s, d) \in Pairs
         /\ FireDrawn(s, d).g.bag = d.bag
         /\ FireDrawn(s, d).g.pend = s.g.pend
         /\ FireDrawn(s, d).g.cur = s.g.cur
<1>1. d.bag \in SUBSET (Nat \ {0}) /\ (d.to = 0 \/ d.to \in 1 .. N)
  BY DrawOf
<1>2. d.to = 0 \/ kids[d.to] \in Child
  BY <1>1, ShowFields, KidsAreChildren
<1> DEFINE c == kids[d.to]
           fired == [s.ch EXCEPT ![c] = Started(@)]
<1>3. d.to \in Nat
  BY <1>1, ShowFields
<1>4. ASSUME NEW x \in Nat, NEW y \in [Child -> ChildStates]
      PROVE  LET t == [s EXCEPT !.g.bag = d.bag, !.g.drawn = x, !.ch = y]
             IN  t \in Pairs /\ t.g.bag = d.bag /\ t.g.pend = s.g.pend /\ t.g.cur = s.g.cur
  BY <1>1 DEF Pairs, GroupStates
<1>5. s.ch \in [Child -> ChildStates] /\ s.g.drawn \in Nat
  BY DEF Pairs, GroupStates
<1>6. CASE d.to = 0 \/ c \in show.broken
  <2>1. FireDrawn(s, d) \in {[s EXCEPT !.g.bag = d.bag], [s EXCEPT !.g.bag = d.bag, !.g.drawn = 0]}
    BY <1>6 DEF FireDrawn
  <2>2. LET t == [s EXCEPT !.g.bag = d.bag]
        IN  t \in Pairs /\ t.g.bag = d.bag /\ t.g.pend = s.g.pend /\ t.g.cur = s.g.cur
    BY <1>1 DEF Pairs, GroupStates
  <2>3. LET t == [s EXCEPT !.g.bag = d.bag, !.g.drawn = 0]
        IN  t \in Pairs /\ t.g.bag = d.bag /\ t.g.pend = s.g.pend /\ t.g.cur = s.g.cur
    BY <1>1 DEF Pairs, GroupStates
  <2> QED BY <2>1, <2>2, <2>3
<1>7. CASE ~(d.to = 0 \/ c \in show.broken)
  <2>1. fired \in [Child -> ChildStates]
    BY <1>2, <1>5, <1>7, StartedType
  <2>2. FireDrawn(s, d) = [s EXCEPT !.g.bag = d.bag, !.g.drawn = d.to, !.ch = fired]
    BY <1>7, Zenon DEF FireDrawn
  <2> HIDE DEF fired
  <2> DEFINE t == [s EXCEPT !.g.bag = d.bag, !.g.drawn = d.to, !.ch = fired]
  <2>3. t \in Pairs /\ t.g.bag = d.bag /\ t.g.pend = s.g.pend /\ t.g.cur = s.g.cur
    BY <1>3, <1>4, <2>1
  <2>4. FireDrawn(s, d) = t
    BY <2>2
  <2> HIDE DEF t
  <2> QED BY <2>3, <2>4
<1> QED BY <1>6, <1>7

(***************************************************************************)
(* The invariant                                                           *)
(***************************************************************************)
\* The advance of c is cancelled: the sequence is at c, which sounds no more,
\* and either the tick has yet to notice or it has parked the sequence there.
Holding(s, c) ==
  /\ Ordered /\ ~s.g.inPre /\ s.g.cur = c
  /\ s.ch[c].state = "standby" /\ ~s.ch[c].marker
  /\ IF s.g.pend = NoAdvance THEN s.g.done \/ c \notin Kids ELSE s.g.pend.same

GroupTypes ==
  /\ AuthoredTypes /\ Now \in Pairs
  /\ direct \subseteq Child /\ cancelled \in Child \cup {NoCue}

OneActive == show.mode = "playlist" => \A a, b \in Active(ch) \ direct : a = b
Parked == cancelled # NoCue => Holding(Now, cancelled)

GroupInv ==
  /\ GroupTypes
  /\ Coherent(Now)
  /\ OneActive
  /\ OncePerRound
  /\ Parked

LEMMA HoldingDrive ==
  ASSUME NEW s \in Pairs, NEW c \in Child, Holding(s, c), s.g.pend = NoAdvance
  PROVE  Drive(s) = s
BY DEF Holding, Drive, Managed

LEMMA HoldingTick ==
  ASSUME AuthoredTypes, NEW s \in Pairs, NEW c \in Child, Coherent(s), Holding(s, c)
  PROVE  /\ Holding(Ticked(s), c)
         /\ \A x \in Child : s.ch[x].state = "standby" => Ticked(s).ch[x] = s.ch[x]
<1> DEFINE swept == [s EXCEPT !.ch = Swept(s.ch, Kids \ {s.g.cur})]
           calm == CancelPending(swept)
<1>1. swept.g = s.g /\ swept.ch = Swept(s.ch, Kids \ {s.g.cur}) /\ swept \in Pairs
  BY SweptKeeps
<1>2. swept.ch[c] = s.ch[c] /\ \A x \in Child : s.ch[x].state = "standby" => swept.ch[x] = s.ch[x]
  BY <1>1, SweptType DEF Pairs, Holding
<1>3. Holding(swept, c)
  <2> HIDE DEF swept
  <2> QED BY <1>1, <1>2 DEF Holding
<1>4. Ticked(s) \in {s, TickSequential(s)}
  BY DEF Ticked, Holding
<1>5. Holding(calm, c) /\ calm.ch = swept.ch
  <2> HIDE DEF swept
  <2>1. calm.ch = swept.ch /\ calm.g.cur = c /\ calm.g.inPre = swept.g.inPre /\ calm.g.pend = NoAdvance
    BY <1>1, <1>3, CancelKeeps DEF Holding
  <2>2. calm.g.done = (swept.g.done \/ (/\ swept.g.cur = swept.g.pend.expect
                        /\ swept.g.pend.src \in Kids /\ swept.g.pend.same
                        /\ ~swept.ch[swept.g.pend.src].marker))
    BY <1>1 DEF CancelPending, Pairs, GroupStates
  <2>3. c \notin Kids \/ calm.g.done
    BY <1>1, <1>2, <2>2 DEF Holding, Coherent
  <2> HIDE DEF calm
  <2> QED BY <1>3, <2>1, <2>3 DEF Holding
<1>6. TickSequential(s) \in {swept, calm}
  <2>1. CASE s.g.pend = NoAdvance
    <3>1. TickSequential(s) = Drive(swept)
      BY <2>1 DEF TickSequential
    <3> HIDE DEF swept
    <3> QED BY <1>1, <1>3, <2>1, <3>1, HoldingDrive
  <2>2. CASE s.g.pend # NoAdvance
    <3>1. s.g.pend.src = c
      BY <2>2 DEF Coherent, Holding
    <3>2. swept.ch[c].state # "paused" /\ ~PendingHolds(swept)
      BY <1>1, <1>2, <3>1 DEF Holding, PendingHolds
    <3>3. TickSequential(s) = Drive(calm)
      BY <2>2, <3>1, <3>2 DEF TickSequential, SourcePaused
    <3> HIDE DEF swept
    <3>4. calm \in Pairs /\ calm.g.pend = NoAdvance
      BY <1>1, CancelKeeps DEF Keeps
    <3> HIDE DEF calm
    <3> QED BY <1>5, <3>3, <3>4, HoldingDrive
  <2> QED BY <2>1, <2>2
<1> HIDE DEF swept, calm
<1> QED BY <1>2, <1>3, <1>4, <1>5, <1>6

(***************************************************************************)
(* Every step keeps it                                                     *)
(***************************************************************************)
LEMMA BecomesKept ==
  ASSUME GroupTypes, Coherent(Now), OneActive, UNCHANGED authored,
         NEW t \in Pairs, Coherent(t), show.mode = "playlist" => Narrows(ch, t.ch), Becomes(t)
  PROVE  /\ AuthoredTypes' /\ (Now \in Pairs)' /\ direct' \subseteq Child
         /\ Coherent(Now)' /\ OneActive'
<1>1. show' = show /\ kids' = kids /\ off' = off /\ g' = t.g /\ ch' = t.ch
      /\ direct' = direct \cap {c \in Child : t.ch[c].state # "standby"}
  BY DEF authored, Becomes
<1>2. AuthoredTypes'
  BY <1>1 DEF GroupTypes, AuthoredTypes
<1>3. (Now \in Pairs)' /\ Coherent(Now)'
  BY <1>1 DEF Now, Pairs, Coherent, Ordered
<1>4. ASSUME show.mode = "playlist" PROVE \A a, b \in Active(ch)' \ direct' : a = b
  <2>1. Active(ch)' = Active(t.ch) /\ Active(t.ch) \subseteq Child
    BY <1>1, ShowFields DEF Active, GroupTypes, Kids
  <2>2. Active(ch)' \ direct' = Active(t.ch) \ direct
    BY <1>1, <2>1 DEF Active
  <2>3. CASE Active(t.ch) \subseteq Active(ch)
    BY <1>4, <2>2, <2>3 DEF OneActive
  <2>4. CASE \E c : Active(t.ch) \subseteq {c}
    BY <2>2, <2>4
  <2> QED BY <1>4, <2>3, <2>4 DEF Narrows
<1> QED BY <1>1, <1>2, <1>3, <1>4 DEF OneActive, GroupTypes

LEMMA BecomesKeeping ==
  ASSUME GroupTypes, Coherent(Now), OneActive, UNCHANGED authored,
         NEW t, Keeps(Now, t), Becomes(t)
  PROVE  /\ AuthoredTypes' /\ (Now \in Pairs)' /\ direct' \subseteq Child
         /\ Coherent(Now)' /\ OneActive' /\ g'.bag = g.bag
<1>1. t \in Pairs /\ Coherent(t) /\ (show.mode = "playlist" => Narrows(ch, t.ch)) /\ t.g.bag = g.bag
  BY DEF Keeps, Now
<1>2. g' = t.g
  BY DEF Becomes
<1> QED BY <1>1, <1>2, BecomesKept

LEMMA DrawStep ==
  ASSUME GroupInv, Calm, show.mode = "startRandom", UNCHANGED authored,
         NEW s, Keeps(Now, s), Draw(s)
  PROVE  GroupInv'
<1>1. GroupTypes /\ AuthoredTypes /\ Coherent(Now) /\ OneActive /\ Now \in Pairs
  BY DEF GroupInv, GroupTypes
<1>2. s \in Pairs /\ s.g.bag = g.bag /\ Coherent(s)
  BY <1>1 DEF Keeps, Now
<1>3. show' = show /\ kids' = kids /\ off' = off
  BY DEF authored
<1>4. cancelled = NoCue
  BY DEF GroupInv, Parked, Holding, Ordered
<1>5. N \in Nat /\ g.bag \subseteq Nat \ {0}
  BY <1>1, <1>2, ShowFields DEF Pairs, GroupStates
<1>6. CASE /\ DrawPanics(s) /\ poisoned' = TRUE
           /\ UNCHANGED <<g, ch, history>>
  <2>1. shifted
    <3>1. PICK i \in Bag(s) : i > N
      BY <1>6 DEF DrawPanics, Bag
    <3>2. s.g.bag # {} /\ i \in g.bag
      BY <1>2, <1>5, <3>1 DEF Bag, Refill
    <3> QED BY <1>5, <3>1, <3>2 DEF GroupInv, OncePerRound
  <2>2. GroupTypes' /\ Coherent(Now)' /\ OneActive' /\ Parked'
    BY <1>3, <1>4, <1>6 DEF GroupInv, GroupTypes, AuthoredTypes, Now, Coherent, Ordered, OneActive,
         Active, Kids, Parked, history
  <2>3. OncePerRound'
    BY <1>6, <2>1 DEF OncePerRound, history
  <2> QED BY <2>2, <2>3 DEF GroupInv
<1>7. ASSUME NEW d \in Draws(s), Becomes(FireDrawn(s, d)),
             round' = (IF s.g.bag = {} THEN {} ELSE round) \cup
                         (IF d.to = 0 THEN {} ELSE {kids[d.to]}),
             shifted' = (shifted /\ s.g.bag # {}),
             UNCHANGED <<poisoned, lost, cancelled>>
      PROVE  GroupInv'
  <2> DEFINE t == FireDrawn(s, d)
  <2>1. t \in Pairs /\ t.g.bag = d.bag /\ t.g.pend = s.g.pend /\ t.g.cur = s.g.cur
    BY <1>1, <1>2, FireDrawnOf
  <2>2. Becomes(t)
    BY <1>7
  <2> HIDE DEF t
  <2>3. Coherent(t)
    BY <1>2, <2>1 DEF Coherent
  <2>4. AuthoredTypes' /\ (Now \in Pairs)' /\ direct' \subseteq Child /\ Coherent(Now)' /\ OneActive'
    BY <1>1, <2>1, <2>2, <2>3, BecomesKept
  <2>5. Parked'
    BY <1>4, <1>7 DEF Parked
  <2>6. OncePerRound'
    <3>1. g'.bag = d.bag
      BY <2>1, <2>2 DEF Becomes
    <3>2. d.bag \subseteq Bag(s) /\ (d.to = 0 \/ (d.to \in 1 .. N /\ d.to \in Bag(s) \ d.bag))
      BY <1>1, <1>2, DrawOf
    <3>3. \A i, j \in 1 .. N : kids[i] = kids[j] => i = j
      BY <1>1, ShowFields, KidsAreChildren DEF AuthoredTypes, IsInjective
    <3> SUFFICES ASSUME ~shifted'
                 PROVE  /\ d.bag \subseteq 1 .. N
                        /\ {kids[i] : i \in d.bag} \cap round' = {}
                        /\ ~poisoned'
      BY <1>3, <3>1 DEF OncePerRound, N
    <3>4. ~poisoned'
      BY <1>7 DEF Calm
    <3>5. Bag(s) \subseteq 1 .. N /\ {kids[i] : i \in Bag(s)} \cap (IF s.g.bag = {} THEN {} ELSE round) = {}
      BY <1>2, <1>7 DEF Bag, Refill, GroupInv, OncePerRound
    <3>6. d.to # 0 => kids[d.to] \notin {kids[i] : i \in d.bag}
      BY <3>2, <3>3, <3>5
    <3> QED BY <1>7, <3>2, <3>4, <3>5, <3>6
  <2>7. cancelled' \in Child \cup {NoCue}
    BY <1>1, <1>7 DEF GroupTypes
  <2> QED BY <2>4, <2>5, <2>6, <2>7 DEF GroupInv, GroupTypes
<1> QED BY <1>6, <1>7 DEF Draw

LEMMA GoStep ==
  ASSUME GroupInv, Go
  PROVE  GroupInv'
<1>1. GroupTypes /\ AuthoredTypes /\ Coherent(Now) /\ OneActive /\ Now \in Pairs
  BY DEF GroupInv, GroupTypes
<1>2. Calm /\ UNCHANGED authored
  BY DEF Go, Act
<1>3. CASE DrawsOnGo(Now)
  <2> DEFINE s == IF InAction(Now) THEN Now ELSE Action(Now)
  <2>1. Draw(s)
    BY <1>3 DEF Go
  <2>2. Keeps(Now, s)
    BY <1>1, ActionKeeps, SameKept
  <2> HIDE DEF s
  <2> QED BY <1>2, <1>3, <2>1, <2>2, DrawStep DEF DrawsOnGo
<1>4. CASE ~DrawsOnGo(Now)
  <2>1. Becomes(Went(Now)) /\ cancelled' = NoCue /\ UNCHANGED <<poisoned, lost, round, shifted>>
    BY <1>4 DEF Go
  <2>2. Keeps(Now, Went(Now))
    BY <1>1, WentKeeps
  <2>3. AuthoredTypes' /\ (Now \in Pairs)' /\ direct' \subseteq Child
        /\ Coherent(Now)' /\ OneActive' /\ g'.bag = g.bag
    BY <1>1, <1>2, <2>1, <2>2, BecomesKeeping
  <2>4. OncePerRound'
    BY <1>2, <2>1, <2>3 DEF GroupInv, OncePerRound, Kids, N, authored
  <2> QED BY <2>1, <2>3, <2>4 DEF GroupInv, GroupTypes, Parked
<1> QED BY <1>3, <1>4

\* A command that fires nothing within the group.
LEMMA CommandKept ==
  ASSUME GroupInv, UNCHANGED <<authored, poisoned, lost, round, shifted>>,
         (Now \in Pairs)', Coherent(Now)', g'.bag = g.bag,
         direct' \subseteq Child, cancelled' \in Child \cup {NoCue}, Parked',
         \A c \in Child : ch'[c].state # "standby" => ch[c].state # "standby" \/ c \in direct',
         \A c \in Child : c \in direct \ direct' => ch'[c].state = "standby"
  PROVE  GroupInv'
<1>1. show' = show /\ kids' = kids /\ off' = off
  BY DEF authored
<1>2. GroupTypes' /\ OncePerRound'
  BY <1>1 DEF GroupInv, GroupTypes, AuthoredTypes, OncePerRound, Kids, N
<1>3. Active(ch)' \ direct' \subseteq Active(ch) \ direct
  <2>1. Kids \subseteq Child /\ Kids' = Kids
    BY <1>1, ShowFields DEF GroupInv, GroupTypes, Kids
  <2> QED BY <2>1 DEF Active
<1>4. OneActive'
  BY <1>1, <1>3 DEF GroupInv, OneActive
<1> QED BY <1>2, <1>4 DEF GroupInv

LEMMA InvFacts ==
  ASSUME GroupInv
  PROVE  /\ AuthoredTypes /\ g \in GroupStates /\ ch \in [Child -> ChildStates]
         /\ kids \in Seq(Child) /\ N \in Nat /\ Kids \subseteq Child
         /\ direct \subseteq Child /\ cancelled \in Child \cup {NoCue}
BY ShowFields DEF GroupInv, GroupTypes, Now, Pairs

LEMMA MovePlayheadStep ==
  ASSUME GroupInv, MovePlayhead
  PROVE  GroupInv'
<1>1. UNCHANGED <<show, kids, off, g, ch, poisoned, lost, direct, round, shifted, cancelled>>
  BY DEF MovePlayhead, authored, history
<1> QED BY <1>1 DEF GroupInv, GroupTypes, AuthoredTypes, Now, Coherent, Ordered, OneActive, Active, Kids,
             OncePerRound, N, Parked, Holding

LEMMA ParkStep ==
  ASSUME GroupInv, NEW c \in Child, Park(c)
  PROVE  GroupInv'
<1>1. UNCHANGED <<authored, ch, poisoned, lost, direct, round, shifted>> /\ show' = show /\ kids' = kids
  BY DEF Park, authored
<1>2. CASE Ordered
  <2>1. g' = ParkBefore(c) /\ cancelled' = NoCue
    BY <1>2 DEF Park
  <2>2. (IF Pos(c) = 1 THEN NoCue ELSE kids[Pos(c) - 1]) \in Child \cup {NoCue}
    <3>1. c \in Kids /\ Pos(c) \in 1 .. N
      BY InvFacts, PosOf DEF Park
    <3> QED BY <3>1, InvFacts, KidsAreChildren
  <2>3. g' \in GroupStates /\ g'.pend = NoAdvance /\ g'.bag = g.bag
    BY <2>1, <2>2, InvFacts DEF ParkBefore, GroupStates, NoAdvance, Pending
  <2>4. (Now \in Pairs)' /\ Coherent(Now)' /\ Parked'
    BY <1>1, <2>1, <2>3, InvFacts DEF Now, Pairs, Coherent, Parked
  <2> QED BY <1>1, <2>1, <2>3, <2>4, InvFacts, CommandKept
<1>3. CASE ~Ordered
  <2>1. g' = g /\ cancelled' = cancelled
    BY <1>3 DEF Park
  <2>2. (Now \in Pairs)' /\ Coherent(Now)' /\ Parked'
    BY <1>1, <1>3, <2>1, InvFacts DEF Now, Pairs, Coherent, Parked, Holding, GroupInv, Ordered
  <2> QED BY <1>1, <2>1, <2>2, InvFacts, CommandKept
<1> QED BY <1>2, <1>3

LEMMA IdleGroupType ==
  /\ IdleGroup \in GroupStates /\ IdleGroup.pend = NoAdvance /\ IdleGroup.bag = {}
  /\ IdleChild \in ChildStates /\ IdleChild.state = "standby"
BY DEF IdleGroup, GroupStates, NoAdvance, Pending, States, IdleChild, ChildStates

\* The group is reset: by a stop, and when the loop completes it.
LEMMA ResetStep ==
  ASSUME GroupInv, Calm, UNCHANGED authored, poisoned' = poisoned,
         g' = IdleGroup, ch' = [c \in Child |-> IF c \in Kids THEN IdleChild ELSE ch[c]],
         direct' \subseteq Child, round' = {}, shifted' = FALSE, cancelled' = NoCue
  PROVE  GroupInv'
<1>1. show' = show /\ kids' = kids /\ off' = off
  BY DEF authored
<1>2. GroupTypes' /\ Coherent(Now)'
  BY <1>1, InvFacts, IdleGroupType DEF GroupTypes, AuthoredTypes, Now, Pairs, Coherent
<1>3. OneActive'
  BY <1>1, InvFacts, IdleGroupType DEF OneActive, Active, Kids
<1>4. OncePerRound' /\ Parked'
  BY IdleGroupType DEF OncePerRound, Parked, Calm
<1> QED BY <1>2, <1>3, <1>4 DEF GroupInv

LEMMA StopGroupStep ==
  ASSUME GroupInv, StopGroup
  PROVE  GroupInv'
BY ResetStep DEF StopGroup, Act

\* Clocks run and children pause and resume, but none starts or stops.
LEMMA QuietStep ==
  ASSUME GroupInv, UNCHANGED <<authored, poisoned, lost, direct, round, shifted, cancelled>>,
         g' \in GroupStates, ch' \in [Child -> ChildStates],
         g'.bag = g.bag, g'.cur = g.cur, g'.inPre = g.inPre, g'.done = g.done,
         g'.pend.src = g.pend.src, g'.pend.expect = g.pend.expect, g'.pend.same = g.pend.same,
         (g'.pend = NoAdvance) <=> (g.pend = NoAdvance),
         \A c \in Child : ch'[c].state # "standby" => ch[c].state # "standby",
         \A c \in Child : ch[c].state = "standby" => ch'[c] = ch[c]
  PROVE  GroupInv'
<1>1. show' = show /\ kids' = kids /\ cancelled' = cancelled
  BY DEF authored
<1>2. (Now \in Pairs)' /\ Coherent(Now)'
  BY <1>1, InvFacts DEF Now, Pairs, Coherent, Ordered, GroupInv
<1>3. ASSUME cancelled # NoCue PROVE Holding(Now, cancelled)'
  <2>1. Holding(Now, cancelled) /\ cancelled \in Child
    BY <1>3, InvFacts DEF GroupInv, Parked
  <2>2. ch'[cancelled] = ch[cancelled]
    BY <2>1 DEF Holding, Now
  <2> QED BY <1>1, <2>1, <2>2 DEF Holding, Now, Ordered, Kids
<1>4. Parked'
  BY <1>1, <1>3 DEF Parked
<1>5. direct' = direct /\ direct \subseteq Child /\ cancelled \in Child \cup {NoCue}
  BY InvFacts
<1> QED BY <1>1, <1>2, <1>4, <1>5, CommandKept

LEMMA PauseGroupStep ==
  ASSUME GroupInv, PauseGroup
  PROVE  GroupInv'
<1>1. UNCHANGED <<authored, poisoned, lost, direct, round, shifted, cancelled>>
  BY DEF PauseGroup, history
<1>2. g' = [g EXCEPT !.state = "paused"]
      /\ ch' = [c \in Child |-> IF c \in Kids /\ ch[c].state = "running"
                               THEN [ch[c] EXCEPT !.state = "paused"] ELSE ch[c]]
  BY DEF PauseGroup
<1>3. g' \in GroupStates /\ g'.bag = g.bag /\ g'.pend = g.pend /\ g'.cur = g.cur
      /\ g'.inPre = g.inPre /\ g'.done = g.done
  BY <1>2, InvFacts DEF GroupStates, States
<1>4. ch' \in [Child -> ChildStates]
  BY <1>2, InvFacts DEF ChildStates, States
<1>5. /\ \A c \in Child : ch'[c].state # "standby" => ch[c].state # "standby"
      /\ \A c \in Child : ch[c].state = "standby" => ch'[c] = ch[c]
  BY <1>2, InvFacts DEF ChildStates, States
<1> QED BY <1>1, <1>3, <1>4, <1>5, QuietStep

LEMMA ResumeGroupStep ==
  ASSUME GroupInv, ResumeGroup
  PROVE  GroupInv'
<1>1. UNCHANGED <<authored, poisoned, lost, direct, round, shifted, cancelled>>
  BY DEF ResumeGroup, history
<1>2. g' = [g EXCEPT !.state = "running"]
      /\ ch' = [c \in Child |-> IF c \in Kids /\ ch[c].state = "paused"
                               THEN [ch[c] EXCEPT !.state = "running"] ELSE ch[c]]
  BY DEF ResumeGroup
<1>3. g' \in GroupStates /\ g'.bag = g.bag /\ g'.pend = g.pend /\ g'.cur = g.cur
      /\ g'.inPre = g.inPre /\ g'.done = g.done
  BY <1>2, InvFacts DEF GroupStates, States
<1>4. ch' \in [Child -> ChildStates]
  BY <1>2, InvFacts DEF ChildStates, States
<1>5. /\ \A c \in Child : ch'[c].state # "standby" => ch[c].state # "standby"
      /\ \A c \in Child : ch[c].state = "standby" => ch'[c] = ch[c]
  BY <1>2, InvFacts DEF ChildStates, States
<1> QED BY <1>1, <1>3, <1>4, <1>5, QuietStep

LEMMA TurnChildStep ==
  ASSUME GroupInv, NEW c \in Child, PauseChild(c) \/ ResumeChild(c)
  PROVE  GroupInv'
<1>1. UNCHANGED <<authored, g, poisoned, lost, direct, round, shifted, cancelled>>
  BY DEF PauseChild, ResumeChild, history
<1>2. ch[c].state # "standby" /\ \E st \in States \ {"standby"} : ch' = [ch EXCEPT ![c].state = st]
  BY DEF PauseChild, ResumeChild, States
<1>3. PICK st \in States \ {"standby"} : ch' = [ch EXCEPT ![c].state = st]
  BY <1>2
<1>4. ch' \in [Child -> ChildStates]
  BY <1>3, InvFacts DEF ChildStates
<1>5. /\ \A x \in Child : ch'[x].state # "standby" => ch[x].state # "standby"
      /\ \A x \in Child : ch[x].state = "standby" => ch'[x] = ch[x]
  BY <1>2, <1>3, InvFacts DEF ChildStates
<1>6. g' = g /\ g' \in GroupStates
  BY <1>1, InvFacts
<1> QED BY <1>1, <1>4, <1>5, <1>6, QuietStep

LEMMA StopChildStep ==
  ASSUME GroupInv, NEW c \in Child, StopChild(c)
  PROVE  GroupInv'
<1>1. UNCHANGED <<authored, g, poisoned, lost, round, shifted>> /\ show' = show /\ kids' = kids
  BY DEF StopChild, authored
<1>2. ch' = [ch EXCEPT ![c] = IdleChild] /\ direct' = direct \ {c}
      /\ cancelled' = IF g.pend.same /\ g.pend.src = c /\ ~g.inPre THEN c ELSE cancelled
  BY DEF StopChild
<1>3. ch' \in [Child -> ChildStates] /\ ch'[c] = IdleChild /\ \A x \in Child \ {c} : ch'[x] = ch[x]
  BY <1>2, InvFacts, IdleGroupType
<1>4. (Now \in Pairs)' /\ Coherent(Now)'
  BY <1>1, <1>3, InvFacts DEF Now, Pairs, Coherent, Ordered, GroupInv
<1>5. ASSUME cancelled' # NoCue PROVE Holding(Now, cancelled)'
  <2>1. CASE g.pend.same /\ g.pend.src = c /\ ~g.inPre
    <3>1. cancelled' = c /\ g.pend # NoAdvance
      BY <1>2, <2>1, NoCueAssumption DEF NoAdvance
    <3>2. Ordered /\ g.cur = c
      BY <2>1, <3>1 DEF GroupInv, Coherent, Now
    <3> QED BY <1>1, <1>3, <2>1, <3>1, <3>2 DEF Holding, Now, Ordered, IdleChild
  <2>2. CASE ~(g.pend.same /\ g.pend.src = c /\ ~g.inPre)
    <3>1. cancelled' = cancelled /\ cancelled \in Child /\ Holding(Now, cancelled)
      BY <1>2, <1>5, <2>2, InvFacts DEF GroupInv, Parked
    <3>2. ch'[cancelled].state = "standby" /\ ~ch'[cancelled].marker
      BY <1>3, <3>1 DEF Holding, Now, IdleChild
    <3> QED BY <1>1, <3>1, <3>2 DEF Holding, Now, Ordered, Kids
  <2> QED BY <2>1, <2>2
<1>6. Parked'
  BY <1>5 DEF Parked
<1>7. direct' \subseteq Child /\ cancelled' \in Child \cup {NoCue}
  BY <1>2, InvFacts
<1>8. /\ \A x \in Child : ch'[x].state # "standby" => ch[x].state # "standby" \/ x \in direct'
      /\ \A x \in Child : x \in direct \ direct' => ch'[x].state = "standby"
  BY <1>2, <1>3, IdleGroupType
<1> QED BY <1>1, <1>4, <1>6, <1>7, <1>8, CommandKept

LEMMA StartChildStep ==
  ASSUME GroupInv, NEW c \in Child, StartChild(c)
  PROVE  GroupInv'
<1>1. UNCHANGED <<authored, poisoned, lost, round, shifted>> /\ show' = show /\ kids' = kids
  BY DEF StartChild, authored
<1>2. ch' = [ch EXCEPT ![c] = Started(@)] /\ direct' = direct \cup {c}
      /\ g' = (IF g.pend.src = c THEN [g EXCEPT !.pend.same = FALSE] ELSE g)
      /\ cancelled' = IF cancelled = c THEN NoCue ELSE cancelled
  BY DEF StartChild
<1>3. ch' \in [Child -> ChildStates] /\ \A x \in Child \ {c} : ch'[x] = ch[x]
  BY <1>2, InvFacts, StartedType
<1>4. /\ g' \in GroupStates /\ g'.bag = g.bag /\ g'.cur = g.cur /\ g'.inPre = g.inPre
      /\ g'.done = g.done /\ g'.pend.src = g.pend.src /\ g'.pend.expect = g.pend.expect
      /\ g.pend.src # c => g'.pend = g.pend
      /\ g.pend = NoAdvance => g'.pend = NoAdvance
  <2>1. CASE g.pend.src = c
    <3>1. g.pend # NoAdvance
      BY <2>1, NoCueAssumption DEF NoAdvance
    <3>2. g' = [g EXCEPT !.pend.same = FALSE]
      BY <1>2, <2>1
    <3>3. g'.pend = [g.pend EXCEPT !.same = FALSE] /\ g'.pend \in Pending
      BY <3>2, InvFacts DEF GroupStates, Pending
    <3>4. g' \in GroupStates
      BY <3>2, InvFacts DEF GroupStates, Pending
    <3> QED BY <2>1, <3>1, <3>2, <3>3, <3>4, InvFacts DEF GroupStates, Pending
  <2>2. CASE g.pend.src # c
    BY <1>2, <2>2, InvFacts
  <2> QED BY <2>1, <2>2
<1>5. (Now \in Pairs)' /\ Coherent(Now)'
  BY <1>1, <1>3, <1>4, InvFacts DEF Now, Pairs, Coherent, Ordered, GroupInv
<1>6. ASSUME cancelled' # NoCue PROVE Holding(Now, cancelled)'
  <2>1. cancelled' = cancelled /\ cancelled # c /\ cancelled \in Child /\ Holding(Now, cancelled)
    BY <1>2, <1>6, InvFacts DEF GroupInv, Parked
  <2>2. g.pend = NoAdvance \/ g.pend.src # c
    BY <2>1 DEF GroupInv, Coherent, Now, Holding
  <2>3. g'.pend = g.pend
    BY <1>4, <2>2
  <2>4. ch'[cancelled] = ch[cancelled]
    BY <1>3, <2>1
  <2> QED BY <1>1, <1>4, <2>1, <2>3, <2>4 DEF Holding, Now, Ordered, Kids
<1>7. Parked'
  BY <1>6 DEF Parked
<1>8. direct' \subseteq Child /\ cancelled' \in Child \cup {NoCue}
  BY <1>2, InvFacts
<1>9. /\ \A x \in Child : ch'[x].state # "standby" => ch[x].state # "standby" \/ x \in direct'
      /\ \A x \in Child : x \in direct \ direct' => ch'[x].state = "standby"
  BY <1>2, <1>3
<1> QED BY <1>1, <1>4, <1>5, <1>7, <1>8, <1>9, CommandKept

LEMMA ToggleStep ==
  ASSUME GroupInv, NEW c \in Child, ToggleDisabled(c)
  PROVE  GroupInv'
<1>1. UNCHANGED <<show, kids, g, ch, poisoned, lost, direct, round, shifted, cancelled>>
      /\ off' \subseteq Child
  BY InvFacts DEF ToggleDisabled, history, AuthoredTypes
<1> QED BY <1>1 DEF GroupInv, GroupTypes, AuthoredTypes, Now, Coherent, Ordered, OneActive, Active, Kids,
             OncePerRound, N, Parked, Holding

LEMMA RemoveAtOf ==
  ASSUME AuthoredTypes, NEW c \in Kids
  PROVE  LET rest == RemoveAt(kids, Pos(c))
         IN  /\ rest \in Seq(Child) /\ IsInjective(rest) /\ Range(rest) \subseteq Kids
             /\ c \notin Range(rest) /\ Len(rest) = N - 1
<1> DEFINE p == Pos(c)
           rest == RemoveAt(kids, p)
<1>1. kids \in Seq(Child) /\ N \in Nat /\ N = Len(kids) /\ p \in 1 .. N /\ kids[p] = c
  BY PosOf, ShowFields DEF N
<1> HIDE DEF p
<1> DEFINE before == SubSeq(kids, 1, p - 1)
           behind == SubSeq(kids, p + 1, Len(kids))
<1>2. rest = before \o behind
  BY DEF RemoveAt
<1>3. /\ before \in Seq(Child) /\ Len(before) = p - 1 /\ \A i \in 1 .. p - 1 : before[i] = kids[i]
      /\ behind \in Seq(Child) /\ Len(behind) = N - p /\ \A i \in 1 .. N - p : behind[i] = kids[p + i]
  BY <1>1
<1> HIDE DEF before, behind, rest
<1>4. rest \in Seq(Child) /\ Len(rest) = N - 1
  <2>1. before \o behind \in Seq(Child) /\ Len(before \o behind) = (p - 1) + (N - p)
    BY <1>3
  <2>2. (p - 1) + (N - p) = N - 1
    BY <1>1
  <2> QED BY <1>2, <2>1, <2>2
<1>5. \A i \in 1 .. N - 1 : rest[i] = kids[IF i < p THEN i ELSE i + 1]
  <2> SUFFICES ASSUME NEW i \in 1 .. N - 1 PROVE rest[i] = kids[IF i < p THEN i ELSE i + 1]
    OBVIOUS
  <2>1. CASE i < p
    BY <1>1, <1>2, <1>3, <2>1
  <2>2. CASE ~(i < p)
    <3>1. rest[i] = behind[i - (p - 1)] /\ i - (p - 1) \in 1 .. N - p
      BY <1>1, <1>2, <1>3, <2>2
    <3>2. p + (i - (p - 1)) = i + 1
      BY <1>1
    <3> QED BY <1>3, <2>2, <3>1, <3>2
  <2> QED BY <2>1, <2>2
<1>6. \A i, j \in 1 .. N : kids[i] = kids[j] => i = j
  BY <1>1 DEF AuthoredTypes, IsInjective
<1>7. IsInjective(rest)
  BY <1>1, <1>4, <1>5, <1>6 DEF IsInjective
<1>8. \A i \in 1 .. N - 1 : rest[i] \in Kids /\ rest[i] # c
  BY <1>1, <1>5, <1>6, KidsAreChildren
<1>9. Range(rest) \subseteq Kids /\ c \notin Range(rest)
  BY <1>1, <1>4, <1>8 DEF Range
<1> QED BY <1>4, <1>7, <1>9 DEF rest, p

\* A cue put in at position i is one more child.
LEMMA InsertAtOf ==
  ASSUME NEW ks \in Seq(Child), IsInjective(ks), NEW c \in Child, c \notin Range(ks),
         NEW i \in 1 .. Len(ks) + 1
  PROVE  LET more == InsertAt(ks, i, c)
         IN  more \in Seq(Child) /\ IsInjective(more) /\ Range(more) \subseteq Range(ks) \cup {c}
<1> DEFINE n == Len(ks)
           more == InsertAt(ks, i, c)
           before == SubSeq(ks, 1, i - 1)
           behind == SubSeq(ks, i, Len(ks))
<1>1. n \in Nat /\ DOMAIN ks = 1 .. n /\ i \in 1 .. n + 1
  OBVIOUS
<1> DEFINE front == before \o <<c>>
<1>2. more = front \o behind
  BY DEF InsertAt
<1>3. /\ before \in Seq(Child) /\ Len(before) = i - 1 /\ \A j \in 1 .. i - 1 : before[j] = ks[j]
      /\ behind \in Seq(Child) /\ Len(behind) = n + 1 - i
      /\ \A j \in 1 .. n + 1 - i : behind[j] = ks[i + j - 1]
  BY <1>1
<1> HIDE DEF before, behind, more, n
<1>4. front \in Seq(Child) /\ Len(front) = i /\ \A j \in 1 .. i : front[j] = IF j < i THEN ks[j] ELSE c
  BY <1>1, <1>3
<1> HIDE DEF front
<1>5. more \in Seq(Child) /\ Len(more) = n + 1
  <2>0. \A a, b \in Seq(Child) : a \o b \in Seq(Child) /\ Len(a \o b) = Len(a) + Len(b)
    OBVIOUS
  <2>1. front \o behind \in Seq(Child) /\ Len(front \o behind) = i + (n + 1 - i)
    BY <1>3, <1>4, <2>0, Zenon
  <2>2. i + (n + 1 - i) = n + 1
    BY <1>1
  <2> QED BY <1>2, <2>1, <2>2
<1>6. \A j \in 1 .. n + 1 : more[j] = IF j < i THEN ks[j] ELSE IF j = i THEN c ELSE ks[j - 1]
  <2> SUFFICES ASSUME NEW j \in 1 .. n + 1
               PROVE more[j] = IF j < i THEN ks[j] ELSE IF j = i THEN c ELSE ks[j - 1]
    OBVIOUS
  <2>1. CASE j <= i
    <3>1. more[j] = front[j] /\ j \in 1 .. i
      BY <1>1, <1>2, <1>3, <1>4, <2>1
    <3> QED BY <1>4, <2>1, <3>1
  <2>2. CASE ~(j <= i)
    <3>1. more[j] = behind[j - i] /\ j - i \in 1 .. n + 1 - i
      BY <1>1, <1>2, <1>3, <1>4, <2>2
    <3>2. i + (j - i) - 1 = j - 1
      BY <1>1
    <3> QED BY <1>1, <1>3, <2>2, <3>1, <3>2
  <2> QED BY <2>1, <2>2
<1>7. \A j, k \in 1 .. n : ks[j] = ks[k] => j = k
  BY <1>1 DEF IsInjective
<1>8. \A j \in 1 .. n : ks[j] # c /\ ks[j] \in Range(ks)
  BY <1>1 DEF Range
<1>9. IsInjective(more)
  <2> SUFFICES ASSUME NEW j \in 1 .. n + 1, NEW k \in 1 .. n + 1, more[j] = more[k] PROVE j = k
    BY <1>5 DEF IsInjective
  <2> DEFINE at(x) == IF x < i THEN x ELSE x - 1
  <2>1. \A x \in 1 .. n + 1 : x # i => at(x) \in 1 .. n /\ more[x] = ks[at(x)]
    BY <1>1, <1>6
  <2>2. more[i] = c
    BY <1>1, <1>6
  <2>3. CASE j = i \/ k = i
    BY <1>8, <2>1, <2>2, <2>3
  <2>4. CASE j # i /\ k # i
    <3>1. at(j) = at(k)
      BY <1>7, <2>1, <2>4
    <3> QED BY <1>1, <2>4, <3>1
  <2> QED BY <2>3, <2>4
<1>10. Range(more) \subseteq Range(ks) \cup {c}
  <2> SUFFICES ASSUME NEW j \in 1 .. n + 1 PROVE more[j] \in Range(ks) \cup {c}
    BY <1>5 DEF Range
  <2> QED BY <1>1, <1>6, <1>8
<1> QED BY <1>5, <1>9, <1>10 DEF more

\* What every edit of the children keeps, whatever it does to the pending advance.
LEMMA EditKept ==
  ASSUME GroupInv, NEW ks \in Seq(Child), Edited(ks), IsInjective(ks), off' \subseteq Child,
         ch' \in [Child -> ChildStates], direct' \subseteq Child,
         cancelled' \in Child \cup {NoCue}, Parked',
         \A a \in Range(ks) \ direct' : ch'[a].state # "standby" => a \in Active(ch) \ direct
  PROVE  GroupInv'
<1>1. UNCHANGED <<show, g, poisoned, lost, round>> /\ kids' = ks
      /\ shifted' = (shifted \/ \E i \in 1 .. N : i > Len(ks) \/ ks[i] # kids[i])
  BY DEF Edited
<1>2. GroupTypes' /\ Coherent(Now)'
  BY <1>1, InvFacts DEF GroupTypes, AuthoredTypes, Now, Pairs, Coherent, Ordered, GroupInv
<1>3. OneActive'
  <2>1. Active(ch)' \ direct' \subseteq Active(ch) \ direct
    BY <1>1 DEF Active, Kids
  <2> QED BY <1>1, <2>1 DEF GroupInv, OneActive
<1>4. ASSUME ~shifted' PROVE /\ g.bag \subseteq 1 .. Len(ks)
                             /\ {ks[i] : i \in g.bag} \cap round = {}
                             /\ ~poisoned
  <2>1. g.bag \subseteq 1 .. N /\ {kids[i] : i \in g.bag} \cap round = {} /\ ~poisoned
    BY <1>1, <1>4 DEF GroupInv, OncePerRound
  <2>2. \A i \in 1 .. N : ~(i > Len(ks)) /\ ks[i] = kids[i]
    BY <1>1, <1>4, Zenon
  <2>3. N \in Nat /\ Len(ks) \in Nat
    BY InvFacts
  <2>4. \A i \in 1 .. N : i \in 1 .. Len(ks) /\ ks[i] = kids[i]
    BY <2>2, <2>3
  <2> QED BY <2>1, <2>4
<1>5. OncePerRound'
  BY <1>1, <1>4 DEF OncePerRound, N
<1> QED BY <1>2, <1>3, <1>5 DEF GroupInv

\* A cancelled advance stays one where the child it was armed for leaves the group.
LEMMA HoldingLeft ==
  ASSUME GroupInv, UNCHANGED <<show, g, cancelled>>, Kids' \subseteq Kids,
         ch' \in [Child -> ChildStates],
         \A c \in Child : ch'[c] \in {ch[c], IdleChild}
  PROVE  Parked'
<1> SUFFICES ASSUME cancelled # NoCue PROVE Holding(Now, cancelled)'
  BY DEF Parked
<1>1. cancelled \in Child /\ Holding(Now, cancelled)
  BY InvFacts DEF GroupInv, Parked
<1>2. ch'[cancelled].state = "standby" /\ ~ch'[cancelled].marker
  BY <1>1 DEF Holding, Now, IdleChild
<1> QED BY <1>1, <1>2 DEF Holding, Now, Ordered

LEMMA RemoveChildStep ==
  ASSUME GroupInv, NEW c \in Child, RemoveChild(c)
  PROVE  GroupInv'
<1> DEFINE ks == RemoveAt(kids, Pos(c))
<1>1. /\ Edited(ks) /\ c \in Kids /\ off' = off \ {c} /\ ch' = [ch EXCEPT ![c] = IdleChild]
      /\ direct' = direct \ {c} /\ cancelled' = cancelled
  BY DEF RemoveChild
<1>2. ks \in Seq(Child) /\ IsInjective(ks) /\ Range(ks) \subseteq Kids /\ c \notin Range(ks)
  BY <1>1, InvFacts, RemoveAtOf
<1>3. UNCHANGED <<show, g>> /\ kids' = ks
  BY <1>1 DEF Edited
<1> HIDE DEF ks
<1>4. ch' \in [Child -> ChildStates] /\ ch'[c] = IdleChild /\ \A x \in Child \ {c} : ch'[x] = ch[x]
  BY <1>1, InvFacts, IdleGroupType
<1>5. Parked'
  <2>1. \A x \in Child : ch'[x] \in {ch[x], IdleChild}
    BY <1>4
  <2>2. Kids' \subseteq Kids
    BY <1>2, <1>3 DEF Kids
  <2> QED BY <1>1, <1>3, <1>4, <2>1, <2>2, HoldingLeft
<1>6. \A a \in Range(ks) \ direct' : ch'[a].state # "standby" => a \in Active(ch) \ direct
  BY <1>1, <1>2, <1>4, InvFacts DEF Active
<1>7. off' \subseteq Child /\ direct' \subseteq Child /\ cancelled' \in Child \cup {NoCue}
  BY <1>1, InvFacts DEF AuthoredTypes
<1> QED BY <1>1, <1>2, <1>4, <1>5, <1>6, <1>7, EditKept

LEMMA MoveOutStep ==
  ASSUME GroupInv, NEW c \in Child, MoveOut(c)
  PROVE  GroupInv'
<1> DEFINE ks == RemoveAt(kids, Pos(c))
<1>1. Edited(ks) /\ c \in Kids /\ direct' = direct \ {c} /\ UNCHANGED <<off, ch, cancelled>>
  BY DEF MoveOut
<1>2. ks \in Seq(Child) /\ IsInjective(ks) /\ Range(ks) \subseteq Kids /\ c \notin Range(ks)
  BY <1>1, InvFacts, RemoveAtOf
<1>3. UNCHANGED <<show, g>> /\ kids' = ks
  BY <1>1 DEF Edited
<1> HIDE DEF ks
<1>4. Parked'
  <2>1. Kids' \subseteq Kids
    BY <1>2, <1>3 DEF Kids
  <2> QED BY <1>1, <1>3, <2>1, InvFacts, HoldingLeft
<1>5. \A a \in Range(ks) \ direct' : ch'[a].state # "standby" => a \in Active(ch) \ direct
  BY <1>1, <1>2 DEF Active
<1>6. off' \subseteq Child /\ direct' \subseteq Child /\ cancelled' \in Child \cup {NoCue}
  BY <1>1, InvFacts DEF AuthoredTypes
<1> QED BY <1>1, <1>2, <1>4, <1>5, <1>6, InvFacts, EditKept

LEMMA AddChildStep ==
  ASSUME GroupInv, NEW c \in Child, NEW i \in 1 .. N + 1, AddChild(c, i)
  PROVE  GroupInv'
<1> DEFINE ks == InsertAt(kids, i, c)
<1>1. /\ Edited(ks) /\ c \notin Kids /\ UNCHANGED <<off, ch>>
      /\ direct' = (IF ch[c].state = "standby" THEN direct ELSE direct \cup {c})
      /\ cancelled' = (IF cancelled = c /\ g.pend = NoAdvance /\ ~g.done THEN NoCue ELSE cancelled)
  BY DEF AddChild
<1>2. ks \in Seq(Child) /\ IsInjective(ks) /\ Range(ks) \subseteq Kids \cup {c}
  BY <1>1, InvFacts, InsertAtOf DEF AuthoredTypes, N, Kids
<1>3. UNCHANGED <<show, g>> /\ kids' = ks
  BY <1>1 DEF Edited
<1> HIDE DEF ks
<1>4. ASSUME cancelled' # NoCue PROVE Holding(Now, cancelled)'
  <2>1. cancelled' = cancelled /\ cancelled \in Child /\ Holding(Now, cancelled)
    BY <1>1, <1>4, InvFacts DEF GroupInv, Parked
  <2>2. g.pend = NoAdvance => g.done \/ cancelled # c
    BY <1>1, <1>4
  <2>3. cancelled # c /\ cancelled \notin Kids => cancelled \notin Kids'
    BY <1>2, <1>3 DEF Kids
  <2> QED BY <1>1, <1>3, <2>1, <2>2, <2>3 DEF Holding, Now, Ordered
<1>5. Parked'
  BY <1>4 DEF Parked
<1>6. \A a \in Range(ks) \ direct' : ch'[a].state # "standby" => a \in Active(ch) \ direct
  BY <1>1, <1>2 DEF Active
<1>7. off' \subseteq Child /\ direct' \subseteq Child /\ cancelled' \in Child \cup {NoCue}
  BY <1>1, InvFacts DEF AuthoredTypes
<1> QED BY <1>1, <1>2, <1>5, <1>6, <1>7, InvFacts, EditKept

LEMMA MoveChildStep ==
  ASSUME GroupInv, NEW c \in Child, NEW i \in 1 .. N, MoveChild(c, i)
  PROVE  GroupInv'
<1> DEFINE rest == RemoveAt(kids, Pos(c))
           ks == InsertAt(rest, i, c)
<1>1. Edited(ks) /\ c \in Kids /\ UNCHANGED <<off, ch, direct, cancelled>>
  BY DEF MoveChild
<1>2. /\ rest \in Seq(Child) /\ IsInjective(rest) /\ Range(rest) \subseteq Kids /\ c \notin Range(rest)
      /\ Len(rest) = N - 1
  BY <1>1, InvFacts, RemoveAtOf
<1> HIDE DEF rest
<1>3. ks \in Seq(Child) /\ IsInjective(ks) /\ Range(ks) \subseteq Kids
  <2>1. i \in 1 .. Len(rest) + 1
    BY <1>2, InvFacts
  <2> QED BY <1>1, <1>2, <2>1, InsertAtOf
<1>4. UNCHANGED <<show, g>> /\ kids' = ks
  BY <1>1 DEF Edited
<1> HIDE DEF ks
<1>5. Parked'
  <2>1. Kids' \subseteq Kids
    BY <1>3, <1>4 DEF Kids
  <2> QED BY <1>1, <1>4, <2>1, InvFacts, HoldingLeft
<1>6. \A a \in Range(ks) \ direct' : ch'[a].state # "standby" => a \in Active(ch) \ direct
  BY <1>1, <1>3 DEF Active
<1>7. off' \subseteq Child /\ direct' \subseteq Child /\ cancelled' \in Child \cup {NoCue}
  BY <1>1, InvFacts DEF AuthoredTypes
<1> QED BY <1>1, <1>3, <1>5, <1>6, <1>7, InvFacts, EditKept

LEMMA ElapseStep ==
  ASSUME GroupInv, Elapse
  PROVE  GroupInv'
<1> DEFINE pre == g.inPre /\ g.elapsed < show.pre
           ran == ~g.inPre /\ g.elapsed < Duration
           more == IF pre \/ ran THEN 1 ELSE 0
           left == IF g.pend = NoAdvance THEN 0 ELSE Remaining(g.pend)
<1>1. UNCHANGED <<authored, poisoned, lost, direct, round, shifted, cancelled>>
  BY DEF Elapse, history
<1>2. g' = (IF g.state # "running" THEN g ELSE [g EXCEPT !.elapsed = @ + more, !.pend.left = left])
      /\ ch' = [c \in Child |-> IF ch[c].state = "running" /\ ch[c].elapsed < ClockEnd(c)
                               THEN [ch[c] EXCEPT !.elapsed = @ + 1] ELSE ch[c]]
  BY Zenon DEF Elapse
<1>3. ch' \in [Child -> ChildStates]
  <2>1. ASSUME NEW c \in Child PROVE [ch[c] EXCEPT !.elapsed = @ + 1] \in ChildStates /\ ch[c] \in ChildStates
    BY InvFacts DEF ChildStates
  <2> QED BY <1>2, <2>1
<1>4. /\ \A c \in Child : ch'[c].state # "standby" => ch[c].state # "standby"
      /\ \A c \in Child : ch[c].state = "standby" => ch'[c] = ch[c]
  BY <1>2, InvFacts DEF ChildStates
<1>5. more \in Nat /\ left \in Nat /\ (g.pend = NoAdvance => left = 0)
  <2>1. g.pend \in Pending
    BY InvFacts DEF GroupStates
  <2>2. Remaining(g.pend) \in Nat
    BY <2>1 DEF Remaining, Pending
  <2> QED BY <2>2
<1> HIDE DEF more, left
<1>6. CASE g.state # "running"
  <2>1. g' = g /\ g' \in GroupStates
    BY <1>2, <1>6, InvFacts
  <2> QED BY <1>1, <1>3, <1>4, <2>1, QuietStep
<1>7. CASE g.state = "running"
  <2>1. g' = [g EXCEPT !.elapsed = @ + more, !.pend.left = left]
    BY <1>2, <1>7
  <2>2. g'.pend = [g.pend EXCEPT !.left = left] /\ g.pend \in Pending
    BY <2>1, InvFacts DEF GroupStates
  <2>3. g' \in GroupStates
    <3>1. [g.pend EXCEPT !.left = left] \in Pending
      BY <1>5, <2>2 DEF Pending
    <3>2. g.elapsed + more \in Nat
      BY <1>5, InvFacts DEF GroupStates
    <3>3. g' = [g EXCEPT !.elapsed = g.elapsed + more, !.pend = [g.pend EXCEPT !.left = left]]
      BY <2>1
    <3> QED BY <3>1, <3>2, <3>3, InvFacts DEF GroupStates
  <2>4. g'.bag = g.bag /\ g'.cur = g.cur /\ g'.inPre = g.inPre /\ g'.done = g.done
    BY <2>1, InvFacts DEF GroupStates
  <2>5. g'.pend.src = g.pend.src /\ g'.pend.expect = g.pend.expect /\ g'.pend.same = g.pend.same
    BY <2>2 DEF Pending
  <2>6. g.pend = NoAdvance => g'.pend = NoAdvance
    <3>1. ASSUME g.pend = NoAdvance PROVE g'.pend = [NoAdvance EXCEPT !.left = 0]
      BY <1>5, <2>2, <3>1
    <3>2. ASSUME NEW q \in Pending PROVE [q EXCEPT !.left = q.left] = q
      BY DEF Pending
    <3>3. NoAdvance \in Pending /\ NoAdvance.left = 0
      BY DEF NoAdvance, Pending
    <3>4. [NoAdvance EXCEPT !.left = 0] = NoAdvance
      BY <3>2, <3>3
    <3> QED BY <3>1, <3>4
  <2>7. g'.pend = NoAdvance => g.pend = NoAdvance
    <3>1. ASSUME g.pend # NoAdvance PROVE g'.pend.src # NoCue
      BY <2>5, <3>1, NoCueAssumption DEF GroupInv, Coherent, Now
    <3> QED BY <3>1 DEF NoAdvance
  <2> QED BY <1>1, <1>3, <1>4, <2>3, <2>4, <2>5, <2>6, <2>7, QuietStep
<1> QED BY <1>6, <1>7

LEMMA TickStep ==
  ASSUME GroupInv, Tick
  PROVE  GroupInv'
<1>1. GroupTypes /\ AuthoredTypes /\ Coherent(Now) /\ OneActive /\ Now \in Pairs
  BY DEF GroupInv, GroupTypes
<1>2. UNCHANGED authored /\ show' = show /\ kids' = kids
  BY DEF Tick, authored
<1>3. CASE poisoned
  <2>1. UNCHANGED <<show, kids, off, g, ch, poisoned, lost, direct, round, shifted, cancelled>>
    BY <1>3 DEF Tick, authored, history
  <2> QED BY <2>1 DEF GroupInv, GroupTypes, AuthoredTypes, Now, Coherent, Ordered, OneActive, Active, Kids,
               OncePerRound, N, Parked, Holding
<1>4. CASE ~poisoned /\ TickDraws
  <2>1. Draw(Action(Now)) /\ show.mode = "startRandom"
    BY <1>4 DEF Tick, TickDraws
  <2>2. Keeps(Now, Action(Now))
    BY <1>1, ActionKeeps
  <2> QED BY <1>2, <1>4, <2>1, <2>2, DrawStep DEF Calm
<1>5. CASE ~poisoned /\ ~TickDraws
  <2> DEFINE s == Ticked(Now)
  <2>1. PICK reported \in SUBSET Ended : Settle(s, reported)
    BY <1>5 DEF Tick
  <2> DEFINE reaped == [s EXCEPT !.ch = Swept(s.ch, reported)]
             completes == TimeDone(reaped) \/ IsComplete(reaped)
             idle == [g |-> IdleGroup, ch |-> [c \in Child |-> IF c \in Kids THEN IdleChild ELSE ch[c]]]
  <2>2. poisoned' = poisoned
    BY <1>5 DEF Tick
  <2>3. Keeps(Now, s) /\ s \in Pairs
    BY <1>1, TickedKeeps DEF Keeps
  <2>4. IF completes
        THEN /\ Becomes(idle)
             /\ lost' = lost \cup {c \in Kids : Live(reaped.ch, c)}
             /\ round' = {} /\ shifted' = FALSE /\ cancelled' = NoCue
        ELSE Becomes(reaped) /\ UNCHANGED <<lost, round, shifted, cancelled>>
    BY <2>1 DEF Settle
  <2>5. Keeps(Now, reaped) /\ reaped.g = s.g /\ reaped.ch = Swept(s.ch, reported)
    <3> HIDE DEF s
    <3> QED BY <1>1, <2>3, SweptKeeps, KeepsTransitive
  <2>6. CASE completes
    <3>1. g' = IdleGroup /\ ch' = [c \in Child |-> IF c \in Kids THEN IdleChild ELSE ch[c]]
          /\ direct' \subseteq Child /\ round' = {} /\ shifted' = FALSE /\ cancelled' = NoCue
      BY <2>4, <2>6 DEF Becomes
    <3> QED BY <1>2, <1>5, <2>2, <3>1, ResetStep DEF Calm
  <2>7. CASE ~completes
    <3>1. Becomes(reaped) /\ UNCHANGED <<lost, round, shifted, cancelled>>
      BY <2>4, <2>7
    <3>2. AuthoredTypes' /\ (Now \in Pairs)' /\ direct' \subseteq Child
          /\ Coherent(Now)' /\ OneActive' /\ g'.bag = g.bag
      <4> HIDE DEF reaped
      <4> QED BY <1>1, <1>2, <2>5, <3>1, BecomesKeeping
    <3>3. OncePerRound'
      BY <1>2, <2>2, <3>1, <3>2 DEF GroupInv, OncePerRound, Kids, N
    <3>4. ASSUME cancelled # NoCue PROVE Holding(Now, cancelled)'
      <4>1. cancelled \in Child /\ Holding(Now, cancelled)
        BY <3>4, InvFacts DEF GroupInv, Parked
      <4>2. Holding(s, cancelled)
        BY <1>1, <4>1, HoldingTick
      <4>3. reaped.ch[cancelled] = s.ch[cancelled]
        <5> HIDE DEF s
        <5> QED BY <1>1, <2>3, <2>5, <4>1, <4>2, SweptType DEF Holding, Pairs
      <4>4. g' = s.g /\ ch' = reaped.ch /\ cancelled' = cancelled
        BY <2>5, <3>1 DEF Becomes
      <4> HIDE DEF s, reaped
      <4> QED BY <1>2, <4>2, <4>3, <4>4 DEF Holding, Now, Ordered, Kids
    <3>5. Parked'
      BY <3>1, <3>4 DEF Parked
    <3> QED BY <1>1, <3>1, <3>2, <3>3, <3>5 DEF GroupInv, GroupTypes
  <2> QED BY <2>6, <2>7
<1> QED BY <1>3, <1>4, <1>5

LEMMA GroupInit ==
  ASSUME Init
  PROVE  GroupInv
<1>1. show \in Shows /\ kids = show.kids /\ off = {} /\ g = IdleGroup /\ ch = [c \in Child |-> IdleChild]
      /\ ~poisoned /\ lost = {} /\ direct = {} /\ round = {} /\ cancelled = NoCue
  BY DEF Init
<1>2. AuthoredTypes
  BY <1>1, ShowsAssumption, KidsAssumption DEF AuthoredTypes
<1>3. GroupTypes /\ Coherent(Now) /\ Parked
  BY <1>1, <1>2, IdleGroupType DEF GroupTypes, Now, Pairs, Coherent, Parked
<1>4. OneActive
  BY <1>1, <1>2, ShowFields, IdleGroupType DEF OneActive, Active
<1>5. OncePerRound
  BY <1>1, IdleGroupType DEF OncePerRound
<1> QED BY <1>3, <1>4, <1>5 DEF GroupInv

LEMMA GroupStep ==
  ASSUME GroupInv, [Next]_vars
  PROVE  GroupInv'
<1>1. CASE Go
  BY <1>1, GoStep
<1>2. CASE MovePlayhead
  BY <1>2, MovePlayheadStep
<1>3. CASE StopGroup
  BY <1>3, StopGroupStep
<1>4. CASE PauseGroup
  BY <1>4, PauseGroupStep
<1>5. CASE ResumeGroup
  BY <1>5, ResumeGroupStep
<1>6. ASSUME NEW c \in Child,
             \/ Park(c) \/ StopChild(c) \/ PauseChild(c) \/ ResumeChild(c)
             \/ StartChild(c) \/ ToggleDisabled(c) \/ RemoveChild(c) \/ MoveOut(c)
             \/ \E i \in 1 .. N + 1 : AddChild(c, i)
             \/ \E i \in 1 .. N : MoveChild(c, i)
      PROVE  GroupInv'
  BY <1>6, ParkStep, StopChildStep, TurnChildStep, StartChildStep, ToggleStep, RemoveChildStep,
     MoveOutStep, AddChildStep, MoveChildStep
<1>7. CASE Elapse
  BY <1>7, ElapseStep
<1>8. CASE Tick
  BY <1>8, TickStep
<1>9. CASE UNCHANGED vars
  <2>1. UNCHANGED <<show, kids, off, g, ch, poisoned, lost, direct, round, shifted, cancelled>>
    BY <1>9 DEF vars, authored, history
  <2> QED BY <2>1 DEF GroupInv, GroupTypes, AuthoredTypes, Now, Coherent, Ordered, OneActive, Active, Kids,
               OncePerRound, N, Parked, Holding
<1> QED BY <1>1, <1>2, <1>3, <1>4, <1>5, <1>6, <1>7, <1>8, <1>9 DEF Next, Operator

LEMMA GroupInvariant == Spec => []GroupInv
<1>1. Init => GroupInv
  BY GroupInit
<1>2. GroupInv /\ [Next]_vars => GroupInv'
  BY GroupStep
<1> QED BY <1>1, <1>2, PTL DEF Spec

(***************************************************************************)
(* The theorems                                                            *)
(***************************************************************************)
\* A Playlist has at most one child active that the group itself has started,
\* whatever is paused, skipped, stopped, taken out or put in (stop_other_children).
THEOREM PlaylistIsExclusive == Spec => []PlaylistExclusive
<1>1. ASSUME GroupInv PROVE PlaylistExclusive
  <2> DEFINE A == Active(ch) \ direct
  <2> SUFFICES ASSUME show.mode = "playlist" PROVE Cardinality(A) <= 1
    BY DEF PlaylistExclusive
  <2>1. \A a, b \in A : a = b
    BY <1>1 DEF GroupInv, OneActive
  <2> HIDE DEF A
  <2>2. CASE A = {}
    BY <2>2, FS_EmptySet
  <2>3. CASE A # {}
    <3>1. PICK a : A = {a}
      BY <2>1, <2>3
    <3> QED BY <3>1, FS_Singleton
  <2> QED BY <2>2, <2>3
<1> QED BY <1>1, GroupInvariant, PTL

\* A random group plays every child once before it repeats one, and no draw is
\* out of range, until an edit renumbers the children (draw_random_child): cues added
\* behind the last child, disabled, stopped or started past the group do no harm.
THEOREM RandomRoundsAreFair == Spec => []OncePerRound
<1>1. GroupInv => OncePerRound
  BY DEF GroupInv
<1> QED BY <1>1, GroupInvariant, PTL

\* Nothing but a completion by the clock ever takes the handle of a live voice:
\* completion by is_complete leaves nothing sounding, and no other step loses one.
THEOREM OnlyClockedGroupsLoseVoices == Spec => LostOnlyByClock
<1>1. ASSUME [Next]_vars, lost' # lost PROVE Timed
  <2>1. ASSUME NEW s, Draw(s) PROVE lost' = lost
    BY <2>1 DEF Draw, history
  <2>2. CASE Operator
    BY <1>1, <2>1, <2>2 DEF Operator, Go, MovePlayhead, StopGroup, PauseGroup, ResumeGroup, Park,
       StopChild, PauseChild, ResumeChild, StartChild, ToggleDisabled, Edited, RemoveChild, MoveOut,
       AddChild, MoveChild, history
  <2>3. CASE Tick
    <3>1. PICK s, reported : Settle(s, reported)
      BY <1>1, <2>1, <2>3 DEF Tick, history
    <3>2. PICK reaped : /\ TimeDone(reaped) \/ IsComplete(reaped)
                        /\ lost' = lost \cup {c \in Kids : Live(reaped.ch, c)}
      BY <1>1, <3>1, Zenon DEF Settle
    <3>3. ASSUME IsComplete(reaped) PROVE FALSE
      <4>1. {c \in Kids : Live(reaped.ch, c)} = {}
        BY <3>3 DEF IsComplete, Active, Live
      <4> QED BY <1>1, <3>2, <4>1
    <3> QED BY <3>2, <3>3 DEF TimeDone
  <2> QED BY <1>1, <2>2, <2>3 DEF Next, Elapse, history, vars
<1>2. [Next]_vars => [lost' # lost => Timed]_vars
  BY <1>1
<1> QED BY <1>2, PTL DEF Spec, LostOnlyByClock

LEMMA FireNextFires ==
  ASSUME AuthoredTypes, NEW s \in Pairs, NEW after \in Child \cup {NoCue},
         after = NoCue \/ after \in Kids, NEW p \in 1 .. N,
         p = IF after = NoCue THEN 1 ELSE Pos(after) + 1, kids[p] \notin off \cup show.broken
  PROVE  FireNext(s, after).ch[kids[p]].state = "running"
<1> DEFINE first == NextArmed(IF after = NoCue THEN 1 ELSE Pos(after) + 1)
           start == IF first = 0 /\ Loops THEN NextArmed(1) ELSE first
           chain == Chain(s, start)
           fired == {kids[i] : i \in Range(chain)}
           last == IF chain = << >> THEN NoCue ELSE kids[Last(chain)]
           started == [x \in Child |->
                    IF x \in fired \ show.broken
                    THEN [Started(s.ch[x]) EXCEPT !.marker = @ \/ FiresNext(s, x)]
                    ELSE IF x = after /\ s.ch[x].state = "standby" THEN IdleChild ELSE s.ch[x]]
           fc == IF show.mode = "playlist" /\ last # NoCue /\ last \notin show.broken
                 THEN AfterExclusion(started, last) ELSE started
           c == kids[p]
<1>1. kids \in Seq(Child) /\ N \in Nat /\ c \in Child
  BY ShowFields, KidsAreChildren
<1>2. start = p
  <2>1. first = NextArmed(p) /\ p \in Nat \ {0}
    BY <1>1
  <2>2. NextArmed(p) = p
    BY <1>1, <2>1, NextArmedOf
  <2> QED BY <2>1, <2>2
<1>3. p \in 0 .. N /\ p # 0
  BY <1>1
<1>4. p \in Range(chain)
  <2>1. Chain(s, p) \in Seq(1 .. N) /\ Chain(s, p) # << >> /\ Chain(s, p)[1] = p
    BY <1>1, <1>3, ChainType
  <2>2. 1 \in DOMAIN Chain(s, p)
    BY <2>1
  <2>3. p \in Range(Chain(s, p))
    BY <2>1, <2>2 DEF Range
  <2> HIDE DEF start
  <2> QED BY <1>2, <2>3
<1>5. started[c].state = "running"
  <2>1. c \in fired \ show.broken
    BY <1>4
  <2> HIDE DEF fired
  <2>2. Started(s.ch[c]) \in ChildStates /\ Started(s.ch[c]).state = "running"
    BY <1>1, StartedType DEF Pairs
  <2>3. started[c] = [Started(s.ch[c]) EXCEPT !.marker = @ \/ FiresNext(s, c)]
    BY <1>1, <2>1
  <2> HIDE DEF started
  <2> QED BY <2>2, <2>3 DEF ChildStates
<1>6. show.mode = "playlist" => last = c
  <2>1. ASSUME show.mode = "playlist" PROVE chain = <<p>>
    <3>1. Chain(s, p) = <<p>>
      BY <1>1, <1>3, <2>1, PlaylistChain
    <3> HIDE DEF start
    <3> QED BY <1>2, <3>1
  <2>2. ASSUME show.mode = "playlist" PROVE Last(chain) = p /\ chain # << >>
    <3> HIDE DEF chain
    <3>1. Last(<<p>>) = p /\ <<p>> # << >>
      BY DEF Last
    <3> QED BY <2>1, <2>2, <3>1
  <2> HIDE DEF chain
  <2> QED BY <2>2
<1>7. FireNext(s, after).ch = fc
  BY DEF FireNext
<1> HIDE DEF started, last, c
<1>8. fc[c].state = "running"
  BY <1>1, <1>5, <1>6 DEF AfterExclusion
<1> HIDE DEF fc
<1> QED BY <1>7, <1>8 DEF c

LEMMA GoFires ==
  ASSUME GroupInv, Go, Ordered, show.pre = 0, NEW c, c = ActiveChild(Now),
         c \in Kids \ (off \cup show.broken)
  PROVE  ch'[c].state = "running"
<1>1. AuthoredTypes /\ Now \in Pairs /\ Now.g = g /\ g.cur \in Child \cup {NoCue}
      /\ kids \in Seq(Child) /\ N \in Nat
  BY InvFacts DEF GroupInv, GroupTypes, Now, GroupStates
<1>2. ch' = Went(Now).ch
  BY DEF Go, DrawsOnGo, Ordered, Becomes
<1>3. PICK s \in Pairs : Went(Now) = FireNext(s, g.cur)
  <2>1. CASE Advances(Now)
    <3>1. [Now EXCEPT !.g.done = FALSE] \in Pairs
      BY <1>1 DEF Pairs, GroupStates
    <3> QED BY <1>1, <2>1, <3>1 DEF Went
  <2>2. CASE ~Advances(Now)
    <3> DEFINE begun == [Now EXCEPT !.g.inPre = FALSE, !.g.state = "running", !.g.elapsed = 0,
                                    !.g.done = FALSE, !.g.pend = NoAdvance]
    <3>1. begun \in Pairs
      BY <1>1 DEF Pairs, GroupStates, NoAdvance, Pending, States
    <3>2. Action(Now) = FireNext(begun, Now.g.cur)
      <4>1. Action(Now) = CASE Ordered -> FireNext(begun, Now.g.cur)
              [] show.mode = "simultaneous" ->
                   [begun EXCEPT !.ch = [x \in Child |-> IF x \in Kids \ (off \cup show.broken)
                                                        THEN Started(Now.ch[x]) ELSE Now.ch[x]]]
              [] OTHER -> begun
        BY DEF Action
      <4> HIDE DEF begun
      <4> QED BY <4>1 DEF Ordered
    <3>3. Went(Now) = FireNext(begun, g.cur)
      <4> HIDE DEF begun
      <4> QED BY <1>1, <2>2, <3>2 DEF Went, Begin
    <3> QED BY <3>1, <3>3
  <2> QED BY <2>1, <2>2
<1> DEFINE p == IF g.cur = NoCue THEN 1 ELSE Pos(g.cur) + 1
<1>4. p \in 1 .. N /\ c = kids[p] /\ (g.cur = NoCue \/ g.cur \in Kids)
  <2>1. CASE g.cur = NoCue
    <3>1. kids # << >> => 1 \in 1 .. N
      BY <1>1 DEF N
    <3>2. kids # << >> /\ c = kids[1]
      BY <1>1, <2>1, NoCueAssumption, ShowFields DEF ActiveChild
    <3> QED BY <2>1, <3>1, <3>2
  <2>2. CASE g.cur # NoCue
    <3>1. HasNext(Now) /\ c = kids[Pos(g.cur) + 1]
      BY <1>1, <2>2, NoCueAssumption, ShowFields DEF ActiveChild
    <3>2. g.cur \in Kids /\ Pos(g.cur) < N
      BY <1>1, <2>2, <3>1 DEF HasNext
    <3> QED BY <1>1, <2>2, <3>1, <3>2, PosOf
  <2> QED BY <2>1, <2>2
<1> HIDE DEF p
<1>5. FireNext(s, g.cur).ch[kids[p]].state = "running"
  BY <1>1, <1>4, FireNextFires DEF p
<1> QED BY <1>2, <1>3, <1>4, <1>5

\* GO on a sequence or playlist fires the child the list shows as the next one,
\* however the sequence came to where it is.
THEOREM GoFiresWhatIsShown == Spec => GoFiresShownChild
<1>1. ASSUME GroupInv, [Next]_vars
      PROVE  [LET c == ActiveChild(Now)
              IN  Ordered /\ show.pre = 0 /\ c \in Kids \ (off \cup show.broken) /\ Go
                    => ch'[c].state = "running"]_vars
  BY <1>1, GoFires
<1> QED BY <1>1, GroupInvariant, PTL DEF Spec, GoFiresShownChild

\* Once the operator has stopped the child whose post-wait was running, no tick
\* starts a child again, in any order of ticks, edits and pauses.
THEOREM CancelledStaysCancelled == Spec => CancelledAdvanceStays
<1>1. ASSUME GroupInv, cancelled # NoCue, Tick, NEW c \in Child, ch[c].state = "standby"
      PROVE  ch'[c].state = "standby"
  <2>1. cancelled \in Child /\ Holding(Now, cancelled) /\ AuthoredTypes /\ Now \in Pairs
        /\ Coherent(Now) /\ ch \in [Child -> ChildStates]
    BY <1>1, InvFacts DEF GroupInv, Parked, GroupTypes
  <2>2. ~TickDraws
    BY <2>1 DEF Holding, Ordered, TickDraws
  <2> DEFINE s == Ticked(Now)
  <2>3. CASE poisoned
    BY <1>1, <2>3 DEF Tick
  <2>4. CASE ~poisoned
    <3>1. PICK reported \in SUBSET Ended : Settle(s, reported)
      BY <1>1, <2>2, <2>4 DEF Tick
    <3> DEFINE reaped == [s EXCEPT !.ch = Swept(s.ch, reported)]
    <3>2. s.ch[c] = ch[c] /\ s \in Pairs
      BY <1>1, <2>1, HoldingTick, TickedKeeps DEF Now, Keeps
    <3>3. reaped.ch[c] = ch[c]
      <4> HIDE DEF s
      <4>1. reaped.ch = Swept(s.ch, reported)
        BY <2>1, <3>2, SweptKeeps
      <4> QED BY <1>1, <2>1, <3>2, <4>1, SweptType DEF Pairs
    <3>4. ch' = reaped.ch \/ ch' = [x \in Child |-> IF x \in Kids THEN IdleChild ELSE ch[x]]
      BY <3>1 DEF Settle, Becomes
    <3> HIDE DEF reaped
    <3> QED BY <1>1, <3>3, <3>4, IdleGroupType
  <2> QED BY <2>3, <2>4
<1>2. ASSUME GroupInv, [Next]_vars
      PROVE  [cancelled # NoCue /\ Tick
                => \A c \in Child : ch[c].state = "standby" => ch'[c].state = "standby"]_vars
  BY <1>1, <1>2
<1> QED BY <1>2, GroupInvariant, PTL DEF Spec, CancelledAdvanceStays

=============================================================================
