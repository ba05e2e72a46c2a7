------------------------------ MODULE MCGroupCue ------------------------------
(***************************************************************************)
(* Small groups for TLC: one of each mode, with children of every continue *)
(* mode, with and without post-waits, one of them broken.  Groups of two   *)
(* leave a cue that may be brought into them.                              *)
(***************************************************************************)
EXTENDS GroupCue

CONSTANTS c1, c2, c3

ShortAndLong == [c \in Child |-> IF c = c1 THEN 2 ELSE 1]

Group(mode, loop, pre, ks, broken, cms, posts) ==
  [mode |-> mode, loop |-> loop, pre |-> pre, kids |-> ks, broken |-> broken,
   cm |-> (c1 :> cms[1] @@ c2 :> cms[2] @@ c3 :> cms[3]),
   post |-> (c1 :> posts[1] @@ c2 :> posts[2] @@ c3 :> posts[3])]

All == <<c1, c2, c3>>
Dnc == "doNotContinue"
Ac == "autoContinue"
Af == "autoFollow"

OneOfEachKind ==
  {Group("simultaneous", FALSE, 1, <<c1, c2>>, {}, <<Dnc, Dnc, Dnc>>, <<0, 0, 0>>),
   Group("sequential", FALSE, 0, All, {}, <<Af, Dnc, Dnc>>, <<1, 0, 0>>),
   Group("sequential", FALSE, 0, All, {c3}, <<Ac, Ac, Af>>, <<1, 0, 0>>),
   Group("playlist", FALSE, 1, <<c1, c2>>, {}, <<Dnc, Dnc, Dnc>>, <<1, 0, 0>>),
   Group("playlist", TRUE, 0, <<c1, c2>>, {}, <<Dnc, Dnc, Dnc>>, <<1, 0, 0>>),
   Group("startRandom", FALSE, 0, All, {}, <<Dnc, Dnc, Dnc>>, <<0, 0, 0>>),
   Group("startRandom", FALSE, 1, <<c1, c2>>, {c2}, <<Dnc, Dnc, Dnc>>, <<0, 0, 0>>)}

=============================================================================
