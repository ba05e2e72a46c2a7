--------------------------- MODULE MCTriggerDispatch ---------------------------
(***************************************************************************)
(* Two lists, three cues, one note and a timecode of a few frames for TLC. *)
(***************************************************************************)
EXTENDS TriggerDispatch, Timecode, TLC

CONSTANTS c1, c2, c3, l1, l2, n1

TwoLists == c1 :> l1 @@ c2 :> l1 @@ c3 :> l2
OneNote == c1 :> {n1} @@ c2 :> {} @@ c3 :> {n1}

\* Where the numbering skips frames: the first two blocks of ten minutes, the hour and
\* the end of the day.
SeamFrames == 1790 .. 1830 \cup 17970 .. 19800 \cup 107880 .. 107900 \cup 2589400 .. 2589407

\* Frames and positions are inverse, and a position never shows a skipped frame.
ASSUME PositionsRoundTrip ==
  \A rate \in Rates : \A n \in {k \in SeamFrames : k < Day(rate)} :
    LET t == FromFrameNumber(n, rate)
    IN  /\ ToFrameNumber(t) = n
        /\ t.f < Fps(rate) /\ t.s < 60 /\ t.m < 60
        /\ (rate = "29.97df" /\ t.s = 0 /\ t.f < 2) => t.m % 10 = 0

=============================================================================
