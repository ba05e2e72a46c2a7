-------------------------------- MODULE Timecode --------------------------------
(***************************************************************************)
(* SMPTE positions and their frame numbers (engine/timecode_types.rs).     *)
(* Triggers are compared as frame numbers; the inspector, the project file *)
(* and triggers given in milliseconds go through positions.                *)
(***************************************************************************)
EXTENDS Integers

Rates == {"24", "25", "29.97", "29.97df", "30"}
Fps(rate) == CASE rate = "24" -> 24 [] rate = "25" -> 25 [] OTHER -> 30

Position == [h : 0 .. 23, m : 0 .. 59, s : 0 .. 59, f : Nat, rate : Rates]

\* Drop-frame numbering skips the frames 0 and 1 of every minute but the tenth.
ToFrameNumber(t) ==
  LET minutes == t.h * 60 + t.m
      nominal == (minutes * 60 + t.s) * Fps(t.rate) + t.f
  IN  IF t.rate = "29.97df" THEN nominal - 2 * (minutes - minutes \div 10) ELSE nominal

\* Ten minutes of drop-frame: one of 1800 frames and nine of 1798.
Block == 17982

FromFrameNumber(n, rate) ==
  LET in == n % Block
      minute == IF in < 1800 THEN 0 ELSE ((in - 1800) \div 1798) + 1
      dropMinutes == (n \div Block) * 10 + minute
      dropFrame == IF in < 1800 THEN in ELSE ((in - 1800) % 1798) + 2
      fps == Fps(rate)
      seconds == n \div fps
      drop == rate = "29.97df"
      minutes == IF drop THEN dropMinutes ELSE seconds \div 60
  IN  [h |-> (minutes \div 60) % 24, m |-> minutes % 60,
       s |-> IF drop THEN dropFrame \div 30 ELSE seconds % 60,
       f |-> IF drop THEN dropFrame % 30 ELSE n % fps,
       rate |-> rate]

\* The frames of a day.
DaySeconds == 86400
Day(rate) == IF rate = "29.97df" THEN 144 * Block ELSE DaySeconds * Fps(rate)

FrameUs(rate) == CASE rate = "24" -> 41667 [] rate = "25" -> 40000
                   [] rate = "30" -> 33333 [] OTHER -> 33367

FromMillis(ms, rate) == FromFrameNumber((ms * 1000) \div FrameUs(rate), rate)

=============================================================================
