----------------------------- MODULE MCEventLoop -----------------------------
(***************************************************************************)
(* Small shows for TLC.  Each scenario gives every cue a list, a type, its *)
(* targets and its post-wait; the continue modes are left open.            *)
(***************************************************************************)
EXTENDS EventLoop

CONSTANTS c1, c2, c3, c4, c5

\* Actions: Start cues in list 1, one of them in a cycle through its chain
\* (c1 continues to c2, and c2 starts c1 again), reach into list 2, where a
\* sound, a Goto and a Stop follow each other.
ActionOrder == 1 :> <<c1, c2>> @@ 2 :> <<c3, c4, c5>>
ActionHome == c1 :> 1 @@ c2 :> 1 @@ c3 :> 2 @@ c4 :> 2 @@ c5 :> 2
ActionKind == c1 :> "start" @@ c2 :> "start" @@ c3 :> "media" @@ c4 :> "goto" @@ c5 :> "stop"
ActionTargets == c1 :> <<c3, c5>> @@ c2 :> <<c1>> @@ c3 :> <<>> @@ c4 :> <<c3>> @@ c5 :> <<>>
ActionPostWait == c1 :> FALSE @@ c2 :> FALSE @@ c3 :> TRUE @@ c4 :> FALSE @@ c5 :> FALSE

\* Edits: the operator reorders, removes and disarms the cues of a list while
\* their continuations are under way, and so does a Disarm cue.
EditOrder == 1 :> <<c1, c2, c3>>
EditHome == [x \in {c1, c2, c3} |-> 1]
EditKind == c1 :> "media" @@ c2 :> "wait" @@ c3 :> "disarm"
EditTargets == c1 :> <<>> @@ c2 :> <<>> @@ c3 :> <<c2>>
EditPostWait == c1 :> TRUE @@ c2 :> FALSE @@ c3 :> FALSE

\* Controls: Reset, Pause and Resume cues act on a sound and a text of list 2;
\* the sound and the Reset have a post-wait.
ControlOrder == 1 :> <<c1, c2, c5>> @@ 2 :> <<c3, c4>>
ControlHome == [x \in {c1, c2, c3, c4, c5} |-> IF x \in {c3, c4} THEN 2 ELSE 1]
ControlKind == c1 :> "reset" @@ c2 :> "pause" @@ c5 :> "resume"
                 @@ c3 :> "media" @@ c4 :> "text"
ControlTargetIds == c1 :> <<c3>> @@ c2 :> <<c3>> @@ c5 :> <<c3>> @@ c3 :> <<>> @@ c4 :> <<>>
ControlPostWait == [x \in {c1, c2, c3, c4, c5} |-> x \in {c1, c3}]

=============================================================================
