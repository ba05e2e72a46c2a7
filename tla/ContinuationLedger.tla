-------------------------- MODULE ContinuationLedger --------------------------
(***************************************************************************)
(* What the Auto-Continue / Auto-Follow machinery promises, with nothing   *)
(* of how it does it: each list issues numbered continuations, a cue holds *)
(* at most one, and a continuation is spent at most once, only while its   *)
(* cue still holds it.  Stop, Goto and a new run take a continuation back; *)
(* one that was taken back is never spent.                                 *)
(***************************************************************************)
EXTENDS Naturals

CONSTANTS Cue, List, Home

VARIABLES
  issued,  \* issued[l]: how many continuations list l has issued
  live,    \* live[c]: the continuation cue c holds, 0 for none
  spent    \* the continuations <<c, n>> that have fired a successor

ledger == <<issued, live, spent>>

Init ==
  /\ issued = [l \in List |-> 0]
  /\ live = [c \in Cue |-> 0]
  /\ spent = {}

Count(c) == issued' = [issued EXCEPT ![Home[c]] = @ + 1]
TakeBack(S) == live' = [c \in Cue |-> IF c \in S THEN 0 ELSE live[c]]

\* A run of c gets a continuation; the one it held is gone.
Issue(c) ==
  /\ Count(c)
  /\ live' = [live EXCEPT ![c] = issued[Home[c]] + 1]
  /\ UNCHANGED spent

Cancel(S) == TakeBack(S) /\ UNCHANGED <<issued, spent>>

Spend(c) ==
  /\ live[c] # 0
  /\ TakeBack({c})
  /\ spent' = spent \cup {<<c, live[c]>>}
  /\ UNCHANGED issued

\* An immediate chain: issued and taken in one go, spent or dropped.
IssueNow(c) ==
  /\ Count(c)
  /\ TakeBack({c})
  /\ spent' \in {spent, spent \cup {<<c, issued[Home[c]] + 1>>}}

Next ==
  \/ \E S \in SUBSET Cue : Cancel(S)
  \/ \E c \in Cue : Issue(c) \/ Spend(c) \/ IssueNow(c)

Spec == Init /\ [][Next]_ledger

=============================================================================
