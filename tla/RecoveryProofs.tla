---------------------------- MODULE RecoveryProofs ----------------------------
(***************************************************************************)
(* The autosave thread never believes a modified workspace to be on disk   *)
(* when it is not, unless a replaced show, a discarded file or a failed    *)
(* write has misled it; while the recovery prompt is open the snapshot of  *)
(* the session before stays until the show is worked on; and no snapshot   *)
(* goes back to an older version but by a restore that crosses a write.    *)
(***************************************************************************)
EXTENDS Recovery, TLAPS

\* The revision the thread has seen is never ahead of the workspace, and when
\* it is that of a modified workspace, its content is on disk or on the way.
ThreadFollows ==
  phase = "up" /\ ~misled =>
    /\ autosave.last <= doc.revision
    /\ doc.modified /\ autosave.last = doc.revision
         => \/ autosave.job = "write" /\ autosave.content = ContentOf(doc)
            \/ autosave.job = "sleep" /\ snapshot = ContentOf(doc)

\* A save takes the snapshot away while there is nothing unsaved, and as long as
\* the prompt is open and nothing was done under it, the thread has nothing to
\* write and no file of its own.
Quiet ==
  /\ doc.modified => doc.revision >= 1
  /\ saving => phase = "up" /\ ~doc.modified
  /\ phase = "up" /\ prompt /\ ~touched => /\ ~saving /\ ~doc.modified
                                           /\ ~autosave.onDisk /\ autosave.job # "write"

Inv == TypeOK /\ ThreadFollows /\ Quiet

\* Every document an action installs has the type of a document.
LEMMA DocumentTypes ==
  /\ \A f \in Name, v \in Nat : Fresh(f, v) \in Document
  /\ \A d \in Document, v \in Nat : Modified(d, v) \in Document
  /\ \A d \in Document : ContentOf(d) \in Content
<1>1. \A f \in Name, v \in Nat : Fresh(f, v) \in Document
  BY DEF Fresh, Document
<1>2. \A d \in Document, v \in Nat : Modified(d, v) \in Document
  <2> TAKE d \in Document, v \in Nat
  <2> DEFINE n == [d EXCEPT !.version = v, !.modified = TRUE, !.revision = d.revision + 1]
  <2>1. d.revision + 1 \in Nat
    BY DEF Document
  <2>2. n \in Document
    BY <2>1 DEF Document
  <2> QED
    BY <2>2 DEF Modified
<1>3. \A d \in Document : ContentOf(d) \in Content
  BY DEF ContentOf, Document, Content
<1> QED
  BY <1>1, <1>2, <1>3

\* What the locals of the autosave thread hold.
Locals == [last : Int, onDisk : BOOLEAN, job : {"sleep", "write", "clear"},
           content : Content]

\* A new session starts with a document and locals of the right types.
LEMMA StartTypes == Fresh(Untitled, 0) \in Document /\ ThreadStart \in Locals
<1>1. Fresh(Untitled, 0) \in Document
  BY DocumentTypes DEF Name
<1>2. ContentOf(Fresh(Untitled, 0)) \in Content
  BY <1>1, DocumentTypes
<1>3. ThreadStart \in Locals
  BY <1>2, -1 \in Int DEF ThreadStart, Locals
<1> QED
  BY <1>1, <1>3

\* The initial state satisfies the invariant: no session is up.
LEMMA InitInv == Init => Inv
<1> SUFFICES ASSUME Init PROVE Inv
  OBVIOUS
<1>1. TypeOK
  BY StartTypes DEF Init, TypeOK, Locals
<1>2. ThreadFollows /\ Quiet
  BY DEF Init, ThreadFollows, Quiet, Fresh
<1> QED
  BY <1>1, <1>2 DEF Inv

\* A snapshot that is there is a content.
LEMMA SnapshotFields ==
  TypeOK /\ snapshot # NoSnapshot => snapshot \in Content /\ snapshot.file \in Name
                                     /\ snapshot.version \in Nat
BY DEF TypeOK, Content

\* Every step keeps the types of the workspace, the files and the thread.
LEMMA TypeStep == TypeOK /\ [Next]_vars => TypeOK'
<1> SUFFICES ASSUME TypeOK, [Next]_vars PROVE TypeOK'
  OBVIOUS
<1> USE EditsAssumption, DocumentTypes, StartTypes DEF TypeOK, Locals
<1>1. CASE Start
  BY <1>1 DEF Start, Name
<1>2. CASE Edit
  BY <1>2 DEF Edit
<1>3. CASE SaveDropsSnapshot
  BY <1>3 DEF SaveDropsSnapshot, history
<1>4. ASSUME NEW s \in Show, SaveWorkspace(s) PROVE TypeOK'
  BY <1>4 DEF SaveWorkspace, Ready, Document, Name
<1>5. ASSUME NEW s \in Show, LoadWorkspace(s) PROVE TypeOK'
  BY <1>5 DEF LoadWorkspace, Replaces, MayMislead, Name
<1>6. CASE NewWorkspace
  BY <1>6 DEF NewWorkspace, Replaces, MayMislead, Name
<1>7. CASE ImportWorkspace
  <2>1. Fresh(Untitled, 0) \in Document
    BY DEF Name
  <2> QED
    BY <1>7, <2>1 DEF ImportWorkspace, Replaces, MayMislead
<1>8. CASE RestoreRecovery
  <2>1. snapshot \in Content
    BY <1>8 DEF RestoreRecovery
  <2>2. Fresh(snapshot.file, 0) \in Document /\ snapshot.version \in Nat
    BY <2>1 DEF Content
  <2> QED
    BY <1>8, <2>2 DEF RestoreRecovery, Answered, MayMislead
<1>9. CASE RestoreFails \/ DiscardRecovery
  BY <1>9 DEF RestoreFails, DiscardRecovery, Answered, MayMislead, history
<1>10. CASE Close
  BY <1>10 DEF Close, Ready, history
<1>11. CASE Exit \/ Crash
  BY <1>11 DEF Exit, Crash, Forget
<1>12. CASE AutosaveLooks
  <2>1. doc.revision \in Int /\ ContentOf(doc) \in Content
    BY DEF Document
  <2>2. autosave' \in Locals
    BY <1>12, <2>1 DEF AutosaveLooks
  <2> QED
    BY <1>12, <2>2 DEF AutosaveLooks
<1>13. CASE AutosaveWrites
  BY <1>13 DEF AutosaveWrites
<1>14. CASE AutosaveFails
  BY <1>14 DEF AutosaveFails
<1>15. CASE AutosaveClears
  BY <1>15 DEF AutosaveClears, history
<1>16. CASE UNCHANGED vars
  BY <1>16 DEF vars, history
<1> QED
  BY <1>1, <1>2, <1>3, <1>4, <1>5, <1>6, <1>7, <1>8, <1>9, <1>10, <1>11, <1>12,
     <1>13, <1>14, <1>15, <1>16 DEF Next

\* What a document holds once it is made.
LEMMA DocumentFields ==
  /\ \A f \in Name, v \in Nat : Fresh(f, v).version = v /\ ~Fresh(f, v).modified
                               /\ Fresh(f, v).revision = 0
  /\ \A d \in Document, v \in Nat : /\ Modified(d, v).version = v /\ Modified(d, v).modified
                                   /\ Modified(d, v).revision = d.revision + 1
  /\ \A d \in Document : ContentOf(d).version = d.version
  /\ ThreadStart.job = "sleep" /\ ThreadStart.content.version = 0
BY DEF Fresh, Modified, Document, ContentOf, ThreadStart

\* A thread that has seen no edit cannot take a replaced show for one it has seen.
LEMMA ReplacedFollows ==
  ASSUME TypeOK, MayMislead, UNCHANGED autosave, doc'.revision \in Nat,
         doc'.modified => doc'.revision >= 1
  PROVE  ThreadFollows'
<1> SUFFICES ASSUME ~misled' PROVE /\ autosave'.last <= doc'.revision
                                  /\ ~(doc'.modified /\ autosave'.last = doc'.revision)
  BY DEF ThreadFollows
<1>1. autosave.last \in Int /\ ~(autosave.last >= 1)
  BY DEF TypeOK, MayMislead
<1> QED
  BY <1>1

\* Every step keeps the invariant.
LEMMA InvStep == Inv /\ [Next]_vars => Inv'
<1> SUFFICES ASSUME Inv, [Next]_vars PROVE ThreadFollows' /\ Quiet'
  BY TypeStep DEF Inv
<1>f. /\ Fresh(Untitled, 0) \in Document /\ ~Fresh(Untitled, 0).modified
      /\ Fresh(Untitled, 0).revision = 0 /\ edits + 1 \in Nat
  <2>1. Untitled \in Name /\ edits + 1 \in Nat
    BY DEF Name, Inv, TypeOK
  <2> QED
    BY <2>1, 0 \in Nat, DocumentTypes, DocumentFields
<1> USE DEF Inv, TypeOK, ThreadFollows, Quiet
<1>1. CASE Start
  BY <1>1 DEF Start, Fresh, ThreadStart
<1>2. CASE Edit
  BY <1>2 DEF Edit, Ready, Modified, Document
<1>3. CASE SaveDropsSnapshot
  BY <1>3 DEF SaveDropsSnapshot, history
<1>4. ASSUME NEW s \in Show, SaveWorkspace(s) PROVE ThreadFollows' /\ Quiet'
  BY <1>4 DEF SaveWorkspace, Ready, Document
<1>5. CASE RestoreRecovery
  <2>1. Fresh(snapshot.file, 0) \in Document /\ Fresh(snapshot.file, 0).revision = 0
    BY <1>5, SnapshotFields, DocumentTypes, DocumentFields DEF RestoreRecovery
  <2>2. doc'.modified /\ doc'.revision = 1
    BY <1>5, <2>1, SnapshotFields, DocumentFields DEF RestoreRecovery
  <2>3. ThreadFollows'
    BY <1>5, <2>2, ReplacedFollows DEF RestoreRecovery
  <2> QED
    BY <1>5, <2>2, <2>3 DEF RestoreRecovery, Answered, Ready
<1>6. CASE RestoreFails \/ DiscardRecovery
  <2>1. CASE RestoreFails
    BY <2>1 DEF RestoreFails, Answered, Ready, history, ContentOf
  <2>2. CASE DiscardRecovery
    <3>1. doc' = doc /\ doc.revision \in Nat
      BY <2>2 DEF DiscardRecovery, Document
    <3>2. ThreadFollows'
      BY <2>2, <3>1, ReplacedFollows DEF DiscardRecovery
    <3>3. Quiet'
      BY <2>2, <3>1 DEF DiscardRecovery, Answered, Ready
    <3> QED
      BY <3>2, <3>3
  <2> QED
    BY <1>6, <2>1, <2>2
<1>7. CASE Close
  BY <1>7 DEF Close, Ready, history
<1>8. CASE Exit \/ Crash
  BY <1>8, <1>f DEF Exit, Crash, Forget
<1>9. CASE AutosaveLooks
  BY <1>9 DEF AutosaveLooks, Unwritten, Document
<1>10. CASE AutosaveWrites
  BY <1>10 DEF AutosaveWrites
<1>11. CASE AutosaveClears
  BY <1>11 DEF AutosaveClears, history
<1>12. CASE UNCHANGED vars
  BY <1>12 DEF vars, history, ContentOf
<1>13. CASE NewWorkspace
  <2>1. ~doc'.modified /\ doc'.revision = 0
    BY <1>13, <1>f DEF NewWorkspace
  <2>2. ThreadFollows'
    BY <1>13, <2>1, ReplacedFollows DEF NewWorkspace, Replaces
  <2> QED
    BY <1>13, <2>1, <2>2 DEF NewWorkspace, Replaces, Ready
<1>14. CASE ImportWorkspace
  <2>1. doc'.modified /\ doc'.revision = 1
    BY <1>14, <1>f, DocumentFields DEF ImportWorkspace
  <2>2. ThreadFollows'
    BY <1>14, <2>1, ReplacedFollows DEF ImportWorkspace, Replaces
  <2> QED
    BY <1>14, <2>1, <2>2 DEF ImportWorkspace, Replaces, Ready
<1>15. ASSUME NEW s \in Show, LoadWorkspace(s) PROVE ThreadFollows' /\ Quiet'
  <2>1. ~doc'.modified /\ doc'.revision = 0
    BY <1>15, DocumentFields DEF LoadWorkspace, Name
  <2>2. ThreadFollows'
    BY <1>15, <2>1, ReplacedFollows DEF LoadWorkspace, Replaces
  <2> QED
    BY <1>15, <2>1, <2>2 DEF LoadWorkspace, Replaces, Ready
<1>16. CASE AutosaveFails
  BY <1>16 DEF AutosaveFails
<1> QED
  BY <1>1, <1>2, <1>3, <1>4, <1>5, <1>6, <1>7, <1>8, <1>9, <1>10, <1>11, <1>12, <1>13,
     <1>14, <1>15, <1>16 DEF Next

\* For every set of project files and every number of edits, restores, crashes
\* and restarts: when the thread rests, a modified workspace it has seen is in
\* the recovery file, unless a replaced show, a discarded file or a failed write
\* misled it.
THEOREM AutosaveStaysCurrent == Spec => []AutosaveIsCurrent
<1>1. Inv => AutosaveIsCurrent
  BY DEF Inv, ThreadFollows, AutosaveIsCurrent
<1> QED
  BY InitInv, InvStep, <1>1, PTL DEF Spec

\* While the prompt is open and nothing was done under it, no step of the session
\* takes the snapshot of the session before away or overwrites it.
LEMMA PromptStep ==
  Inv /\ [Next]_vars
    => (prompt /\ prompt' /\ phase' = "up" /\ ~touched => snapshot' = snapshot)
<1> SUFFICES ASSUME Inv, [Next]_vars, prompt, prompt', phase' = "up", ~touched
             PROVE  snapshot' = snapshot
  OBVIOUS
<1> USE DEF Inv, TypeOK, Quiet
<1>1. CASE phase = "up"
  <2>1. ~SaveDropsSnapshot /\ ~DiscardRecovery /\ ~Close /\ ~AutosaveWrites
    BY <1>1 DEF SaveDropsSnapshot, DiscardRecovery, Answered, Close, AutosaveWrites
  <2>2. AutosaveClears => snapshot' = snapshot
    BY <1>1 DEF AutosaveClears
  <2> QED
    BY <2>1, <2>2 DEF Next, vars, Start, Edit, SaveWorkspace, LoadWorkspace, NewWorkspace,
       ImportWorkspace, RestoreRecovery, RestoreFails, Answered, Exit, Crash, Forget,
       AutosaveLooks, AutosaveFails
<1>2. CASE phase # "up"
  BY <1>2 DEF Next, vars, Start, Edit, Ready, SaveDropsSnapshot, SaveWorkspace,
     LoadWorkspace, NewWorkspace, ImportWorkspace, Replaces, RestoreRecovery, Answered,
     RestoreFails, DiscardRecovery, Close, Exit, Crash, Forget, AutosaveLooks,
     AutosaveWrites, AutosaveFails, AutosaveClears
<1> QED
  BY <1>1, <1>2

\* Until the operator answers the prompt or works on the show under it, the open
\* window never loses the snapshot: PromptedSnapshotStays holds for every instance.
THEOREM PromptedSnapshotKept == Spec => PromptedSnapshotStays
<1>1. Inv /\ [Next]_vars
        => [prompt /\ prompt' /\ phase' = "up" /\ ~touched => snapshot' = snapshot]_vars
  BY PromptStep
<1> QED
  BY InitInv, InvStep, <1>1, PTL DEF Spec, PromptedSnapshotStays

\* The workspace, the files and the thread keep their types whatever happens.
THEOREM RecoveryTypes == Spec => []TypeOK
<1>1. Init => TypeOK
  BY InitInv DEF Inv
<1> QED
  BY <1>1, TypeStep, PTL DEF Spec

(***************************************************************************)
(* Versions only grow                                                      *)
(***************************************************************************)
\* No version is ahead of the edits made; but for a restore that crossed a write, a
\* modified workspace is never behind the snapshot, nor what the thread is about to
\* write behind what it replaces.
VersionsInOrder ==
  /\ doc.version <= edits /\ autosave.content.version <= edits
  /\ \A s \in Show : project[s] <= edits
  /\ snapshot # NoSnapshot => snapshot.version <= edits
  /\ snapshot # NoSnapshot /\ ~crossed =>
       /\ doc.modified => snapshot.version <= doc.version
       /\ autosave.job = "write" => snapshot.version <= autosave.content.version
  /\ ~crossed /\ doc.modified /\ autosave.job = "write"
       => autosave.content.version <= doc.version

LEMMA VersionStep ==
  ASSUME Inv, VersionsInOrder, [Next]_vars
  PROVE  VersionsInOrder'
<1>f. /\ Fresh(Untitled, 0) \in Document /\ Fresh(Untitled, 0).version = 0 /\ ~Fresh(Untitled, 0).modified
      /\ ThreadStart.job = "sleep" /\ ThreadStart.content.version = 0
  BY DocumentTypes, DocumentFields DEF Name
<1>v. /\ edits \in Nat /\ edits + 1 \in Nat /\ doc \in Document /\ doc.version \in Nat
      /\ autosave.content.version \in Nat /\ autosave.job \in {"sleep", "write", "clear"}
      /\ \A s \in Show : project[s] \in Nat
      /\ snapshot # NoSnapshot => snapshot \in Content /\ snapshot.version \in Nat /\ snapshot.file \in Name
  BY DEF Inv, TypeOK, Document, Content
<1> USE DEF VersionsInOrder
<1>1. CASE Start
  BY <1>f, <1>v, <1>1 DEF Start
<1>2. CASE Edit
  <2>1. /\ doc'.version = edits + 1 /\ edits' = edits + 1
        /\ UNCHANGED <<project, snapshot, autosave, crossed>>
    BY <1>v, <1>2, DocumentFields DEF Edit
  <2> QED BY <1>v, <2>1
<1>3. CASE SaveDropsSnapshot
  BY <1>v, <1>3 DEF SaveDropsSnapshot, history
<1>4. ASSUME NEW s \in Show, SaveWorkspace(s) PROVE VersionsInOrder'
  BY <1>v, <1>4 DEF SaveWorkspace, Document, Inv, TypeOK
<1>5. ASSUME NEW s \in Show, LoadWorkspace(s) PROVE VersionsInOrder'
  <2>1. doc'.version = project[s] /\ ~doc'.modified
    BY <1>v, <1>5, DocumentFields DEF LoadWorkspace, Name
  <2> QED BY <1>v, <1>5, <2>1 DEF LoadWorkspace
<1>6. CASE NewWorkspace
  BY <1>f, <1>v, <1>6 DEF NewWorkspace
<1>7. CASE ImportWorkspace
  <2>1. /\ doc'.version = edits + 1 /\ edits' = edits + 1
        /\ UNCHANGED <<project, snapshot, autosave, crossed>>
    BY <1>f, <1>v, <1>7, DocumentFields DEF ImportWorkspace
  <2> QED BY <1>v, <2>1
<1>8. CASE RestoreRecovery
  <2>1. snapshot # NoSnapshot /\ crossed' = (crossed \/ autosave.job = "write")
    BY <1>8 DEF RestoreRecovery
  <2>2. Fresh(snapshot.file, 0) \in Document
    BY <1>v, <2>1, DocumentTypes
  <2>3. doc'.version = snapshot.version /\ UNCHANGED <<project, snapshot, autosave, edits>>
    BY <1>v, <1>8, <2>1, <2>2, DocumentFields DEF RestoreRecovery
  <2>4. ~crossed' => ~crossed /\ autosave.job # "write"
    BY <2>1
  <2> QED BY <1>v, <2>1, <2>3, <2>4
<1>9. CASE RestoreFails \/ DiscardRecovery
  BY <1>v, <1>9 DEF RestoreFails, DiscardRecovery, history
<1>10. CASE Close
  BY <1>v, <1>10 DEF Close, history
<1>11. CASE Exit \/ Crash
  BY <1>f, <1>v, <1>11 DEF Exit, Crash, Forget
<1>12. CASE AutosaveLooks
  <2>1. UNCHANGED <<doc, project, snapshot, edits, crossed>>
    BY <1>12 DEF AutosaveLooks
  <2>2. CASE Unwritten
    <3>1. doc.modified /\ autosave'.content.version = doc.version
      BY <1>v, <1>12, <2>2, DocumentFields DEF AutosaveLooks, Unwritten, Inv, TypeOK
    <3> QED BY <1>v, <2>1, <3>1
  <2>3. CASE ~Unwritten
    <3>1. autosave'.content = autosave.content /\ autosave'.job # "write"
      BY <1>12, <2>3 DEF AutosaveLooks, Inv, TypeOK
    <3> QED BY <1>v, <2>1, <3>1
  <2> QED BY <2>2, <2>3
<1>13. CASE AutosaveWrites
  <2>1. crossed' \/ ~crossed \/ autosave.content.version = doc.version
    BY <1>v, <1>13, DocumentFields DEF AutosaveWrites, Inv, TypeOK
  <2>2. autosave'.content = autosave.content /\ autosave'.job = "sleep"
    BY <1>13 DEF AutosaveWrites, Inv, TypeOK
  <2> QED
    BY <1>v, <1>13, <2>1, <2>2 DEF AutosaveWrites
<1>14. CASE AutosaveFails
  BY <1>v, <1>14 DEF AutosaveFails, Inv, TypeOK
<1>15. CASE AutosaveClears
  BY <1>v, <1>15 DEF AutosaveClears, history, Inv, TypeOK
<1>16. CASE UNCHANGED vars
  BY <1>v, <1>16 DEF vars, history
<1> QED
  BY <1>1, <1>2, <1>3, <1>4, <1>5, <1>6, <1>7, <1>8, <1>9, <1>10, <1>11, <1>12,
     <1>13, <1>14, <1>15, <1>16 DEF Next

\* Only the thread puts one snapshot in the place of another.
LEMMA ForwardStep ==
  ASSUME Inv, VersionsInOrder, [Next]_vars, ~crossed, snapshot # NoSnapshot,
         snapshot' # NoSnapshot
  PROVE  snapshot'.version >= snapshot.version
<1> USE DEF Inv, TypeOK, VersionsInOrder
<1>1. CASE AutosaveWrites
  BY <1>1 DEF AutosaveWrites, Content
<1>2. CASE ~AutosaveWrites
  <2>1. snapshot' = snapshot
    BY <1>2 DEF Next, vars, Start, Edit, SaveWorkspace, SaveDropsSnapshot, LoadWorkspace, NewWorkspace,
       ImportWorkspace, RestoreRecovery, RestoreFails, DiscardRecovery, Answered, Close, Exit, Crash,
       Forget, AutosaveLooks, AutosaveFails, AutosaveClears
  <2> QED BY <2>1 DEF Content
<1> QED BY <1>1, <1>2

\* For every set of project files and any crashes, restarts, restores and
\* replaced shows: a recovery file is never replaced by an older version, unless a
\* restore read it while the thread was replacing it.
THEOREM SnapshotNeverGoesBack == Spec => SnapshotMovesForward
<1>1. Init => VersionsInOrder
  BY StartTypes, DocumentFields DEF Init, VersionsInOrder, Name
<1>2. Inv /\ VersionsInOrder /\ [Next]_vars => VersionsInOrder'
  BY VersionStep
<1>3. Inv /\ VersionsInOrder /\ [Next]_vars
        => [snapshot # NoSnapshot /\ snapshot' # NoSnapshot /\ ~crossed
              => snapshot'.version >= snapshot.version]_vars
  BY ForwardStep
<1> QED
  BY InitInv, InvStep, <1>1, <1>2, <1>3, PTL DEF Spec, SnapshotMovesForward

=============================================================================
