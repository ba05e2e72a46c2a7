------------------------------- MODULE Recovery -------------------------------
(***************************************************************************)
(* Saving, the crash-recovery snapshot and its autosave thread: save,      *)
(* load, new and import of show/workspace.rs and workspace_cmds.rs,        *)
(* recovery.rs, recovery_cmds.rs and the thread of lib.rs.                 *)
(*                                                                         *)
(* The commands run on the main thread, one after the other; the autosave  *)
(* thread runs beside them and shares the workspace mutex and the snapshot *)
(* file with them.  A content is the pair of a file name and a version;    *)
(* every edit makes a version that never was before.                       *)
(***************************************************************************)
EXTENDS Integers

CONSTANTS
  Show,        \* the project files
  Untitled,    \* the name of a workspace that was never saved
  NoSnapshot,  \* no recovery file on disk
  Operations,  \* what this instance lets the operator and the disk do
  MaxEdits     \* bound on the edits and imports of a behaviour

OperationNames == {"replace", "close", "restoreFails", "writeFails"}

ASSUME NamesAssumption == Untitled \notin Show
ASSUME SnapshotAssumption == NoSnapshot \notin [file : Show \cup {Untitled}, version : Nat]
ASSUME OperationsAssumption == Operations \subseteq OperationNames
ASSUME EditsAssumption == MaxEdits \in Nat

VARIABLES
  phase,     \* "up", "closing" between the last delete and the exit, or "down"
  doc,       \* the workspace in memory
  project,   \* project[s]: the version in project file s
  snapshot,  \* the recovery file
  prompt,    \* the operator is asked whether to restore it
  saving,    \* a save has written its project file and not yet dropped the snapshot
  autosave,  \* the locals of the autosave thread
  edits,     \* versions made so far
  misled,    \* history: since the thread last took the show in, its write failed,
             \* its file was discarded, or another show came to the revision it saw
  touched,   \* history: the show was edited, imported or saved under this prompt
  crossed    \* history: a restore read the snapshot the thread was replacing, and
             \* the thread has not written the restored show since

history == <<misled, touched, crossed>>
vars == <<phase, doc, project, snapshot, prompt, saving, autosave, edits, history>>

Name == Show \cup {Untitled}
Content == [file : Name, version : Nat]
Document == [file : Name, version : Nat, modified : BOOLEAN, revision : Nat]
ContentOf(d) == [file |-> d.file, version |-> d.version]

\* Mutant: a new workspace starts below revision 0, to be looked at at once.
FreshUnseen(f, v) == [file |-> f, version |-> v, modified |-> FALSE, revision |-> -1]

\* A workspace as it is created or read from a file.
Fresh(f, v) == [file |-> f, version |-> v, modified |-> FALSE, revision |-> 0]

\* Mutant: an edit changes the workspace without a new revision.
ModifiedInPlace(d, v) == [d EXCEPT !.version = v, !.modified = TRUE]

\* mark_modified, after the change that made version v.
Modified(d, v) ==
  [d EXCEPT !.version = v, !.modified = TRUE, !.revision = d.revision + 1]

\* Mutant: the thread takes a file it finds at startup for its own.
ThreadStartOwningFile ==
  [last |-> -1, onDisk |-> TRUE, job |-> "sleep", content |-> ContentOf(Fresh(Untitled, 0))]

\* The autosave thread starts with no revision seen (u64::MAX, here -1) and no
\* file of its own.
ThreadStart ==
  [last |-> -1, onDisk |-> FALSE, job |-> "sleep", content |-> ContentOf(Fresh(Untitled, 0))]

(***************************************************************************)
(* The commands                                                            *)
(***************************************************************************)
\* The main thread is free.  The prompt is drawn over the window and keeps neither
\* its shortcuts nor the commands from working.
Ready == phase = "up" /\ ~saving

Start ==
  /\ phase = "down"
  /\ phase' = "up" /\ doc' = Fresh(Untitled, 0) /\ autosave' = ThreadStart
  /\ prompt' = (snapshot # NoSnapshot)
  /\ misled' = FALSE /\ touched' = FALSE /\ crossed' = FALSE
  /\ UNCHANGED <<project, snapshot, saving, edits>>

Edit ==
  /\ Ready /\ edits < MaxEdits
  /\ edits' = edits + 1
  /\ doc' = Modified(doc, edits + 1) /\ touched' = (touched \/ prompt)
  /\ UNCHANGED <<phase, project, snapshot, prompt, saving, autosave, misled, crossed>>

\* save_workspace: the project file, then the snapshot goes.
SaveWorkspace(s) ==
  /\ Ready
  /\ project' = [project EXCEPT ![s] = doc.version]
  /\ doc' = [doc EXCEPT !.file = s, !.modified = FALSE]
  /\ saving' = TRUE /\ touched' = (touched \/ prompt)
  /\ UNCHANGED <<phase, snapshot, prompt, autosave, edits, misled, crossed>>

SaveDropsSnapshot ==
  /\ phase = "up" /\ saving
  /\ snapshot' = NoSnapshot /\ saving' = FALSE
  /\ UNCHANGED <<phase, doc, project, prompt, autosave, edits, history>>

\* Revisions start again with every workspace: one the thread has seen a modified
\* show at can come again.
MayMislead == misled' = (misled \/ autosave.last >= 1)

\* Replacing the show; the front end has asked about unsaved work.
Replaces == "replace" \in Operations /\ Ready /\ MayMislead

LoadWorkspace(s) ==
  /\ Replaces /\ doc' = Fresh(s, project[s])
  /\ UNCHANGED <<phase, project, snapshot, prompt, saving, autosave, edits, touched, crossed>>

NewWorkspace ==
  /\ Replaces /\ doc' = Fresh(Untitled, 0)
  /\ UNCHANGED <<phase, project, snapshot, prompt, saving, autosave, edits, touched, crossed>>

\* An import is a new, modified workspace without a file.
ImportWorkspace ==
  /\ Replaces /\ edits < MaxEdits
  /\ edits' = edits + 1 /\ touched' = (touched \/ prompt)
  /\ doc' = Modified(Fresh(Untitled, 0), edits + 1)
  /\ UNCHANGED <<phase, project, snapshot, prompt, saving, autosave, crossed>>

\* The prompt is answered, on the main thread.
Answered == Ready /\ prompt /\ prompt' = FALSE

\* Mutant: the project file is opened again instead of the snapshot.
RestoreProjectFile ==
  /\ Answered /\ snapshot # NoSnapshot /\ MayMislead
  /\ doc' = Modified(Fresh(snapshot.file, 0),
                     IF snapshot.file \in Show THEN project[snapshot.file] ELSE 0)
  /\ crossed' = (crossed \/ autosave.job = "write")
  /\ UNCHANGED <<phase, project, snapshot, saving, autosave, edits, touched>>

\* restore_recovery leaves the snapshot on disk.
RestoreRecovery ==
  /\ Answered /\ snapshot # NoSnapshot /\ MayMislead
  /\ doc' = Modified(Fresh(snapshot.file, 0), snapshot.version)
  /\ crossed' = (crossed \/ autosave.job = "write")
  /\ UNCHANGED <<phase, project, snapshot, saving, autosave, edits, touched>>

\* The prompt is gone whether or not the restore went through; a snapshot deleted
\* under the prompt cannot be read.
RestoreFails ==
  /\ Answered /\ ("restoreFails" \in Operations \/ snapshot = NoSnapshot)
  /\ UNCHANGED <<phase, doc, project, snapshot, saving, autosave, edits, history>>

\* Whatever snapshot is there goes, one of this session too.
DiscardRecovery ==
  /\ Answered /\ MayMislead
  /\ snapshot' = NoSnapshot
  /\ UNCHANGED <<phase, doc, project, saving, autosave, edits, touched, crossed>>

\* The main window is destroyed: the snapshot goes, then the process exits.
Close ==
  /\ "close" \in Operations /\ Ready
  /\ snapshot' = NoSnapshot /\ phase' = "closing"
  /\ UNCHANGED <<doc, project, prompt, saving, autosave, edits, history>>

\* The end of a session: only the files are left.
Forget ==
  /\ phase' = "down" /\ doc' = Fresh(Untitled, 0) /\ autosave' = ThreadStart
  /\ prompt' = FALSE /\ saving' = FALSE
  /\ misled' = FALSE /\ touched' = FALSE /\ crossed' = FALSE
  /\ UNCHANGED <<project, snapshot, edits>>

Exit == phase = "closing" /\ Forget
Crash == phase = "up" /\ Forget

(***************************************************************************)
(* The autosave thread                                                     *)
(***************************************************************************)
\* Mutant: only the first change after a save is written.
StaleSinceSave == doc.modified /\ ~autosave.onDisk

Unwritten == doc.modified /\ doc.revision # autosave.last

\* Under the workspace mutex: what is to be done, and the content to write.
AutosaveLooks ==
  /\ phase # "down" /\ autosave.job = "sleep"
  /\ autosave' = [autosave EXCEPT
       !.last = IF Unwritten \/ ~doc.modified THEN doc.revision ELSE @,
       !.job = IF Unwritten THEN "write" ELSE IF ~doc.modified THEN "clear" ELSE "sleep",
       !.content = IF Unwritten THEN ContentOf(doc) ELSE @]
  /\ misled' = (misled /\ doc.modified /\ ~Unwritten)
  /\ UNCHANGED <<phase, doc, project, snapshot, prompt, saving, edits, touched, crossed>>

\* The mutex is free again; the file is replaced by a rename, whole or not at all.
AutosaveWrites ==
  /\ phase # "down" /\ autosave.job = "write"
  /\ snapshot' = autosave.content
  /\ autosave' = [autosave EXCEPT !.job = "sleep", !.onDisk = TRUE]
  /\ crossed' = (crossed /\ autosave.content # ContentOf(doc))
  /\ UNCHANGED <<phase, doc, project, prompt, saving, edits, misled, touched>>

\* A failed write, or a workspace that cannot be serialised, is logged.
AutosaveFails ==
  /\ "writeFails" \in Operations /\ phase # "down" /\ autosave.job = "write"
  /\ autosave' = [autosave EXCEPT !.job = "sleep"] /\ misled' = TRUE
  /\ UNCHANGED <<phase, doc, project, snapshot, prompt, saving, edits, touched, crossed>>

\* Only a file of this session is removed.
AutosaveClears ==
  /\ phase # "down" /\ autosave.job = "clear"
  /\ snapshot' = IF autosave.onDisk THEN NoSnapshot ELSE snapshot
  /\ autosave' = [autosave EXCEPT !.job = "sleep", !.onDisk = FALSE]
  /\ UNCHANGED <<phase, doc, project, prompt, saving, edits, history>>

(***************************************************************************)
(* The system                                                              *)
(***************************************************************************)
Init ==
  /\ phase = "down" /\ doc = Fresh(Untitled, 0) /\ autosave = ThreadStart
  /\ project = [s \in Show |-> 0] /\ snapshot = NoSnapshot
  /\ prompt = FALSE /\ saving = FALSE /\ edits = 0
  /\ misled = FALSE /\ touched = FALSE /\ crossed = FALSE

Next ==
  \/ Start \/ Edit \/ SaveDropsSnapshot
  \/ \E s \in Show : SaveWorkspace(s) \/ LoadWorkspace(s)
  \/ NewWorkspace \/ ImportWorkspace
  \/ RestoreRecovery \/ RestoreFails \/ DiscardRecovery
  \/ Close \/ Exit \/ Crash
  \/ AutosaveLooks \/ AutosaveWrites \/ AutosaveFails \/ AutosaveClears

\* A save in progress ends, and the thread wakes up again and again.
Fairness == /\ WF_vars(SaveDropsSnapshot) /\ WF_vars(AutosaveLooks)
            /\ WF_vars(AutosaveWrites \/ AutosaveFails) /\ WF_vars(AutosaveClears)

Spec == Init /\ [][Next]_vars
FairSpec == Spec /\ Fairness

(***************************************************************************)
(* Properties                                                              *)
(***************************************************************************)

\* Every variable keeps its type: the workspace, the files and the thread.
TypeOK ==
  /\ phase \in {"up", "closing", "down"}
  /\ doc \in Document
  /\ project \in [Show -> Nat]
  /\ snapshot \in Content \cup {NoSnapshot}
  /\ prompt \in BOOLEAN /\ saving \in BOOLEAN
  /\ misled \in BOOLEAN /\ touched \in BOOLEAN /\ crossed \in BOOLEAN
  /\ autosave \in [last : Int, onDisk : BOOLEAN, job : {"sleep", "write", "clear"},
                   content : Content]
  /\ edits \in Nat

\* When the autosave thread has nothing to do for a modified workspace, the
\* recovery file holds exactly that workspace: a crash now loses nothing.  It may
\* be wrong after a failed write, a discarded file or a show replaced when the
\* thread had seen an edit, until the thread has taken the workspace in again.
AutosaveIsCurrent ==
  phase = "up" /\ doc.modified /\ autosave.job = "sleep" /\ autosave.last = doc.revision
    => snapshot = ContentOf(doc) \/ misled

\* Work c is what is unsaved in the open window.
Unsaved(c) == phase = "up" /\ doc.modified /\ ContentOf(doc) = c

\* Unsaved work reaches the recovery file, unless it is changed, saved or
\* replaced first, the session ends, or the thread is misled.
UnsavedWorkReachesDisk ==
  \A n \in Name, v \in 0 .. MaxEdits :
    LET c == [file |-> n, version |-> v]
    IN Unsaved(c) ~> ~Unsaved(c) \/ misled \/ snapshot = c

\* A recovery file is only ever replaced by a later version, also by the thread
\* of a session that restored it, unless the restore read the file in the middle
\* of the thread's replacing it.
SnapshotMovesForward ==
  [][snapshot # NoSnapshot /\ snapshot' # NoSnapshot /\ ~crossed
       => snapshot'.version >= snapshot.version]_vars

\* Until the operator has answered the prompt, nothing the open window, the
\* thread or a replaced show does takes the snapshot of the session before away,
\* as long as nothing is edited, imported or saved under the prompt.
PromptedSnapshotStays ==
  [][prompt /\ prompt' /\ phase' = "up" /\ ~touched => snapshot' = snapshot]_vars

=============================================================================
