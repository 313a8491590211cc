------------------------------- MODULE Filing -------------------------------
(***************************************************************************)
(* Filing one completed album into the library and undoing it (filing.rs,  *)
(* filing/files.rs; commit_filing in downloads.rs).  The journal is        *)
(* written before and after the files are touched; a crash may come        *)
(* between any two steps, every step may fail, a failed save may have      *)
(* reached the disk all the same, and other programs change files between  *)
(* two steps.  A file is moved by linking and unlinking it (move_new), the *)
(* check of a file and the use of it are one step.                         *)
(***************************************************************************)
EXTENDS Integers, FiniteSets

CONSTANTS
  Files,       \* number of files of the album
  MaxCrashes,  \* bound on crashes
  MaxForeign   \* bound on changes by other programs

File == 1 .. Files
Place == {"source", "backup", "destination", "staged"}
States == {"none", "Applying", "Filed", "Undoing", "Undone"}

VARIABLES
  at,        \* what is at each place of each file
  stageDir,  \* stage_directory exists
  record,    \* FilingRecord in memory: state and files with an output hash
  journal,   \* the same on disk
  path,      \* where the transfers say the files are, in memory
  savedPath, \* the same on disk
  held,      \* the release is in filing_releases
  op,        \* the operation under way: its kind, step and file
  foreign,   \* history: places another program has written to
  crashes

filingVars == <<at, stageDir, record, journal, path, savedPath, held, op, foreign, crashes>>
diskVars == <<at, stageDir>>
pathVars == <<path, savedPath>>
idleVars == <<foreign, crashes>>

NoRecord == [state |-> "none", hashed |-> {}]
NoOp == [kind |-> "none", step |-> "none", file |-> 0]
Open(r) == r.state \notin {"none", "Undone"}

FilingInit ==
  /\ at = [p \in Place |-> [f \in File |-> IF p = "source" THEN "original" ELSE "nothing"]]
  /\ stageDir = FALSE
  /\ record = NoRecord /\ journal = NoRecord
  /\ path = "source" /\ savedPath = "source"
  /\ held = FALSE /\ op = NoOp /\ foreign = {} /\ crashes = 0

Is(p, f, what) == at[p][f] = what
Absent(p, f) == Is(p, f, "nothing")
Put(p, f, what) == at' = [at EXCEPT ![p][f] = what]

Step(kind, step) == op.kind = kind /\ op.step = step
Goes(step, f) == op' = [op EXCEPT !.step = step, !.file = f]
(* The next file at this step, or the first one at the next step.          *)
NextFile(step, after) == IF op.file < Files THEN Goes(step, op.file + 1) ELSE Goes(after, 1)

(* Engine::save: the journal is written, or it is not, or it is but the    *)
(* caller hears of an error.                                               *)
Saves(ok) ==
  \/ ok /\ journal' = record'
  \/ ~ok /\ journal' \in {journal, record'}

-----------------------------------------------------------------------------
(* apply.                                                                  *)

(* The preview is still that of the files (preflight).                     *)
Preflight ==
  /\ ~stageDir
  /\ \A f \in File : Is("source", f, "original") /\ Absent("destination", f) /\ Absent("backup", f)

BeginApply ==
  /\ op = NoOp /\ ~Open(record) /\ path = "source" /\ Preflight
  /\ record.state = "none"
  /\ \/ /\ record' = [state |-> "Applying", hashed |-> {}]
        /\ Saves(TRUE)
        /\ held' = TRUE
        /\ op' = [kind |-> "apply", step |-> "stage", file |-> 1]
     \/ /\ journal' \in {journal, [state |-> "Applying", hashed |-> {}]}
        /\ UNCHANGED <<record, held, op>>
  /\ UNCHANGED <<diskVars, pathVars, idleVars>>

(* stage: a copy of every file, tagged, of which the hash is remembered.   *)
StageFile ==
  /\ Step("apply", "stage")
  /\ stageDir' = TRUE
  /\ Absent("staged", op.file)
  /\ Put("staged", op.file, "partial")
  /\ Goes("tag", op.file)
  /\ UNCHANGED <<record, journal, pathVars, held, idleVars>>

TagFile ==
  /\ Step("apply", "tag")
  /\ Put("staged", op.file, "output")
  /\ record' = [record EXCEPT !.hashed = @ \cup {op.file}]
  /\ IF op.file < Files THEN Goes("stage", op.file + 1) ELSE Goes("saveHashes", 1)
  /\ UNCHANGED <<stageDir, journal, pathVars, held, idleVars>>

SaveHashesLater == \* mutant: files are published before the hashes are saved
  /\ Step("apply", "saveHashes")
  /\ Goes("check", 1)
  /\ UNCHANGED <<diskVars, record, journal, pathVars, held, idleVars>>

SaveHashes ==
  /\ Step("apply", "saveHashes")
  /\ UNCHANGED record
  /\ \/ Saves(TRUE) /\ Goes("check", 1)
     \/ Saves(FALSE) /\ op' = NoOp
  /\ UNCHANGED <<diskVars, pathVars, held, idleVars>>

(* publish.                                                                *)
CheckAlbum ==
  /\ Step("apply", "check")
  /\ \A f \in File : Is("source", f, "original") /\ Absent("destination", f) /\ Absent("backup", f)
  /\ Goes("link", 1)
  /\ UNCHANGED <<diskVars, record, journal, pathVars, held, idleVars>>

LinkDestination ==
  /\ Step("apply", "link")
  /\ Absent("destination", op.file)
  /\ Put("destination", op.file, at["staged"][op.file])
  /\ Goes("unlink", op.file)
  /\ UNCHANGED <<stageDir, record, journal, pathVars, held, idleVars>>

UnlinkStaged ==
  /\ Step("apply", "unlink")
  /\ Put("staged", op.file, "nothing")
  /\ IF op.file < Files THEN Goes("link", op.file + 1) ELSE Goes("retain", 1)
  /\ UNCHANGED <<stageDir, record, journal, pathVars, held, idleVars>>

RetainOriginal ==
  /\ Step("apply", "retain")
  /\ Is("source", op.file, "original") /\ Absent("backup", op.file)
  /\ Put("backup", op.file, "original")
  /\ Goes("unlinkSource", op.file)
  /\ UNCHANGED <<stageDir, record, journal, pathVars, held, idleVars>>

UnlinkSource ==
  /\ Step("apply", "unlinkSource")
  /\ Put("source", op.file, "nothing")
  /\ IF op.file < Files THEN Goes("retain", op.file + 1) ELSE Goes("cleanUp", 1)
  /\ UNCHANGED <<stageDir, record, journal, pathVars, held, idleVars>>

(* The staging directory, then commit_filing: the transfers are changed in *)
(* memory, and the flush may fail.                                         *)
CleanUp ==
  /\ op.step = "cleanUp"
  /\ stageDir' = FALSE
  /\ Goes("commit", 1)
  /\ UNCHANGED <<at, record, journal, pathVars, held, idleVars>>

CommitFiling ==
  /\ op.step = "commit"
  /\ path' = IF path = "gone" THEN path ELSE IF op.kind = "apply" THEN "destination" ELSE "source"
  /\ \/ savedPath' = path' /\ Goes("finish", 1)
     \/ UNCHANGED savedPath /\ op' = NoOp
  /\ UNCHANGED <<diskVars, record, journal, held, idleVars>>

FinishApply ==
  /\ Step("apply", "finish")
  /\ \/ record' = [record EXCEPT !.state = "Filed"] /\ Saves(TRUE)
     \/ UNCHANGED record /\ journal' \in {journal, [record EXCEPT !.state = "Filed"]}
  /\ op' = NoOp
  /\ UNCHANGED <<diskVars, pathVars, held, idleVars>>

-----------------------------------------------------------------------------
(* undo.                                                                   *)
CheckUndo ==
  \A f \in File :
    /\ at["source"][f] \in {"nothing", "original"}
    /\ at["backup"][f] \in {"nothing", "original"}
    /\ ~(Absent("source", f) /\ Absent("backup", f))
    /\ ~Absent("destination", f) => f \in record.hashed /\ Is("destination", f, "output")

BeginUndo ==
  /\ op = NoOp /\ Open(record) /\ CheckUndo
  /\ record' = [record EXCEPT !.state = "Undoing"]
  /\ \/ Saves(TRUE) /\ op' = [kind |-> "undo", step |-> "restore", file |-> 1]
     \/ Saves(FALSE) /\ op' = NoOp
  /\ UNCHANGED <<diskVars, pathVars, held, idleVars>>

(* rollback, one file after the other.                                     *)
RestoreSource ==
  /\ Step("undo", "restore")
  /\ op.file = 1 => CheckUndo
  /\ IF Absent("source", op.file) THEN Put("source", op.file, at["backup"][op.file])
                                  ELSE UNCHANGED at
  /\ Goes("withdraw", op.file)
  /\ UNCHANGED <<stageDir, record, journal, pathVars, held, idleVars>>

WithdrawDestination ==
  /\ Step("undo", "withdraw")
  /\ Is("source", op.file, "original")
  /\ \/ Absent("destination", op.file) /\ UNCHANGED at
     \/ /\ Is("destination", op.file, "output") /\ op.file \in record.hashed
        /\ Put("destination", op.file, "nothing")
  /\ Goes("dropBackup", op.file)
  /\ UNCHANGED <<stageDir, record, journal, pathVars, held, idleVars>>

DropBackup ==
  /\ Step("undo", "dropBackup")
  /\ Put("backup", op.file, "nothing")
  /\ Goes("dropStaged", op.file)
  /\ UNCHANGED <<stageDir, record, journal, pathVars, held, idleVars>>

DropStaged ==
  /\ Step("undo", "dropStaged")
  /\ Put("staged", op.file, "nothing")
  /\ NextFile("restore", "cleanUp")
  /\ UNCHANGED <<stageDir, record, journal, pathVars, held, idleVars>>

FinishUndo ==
  /\ Step("undo", "finish")
  /\ \/ record' = [record EXCEPT !.state = "Undone"] /\ Saves(TRUE) /\ held' = FALSE
     \/ UNCHANGED <<record, held>> /\ journal' \in {journal, [record EXCEPT !.state = "Undone"]}
  /\ op' = NoOp
  /\ UNCHANGED <<diskVars, pathVars, idleVars>>

-----------------------------------------------------------------------------
(* Any step may fail; what has been done stays.                            *)
OperationFails ==
  /\ op # NoOp /\ op' = NoOp
  /\ UNCHANGED <<diskVars, record, journal, pathVars, held, idleVars>>

(* Clearing the history does not ask whether a release is held, only       *)
(* whether a file operation is running (guard_filing).                     *)
ClearHistory ==
  /\ op = NoOp /\ path # "gone"
  /\ path' = "gone" /\ savedPath' \in {savedPath, "gone"}
  /\ UNCHANGED <<diskVars, record, journal, held, op, idleVars>>

(* A later save of the transfers writes what an earlier one could not.     *)
SaveTransfers ==
  /\ savedPath # path /\ savedPath' = path
  /\ UNCHANGED <<diskVars, record, journal, path, held, op, idleVars>>

(* The application starts again: it holds what is not undone.              *)
Crash ==
  /\ crashes < MaxCrashes /\ crashes' = crashes + 1
  /\ record' = journal /\ held' = Open(journal)
  /\ path' = savedPath /\ op' = NoOp
  /\ UNCHANGED <<diskVars, journal, savedPath, foreign>>

(* Another program writes a file where there is none, or changes one, but  *)
(* not between the link and the unlink of the same file.                   *)
Interferes(p, f) ==
  /\ ~(op.step = "unlinkSource" /\ p = "source" /\ f = op.file)
  /\ Cardinality(foreign) < MaxForeign /\ <<p, f>> \notin foreign
  /\ Put(p, f, "foreign")
  /\ foreign' = foreign \cup {<<p, f>>}
  /\ UNCHANGED <<stageDir, record, journal, pathVars, held, op, crashes>>

FilingNext ==
  \/ BeginApply \/ StageFile \/ TagFile \/ SaveHashes \/ CheckAlbum
  \/ LinkDestination \/ UnlinkStaged \/ RetainOriginal \/ UnlinkSource
  \/ CleanUp \/ CommitFiling \/ FinishApply
  \/ BeginUndo \/ RestoreSource \/ WithdrawDestination \/ DropBackup \/ DropStaged \/ FinishUndo
  \/ OperationFails \/ ClearHistory \/ SaveTransfers \/ Crash
  \/ \E f \in File, p \in {"source", "destination"} : Interferes(p, f)

FilingSpec == FilingInit /\ [][FilingNext]_filingVars

-----------------------------------------------------------------------------
(* "Originals are retained byte-for-byte until undo" (filing.rs), and what *)
(* another program wrote is never removed or replaced.                     *)
OriginalsSurvive ==
  /\ \A f \in File : \/ Is("source", f, "original") \/ Is("backup", f, "original")
                     \/ <<"source", f>> \in foreign
  /\ \A w \in foreign : Is(w[1], w[2], "foreign")

(* What the journal records is what is on the disk, whatever crashed in    *)
(* between: a filed album is complete and its transfers say where it is,   *)
(* an undone one has left nothing behind.                                  *)
JournalIsTrue ==
  /\ journal.state = "Filed" =>
       /\ \A f \in File : ~Absent("destination", f)
       /\ savedPath \in {"destination", "gone"}
  /\ journal.state = "Undone" =>
       /\ \A f \in File : /\ ~Absent("source", f)
                          /\ Absent("backup", f) /\ Absent("staged", f)
                          /\ at["destination"][f] \in {"nothing", "foreign"}
       /\ savedPath \in {"source", "gone"}

(* An operation that stopped can be undone as long as no other program has *)
(* been at its files: "a failed/interrupted apply stays in history and can *)
(* always be reviewed and rolled back" (filing.rs).                        *)
AlwaysUndoable ==
  op = NoOp /\ foreign = {} =>
    /\ Open(record) => CheckUndo /\ held
    /\ record.state = "none" => Preflight
=============================================================================
