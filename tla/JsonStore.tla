----------------------------- MODULE JsonStore -----------------------------
(***************************************************************************)
(* A JSON store on disk (connection/store.rs): name.json, its backup       *)
(* name.json.bak and the quarantined copies, loaded once per start and     *)
(* saved by replacing the backup and then the primary, each atomically.    *)
(* The application may stop between any two of these steps, each of them   *)
(* may fail, and files may be damaged or written by a newer version.       *)
(* AppSettings::update (connection/app_settings.rs) is the caller: it may  *)
(* forget a section of the store, here the account.                        *)
(***************************************************************************)
EXTENDS Integers

CONSTANTS
  Migrate,     \* load rewrites an old form; load_preserving leaves it
  MaxSaves,    \* bound: saves attempted, by this version or a newer one
  MaxDamage    \* bound: files damaged or removed from outside

ASSUME MigrateAssumption == Migrate \in BOOLEAN
ASSUME BoundAssumption == MaxSaves \in Nat /\ MaxDamage \in Nat

VARIABLES
  primary, backup,  \* the two files
  copies,           \* quarantined files
  phase,            \* of the start: which file is read next
  lastGood, blocked, damaged,  \* FileState, and load_inner's `damaged`
  job,              \* the commit under way
  store,            \* the store in memory
  saves,            \* saves attempted: the generations of the contents
  durable,          \* history: the generation last saved with success, or loaded
  previous,         \* history: the one before
  forgotten,        \* history: the account was forgotten with success
  hurt,             \* history: files whose content comes from outside
  damages

diskVars  == <<primary, backup, copies>>
stateVars == <<lastGood, blocked, damaged, store>>
histVars  == <<saves, durable, previous, forgotten>>
hurtVars  == <<hurt, damages>>
vars == <<diskVars, phase, stateVars, job, histVars, hurtVars>>

(* A file: the current form, an older one that can be migrated, a newer    *)
(* one that cannot be read, or broken bytes.                               *)
Content == [form : {"missing", "current", "old", "future", "broken"}, gen : Nat, account : BOOLEAN]

File(form, gen, account) == [form |-> form, gen |-> gen, account |-> account]

Missing     == File("missing", 0, FALSE)
Empty       == File("current", 0, FALSE)
Readable(f) == f.form \in {"current", "old"}

(* What load gives its caller, and what it writes back.                    *)
Migrated(f) == IF Migrate THEN [f EXCEPT !.form = "current"] ELSE f

Kinds == {"save", "repair", "reset"}
Commit(kind, bytes, prev, acct) ==
  [stage |-> "prepared", kind |-> kind, bytes |-> bytes, previous |-> prev, forget |-> acct]
NoJob == [stage |-> "none", kind |-> "save", bytes |-> Missing, previous |-> Missing, forget |-> FALSE]

Job == [stage : {"none", "prepared", "rotated"}, kind : Kinds, bytes : Content,
        previous : Content, forget : BOOLEAN]

-----------------------------------------------------------------------------
(* load_inner                                                              *)

Block ==
  /\ blocked' = TRUE
  /\ phase' = "running"
  /\ UNCHANGED <<diskVars, lastGood, damaged, job>>

Loaded(f) ==
  /\ store' = f
  /\ durable' = f.gen
  /\ previous' = IF backup.gen < f.gen THEN backup.gen ELSE f.gen
  /\ UNCHANGED <<saves, forgotten, hurtVars>>

Unloaded == store' = Empty /\ UNCHANGED <<histVars, hurtVars>>

Reads(file, where, form) == phase = where /\ job.stage = "none" /\ file.form \in form

(* A file that cannot be read, or has an unsupported version, is left      *)
(* alone, and nothing is saved until the next start.                       *)
ReadFails(where) == phase = where /\ job.stage = "none" /\ Block /\ Unloaded

UnsupportedIsDamage(file, where) == \* mutant: another version counts as damage
  /\ Reads(file, where, {"future"})
  /\ copies' = copies \cup {file}
  /\ damaged' = TRUE
  /\ phase' = IF where = "primary" THEN "backup" ELSE "none"
  /\ UNCHANGED <<primary, backup, lastGood, blocked, job, store, histVars, hurtVars>>

Unsupported(file, where) == Reads(file, where, {"future"}) /\ Block /\ Unloaded

LoadPrimary ==
  /\ Reads(primary, "primary", {"current", "old"})
  /\ phase' = "running"
  /\ lastGood' = primary
  /\ job' = IF Migrated(primary) # primary
            THEN Commit("repair", Migrated(primary), primary, FALSE) ELSE NoJob
  /\ Loaded(Migrated(primary))
  /\ UNCHANGED <<diskVars, blocked, damaged>>

LoadBackup ==
  /\ Reads(backup, "backup", {"current", "old"})
  /\ phase' = "running"
  /\ lastGood' = Missing
  /\ job' = Commit("repair", Migrated(backup), Missing, FALSE)
  /\ Loaded(Migrated(backup))
  /\ UNCHANGED <<diskVars, blocked, damaged>>

NotFound(file, where) ==
  /\ Reads(file, where, {"missing"})
  /\ phase' = IF where = "primary" THEN "backup" ELSE "none"
  /\ UNCHANGED <<diskVars, stateVars, job, histVars, hurtVars>>

DroppedUnread(file, where) == \* mutant: damaged bytes are not preserved
  /\ Reads(file, where, {"broken"})
  /\ damaged' = TRUE
  /\ phase' = IF where = "primary" THEN "backup" ELSE "none"
  /\ UNCHANGED <<diskVars, lastGood, blocked, job, store, histVars, hurtVars>>

RememberedBroken(file, where) == \* mutant: the bytes read are taken for good
  /\ Reads(file, where, {"broken"})
  /\ copies' = copies \cup {file}
  /\ lastGood' = file
  /\ damaged' = TRUE
  /\ phase' = IF where = "primary" THEN "backup" ELSE "none"
  /\ UNCHANGED <<primary, backup, blocked, job, store, histVars, hurtVars>>

(* Damaged bytes are copied aside before anything is written.              *)
Quarantine(file, where) ==
  /\ Reads(file, where, {"broken"})
  /\ copies' = copies \cup {file}
  /\ damaged' = TRUE
  /\ phase' = IF where = "primary" THEN "backup" ELSE "none"
  /\ UNCHANGED <<primary, backup, lastGood, blocked, job, store, histVars, hurtVars>>

(* Neither file could be used: an empty store, written only over damage.   *)
StartEmpty ==
  /\ phase = "none"
  /\ phase' = "running"
  /\ lastGood' = Missing
  /\ job' = IF damaged THEN Commit("reset", Empty, Missing, FALSE) ELSE NoJob
  /\ store' = Empty
  /\ durable' = 0 /\ previous' = 0
  /\ UNCHANGED <<diskVars, blocked, damaged, saves, forgotten, hurtVars>>

LoadStep ==
  \/ \E where \in {"primary", "backup"} :
       \/ ReadFails(where)
       \/ LET file == IF where = "primary" THEN primary ELSE backup IN
            Unsupported(file, where) \/ NotFound(file, where) \/ Quarantine(file, where)
  \/ LoadPrimary \/ LoadBackup \/ StartEmpty

-----------------------------------------------------------------------------
(* AppSettings::update: save, or save_with_backup when the account goes.   *)

Ready == phase = "running" /\ ~blocked /\ job.stage = "none" /\ saves < MaxSaves

PlainBackup(account) == lastGood \* mutant: forgetting saves like any change

(* The backup that goes with a new store.                                  *)
BackupFor(account) ==
  IF store.account /\ ~account THEN [store EXCEPT !.account = FALSE] ELSE lastGood

Save(account) ==
  /\ Ready
  /\ saves' = saves + 1
  /\ job' = Commit("save", File("current", saves + 1, account), BackupFor(account),
                   store.account /\ ~account)
  /\ forgotten' = (forgotten /\ ~account)
  /\ UNCHANGED <<diskVars, phase, stateVars, durable, previous, hurtVars>>

-----------------------------------------------------------------------------
(* commit: the new bytes are already in a temporary file.                  *)

(* What a commit that has failed leaves: the caller of save has an error,  *)
(* a store that could not be repaired is blocked.                          *)
CommitFails ==
  /\ job' = NoJob
  /\ blocked' = (blocked \/ job.kind # "save")
  /\ UNCHANGED <<phase, lastGood, damaged, store, histVars>>

(* Nothing could be written.                                               *)
PrepareFails ==
  /\ job.stage # "none"
  /\ CommitFails
  /\ UNCHANGED <<diskVars, hurtVars>>

RotateFromDisk == \* mutant: the primary on disk becomes the backup
  /\ job.stage = "prepared"
  /\ IF job.previous = Missing THEN UNCHANGED <<backup, hurt>>
     ELSE backup' = primary /\ hurt' = hurt \ {"backup"}
  /\ job' = [job EXCEPT !.stage = "rotated"]
  /\ UNCHANGED <<primary, copies, phase, stateVars, histVars, damages>>

RotateBackup ==
  /\ job.stage = "prepared"
  /\ IF job.previous = Missing THEN UNCHANGED <<backup, hurt>>
     ELSE backup' = job.previous /\ hurt' = hurt \ {"backup"}
  /\ job' = [job EXCEPT !.stage = "rotated"]
  /\ UNCHANGED <<primary, copies, phase, stateVars, histVars, damages>>

(* The rename is done; the sync of the directory fails, or the             *)
(* application stops before it can answer.                                 *)
RotateUnconfirmed ==
  /\ job.stage = "prepared" /\ job.previous # Missing
  /\ backup' = job.previous /\ hurt' = hurt \ {"backup"}
  /\ CommitFails
  /\ UNCHANGED <<primary, copies, damages>>

ReplaceUnconfirmed ==
  /\ job.stage = "rotated"
  /\ primary' = job.bytes /\ hurt' = hurt \ {"primary"}
  /\ CommitFails
  /\ UNCHANGED <<backup, copies, damages>>

Replace ==
  /\ job.stage = "rotated"
  /\ primary' = job.bytes /\ hurt' = hurt \ {"primary"}
  /\ lastGood' = job.bytes
  /\ job' = NoJob
  /\ IF job.kind = "save"
     THEN /\ store' = job.bytes
          /\ durable' = job.bytes.gen /\ previous' = durable
          /\ forgotten' = (forgotten \/ job.forget)
     ELSE UNCHANGED <<store, durable, previous, forgotten>>
  /\ UNCHANGED <<backup, copies, phase, blocked, damaged, saves, damages>>

CommitStep == PrepareFails \/ RotateBackup \/ RotateUnconfirmed \/ Replace \/ ReplaceUnconfirmed

-----------------------------------------------------------------------------
(* From outside.                                                           *)

Crash ==
  /\ phase' = "primary"
  /\ lastGood' = Missing /\ blocked' = FALSE /\ damaged' = FALSE
  /\ store' = Empty
  /\ job' = NoJob
  /\ UNCHANGED <<diskVars, histVars, hurtVars>>

(* A file is truncated, filled with zeros or removed, while no store is    *)
(* being loaded or saved.                                                  *)
Damage(name, form) ==
  /\ damages < MaxDamage /\ job.stage = "none"
  /\ \/ phase = "running"
     \/ phase = "primary"
  /\ damages' = damages + 1
  /\ hurt' = hurt \cup {name}
  /\ LET bytes == IF form = "missing" THEN Missing ELSE File("broken", damages + 1, FALSE) IN
       IF name = "primary" THEN primary' = bytes /\ UNCHANGED backup
       ELSE backup' = bytes /\ UNCHANGED primary
  /\ UNCHANGED <<copies, phase, stateVars, job, histVars>>

(* A newer version of Forever runs in between, and saves.                  *)
NewerVersion ==
  /\ phase = "primary" /\ primary.form \in {"current", "old", "future"} /\ saves < MaxSaves
  /\ saves' = saves + 1
  /\ primary' = File("future", saves + 1, primary.account)
  /\ backup' = primary
  /\ hurt' = {}
  /\ UNCHANGED <<copies, phase, stateVars, job, durable, previous, forgotten, damages>>

-----------------------------------------------------------------------------

Init ==
  /\ primary \in {Missing, File("old", 0, TRUE)}
  /\ backup = Missing /\ copies = {}
  /\ phase = "primary"
  /\ lastGood = Missing /\ blocked = FALSE /\ damaged = FALSE
  /\ store = Empty
  /\ job = NoJob
  /\ saves = 0 /\ durable = 0 /\ previous = 0 /\ forgotten = FALSE
  /\ hurt = {} /\ damages = 0

Next ==
  \/ LoadStep \/ CommitStep
  \/ \E account \in BOOLEAN : Save(account)
  \/ Crash \/ NewerVersion
  \/ \E name \in {"primary", "backup"}, form \in {"missing", "broken"} : Damage(name, form)

Spec == Init /\ [][Next]_vars

-----------------------------------------------------------------------------
(* Every variable has its type; the bytes that a save will rotate into the *)
(* backup have been validated (FileState.last_good).                       *)
TypeOK ==
  /\ primary \in Content /\ backup \in Content /\ copies \subseteq Content
  /\ phase \in {"primary", "backup", "none", "running"}
  /\ lastGood \in Content /\ lastGood.form \in {"missing", "current", "old"}
  /\ blocked \in BOOLEAN /\ damaged \in BOOLEAN
  /\ job \in Job
  /\ store \in Content
  /\ saves \in Nat /\ durable \in Nat /\ previous \in Nat /\ forgotten \in BOOLEAN
  /\ hurt \subseteq {"primary", "backup"} /\ damages \in Nat

(* What was saved with success is in the primary, and what was saved       *)
(* before it in the backup, unless that very file was damaged: no crash or *)
(* failure inside a commit loses a generation, and a damaged primary never *)
(* replaces a good backup (README.md:1140-1144).                           *)
SavedSurvives ==
  /\ "primary" \notin hurt => primary.form # "broken" /\ primary.gen >= durable
  /\ "backup" \notin hurt => backup.form # "broken" /\ backup.gen >= previous

(* A forgotten account does not come back from the backup, whatever fails  *)
(* afterwards (save_with_backup).                                          *)
ForgottenStaysForgotten ==
  forgotten => ~primary.account /\ ~backup.account

(* A store that is repaired or reset overwrites a damaged primary only     *)
(* after its bytes have been preserved (quarantine).                       *)
DamagedBytesAreKept ==
  [][job.kind # "save" /\ primary.form = "broken" /\ primary' # primary => primary \in copies]_vars

(* Files of an unsupported version are never overwritten (README.md:1162). *)
UnsupportedIsKept ==
  [][damages' = damages /\ saves' = saves =>
       /\ primary.form = "future" => primary' = primary
       /\ backup.form = "future" => backup' = backup]_vars

(* No bytes that may hold the user's data are overwritten unseen.          *)
OldBytesAreKept == DamagedBytesAreKept /\ UnsupportedIsKept

=============================================================================
