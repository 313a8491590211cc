-------------------------- MODULE JsonStoreProofs --------------------------
(***************************************************************************)
(* Theorems about the JSON stores, for any number of saves, damaged files, *)
(* crashes and newer versions, with and without migration.                 *)
(***************************************************************************)
EXTENDS JsonStore, TLAPS

(* Generations only grow: what was loaded or saved last is no older than   *)
(* what came before it, and nothing valid is newer than the last save.     *)
GenInv ==
  /\ previous <= durable /\ durable <= saves
  /\ primary.form \in {"current", "old", "future"} => primary.gen <= saves
  /\ backup.form \in {"current", "old", "future"} => backup.gen <= saves

(* While the start looks for a file to use, and when it has found one.     *)
LoadInv ==
  /\ "primary" \in hurt => primary.form \in {"missing", "broken"}
  /\ phase \in {"backup", "none"} =>
       /\ primary.form \in {"missing", "broken"}
       /\ primary.form = "broken" => primary \in copies
  /\ phase = "none" => backup.form \in {"missing", "broken"}
  /\ phase # "running" => job.stage = "none" /\ ~blocked
  /\ Readable(primary) => backup.form # "future"
  /\ phase = "running" /\ ~blocked => primary.form # "future" /\ backup.form # "future"

(* A primary that was never written has no backup, and nothing in memory   *)
(* could become one.                                                       *)
FreshInv ==
  "primary" \notin hurt /\ primary.form = "missing" =>
    /\ ~Readable(backup)
    /\ lastGood = Missing /\ ~store.account
    /\ job.stage # "none" => job.previous = Missing

(* A store that may be saved knows the newest generation.                  *)
StoreInv ==
  /\ Readable(store) /\ store.gen <= saves
  /\ lastGood # Missing => Readable(lastGood) /\ lastGood.gen <= saves
  /\ phase = "running" /\ ~blocked =>
       /\ store.gen >= durable
       /\ job.kind = "save" => lastGood.gen >= durable

(* A commit writes what is no older than the files it replaces.            *)
CommitInv ==
  /\ job.stage = "none" => job = NoJob
  /\ job.stage # "none" =>
       /\ ~blocked
       /\ Readable(job.bytes) /\ job.bytes.gen \in durable .. saves
       /\ job.previous # Missing => Readable(job.previous) /\ job.previous.gen \in durable .. saves
       /\ job.kind = "save" /\ job.previous = Missing => durable = 0
       /\ job.kind = "save" /\ job.stage = "rotated" /\ "backup" \notin hurt => backup.gen >= durable
       /\ job.kind # "save" /\ primary.form = "broken" => primary \in copies

(* Once forgotten, the account is nowhere, in files and in memory.         *)
ForgetInv ==
  /\ forgotten => /\ ~primary.account /\ ~backup.account
                  /\ ~lastGood.account /\ ~store.account
                  /\ ~job.bytes.account /\ ~job.previous.account
  /\ job.forget => /\ job.stage # "none" /\ job.kind = "save"
                   /\ ~job.bytes.account /\ ~job.previous.account /\ job.previous # Missing
                   /\ job.stage = "rotated" => ~backup.account

IInv == TypeOK /\ GenInv /\ LoadInv /\ FreshInv /\ StoreInv /\ CommitInv /\ ForgetInv /\ SavedSurvives

-----------------------------------------------------------------------------
(* The contents of files and commits.                                      *)
LEMMA Forms == /\ Missing \in Content /\ Empty \in Content /\ NoJob \in Job /\ File("old", 0, TRUE) \in Content
  BY SMT DEF Missing, Empty, File, Content, NoJob, Job, Kinds

LEMMA NewFile == ASSUME NEW n \in Nat, NEW b \in BOOLEAN
  PROVE File("current", n, b) \in Content /\ File("future", n, b) \in Content
  BY SMT DEF File, Content

LEMMA WithAccount == ASSUME NEW f \in Content, NEW b \in BOOLEAN PROVE [f EXCEPT !.account = b] \in Content
  BY SMT DEF Content

LEMMA WithoutAccount == ASSUME NEW f \in Content PROVE [f EXCEPT !.account = FALSE] \in Content
  BY WithAccount, Zenon

LEMMA SavingJob == ASSUME NEW f \in Content, NEW p \in Content, NEW b \in BOOLEAN
  PROVE [stage |-> "prepared", kind |-> "save", bytes |-> f, previous |-> p, forget |-> b] \in Job
  BY SMT DEF Job, Kinds

LEMMA CommitFields == ASSUME NEW kind, NEW f, NEW p, NEW b
  PROVE  /\ Commit(kind, f, p, b).stage = "prepared" /\ Commit(kind, f, p, b).kind = kind
         /\ Commit(kind, f, p, b).bytes = f /\ Commit(kind, f, p, b).previous = p
         /\ Commit(kind, f, p, b).forget = b
  BY DEF Commit

LEMMA AccountOf == ASSUME NEW form, NEW n, NEW b PROVE File(form, n, b).account = b
  BY DEF File

LEMMA FailedBlock == ASSUME CommitFails, TypeOK
  PROVE /\ blocked' \in BOOLEAN
        /\ ~blocked' => ~blocked /\ job.kind = "save"
<1>1. blocked' = (blocked \/ job.kind # "save")
  BY DEF CommitFails
<1>2. blocked \in BOOLEAN
  BY DEF TypeOK
<1>. QED BY <1>1, <1>2, Zenon

(* The first state.                                                        *)
LEMMA InitType == Init => TypeOK
<1>. SUFFICES ASSUME Init PROVE TypeOK
  OBVIOUS
<1>1. primary \in Content /\ backup \in Content /\ copies \subseteq Content /\ lastGood \in Content /\ store \in Content /\ job \in Job
  BY Forms, Zenon DEF Init
<1>2. blocked \in BOOLEAN /\ damaged \in BOOLEAN /\ forgotten \in BOOLEAN
  BY Zenon DEF Init
<1>3. lastGood.form = "missing" /\ phase = "primary" /\ saves \in Nat /\ durable \in Nat /\ previous \in Nat /\ damages \in Nat /\ hurt = {}
  BY SMT DEF Init, Missing, File
<1>. QED BY <1>1, <1>2, <1>3 DEF TypeOK

LEMMA InitHolds == Init => IInv
<1>. SUFFICES ASSUME Init PROVE IInv
  OBVIOUS
<1>. USE DEF Init, Missing, Empty, NoJob, File, Readable
<1>1. TypeOK
  BY InitType
<1>2. GenInv
  BY SMT DEF GenInv
<1>3. LoadInv
  BY SMT DEF LoadInv
<1>4. FreshInv
  BY SMT DEF FreshInv
<1>5. StoreInv
  BY SMT DEF StoreInv
<1>6. CommitInv
  BY SMT DEF CommitInv
<1>7. ForgetInv
  BY SMT DEF ForgetInv
<1>8. SavedSurvives
  BY SMT DEF SavedSurvives
<1>. QED BY <1>1, <1>2, <1>3, <1>4, <1>5, <1>6, <1>7, <1>8 DEF IInv

(* A commit that fails leaves a store that may still be saved as it was.   *)
LEMMA FailedStore == ASSUME IInv, CommitFails PROVE StoreInv'
<1>1. ~blocked' => ~blocked /\ job.kind = "save"
  BY FailedBlock DEF IInv
<1>2. phase' = phase /\ store' = store /\ lastGood' = lastGood /\ saves' = saves /\ durable' = durable
  BY DEF CommitFails, histVars
<1>3. phase = "running" /\ ~blocked' => store.gen >= durable /\ lastGood.gen >= durable
  BY <1>1 DEF IInv, StoreInv
<1>. QED BY <1>2, <1>3 DEF StoreInv, IInv, Readable

(* The parts of the invariant that need more than one step: Boolean fields *)
(* are kept apart from arithmetic.                                         *)
LEMMA CrashType == ASSUME IInv, Crash PROVE TypeOK'
<1>1. blocked' \in BOOLEAN /\ damaged' \in BOOLEAN /\ forgotten' \in BOOLEAN
  BY Zenon DEF Crash, IInv, TypeOK, histVars
<1>. QED BY <1>1, Forms, SMTT(20) DEF Crash, IInv, TypeOK, diskVars, histVars, hurtVars, Missing, File

LEMMA SaveJob == ASSUME IInv, NEW account \in BOOLEAN, Save(account)
  PROVE /\ BackupFor(account) \in Content
        /\ saves' \in Nat /\ saves' = saves + 1
        /\ File("current", saves', account) \in Content
        /\ job' = [stage |-> "prepared", kind |-> "save", bytes |-> File("current", saves', account),
                   previous |-> BackupFor(account), forget |-> store.account /\ ~account]
<1>1. BackupFor(account) \in Content
  <2>1. [store EXCEPT !.account = FALSE] \in Content /\ lastGood \in Content
    BY WithoutAccount DEF IInv, TypeOK
  <2>. QED BY <2>1, Zenon DEF BackupFor
<1>2. saves' = saves + 1 /\ saves' \in Nat
  BY SMT DEF Save, IInv, TypeOK
<1>3. File("current", saves', account) \in Content
  BY <1>2, NewFile
<1>. QED BY <1>1, <1>2, <1>3 DEF Save, Commit

LEMMA SaveType == ASSUME IInv, NEW account \in BOOLEAN, Save(account) PROVE TypeOK'
<1>1. forgotten' \in BOOLEAN /\ (store.account /\ ~account) \in BOOLEAN
  BY Zenon DEF Save
<1>2. job' \in Job
  BY <1>1, SaveJob, SavingJob, Zenon
<1>. QED BY <1>1, <1>2, SaveJob DEF Save, IInv, TypeOK, diskVars, stateVars, hurtVars

LEMMA SaveCommit == ASSUME IInv, NEW account \in BOOLEAN, Save(account) PROVE CommitInv'
<1>1. ~blocked' /\ blocked' = blocked /\ durable' = durable /\ durable' \in Nat
      /\ job.kind = "save" /\ phase = "running"
  BY DEF Save, Ready, IInv, TypeOK, CommitInv, NoJob, stateVars
<1>2. saves \in Nat /\ durable <= saves /\ store.gen \in durable .. saves /\ Readable(store)
      /\ lastGood.gen >= durable /\ (lastGood # Missing => Readable(lastGood) /\ lastGood.gen <= saves)
  BY <1>1, SMT DEF Save, Ready, IInv, TypeOK, GenInv, StoreInv, Content
<1>3. Readable(job'.bytes) /\ job'.bytes.gen \in durable' .. saves'
  <2>1. job'.bytes = File("current", saves', account) /\ saves' = saves + 1
    BY SaveJob
  <2>. QED BY <2>1, <1>1, <1>2, SMT DEF Readable, File
<1>4. job'.previous # Missing => Readable(job'.previous) /\ job'.previous.gen \in durable' .. saves'
  BY <1>1, <1>2, SaveJob, SMT DEF Readable, BackupFor, IInv, TypeOK, Content
<1>5. job'.previous = Missing => durable' = 0
  BY <1>1, <1>2, SaveJob, SMT DEF Readable, BackupFor, IInv, TypeOK, Content, Missing, File
<1>. QED BY <1>1, <1>3, <1>4, <1>5, SaveJob DEF CommitInv

LEMMA Cleared ==
  ASSUME NEW f \in Content, Readable(f)
  PROVE [f EXCEPT !.account = FALSE] # Missing /\ ~[f EXCEPT !.account = FALSE].account
<1>1. [f EXCEPT !.account = FALSE].form = f.form /\ [f EXCEPT !.account = FALSE].account = FALSE
  BY SMT DEF Content
<1>. QED BY <1>1 DEF Readable, Missing, File

LEMMA BrokenFile == ASSUME NEW n \in Nat, NEW b \in BOOLEAN PROVE File("broken", n, b) \in Content
  BY SMT DEF File, Content

LEMMA DamageType ==
  ASSUME IInv, NEW name \in {"primary", "backup"}, NEW form \in {"missing", "broken"}, Damage(name, form)
  PROVE TypeOK'
<1>. DEFINE bytes == IF form = "missing" THEN Missing ELSE File("broken", damages + 1, FALSE)
<1>1. damages + 1 \in Nat /\ FALSE \in BOOLEAN
  BY SMT DEF IInv, TypeOK
<1>2. bytes \in Content
  BY <1>1, Forms, BrokenFile, Zenon
<1>3. damages' \in Nat /\ hurt' \subseteq {"primary", "backup"}
  BY <1>1 DEF Damage, IInv, TypeOK
<1>4. primary' \in Content /\ backup' \in Content
  BY <1>2 DEF Damage, IInv, TypeOK
<1>. QED BY <1>3, <1>4 DEF Damage, IInv, TypeOK, stateVars, histVars

LEMMA ReplaceType == ASSUME IInv, Replace PROVE TypeOK'
<1>1. job.bytes \in Content /\ job.bytes.gen \in Nat /\ job.bytes.form \in {"missing", "current", "old"}
  <2>1. job.stage # "none" /\ job \in Job /\ CommitInv
    BY DEF Replace, IInv, TypeOK
  <2>. QED BY <2>1, SMT DEF CommitInv, Job, Content, Readable
<1>2. (forgotten \/ job.forget) \in BOOLEAN /\ forgotten \in BOOLEAN
  BY Zenon DEF IInv, TypeOK
<1>3. forgotten' \in BOOLEAN
  BY <1>2, Zenon DEF Replace
<1>4. store' \in Content /\ durable' \in Nat /\ previous' \in Nat
  BY <1>1 DEF Replace, IInv, TypeOK
<1>. QED BY <1>1, <1>3, <1>4, Forms DEF Replace, IInv, TypeOK

LEMMA NewerVersionForget == ASSUME IInv, NewerVersion PROVE ForgetInv'
<1>1. primary'.account = primary.account /\ backup' = primary
  BY DEF NewerVersion, File
<1>2. forgotten' = forgotten /\ lastGood' = lastGood /\ store' = store /\ job' = job
  BY DEF NewerVersion, histVars, stateVars
<1>3. job.stage = "none"
  BY DEF NewerVersion, IInv, LoadInv
<1>. QED BY <1>1, <1>2, <1>3, Zenon DEF IInv, ForgetInv

LEMMA SaveForget == ASSUME IInv, NEW account \in BOOLEAN, Save(account) PROVE ForgetInv'
<1>. DEFINE gone == store.account /\ ~account
<1>0. job' = Commit("save", File("current", saves + 1, account), BackupFor(account), gone)
  BY DEF Save
<1>. HIDE DEF gone
<1>1. job'.bytes.account = account /\ job'.previous = BackupFor(account)
      /\ job'.forget = gone /\ job'.stage = "prepared" /\ job'.kind = "save"
  BY <1>0, CommitFields, AccountOf
<1>2. forgotten' => forgotten /\ ~account
  BY Zenon DEF Save
<1>3. primary' = primary /\ backup' = backup /\ lastGood' = lastGood /\ store' = store
  BY DEF Save, diskVars, stateVars
<1>4. gone => ~account /\ BackupFor(account) # Missing /\ ~BackupFor(account).account
  BY Zenon, Cleared DEF gone, BackupFor, IInv, StoreInv, TypeOK
<1>5. forgotten' => ~BackupFor(account).account
  BY <1>2, Zenon DEF BackupFor, IInv, ForgetInv
<1>6. forgotten' => ~job'.bytes.account /\ ~job'.previous.account
  BY <1>1, <1>2, <1>5, Zenon
<1>7. job'.forget => ~job'.bytes.account /\ ~job'.previous.account /\ job'.previous # Missing
  BY <1>1, <1>4, Zenon
<1>8. forgotten' => ~primary'.account /\ ~backup'.account /\ ~lastGood'.account /\ ~store'.account
  BY <1>2, <1>3, Zenon DEF IInv, ForgetInv
<1>9. job'.stage # "none" /\ job'.stage # "rotated" /\ job'.kind = "save"
  BY <1>1
<1>. QED BY <1>6, <1>7, <1>8, <1>9, Zenon DEF ForgetInv

LEMMA SaveFresh == ASSUME IInv, NEW account \in BOOLEAN, Save(account) PROVE FreshInv'
<1>1. job'.previous = BackupFor(account)
  BY SaveJob
<1>2. primary' = primary /\ backup' = backup /\ lastGood' = lastGood /\ store' = store /\ hurt' = hurt
  BY DEF Save, diskVars, stateVars, hurtVars
<1>3. ~store.account => BackupFor(account) = lastGood
  BY Zenon DEF BackupFor
<1>. QED BY <1>1, <1>2, <1>3, Zenon DEF IInv, FreshInv, Readable

-----------------------------------------------------------------------------
(* Every action keeps every part of the invariant.                         *)

LEMMA ReadFailsStep == ASSUME IInv, NEW where, ReadFails(where) PROVE IInv'
<1>. USE DEF Missing, Empty, NoJob, File, Readable, diskVars, stateVars, histVars, hurtVars
<1>1. TypeOK'
  BY SMTT(15) DEF ReadFails, Block, Unloaded, IInv, TypeOK, Content
<1>2. GenInv'
  BY SMTT(15) DEF ReadFails, Block, Unloaded, IInv, GenInv
<1>3. LoadInv'
  BY SMTT(15) DEF ReadFails, Block, Unloaded, IInv, LoadInv
<1>4. FreshInv'
  BY SMTT(15) DEF ReadFails, Block, Unloaded, IInv, FreshInv
<1>5. StoreInv'
  BY SMTT(15) DEF ReadFails, Block, Unloaded, IInv, TypeOK, StoreInv
<1>6. CommitInv'
  BY SMTT(15) DEF ReadFails, Block, IInv, CommitInv
<1>7. ForgetInv'
  BY SMTT(15) DEF ReadFails, Block, Unloaded, IInv, ForgetInv
<1>8. SavedSurvives'
  BY SMTT(15) DEF ReadFails, Block, Unloaded, IInv, SavedSurvives
<1>. QED BY <1>1, <1>2, <1>3, <1>4, <1>5, <1>6, <1>7, <1>8 DEF IInv

LEMMA UnsupportedPrimaryStep == ASSUME IInv, Unsupported(primary, "primary") PROVE IInv'
<1>. USE DEF Missing, Empty, NoJob, File, Readable, diskVars, stateVars, histVars, hurtVars
<1>1. TypeOK'
  BY SMTT(15) DEF Unsupported, Block, Unloaded, IInv, TypeOK, Content
<1>2. GenInv'
  BY SMTT(15) DEF Unsupported, Block, Unloaded, IInv, GenInv
<1>3. LoadInv'
  BY SMTT(15) DEF Unsupported, Block, Unloaded, IInv, LoadInv
<1>4. FreshInv'
  BY SMTT(15) DEF Unsupported, Reads, Block, FreshInv
<1>5. StoreInv'
  BY SMTT(15) DEF Unsupported, Block, Unloaded, IInv, TypeOK, StoreInv
<1>6. CommitInv'
  BY SMTT(15) DEF Unsupported, Reads, Block, IInv, CommitInv
<1>7. ForgetInv'
  BY SMTT(15) DEF Unsupported, Block, Unloaded, IInv, ForgetInv
<1>8. SavedSurvives'
  BY SMTT(15) DEF Unsupported, Block, Unloaded, IInv, SavedSurvives
<1>. QED BY <1>1, <1>2, <1>3, <1>4, <1>5, <1>6, <1>7, <1>8 DEF IInv

LEMMA UnsupportedBackupStep == ASSUME IInv, Unsupported(backup, "backup") PROVE IInv'
<1>. USE DEF Missing, Empty, NoJob, File, Readable, diskVars, stateVars, histVars, hurtVars
<1>1. TypeOK'
  BY SMTT(15) DEF Unsupported, Block, Unloaded, IInv, TypeOK, Content
<1>2. GenInv'
  BY SMTT(15) DEF Unsupported, Block, Unloaded, IInv, GenInv
<1>3. LoadInv'
  BY SMTT(15) DEF Unsupported, Reads, Block, IInv, LoadInv
<1>4. FreshInv'
  BY SMTT(15) DEF Unsupported, Block, Unloaded, IInv, FreshInv
<1>5. StoreInv'
  BY SMTT(15) DEF Unsupported, Block, Unloaded, IInv, TypeOK, StoreInv
<1>6. CommitInv'
  BY SMTT(15) DEF Unsupported, Reads, Block, IInv, CommitInv
<1>7. ForgetInv'
  BY SMTT(15) DEF Unsupported, Block, Unloaded, IInv, ForgetInv
<1>8. SavedSurvives'
  BY SMTT(15) DEF Unsupported, Block, Unloaded, IInv, SavedSurvives
<1>. QED BY <1>1, <1>2, <1>3, <1>4, <1>5, <1>6, <1>7, <1>8 DEF IInv

LEMMA NotFoundPrimaryStep == ASSUME IInv, NotFound(primary, "primary") PROVE IInv'
<1>. USE DEF Missing, Empty, NoJob, File, Readable, diskVars, stateVars, histVars, hurtVars
<1>1. TypeOK'
  BY SMTT(15) DEF NotFound, IInv, TypeOK
<1>2. GenInv'
  BY SMTT(15) DEF NotFound, IInv, GenInv
<1>3. LoadInv'
  BY SMTT(15) DEF NotFound, Reads, IInv, LoadInv
<1>4. FreshInv'
  BY SMTT(15) DEF NotFound, IInv, FreshInv
<1>5. StoreInv'
  BY SMTT(15) DEF NotFound, IInv, StoreInv
<1>6. CommitInv'
  BY SMTT(15) DEF NotFound, IInv, CommitInv
<1>7. ForgetInv'
  BY SMTT(15) DEF NotFound, IInv, ForgetInv
<1>8. SavedSurvives'
  BY SMTT(15) DEF NotFound, IInv, SavedSurvives
<1>. QED BY <1>1, <1>2, <1>3, <1>4, <1>5, <1>6, <1>7, <1>8 DEF IInv

LEMMA NotFoundBackupStep == ASSUME IInv, NotFound(backup, "backup") PROVE IInv'
<1>. USE DEF Missing, Empty, NoJob, File, Readable, diskVars, stateVars, histVars, hurtVars
<1>1. TypeOK'
  BY SMTT(15) DEF NotFound, IInv, TypeOK
<1>2. GenInv'
  BY SMTT(15) DEF NotFound, IInv, GenInv
<1>3. LoadInv'
  BY SMTT(15) DEF NotFound, Reads, IInv, LoadInv
<1>4. FreshInv'
  BY SMTT(15) DEF NotFound, IInv, FreshInv
<1>5. StoreInv'
  BY SMTT(15) DEF NotFound, IInv, StoreInv
<1>6. CommitInv'
  BY SMTT(15) DEF NotFound, IInv, CommitInv
<1>7. ForgetInv'
  BY SMTT(15) DEF NotFound, IInv, ForgetInv
<1>8. SavedSurvives'
  BY SMTT(15) DEF NotFound, IInv, SavedSurvives
<1>. QED BY <1>1, <1>2, <1>3, <1>4, <1>5, <1>6, <1>7, <1>8 DEF IInv

LEMMA QuarantinePrimaryStep == ASSUME IInv, Quarantine(primary, "primary") PROVE IInv'
<1>. USE DEF Missing, Empty, NoJob, File, Readable, diskVars, stateVars, histVars, hurtVars
<1>1. TypeOK'
  BY SMTT(15) DEF Quarantine, IInv, TypeOK
<1>2. GenInv'
  BY SMTT(15) DEF Quarantine, IInv, GenInv
<1>3. LoadInv'
  BY SMTT(15) DEF Quarantine, Reads, IInv, LoadInv
<1>4. FreshInv'
  BY SMTT(15) DEF Quarantine, Reads, FreshInv
<1>5. StoreInv'
  BY SMTT(15) DEF Quarantine, IInv, StoreInv
<1>6. CommitInv'
  BY SMTT(15) DEF Quarantine, IInv, CommitInv
<1>7. ForgetInv'
  BY SMTT(15) DEF Quarantine, IInv, ForgetInv
<1>8. SavedSurvives'
  BY SMTT(15) DEF Quarantine, IInv, SavedSurvives
<1>. QED BY <1>1, <1>2, <1>3, <1>4, <1>5, <1>6, <1>7, <1>8 DEF IInv

LEMMA QuarantineBackupStep == ASSUME IInv, Quarantine(backup, "backup") PROVE IInv'
<1>. USE DEF Missing, Empty, NoJob, File, Readable, diskVars, stateVars, histVars, hurtVars
<1>1. TypeOK'
  BY SMTT(15) DEF Quarantine, IInv, TypeOK
<1>2. GenInv'
  BY SMTT(15) DEF Quarantine, IInv, GenInv
<1>3. LoadInv'
  BY SMTT(15) DEF Quarantine, Reads, IInv, LoadInv
<1>4. FreshInv'
  BY SMTT(15) DEF Quarantine, IInv, FreshInv
<1>5. StoreInv'
  BY SMTT(15) DEF Quarantine, IInv, StoreInv
<1>6. CommitInv'
  BY SMTT(15) DEF Quarantine, IInv, CommitInv
<1>7. ForgetInv'
  BY SMTT(15) DEF Quarantine, IInv, ForgetInv
<1>8. SavedSurvives'
  BY SMTT(15) DEF Quarantine, IInv, SavedSurvives
<1>. QED BY <1>1, <1>2, <1>3, <1>4, <1>5, <1>6, <1>7, <1>8 DEF IInv

LEMMA LoadPrimaryStep == ASSUME IInv, LoadPrimary PROVE IInv'
<1>. USE DEF Missing, Empty, NoJob, File, Readable, diskVars, stateVars, histVars, hurtVars
<1>1. TypeOK'
  BY SMTT(15) DEF LoadPrimary, Reads, Loaded, Migrated, Commit, IInv, TypeOK, Content, Job, Kinds
<1>2. GenInv'
  BY SMTT(15) DEF LoadPrimary, Reads, Loaded, Migrated, IInv, TypeOK, GenInv, Content
<1>3. LoadInv'
  BY SMTT(15) DEF LoadPrimary, Reads, Loaded, IInv, LoadInv
<1>4. FreshInv'
  BY SMTT(15) DEF LoadPrimary, Reads, FreshInv
<1>5. StoreInv'
  BY SMTT(15) DEF LoadPrimary, Reads, Loaded, Migrated, Commit, IInv, TypeOK, GenInv, StoreInv,
         Content
<1>6. CommitInv'
  BY SMTT(15) DEF LoadPrimary, Reads, Loaded, Migrated, Commit, IInv, TypeOK, GenInv, LoadInv,
         CommitInv, Content
<1>7. ForgetInv'
  BY SMTT(15) DEF LoadPrimary, Loaded, Migrated, Commit, IInv, ForgetInv
<1>8. SavedSurvives'
  BY SMTT(15) DEF LoadPrimary, Loaded, Migrated, IInv, TypeOK, SavedSurvives, Content
<1>. QED BY <1>1, <1>2, <1>3, <1>4, <1>5, <1>6, <1>7, <1>8 DEF IInv

LEMMA LoadBackupStep == ASSUME IInv, LoadBackup PROVE IInv'
<1>. USE DEF Missing, Empty, NoJob, File, Readable, diskVars, stateVars, histVars, hurtVars
<1>1. TypeOK'
  BY SMTT(15) DEF LoadBackup, Loaded, Migrated, Commit, IInv, TypeOK, Content, Job, Kinds
<1>2. GenInv'
  BY SMTT(15) DEF LoadBackup, Reads, Loaded, Migrated, IInv, TypeOK, GenInv, Content
<1>3. LoadInv'
  BY SMTT(15) DEF LoadBackup, Reads, IInv, LoadInv
<1>4. FreshInv'
  BY SMTT(15) DEF LoadBackup, Reads, Loaded, IInv, FreshInv
<1>5. StoreInv'
  BY SMTT(15) DEF LoadBackup, Reads, Loaded, Migrated, Commit, IInv, TypeOK, GenInv, StoreInv,
         Content
<1>6. CommitInv'
  BY SMTT(15) DEF LoadBackup, Reads, Loaded, Migrated, Commit, IInv, TypeOK, GenInv, LoadInv,
         CommitInv, Content
<1>7. ForgetInv'
  BY SMTT(15) DEF LoadBackup, Loaded, Migrated, Commit, IInv, ForgetInv
<1>8. SavedSurvives'
  BY SMTT(15) DEF LoadBackup, Reads, Loaded, IInv, TypeOK, LoadInv, FreshInv, SavedSurvives, Content
<1>. QED BY <1>1, <1>2, <1>3, <1>4, <1>5, <1>6, <1>7, <1>8 DEF IInv

LEMMA StartEmptyStep == ASSUME IInv, StartEmpty PROVE IInv'
<1>. USE DEF Missing, Empty, NoJob, File, Readable, diskVars, stateVars, histVars, hurtVars
<1>1. TypeOK'
  BY SMTT(15) DEF StartEmpty, Commit, IInv, TypeOK, Content, Job, Kinds
<1>2. GenInv'
  BY SMTT(15) DEF StartEmpty, IInv, TypeOK, GenInv
<1>3. LoadInv'
  BY SMTT(15) DEF StartEmpty, IInv, LoadInv
<1>4. FreshInv'
  BY SMTT(15) DEF StartEmpty, Commit, IInv, FreshInv
<1>5. StoreInv'
  BY SMTT(15) DEF StartEmpty, IInv, TypeOK, StoreInv
<1>6. CommitInv'
  BY SMTT(15) DEF StartEmpty, Commit, IInv, TypeOK, LoadInv, CommitInv
<1>7. ForgetInv'
  BY SMTT(15) DEF StartEmpty, Commit, IInv, ForgetInv
<1>8. SavedSurvives'
  BY SMTT(15) DEF StartEmpty, IInv, TypeOK, SavedSurvives, Content
<1>. QED BY <1>1, <1>2, <1>3, <1>4, <1>5, <1>6, <1>7, <1>8 DEF IInv

LEMMA SaveStep == ASSUME IInv, NEW account \in BOOLEAN, Save(account) PROVE IInv'
<1>. USE DEF Missing, Empty, NoJob, File, Readable, diskVars, stateVars, histVars, hurtVars
<1>1. TypeOK'
  BY SaveType
<1>2. GenInv'
  BY SMTT(15) DEF Save, IInv, TypeOK, GenInv, Content
<1>3. LoadInv'
  BY SMTT(15) DEF Save, Ready, IInv, LoadInv
<1>4. FreshInv'
  BY SaveFresh
<1>5. StoreInv'
  BY SMTT(15) DEF Save, Ready, IInv, TypeOK, StoreInv, CommitInv, Content
<1>6. CommitInv'
  BY SaveCommit
<1>7. ForgetInv'
  BY SaveForget
<1>8. SavedSurvives'
  BY SMTT(15) DEF Save, IInv, SavedSurvives
<1>. QED BY <1>1, <1>2, <1>3, <1>4, <1>5, <1>6, <1>7, <1>8 DEF IInv

LEMMA PrepareFailsStep == ASSUME IInv, PrepareFails PROVE IInv'
<1>. USE DEF Missing, Empty, NoJob, File, Readable, diskVars, stateVars, histVars, hurtVars
<1>1. TypeOK'
  BY SMTT(15) DEF PrepareFails, CommitFails, IInv, TypeOK, Content, Job, Kinds
<1>2. GenInv'
  BY SMTT(15) DEF PrepareFails, CommitFails, IInv, GenInv
<1>3. LoadInv'
  BY SMTT(15) DEF PrepareFails, CommitFails, IInv, TypeOK, LoadInv
<1>4. FreshInv'
  BY SMTT(15) DEF PrepareFails, CommitFails, IInv, FreshInv
<1>5. StoreInv'
  BY FailedStore DEF PrepareFails
<1>6. CommitInv'
  BY SMTT(15) DEF PrepareFails, CommitFails, CommitInv
<1>7. ForgetInv'
  BY SMTT(15) DEF PrepareFails, CommitFails, IInv, ForgetInv
<1>8. SavedSurvives'
  BY SMTT(15) DEF PrepareFails, CommitFails, IInv, SavedSurvives
<1>. QED BY <1>1, <1>2, <1>3, <1>4, <1>5, <1>6, <1>7, <1>8 DEF IInv

LEMMA RotateBackupStep == ASSUME IInv, RotateBackup PROVE IInv'
<1>. USE DEF Missing, Empty, NoJob, File, Readable, diskVars, stateVars, histVars, hurtVars
<1>1. TypeOK'
  BY SMTT(15) DEF RotateBackup, IInv, TypeOK, Job
<1>2. GenInv'
  BY SMTT(15) DEF RotateBackup, IInv, GenInv, CommitInv
<1>3. LoadInv'
  BY SMTT(15) DEF RotateBackup, IInv, LoadInv, CommitInv
<1>4. FreshInv'
  BY SMTT(15) DEF RotateBackup, IInv, FreshInv
<1>5. StoreInv'
  BY SMTT(15) DEF RotateBackup, IInv, StoreInv
<1>6. CommitInv'
  BY SMTT(15) DEF RotateBackup, IInv, TypeOK, GenInv, CommitInv, SavedSurvives
<1>7. ForgetInv'
  BY SMTT(15) DEF RotateBackup, IInv, ForgetInv
<1>8. SavedSurvives'
  BY SMTT(15) DEF RotateBackup, IInv, TypeOK, GenInv, CommitInv, SavedSurvives
<1>. QED BY <1>1, <1>2, <1>3, <1>4, <1>5, <1>6, <1>7, <1>8 DEF IInv

LEMMA RotateUnconfirmedStep == ASSUME IInv, RotateUnconfirmed PROVE IInv'
<1>. USE DEF Missing, Empty, NoJob, File, Readable, diskVars, stateVars, histVars, hurtVars
<1>1. TypeOK'
  BY SMTT(15) DEF RotateUnconfirmed, CommitFails, IInv, TypeOK, Content, Job, Kinds
<1>2. GenInv'
  BY SMTT(15) DEF RotateUnconfirmed, CommitFails, IInv, GenInv, CommitInv
<1>3. LoadInv'
  BY SMTT(15) DEF RotateUnconfirmed, CommitFails, IInv, LoadInv, CommitInv
<1>4. FreshInv'
  BY SMTT(15) DEF RotateUnconfirmed, IInv, FreshInv
<1>5. StoreInv'
  BY FailedStore DEF RotateUnconfirmed
<1>6. CommitInv'
  BY SMTT(15) DEF RotateUnconfirmed, CommitFails, CommitInv
<1>7. ForgetInv'
  BY SMTT(15) DEF RotateUnconfirmed, CommitFails, IInv, ForgetInv
<1>8. SavedSurvives'
  BY SMTT(15) DEF RotateUnconfirmed, CommitFails, IInv, TypeOK, GenInv, CommitInv, SavedSurvives
<1>. QED BY <1>1, <1>2, <1>3, <1>4, <1>5, <1>6, <1>7, <1>8 DEF IInv

LEMMA ReplaceUnconfirmedStep == ASSUME IInv, ReplaceUnconfirmed PROVE IInv'
<1>. USE DEF Missing, Empty, NoJob, File, Readable, diskVars, stateVars, histVars, hurtVars
<1>1. TypeOK'
  BY SMTT(15) DEF ReplaceUnconfirmed, CommitFails, IInv, TypeOK, Content, Job, Kinds
<1>2. GenInv'
  BY SMTT(15) DEF ReplaceUnconfirmed, CommitFails, IInv, GenInv, CommitInv
<1>3. LoadInv'
  BY SMTT(15) DEF ReplaceUnconfirmed, CommitFails, IInv, LoadInv, CommitInv
<1>4. FreshInv'
  BY SMTT(15) DEF ReplaceUnconfirmed, IInv, FreshInv, CommitInv
<1>5. StoreInv'
  BY FailedStore DEF ReplaceUnconfirmed
<1>6. CommitInv'
  BY SMTT(15) DEF ReplaceUnconfirmed, CommitFails, CommitInv
<1>7. ForgetInv'
  BY SMTT(15) DEF ReplaceUnconfirmed, CommitFails, IInv, ForgetInv
<1>8. SavedSurvives'
  BY SMTT(15) DEF ReplaceUnconfirmed, CommitFails, IInv, CommitInv, SavedSurvives
<1>. QED BY <1>1, <1>2, <1>3, <1>4, <1>5, <1>6, <1>7, <1>8 DEF IInv

LEMMA ReplaceStep == ASSUME IInv, Replace PROVE IInv'
<1>. USE DEF Missing, Empty, NoJob, File, Readable, diskVars, stateVars, histVars, hurtVars
<1>1. TypeOK'
  BY ReplaceType
<1>2. GenInv'
  BY SMTT(15) DEF Replace, IInv, GenInv, CommitInv
<1>3. LoadInv'
  BY SMTT(15) DEF Replace, IInv, LoadInv, CommitInv
<1>4. FreshInv'
  BY SMTT(15) DEF Replace, IInv, FreshInv, CommitInv
<1>5. StoreInv'
  BY SMTT(15) DEF Replace, IInv, StoreInv, CommitInv
<1>6. CommitInv'
  BY SMTT(15) DEF Replace, CommitInv
<1>7. ForgetInv'
  BY SMTT(15) DEF Replace, IInv, ForgetInv, TypeOK
<1>8. SavedSurvives'
  BY SMTT(15) DEF Replace, IInv, CommitInv, SavedSurvives
<1>. QED BY <1>1, <1>2, <1>3, <1>4, <1>5, <1>6, <1>7, <1>8 DEF IInv

LEMMA CrashStep == ASSUME IInv, Crash PROVE IInv'
<1>. USE DEF Missing, Empty, NoJob, File, Readable, diskVars, stateVars, histVars, hurtVars
<1>1. TypeOK'
  BY CrashType
<1>2. GenInv'
  BY SMTT(15) DEF Crash, IInv, GenInv
<1>3. LoadInv'
  BY SMTT(15) DEF Crash, IInv, LoadInv
<1>4. FreshInv'
  BY SMTT(15) DEF Crash, IInv, FreshInv
<1>5. StoreInv'
  BY SMTT(15) DEF Crash, IInv, TypeOK, StoreInv
<1>6. CommitInv'
  BY SMTT(15) DEF Crash, CommitInv
<1>7. ForgetInv'
  BY SMTT(15) DEF Crash, IInv, ForgetInv
<1>8. SavedSurvives'
  BY SMTT(15) DEF Crash, IInv, SavedSurvives
<1>. QED BY <1>1, <1>2, <1>3, <1>4, <1>5, <1>6, <1>7, <1>8 DEF IInv

LEMMA NewerVersionStep == ASSUME IInv, NewerVersion PROVE IInv'
<1>. USE DEF Missing, Empty, NoJob, File, Readable, diskVars, stateVars, histVars, hurtVars
<1>1. TypeOK'
  BY SMTT(15) DEF NewerVersion, IInv, TypeOK, Content
<1>2. GenInv'
  BY SMTT(15) DEF NewerVersion, IInv, TypeOK, GenInv, Content
<1>3. LoadInv'
  BY SMTT(15) DEF NewerVersion, IInv, LoadInv
<1>4. FreshInv'
  BY SMTT(15) DEF NewerVersion, FreshInv
<1>5. StoreInv'
  BY SMTT(15) DEF NewerVersion, IInv, TypeOK, StoreInv, Content
<1>6. CommitInv'
  BY SMTT(15) DEF NewerVersion, IInv, LoadInv, CommitInv
<1>7. ForgetInv'
  BY NewerVersionForget
<1>8. SavedSurvives'
  BY SMTT(15) DEF NewerVersion, IInv, TypeOK, GenInv, LoadInv, SavedSurvives, Content
<1>. QED BY <1>1, <1>2, <1>3, <1>4, <1>5, <1>6, <1>7, <1>8 DEF IInv

LEMMA DamageStep == ASSUME IInv, NEW name \in {"primary", "backup"}, NEW form \in {"missing", "broken"}, Damage(name, form) PROVE IInv'
<1>. USE DEF Missing, Empty, NoJob, File, Readable, diskVars, stateVars, histVars, hurtVars
<1>1. TypeOK'
  BY DamageType
<1>2. GenInv'
  BY SMTT(15) DEF Damage, IInv, GenInv
<1>3. LoadInv'
  BY SMTT(15) DEF Damage, IInv, LoadInv
<1>4. FreshInv'
  BY SMTT(15) DEF Damage, IInv, FreshInv
<1>5. StoreInv'
  BY SMTT(15) DEF Damage, IInv, StoreInv
<1>6. CommitInv'
  BY SMTT(15) DEF Damage, IInv, CommitInv
<1>7. ForgetInv'
  BY SMTT(15) DEF Damage, IInv, ForgetInv
<1>8. SavedSurvives'
  BY SMTT(15) DEF Damage, IInv, SavedSurvives
<1>. QED BY <1>1, <1>2, <1>3, <1>4, <1>5, <1>6, <1>7, <1>8 DEF IInv

-----------------------------------------------------------------------------
(* The invariant is inductive.                                             *)

LEMMA StutterStep == ASSUME IInv, UNCHANGED vars PROVE IInv'
  BY DEF vars, diskVars, stateVars, histVars, hurtVars, IInv, TypeOK, GenInv, LoadInv, FreshInv,
         StoreInv, CommitInv, ForgetInv, SavedSurvives

LEMMA LoadStepKeeps == ASSUME IInv, LoadStep PROVE IInv'
<1>1. ASSUME NEW where \in {"primary", "backup"}, ReadFails(where) PROVE IInv'
  BY <1>1, ReadFailsStep
<1>2. ASSUME NEW where \in {"primary", "backup"}, NEW file,
             file = IF where = "primary" THEN primary ELSE backup,
             Unsupported(file, where) \/ NotFound(file, where) \/ Quarantine(file, where)
      PROVE IInv'
  <2>1. CASE where = "primary"
    BY <1>2, <2>1, UnsupportedPrimaryStep, NotFoundPrimaryStep, QuarantinePrimaryStep
  <2>2. CASE where = "backup"
    BY <1>2, <2>2, UnsupportedBackupStep, NotFoundBackupStep, QuarantineBackupStep
  <2>. QED BY <2>1, <2>2
<1>. QED BY <1>1, <1>2, LoadPrimaryStep, LoadBackupStep, StartEmptyStep DEF LoadStep

LEMMA Inductive == ASSUME IInv, [Next]_vars PROVE IInv'
<1>1. CASE LoadStep
  BY <1>1, LoadStepKeeps
<1>2. CASE CommitStep
  BY <1>2, PrepareFailsStep, RotateBackupStep, RotateUnconfirmedStep, ReplaceStep, ReplaceUnconfirmedStep DEF CommitStep
<1>3. CASE \E account \in BOOLEAN : Save(account)
  BY <1>3, SaveStep
<1>4. CASE Crash \/ NewerVersion
  BY <1>4, CrashStep, NewerVersionStep
<1>5. CASE \E name \in {"primary", "backup"}, form \in {"missing", "broken"} : Damage(name, form)
  BY <1>5, DamageStep
<1>6. CASE UNCHANGED vars
  BY <1>6, StutterStep
<1>. QED BY <1>1, <1>2, <1>3, <1>4, <1>5, <1>6 DEF Next

LEMMA Invariance == Spec => []IInv
<1>1. Init => IInv
  BY InitHolds
<1>2. IInv /\ [Next]_vars => IInv'
  BY Inductive
<1>. QED BY <1>1, <1>2, PTL DEF Spec

-----------------------------------------------------------------------------
(* The variables of a store keep their types, and what a save rotates into *)
(* the backup has been validated (FileState.last_good, store.rs).          *)
THEOREM TypeCorrect == Spec => []TypeOK
<1>1. IInv => TypeOK
  BY DEF IInv
<1>. QED BY <1>1, Invariance, PTL

(* Whatever fails, and wherever the application stops inside a commit, the *)
(* generation saved last is in the primary and the one before it in the    *)
(* backup, unless that file was damaged from outside (Store::commit).      *)
THEOREM SavedGenerationsSurvive == Spec => []SavedSurvives
<1>1. IInv => SavedSurvives
  BY DEF IInv
<1>. QED BY <1>1, Invariance, PTL

(* A forgotten account is in neither file, and no later failure, repair or *)
(* restart brings it back (Store::save_with_backup).                       *)
THEOREM AccountStaysForgotten == Spec => []ForgottenStaysForgotten
<1>1. IInv => ForgottenStaysForgotten
  BY DEF IInv, ForgetInv, ForgottenStaysForgotten
<1>. QED BY <1>1, Invariance, PTL

(* Repairing or resetting a store replaces a broken primary only when its  *)
(* bytes are in a quarantined copy already (load_inner).                   *)
THEOREM QuarantinedFirst == Spec => DamagedBytesAreKept
<1>1. IInv => (job.kind # "save" /\ primary.form = "broken" => primary \in copies)
  BY DEF IInv, CommitInv, NoJob
<1>2. IInv /\ [Next]_vars
        => [job.kind # "save" /\ primary.form = "broken" /\ primary' # primary => primary \in copies]_vars
  BY <1>1
<1>. QED BY <1>2, Invariance, PTL DEF Spec, DamagedBytesAreKept

(* While a file of a newer version is there, nothing can be committed.     *)
LEMMA CommitOverKnown ==
  ASSUME IInv, job.stage # "none" PROVE primary.form # "future" /\ backup.form # "future"
<1>1. ~blocked /\ phase = "running"
  BY DEF IInv, CommitInv, LoadInv
<1>. QED BY <1>1 DEF IInv, LoadInv

LEMMA KeptByStep ==
  ASSUME IInv, [Next]_vars, damages' = damages, saves' = saves
  PROVE  /\ primary.form = "future" => primary' = primary
         /\ backup.form = "future" => backup' = backup
<1>0. damages \in Nat /\ saves \in Nat
  BY DEF IInv, TypeOK
<1>1. CASE LoadStep
  BY <1>1 DEF LoadStep, ReadFails, Unsupported, NotFound, Quarantine, Block, LoadPrimary, LoadBackup, StartEmpty, diskVars
<1>2. CASE CommitStep
  <2>1. CASE PrepareFails
    BY <2>1 DEF PrepareFails, diskVars
  <2>2. CASE RotateBackup \/ RotateUnconfirmed \/ Replace \/ ReplaceUnconfirmed
    BY <2>2, CommitOverKnown DEF RotateBackup, RotateUnconfirmed, Replace, ReplaceUnconfirmed
  <2>. QED BY <1>2, <2>1, <2>2 DEF CommitStep
<1>3. CASE \E account \in BOOLEAN : Save(account)
  BY <1>3 DEF Save, diskVars
<1>4. CASE Crash
  BY <1>4 DEF Crash, diskVars
<1>5. CASE NewerVersion
  BY <1>0, <1>5 DEF NewerVersion
<1>6. CASE \E name \in {"primary", "backup"}, form \in {"missing", "broken"} : Damage(name, form)
  BY <1>0, <1>6 DEF Damage
<1>7. CASE UNCHANGED vars
  BY <1>7 DEF vars, diskVars
<1>. QED BY <1>1, <1>2, <1>3, <1>4, <1>5, <1>6, <1>7 DEF Next

(* Only a newer version of Forever writes over files of a version this one *)
(* does not know: no load, repair, save or restart does (load_inner).      *)
THEOREM NewerFilesAreKept == Spec => UnsupportedIsKept
<1>1. IInv /\ [Next]_vars
        => [damages' = damages /\ saves' = saves =>
              /\ primary.form = "future" => primary' = primary
              /\ backup.form = "future" => backup' = backup]_vars
  BY KeptByStep
<1>. QED BY <1>1, Invariance, PTL DEF Spec, UnsupportedIsKept

(* Neither a load nor a repair, a reset or a restart overwrites bytes that *)
(* may hold the user's data and are kept nowhere else (load_inner).        *)
THEOREM OldBytesSurvive == Spec => OldBytesAreKept
  BY QuarantinedFirst, NewerFilesAreKept DEF OldBytesAreKept

=============================================================================
