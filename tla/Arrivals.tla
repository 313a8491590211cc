------------------------------ MODULE Arrivals ------------------------------
(***************************************************************************)
(* The files of a release after their download: verification, Soundcheck,  *)
(* replacements from Patch Bay, filing and its undo (downloads.rs,         *)
(* soundcheck.rs, commit_filing for Filing).  Scans read the files without *)
(* a lock, several at a time, while the user repairs, files or clears the  *)
(* release and other programs change the disk.  A file that is written is  *)
(* a new one: its length and time of change are its number.  A download,   *)
(* and a command of the user, takes a millisecond at least, so that        *)
(* updated_at_ms counts the changes.                                       *)
(***************************************************************************)
EXTENDS Integers, FiniteSets, Sequences, Functions

CONSTANTS
  Track,       \* the transfers of the release
  Added,       \* one of them, which is missing at first
  Original,    \* where they are downloaded from
  Candidate,   \* who offers replacements
  Automatic,   \* soundcheck_enabled
  Asked, Task, \* the threads that scan when asked, and after a repair
  Sounds,      \* how a file may sound: good, suspect or damaged
  Names,       \* names of a file in its directory
  MaxFiles,    \* bound on files that come into being
  MaxMeddling, \* bound on what filing and other programs do to them
  MaxChanges   \* bound on changes of one transfer

Scanner == Asked \cup Task
NoTrack == [status |-> "none"]
Library == 0
Path == Track \X (Names \cup {Library})


VARIABLES
  release,   \* the transfers, by track
  disk,      \* the file at each path, 0 if there is none
  files,     \* what every file that ever was is: who sent it, whether its
             \* length is that of the transfer, and how it sounds
  aside,     \* rejected files and originals, which have names of their own
  gone,      \* history: files other programs, or an undo, took away
  scans,     \* what each thread does in scan_targets
  filing,    \* the plan of the filing and its state
  examined,  \* history: the places deep scans went through
  meddled    \* how often other programs interfered or the release was filed

arrivalVars == <<release, disk, files, aside, gone, scans, filing, examined, meddled>>
fileVars == <<disk, files, aside, gone, meddled>>
restVars == <<scans, filing, examined>>

Unchecked == [result |-> "none", stamp |-> 0, sonic |-> 0]
Idle == [step |-> "idle", deep |-> FALSE, track |-> 0, targets |-> <<>>, print |-> 0,
         reads |-> 0, sonic |-> 0, verification |-> "pending", check |-> Unchecked,
         changed |-> FALSE]
NoPlan == [state |-> "none"]
Blank(from, at) ==
  [status |-> "queued", from |-> from, at |-> at, verification |-> "pending",
   check |-> Unchecked, filed |-> FALSE, repair |-> "none", updated |-> 0]

ArrivalsInit ==
  /\ release = [i \in Track |-> IF i = Added THEN NoTrack ELSE Blank(Original, <<i, 1>>)]
  /\ disk = [p \in Path |-> 0] /\ files = <<>> /\ aside = {} /\ gone = {}
  /\ scans = [s \in Scanner |-> Idle] /\ filing = NoPlan /\ examined = {} /\ meddled = 0

Listed == {i \in Track : release[i] # NoTrack}
AllCompleted == \A i \in Listed : release[i].status = "completed"
Whole(f) == files[f].whole
Sound(f) == files[f].sound
Free(i) ==
  {<<i, n>> : n \in {n \in Names : disk[<<i, n>>] = 0 /\ \A j \in Listed : release[j].at # <<i, n>>}}
Changed(t) == [t EXCEPT !.updated = @ + 1]
Room(i) == release[i].updated + meddled < MaxChanges

(* guard_filing: no file operation is under way; a release that is filed    *)
(* is changed in the history of filing only.                                *)
Busy == filing.state \in {"applying", "undoing"}
Held == filing # NoPlan

-----------------------------------------------------------------------------
(* refresh_verification, inspect_file and refresh_soundcheck.              *)
Verification(f) ==
  IF f = 0 THEN "missing" ELSE IF Whole(f) THEN "verified" ELSE "mismatch"
Verified(t) ==
  LET v == Verification(disk[t.at])
  IN  IF t.status # "completed" THEN [t EXCEPT !.verification = "pending", !.check = Unchecked]
      ELSE [t EXCEPT !.verification = v, !.check = IF v = "verified" THEN @ ELSE Unchecked]

(* What reading file f tells, when the file at the path is then g.  A file *)
(* that is damaged inside is found by decoding it only.                    *)
Inspected(f, g, deep) ==
  IF f = 0 \/ (deep /\ Sound(f) = "damaged")
  THEN [result |-> "failed", stamp |-> 0, sonic |-> 0]
  ELSE [result |-> IF deep /\ Sound(f) = "suspect" THEN "review" ELSE "passed",
        stamp |-> g, sonic |-> IF deep THEN f ELSE 0]
(* A quick scan keeps what was measured before of the same file.           *)
Keeping(check, sonic) ==
  IF check.result = "failed" \/ sonic = 0 THEN check
  ELSE [check EXCEPT !.sonic = sonic,
                     !.result = IF Sound(sonic) = "suspect" THEN "review" ELSE @]

Repairable(check) ==
  check.result = "failed" \/ (check.sonic # 0 /\ Sound(check.sonic) = "suspect")
(* patch_issue_reason *)
HasIssue(t) ==
  \/ t.status = "failed"
  \/ t.verification \in {"missing", "mismatch"}
  \/ Repairable(t.check)

-----------------------------------------------------------------------------
(* complete: the finished file gets its name, unless another has it; a     *)
(* file that came as a repair is scanned by its own thread.                *)
Arrive(i, sound) ==
  LET t == release[i]
      f == Len(files) + 1
  IN  /\ t.status = "queued" /\ Room(i)
      /\ disk[t.at] = 0 /\ f <= MaxFiles
      /\ files' = Append(files, [from |-> t.from, whole |-> TRUE, sound |-> sound])
      /\ disk' = [disk EXCEPT ![t.at] = f]
      /\ release' = [release EXCEPT ![i] =
           [Changed(t) EXCEPT !.status = "completed", !.verification = "verified",
              !.check = IF t.repair = "none" /\ Automatic
                        THEN [result |-> "passed", stamp |-> f, sonic |-> 0] ELSE Unchecked]]
      /\ IF t.repair = "none" THEN UNCHANGED scans
         ELSE \E s \in Task :
                /\ scans[s] = Idle
                /\ scans' = [scans EXCEPT ![s] = [Idle EXCEPT !.step = "repair", !.track = i]]
      /\ UNCHANGED <<aside, gone, meddled, filing, examined>>

Fail(i) ==
  /\ release[i].status = "queued" /\ Room(i)
  /\ release' = [release EXCEPT ![i] = [Changed(@) EXCEPT !.status = "failed"]]
  /\ UNCHANGED <<fileVars, restVars>>

(* verify_release, verify_completed                                         *)
Verify ==
  /\ release' = [i \in Track |->
       IF release[i].status = "completed" THEN Verified(release[i]) ELSE release[i]]
  /\ release' # release
  /\ UNCHANGED <<fileVars, restVars>>

-----------------------------------------------------------------------------
(* scan_targets.  A scan goes through the copies it took of the transfers.  *)
Goes(s, scan) == scans' = [scans EXCEPT ![s] = scan]
First(S) == CHOOSE i \in S : \A j \in S : i <= j
Begin(s, deep, targets) ==
  Goes(s, [Idle EXCEPT !.step = "next", !.deep = deep,
                       !.track = First(DOMAIN targets), !.targets = targets])

(* soundcheck_release *)
Soundcheck(s, deep) ==
  /\ scans[s] = Idle /\ Listed # {} /\ AllCompleted /\ \A i \in Listed : Room(i)
  /\ Begin(s, deep, Restrict(release, Listed))
  /\ UNCHANGED <<release, fileVars, filing, examined>>

(* complete, once more under the lock *)
ScanRepair(s) ==
  LET i == scans[s].track
      t == release[i]
  IN  /\ scans[s].step = "repair"
      /\ IF t # NoTrack /\ t.status = "completed" /\ t.repair # "none"
         THEN Begin(s, TRUE, Restrict(release, {i}))
         ELSE Goes(s, Idle)
      /\ UNCHANGED <<release, fileVars, filing, examined>>

Before(s) == scans[s].targets[scans[s].track]
ThereNow(s) == disk[Before(s).at]
NextTarget(s) ==
  LET rest == DOMAIN scans[s].targets \ {scans[s].track}
  IN  IF rest = {} THEN Goes(s, Idle)
      ELSE Begin(s, scans[s].deep, Restrict(scans[s].targets, rest))

TakeFingerprint(s) ==
  /\ scans[s].step = "next"
  /\ Goes(s, [scans[s] EXCEPT !.step = "verify", !.print = ThereNow(s)])
  /\ UNCHANGED <<release, fileVars, filing, examined>>
VerifyScanned(s) ==
  /\ scans[s].step = "verify"
  /\ LET v == Verification(ThereNow(s))
     IN  Goes(s, [scans[s] EXCEPT !.step = IF v = "verified" THEN "open" ELSE "compare",
                                  !.verification = v])
  /\ UNCHANGED <<release, fileVars, filing, examined>>

(* refresh_soundcheck: what was measured of this file before; then the      *)
(* file is opened.  One deep scan decodes at a time.                        *)
OpenScanned(s) ==
  /\ scans[s].step = "open"
  /\ scans[s].deep => \A o \in Scanner : ~(scans[o].step = "decode" /\ scans[o].deep)
  /\ LET old == Before(s).check
         kept == IF old.stamp # 0 /\ old.stamp = ThereNow(s) THEN old.sonic ELSE 0
     IN  Goes(s, [scans[s] EXCEPT !.step = "decode", !.reads = ThereNow(s), !.sonic = kept])
  /\ UNCHANGED <<release, fileVars, filing, examined>>
DecodeScanned(s) ==
  /\ scans[s].step = "decode"
  /\ LET found == Inspected(scans[s].reads, ThereNow(s), scans[s].deep)
     IN  Goes(s, [scans[s] EXCEPT !.step = "compare", !.reads = 0, !.sonic = 0,
                    !.check = IF scans[s].deep THEN found ELSE Keeping(found, scans[s].sonic)])
  /\ UNCHANGED <<release, fileVars, filing, examined>>

(* A file that is missing, before and after, counts as unchanged.           *)
Published(s) == [scans[s] EXCEPT !.step = "publish", !.print = 0]
Examined(s) ==
  IF scans[s].deep THEN examined \cup {<<scans[s].track, Before(s).from>>} ELSE examined

CompareNothing(s) == \* mutant: the fingerprints are not compared
  /\ scans[s].step = "compare"
  /\ Goes(s, Published(s)) /\ examined' = Examined(s)
  /\ UNCHANGED <<release, fileVars, filing>>

CompareFingerprint(s) ==
  /\ scans[s].step = "compare"
  /\ IF ThereNow(s) = scans[s].print
     THEN Goes(s, Published(s)) /\ examined' = Examined(s)
     ELSE /\ Goes(s, [Published(s) EXCEPT !.changed = TRUE,
                        !.verification = Verification(ThereNow(s)),
                        !.check = [result |-> "review", stamp |-> 0, sonic |-> 0]])
          /\ UNCHANGED examined
  /\ UNCHANGED <<release, fileVars, filing>>

ScanStillCurrent(t, before) ==
  /\ t # NoTrack /\ t.status = "completed"
  /\ t.updated = before.updated
  /\ t.at = before.at /\ t.from = before.from /\ t.check = before.check

PublishScan(s) ==
  LET scan == scans[s]
      i == scan.track
      t == release[i]
      repaired == scan.deep /\ ~scan.changed /\ t.repair # "none"
  IN  /\ scan.step = "publish"
      /\ IF ScanStillCurrent(t, Before(s))
         THEN release' = [release EXCEPT ![i] =
           [Changed(t) EXCEPT !.verification = scan.verification, !.check = scan.check,
                              !.repair = IF repaired THEN "repaired" ELSE @]]
         ELSE UNCHANGED release
      /\ IF scan.changed THEN Goes(s, Idle) ELSE NextTarget(s)
      /\ UNCHANGED <<fileVars, filing, examined>>

-----------------------------------------------------------------------------
(* retry_release_issues *)
RetryIssues ==
  LET again(t) == t.status = "failed" \/ Verified(t).verification = "missing"
      after(i) ==
        LET t == release[i]
        IN  CASE t = NoTrack -> NoTrack
              [] t # NoTrack /\ again(t) ->
                   [Changed(t) EXCEPT !.status = "queued", !.verification = "pending",
                                      !.check = Unchecked]
              [] OTHER -> IF t.status = "completed" THEN Verified(t) ELSE t
  IN  /\ ~Held
      /\ \E i \in Listed : again(release[i])
      /\ \A i \in Listed : Room(i)
      /\ release' = [i \in Track |-> after(i)]
      /\ UNCHANGED <<fileVars, restVars>>

Unfiled == [i \in Track |-> IF i \in Listed THEN [release[i] EXCEPT !.filed = FALSE] ELSE NoTrack]
AlreadyQueued(i, candidate) ==
  \E j \in Listed \ {i} : release[j].from = candidate

(* patch_release_file: the rejected file is kept under another name, and    *)
(* the transfer begins anew from the candidate, at the same path if its     *)
(* format is the same.                                                      *)
Patch(i, candidate) ==
  LET t == release[i]
      f == disk[t.at]
  IN  /\ ~Held /\ i \in Listed /\ Room(i)
      /\ HasIssue(t) /\ ~AlreadyQueued(i, candidate)
      /\ aside' = IF f = 0 THEN aside ELSE aside \cup {f}
      /\ disk' = [disk EXCEPT ![t.at] = 0]
      /\ \E at \in {t.at} \cup Free(i) :
           release' = [Unfiled EXCEPT ![i] =
             [Changed(Blank(candidate, at)) EXCEPT !.repair = "requested", !.updated = t.updated + 1]]
      /\ UNCHANGED <<files, gone, meddled, restVars>>

(* ... or a track that is missing is added.                                 *)
PatchMissing(candidate) ==
  /\ ~Held /\ Listed # {} /\ Added \in Track \ Listed /\ ~AlreadyQueued(Added, candidate)
  /\ \E at \in Free(Added) :
       release' = [Unfiled EXCEPT ![Added] =
         [Blank(candidate, at) EXCEPT !.repair = "requested"]]
  /\ UNCHANGED <<fileVars, restVars>>

(* set_release_filed, remove_completed_release_history, clear_completed     *)
SetFiled(filed) ==
  /\ ~Held /\ Listed # {} /\ AllCompleted
  /\ \E i \in Listed : release[i].filed # filed
  /\ release' = [i \in Track |->
       IF i \in Listed THEN [release[i] EXCEPT !.filed = filed] ELSE NoTrack]
  /\ UNCHANGED <<fileVars, restVars>>
ClearHistory ==
  /\ ~Busy /\ Listed # {} /\ AllCompleted
  /\ release' = [i \in Track |-> NoTrack]
  /\ UNCHANGED <<fileVars, restVars>>

-----------------------------------------------------------------------------
(* filing.rs, as far as the transfers see it.  apply: the arrival is still   *)
(* that of the preview, which is remembered; a tagged copy of every file    *)
(* goes to the library and the original aside.                              *)
Planned == {i \in Track : filing.originals[i] # NoTrack}
Source(i) == filing.originals[i].at
Filed(i) == <<i, Library>>

Apply ==
  LET sources == [i \in Listed |-> disk[release[i].at]]
      tagged(i) == Len(files) + Cardinality({j \in Listed : j <= i})
  IN  /\ filing = NoPlan /\ Listed # {} /\ AllCompleted
      /\ meddled < MaxMeddling /\ meddled' = meddled + 1
      /\ \A i \in Listed : sources[i] # 0 /\ disk[Filed(i)] = 0
      /\ Len(files) + Cardinality(Listed) <= MaxFiles
      /\ files' = files \o [n \in 1..Cardinality(Listed) |->
           LET i == CHOOSE j \in Listed : tagged(j) = Len(files) + n
           IN  [files[sources[i]] EXCEPT !.whole = TRUE]]
      /\ disk' = [p \in Path |->
           IF \E i \in Listed : p = release[i].at THEN 0
           ELSE IF p[2] = Library /\ p[1] \in Listed THEN tagged(p[1]) ELSE disk[p]]
      /\ aside' = aside \cup {sources[i] : i \in Listed}
      /\ filing' = [state |-> "applying", originals |-> release, sources |-> sources]
      /\ UNCHANGED <<release, gone, scans, examined>>

(* commit_filing, apply_filing_paths *)
CommitFiling ==
  /\ filing.state = "applying"
  /\ \A i \in Planned : release[i].status = "completed" /\ Room(i)
  /\ release' = [i \in Track |->
       IF i \in Planned
       THEN [Changed(release[i]) EXCEPT !.at = Filed(i), !.filed = TRUE,
               !.verification = "verified", !.check = Unchecked]
       ELSE release[i]]
  /\ filing' = [filing EXCEPT !.state = "filed"]
  /\ UNCHANGED <<fileVars, scans, examined>>

(* check_undo: nobody has changed the library's files or taken the places  *)
(* of the originals.                                                       *)
Undo ==
  LET tagged == {disk[Filed(i)] : i \in Planned}
  IN  /\ filing.state = "filed"
      /\ \A i \in Planned :
           disk[Source(i)] = 0 /\ filing.sources[i] \notin gone
           /\ disk[Filed(i)] # 0 /\ files[disk[Filed(i)]].from # "others"
      /\ disk' = [p \in Path |->
           IF \E i \in Planned : p = Source(i) THEN filing.sources[CHOOSE i \in Planned : p = Source(i)]
           ELSE IF \E i \in Planned : p = Filed(i) THEN 0 ELSE disk[p]]
      /\ gone' = gone \cup tagged
      /\ aside' = aside \ {filing.sources[i] : i \in Planned}
      /\ filing' = [filing EXCEPT !.state = "undoing"]
      /\ UNCHANGED <<release, files, meddled, scans, examined>>
CommitUndo ==
  /\ filing.state = "undoing"
  /\ \A i \in Planned \cap Listed : Room(i)
  /\ release' = [i \in Track |->
       IF i \in Planned \cap Listed
       THEN [filing.originals[i] EXCEPT !.updated = release[i].updated + 1]
       ELSE release[i]]
  /\ filing' = NoPlan
  /\ UNCHANGED <<fileVars, scans, examined>>

-----------------------------------------------------------------------------
(* Other programs change, take or leave a file where Forever has one.       *)
Meddle(p, whole) ==
  /\ disk[p] # 0 \/ \E i \in Listed : release[i].at = p
  /\ Len(files) < MaxFiles /\ meddled < MaxMeddling /\ meddled' = meddled + 1
  /\ files' = Append(files, [from |-> "others", whole |-> whole, sound |-> "good"])
  /\ disk' = [disk EXCEPT ![p] = Len(files) + 1]
  /\ gone' = gone \cup ({disk[p]} \ {0})
  /\ UNCHANGED <<release, aside, restVars>>
TakeAway(p) ==
  /\ disk[p] # 0 /\ meddled < MaxMeddling /\ meddled' = meddled + 1
  /\ disk' = [disk EXCEPT ![p] = 0]
  /\ gone' = gone \cup {disk[p]}
  /\ UNCHANGED <<release, files, aside, restVars>>

ScanStep(s) ==
  \/ ScanRepair(s) \/ TakeFingerprint(s) \/ VerifyScanned(s) \/ OpenScanned(s)
  \/ DecodeScanned(s) \/ CompareFingerprint(s) \/ PublishScan(s)
ArrivalsNext ==
  \/ \E i \in Track : Fail(i) \/ \E q \in Sounds : Arrive(i, q)
  \/ Verify \/ RetryIssues \/ ClearHistory \/ \E filed \in BOOLEAN : SetFiled(filed)
  \/ \E s \in Scanner : ScanStep(s)
  \/ \E s \in Asked : \E deep \in BOOLEAN : Soundcheck(s, deep)
  \/ \E c \in Candidate : PatchMissing(c) \/ \E i \in Track : Patch(i, c)
  \/ Apply \/ CommitFiling \/ Undo \/ CommitUndo
  \/ \E p \in Path : TakeAway(p) \/ \E whole \in BOOLEAN : Meddle(p, whole)

-----------------------------------------------------------------------------
(* Two names of one file, or of files that Forever has not written: those   *)
(* may come and go between two looks at a path that was empty before.       *)
SameFile(f, g) == f = g \/ (files[f].from = "others" /\ files[g].from = "others")

(* What a transfer says of its file was found in a file from its own        *)
(* source, or one another program put there, and what was measured was      *)
(* measured in the very file the stamp names; a transfer that waits for its *)
(* file says nothing (downloads.rs scan_targets, refresh_soundcheck).       *)
EvidenceIsOfItsFile ==
  \A i \in Listed :
    LET t == release[i]
    IN  /\ t.check.stamp # 0 => files[t.check.stamp].from \in {t.from, "others"}
        /\ t.check.stamp # 0 /\ t.check.sonic # 0 => SameFile(t.check.stamp, t.check.sonic)
        /\ t.status # "completed" => t.check = Unchecked /\ t.verification = "pending"

(* A repair is called done only when a deep scan looked at its place after  *)
(* the replacement had come (downloads.rs scan_targets).                    *)
RepairsAreExamined ==
  \A i \in Listed : release[i].repair = "repaired" => <<i, release[i].from>> \in examined

(* No file is destroyed by Forever, whatever is repaired, filed, undone or  *)
(* cleared at the same time, but the tagged copies that an undo takes back; *)
(* and no two transfers write to one path (downloads.rs                     *)
(* preserve_rejected_file, complete, unique_target_path).                   *)
FilesAreKept ==
  /\ 1..Len(files) \ gone \subseteq aside \cup {disk[p] : p \in Path}
  /\ \A i, j \in Listed : i # j => release[i].at # release[j].at

(* A release that is filed can be undone: its transfers are where the       *)
(* filing put them, and completed (downloads.rs guard_filing).              *)
FiledCanBeUndone ==
  filing.state = "filed" =>
    \A i \in Planned \cap Listed :
      release[i].status = "completed" /\ release[i].at = Filed(i)

ArrivalIsSound ==
  EvidenceIsOfItsFile /\ RepairsAreExamined /\ FilesAreKept /\ FiledCanBeUndone
=============================================================================
