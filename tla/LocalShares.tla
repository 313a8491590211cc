---------------------------- MODULE LocalShares ----------------------------
(***************************************************************************)
(* The index of the shared folders (local_shares.rs), the watcher that     *)
(* keeps it current (watcher.rs), the cache of audio headers (cache.rs)    *)
(* and the answers other users get from it.  Files change at any time,     *)
(* also while a scan reads them; scans and changes of the roots exclude    *)
(* one another, the readers that answer wait for neither.                  *)
(***************************************************************************)
EXTENDS Integers, FiniteSets

CONSTANTS
  Root,         \* folders the user may share
  Track,         \* files below them
  RootOf,       \* the root of each file
  FolderOf,     \* the directory it is in
  Phrased,      \* files an excluded phrase of the server may hide
  MaxVersion,   \* bound on the versions of a file
  MaxEdits,     \* bound on changes of files and of Music Library
  MaxSettings,  \* bound on changes of the roots
  MaxPending    \* MAX_PENDING_SEARCH_RESPONSES

Version == 0 .. MaxVersion \* 0 is a file that is not there
Folder == {FolderOf[f] : f \in Track}

VARIABLES
  disk,        \* the version of each file
  rows,        \* the version Music Library has measured of it
  roots,       \* SharingStore: "none", "shared" or "disabled"
  index,       \* what is indexed of each file: its version, and the one probed
  cache,       \* share-index.sqlite3: the same of what has been probed
  scan,        \* the holder of scan_lock, and the scan it runs
  scanning,    \* the flag of the index
  asked,       \* scans that callers wait for
  watcher,     \* the loop of the watcher thread
  watched,     \* roots whose changes are reported
  pending,     \* changes reported since the last batch
  due,         \* RECONCILE_INTERVAL is over
  excluded,    \* files the server's list of phrases hides
  tickets,     \* pending_searches
  edits, changes,
  unseen,      \* history: a change nobody reported since the last full scan
  leaked       \* history: files an answer held though they were not shared

fileVars == <<disk, rows, edits>>
indexVars == <<index, cache, scan, scanning>>
watchVars == <<watcher, watched, pending, due>>
answerVars == <<excluded, tickets, leaked>>
sharesVars == <<fileVars, roots, indexVars, asked, watchVars, answerVars, changes, unseen>>

Nothing == [at |-> 0, probed |-> 0]
NoIndex == [f \in Track |-> Nothing]
Idle == [step |-> "idle", todo |-> {}, file |-> "none", key |-> 0, next |-> NoIndex, cache |-> NoIndex, ask |-> 0]
NoChanges == [folders |-> {}, full |-> FALSE]

Enabled == {r \in Root : roots[r] = "shared"}
Covered(r) == \E f \in Track : RootOf[f] = r /\ rows[f] > 0

SharesInit ==
  /\ disk = [f \in Track |-> 1]
  /\ rows \in [Track -> {0, 1}]
  /\ \A r \in Root : Covered(r) => \A f \in Track : RootOf[f] = r => rows[f] = 1
  /\ roots \in [Root -> {"none", "shared"}]
  /\ index = NoIndex /\ cache = NoIndex
  /\ scan = Idle /\ scanning = TRUE /\ asked = 0
  /\ watcher = [step |-> "look", first |-> TRUE, seen |-> {}, target |-> {}, full |-> FALSE, folders |-> {}]
  /\ watched = {} /\ pending = NoChanges /\ due = FALSE
  /\ excluded = {} /\ tickets = {} /\ leaked = {}
  /\ edits = 0 /\ changes = 0 /\ unseen = FALSE

-----------------------------------------------------------------------------
(* Files come, change and go; Music Library measures them.                 *)

(* record: the watcher's callback, unless an error or too many paths make  *)
(* the next scan a full one.                                               *)
Recorded(f) ==
  IF RootOf[f] \in watched
  THEN /\ pending' \in {[pending EXCEPT !.folders = IF pending.full THEN {} ELSE @ \cup {FolderOf[f]}],
                        [folders |-> {}, full |-> TRUE]}
       /\ UNCHANGED unseen
  ELSE /\ unseen' = (unseen \/ RootOf[f] \in Enabled)
       /\ UNCHANGED pending

Edit(f) ==
  /\ edits < MaxEdits /\ edits' = edits + 1
  /\ disk' \in {[disk EXCEPT ![f] = v] : v \in {0} \cup {n \in Version : n > disk[f]}}
  /\ disk' # disk
  /\ Recorded(f)
  /\ UNCHANGED <<rows, roots, indexVars, asked, watcher, watched, due, answerVars, changes>>

Measure(r) ==
  /\ edits < MaxEdits /\ edits' = edits + 1
  /\ rows' \in {[f \in Track |-> IF RootOf[f] = r THEN disk[f] ELSE rows[f]],
                [f \in Track |-> IF RootOf[f] = r THEN 0 ELSE rows[f]]}
  /\ rows' # rows
  /\ unseen' = (unseen \/ r \in Enabled)
  /\ UNCHANGED <<disk, roots, indexVars, asked, watchVars, answerVars, changes>>

-----------------------------------------------------------------------------
(* Changes of the roots hold scan_lock, and a full scan follows them.      *)
ChangesRoots(r, to) ==
  /\ changes < MaxSettings /\ changes' = changes + 1
  /\ roots' = [roots EXCEPT ![r] = to]
  /\ UNCHANGED <<fileVars, index, cache, scanning, watchVars, answerVars, unseen>>

AddRoot(r) ==
  /\ scan = Idle /\ roots[r] = "none"
  /\ ChangesRoots(r, "shared")
  /\ asked' = asked + 1 /\ UNCHANGED scan

RemoveRootUnlocked(r) == \* mutant: a scan under way is not waited for
  /\ roots[r] # "none"
  /\ ChangesRoots(r, "none")
  /\ scan' = [scan EXCEPT !.step = IF @ = "idle" THEN "prune" ELSE @, !.ask = 1]
  /\ UNCHANGED asked

RemoveRoot(r) ==
  /\ scan = Idle /\ roots[r] # "none"
  /\ ChangesRoots(r, "none")
  /\ scan' = [Idle EXCEPT !.step = "prune", !.ask = 1]
  /\ UNCHANGED asked

SetEnabled(r, enabled) ==
  /\ scan = Idle /\ roots[r] # "none"
  /\ ChangesRoots(r, IF enabled THEN "shared" ELSE "disabled")
  /\ scan' = [Idle EXCEPT !.step = "prune", !.ask = 1]
  /\ UNCHANGED asked

(* apply_settings of the connection: a scan follows when the roots are     *)
(* others, not when only the slots or the upload policy are.               *)
ApplySettings(r, to) ==
  /\ scan = Idle
  /\ ChangesRoots(r, to)
  /\ scan' = [Idle EXCEPT !.step = "prune", !.ask = IF roots' = roots THEN 0 ELSE 1]
  /\ UNCHANGED asked

PruneDisabledRoots ==
  /\ scan.step = "prune"
  /\ index' = [f \in Track |-> IF RootOf[f] \in Enabled THEN index[f] ELSE Nothing]
  /\ scanning' = TRUE
  /\ scan' = Idle /\ asked' = asked + scan.ask
  /\ UNCHANGED <<fileVars, roots, cache, watchVars, answerVars, changes, unseen>>

-----------------------------------------------------------------------------
(* scan_paths, of everything or of some directories.  Roots that Music     *)
(* Library covers are read from its database, never walked.                *)
ReadsLibrary(f) == RootOf[f] \in Enabled /\ Covered(RootOf[f])
Walked(f, full, folders) ==
  RootOf[f] \in Enabled /\ ~Covered(RootOf[f]) /\ (full \/ FolderOf[f] \in folders)

Begins(full, folders) ==
  /\ scan = Idle /\ scanning' = TRUE
  /\ scan' = [Idle EXCEPT !.step = "walk", !.cache = cache,
       !.todo = {f \in Track : Walked(f, full, folders)},
       !.next = [f \in Track |->
         IF ReadsLibrary(f) THEN [at |-> rows[f], probed |-> rows[f]]
         ELSE IF RootOf[f] \in Enabled /\ ~full /\ FolderOf[f] \notin folders THEN index[f]
         ELSE Nothing]]
  /\ unseen' = (unseen /\ ~full)
  /\ UNCHANGED <<fileVars, roots, index, cache, answerVars, changes>>

ScanAsked ==
  /\ asked > 0 /\ asked' = asked - 1
  /\ Begins(TRUE, {})
  /\ UNCHANGED watchVars

(* The metadata of a file is read; the cache may know its header.          *)
WalkFile(f) ==
  /\ scan.step = "walk" /\ f \in scan.todo
  /\ scan' = IF disk[f] = 0 THEN [scan EXCEPT !.todo = @ \ {f}]
             ELSE IF scan.cache[f].at = disk[f]
             THEN [scan EXCEPT !.todo = @ \ {f}, !.next[f] = scan.cache[f]]
             ELSE [scan EXCEPT !.todo = @ \ {f}, !.step = "probe", !.file = f, !.key = disk[f]]
  /\ UNCHANGED <<fileVars, roots, index, cache, scanning, asked, watchVars, answerVars, changes, unseen>>

(* quality: the header is read, and remembered if the file is still what   *)
(* it was.  Writing to the cache may fail.                                 *)
Probe ==
  LET entry == [at |-> scan.key, probed |-> disk[scan.file]]
      stable == disk[scan.file] = scan.key
  IN
  /\ scan.step = "probe"
  /\ scan' \in {[scan EXCEPT !.step = "walk", !.next[scan.file] = entry,
                             !.cache[scan.file] = e] :
                e \in {scan.cache[scan.file]} \cup (IF stable THEN {entry} ELSE {})}
  /\ UNCHANGED <<fileVars, roots, index, cache, scanning, asked, watchVars, answerVars, changes, unseen>>

(* finish: the cache keeps what is indexed and is committed, or is not;    *)
(* the new index replaces the old one.                                     *)
Publish ==
  /\ scan.step = "walk" /\ scan.todo = {}
  /\ index' = scan.next
  /\ cache' \in {cache, [f \in Track |-> IF scan.next[f] = Nothing THEN Nothing ELSE scan.cache[f]]}
  /\ scanning' = FALSE /\ scan' = Idle
  /\ UNCHANGED <<fileVars, roots, asked, watchVars, answerVars, changes, unseen>>

-----------------------------------------------------------------------------
(* The loop of the watcher thread: it compares the roots with those it     *)
(* watches, and from time to time starts watching anew.                    *)
Look(retry) ==
  /\ watcher.step = "look"
  /\ LET changed == watcher.seen # Enabled IN
       watcher' = [watcher EXCEPT !.target = Enabled, !.full = changed \/ watcher.first,
         !.step = IF watcher.first \/ changed \/ retry THEN "register" ELSE "take"]
  /\ watched' = IF retry THEN {} ELSE watched
  /\ UNCHANGED <<fileVars, roots, indexVars, asked, pending, due, answerVars, changes, unseen>>

Register ==
  /\ watcher.step = "register"
  /\ \E failed \in SUBSET (watcher.target \ watched) : watched' = watcher.target \ failed
  /\ watcher' = [watcher EXCEPT !.seen = watcher.target, !.step = "take"]
  /\ UNCHANGED <<fileVars, roots, indexVars, asked, pending, due, answerVars, changes, unseen>>

(* A batch is taken when it is quiet for a moment, or old enough.          *)
Take ==
  /\ watcher.step = "take"
  /\ \E batch \in {NoChanges, pending} :
       /\ pending' = IF batch = pending THEN NoChanges ELSE pending
       /\ LET full == watcher.full \/ due \/ batch.full IN
            watcher' = [watcher EXCEPT !.first = FALSE, !.full = full,
              !.folders = IF full THEN {} ELSE batch.folders,
              !.step = IF full \/ batch # NoChanges THEN "scan" ELSE "look"]
  /\ due' = FALSE
  /\ UNCHANGED <<fileVars, roots, indexVars, asked, watched, answerVars, changes, unseen>>

Scan ==
  /\ watcher.step = "scan"
  /\ Begins(watcher.full, watcher.folders)
  /\ watcher' = [watcher EXCEPT !.step = "look", !.full = FALSE, !.folders = {}]
  /\ UNCHANGED <<asked, watched, pending, due>>

IntervalElapses ==
  /\ ~due /\ due' = TRUE
  /\ UNCHANGED <<fileVars, roots, indexVars, asked, watcher, watched, pending, answerVars, changes, unseen>>

-----------------------------------------------------------------------------
(* Answers.  The store is asked first: the index may still be an old one.  *)
Shared(f) == RootOf[f] \in Enabled /\ f \notin excluded

Visible ==
  {f \in Track : index[f].at > 0 /\ RootOf[f] \in Enabled /\ f \notin excluded}

Answered(files) == leaked' = leaked \cup {f \in files : ~Shared(f)}

(* share_list, folder_list, and resolve_file for a request or a transfer.  *)
AnswerNow ==
  /\ Answered(Visible)
  /\ UNCHANGED <<fileVars, roots, indexVars, asked, watchVars, excluded, tickets, changes, unseen>>

QueueSearchResponse ==
  /\ Visible # {}
  /\ \E kept \in SUBSET tickets :
       /\ Cardinality(kept) < MaxPending
       /\ tickets' = kept \cup {Visible}
  /\ UNCHANGED <<fileVars, roots, indexVars, asked, watchVars, excluded, leaked, changes, unseen>>

(* The other user has connected: the files are filtered once more.         *)
SendSearchResponse(ticket) ==
  /\ tickets' = tickets \ {ticket}
  /\ Answered(ticket \cap Visible)
  /\ UNCHANGED <<fileVars, roots, indexVars, asked, watchVars, excluded, changes, unseen>>

(* The other user cannot be reached, or the connection is lost.            *)
LoseTickets ==
  /\ tickets # {} /\ tickets' \in SUBSET tickets
  /\ UNCHANGED <<fileVars, roots, indexVars, asked, watchVars, excluded, leaked, changes, unseen>>

SetExcludedPhrases ==
  /\ excluded' \in SUBSET Phrased
  /\ UNCHANGED <<fileVars, roots, indexVars, asked, watchVars, tickets, leaked, changes, unseen>>

SharesNext ==
  \/ \E f \in Track : Edit(f) \/ WalkFile(f)
  \/ \E r \in Root : \/ Measure(r) \/ AddRoot(r) \/ RemoveRoot(r)
                     \/ \E enabled \in BOOLEAN : SetEnabled(r, enabled)
                     \/ \E to \in {"none", "shared", "disabled"} : ApplySettings(r, to)
  \/ PruneDisabledRoots \/ ScanAsked \/ Probe \/ Publish
  \/ (\E retry \in BOOLEAN : Look(retry)) \/ Register \/ Take \/ Scan \/ IntervalElapses
  \/ AnswerNow \/ QueueSearchResponse \/ (\E t \in tickets : SendSearchResponse(t))
  \/ LoseTickets \/ SetExcludedPhrases

SharesSpec == SharesInit /\ [][SharesNext]_sharesVars

-----------------------------------------------------------------------------
(* Nothing is answered that is not shared at that moment, although the     *)
(* index and queued answers may be older than the last change of the roots *)
(* or of the server's phrases (resolve_file, filter_search_response).      *)
AnswersAreShared == leaked = {}

(* "An older scan cannot resurrect disabled shares" (scan_paths): between  *)
(* two holders of the lock the index holds enabled roots only.             *)
IndexFollowsRoots ==
  scan.step = "idle" => \A f \in Track : index[f].at > 0 => RootOf[f] \in Enabled

(* The cache never pairs a file with the header of another version.        *)
CacheIsTrue == \A f \in Track : cache[f].at = cache[f].probed

(* When the watcher has nothing to do and has missed nothing, the index is *)
(* what is on the disk, or what Music Library says of a root it covers.    *)
Quiet ==
  /\ scan = Idle /\ asked = 0 /\ pending = NoChanges /\ ~unseen
  /\ watcher.step = "look" /\ ~watcher.first /\ watcher.seen = Enabled

IndexIsCurrent ==
  Quiet => \A f \in Track :
    index[f] = IF ReadsLibrary(f) THEN [at |-> rows[f], probed |-> rows[f]]
               ELSE IF RootOf[f] \in Enabled THEN [at |-> disk[f], probed |-> disk[f]]
               ELSE Nothing

(* "Wait for startup indexing before validating restored requests"         *)
(* (service/commands.rs): uploads are held up only as long as a scan is    *)
(* under way or has been asked for.                                        *)
UploadsWaitForScansOnly ==
  scanning => \/ scan # Idle \/ asked > 0
              \/ watcher.first \/ watcher.step = "scan" \/ watcher.full
=============================================================================
