----------------------------- MODULE Downloads -----------------------------
(***************************************************************************)
(* The download queue of Forever: TransferHub (connection/downloads.rs),   *)
(* its exact-mirror recovery (downloads/recovery.rs) and the tasks of      *)
(* connection/service/peers.rs that move a queued file to disk.            *)
(*                                                                         *)
(* A transfer waits in the queue, takes a lane (activate_next), asks its   *)
(* source for the file (claim_peer), is offered it under a transfer token  *)
(* (accept_upload_request) and is written by a task that appends to the    *)
(* .part file and finally renames it (begin_file, register_task,           *)
(* receive_file, complete).  Any thread may interrupt it: the user, the    *)
(* source, a timeout, the loss of the server connection, Safe Passage.     *)
(*                                                                         *)
(* The vector of transfers is guarded by one lock, the map of writer tasks *)
(* by another and the Safe Passage state is an atomic.  An action here is  *)
(* one critical section, so that a handler which takes the lock twice is   *)
(* two actions and other threads run in between.                           *)
(***************************************************************************)
EXTENDS Integers, Sequences, FiniteSets

CONSTANTS
  Id,                  \* transfers, each with a local path of its own
  Release,             \* albums; a single file is a release of one transfer
  FilesOf,             \* [Release -> Seq(Id)], in the order of the request
  User,                \* sources
  Writer,              \* slots for file connections (bounds live ones)
  None,
  Size,                \* length of every file, in buffers
  LaneLimits,          \* values of max_concurrent_downloads
  MaxAutomaticRetries, \* 6 in the code
  MaxSources,          \* 4 in the code: automatic_sources
  MaxAttempts,         \* bound: connection tokens handed out
  MaxCrashes,          \* bound: crashes of the application
  Foreign              \* transfers whose final path somebody else may fill

ASSUME SizeAssumption == Size \in Nat \ {0}
ASSUME LaneAssumption == LaneLimits \subseteq Nat \ {0} /\ LaneLimits # {}
ASSUME BoundAssumption ==
  /\ MaxAutomaticRetries \in Nat
  /\ MaxSources \in Nat
  /\ MaxAttempts \in Nat
  /\ MaxCrashes \in Nat
ASSUME FilesAssumption ==
  /\ FilesOf \in [Release -> Seq(Id)]
  /\ \A r \in Release : \A m, n \in DOMAIN FilesOf[r] : FilesOf[r][m] = FilesOf[r][n] => m = n
ASSUME NoneAssumption == None \notin Id \cup Writer \cup User

VARIABLES
  queue,      \* the order of the vector of transfers
  transfers,  \* each transfer's fields
  lanes,      \* max_concurrent_downloads
  part,       \* buffers in the .part file
  final,      \* the file at the final path
  wr,         \* file tasks: spawn_file_download and receive_file
  tasks,      \* the map of registered writers, by transfer
  safety,     \* TransferSafetyState
  sched,      \* activate_next has checked the safety state, not yet locked
  userOp,     \* the pause, cancel or switch between its abort and its lock
  lost,       \* connection_lost is between its abort and its lock
  prep,       \* prepare_transfers_for_restart
  attempts,   \* connection tokens handed out: next_connection_token
  minted,     \* transfer tokens that the sources have offered
  asked,      \* the transfer each claimed connection token asked for
  closed,     \* connections over which nothing more will arrive
  saved,      \* transfers.json
  crashes

queueVars == <<queue, transfers>>
diskVars  == <<part, final>>
taskVars  == <<wr, tasks>>
opVars    == <<sched, userOp, lost, prep>>
peerVars  == <<attempts, minted, asked, closed>>
saveVars  == <<saved, crashes>>
vars == <<queueVars, lanes, diskVars, taskVars, safety, opVars, peerVars, saveVars>>

-----------------------------------------------------------------------------
(* Types.                                                                  *)

Active   == {"Requesting", "RemotelyQueued", "Connecting", "Downloading"}
Status   == Active \cup {"Queued", "Retrying", "Paused", "Completed", "Failed"}
OffQueue == {"Absent", "Removed"}   \* not requested yet, removed from the queue

Retries == 0 .. MaxAutomaticRetries + 1

Transfer == [status: Status \cup OffQueue, user: User \cup {None}, conn: Nat, token: Nat,
             retries: Retries, waiting: BOOLEAN, tried: SUBSET (User \cup {None})]

Stage == {"Idle", "Begun", "Writing", "Holding", "Full", "Failing", "Retrying", "Ended"}

FileTask == [stage: Stage, id: Id \cup {None}, token: Nat, at: Nat, cancelled: BOOLEAN]

Blank(s) == [status |-> s, user |-> None, conn |-> 0, token |-> 0,
             retries |-> 0, waiting |-> FALSE, tried |-> {}]

IdleTask == [stage |-> "Idle", id |-> None, token |-> 0, at |-> 0, cancelled |-> FALSE]

NoPrep == [phase |-> "none", mode |-> "PauseNow", ids |-> {}]

Queued(i)   == transfers[i].status \notin OffQueue
IsActive(i) == transfers[i].status \in Active
ActiveIds   == {i \in Id : IsActive(i)}
Files(r)    == {FilesOf[r][n] : n \in DOMAIN FilesOf[r]}

(* Registered writers hold the .part file open.                            *)
Writing(w) == wr[w].stage \in Stage \ {"Idle", "Begun"}

(* file_attempt: the writer still belongs to the attempt under way.        *)
FileAttempt(w) ==
  /\ wr[w].id # None
  /\ transfers[wr[w].id].status = "Downloading"
  /\ transfers[wr[w].id].token = wr[w].token

(* The vector is searched from the front.                                  *)
IsFirst(i, S) ==
  \E n \in DOMAIN queue : /\ queue[n] = i /\ i \in S
                          /\ \A m \in 1 .. n - 1 : queue[m] \notin S

-----------------------------------------------------------------------------
(* What the handlers do to one transfer, and to the writers.               *)

(* reset_runtime_state                                                     *)
Reset(t) == [t EXCEPT !.conn = 0, !.token = 0, !.waiting = FALSE]

(* back in the local queue, keeping the retries already spent              *)
Requeued(t) == [Reset(t) EXCEPT !.status = "Queued"]

(* back in the local queue as if new: resume, retry, switch, mirror        *)
Renewed(t) == [Requeued(t) EXCEPT !.retries = 0]

Paused(t) == IF t.status = "Completed" THEN t ELSE [Reset(t) EXCEPT !.status = "Paused"]

(* Only a failure that the source reported keeps the age of the wait.      *)
Failed(t, reported) ==
  [t EXCEPT !.status = "Failed", !.conn = 0, !.token = 0, !.waiting = @ /\ reported]

RetriedTwice(t) == \* mutant: a failure is counted twice
  [t EXCEPT !.status = IF t.retries < MaxAutomaticRetries THEN "Retrying" ELSE "Failed",
            !.retries = @ + 2, !.conn = 0, !.token = 0, !.waiting = TRUE]

Retried(t) ==
  [t EXCEPT !.status = IF t.retries < MaxAutomaticRetries THEN "Retrying" ELSE "Failed",
            !.retries = @ + 1, !.conn = 0, !.token = 0, !.waiting = TRUE]

Finished(t) == [Reset(t) EXCEPT !.status = "Completed", !.retries = 0]

(* abort: set the cancellation flag of the registered writers              *)
Cancelled(S) ==
  [w \in Writer |-> IF \E i \in S : tasks[i] = w THEN [wr[w] EXCEPT !.cancelled = TRUE]
                                                 ELSE wr[w]]

(* fail_matching and retry_matching, on a transfer that holds a lane       *)
Fail(i, reported) ==
  /\ transfers' = [transfers EXCEPT ![i] = Failed(@, reported)]
  /\ wr' = Cancelled({i})
  /\ UNCHANGED <<queue, tasks>>

Retry(i) ==
  /\ transfers' = [transfers EXCEPT ![i] = Retried(@)]
  /\ wr' = Cancelled({i})
  /\ UNCHANGED <<queue, tasks>>

(* The transfers of S in the order of the vector, as the one increasing    *)
(* enumeration of their positions.                                         *)
InOrder(S) ==
  LET at == {n \in DOMAIN queue : queue[n] \in S}
  IN {[n \in DOMAIN f |-> queue[f[n]]] :
        f \in {g \in [1 .. Cardinality(at) -> at] :
                /\ \A m, n \in DOMAIN g : m < n => g[m] < g[n]
                /\ \A k \in at : \E n \in DOMAIN g : g[n] = k}}

Remove(S) ==
  /\ queue' \in InOrder(Id \ S)
  /\ transfers' = [i \in Id |-> IF i \in S /\ Queued(i) THEN Blank("Removed") ELSE transfers[i]]

-----------------------------------------------------------------------------
(* Requests from the user.  file_operations is held from the first step of *)
(* such a request to its last, so one runs at a time; the sources and the  *)
(* writers keep running between the two steps.                             *)

EnqueueRelease(r, u) ==
  /\ \A i \in Files(r) : transfers[i].status = "Absent" /\ final[i] = "none" /\ part[i] = 0
  /\ queue' = queue \o FilesOf[r]
  /\ transfers' = [i \in Id |-> IF i \in Files(r)
                                THEN [Blank("Queued") EXCEPT !.user = u] ELSE transfers[i]]
  /\ UNCHANGED <<lanes, diskVars, taskVars, safety, opVars, peerVars, saveVars>>

(* What a request may name: one transfer, or all the files of a release.   *)
Targets == {{i} : i \in Id} \cup {Files(r) : r \in Release}

(* pause, cancel, switch_release_source: abort the writers, then take the  *)
(* lock.  A switch aborts only the writers of transfers that hold a lane.  *)
BeginUserOp(op, S) ==
  /\ userOp = None
  /\ \E i \in S : Queued(i)
  /\ op = "switch" => S \in {Files(r) : r \in Release}
  /\ userOp' = [op |-> op, ids |-> S]
  /\ wr' = Cancelled(IF op = "switch" THEN S \cap ActiveIds ELSE S)
  /\ UNCHANGED <<queueVars, lanes, diskVars, tasks, safety, sched, lost, prep, peerVars, saveVars>>

PauseTransfers ==
  /\ userOp # None /\ userOp.op = "pause"
  /\ transfers' = [i \in Id |-> IF i \in userOp.ids /\ Queued(i)
                                THEN Paused(transfers[i]) ELSE transfers[i]]
  /\ userOp' = None
  /\ UNCHANGED <<queue, lanes, diskVars, taskVars, safety, sched, lost, prep, peerVars, saveVars>>

CancelTransfers ==
  /\ userOp # None /\ userOp.op = "cancel"
  /\ Remove(userOp.ids)
  /\ userOp' = None
  /\ UNCHANGED <<lanes, diskVars, taskVars, safety, sched, lost, prep, peerVars, saveVars>>

(* schedule_partial_cleanup, some time after the transfer was removed      *)
PartialCleanup(i) ==
  /\ transfers[i].status = "Removed" /\ part[i] > 0
  /\ part' = [part EXCEPT ![i] = 0]
  /\ UNCHANGED <<queueVars, lanes, final, taskVars, safety, opVars, peerVars, saveVars>>

(* Files that are not an exact mirror restart from nothing.                *)
SwitchSource(v, exact) ==
  /\ userOp # None /\ userOp.op = "switch"
  /\ LET S == {i \in userOp.ids : Queued(i) /\ transfers[i].status # "Completed"} IN
     /\ S # {} /\ \A i \in S : transfers[i].user # v
     /\ transfers' = [i \in Id |-> IF i \in S THEN [Renewed(transfers[i]) EXCEPT !.user = v]
                                   ELSE transfers[i]]
     /\ part' = [i \in Id |-> IF i \in S /\ ~exact THEN 0 ELSE part[i]]
  /\ userOp' = None
  /\ UNCHANGED <<queue, lanes, final, taskVars, safety, sched, lost, prep, peerVars, saveVars>>

(* AlternativeSourceNotFound, AlternativeSourceMismatch: the writers have   *)
(* been aborted and nothing else has happened.                             *)
SwitchFails ==
  /\ userOp # None /\ userOp.op = "switch"
  /\ userOp' = None
  /\ UNCHANGED <<queueVars, lanes, diskVars, taskVars, safety, sched, lost, prep, peerVars, saveVars>>

(* resume, resume_release; retry_release_issues takes only what failed     *)
Resume(S, from) ==
  /\ userOp = None
  /\ \E i \in S : transfers[i].status \in from
  /\ transfers' = [i \in Id |-> IF i \in S /\ transfers[i].status \in from
                                THEN Renewed(transfers[i]) ELSE transfers[i]]
  /\ UNCHANGED <<queue, lanes, diskVars, taskVars, safety, opVars, peerVars, saveVars>>

ResumeTransfers(S)    == Resume(S, {"Paused", "Failed", "Retrying"})
RetryReleaseIssues(r) == Resume(Files(r), {"Failed"})

(* reorder_queued_release: the block moves before another queued release,  *)
(* or to the end; neither of the two may hold a lane.                      *)
ReorderKeepingBlock(r) == \* mutant: the moved block also stays behind
  /\ \E i \in Files(r) : transfers[i].status = "Queued"
  /\ queue' = queue \o FilesOf[r]
  /\ UNCHANGED <<transfers, lanes, diskVars, taskVars, safety, opVars, peerVars, saveVars>>

ReorderRelease(r) ==
  /\ \E i \in Files(r) : transfers[i].status = "Queued"
  /\ \A i \in Files(r) : ~IsActive(i)
  /\ \E moving \in InOrder(Files(r)), remaining \in InOrder(Id \ Files(r)) :
       \/ queue' = remaining \o moving
       \/ \E n \in DOMAIN remaining :
            /\ transfers[remaining[n]].status = "Queued"
            /\ \A q \in Release : remaining[n] \in Files(q) => \A i \in Files(q) : ~IsActive(i)
            /\ queue' = SubSeq(remaining, 1, n - 1) \o moving
                          \o SubSeq(remaining, n, Len(remaining))
  /\ queue' # queue
  /\ UNCHANGED <<transfers, lanes, diskVars, taskVars, safety, opVars, peerVars, saveVars>>

(* clear_completed: a release goes when all its files are complete         *)
ClearCompleted ==
  /\ userOp = None
  /\ LET done == {i \in Id : \E r \in Release : i \in Files(r) /\
                    \A j \in Files(r) : transfers[j].status \in {"Completed", "Removed"}}
         S == {i \in done : transfers[i].status = "Completed"}
     IN S # {} /\ Remove(S)
  /\ UNCHANGED <<lanes, diskVars, taskVars, safety, opVars, peerVars, saveVars>>

SetMaxConcurrentDownloads(n) ==
  /\ n # lanes
  /\ lanes' = n
  /\ UNCHANGED <<queueVars, diskVars, taskVars, safety, opVars, peerVars, saveVars>>

-----------------------------------------------------------------------------
(* The session: activate_next reads the safety state before it takes the   *)
(* lock, then gives the first transfer that may run a lane.                *)

CheckSafety ==
  /\ ~sched /\ safety = "Running" /\ attempts < MaxAttempts
  /\ sched' = TRUE
  /\ UNCHANGED <<queueVars, lanes, diskVars, taskVars, safety, userOp, lost, prep, peerVars, saveVars>>

(* available_download_index; `due` holds the retries whose delay is over   *)
AvailableIgnoringTasks(due) == \* mutant: a cancelled writer may still run
  {i \in Id : /\ \A j \in ActiveIds : transfers[j].user # transfers[i].user
              /\ \/ transfers[i].status = "Queued"
                 \/ transfers[i].status = "Retrying" /\ i \in due}

AvailableIgnoringSources(due) == \* mutant: several lanes for one source
  {i \in Id : /\ tasks[i] = None
              /\ \/ transfers[i].status = "Queued"
                 \/ transfers[i].status = "Retrying" /\ i \in due}

Available(due) ==
  {i \in Id : /\ tasks[i] = None
              /\ \A j \in ActiveIds : transfers[j].user # transfers[i].user
              /\ \/ transfers[i].status = "Queued"
                 \/ transfers[i].status = "Retrying" /\ i \in due}

LaneLeft == Cardinality(ActiveIds) <= lanes \* mutant: off by one

LaneFree == Cardinality(ActiveIds) < lanes

ActivateNext ==
  /\ sched
  /\ sched' = FALSE
  /\ \E due \in SUBSET {i \in Id : transfers[i].status = "Retrying"} :
       IF LaneFree /\ Available(due) # {}
       THEN /\ \E i \in Id :
                 /\ IsFirst(i, Available(due))
                 /\ transfers' = [transfers EXCEPT ![i].status = "Requesting",
                                                  ![i].conn = attempts + 1,
                                                  ![i].token = 0, ![i].waiting = TRUE]
            /\ attempts' = attempts + 1
       ELSE UNCHANGED <<transfers, attempts>>
  /\ UNCHANGED <<queue, lanes, diskVars, taskVars, safety, userOp, lost, prep,
                 minted, asked, closed, saveVars>>

-----------------------------------------------------------------------------
(* The sources.  c is the connection token of an attempt, ever handed out. *)

ClaimPeer(c) ==
  /\ \E i \in Id :
       /\ transfers[i].status = "Requesting" /\ transfers[i].conn = c
       /\ transfers' = [transfers EXCEPT ![i].status = "RemotelyQueued"]
       /\ asked' = [asked EXCEPT ![c] = [id |-> i, user |-> transfers[i].user]]
  /\ UNCHANGED <<queue, lanes, diskVars, taskVars, safety, opVars, attempts, minted, closed, saveVars>>

TimeoutOfAnyState(c) == \* mutant: the timeout is not tied to its attempt
  /\ c <= attempts
  /\ \E i \in Id : transfers[i].status \in Active \cup {"Retrying"} /\ Retry(i)
  /\ UNCHANGED <<lanes, diskVars, safety, opVars, peerVars, saveVars>>

(* retry_connection: spawn_transfer_request_timeout                        *)
RequestTimeout(c) ==
  /\ \E i \in Id : transfers[i].status = "Requesting" /\ transfers[i].conn = c /\ Retry(i)
  /\ UNCHANGED <<lanes, diskVars, safety, opVars, peerVars, saveVars>>

(* retry_peer: the control connection of c breaks                          *)
PeerConnectionFails(c) ==
  /\ asked[c] # None /\ c \notin closed
  /\ closed' = closed \cup {c}
  /\ LET i == asked[c].id IN
       IF transfers[i].conn = c /\ transfers[i].status \in {"Requesting", "RemotelyQueued"}
       THEN Retry(i) ELSE UNCHANGED <<queueVars, taskVars>>
  /\ UNCHANGED <<lanes, diskVars, safety, opVars, attempts, minted, asked, saveVars>>

(* Any connection of a source that was asked for the file will do.         *)
AskedFor(i) == \E c \in DOMAIN asked : asked[c] = [id |-> i, user |-> transfers[i].user]

(* TRANSFER_REQUEST_CODE: accept_upload_request, else fail_for_filename.   *)
(* The source offers each attempt under a token it has not used before.    *)
TransferRequest(i, sizeMatches) ==
  /\ AskedFor(i)
  /\ IF transfers[i].status = "RemotelyQueued" /\ sizeMatches
     THEN /\ transfers' = [transfers EXCEPT ![i].status = "Connecting", ![i].token = minted + 1]
          /\ minted' = minted + 1
          /\ UNCHANGED <<queue, taskVars>>
     ELSE IsActive(i) /\ Fail(i, TRUE) /\ UNCHANGED minted
  /\ UNCHANGED <<lanes, diskVars, safety, opVars, attempts, asked, closed, saveVars>>

(* UPLOAD_FAILED_CODE and UPLOAD_DENIED_CODE name a file, not an attempt:  *)
(* a source reports once over each connection, whatever has happened since.*)
SourceReport(c, denied) ==
  /\ asked[c] # None /\ c \notin closed
  /\ closed' = closed \cup {c}
  /\ LET i == asked[c].id IN
       IF IsActive(i) /\ transfers[i].user = asked[c].user
       THEN (denied /\ Fail(i, TRUE)) \/ (~denied /\ Retry(i))
       ELSE UNCHANGED <<queueVars, taskVars>>
  /\ UNCHANGED <<lanes, diskVars, safety, opVars, attempts, minted, asked, saveVars>>

UploadFailed(c) == SourceReport(c, FALSE)
UploadDenied(c) == SourceReport(c, TRUE)

(* auto_relay_release_source with exact_recovery_indices and               *)
(* apply_exact_recovery: one critical section                              *)
AutoRelay(r, v) ==
  LET here == {i \in Files(r) : Queued(i)}
      open == {i \in here : transfers[i].status # "Completed"}
      With(t) == IF t.tried = {} THEN {t.user, v} ELSE t.tried \cup {v}
  IN
  /\ safety = "Running"
  /\ \A i \in here : /\ transfers[i].status \notin {"Downloading", "Paused"}
                      /\ transfers[i].user # v
                      /\ Cardinality(transfers[i].tried) < MaxSources
                      /\ v \notin transfers[i].tried
  /\ \E i \in open : transfers[i].waiting
  /\ \A i \in open : /\ transfers[i].status = "Failed" => transfers[i].waiting
                      /\ tasks[i] = None
  /\ transfers' = [i \in Id |-> IF i \in open
                     THEN [Renewed(transfers[i]) EXCEPT !.user = v, !.tried = With(transfers[i])]
                     ELSE transfers[i]]
  /\ UNCHANGED <<queue, lanes, diskVars, taskVars, safety, opVars, peerVars, saveVars>>

-----------------------------------------------------------------------------
(* File connections and the tasks that write the .part files.              *)

FromTheStart(i) == 0 \* mutant: the partial file is ignored

(* The resume offset is the length of the .part file on disk.              *)
Offset(i) == part[i]

(* spawn_file_download, begin_file: a source opens a file connection for a *)
(* transfer token, possibly late or again.  An error fails the transfer.   *)
FileConnection(t) ==
  LET waiting == {i \in Id : transfers[i].status = "Connecting" /\ transfers[i].token = t}
      holding == waiting \cup {i \in Id : transfers[i].status = "Downloading" /\ transfers[i].token = t}
  IN
  /\ \/ \E i \in Id, w \in Writer :
          /\ IsFirst(i, waiting) /\ Offset(i) <= Size /\ wr[w].stage = "Idle"
          /\ transfers' = [transfers EXCEPT ![i].status = "Downloading", ![i].waiting = FALSE]
          /\ wr' = [wr EXCEPT ![w] = [stage |-> "Begun", id |-> i, token |-> t,
                                     at |-> Offset(i), cancelled |-> FALSE]]
          /\ UNCHANGED <<queue, tasks>>
     \/ /\ ~ \E i \in Id : IsFirst(i, waiting) /\ Offset(i) <= Size
        /\ \E i \in Id : IsFirst(i, holding) /\ Fail(i, FALSE)
  /\ UNCHANGED <<lanes, diskVars, safety, opVars, peerVars, saveVars>>

RegisterTask(w) ==
  /\ wr[w].stage = "Begun"
  /\ IF FileAttempt(w)
     THEN /\ tasks' = [tasks EXCEPT ![wr[w].id] = w]
          /\ wr' = [wr EXCEPT ![w].stage = "Writing"]
     ELSE /\ wr' = [wr EXCEPT ![w] = IdleTask]
          /\ UNCHANGED tasks
  /\ UNCHANGED <<queueVars, lanes, diskVars, safety, opVars, peerVars, saveVars>>

Step(w, from, to) ==
  /\ wr[w].stage = from
  /\ wr' = [wr EXCEPT ![w].stage = to]
  /\ UNCHANGED <<queueVars, lanes, diskVars, tasks, safety, opVars, peerVars, saveVars>>

(* receive_file_contents: the flag is checked after each read, and the     *)
(* buffer is written whatever happens to the flag in the meantime.         *)
ReadBuffer(w) == wr[w].at < Size /\ ~wr[w].cancelled /\ Step(w, "Writing", "Holding")

WriteBuffer(w) ==
  /\ wr[w].stage = "Holding"
  /\ wr' = [wr EXCEPT ![w].stage = "Writing", ![w].at = @ + 1]
  /\ part' = [part EXCEPT ![wr[w].id] = @ + 1]
  /\ UNCHANGED <<queueVars, lanes, final, tasks, safety, opVars, peerVars, saveVars>>

StopWriting(w)   == wr[w].cancelled /\ Step(w, "Writing", "Ended")
FinishWriting(w) == wr[w].at >= Size /\ ~wr[w].cancelled /\ Step(w, "Writing", "Full")

(* Silence for 60 seconds and a broken connection are retried; a failure   *)
(* to open, write or secure the file is not.                               *)
ConnectionBreaks(w) == wr[w].at < Size /\ Step(w, "Writing", "Retrying")
WriteFails(w) == Step(w, "Holding", "Failing") \/ Step(w, "Writing", "Failing")

PathUnchecked(i) == TRUE \* mutant: rename over what is there

FinalPathFree(i) == final[i] = "none"

(* complete: rename the .part file under the lock, for the current attempt *)
Complete(w) ==
  LET i == wr[w].id IN
  /\ wr[w].stage = "Full"
  /\ IF FileAttempt(w) /\ FinalPathFree(i)
     THEN /\ final' = [final EXCEPT ![i] = IF part[i] = Size THEN "whole" ELSE "damaged"]
          /\ part' = [part EXCEPT ![i] = 0]
          /\ transfers' = [transfers EXCEPT ![i] = Finished(@)]
          /\ wr' = [wr EXCEPT ![w].stage = "Ended"]
     ELSE /\ wr' = [wr EXCEPT ![w].stage = "Failing"]
          /\ UNCHANGED <<transfers, diskVars>>
  /\ UNCHANGED <<queue, lanes, tasks, safety, opVars, peerVars, saveVars>>

ReportOfCurrent(w) == \* mutant: a task of an earlier attempt returns before unregister_task
  LET i == wr[w].id
      outcome == IF wr[w].stage = "Retrying" THEN Retried(transfers[i]) ELSE Failed(transfers[i], FALSE)
  IN
  /\ wr[w].stage \in {"Failing", "Retrying"} /\ FileAttempt(w)
  /\ transfers' = [transfers EXCEPT ![i] = outcome]
  /\ wr' = [Cancelled({i}) EXCEPT ![w].stage = "Ended"]
  /\ UNCHANGED <<queue, lanes, diskVars, tasks, safety, opVars, peerVars, saveVars>>

(* retry_attempt or fail_attempt                                           *)
ReportOutcome(w) ==
  LET i == wr[w].id
      outcome == IF wr[w].stage = "Retrying" THEN Retried(transfers[i]) ELSE Failed(transfers[i], FALSE)
  IN
  /\ wr[w].stage \in {"Failing", "Retrying"}
  /\ IF FileAttempt(w)
     THEN /\ transfers' = [transfers EXCEPT ![i] = outcome]
          /\ wr' = [Cancelled({i}) EXCEPT ![w].stage = "Ended"]
     ELSE /\ wr' = [wr EXCEPT ![w].stage = "Ended"]
          /\ UNCHANGED transfers
  /\ UNCHANGED <<queue, lanes, diskVars, tasks, safety, opVars, peerVars, saveVars>>

CancelledStaysRegistered(w) == \* mutant: only a clean end unregisters
  /\ wr[w].stage = "Ended"
  /\ tasks' = IF ~wr[w].cancelled THEN [tasks EXCEPT ![wr[w].id] = None] ELSE tasks
  /\ wr' = [wr EXCEPT ![w] = IdleTask]
  /\ UNCHANGED <<queueVars, lanes, diskVars, safety, opVars, peerVars, saveVars>>

(* unregister_task: only the entry made under the same token               *)
UnregisterTask(w) ==
  LET i == wr[w].id IN
  /\ wr[w].stage = "Ended"
  /\ tasks' = IF tasks[i] # None /\ wr[tasks[i]].token = wr[w].token
              THEN [tasks EXCEPT ![i] = None] ELSE tasks
  /\ wr' = [wr EXCEPT ![w] = IdleTask]
  /\ UNCHANGED <<queueVars, lanes, diskVars, safety, opVars, peerVars, saveVars>>

(* Another program puts a file of a different length at the final path.    *)
FileAppears(i) ==
  /\ i \in Foreign /\ final[i] = "none" /\ Queued(i)
  /\ final' = [final EXCEPT ![i] = "foreign"]
  /\ UNCHANGED <<queueVars, lanes, part, taskVars, safety, opVars, peerVars, saveVars>>

-----------------------------------------------------------------------------
(* The loss of the server connection, Safe Passage, crashes.               *)

RequeueActive(S) ==
  /\ transfers' = [i \in Id |-> IF i \in S /\ IsActive(i) THEN Requeued(transfers[i]) ELSE transfers[i]]
  /\ UNCHANGED queue

BeginConnectionLost ==
  /\ ~lost /\ ActiveIds # {}
  /\ lost' = TRUE
  /\ wr' = Cancelled(ActiveIds)
  /\ UNCHANGED <<queueVars, lanes, diskVars, tasks, safety, sched, userOp, prep, peerVars, saveVars>>

ConnectionLost ==
  /\ lost
  /\ lost' = FALSE
  /\ RequeueActive(Id)
  /\ UNCHANGED <<lanes, diskVars, taskVars, safety, sched, userOp, prep, peerVars, saveVars>>

(* begin_restart_preparation stores the safety state and lists the         *)
(* transfers to stop, aborts their writers, and takes the lock.  A drain   *)
(* keeps what is downloading; PauseNow may replace it while it waits.      *)
Stopped(mode) == {i \in Id : mode = "FinishCurrentFiles" => transfers[i].status # "Downloading"}

BeginRestartPreparation(mode) ==
  /\ \/ prep.phase = "none"
     \/ prep.phase = "waiting" /\ prep.mode = "FinishCurrentFiles" /\ mode = "PauseNow"
  /\ prep' = [phase |-> "listed", mode |-> mode,
              ids |-> {i \in Stopped(mode) : transfers[i].status # "Completed"}]
  /\ safety' = IF mode = "PauseNow" THEN "PausedForRestart" ELSE "Draining"
  /\ UNCHANGED <<queueVars, lanes, diskVars, taskVars, sched, userOp, lost, peerVars, saveVars>>

AbortForRestart ==
  /\ prep.phase = "listed"
  /\ prep' = [prep EXCEPT !.phase = "aborted", !.ids = {}]
  /\ wr' = Cancelled(prep.ids)
  /\ UNCHANGED <<queueVars, lanes, diskVars, tasks, safety, sched, userOp, lost, peerVars, saveVars>>

PrepareTransfersForRestart ==
  /\ prep.phase = "aborted"
  /\ prep' = [prep EXCEPT !.phase = "waiting"]
  /\ RequeueActive(Stopped(prep.mode))
  /\ UNCHANGED <<lanes, diskVars, taskVars, safety, sched, userOp, lost, peerVars, saveVars>>

(* once active_task_count() = 0                                            *)
FinishRestartPreparation ==
  /\ prep.phase = "waiting" /\ \A i \in Id : tasks[i] = None
  /\ prep' = [prep EXCEPT !.phase = "ready"]
  /\ safety' = "PausedForRestart"
  /\ RequeueActive(Id)
  /\ UNCHANGED <<lanes, diskVars, taskVars, sched, userOp, lost, peerVars, saveVars>>

(* The installation failed, or the user changed his mind.                  *)
CancelRestartPreparation ==
  /\ prep.phase \in {"waiting", "ready"}
  /\ prep' = NoPrep
  /\ safety' = "Running"
  /\ UNCHANGED <<queueVars, lanes, diskVars, taskVars, sched, userOp, lost, peerVars, saveVars>>

(* The writer thread saves the last snapshot submitted; tokens are not     *)
(* part of it.                                                             *)
Stored(t) == [t EXCEPT !.conn = 0, !.token = 0]

SaveStore ==
  /\ crashes < MaxCrashes
  /\ saved' = [queue |-> queue, transfers |-> [i \in Id |-> Stored(transfers[i])]]
  /\ saved' # saved
  /\ UNCHANGED <<queueVars, lanes, diskVars, taskVars, safety, opVars, peerVars, crashes>>

ReconciledByStatus(i, t) == \* mutant: the final file is not looked at
  IF t.status \in Active THEN [t EXCEPT !.status = "Queued"] ELSE t

(* reconcile_transfer_after_restart                                        *)
Reconciled(i, t) ==
  IF t.status \notin OffQueue /\ final[i] = "whole" THEN [t EXCEPT !.status = "Completed", !.waiting = FALSE]
  ELSE IF t.status \in Active THEN [t EXCEPT !.status = "Queued"]
  ELSE t

Crash ==
  /\ crashes < MaxCrashes
  /\ crashes' = crashes + 1
  /\ queue' = saved.queue
  /\ transfers' = [i \in Id |-> Reconciled(i, saved.transfers[i])]
  /\ wr' = [w \in Writer |-> IdleTask]
  /\ tasks' = [i \in Id |-> None]
  /\ safety' = "Running" /\ sched' = FALSE /\ userOp' = None /\ lost' = FALSE /\ prep' = NoPrep
  /\ asked' = [c \in DOMAIN asked |-> None] /\ closed' = {}
  /\ UNCHANGED <<lanes, diskVars, attempts, minted, saved>>

-----------------------------------------------------------------------------

Init ==
  /\ queue = <<>>
  /\ transfers = [i \in Id |-> Blank("Absent")]
  /\ lanes \in LaneLimits
  /\ part = [i \in Id |-> 0] /\ final = [i \in Id |-> "none"]
  /\ wr = [w \in Writer |-> IdleTask] /\ tasks = [i \in Id |-> None]
  /\ safety = "Running"
  /\ sched = FALSE /\ userOp = None /\ lost = FALSE /\ prep = NoPrep
  /\ attempts = 0 /\ minted = 0
  /\ asked = [c \in 1 .. MaxAttempts |-> None] /\ closed = {}
  /\ saved = [queue |-> queue, transfers |-> transfers]
  /\ crashes = 0

UserStep ==
  \/ \E r \in Release, u \in User : EnqueueRelease(r, u)
  \/ \E op \in {"pause", "cancel", "switch"}, S \in Targets : BeginUserOp(op, S)
  \/ PauseTransfers
  \/ CancelTransfers
  \/ \E v \in User, exact \in BOOLEAN : SwitchSource(v, exact)
  \/ SwitchFails
  \/ \E S \in Targets : ResumeTransfers(S)
  \/ \E r \in Release : RetryReleaseIssues(r) \/ ReorderRelease(r)
  \/ ClearCompleted
  \/ \E n \in LaneLimits : SetMaxConcurrentDownloads(n)

SourceStep ==
  \/ \E c \in 1 .. MaxAttempts : \/ ClaimPeer(c) \/ RequestTimeout(c) \/ PeerConnectionFails(c)
                                \/ UploadFailed(c) \/ UploadDenied(c)
  \/ \E i \in Id, sizeMatches \in BOOLEAN : TransferRequest(i, sizeMatches)
  \/ \E t \in 1 .. MaxAttempts : FileConnection(t)
  \/ \E r \in Release, v \in User : AutoRelay(r, v)

TaskStep(w) ==
  \/ RegisterTask(w) \/ ReadBuffer(w) \/ WriteBuffer(w) \/ StopWriting(w) \/ FinishWriting(w)
  \/ ConnectionBreaks(w) \/ WriteFails(w) \/ Complete(w) \/ ReportOutcome(w) \/ UnregisterTask(w)

ShutdownStep ==
  \/ BeginConnectionLost \/ ConnectionLost
  \/ \E mode \in {"PauseNow", "FinishCurrentFiles"} : BeginRestartPreparation(mode)
  \/ AbortForRestart \/ PrepareTransfersForRestart \/ FinishRestartPreparation \/ CancelRestartPreparation
  \/ SaveStore \/ Crash

Next ==
  \/ UserStep \/ SourceStep \/ ShutdownStep
  \/ CheckSafety \/ ActivateNext
  \/ \E w \in Writer : TaskStep(w)
  \/ \E i \in Id : PartialCleanup(i) \/ FileAppears(i)

Spec == Init /\ [][Next]_vars

-----------------------------------------------------------------------------
(* What the download queue must guarantee: invariants, action properties   *)
(* and liveness.                                                           *)

(* Every variable has its type (TransferSnapshot, DownloadTasks,           *)
(* TransferSafetyState and the store of downloads.rs).                     *)
TypeOK ==
  /\ queue \in Seq(Id)
  /\ transfers \in [Id -> Transfer]
  /\ lanes \in LaneLimits
  /\ part \in [Id -> Nat]
  /\ final \in [Id -> {"none", "whole", "damaged", "foreign"}]
  /\ wr \in [Writer -> FileTask]
  /\ tasks \in [Id -> Writer \cup {None}]
  /\ safety \in {"Running", "Draining", "PausedForRestart"}
  /\ sched \in BOOLEAN
  /\ userOp \in {None} \cup [op: {"pause", "cancel", "switch"}, ids: SUBSET Id]
  /\ lost \in BOOLEAN
  /\ prep \in [phase: {"none", "listed", "aborted", "waiting", "ready"},
                mode: {"PauseNow", "FinishCurrentFiles"}, ids: SUBSET Id]
  /\ attempts \in 0 .. MaxAttempts /\ minted \in Nat
  /\ asked \in [1 .. MaxAttempts -> {None} \cup [id: Id, user: User \cup {None}]]
  /\ closed \subseteq 1 .. MaxAttempts
  /\ saved \in [queue: Seq(Id), transfers: [Id -> Transfer]]
  /\ crashes \in 0 .. MaxCrashes

(* The vector holds each transfer once, and exactly those not removed: no  *)
(* reorder, cancel, clear or restart loses or duplicates one.              *)
QueueHoldsEachOnce ==
  /\ \A m, n \in DOMAIN queue : queue[m] = queue[n] => m = n
  /\ \A i \in Id : Queued(i) <=> \E n \in DOMAIN queue : queue[n] = i

(* One source per lane: no two transfers that hold a lane share a source,  *)
(* however sources are switched under a running queue.                     *)
OneLanePerSource ==
  \A i, j \in ActiveIds : transfers[i].user = transfers[j].user => i = j

(* At most one task at a time writes the .part file of a transfer: a       *)
(* cancelled writer has closed it before the next attempt opens it.        *)
OneWriterPerFile ==
  \A v, w \in Writer : Writing(v) /\ Writing(w) /\ wr[v].id = wr[w].id => v = w

(* Every writer is where the .part file ends, so what it appends is what   *)
(* the source sends next, and the file never grows past its length.        *)
WriterAtEndOfFile ==
  \A w \in Writer : /\ Writing(w) /\ transfers[wr[w].id].status = "Downloading" /\ FileAttempt(w)
                    => wr[w].at = part[wr[w].id]
                    /\ wr[w].at <= Size

(* A file reaches its final path only whole, and then the transfer is      *)
(* complete, also after a crash between the rename and the save.           *)
FinalFileIsWhole ==
  \A i \in Id : /\ final[i] # "damaged"
                /\ Queued(i) => (final[i] = "whole" <=> transfers[i].status = "Completed")

(* The automatic retries are bounded, and no failure is counted twice: a   *)
(* transfer has at most as many retries as connections were requested.     *)
RetriesAreCountedOnce ==
  \A i \in Id : /\ transfers[i].retries <= attempts
                /\ transfers[i].status = "Retrying" => transfers[i].retries \in 1 .. MaxAutomaticRetries

(* A new transfer takes a lane only while one is free; lowering the limit  *)
(* interrupts nothing.                                                     *)
LanesAreRespected ==
  [][ActiveIds' \subseteq ActiveIds \/ Cardinality(ActiveIds') <= lanes]_vars

(* A file that somebody else put at the final path is never replaced.      *)
ForeignFilesSurvive ==
  [][\A i \in Id : final[i] = "foreign" => final'[i] = "foreign"]_vars

-----------------------------------------------------------------------------
(* Fairness.  A task that has been cancelled notices it even while the     *)
(* bandwidth is held (Bandwidth::acquire returns on the flag), and one     *)
(* that has the whole file, or has failed, runs to its end.  Nothing makes *)
(* a writer that is not cancelled read its next buffer: the source may be  *)
(* slow and the hold may last.  A handler that has begun comes to its end, *)
(* and prepare_transfers_for_restart polls the number of tasks.            *)
Cancellable(w) ==
  \/ wr[w].cancelled
  \/ wr[w].stage \notin {"Writing", "Holding"}
  \/ wr[w].stage = "Writing" /\ wr[w].at >= Size

EndUserOp ==
  \/ PauseTransfers \/ CancelTransfers \/ SwitchFails
  \/ \E v \in User, exact \in BOOLEAN : SwitchSource(v, exact)

PassageFairness ==
  /\ \A w \in Writer : WF_vars(Cancellable(w) /\ TaskStep(w))
  /\ WF_vars(EndUserOp) /\ WF_vars(ConnectionLost)
  /\ WF_vars(AbortForRestart) /\ WF_vars(PrepareTransfersForRestart) /\ WF_vars(FinishRestartPreparation)

PassageSpec == Spec /\ PassageFairness

(* With data arriving, or a connection that breaks after 60 seconds of     *)
(* silence, every task runs to its end.                                    *)
LiveSpec == PassageSpec /\ \A w \in Writer : WF_vars(TaskStep(w))

(* A cancelled writer closes its .part file and leaves the map of tasks,   *)
(* so its transfer does not wait for ever (register_task, unregister_task).*)
CancelledWritersClose ==
  \A w \in Writer : (Writing(w) /\ wr[w].cancelled) ~> (wr[w].stage = "Idle")

(* No task is registered for ever: a finished writer never leaves an entry *)
(* behind that would keep its transfer out of the queue.                   *)
TasksAreReleased == \A i \in Id : (tasks[i] # None) ~> (tasks[i] = None)

(* Every task comes to its end, cancelled or not.                          *)
TasksEnd == CancelledWritersClose /\ TasksAreReleased

(* Safe Passage comes to its end: the queue is secured, or the user has    *)
(* taken it back (prepare_transfers_for_restart).                          *)
SafePassageEnds == (prep.phase = "listed") ~> (prep.phase \in {"ready", "none"})

-----------------------------------------------------------------------------
(* What the documents say and the code does not do.                        *)

(* README.md:1089: "A file connection that sends no bytes for 60 seconds   *)
(* enters transient recovery".  A switch that is refused has already       *)
(* aborted the writers, and nothing requeues what they were writing.       *)
SilentFilesRecover ==
  \A i \in Id : (transfers[i].status = "Downloading") ~> (transfers[i].status # "Downloading")
=============================================================================
