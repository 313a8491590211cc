------------------------------ MODULE Uploads ------------------------------
(***************************************************************************)
(* The queue of uploads (connection/uploads.rs) and the tasks that work    *)
(* for it (connection/service/peers.rs, commands.rs): requests of          *)
(* downloaders wait for a slot, are announced over a control connection,   *)
(* sent over a file connection, and may at any moment be cancelled, tried  *)
(* again, time out, or lose the session.                                   *)
(*                                                                         *)
(* Every activation takes a fresh connection_token and a fresh             *)
(* transfer_token, set and cleared together: `attempt` stands for both.    *)
(* Requests are numbered in the order of the vector.  Queue positions,     *)
(* progress and events are left out; the limits in bytes are limits in     *)
(* files here.                                                             *)
(***************************************************************************)
EXTENDS Integers, FiniteSets, Sequences

CONSTANTS
  Id, User,
  RequestOf,       \* the user and the file of each request
  Slots,           \* the numbers of slots the user may set
  Rank,            \* precedence by favorites and privileges
  MaxQueue,        \* MAX_UPLOAD_QUEUE
  MaxFilesPerUser, \* UploadPolicy.max_files_per_user
  MaxAttempts,     \* bound: activations
  MaxConnections,  \* bound: file connections asked for
  MaxFailures,     \* bound: saves that fail
  MaxCrashes       \* bound: crashes of the application

ASSUME IdAssumption == Id \subseteq Nat \ {0} /\ IsFiniteSet(Id)
ASSUME RequestAssumption == \A i \in Id : RequestOf[i].user \in User
ASSUME BoundAssumption ==
  /\ MaxQueue \in Nat /\ MaxFilesPerUser \in Nat /\ MaxAttempts \in Nat
  /\ MaxConnections \in Nat /\ MaxFailures \in Nat /\ MaxCrashes \in Nat

VARIABLES
  uploads,   \* UploadSnapshot of every request, "Absent" when it is not in the vector
  newest,    \* the last id given (next_id)
  served, rank,  \* FairScheduler
  error,     \* persistence_error
  disk,      \* uploads.json
  attempts,  \* what was activated, and how far its control connection is
  failing,   \* attempts fail_connection has found, and not failed yet
  opens,     \* OpenUploadFile commands that wait: the attempts that sent them
  files,     \* file connections and their tasks
  tasks,     \* UploadTasks: the registered ones
  cancel,    \* a cancel under way: the upload, and whether it had finished
  failures, crashes

queueVars == <<uploads, newest, served, rank, error, disk>>
linkVars  == <<attempts, failing, opens>>
taskVars  == <<files, tasks>>
restVars  == <<cancel, crashes>>
vars == <<queueVars, linkVars, taskVars, restVars, failures>>

-----------------------------------------------------------------------------

Status == {"Absent", "Queued", "Connecting", "Uploading", "Completed", "Failed", "Cancelled"}
Active   == {"Connecting", "Uploading"}             \* occupies_slot
Finished == {"Completed", "Failed", "Cancelled"}

(* The claims say nothing without an attempt, and are cleared with it.     *)
Upload(status) ==
  [status |-> status, attempt |-> 0, file |-> 0, control |-> FALSE, claimed |-> FALSE]

In(S)      == {i \in Id : uploads[i].status \in S}
NoCancel == [id |-> 0, finished |-> FALSE]

UserOf     == [i \in Id |-> RequestOf[i].user]
Users(S)   == {UserOf[i] : i \in S}
PendingOf(us) == {i \in Id : us[i].status \in {"Queued"} \cup Active}
Pending    == PendingOf(uploads)

Turns == INSTANCE UploadTurns
           WITH waiting <- In({"Queued"}), active <- In(Active)

UploadOf(n) == attempts[n].id
Current(n)  == uploads[UploadOf(n)].attempt = n
OwnerOf(f)  == UploadOf(files[f].attempt)
To(f, stage) == [files EXCEPT ![f].stage = stage]

(* A connection that is over holds nothing any more.                       *)
Closed(f)  == [files EXCEPT ![f] = [attempt |-> 0, stage |-> "over", stop |-> FALSE]]

(* abort: the tasks of an upload are stopped and leave the map             *)
TasksOf(S)  == {f \in tasks : OwnerOf(f) \in S}
Stopping(S, fs) ==
  [f \in DOMAIN fs |-> IF f \in TasksOf(S) THEN [fs[f] EXCEPT !.stop = TRUE] ELSE fs[f]]

PersistWaiting(us, turn, ok) == \* mutant: uploads under way are not saved
  LET kept == turn \cap Users(PendingOf(us))
      new  == [pending |-> {i \in Id : us[i].status = "Queued"}, served |-> kept] IN
  /\ served' = kept
  /\ error' = ~ok
  /\ IF ok THEN disk' = new /\ UNCHANGED failures
     ELSE /\ failures < MaxFailures /\ failures' = failures + 1
          /\ disk' \in {disk, new}

(* persist: what has not finished, and the turns of its users.  A save     *)
(* that fails may have replaced the file all the same.                     *)
Persist(us, turn, ok) ==
  LET kept == turn \cap Users(PendingOf(us))
      new  == [pending |-> PendingOf(us), served |-> kept] IN
  /\ served' = kept
  /\ error' = ~ok
  /\ IF ok THEN disk' = new /\ UNCHANGED failures
     ELSE /\ failures < MaxFailures /\ failures' = failures + 1
          /\ disk' \in {disk, new}

-----------------------------------------------------------------------------
(* Requests and the scheduler.                                             *)

Duplicate(i) == \E j \in Pending : RequestOf[j] = RequestOf[i]

WithinLimits(i) ==
  /\ Cardinality(Pending) < MaxQueue
  /\ Cardinality({j \in Pending : UserOf[j] = UserOf[i]}) < MaxFilesPerUser

Enqueue(i, ok) ==
  /\ i > newest /\ ~Duplicate(i) /\ WithinLimits(i)
  /\ newest' = i
  /\ LET us == [uploads EXCEPT ![i] = Upload("Queued")] IN
       /\ uploads' = IF ok THEN us ELSE uploads
       /\ Persist(us, served, ok)
  /\ UNCHANGED <<rank, linkVars, taskVars, restVars>>

Activate(i) ==
  /\ \E slots \in Slots : Cardinality(In(Active)) < slots
  /\ Turns!IsNext(i)
  /\ Len(attempts) < MaxAttempts
  /\ uploads' = [uploads EXCEPT ![i] = [Upload("Connecting") EXCEPT !.attempt = Len(attempts) + 1]]
  /\ Persist(uploads', Turns!Round \cup {UserOf[i]}, TRUE)
  /\ attempts' = Append(attempts, [id |-> i, control |-> "checking"])
  /\ UNCHANGED <<newest, rank, failing, opens, taskVars, restVars>>

ActivateKeepingTurn(i) == \* mutant: the turn is not given back
  /\ \E slots \in Slots : Cardinality(In(Active)) < slots
  /\ Turns!IsNext(i)
  /\ failures < MaxFailures /\ failures' = failures + 1
  /\ error' = TRUE
  /\ served' = (Turns!Round \cup {UserOf[i]}) \cap Users(Pending)
  /\ disk' \in {disk, [pending |-> Pending, served |-> served']}
  /\ UNCHANGED <<uploads, newest, rank, linkVars, taskVars, restVars>>

(* A turn that cannot be saved is taken back.                              *)
ActivateUnsaved(i) ==
  /\ \E slots \in Slots : Cardinality(In(Active)) < slots
  /\ Turns!IsNext(i)
  /\ failures < MaxFailures /\ failures' = failures + 1
  /\ error' = TRUE
  /\ disk' \in {disk, [pending |-> Pending,
                       served |-> (Turns!Round \cup {UserOf[i]}) \cap Users(Pending)]}
  /\ UNCHANGED <<uploads, newest, served, rank, linkVars, taskVars, restVars>>

SetPolicy ==
  /\ rank' \in [User -> Rank]
  /\ UNCHANGED <<uploads, newest, served, error, disk, linkVars, taskVars, restVars, failures>>

-----------------------------------------------------------------------------
(* finish, on which every end of an upload relies: cancel gives no         *)
(* attempt, the others are refused when theirs is not the current one.     *)

RefusesAbsent(i, n) == uploads[i].status = "Absent" \* mutant: the attempt is not compared

Refuses(i, n) == uploads[i].status = "Absent" \/ (n # 0 /\ uploads[i].attempt # n)

Finish(i, status, n, fs, ok) ==
  IF Refuses(i, n)
  THEN files' = fs /\ UNCHANGED <<uploads, served, error, disk, failures, tasks>>
  ELSE /\ files' = Stopping({i}, fs)
       /\ tasks' = tasks \ TasksOf({i})
       /\ IF uploads[i].status \in Finished /\ status # "Cancelled"
          THEN UNCHANGED <<uploads, served, error, disk, failures>>
          ELSE /\ uploads' = [uploads EXCEPT ![i] = Upload(status)]
               /\ Persist(uploads', served, ok)

(* fail_attempt                                                            *)
FailAttempt(n, fs, ok) == Finish(UploadOf(n), "Failed", n, fs, ok)

-----------------------------------------------------------------------------
(* The control connection, over which the upload is announced.             *)

Control(n, from, to) ==
  attempts[n].control = from /\ attempts' = [attempts EXCEPT ![n].control = to]

(* ScheduleUploads goes on: the share and the block list allow it, and the *)
(* server is asked to connect us.                                          *)
RequestPeer(n) ==
  /\ Control(n, "checking", "requested")
  /\ UNCHANGED <<queueVars, failing, opens, taskVars, restVars, failures>>

Refuse(n, ok) ==
  /\ Control(n, "checking", "over")
  /\ FailAttempt(n, files, ok)
  /\ UNCHANGED <<newest, rank, failing, opens, restVars>>

(* claim_control: the direct and the indirect route race for it.           *)
ClaimControl(n) ==
  /\ Control(n, "requested", "talking")
  /\ Current(n) /\ uploads[UploadOf(n)].status = "Connecting" /\ ~uploads[UploadOf(n)].control
  /\ uploads' = [uploads EXCEPT ![UploadOf(n)].control = TRUE]
  /\ UNCHANGED <<newest, served, rank, error, disk, failing, opens, taskVars, restVars, failures>>

(* negotiate_upload_on_peer: the downloader allows or declines it.         *)
Allowed(n) ==
  /\ Control(n, "talking", "over")
  /\ opens' = opens \cup {n}
  /\ UNCHANGED <<queueVars, failing, taskVars, restVars, failures>>

Declined(n, ok) ==
  /\ Control(n, "talking", "over")
  /\ FailAttempt(n, files, ok)
  /\ UNCHANGED <<newest, rank, failing, opens, restVars>>

(* fail_connection looks the attempt up: the request has timed out, the    *)
(* server could not connect us, or a connection has failed.                *)
FindConnection(n) ==
  /\ attempts[n].control # "checking" /\ n \notin failing
  /\ Current(n) /\ uploads[UploadOf(n)].status = "Connecting"
  /\ failing' = failing \cup {n}
  /\ UNCHANGED <<queueVars, attempts, opens, taskVars, restVars, failures>>

(* ... and fails it, in a second critical section.                         *)
FailConnection(n, ok) ==
  /\ n \in failing
  /\ failing' = failing \ {n}
  /\ FailAttempt(n, files, ok)
  /\ UNCHANGED <<newest, rank, attempts, opens, restVars>>

-----------------------------------------------------------------------------
(* The file connection.                                                    *)

(* prepare_file_connection, which the command names by the upload only.    *)
OpenUploadFile(n) ==
  /\ n \in opens
  /\ opens' = opens \ {n}
  /\ LET i == UploadOf(n) IN
       IF uploads[i].status = "Connecting"
       THEN /\ Len(files) < MaxConnections
            /\ files' = Append(files, [attempt |-> 0, stage |-> "asked", stop |-> FALSE])
            /\ uploads' = [uploads EXCEPT ![i].file = Len(files) + 1, ![i].claimed = FALSE]
       ELSE UNCHANGED <<files, uploads>>
  /\ UNCHANGED <<newest, served, rank, error, disk, attempts, failing, tasks, restVars, failures>>

ClaimFile(f) ==
  /\ files[f].stage = "asked"
  /\ \E i \in Id :
       /\ uploads[i].status = "Connecting" /\ ~uploads[i].claimed /\ uploads[i].file = f
       /\ uploads' = [uploads EXCEPT ![i].claimed = TRUE]
       /\ files' = [files EXCEPT ![f].stage = "claimed", ![f].attempt = uploads[i].attempt]
  /\ UNCHANGED <<newest, served, rank, error, disk, linkVars, tasks, restVars, failures>>

(* spawn_file_upload: begin_file accepts the attempt ...                   *)
BeginFile(f) ==
  /\ files[f].stage = "claimed"
  /\ Current(files[f].attempt) /\ uploads[OwnerOf(f)].status = "Connecting"
  /\ uploads' = [uploads EXCEPT ![OwnerOf(f)].status = "Uploading"]
  /\ files' = To(f, "begun")
  /\ UNCHANGED <<newest, served, rank, error, disk, linkVars, tasks, restVars, failures>>

(* ... or refuses it, as do the share, the block list, the size of the     *)
(* file and a connection that breaks, and the attempt is failed.           *)
BeginFails(f, ok) ==
  /\ files[f].stage = "claimed"
  /\ FailAttempt(files[f].attempt, Closed(f), ok)
  /\ UNCHANGED <<newest, rank, linkVars, restVars>>

RegisterAnyTask(f) == \* mutant: the upload is not looked at again
  /\ files[f].stage = "begun"
  /\ files' = To(f, "sending") /\ tasks' = tasks \cup {f}
  /\ UNCHANGED <<queueVars, linkVars, restVars, failures>>

RegisterTask(f) ==
  /\ files[f].stage = "begun"
  /\ IF Current(files[f].attempt) /\ uploads[OwnerOf(f)].status = "Uploading"
     THEN files' = To(f, "sending") /\ tasks' = tasks \cup {f}
     ELSE files' = Closed(f) /\ UNCHANGED tasks
  /\ UNCHANGED <<queueVars, linkVars, restVars, failures>>

(* send_file: all is sent and confirmed, the connection breaks, or the     *)
(* flag is seen.  What follows is decided before the queue is told.        *)
Confirmed(f) ==
  /\ files[f].stage = "sending" /\ ~files[f].stop
  /\ files' = To(f, "sent")
  /\ UNCHANGED <<queueVars, linkVars, tasks, restVars, failures>>

Broken(f) ==
  /\ files[f].stage = "sending" /\ ~files[f].stop
  /\ files' = To(f, "broken")
  /\ UNCHANGED <<queueVars, linkVars, tasks, restVars, failures>>

Stopped(f) ==
  /\ files[f].stage = "sending" /\ files[f].stop
  /\ files' = To(f, "ending")
  /\ UNCHANGED <<queueVars, linkVars, tasks, restVars, failures>>

ReportSuccess(f, ok) == \* mutant: a broken connection is not reported
  /\ \/ /\ files[f].stage = "sent"
        /\ Finish(OwnerOf(f), "Completed", files[f].attempt, To(f, "ending"), ok)
     \/ /\ files[f].stage = "broken"
        /\ files' = To(f, "ending")
        /\ UNCHANGED <<uploads, served, error, disk, failures, tasks>>
  /\ UNCHANGED <<newest, rank, linkVars, restVars>>

(* complete and fail_attempt                                               *)
Report(f, ok) ==
  /\ \/ /\ files[f].stage = "sent"
        /\ Finish(OwnerOf(f), "Completed", files[f].attempt, To(f, "ending"), ok)
     \/ /\ files[f].stage = "broken"
        /\ FailAttempt(files[f].attempt, To(f, "ending"), ok)
  /\ UNCHANGED <<newest, rank, linkVars, restVars>>

UnregisterTask(f) ==
  /\ files[f].stage = "ending"
  /\ files' = Closed(f)
  /\ tasks' = {g \in tasks : files[g].attempt # files[f].attempt}
  /\ UNCHANGED <<queueVars, linkVars, restVars, failures>>

-----------------------------------------------------------------------------
(* The user.                                                               *)

(* cancel reads whether the upload has finished ...                        *)
BeginCancel(i) ==
  /\ uploads[i].status # "Absent" /\ cancel = NoCancel
  /\ cancel' = [id |-> i, finished |-> uploads[i].status \in Finished]
  /\ UNCHANGED <<queueVars, linkVars, taskVars, crashes, failures>>

(* ... and in a second critical section removes it, or finishes it.        *)
EndCancel(i, ok) ==
  /\ cancel.id = i
  /\ cancel' = NoCancel
  /\ IF cancel.finished
     THEN /\ uploads' = [uploads EXCEPT ![i] = Upload("Absent")]
          /\ UNCHANGED <<served, error, disk, failures, taskVars>>
     ELSE Finish(i, "Cancelled", 0, files, ok)
  /\ UNCHANGED <<newest, rank, linkVars, crashes>>

RetryUnchecked(i, ok) == \* mutant: the same file may wait twice
  /\ uploads[i].status = "Failed"
  /\ WithinLimits(i)
  /\ uploads' = [uploads EXCEPT ![i] = Upload("Queued")]
  /\ Persist(uploads', served, ok)
  /\ UNCHANGED <<newest, rank, linkVars, taskVars, restVars>>

(* The record is dropped when the same file waits again already.           *)
Retry(i, ok) ==
  /\ uploads[i].status = "Failed"
  /\ Duplicate(i) \/ WithinLimits(i)
  /\ uploads' = [uploads EXCEPT ![i] = Upload(IF Duplicate(i) THEN "Absent" ELSE "Queued")]
  /\ Persist(uploads', served, ok)
  /\ UNCHANGED <<newest, rank, linkVars, taskVars, restVars>>

ClearFinished(ok) ==
  /\ uploads' = [i \in Id |-> IF uploads[i].status \in Finished THEN Upload("Absent") ELSE uploads[i]]
  /\ Persist(uploads', served, ok)
  /\ UNCHANGED <<newest, rank, linkVars, taskVars, restVars>>

RetrySave(ok) ==
  /\ error
  /\ Persist(uploads, served, ok)
  /\ UNCHANGED <<uploads, newest, rank, linkVars, taskVars, restVars>>

-----------------------------------------------------------------------------
(* The session ends, or the application.                                   *)

(* Commands to the old session are lost with it, and the control           *)
(* connections that go on hold attempts nobody has any more.               *)
LinksOver ==
  /\ attempts' = [n \in DOMAIN attempts |-> [attempts[n] EXCEPT !.control = "over"]]
  /\ opens' = {}

ConnectionLost(ok) ==
  /\ uploads' = [i \in Id |-> IF uploads[i].status \in Active THEN Upload("Queued") ELSE uploads[i]]
  /\ files' = Stopping(In(Active), files)
  /\ tasks' = tasks \ TasksOf(In(Active))
  /\ Persist(uploads', served, ok)
  /\ LinksOver
  /\ UNCHANGED <<newest, rank, failing, restVars>>

Crash ==
  /\ crashes < MaxCrashes
  /\ crashes' = crashes + 1
  /\ uploads' = [i \in Id |-> Upload(IF i \in disk.pending THEN "Queued" ELSE "Absent")]
  /\ served' = disk.served /\ error' = FALSE
  /\ LinksOver /\ failing' = {}
  /\ files' = [f \in DOMAIN files |-> [attempt |-> 0, stage |-> "over", stop |-> FALSE]] /\ tasks' = {}
  /\ cancel' = NoCancel
  /\ UNCHANGED <<newest, rank, disk, failures>>

-----------------------------------------------------------------------------

Init ==
  /\ uploads = [i \in Id |-> Upload("Absent")]
  /\ newest = 0
  /\ served = {} /\ rank \in [User -> Rank]
  /\ error = FALSE /\ disk = [pending |-> {}, served |-> {}]
  /\ attempts = <<>> /\ failing = {} /\ opens = {}
  /\ files = <<>> /\ tasks = {}
  /\ cancel = NoCancel
  /\ failures = 0 /\ crashes = 0

LinkStep(n, ok) ==
  \/ RequestPeer(n) \/ Refuse(n, ok) \/ ClaimControl(n) \/ Allowed(n) \/ Declined(n, ok)
  \/ FindConnection(n) \/ FailConnection(n, ok) \/ OpenUploadFile(n)

TaskStep(f, ok) ==
  \/ ClaimFile(f) \/ BeginFile(f) \/ BeginFails(f, ok) \/ RegisterTask(f)
  \/ Confirmed(f) \/ Broken(f) \/ Stopped(f) \/ Report(f, ok) \/ UnregisterTask(f)

Next ==
  \E ok \in BOOLEAN :
    \/ \E i \in Id : Enqueue(i, ok) \/ Activate(i) \/ ActivateUnsaved(i) \/ EndCancel(i, ok) \/ Retry(i, ok)
    \/ \E i \in Id : BeginCancel(i)
    \/ \E n \in DOMAIN attempts : LinkStep(n, ok)
    \/ \E f \in DOMAIN files : TaskStep(f, ok)
    \/ ClearFinished(ok) \/ RetrySave(ok) \/ ConnectionLost(ok)
    \/ SetPolicy \/ Crash

Spec == Init /\ [][Next]_vars

(* Fairness: the session loop and the tasks run, the request timeout fires *)
(* (spawn_upload_request_timeout), and a task looks at its flag every 50   *)
(* milliseconds (send_file).  Nobody has to ask, answer, read or make room.*)
LiveSpec ==
  /\ Spec
  /\ \A n \in 1 .. MaxAttempts :
       WF_vars(\E ok \in BOOLEAN : n \in DOMAIN attempts /\
         (RequestPeer(n) \/ FindConnection(n) \/ FailConnection(n, ok)))
  /\ \A f \in 1 .. MaxConnections :
       WF_vars(\E ok \in BOOLEAN : f \in DOMAIN files /\
         (RegisterTask(f) \/ Stopped(f) \/ Report(f, ok) \/ UnregisterTask(f)))

-----------------------------------------------------------------------------
(* Every variable has its type; only an upload that holds a slot has an    *)
(* attempt, and a waiting one starts with no trace of an earlier attempt   *)
(* (reset_pending, finish).                                                *)
TypeOK ==
  /\ uploads \in [Id -> [status : Status, attempt : 0 .. MaxAttempts, file : 0 .. MaxConnections,
                         control : BOOLEAN, claimed : BOOLEAN]]
  /\ \A i \in Id : IF uploads[i].status \in Active THEN uploads[i].attempt \in DOMAIN attempts
                   ELSE uploads[i] = Upload(uploads[i].status)
  /\ newest \in Id \cup {0}
  /\ served \subseteq User /\ rank \in [User -> Rank]
  /\ error \in BOOLEAN
  /\ disk \in [pending : SUBSET Id, served : SUBSET User]
  /\ attempts \in Seq([id : Id, control : {"checking", "requested", "talking", "over"}])
  /\ failing \subseteq DOMAIN attempts /\ opens \subseteq DOMAIN attempts
  /\ files \in Seq([attempt : 0 .. MaxAttempts, stop : BOOLEAN, stage :
       {"asked", "claimed", "begun", "sending", "sent", "broken", "ending", "over"}])
  /\ tasks \subseteq DOMAIN files
  /\ cancel \in [id : Id \cup {0}, finished : BOOLEAN]
  /\ failures \in 0 .. MaxFailures /\ crashes \in 0 .. MaxCrashes

(* A task that sends and has not been told to stop works for the attempt   *)
(* under way (register_task, abort), unless the record was removed behind  *)
(* its back: a cancel that has seen it finished, before a retry, removes   *)
(* it without another look.                                                *)
SendersAreCurrent ==
  \A f \in DOMAIN files : files[f].stage = "sending" /\ ~files[f].stop =>
    \/ uploads[OwnerOf(f)].status = "Uploading" /\ Current(files[f].attempt)
    \/ uploads[OwnerOf(f)].status = "Absent"

(* An upload completes only when the downloader has confirmed the very     *)
(* attempt that is under way, whatever reports come late (CHANGELOG.md:642 *)
(* "Stale upload progress, completion, failures, and task cleanup cannot   *)
(* alter a later retry").                                                  *)
CompletedWasSent ==
  [][\A i \in Id : uploads'[i].status = "Completed" /\ uploads[i].status # "Completed"
       => \E f \in DOMAIN files : files[f].stage = "sent" /\ files[f].attempt = uploads[i].attempt]_vars

(* uploads.json can always be read again: decode_store rejects the whole   *)
(* queue when it holds a request twice, or too many.                       *)
DiskDecodes ==
  /\ \A i, j \in disk.pending : RequestOf[i] = RequestOf[j] => i = j
  /\ Cardinality(disk.pending) <= MaxQueue
  /\ Cardinality(disk.served) <= MaxQueue

(* What was accepted is on disk, in a file that can be read again, unless  *)
(* the user is told otherwise: no accepted request is lost by a restart    *)
(* (persist, persistence_error, decode_store).                             *)
AcceptedSurvives == DiskDecodes /\ (~error => Pending \subseteq disk.pending)

(* An attempt that sends nothing does not hold its slot for ever, also     *)
(* when its timeout, its file connection and the user race each other.     *)
(* How long it may send is up to the downloader.                           *)
Idle(n) ==
  /\ \E i \in Id : uploads[i].attempt = n
  /\ \A f \in DOMAIN files : files[f].attempt = n => files[f].stage # "sending"

SlotsAreReleased == \A n \in 1 .. MaxAttempts : Idle(n) ~> ~Idle(n)

(* The queue gives slots as UploadTurns says, and only a crash may restart *)
(* it: no failed save costs anyone a turn (activate_next).                 *)
ImplementsTurns ==
  Turns!Init /\ [][IF crashes' = crashes THEN Turns!QueueStep ELSE Turns!Restart]_(Turns!turnVars)

=============================================================================
