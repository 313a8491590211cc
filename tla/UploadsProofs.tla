--------------------------- MODULE UploadsProofs ---------------------------
(***************************************************************************)
(* The queue of uploads loses no request it has accepted, reports no       *)
(* success nobody has confirmed, lets nobody send for an attempt that is   *)
(* over, and gives its slots as UploadTurns says, for any number of        *)
(* requests, users, connections, failed saves and crashes.                 *)
(***************************************************************************)
EXTENDS Uploads, FiniteSetTheorems, SequenceTheorems, TLAPS

(* The stages of a file connection that works for an attempt; of one that  *)
(* begin_file has accepted; of one whose task may be registered.           *)
Claimed    == {"claimed", "begun", "sending", "sent", "broken", "ending"}
Begun      == {"begun", "sending", "sent", "broken", "ending"}
Registered == {"sending", "sent", "broken", "ending"}

(* Uploads, attempts and file connections name each other consistently.    *)
LinksOK ==
  /\ Len(attempts) <= MaxAttempts /\ Len(files) <= MaxConnections
  /\ \A i \in Id : uploads[i].status \in Active => UploadOf(uploads[i].attempt) = i
  /\ \A f \in DOMAIN files : files[f].stage \in Claimed => files[f].attempt \in DOMAIN attempts
  /\ \A f \in tasks : files[f].stage \in Registered

TypeInv == TypeOK /\ LinksOK

(* No id is given twice.                                                   *)
NumbersOK ==
  /\ \A i \in Id : uploads[i].status # "Absent" => i <= newest
  /\ \A n \in DOMAIN attempts : UploadOf(n) <= newest
  /\ \A i \in disk.pending : i <= newest

(* At most one file connection of an attempt is accepted; its upload is    *)
(* then Uploading for as long as the attempt is current, and a task that   *)
(* sends can be told to stop.                                              *)
TasksOK ==
  /\ \A f, g \in DOMAIN files :
       files[f].stage \in Begun /\ files[g].stage \in Begun /\ files[f].attempt = files[g].attempt => f = g
  /\ \A f \in DOMAIN files :
       files[f].stage \in Begun /\ Current(files[f].attempt) => uploads[OwnerOf(f)].status = "Uploading"
  /\ \A f \in DOMAIN files : files[f].stage = "sending" /\ ~files[f].stop => f \in tasks
  /\ SendersAreCurrent

(* No file waits twice for a user, and the limits hold, in the queue and   *)
(* in what may have been saved of it.                                      *)
NoneTwice(S) == \A i, j \in S : RequestOf[i] = RequestOf[j] => i = j

DiskOK ==
  /\ NoneTwice(Pending) /\ Cardinality(Pending) <= MaxQueue
  /\ NoneTwice(disk.pending) /\ Cardinality(disk.pending) <= MaxQueue
  /\ disk.served \subseteq Users(disk.pending)
  /\ ~error => Pending \subseteq disk.pending

-----------------------------------------------------------------------------
(* What a save does, and what the end of an upload does.                   *)
LEMMA Saved ==
  ASSUME NEW us, NEW turn, NEW ok \in BOOLEAN, Persist(us, turn, ok),
         failures \in 0 .. MaxFailures
  PROVE  /\ served' = turn \cap Users(PendingOf(us))
         /\ error' \in BOOLEAN
         /\ \/ disk' = disk
            \/ disk' = [pending |-> PendingOf(us), served |-> turn \cap Users(PendingOf(us))]
         /\ ~error' => disk' = [pending |-> PendingOf(us), served |-> turn \cap Users(PendingOf(us))]
         /\ failures' \in 0 .. MaxFailures
<1>1. CASE ok = TRUE
  <2>1. error' = FALSE  BY <1>1 DEF Persist
  <2>2. /\ disk' = [pending |-> PendingOf(us), served |-> turn \cap Users(PendingOf(us))]
        /\ failures' = failures
    BY <1>1 DEF Persist
  <2>3. served' = turn \cap Users(PendingOf(us))  BY DEF Persist
  <2>. QED  BY <2>1, <2>2, <2>3
<1>2. CASE ok = FALSE
  <2>1. error' = TRUE  BY <1>2 DEF Persist
  <2>2. failures' \in 0 .. MaxFailures  BY <1>2, BoundAssumption DEF Persist
  <2>3. disk' \in {disk, [pending |-> PendingOf(us), served |-> turn \cap Users(PendingOf(us))]}
    BY <1>2 DEF Persist
  <2>4. served' = turn \cap Users(PendingOf(us))  BY DEF Persist
  <2>. QED  BY <2>1, <2>2, <2>3, <2>4
<1>. QED  BY <1>1, <1>2

LEMMA UsersType == \A S \in SUBSET Id : Users(S) \subseteq User
  BY RequestAssumption DEF Users, UserOf

LEMMA PendingType == \A us : PendingOf(us) \subseteq Id
  BY DEF PendingOf

(* A save keeps the types of what it writes.                               *)
QueueTypeOK ==
  /\ served \subseteq User
  /\ error \in BOOLEAN
  /\ disk \in [pending : SUBSET Id, served : SUBSET User]
  /\ failures \in 0 .. MaxFailures

LEMMA SavedType ==
  ASSUME QueueTypeOK, NEW us, NEW turn, NEW ok \in BOOLEAN, Persist(us, turn, ok)
  PROVE  QueueTypeOK'
<1>1. PendingOf(us) \in SUBSET Id /\ Users(PendingOf(us)) \subseteq User
  BY UsersType, PendingType
<1>2. /\ served' = turn \cap Users(PendingOf(us))
      /\ error' \in BOOLEAN
      /\ \/ disk' = disk
         \/ disk' = [pending |-> PendingOf(us), served |-> turn \cap Users(PendingOf(us))]
      /\ failures' \in 0 .. MaxFailures
  BY Saved DEF QueueTypeOK
<1>3. disk' \in [pending : SUBSET Id, served : SUBSET User]
  BY <1>1, <1>2 DEF QueueTypeOK
<1>. QED  BY <1>1, <1>2, <1>3 DEF QueueTypeOK

-----------------------------------------------------------------------------
(* Types, by the groups of variables that change together.                 *)
Rec == [status : Status, attempt : 0 .. MaxAttempts, file : 0 .. MaxConnections,
        control : BOOLEAN, claimed : BOOLEAN]

UploadsTypeOK ==
  /\ uploads \in [Id -> Rec]
  /\ \A i \in Id : IF uploads[i].status \in Active THEN uploads[i].attempt \in DOMAIN attempts
                   ELSE uploads[i] = Upload(uploads[i].status)
  /\ \A i \in Id : uploads[i].status \in Active => UploadOf(uploads[i].attempt) = i

Attempt == [id : Id, control : {"checking", "requested", "talking", "over"}]

LinksTypeOK ==
  /\ attempts \in Seq(Attempt)
  /\ Len(attempts) <= MaxAttempts
  /\ failing \subseteq DOMAIN attempts /\ opens \subseteq DOMAIN attempts

File == [attempt : 0 .. MaxAttempts, stop : BOOLEAN, stage :
          {"asked", "claimed", "begun", "sending", "sent", "broken", "ending", "over"}]

FilesTypeOK ==
  /\ files \in Seq(File) /\ Len(files) <= MaxConnections
  /\ tasks \subseteq DOMAIN files
  /\ \A f \in DOMAIN files : files[f].stage \in Claimed => files[f].attempt \in DOMAIN attempts
  /\ \A f \in tasks : files[f].stage \in Registered

RestTypeOK ==
  /\ newest \in Id \cup {0} /\ rank \in [User -> Rank]
  /\ cancel \in [id : Id \cup {0}, finished : BOOLEAN]
  /\ crashes \in 0 .. MaxCrashes

LEMMA TypeParts ==
  TypeInv <=> UploadsTypeOK /\ LinksTypeOK /\ FilesTypeOK /\ QueueTypeOK /\ RestTypeOK
BY DEF TypeInv, TypeOK, LinksOK, UploadsTypeOK, LinksTypeOK, FilesTypeOK, QueueTypeOK, RestTypeOK,
       Rec, File, Attempt

LEMMA TypePartsPrimed ==
  TypeInv' <=> UploadsTypeOK' /\ LinksTypeOK' /\ FilesTypeOK' /\ QueueTypeOK' /\ RestTypeOK'
BY TypeParts, PTL

LEMMA TypeInit == Init => TypeInv
<1>. SUFFICES ASSUME Init PROVE TypeInv
  OBVIOUS
<1>1. UploadsTypeOK
  <2>1. 0 \in 0 .. MaxAttempts /\ 0 \in 0 .. MaxConnections  BY BoundAssumption
  <2>2. Upload("Absent") \in Rec  BY <2>1 DEF Upload, Rec, Status
  <2>3. uploads \in [Id -> Rec]  BY <2>2 DEF Init
  <2>. QED  BY <2>3 DEF Init, UploadsTypeOK, Active, Upload
<1>2. LinksTypeOK  BY BoundAssumption DEF Init, LinksTypeOK
<1>3. FilesTypeOK  BY BoundAssumption DEF Init, FilesTypeOK
<1>4. QueueTypeOK
  <2>1. error \in BOOLEAN  BY DEF Init
  <2>2. failures \in 0 .. MaxFailures  BY BoundAssumption DEF Init
  <2>. QED  BY <2>1, <2>2 DEF Init, QueueTypeOK
<1>5. RestTypeOK
  <2>1. cancel \in [id : Id \cup {0}, finished : BOOLEAN]
    <3>1. FALSE \in BOOLEAN  OBVIOUS
    <3>. QED  BY <3>1 DEF Init, NoCancel
  <2>2. crashes \in 0 .. MaxCrashes  BY BoundAssumption DEF Init
  <2>. QED  BY <2>1, <2>2 DEF Init, RestTypeOK
<1>. QED  BY <1>1, <1>2, <1>3, <1>4, <1>5, TypeParts

-----------------------------------------------------------------------------
(* The steps that end an upload, and whose attempt they name.              *)
EndedFiles ==
  {files} \cup {Closed(f) : f \in {g \in DOMAIN files : files[g].stage = "claimed"}}
          \cup {To(f, "ending") : f \in {g \in DOMAIN files : files[g].stage \in {"sent", "broken"}}}

Ends(i, ok) ==
  /\ \E status \in Finished, n \in 0 .. MaxAttempts, fs \in EndedFiles :
       /\ IF n = 0 THEN status = "Cancelled" ELSE n \in DOMAIN attempts /\ UploadOf(n) = i
       /\ status = "Completed" =>
            \E f \in DOMAIN files : files[f].stage = "sent" /\ files[f].attempt = n
       /\ Finish(i, status, n, fs, ok)
  /\ UNCHANGED <<newest, rank, opens, crashes>>

LEMMA AttemptType ==
  ASSUME LinksTypeOK, NEW n \in DOMAIN attempts
  PROVE  n \in 1 .. MaxAttempts /\ UploadOf(n) \in Id /\ n # 0 /\ n \in 0 .. MaxAttempts
<1>1. n \in 1 .. Len(attempts) /\ Len(attempts) \in Nat  BY LenProperties DEF LinksTypeOK
<1>2. attempts[n] \in Attempt  BY <1>1, ElementOfSeq DEF LinksTypeOK
<1>3. attempts[n].id \in Id  BY <1>2 DEF Attempt
<1>. QED  BY <1>1, <1>3, BoundAssumption DEF UploadOf, LinksTypeOK

LEMMA FailIsEnd ==
  ASSUME LinksTypeOK, NEW n \in DOMAIN attempts, NEW fs \in EndedFiles, NEW ok \in BOOLEAN,
         FailAttempt(n, fs, ok), UNCHANGED <<newest, rank, opens, crashes>>
  PROVE  \E i \in Id : Ends(i, ok)
<1>1. UploadOf(n) \in Id /\ n # 0 /\ n \in 0 .. MaxAttempts  BY AttemptType
<1>2. "Failed" \in Finished /\ "Failed" # "Completed"  BY DEF Finished
<1>3. Finish(UploadOf(n), "Failed", n, fs, ok)  BY DEF FailAttempt
<1>4. Ends(UploadOf(n), ok)  BY <1>1, <1>2, <1>3 DEF Ends
<1>. QED  BY <1>1, <1>4

LEMMA LinkEnds ==
  ASSUME TypeInv, NEW n \in DOMAIN attempts, NEW ok \in BOOLEAN,
         Refuse(n, ok) \/ Declined(n, ok) \/ FailConnection(n, ok)
  PROVE  \E i \in Id : Ends(i, ok)
<1>1. files \in EndedFiles  BY DEF EndedFiles
<1>2. FailAttempt(n, files, ok) /\ UNCHANGED <<newest, rank, opens, crashes>>
  BY DEF Refuse, Declined, FailConnection, restVars
<1>. QED  BY <1>1, <1>2, FailIsEnd, TypeParts

LEMMA TaskEnds ==
  ASSUME TypeInv, NEW f \in DOMAIN files, NEW ok \in BOOLEAN,
         BeginFails(f, ok) \/ Report(f, ok)
  PROVE  \E i \in Id : Ends(i, ok)
<1>. DEFINE n == files[f].attempt
<1>1. files[f].stage \in Claimed  BY DEF BeginFails, Report, Claimed
<1>2. n \in DOMAIN attempts /\ LinksTypeOK  BY <1>1, TypeParts DEF FilesTypeOK
<1>3. UNCHANGED <<newest, rank, opens, crashes>>
  BY DEF BeginFails, Report, restVars, linkVars
<1>4. CASE BeginFails(f, ok)
  <2>1. Closed(f) \in EndedFiles  BY <1>4 DEF BeginFails, EndedFiles
  <2>. QED  BY <1>2, <1>3, <1>4, <2>1, FailIsEnd DEF BeginFails
<1>5. CASE Report(f, ok) /\ files[f].stage = "broken"
  <2>1. To(f, "ending") \in EndedFiles  BY <1>5 DEF EndedFiles
  <2>. QED  BY <1>2, <1>3, <1>5, <2>1, FailIsEnd DEF Report
<1>6. CASE Report(f, ok) /\ files[f].stage = "sent"
  <2>1. To(f, "ending") \in EndedFiles  BY <1>6 DEF EndedFiles
  <2>2. UploadOf(n) \in Id /\ n # 0 /\ n \in 0 .. MaxAttempts  BY <1>2, AttemptType
  <2>3. Finish(UploadOf(n), "Completed", n, To(f, "ending"), ok)  BY <1>6 DEF Report, OwnerOf
  <2>4. "Completed" \in Finished  BY DEF Finished
  <2>5. Ends(UploadOf(n), ok)  BY <1>2, <1>3, <1>6, <2>1, <2>2, <2>3, <2>4 DEF Ends
  <2>. QED  BY <2>2, <2>5
<1>. QED  BY <1>4, <1>5, <1>6 DEF Report

LEMMA CancelEnds ==
  ASSUME TypeInv, NEW i \in Id, NEW ok \in BOOLEAN, EndCancel(i, ok), ~cancel.finished
  PROVE  Ends(i, ok)
<1>1. files \in EndedFiles /\ "Cancelled" \in Finished /\ 0 \in 0 .. MaxAttempts
  BY BoundAssumption DEF EndedFiles, Finished
<1>2. Finish(i, "Cancelled", 0, files, ok) /\ UNCHANGED <<newest, rank, opens, crashes>>
  BY DEF EndCancel, linkVars
<1>. QED  BY <1>1, <1>2 DEF Ends

-----------------------------------------------------------------------------
(* Attempts are never forgotten, and never pass to another upload.         *)
AttemptsKept ==
  /\ DOMAIN attempts \subseteq DOMAIN attempts'
  /\ \A n \in DOMAIN attempts : attempts'[n].id = attempts[n].id

LEMMA LinksFrame ==
  ASSUME Next
  PROVE  \/ UNCHANGED linkVars
         \/ \E i \in Id : Activate(i)
         \/ \E n \in DOMAIN attempts, ok \in BOOLEAN : LinkStep(n, ok)
         \/ \E ok \in BOOLEAN : ConnectionLost(ok)
         \/ Crash
<1>1. ASSUME NEW i \in Id, NEW ok \in BOOLEAN,
             Enqueue(i, ok) \/ ActivateUnsaved(i) \/ EndCancel(i, ok) \/ Retry(i, ok) \/ BeginCancel(i)
      PROVE  UNCHANGED linkVars
  BY <1>1 DEF Enqueue, ActivateUnsaved, EndCancel, Retry, BeginCancel
<1>2. ASSUME NEW f \in DOMAIN files, NEW ok \in BOOLEAN, TaskStep(f, ok) PROVE UNCHANGED linkVars
  BY <1>2 DEF TaskStep, ClaimFile, BeginFile, BeginFails, RegisterTask, Confirmed, Broken, Stopped,
              Report, UnregisterTask
<1>3. ASSUME NEW ok \in BOOLEAN, ClearFinished(ok) \/ RetrySave(ok) \/ SetPolicy
      PROVE  UNCHANGED linkVars
  BY <1>3 DEF ClearFinished, RetrySave, SetPolicy
<1>. QED  BY <1>1, <1>2, <1>3 DEF Next

LEMMA ControlType ==
  ASSUME LinksTypeOK, NEW n \in DOMAIN attempts, NEW from,
         NEW to \in {"checking", "requested", "talking", "over"}, Control(n, from, to)
  PROVE  attempts' \in Seq(Attempt) /\ Len(attempts') = Len(attempts) /\ AttemptsKept
         /\ DOMAIN attempts' = DOMAIN attempts
<1>1. n \in 1 .. Len(attempts) /\ DOMAIN attempts = 1 .. Len(attempts)
  BY LenProperties DEF LinksTypeOK
<1>2. \A m \in DOMAIN attempts : attempts[m] \in Attempt
  BY <1>1, ElementOfSeq DEF LinksTypeOK
<1>. DEFINE e == [attempts[n] EXCEPT !.control = to]
<1>3. e \in Attempt /\ e.id = attempts[n].id  BY <1>2 DEF Attempt
<1>4. attempts' = [attempts EXCEPT ![n] = e]  BY DEF Control
<1>. HIDE DEF e
<1>5. /\ attempts' \in Seq(Attempt) /\ Len(attempts') = Len(attempts)
      /\ \A m \in 1 .. Len(attempts) : attempts'[m] = IF m = n THEN e ELSE attempts[m]
  BY <1>1, <1>3, <1>4, ExceptSeq DEF LinksTypeOK
<1>6. DOMAIN attempts' = DOMAIN attempts  BY <1>4
<1>7. AttemptsKept  BY <1>1, <1>3, <1>5, <1>6 DEF AttemptsKept
<1>. QED  BY <1>5, <1>6, <1>7

LEMMA LinksOverType ==
  ASSUME LinksTypeOK, LinksOver
  PROVE  attempts' \in Seq(Attempt) /\ Len(attempts') = Len(attempts) /\ AttemptsKept
         /\ DOMAIN attempts' = DOMAIN attempts
<1>1. Len(attempts) \in Nat /\ DOMAIN attempts = 1 .. Len(attempts)
  BY LenProperties DEF LinksTypeOK
<1>2. \A m \in DOMAIN attempts : attempts[m] \in Attempt
  BY <1>1, ElementOfSeq DEF LinksTypeOK
<1>3. \A m \in DOMAIN attempts : [attempts[m] EXCEPT !.control = "over"] \in Attempt
  BY <1>2 DEF Attempt
<1>4. attempts' \in [1 .. Len(attempts) -> Attempt]
  BY <1>1, <1>3 DEF LinksOver
<1>5. attempts' \in Seq(Attempt) /\ Len(attempts') = Len(attempts)
  BY <1>1, <1>4, IsASeq
<1>6. AttemptsKept /\ DOMAIN attempts' = DOMAIN attempts
  BY <1>2 DEF AttemptsKept, LinksOver, Attempt
<1>. QED  BY <1>5, <1>6

LEMMA ActivateType ==
  ASSUME LinksTypeOK, NEW i \in Id, Activate(i)
  PROVE  /\ LinksTypeOK' /\ AttemptsKept
         /\ Len(attempts) + 1 \in DOMAIN attempts' /\ attempts'[Len(attempts) + 1].id = i
         /\ DOMAIN attempts' = DOMAIN attempts \cup {Len(attempts) + 1}
         /\ Len(attempts) + 1 \notin DOMAIN attempts
         /\ Len(attempts) \in Nat /\ Len(attempts) < MaxAttempts
<1>. DEFINE e == [id |-> i, control |-> "checking"]
<1>1. e \in Attempt /\ e.id = i  BY DEF Attempt
<1>2. attempts' = Append(attempts, e) /\ Len(attempts) < MaxAttempts
      /\ failing' = failing /\ opens' = opens
  BY DEF Activate
<1>. HIDE DEF e
<1>3. /\ attempts' \in Seq(Attempt) /\ Len(attempts') = Len(attempts) + 1
      /\ \A m \in 1 .. Len(attempts) : attempts'[m] = attempts[m]
      /\ attempts'[Len(attempts) + 1] = e
  BY <1>1, <1>2, AppendProperties DEF LinksTypeOK
<1>4. Len(attempts) \in Nat /\ DOMAIN attempts = 1 .. Len(attempts)
      /\ DOMAIN attempts' = 1 .. Len(attempts) + 1
  BY <1>3, LenProperties DEF LinksTypeOK
<1>5. AttemptsKept  BY <1>3, <1>4 DEF AttemptsKept
<1>6. LinksTypeOK'  BY <1>2, <1>3, <1>4, BoundAssumption DEF LinksTypeOK
<1>. QED  BY <1>1, <1>2, <1>3, <1>4, <1>5, <1>6

LEMMA LinksStep ==
  ASSUME TypeInv, Next PROVE LinksTypeOK' /\ AttemptsKept
<1>. LinksTypeOK  BY TypeParts
<1>1. CASE UNCHANGED linkVars
  BY <1>1 DEF LinksTypeOK, AttemptsKept, linkVars
<1>2. ASSUME NEW i \in Id, Activate(i) PROVE LinksTypeOK' /\ AttemptsKept
  BY <1>2, ActivateType
<1>3. ASSUME NEW n \in DOMAIN attempts, NEW ok \in BOOLEAN, LinkStep(n, ok)
      PROVE LinksTypeOK' /\ AttemptsKept
  <2>1. ASSUME NEW from, NEW to \in {"checking", "requested", "talking", "over"}, Control(n, from, to),
               failing' = failing, opens' \in {opens, opens \cup {n}}
        PROVE  LinksTypeOK' /\ AttemptsKept
    BY <2>1, ControlType DEF LinksTypeOK
  <2>2. CASE RequestPeer(n)  BY <2>1, <2>2 DEF RequestPeer
  <2>3. CASE Refuse(n, ok)  BY <2>1, <2>3 DEF Refuse
  <2>4. CASE ClaimControl(n)  BY <2>1, <2>4 DEF ClaimControl
  <2>5. CASE Allowed(n)  BY <2>1, <2>5 DEF Allowed
  <2>6. CASE Declined(n, ok)  BY <2>1, <2>6 DEF Declined
  <2>7. CASE FindConnection(n)  BY <2>7 DEF FindConnection, LinksTypeOK, AttemptsKept
  <2>8. CASE FailConnection(n, ok)  BY <2>8 DEF FailConnection, LinksTypeOK, AttemptsKept
  <2>9. CASE OpenUploadFile(n)  BY <2>9 DEF OpenUploadFile, LinksTypeOK, AttemptsKept
  <2>. QED  BY <1>3, <2>2, <2>3, <2>4, <2>5, <2>6, <2>7, <2>8, <2>9 DEF LinkStep
<1>4. ASSUME NEW ok \in BOOLEAN, ConnectionLost(ok) PROVE LinksTypeOK' /\ AttemptsKept
  <2>1. LinksOver /\ failing' = failing /\ opens' = {}  BY <1>4 DEF ConnectionLost, LinksOver
  <2>. QED  BY <2>1, LinksOverType DEF LinksTypeOK
<1>5. CASE Crash
  <2>1. LinksOver /\ failing' = {} /\ opens' = {}  BY <1>5 DEF Crash, LinksOver
  <2>. QED  BY <2>1, LinksOverType DEF LinksTypeOK
<1>. QED  BY <1>1, <1>2, <1>3, <1>4, <1>5, LinksFrame

-----------------------------------------------------------------------------
(* What a step does to the queue.                                          *)
Drops(i) == EndCancel(i, TRUE) /\ cancel.finished

LEMMA QueueMoves ==
  ASSUME TypeInv, Next
  PROVE  \/ \E i \in Id, ok \in BOOLEAN : Enqueue(i, ok) \/ Retry(i, ok) \/ Ends(i, ok)
         \/ \E i \in Id : Activate(i) \/ ActivateUnsaved(i) \/ Drops(i)
         \/ \E ok \in BOOLEAN : ClearFinished(ok) \/ RetrySave(ok) \/ ConnectionLost(ok)
         \/ \E n \in DOMAIN attempts : ClaimControl(n) \/ OpenUploadFile(n)
         \/ \E f \in DOMAIN files : ClaimFile(f) \/ BeginFile(f)
         \/ SetPolicy \/ Crash
         \/ UNCHANGED <<queueVars, failures, crashes>>
<1>1. ASSUME NEW ok \in BOOLEAN, NEW i \in Id, EndCancel(i, ok)
      PROVE  Drops(i) \/ Ends(i, ok)
  <2>1. CASE cancel.finished
    BY <1>1, <2>1 DEF Drops, EndCancel
  <2>. QED  BY <1>1, <2>1, CancelEnds
<1>2. ASSUME NEW i \in Id, BeginCancel(i)
      PROVE  UNCHANGED <<queueVars, failures, crashes>>
  BY <1>2 DEF BeginCancel
<1>3. ASSUME NEW n \in DOMAIN attempts, NEW ok \in BOOLEAN, LinkStep(n, ok)
      PROVE  \/ \E i \in Id : Ends(i, ok)
             \/ ClaimControl(n) \/ OpenUploadFile(n)
             \/ UNCHANGED <<queueVars, failures, crashes>>
  <2>1. RequestPeer(n) \/ Allowed(n) \/ FindConnection(n) => UNCHANGED <<queueVars, failures, crashes>>
    BY DEF RequestPeer, Allowed, FindConnection, restVars
  <2>. QED  BY <1>3, <2>1, LinkEnds DEF LinkStep
<1>4. ASSUME NEW f \in DOMAIN files, NEW ok \in BOOLEAN, TaskStep(f, ok)
      PROVE  \/ \E i \in Id : Ends(i, ok)
             \/ ClaimFile(f) \/ BeginFile(f)
             \/ UNCHANGED <<queueVars, failures, crashes>>
  <2>1. RegisterTask(f) \/ Confirmed(f) \/ Broken(f) \/ Stopped(f) \/ UnregisterTask(f)
          => UNCHANGED <<queueVars, failures, crashes>>
    BY DEF RegisterTask, Confirmed, Broken, Stopped, UnregisterTask, restVars
  <2>. QED  BY <1>4, <2>1, TaskEnds DEF TaskStep
<1>. QED  BY <1>1, <1>2, <1>3, <1>4 DEF Next

LEMMA ResetType ==
  ASSUME UploadsTypeOK, AttemptsKept, NEW i \in Id, NEW st \in Status \ Active,
         uploads' = [uploads EXCEPT ![i] = Upload(st)]
  PROVE  UploadsTypeOK'
<1>1. Upload(st) \in Rec
  <2>1. 0 \in 0 .. MaxAttempts /\ 0 \in 0 .. MaxConnections  BY BoundAssumption
  <2>. QED  BY <2>1 DEF Upload, Rec
<1>2. Upload(st).status = st  BY DEF Upload
<1>3. uploads' \in [Id -> Rec]  BY <1>1 DEF UploadsTypeOK
<1>. QED  BY <1>2, <1>3 DEF UploadsTypeOK, AttemptsKept, UploadOf

LEMMA TouchType ==
  ASSUME UploadsTypeOK, AttemptsKept, NEW i \in Id, NEW e \in Rec, uploads[i].status \in Active,
         e.status \in Active, e.attempt = uploads[i].attempt,
         uploads' = [uploads EXCEPT ![i] = e]
  PROVE  UploadsTypeOK'
<1>1. uploads' \in [Id -> Rec]  BY DEF UploadsTypeOK
<1>. QED  BY <1>1 DEF UploadsTypeOK, AttemptsKept, UploadOf

LEMMA SameType ==
  ASSUME UploadsTypeOK, AttemptsKept, uploads' = uploads PROVE UploadsTypeOK'
BY DEF UploadsTypeOK, AttemptsKept, UploadOf

(* ClaimControl, OpenUploadFile, ClaimFile and BeginFile change one upload *)
(* that has a slot, and leave it its attempt.                              *)
Touches(i, e) ==
  /\ uploads[i].status \in Active /\ e \in Rec
  /\ e.status \in Active /\ e.attempt = uploads[i].attempt
  /\ e.status \in {uploads[i].status, "Uploading"}
  /\ uploads' = [uploads EXCEPT ![i] = e]
  /\ UNCHANGED <<newest, served, rank, error, disk, failures, crashes>>

LEMMA LinkTouches ==
  ASSUME TypeInv, NEW n \in DOMAIN attempts, ClaimControl(n) \/ OpenUploadFile(n)
  PROVE  \/ \E i \in Id, e \in Rec : Touches(i, e) /\ e.status = uploads[i].status
         \/ uploads' = uploads /\ UNCHANGED <<newest, served, rank, error, disk, failures, crashes>>
<1>. DEFINE i == UploadOf(n)
<1>1. UploadsTypeOK /\ LinksTypeOK /\ FilesTypeOK  BY TypeParts
<1>2. i \in Id /\ uploads[i] \in Rec  BY <1>1, AttemptType DEF UploadsTypeOK
<1>3. uploads \in [Id -> Rec]  BY <1>1 DEF UploadsTypeOK
<1>. HIDE DEF i
<1>4. CASE ClaimControl(n)
  <2>. DEFINE e == [uploads[i] EXCEPT !.control = TRUE]
  <2>0. TRUE \in BOOLEAN  OBVIOUS
  <2>1. e \in Rec  BY <1>2, <2>0 DEF Rec
  <2>2. e.status = uploads[i].status /\ e.attempt = uploads[i].attempt  BY <1>2 DEF Rec
  <2>3. uploads' = [uploads EXCEPT ![i] = e]  BY <1>4 DEF ClaimControl, i
  <2>4. uploads[i].status \in Active  BY <1>4 DEF ClaimControl, i, Active
  <2>. HIDE DEF e
  <2>5. Touches(i, e)  BY <1>4, <2>1, <2>2, <2>3, <2>4 DEF Touches, ClaimControl, restVars
  <2>. QED  BY <1>2, <2>1, <2>2, <2>5
<1>5. CASE OpenUploadFile(n) /\ uploads[i].status = "Connecting"
  <2>. DEFINE e == [uploads[i] EXCEPT !.file = Len(files) + 1, !.claimed = FALSE]
  <2>0. FALSE \in BOOLEAN  OBVIOUS
  <2>1. Len(files) + 1 \in 0 .. MaxConnections
    <3>1. Len(files) \in Nat  BY <1>1, LenProperties DEF FilesTypeOK
    <3>2. Len(files) < MaxConnections  BY <1>5 DEF OpenUploadFile, i
    <3>. QED  BY <3>1, <3>2, BoundAssumption
  <2>2. e \in Rec  BY <1>2, <2>0, <2>1 DEF Rec
  <2>3. e.status = uploads[i].status /\ e.attempt = uploads[i].attempt  BY <1>2 DEF Rec
  <2>4. uploads' = [uploads EXCEPT ![i].file = Len(files) + 1, ![i].claimed = FALSE]
    BY <1>5 DEF OpenUploadFile, i
  <2>5. uploads' = [uploads EXCEPT ![i] = e]  BY <1>2, <1>3, <2>4
  <2>6. uploads[i].status \in Active  BY <1>5 DEF Active
  <2>. HIDE DEF e
  <2>7. Touches(i, e)  BY <1>5, <2>2, <2>3, <2>5, <2>6 DEF Touches, OpenUploadFile, restVars
  <2>. QED  BY <1>2, <2>2, <2>3, <2>7
<1>6. CASE OpenUploadFile(n) /\ uploads[i].status # "Connecting"
  BY <1>6 DEF OpenUploadFile, restVars, i
<1>. QED  BY <1>4, <1>5, <1>6

LEMMA ClaimTouches ==
  ASSUME TypeInv, NEW f \in DOMAIN files, ClaimFile(f)
  PROVE  \E i \in Id, e \in Rec : Touches(i, e) /\ e.status = uploads[i].status
            /\ files' = [files EXCEPT ![f].stage = "claimed", ![f].attempt = uploads[i].attempt]
<1>1. PICK i \in Id : /\ uploads[i].status = "Connecting"
                      /\ uploads' = [uploads EXCEPT ![i].claimed = TRUE]
                      /\ files' = [files EXCEPT ![f].stage = "claimed", ![f].attempt = uploads[i].attempt]
  BY DEF ClaimFile
<1>2. uploads \in [Id -> Rec] /\ uploads[i] \in Rec  BY TypeParts DEF UploadsTypeOK
<1>. DEFINE e == [uploads[i] EXCEPT !.claimed = TRUE]
<1>3. TRUE \in BOOLEAN  OBVIOUS
<1>4. e \in Rec  BY <1>2, <1>3 DEF Rec
<1>5. e.status = uploads[i].status /\ e.attempt = uploads[i].attempt  BY <1>2 DEF Rec
<1>6. uploads' = [uploads EXCEPT ![i] = e]  BY <1>1
<1>7. uploads[i].status \in Active  BY <1>1 DEF Active
<1>. HIDE DEF e
<1>8. Touches(i, e)  BY <1>4, <1>5, <1>6, <1>7 DEF Touches, ClaimFile, restVars
<1>. QED  BY <1>1, <1>4, <1>5, <1>8

LEMMA BeginTouches ==
  ASSUME TypeInv, NEW f \in DOMAIN files, BeginFile(f)
  PROVE  \E e \in Rec : Touches(OwnerOf(f), e) /\ e.status = "Uploading"
           /\ OwnerOf(f) \in Id /\ uploads[OwnerOf(f)].status = "Connecting"
<1>. DEFINE i == OwnerOf(f)
<1>1. files[f].attempt \in DOMAIN attempts
  BY TypeParts DEF BeginFile, FilesTypeOK, Claimed
<1>2. i \in Id  BY <1>1, AttemptType, TypeParts DEF OwnerOf
<1>. HIDE DEF i
<1>3. uploads \in [Id -> Rec] /\ uploads[i] \in Rec  BY <1>2, TypeParts DEF UploadsTypeOK
<1>. DEFINE e == [uploads[i] EXCEPT !.status = "Uploading"]
<1>4. e \in Rec  BY <1>3 DEF Rec, Status
<1>5. e.status = "Uploading" /\ e.attempt = uploads[i].attempt  BY <1>3 DEF Rec
<1>6. uploads' = [uploads EXCEPT ![i] = e]  BY DEF BeginFile, i
<1>7. uploads[i].status = "Connecting"  BY DEF BeginFile, i
<1>. HIDE DEF e
<1>8. Touches(i, e)  BY <1>4, <1>5, <1>6, <1>7 DEF Touches, BeginFile, restVars, Active
<1>. QED  BY <1>2, <1>4, <1>5, <1>7, <1>8 DEF i

LEMMA EndsFacts ==
  ASSUME NEW i \in Id, NEW ok \in BOOLEAN, Ends(i, ok)
  PROVE  /\ UNCHANGED <<newest, rank, crashes>>
         /\ \/ UNCHANGED <<uploads, served, error, disk, failures>>
            \/ /\ uploads[i].status # "Absent"
               /\ \E st \in Finished : uploads' = [uploads EXCEPT ![i] = Upload(st)]
               /\ Persist(uploads', served, ok)
<1>1. PICK st \in Finished, n \in 0 .. MaxAttempts, fs \in EndedFiles : Finish(i, st, n, fs, ok)
  BY DEF Ends
<1>2. \/ UNCHANGED <<uploads, served, error, disk, failures>>
      \/ /\ ~Refuses(i, n)
         /\ uploads' = [uploads EXCEPT ![i] = Upload(st)]
         /\ Persist(uploads', served, ok)  BY <1>1 DEF Finish
<1>3. UNCHANGED <<newest, rank, crashes>>  BY DEF Ends
<1>. QED  BY <1>1, <1>2, <1>3 DEF Refuses

LEMMA UploadsStep ==
  ASSUME TypeInv, Next PROVE UploadsTypeOK'
<1>1. UploadsTypeOK /\ AttemptsKept  BY LinksStep, TypeParts
<1>2. ASSUME NEW i \in Id, NEW ok \in BOOLEAN, Enqueue(i, ok) \/ Retry(i, ok) \/ Ends(i, ok)
      PROVE  UploadsTypeOK'
  <2>1. {"Queued", "Absent"} \cup Finished \subseteq Status \ Active
    BY DEF Status, Active, Finished
  <2>2. CASE Enqueue(i, ok)
    <3>1. uploads' = [uploads EXCEPT ![i] = Upload("Queued")] \/ uploads' = uploads
      BY <2>2 DEF Enqueue
    <3>. QED  BY <1>1, <2>1, <3>1, ResetType, SameType
  <2>3. CASE Retry(i, ok)
    <3>1. \E st \in {"Queued", "Absent"} : uploads' = [uploads EXCEPT ![i] = Upload(st)]
      BY <2>3 DEF Retry
    <3>. QED  BY <1>1, <2>1, <3>1, ResetType
  <2>4. CASE Ends(i, ok)
    BY <1>1, <2>1, <2>4, EndsFacts, ResetType, SameType
  <2>. QED  BY <1>2, <2>2, <2>3, <2>4
<1>3. ASSUME NEW i \in Id, Activate(i) \/ ActivateUnsaved(i) \/ Drops(i)
      PROVE  UploadsTypeOK'
  <2>1. CASE Activate(i)
    <3>. DEFINE n == Len(attempts) + 1
                e == [Upload("Connecting") EXCEPT !.attempt = n]
    <3>1. /\ n \in DOMAIN attempts' /\ attempts'[n].id = i /\ n \in 0 .. MaxAttempts
      BY <2>1, ActivateType, TypeParts, BoundAssumption
    <3>2. 0 \in 0 .. MaxConnections /\ FALSE \in BOOLEAN  BY BoundAssumption
    <3>3. e \in Rec /\ e.attempt = n /\ e.status = "Connecting"
      BY <3>1, <3>2 DEF Rec, Upload, Status
    <3>4. uploads' = [uploads EXCEPT ![i] = e]  BY <2>1 DEF Activate
    <3>. HIDE DEF n, e
    <3>5. uploads' \in [Id -> Rec]  BY <1>1, <3>3, <3>4 DEF UploadsTypeOK
    <3>. QED  BY <1>1, <3>1, <3>3, <3>4, <3>5 DEF UploadsTypeOK, AttemptsKept, UploadOf, Active
  <2>2. CASE ActivateUnsaved(i)
    BY <1>1, <2>2, SameType DEF ActivateUnsaved
  <2>3. CASE Drops(i)
    <3>1. uploads' = [uploads EXCEPT ![i] = Upload("Absent")]  BY <2>3 DEF Drops, EndCancel
    <3>2. "Absent" \in Status \ Active  BY DEF Status, Active
    <3>. QED  BY <1>1, <3>1, <3>2, ResetType
  <2>. QED  BY <1>3, <2>1, <2>2, <2>3
<1>4. ASSUME NEW ok \in BOOLEAN, ClearFinished(ok) \/ RetrySave(ok) \/ ConnectionLost(ok)
      PROVE  UploadsTypeOK'
  <2>1. Upload("Absent") \in Rec /\ Upload("Queued") \in Rec
    <3>1. 0 \in 0 .. MaxAttempts /\ 0 \in 0 .. MaxConnections  BY BoundAssumption
    <3>. QED  BY <3>1 DEF Upload, Rec, Status
  <2>2. /\ Upload("Absent").status = "Absent" /\ Upload("Queued").status = "Queued"
        /\ "Absent" \notin Active /\ "Queued" \notin Active
    BY DEF Upload, Active
  <2>3. CASE ClearFinished(ok)
    <3>1. uploads' = [i \in Id |-> IF uploads[i].status \in Finished THEN Upload("Absent") ELSE uploads[i]]
      BY <2>3 DEF ClearFinished
    <3>2. uploads' \in [Id -> Rec]  BY <1>1, <2>1, <3>1 DEF UploadsTypeOK
    <3>. QED  BY <1>1, <2>2, <3>1, <3>2 DEF UploadsTypeOK, AttemptsKept, UploadOf
  <2>4. CASE RetrySave(ok)
    BY <1>1, <2>4, SameType DEF RetrySave
  <2>5. CASE ConnectionLost(ok)
    <3>1. uploads' = [i \in Id |-> IF uploads[i].status \in Active THEN Upload("Queued") ELSE uploads[i]]
      BY <2>5 DEF ConnectionLost
    <3>2. uploads' \in [Id -> Rec]  BY <1>1, <2>1, <3>1 DEF UploadsTypeOK
    <3>. QED  BY <1>1, <2>2, <3>1, <3>2 DEF UploadsTypeOK, AttemptsKept, UploadOf
  <2>. QED  BY <1>4, <2>3, <2>4, <2>5
<1>5. ASSUME NEW i \in Id, NEW e \in Rec, Touches(i, e) PROVE UploadsTypeOK'
  BY <1>1, <1>5, TouchType DEF Touches
<1>6. ASSUME NEW n \in DOMAIN attempts, ClaimControl(n) \/ OpenUploadFile(n) PROVE UploadsTypeOK'
  BY <1>1, <1>5, <1>6, LinkTouches, SameType
<1>7. ASSUME NEW f \in DOMAIN files, ClaimFile(f) \/ BeginFile(f) PROVE UploadsTypeOK'
  BY <1>5, <1>7, ClaimTouches, BeginTouches
<1>8. CASE SetPolicy
  BY <1>1, <1>8, SameType DEF SetPolicy
<1>9. CASE Crash
  <2>1. Upload("Absent") \in Rec /\ Upload("Queued") \in Rec
    <3>1. 0 \in 0 .. MaxAttempts /\ 0 \in 0 .. MaxConnections  BY BoundAssumption
    <3>. QED  BY <3>1 DEF Upload, Rec, Status
  <2>2. uploads' = [i \in Id |-> Upload(IF i \in disk.pending THEN "Queued" ELSE "Absent")]
    BY <1>9 DEF Crash
  <2>3. uploads' \in [Id -> Rec]  BY <2>1, <2>2
  <2>. QED  BY <2>2, <2>3 DEF UploadsTypeOK, Active, Upload
<1>10. CASE UNCHANGED <<queueVars, failures, crashes>>
  BY <1>1, <1>10, SameType DEF queueVars
<1>. QED  BY <1>2, <1>3, <1>4, <1>6, <1>7, <1>8, <1>9, <1>10, QueueMoves

LEMMA QueueStep ==
  ASSUME TypeInv, Next PROVE QueueTypeOK'
<1>1. QueueTypeOK  BY TypeParts
<1>2. ASSUME UNCHANGED <<served, error, disk, failures>> PROVE QueueTypeOK'
  BY <1>1, <1>2 DEF QueueTypeOK
<1>3. ASSUME NEW i \in Id, NEW ok \in BOOLEAN, Enqueue(i, ok) \/ Retry(i, ok) \/ Ends(i, ok)
      PROVE  QueueTypeOK'
  <2>1. Enqueue(i, ok) => \E us : Persist(us, served, ok)  BY DEF Enqueue
  <2>2. Retry(i, ok) => Persist(uploads', served, ok)  BY DEF Retry
  <2>. QED  BY <1>1, <1>2, <1>3, <2>1, <2>2, EndsFacts, SavedType
<1>4. ASSUME NEW i \in Id, Activate(i) PROVE QueueTypeOK'
  <2>1. \E turn : Persist(uploads', turn, TRUE)  BY <1>4 DEF Activate
  <2>. QED  BY <1>1, <2>1, SavedType
<1>5. ASSUME NEW i \in Id, ActivateUnsaved(i) PROVE QueueTypeOK'
  <2>1. served' = served /\ error' = TRUE  BY <1>5 DEF ActivateUnsaved
  <2>2. failures' \in 0 .. MaxFailures
    BY <1>1, <1>5, BoundAssumption DEF ActivateUnsaved, QueueTypeOK
  <2>3. Pending \in SUBSET Id /\ Users(Pending) \subseteq User
    BY PendingType, UsersType DEF Pending
  <2>4. disk' \in [pending : SUBSET Id, served : SUBSET User]
    BY <1>1, <1>5, <2>3 DEF ActivateUnsaved, QueueTypeOK
  <2>5. error' \in BOOLEAN  BY <2>1
  <2>. QED  BY <1>1, <2>1, <2>2, <2>4, <2>5 DEF QueueTypeOK
<1>6. ASSUME NEW i \in Id, Drops(i) PROVE QueueTypeOK'
  BY <1>2, <1>6 DEF Drops, EndCancel
<1>7. ASSUME NEW ok \in BOOLEAN, ClearFinished(ok) \/ RetrySave(ok) \/ ConnectionLost(ok)
      PROVE  QueueTypeOK'
  <2>1. \E us : Persist(us, served, ok)
    BY <1>7 DEF ClearFinished, RetrySave, ConnectionLost
  <2>. QED  BY <1>1, <2>1, SavedType
<1>8. ASSUME NEW n \in DOMAIN attempts, ClaimControl(n) \/ OpenUploadFile(n) PROVE QueueTypeOK'
  BY <1>2, <1>8, LinkTouches DEF Touches
<1>9. ASSUME NEW f \in DOMAIN files, ClaimFile(f) \/ BeginFile(f) PROVE QueueTypeOK'
  BY <1>2, <1>9, ClaimTouches, BeginTouches DEF Touches
<1>10. CASE SetPolicy
  BY <1>2, <1>10 DEF SetPolicy
<1>11. CASE Crash
  <2>1. error' = FALSE  BY <1>11 DEF Crash
  <2>2. error' \in BOOLEAN  BY <2>1
  <2>3. served' \subseteq User /\ disk' = disk /\ failures' = failures
    BY <1>1, <1>11 DEF Crash, QueueTypeOK
  <2>. QED  BY <1>1, <2>2, <2>3 DEF QueueTypeOK
<1>12. CASE UNCHANGED <<queueVars, failures, crashes>>
  BY <1>2, <1>12 DEF queueVars
<1>. QED  BY <1>3, <1>4, <1>5, <1>6, <1>7, <1>8, <1>9, <1>10, <1>11, <1>12, QueueMoves

-----------------------------------------------------------------------------
(* What a step does to the file connections.                               *)
LEMMA FilesFrame ==
  ASSUME TypeInv, Next
  PROVE  \/ UNCHANGED taskVars
         \/ \E i \in Id, ok \in BOOLEAN : Ends(i, ok)
         \/ \E n \in DOMAIN attempts : OpenUploadFile(n)
         \/ \E f \in DOMAIN files :
              \/ ClaimFile(f) \/ BeginFile(f) \/ RegisterTask(f)
              \/ Confirmed(f) \/ Broken(f) \/ Stopped(f) \/ UnregisterTask(f)
         \/ \E ok \in BOOLEAN : ConnectionLost(ok)
         \/ Crash
<1>1. ASSUME NEW ok \in BOOLEAN, NEW i \in Id, EndCancel(i, ok)
      PROVE  Ends(i, ok) \/ UNCHANGED taskVars
  BY <1>1, CancelEnds DEF EndCancel
<1>2. ASSUME NEW n \in DOMAIN attempts, NEW ok \in BOOLEAN, LinkStep(n, ok)
      PROVE  (\E i \in Id : Ends(i, ok)) \/ OpenUploadFile(n) \/ UNCHANGED taskVars
  BY <1>2, LinkEnds DEF LinkStep, RequestPeer, ClaimControl, Allowed, FindConnection
<1>3. ASSUME NEW f \in DOMAIN files, NEW ok \in BOOLEAN, TaskStep(f, ok)
      PROVE  \/ \E i \in Id : Ends(i, ok)
             \/ ClaimFile(f) \/ BeginFile(f) \/ RegisterTask(f)
             \/ Confirmed(f) \/ Broken(f) \/ Stopped(f) \/ UnregisterTask(f)
  BY <1>3, TaskEnds DEF TaskStep
<1>. QED
  BY <1>1, <1>2, <1>3
  DEF Next, Enqueue, Activate, ActivateUnsaved, Retry, BeginCancel, ClearFinished, RetrySave, SetPolicy

LEMMA FileFacts ==
  ASSUME FilesTypeOK
  PROVE  /\ Len(files) \in Nat /\ DOMAIN files = 1 .. Len(files)
         /\ \A g \in DOMAIN files : files[g] \in File
<1>1. Len(files) \in Nat /\ DOMAIN files = 1 .. Len(files)
  BY LenProperties DEF FilesTypeOK
<1>. QED  BY <1>1, ElementOfSeq DEF FilesTypeOK

(* One file connection is replaced.                                        *)
LEMMA FileReplaced ==
  ASSUME FilesTypeOK, NEW f \in DOMAIN files, NEW e \in File, NEW fs, fs = [files EXCEPT ![f] = e]
  PROVE  /\ fs \in Seq(File) /\ Len(fs) = Len(files) /\ DOMAIN fs = DOMAIN files
         /\ fs[f] = e /\ \A g \in DOMAIN files \ {f} : fs[g] = files[g]
<1>1. f \in 1 .. Len(files) /\ DOMAIN files = 1 .. Len(files)  BY FileFacts
<1>2. fs \in Seq(File) /\ Len(fs) = Len(files)  BY <1>1, ExceptSeq DEF FilesTypeOK
<1>. QED  BY <1>1, <1>2

LEMMA ToFacts ==
  ASSUME FilesTypeOK, NEW f \in DOMAIN files,
         NEW s \in {"asked", "claimed", "begun", "sending", "sent", "broken", "ending", "over"}
  PROVE  /\ To(f, s) \in Seq(File) /\ Len(To(f, s)) = Len(files) /\ DOMAIN To(f, s) = DOMAIN files
         /\ To(f, s)[f].stage = s /\ To(f, s)[f].attempt = files[f].attempt
         /\ To(f, s)[f].stop = files[f].stop
         /\ \A g \in DOMAIN files \ {f} : To(f, s)[g] = files[g]
<1>. DEFINE e == [files[f] EXCEPT !.stage = s]
<1>1. files[f] \in File  BY FileFacts
<1>2. e \in File /\ e.stage = s /\ e.attempt = files[f].attempt /\ e.stop = files[f].stop
  BY <1>1 DEF File
<1>3. To(f, s) = [files EXCEPT ![f] = e]  BY DEF To
<1>. DEFINE fs == To(f, s)
<1>. HIDE DEF e, fs
<1>4. fs = [files EXCEPT ![f] = e]  BY <1>3 DEF fs
<1>5. /\ fs \in Seq(File) /\ Len(fs) = Len(files) /\ DOMAIN fs = DOMAIN files
      /\ fs[f] = e /\ \A g \in DOMAIN files \ {f} : fs[g] = files[g]
  <2>1. e \in File  BY <1>2
  <2>. QED  BY <1>4, <2>1, FileReplaced
<1>. QED  BY <1>2, <1>5 DEF fs

LEMMA ClosedFacts ==
  ASSUME FilesTypeOK, NEW f \in DOMAIN files
  PROVE  /\ Closed(f) \in Seq(File) /\ Len(Closed(f)) = Len(files) /\ DOMAIN Closed(f) = DOMAIN files
         /\ Closed(f)[f].stage = "over" /\ Closed(f)[f].attempt = 0
         /\ \A g \in DOMAIN files \ {f} : Closed(f)[g] = files[g]
<1>. DEFINE e == [attempt |-> 0, stage |-> "over", stop |-> FALSE]
<1>1. e \in File
  <2>1. FALSE \in BOOLEAN /\ 0 \in 0 .. MaxAttempts  BY BoundAssumption
  <2>. QED  BY <2>1 DEF File
<1>2. e.stage = "over" /\ e.attempt = 0  OBVIOUS
<1>3. Closed(f) = [files EXCEPT ![f] = e]  BY DEF Closed
<1>. DEFINE fs == Closed(f)
<1>. HIDE DEF e, fs
<1>4. fs = [files EXCEPT ![f] = e]  BY <1>3 DEF fs
<1>5. /\ fs \in Seq(File) /\ Len(fs) = Len(files) /\ DOMAIN fs = DOMAIN files
      /\ fs[f] = e /\ \A g \in DOMAIN files \ {f} : fs[g] = files[g]
  BY <1>1, <1>4, FileReplaced
<1>. QED  BY <1>2, <1>5 DEF fs

LEMMA StoppingFacts ==
  ASSUME NEW S, NEW fs \in Seq(File)
  PROVE  /\ Stopping(S, fs) \in Seq(File) /\ Len(Stopping(S, fs)) = Len(fs)
         /\ DOMAIN Stopping(S, fs) = DOMAIN fs
         /\ \A g \in DOMAIN fs : /\ Stopping(S, fs)[g].stage = fs[g].stage
                                 /\ Stopping(S, fs)[g].attempt = fs[g].attempt
                                 /\ fs[g].stop => Stopping(S, fs)[g].stop
                                 /\ g \in TasksOf(S) => Stopping(S, fs)[g].stop
                                 /\ g \notin TasksOf(S) => Stopping(S, fs)[g] = fs[g]
<1>1. Len(fs) \in Nat /\ DOMAIN fs = 1 .. Len(fs)  BY LenProperties
<1>2. \A g \in DOMAIN fs : fs[g] \in File  BY <1>1, ElementOfSeq
<1>3. TRUE \in BOOLEAN  OBVIOUS
<1>4. \A g \in DOMAIN fs :
        /\ [fs[g] EXCEPT !.stop = TRUE] \in File
        /\ [fs[g] EXCEPT !.stop = TRUE].stage = fs[g].stage
        /\ [fs[g] EXCEPT !.stop = TRUE].attempt = fs[g].attempt
        /\ [fs[g] EXCEPT !.stop = TRUE].stop = TRUE
  BY <1>2, <1>3 DEF File
<1>5. \A g \in DOMAIN fs : Stopping(S, fs)[g] = IF g \in TasksOf(S) THEN [fs[g] EXCEPT !.stop = TRUE] ELSE fs[g]
  BY DEF Stopping
<1>6. Stopping(S, fs) \in [1 .. Len(fs) -> File]
  BY <1>1, <1>2, <1>4 DEF Stopping
<1>7. Stopping(S, fs) \in Seq(File) /\ Len(Stopping(S, fs)) = Len(fs)
  BY <1>1, <1>6, IsASeq
<1>8. DOMAIN Stopping(S, fs) = DOMAIN fs  BY DEF Stopping
<1>9. ASSUME NEW g \in DOMAIN fs
      PROVE  /\ Stopping(S, fs)[g].stage = fs[g].stage
             /\ Stopping(S, fs)[g].attempt = fs[g].attempt
             /\ g \in TasksOf(S) => Stopping(S, fs)[g].stop = TRUE
             /\ g \notin TasksOf(S) => Stopping(S, fs)[g] = fs[g]
  BY <1>4, <1>5
<1>. QED  BY <1>7, <1>8, <1>9, Zenon

(* At the end of an upload every file connection stays where it is, but    *)
(* the one that reports it: either no task is stopped, or all tasks of the *)
(* upload are told to.                                                     *)
Advances(g) ==
  \/ /\ files'[g].attempt = files[g].attempt
     /\ \/ files'[g].stage = files[g].stage
        \/ files[g].stage \in {"sent", "broken"} /\ files'[g].stage = "ending"
  \/ files[g].stage = "claimed" /\ files'[g].stage = "over"

StopsTasks(S) ==
  /\ tasks' = tasks \ TasksOf(S)
  /\ \A g \in TasksOf(S) : files'[g].stop

LEMMA EndedFilesFacts ==
  ASSUME FilesTypeOK, NEW fs \in EndedFiles
  PROVE  /\ fs \in Seq(File) /\ Len(fs) = Len(files) /\ DOMAIN fs = DOMAIN files
         /\ \A g \in DOMAIN files :
              \/ /\ fs[g].attempt = files[g].attempt
                 /\ \/ fs[g].stage = files[g].stage
                    \/ files[g].stage \in {"sent", "broken"} /\ fs[g].stage = "ending"
                 /\ fs[g].stop = files[g].stop
              \/ files[g].stage = "claimed" /\ fs[g].stage = "over"
<1>1. CASE fs = files  BY <1>1 DEF FilesTypeOK
<1>2. ASSUME NEW f \in DOMAIN files, files[f].stage = "claimed", fs = Closed(f)
      PROVE  /\ fs \in Seq(File) /\ Len(fs) = Len(files) /\ DOMAIN fs = DOMAIN files
             /\ fs[f].stage = "over" /\ \A g \in DOMAIN files \ {f} : fs[g] = files[g]
  BY <1>2, ClosedFacts
<1>3. ASSUME NEW f \in DOMAIN files, files[f].stage \in {"sent", "broken"}, fs = To(f, "ending")
      PROVE  /\ fs \in Seq(File) /\ Len(fs) = Len(files) /\ DOMAIN fs = DOMAIN files
             /\ fs[f].stage = "ending" /\ fs[f].attempt = files[f].attempt /\ fs[f].stop = files[f].stop
             /\ \A g \in DOMAIN files \ {f} : fs[g] = files[g]
  BY <1>3, ToFacts
<1>. QED  BY <1>1, <1>2, <1>3 DEF EndedFiles

LEMMA EndsFiles ==
  ASSUME TypeInv, NEW i \in Id, NEW ok \in BOOLEAN, Ends(i, ok)
  PROVE  /\ files' \in Seq(File) /\ Len(files') = Len(files) /\ DOMAIN files' = DOMAIN files
         /\ \A g \in DOMAIN files : Advances(g)
         /\ \/ /\ tasks' = tasks /\ uploads' = uploads
               /\ \A g \in DOMAIN files : files[g].stage = files'[g].stage => files[g].stop = files'[g].stop
            \/ /\ StopsTasks({i})
               /\ \A g \in DOMAIN files \ TasksOf({i}) :
                    files[g].stage = files'[g].stage => files[g].stop = files'[g].stop
<1>0. FilesTypeOK  BY TypeParts
<1>1. PICK st \in Finished, n \in 0 .. MaxAttempts, fs \in EndedFiles : Finish(i, st, n, fs, ok)
  BY DEF Ends
<1>2. /\ fs \in Seq(File) /\ Len(fs) = Len(files) /\ DOMAIN fs = DOMAIN files
      /\ \A g \in DOMAIN files :
           \/ /\ fs[g].attempt = files[g].attempt
              /\ \/ fs[g].stage = files[g].stage
                 \/ files[g].stage \in {"sent", "broken"} /\ fs[g].stage = "ending"
              /\ fs[g].stop = files[g].stop
           \/ files[g].stage = "claimed" /\ fs[g].stage = "over"
  BY <1>0, EndedFilesFacts
<1>3. \A g \in DOMAIN files : files[g].stage = fs[g].stage => files[g].stop = fs[g].stop
  BY <1>2
<1>4. CASE files' = fs /\ tasks' = tasks /\ uploads' = uploads
  BY <1>2, <1>3, <1>4 DEF Advances
<1>5. CASE files' = Stopping({i}, fs) /\ tasks' = tasks \ TasksOf({i})
  <2>1. /\ files' \in Seq(File) /\ Len(files') = Len(fs) /\ DOMAIN files' = DOMAIN fs
        /\ \A g \in DOMAIN fs : /\ files'[g].stage = fs[g].stage
                                /\ files'[g].attempt = fs[g].attempt
                                /\ g \in TasksOf({i}) => files'[g].stop
                                /\ g \notin TasksOf({i}) => files'[g] = fs[g]
    BY <1>2, <1>5, StoppingFacts
  <2>2. \A g \in DOMAIN files : Advances(g)
    BY <1>2, <2>1 DEF Advances
  <2>3. StopsTasks({i})
    BY <1>0, <1>2, <1>5, <2>1 DEF StopsTasks, TasksOf, FilesTypeOK
  <2>4. \A g \in DOMAIN files \ TasksOf({i}) :
          files[g].stage = files'[g].stage => files[g].stop = files'[g].stop
    BY <1>2, <1>3, <2>1
  <2>. QED  BY <1>2, <2>1, <2>2, <2>3, <2>4
<1>. QED  BY <1>1, <1>4, <1>5 DEF Finish

LEMMA FilesKept ==
  ASSUME FilesTypeOK, AttemptsKept,
         files' \in Seq(File), Len(files') = Len(files), DOMAIN files' = DOMAIN files,
         \A g \in DOMAIN files : Advances(g), tasks' \subseteq tasks
  PROVE  FilesTypeOK'
<1>1. \A f \in DOMAIN files' : files'[f].stage \in Claimed => files'[f].attempt \in DOMAIN attempts'
  BY DEF FilesTypeOK, AttemptsKept, Advances, Claimed
<1>2. \A f \in tasks' : files'[f].stage \in Registered
  BY DEF FilesTypeOK, Advances, Registered
<1>. QED  BY <1>1, <1>2 DEF FilesTypeOK

(* A step of one task.                                                     *)
LEMMA StageType ==
  ASSUME FilesTypeOK, AttemptsKept, NEW f \in DOMAIN files, files[f].stage \in Claimed,
         NEW s \in {"begun", "sending", "sent", "broken", "ending"}, files' = To(f, s),
         tasks' \subseteq tasks \cup {f}, f \in tasks' => s \in Registered
  PROVE  FilesTypeOK'
<1>1. /\ files' \in Seq(File) /\ Len(files') = Len(files) /\ DOMAIN files' = DOMAIN files
      /\ files'[f].stage = s /\ files'[f].attempt = files[f].attempt
      /\ \A g \in DOMAIN files \ {f} : files'[g] = files[g]
  BY ToFacts
<1>2. \A g \in DOMAIN files' : files'[g].stage \in Claimed => files'[g].attempt \in DOMAIN attempts'
  BY <1>1 DEF FilesTypeOK, AttemptsKept
<1>3. \A g \in tasks' : files'[g].stage \in Registered
  BY <1>1 DEF FilesTypeOK
<1>. QED  BY <1>1, <1>2, <1>3 DEF FilesTypeOK

LEMMA ClosedType ==
  ASSUME FilesTypeOK, AttemptsKept, NEW f \in DOMAIN files, files' = Closed(f),
         tasks' \subseteq tasks \ {f}
  PROVE  FilesTypeOK'
<1>1. /\ files' \in Seq(File) /\ Len(files') = Len(files) /\ DOMAIN files' = DOMAIN files
      /\ files'[f].stage = "over"
      /\ \A g \in DOMAIN files \ {f} : files'[g] = files[g]
  BY ClosedFacts
<1>2. \A g \in DOMAIN files' : files'[g].stage \in Claimed => files'[g].attempt \in DOMAIN attempts'
  BY <1>1 DEF FilesTypeOK, AttemptsKept, Claimed
<1>3. \A g \in tasks' : files'[g].stage \in Registered
  BY <1>1 DEF FilesTypeOK
<1>. QED  BY <1>1, <1>2, <1>3 DEF FilesTypeOK

LEMMA OpenType ==
  ASSUME FilesTypeOK, AttemptsKept, Len(files) < MaxConnections, tasks' = tasks,
         files' = Append(files, [attempt |-> 0, stage |-> "asked", stop |-> FALSE])
  PROVE  /\ FilesTypeOK'
         /\ DOMAIN files' = DOMAIN files \cup {Len(files) + 1}
         /\ files'[Len(files) + 1].stage = "asked"
         /\ \A g \in DOMAIN files : files'[g] = files[g]
<1>. DEFINE e == [attempt |-> 0, stage |-> "asked", stop |-> FALSE]
<1>1. e \in File
  <2>1. FALSE \in BOOLEAN /\ 0 \in 0 .. MaxAttempts  BY BoundAssumption
  <2>. QED  BY <2>1 DEF File
<1>2. e.stage = "asked"  OBVIOUS
<1>3. files' = Append(files, e)  OBVIOUS
<1>. HIDE DEF e
<1>4. /\ files' \in Seq(File) /\ Len(files') = Len(files) + 1
      /\ \A g \in 1 .. Len(files) : files'[g] = files[g]
      /\ files'[Len(files) + 1] = e
  BY <1>1, <1>3, AppendProperties DEF FilesTypeOK
<1>5. Len(files) \in Nat /\ DOMAIN files = 1 .. Len(files) /\ DOMAIN files' = 1 .. Len(files) + 1
  BY <1>4, LenProperties DEF FilesTypeOK
<1>6. \A g \in DOMAIN files' : files'[g].stage \in Claimed => files'[g].attempt \in DOMAIN attempts'
  BY <1>2, <1>4, <1>5 DEF FilesTypeOK, AttemptsKept, Claimed
<1>7. \A g \in tasks' : files'[g].stage \in Registered
  BY <1>4, <1>5 DEF FilesTypeOK
<1>8. Len(files') <= MaxConnections  BY <1>4, <1>5, BoundAssumption
<1>9. FilesTypeOK'  BY <1>4, <1>5, <1>6, <1>7, <1>8 DEF FilesTypeOK
<1>. QED  BY <1>2, <1>4, <1>5, <1>9

LEMMA ClaimFacts ==
  ASSUME TypeInv, NEW f \in DOMAIN files, ClaimFile(f)
  PROVE  \E i \in Id :
    /\ uploads[i].status = "Connecting" /\ uploads[i].attempt \in DOMAIN attempts
    /\ files' \in Seq(File) /\ Len(files') = Len(files) /\ DOMAIN files' = DOMAIN files
    /\ files'[f].stage = "claimed" /\ files'[f].attempt = uploads[i].attempt
    /\ \A g \in DOMAIN files \ {f} : files'[g] = files[g]
<1>1. PICK i \in Id : /\ uploads[i].status = "Connecting"
                      /\ files' = [files EXCEPT ![f].stage = "claimed", ![f].attempt = uploads[i].attempt]
  BY DEF ClaimFile
<1>2. FilesTypeOK /\ UploadsTypeOK /\ LinksTypeOK  BY TypeParts
<1>3. uploads[i].attempt \in DOMAIN attempts  BY <1>1, <1>2 DEF UploadsTypeOK, Active
<1>4. uploads[i].attempt \in 0 .. MaxAttempts  BY <1>2, <1>3, AttemptType
<1>. DEFINE a == uploads[i].attempt
            e == [files[f] EXCEPT !.stage = "claimed", !.attempt = a]
<1>5. files[f] \in File  BY <1>2, FileFacts
<1>6. e \in File /\ e.stage = "claimed" /\ e.attempt = a  BY <1>4, <1>5 DEF File
<1>. DEFINE fs == [files EXCEPT ![f] = e]
<1>7. files' = fs  BY <1>1
<1>. HIDE DEF e
<1>8. /\ fs \in Seq(File) /\ Len(fs) = Len(files) /\ DOMAIN fs = DOMAIN files
      /\ fs[f] = e /\ \A g \in DOMAIN files \ {f} : fs[g] = files[g]
  <2>1. e \in File  BY <1>6
  <2>. HIDE DEF fs
  <2>2. fs = [files EXCEPT ![f] = e]  BY DEF fs
  <2>. QED  BY <1>2, <2>1, <2>2, FileReplaced
<1>. HIDE DEF fs
<1>9. /\ files' \in Seq(File) /\ Len(files') = Len(files) /\ DOMAIN files' = DOMAIN files
      /\ files'[f] = e /\ \A g \in DOMAIN files \ {f} : files'[g] = files[g]
  BY <1>7, <1>8
<1>. QED  BY <1>1, <1>3, <1>6, <1>9

LEMMA LostFacts ==
  ASSUME TypeInv, NEW ok \in BOOLEAN, ConnectionLost(ok)
  PROVE  /\ files' \in Seq(File) /\ Len(files') = Len(files) /\ DOMAIN files' = DOMAIN files
         /\ \A g \in DOMAIN files : Advances(g) /\ files'[g].stage = files[g].stage
         /\ StopsTasks(In(Active))
         /\ \A g \in DOMAIN files \ TasksOf(In(Active)) : files'[g] = files[g]
<1>1. files' = Stopping(In(Active), files) /\ tasks' = tasks \ TasksOf(In(Active))
  BY DEF ConnectionLost
<1>2. files \in Seq(File) /\ tasks \subseteq DOMAIN files  BY TypeParts DEF FilesTypeOK
<1>3. /\ files' \in Seq(File) /\ Len(files') = Len(files) /\ DOMAIN files' = DOMAIN files
      /\ \A g \in DOMAIN files : /\ files'[g].stage = files[g].stage
                                 /\ files'[g].attempt = files[g].attempt
                                 /\ g \in TasksOf(In(Active)) => files'[g].stop
                                 /\ g \notin TasksOf(In(Active)) => files'[g] = files[g]
  BY <1>1, <1>2, StoppingFacts
<1>. QED  BY <1>1, <1>2, <1>3 DEF Advances, StopsTasks, TasksOf

LEMMA CrashFacts ==
  ASSUME TypeInv, Crash
  PROVE  FilesTypeOK' /\ DOMAIN files' = DOMAIN files
         /\ tasks' = {} /\ \A f \in DOMAIN files : files'[f].stage = "over"
<1>. DEFINE e == [attempt |-> 0, stage |-> "over", stop |-> FALSE]
<1>1. FilesTypeOK /\ Len(files) \in Nat /\ DOMAIN files = 1 .. Len(files)  BY TypeParts, FileFacts
<1>2. e \in File
  <2>1. FALSE \in BOOLEAN /\ 0 \in 0 .. MaxAttempts  BY BoundAssumption
  <2>. QED  BY <2>1 DEF File
<1>3. e.stage = "over"  OBVIOUS
<1>4. files' = [f \in 1 .. Len(files) |-> e] /\ tasks' = {}  BY <1>1 DEF Crash
<1>. HIDE DEF e
<1>5. files' \in [1 .. Len(files) -> File]  BY <1>2, <1>4
<1>6. files' \in Seq(File) /\ Len(files') = Len(files)  BY <1>1, <1>5, IsASeq
<1>. QED  BY <1>1, <1>3, <1>4, <1>6 DEF FilesTypeOK, Claimed

LEMMA FilesStep ==
  ASSUME TypeInv, Next PROVE FilesTypeOK'
<1>1. FilesTypeOK /\ AttemptsKept  BY LinksStep, TypeParts
<1>2. CASE UNCHANGED taskVars
  BY <1>1, <1>2 DEF taskVars, FilesTypeOK, AttemptsKept
<1>3. ASSUME NEW i \in Id, NEW ok \in BOOLEAN, Ends(i, ok) PROVE FilesTypeOK'
  <2>1. tasks' \subseteq tasks  BY <1>3, EndsFiles DEF StopsTasks
  <2>. QED  BY <1>1, <1>3, <2>1, EndsFiles, FilesKept
<1>4. ASSUME NEW n \in DOMAIN attempts, OpenUploadFile(n) PROVE FilesTypeOK'
  <2>1. tasks' = tasks  BY <1>4 DEF OpenUploadFile
  <2>2. \/ files' = files
        \/ /\ Len(files) < MaxConnections
           /\ files' = Append(files, [attempt |-> 0, stage |-> "asked", stop |-> FALSE])
    BY <1>4 DEF OpenUploadFile
  <2>. QED  BY <1>1, <2>1, <2>2, OpenType DEF FilesTypeOK, AttemptsKept
<1>5. ASSUME NEW f \in DOMAIN files, ClaimFile(f) PROVE FilesTypeOK'
  <2>1. tasks' = tasks /\ files[f].stage = "asked"  BY <1>5 DEF ClaimFile
  <2>2. f \notin tasks  BY <1>1, <2>1 DEF FilesTypeOK, Registered
  <2>3. /\ files' \in Seq(File) /\ Len(files') = Len(files) /\ DOMAIN files' = DOMAIN files
        /\ files'[f].attempt \in DOMAIN attempts
        /\ \A g \in DOMAIN files \ {f} : files'[g] = files[g]
    BY <1>5, ClaimFacts
  <2>4. \A g \in DOMAIN files' : files'[g].stage \in Claimed => files'[g].attempt \in DOMAIN attempts'
    BY <1>1, <2>3 DEF FilesTypeOK, AttemptsKept
  <2>5. \A g \in tasks' : files'[g].stage \in Registered
    BY <1>1, <2>1, <2>2, <2>3 DEF FilesTypeOK
  <2>. QED  BY <1>1, <2>1, <2>3, <2>4, <2>5 DEF FilesTypeOK
<1>6. ASSUME NEW f \in DOMAIN files,
             BeginFile(f) \/ RegisterTask(f) \/ Confirmed(f) \/ Broken(f) \/ Stopped(f) \/ UnregisterTask(f)
      PROVE  FilesTypeOK'
  <2>1. CASE BeginFile(f)
    <3>1. f \notin tasks  BY <1>1, <2>1 DEF BeginFile, FilesTypeOK, Registered
    <3>. QED  BY <1>1, <2>1, <3>1, StageType DEF BeginFile, Claimed
  <2>2. CASE RegisterTask(f)
    <3>1. f \notin tasks  BY <1>1, <2>2 DEF RegisterTask, FilesTypeOK, Registered
    <3>2. "sending" \in Registered /\ "begun" \in Claimed  BY DEF Registered, Claimed
    <3>3. \/ files' = To(f, "sending") /\ tasks' = tasks \cup {f}
          \/ files' = Closed(f) /\ tasks' = tasks
      BY <2>2 DEF RegisterTask
    <3>4. files[f].stage = "begun"  BY <2>2 DEF RegisterTask
    <3>. QED  BY <1>1, <3>1, <3>2, <3>3, <3>4, StageType, ClosedType
  <2>3. CASE Confirmed(f) \/ Broken(f) \/ Stopped(f)
    <3>1. /\ files[f].stage = "sending" /\ tasks' = tasks
          /\ \E s \in {"sent", "broken", "ending"} : files' = To(f, s)
      BY <2>3 DEF Confirmed, Broken, Stopped
    <3>2. "sending" \in Claimed /\ {"sent", "broken", "ending"} \subseteq Registered
      BY DEF Registered, Claimed
    <3>. QED  BY <1>1, <3>1, <3>2, StageType
  <2>4. CASE UnregisterTask(f)
    <3>1. files' = Closed(f) /\ tasks' = {g \in tasks : files[g].attempt # files[f].attempt}
      BY <2>4 DEF UnregisterTask
    <3>. QED  BY <1>1, <3>1, ClosedType
  <2>. QED  BY <1>6, <2>1, <2>2, <2>3, <2>4
<1>7. ASSUME NEW ok \in BOOLEAN, ConnectionLost(ok) PROVE FilesTypeOK'
  <2>1. tasks' \subseteq tasks  BY <1>7, LostFacts DEF StopsTasks
  <2>. QED  BY <1>1, <1>7, <2>1, LostFacts, FilesKept
<1>8. CASE Crash
  BY <1>8, CrashFacts
<1>. QED  BY <1>2, <1>3, <1>4, <1>5, <1>6, <1>7, <1>8, FilesFrame

LEMMA RestStep ==
  ASSUME TypeInv, Next PROVE RestTypeOK'
<1>1. RestTypeOK  BY TypeParts
<1>2. newest' \in Id \cup {0} /\ rank' \in [User -> Rank] /\ crashes' \in 0 .. MaxCrashes
  <2>1. ASSUME NEW i \in Id, NEW ok \in BOOLEAN, Enqueue(i, ok) \/ Retry(i, ok)
        PROVE  newest' \in {i, newest} /\ UNCHANGED <<rank, crashes>>
    BY <2>1 DEF Enqueue, Retry, restVars
  <2>2. ASSUME NEW i \in Id, Activate(i) \/ ActivateUnsaved(i) \/ Drops(i)
        PROVE  UNCHANGED <<newest, rank, crashes>>
    BY <2>2 DEF Activate, ActivateUnsaved, Drops, EndCancel, restVars
  <2>3. ASSUME NEW ok \in BOOLEAN, ClearFinished(ok) \/ RetrySave(ok) \/ ConnectionLost(ok)
        PROVE  UNCHANGED <<newest, rank, crashes>>
    BY <2>3 DEF ClearFinished, RetrySave, ConnectionLost, restVars
  <2>4. ASSUME NEW n \in DOMAIN attempts, ClaimControl(n) \/ OpenUploadFile(n)
        PROVE  UNCHANGED <<newest, rank, crashes>>
    BY <2>4, LinkTouches DEF Touches
  <2>5. ASSUME NEW f \in DOMAIN files, ClaimFile(f) \/ BeginFile(f)
        PROVE  UNCHANGED <<newest, rank, crashes>>
    BY <2>5 DEF ClaimFile, BeginFile, restVars
  <2>6. SetPolicy => newest' = newest /\ crashes' = crashes /\ rank' \in [User -> Rank]
    BY DEF SetPolicy, restVars
  <2>7. Crash => UNCHANGED <<newest, rank>> /\ crashes < MaxCrashes /\ crashes' = crashes + 1
    BY DEF Crash
  <2>8. RestTypeOK  BY <1>1
  <2>. QED
    BY <2>1, <2>2, <2>3, <2>4, <2>5, <2>6, <2>7, <2>8, EndsFacts, QueueMoves, BoundAssumption
    DEF RestTypeOK, queueVars
<1>3. cancel' \in [id : Id \cup {0}, finished : BOOLEAN]
  <2>1. ASSUME NEW i \in Id, BeginCancel(i) PROVE cancel' \in [id : Id \cup {0}, finished : BOOLEAN]
    <3>1. (uploads[i].status \in Finished) \in BOOLEAN  OBVIOUS
    <3>. QED  BY <2>1, <3>1 DEF BeginCancel
  <2>2. NoCancel \in [id : Id \cup {0}, finished : BOOLEAN]
    <3>1. FALSE \in BOOLEAN  OBVIOUS
    <3>. QED  BY <3>1 DEF NoCancel
  <2>3. (\E i \in Id, ok \in BOOLEAN : EndCancel(i, ok)) \/ Crash => cancel' = NoCancel
    BY DEF EndCancel, Crash
  <2>4. (\E i \in Id : BeginCancel(i)) \/ (\E i \in Id, ok \in BOOLEAN : EndCancel(i, ok)) \/ Crash
        \/ cancel' = cancel
    <3>1. ASSUME NEW i \in Id, NEW ok \in BOOLEAN,
                 Enqueue(i, ok) \/ Activate(i) \/ ActivateUnsaved(i) \/ Retry(i, ok)
          PROVE  cancel' = cancel
      BY <3>1 DEF Enqueue, Activate, ActivateUnsaved, Retry, restVars
    <3>2. ASSUME NEW n \in DOMAIN attempts, NEW ok \in BOOLEAN, LinkStep(n, ok) PROVE cancel' = cancel
      BY <3>2 DEF LinkStep, RequestPeer, Refuse, ClaimControl, Allowed, Declined, FindConnection,
                  FailConnection, OpenUploadFile, restVars
    <3>3. ASSUME NEW f \in DOMAIN files, NEW ok \in BOOLEAN, TaskStep(f, ok) PROVE cancel' = cancel
      BY <3>3 DEF TaskStep, ClaimFile, BeginFile, BeginFails, RegisterTask, Confirmed, Broken, Stopped,
                  Report, UnregisterTask, restVars
    <3>4. ASSUME NEW ok \in BOOLEAN,
                 ClearFinished(ok) \/ RetrySave(ok) \/ ConnectionLost(ok) \/ SetPolicy
          PROVE  cancel' = cancel
      BY <3>4 DEF ClearFinished, RetrySave, ConnectionLost, SetPolicy, restVars
    <3>. QED  BY <3>1, <3>2, <3>3, <3>4 DEF Next
  <2>. QED  BY <1>1, <2>1, <2>2, <2>3, <2>4 DEF RestTypeOK
<1>. QED  BY <1>2, <1>3 DEF RestTypeOK

LEMMA TypeStep == TypeInv /\ [Next]_vars => TypeInv'
<1>1. CASE Next
  BY <1>1, LinksStep, UploadsStep, FilesStep, QueueStep, RestStep, TypePartsPrimed
<1>2. CASE UNCHANGED vars
  BY <1>2 DEF vars, queueVars, linkVars, taskVars, restVars, TypeInv, TypeOK, LinksOK, UploadOf
<1>. QED  BY <1>1, <1>2

(* Every variable has its type, only an upload that holds a slot has an    *)
(* attempt, and a waiting one bears no trace of an earlier attempt         *)
(* (UploadQueue, reset_pending, finish).                                   *)
THEOREM TypeCorrect == Spec => []TypeOK
<1>1. TypeInv => TypeOK  BY DEF TypeInv
<1>. QED  BY TypeInit, TypeStep, <1>1, PTL DEF Spec

-----------------------------------------------------------------------------
(* An upload becomes Completed only by the report of a connection over     *)
(* which all was sent.                                                     *)
LEMMA CompletedStep ==
  ASSUME TypeInv, Next, NEW i \in Id,
         uploads'[i].status = "Completed", uploads[i].status # "Completed"
  PROVE  \E f \in DOMAIN files : files[f].stage = "sent" /\ files[f].attempt = uploads[i].attempt
<1>0. uploads \in [Id -> Rec]  BY TypeParts DEF UploadsTypeOK
<1>1. ASSUME NEW j \in Id, NEW ok \in BOOLEAN, Ends(j, ok)
      PROVE  \E f \in DOMAIN files : files[f].stage = "sent" /\ files[f].attempt = uploads[i].attempt
  <2>1. PICK st \in Finished, n \in 0 .. MaxAttempts, fs \in EndedFiles :
          /\ IF n = 0 THEN st = "Cancelled" ELSE n \in DOMAIN attempts /\ UploadOf(n) = j
          /\ st = "Completed" => \E f \in DOMAIN files : files[f].stage = "sent" /\ files[f].attempt = n
          /\ Finish(j, st, n, fs, ok)
    BY <1>1 DEF Ends
  <2>2. uploads' = uploads \/ (~Refuses(j, n) /\ uploads' = [uploads EXCEPT ![j] = Upload(st)])
    BY <2>1 DEF Finish
  <2>3. i = j /\ st = "Completed" /\ ~Refuses(j, n)
    BY <1>0, <2>2 DEF Upload
  <2>. QED  BY <2>1, <2>3 DEF Refuses
<1>2. ASSUME NEW j \in Id, NEW st, st # "Completed", uploads' = [uploads EXCEPT ![j] = Upload(st)]
      PROVE  FALSE
  BY <1>0, <1>2 DEF Upload
<1>3. uploads' # uploads  OBVIOUS
<1>4. ASSUME NEW j \in Id, NEW ok \in BOOLEAN, Enqueue(j, ok) \/ Retry(j, ok) PROVE FALSE
  <2>1. Enqueue(j, ok) => uploads' = uploads \/ uploads' = [uploads EXCEPT ![j] = Upload("Queued")]
    BY DEF Enqueue
  <2>2. Retry(j, ok) => \E st \in {"Queued", "Absent"} : uploads' = [uploads EXCEPT ![j] = Upload(st)]
    BY DEF Retry
  <2>. QED  BY <1>2, <1>3, <1>4, <2>1, <2>2
<1>5. ASSUME NEW j \in Id, Activate(j) \/ ActivateUnsaved(j) \/ Drops(j) PROVE FALSE
  <2>1. CASE Activate(j)
    BY <1>0, <2>1 DEF Activate, Upload
  <2>2. CASE ActivateUnsaved(j)
    BY <1>3, <2>2 DEF ActivateUnsaved
  <2>3. CASE Drops(j)
    BY <1>2, <2>3 DEF Drops, EndCancel
  <2>. QED  BY <1>5, <2>1, <2>2, <2>3
<1>6. ASSUME NEW ok \in BOOLEAN, ClearFinished(ok) \/ RetrySave(ok) \/ ConnectionLost(ok) PROVE FALSE
  BY <1>0, <1>6 DEF ClearFinished, RetrySave, ConnectionLost, Upload
<1>7. ASSUME NEW j \in Id, NEW e \in Rec, Touches(j, e) PROVE FALSE
  BY <1>0, <1>7 DEF Touches, Active
<1>8. Crash => FALSE
  BY DEF Crash, Upload
<1>. QED
  BY <1>1, <1>3, <1>4, <1>5, <1>6, <1>7, <1>8, LinkTouches, ClaimTouches, BeginTouches, QueueMoves
  DEF SetPolicy, queueVars

(* An upload completes only when the downloader has confirmed the attempt  *)
(* that is under way (complete, finish).                                   *)
THEOREM NothingCompletesUnsent == Spec => CompletedWasSent
<1>. DEFINE Good == \A i \in Id : uploads'[i].status = "Completed" /\ uploads[i].status # "Completed"
                      => \E f \in DOMAIN files : files[f].stage = "sent" /\ files[f].attempt = uploads[i].attempt
<1>1. TypeInv /\ [Next]_vars => [Good]_vars
  BY CompletedStep
<1>2. TypeInv /\ [Next]_vars => TypeInv'  BY TypeStep
<1>. QED  BY <1>1, <1>2, TypeInit, PTL DEF Spec, CompletedWasSent

-----------------------------------------------------------------------------
(* What may be in the queue, or in its file.                               *)
Fits(S) == NoneTwice(S) /\ Cardinality(S) <= MaxQueue

DiskFits == Fits(disk.pending) /\ disk.served \subseteq Users(disk.pending)

LEMMA DiskParts ==
  DiskOK <=> Fits(Pending) /\ DiskFits /\ (~error => Pending \subseteq disk.pending)
BY DEF DiskOK, DiskFits, Fits

LEMMA DiskPartsPrimed ==
  DiskOK' <=> Fits(Pending)' /\ DiskFits' /\ (~error' => (Pending \subseteq disk.pending)')
BY DiskParts, PTL

LEMMA FiniteIds == \A S \in SUBSET Id : IsFiniteSet(S) /\ Cardinality(S) \in Nat
BY IdAssumption, FS_Subset, FS_CardinalityType

LEMMA FitsSubset ==
  ASSUME NEW S \in SUBSET Id, Fits(S), NEW T \in SUBSET S PROVE Fits(T)
<1>1. Cardinality(T) <= Cardinality(S)  BY FiniteIds, FS_Subset
<1>2. Cardinality(T) \in Nat /\ Cardinality(S) \in Nat  BY FiniteIds
<1>. QED  BY <1>1, <1>2, BoundAssumption DEF Fits, NoneTwice

(* A request that is no duplicate, within the limits.                      *)
LEMMA FitsOneMore ==
  ASSUME NEW i \in Id, Fits(Pending), ~Duplicate(i), WithinLimits(i)
  PROVE  Fits(Pending \cup {i})
<1>1. Pending \in SUBSET Id  BY PendingType DEF Pending
<1>2. Cardinality(Pending \cup {i}) <= Cardinality(Pending) + 1
  BY <1>1, FiniteIds, FS_AddElement
<1>3. Cardinality(Pending) \in Nat /\ Cardinality(Pending \cup {i}) \in Nat
  BY <1>1, FiniteIds
<1>4. Cardinality(Pending \cup {i}) <= MaxQueue
  BY <1>2, <1>3, BoundAssumption DEF WithinLimits
<1>5. NoneTwice(Pending \cup {i})
  BY DEF Fits, NoneTwice, Duplicate
<1>. QED  BY <1>4, <1>5 DEF Fits

LEMMA UsersBound ==
  ASSUME NEW S \in SUBSET Id, NEW T \in SUBSET Users(S)
  PROVE  Cardinality(T) <= Cardinality(S) /\ Cardinality(T) \in Nat
<1>. DEFINE f == [i \in S |-> UserOf[i]]
            R == Users(S)
<1>1. f \in Surjection(S, R)  BY DEF Users, Surjection
<1>2. IsFiniteSet(S) /\ Cardinality(S) \in Nat  BY FiniteIds
<1>. HIDE DEF f
<1>3. IsFiniteSet(R) /\ Cardinality(R) <= Cardinality(S)
  <2>. HIDE DEF R
  <2>. QED  BY <1>1, <1>2, FS_Surjection
<1>4. Cardinality(T) <= Cardinality(R) /\ IsFiniteSet(T)  BY <1>3, FS_Subset
<1>5. Cardinality(T) \in Nat /\ Cardinality(R) \in Nat
  BY <1>3, <1>4, FS_CardinalityType
<1>. QED  BY <1>2, <1>3, <1>4, <1>5

LEMMA DiskIsAccepted == TypeInv /\ DiskOK => AcceptedSurvives
<1>. SUFFICES ASSUME TypeInv, DiskOK PROVE AcceptedSurvives
  OBVIOUS
<1>1. disk.pending \in SUBSET Id  BY TypeParts DEF QueueTypeOK
<1>2. Cardinality(disk.served) <= Cardinality(disk.pending) /\ Cardinality(disk.served) \in Nat
  BY <1>1, UsersBound DEF DiskOK
<1>3. Cardinality(disk.pending) \in Nat  BY <1>1, FiniteIds
<1>4. Cardinality(disk.served) <= MaxQueue
  BY <1>2, <1>3, BoundAssumption DEF DiskOK
<1>. QED  BY <1>4 DEF AcceptedSurvives, DiskDecodes, DiskOK, NoneTwice

(* A save of what fits.                                                    *)
LEMMA SavedFits ==
  ASSUME QueueTypeOK, DiskFits, NEW us, NEW turn, NEW ok \in BOOLEAN, Persist(us, turn, ok),
         Fits(PendingOf(us))
  PROVE  DiskFits' /\ (~error' => disk'.pending = PendingOf(us))
<1>. DEFINE P == PendingOf(us)
            new == [pending |-> P, served |-> turn \cap Users(P)]
<1>1. /\ disk' = disk \/ disk' = new
      /\ ~error' => disk' = new
  BY Saved DEF QueueTypeOK
<1>2. new.pending = P /\ new.served \subseteq Users(P)  OBVIOUS
<1>. HIDE DEF new
<1>3. CASE disk' = disk
  BY <1>1, <1>2, <1>3 DEF DiskFits, Fits, NoneTwice, Users, UserOf
<1>4. CASE disk' = new
  BY <1>1, <1>2, <1>4 DEF DiskFits, Fits, NoneTwice, Users, UserOf
<1>. QED  BY <1>1, <1>3, <1>4

(* Most steps save the new queue, or leave queue and file alone.           *)
LEMMA SavedQueue ==
  ASSUME TypeInv, DiskOK, NEW turn, NEW ok \in BOOLEAN, Persist(uploads', turn, ok),
         NEW P, P = PendingOf(uploads'), Fits(P)
  PROVE  DiskOK'
<1>1. Pending' = P  BY DEF Pending, PendingOf
<1>2. Fits(Pending)'  BY <1>1 DEF Fits, NoneTwice
<1>3. DiskFits /\ QueueTypeOK  BY DiskParts, TypeParts
<1>. DEFINE us == uploads'
<1>4. DiskFits' /\ (~error' => disk'.pending = PendingOf(uploads'))
  <2>1. Persist(us, turn, ok) /\ Fits(PendingOf(us))  OBVIOUS
  <2>. QED  BY <1>3, <2>1, SavedFits
<1>. QED  BY <1>1, <1>2, <1>4, DiskPartsPrimed

LEMMA UnsavedQueue ==
  ASSUME TypeInv, DiskOK, PendingOf(uploads') \subseteq Pending, disk' = disk, error' = error
  PROVE  DiskOK'
<1>1. Pending' = PendingOf(uploads')  BY DEF Pending, PendingOf
<1>2. Pending \in SUBSET Id  BY PendingType DEF Pending
<1>. DEFINE P == PendingOf(uploads')
<1>3. Fits(P)
  <2>1. P \in SUBSET Pending  OBVIOUS
  <2>. HIDE DEF P
  <2>. QED  BY <1>2, <2>1, DiskParts, FitsSubset
<1>4. Fits(Pending)'  BY <1>1, <1>3 DEF Fits, NoneTwice
<1>5. DiskFits'  BY DiskParts DEF DiskFits, Fits, NoneTwice, Users, UserOf
<1>6. ~error' => (Pending \subseteq disk.pending)'  BY <1>1, DiskParts
<1>. QED  BY <1>4, <1>5, <1>6, DiskPartsPrimed

LEMMA ResetPending ==
  ASSUME UploadsTypeOK, NEW i \in Id, NEW st, st \notin Active
  PROVE  PendingOf([uploads EXCEPT ![i] = Upload(st)])
           = IF st = "Queued" THEN Pending \cup {i} ELSE Pending \ {i}
BY DEF UploadsTypeOK, PendingOf, Pending, Upload

LEMMA TouchPending ==
  ASSUME UploadsTypeOK, NEW i \in Id, NEW e, Touches(i, e)
  PROVE  PendingOf(uploads') = Pending
BY DEF UploadsTypeOK, Touches, PendingOf, Pending

LEMMA EndsDisk ==
  ASSUME TypeInv, DiskOK, NEW i \in Id, NEW ok \in BOOLEAN, Ends(i, ok)
  PROVE  DiskOK'
<1>1. CASE UNCHANGED <<uploads, served, error, disk, failures>>
  BY <1>1, UnsavedQueue DEF Pending
<1>2. ASSUME NEW st \in Finished, uploads' = [uploads EXCEPT ![i] = Upload(st)], Persist(uploads', served, ok)
      PROVE  DiskOK'
  <2>1. PendingOf(uploads') = Pending \ {i}
    BY <1>2, ResetPending, TypeParts DEF Finished, Active
  <2>2. Fits(Pending \ {i})  BY PendingType, DiskParts, FitsSubset DEF Pending
  <2>. QED  BY <1>2, <2>1, <2>2, SavedQueue
<1>. QED  BY <1>1, <1>2, EndsFacts

LEMMA EnqueueDisk ==
  ASSUME TypeInv, DiskOK, NEW i \in Id, NEW ok \in BOOLEAN, Enqueue(i, ok)
  PROVE  DiskOK'
<1>. DEFINE us == [uploads EXCEPT ![i] = Upload("Queued")]
<1>1. PendingOf(us) = Pending \cup {i}
  BY ResetPending, TypeParts DEF Active
<1>2. Fits(PendingOf(us))
  <2>1. Fits(Pending \cup {i})  BY DiskParts, FitsOneMore DEF Enqueue
  <2>. QED  BY <1>1, <2>1
<1>3. Persist(us, served, ok)  BY DEF Enqueue
<1>4. CASE ok = TRUE
  <2>1. uploads' = us  BY <1>4 DEF Enqueue
  <2>2. PendingOf(uploads') = PendingOf(us) /\ Persist(uploads', served, ok)  BY <1>3, <2>1
  <2>. HIDE DEF us
  <2>. QED  BY <1>2, <2>2, SavedQueue
<1>5. CASE ok = FALSE
  <2>1. uploads' = uploads  BY <1>5 DEF Enqueue
  <2>2. error' = TRUE  BY <1>3, <1>5 DEF Persist
  <2>3. DiskFits'
    <3>. HIDE DEF us
    <3>. QED  BY <1>2, <1>3, SavedFits, DiskParts, TypeParts
  <2>4. Fits(Pending)'  BY <2>1, DiskParts DEF Fits, NoneTwice, Pending, PendingOf
  <2>. QED  BY <2>2, <2>3, <2>4, DiskPartsPrimed
<1>. QED  BY <1>4, <1>5

LEMMA RetryDisk ==
  ASSUME TypeInv, DiskOK, NEW i \in Id, NEW ok \in BOOLEAN, Retry(i, ok)
  PROVE  DiskOK'
<1>1. Persist(uploads', served, ok)  BY DEF Retry
<1>2. CASE Duplicate(i)
  <2>1. PendingOf(uploads') = Pending \ {i}
    BY <1>2, ResetPending, TypeParts DEF Retry, Active
  <2>2. Fits(Pending \ {i})  BY PendingType, DiskParts, FitsSubset DEF Pending
  <2>. QED  BY <1>1, <2>1, <2>2, SavedQueue
<1>3. CASE ~Duplicate(i)
  <2>1. PendingOf(uploads') = Pending \cup {i}
    BY <1>3, ResetPending, TypeParts DEF Retry, Active
  <2>2. Fits(Pending \cup {i})  BY <1>3, DiskParts, FitsOneMore DEF Retry
  <2>. QED  BY <1>1, <2>1, <2>2, SavedQueue
<1>. QED  BY <1>2, <1>3

LEMMA ActivateDisk ==
  ASSUME TypeInv, DiskOK, NEW i \in Id, Activate(i)
  PROVE  DiskOK'
<1>1. i \in In({"Queued"})  BY DEF Activate, Turns!IsNext, Turns!Candidates
<1>2. PendingOf(uploads') = Pending
  <2>1. uploads[i].status = "Queued"  BY <1>1 DEF In
  <2>2. uploads' = [uploads EXCEPT ![i] = [Upload("Connecting") EXCEPT !.attempt = Len(attempts) + 1]]
    BY DEF Activate
  <2>. QED  BY <2>1, <2>2, TypeParts DEF UploadsTypeOK, PendingOf, Pending, Upload, Active
<1>3. PICK turn : Persist(uploads', turn, TRUE)  BY DEF Activate
<1>. QED  BY <1>2, <1>3, SavedQueue, DiskParts

LEMMA UnsavedDisk ==
  ASSUME TypeInv, DiskOK, NEW i \in Id, ActivateUnsaved(i)
  PROVE  DiskOK'
<1>1. error' = TRUE /\ uploads' = uploads  BY DEF ActivateUnsaved
<1>2. Fits(Pending)'  BY <1>1, DiskParts DEF Fits, NoneTwice, Pending, PendingOf
<1>. DEFINE new == [pending |-> Pending, served |-> (Turns!Round \cup {UserOf[i]}) \cap Users(Pending)]
<1>3. disk' \in {disk, new}  BY DEF ActivateUnsaved
<1>4. new.pending = Pending /\ new.served \subseteq Users(Pending)  OBVIOUS
<1>. HIDE DEF new
<1>5. DiskFits'
  <2>1. CASE disk' = disk
    BY <2>1, DiskParts DEF DiskFits, Fits, NoneTwice, Users, UserOf
  <2>2. CASE disk' = new
    BY <1>4, <2>2, DiskParts DEF DiskFits, Fits, NoneTwice, Users, UserOf
  <2>. QED  BY <1>3, <2>1, <2>2
<1>. QED  BY <1>1, <1>2, <1>5, DiskPartsPrimed

LEMMA DiskStep ==
  ASSUME TypeInv, DiskOK, Next PROVE DiskOK'
<1>1. ASSUME NEW i \in Id, Drops(i) PROVE DiskOK'
  <2>1. /\ uploads' = [uploads EXCEPT ![i] = Upload("Absent")]
        /\ disk' = disk /\ error' = error
    BY <1>1 DEF Drops, EndCancel
  <2>2. PendingOf(uploads') \subseteq Pending
    <3>1. UploadsTypeOK /\ "Absent" \notin Active  BY TypeParts DEF Active
    <3>2. PendingOf([uploads EXCEPT ![i] = Upload("Absent")]) = Pending \ {i}
      BY <3>1, ResetPending
    <3>. QED  BY <2>1, <3>2
  <2>. QED  BY <2>1, <2>2, UnsavedQueue
<1>2. ASSUME NEW ok \in BOOLEAN, ClearFinished(ok) \/ RetrySave(ok) \/ ConnectionLost(ok)
      PROVE  DiskOK'
  <2>1. PendingOf(uploads') = Pending
    BY <1>2, TypeParts
    DEF ClearFinished, RetrySave, ConnectionLost, PendingOf, Pending, Upload, Finished, Active, UploadsTypeOK
  <2>2. Persist(uploads', served, ok)
    BY <1>2 DEF ClearFinished, RetrySave, ConnectionLost
  <2>. QED  BY <2>1, <2>2, SavedQueue, DiskParts
<1>3. ASSUME NEW i \in Id, NEW e \in Rec, Touches(i, e) PROVE DiskOK'
  BY <1>3, TouchPending, UnsavedQueue, TypeParts DEF Touches
<1>4. ASSUME UNCHANGED <<uploads, disk, error>> PROVE DiskOK'
  BY <1>4, UnsavedQueue DEF Pending
<1>5. CASE Crash
  <2>1. /\ uploads' = [i \in Id |-> Upload(IF i \in disk.pending THEN "Queued" ELSE "Absent")]
        /\ disk' = disk
    BY <1>5 DEF Crash
  <2>2. disk.pending \subseteq Id  BY TypeParts DEF QueueTypeOK
  <2>3. Pending' = disk.pending
    BY <2>1, <2>2 DEF Pending, PendingOf, Upload, Active
  <2>4. Fits(Pending)' /\ DiskFits'
    BY <2>1, <2>3, DiskParts DEF DiskFits, Fits, NoneTwice, Users, UserOf
  <2>. QED  BY <2>1, <2>3, <2>4, DiskPartsPrimed
<1>6. SetPolicy \/ UNCHANGED <<queueVars, failures, crashes>> => UNCHANGED <<uploads, disk, error>>
  BY DEF SetPolicy, queueVars
<1>7. ASSUME NEW n \in DOMAIN attempts, ClaimControl(n) \/ OpenUploadFile(n) PROVE DiskOK'
  BY <1>3, <1>4, <1>7, LinkTouches
<1>8. ASSUME NEW f \in DOMAIN files, ClaimFile(f) \/ BeginFile(f) PROVE DiskOK'
  BY <1>3, <1>8, ClaimTouches, BeginTouches
<1>. QED
  BY <1>1, <1>2, <1>4, <1>5, <1>6, <1>7, <1>8, EndsDisk, EnqueueDisk, RetryDisk, ActivateDisk, UnsavedDisk,
     QueueMoves

LEMMA DiskInit == Init => DiskOK
<1>. SUFFICES ASSUME Init PROVE DiskOK
  OBVIOUS
<1>1. Pending = {}  BY DEF Init, Pending, PendingOf, Upload, Active
<1>2. Cardinality({}) <= MaxQueue  BY FS_EmptySet, BoundAssumption
<1>. QED  BY <1>1, <1>2 DEF Init, DiskOK, NoneTwice

(* What was accepted is on disk, in a file that can be read again, unless  *)
(* the user is told otherwise (persist, persistence_error, decode_store).  *)
THEOREM AcceptedIsKept == Spec => []AcceptedSurvives
<1>1. TypeInv /\ DiskOK /\ [Next]_vars => DiskOK'
  <2>1. CASE UNCHANGED vars
    BY <2>1 DEF vars, queueVars, DiskOK, NoneTwice, Pending, PendingOf, Users, UserOf
  <2>. QED  BY <2>1, DiskStep
<1>. QED  BY TypeInit, TypeStep, DiskInit, <1>1, DiskIsAccepted, PTL DEF Spec

-----------------------------------------------------------------------------
(* What a step may do to an upload without stopping its tasks: nothing     *)
(* they would notice, or it has none that sends, or it is removed.         *)
Settles(i) ==
  \/ uploads'[i].status = uploads[i].status /\ uploads'[i].attempt = uploads[i].attempt
  \/ /\ uploads'[i].attempt \notin DOMAIN attempts
     /\ \/ uploads[i].status \notin {"Uploading", "Absent"}
        \/ uploads'[i].status = "Absent"
        \/ i > newest

LEMMA OwnerKept ==
  ASSUME TypeInv, AttemptsKept, NEW f \in DOMAIN files, files[f].stage \in Claimed,
         f \in DOMAIN files', files'[f].attempt = files[f].attempt
  PROVE  /\ OwnerOf(f)' = OwnerOf(f) /\ OwnerOf(f) \in Id /\ files[f].attempt \in DOMAIN attempts
         /\ Current(files[f].attempt)' <=> uploads'[OwnerOf(f)].attempt = files[f].attempt
         /\ Current(files[f].attempt) <=> uploads[OwnerOf(f)].attempt = files[f].attempt
<1>1. files[f].attempt \in DOMAIN attempts  BY TypeParts DEF FilesTypeOK
<1>2. OwnerOf(f) \in Id  BY <1>1, AttemptType, TypeParts DEF OwnerOf
<1>. QED  BY <1>1, <1>2 DEF AttemptsKept, OwnerOf, UploadOf, Current

(* The senders of an upload that is not removed find it Uploading.         *)
LEMMA SenderFacts ==
  ASSUME TypeInv, TasksOK, NumbersOK, NEW f \in DOMAIN files, files[f].stage = "sending", ~files[f].stop
  PROVE  /\ f \in tasks /\ OwnerOf(f) \in Id /\ OwnerOf(f) <= newest
         /\ uploads[OwnerOf(f)].status \in {"Uploading", "Absent"}
<1>1. files[f].attempt \in DOMAIN attempts  BY TypeParts DEF FilesTypeOK, Claimed
<1>2. OwnerOf(f) \in Id  BY <1>1, AttemptType, TypeParts DEF OwnerOf
<1>3. OwnerOf(f) <= newest  BY <1>1 DEF NumbersOK, OwnerOf
<1>. QED  BY <1>2, <1>3 DEF TasksOK, SendersAreCurrent

(* Steps in which the file connections that were accepted stay as they are,*)
(* or go on while the tasks of the uploads in S are stopped.               *)
LEMMA TasksKept ==
  ASSUME TypeInv, TasksOK, NumbersOK, AttemptsKept, NEW S,
         StopsTasks(S),
         \A g \in DOMAIN files' : files'[g].stage \in Begun =>
            g \in DOMAIN files /\ files[g].stage \in Begun /\ files'[g].attempt = files[g].attempt,
         \A g \in DOMAIN files' : files'[g].stage = "sending" => files[g].stage = "sending",
         \A g \in DOMAIN files' \ TasksOf(S) :
            files'[g].stage = "sending" => files'[g].stop = files[g].stop,
         \A i \in Id : Settles(i) \/ (i \in S /\ uploads'[i].attempt \notin DOMAIN attempts)
  PROVE  TasksOK'
<1>0. Begun \subseteq Claimed /\ "sending" \in Begun  BY DEF Begun, Claimed
<1>1. ASSUME NEW f \in DOMAIN files', files'[f].stage \in Begun
      PROVE  /\ f \in DOMAIN files /\ files[f].stage \in Begun /\ files'[f].attempt = files[f].attempt
             /\ OwnerOf(f)' = OwnerOf(f) /\ OwnerOf(f) \in Id /\ files[f].attempt \in DOMAIN attempts
             /\ Current(files[f].attempt)' <=> uploads'[OwnerOf(f)].attempt = files[f].attempt
             /\ Current(files[f].attempt) <=> uploads[OwnerOf(f)].attempt = files[f].attempt
  BY <1>0, <1>1, OwnerKept
<1>2. \A f, g \in DOMAIN files' :
        files'[f].stage \in Begun /\ files'[g].stage \in Begun /\ files'[f].attempt = files'[g].attempt => f = g
  BY <1>1 DEF TasksOK
<1>3. ASSUME NEW f \in DOMAIN files', files'[f].stage \in Begun, Current(files[f].attempt)'
      PROVE  uploads'[OwnerOf(f)'].status = "Uploading"
  <2>1. uploads'[OwnerOf(f)].attempt = files[f].attempt  BY <1>1, <1>3
  <2>2. uploads'[OwnerOf(f)].status = uploads[OwnerOf(f)].status
        /\ uploads'[OwnerOf(f)].attempt = uploads[OwnerOf(f)].attempt
    BY <1>1, <1>3, <2>1 DEF Settles
  <2>3. uploads[OwnerOf(f)].status = "Uploading"
    BY <1>1, <1>3, <2>1, <2>2 DEF TasksOK
  <2>. QED  BY <1>1, <1>3, <2>2, <2>3
<1>4. ASSUME NEW f \in DOMAIN files', files'[f].stage = "sending", ~files'[f].stop
      PROVE  f \in tasks' /\ f \in DOMAIN files /\ files[f].stage = "sending" /\ ~files[f].stop
             /\ f \notin TasksOf(S)
  <2>1. f \notin TasksOf(S)  BY <1>4 DEF StopsTasks
  <2>2. f \in DOMAIN files /\ files[f].stage = "sending" /\ ~files[f].stop
    BY <1>0, <1>1, <1>4, <2>1
  <2>3. f \in tasks  BY <2>2 DEF TasksOK
  <2>. QED  BY <2>1, <2>2, <2>3 DEF StopsTasks
<1>5. ASSUME NEW f \in DOMAIN files', files'[f].stage = "sending", ~files'[f].stop
      PROVE  \/ uploads'[OwnerOf(f)'].status = "Uploading" /\ Current(files[f].attempt)'
             \/ uploads'[OwnerOf(f)'].status = "Absent"
  <2>. DEFINE i == OwnerOf(f)
  <2>1. /\ f \in tasks /\ i \in Id /\ i <= newest
        /\ uploads[i].status \in {"Uploading", "Absent"}
        /\ uploads[i].status = "Uploading" => Current(files[f].attempt)
    BY <1>4, <1>5, SenderFacts DEF TasksOK, SendersAreCurrent
  <2>2. i \notin S  BY <1>4, <1>5, <2>1 DEF TasksOf
  <2>3. Settles(i)  BY <2>1, <2>2
  <2>4. i \in Nat /\ newest \in Nat
    <3>1. newest \in Id \cup {0}  BY TypeParts DEF RestTypeOK
    <3>2. i \in Id  BY <2>1
    <3>. HIDE DEF i
    <3>. QED  BY <3>1, <3>2, IdAssumption
  <2>5. \/ uploads'[i].status = uploads[i].status /\ uploads'[i].attempt = uploads[i].attempt
        \/ uploads'[i].status = "Absent"
    BY <2>1, <2>3, <2>4 DEF Settles
  <2>6. OwnerOf(f)' = i /\ files'[f].attempt = files[f].attempt
    BY <1>0, <1>1, <1>5
  <2>7. Current(files[f].attempt)' <=> uploads'[i].attempt = files[f].attempt
    BY <1>0, <1>1, <1>5
  <2>8. Current(files[f].attempt) <=> uploads[i].attempt = files[f].attempt
    BY <1>0, <1>1, <1>5
  <2>. HIDE DEF i
  <2>. QED  BY <2>1, <2>5, <2>6, <2>7, <2>8
<1>. QED  BY <1>2, <1>3, <1>4, <1>5 DEF TasksOK, SendersAreCurrent

LEMMA ZeroIsNoAttempt == ASSUME TypeInv PROVE 0 \notin DOMAIN attempts
BY TypeParts, LenProperties DEF LinksTypeOK

LEMMA AdvancesFacts ==
  ASSUME DOMAIN files' = DOMAIN files, \A g \in DOMAIN files : Advances(g)
  PROVE  /\ \A g \in DOMAIN files' : files'[g].stage \in Begun =>
              g \in DOMAIN files /\ files[g].stage \in Begun /\ files'[g].attempt = files[g].attempt
         /\ \A g \in DOMAIN files' : files'[g].stage = "sending" => files[g].stage = "sending"
BY DEF Advances, Begun

LEMMA NobodyStopped ==
  ASSUME TypeInv, TasksOK, NumbersOK, AttemptsKept, tasks' = tasks,
         \A g \in DOMAIN files' : files'[g].stage \in Begun => g \in DOMAIN files /\ files'[g] = files[g],
         \A i \in Id : Settles(i)
  PROVE  TasksOK'
<1>1. StopsTasks({}) /\ TasksOf({}) = {}  BY DEF StopsTasks, TasksOf
<1>2. /\ \A g \in DOMAIN files' : files'[g].stage \in Begun =>
           g \in DOMAIN files /\ files[g].stage \in Begun /\ files'[g].attempt = files[g].attempt
      /\ \A g \in DOMAIN files' : files'[g].stage = "sending" => files[g].stage = "sending"
      /\ \A g \in DOMAIN files' \ TasksOf({}) :
           files'[g].stage = "sending" => files'[g].stop = files[g].stop
  BY DEF Begun
<1>3. \A i \in Id : Settles(i) \/ (i \in {} /\ uploads'[i].attempt \notin DOMAIN attempts)
  OBVIOUS
<1>. QED  BY <1>1, <1>2, <1>3, TasksKept

LEMMA EndsTasks ==
  ASSUME TypeInv, TasksOK, NumbersOK, AttemptsKept, NEW i \in Id, NEW ok \in BOOLEAN, Ends(i, ok)
  PROVE  TasksOK'
<1>1. /\ DOMAIN files' = DOMAIN files
      /\ \A g \in DOMAIN files : Advances(g)
      /\ \/ /\ tasks' = tasks /\ uploads' = uploads
            /\ \A g \in DOMAIN files : files[g].stage = files'[g].stage => files[g].stop = files'[g].stop
         \/ /\ StopsTasks({i})
            /\ \A g \in DOMAIN files \ TasksOf({i}) :
                 files[g].stage = files'[g].stage => files[g].stop = files'[g].stop
  BY EndsFiles
<1>2. /\ \A g \in DOMAIN files' : files'[g].stage \in Begun =>
           g \in DOMAIN files /\ files[g].stage \in Begun /\ files'[g].attempt = files[g].attempt
      /\ \A g \in DOMAIN files' : files'[g].stage = "sending" => files[g].stage = "sending"
  BY <1>1, AdvancesFacts
<1>3. CASE /\ tasks' = tasks /\ uploads' = uploads
           /\ \A g \in DOMAIN files : files[g].stage = files'[g].stage => files[g].stop = files'[g].stop
  <2>1. StopsTasks({}) /\ TasksOf({}) = {}  BY <1>3 DEF StopsTasks, TasksOf
  <2>2. \A j \in Id : Settles(j) \/ (j \in {} /\ uploads'[j].attempt \notin DOMAIN attempts)
    BY <1>3 DEF Settles
  <2>3. \A g \in DOMAIN files' \ TasksOf({}) :
          files'[g].stage = "sending" => files'[g].stop = files[g].stop
    BY <1>1, <1>2, <1>3
  <2>. QED  BY <1>2, <2>1, <2>2, <2>3, TasksKept
<1>4. CASE /\ StopsTasks({i})
           /\ \A g \in DOMAIN files \ TasksOf({i}) :
                files[g].stage = files'[g].stage => files[g].stop = files'[g].stop
  <2>1. uploads' = uploads \/ \E st \in Finished : uploads' = [uploads EXCEPT ![i] = Upload(st)]
    BY EndsFacts
  <2>2. \A j \in Id : Settles(j) \/ (j \in {i} /\ uploads'[j].attempt \notin DOMAIN attempts)
    <3>1. uploads \in [Id -> Rec] /\ 0 \notin DOMAIN attempts  BY ZeroIsNoAttempt, TypeParts DEF UploadsTypeOK
    <3>2. ASSUME NEW j \in Id, j # i PROVE uploads'[j] = uploads[j]  BY <2>1, <3>1, <3>2
    <3>3. uploads'[i] = uploads[i] \/ uploads'[i].attempt = 0  BY <2>1, <3>1 DEF Upload
    <3>. QED  BY <3>1, <3>2, <3>3 DEF Settles
  <2>3. \A g \in DOMAIN files' \ TasksOf({i}) :
          files'[g].stage = "sending" => files'[g].stop = files[g].stop
    BY <1>1, <1>2, <1>4
  <2>. QED  BY <1>2, <1>4, <2>2, <2>3, TasksKept
<1>. QED  BY <1>1, <1>3, <1>4

LEMMA LostTasks ==
  ASSUME TypeInv, TasksOK, NumbersOK, AttemptsKept, NEW ok \in BOOLEAN, ConnectionLost(ok)
  PROVE  TasksOK'
<1>. DEFINE S == In(Active)
<1>1. /\ DOMAIN files' = DOMAIN files
      /\ \A g \in DOMAIN files : Advances(g)
      /\ StopsTasks(S)
      /\ \A g \in DOMAIN files \ TasksOf(S) : files'[g] = files[g]
  BY LostFacts
<1>2. /\ \A g \in DOMAIN files' : files'[g].stage \in Begun =>
           g \in DOMAIN files /\ files[g].stage \in Begun /\ files'[g].attempt = files[g].attempt
      /\ \A g \in DOMAIN files' : files'[g].stage = "sending" => files[g].stage = "sending"
  BY <1>1, AdvancesFacts
<1>3. uploads' = [i \in Id |-> IF uploads[i].status \in Active THEN Upload("Queued") ELSE uploads[i]]
  BY DEF ConnectionLost
<1>4. \A i \in Id : Settles(i) \/ (i \in S /\ uploads'[i].attempt \notin DOMAIN attempts)
  <2>. TAKE i \in Id
  <2>1. uploads[i].status \in Active => i \in S /\ uploads'[i].attempt = 0  BY <1>3 DEF In, Upload
  <2>2. uploads[i].status \notin Active => uploads'[i] = uploads[i]  BY <1>3
  <2>. QED  BY <2>1, <2>2, ZeroIsNoAttempt DEF Settles
<1>5. \A g \in DOMAIN files' \ TasksOf(S) :
        files'[g].stage = "sending" => files'[g].stop = files[g].stop
  BY <1>1
<1>. HIDE DEF S
<1>. QED  BY <1>1, <1>2, <1>4, <1>5, TasksKept

(* Steps of uploads that stop no task.                                     *)
LEMMA QueueTasks ==
  ASSUME TypeInv, TasksOK, NumbersOK, AttemptsKept, UNCHANGED taskVars, NEW i \in Id, NEW e,
         uploads' = uploads \/ uploads' = [uploads EXCEPT ![i] = e],
         e.attempt \notin DOMAIN attempts,
         uploads[i].status \notin {"Uploading", "Absent"} \/ e.status = "Absent" \/ i > newest
  PROVE  TasksOK'
<1>1. \A j \in Id : Settles(j)  BY TypeParts DEF Settles, UploadsTypeOK
<1>. QED  BY <1>1, NobodyStopped DEF taskVars

LEMMA TouchTasks ==
  ASSUME TypeInv, TasksOK, NumbersOK, AttemptsKept, tasks' = tasks,
         \A g \in DOMAIN files' : files'[g].stage \in Begun => g \in DOMAIN files /\ files'[g] = files[g],
         uploads' = uploads \/ \E i \in Id, e \in Rec : Touches(i, e) /\ e.status = uploads[i].status
  PROVE  TasksOK'
<1>1. \A j \in Id : Settles(j)  BY TypeParts DEF Settles, UploadsTypeOK, Touches
<1>. QED  BY <1>1, NobodyStopped

LEMMA BeginTasks ==
  ASSUME TypeInv, TasksOK, NumbersOK, AttemptsKept, NEW f \in DOMAIN files, BeginFile(f)
  PROVE  TasksOK'
<1>. DEFINE i == OwnerOf(f)
<1>0. FilesTypeOK /\ UploadsTypeOK  BY TypeParts
<1>1. PICK e \in Rec : Touches(i, e) /\ e.status = "Uploading" /\ i \in Id
                       /\ uploads[i].status = "Connecting"
  BY BeginTouches
<1>2. /\ DOMAIN files' = DOMAIN files /\ tasks' = tasks
      /\ files'[f].stage = "begun" /\ files'[f].attempt = files[f].attempt
      /\ \A g \in DOMAIN files \ {f} : files'[g] = files[g]
  BY <1>0, ToFacts DEF BeginFile
<1>3. files[f].stage = "claimed" /\ Current(files[f].attempt)  BY DEF BeginFile
<1>4. ASSUME NEW g \in DOMAIN files, files'[g].stage \in Begun, g # f
      PROVE  files[g].stage \in Begun /\ files'[g] = files[g] /\ files[g].attempt # files[f].attempt
  <2>1. files[g].stage \in Begun /\ files'[g] = files[g]  BY <1>2, <1>4
  <2>2. files[g].attempt = files[f].attempt => uploads[i].status = "Uploading"
    BY <1>3, <2>1 DEF TasksOK, OwnerOf
  <2>. QED  BY <1>1, <2>1, <2>2
<1>5. ASSUME NEW g \in DOMAIN files, files'[g].stage \in Begun
      PROVE  /\ OwnerOf(g)' = OwnerOf(g) /\ OwnerOf(g) \in Id
             /\ Current(files[g].attempt)' <=> uploads'[OwnerOf(g)].attempt = files[g].attempt
             /\ Current(files[g].attempt) <=> uploads[OwnerOf(g)].attempt = files[g].attempt
  <2>1. files[g].stage \in Claimed /\ files'[g].attempt = files[g].attempt
    BY <1>2, <1>3, <1>5 DEF Claimed, Begun
  <2>. QED  BY <1>2, <2>1, OwnerKept
<1>6. \A j \in Id : uploads'[j].attempt = uploads[j].attempt
  BY <1>0, <1>1 DEF UploadsTypeOK, Touches
<1>7. \A j \in Id : uploads'[j].status = IF j = i THEN "Uploading" ELSE uploads[j].status
  BY <1>0, <1>1 DEF UploadsTypeOK, Touches
<1>. HIDE DEF i
<1>8. \A g, h \in DOMAIN files' :
        files'[g].stage \in Begun /\ files'[h].stage \in Begun /\ files'[g].attempt = files'[h].attempt => g = h
  BY <1>2, <1>4 DEF TasksOK
<1>9. ASSUME NEW g \in DOMAIN files', files'[g].stage \in Begun, Current(files[g].attempt)'
      PROVE  uploads'[OwnerOf(g)'].status = "Uploading"
  <2>1. uploads[OwnerOf(g)].attempt = files[g].attempt  BY <1>2, <1>5, <1>6, <1>9
  <2>2. g # f => uploads[OwnerOf(g)].status = "Uploading"
    BY <1>2, <1>4, <1>5, <1>9, <2>1 DEF TasksOK
  <2>3. g = f => OwnerOf(g) = i  BY DEF i
  <2>. QED  BY <1>2, <1>5, <1>7, <1>9, <2>2, <2>3
<1>10. ASSUME NEW g \in DOMAIN files', files'[g].stage = "sending", ~files'[g].stop
       PROVE  /\ g \in tasks'
              /\ \/ uploads'[OwnerOf(g)'].status = "Uploading" /\ Current(files[g].attempt)'
                 \/ uploads'[OwnerOf(g)'].status = "Absent"
  <2>1. g \in DOMAIN files /\ g # f /\ files[g] = files'[g] /\ "sending" \in Begun
    BY <1>2, <1>10 DEF Begun
  <2>2. /\ g \in tasks /\ OwnerOf(g) \in Id
        /\ \/ uploads[OwnerOf(g)].status = "Uploading" /\ Current(files[g].attempt)
           \/ uploads[OwnerOf(g)].status = "Absent"
    BY <1>10, <2>1, SenderFacts DEF TasksOK, SendersAreCurrent
  <2>3. uploads'[OwnerOf(g)].status = uploads[OwnerOf(g)].status
    BY <1>1, <1>7, <2>2
  <2>. QED  BY <1>2, <1>5, <1>6, <1>10, <2>1, <2>2, <2>3
<1>. QED  BY <1>8, <1>9, <1>10 DEF TasksOK, SendersAreCurrent

LEMMA TaskTasks ==
  ASSUME TypeInv, TasksOK, NumbersOK, AttemptsKept, NEW f \in DOMAIN files, uploads' = uploads,
         \/ RegisterTask(f) \/ Confirmed(f) \/ Broken(f) \/ Stopped(f) \/ UnregisterTask(f)
  PROVE  TasksOK'
<1>0. FilesTypeOK /\ UploadsTypeOK  BY TypeParts
<1>1. files[f].stage \in Begun  BY DEF RegisterTask, Confirmed, Broken, Stopped, UnregisterTask, Begun
(* Either the file connection goes on, or it is closed.                    *)
<1>2. /\ DOMAIN files' = DOMAIN files
      /\ \A g \in DOMAIN files \ {f} : files'[g] = files[g]
      /\ files'[f].stage \in Begun => files'[f].attempt = files[f].attempt
      /\ files'[f].stage = "sending" => f \in tasks' /\ Current(files[f].attempt)
                                        /\ uploads[OwnerOf(f)].status = "Uploading"
  <2>1. CASE \E s \in {"sent", "broken", "ending"} : files' = To(f, s)
    BY <1>0, <2>1, ToFacts
  <2>2. CASE files' = Closed(f)
    BY <1>0, <2>2, ClosedFacts DEF Begun
  <2>3. CASE RegisterTask(f) /\ files' # Closed(f)
    <3>1. /\ files' = To(f, "sending") /\ tasks' = tasks \cup {f}
          /\ Current(files[f].attempt) /\ uploads[OwnerOf(f)].status = "Uploading"
      BY <2>3 DEF RegisterTask
    <3>. QED  BY <1>0, <3>1, ToFacts
  <2>. QED  BY <2>1, <2>2, <2>3 DEF RegisterTask, Confirmed, Broken, Stopped, UnregisterTask
<1>3. ASSUME NEW g \in tasks, g # f, files[g].stage = "sending" PROVE g \in tasks'
  <2>1. UnregisterTask(f) => files[g].attempt # files[f].attempt
    <3>1. g \in DOMAIN files /\ files[g].stage \in Begun  BY <1>0, <1>3 DEF FilesTypeOK, Begun
    <3>. QED  BY <1>1, <1>3, <3>1 DEF TasksOK
  <2>. QED  BY <1>3, <2>1 DEF RegisterTask, Confirmed, Broken, Stopped, UnregisterTask
<1>4. ASSUME NEW g \in DOMAIN files', files'[g].stage \in Begun
      PROVE  /\ g \in DOMAIN files /\ files[g].stage \in Begun /\ files'[g].attempt = files[g].attempt
             /\ OwnerOf(g)' = OwnerOf(g) /\ OwnerOf(g) \in Id
             /\ Current(files[g].attempt)' <=> uploads[OwnerOf(g)].attempt = files[g].attempt
             /\ Current(files[g].attempt) <=> uploads[OwnerOf(g)].attempt = files[g].attempt
  <2>1. g \in DOMAIN files /\ files[g].stage \in Begun /\ files'[g].attempt = files[g].attempt
    BY <1>1, <1>2, <1>4
  <2>2. files[g].stage \in Claimed  BY <2>1 DEF Begun, Claimed
  <2>. QED  BY <1>4, <2>1, <2>2, OwnerKept
<1>5. \A g, h \in DOMAIN files' :
        files'[g].stage \in Begun /\ files'[h].stage \in Begun /\ files'[g].attempt = files'[h].attempt => g = h
  BY <1>4 DEF TasksOK
<1>6. ASSUME NEW g \in DOMAIN files', files'[g].stage \in Begun, Current(files[g].attempt)'
      PROVE  uploads'[OwnerOf(g)'].status = "Uploading"
  <2>1. Current(files[g].attempt)  BY <1>4, <1>6
  <2>2. uploads[OwnerOf(g)].status = "Uploading"  BY <1>4, <1>6, <2>1 DEF TasksOK
  <2>. QED  BY <1>4, <1>6, <2>2
<1>7. ASSUME NEW g \in DOMAIN files', files'[g].stage = "sending", ~files'[g].stop
      PROVE  /\ g \in tasks'
             /\ \/ uploads'[OwnerOf(g)'].status = "Uploading" /\ Current(files[g].attempt)'
                \/ uploads'[OwnerOf(g)'].status = "Absent"
  <2>0. "sending" \in Begun  BY DEF Begun
  <2>1. CASE g = f
    BY <1>2, <1>4, <1>7, <2>0, <2>1
  <2>2. CASE g # f
    <3>1. g \in DOMAIN files /\ files'[g] = files[g]  BY <1>2, <1>7, <2>2
    <3>2. /\ g \in tasks
          /\ \/ uploads[OwnerOf(g)].status = "Uploading" /\ Current(files[g].attempt)
             \/ uploads[OwnerOf(g)].status = "Absent"
      BY <1>7, <3>1, SenderFacts DEF TasksOK, SendersAreCurrent
    <3>. QED  BY <1>3, <1>4, <1>7, <2>0, <2>2, <3>1, <3>2
  <2>. QED  BY <2>1, <2>2
<1>. QED  BY <1>5, <1>6, <1>7 DEF TasksOK, SendersAreCurrent

LEMMA TasksStep ==
  ASSUME TypeInv, TasksOK, NumbersOK, Next PROVE TasksOK'
<1>0. AttemptsKept /\ UploadsTypeOK /\ 0 \notin DOMAIN attempts
  BY LinksStep, TypeParts, ZeroIsNoAttempt
<1>1. ASSUME UNCHANGED taskVars, \A j \in Id : Settles(j) PROVE TasksOK'
  BY <1>0, <1>1, NobodyStopped DEF taskVars
<1>2. ASSUME UNCHANGED <<uploads, taskVars>> PROVE TasksOK'
  BY <1>1, <1>2 DEF Settles
<1>3. ASSUME NEW i \in Id, NEW st, UNCHANGED taskVars, uploads' = [uploads EXCEPT ![i] = Upload(st)],
             uploads[i].status \notin {"Uploading", "Absent"} \/ st = "Absent" \/ i > newest
      PROVE  TasksOK'
  <2>1. Upload(st).attempt = 0 /\ Upload(st).status = st  BY DEF Upload
  <2>. QED  BY <1>0, <1>3, <2>1, QueueTasks
<1>4. ASSUME NEW i \in Id, NEW ok \in BOOLEAN, Enqueue(i, ok) \/ Retry(i, ok) PROVE TasksOK'
  <2>1. CASE Enqueue(i, ok)
    <3>1. uploads' = uploads \/ uploads' = [uploads EXCEPT ![i] = Upload("Queued")]  BY <2>1 DEF Enqueue
    <3>2. UNCHANGED taskVars /\ i > newest  BY <2>1 DEF Enqueue
    <3>. QED  BY <1>2, <1>3, <3>1, <3>2
  <2>2. CASE Retry(i, ok)
    <3>1. /\ \E st \in {"Queued", "Absent"} : uploads' = [uploads EXCEPT ![i] = Upload(st)]
          /\ UNCHANGED taskVars /\ uploads[i].status = "Failed"
      BY <2>2 DEF Retry
    <3>. QED  BY <1>3, <3>1
  <2>. QED  BY <1>4, <2>1, <2>2
<1>5. ASSUME NEW i \in Id, Activate(i) \/ ActivateUnsaved(i) PROVE TasksOK'
  <2>1. CASE Activate(i)
    <3>. DEFINE e == [Upload("Connecting") EXCEPT !.attempt = Len(attempts) + 1]
    <3>1. e.attempt = Len(attempts) + 1  BY DEF Upload
    <3>2. Len(attempts) + 1 \notin DOMAIN attempts  BY <2>1, ActivateType, TypeParts
    <3>3. uploads[i].status = "Queued"  BY <2>1 DEF Activate, Turns!IsNext, Turns!Candidates, In
    <3>4. uploads' = [uploads EXCEPT ![i] = e] /\ UNCHANGED taskVars  BY <2>1 DEF Activate
    <3>. HIDE DEF e
    <3>. QED  BY <1>0, <3>1, <3>2, <3>3, <3>4, QueueTasks
  <2>2. CASE ActivateUnsaved(i)
    BY <1>2, <2>2 DEF ActivateUnsaved
  <2>. QED  BY <1>5, <2>1, <2>2
<1>6. ASSUME NEW i \in Id, Drops(i) PROVE TasksOK'
  BY <1>3, <1>6 DEF Drops, EndCancel, taskVars
<1>7. ASSUME NEW ok \in BOOLEAN, ClearFinished(ok) \/ RetrySave(ok) PROVE TasksOK'
  <2>1. CASE ClearFinished(ok)
    <3>1. uploads' = [j \in Id |-> IF uploads[j].status \in Finished THEN Upload("Absent") ELSE uploads[j]]
          /\ UNCHANGED taskVars
      BY <2>1 DEF ClearFinished
    <3>2. \A j \in Id : Settles(j)
      <4>. TAKE j \in Id
      <4>1. uploads'[j] = uploads[j] \/ (uploads'[j].attempt = 0 /\ uploads'[j].status = "Absent")
        BY <3>1 DEF Upload
      <4>. QED  BY <1>0, <4>1 DEF Settles
    <3>. QED  BY <1>1, <3>1, <3>2
  <2>2. CASE RetrySave(ok)
    BY <1>2, <2>2 DEF RetrySave
  <2>. QED  BY <1>7, <2>1, <2>2
<1>8. ASSUME NEW n \in DOMAIN attempts, ClaimControl(n) PROVE TasksOK'
  <2>1. UNCHANGED taskVars  BY <1>8 DEF ClaimControl
  <2>2. uploads' = uploads \/ \E i \in Id, e \in Rec : Touches(i, e) /\ e.status = uploads[i].status
    BY <1>8, LinkTouches
  <2>. QED  BY <1>0, <2>1, <2>2, TouchTasks DEF taskVars
<1>9. ASSUME NEW n \in DOMAIN attempts, OpenUploadFile(n) PROVE TasksOK'
  <2>1. uploads' = uploads \/ \E i \in Id, e \in Rec : Touches(i, e) /\ e.status = uploads[i].status
    BY <1>9, LinkTouches
  <2>2. tasks' = tasks  BY <1>9 DEF OpenUploadFile
  <2>3. \A g \in DOMAIN files' : files'[g].stage \in Begun => g \in DOMAIN files /\ files'[g] = files[g]
    <3>1. CASE files' = files  BY <3>1
    <3>2. CASE /\ Len(files) < MaxConnections
               /\ files' = Append(files, [attempt |-> 0, stage |-> "asked", stop |-> FALSE])
      BY <1>0, <2>2, <3>2, OpenType, TypeParts DEF Begun
    <3>. QED  BY <1>9, <3>1, <3>2 DEF OpenUploadFile
  <2>. QED  BY <1>0, <2>1, <2>2, <2>3, TouchTasks
<1>10. ASSUME NEW f \in DOMAIN files, ClaimFile(f) PROVE TasksOK'
  <2>1. \E i \in Id, e \in Rec : Touches(i, e) /\ e.status = uploads[i].status
    BY <1>10, ClaimTouches
  <2>2. tasks' = tasks  BY <1>10 DEF ClaimFile
  <2>3. \A g \in DOMAIN files' : files'[g].stage \in Begun => g \in DOMAIN files /\ files'[g] = files[g]
    BY <1>10, ClaimFacts DEF Begun
  <2>. QED  BY <1>0, <2>1, <2>2, <2>3, TouchTasks
<1>11. ASSUME NEW f \in DOMAIN files,
              RegisterTask(f) \/ Confirmed(f) \/ Broken(f) \/ Stopped(f) \/ UnregisterTask(f)
       PROVE TasksOK'
  <2>1. uploads' = uploads
    BY <1>11 DEF RegisterTask, Confirmed, Broken, Stopped, UnregisterTask, queueVars
  <2>. QED  BY <1>0, <1>11, <2>1, TaskTasks
<1>12. CASE Crash
  BY <1>12, CrashFacts DEF TasksOK, SendersAreCurrent, Begun
<1>13. ASSUME NEW i \in Id, NEW ok \in BOOLEAN, Ends(i, ok) PROVE TasksOK'
  BY <1>0, <1>13, EndsTasks
<1>14. ASSUME NEW ok \in BOOLEAN, ConnectionLost(ok) PROVE TasksOK'
  BY <1>0, <1>14, LostTasks
<1>15. ASSUME NEW f \in DOMAIN files, BeginFile(f) PROVE TasksOK'
  BY <1>0, <1>15, BeginTasks
<1>16. ASSUME NEW ok \in BOOLEAN, NEW i \in Id, EndCancel(i, ok) PROVE TasksOK'
  <2>1. Drops(i) \/ Ends(i, ok)
    <3>1. CASE cancel.finished  BY <1>16, <3>1 DEF Drops, EndCancel
    <3>. QED  BY <1>16, <3>1, CancelEnds
  <2>. QED  BY <1>6, <1>13, <2>1
<1>17. ASSUME NEW n \in DOMAIN attempts, NEW ok \in BOOLEAN, LinkStep(n, ok) PROVE TasksOK'
  <2>1. RequestPeer(n) \/ Allowed(n) \/ FindConnection(n) => UNCHANGED <<uploads, taskVars>>
    BY DEF RequestPeer, Allowed, FindConnection, queueVars
  <2>. QED  BY <1>2, <1>8, <1>9, <1>13, <1>17, <2>1, LinkEnds DEF LinkStep
<1>18. ASSUME NEW f \in DOMAIN files, NEW ok \in BOOLEAN, TaskStep(f, ok) PROVE TasksOK'
  BY <1>10, <1>11, <1>13, <1>15, <1>18, TaskEnds DEF TaskStep
<1>19. ASSUME NEW i \in Id, BeginCancel(i) PROVE TasksOK'
  BY <1>2, <1>19 DEF BeginCancel, queueVars
<1>20. SetPolicy => TasksOK'
  BY <1>2 DEF SetPolicy
<1>. QED  BY <1>4, <1>5, <1>7, <1>12, <1>14, <1>16, <1>17, <1>18, <1>19, <1>20 DEF Next

-----------------------------------------------------------------------------
(* Ids.                                                                    *)
LEMMA SameAttempts ==
  ASSUME TypeInv, Next
  PROVE  (\E i \in Id : Activate(i)) \/ DOMAIN attempts' = DOMAIN attempts
<1>1. ASSUME NEW n \in DOMAIN attempts, NEW ok \in BOOLEAN, LinkStep(n, ok)
      PROVE DOMAIN attempts' = DOMAIN attempts
  BY <1>1 DEF LinkStep, RequestPeer, Refuse, ClaimControl, Allowed, Declined, FindConnection, FailConnection,
              OpenUploadFile, Control
<1>2. ASSUME LinksOver PROVE DOMAIN attempts' = DOMAIN attempts
  BY <1>2 DEF LinksOver
<1>. QED  BY <1>1, <1>2, LinksFrame DEF linkVars, ConnectionLost, Crash

LEMMA NumbersKept ==
  ASSUME TypeInv, NumbersOK, AttemptsKept, DOMAIN attempts' = DOMAIN attempts, newest' = newest,
         \A j \in Id : uploads'[j].status # "Absent" => uploads[j].status # "Absent",
         \A j \in disk'.pending : j \in disk.pending \/ (j \in Id /\ uploads[j].status # "Absent")
  PROVE  NumbersOK'
BY DEF NumbersOK, AttemptsKept, UploadOf

LEMMA SavedPending ==
  ASSUME QueueTypeOK, NEW us, NEW turn, NEW ok \in BOOLEAN, Persist(us, turn, ok),
         NEW j \in disk'.pending
  PROVE  j \in disk.pending \/ (j \in Id /\ us[j].status # "Absent")
<1>. DEFINE new == [pending |-> PendingOf(us), served |-> turn \cap Users(PendingOf(us))]
<1>1. disk' = disk \/ disk' = new  BY Saved DEF QueueTypeOK
<1>2. new.pending = PendingOf(us)  OBVIOUS
<1>. HIDE DEF new
<1>. QED  BY <1>1, <1>2 DEF PendingOf, Active

(* The queue is saved as it is now, and holds no request it did not hold.  *)
LEMMA SavedNumbers ==
  ASSUME TypeInv, NumbersOK, AttemptsKept, DOMAIN attempts' = DOMAIN attempts, newest' = newest,
         NEW turn, NEW ok \in BOOLEAN, Persist(uploads', turn, ok),
         \A j \in Id : uploads'[j].status # "Absent" => uploads[j].status # "Absent"
  PROVE  NumbersOK'
<1>. DEFINE us == uploads'
<1>1. ASSUME NEW j \in disk'.pending
      PROVE  j \in disk.pending \/ (j \in Id /\ us[j].status # "Absent")
  <2>1. Persist(us, turn, ok) /\ QueueTypeOK  BY TypeParts
  <2>. HIDE DEF us
  <2>. QED  BY <1>1, <2>1, SavedPending
<1>. QED  BY <1>1, NumbersKept

LEMMA EnqueueNumbers ==
  ASSUME TypeInv, NumbersOK, AttemptsKept, DOMAIN attempts' = DOMAIN attempts,
         NEW i \in Id, NEW ok \in BOOLEAN, Enqueue(i, ok)
  PROVE  NumbersOK'
<1>. DEFINE us == [uploads EXCEPT ![i] = Upload("Queued")]
<1>1. i \in Nat /\ newest \in Nat /\ newest' = i /\ i > newest
  <2>1. newest \in Id \cup {0}  BY TypeParts DEF RestTypeOK
  <2>2. newest' = i /\ i > newest  BY DEF Enqueue
  <2>. QED  BY <2>1, <2>2, IdAssumption
<1>2. uploads \in [Id -> Rec]  BY TypeParts DEF UploadsTypeOK
<1>3. \A j \in Id : j = i \/ us[j] = uploads[j]  BY <1>2
<1>4. uploads' = us \/ uploads' = uploads  BY DEF Enqueue
<1>5. ASSUME NEW j \in disk'.pending
      PROVE  j \in disk.pending \/ (j \in Id /\ us[j].status # "Absent")
  <2>1. Persist(us, served, ok) /\ QueueTypeOK  BY TypeParts DEF Enqueue
  <2>. HIDE DEF us
  <2>. QED  BY <1>5, <2>1, SavedPending
<1>. HIDE DEF us
<1>6. \A j \in Id : uploads[j].status # "Absent" => j <= i
  <2>. TAKE j \in Id
  <2>. QED  BY <1>1, IdAssumption DEF NumbersOK
<1>7. \A j \in Id : us[j].status # "Absent" => j <= i
  BY <1>1, <1>3, <1>6
<1>8. \A j \in disk'.pending : j <= newest'
  <2>1. ASSUME NEW j \in disk.pending PROVE j <= i
    <3>1. j \in Id  BY TypeParts DEF QueueTypeOK
    <3>. QED  BY <1>1, <3>1, IdAssumption DEF NumbersOK
  <2>. QED  BY <1>1, <1>5, <1>7, <2>1
<1>9. \A j \in Id : uploads'[j].status # "Absent" => j <= newest'  BY <1>1, <1>4, <1>6, <1>7
<1>10. ASSUME NEW n \in DOMAIN attempts' PROVE attempts'[n].id <= newest'
  <2>1. UploadOf(n) \in Id /\ attempts'[n].id = UploadOf(n)
    BY AttemptType, TypeParts DEF AttemptsKept, UploadOf
  <2>2. UploadOf(n) <= newest  BY DEF NumbersOK
  <2>3. UploadOf(n) \in Nat  BY <2>1, IdAssumption
  <2>. QED  BY <1>1, <2>1, <2>2, <2>3
<1>. QED  BY <1>8, <1>9, <1>10 DEF NumbersOK, UploadOf

LEMMA ActivateNumbers ==
  ASSUME TypeInv, NumbersOK, NEW i \in Id, Activate(i)
  PROVE  NumbersOK'
<1>1. uploads[i].status = "Queued"  BY DEF Activate, Turns!IsNext, Turns!Candidates, In
<1>2. /\ AttemptsKept /\ attempts'[Len(attempts) + 1].id = i
      /\ DOMAIN attempts' = DOMAIN attempts \cup {Len(attempts) + 1}
  BY ActivateType, TypeParts
<1>3. newest' = newest  BY DEF Activate
<1>4. i <= newest  BY <1>1 DEF NumbersOK
<1>5. \A n \in DOMAIN attempts' : attempts'[n].id <= newest'
  BY <1>2, <1>3, <1>4 DEF NumbersOK, AttemptsKept, UploadOf
<1>. DEFINE us == uploads'
<1>6. us = [uploads EXCEPT ![i] = [Upload("Connecting") EXCEPT !.attempt = Len(attempts) + 1]]
  BY DEF Activate
<1>7. \A j \in Id : us[j].status # "Absent" => uploads[j].status # "Absent"
  BY <1>1, <1>6, TypeParts DEF UploadsTypeOK
<1>8. PICK turn : Persist(us, turn, TRUE)  BY DEF Activate
<1>9. ASSUME NEW j \in disk'.pending
      PROVE  j \in disk.pending \/ (j \in Id /\ us[j].status # "Absent")
  <2>1. QueueTypeOK /\ TRUE \in BOOLEAN  BY TypeParts
  <2>. HIDE DEF us
  <2>. QED  BY <1>8, <1>9, <2>1, SavedPending
<1>10. \A j \in disk'.pending : j <= newest'
  BY <1>3, <1>7, <1>9 DEF NumbersOK
<1>11. \A j \in Id : uploads'[j].status # "Absent" => j <= newest'
  BY <1>3, <1>7 DEF NumbersOK
<1>. QED  BY <1>5, <1>10, <1>11 DEF NumbersOK, UploadOf

LEMMA NumbersStep ==
  ASSUME TypeInv, NumbersOK, Next PROVE NumbersOK'
<1>0. AttemptsKept /\ uploads \in [Id -> Rec] /\ ((\E i \in Id : Activate(i)) \/ DOMAIN attempts' = DOMAIN attempts)
  BY LinksStep, SameAttempts, TypeParts DEF UploadsTypeOK
<1>1. CASE \E i \in Id : Activate(i)
  BY <1>1, ActivateNumbers
<1>2. CASE ~ \E i \in Id : Activate(i)
  <2>0. DOMAIN attempts' = DOMAIN attempts  BY <1>0, <1>2
  <2>1. ASSUME UNCHANGED <<uploads, newest, disk>> PROVE NumbersOK'
    BY <1>0, <2>0, <2>1, NumbersKept
  <2>2. ASSUME NEW i \in Id, NEW ok \in BOOLEAN, Enqueue(i, ok) PROVE NumbersOK'
    BY <1>0, <2>0, <2>2, EnqueueNumbers
  <2>3. ASSUME NEW i \in Id, NEW ok \in BOOLEAN, Retry(i, ok) PROVE NumbersOK'
    <3>1. /\ \E st : uploads' = [uploads EXCEPT ![i] = Upload(st)]
          /\ uploads[i].status # "Absent" /\ newest' = newest /\ Persist(uploads', served, ok)
      BY <2>3 DEF Retry
    <3>2. \A j \in Id : uploads'[j].status # "Absent" => uploads[j].status # "Absent"
      BY <1>0, <3>1
    <3>. QED  BY <1>0, <2>0, <3>1, <3>2, SavedNumbers
  <2>4. ASSUME NEW i \in Id, NEW ok \in BOOLEAN, Ends(i, ok) PROVE NumbersOK'
    <3>1. CASE UNCHANGED <<uploads, served, error, disk, failures>>
      BY <2>1, <2>4, <3>1, EndsFacts
    <3>2. CASE /\ uploads[i].status # "Absent"
               /\ \E st \in Finished : uploads' = [uploads EXCEPT ![i] = Upload(st)]
               /\ Persist(uploads', served, ok)
      <4>1. \A j \in Id : uploads'[j].status # "Absent" => uploads[j].status # "Absent"
        BY <1>0, <3>2
      <4>2. newest' = newest  BY <2>4, EndsFacts
      <4>. QED  BY <1>0, <2>0, <3>2, <4>1, <4>2, SavedNumbers
    <3>. QED  BY <2>4, <3>1, <3>2, EndsFacts
  <2>5. ASSUME NEW i \in Id, ActivateUnsaved(i) PROVE NumbersOK'
    <3>. DEFINE new == [pending |-> Pending, served |-> (Turns!Round \cup {UserOf[i]}) \cap Users(Pending)]
    <3>1. UNCHANGED <<uploads, newest>> /\ disk' \in {disk, new}  BY <2>5 DEF ActivateUnsaved
    <3>2. new.pending = Pending  OBVIOUS
    <3>. HIDE DEF new
    <3>3. \A j \in disk'.pending : j \in disk.pending \/ (j \in Id /\ uploads[j].status # "Absent")
      BY <3>1, <3>2 DEF Pending, PendingOf, Active
    <3>. QED  BY <1>0, <2>0, <3>1, <3>3, NumbersKept
  <2>6. ASSUME NEW i \in Id, Drops(i) PROVE NumbersOK'
    <3>1. uploads' = [uploads EXCEPT ![i] = Upload("Absent")] /\ UNCHANGED <<newest, disk>>
      BY <2>6 DEF Drops, EndCancel
    <3>2. \A j \in Id : uploads'[j].status # "Absent" => uploads[j].status # "Absent"
      BY <1>0, <3>1 DEF Upload
    <3>. QED  BY <1>0, <2>0, <3>1, <3>2, NumbersKept
  <2>7. ASSUME NEW ok \in BOOLEAN, ClearFinished(ok) \/ RetrySave(ok) \/ ConnectionLost(ok) PROVE NumbersOK'
    <3>1. newest' = newest /\ Persist(uploads', served, ok)
      BY <2>7 DEF ClearFinished, RetrySave, ConnectionLost
    <3>2. \A j \in Id : uploads'[j].status # "Absent" => uploads[j].status # "Absent"
      BY <1>0, <2>7 DEF ClearFinished, RetrySave, ConnectionLost, Upload, Active
    <3>. QED  BY <1>0, <2>0, <3>1, <3>2, SavedNumbers
  <2>8. ASSUME NEW i \in Id, NEW e \in Rec, Touches(i, e) PROVE NumbersOK'
    <3>1. \A j \in Id : uploads'[j].status # "Absent" => uploads[j].status # "Absent"
      BY <1>0, <2>8 DEF Touches, Active
    <3>. QED  BY <1>0, <2>0, <2>8, <3>1, NumbersKept DEF Touches
  <2>9. ASSUME NEW n \in DOMAIN attempts, ClaimControl(n) \/ OpenUploadFile(n) PROVE NumbersOK'
    BY <2>1, <2>8, <2>9, LinkTouches
  <2>10. ASSUME NEW f \in DOMAIN files, ClaimFile(f) \/ BeginFile(f) PROVE NumbersOK'
    BY <2>8, <2>10, ClaimTouches, BeginTouches
  <2>11. CASE Crash
    <3>1. /\ uploads' = [i \in Id |-> Upload(IF i \in disk.pending THEN "Queued" ELSE "Absent")]
          /\ UNCHANGED <<newest, disk>>
      BY <2>11 DEF Crash
    <3>2. \A j \in Id : uploads'[j].status # "Absent" => j <= newest'
      BY <3>1 DEF NumbersOK, Upload
    <3>. QED  BY <1>0, <2>0, <3>1, <3>2 DEF NumbersOK, AttemptsKept, UploadOf
  <2>12. SetPolicy \/ UNCHANGED <<queueVars, failures, crashes>> => UNCHANGED <<uploads, newest, disk>>
    BY DEF SetPolicy, queueVars
  <2>. QED
    BY <1>2, <2>1, <2>2, <2>3, <2>4, <2>5, <2>6, <2>7, <2>9, <2>10, <2>11, <2>12, QueueMoves
<1>. QED  BY <1>1, <1>2

LEMMA TasksInit == Init => TasksOK /\ NumbersOK
<1>. SUFFICES ASSUME Init PROVE TasksOK /\ NumbersOK
  OBVIOUS
<1>1. DOMAIN files = {} /\ DOMAIN attempts = {}  BY DEF Init
<1>2. TasksOK  BY <1>1 DEF TasksOK, SendersAreCurrent
<1>3. NumbersOK  BY <1>1 DEF Init, NumbersOK, Upload
<1>. QED  BY <1>2, <1>3

(* A task that sends and has not been told to stop works for the attempt   *)
(* under way, unless its record was removed (register_task, abort).        *)
THEOREM NobodySendsForNothing == Spec => []SendersAreCurrent
<1>1. TypeInv /\ TasksOK /\ NumbersOK /\ [Next]_vars => TasksOK' /\ NumbersOK'
  <2>1. CASE UNCHANGED vars
    BY <2>1 DEF vars, queueVars, linkVars, taskVars, TasksOK, SendersAreCurrent, NumbersOK, OwnerOf, UploadOf, Current
  <2>. QED  BY <2>1, TasksStep, NumbersStep
<1>2. TasksOK => SendersAreCurrent  BY DEF TasksOK
<1>. QED  BY TypeInit, TypeStep, TasksInit, <1>1, <1>2, PTL DEF Spec

-----------------------------------------------------------------------------
(* The queue implements UploadTurns: every step gives a turn, lets         *)
(* requests join or leave, or is invisible there.                          *)
W == In({"Queued"})
A == In(Active)

LEMMA PendingParts ==
  Pending = W \cup A /\ (Pending' = W' \cup A')
  BY DEF Pending, PendingOf, W, A, In

LEMMA TurnUsers == \A S : Turns!Users(S) = Users(S)
BY DEF Turns!Users, Users

LEMMA TurnCardinality == \A S : Turns!Cardinality(S) = Cardinality(S)
BY DEF Turns!Cardinality, Cardinality

(* A save of the queue keeps the turns of those who have requests.         *)
LEMMA SavedTurns ==
  ASSUME TypeInv, NEW us, NEW ok \in BOOLEAN, Persist(us, served, ok), Pending' \subseteq PendingOf(us)
  PROVE  Turns!Retained
<1>1. served' = served \cap Users(PendingOf(us))  BY DEF Persist
<1>2. served \cap Users(Pending') \subseteq served'  BY <1>1 DEF Users
<1>3. Turns!Users(W' \cup A') = Users(Pending')  BY PendingParts, TurnUsers
<1>. QED  BY <1>1, <1>2, <1>3 DEF Turns!Retained, W, A

LEMMA LeaveStep ==
  ASSUME NEW S, S \subseteq W \cup A, W' = W \ S, A' = A \ S, rank' = rank, Turns!Retained
  PROVE  Turns!QueueStep
<1>1. Turns!Leave(S)  BY DEF Turns!Leave, W, A
<1>2. S \in SUBSET (W \cup A)  OBVIOUS
<1>. QED  BY <1>1, <1>2 DEF Turns!QueueStep, W, A

LEMMA JoinStep ==
  ASSUME NEW i \in Id, i \notin W \cup A, W' = W \cup {i}, A' = A, rank' = rank, Turns!Retained
  PROVE  Turns!QueueStep
<1>1. Turns!Join(i)  BY DEF Turns!Join, W, A
<1>. QED  BY <1>1 DEF Turns!QueueStep

LEMMA ResetTurns ==
  ASSUME UploadsTypeOK, NEW i \in Id, NEW st, st \notin Active, uploads' = [uploads EXCEPT ![i] = Upload(st)]
  PROVE  /\ st # "Queued" => W' = W \ ({i} \cap (W \cup A)) /\ A' = A \ ({i} \cap (W \cup A))
         /\ st = "Queued" /\ i \notin W \cup A => W' = W \cup {i} /\ A' = A
BY DEF UploadsTypeOK, W, A, In, Upload, Active

LEMMA SameTurns ==
  ASSUME \A i \in Id : /\ uploads[i].status = "Queued" <=> uploads'[i].status = "Queued"
                       /\ uploads[i].status \in Active <=> uploads'[i].status \in Active
  PROVE  W' = W /\ A' = A
BY DEF W, A, In

(* The queue step of UploadTurns, or nothing it can see.                   *)
TurnStep == Turns!QueueStep \/ UNCHANGED <<W, A, served, rank>>

LEMMA EndsTurns ==
  ASSUME TypeInv, NEW i \in Id, NEW ok \in BOOLEAN, Ends(i, ok) PROVE TurnStep
<1>1. rank' = rank  BY EndsFacts
<1>2. CASE UNCHANGED <<uploads, served, error, disk, failures>>
  <2>1. W' = W /\ A' = A  BY <1>2, SameTurns
  <2>. QED  BY <1>1, <1>2, <2>1 DEF TurnStep
<1>3. ASSUME NEW st \in Finished, uploads' = [uploads EXCEPT ![i] = Upload(st)], Persist(uploads', served, ok)
      PROVE  TurnStep
  <2>1. st \notin Active /\ st # "Queued"  BY DEF Finished, Active
  <2>. DEFINE S == {i} \cap (W \cup A)
              us == uploads'
  <2>2. W' = W \ S /\ A' = A \ S  BY <1>3, <2>1, ResetTurns, TypeParts
  <2>3. Persist(us, served, ok) /\ Pending' \subseteq PendingOf(us)  BY <1>3 DEF Pending, PendingOf
  <2>4. Turns!Retained
    <3>. HIDE DEF us
    <3>. QED  BY <2>3, SavedTurns
  <2>. QED  BY <1>1, <2>2, <2>4, LeaveStep DEF TurnStep
<1>. QED  BY <1>2, <1>3, EndsFacts

LEMMA EnqueueTurns ==
  ASSUME TypeInv, NumbersOK, NEW i \in Id, NEW ok \in BOOLEAN, Enqueue(i, ok) PROVE TurnStep
<1>1. rank' = rank  BY DEF Enqueue
<1>2. i \notin W \cup A
  <2>1. uploads[i].status = "Absent"
    <3>1. newest \in Id \cup {0} /\ i > newest  BY TypeParts DEF RestTypeOK, Enqueue
    <3>2. newest \in Nat /\ i \in Nat  BY <3>1, IdAssumption
    <3>. QED  BY <3>1, <3>2 DEF NumbersOK
  <2>. QED  BY <2>1 DEF W, A, In, Active
<1>. DEFINE us == [uploads EXCEPT ![i] = Upload("Queued")]
<1>3. Persist(us, served, ok)  BY DEF Enqueue
<1>4. PendingOf(us) = Pending \cup {i}  BY ResetPending, TypeParts DEF Active
<1>5. CASE uploads' = us
  <2>1. W' = W \cup {i} /\ A' = A
    BY <1>2, <1>5, ResetTurns, TypeParts DEF Active
  <2>2. Pending' \subseteq PendingOf(us)  BY <1>5 DEF Pending, PendingOf
  <2>3. Turns!Retained
    <3>. HIDE DEF us
    <3>. QED  BY <1>3, <2>2, SavedTurns
  <2>. QED  BY <1>1, <1>2, <2>1, <2>3, JoinStep DEF TurnStep
<1>6. CASE uploads' = uploads
  <2>1. W' = W /\ A' = A  BY <1>6, SameTurns
  <2>2. Pending' \subseteq PendingOf(us)  BY <1>4, <2>1, PendingParts
  <2>3. Turns!Retained
    <3>. HIDE DEF us
    <3>. QED  BY <1>3, <2>2, SavedTurns
  <2>4. W' = W \ {} /\ A' = A \ {}  BY <2>1
  <2>. QED  BY <1>1, <2>3, <2>4, LeaveStep DEF TurnStep
<1>. QED  BY <1>5, <1>6 DEF Enqueue

LEMMA RetryTurns ==
  ASSUME TypeInv, NEW i \in Id, NEW ok \in BOOLEAN, Retry(i, ok) PROVE TurnStep
<1>1. rank' = rank /\ uploads[i].status = "Failed"  BY DEF Retry
<1>2. i \notin W \cup A  BY <1>1 DEF W, A, In, Active
<1>. DEFINE us == uploads'
<1>3. Persist(us, served, ok) /\ Pending' \subseteq PendingOf(us)  BY DEF Retry, Pending, PendingOf
<1>4. Turns!Retained
  <2>. HIDE DEF us
  <2>. QED  BY <1>3, SavedTurns
<1>5. CASE uploads' = [uploads EXCEPT ![i] = Upload("Queued")]
  <2>1. W' = W \cup {i} /\ A' = A  BY <1>2, <1>5, ResetTurns, TypeParts DEF Active
  <2>. QED  BY <1>1, <1>2, <1>4, <2>1, JoinStep DEF TurnStep
<1>6. CASE uploads' = [uploads EXCEPT ![i] = Upload("Absent")]
  <2>. DEFINE S == {i} \cap (W \cup A)
  <2>1. W' = W \ S /\ A' = A \ S
    <3>1. "Absent" \notin Active /\ "Absent" # "Queued"  BY DEF Active
    <3>. QED  BY <1>6, <3>1, ResetTurns, TypeParts
  <2>. QED  BY <1>1, <1>4, <2>1, LeaveStep DEF TurnStep
<1>. QED  BY <1>5, <1>6 DEF Retry

LEMMA ActivateTurns ==
  ASSUME TypeInv, NEW i \in Id, Activate(i) PROVE TurnStep
<1>1. /\ \E slots \in Slots : Cardinality(A) < slots
      /\ Turns!IsNext(i) /\ rank' = rank
  BY DEF Activate, A
<1>2. i \in W  BY <1>1 DEF Turns!IsNext, Turns!Candidates, W
<1>3. W' = W \ {i} /\ A' = A \cup {i}
  <2>1. uploads' = [uploads EXCEPT ![i] = [Upload("Connecting") EXCEPT !.attempt = Len(attempts) + 1]]
    BY DEF Activate
  <2>2. uploads'[i].status = "Connecting" /\ \A j \in Id \ {i} : uploads'[j] = uploads[j]
    BY <2>1, TypeParts DEF UploadsTypeOK, Upload
  <2>. QED  BY <2>2 DEF W, A, In, Active
<1>4. served' = (Turns!Round \cup {UserOf[i]}) \cap Turns!Users(W \cup A)
  <2>1. Pending' = Pending  BY <1>2, <1>3, PendingParts
  <2>. DEFINE us == uploads'
  <2>2. Persist(us, Turns!Round \cup {UserOf[i]}, TRUE) /\ PendingOf(us) = Pending'
    BY DEF Activate, Pending, PendingOf
  <2>3. served' = (Turns!Round \cup {UserOf[i]}) \cap Users(PendingOf(us))
    <3>. HIDE DEF us
    <3>. QED  BY <2>2 DEF Persist
  <2>. QED  BY <2>1, <2>2, <2>3, PendingParts, TurnUsers
<1>5. Turns!Turn(i)
  BY <1>1, <1>3, <1>4, TurnCardinality DEF Turns!Turn, W, A
<1>. QED  BY <1>5 DEF Turns!QueueStep, TurnStep

LEMMA UnsavedTurns ==
  ASSUME TypeInv, NumbersOK, Next, crashes' = crashes PROVE TurnStep
<1>1. ASSUME \A i \in Id : /\ uploads[i].status = "Queued" <=> uploads'[i].status = "Queued"
                           /\ uploads[i].status \in Active <=> uploads'[i].status \in Active,
             UNCHANGED <<served, rank>>
      PROVE  TurnStep
  BY <1>1, SameTurns DEF TurnStep
<1>2. uploads \in [Id -> Rec]  BY TypeParts DEF UploadsTypeOK
<1>3. ASSUME NEW i \in Id, ActivateUnsaved(i) \/ Drops(i) PROVE TurnStep
  <2>1. CASE ActivateUnsaved(i)
    BY <1>1, <2>1 DEF ActivateUnsaved
  <2>2. CASE Drops(i)
    <3>. DEFINE S == {i} \cap (W \cup A)
    <3>1. /\ uploads' = [uploads EXCEPT ![i] = Upload("Absent")] /\ UNCHANGED <<served, rank>>
      BY <2>2 DEF Drops, EndCancel
    <3>2. W' = W \ S /\ A' = A \ S
      <4>1. "Absent" \notin Active /\ "Absent" # "Queued"  BY DEF Active
      <4>. QED  BY <3>1, <4>1, ResetTurns, TypeParts
    <3>3. Turns!Retained
      <4>1. served \cap Turns!Users(W' \cup A') \subseteq served /\ served' = served
        BY <3>1
      <4>2. \E kept \in SUBSET served :
              served \cap Turns!Users(W' \cup A') \subseteq kept /\ served' = kept
        BY <4>1
      <4>. QED  BY <4>2 DEF Turns!Retained, W, A
    <3>. QED  BY <3>1, <3>2, <3>3, LeaveStep DEF TurnStep
  <2>. QED  BY <1>3, <2>1, <2>2
<1>4. ASSUME NEW ok \in BOOLEAN, ClearFinished(ok) \/ RetrySave(ok) PROVE TurnStep
  <2>. DEFINE us == uploads'
  <2>1. \A i \in Id : /\ uploads[i].status = "Queued" <=> us[i].status = "Queued"
                      /\ uploads[i].status \in Active <=> us[i].status \in Active
    BY <1>4 DEF ClearFinished, RetrySave, Upload, Finished, Active
  <2>2. W' = W /\ A' = A  BY <2>1, SameTurns
  <2>3. Persist(us, served, ok) /\ rank' = rank /\ Pending' \subseteq PendingOf(us)
    BY <1>4 DEF ClearFinished, RetrySave, Pending, PendingOf
  <2>4. Turns!Retained
    <3>. HIDE DEF us
    <3>. QED  BY <2>3, SavedTurns
  <2>5. W' = W \ {} /\ A' = A \ {}  BY <2>2
  <2>. QED  BY <2>3, <2>4, <2>5, LeaveStep DEF TurnStep
<1>5. ASSUME NEW ok \in BOOLEAN, ConnectionLost(ok) PROVE TurnStep
  <2>. DEFINE us == uploads'
  <2>1. us = [i \in Id |-> IF uploads[i].status \in Active THEN Upload("Queued") ELSE uploads[i]]
    BY <1>5 DEF ConnectionLost
  <2>2. W' = W \cup A /\ A' = {}  BY <2>1 DEF W, A, In, Upload, Active
  <2>3. Persist(us, served, ok) /\ rank' = rank /\ Pending' \subseteq PendingOf(us)
    BY <1>5 DEF ConnectionLost, Pending, PendingOf
  <2>4. Turns!Retained
    <3>. HIDE DEF us
    <3>. QED  BY <2>3, SavedTurns
  <2>5. Turns!Requeue  BY <2>2, <2>3, <2>4 DEF Turns!Requeue, W, A
  <2>. QED  BY <2>5 DEF Turns!QueueStep, TurnStep
<1>6. ASSUME NEW i \in Id, NEW e \in Rec, Touches(i, e) PROVE TurnStep
  <2>1. \A j \in Id : /\ uploads[j].status = "Queued" <=> uploads'[j].status = "Queued"
                      /\ uploads[j].status \in Active <=> uploads'[j].status \in Active
    BY <1>2, <1>6 DEF Touches, Active
  <2>. QED  BY <1>1, <1>6, <2>1 DEF Touches
<1>7. ASSUME NEW n \in DOMAIN attempts, ClaimControl(n) \/ OpenUploadFile(n) PROVE TurnStep
  BY <1>1, <1>6, <1>7, LinkTouches
<1>8. ASSUME NEW f \in DOMAIN files, ClaimFile(f) \/ BeginFile(f) PROVE TurnStep
  BY <1>6, <1>8, ClaimTouches, BeginTouches
<1>9. SetPolicy => TurnStep
  <2>1. ASSUME SetPolicy PROVE Turns!SetPolicy
    <3>1. W' = W /\ A' = A  BY <2>1, SameTurns DEF SetPolicy
    <3>2. rank' \in [User -> Rank] /\ served' = served  BY <2>1 DEF SetPolicy
    <3>. QED  BY <3>1, <3>2 DEF Turns!SetPolicy, W, A
  <2>. QED  BY <2>1 DEF Turns!QueueStep, TurnStep
<1>10. ~Crash
  <2>1. crashes \in Nat  BY TypeParts, BoundAssumption DEF RestTypeOK
  <2>. QED  BY <2>1 DEF Crash
<1>11. UNCHANGED queueVars => TurnStep
  BY <1>1 DEF queueVars
<1>. QED
  BY <1>3, <1>4, <1>5, <1>7, <1>8, <1>9, <1>10, <1>11, EndsTurns, EnqueueTurns, RetryTurns, ActivateTurns,
     QueueMoves

LEMMA CrashTurns == ASSUME TypeInv, Crash PROVE Turns!Restart
<1>1. uploads' = [i \in Id |-> Upload(IF i \in disk.pending THEN "Queued" ELSE "Absent")]
      /\ served' = disk.served /\ rank' = rank
  BY DEF Crash
<1>2. W' \in SUBSET Id /\ A' = {}  BY <1>1 DEF W, A, In, Upload, Active
<1>3. served' \in SUBSET User  BY <1>1, TypeParts DEF QueueTypeOK
<1>. QED  BY <1>1, <1>2, <1>3 DEF Turns!Restart, W, A

LEMMA CrashesCount ==
  ASSUME TypeInv, Next PROVE crashes' = crashes \/ Crash
BY EndsFacts, LinkTouches, QueueMoves
DEF Enqueue, Activate, ActivateUnsaved, Retry, Drops, EndCancel, ClearFinished, RetrySave, ConnectionLost,
    ClaimFile, BeginFile, SetPolicy, restVars, Touches

(* The queue gives slots as UploadTurns says, and only a crash may restart *)
(* it (activate_next, finish, retry, session_disconnected).                *)
THEOREM QueueTakesTurns == Spec => ImplementsTurns
<1>. DEFINE Step == IF crashes' = crashes THEN Turns!QueueStep ELSE Turns!Restart
<1>1. Init => Turns!Init
  <2>. SUFFICES ASSUME Init PROVE Turns!Init
    OBVIOUS
  <2>1. W = {} /\ A = {}  BY DEF Init, W, A, In, Upload, Active
  <2>2. served = {} /\ rank \in [User -> Rank]  BY DEF Init
  <2>. QED  BY <2>1, <2>2 DEF Turns!Init, W, A
<1>2. TypeInv /\ NumbersOK /\ [Next]_vars => [Step]_(Turns!turnVars)
  <2>. SUFFICES ASSUME TypeInv, NumbersOK, [Next]_vars PROVE [Step]_(Turns!turnVars)
    OBVIOUS
  <2>1. CASE UNCHANGED vars
    <3>1. W' = W /\ A' = A  BY <2>1, SameTurns DEF vars, queueVars
    <3>. QED  BY <2>1, <3>1 DEF vars, queueVars, Turns!turnVars, W, A
  <2>2. CASE Next /\ crashes' = crashes
    <3>1. TurnStep  BY <2>2, UnsavedTurns
    <3>. QED  BY <2>2, <3>1 DEF TurnStep, Turns!turnVars, W, A
  <2>3. CASE Next /\ crashes' # crashes
    <3>1. Crash  BY <2>3, CrashesCount
    <3>. QED  BY <2>3, <3>1, CrashTurns
  <2>. QED  BY <2>1, <2>2, <2>3
<1>3. TypeInv /\ NumbersOK /\ [Next]_vars => NumbersOK'
  <2>1. UNCHANGED vars /\ NumbersOK => NumbersOK'
    BY DEF vars, queueVars, linkVars, NumbersOK, UploadOf
  <2>. QED  BY <2>1, NumbersStep
<1>. QED  BY <1>1, <1>2, <1>3, TypeInit, TypeStep, TasksInit, PTL DEF Spec, ImplementsTurns

=============================================================================
