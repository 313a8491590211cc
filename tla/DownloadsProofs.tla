-------------------------- MODULE DownloadsProofs --------------------------
(***************************************************************************)
(* Theorems about Downloads, for any transfers, sources, writers, lanes    *)
(* and bounds: types and lanes first, then, by the relation Move of the    *)
(* life of one transfer, the queue, the retries and the files.             *)
(***************************************************************************)
EXTENDS MCDownloadsLanes, FiniteSetTheorems, SequenceTheorems, TLAPS

(* A transfer that may be tried again has not used up its retries.         *)
WithinBudget(t) ==
  t.status \in Active \cup {"Queued", "Retrying"} => t.retries <= MaxAutomaticRetries

Sound(t) == t \in Transfer /\ WithinBudget(t)

(* What TypeOK needs to be inductive: the retries of every transfer, here  *)
(* and in the store, and the bound on tokens while activate_next waits.    *)
TransfersOK ==
  /\ transfers \in [Id -> Transfer] /\ \A i \in Id : Sound(transfers[i])

SavedOK ==
  /\ saved \in [queue: Seq(Id), transfers: [Id -> Transfer]]
  /\ \A i \in Id : Sound(saved.transfers[i])

TypeInv == TypeOK /\ TransfersOK /\ SavedOK /\ (sched => attempts < MaxAttempts)

-----------------------------------------------------------------------------
(* The operators that change one transfer keep it sound.                   *)

LEMMA RetryFacts ==
  /\ 0 \in Retries /\ 0 <= MaxAutomaticRetries
  /\ \A n \in Retries : n <= MaxAutomaticRetries => n + 1 \in Retries
  /\ \A n \in Retries : n < MaxAutomaticRetries => n + 1 <= MaxAutomaticRetries
BY BoundAssumption DEF Retries

LEMMA BlankSound ==
  ASSUME NEW s \in Status \cup OffQueue, NEW u \in User \cup {None}
  PROVE  Sound(Blank(s)) /\ Sound([Blank(s) EXCEPT !.user = u])
BY RetryFacts DEF Sound, WithinBudget, Blank, Transfer

LEMMA RenewedSound ==
  ASSUME NEW t, Sound(t)
  PROVE  Sound(Renewed(t))
BY RetryFacts DEF Sound, WithinBudget, Renewed, Requeued, Reset, Transfer, Status

LEMMA MovedSound ==
  ASSUME NEW t, Sound(t), NEW u \in User, NEW x \in SUBSET (User \cup {None})
  PROVE  /\ Sound([Renewed(t) EXCEPT !.user = u])
         /\ Sound([Renewed(t) EXCEPT !.user = u, !.tried = x])
BY RetryFacts DEF Sound, WithinBudget, Renewed, Requeued, Reset, Transfer, Status

LEMMA EndedSound ==
  ASSUME NEW t, Sound(t), NEW b \in BOOLEAN
  PROVE  Sound(Paused(t)) /\ Sound(Failed(t, b)) /\ Sound(Finished(t)) /\ Sound(Stored(t))
<1>1. Sound(Paused(t))
  BY RetryFacts DEF Sound, WithinBudget, Paused, Reset, Transfer, Status, Active
<1>2. Sound(Failed(t, b))
  BY RetryFacts DEF Sound, WithinBudget, Failed, Transfer, Status, Active
<1>3. Sound(Finished(t))
  BY RetryFacts DEF Sound, WithinBudget, Finished, Reset, Transfer, Status, Active
<1>4. Sound(Stored(t))
  BY DEF Sound, WithinBudget, Stored, Transfer
<1> QED BY <1>1, <1>2, <1>3, <1>4

LEMMA ActiveSound ==
  ASSUME NEW t, Sound(t), t.status \in Active
  PROVE  Sound(Retried(t)) /\ Sound(Requeued(t))
<1>1. Sound(Retried(t))
  <2>1. t \in Transfer /\ t.retries <= MaxAutomaticRetries BY DEF Sound, WithinBudget
  <2>2. CASE t.retries < MaxAutomaticRetries
    BY <2>1, <2>2, RetryFacts DEF Sound, WithinBudget, Retried, Transfer, Status
  <2>3. CASE ~(t.retries < MaxAutomaticRetries)
    BY <2>1, <2>3, RetryFacts DEF Sound, WithinBudget, Retried, Transfer, Status, Active
  <2> QED BY <2>2, <2>3
<1>2. Sound(Requeued(t))
  BY DEF Sound, WithinBudget, Requeued, Reset, Transfer, Status
<1> QED BY <1>1, <1>2

LEMMA ReconciledSound ==
  ASSUME NEW t, Sound(t), NEW i \in Id
  PROVE  Sound(Reconciled(i, t))
BY RetryFacts DEF Sound, WithinBudget, Reconciled, Transfer, Status, Active, OffQueue

LEMMA InOrderType ==
  ASSUME queue \in Seq(Id), NEW S, NEW s \in InOrder(S)
  PROVE  s \in Seq(Id)
<1> DEFINE at == {n \in DOMAIN queue : queue[n] \in S}
<1>1. PICK f \in [1 .. Cardinality(at) -> at] : s = [n \in DOMAIN f |-> queue[f[n]]]
  BY DEF InOrder
<1>2. at \subseteq 1 .. Len(queue) OBVIOUS
<1>3. Cardinality(at) \in Nat
  <2>1. Len(queue) \in Nat OBVIOUS
  <2>2. IsFiniteSet(1 .. Len(queue)) BY <2>1, FS_Interval
  <2> QED BY <1>2, <2>2, FS_Subset, FS_CardinalityType
<1>4. \A n \in 1 .. Cardinality(at) : queue[f[n]] \in Id
  BY <1>1, <1>2
<1>5. s = [n \in 1 .. Cardinality(at) |-> queue[f[n]]]
  BY <1>1
<1> HIDE DEF at
<1> QED BY <1>3, <1>4, <1>5

LEMMA MoveType ==
  ASSUME NEW m \in Seq(Id), NEW e \in Seq(Id)
  PROVE  /\ e \o m \in Seq(Id)
         /\ \A n \in DOMAIN e : SubSeq(e, 1, n - 1) \o m \o SubSeq(e, n, Len(e)) \in Seq(Id)
<1>1. e \o m \in Seq(Id) BY ConcatProperties
<1>2. ASSUME NEW n \in DOMAIN e
      PROVE  SubSeq(e, 1, n - 1) \o m \o SubSeq(e, n, Len(e)) \in Seq(Id)
  <2>1. n \in 1 .. Len(e) /\ Len(e) \in Nat /\ \A k \in 1 .. Len(e) : e[k] \in Id OBVIOUS
  <2>2. SubSeq(e, 1, n - 1) \in Seq(Id) BY <2>1, SubSeqProperties
  <2>3. SubSeq(e, n, Len(e)) \in Seq(Id) BY <2>1, SubSeqProperties
  <2> QED BY <2>2, <2>3, ConcatProperties
<1> QED BY <1>1, <1>2

LEMMA CancelledType ==
  ASSUME wr \in [Writer -> FileTask], NEW S
  PROVE  Cancelled(S) \in [Writer -> FileTask]
BY DEF Cancelled, FileTask

LEMMA QueuedSound ==
  ASSUME NEW t, Sound(t), t.status = "Requesting"
  PROVE  Sound([t EXCEPT !.status = "RemotelyQueued"])
<1>1. t \in Transfer /\ t.retries <= MaxAutomaticRetries BY DEF Sound, WithinBudget, Active
<1>2. "RemotelyQueued" \in Status BY DEF Status, Active
<1>3. PICK u : u = [t EXCEPT !.status = "RemotelyQueued"] OBVIOUS
<1>4. u \in Transfer /\ u.retries = t.retries BY <1>1, <1>2, <1>3 DEF Transfer
<1> QED BY <1>1, <1>3, <1>4 DEF Sound, WithinBudget

LEMMA RequestingSound ==
  ASSUME NEW t, Sound(t), t.status \in {"Queued", "Retrying"}, NEW n \in Nat
  PROVE  Sound([t EXCEPT !.status = "Requesting", !.conn = n, !.token = 0, !.waiting = TRUE])
<1>1. t \in Transfer /\ t.retries <= MaxAutomaticRetries BY DEF Sound, WithinBudget
<1>2. "Requesting" \in Status /\ TRUE \in BOOLEAN /\ 0 \in Nat BY DEF Status, Active
<1>3. PICK u : u = [t EXCEPT !.status = "Requesting", !.conn = n, !.token = 0, !.waiting = TRUE] OBVIOUS
<1>4. u \in Transfer /\ u.retries = t.retries BY <1>1, <1>2, <1>3 DEF Transfer
<1> QED BY <1>1, <1>3, <1>4 DEF Sound, WithinBudget

LEMMA ConnectingSound ==
  ASSUME NEW t, Sound(t), t.status = "RemotelyQueued", NEW n \in Nat
  PROVE  Sound([t EXCEPT !.status = "Connecting", !.token = n])
<1>1. t \in Transfer /\ t.retries <= MaxAutomaticRetries BY DEF Sound, WithinBudget, Active
<1>2. "Connecting" \in Status BY DEF Status, Active
<1>3. PICK u : u = [t EXCEPT !.status = "Connecting", !.token = n] OBVIOUS
<1>4. u \in Transfer /\ u.retries = t.retries BY <1>1, <1>2, <1>3 DEF Transfer
<1> QED BY <1>1, <1>3, <1>4 DEF Sound, WithinBudget

LEMMA DownloadingSound ==
  ASSUME NEW t, Sound(t), t.status = "Connecting"
  PROVE  Sound([t EXCEPT !.status = "Downloading", !.waiting = FALSE])
<1>1. t \in Transfer /\ t.retries <= MaxAutomaticRetries BY DEF Sound, WithinBudget, Active
<1>2. "Downloading" \in Status /\ FALSE \in BOOLEAN BY DEF Status, Active
<1>3. PICK u : u = [t EXCEPT !.status = "Downloading", !.waiting = FALSE] OBVIOUS
<1>4. u \in Transfer /\ u.retries = t.retries BY <1>1, <1>2, <1>3 DEF Transfer
<1> QED BY <1>1, <1>3, <1>4 DEF Sound, WithinBudget

LEMMA WriterType ==
  ASSUME NEW f \in FileTask, NEW s \in Stage, NEW n \in Nat
  PROVE  [f EXCEPT !.stage = s] \in FileTask /\ [f EXCEPT !.stage = s, !.at = n] \in FileTask
BY DEF FileTask

-----------------------------------------------------------------------------
(* Type correctness.                                                       *)

LEMMA InitType == Init => TypeInv
<1> SUFFICES ASSUME Init PROVE TypeInv OBVIOUS
<1>1. Sound(Blank("Absent")) BY BlankSound DEF OffQueue
<1>2. TransfersOK BY <1>1 DEF Init, TransfersOK, Sound
<1>3. queue \in Seq(Id) BY DEF Init
<1>4. SavedOK BY <1>1, <1>2, <1>3 DEF Init, SavedOK, TransfersOK
<1>5. wr \in [Writer -> FileTask] BY DEF Init, IdleTask, FileTask, Stage
<1>6. /\ asked \in [1 .. MaxAttempts -> {None} \cup [id: Id, user: User \cup {None}]]
      /\ attempts \in 0 .. MaxAttempts /\ crashes \in 0 .. MaxCrashes
  BY BoundAssumption DEF Init
<1>7. prep \in [phase: {"none", "listed", "aborted", "waiting", "ready"},
                mode: {"PauseNow", "FinishCurrentFiles"}, ids: SUBSET Id]
  BY DEF Init, NoPrep
<1>8. TypeOK BY <1>2, <1>3, <1>4, <1>5, <1>6, <1>7 DEF Init, TypeOK, TransfersOK, SavedOK
<1> QED BY <1>2, <1>4, <1>8 DEF TypeInv, Init

(* A change of the queue and of its order only.                            *)
LEMMA OrderType ==
  ASSUME TypeInv, TransfersOK', queue' \in Seq(Id),
         UNCHANGED <<lanes, diskVars, taskVars, safety, opVars, peerVars, saveVars>>
  PROVE  TypeInv'
<1>1. UNCHANGED <<lanes, part, final, wr, tasks, safety, sched, userOp, lost, prep>>
  BY DEF diskVars, taskVars, opVars
<1>2. UNCHANGED <<attempts, minted, asked, closed, saved, crashes>>  BY DEF opVars, peerVars, saveVars
<1>3. SavedOK'  BY <1>2 DEF TypeInv, SavedOK
<1>4. TypeOK'  BY <1>1, <1>2 DEF TypeInv, TypeOK, TransfersOK
<1> QED BY <1>1, <1>2, <1>3, <1>4 DEF TypeInv

LEMMA UserType == TypeInv /\ UserStep => TypeInv'
<1> SUFFICES ASSUME TypeInv, UserStep PROVE TypeInv' OBVIOUS
<1> USE DEF TypeInv, TypeOK, TransfersOK, SavedOK
<1>1. ASSUME NEW r \in Release, NEW u \in User, EnqueueRelease(r, u) PROVE TypeInv'
  <2>1. TransfersOK'
    BY <1>1, BlankSound DEF EnqueueRelease, Sound, Status
  <2>2. FilesOf[r] \in Seq(Id) BY FilesAssumption
  <2>3. queue' \in Seq(Id) BY <1>1, <2>2 DEF EnqueueRelease
  <2>4. TypeInv /\ UNCHANGED <<lanes, diskVars, taskVars, safety, opVars, peerVars, saveVars>>
    BY <1>1 DEF EnqueueRelease
  <2> HIDE DEF TypeInv, TypeOK, TransfersOK, SavedOK
  <2> QED BY <2>1, <2>3, <2>4, OrderType
<1>2. ASSUME NEW op \in {"pause", "cancel", "switch"}, NEW S \in Targets, BeginUserOp(op, S)
      PROVE TypeInv'
  <2>1. S \subseteq Id BY FilesAssumption DEF Targets, Files
  <2>2. wr' \in [Writer -> FileTask] BY <1>2, CancelledType DEF BeginUserOp
  <2> QED BY <1>2, <2>1, <2>2 DEF BeginUserOp, queueVars, diskVars, peerVars, saveVars
<1>3. CASE PauseTransfers
  <2>1. TransfersOK' BY <1>3, EndedSound DEF PauseTransfers, Sound
  <2> QED BY <1>3, <2>1 DEF PauseTransfers, diskVars, taskVars, peerVars, saveVars
<1>4. CASE CancelTransfers
  <2>1. TransfersOK' BY <1>4, BlankSound DEF CancelTransfers, Remove, Sound, OffQueue
  <2>2. queue' \in Seq(Id) BY <1>4, InOrderType DEF CancelTransfers, Remove
  <2> QED BY <1>4, <2>1, <2>2 DEF CancelTransfers, diskVars, taskVars, peerVars, saveVars
<1>5. ASSUME NEW v \in User, NEW exact \in BOOLEAN, SwitchSource(v, exact) PROVE TypeInv'
  <2>1. TransfersOK' BY <1>5, MovedSound DEF SwitchSource, Sound
  <2>2. part' \in [Id -> Nat] BY <1>5 DEF SwitchSource
  <2> QED BY <1>5, <2>1, <2>2 DEF SwitchSource, taskVars, peerVars, saveVars
<1>6. CASE SwitchFails
  BY <1>6 DEF SwitchFails, queueVars, diskVars, taskVars, peerVars, saveVars
<1>7. ASSUME NEW S, NEW from, Resume(S, from) PROVE TypeInv'
  <2>1. TransfersOK' BY <1>7, RenewedSound DEF Resume, Sound
  <2> QED BY <1>7, <2>1 DEF Resume, diskVars, taskVars, opVars, peerVars, saveVars
<1>8. ASSUME NEW r \in Release, ReorderRelease(r) PROVE TypeInv'
  <2>1. PICK m \in InOrder(Files(r)), e \in InOrder(Id \ Files(r)) :
          \/ queue' = e \o m
          \/ \E n \in DOMAIN e : queue' = SubSeq(e, 1, n - 1) \o m \o SubSeq(e, n, Len(e))
    BY <1>8 DEF ReorderRelease
  <2>2. m \in Seq(Id) /\ e \in Seq(Id) BY InOrderType
  <2>3. /\ e \o m \in Seq(Id)
        /\ \A n \in DOMAIN e : SubSeq(e, 1, n - 1) \o m \o SubSeq(e, n, Len(e)) \in Seq(Id)
    BY <2>2, MoveType
  <2>5. queue' \in Seq(Id)
    <3>1. CASE queue' = e \o m BY <2>3, <3>1
    <3>2. ASSUME NEW n \in DOMAIN e, queue' = SubSeq(e, 1, n - 1) \o m \o SubSeq(e, n, Len(e))
          PROVE  queue' \in Seq(Id)
      <4>1. SubSeq(e, 1, n - 1) \o m \o SubSeq(e, n, Len(e)) \in Seq(Id) BY <2>3
      <4>. QED BY <3>2, <4>1, Zenon
    <3>. QED BY <2>1, <3>1, <3>2, Zenon
  <2>6. TypeInv /\ UNCHANGED <<transfers, lanes, diskVars, taskVars, safety, opVars, peerVars, saveVars>>
    BY <1>8 DEF ReorderRelease
  <2>7. TransfersOK'
    <3> HIDE DEF TypeInv, TypeOK, SavedOK
    <3>1. transfers' = transfers /\ TransfersOK BY <2>6 DEF TypeInv
    <3> QED BY <3>1 DEF TransfersOK, Sound
  <2> HIDE DEF TypeInv, TypeOK, TransfersOK, SavedOK
  <2> QED BY <2>5, <2>6, <2>7, OrderType
<1>9. CASE ClearCompleted
  <2>1. PICK S : Remove(S) BY <1>9 DEF ClearCompleted
  <2>2. TransfersOK' BY <2>1, BlankSound DEF Remove, Sound, OffQueue
  <2>3. queue' \in Seq(Id) BY <2>1, InOrderType DEF Remove
  <2> QED BY <1>9, <2>2, <2>3 DEF ClearCompleted, diskVars, taskVars, opVars, peerVars, saveVars
<1>10. ASSUME NEW n \in LaneLimits, SetMaxConcurrentDownloads(n) PROVE TypeInv'
  BY <1>10 DEF SetMaxConcurrentDownloads, queueVars, diskVars, taskVars, opVars, peerVars, saveVars
<1>11. ASSUME NEW S \in Targets, ResumeTransfers(S) PROVE TypeInv'
  <2>1. \E from : Resume(S, from) BY <1>11 DEF ResumeTransfers
  <2> QED BY <1>7, <2>1
<1>12. ASSUME NEW r \in Release, RetryReleaseIssues(r) PROVE TypeInv'
  <2>1. \E from : Resume(Files(r), from) BY <1>12 DEF RetryReleaseIssues
  <2> QED BY <1>7, <2>1
<1> HIDE DEF TypeInv, TypeOK, TransfersOK, SavedOK
<1>13. CASE \E r \in Release, u \in User : EnqueueRelease(r, u)  BY <1>1, <1>13
<1>14. CASE \E op \in {"pause", "cancel", "switch"}, S \in Targets : BeginUserOp(op, S)  BY <1>2, <1>14
<1>15. CASE \E v \in User, exact \in BOOLEAN : SwitchSource(v, exact)  BY <1>5, <1>15
<1>16. CASE \E r \in Release : RetryReleaseIssues(r) \/ ReorderRelease(r)  BY <1>8, <1>12, <1>16
<1>17. CASE \E n \in LaneLimits : SetMaxConcurrentDownloads(n)  BY <1>10, <1>17
<1> QED
  BY <1>3, <1>4, <1>6, <1>9, <1>11, <1>13, <1>14, <1>15, <1>16, <1>17 DEF UserStep

LEMMA FailType ==
  ASSUME TypeInv, NEW i \in Id, NEW b \in BOOLEAN, Fail(i, b)
  PROVE  TransfersOK' /\ wr' \in [Writer -> FileTask] /\ UNCHANGED <<queue, tasks>>
<1>1. TransfersOK' BY EndedSound DEF TypeInv, TransfersOK, Sound, Fail
<1>2. wr' \in [Writer -> FileTask] BY CancelledType DEF TypeInv, TypeOK, Fail
<1> QED BY <1>1, <1>2 DEF Fail

LEMMA RetryType ==
  ASSUME TypeInv, NEW i \in Id, transfers[i].status \in Active, Retry(i)
  PROVE  TransfersOK' /\ wr' \in [Writer -> FileTask] /\ UNCHANGED <<queue, tasks>>
<1>1. TransfersOK' BY ActiveSound DEF TypeInv, TransfersOK, Sound, Retry
<1>2. wr' \in [Writer -> FileTask] BY CancelledType DEF TypeInv, TypeOK, Retry
<1> QED BY <1>1, <1>2 DEF Retry

(* A change of the transfers and the writers only.                         *)
LEMMA QueueStepType ==
  ASSUME TypeInv, TransfersOK', wr' \in [Writer -> FileTask], UNCHANGED <<queue, tasks>>,
         UNCHANGED <<lanes, diskVars, safety, opVars, attempts, saveVars>>,
         minted' \in Nat, 
         asked' \in [1 .. MaxAttempts -> {None} \cup [id: Id, user: User \cup {None}]],
         closed' \subseteq 1 .. MaxAttempts
  PROVE  TypeInv'
BY DEF TypeInv, TypeOK, TransfersOK, SavedOK, diskVars, opVars, saveVars

LEMMA SourceType == TypeInv /\ SourceStep => TypeInv'
<1> SUFFICES ASSUME TypeInv, SourceStep PROVE TypeInv' OBVIOUS
<1> /\ minted \in Nat /\ asked \in [1 .. MaxAttempts -> {None} \cup [id: Id, user: User \cup {None}]]
    /\ closed \subseteq 1 .. MaxAttempts /\ wr \in [Writer -> FileTask]
    /\ transfers \in [Id -> Transfer] /\ TransfersOK
    /\ \A i \in Id : transfers[i] \in Transfer
  BY DEF TypeInv, TypeOK
<1>1. ASSUME NEW c \in 1 .. MaxAttempts, ClaimPeer(c) PROVE TypeInv'
  <2>1. PICK i \in Id :
          /\ transfers[i].status = "Requesting"
          /\ transfers' = [transfers EXCEPT ![i].status = "RemotelyQueued"]
          /\ asked' = [asked EXCEPT ![c] = [id |-> i, user |-> transfers[i].user]]
    BY <1>1 DEF ClaimPeer
  <2>2. Sound([transfers[i] EXCEPT !.status = "RemotelyQueued"])
    <3>1. Sound(transfers[i]) BY DEF TransfersOK
    <3> QED BY <2>1, <3>1, QueuedSound
  <2>3. TransfersOK' BY <2>1, <2>2 DEF TransfersOK, Sound
  <2>4. asked' \in [1 .. MaxAttempts -> {None} \cup [id: Id, user: User \cup {None}]]
    BY <2>1 DEF Transfer
  <2> QED BY <1>1, <2>3, <2>4, QueueStepType DEF ClaimPeer, taskVars
<1>2. ASSUME NEW c \in 1 .. MaxAttempts, RequestTimeout(c) PROVE TypeInv'
  <2>1. PICK i \in Id : transfers[i].status \in Active /\ Retry(i)
    BY <1>2 DEF RequestTimeout, Active
  <2> QED BY <1>2, <2>1, RetryType, QueueStepType DEF RequestTimeout, peerVars
<1>3. ASSUME NEW c \in 1 .. MaxAttempts, PeerConnectionFails(c) PROVE TypeInv'
  <2>1. asked[c].id \in Id /\ closed' \subseteq 1 .. MaxAttempts
    BY <1>3, NoneAssumption DEF PeerConnectionFails
  <2>2. TransfersOK' /\ wr' \in [Writer -> FileTask] /\ UNCHANGED <<queue, tasks>>
    <3>1. CASE transfers[asked[c].id].status \in Active /\ Retry(asked[c].id)
      BY <2>1, <3>1, RetryType
    <3>2. CASE UNCHANGED <<queueVars, taskVars>>
      BY <3>2 DEF queueVars, taskVars, TransfersOK, Sound
    <3> QED BY <1>3, <3>1, <3>2 DEF PeerConnectionFails, Active
  <2> QED BY <1>3, <2>1, <2>2, QueueStepType DEF PeerConnectionFails
<1>4. ASSUME NEW c \in 1 .. MaxAttempts, NEW denied \in BOOLEAN, SourceReport(c, denied)
      PROVE  TypeInv'
  <2>1. asked[c].id \in Id /\ closed' \subseteq 1 .. MaxAttempts
    BY <1>4, NoneAssumption DEF SourceReport
  <2>2. TransfersOK' /\ wr' \in [Writer -> FileTask] /\ UNCHANGED <<queue, tasks>>
    <3>1. CASE transfers[asked[c].id].status \in Active /\ Retry(asked[c].id)
      BY <2>1, <3>1, RetryType
    <3>2. CASE Fail(asked[c].id, TRUE)
      BY <2>1, <3>2, FailType
    <3>3. CASE UNCHANGED <<queueVars, taskVars>>
      BY <3>3 DEF queueVars, taskVars, TransfersOK, Sound
    <3> QED BY <1>4, <3>1, <3>2, <3>3 DEF SourceReport, IsActive
  <2> QED BY <1>4, <2>1, <2>2, QueueStepType DEF SourceReport
<1>5. ASSUME NEW i \in Id, NEW sizeMatches \in BOOLEAN, TransferRequest(i, sizeMatches)
      PROVE  TypeInv'
  <2>1. CASE /\ transfers[i].status = "RemotelyQueued"
             /\ transfers' = [transfers EXCEPT ![i].status = "Connecting", ![i].token = minted + 1]
             /\ minted' = minted + 1 /\ UNCHANGED <<queue, taskVars>>
    <3>1. ASSUME NEW n \in Nat
          PROVE  Sound([transfers[i] EXCEPT !.status = "Connecting", !.token = n])
      <4>1. Sound(transfers[i]) BY DEF TypeInv, TransfersOK
      <4> QED BY <2>1, <4>1, ConnectingSound
    <3>3. minted + 1 \in Nat OBVIOUS
    <3>4. Sound([transfers[i] EXCEPT !.status = "Connecting", !.token = minted + 1])
      BY <3>1, <3>3
    <3>2. TransfersOK' BY <2>1, <3>4 DEF TransfersOK, Sound
    <3> QED BY <1>5, <2>1, <3>2, QueueStepType DEF TransferRequest, taskVars
  <2>2. CASE Fail(i, TRUE) /\ UNCHANGED minted
    BY <1>5, <2>2, FailType, QueueStepType DEF TransferRequest
  <2> QED BY <1>5, <2>1, <2>2 DEF TransferRequest
<1>6. ASSUME NEW t \in 1 .. MaxAttempts, FileConnection(t) PROVE TypeInv'
  <2>1. ASSUME NEW i \in Id, NEW w \in Writer, transfers[i].status = "Connecting",
               transfers' = [transfers EXCEPT ![i].status = "Downloading", ![i].waiting = FALSE],
               wr' = [wr EXCEPT ![w] = [stage |-> "Begun", id |-> i, token |-> t,
                                        at |-> Offset(i), cancelled |-> FALSE]],
               UNCHANGED <<queue, tasks>>
        PROVE  TypeInv'
    <3>1. Sound([transfers[i] EXCEPT !.status = "Downloading", !.waiting = FALSE])
      <4>1. Sound(transfers[i]) BY DEF TypeInv, TransfersOK
      <4> QED BY <2>1, <4>1, DownloadingSound
    <3>2. TransfersOK' BY <2>1, <3>1 DEF TransfersOK, Sound
    <3>3. Offset(i) \in Nat /\ t \in Nat BY BoundAssumption DEF Offset, TypeInv, TypeOK
    <3>4. wr' \in [Writer -> FileTask] BY <2>1, <3>3 DEF FileTask, Stage
    <3> QED BY <1>6, <2>1, <3>2, <3>4, QueueStepType DEF FileConnection, peerVars
  <2>2. ASSUME NEW i \in Id, Fail(i, FALSE) PROVE TypeInv'
    BY <1>6, <2>2, FailType, QueueStepType DEF FileConnection, peerVars
  <2> QED BY <1>6, <2>1, <2>2 DEF FileConnection, IsFirst
<1>7. ASSUME NEW r \in Release, NEW v \in User, AutoRelay(r, v) PROVE TypeInv'
  <2>1. ASSUME NEW t, Sound(t)
        PROVE  Sound([Renewed(t) EXCEPT !.user = v,
                        !.tried = IF t.tried = {} THEN {t.user, v} ELSE t.tried \cup {v}])
    <3>1. (IF t.tried = {} THEN {t.user, v} ELSE t.tried \cup {v}) \in SUBSET (User \cup {None})
      BY <2>1 DEF Sound, Transfer
    <3> QED BY <2>1, <3>1, MovedSound
  <2>2. TransfersOK' BY <1>7, <2>1 DEF AutoRelay, TransfersOK, Sound
  <2> QED BY <1>7, <2>2, QueueStepType DEF AutoRelay, taskVars, peerVars
<1> QED
  BY <1>1, <1>2, <1>3, <1>4, <1>5, <1>6, <1>7 DEF SourceStep, UploadFailed, UploadDenied

LEMMA SchedulerType == TypeInv /\ (CheckSafety \/ ActivateNext) => TypeInv'
<1> SUFFICES ASSUME TypeInv, CheckSafety \/ ActivateNext PROVE TypeInv' OBVIOUS
<1>1. CASE CheckSafety
  BY <1>1
  DEF CheckSafety, TypeInv, TypeOK, TransfersOK, SavedOK, queueVars, diskVars, taskVars, peerVars, saveVars
<1>2. CASE ActivateNext
  <2>0. attempts \in 0 .. MaxAttempts /\ attempts < MaxAttempts /\ MaxAttempts \in Nat
    BY <1>2, BoundAssumption DEF ActivateNext, TypeInv, TypeOK
  <2>1. attempts + 1 \in Nat /\ attempts + 1 \in 0 .. MaxAttempts
    BY <2>0
  <2>2. ASSUME NEW i \in Id, transfers[i].status \in {"Queued", "Retrying"}
        PROVE  Sound([transfers[i] EXCEPT !.status = "Requesting", !.conn = attempts + 1,
                                          !.token = 0, !.waiting = TRUE])
    <3>1. Sound(transfers[i]) BY DEF TypeInv, TransfersOK
    <3> QED BY <2>1, <2>2, <3>1, RequestingSound
  <2>3. TransfersOK' /\ attempts' \in 0 .. MaxAttempts
    <3>1. CASE UNCHANGED <<transfers, attempts>>
      BY <3>1 DEF TypeInv, TypeOK, TransfersOK, Sound
    <3>2. ASSUME NEW i \in Id, NEW due, IsFirst(i, Available(due)), attempts' = attempts + 1,
                 transfers' = [transfers EXCEPT ![i].status = "Requesting", ![i].conn = attempts + 1,
                                                ![i].token = 0, ![i].waiting = TRUE]
          PROVE  TransfersOK' /\ attempts' \in 0 .. MaxAttempts
      <4>1. transfers[i].status \in {"Queued", "Retrying"} BY <3>2 DEF IsFirst, Available
      <4>2. TransfersOK' BY <2>2, <3>2, <4>1 DEF TypeInv, TransfersOK, Sound
      <4> QED BY <2>1, <3>2, <4>2
    <3> QED BY <1>2, <3>1, <3>2 DEF ActivateNext
  <2>4. /\ sched' = FALSE
        /\ UNCHANGED <<queue, lanes, part, final, wr, tasks, safety, userOp, lost, prep>>
        /\ UNCHANGED <<minted, asked, closed, saved, crashes>>
    BY <1>2 DEF ActivateNext, diskVars, taskVars, saveVars
  <2>5. SavedOK' BY <2>4 DEF TypeInv, SavedOK
  <2>6. sched' \in BOOLEAN BY <2>4
  <2>7. TypeOK' BY <2>3, <2>4, <2>6 DEF TypeInv, TypeOK, TransfersOK
  <2> QED BY <2>3, <2>4, <2>5, <2>7 DEF TypeInv
<1> QED BY <1>1, <1>2

LEMMA TaskType == ASSUME TypeInv, NEW w \in Writer, TaskStep(w) PROVE TypeInv'
<1> /\ wr \in [Writer -> FileTask] /\ wr[w] \in FileTask /\ wr[w].at \in Nat
    /\ tasks \in [Id -> Writer \cup {None}] /\ part \in [Id -> Nat]
    /\ transfers \in [Id -> Transfer]
  BY DEF TypeInv, TypeOK, FileTask
<1> IdleTask \in FileTask BY DEF IdleTask, FileTask, Stage
<1>1. ASSUME wr' \in [Writer -> FileTask], UNCHANGED <<queueVars, lanes, final, safety, opVars, peerVars, saveVars>>,
             tasks' \in [Id -> Writer \cup {None}], part' \in [Id -> Nat]
      PROVE  TypeInv'
  BY <1>1 DEF TypeInv, TypeOK, TransfersOK, SavedOK, queueVars, opVars, peerVars, saveVars
<1>2. CASE RegisterTask(w)
  <2>1. tasks' \in [Id -> Writer \cup {None}] BY <1>2 DEF RegisterTask, FileAttempt
  <2>2. wr' \in [Writer -> FileTask] BY <1>2, WriterType DEF RegisterTask, Stage
  <2> QED BY <1>1, <1>2, <2>1, <2>2 DEF RegisterTask, diskVars
<1>3. ASSUME NEW from, NEW to \in Stage, Step(w, from, to) PROVE TypeInv'
  <2>1. wr' \in [Writer -> FileTask] BY <1>3, WriterType DEF Step
  <2> QED BY <1>1, <1>3, <2>1 DEF Step, diskVars
<1>4. CASE WriteBuffer(w)
  <2>1. wr[w].at + 1 \in Nat OBVIOUS
  <2>2. wr' \in [Writer -> FileTask] BY <1>4, <2>1, WriterType DEF WriteBuffer, Stage
  <2>3. part' \in [Id -> Nat]
    <3>1. \A i \in Id : part[i] + 1 \in Nat OBVIOUS
    <3>2. part' = [part EXCEPT ![wr[w].id] = @ + 1] BY <1>4 DEF WriteBuffer
    <3> QED BY <3>1, <3>2
  <2> QED BY <1>1, <1>4, <2>2, <2>3 DEF WriteBuffer
<1>5. CASE Complete(w)
  <2>1. wr' \in [Writer -> FileTask]
    <3>1. wr \in [Writer -> FileTask] /\ wr[w] \in FileTask BY DEF TypeInv, TypeOK
    <3>2. PICK s \in Stage : wr' = [wr EXCEPT ![w].stage = s] BY <1>5 DEF Complete, Stage
    <3>3. [wr[w] EXCEPT !.stage = s] \in FileTask BY <3>1 DEF FileTask
    <3> QED BY <3>1, <3>2, <3>3
  <2>2. final' \in [Id -> {"none", "whole", "damaged", "foreign"}] /\ part' \in [Id -> Nat]
    <3>1. final \in [Id -> {"none", "whole", "damaged", "foreign"}] BY DEF TypeInv, TypeOK
    <3> DEFINE i == wr[w].id
    <3>2. CASE /\ final' = [final EXCEPT ![i] = IF part[i] = Size THEN "whole" ELSE "damaged"]
               /\ part' = [part EXCEPT ![i] = 0]
      BY <3>1, <3>2
    <3>3. CASE UNCHANGED diskVars BY <3>1, <3>3 DEF diskVars
    <3> QED BY <1>5, <3>2, <3>3 DEF Complete
  <2>3. TransfersOK'
    <3>1. CASE UNCHANGED transfers BY <3>1 DEF TypeInv, TransfersOK, Sound
    <3>2. CASE transfers' = [transfers EXCEPT ![wr[w].id] = Finished(@)]
      BY <3>2, EndedSound DEF TypeInv, TransfersOK, Sound
    <3> QED BY <1>5, <3>1, <3>2 DEF Complete
  <2> QED BY <1>5, <2>1, <2>2, <2>3
    DEF Complete, TypeInv, TypeOK, TransfersOK, SavedOK, opVars, peerVars, saveVars
<1>6. CASE ReportOutcome(w)
  <2>1. wr' \in [Writer -> FileTask]
    <3>2. CASE wr' = [Cancelled({wr[w].id}) EXCEPT ![w].stage = "Ended"]
      <4> DEFINE c == Cancelled({wr[w].id})
      <4>1. c \in [Writer -> FileTask] BY CancelledType
      <4>2. c[w] \in FileTask BY <4>1
      <4>3. [c[w] EXCEPT !.stage = "Ended"] \in FileTask BY <4>2 DEF FileTask, Stage
      <4>4. wr' = [c EXCEPT ![w].stage = "Ended"] BY <3>2
      <4> HIDE DEF c
      <4> QED BY <4>1, <4>3, <4>4
    <3>3. CASE wr' = [wr EXCEPT ![w].stage = "Ended"] BY <3>3, WriterType DEF Stage
    <3> QED BY <1>6, <3>2, <3>3 DEF ReportOutcome
  <2>2. TransfersOK'
    <3>1. CASE ~FileAttempt(w)
      BY <1>6, <3>1 DEF ReportOutcome, TypeInv, TransfersOK, Sound
    <3>2. CASE FileAttempt(w)
      <4>1. wr[w].id \in Id /\ Sound(transfers[wr[w].id]) /\ transfers[wr[w].id].status \in Active
        BY <3>2 DEF FileAttempt, FileTask, TypeInv, TransfersOK, Active
      <4>2. Sound(Retried(transfers[wr[w].id])) /\ Sound(Failed(transfers[wr[w].id], FALSE))
        BY <4>1, ActiveSound, EndedSound
      <4> QED BY <1>6, <3>2, <4>1, <4>2 DEF ReportOutcome, TypeInv, TransfersOK, Sound
    <3> QED BY <3>1, <3>2
  <2> QED BY <1>6, <2>1, <2>2
    DEF ReportOutcome, TypeInv, TypeOK, TransfersOK, SavedOK, diskVars, opVars, peerVars, saveVars
<1>7. CASE UnregisterTask(w)
  <2>1. tasks' \in [Id -> Writer \cup {None}] BY <1>7 DEF UnregisterTask
  <2>2. wr' \in [Writer -> FileTask] BY <1>7 DEF UnregisterTask
  <2> QED BY <1>1, <1>7, <2>1, <2>2 DEF UnregisterTask, diskVars
<1> QED
  BY <1>2, <1>3, <1>4, <1>5, <1>6, <1>7
  DEF TaskStep, ReadBuffer, StopWriting, FinishWriting, ConnectionBreaks, WriteFails, Stage

LEMMA ShutdownType == TypeInv /\ ShutdownStep => TypeInv'
<1> SUFFICES ASSUME TypeInv, ShutdownStep PROVE TypeInv' OBVIOUS
<1> wr \in [Writer -> FileTask] /\ transfers \in [Id -> Transfer] BY DEF TypeInv, TypeOK
<1>1. CASE BeginConnectionLost
  <2>1. wr' \in [Writer -> FileTask] BY <1>1, CancelledType DEF BeginConnectionLost
  <2> QED BY <1>1, <2>1
    DEF BeginConnectionLost, TypeInv, TypeOK, TransfersOK, SavedOK, queueVars, diskVars, peerVars, saveVars
<1>2. ASSUME NEW S, RequeueActive(S) PROVE TransfersOK' /\ queue' = queue
  BY <1>2, ActiveSound DEF RequeueActive, IsActive, TypeInv, TransfersOK, Sound
<1>3. CASE ConnectionLost
  <2>1. TransfersOK' /\ queue' = queue BY <1>2, <1>3 DEF ConnectionLost
  <2> QED BY <1>3, <2>1
    DEF ConnectionLost, TypeInv, TypeOK, TransfersOK, SavedOK, diskVars, taskVars, peerVars, saveVars
<1>4. ASSUME NEW mode \in {"PauseNow", "FinishCurrentFiles"}, BeginRestartPreparation(mode)
      PROVE  TypeInv'
  <2>1. prep' \in [phase: {"none", "listed", "aborted", "waiting", "ready"},
                   mode: {"PauseNow", "FinishCurrentFiles"}, ids: SUBSET Id]
    BY <1>4 DEF BeginRestartPreparation, Stopped
  <2>2. safety' \in {"Running", "Draining", "PausedForRestart"} BY <1>4 DEF BeginRestartPreparation
  <2> QED BY <1>4, <2>1, <2>2
    DEF BeginRestartPreparation, TypeInv, TypeOK, TransfersOK, SavedOK, queueVars, diskVars, taskVars,
        peerVars, saveVars
<1>5. CASE AbortForRestart
  <2>1. wr' \in [Writer -> FileTask] BY <1>5, CancelledType DEF AbortForRestart
  <2> QED BY <1>5, <2>1
    DEF AbortForRestart, TypeInv, TypeOK, TransfersOK, SavedOK, queueVars, diskVars, peerVars, saveVars
<1>6. CASE PrepareTransfersForRestart
  <2>1. TransfersOK' /\ queue' = queue BY <1>2, <1>6 DEF PrepareTransfersForRestart
  <2> QED BY <1>6, <2>1
    DEF PrepareTransfersForRestart, TypeInv, TypeOK, TransfersOK, SavedOK, diskVars, taskVars, peerVars,
        saveVars
<1>7. CASE FinishRestartPreparation
  <2>1. TransfersOK' /\ queue' = queue BY <1>2, <1>7 DEF FinishRestartPreparation
  <2> QED BY <1>7, <2>1
    DEF FinishRestartPreparation, TypeInv, TypeOK, TransfersOK, SavedOK, diskVars, taskVars, peerVars,
        saveVars
<1>8. CASE CancelRestartPreparation
  BY <1>8
  DEF CancelRestartPreparation, NoPrep, TypeInv, TypeOK, TransfersOK, SavedOK, queueVars, diskVars,
      taskVars, peerVars, saveVars
<1>9. CASE SaveStore
  <2>1. saved' = [queue |-> queue, transfers |-> [i \in Id |-> Stored(transfers[i])]]
    BY <1>9 DEF SaveStore
  <2>2. \A i \in Id : Sound(Stored(transfers[i])) BY EndedSound DEF TypeInv, TransfersOK
  <2>3. SavedOK' BY <2>1, <2>2 DEF SavedOK, TypeInv, TypeOK, Sound
  <2> QED BY <1>9, <2>3
    DEF SaveStore, TypeInv, TypeOK, TransfersOK, SavedOK, queueVars, diskVars, taskVars, opVars, peerVars
<1>10. CASE Crash
  <2>1. transfers' = [i \in Id |-> Reconciled(i, saved.transfers[i])] BY <1>10 DEF Crash
  <2>2. \A i \in Id : Sound(Reconciled(i, saved.transfers[i]))
    BY ReconciledSound DEF TypeInv, SavedOK
  <2>3. TransfersOK' BY <2>1, <2>2 DEF TransfersOK, Sound
  <2>4. wr' \in [Writer -> FileTask] BY <1>10 DEF Crash, IdleTask, FileTask, Stage
  <2>5. queue' \in Seq(Id) BY <1>10 DEF Crash, TypeInv, SavedOK
  <2>6. /\ crashes' \in 0 .. MaxCrashes
        /\ asked' \in [1 .. MaxAttempts -> {None} \cup [id: Id, user: User \cup {None}]]
    BY <1>10, BoundAssumption DEF Crash, TypeInv, TypeOK
  <2>7. prep' \in [phase: {"none", "listed", "aborted", "waiting", "ready"},
                   mode: {"PauseNow", "FinishCurrentFiles"}, ids: SUBSET Id]
    BY <1>10 DEF Crash, NoPrep
  <2> QED BY <1>10, <2>3, <2>4, <2>5, <2>6, <2>7
    DEF Crash, TypeInv, TypeOK, TransfersOK, SavedOK, diskVars
<1> QED
  BY <1>1, <1>3, <1>4, <1>5, <1>6, <1>7, <1>8, <1>9, <1>10 DEF ShutdownStep

LEMMA StepType == TypeInv /\ [Next]_vars => TypeInv'
<1> SUFFICES ASSUME TypeInv, [Next]_vars PROVE TypeInv' OBVIOUS
<1>1. ASSUME NEW i \in Id, PartialCleanup(i) PROVE TypeInv'
  BY <1>1
  DEF PartialCleanup, TypeInv, TypeOK, TransfersOK, SavedOK, queueVars, taskVars, opVars, peerVars, saveVars
<1>2. ASSUME NEW i \in Id, FileAppears(i) PROVE TypeInv'
  BY <1>2
  DEF FileAppears, TypeInv, TypeOK, TransfersOK, SavedOK, queueVars, taskVars, opVars, peerVars, saveVars
<1>3. CASE UNCHANGED vars
  BY <1>3
  DEF vars, TypeInv, TypeOK, TransfersOK, SavedOK, queueVars, diskVars, taskVars, opVars, peerVars, saveVars
<1> QED
  BY <1>1, <1>2, <1>3, UserType, SourceType, SchedulerType, TaskType, ShutdownType DEF Next

(* Every variable keeps its type, and the retries of every transfer stay   *)
(* within their budget, however its failures are reported.                 *)
THEOREM TypeCorrect == Spec => []TypeOK
<1>1. Spec => []TypeInv BY InitType, StepType, PTL DEF Spec
<1>2. TypeInv => TypeOK BY DEF TypeInv
<1> QED BY <1>1, <1>2, PTL

-----------------------------------------------------------------------------
(* One writer per .part file.  The map of tasks and the running writers    *)
(* mirror each other; a token belongs to one attempt, so that a writer     *)
(* which registers under the token of the attempt under way is the only    *)
(* writer of its file.                                                     *)
Running(w) == wr[w].stage # "Idle"

WriterInv ==
  /\ \A w \in Writer : Writing(w) => wr[w].id \in Id /\ tasks[wr[w].id] = w
  /\ \A i \in Id : tasks[i] # None => Writing(tasks[i]) /\ wr[tasks[i]].id = i
  /\ \A v, w \in Writer : Running(v) /\ Running(w) /\ wr[v].token = wr[w].token => v = w
  /\ \A w \in Writer : Running(w) => wr[w].token <= minted
  /\ \A i \in Id : transfers[i].token <= minted
  /\ \A i, j \in Id : /\ transfers[i].status = "Connecting" /\ transfers[j].status = "Connecting"
                      /\ transfers[i].token = transfers[j].token
                      => i = j
  /\ \A i \in Id, w \in Writer :
       transfers[i].status = "Connecting" /\ Running(w) => wr[w].token # transfers[i].token
  /\ \A i \in Id : IsActive(i) /\ tasks[i] # None
                  => transfers[i].status = "Downloading" /\ transfers[i].token = wr[tasks[i]].token

(* Fields of a transfer t that has become u without taking a lane.         *)
Leaves(t, u) == u.status \notin Active /\ u.token \in {0, t.token}

Stays(t, u) ==
  /\ u.token = t.token /\ u.user = t.user
  /\ \/ u.status = t.status
     \/ t.status = "Requesting" /\ u.status = "RemotelyQueued"

Calm == \A i \in Id : \/ Leaves(transfers[i], transfers'[i])
                      \/ Stays(transfers[i], transfers'[i])

(* The writers keep their files and tokens, and none starts or closes.     *)
SameWriters ==
  \A w \in Writer : /\ wr'[w].id = wr[w].id /\ wr'[w].token = wr[w].token
                    /\ Writing(w)' = Writing(w) /\ Running(w)' = Running(w)

LEMMA LeavesFields ==
  ASSUME NEW t \in Transfer, NEW b \in BOOLEAN, NEW u, NEW x
  PROVE  /\ Leaves(t, Renewed(t)) /\ Leaves(t, [Renewed(t) EXCEPT !.user = u])
         /\ Leaves(t, [Renewed(t) EXCEPT !.user = u, !.tried = x])
         /\ Leaves(t, Paused(t)) /\ Leaves(t, Failed(t, b)) /\ Leaves(t, Retried(t))
         /\ Leaves(t, Requeued(t)) /\ Leaves(t, Finished(t)) /\ Leaves(t, Blank("Removed"))
BY DEF Leaves, Renewed, Paused, Failed, Retried, Requeued, Finished, Blank, Reset, Active, Transfer

LEMMA CancelledSame ==
  ASSUME wr \in [Writer -> FileTask], NEW S, wr' = Cancelled(S)
  PROVE  SameWriters
BY DEF SameWriters, Cancelled, Writing, Running, FileTask

LEMMA CalmWriters ==
  ASSUME TypeInv, TypeInv', WriterInv, Calm, SameWriters, tasks' = tasks, minted' = minted
  PROVE  WriterInv'
<1>1. \A i \in Id : /\ tasks[i] \in Writer \cup {None} /\ transfers[i].token \in Nat
                     /\ transfers'[i].token \in Nat
  BY DEF TypeInv, TypeOK, Transfer
<1>2. minted \in Nat BY DEF TypeInv, TypeOK
<1>3. \A w \in Writer : Writing(w)' => wr'[w].id \in Id /\ tasks'[wr'[w].id] = w
  BY DEF WriterInv, SameWriters
<1>4. \A i \in Id : tasks'[i] # None => Writing(tasks[i])' /\ wr'[tasks'[i]].id = i
  BY <1>1 DEF WriterInv, SameWriters
<1>5. /\ \A v, w \in Writer : Running(v)' /\ Running(w)' /\ wr'[v].token = wr'[w].token => v = w
      /\ \A w \in Writer : Running(w)' => wr'[w].token <= minted'
  BY DEF WriterInv, SameWriters
<1>6. \A i \in Id : transfers'[i].token <= minted'
  BY <1>1, <1>2 DEF WriterInv, Calm, Leaves, Stays
<1>7. \A i \in Id : transfers'[i].status = "Connecting" =>
                     transfers[i].status = "Connecting" /\ transfers[i].token = transfers'[i].token
  BY DEF Calm, Leaves, Stays, Active
<1>8. \A i \in Id : IsActive(i)' /\ tasks'[i] # None =>
                     transfers'[i].status = "Downloading" /\ transfers'[i].token = wr'[tasks'[i]].token
  BY <1>1 DEF WriterInv, SameWriters, Calm, Leaves, Stays, IsActive, Active
<1> QED BY <1>3, <1>4, <1>5, <1>6, <1>7, <1>8 DEF WriterInv, SameWriters

LEMMA UnchangedCalm == ASSUME UNCHANGED transfers PROVE Calm
BY DEF Calm, Stays

LEMMA UnchangedWriters == ASSUME UNCHANGED wr PROVE SameWriters
BY DEF SameWriters, Writing, Running

Peaceful == Calm /\ SameWriters /\ tasks' = tasks /\ minted' = minted

LEMMA UserCalm == TypeInv /\ UserStep => Peaceful
<1> SUFFICES ASSUME TypeInv, UserStep PROVE Peaceful OBVIOUS
<1> wr \in [Writer -> FileTask] /\ \A i \in Id : transfers[i] \in Transfer
  BY DEF TypeInv, TypeOK
<1>1. ASSUME Calm, UNCHANGED <<taskVars, minted>> PROVE Peaceful
  BY <1>1, UnchangedWriters DEF Peaceful, taskVars
<1>2. ASSUME NEW r \in Release, NEW u \in User, EnqueueRelease(r, u) PROVE Peaceful
  <2>1. Calm BY <1>2 DEF EnqueueRelease, Calm, Leaves, Stays, Blank, Active
  <2> QED BY <1>1, <1>2, <2>1 DEF EnqueueRelease, peerVars
<1>3. ASSUME NEW op, NEW S, BeginUserOp(op, S) PROVE Peaceful
  <2>1. Calm BY <1>3, UnchangedCalm DEF BeginUserOp, queueVars
  <2>2. SameWriters BY <1>3, CancelledSame DEF BeginUserOp
  <2> QED BY <1>3, <2>1, <2>2 DEF BeginUserOp, Peaceful, peerVars
<1>4. CASE PauseTransfers
  <2>1. Calm BY <1>4, LeavesFields DEF PauseTransfers, Calm, Stays
  <2> QED BY <1>1, <1>4, <2>1 DEF PauseTransfers, peerVars
<1>5. ASSUME NEW S, Remove(S) PROVE Calm
  BY <1>5, LeavesFields DEF Remove, Calm, Stays
<1>6. CASE CancelTransfers
  BY <1>1, <1>5, <1>6 DEF CancelTransfers, peerVars
<1>7. ASSUME NEW v, NEW exact, SwitchSource(v, exact) PROVE Peaceful
  <2>1. Calm BY <1>7, LeavesFields DEF SwitchSource, Calm, Stays
  <2> QED BY <1>1, <1>7, <2>1 DEF SwitchSource, peerVars
<1>8. CASE SwitchFails
  BY <1>1, <1>8, UnchangedCalm DEF SwitchFails, queueVars, peerVars
<1>9. ASSUME NEW S, NEW from, Resume(S, from) PROVE Peaceful
  <2>1. Calm BY <1>9, LeavesFields DEF Resume, Calm, Stays
  <2> QED BY <1>1, <1>9, <2>1 DEF Resume, peerVars
<1>10. ASSUME NEW r, ReorderRelease(r) PROVE Peaceful
  BY <1>1, <1>10, UnchangedCalm DEF ReorderRelease, peerVars
<1>11. CASE ClearCompleted
  BY <1>1, <1>5, <1>11 DEF ClearCompleted, peerVars
<1>12. ASSUME NEW n, SetMaxConcurrentDownloads(n) PROVE Peaceful
  BY <1>1, <1>12, UnchangedCalm DEF SetMaxConcurrentDownloads, queueVars, peerVars
<1> QED
  BY <1>2, <1>3, <1>4, <1>6, <1>7, <1>8, <1>9, <1>10, <1>11, <1>12
  DEF UserStep, ResumeTransfers, RetryReleaseIssues

LEMMA FailCalm ==
  ASSUME TypeInv, NEW i \in Id, NEW b \in BOOLEAN, Fail(i, b) \/ Retry(i)
  PROVE  Calm /\ SameWriters /\ tasks' = tasks
<1> wr \in [Writer -> FileTask] /\ transfers \in [Id -> Transfer] BY DEF TypeInv, TypeOK
<1>1. Calm BY LeavesFields DEF Fail, Retry, Calm, Stays
<1>2. SameWriters BY CancelledSame DEF Fail, Retry
<1> QED BY <1>1, <1>2 DEF Fail, Retry

LEMMA SourceCalm ==
  ASSUME TypeInv,
         \/ \E c \in 1 .. MaxAttempts : \/ ClaimPeer(c) \/ RequestTimeout(c) \/ PeerConnectionFails(c)
                                       \/ UploadFailed(c) \/ UploadDenied(c)
         \/ \E r \in Release, v \in User : AutoRelay(r, v)
  PROVE  Peaceful
<1> wr \in [Writer -> FileTask] /\ transfers \in [Id -> Transfer] BY DEF TypeInv, TypeOK
<1>1. ASSUME UNCHANGED <<queueVars, taskVars, minted>> PROVE Peaceful
  BY <1>1, UnchangedCalm, UnchangedWriters DEF Peaceful, queueVars, taskVars
<1>2. ASSUME NEW i \in Id, NEW b \in BOOLEAN, Fail(i, b) \/ Retry(i), UNCHANGED minted PROVE Peaceful
  BY <1>2, FailCalm DEF Peaceful
<1>3. ASSUME NEW c, ClaimPeer(c) PROVE Peaceful
  <2>1. Calm BY <1>3 DEF ClaimPeer, Calm, Stays, Transfer
  <2>2. SameWriters BY <1>3, UnchangedWriters DEF ClaimPeer, taskVars
  <2> QED BY <1>3, <2>1, <2>2 DEF ClaimPeer, Peaceful, taskVars
<1>4. ASSUME NEW c, RequestTimeout(c) PROVE Peaceful
  BY <1>2, <1>4 DEF RequestTimeout, peerVars
<1>5. ASSUME NEW c \in 1 .. MaxAttempts, PeerConnectionFails(c) PROVE Peaceful
  <2>1. asked[c].id \in Id BY <1>5, NoneAssumption DEF PeerConnectionFails, TypeInv, TypeOK
  <2> QED BY <1>1, <1>2, <1>5, <2>1 DEF PeerConnectionFails
<1>6. ASSUME NEW c \in 1 .. MaxAttempts, NEW denied \in BOOLEAN, SourceReport(c, denied)
      PROVE  Peaceful
  <2>1. asked[c].id \in Id BY <1>6, NoneAssumption DEF SourceReport, TypeInv, TypeOK
  <2> QED BY <1>1, <1>2, <1>6, <2>1 DEF SourceReport
<1>7. ASSUME NEW r, NEW v, AutoRelay(r, v) PROVE Peaceful
  <2>1. Calm BY <1>7, LeavesFields DEF AutoRelay, Calm, Stays
  <2>2. SameWriters BY <1>7, UnchangedWriters DEF AutoRelay, taskVars
  <2> QED BY <1>7, <2>1, <2>2 DEF AutoRelay, Peaceful, taskVars, peerVars
<1> QED BY <1>3, <1>4, <1>5, <1>6, <1>7 DEF UploadFailed, UploadDenied

LEMMA ShutdownCalm == TypeInv /\ ShutdownStep => Peaceful \/ Crash
<1> SUFFICES ASSUME TypeInv, ShutdownStep, ~Crash PROVE Peaceful OBVIOUS
<1> wr \in [Writer -> FileTask] /\ transfers \in [Id -> Transfer] BY DEF TypeInv, TypeOK
<1>1. ASSUME Calm, UNCHANGED <<taskVars, minted>> PROVE Peaceful
  BY <1>1, UnchangedWriters DEF Peaceful, taskVars
<1>2. ASSUME UNCHANGED <<transfers, tasks, minted>>, NEW S, wr' = Cancelled(S) PROVE Peaceful
  BY <1>2, UnchangedCalm, CancelledSame DEF Peaceful
<1>3. ASSUME NEW S, RequeueActive(S) PROVE Calm
  BY <1>3, LeavesFields DEF RequeueActive, Calm, Stays
<1>4. CASE BeginConnectionLost \/ AbortForRestart
  BY <1>2, <1>4 DEF BeginConnectionLost, AbortForRestart, queueVars, peerVars
<1>5. CASE ConnectionLost \/ PrepareTransfersForRestart \/ FinishRestartPreparation
  BY <1>1, <1>3, <1>5
  DEF ConnectionLost, PrepareTransfersForRestart, FinishRestartPreparation, peerVars
<1>6. CASE \/ \E mode \in {"PauseNow", "FinishCurrentFiles"} : BeginRestartPreparation(mode)
           \/ CancelRestartPreparation \/ SaveStore
  BY <1>1, <1>6, UnchangedCalm
  DEF BeginRestartPreparation, CancelRestartPreparation, SaveStore, queueVars, peerVars
<1> QED BY <1>4, <1>5, <1>6 DEF ShutdownStep

LEMMA TaskCalm ==
  ASSUME TypeInv, NEW w \in Writer, TaskStep(w)
  PROVE  Peaceful \/ RegisterTask(w) \/ UnregisterTask(w)
<1> wr \in [Writer -> FileTask] /\ transfers \in [Id -> Transfer] BY DEF TypeInv, TypeOK
<1>1. ASSUME NEW from \in Stage \ {"Idle", "Begun"}, NEW to \in Stage \ {"Idle", "Begun"},
             Step(w, from, to)
      PROVE  Peaceful
  <2>1. SameWriters BY <1>1 DEF Step, SameWriters, Writing, Running, FileTask
  <2> QED BY <1>1, <2>1, UnchangedCalm DEF Step, Peaceful, queueVars, peerVars
<1>2. CASE WriteBuffer(w)
  <2>1. SameWriters BY <1>2 DEF WriteBuffer, SameWriters, Writing, Running, FileTask, Stage
  <2> QED BY <1>2, <2>1, UnchangedCalm DEF WriteBuffer, Peaceful, queueVars, peerVars
<1>3. CASE Complete(w)
  <2>0. ASSUME transfers' = [transfers EXCEPT ![wr[w].id] = Finished(@)] PROVE Calm
    BY <2>0, LeavesFields DEF Calm, Stays
  <2>1. Calm BY <1>3, <2>0, UnchangedCalm DEF Complete
  <2>2. SameWriters BY <1>3 DEF Complete, SameWriters, Writing, Running, FileTask, Stage
  <2> QED BY <1>3, <2>1, <2>2 DEF Complete, Peaceful, peerVars
<1>4. CASE ReportOutcome(w)
  <2>0. ASSUME NEW b \in BOOLEAN,
               transfers' = [transfers EXCEPT ![wr[w].id] = IF b THEN Retried(@) ELSE Failed(@, FALSE)]
        PROVE  Calm
    BY <2>0, LeavesFields DEF Calm, Stays
  <2>1. Calm
    <3>1. CASE UNCHANGED transfers BY <3>1, UnchangedCalm
    <3>2. CASE FileAttempt(w)
      <4>1. transfers' = [transfers EXCEPT ![wr[w].id] =
                            IF wr[w].stage = "Retrying" THEN Retried(@) ELSE Failed(@, FALSE)]
        BY <1>4, <3>2 DEF ReportOutcome
      <4> QED BY <4>1, <2>0
    <3> QED BY <1>4, <3>1, <3>2 DEF ReportOutcome
  <2>2. SameWriters
    <3>1. CASE wr' = [wr EXCEPT ![w].stage = "Ended"]
      BY <1>4, <3>1 DEF ReportOutcome, SameWriters, Writing, Running, FileTask, Stage
    <3>2. CASE wr' = [Cancelled({wr[w].id}) EXCEPT ![w].stage = "Ended"]
      <4> DEFINE c == Cancelled({wr[w].id})
      <4>1. /\ c \in [Writer -> FileTask]
            /\ \A v \in Writer : c[v].id = wr[v].id /\ c[v].token = wr[v].token /\ c[v].stage = wr[v].stage
        BY DEF Cancelled, FileTask
      <4>2. wr' = [c EXCEPT ![w].stage = "Ended"] BY <3>2
      <4>3. wr[w].stage \in {"Failing", "Retrying"} BY <1>4 DEF ReportOutcome
      <4> HIDE DEF c
      <4>4. /\ wr'[w].id = c[w].id /\ wr'[w].token = c[w].token /\ wr'[w].stage = "Ended"
            /\ \A v \in Writer \ {w} : wr'[v] = c[v]
        BY <4>1, <4>2 DEF FileTask
      <4> QED BY <4>1, <4>3, <4>4 DEF SameWriters, Writing, Running, Stage
    <3> QED BY <1>4, <3>1, <3>2 DEF ReportOutcome
  <2> QED BY <1>4, <2>1, <2>2 DEF ReportOutcome, Peaceful, peerVars
<1> QED
  BY <1>1, <1>2, <1>3, <1>4
  DEF TaskStep, ReadBuffer, StopWriting, FinishWriting, ConnectionBreaks, WriteFails, Stage

LEMMA RegisterKeeps ==
  ASSUME TypeInv, WriterInv, NEW w \in Writer, RegisterTask(w)
  PROVE  WriterInv'
<1> wr \in [Writer -> FileTask] /\ tasks \in [Id -> Writer \cup {None}]
  BY DEF TypeInv, TypeOK
<1>1. CASE FileAttempt(w)
  <2> DEFINE i == wr[w].id
  <2>1. i \in Id /\ transfers[i].status = "Downloading" /\ transfers[i].token = wr[w].token
    BY <1>1 DEF FileAttempt, FileTask
  <2>2. wr[w].stage = "Begun" BY <1>1 DEF RegisterTask
  <2>3. tasks[i] = None
    <3>1. SUFFICES ASSUME tasks[i] # None PROVE FALSE OBVIOUS
    <3>2. tasks[i] \in Writer /\ Writing(tasks[i]) /\ wr[tasks[i]].token = wr[w].token
      BY <2>1, <3>1 DEF WriterInv, IsActive, Active
    <3>3. tasks[i] = w BY <2>2, <3>2 DEF WriterInv, Running, Writing
    <3> QED BY <2>2, <3>2, <3>3 DEF Writing
  <2>4. /\ tasks' = [tasks EXCEPT ![i] = w] /\ wr' = [wr EXCEPT ![w].stage = "Writing"]
        /\ UNCHANGED <<transfers, minted>>
    BY <1>1 DEF RegisterTask, queueVars, peerVars
  <2>5. /\ wr'[w].id = i /\ wr'[w].token = wr[w].token /\ Writing(w)' /\ Running(w)'
        /\ \A v \in Writer \ {w} : wr'[v] = wr[v] /\ Writing(v)' = Writing(v)
    BY <2>4 DEF Writing, Running, Stage, FileTask
  <2>6. \A v \in Writer : /\ wr'[v].id = wr[v].id /\ wr'[v].token = wr[v].token
                          /\ Running(v)' = Running(v)
    BY <2>2, <2>5 DEF Running
  <2>7. \A v \in Writer : Writing(v)' => wr'[v].id \in Id /\ tasks'[wr'[v].id] = v
    BY <2>1, <2>3, <2>4, <2>5, NoneAssumption DEF WriterInv
  <2>8. \A j \in Id : tasks'[j] # None => Writing(tasks[j])' /\ wr'[tasks'[j]].id = j
    BY <2>1, <2>3, <2>4, <2>5 DEF WriterInv
  <2>9. \A j \in Id : IsActive(j)' /\ tasks'[j] # None =>
                      transfers'[j].status = "Downloading" /\ transfers'[j].token = wr'[tasks'[j]].token
    BY <2>1, <2>4, <2>6 DEF WriterInv, IsActive
  <2> QED BY <2>4, <2>6, <2>7, <2>8, <2>9 DEF WriterInv
<1>2. CASE ~FileAttempt(w)
  <2>1. wr' = [wr EXCEPT ![w] = IdleTask] /\ UNCHANGED <<transfers, tasks, minted>>
    BY <1>2 DEF RegisterTask, queueVars, peerVars
  <2>2. wr[w].stage = "Begun" BY <1>2 DEF RegisterTask
  <2>3. /\ ~Writing(w) /\ ~Writing(w)' /\ ~Running(w)'
        /\ \A v \in Writer \ {w} : wr'[v] = wr[v] /\ Writing(v)' = Writing(v) /\ Running(v)' = Running(v)
    BY <2>1, <2>2 DEF Writing, Running, IdleTask
  <2>4. \A i \in Id : tasks[i] # w BY <2>3, NoneAssumption DEF WriterInv
  <2> QED BY <2>1, <2>3, <2>4 DEF WriterInv, IsActive
<1> QED BY <1>1, <1>2

LEMMA UnregisterKeeps ==
  ASSUME TypeInv, WriterInv, NEW w \in Writer, UnregisterTask(w)
  PROVE  WriterInv'
<1> wr \in [Writer -> FileTask] /\ tasks \in [Id -> Writer \cup {None}]
  BY DEF TypeInv, TypeOK
<1> DEFINE i == wr[w].id
<1>0. Writing(w) /\ w # None BY NoneAssumption DEF UnregisterTask, Writing, Stage
<1>1. i \in Id /\ tasks[i] = w BY <1>0 DEF WriterInv
<1>2. tasks' = [tasks EXCEPT ![i] = None] /\ wr' = [wr EXCEPT ![w] = IdleTask]
      /\ UNCHANGED <<transfers, minted>>
  BY <1>0, <1>1 DEF UnregisterTask, queueVars, peerVars
<1>3. /\ ~Writing(w)' /\ ~Running(w)'
      /\ \A v \in Writer \ {w} : wr'[v] = wr[v] /\ Writing(v)' = Writing(v) /\ Running(v)' = Running(v)
  BY <1>2 DEF Writing, Running, IdleTask
<1>4. \A j \in Id \ {i} : tasks'[j] = tasks[j] /\ tasks[j] # w BY <1>0, <1>1, <1>2 DEF WriterInv
<1>5. \A v \in Writer \ {w} : Writing(v) => wr[v].id # i BY <1>1 DEF WriterInv
<1>6. \A v \in Writer : Writing(v)' => wr'[v].id \in Id /\ tasks'[wr'[v].id] = v
  BY <1>3, <1>4, <1>5 DEF WriterInv
<1>7. \A j \in Id : tasks'[j] # None => j # i /\ Writing(tasks[j])' /\ wr'[tasks'[j]] = wr[tasks[j]]
                                      /\ tasks'[j] = tasks[j] /\ wr'[tasks'[j]].id = j
  BY <1>1, <1>2, <1>3, <1>4 DEF WriterInv
<1>8. \A j \in Id : IsActive(j)' /\ tasks'[j] # None =>
                    transfers'[j].status = "Downloading" /\ transfers'[j].token = wr'[tasks'[j]].token
  BY <1>2, <1>7 DEF WriterInv, IsActive
<1> QED BY <1>2, <1>3, <1>6, <1>7, <1>8 DEF WriterInv

(* A new token is larger than any that a transfer or a writer holds.       *)
LEMMA OfferKeeps ==
  ASSUME TypeInv, TypeInv', WriterInv, NEW i \in Id, NEW b, TransferRequest(i, b)
  PROVE  WriterInv'
<1> /\ wr \in [Writer -> FileTask] /\ tasks \in [Id -> Writer \cup {None}]
    /\ transfers \in [Id -> Transfer] /\ minted \in Nat
    /\ \A j \in Id : transfers[j].token \in Nat
    /\ \A w \in Writer : wr[w].token \in Nat
  BY DEF TypeInv, TypeOK, Transfer, FileTask
<1>1. CASE Fail(i, TRUE) /\ UNCHANGED minted
  BY <1>1, FailCalm, CalmWriters
<1>2. CASE /\ transfers[i].status = "RemotelyQueued"
           /\ transfers' = [transfers EXCEPT ![i].status = "Connecting", ![i].token = minted + 1]
           /\ minted' = minted + 1 /\ UNCHANGED <<queue, taskVars>>
  <2>1. transfers'[i].status = "Connecting" /\ transfers'[i].token = minted + 1
        /\ \A j \in Id \ {i} : transfers'[j] = transfers[j]
    BY <1>2 DEF Transfer
  <2>2. UNCHANGED <<wr, tasks>> BY <1>2 DEF taskVars
  <2>3. tasks[i] = None BY <1>2 DEF WriterInv, IsActive, Active
  <2>4. \A j \in Id : transfers'[j].token <= minted' BY <1>2, <2>1 DEF WriterInv
  <2>5. \A w \in Writer : Running(w)' => wr'[w].token <= minted' /\ wr'[w].token < minted + 1
    BY <1>2, <2>2 DEF WriterInv, Running
  <2>6. \A j \in Id \ {i} : transfers[j].token < minted + 1 BY DEF WriterInv
  <2>7. \A j, k \in Id : /\ transfers'[j].status = "Connecting" /\ transfers'[k].status = "Connecting"
                         /\ transfers'[j].token = transfers'[k].token
                         => j = k
    BY <2>1, <2>6 DEF WriterInv
  <2>8. \A j \in Id, w \in Writer :
         transfers'[j].status = "Connecting" /\ Running(w)' => wr'[w].token # transfers'[j].token
    BY <2>1, <2>2, <2>5 DEF WriterInv, Running
  <2>9. \A j \in Id : IsActive(j)' /\ tasks'[j] # None =>
                      transfers'[j].status = "Downloading" /\ transfers'[j].token = wr'[tasks'[j]].token
    BY <2>1, <2>2, <2>3 DEF WriterInv, IsActive
  <2> QED BY <2>2, <2>4, <2>5, <2>7, <2>8, <2>9 DEF WriterInv, Running, Writing
<1> QED BY <1>1, <1>2 DEF TransferRequest

LEMMA ConnectionKeeps ==
  ASSUME TypeInv, TypeInv', WriterInv, NEW t \in 1 .. MaxAttempts, FileConnection(t)
  PROVE  WriterInv'
<1> /\ wr \in [Writer -> FileTask] /\ tasks \in [Id -> Writer \cup {None}]
    /\ transfers \in [Id -> Transfer]
  BY DEF TypeInv, TypeOK
<1>0. UNCHANGED minted BY DEF FileConnection, peerVars
<1>1. ASSUME NEW i \in Id, Fail(i, FALSE) PROVE WriterInv'
  BY <1>0, <1>1, FailCalm, CalmWriters
<1>2. ASSUME NEW i \in Id, NEW w \in Writer, transfers[i].status = "Connecting", transfers[i].token = t,
             wr[w].stage = "Idle",
             transfers' = [transfers EXCEPT ![i].status = "Downloading", ![i].waiting = FALSE],
             wr' = [wr EXCEPT ![w] = [stage |-> "Begun", id |-> i, token |-> t,
                                      at |-> Offset(i), cancelled |-> FALSE]],
             UNCHANGED <<queue, tasks>>
      PROVE  WriterInv'
  <2>1. /\ transfers'[i].status = "Downloading" /\ transfers'[i].token = t
        /\ \A j \in Id \ {i} : transfers'[j] = transfers[j]
    BY <1>2 DEF Transfer
  <2>2. /\ ~Writing(w) /\ ~Writing(w)' /\ Running(w)' /\ wr'[w].token = t
        /\ \A v \in Writer \ {w} : wr'[v] = wr[v] /\ Writing(v)' = Writing(v) /\ Running(v)' = Running(v)
    BY <1>2 DEF Writing, Running
  <2>3. \A v \in Writer \ {w} : Running(v) => wr[v].token # t BY <1>2 DEF WriterInv
  <2>4. \A j \in Id : tasks[j] # w BY <2>2, NoneAssumption DEF WriterInv
  <2>5. tasks[i] = None BY <1>2 DEF WriterInv, IsActive, Active
  <2>6. \A j \in Id : transfers'[j].token <= minted' BY <1>0, <1>2, <2>1 DEF WriterInv
  <2>7. t <= minted BY <1>2 DEF WriterInv
  <2>8. \A j \in Id \ {i} : transfers[j].status = "Connecting" => transfers[j].token # t
    BY <1>2 DEF WriterInv
  <2>9. \A j \in Id : IsActive(j)' /\ tasks'[j] # None =>
                      transfers'[j].status = "Downloading" /\ transfers'[j].token = wr'[tasks'[j]].token
    BY <1>2, <2>1, <2>2, <2>4, <2>5 DEF WriterInv, IsActive
  <2>10. \A j \in Id : tasks'[j] # None => Writing(tasks[j])' /\ wr'[tasks'[j]].id = j
    BY <1>2, <2>2, <2>4 DEF WriterInv
  <2>11. \A v \in Writer : Writing(v)' => wr'[v].id \in Id /\ tasks'[wr'[v].id] = v
    BY <1>2, <2>2 DEF WriterInv
  <2>12. \A u, v \in Writer : Running(u)' /\ Running(v)' /\ wr'[u].token = wr'[v].token => u = v
    BY <2>2, <2>3 DEF WriterInv
  <2>13. \A v \in Writer : Running(v)' => wr'[v].token <= minted'
    BY <1>0, <2>2, <2>7 DEF WriterInv
  <2>14. \A j \in Id, v \in Writer :
          transfers'[j].status = "Connecting" /\ Running(v)' => wr'[v].token # transfers'[j].token
    BY <2>1, <2>2, <2>8 DEF WriterInv
  <2>15. \A j, k \in Id : /\ transfers'[j].status = "Connecting" /\ transfers'[k].status = "Connecting"
                          /\ transfers'[j].token = transfers'[k].token
                          => j = k
    BY <2>1 DEF WriterInv
  <2> QED BY <2>6, <2>9, <2>10, <2>11, <2>12, <2>13, <2>14, <2>15 DEF WriterInv
<1> QED BY <1>1, <1>2 DEF FileConnection, IsFirst

(* A transfer takes a lane only while no task is registered for it, and    *)
(* while its source serves no other transfer.                              *)
LEMMA ActivateKeeps ==
  ASSUME TypeInv, TypeInv', WriterInv, OneLanePerSource, ActivateNext
  PROVE  WriterInv' /\ OneLanePerSource'
<1> /\ wr \in [Writer -> FileTask] /\ tasks \in [Id -> Writer \cup {None}]
    /\ transfers \in [Id -> Transfer] /\ minted \in Nat
    /\ \A j \in Id : transfers[j].token \in Nat
  BY DEF TypeInv, TypeOK, Transfer
<1>1. UNCHANGED <<wr, tasks, minted>> BY DEF ActivateNext, taskVars
<1>2. CASE UNCHANGED transfers
  <2>1. WriterInv' BY <1>1, <1>2, UnchangedCalm, UnchangedWriters, CalmWriters
  <2> QED BY <1>2, <2>1 DEF OneLanePerSource, ActiveIds, IsActive
<1>3. ASSUME NEW i \in Id, NEW due, IsFirst(i, Available(due)),
             transfers' = [transfers EXCEPT ![i].status = "Requesting", ![i].conn = attempts + 1,
                                            ![i].token = 0, ![i].waiting = TRUE]
      PROVE  WriterInv' /\ OneLanePerSource'
  <2>1. tasks[i] = None /\ \A j \in ActiveIds : transfers[j].user # transfers[i].user
    BY <1>3 DEF IsFirst, Available
  <2>2. /\ transfers'[i].status = "Requesting" /\ transfers'[i].token = 0
        /\ transfers'[i].user = transfers[i].user
        /\ \A j \in Id \ {i} : transfers'[j] = transfers[j]
    BY <1>3 DEF Transfer
  <2>3. OneLanePerSource' BY <2>1, <2>2 DEF OneLanePerSource, ActiveIds, IsActive
  <2>4. \A j \in Id : transfers'[j].token <= minted' BY <1>1, <2>2 DEF WriterInv
  <2>5. \A j \in Id : transfers'[j].status = "Connecting" => j # i BY <2>2
  <2>6. \A j \in Id : IsActive(j)' /\ tasks'[j] # None =>
                      transfers'[j].status = "Downloading" /\ transfers'[j].token = wr'[tasks'[j]].token
    BY <1>1, <2>1, <2>2 DEF WriterInv, IsActive
  <2>7. \A w \in Writer : Writing(w)' = Writing(w) /\ Running(w)' = Running(w)
    BY <1>1 DEF Writing, Running
  <2>8. WriterInv' BY <1>1, <2>2, <2>4, <2>5, <2>6, <2>7 DEF WriterInv
  <2> QED BY <2>3, <2>8
<1> QED BY <1>2, <1>3 DEF ActivateNext

LEMMA CrashKeeps ==
  ASSUME TypeInv, TypeInv', WriterInv, Crash, \A i \in Id : saved.transfers[i].token = 0
  PROVE  WriterInv' /\ OneLanePerSource'
<1>1. transfers' = [i \in Id |-> Reconciled(i, saved.transfers[i])] BY DEF Crash
<1>2. \A i \in Id : transfers'[i].status \notin Active /\ transfers'[i].token = 0
  <2>1. ASSUME NEW i \in Id PROVE transfers'[i].status \notin Active /\ transfers'[i].token = 0
    <3>1. PICK t : t = saved.transfers[i] OBVIOUS
    <3>2. t \in Transfer /\ t.token = 0 BY <3>1 DEF TypeInv, SavedOK, Sound
    <3>3. Reconciled(i, t).status \notin Active /\ Reconciled(i, t).token = 0
      BY <3>2 DEF Reconciled, Active, Transfer
    <3> QED BY <1>1, <3>1, <3>3
  <2> QED BY <2>1
<1>3. /\ \A w \in Writer : ~Writing(w)' /\ ~Running(w)'
      /\ \A i \in Id : tasks'[i] = None
  BY DEF Crash, IdleTask, Writing, Running
<1>4. minted' \in Nat BY DEF TypeInv, TypeOK
<1> QED BY <1>2, <1>3, <1>4 DEF WriterInv, OneLanePerSource, ActiveIds, IsActive, Active

(* No transfer but one that activate_next chooses comes to hold a lane.    *)
LEMMA CalmLanes == ASSUME Calm, OneLanePerSource PROVE OneLanePerSource'
BY DEF Calm, Leaves, Stays, OneLanePerSource, ActiveIds, IsActive, Active

(* Tokens do not survive in the store (PersistedTransfer has none).        *)
SavedTokens == \A i \in Id : saved.transfers[i].token = 0

LaneInv == TypeInv /\ WriterInv /\ OneLanePerSource /\ SavedTokens

LEMMA InitLanes == Init => LaneInv
<1> SUFFICES ASSUME Init PROVE LaneInv OBVIOUS
<1>1. TypeInv BY InitType
<1>2. \A i \in Id : transfers[i].status = "Absent" /\ transfers[i].token = 0
  BY DEF Init, Blank
<1>3. SavedTokens BY <1>2 DEF Init, SavedTokens
<1>4. \A w \in Writer : ~Writing(w) /\ ~Running(w) BY DEF Init, IdleTask, Writing, Running
<1>5. WriterInv BY <1>2, <1>4 DEF Init, WriterInv, IsActive, Active
<1>6. OneLanePerSource BY <1>2 DEF OneLanePerSource, ActiveIds, IsActive, Active
<1> QED BY <1>1, <1>3, <1>5, <1>6 DEF LaneInv

LEMMA StepLanes == LaneInv /\ [Next]_vars => LaneInv'
<1> SUFFICES ASSUME LaneInv, [Next]_vars PROVE LaneInv' OBVIOUS
<1> USE DEF LaneInv
<1>1. TypeInv' BY StepType
<1>2. SavedTokens'
  <2>1. CASE UNCHANGED saved BY <2>1 DEF SavedTokens
  <2>2. CASE SaveStore
    <3>1. \A i \in Id : transfers[i] \in Transfer BY DEF TypeInv, TypeOK
    <3> QED BY <2>2, <3>1 DEF SaveStore, SavedTokens, Stored, Transfer
  <2> QED
    BY <2>1, <2>2
    DEF Next, vars, saveVars, UserStep, SourceStep, ShutdownStep, TaskStep,
        EnqueueRelease, BeginUserOp, PauseTransfers, CancelTransfers, SwitchSource, SwitchFails,
        ResumeTransfers, RetryReleaseIssues, Resume, ReorderRelease, ClearCompleted,
        SetMaxConcurrentDownloads, ClaimPeer, RequestTimeout, PeerConnectionFails, UploadFailed,
        UploadDenied, SourceReport, TransferRequest, FileConnection, AutoRelay, RegisterTask, ReadBuffer,
        WriteBuffer, StopWriting, FinishWriting, ConnectionBreaks, WriteFails, Step, Complete,
        ReportOutcome, UnregisterTask, BeginConnectionLost, ConnectionLost, BeginRestartPreparation,
        AbortForRestart, PrepareTransfersForRestart, FinishRestartPreparation,
        CancelRestartPreparation, Crash, CheckSafety, ActivateNext, PartialCleanup, FileAppears
<1>3. CASE Peaceful
  BY <1>1, <1>2, <1>3, CalmWriters, CalmLanes DEF Peaceful
<1>4. CASE UNCHANGED <<transfers, wr, tasks, minted>>
  BY <1>3, <1>4, UnchangedCalm, UnchangedWriters DEF Peaceful
<1>5. ASSUME UNCHANGED transfers PROVE OneLanePerSource'
  BY <1>5, UnchangedCalm, CalmLanes
<1>6. CASE UserStep BY <1>3, <1>6, UserCalm
<1>7. CASE SourceStep
  <2>1. ASSUME NEW i \in Id, NEW b \in BOOLEAN, TransferRequest(i, b) PROVE LaneInv'
    <3>1. OneLanePerSource'
      <4>1. CASE Fail(i, TRUE) BY <4>1, FailCalm, CalmLanes
      <4>2. CASE /\ transfers[i].status = "RemotelyQueued"
                 /\ transfers' = [transfers EXCEPT ![i].status = "Connecting", ![i].token = minted + 1]
        <5>1. \A j \in Id : transfers'[j].user = transfers[j].user /\ (IsActive(j)' => IsActive(j))
          <6>1. transfers \in [Id -> Transfer] BY DEF TypeInv, TypeOK
          <6>2. /\ transfers'[i].user = transfers[i].user
                /\ \A j \in Id \ {i} : transfers'[j] = transfers[j]
            BY <4>2, <6>1 DEF Transfer
          <6>3. IsActive(i) BY <4>2 DEF IsActive, Active
          <6> QED BY <6>2, <6>3 DEF IsActive
        <5> QED BY <5>1 DEF OneLanePerSource, ActiveIds
      <4> QED BY <2>1, <4>1, <4>2 DEF TransferRequest
    <3> QED BY <1>1, <1>2, <2>1, <3>1, OfferKeeps
  <2>2. ASSUME NEW t \in 1 .. MaxAttempts, FileConnection(t) PROVE LaneInv'
    <3>1. ASSUME NEW i \in Id, Fail(i, FALSE) PROVE OneLanePerSource'
      BY <3>1, FailCalm, CalmLanes
    <3>2. ASSUME NEW i \in Id, transfers[i].status = "Connecting",
                 transfers' = [transfers EXCEPT ![i].status = "Downloading", ![i].waiting = FALSE]
          PROVE  OneLanePerSource'
      <4>1. \A j \in Id : transfers'[j].user = transfers[j].user /\ (IsActive(j)' => IsActive(j))
        BY <3>2 DEF TypeInv, TypeOK, Transfer, IsActive, Active
      <4> QED BY <4>1 DEF OneLanePerSource, ActiveIds
    <3>3. OneLanePerSource' BY <2>2, <3>1, <3>2 DEF FileConnection, IsFirst
    <3> QED BY <1>1, <1>2, <2>2, <3>3, ConnectionKeeps
  <2> QED BY <1>3, <1>7, <2>1, <2>2, SourceCalm DEF SourceStep
<1>8. CASE ShutdownStep
  <2>1. CASE Crash BY <1>1, <1>2, <2>1, CrashKeeps DEF SavedTokens
  <2> QED BY <1>3, <1>8, <2>1, ShutdownCalm
<1>9. ASSUME NEW w \in Writer, TaskStep(w) PROVE LaneInv'
  <2>1. CASE RegisterTask(w)
    BY <1>1, <1>2, <1>5, <2>1, RegisterKeeps DEF RegisterTask, queueVars
  <2>2. CASE UnregisterTask(w)
    BY <1>1, <1>2, <1>5, <2>2, UnregisterKeeps DEF UnregisterTask, queueVars
  <2> QED BY <1>3, <1>9, <2>1, <2>2, TaskCalm
<1>10. CASE ActivateNext BY <1>1, <1>2, <1>10, ActivateKeeps
<1>11. CASE \/ CheckSafety \/ \E i \in Id : PartialCleanup(i) \/ FileAppears(i)
            \/ UNCHANGED vars
  BY <1>4, <1>11
  DEF CheckSafety, PartialCleanup, FileAppears, vars, queueVars, taskVars, peerVars
<1> QED BY <1>6, <1>7, <1>8, <1>9, <1>10, <1>11 DEF Next

(* The .part file of a transfer has at most one writer, however attempts,  *)
(* cancellations, late connections and restarts interleave.                *)
THEOREM OneWriter == Spec => []OneWriterPerFile
<1>1. Spec => []LaneInv BY InitLanes, StepLanes, PTL DEF Spec
<1>2. LaneInv => OneWriterPerFile BY DEF LaneInv, WriterInv, OneWriterPerFile
<1> QED BY <1>1, <1>2, PTL

(* No source serves two transfers at once, also when the user or Signal    *)
(* Relay moves transfers between sources while others are active.          *)
THEOREM OneLane == Spec => []OneLanePerSource
<1>1. Spec => []LaneInv BY InitLanes, StepLanes, PTL DEF Spec
<1>2. LaneInv => OneLanePerSource BY DEF LaneInv
<1> QED BY <1>1, <1>2, PTL

-----------------------------------------------------------------------------
(* What one step does to a transfer t, which becomes u, unless it takes a  *)
(* lane (Starts), is complete (Finishes), enters the queue, leaves it, or  *)
(* comes back from the store.                                              *)
Interrupted == {"Queued", "Paused", "Failed"}

Move(t, u) ==
  \/ u = t
  \/ /\ t.status \notin OffQueue \cup {"Completed"}
     /\ u.status \in Interrupted /\ u.retries \in {0, t.retries}
  \/ t.status \in Active /\ u = Retried(t)
  \/ t.status \in Active /\ u.status \in Active /\ u.retries = t.retries

Moves == \A i \in Id : Move(transfers[i], transfers'[i])

Starts(i) ==
  /\ ActivateNext /\ LaneFree
  /\ transfers[i].status \in {"Queued", "Retrying"}
  /\ transfers'[i].status = "Requesting" /\ transfers'[i].retries = transfers[i].retries
  /\ \A j \in Id \ {i} : transfers'[j] = transfers[j]
  /\ attempts' = attempts + 1

Finishes(w) == Complete(w) /\ FileAttempt(w) /\ FinalPathFree(wr[w].id)

LEMMA MoveFields ==
  ASSUME NEW t \in Transfer, NEW b \in BOOLEAN, NEW u, NEW x
  PROVE  /\ t.status \notin OffQueue => Move(t, Paused(t))
         /\ t.status \notin OffQueue \cup {"Completed"} =>
              /\ Move(t, Renewed(t)) /\ Move(t, [Renewed(t) EXCEPT !.user = u])
              /\ Move(t, [Renewed(t) EXCEPT !.user = u, !.tried = x])
              /\ Move(t, Requeued(t)) /\ Move(t, Failed(t, b))
         /\ t.status \in Active => Move(t, Retried(t))
BY DEF Move, Interrupted, Renewed, Paused, Failed, Requeued, Reset, Active, OffQueue, Transfer

LEMMA Unmoved == ASSUME UNCHANGED transfers PROVE Moves
BY DEF Moves, Move

LEMMA FailMoves ==
  ASSUME TypeInv, NEW i \in Id, IsActive(i), NEW b \in BOOLEAN, Fail(i, b) \/ Retry(i)
  PROVE  Moves
<1>1. transfers \in [Id -> Transfer] BY DEF TypeInv, TypeOK
<1>2. Move(transfers[i], Failed(transfers[i], b)) /\ Move(transfers[i], Retried(transfers[i]))
  BY <1>1, MoveFields DEF IsActive, Active, OffQueue
<1>3. \A j \in Id : Move(transfers[j], transfers[j]) BY DEF Move
<1> QED BY <1>1, <1>2, <1>3 DEF Moves, Fail, Retry

LEMMA UserMoves ==
  ASSUME TypeInv, UserStep
  PROVE  \/ Moves \/ (\E r \in Release, u \in User : EnqueueRelease(r, u))
         \/ CancelTransfers \/ ClearCompleted
<1>0. transfers \in [Id -> Transfer] BY DEF TypeInv, TypeOK
<1>1. \A i \in Id : Move(transfers[i], transfers[i]) BY DEF Move
<1>2. ASSUME NEW op, NEW S, BeginUserOp(op, S) PROVE Moves
  BY <1>2, Unmoved DEF BeginUserOp, queueVars
<1>3. CASE PauseTransfers BY <1>0, <1>1, <1>3, MoveFields DEF PauseTransfers, Moves, Queued
<1>4. ASSUME NEW v, NEW exact, SwitchSource(v, exact) PROVE Moves
  <2> DEFINE S == {i \in userOp.ids : Queued(i) /\ transfers[i].status # "Completed"}
  <2>1. \A i \in S \cap Id : Move(transfers[i], [Renewed(transfers[i]) EXCEPT !.user = v])
    BY <1>0, MoveFields DEF Queued
  <2>2. \A i \in Id : transfers'[i] = IF i \in S THEN [Renewed(transfers[i]) EXCEPT !.user = v]
                                      ELSE transfers[i]
    BY <1>4 DEF SwitchSource
  <2> HIDE DEF S
  <2> QED BY <1>1, <2>1, <2>2 DEF Moves
<1>5. CASE SwitchFails BY <1>5, Unmoved DEF SwitchFails, queueVars
<1>6. ASSUME NEW S, NEW from \in SUBSET {"Paused", "Failed", "Retrying"}, Resume(S, from) PROVE Moves
  BY <1>0, <1>1, <1>6, MoveFields DEF Resume, Moves, OffQueue
<1>7. ASSUME NEW r, ReorderRelease(r) PROVE Moves
  BY <1>7, Unmoved DEF ReorderRelease
<1>8. ASSUME NEW n, SetMaxConcurrentDownloads(n) PROVE Moves
  BY <1>8, Unmoved DEF SetMaxConcurrentDownloads, queueVars
<1>9. {"Paused", "Failed", "Retrying"} \in SUBSET {"Paused", "Failed", "Retrying"}
      /\ {"Failed"} \in SUBSET {"Paused", "Failed", "Retrying"}
  OBVIOUS
<1> QED
  BY <1>2, <1>3, <1>4, <1>5, <1>6, <1>7, <1>8, <1>9 DEF UserStep, ResumeTransfers, RetryReleaseIssues

LEMMA SourceMoves ==
  ASSUME TypeInv, SourceStep
  PROVE  Moves
<1>0. transfers \in [Id -> Transfer] BY DEF TypeInv, TypeOK
<1>1. \A i \in Id : Move(transfers[i], transfers[i]) BY DEF Move
<1>2. ASSUME NEW c, ClaimPeer(c) PROVE Moves
  BY <1>0, <1>1, <1>2 DEF ClaimPeer, Moves, Move, Active, Transfer
<1>3. ASSUME NEW c, RequestTimeout(c) PROVE Moves
  BY <1>3, FailMoves DEF RequestTimeout, IsActive, Active
<1>4. ASSUME NEW c \in 1 .. MaxAttempts, PeerConnectionFails(c) PROVE Moves
  <2>1. asked[c].id \in Id BY <1>4, NoneAssumption DEF PeerConnectionFails, TypeInv, TypeOK
  <2> QED BY <1>4, <2>1, FailMoves, Unmoved DEF PeerConnectionFails, IsActive, Active, queueVars
<1>5. ASSUME NEW c \in 1 .. MaxAttempts, NEW denied \in BOOLEAN, SourceReport(c, denied) PROVE Moves
  <2>1. asked[c].id \in Id BY <1>5, NoneAssumption DEF SourceReport, TypeInv, TypeOK
  <2> QED BY <1>5, <2>1, FailMoves, Unmoved DEF SourceReport, queueVars
<1>6. ASSUME NEW i \in Id, NEW b \in BOOLEAN, TransferRequest(i, b) PROVE Moves
  <2>1. CASE IsActive(i) /\ Fail(i, TRUE) BY <2>1, FailMoves
  <2>2. CASE /\ transfers[i].status = "RemotelyQueued"
             /\ transfers' = [transfers EXCEPT ![i].status = "Connecting", ![i].token = minted + 1]
    <3>1. /\ transfers'[i].status = "Connecting" /\ transfers'[i].retries = transfers[i].retries
          /\ \A j \in Id \ {i} : transfers'[j] = transfers[j]
      BY <1>0, <2>2 DEF Transfer
    <3>2. Move(transfers[i], transfers'[i]) BY <2>2, <3>1 DEF Move, Active
    <3> QED BY <1>1, <3>1, <3>2 DEF Moves
  <2> QED BY <1>6, <2>1, <2>2 DEF TransferRequest
<1>7. ASSUME NEW t, FileConnection(t) PROVE Moves
  <2>1. ASSUME NEW i \in Id, IsActive(i), Fail(i, FALSE) PROVE Moves BY <2>1, FailMoves
  <2>2. ASSUME NEW i \in Id, transfers[i].status = "Connecting",
               transfers' = [transfers EXCEPT ![i].status = "Downloading", ![i].waiting = FALSE]
        PROVE  Moves
    <3>1. /\ transfers'[i].status = "Downloading" /\ transfers'[i].retries = transfers[i].retries
          /\ \A j \in Id \ {i} : transfers'[j] = transfers[j]
      BY <1>0, <2>2 DEF Transfer
    <3>2. Move(transfers[i], transfers'[i]) BY <2>2, <3>1 DEF Move, Active
    <3> QED BY <1>1, <3>1, <3>2 DEF Moves
  <2> QED BY <1>7, <2>1, <2>2 DEF FileConnection, IsFirst, IsActive, Active
<1>8. ASSUME NEW r, NEW v, AutoRelay(r, v) PROVE Moves
  BY <1>0, <1>1, <1>8, MoveFields DEF AutoRelay, Moves, Queued
<1> QED
  BY <1>2, <1>3, <1>4, <1>5, <1>6, <1>7, <1>8 DEF SourceStep, UploadFailed, UploadDenied

LEMMA TaskMoves ==
  ASSUME TypeInv, NEW w \in Writer, TaskStep(w)
  PROVE  Moves \/ Finishes(w)
<1>0. transfers \in [Id -> Transfer] BY DEF TypeInv, TypeOK
<1>1. \A i \in Id : Move(transfers[i], transfers[i]) BY DEF Move
<1>2. FileAttempt(w) => wr[w].id \in Id /\ transfers[wr[w].id].status = "Downloading"
  BY DEF FileAttempt, FileTask, TypeInv, TypeOK
<1>3. CASE Complete(w) BY <1>3, Unmoved DEF Complete, Finishes
<1>4. CASE ReportOutcome(w) /\ FileAttempt(w)
  <2>1. PICK o : /\ transfers' = [transfers EXCEPT ![wr[w].id] = o]
                 /\ o \in {Retried(transfers[wr[w].id]), Failed(transfers[wr[w].id], FALSE)}
    BY <1>4 DEF ReportOutcome
  <2>2. Move(transfers[wr[w].id], o)
    BY <1>0, <1>2, <1>4, <2>1, MoveFields DEF Active, OffQueue
  <2> QED BY <1>1, <1>2, <1>4, <2>1, <2>2 DEF Moves, TypeInv, TypeOK
<1> QED
  BY <1>3, <1>4, Unmoved
  DEF TaskStep, RegisterTask, ReadBuffer, WriteBuffer, StopWriting, FinishWriting, ConnectionBreaks,
      WriteFails, Step, Complete, ReportOutcome, UnregisterTask, queueVars

LEMMA ShutdownMoves ==
  ASSUME TypeInv, ShutdownStep, ~Crash
  PROVE  Moves
<1>0. transfers \in [Id -> Transfer] BY DEF TypeInv, TypeOK
<1>1. \A i \in Id : Move(transfers[i], transfers[i]) BY DEF Move
<1>2. ASSUME NEW S, RequeueActive(S) PROVE Moves
  BY <1>0, <1>1, <1>2, MoveFields DEF RequeueActive, Moves, IsActive, Active, OffQueue
<1> QED
  BY <1>2, Unmoved
  DEF ShutdownStep, BeginConnectionLost, ConnectionLost, BeginRestartPreparation, AbortForRestart,
      PrepareTransfersForRestart, FinishRestartPreparation, CancelRestartPreparation, SaveStore, queueVars

LEMMA SchedulerMoves ==
  ASSUME TypeInv, CheckSafety \/ ActivateNext
  PROVE  Moves \/ \E i \in Id : Starts(i)
<1>0. transfers \in [Id -> Transfer] BY DEF TypeInv, TypeOK
<1>1. ASSUME NEW i \in Id, NEW due, IsFirst(i, Available(due)), ActivateNext, LaneFree,
             transfers' = [transfers EXCEPT ![i].status = "Requesting", ![i].conn = attempts + 1,
                                            ![i].token = 0, ![i].waiting = TRUE],
             attempts' = attempts + 1
      PROVE  Starts(i)
  <2>1. transfers[i].status \in {"Queued", "Retrying"} BY <1>1 DEF IsFirst, Available
  <2>2. /\ transfers'[i].status = "Requesting" /\ transfers'[i].retries = transfers[i].retries
        /\ \A j \in Id \ {i} : transfers'[j] = transfers[j]
    BY <1>0, <1>1 DEF Transfer
  <2> QED BY <1>1, <2>1, <2>2 DEF Starts
<1>2. CASE ActivateNext /\ ~UNCHANGED transfers
  <2>1. PICK due \in SUBSET {i \in Id : transfers[i].status = "Retrying"} :
          IF LaneFree /\ Available(due) # {}
          THEN /\ \E i \in Id :
                    /\ IsFirst(i, Available(due))
                    /\ transfers' = [transfers EXCEPT ![i].status = "Requesting",
                                                     ![i].conn = attempts + 1,
                                                     ![i].token = 0, ![i].waiting = TRUE]
               /\ attempts' = attempts + 1
          ELSE UNCHANGED <<transfers, attempts>>
    BY <1>2 DEF ActivateNext
  <2> QED BY <1>1, <1>2, <2>1
<1> QED BY <1>2, Unmoved DEF CheckSafety, queueVars

LEMMA StepMoves ==
  ASSUME TypeInv, [Next]_vars
  PROVE  \/ Moves \/ (\E i \in Id : Starts(i)) \/ (\E w \in Writer : Finishes(w))
         \/ Crash \/ CancelTransfers \/ ClearCompleted
         \/ \E r \in Release, u \in User : EnqueueRelease(r, u)
<1>1. ASSUME NEW i \in Id, PartialCleanup(i) \/ FileAppears(i) PROVE Moves
  BY <1>1, Unmoved DEF PartialCleanup, FileAppears, queueVars
<1>2. CASE UNCHANGED vars BY <1>2, Unmoved DEF vars, queueVars
<1> QED
  BY <1>1, <1>2, UserMoves, SourceMoves, TaskMoves, ShutdownMoves, SchedulerMoves DEF Next

-----------------------------------------------------------------------------
(* The inductive invariants.                                               *)

(* A vector q and the fields t of its transfers, here or in the store.     *)
EachOnce(q) == \A m, n \in DOMAIN q : q[m] = q[n] => m = n
Holds(q, i) == \E n \in DOMAIN q : q[n] = i
Consistent(q, t) == EachOnce(q) /\ \A i \in Id : t[i].status \notin OffQueue <=> Holds(q, i)

QueueInv == Consistent(queue, transfers) /\ Consistent(saved.queue, saved.transfers)

(* A transfer that holds a lane has a connection that has not failed yet.  *)
Counted(t, n) ==
  /\ t.retries <= n
  /\ t.status \in Active => t.retries < n
  /\ t.status = "Retrying" => t.retries \in 1 .. MaxAutomaticRetries

CountInv == \A i \in Id : Counted(transfers[i], attempts) /\ Counted(saved.transfers[i], attempts)

(* A task of the attempt under way, registered or not, is where the file   *)
(* ends; only a task with less than the whole file holds another buffer.   *)
PartInv ==
  \A w \in Writer :
    /\ Running(w) /\ FileAttempt(w) => wr[w].at = part[wr[w].id]
    /\ wr[w].at <= Size
    /\ wr[w].stage = "Holding" => wr[w].at < Size
    /\ wr[w].stage = "Full" => wr[w].at = Size

(* The store never says that a file is complete before it is.              *)
WholeInv ==
  /\ FinalFileIsWhole
  /\ \A i \in Id : saved.transfers[i].status = "Completed" => final[i] = "whole"

FilesInv == LaneInv /\ QueueInv /\ CountInv /\ PartInv /\ WholeInv /\ IsFiniteSet(ActiveIds)

-----------------------------------------------------------------------------
(* What the steps leave alone.                                             *)

LEMMA SavedFrame == [Next]_vars => UNCHANGED saved \/ SaveStore
BY DEF Next, vars, saveVars, UserStep, SourceStep, ShutdownStep, TaskStep,
       EnqueueRelease, BeginUserOp, PauseTransfers, CancelTransfers, SwitchSource, SwitchFails,
       ResumeTransfers, RetryReleaseIssues, Resume, ReorderRelease, ClearCompleted,
       SetMaxConcurrentDownloads, ClaimPeer, RequestTimeout, PeerConnectionFails, UploadFailed,
       UploadDenied, SourceReport, TransferRequest, FileConnection, AutoRelay, RegisterTask, ReadBuffer,
       WriteBuffer, StopWriting, FinishWriting, ConnectionBreaks, WriteFails, Step, Complete,
       ReportOutcome, UnregisterTask, BeginConnectionLost, ConnectionLost, BeginRestartPreparation,
       AbortForRestart, PrepareTransfersForRestart, FinishRestartPreparation,
       CancelRestartPreparation, Crash, CheckSafety, ActivateNext, PartialCleanup, FileAppears

LEMMA AttemptsFrame == [Next]_vars => UNCHANGED attempts \/ ActivateNext
BY DEF Next, vars, peerVars, UserStep, SourceStep, ShutdownStep, TaskStep,
       EnqueueRelease, BeginUserOp, PauseTransfers, CancelTransfers, SwitchSource, SwitchFails,
       ResumeTransfers, RetryReleaseIssues, Resume, ReorderRelease, ClearCompleted,
       SetMaxConcurrentDownloads, ClaimPeer, RequestTimeout, PeerConnectionFails, UploadFailed,
       UploadDenied, SourceReport, TransferRequest, FileConnection, AutoRelay, RegisterTask, ReadBuffer,
       WriteBuffer, StopWriting, FinishWriting, ConnectionBreaks, WriteFails, Step, Complete,
       ReportOutcome, UnregisterTask, BeginConnectionLost, ConnectionLost, BeginRestartPreparation,
       AbortForRestart, PrepareTransfersForRestart, FinishRestartPreparation,
       CancelRestartPreparation, Crash, SaveStore, CheckSafety, PartialCleanup, FileAppears

LEMMA FinalFrame ==
  [Next]_vars => UNCHANGED final \/ (\E w \in Writer : Finishes(w)) \/ (\E i \in Id : FileAppears(i))
BY DEF Next, vars, diskVars, UserStep, SourceStep, ShutdownStep, TaskStep,
       EnqueueRelease, BeginUserOp, PauseTransfers, CancelTransfers, SwitchSource, SwitchFails,
       ResumeTransfers, RetryReleaseIssues, Resume, ReorderRelease, ClearCompleted,
       SetMaxConcurrentDownloads, ClaimPeer, RequestTimeout, PeerConnectionFails, UploadFailed,
       UploadDenied, SourceReport, TransferRequest, FileConnection, AutoRelay, RegisterTask, ReadBuffer,
       WriteBuffer, StopWriting, FinishWriting, ConnectionBreaks, WriteFails, Step, Complete, Finishes,
       ReportOutcome, UnregisterTask, BeginConnectionLost, ConnectionLost, BeginRestartPreparation,
       AbortForRestart, PrepareTransfersForRestart, FinishRestartPreparation,
       CancelRestartPreparation, Crash, SaveStore, CheckSafety, ActivateNext, PartialCleanup

LEMMA QueueFrame ==
  [Next]_vars => \/ UNCHANGED queue \/ Crash \/ CancelTransfers \/ ClearCompleted
                 \/ \E r \in Release : ReorderRelease(r) \/ \E u \in User : EnqueueRelease(r, u)
BY DEF Next, vars, queueVars, UserStep, SourceStep, ShutdownStep, TaskStep, Fail, Retry, RequeueActive,
       BeginUserOp, PauseTransfers, SwitchSource, SwitchFails,
       ResumeTransfers, RetryReleaseIssues, Resume,
       SetMaxConcurrentDownloads, ClaimPeer, RequestTimeout, PeerConnectionFails, UploadFailed,
       UploadDenied, SourceReport, TransferRequest, FileConnection, AutoRelay, RegisterTask, ReadBuffer,
       WriteBuffer, StopWriting, FinishWriting, ConnectionBreaks, WriteFails, Step, Complete,
       ReportOutcome, UnregisterTask, BeginConnectionLost, ConnectionLost, BeginRestartPreparation,
       AbortForRestart, PrepareTransfersForRestart, FinishRestartPreparation,
       CancelRestartPreparation, SaveStore, CheckSafety, ActivateNext, PartialCleanup, FileAppears

-----------------------------------------------------------------------------
(* The fields of the transfers that the special steps change.              *)

LEMMA FinishedFields ==
  ASSUME TypeInv, NEW w \in Writer, Finishes(w)
  PROVE  LET i == wr[w].id IN
         /\ i \in Id /\ transfers[i].status = "Downloading" /\ transfers[i].token = wr[w].token
         /\ transfers'[i].status = "Completed" /\ transfers'[i].retries = 0
         /\ \A j \in Id \ {i} : transfers'[j] = transfers[j]
         /\ final[i] = "none" /\ final'[i] = (IF part[i] = Size THEN "whole" ELSE "damaged")
         /\ \A j \in Id \ {i} : final'[j] = final[j]
<1> DEFINE i == wr[w].id
<1>1. i \in Id /\ transfers[i].status = "Downloading" /\ transfers[i].token = wr[w].token
  BY DEF Finishes, FileAttempt, FileTask, TypeInv, TypeOK
<1>2. transfers' = [transfers EXCEPT ![i] = Finished(@)]
      /\ final' = [final EXCEPT ![i] = IF part[i] = Size THEN "whole" ELSE "damaged"]
  BY DEF Finishes, Complete
<1>3. transfers \in [Id -> Transfer] /\ DOMAIN final = Id BY DEF TypeInv, TypeOK
<1>4. Finished(transfers[i]).status = "Completed" /\ Finished(transfers[i]).retries = 0
  BY <1>1, <1>3 DEF Finished, Reset, Transfer
<1>5. final[i] = "none" BY DEF Finishes, FinalPathFree
<1> QED BY <1>1, <1>2, <1>3, <1>4, <1>5

LEMMA EnqueuedFields ==
  ASSUME TypeInv, NEW r \in Release, NEW u \in User, EnqueueRelease(r, u)
  PROVE  \A i \in Id : IF i \in Files(r)
                       THEN /\ transfers[i].status = "Absent" /\ final[i] = "none"
                            /\ transfers'[i].status = "Queued" /\ transfers'[i].retries = 0
                       ELSE transfers'[i] = transfers[i]
<1>1. [Blank("Queued") EXCEPT !.user = u].status = "Queued"
      /\ [Blank("Queued") EXCEPT !.user = u].retries = 0
  BY DEF Blank
<1> QED BY <1>1 DEF EnqueueRelease

LEMMA RemovedFields ==
  ASSUME CancelTransfers \/ ClearCompleted
  PROVE  \E S : /\ queue' \in InOrder(Id \ S)
                /\ \A i \in Id : IF i \in S /\ Queued(i)
                                 THEN transfers'[i].status = "Removed" /\ transfers'[i].retries = 0
                                 ELSE transfers'[i] = transfers[i]
<1>1. Blank("Removed").status = "Removed" /\ Blank("Removed").retries = 0 BY DEF Blank
<1>2. ASSUME NEW S, Remove(S)
      PROVE  /\ queue' \in InOrder(Id \ S)
             /\ \A i \in Id : IF i \in S /\ Queued(i)
                              THEN transfers'[i].status = "Removed" /\ transfers'[i].retries = 0
                              ELSE transfers'[i] = transfers[i]
  BY <1>1, <1>2 DEF Remove
<1>3. PICK S : Remove(S) BY DEF CancelTransfers, ClearCompleted
<1> QED BY <1>2, <1>3

LEMMA CrashFields ==
  ASSUME TypeInv, Crash, NEW i \in Id
  PROVE  LET t == saved.transfers[i] IN
         /\ transfers'[i].retries = t.retries
         /\ transfers'[i].status =
              IF t.status \notin OffQueue /\ final[i] = "whole" THEN "Completed"
              ELSE IF t.status \in Active THEN "Queued" ELSE t.status
<1>1. saved.transfers[i] \in Transfer BY DEF TypeInv, SavedOK
<1>2. transfers'[i] = Reconciled(i, saved.transfers[i]) BY DEF Crash
<1> QED BY <1>1, <1>2 DEF Reconciled, Transfer

LEMMA SavedFields ==
  ASSUME TypeInv, SaveStore, NEW i \in Id
  PROVE  /\ saved'.transfers[i].retries = transfers[i].retries
         /\ saved'.transfers[i].status = transfers[i].status
<1>1. transfers[i] \in Transfer BY DEF TypeInv, TypeOK
<1>2. saved'.transfers[i] = Stored(transfers[i]) BY DEF SaveStore
<1> QED BY <1>1, <1>2 DEF Stored, Transfer

-----------------------------------------------------------------------------
(* The retries.                                                            *)

LEMMA MoveCounted ==
  ASSUME NEW t \in Transfer, NEW u, Move(t, u), NEW n \in Nat, Counted(t, n)
  PROVE  Counted(u, n)
<1>1. t.retries \in Nat BY BoundAssumption DEF Transfer, Retries
<1>2. CASE t.status \in Active /\ u = Retried(t)
  BY <1>1, <1>2, BoundAssumption DEF Counted, Retried, Transfer, Active
<1>3. CASE u.status \in Interrupted /\ u.retries \in {0, t.retries}
  BY <1>1, <1>3 DEF Counted, Interrupted, Active
<1>4. CASE t.status \in Active /\ u.status \in Active /\ u.retries = t.retries
  BY <1>4 DEF Counted, Active
<1> QED BY <1>2, <1>3, <1>4 DEF Move

LEMMA CountedLater ==
  ASSUME NEW t \in Transfer, NEW m \in Nat, NEW n \in Nat, m <= n, Counted(t, m)
  PROVE  Counted(t, n)
<1>1. t.retries \in Nat BY BoundAssumption DEF Transfer, Retries
<1> QED BY <1>1 DEF Counted

LEMMA CountedSame ==
  ASSUME NEW t, NEW u, NEW n, Counted(t, n), u.retries = t.retries, u.status = t.status
  PROVE  Counted(u, n)
BY DEF Counted

LEMMA StepCount ==
  ASSUME TypeInv, TypeInv', CountInv, [Next]_vars
  PROVE  CountInv'
<1>0. /\ \A i \in Id : transfers[i] \in Transfer /\ saved.transfers[i] \in Transfer
      /\ attempts \in Nat /\ attempts' \in Nat
  BY BoundAssumption DEF TypeInv, TypeOK, TransfersOK, SavedOK
<1>1. attempts <= attempts'
  <2>1. CASE ActivateNext
    <3>1. attempts' = attempts + 1 \/ attempts' = attempts BY <2>1 DEF ActivateNext
    <3> QED BY <1>0, <3>1
  <2> QED BY <1>0, <2>1, AttemptsFrame
<1>2. \A i \in Id : Counted(transfers[i], attempts') /\ Counted(saved.transfers[i], attempts')
  BY <1>0, <1>1, CountedLater DEF CountInv
<1>3. ASSUME NEW i \in Id PROVE Counted(saved'.transfers[i], attempts')
  <2>1. CASE UNCHANGED saved BY <1>2, <2>1
  <2>2. CASE SaveStore BY <1>2, <2>2, SavedFields, CountedSame
  <2> QED BY <2>1, <2>2, SavedFrame
<1>4. ASSUME NEW i \in Id PROVE Counted(transfers'[i], attempts')
  <2>1. CASE Moves BY <1>0, <1>2, <2>1, MoveCounted DEF Moves
  <2>2. ASSUME NEW j \in Id, Starts(j) PROVE Counted(transfers'[i], attempts')
    <3>1. CASE i = j
      <4>1. transfers[j].retries \in Nat /\ transfers[j].retries <= attempts
        BY <1>0, BoundAssumption DEF Transfer, Retries, CountInv, Counted
      <4> QED BY <1>0, <2>2, <3>1, <4>1 DEF Starts, Counted
    <3>2. CASE i # j BY <1>2, <2>2, <3>2 DEF Starts
    <3> QED BY <3>1, <3>2
  <2>3. ASSUME transfers'[i].retries = 0, transfers'[i].status \in {"Completed", "Queued", "Removed"}
        PROVE  Counted(transfers'[i], attempts')
    BY <1>0, <2>3 DEF Counted, Active
  <2>4. ASSUME NEW w \in Writer, Finishes(w) PROVE Counted(transfers'[i], attempts')
    BY <1>2, <2>3, <2>4, FinishedFields
  <2>5. ASSUME NEW r \in Release, NEW u \in User, EnqueueRelease(r, u)
        PROVE  Counted(transfers'[i], attempts')
    BY <1>2, <2>3, <2>5, EnqueuedFields
  <2>6. CASE CancelTransfers \/ ClearCompleted
    BY <1>2, <2>3, <2>6, RemovedFields
  <2>7. CASE Crash
    <3>1. Counted(saved.transfers[i], attempts') BY <1>2
    <3>2. saved.transfers[i].retries \in Nat BY <1>0, BoundAssumption DEF Transfer, Retries
    <3> QED BY <2>7, <3>1, <3>2, CrashFields DEF Counted, Active
  <2> QED BY <2>1, <2>2, <2>4, <2>5, <2>6, <2>7, StepMoves
<1> QED BY <1>3, <1>4 DEF CountInv

-----------------------------------------------------------------------------
(* The lanes.                                                              *)

LEMMA MovesLanes == ASSUME Moves PROVE ActiveIds' \subseteq ActiveIds
<1>1. ASSUME NEW i \in Id, IsActive(i)' PROVE IsActive(i)
  <2>1. Move(transfers[i], transfers'[i]) BY DEF Moves
  <2>2. CASE transfers'[i].status \in Interrupted BY <1>1, <2>2 DEF IsActive, Active, Interrupted
  <2> QED BY <1>1, <2>1, <2>2 DEF Move, IsActive
<1> QED BY <1>1 DEF ActiveIds

LEMMA StepActive ==
  ASSUME TypeInv, [Next]_vars
  PROVE  ActiveIds' \subseteq ActiveIds \/ \E i \in Id : Starts(i) /\ ActiveIds' = ActiveIds \cup {i}
<1>1. CASE Moves BY <1>1, MovesLanes
<1>2. ASSUME NEW i \in Id, Starts(i) PROVE ActiveIds' = ActiveIds \cup {i}
  BY <1>2 DEF Starts, ActiveIds, IsActive, Active
<1>3. ASSUME NEW w \in Writer, Finishes(w) PROVE ActiveIds' \subseteq ActiveIds
  BY <1>3, FinishedFields DEF ActiveIds, IsActive, Active
<1>4. ASSUME NEW r \in Release, NEW u \in User, EnqueueRelease(r, u) PROVE ActiveIds' \subseteq ActiveIds
  BY <1>4, EnqueuedFields DEF ActiveIds, IsActive, Active
<1>5. CASE CancelTransfers \/ ClearCompleted
  BY <1>5, RemovedFields DEF ActiveIds, IsActive, Active
<1>6. CASE Crash
  <2>1. \A i \in Id : ~IsActive(i)' BY <1>6, CrashFields DEF IsActive, Active
  <2> QED BY <2>1 DEF ActiveIds
<1> QED BY <1>1, <1>2, <1>3, <1>4, <1>5, <1>6, StepMoves

LEMMA StepLaneCount ==
  ASSUME TypeInv, IsFiniteSet(ActiveIds), [Next]_vars
  PROVE  /\ IsFiniteSet(ActiveIds')
         /\ ActiveIds' \subseteq ActiveIds \/ Cardinality(ActiveIds') <= lanes
<1>1. CASE ActiveIds' \subseteq ActiveIds BY <1>1, FS_Subset
<1>2. ASSUME NEW i \in Id, Starts(i), ActiveIds' = ActiveIds \cup {i}
      PROVE  IsFiniteSet(ActiveIds') /\ Cardinality(ActiveIds') <= lanes
  <2>1. Cardinality(ActiveIds) < lanes BY <1>2 DEF Starts, LaneFree
  <2>2. lanes \in Nat BY LaneAssumption DEF TypeInv, TypeOK
  <2>3. /\ IsFiniteSet(ActiveIds \cup {i}) /\ Cardinality(ActiveIds) \in Nat
        /\ Cardinality(ActiveIds \cup {i}) \in {Cardinality(ActiveIds), Cardinality(ActiveIds) + 1}
    BY FS_AddElement, FS_CardinalityType
  <2> QED BY <1>2, <2>1, <2>2, <2>3
<1> QED BY <1>1, <1>2, StepActive

-----------------------------------------------------------------------------
(* The files.                                                              *)

LEMMA MoveCompleted ==
  ASSUME NEW t \in Transfer, NEW u, Move(t, u)
  PROVE  /\ t.status \in OffQueue <=> u.status \in OffQueue
         /\ t.status = "Completed" <=> u.status = "Completed"
<1>1. CASE t.status \in Active /\ u = Retried(t)
  BY <1>1 DEF Retried, Transfer, Active, OffQueue
<1> QED BY <1>1 DEF Move, Active, OffQueue, Interrupted

LEMMA StepWhole ==
  ASSUME TypeInv, PartInv, WholeInv, [Next]_vars
  PROVE  WholeInv'
<1>0. \A i \in Id : transfers[i] \in Transfer BY DEF TypeInv, TypeOK
<1>1. ASSUME NEW w \in Writer, Finishes(w) PROVE part[wr[w].id] = Size
  BY <1>1 DEF Finishes, Complete, PartInv, Running
<1>2. ASSUME NEW i \in Id
      PROVE  /\ final'[i] # "damaged"
             /\ final[i] = "whole" => final'[i] = "whole"
             /\ final'[i] = "whole" => final[i] = "whole" \/ \E w \in Writer : Finishes(w) /\ wr[w].id = i
  <2>1. final[i] # "damaged" BY DEF WholeInv, FinalFileIsWhole
  <2>2. CASE UNCHANGED final BY <2>1, <2>2
  <2>3. ASSUME NEW w \in Writer, Finishes(w)
        PROVE  /\ final'[i] # "damaged" /\ (final[i] = "whole" => final'[i] = "whole")
               /\ final'[i] = "whole" => final[i] = "whole" \/ wr[w].id = i
    BY <1>1, <2>1, <2>3, FinishedFields
  <2>4. ASSUME NEW j \in Id, FileAppears(j)
        PROVE  /\ final'[i] # "damaged" /\ (final[i] = "whole" <=> final'[i] = "whole")
    BY <2>1, <2>4 DEF FileAppears, TypeInv, TypeOK
  <2> QED BY <2>2, <2>3, <2>4, FinalFrame
<1>3. ASSUME NEW i \in Id, saved'.transfers[i].status = "Completed" PROVE final'[i] = "whole"
  <2>1. CASE UNCHANGED saved BY <1>2, <1>3, <2>1 DEF WholeInv
  <2>2. CASE SaveStore
    BY <1>2, <1>3, <2>2, SavedFields DEF WholeInv, FinalFileIsWhole, Queued, OffQueue
  <2> QED BY <2>1, <2>2, SavedFrame
<1>4. ASSUME NEW i \in Id, Queued(i)' PROVE final'[i] = "whole" <=> transfers'[i].status = "Completed"
  <2>1. ASSUME Queued(i), transfers[i].status = "Completed" <=> transfers'[i].status = "Completed",
               \A w \in Writer : Finishes(w) => wr[w].id # i
        PROVE  final'[i] = "whole" <=> transfers'[i].status = "Completed"
    BY <1>2, <2>1 DEF WholeInv, FinalFileIsWhole
  <2>2. ASSUME NEW w \in Writer, Finishes(w), wr[w].id = i
        PROVE  final'[i] = "whole" /\ transfers'[i].status = "Completed"
    BY <1>1, <2>2, FinishedFields
  <2>3. CASE \A w \in Writer : Finishes(w) => wr[w].id # i
    <3>1. CASE Moves BY <1>0, <1>4, <2>1, <2>3, <3>1, MoveCompleted DEF Moves, Queued
    <3>2. ASSUME NEW j \in Id, Starts(j) PROVE final'[i] = "whole" <=> transfers'[i].status = "Completed"
      BY <1>4, <2>1, <2>3, <3>2 DEF Starts, Queued, OffQueue
    <3>3. ASSUME NEW w \in Writer, Finishes(w)
          PROVE  final'[i] = "whole" <=> transfers'[i].status = "Completed"
      BY <1>4, <2>1, <2>3, <3>3, FinishedFields DEF Queued
    <3>4. ASSUME NEW r \in Release, NEW u \in User, EnqueueRelease(r, u)
          PROVE  final'[i] = "whole" <=> transfers'[i].status = "Completed"
      BY <1>2, <1>4, <2>1, <2>3, <3>4, EnqueuedFields DEF Queued
    <3>5. CASE CancelTransfers \/ ClearCompleted
      BY <1>4, <2>1, <2>3, <3>5, RemovedFields DEF Queued, OffQueue
    <3>6. CASE Crash
      <4>1. final'[i] = "whole" <=> final[i] = "whole" BY <1>2, <2>3
      <4>2. saved.transfers[i].status = "Completed" => final[i] = "whole" BY DEF WholeInv
      <4> DEFINE t == saved.transfers[i].status
      <4>3. transfers'[i].status = IF t \notin OffQueue /\ final[i] = "whole" THEN "Completed"
                                   ELSE IF t \in Active THEN "Queued" ELSE t
        BY <3>6, CrashFields
      <4>4. transfers'[i].status \notin OffQueue BY <1>4 DEF Queued
      <4> HIDE DEF t
      <4>5. t \notin OffQueue BY <4>3, <4>4 DEF Active, OffQueue
      <4>6. t = "Completed" => final[i] = "whole" BY <4>2 DEF t
      <4> QED BY <4>1, <4>3, <4>5, <4>6
    <3> QED BY <3>1, <3>2, <3>3, <3>4, <3>5, <3>6, StepMoves
  <2> QED BY <2>2, <2>3
<1> QED BY <1>2, <1>3, <1>4 DEF WholeInv, FinalFileIsWhole

(* The writers keep their places in their files.                           *)
SameFiles ==
  \A w \in Writer : /\ wr'[w].id = wr[w].id /\ wr'[w].token = wr[w].token
                    /\ wr'[w].at = wr[w].at /\ wr'[w].stage = wr[w].stage

LEMMA CancelledFiles ==
  ASSUME wr \in [Writer -> FileTask], NEW S, wr' = Cancelled(S)
  PROVE  SameFiles
BY DEF SameFiles, Cancelled, FileTask

LEMMA CalmAttempt ==
  ASSUME Calm, SameFiles, wr \in [Writer -> FileTask], NEW w \in Writer, FileAttempt(w)'
  PROVE  FileAttempt(w) /\ transfers'[wr[w].id].status = "Downloading"
<1>1. wr[w].id \in Id /\ wr'[w].id = wr[w].id /\ wr'[w].token = wr[w].token
  BY DEF FileAttempt, FileTask, SameFiles
<1>2. Leaves(transfers[wr[w].id], transfers'[wr[w].id]) \/ Stays(transfers[wr[w].id], transfers'[wr[w].id])
  BY <1>1 DEF Calm
<1> QED BY <1>1, <1>2 DEF FileAttempt, Leaves, Stays, Active

LEMMA SettledParts ==
  ASSUME TypeInv, PartInv, SameFiles,
         \A w \in Writer : FileAttempt(w)' => FileAttempt(w) /\ part'[wr[w].id] = part[wr[w].id]
  PROVE  PartInv'
<1>1. ASSUME NEW w \in Writer, Running(w)', FileAttempt(w)' PROVE wr'[w].at = part'[wr'[w].id]
  BY <1>1 DEF PartInv, SameFiles, Running
<1> QED BY <1>1 DEF PartInv, SameFiles

LEMMA CalmParts ==
  ASSUME TypeInv, PartInv, Calm, SameFiles,
         \A i \in Id : transfers'[i].status = "Downloading" => part'[i] = part[i]
  PROVE  PartInv'
<1>1. wr \in [Writer -> FileTask] BY DEF TypeInv, TypeOK
<1>2. ASSUME NEW w \in Writer, FileAttempt(w)'
      PROVE  FileAttempt(w) /\ part'[wr[w].id] = part[wr[w].id]
  <2>1. FileAttempt(w) /\ transfers'[wr[w].id].status = "Downloading" BY <1>1, <1>2, CalmAttempt
  <2>2. wr[w].id \in Id BY <1>1, <2>1 DEF FileAttempt, FileTask
  <2> QED BY <2>1, <2>2
<1> QED BY <1>2, SettledParts

LEMMA UnchangedFiles == ASSUME UNCHANGED wr PROVE SameFiles
BY DEF SameFiles

LEMMA UserParts ==
  ASSUME TypeInv, PartInv, UserStep
  PROVE  PartInv'
<1>1. Calm BY UserCalm DEF Peaceful
<1>2. wr \in [Writer -> FileTask] BY DEF TypeInv, TypeOK
<1>3. SameFiles
  BY <1>2, UnchangedFiles, CancelledFiles
  DEF UserStep, EnqueueRelease, BeginUserOp, PauseTransfers, CancelTransfers, SwitchSource, SwitchFails,
      ResumeTransfers, RetryReleaseIssues, Resume, ReorderRelease, ClearCompleted,
      SetMaxConcurrentDownloads, taskVars
<1>4. ASSUME NEW i \in Id, transfers'[i].status = "Downloading" PROVE part'[i] = part[i]
  <2>1. CASE UNCHANGED part BY <2>1
  <2>2. ASSUME NEW v, NEW exact, SwitchSource(v, exact) PROVE part'[i] = part[i]
    <3>1. ASSUME i \in userOp.ids, Queued(i), transfers[i].status # "Completed"
          PROVE  transfers'[i].status = "Queued"
      <4>1. transfers'[i] = [Renewed(transfers[i]) EXCEPT !.user = v]
        BY <2>2, <3>1 DEF SwitchSource
      <4>2. transfers[i] \in Transfer BY DEF TypeInv, TypeOK
      <4> QED BY <4>1, <4>2 DEF Renewed, Requeued, Reset, Transfer
    <3> QED BY <1>4, <2>2, <3>1 DEF SwitchSource
  <2> QED
    BY <2>1, <2>2
    DEF UserStep, EnqueueRelease, BeginUserOp, PauseTransfers, CancelTransfers, SwitchFails,
        ResumeTransfers, RetryReleaseIssues, Resume, ReorderRelease, ClearCompleted,
        SetMaxConcurrentDownloads, diskVars
<1> QED BY <1>1, <1>3, <1>4, CalmParts

(* A file connection begins where the file ends, under a token that no     *)
(* other task has.                                                         *)
LEMMA SourceParts ==
  ASSUME TypeInv, WriterInv, PartInv, SourceStep
  PROVE  PartInv'
<1>1. wr \in [Writer -> FileTask] /\ transfers \in [Id -> Transfer] /\ part \in [Id -> Nat]
  BY DEF TypeInv, TypeOK
<1>2. UNCHANGED part
  BY DEF SourceStep, ClaimPeer, RequestTimeout, PeerConnectionFails, UploadFailed, UploadDenied,
         SourceReport, TransferRequest, FileConnection, AutoRelay, diskVars
<1>3. ASSUME NEW i \in Id, NEW b \in BOOLEAN, Fail(i, b) \/ Retry(i) PROVE PartInv'
  <2>1. Calm BY <1>3, FailCalm
  <2>2. SameFiles BY <1>1, <1>3, CancelledFiles DEF Fail, Retry
  <2> QED BY <1>2, <2>1, <2>2, CalmParts
<1>4. CASE \/ \E c \in 1 .. MaxAttempts : \/ ClaimPeer(c) \/ RequestTimeout(c) \/ PeerConnectionFails(c)
                                         \/ UploadFailed(c) \/ UploadDenied(c)
           \/ \E r \in Release, v \in User : AutoRelay(r, v)
  <2>1. Calm BY <1>4, SourceCalm DEF Peaceful
  <2>2. SameFiles
    BY <1>1, <1>4, UnchangedFiles, CancelledFiles
    DEF ClaimPeer, RequestTimeout, PeerConnectionFails, UploadFailed, UploadDenied, SourceReport,
        AutoRelay, Fail, Retry, taskVars
  <2> QED BY <1>2, <2>1, <2>2, CalmParts
<1>5. ASSUME NEW i \in Id, NEW b \in BOOLEAN, TransferRequest(i, b) PROVE PartInv'
  <2>1. CASE /\ transfers' = [transfers EXCEPT ![i].status = "Connecting", ![i].token = minted + 1]
             /\ UNCHANGED taskVars
    <3>1. transfers'[i].status = "Connecting" /\ \A j \in Id \ {i} : transfers'[j] = transfers[j]
      BY <1>1, <2>1 DEF Transfer
    <3>2. \A w \in Writer : FileAttempt(w)' => FileAttempt(w)
      BY <1>1, <2>1, <3>1 DEF FileAttempt, FileTask, taskVars
    <3> QED BY <1>2, <2>1, <3>2, UnchangedFiles, SettledParts DEF taskVars
  <2> QED BY <1>3, <1>5, <2>1 DEF TransferRequest
<1>6. ASSUME NEW t, NEW i \in Id, NEW w \in Writer, transfers[i].status = "Connecting",
             transfers[i].token = t, Offset(i) <= Size, wr[w].stage = "Idle",
             transfers' = [transfers EXCEPT ![i].status = "Downloading", ![i].waiting = FALSE],
             wr' = [wr EXCEPT ![w] = [stage |-> "Begun", id |-> i, token |-> t,
                                      at |-> Offset(i), cancelled |-> FALSE]]
      PROVE  PartInv'
  <2>1. /\ transfers'[i].token = t /\ \A j \in Id \ {i} : transfers'[j] = transfers[j]
        /\ \A v \in Writer \ {w} : wr'[v] = wr[v]
        /\ wr'[w].stage = "Begun" /\ wr'[w].id = i /\ wr'[w].at = part[i]
    BY <1>1, <1>6 DEF Transfer, Offset
  <2>2. ASSUME NEW v \in Writer \ {w}, Running(v)', FileAttempt(v)' PROVE wr'[v].at = part'[wr'[v].id]
    <3>1. Running(v) /\ wr[v].token # t BY <1>6, <2>1, <2>2 DEF Running, WriterInv
    <3>2. wr[v].id \in Id BY <1>1, <2>1, <2>2 DEF FileAttempt, FileTask
    <3>3. FileAttempt(v) BY <2>1, <2>2, <3>1, <3>2 DEF FileAttempt
    <3> QED BY <1>2, <2>1, <3>1, <3>3 DEF PartInv
  <2>3. part[i] <= Size BY <1>6 DEF Offset
  <2> QED BY <1>2, <2>1, <2>2, <2>3 DEF PartInv
<1>7. ASSUME NEW t, FileConnection(t) PROVE PartInv'
  <2> DEFINE waiting == {i \in Id : transfers[i].status = "Connecting" /\ transfers[i].token = t}
  <2>1. CASE \E i \in Id, b \in BOOLEAN : Fail(i, b) BY <1>3, <2>1
  <2>2. ASSUME NEW i \in Id, NEW w \in Writer,
               IsFirst(i, waiting), Offset(i) <= Size, wr[w].stage = "Idle",
               transfers' = [transfers EXCEPT ![i].status = "Downloading", ![i].waiting = FALSE],
               wr' = [wr EXCEPT ![w] = [stage |-> "Begun", id |-> i, token |-> t,
                                        at |-> Offset(i), cancelled |-> FALSE]]
        PROVE  PartInv'
    <3>1. i \in waiting BY <2>2 DEF IsFirst
    <3> QED BY <1>6, <2>2, <3>1
  <2> QED BY <1>7, <2>1, <2>2 DEF FileConnection
<1> QED BY <1>4, <1>5, <1>7 DEF SourceStep

(* A task that goes on, at the same place of the same file.                *)
LEMMA StageParts ==
  ASSUME TypeInv, PartInv, NEW w \in Writer, UNCHANGED <<transfers, part>>, Running(w),
         NEW to \in Stage, to = "Holding" => wr[w].at < Size, to = "Full" => wr[w].at = Size,
         wr' = [wr EXCEPT ![w].stage = to]
  PROVE  PartInv'
<1>1. wr \in [Writer -> FileTask] BY DEF TypeInv, TypeOK
<1>2. /\ wr'[w].id = wr[w].id /\ wr'[w].token = wr[w].token /\ wr'[w].at = wr[w].at /\ wr'[w].stage = to
      /\ \A v \in Writer \ {w} : wr'[v] = wr[v]
  BY <1>1 DEF FileTask
<1>3. \A v \in Writer : FileAttempt(v)' = FileAttempt(v) BY <1>2 DEF FileAttempt
<1>4. \A v \in Writer : Running(v)' => Running(v) BY <1>2 DEF Running
<1> QED BY <1>2, <1>3, <1>4 DEF PartInv

LEMMA IdleParts ==
  ASSUME TypeInv, PartInv, NEW w \in Writer, UNCHANGED <<transfers, part>>, wr' = [wr EXCEPT ![w] = IdleTask]
  PROVE  PartInv'
<1>1. wr \in [Writer -> FileTask] BY DEF TypeInv, TypeOK
<1>2. wr'[w].stage = "Idle" /\ wr'[w].at = 0 /\ \A v \in Writer \ {w} : wr'[v] = wr[v]
  BY <1>1 DEF IdleTask
<1>3. \A v \in Writer \ {w} : FileAttempt(v)' = FileAttempt(v) /\ Running(v)' = Running(v)
  BY <1>2 DEF FileAttempt, Running
<1>4. 0 <= Size BY SizeAssumption
<1> QED BY <1>2, <1>3, <1>4 DEF PartInv, Running

LEMMA WriteParts ==
  ASSUME TypeInv, WriterInv, PartInv, NEW w \in Writer, WriteBuffer(w)
  PROVE  PartInv'
<1> DEFINE i == wr[w].id
<1>1. wr \in [Writer -> FileTask] /\ part \in [Id -> Nat] BY DEF TypeInv, TypeOK
<1>2. Writing(w) /\ i \in Id /\ tasks[i] = w BY DEF WriteBuffer, Writing, Stage, WriterInv
<1>3. /\ wr'[w].id = i /\ wr'[w].token = wr[w].token /\ wr'[w].at = wr[w].at + 1
      /\ wr'[w].stage = "Writing" /\ \A v \in Writer \ {w} : wr'[v] = wr[v]
  BY <1>1 DEF WriteBuffer, FileTask
<1>4. part'[i] = part[i] + 1 /\ \A j \in Id \ {i} : part'[j] = part[j]
  BY <1>1, <1>2 DEF WriteBuffer
<1>5. \A v \in Writer : FileAttempt(v)' = FileAttempt(v)
  <2>1. transfers' = transfers BY DEF WriteBuffer, queueVars
  <2>2. \A v \in Writer : wr'[v].id = wr[v].id /\ wr'[v].token = wr[v].token BY <1>3
  <2> QED BY <2>1, <2>2 DEF FileAttempt
<1>6. \A v \in Writer : Running(v)' = Running(v) BY <1>3 DEF Running, WriteBuffer
<1>7. wr[w].at < Size /\ wr[w].at \in Nat /\ Size \in Nat
  BY <1>1, SizeAssumption DEF WriteBuffer, PartInv, FileTask
<1>8. ASSUME NEW v \in Writer \ {w}, Running(v), FileAttempt(v) PROVE wr[v].id \in Id \ {i}
  <2>1. wr[v].id \in Id /\ transfers[wr[v].id].status = "Downloading"
        /\ transfers[wr[v].id].token = wr[v].token
    BY <1>1, <1>8 DEF FileAttempt, FileTask
  <2>2. ASSUME wr[v].id = i PROVE FALSE
    <3>1. wr[v].token = wr[w].token
      BY <1>2, <2>1, <2>2, NoneAssumption DEF WriterInv, IsActive, Active
    <3> QED BY <1>2, <1>8, <3>1 DEF WriterInv, Running, Writing
  <2> QED BY <2>1, <2>2
<1>9. ASSUME NEW v \in Writer, Running(v)', FileAttempt(v)' PROVE wr'[v].at = part'[wr'[v].id]
  <2>1. Running(v) /\ FileAttempt(v) BY <1>5, <1>6, <1>9
  <2>2. wr[v].at = part[wr[v].id] BY <2>1 DEF PartInv
  <2>3. CASE v = w BY <1>3, <1>4, <2>2, <2>3
  <2>4. CASE v # w BY <1>3, <1>4, <1>8, <2>1, <2>2, <2>4
  <2> QED BY <2>3, <2>4
<1>10. wr'[w].at <= Size BY <1>3, <1>7
<1> QED BY <1>3, <1>9, <1>10 DEF PartInv

(* A step that takes transfer i out of Downloading concerns no other task. *)
LEMMA DoneParts ==
  ASSUME TypeInv, PartInv, NEW w \in Writer, NEW i \in Id,
         transfers'[i].status # "Downloading",
         \A j \in Id \ {i} : transfers'[j] = transfers[j] /\ part'[j] = part[j],
         \A v \in Writer : wr'[v].id = wr[v].id /\ wr'[v].token = wr[v].token /\ wr'[v].at = wr[v].at,
         \A v \in Writer \ {w} : wr'[v].stage = wr[v].stage,
         Running(w), wr'[w].stage \notin {"Holding", "Full"}
  PROVE  PartInv'
<1>1. wr \in [Writer -> FileTask] BY DEF TypeInv, TypeOK
<1>2. ASSUME NEW v \in Writer, FileAttempt(v)', Running(v)' PROVE wr'[v].at = part'[wr'[v].id]
  <2>1. wr[v].id \in Id \ {i} BY <1>1, <1>2 DEF FileAttempt, FileTask
  <2>2. FileAttempt(v) BY <1>2, <2>1 DEF FileAttempt
  <2>3. Running(v) BY <1>2 DEF Running
  <2> QED BY <2>1, <2>2, <2>3 DEF PartInv
<1> QED BY <1>2 DEF PartInv

LEMMA TaskParts ==
  ASSUME TypeInv, WriterInv, PartInv, NEW w \in Writer, TaskStep(w)
  PROVE  PartInv'
<1>1. wr \in [Writer -> FileTask] /\ transfers \in [Id -> Transfer] /\ part \in [Id -> Nat]
  BY DEF TypeInv, TypeOK
<1>2. wr[w].at \in Nat /\ Size \in Nat /\ wr[w].at <= Size
  BY <1>1, SizeAssumption DEF FileTask, PartInv
<1>3. ASSUME NEW from \in Stage \ {"Idle"}, NEW to \in Stage, Step(w, from, to),
             to = "Holding" => wr[w].at < Size, to = "Full" => wr[w].at >= Size
      PROVE  PartInv'
  <2>1. to = "Full" => wr[w].at = Size BY <1>2, <1>3
  <2>2. Running(w) /\ UNCHANGED <<transfers, part>> /\ wr' = [wr EXCEPT ![w].stage = to]
    BY <1>3 DEF Step, queueVars, diskVars, Running
  <2> QED BY <1>3, <2>1, <2>2, StageParts
<1>4. CASE RegisterTask(w)
  BY <1>4, StageParts, IdleParts DEF RegisterTask, queueVars, diskVars, Running, Stage
<1>5. CASE WriteBuffer(w) BY <1>5, WriteParts
<1>6. CASE Complete(w)
  <2>1. CASE Finishes(w)
    <3>1. /\ wr[w].id \in Id /\ transfers'[wr[w].id].status = "Completed"
          /\ \A j \in Id \ {wr[w].id} : transfers'[j] = transfers[j]
      BY <2>1, FinishedFields
    <3>2. \A j \in Id \ {wr[w].id} : part'[j] = part[j] BY <1>1, <2>1 DEF Finishes, Complete
    <3>3. wr' = [wr EXCEPT ![w].stage = "Ended"] BY <2>1 DEF Finishes, Complete
    <3>4. /\ \A v \in Writer : wr'[v].id = wr[v].id /\ wr'[v].token = wr[v].token /\ wr'[v].at = wr[v].at
          /\ \A v \in Writer \ {w} : wr'[v].stage = wr[v].stage
          /\ wr'[w].stage = "Ended"
      BY <1>1, <3>3 DEF FileTask
    <3> QED BY <1>6, <3>1, <3>2, <3>4, DoneParts DEF Complete, Running
  <2>2. CASE ~Finishes(w)
    BY <1>6, <2>2, StageParts DEF Complete, Finishes, diskVars, Running, Stage
  <2> QED BY <2>1, <2>2
<1>7. CASE ReportOutcome(w)
  <2>1. CASE FileAttempt(w)
    <3> DEFINE i == wr[w].id
               c == Cancelled({i})
    <3>1. i \in Id /\ transfers[i].status = "Downloading" BY <1>1, <2>1 DEF FileAttempt, FileTask
    <3>2. PICK o \in {Retried(transfers[i]), Failed(transfers[i], FALSE)} :
            transfers' = [transfers EXCEPT ![i] = o]
      BY <1>7, <2>1 DEF ReportOutcome
    <3>3. o.status \in {"Retrying", "Failed"} BY <1>1, <3>1, <3>2 DEF Retried, Failed, Transfer
    <3>4. transfers'[i].status # "Downloading" /\ \A j \in Id \ {i} : transfers'[j] = transfers[j]
      BY <1>1, <3>1, <3>2, <3>3
    <3>5. /\ c \in [Writer -> FileTask]
          /\ \A v \in Writer : /\ c[v].id = wr[v].id /\ c[v].token = wr[v].token
                               /\ c[v].at = wr[v].at /\ c[v].stage = wr[v].stage
      BY <1>1 DEF Cancelled, FileTask
    <3>6. wr' = [c EXCEPT ![w].stage = "Ended"] /\ UNCHANGED part
      BY <1>7, <2>1 DEF ReportOutcome, diskVars
    <3> HIDE DEF c
    <3>7. /\ wr'[w].id = c[w].id /\ wr'[w].token = c[w].token /\ wr'[w].at = c[w].at
          /\ wr'[w].stage = "Ended" /\ \A v \in Writer \ {w} : wr'[v] = c[v]
      BY <3>5, <3>6 DEF FileTask
    <3>8. Running(w) BY <1>7 DEF ReportOutcome, Running
    <3>9. \A v \in Writer : wr'[v].id = wr[v].id /\ wr'[v].token = wr[v].token /\ wr'[v].at = wr[v].at
      BY <3>5, <3>7
    <3>10. \A v \in Writer \ {w} : wr'[v].stage = wr[v].stage BY <3>5, <3>7
    <3> HIDE DEF i
    <3> QED BY <3>1, <3>4, <3>6, <3>7, <3>8, <3>9, <3>10, DoneParts
  <2>2. CASE ~FileAttempt(w)
    BY <1>7, <2>2, StageParts DEF ReportOutcome, diskVars, Running, Stage
  <2> QED BY <2>1, <2>2
<1>8. CASE UnregisterTask(w)
  BY <1>8, IdleParts DEF UnregisterTask, queueVars, diskVars
<1> QED
  BY <1>3, <1>4, <1>5, <1>6, <1>7, <1>8
  DEF TaskStep, ReadBuffer, StopWriting, FinishWriting, ConnectionBreaks, WriteFails, Stage

LEMMA StepParts ==
  ASSUME TypeInv, WriterInv, PartInv, [Next]_vars
  PROVE  PartInv'
<1>1. wr \in [Writer -> FileTask] /\ part \in [Id -> Nat] BY DEF TypeInv, TypeOK
<1>2. CASE UNCHANGED <<transfers, wr>> /\ \A i \in Id : Queued(i) => part'[i] = part[i]
  <2>1. \A i \in Id : transfers'[i].status = "Downloading" => part'[i] = part[i]
    BY <1>2 DEF Queued, OffQueue
  <2> QED BY <1>2, <2>1, UnchangedCalm, UnchangedFiles, CalmParts
<1>3. CASE ShutdownStep /\ ~Crash
  <2>1. Calm BY <1>3, ShutdownCalm DEF Peaceful
  <2>2. SameFiles
    BY <1>1, <1>3, UnchangedFiles, CancelledFiles
    DEF ShutdownStep, BeginConnectionLost, ConnectionLost, BeginRestartPreparation, AbortForRestart,
        PrepareTransfersForRestart, FinishRestartPreparation, CancelRestartPreparation, SaveStore, taskVars
  <2>3. UNCHANGED part
    BY <1>3
    DEF ShutdownStep, BeginConnectionLost, ConnectionLost, BeginRestartPreparation, AbortForRestart,
        PrepareTransfersForRestart, FinishRestartPreparation, CancelRestartPreparation, SaveStore, diskVars
  <2> QED BY <2>1, <2>2, <2>3, CalmParts
<1>4. CASE Crash
  <2>1. \A w \in Writer : wr'[w].stage = "Idle" /\ wr'[w].at = 0 BY <1>4 DEF Crash, IdleTask
  <2> QED BY <2>1, SizeAssumption DEF PartInv, Running
<1>5. CASE ActivateNext
  <2>1. UNCHANGED <<wr, part>> BY <1>5 DEF ActivateNext, taskVars, diskVars
  <2>2. ASSUME NEW w \in Writer, FileAttempt(w)' PROVE FileAttempt(w)
    <3>1. transfers'[wr[w].id].status = "Downloading" /\ wr[w].id \in Id
      BY <1>1, <2>1, <2>2 DEF FileAttempt, FileTask
    <3>2. CASE UNCHANGED transfers BY <2>1, <2>2, <3>2 DEF FileAttempt
    <3>3. ASSUME NEW i \in Id,
                 transfers' = [transfers EXCEPT ![i].status = "Requesting", ![i].conn = attempts + 1,
                                                ![i].token = 0, ![i].waiting = TRUE]
          PROVE  FileAttempt(w)
      <4>1. transfers'[i].status = "Requesting" /\ \A j \in Id \ {i} : transfers'[j] = transfers[j]
        BY <3>3 DEF TypeInv, TypeOK, Transfer
      <4> QED BY <2>1, <2>2, <3>1, <4>1 DEF FileAttempt
    <3> QED BY <1>5, <3>2, <3>3 DEF ActivateNext
  <2> QED BY <2>1, <2>2, UnchangedFiles, SettledParts
<1>6. CASE CheckSafety BY <1>2, <1>6 DEF CheckSafety, queueVars, diskVars, taskVars
<1>7. ASSUME NEW i \in Id, PartialCleanup(i) \/ FileAppears(i) PROVE PartInv'
  BY <1>1, <1>2, <1>7 DEF PartialCleanup, FileAppears, queueVars, taskVars, Queued, OffQueue
<1>8. CASE UNCHANGED vars BY <1>2, <1>8 DEF vars, queueVars, diskVars, taskVars
<1> QED
  BY <1>3, <1>4, <1>5, <1>6, <1>7, <1>8, UserParts, SourceParts, TaskParts DEF Next

-----------------------------------------------------------------------------
(* The queue.  What InOrder enumerates, and how sequences are put together.*)

LEMMA InOrderFacts ==
  ASSUME queue \in Seq(Id), EachOnce(queue), NEW S, NEW s \in InOrder(S)
  PROVE  /\ s \in Seq(Id) /\ EachOnce(s)
         /\ \A i \in Id : Holds(s, i) <=> i \in S /\ Holds(queue, i)
<1> DEFINE at == {n \in DOMAIN queue : queue[n] \in S}
<1>1. PICK f \in [1 .. Cardinality(at) -> at] :
        /\ \A m, n \in DOMAIN f : m < n => f[m] < f[n]
        /\ \A k \in at : \E n \in DOMAIN f : f[n] = k
        /\ s = [n \in DOMAIN f |-> queue[f[n]]]
  BY DEF InOrder
<1>2. s \in Seq(Id) BY InOrderType
<1>3. DOMAIN f = 1 .. Cardinality(at) /\ DOMAIN s = DOMAIN f /\ \A n \in DOMAIN f : s[n] = queue[f[n]]
  BY <1>1
<1>4. at \subseteq 1 .. Len(queue) /\ \A n \in at : n \in DOMAIN queue /\ queue[n] \in S
  OBVIOUS
<1>5. \A n \in DOMAIN f : f[n] \in at BY <1>1, <1>3
<1>6. DOMAIN f \subseteq Int BY <1>3
<1>7. \A m, n \in DOMAIN f : f[m] = f[n] => m = n
  <2>1. SUFFICES ASSUME NEW m \in DOMAIN f, NEW n \in DOMAIN f, m < n PROVE f[m] # f[n]
    BY <1>6
  <2>2. f[m] < f[n] /\ f[m] \in Int /\ f[n] \in Int BY <1>1, <1>4, <1>5, <2>1
  <2> QED BY <2>2
<1>8. EachOnce(s) BY <1>3, <1>4, <1>5, <1>7 DEF EachOnce
<1>9. ASSUME NEW i \in Id, Holds(s, i) PROVE i \in S /\ Holds(queue, i)
  BY <1>3, <1>4, <1>5, <1>9 DEF Holds
<1>10. ASSUME NEW i \in S, Holds(queue, i) PROVE Holds(s, i)
  <2>1. PICK k \in at : queue[k] = i BY <1>10 DEF Holds
  <2>2. PICK n \in DOMAIN f : f[n] = k BY <1>1
  <2> QED BY <1>3, <2>1, <2>2 DEF Holds
<1> QED BY <1>2, <1>8, <1>9, <1>10

LEMMA ConcatHolds ==
  ASSUME NEW s \in Seq(Id), NEW t \in Seq(Id)
  PROVE  \A i : Holds(s \o t, i) <=> Holds(s, i) \/ Holds(t, i)
<1>1. Len(s) \in Nat /\ Len(t) \in Nat /\ Len(s \o t) = Len(s) + Len(t) /\ s \o t \in Seq(Id)
  BY ConcatProperties
<1>2. DOMAIN s = 1 .. Len(s) /\ DOMAIN t = 1 .. Len(t) /\ DOMAIN (s \o t) = 1 .. Len(s) + Len(t)
  BY <1>1
<1>3. \A n \in 1 .. Len(s) + Len(t) : (s \o t)[n] = IF n <= Len(s) THEN s[n] ELSE t[n - Len(s)]
  BY ConcatProperties
<1> DEFINE u == s \o t
<1> HIDE DEF u
<1>4. ASSUME NEW i, Holds(u, i) PROVE Holds(s, i) \/ Holds(t, i)
  <2>1. PICK n \in 1 .. Len(s) + Len(t) : u[n] = i BY <1>2, <1>4 DEF Holds, u
  <2>2. CASE n <= Len(s) BY <1>1, <1>2, <1>3, <2>1, <2>2 DEF Holds, u
  <2>3. CASE ~(n <= Len(s))
    <3>1. n - Len(s) \in 1 .. Len(t) BY <1>1, <2>1, <2>3
    <3> QED BY <1>2, <1>3, <2>1, <2>3, <3>1 DEF Holds, u
  <2> QED BY <2>2, <2>3
<1>5. ASSUME NEW i, Holds(s, i) PROVE Holds(u, i)
  <2>1. PICK n \in 1 .. Len(s) : s[n] = i BY <1>2, <1>5 DEF Holds
  <2>2. n \in 1 .. Len(s) + Len(t) /\ n <= Len(s) BY <1>1, <2>1
  <2> QED BY <1>2, <1>3, <2>1, <2>2 DEF Holds, u
<1>6. ASSUME NEW i, Holds(t, i) PROVE Holds(u, i)
  <2>1. PICK n \in 1 .. Len(t) : t[n] = i BY <1>2, <1>6 DEF Holds
  <2>2. n + Len(s) \in 1 .. Len(s) + Len(t) /\ ~(n + Len(s) <= Len(s)) /\ n + Len(s) - Len(s) = n
    BY <1>1, <2>1
  <2> QED BY <1>2, <1>3, <2>1, <2>2 DEF Holds, u
<1> QED BY <1>4, <1>5, <1>6 DEF u

LEMMA ConcatOnce ==
  ASSUME NEW s \in Seq(Id), NEW t \in Seq(Id), EachOnce(s), EachOnce(t),
         \A i \in Id : ~(Holds(s, i) /\ Holds(t, i))
  PROVE  EachOnce(s \o t)
<1>1. Len(s) \in Nat /\ Len(t) \in Nat /\ Len(s \o t) = Len(s) + Len(t) /\ s \o t \in Seq(Id)
  BY ConcatProperties
<1>2. DOMAIN s = 1 .. Len(s) /\ DOMAIN t = 1 .. Len(t) /\ DOMAIN (s \o t) = 1 .. Len(s) + Len(t)
  BY <1>1
<1>3. \A n \in 1 .. Len(s) + Len(t) : (s \o t)[n] = IF n <= Len(s) THEN s[n] ELSE t[n - Len(s)]
  BY ConcatProperties
<1>4. \A n \in 1 .. Len(s) : s[n] \in Id OBVIOUS
<1> DEFINE u == s \o t
<1> HIDE DEF u
<1>5. ASSUME NEW m \in 1 .. Len(s) + Len(t), NEW n \in 1 .. Len(s) + Len(t), m < n PROVE u[m] # u[n]
  <2>1. CASE n <= Len(s)
    <3>1. m \in 1 .. Len(s) /\ n \in 1 .. Len(s) /\ m # n /\ m <= Len(s) BY <1>1, <1>5, <2>1
    <3> QED BY <1>2, <1>3, <2>1, <3>1 DEF EachOnce, u
  <2>2. CASE ~(n <= Len(s)) /\ ~(m <= Len(s))
    <3>1. m - Len(s) \in 1 .. Len(t) /\ n - Len(s) \in 1 .. Len(t) /\ m - Len(s) # n - Len(s)
      BY <1>1, <1>5, <2>2
    <3> QED BY <1>2, <1>3, <2>2, <3>1 DEF EachOnce, u
  <2>3. CASE ~(n <= Len(s)) /\ m <= Len(s)
    <3>1. m \in 1 .. Len(s) /\ n - Len(s) \in 1 .. Len(t) BY <1>1, <1>5, <2>3
    <3>2. s[m] \in Id /\ Holds(s, s[m]) /\ Holds(t, t[n - Len(s)]) BY <1>2, <1>4, <3>1 DEF Holds
    <3>3. s[m] # t[n - Len(s)] BY <3>2
    <3> QED BY <1>3, <2>3, <3>3 DEF u
  <2> QED BY <2>1, <2>2, <2>3
<1>6. \A m, n \in 1 .. Len(s) + Len(t) : m < n \/ n < m \/ m = n BY <1>1
<1> QED BY <1>2, <1>5, <1>6 DEF EachOnce, u

LEMMA SplitFacts ==
  ASSUME NEW s \in Seq(Id), NEW n \in DOMAIN s
  PROVE  /\ SubSeq(s, 1, n - 1) \in Seq(Id) /\ SubSeq(s, n, Len(s)) \in Seq(Id)
         /\ s = SubSeq(s, 1, n - 1) \o SubSeq(s, n, Len(s))
         /\ EachOnce(s) => /\ EachOnce(SubSeq(s, 1, n - 1)) /\ EachOnce(SubSeq(s, n, Len(s)))
                           /\ \A i : ~(Holds(SubSeq(s, 1, n - 1), i) /\ Holds(SubSeq(s, n, Len(s)), i))
<1> DEFINE a == SubSeq(s, 1, n - 1)
           b == SubSeq(s, n, Len(s))
           k == n - 1
<1>1. Len(s) \in Nat /\ n \in 1 .. Len(s) /\ DOMAIN s = 1 .. Len(s) /\ k \in Nat /\ k <= Len(s) OBVIOUS
<1>2. a \in Seq(Id) /\ b \in Seq(Id) BY <1>1, SubSeqProperties
<1>3. Len(a) = k /\ DOMAIN a = 1 .. k /\ \A m \in 1 .. k : a[m] = s[m]
  BY <1>1, SubSeqProperties
<1>4. Len(b) = Len(s) - k /\ DOMAIN b = 1 .. Len(s) - k /\ \A m \in 1 .. Len(s) - k : b[m] = s[k + m]
  BY <1>1, SubSeqProperties
<1>5. s = a \o b
  <2>1. a \o b \in Seq(Id) /\ Len(a \o b) = Len(s)
    BY <1>1, <1>2, <1>3, <1>4, ConcatProperties
  <2>2. \A m \in 1 .. Len(s) : (a \o b)[m] = IF m <= k THEN a[m] ELSE b[m - k]
    <3>1. \A m \in 1 .. Len(a) + Len(b) :
            (a \o b)[m] = IF m <= Len(a) THEN a[m] ELSE b[m - Len(a)]
      BY <1>2, ConcatProperties
    <3>2. Len(a) + Len(b) = Len(s) BY <1>1, <1>3, <1>4
    <3> HIDE DEF a, b, k
    <3> QED BY <1>3, <3>1, <3>2
  <2>3. \A m \in 1 .. Len(s) : (m <= k => m \in 1 .. k) /\ (~(m <= k) => m - k \in 1 .. Len(s) - k /\ k + (m - k) = m)
    BY <1>1
  <2> HIDE DEF a, b, k
  <2>4. \A m \in 1 .. Len(s) : (a \o b)[m] = s[m] BY <1>3, <1>4, <2>2, <2>3
  <2> QED BY <2>1, <2>4, SeqEqual
<1>6. ASSUME EachOnce(s)
      PROVE  EachOnce(a) /\ EachOnce(b) /\ \A i : ~(Holds(a, i) /\ Holds(b, i))
  <2>1. \A m \in 1 .. k : m \in 1 .. Len(s) BY <1>1
  <2>2. \A m \in 1 .. Len(s) - k : k + m \in 1 .. Len(s) /\ k + m \notin 1 .. k BY <1>1
  <2>3. \A m, l \in 1 .. Len(s) - k : k + m = k + l => m = l BY <1>1
  <2> HIDE DEF a, b, k
  <2>4. EachOnce(a) BY <1>1, <1>3, <1>6, <2>1 DEF EachOnce
  <2>5. EachOnce(b) BY <1>1, <1>4, <1>6, <2>2, <2>3 DEF EachOnce
  <2>6. ASSUME NEW i, Holds(a, i), Holds(b, i) PROVE FALSE
    <3>1. PICK m \in 1 .. k : a[m] = i BY <1>3, <2>6 DEF Holds
    <3>2. PICK l \in 1 .. Len(s) - k : b[l] = i BY <1>4, <2>6 DEF Holds
    <3>3. s[m] = s[k + l] BY <1>3, <1>4, <3>1, <3>2
    <3> QED BY <1>1, <1>6, <2>1, <2>2, <3>1, <3>2, <3>3 DEF EachOnce
  <2> QED BY <2>4, <2>5, <2>6
<1> QED BY <1>2, <1>5, <1>6

(* A block that is taken out of the vector and put back somewhere else.    *)
LEMMA ReorderKeeps ==
  ASSUME TypeInv, QueueInv, NEW r \in Release, ReorderRelease(r)
  PROVE  EachOnce(queue') /\ \A i \in Id : Holds(queue', i) <=> Holds(queue, i)
<1>0. queue \in Seq(Id) /\ EachOnce(queue) BY DEF TypeInv, TypeOK, QueueInv, Consistent
<1> DEFINE S == Files(r)
<1>1. PICK mv \in InOrder(S), rm \in InOrder(Id \ S) :
        \/ queue' = rm \o mv
        \/ \E n \in DOMAIN rm : queue' = SubSeq(rm, 1, n - 1) \o mv \o SubSeq(rm, n, Len(rm))
  BY DEF ReorderRelease
<1>2. /\ mv \in Seq(Id) /\ EachOnce(mv) /\ \A i \in Id : Holds(mv, i) <=> i \in S /\ Holds(queue, i)
      /\ rm \in Seq(Id) /\ EachOnce(rm) /\ \A i \in Id : Holds(rm, i) <=> i \notin S /\ Holds(queue, i)
  <2> HIDE DEF S
  <2> QED BY <1>0, InOrderFacts
<1> HIDE DEF S
<1>3. CASE queue' = rm \o mv
  BY <1>2, <1>3, ConcatHolds, ConcatOnce
<1>4. ASSUME NEW n \in DOMAIN rm, queue' = SubSeq(rm, 1, n - 1) \o mv \o SubSeq(rm, n, Len(rm))
      PROVE  EachOnce(queue') /\ \A i \in Id : Holds(queue', i) <=> Holds(queue, i)
  <2> DEFINE a == SubSeq(rm, 1, n - 1)
             b == SubSeq(rm, n, Len(rm))
  <2>1. /\ a \in Seq(Id) /\ b \in Seq(Id) /\ rm = a \o b /\ EachOnce(a) /\ EachOnce(b)
        /\ \A i : ~(Holds(a, i) /\ Holds(b, i))
    BY <1>2, SplitFacts
  <2>2. queue' = (a \o mv) \o b BY <1>4
  <2> HIDE DEF a, b
  <2>3. \A i \in Id : Holds(rm, i) <=> Holds(a, i) \/ Holds(b, i) BY <2>1, ConcatHolds
  <2>4. a \o mv \in Seq(Id) BY <1>2, <2>1, ConcatProperties
  <2>5. \A i \in Id : Holds(a \o mv, i) <=> Holds(a, i) \/ Holds(mv, i) BY <1>2, <2>1, ConcatHolds
  <2>6. EachOnce(a \o mv) BY <1>2, <2>1, <2>3, ConcatOnce
  <2>7. \A i \in Id : Holds(queue', i) <=> Holds(a \o mv, i) \/ Holds(b, i)
    BY <2>1, <2>2, <2>4, ConcatHolds
  <2>8. EachOnce(queue') BY <1>2, <2>1, <2>2, <2>3, <2>4, <2>5, <2>6, ConcatOnce
  <2> QED BY <1>2, <2>3, <2>5, <2>7, <2>8
<1> QED BY <1>1, <1>3, <1>4

LEMMA StepQueue ==
  ASSUME TypeInv, QueueInv, [Next]_vars
  PROVE  QueueInv'
<1>0. /\ queue \in Seq(Id) /\ \A i \in Id : transfers[i] \in Transfer
      /\ EachOnce(queue) /\ \A i \in Id : Queued(i) <=> Holds(queue, i)
  BY DEF TypeInv, TypeOK, QueueInv, Consistent, Queued
<1>1. Consistent(saved'.queue, saved'.transfers)
  <2>1. CASE UNCHANGED saved BY <2>1 DEF QueueInv
  <2>2. CASE SaveStore
    <3>1. saved'.queue = queue BY <2>2 DEF SaveStore
    <3>2. \A i \in Id : saved'.transfers[i].status = transfers[i].status BY <2>2, SavedFields
    <3> QED BY <3>1, <3>2 DEF QueueInv, Consistent
  <2> QED BY <2>1, <2>2, SavedFrame
<1>2. ASSUME Moves \/ (\E i \in Id : Starts(i)) \/ (\E w \in Writer : Finishes(w))
      PROVE  \/ Consistent(queue', transfers') \/ Crash \/ CancelTransfers \/ ClearCompleted
             \/ \E r \in Release, u \in User : EnqueueRelease(r, u)
  <2>1. ASSUME NEW i \in Id PROVE Queued(i)' <=> Queued(i)
    <3>1. CASE Moves BY <1>0, <3>1, MoveCompleted DEF Moves, Queued
    <3>2. ASSUME NEW j \in Id, Starts(j) PROVE Queued(i)' <=> Queued(i)
      BY <3>2 DEF Starts, Queued, OffQueue
    <3>3. ASSUME NEW w \in Writer, Finishes(w) PROVE Queued(i)' <=> Queued(i)
      BY <3>3, FinishedFields DEF Queued, OffQueue
    <3> QED BY <1>2, <3>1, <3>2, <3>3
  <2>2. CASE UNCHANGED queue BY <1>0, <2>1, <2>2 DEF Consistent, Queued, Holds, EachOnce
  <2>3. ASSUME NEW r \in Release, ReorderRelease(r) PROVE Consistent(queue', transfers')
    BY <1>0, <2>1, <2>3, ReorderKeeps DEF Consistent, Queued
  <2> QED BY <2>2, <2>3, QueueFrame
<1>3. CASE CancelTransfers \/ ClearCompleted
  <2>1. PICK S : /\ queue' \in InOrder(Id \ S)
                 /\ \A i \in Id : IF i \in S /\ Queued(i)
                                  THEN transfers'[i].status = "Removed" /\ transfers'[i].retries = 0
                                  ELSE transfers'[i] = transfers[i]
    BY <1>3, RemovedFields
  <2>2. EachOnce(queue') /\ \A i \in Id : Holds(queue', i) <=> i \notin S /\ Holds(queue, i)
    BY <1>0, <2>1, InOrderFacts
  <2>3. \A i \in Id : Queued(i)' <=> i \notin S /\ Queued(i) BY <2>1 DEF Queued, OffQueue
  <2>4. ASSUME NEW i \in Id PROVE transfers'[i].status \notin OffQueue <=> Holds(queue', i)
    <3>1. transfers'[i].status \notin OffQueue <=> i \notin S /\ Queued(i) BY <2>3 DEF Queued
    <3>2. Queued(i) <=> Holds(queue, i) BY <1>0
    <3> QED BY <2>2, <3>1, <3>2
  <2> QED BY <1>1, <2>2, <2>4 DEF QueueInv, Consistent
<1>4. ASSUME NEW r \in Release, NEW u \in User, EnqueueRelease(r, u)
      PROVE  Consistent(queue', transfers')
  <2>1. queue' = queue \o FilesOf[r] BY <1>4 DEF EnqueueRelease
  <2>2. FilesOf[r] \in Seq(Id) /\ EachOnce(FilesOf[r]) BY FilesAssumption DEF EachOnce
  <2>3. \A i \in Id : Holds(FilesOf[r], i) <=> i \in Files(r) BY DEF Holds, Files
  <2>4. \A i \in Id : i \in Files(r) => ~Queued(i) /\ Queued(i)'
    BY <1>4, EnqueuedFields DEF Queued, OffQueue
  <2>5. \A i \in Id : i \notin Files(r) => Queued(i)' = Queued(i) BY <1>4, EnqueuedFields DEF Queued
  <2>6. \A i \in Id : Holds(queue', i) <=> Holds(queue, i) \/ i \in Files(r)
    BY <1>0, <2>1, <2>2, <2>3, ConcatHolds
  <2>7. EachOnce(queue') BY <1>0, <2>1, <2>2, <2>3, <2>4, ConcatOnce
  <2> QED BY <1>0, <2>4, <2>5, <2>6, <2>7 DEF Consistent, Queued
<1>5. CASE Crash
  <2>1. queue' = saved.queue BY <1>5 DEF Crash
  <2>2. \A i \in Id : transfers'[i].status \in OffQueue <=> saved.transfers[i].status \in OffQueue
    BY <1>5, CrashFields DEF OffQueue, Active
  <2>3. /\ EachOnce(saved.queue)
        /\ \A i \in Id : saved.transfers[i].status \notin OffQueue <=> Holds(saved.queue, i)
    BY DEF QueueInv, Consistent
  <2>4. \A i \in Id : transfers'[i].status \notin OffQueue <=> Holds(queue', i) BY <2>1, <2>2, <2>3
  <2> QED BY <1>1, <2>1, <2>3, <2>4 DEF QueueInv, Consistent
<1> QED BY <1>1, <1>2, <1>3, <1>4, <1>5, StepMoves DEF QueueInv

-----------------------------------------------------------------------------
(* The theorems.                                                           *)

LEMMA InitFiles == Init => FilesInv
<1> SUFFICES ASSUME Init PROVE FilesInv OBVIOUS
<1>1. LaneInv BY InitLanes
<1>2. \A i \in Id : /\ transfers[i].status = "Absent" /\ transfers[i].retries = 0
                    /\ saved.transfers[i] = transfers[i]
  BY DEF Init, Blank
<1>3. queue = <<>> /\ saved.queue = <<>> /\ attempts = 0 BY DEF Init
<1>4. QueueInv BY <1>2, <1>3 DEF QueueInv, Consistent, EachOnce, Holds, OffQueue
<1>5. CountInv BY <1>2, <1>3 DEF CountInv, Counted, Active
<1>6. \A w \in Writer : wr[w].stage = "Idle" /\ wr[w].at = 0 BY DEF Init, IdleTask
<1>7. PartInv BY <1>6, SizeAssumption DEF PartInv, Running
<1>8. WholeInv BY <1>2 DEF Init, WholeInv, FinalFileIsWhole, Queued, OffQueue
<1>9. ActiveIds = {} BY <1>2 DEF ActiveIds, IsActive, Active
<1>10. IsFiniteSet(ActiveIds) BY <1>9, FS_EmptySet
<1> QED BY <1>1, <1>4, <1>5, <1>7, <1>8, <1>10 DEF FilesInv

LEMMA StepFiles == FilesInv /\ [Next]_vars => FilesInv'
<1> SUFFICES ASSUME FilesInv, [Next]_vars PROVE FilesInv' OBVIOUS
<1>1. LaneInv' BY StepLanes DEF FilesInv
<1>2. TypeInv /\ TypeInv' /\ WriterInv BY <1>1 DEF FilesInv, LaneInv
<1>3. QueueInv' /\ CountInv' BY <1>2, StepQueue, StepCount DEF FilesInv
<1>4. PartInv' /\ WholeInv' BY <1>2, StepParts, StepWhole DEF FilesInv
<1>5. IsFiniteSet(ActiveIds') BY <1>2, StepLaneCount DEF FilesInv
<1> QED BY <1>1, <1>3, <1>4, <1>5 DEF FilesInv

LEMMA AlwaysFiles == Spec => []FilesInv
BY InitFiles, StepFiles, PTL DEF Spec

(* No reorder, cancel, clear, enqueue or restart loses a transfer of the   *)
(* queue or holds one twice, for any albums and any order of requests.     *)
THEOREM NoTransferIsLost == Spec => []QueueHoldsEachOnce
<1>1. FilesInv => QueueHoldsEachOnce
  BY DEF FilesInv, QueueInv, Consistent, EachOnce, Holds, QueueHoldsEachOnce, Queued
<1> QED BY <1>1, AlwaysFiles, PTL

(* A failure is counted at most once, for any budget of retries: timeouts, *)
(* reports of the source, broken connections and the task's own failure    *)
(* cannot add up to more than the connections that were requested.         *)
THEOREM RetriesAreCounted == Spec => []RetriesAreCountedOnce
<1>1. FilesInv => RetriesAreCountedOnce
  BY DEF FilesInv, CountInv, Counted, RetriesAreCountedOnce
<1> QED BY <1>1, AlwaysFiles, PTL

(* What a writer of the attempt under way appends continues the file,      *)
(* which never outgrows its length, for any number of late tasks.          *)
THEOREM WritersAppend == Spec => []WriterAtEndOfFile
<1>1. FilesInv => WriterAtEndOfFile
  BY DEF FilesInv, PartInv, WriterAtEndOfFile, Writing, Running, Stage
<1> QED BY <1>1, AlwaysFiles, PTL

(* Only whole files are renamed, and what is at the final path and what    *)
(* the queue says of it agree, also after any number of crashes.           *)
THEOREM FilesAreWhole == Spec => []FinalFileIsWhole
<1>1. FilesInv => FinalFileIsWhole BY DEF FilesInv, WholeInv
<1> QED BY <1>1, AlwaysFiles, PTL

(* The number of lanes in use grows only while one is free, whatever the   *)
(* limit was set to in the meantime.                                       *)
THEOREM LanesBound == Spec => LanesAreRespected
<1>1. FilesInv /\ [Next]_vars => [ActiveIds' \subseteq ActiveIds \/ Cardinality(ActiveIds') <= lanes]_vars
  BY StepLaneCount DEF FilesInv, LaneInv
<1> QED BY <1>1, AlwaysFiles, PTL DEF Spec, LanesAreRespected

(* Nothing the queue does replaces a file that somebody else has put where *)
(* a download would go.                                                    *)
THEOREM ForeignStays == Spec => ForeignFilesSurvive
<1>1. ASSUME TypeInv, [Next]_vars, NEW i \in Id, final[i] = "foreign" PROVE final'[i] = "foreign"
  <2>1. ASSUME NEW w \in Writer, Finishes(w) PROVE final'[i] = "foreign"
    BY <1>1, <2>1, FinishedFields
  <2>2. ASSUME NEW j \in Id, FileAppears(j) PROVE final'[i] = "foreign"
    BY <1>1, <2>2 DEF FileAppears, TypeInv, TypeOK
  <2> QED BY <1>1, <2>1, <2>2, FinalFrame
<1>2. TypeInv /\ [Next]_vars => [\A i \in Id : final[i] = "foreign" => final'[i] = "foreign"]_vars
  BY <1>1
<1>3. FilesInv => TypeInv BY DEF FilesInv, LaneInv
<1> QED BY <1>2, <1>3, AlwaysFiles, PTL DEF Spec, ForeignFilesSurvive

-----------------------------------------------------------------------------
(* What comes after the download, in both instances of Arrivals: they are  *)
(* those of ArrivalsProofs, definition by definition.                      *)
FileP == INSTANCE ArrivalsProofs WITH Track <- {1}, Added <- 2, Original <- "u", Candidate <- {"v"},
  Automatic <- FALSE, MaxFiles <- 3, MaxMeddling <- 1, MaxChanges <- 4
PairP == INSTANCE ArrivalsProofs WITH Track <- {1, 2}, Added <- 2, Original <- "u", Candidate <- {"v"},
  Automatic <- TRUE, MaxFiles <- 4, MaxMeddling <- 0, MaxChanges <- 3

LEMMA FileIsProved ==
  /\ File!ArrivalsInit => FileP!ArrivalsInit
  /\ File!ArrivalsNext => FileP!ArrivalsNext
  /\ FileP!ArrivalIsSound => File!ArrivalIsSound
<1>1. File!ArrivalsInit => FileP!ArrivalsInit
    BY DEF File!ArrivalsInit, FileP!ArrivalsInit, File!Path, FileP!Path, File!Library,
    FileP!Library, File!Scanner, FileP!Scanner, File!NoTrack, FileP!NoTrack, File!NoPlan,
    FileP!NoPlan, File!Blank, FileP!Blank, File!Idle, FileP!Idle, File!Unchecked, FileP!Unchecked
<1>2. File!ArrivalsNext => FileP!ArrivalsNext
    BY DEF File!Scanner, FileP!Scanner, File!NoTrack, FileP!NoTrack, File!Library, FileP!Library,
    File!Path, FileP!Path, File!arrivalVars, FileP!arrivalVars, File!fileVars, FileP!fileVars,
    File!restVars, FileP!restVars, File!Unchecked, FileP!Unchecked, File!Idle, FileP!Idle,
    File!NoPlan, FileP!NoPlan, File!Blank, FileP!Blank, File!Listed, FileP!Listed,
    File!AllCompleted, FileP!AllCompleted, File!Whole, FileP!Whole, File!Sound, FileP!Sound,
    File!Free, FileP!Free, File!Changed, FileP!Changed, File!Room, FileP!Room, File!Busy,
    FileP!Busy, File!Held, FileP!Held, File!Verification, FileP!Verification, File!Verified,
    FileP!Verified, File!Inspected, FileP!Inspected, File!Keeping, FileP!Keeping, File!Repairable,
    FileP!Repairable, File!HasIssue, FileP!HasIssue, File!Arrive, FileP!Arrive, File!Fail,
    FileP!Fail, File!Verify, FileP!Verify, File!Goes, FileP!Goes, File!First, FileP!First,
    File!Begin, FileP!Begin, File!Soundcheck, FileP!Soundcheck, File!ScanRepair, FileP!ScanRepair,
    File!Before, FileP!Before, File!ThereNow, FileP!ThereNow, File!NextTarget, FileP!NextTarget,
    File!TakeFingerprint, FileP!TakeFingerprint, File!VerifyScanned, FileP!VerifyScanned,
    File!OpenScanned, FileP!OpenScanned, File!DecodeScanned, FileP!DecodeScanned, File!Published,
    FileP!Published, File!Examined, FileP!Examined, File!CompareFingerprint,
    FileP!CompareFingerprint, File!ScanStillCurrent, FileP!ScanStillCurrent, File!PublishScan,
    FileP!PublishScan, File!RetryIssues, FileP!RetryIssues, File!Unfiled, FileP!Unfiled,
    File!AlreadyQueued, FileP!AlreadyQueued, File!Patch, FileP!Patch, File!PatchMissing,
    FileP!PatchMissing, File!SetFiled, FileP!SetFiled, File!ClearHistory, FileP!ClearHistory,
    File!Planned, FileP!Planned, File!Source, FileP!Source, File!Filed, FileP!Filed, File!Apply,
    FileP!Apply, File!CommitFiling, FileP!CommitFiling, File!Undo, FileP!Undo, File!CommitUndo,
    FileP!CommitUndo, File!Meddle, FileP!Meddle, File!TakeAway, FileP!TakeAway, File!ScanStep,
    FileP!ScanStep, File!ArrivalsNext, FileP!ArrivalsNext, File!Restrict, FileP!Restrict,
    File!Cardinality, FileP!Cardinality
<1>3. FileP!ArrivalIsSound => File!ArrivalIsSound
    BY DEF File!SameFile, FileP!SameFile, File!EvidenceIsOfItsFile, FileP!EvidenceIsOfItsFile,
    File!RepairsAreExamined, FileP!RepairsAreExamined, File!FilesAreKept, FileP!FilesAreKept,
    File!FiledCanBeUndone, FileP!FiledCanBeUndone, File!ArrivalIsSound, FileP!ArrivalIsSound,
    File!Listed, FileP!Listed, File!Planned, FileP!Planned, File!Filed, FileP!Filed, File!NoTrack,
    FileP!NoTrack, File!Unchecked, FileP!Unchecked, File!Path, FileP!Path, File!Library,
    FileP!Library
<1> QED BY <1>1, <1>2, <1>3

LEMMA PairIsProved ==
  /\ Pair!ArrivalsInit => PairP!ArrivalsInit
  /\ Pair!ArrivalsNext => PairP!ArrivalsNext
  /\ PairP!ArrivalIsSound => Pair!ArrivalIsSound
<1>1. Pair!ArrivalsInit => PairP!ArrivalsInit
    BY DEF Pair!ArrivalsInit, PairP!ArrivalsInit, Pair!Path, PairP!Path, Pair!Library,
    PairP!Library, Pair!Scanner, PairP!Scanner, Pair!NoTrack, PairP!NoTrack, Pair!NoPlan,
    PairP!NoPlan, Pair!Blank, PairP!Blank, Pair!Idle, PairP!Idle, Pair!Unchecked, PairP!Unchecked
<1>2. Pair!ArrivalsNext => PairP!ArrivalsNext
    BY DEF Pair!Scanner, PairP!Scanner, Pair!NoTrack, PairP!NoTrack, Pair!Library, PairP!Library,
    Pair!Path, PairP!Path, Pair!arrivalVars, PairP!arrivalVars, Pair!fileVars, PairP!fileVars,
    Pair!restVars, PairP!restVars, Pair!Unchecked, PairP!Unchecked, Pair!Idle, PairP!Idle,
    Pair!NoPlan, PairP!NoPlan, Pair!Blank, PairP!Blank, Pair!Listed, PairP!Listed,
    Pair!AllCompleted, PairP!AllCompleted, Pair!Whole, PairP!Whole, Pair!Sound, PairP!Sound,
    Pair!Free, PairP!Free, Pair!Changed, PairP!Changed, Pair!Room, PairP!Room, Pair!Busy,
    PairP!Busy, Pair!Held, PairP!Held, Pair!Verification, PairP!Verification, Pair!Verified,
    PairP!Verified, Pair!Inspected, PairP!Inspected, Pair!Keeping, PairP!Keeping, Pair!Repairable,
    PairP!Repairable, Pair!HasIssue, PairP!HasIssue, Pair!Arrive, PairP!Arrive, Pair!Fail,
    PairP!Fail, Pair!Verify, PairP!Verify, Pair!Goes, PairP!Goes, Pair!First, PairP!First,
    Pair!Begin, PairP!Begin, Pair!Soundcheck, PairP!Soundcheck, Pair!ScanRepair, PairP!ScanRepair,
    Pair!Before, PairP!Before, Pair!ThereNow, PairP!ThereNow, Pair!NextTarget, PairP!NextTarget,
    Pair!TakeFingerprint, PairP!TakeFingerprint, Pair!VerifyScanned, PairP!VerifyScanned,
    Pair!OpenScanned, PairP!OpenScanned, Pair!DecodeScanned, PairP!DecodeScanned, Pair!Published,
    PairP!Published, Pair!Examined, PairP!Examined, Pair!CompareFingerprint,
    PairP!CompareFingerprint, Pair!ScanStillCurrent, PairP!ScanStillCurrent, Pair!PublishScan,
    PairP!PublishScan, Pair!RetryIssues, PairP!RetryIssues, Pair!Unfiled, PairP!Unfiled,
    Pair!AlreadyQueued, PairP!AlreadyQueued, Pair!Patch, PairP!Patch, Pair!PatchMissing,
    PairP!PatchMissing, Pair!SetFiled, PairP!SetFiled, Pair!ClearHistory, PairP!ClearHistory,
    Pair!Planned, PairP!Planned, Pair!Source, PairP!Source, Pair!Filed, PairP!Filed, Pair!Apply,
    PairP!Apply, Pair!CommitFiling, PairP!CommitFiling, Pair!Undo, PairP!Undo, Pair!CommitUndo,
    PairP!CommitUndo, Pair!Meddle, PairP!Meddle, Pair!TakeAway, PairP!TakeAway, Pair!ScanStep,
    PairP!ScanStep, Pair!ArrivalsNext, PairP!ArrivalsNext, Pair!Restrict, PairP!Restrict,
    Pair!Cardinality, PairP!Cardinality
<1>3. PairP!ArrivalIsSound => Pair!ArrivalIsSound
    BY DEF Pair!SameFile, PairP!SameFile, Pair!EvidenceIsOfItsFile, PairP!EvidenceIsOfItsFile,
    Pair!RepairsAreExamined, PairP!RepairsAreExamined, Pair!FilesAreKept, PairP!FilesAreKept,
    Pair!FiledCanBeUndone, PairP!FiledCanBeUndone, Pair!ArrivalIsSound, PairP!ArrivalIsSound,
    Pair!Listed, PairP!Listed, Pair!Planned, PairP!Planned, Pair!Filed, PairP!Filed, Pair!NoTrack,
    PairP!NoTrack, Pair!Unchecked, PairP!Unchecked, Pair!Path, PairP!Path, Pair!Library,
    PairP!Library
<1> QED BY <1>1, <1>2, <1>3

LEMMA ArrivalsConstants == FileP!ArrivalConstants /\ PairP!ArrivalConstants
<1>1. IsFiniteSet({1}) /\ IsFiniteSet({1, 2})
  <2>1. IsFiniteSet({1}) BY FS_Singleton
  <2>2. IsFiniteSet({1} \cup {2}) BY <2>1, FS_AddElement
  <2>3. {1} \cup {2} = {1, 2} OBVIOUS
  <2> QED BY <2>1, <2>2, <2>3
<1>2. FileP!IsFiniteSet({1}) BY <1>1 DEF FileP!IsFiniteSet, IsFiniteSet
<1>3. PairP!IsFiniteSet({1, 2}) BY <1>1 DEF PairP!IsFiniteSet, IsFiniteSet
<1>4. 1 \in Names /\ FileP!Library \notin Names /\ PairP!Library \notin Names
  BY NamesAssumption DEF FileP!Library, PairP!Library
<1> QED BY <1>2, <1>3, <1>4 DEF FileP!ArrivalConstants, PairP!ArrivalConstants

SceneInv ==
  /\ scene = "file" => FileP!ArrivalsInv
  /\ scene = "pair" => PairP!ArrivalsInv

LEMMA SceneStep ==
  ASSUME SceneInv, [SceneNext]_<<vars, scanVars, scene>> PROVE SceneInv'
<1>1. scene' = scene BY DEF SceneNext
<1>2. CASE scene = "file"
  <2>1. [FileP!ArrivalsNext]_FileP!arrivalVars
    BY <1>2, FileIsProved DEF SceneNext, scanVars, FileP!arrivalVars
  <2>2. FileP!ArrivalsInv BY <1>2 DEF SceneInv
  <2>3. FileP!ArrivalsInv' BY <2>1, <2>2, ArrivalsConstants, FileP!StepInv
  <2> QED BY <1>1, <1>2, <2>3 DEF SceneInv
<1>3. CASE scene = "pair"
  <2>1. [PairP!ArrivalsNext]_PairP!arrivalVars
    BY <1>3, PairIsProved DEF SceneNext, scanVars, PairP!arrivalVars
  <2>2. PairP!ArrivalsInv BY <1>3 DEF SceneInv
  <2>3. PairP!ArrivalsInv' BY <2>1, <2>2, ArrivalsConstants, PairP!StepInv
  <2> QED BY <1>1, <1>3, <2>3 DEF SceneInv
<1>4. CASE scene \notin {"file", "pair"} BY <1>1, <1>4 DEF SceneInv
<1> QED BY <1>2, <1>3, <1>4

(* What the run checks of the files that have arrived holds of both        *)
(* releases for any scans, sounds and names of files (downloads.rs,        *)
(* soundcheck.rs).                                                         *)
THEOREM ArrivalsStaySound == SceneSpec => []ArrivalsAreSound
<1>1. SceneInit => SceneInv
  <2> SUFFICES ASSUME SceneInit PROVE SceneInv OBVIOUS
  <2>1. scene = "file" => FileP!ArrivalsInit BY FileIsProved DEF SceneInit
  <2>2. scene = "pair" => PairP!ArrivalsInit BY PairIsProved DEF SceneInit
  <2> QED BY <2>1, <2>2, ArrivalsConstants, FileP!InitInv, PairP!InitInv DEF SceneInv
<1>2. SceneInv /\ [SceneNext]_<<vars, scanVars, scene>> => SceneInv' BY SceneStep
<1>3. SceneInv => ArrivalsAreSound
  <2>1. scene = "file" /\ SceneInv => File!ArrivalIsSound BY FileP!InvIsSound, FileIsProved DEF SceneInv
  <2>2. scene = "pair" /\ SceneInv => Pair!ArrivalIsSound BY PairP!InvIsSound, PairIsProved DEF SceneInv
  <2> QED BY <2>1, <2>2 DEF ArrivalsAreSound
<1> QED BY <1>1, <1>2, <1>3, PTL DEF SceneSpec
=============================================================================
