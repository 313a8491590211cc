----------------------------- MODULE QueueStore -----------------------------
(***************************************************************************)
(* How the download queue reaches the disk: TransferHub's mutate, persist  *)
(* and flush (connection/downloads.rs) and the thread of TransferWriter    *)
(* (connection/transfer_writer.rs).                                        *)
(*                                                                         *)
(* A caller changes the queue under its lock, then takes the lock of the   *)
(* publication, reads the queue again and submits what it has read.  The   *)
(* writer keeps one write in flight and one snapshot pending, which a      *)
(* later one replaces.  A caller may wait (flush) until nothing is left to *)
(* write.  Writer and callers sleep on one condition variable.             *)
(***************************************************************************)
EXTENDS Integers

CONSTANTS
  Caller,       \* commands, session handlers and file tasks
  None,
  MaxVersion,   \* bound: changes of the queue
  MaxSubmits,   \* bound: snapshots submitted between two crashes
  MaxCrashes    \* bound: crashes of the application

ASSUME BoundAssumption ==
  MaxVersion \in Nat /\ MaxSubmits \in Nat /\ MaxCrashes \in Nat
ASSUME NoneAssumption == None \notin [rev : Nat, store : Nat]

VARIABLES
  memory,     \* the queue: the number of the change that made it
  clock,      \* changes made so far
  pc,         \* where each caller is
  mine,       \* the change each caller has made last
  shot,       \* what each caller has read under the publication lock
  publishing, \* the lock of the publication is held
  pending, requested, completed, error, closed,  \* WriterState
  worker,     \* the writer thread
  inflight,   \* the snapshot it is writing
  disk,       \* transfers.json
  promised,   \* history: the newest change that a successful flush has covered
  crashes

callerVars == <<memory, clock, pc, mine, shot, publishing>>
stateVars  == <<pending, requested, completed, error, closed>>
workVars   == <<worker, inflight, disk>>
vars == <<callerVars, stateVars, workVars, promised, crashes>>

Snapshot == [rev : Nat, store : Nat]

(* wake.notify_all()                                                       *)
WokenCallers == [c \in Caller |-> IF pc[c] = "asleep" THEN "flushing" ELSE pc[c]]
WokenWorker  == IF worker = "asleep" THEN "running" ELSE worker

-----------------------------------------------------------------------------
(* TransferHub.                                                            *)

Mutate(c) ==
  /\ pc[c] = "idle" /\ ~closed /\ clock < MaxVersion
  /\ clock' = clock + 1
  /\ memory' = clock + 1
  /\ mine' = [mine EXCEPT ![c] = clock + 1]
  /\ pc' = [pc EXCEPT ![c] = "changed"]
  /\ UNCHANGED <<shot, publishing, stateVars, workVars, promised, crashes>>

ReadUnlocked(c) == \* mutant: the queue is read before the publication is locked
  /\ pc[c] = "changed"
  /\ pc' = [pc EXCEPT ![c] = "publishing"]
  /\ shot' = [shot EXCEPT ![c] = memory]
  /\ UNCHANGED <<memory, clock, mine, publishing, stateVars, workVars, promised, crashes>>

(* persist, persist_and_publish: snapshot_at under the publication lock    *)
ReadSnapshot(c) ==
  /\ pc[c] = "changed" /\ ~publishing
  /\ publishing' = TRUE
  /\ pc' = [pc EXCEPT ![c] = "publishing"]
  /\ shot' = [shot EXCEPT ![c] = memory]
  /\ UNCHANGED <<memory, clock, mine, stateVars, workVars, promised, crashes>>

SubmitSilently(store, callers) == \* mutant: the writer is not woken
  /\ requested < MaxSubmits
  /\ requested' = requested + 1
  /\ pending' = [rev |-> requested + 1, store |-> store]
  /\ pc' = callers
  /\ UNCHANGED <<completed, error, closed, workVars>>

SubmitUncounted(store, callers) == \* mutant: the revision is not counted
  /\ requested < MaxSubmits
  /\ pending' = [rev |-> requested + 1, store |-> store]
  /\ pc' = callers
  /\ worker' = WokenWorker
  /\ UNCHANGED <<requested, completed, error, closed, inflight, disk>>

Submit(store, callers) ==
  /\ requested < MaxSubmits
  /\ requested' = requested + 1
  /\ pending' = [rev |-> requested + 1, store |-> store]
  /\ pc' = callers
  /\ worker' = WokenWorker
  /\ UNCHANGED <<completed, error, closed, inflight, disk>>

(* Filing and Safe Passage flush what they have changed; others go on.     *)
QueueStored(c, next) ==
  /\ pc[c] = "publishing"
  /\ publishing' = FALSE
  /\ Submit(shot[c], [WokenCallers EXCEPT ![c] = next])
  /\ UNCHANGED <<memory, clock, mine, shot, promised, crashes>>

(* start_progress_publisher, while no caller holds the publication         *)
Checkpoint ==
  /\ ~publishing /\ ~closed
  /\ Submit(memory, WokenCallers)
  /\ UNCHANGED <<memory, clock, mine, shot, publishing, promised, crashes>>

FlushHidingErrors(c) == \* mutant: the error of the last write is dropped
  /\ pc[c] = "flushing"
  /\ IF completed < requested
     THEN pc' = [pc EXCEPT ![c] = "asleep"] /\ UNCHANGED promised
     ELSE /\ pc' = [pc EXCEPT ![c] = "idle"]
          /\ promised' = IF mine[c] > promised THEN mine[c] ELSE promised
  /\ UNCHANGED <<memory, clock, mine, shot, publishing, stateVars, workVars, crashes>>

(* flush: sleep until the last snapshot is written, then return its error  *)
Flush(c) ==
  /\ pc[c] = "flushing"
  /\ IF completed < requested
     THEN pc' = [pc EXCEPT ![c] = "asleep"] /\ UNCHANGED promised
     ELSE /\ pc' = [pc EXCEPT ![c] = "idle"]
          /\ promised' = IF ~error /\ mine[c] > promised THEN mine[c] ELSE promised
  /\ UNCHANGED <<memory, clock, mine, shot, publishing, stateVars, workVars, crashes>>

(* The last handle of the hub is dropped: nobody can submit any more.      *)
Close ==
  /\ ~closed /\ \A c \in Caller : pc[c] = "idle"
  /\ closed' = TRUE
  /\ worker' = WokenWorker
  /\ UNCHANGED <<callerVars, pending, requested, completed, error, inflight, disk, promised, crashes>>

-----------------------------------------------------------------------------
(* The writer thread.                                                      *)

Sleep ==
  /\ worker = "running" /\ pending = None /\ ~closed
  /\ worker' = "asleep"
  /\ UNCHANGED <<callerVars, stateVars, inflight, disk, promised, crashes>>

TakePending ==
  /\ worker = "running" /\ pending # None
  /\ worker' = "writing"
  /\ inflight' = pending
  /\ pending' = None
  /\ UNCHANGED <<callerVars, requested, completed, error, closed, disk, promised, crashes>>

EndOnClose == \* mutant: the loop ends although a snapshot is pending
  /\ worker = "running" /\ closed
  /\ worker' = "ended"
  /\ UNCHANGED <<callerVars, stateVars, inflight, disk, promised, crashes>>

End ==
  /\ worker = "running" /\ pending = None /\ closed
  /\ worker' = "ended"
  /\ UNCHANGED <<callerVars, stateVars, inflight, disk, promised, crashes>>

WrittenAsNewest(failed) == \* mutant: what is pending counts as written too
  /\ worker = "writing"
  /\ disk' \in (IF failed THEN {disk, inflight.store} ELSE {inflight.store})
  /\ error' = failed
  /\ completed' = requested
  /\ inflight' = None
  /\ worker' = "running"
  /\ pc' = WokenCallers
  /\ UNCHANGED <<memory, clock, mine, shot, publishing, pending, requested, closed, promised, crashes>>

(* write: save_store, an error when the store is blocked or the disk       *)
(* refuses; the new file may be in place although the error is returned,   *)
(* when the directory cannot be synced after it was renamed.               *)
Written(failed) ==
  /\ worker = "writing"
  /\ disk' \in (IF failed THEN {disk, inflight.store} ELSE {inflight.store})
  /\ error' = failed
  /\ completed' = inflight.rev
  /\ inflight' = None
  /\ worker' = "running"
  /\ pc' = WokenCallers
  /\ UNCHANGED <<memory, clock, mine, shot, publishing, pending, requested, closed, promised, crashes>>

(* The next start reads what is on disk, the write in flight or not.       *)
Crash ==
  /\ crashes < MaxCrashes
  /\ crashes' = crashes + 1
  /\ disk' \in {disk} \cup (IF inflight = None THEN {} ELSE {inflight.store})
  /\ memory' = disk'
  /\ pc' = [c \in Caller |-> "idle"]
  /\ mine' = [c \in Caller |-> 0] /\ shot' = [c \in Caller |-> 0]
  /\ publishing' = FALSE
  /\ pending' = None /\ requested' = 0 /\ completed' = 0 /\ error' = FALSE /\ closed' = FALSE
  /\ worker' = "running" /\ inflight' = None
  /\ UNCHANGED <<clock, promised>>

-----------------------------------------------------------------------------

Init ==
  /\ memory = 0 /\ clock = 0
  /\ pc = [c \in Caller |-> "idle"]
  /\ mine = [c \in Caller |-> 0] /\ shot = [c \in Caller |-> 0]
  /\ publishing = FALSE
  /\ pending = None /\ requested = 0 /\ completed = 0 /\ error = FALSE /\ closed = FALSE
  /\ worker = "running" /\ inflight = None /\ disk = 0
  /\ promised = 0
  /\ crashes = 0

CallerStep(c) ==
  \/ Mutate(c) \/ ReadSnapshot(c) \/ Flush(c)
  \/ \E next \in {"idle", "flushing"} : QueueStored(c, next)

WorkerStep == Sleep \/ TakePending \/ End \/ \E failed \in BOOLEAN : Written(failed)

Next ==
  \/ \E c \in Caller : CallerStep(c)
  \/ WorkerStep
  \/ Checkpoint \/ Close \/ Crash

Spec == Init /\ [][Next]_vars

-----------------------------------------------------------------------------
(* Fairness: the operating system runs the writer thread, and every write  *)
(* returns.  Callers run to their end; nobody has to begin a change.       *)
LiveSpec ==
  /\ Spec
  /\ WF_vars(WorkerStep)
  /\ \A c \in Caller : WF_vars(Flush(c))

(* Every variable has its type, and no more snapshots are completed than   *)
(* were requested (WriterState).                                           *)
TypeOK ==
  /\ memory \in Nat /\ clock \in Nat
  /\ pc \in [Caller -> {"idle", "changed", "publishing", "flushing", "asleep"}]
  /\ mine \in [Caller -> Nat] /\ shot \in [Caller -> Nat]
  /\ publishing \in BOOLEAN
  /\ pending \in Snapshot \cup {None} /\ inflight \in Snapshot \cup {None}
  /\ requested \in Nat /\ completed \in 0 .. requested
  /\ error \in BOOLEAN /\ closed \in BOOLEAN
  /\ worker \in {"running", "asleep", "writing", "ended"}
  /\ disk \in Nat /\ promised \in Nat /\ crashes \in Nat

(* A flush that returns Ok covers the change its caller has made: Filing   *)
(* and Safe Passage rely on it before they let the old state go            *)
(* (commit_filing, prepare_transfers_for_restart).  It holds after crashes.*)
FlushedIsDurable == promised <= disk

(* An older snapshot never replaces a newer one on disk, whatever callers  *)
(* interleave between their change and the submission of what they read.   *)
DiskNeverGoesBack == [][disk' >= disk]_vars

(* Every snapshot is written or replaced by a later one which is, also     *)
(* when the hub is dropped with a snapshot pending: no wake-up is lost.    *)
(* Only a crash, which takes `requested` back to 0, loses it.              *)
SubmissionsAreWritten ==
  \A n \in 1 .. MaxSubmits : (requested >= n) ~> (completed >= n \/ requested = 0)

(* A caller that flushes is answered, unless new snapshots keep coming.    *)
FlushReturns ==
  \A c \in Caller : (pc[c] \in {"flushing", "asleep"}) ~> (pc[c] = "idle")

(* No snapshot and no caller is left behind by the writer.                 *)
WriterCatchesUp == SubmissionsAreWritten /\ FlushReturns

(* The store implements the abstract one.                                  *)
Durable == INSTANCE DurableQueue
ImplementsDurableQueue == Durable!Spec

=============================================================================
