-------------------------- MODULE SessionProofs --------------------------
(***************************************************************************)
(* The background save of the download queue, for any number of callers,   *)
(* changes, snapshots and crashes: what a successful flush has covered is  *)
(* on disk, the file never goes back, and the store implements             *)
(* DurableQueue.  The connection and the router mapping, for any number of *)
(* callers, generations, ports and tests: sessions do not mix.             *)
(***************************************************************************)
EXTENDS MCSession, TLAPS

Flushing(c) == pc[c] \in {"flushing", "asleep"}

(* The writer is writing exactly while a snapshot is in flight.            *)
WorkerInv == worker = "writing" <=> inflight # None

(* Revisions: what is pending is newest, and nothing is left only when     *)
(* everything that was requested is complete.                              *)
RevisionInv ==
  /\ pending # None => completed < requested
  /\ inflight # None => inflight.rev \in completed + 1 .. requested
  /\ pending = None /\ inflight # None => inflight.rev = requested
  /\ pending = None /\ inflight = None => completed = requested
  /\ pending # None => pending.rev = requested
  /\ pending # None /\ inflight # None => inflight.rev < requested

(* States grow along their way: disk, in flight, pending, read, memory.    *)
OrderInv ==
  /\ disk <= memory /\ memory <= clock
  /\ inflight # None => disk <= inflight.store /\ inflight.store <= memory
  /\ pending # None => disk <= pending.store /\ pending.store <= memory
  /\ pending # None /\ inflight # None => inflight.store <= pending.store

(* One caller at a time reads and submits, and what it has read is at      *)
(* least as new as all that was submitted before.                          *)
LockInv ==
  /\ \A c \in Caller : pc[c] = "publishing" => publishing
  /\ \A c, d \in Caller : pc[c] = "publishing" /\ pc[d] = "publishing" => c = d
  /\ \A c \in Caller : pc[c] = "publishing" =>
       /\ mine[c] <= shot[c] /\ shot[c] <= memory /\ disk <= shot[c]
       /\ inflight # None => inflight.store <= shot[c]
       /\ pending # None => pending.store <= shot[c]
  /\ \A c \in Caller : mine[c] <= memory

(* What a flushing caller has changed is under way, or on disk.            *)
FlushInv ==
  \A c \in Caller : Flushing(c) =>
    /\ pending # None => mine[c] <= pending.store
    /\ pending = None /\ inflight # None => mine[c] <= inflight.store
    /\ pending = None /\ inflight = None /\ ~error => mine[c] <= disk
    /\ \A d \in Caller : pc[d] = "publishing" => mine[c] <= shot[d]

IInv == TypeOK /\ WorkerInv /\ RevisionInv /\ OrderInv /\ LockInv /\ FlushInv /\ FlushedIsDurable

-----------------------------------------------------------------------------

LEMMA InitHolds == Init => IInv
<1> SUFFICES ASSUME Init PROVE IInv
  OBVIOUS
<1>1. TypeOK
  <2>1. pc \in [Caller -> {"idle", "changed", "publishing", "flushing", "asleep"}]
    BY DEF Init
  <2>2. mine \in [Caller -> Nat] /\ shot \in [Caller -> Nat]
    BY DEF Init
  <2>3. requested \in Nat /\ completed \in 0 .. requested
    BY DEF Init
  <2>4. error \in BOOLEAN /\ closed \in BOOLEAN /\ publishing \in BOOLEAN
    BY DEF Init
  <2>5. worker \in {"running", "asleep", "writing", "ended"}
    BY DEF Init
  <2>6. memory \in Nat /\ clock \in Nat /\ disk \in Nat /\ promised \in Nat /\ crashes \in Nat
    BY DEF Init
  <2>7. pending \in Snapshot \cup {None} /\ inflight \in Snapshot \cup {None}
    BY DEF Init
  <2>8. QED
    BY <2>1, <2>2, <2>3, <2>4, <2>5, <2>6, <2>7 DEF TypeOK
<1>2. WorkerInv /\ RevisionInv /\ OrderInv /\ FlushedIsDurable
  BY DEF Init, WorkerInv, RevisionInv, OrderInv, FlushedIsDurable
<1>3. LockInv /\ FlushInv
  BY DEF Init, LockInv, FlushInv, Flushing
<1>4. QED
  BY <1>1, <1>2, <1>3 DEF IInv

LEMMA MutateStep ==
  ASSUME IInv, NEW c \in Caller, Mutate(c)
  PROVE  IInv' /\ disk' = disk /\ promised' = promised /\ memory' > memory
BY DEF Mutate, IInv, TypeOK, WorkerInv, RevisionInv, OrderInv, LockInv, FlushInv, Flushing,
       FlushedIsDurable, Snapshot, stateVars, workVars

LEMMA ReadSnapshotStep ==
  ASSUME IInv, NEW c \in Caller, ReadSnapshot(c)
  PROVE  IInv'
BY DEF ReadSnapshot, IInv, TypeOK, WorkerInv, RevisionInv, OrderInv, LockInv, FlushInv, Flushing,
       FlushedIsDurable, Snapshot, stateVars, workVars

LEMMA QueueStoredStep ==
  ASSUME IInv, NEW c \in Caller, NEW next \in {"idle", "flushing"}, QueueStored(c, next)
  PROVE  IInv'
<1> DEFINE new == [rev |-> requested + 1, store |-> shot[c]]
<1>1. /\ pc[c] = "publishing" /\ publishing' = FALSE
      /\ requested' = requested + 1 /\ pending' = new
      /\ pc' = [WokenCallers EXCEPT ![c] = next]
      /\ worker' = WokenWorker
      /\ UNCHANGED <<memory, clock, mine, shot, completed, error, closed, inflight, disk, promised, crashes>>
  BY DEF QueueStored, Submit
<1>2. new \in Snapshot /\ new # None
  BY NoneAssumption DEF IInv, TypeOK, Snapshot
<1>3. pc' \in [Caller -> {"idle", "changed", "publishing", "flushing", "asleep"}]
  BY <1>1 DEF IInv, TypeOK, WokenCallers
<1>4. TypeOK'
  <2>1. requested' \in Nat /\ completed' \in 0 .. requested'
    BY <1>1 DEF IInv, TypeOK
  <2>2. worker' \in {"running", "asleep", "writing", "ended"}
    BY <1>1 DEF IInv, TypeOK, WokenWorker
  <2>3. publishing' \in BOOLEAN /\ pending' \in Snapshot \cup {None}
    BY <1>1, <1>2
  <2>4. QED
    BY <1>1, <1>3, <2>1, <2>2, <2>3 DEF IInv, TypeOK, Snapshot
<1>5. WorkerInv' /\ RevisionInv'
  BY <1>1, <1>2 DEF IInv, TypeOK, WorkerInv, RevisionInv, WokenWorker, Snapshot
<1>6. OrderInv' /\ FlushedIsDurable'
  BY <1>1, <1>2 DEF IInv, TypeOK, OrderInv, LockInv, FlushedIsDurable, Snapshot
<1>7. \A d \in Caller : pc'[d] # "publishing"
  BY <1>1 DEF IInv, TypeOK, LockInv, WokenCallers
<1>8. LockInv'
  BY <1>1, <1>7 DEF IInv, LockInv
<1>9. FlushInv'
  BY <1>1, <1>2, <1>7 DEF IInv, TypeOK, LockInv, FlushInv, Flushing, WokenCallers
<1>10. QED
  BY <1>4, <1>5, <1>6, <1>8, <1>9 DEF IInv

LEMMA CheckpointStep ==
  ASSUME IInv, Checkpoint
  PROVE  IInv'
BY NoneAssumption
   DEF Checkpoint, Submit, WokenCallers, WokenWorker, IInv, TypeOK, WorkerInv, RevisionInv, OrderInv,
       LockInv, FlushInv, Flushing, FlushedIsDurable, Snapshot

LEMMA FlushStep ==
  ASSUME IInv, NEW c \in Caller, Flush(c)
  PROVE  IInv' /\ promised' \in promised .. disk
BY DEF Flush, IInv, TypeOK, WorkerInv, RevisionInv, OrderInv, LockInv, FlushInv, Flushing,
       FlushedIsDurable, Snapshot, stateVars, workVars

LEMMA CloseStep ==
  ASSUME IInv, Close
  PROVE  IInv'
BY DEF Close, WokenWorker, IInv, TypeOK, WorkerInv, RevisionInv, OrderInv, LockInv, FlushInv, Flushing,
       FlushedIsDurable, Snapshot, callerVars

LEMMA TakePendingStep ==
  ASSUME IInv, TakePending
  PROVE  IInv'
BY NoneAssumption
   DEF TakePending, IInv, TypeOK, WorkerInv, RevisionInv, OrderInv, LockInv, FlushInv, Flushing,
       FlushedIsDurable, Snapshot, callerVars

LEMMA RestStep ==
  ASSUME IInv, Sleep \/ End
  PROVE  IInv'
BY DEF Sleep, End, IInv, TypeOK, WorkerInv, RevisionInv, OrderInv, LockInv, FlushInv, Flushing,
       FlushedIsDurable, Snapshot, callerVars, stateVars

LEMMA WrittenStep ==
  ASSUME IInv, NEW failed \in BOOLEAN, Written(failed)
  PROVE  IInv' /\ disk' \in disk .. memory
<1>1. /\ worker = "writing" /\ worker' = "running" /\ pc' = WokenCallers
      /\ completed' = inflight.rev /\ inflight' = None /\ error' = failed
      /\ disk' \in {disk, inflight.store}
      /\ ~failed => disk' = inflight.store
      /\ UNCHANGED <<memory, clock, mine, shot, publishing, pending, requested, closed, promised, crashes>>
  BY DEF Written
<1>2. inflight # None /\ inflight \in Snapshot
  BY <1>1 DEF IInv, TypeOK, WorkerInv
<1>3. disk' \in Nat /\ disk <= disk' /\ disk' <= memory /\ disk' <= inflight.store
  BY <1>1, <1>2 DEF IInv, TypeOK, OrderInv, Snapshot
<1>4. pc' \in [Caller -> {"idle", "changed", "publishing", "flushing", "asleep"}]
  BY <1>1 DEF IInv, TypeOK, WokenCallers
<1>5. TypeOK'
  BY <1>1, <1>2, <1>3, <1>4 DEF IInv, TypeOK, RevisionInv, Snapshot
<1>6. WorkerInv' /\ RevisionInv'
  BY <1>1, <1>2 DEF IInv, TypeOK, WorkerInv, RevisionInv, Snapshot
<1>7. OrderInv' /\ FlushedIsDurable'
  BY <1>1, <1>2, <1>3 DEF IInv, TypeOK, OrderInv, FlushedIsDurable, Snapshot
<1>8. \A d \in Caller : /\ pc'[d] = "publishing" <=> pc[d] = "publishing"
                        /\ pc'[d] \in {"flushing", "asleep"} <=> Flushing(d)
  BY <1>1 DEF IInv, TypeOK, WokenCallers, Flushing
<1>9. LockInv'
  BY <1>1, <1>2, <1>3, <1>8 DEF IInv, TypeOK, LockInv, Snapshot
<1>10. FlushInv'
  BY <1>1, <1>2, <1>3, <1>8 DEF IInv, TypeOK, FlushInv, Flushing, Snapshot
<1>11. QED
  BY <1>3, <1>5, <1>6, <1>7, <1>9, <1>10 DEF IInv, TypeOK

LEMMA CrashStep ==
  ASSUME IInv, Crash
  PROVE  IInv' /\ disk' \in disk .. memory
<1>1. disk' \in Nat /\ disk <= disk' /\ disk' <= memory
  <2>1. CASE inflight = None
    BY <2>1 DEF Crash, IInv, TypeOK, OrderInv
  <2>2. CASE inflight # None
    <3>1. disk' \in {disk, inflight.store}
      BY <2>2 DEF Crash
    <3>2. QED
      BY <2>2, <3>1 DEF IInv, TypeOK, OrderInv, Snapshot
  <2>3. QED
    BY <2>1, <2>2
<1>2. memory' = disk' /\ clock' = clock /\ promised' = promised /\ pending' = None /\ inflight' = None
  BY DEF Crash
<1>3. TypeOK'
  <2>1. /\ pc' = [c \in Caller |-> "idle"]
        /\ mine' = [c \in Caller |-> 0] /\ shot' = [c \in Caller |-> 0]
        /\ publishing' = FALSE /\ requested' = 0 /\ completed' = 0
        /\ error' = FALSE /\ closed' = FALSE /\ worker' = "running" /\ crashes' = crashes + 1
    BY DEF Crash
  <2>2. clock \in Nat /\ promised \in Nat /\ crashes \in Nat
    BY DEF IInv, TypeOK
  <2>3. pc' \in [Caller -> {"idle", "changed", "publishing", "flushing", "asleep"}]
    BY <2>1
  <2>4. mine' \in [Caller -> Nat] /\ shot' \in [Caller -> Nat]
    BY <2>1
  <2>5. requested' \in Nat /\ completed' \in 0 .. requested' /\ crashes' \in Nat
    BY <2>1, <2>2
  <2>6. publishing' \in BOOLEAN /\ error' \in BOOLEAN /\ closed' \in BOOLEAN
    BY <2>1
  <2>7. worker' \in {"running", "asleep", "writing", "ended"}
    BY <2>1
  <2>8. pending' \in Snapshot' \cup {None} /\ inflight' \in Snapshot' \cup {None}
    BY <1>2
  <2>9. QED
    BY <1>1, <1>2, <2>2, <2>3, <2>4, <2>5, <2>6, <2>7, <2>8 DEF TypeOK
<1>4. WorkerInv' /\ RevisionInv'
  BY <1>2 DEF Crash, WorkerInv, RevisionInv
<1>5. OrderInv' /\ FlushedIsDurable'
  BY <1>1, <1>2 DEF IInv, TypeOK, OrderInv, FlushedIsDurable
<1>6. LockInv' /\ FlushInv'
  <2>1. \A c \in Caller : pc'[c] = "idle" /\ mine'[c] = 0
    BY DEF Crash
  <2>2. QED
    BY <1>1, <1>2, <2>1 DEF LockInv, FlushInv, Flushing
<1>7. QED
  BY <1>1, <1>3, <1>4, <1>5, <1>6 DEF IInv, TypeOK

LEMMA StutterStep ==
  ASSUME IInv, UNCHANGED vars
  PROVE  IInv'
BY DEF vars, callerVars, stateVars, workVars, IInv, TypeOK, WorkerInv, RevisionInv, OrderInv, LockInv,
       FlushInv, Flushing, FlushedIsDurable, Snapshot

-----------------------------------------------------------------------------
(* Every step keeps the invariant and is a step of DurableQueue, or leaves *)
(* its three variables alone.                                              *)
LEMMA EveryStep ==
  ASSUME IInv, [Next]_vars
  PROVE  IInv' /\ [Durable!Next]_(Durable!vars) /\ disk' >= disk
<1> USE DEF Durable!Next, Durable!vars
<1>0. disk \in Nat /\ memory \in Nat
  BY DEF IInv, TypeOK
<1>1. ASSUME NEW c \in Caller, Mutate(c)
      PROVE  IInv' /\ [Durable!Next]_(Durable!vars) /\ disk' >= disk
  BY <1>0, <1>1, MutateStep DEF Durable!Change
<1>2. ASSUME NEW c \in Caller, ReadSnapshot(c)
      PROVE  IInv' /\ [Durable!Next]_(Durable!vars) /\ disk' >= disk
  <2>1. memory' = memory /\ disk' = disk /\ promised' = promised
    BY <1>2 DEF ReadSnapshot, workVars
  <2>2. QED
    BY <1>0, <1>2, <2>1, ReadSnapshotStep
<1>3. ASSUME NEW c \in Caller, NEW next \in {"idle", "flushing"}, QueueStored(c, next)
      PROVE  IInv' /\ [Durable!Next]_(Durable!vars) /\ disk' >= disk
  <2>1. memory' = memory /\ disk' = disk /\ promised' = promised
    BY <1>3 DEF QueueStored, Submit
  <2>2. QED
    BY <1>0, <1>3, <2>1, QueueStoredStep
<1>4. ASSUME Checkpoint
      PROVE  IInv' /\ [Durable!Next]_(Durable!vars) /\ disk' >= disk
  <2>1. memory' = memory /\ disk' = disk /\ promised' = promised
    BY <1>4 DEF Checkpoint, Submit
  <2>2. QED
    BY <1>0, <1>4, <2>1, CheckpointStep
<1>5. ASSUME NEW c \in Caller, Flush(c)
      PROVE  IInv' /\ [Durable!Next]_(Durable!vars) /\ disk' >= disk
  <2>1. memory' = memory /\ disk' = disk
    BY <1>5 DEF Flush, workVars
  <2>2. QED
    BY <1>0, <1>5, <2>1, FlushStep DEF Durable!Promise
<1>6. ASSUME Close
      PROVE  IInv' /\ [Durable!Next]_(Durable!vars) /\ disk' >= disk
  <2>1. memory' = memory /\ disk' = disk /\ promised' = promised
    BY <1>6 DEF Close, callerVars
  <2>2. QED
    BY <1>0, <1>6, <2>1, CloseStep
<1>7. ASSUME Sleep \/ End
      PROVE  IInv' /\ [Durable!Next]_(Durable!vars) /\ disk' >= disk
  <2>1. memory' = memory /\ disk' = disk /\ promised' = promised
    BY <1>7 DEF Sleep, End, callerVars
  <2>2. QED
    BY <1>0, <1>7, <2>1, RestStep
<1>8. ASSUME TakePending
      PROVE  IInv' /\ [Durable!Next]_(Durable!vars) /\ disk' >= disk
  <2>1. memory' = memory /\ disk' = disk /\ promised' = promised
    BY <1>8 DEF TakePending, callerVars
  <2>2. QED
    BY <1>0, <1>8, <2>1, TakePendingStep
<1>9. ASSUME NEW failed \in BOOLEAN, Written(failed)
      PROVE  IInv' /\ [Durable!Next]_(Durable!vars) /\ disk' >= disk
  <2>1. memory' = memory /\ promised' = promised
    BY <1>9 DEF Written
  <2>2. QED
    BY <1>0, <1>9, <2>1, WrittenStep DEF Durable!Save
<1>10. ASSUME Crash
       PROVE  IInv' /\ [Durable!Next]_(Durable!vars) /\ disk' >= disk
  <2>1. memory' = disk' /\ promised' = promised
    BY <1>10 DEF Crash
  <2>2. QED
    BY <1>0, <1>10, <2>1, CrashStep DEF Durable!Crash
<1>11. ASSUME UNCHANGED vars
       PROVE  IInv' /\ [Durable!Next]_(Durable!vars) /\ disk' >= disk
  <2>1. memory' = memory /\ disk' = disk /\ promised' = promised
    BY <1>11 DEF vars, callerVars, workVars
  <2>2. QED
    BY <1>0, <1>11, <2>1, StutterStep
<1>12. QED
  BY <1>1, <1>2, <1>3, <1>4, <1>5, <1>6, <1>7, <1>8, <1>9, <1>10, <1>11
     DEF Next, CallerStep, WorkerStep

LEMMA Inductive == Spec => []IInv
<1>1. Init => IInv
  BY InitHolds
<1>2. IInv /\ [Next]_vars => IInv'
  BY EveryStep
<1>3. QED
  BY <1>1, <1>2, PTL DEF Spec

(* Every variable of the store keeps its type, and the writer never        *)
(* completes more snapshots than were requested.                           *)
THEOREM TypeCorrect == Spec => []TypeOK
<1>1. IInv => TypeOK
  BY DEF IInv
<1>2. QED
  BY <1>1, Inductive, PTL

(* What commit_filing and prepare_transfers_for_restart rely on: a change  *)
(* whose flush returned Ok is on disk, now and after any crash.            *)
THEOREM FlushIsDurable == Spec => []FlushedIsDurable
<1>1. IInv => FlushedIsDurable
  BY DEF IInv
<1>2. QED
  BY <1>1, Inductive, PTL

(* The publication lock orders the snapshots, so that transfers.json never *)
(* goes back to an older state of the queue.                               *)
THEOREM DiskMovesForward == Spec => DiskNeverGoesBack
<1>1. IInv /\ [Next]_vars => [disk' >= disk]_vars
  BY EveryStep
<1>2. QED
  BY <1>1, Inductive, PTL DEF Spec, DiskNeverGoesBack

(* TransferHub's persistence and TransferWriter implement DurableQueue.    *)
THEOREM Implements == Spec => ImplementsDurableQueue
<1>1. Init => Durable!Init
  BY DEF Init, Durable!Init
<1>2. IInv /\ [Next]_vars => [Durable!Next]_(Durable!vars)
  BY EveryStep
<1>3. QED
  BY <1>1, <1>2, Inductive, PTL DEF Spec, ImplementsDurableQueue, Durable!Spec

(***************************************************************************)
(* The evidence about the listening port, and the router mapping.          *)
(***************************************************************************)
Ports == Port \cup {E!NoPort, Listening}
PortTest == [id : E!Test, session : Nat, port : Ports, seen : BOOLEAN]

EvidenceOK ==
  /\ begun \in Nat /\ current \in Nat /\ advertised \in Ports
  /\ heard \in BOOLEAN /\ checking \in BOOLEAN /\ tests \subseteq PortTest

(* The places in which a worker has the lock of the mappings, and those in *)
(* which its lease has a port.                                             *)
Locking == {"top", "creating", "held", "leased", "removing", "releasing", "lost", "failed", "asleep"}
Leased == {"held", "leased", "removing"}

WorkersOK ==
  /\ mapper \in [E!Session -> Locking \cup {"none", "queued", "done"}]
  /\ lease \in [E!Session -> Port \cup {E!NoPort}]
  /\ router \in [Port -> Nat]

(* One worker at a time has begun and not ended, and the port of its lease *)
(* is a port.                                                              *)
OneMapper ==
  \A s \in E!Session :
    /\ mapper[s] \in Locking => lock = s
    /\ mapper[s] \in Leased \cup {"releasing"} => lease[s] \in Port

ReachInv ==
  EvidenceOK /\ WorkersOK /\ OneMapper /\ E!EvidenceIsCurrent /\ E!MappingsAreTheirOwners

LEMMA ReachInitInv == E!ReachInit => ReachInv
<1> SUFFICES ASSUME E!ReachInit PROVE ReachInv OBVIOUS
<1>1. heard \in BOOLEAN /\ checking \in BOOLEAN BY Zenon DEF E!ReachInit
<1>2. EvidenceOK BY <1>1 DEF E!ReachInit, EvidenceOK, Ports
<1>3. WorkersOK BY DEF E!ReachInit, WorkersOK
<1>4. OneMapper BY DEF E!ReachInit, OneMapper, Locking, Leased
<1>5. E!EvidenceIsCurrent BY DEF E!ReachInit, E!EvidenceIsCurrent
<1>6. E!MappingsAreTheirOwners BY DEF E!ReachInit, E!MappingsAreTheirOwners
<1> QED BY <1>2, <1>3, <1>4, <1>5, <1>6 DEF ReachInv

(* What happens to the evidence while no worker moves.                     *)
LEMMA EvidenceMoves ==
  ASSUME ReachInv,
         \/ E!Offline \/ E!BeginTest \/ E!FinishTest
         \/ \E s \in E!Session : E!DropSession(s) \/ E!Incoming(s) \/ E!ExpireEvidence(s)
  PROVE  ReachInv'
<1>1. UNCHANGED <<mapper, lease, lock, router>>
  BY DEF E!Offline, E!BeginTest, E!FinishTest, E!DropSession, E!Incoming, E!ExpireEvidence, E!workers
<1>2. WorkersOK' /\ OneMapper' /\ E!MappingsAreTheirOwners'
  BY <1>1 DEF ReachInv, WorkersOK, OneMapper, E!MappingsAreTheirOwners
<1>3. SUFFICES EvidenceOK' /\ E!EvidenceIsCurrent' BY <1>2 DEF ReachInv
<1> USE DEF ReachInv, EvidenceOK
<1>4. CASE E!Offline
  <2>1. heard' = FALSE /\ checking' = FALSE /\ direct' = "Unknown" BY <1>4, Zenon DEF E!Offline
  <2> QED BY <1>4, <2>1 DEF E!Offline, E!EvidenceIsCurrent, Ports
<1>5. CASE E!BeginTest
  <2>1. PICK n \in E!Test : tests' = tests \cup {[id |-> n, session |-> current, port |-> advertised, seen |-> FALSE]}
    BY <1>5 DEF E!BeginTest
  <2> DEFINE t == [id |-> n, session |-> current, port |-> advertised, seen |-> FALSE]
  <2>2. FALSE \in BOOLEAN OBVIOUS
  <2>3. t \in PortTest /\ t.session = current BY <2>2 DEF PortTest
  <2> HIDE DEF t
  <2>4. checking' \in BOOLEAN BY <1>5, Zenon DEF E!BeginTest
  <2>5. tests' \subseteq PortTest /\ t \in tests' BY <2>1, <2>3 DEF t
  <2>6. UNCHANGED <<begun, current, advertised, direct, heard, judged>> BY <1>5 DEF E!BeginTest
  <2> QED BY <2>3, <2>4, <2>5, <2>6 DEF E!EvidenceIsCurrent
<1>6. CASE E!FinishTest
  <2>1. PICK t \in tests, shut \in BOOLEAN :
          /\ tests' = tests \ {t}
          /\ IF t.session = current
             THEN checking' = FALSE /\ E!Judge(t, shut)
             ELSE UNCHANGED <<checking, judged, direct, heard>>
          /\ UNCHANGED <<begun, current, advertised>>
    BY <1>6 DEF E!FinishTest
  <2>2. t \in PortTest /\ t.seen \in BOOLEAN BY DEF PortTest
  <2>3. CASE t.session # current
    BY <2>1, <2>3 DEF E!EvidenceIsCurrent
  <2>4. CASE t.session = current
    <3>1. checking' \in BOOLEAN /\ ~checking' BY <2>1, <2>4, Zenon
    <3>2. CASE advertised # t.port
      BY <2>1, <2>4, <3>1, <3>2 DEF E!EvidenceIsCurrent, E!Judge
    <3>3. CASE advertised = t.port
      <4>1. /\ judged' = t.port /\ heard' = t.seen
            /\ direct' = IF t.seen THEN "Reachable" ELSE IF shut THEN "Firewalled" ELSE "Unknown"
        BY <2>1, <2>4, <3>3 DEF E!Judge
      <4>2. heard' \in BOOLEAN BY <2>2, <4>1
      <4>3. (direct' = "Reachable") = heard' BY <2>2, <4>1
      <4>4. direct' = "Firewalled" => judged' = advertised' BY <2>1, <3>3, <4>1
      <4> QED BY <2>1, <3>1, <4>2, <4>3, <4>4 DEF E!EvidenceIsCurrent
    <3> QED BY <3>2, <3>3
  <2> QED BY <2>3, <2>4
<1>7. ASSUME NEW s \in E!Session, E!DropSession(s) PROVE EvidenceOK' /\ E!EvidenceIsCurrent'
  BY <1>7 DEF E!DropSession, E!evidence, E!EvidenceIsCurrent
<1>8. ASSUME NEW s \in E!Session, E!Incoming(s) PROVE EvidenceOK' /\ E!EvidenceIsCurrent'
  <2>1. tests' = {[t EXCEPT !.seen = TRUE] : t \in tests} /\ UNCHANGED <<begun, current, advertised, checking, judged>>
    BY <1>8 DEF E!Incoming
  <2>2. heard' \in BOOLEAN /\ heard' /\ direct' = "Reachable" BY <1>8, Zenon DEF E!Incoming
  <2>3. TRUE \in BOOLEAN OBVIOUS
  <2>4. ASSUME NEW t \in tests
        PROVE  [t EXCEPT !.seen = TRUE] \in PortTest /\ [t EXCEPT !.seen = TRUE].session = t.session
    BY <2>3 DEF PortTest
  <2>5. tests' \subseteq PortTest BY <2>1, <2>4
  <2>6. checking' => \E t \in tests' : t.session = current' BY <2>1, <2>4 DEF E!EvidenceIsCurrent
  <2> QED BY <2>1, <2>2, <2>5, <2>6 DEF E!EvidenceIsCurrent
<1>9. ASSUME NEW s \in E!Session, E!ExpireEvidence(s) PROVE EvidenceOK' /\ E!EvidenceIsCurrent'
  <2>1. heard' \in BOOLEAN /\ ~heard' /\ direct' = "Unknown" BY <1>9, Zenon DEF E!ExpireEvidence
  <2> QED BY <1>9, <2>1 DEF E!ExpireEvidence, E!EvidenceIsCurrent
<1> QED BY <1>4, <1>5, <1>6, <1>7, <1>8, <1>9

LEMMA BeginKeeps ==
  ASSUME ReachInv, NEW automatic \in BOOLEAN, E!BeginSession(automatic)
  PROVE  ReachInv'
<1>1. /\ begun' = begun + 1 /\ current' = begun + 1 /\ advertised' = Listening
      /\ mapper' = [mapper EXCEPT ![begun + 1] = IF automatic THEN "queued" ELSE "none"]
      /\ UNCHANGED <<tests, judged, dropped, lease, lock, router>>
  BY DEF E!BeginSession
<1>2. heard' \in BOOLEAN /\ ~heard' /\ checking' \in BOOLEAN /\ ~checking' /\ direct' = "Unknown"
  BY Zenon DEF E!BeginSession
<1>3. EvidenceOK' /\ E!EvidenceIsCurrent'
  BY <1>1, <1>2 DEF ReachInv, EvidenceOK, E!EvidenceIsCurrent, Ports
<1>4. \A s \in E!Session : mapper'[s] = mapper[s] \/ mapper'[s] \in {"none", "queued"}
  BY <1>1 DEF ReachInv, WorkersOK
<1>5. WorkersOK' BY <1>1 DEF ReachInv, WorkersOK
<1>6. OneMapper' /\ E!MappingsAreTheirOwners'
  BY <1>1, <1>4 DEF ReachInv, OneMapper, E!MappingsAreTheirOwners, Locking, Leased
<1> QED BY <1>3, <1>5, <1>6 DEF ReachInv

(* A worker that moves has the lock, so that no other one has a mapping;   *)
(* it is enough to look at the moving one.                                 *)
LEMMA MapperMoves ==
  ASSUME WorkersOK, OneMapper, E!MappingsAreTheirOwners, WorkersOK', NEW s \in E!Session,
         NEW at, mapper' = [mapper EXCEPT ![s] = at],
         lock = s \/ (lock = 0 /\ UNCHANGED <<lease, router>>),
         \A t \in E!Session \ {s} : lease'[t] = lease[t],
         at \in Locking => lock' = s,
         at \in Leased \cup {"releasing"} => lease'[s] \in Port,
         at \in Leased => router'[lease'[s]] = s
  PROVE  OneMapper' /\ E!MappingsAreTheirOwners'
<1>1. mapper'[s] = at /\ \A t \in E!Session \ {s} : mapper'[t] = mapper[t]
  BY DEF WorkersOK
<1>2. \A t \in E!Session \ {s} : mapper[t] \notin Locking
  BY DEF OneMapper, E!Session
<1>3. Leased \subseteq Locking /\ "releasing" \in Locking BY DEF Leased, Locking
<1>4. ASSUME NEW t \in E!Session
      PROVE  /\ mapper'[t] \in Locking => lock' = t
             /\ mapper'[t] \in Leased \cup {"releasing"} => lease'[t] \in Port
             /\ mapper'[t] \in Leased => router'[lease'[t]] = t
  <2>1. CASE t = s BY <1>1, <2>1
  <2>2. CASE t # s BY <1>1, <1>2, <1>3, <2>2
  <2> QED BY <2>1, <2>2
<1>5. E!MappingsAreTheirOwners' BY <1>4 DEF E!MappingsAreTheirOwners, Leased
<1>6. OneMapper' BY <1>4 DEF OneMapper
<1> QED BY <1>5, <1>6

LEMMA MapperKeeps ==
  ASSUME ReachInv, NEW s \in E!Session, E!WorkerStep(s)
  PROVE  WorkersOK' /\ OneMapper' /\ E!MappingsAreTheirOwners'
<1> USE DEF ReachInv, E!Moves
<1>0. /\ mapper[s] \in Locking => lock = s
      /\ s \in Int /\ s # 0 /\ s \in Nat
  BY DEF OneMapper, E!Session
<1>1. ASSUME NEW at \in {"queued", "top", "asleep"}, E!Ends(s, at)
      PROVE  WorkersOK' /\ OneMapper' /\ E!MappingsAreTheirOwners'
  <2>1. mapper' = [mapper EXCEPT ![s] = "done"] /\ UNCHANGED <<lease, router>> BY <1>1 DEF E!Ends
  <2>2. WorkersOK' BY <2>1 DEF WorkersOK
  <2>3. lock' = IF lock = s THEN 0 ELSE lock BY <1>1 DEF E!Ends
  <2>4. mapper'[s] = "done" /\ \A t \in E!Session \ {s} : mapper'[t] = mapper[t]
    BY <2>1 DEF WorkersOK
  <2> QED BY <2>1, <2>2, <2>3, <2>4 DEF OneMapper, E!MappingsAreTheirOwners, Locking, Leased
<1>2. CASE E!Locks(s)
  <2>1. mapper' = [mapper EXCEPT ![s] = "top"] /\ lock = 0 /\ lock' = s /\ UNCHANGED <<lease, router>>
    BY <1>2 DEF E!Locks
  <2>2. WorkersOK' BY <2>1 DEF WorkersOK, Locking
  <2> QED BY <2>1, <2>2, MapperMoves DEF Leased
<1>3. CASE E!Discovers(s)
  <2>1. PICK at \in {"creating", "top"} :
          mapper' = [mapper EXCEPT ![s] = at] /\ UNCHANGED <<lease, router, lock>>
    BY <1>3 DEF E!Discovers
  <2>2. lock = s BY <1>0, <1>3 DEF E!Discovers, Locking
  <2>3. WorkersOK' BY <2>1 DEF WorkersOK, Locking
  <2>4. at \notin Leased \cup {"releasing"} BY DEF Leased
  <2> QED BY <2>1, <2>2, <2>3, <2>4, MapperMoves
<1>4. CASE E!Creates(s)
  <2>1. PICK p \in Port :
          \/ E!Moves(s, "creating", "held") /\ router' = [router EXCEPT ![p] = s]
             /\ lease' = [lease EXCEPT ![s] = p]
          \/ E!Moves(s, "creating", "failed") /\ UNCHANGED lease
             /\ router' \in {router, [router EXCEPT ![p] = s]}
    BY <1>4 DEF E!Creates
  <2>2. lock = s /\ lock' = lock BY <1>0, <1>4, <2>1 DEF E!Creates, Locking
  <2>3. CASE /\ E!Moves(s, "creating", "held") /\ router' = [router EXCEPT ![p] = s]
             /\ lease' = [lease EXCEPT ![s] = p]
    <3>1. WorkersOK' BY <1>0, <2>3 DEF WorkersOK, Locking
    <3>2. lease'[s] = p /\ router'[p] = s /\ \A t \in E!Session \ {s} : lease'[t] = lease[t]
      BY <2>3 DEF WorkersOK
    <3> QED BY <2>2, <2>3, <3>1, <3>2, MapperMoves
  <2>4. CASE /\ E!Moves(s, "creating", "failed") /\ UNCHANGED lease
             /\ router' \in {router, [router EXCEPT ![p] = s]}
    <3>1. WorkersOK' BY <1>0, <2>4 DEF WorkersOK, Locking
    <3> QED BY <2>2, <2>4, <3>1, MapperMoves DEF Leased
  <2> QED BY <2>1, <2>3, <2>4
<1>5. CASE E!Publishes(s)
  <2>1. mapper[s] = "held" /\ mapper' = [mapper EXCEPT ![s] = "leased"] /\ UNCHANGED <<lease, lock, router>>
    BY <1>5 DEF E!Publishes
  <2>2. WorkersOK' BY <2>1 DEF WorkersOK, Locking
  <2>3. lock = s /\ lease[s] \in Port /\ router[lease[s]] = s
    BY <1>0, <2>1 DEF OneMapper, E!MappingsAreTheirOwners, Locking, Leased
  <2> QED BY <2>1, <2>2, <2>3, MapperMoves
<1>6. CASE E!Renews(s)
  <2>1. lock' = lock /\ mapper[s] = "leased" BY <1>6 DEF E!Renews
  <2>2. lock = s /\ lease[s] \in Port BY <1>0, <2>1 DEF OneMapper, Locking, Leased
  <2>3. ASSUME NEW p \in Port, E!Moves(s, "leased", "held"), lease' = [lease EXCEPT ![s] = p],
               router' = [router EXCEPT ![lease[s]] = 0, ![p] = s]
        PROVE  WorkersOK' /\ OneMapper' /\ E!MappingsAreTheirOwners'
    <3>1. WorkersOK' BY <1>0, <2>2, <2>3 DEF WorkersOK, Locking
    <3>2. lease'[s] = p /\ router'[p] = s /\ \A t \in E!Session \ {s} : lease'[t] = lease[t]
      BY <2>3 DEF WorkersOK
    <3> QED BY <2>1, <2>2, <2>3, <3>1, <3>2, MapperMoves
  <2>4. ASSUME E!Moves(s, "leased", "releasing"), UNCHANGED lease,
               router' \in {router, [router EXCEPT ![lease[s]] = 0]}
        PROVE  WorkersOK' /\ OneMapper' /\ E!MappingsAreTheirOwners'
    <3>1. WorkersOK' BY <2>2, <2>4 DEF WorkersOK, Locking
    <3> QED BY <2>1, <2>2, <2>4, <3>1, MapperMoves DEF Leased
  <2> QED BY <1>6, <2>3, <2>4 DEF E!Renews
<1>7. CASE E!Leaves(s)
  <2>1. mapper[s] \in {"held", "leased"} /\ mapper' = [mapper EXCEPT ![s] = "removing"]
        /\ UNCHANGED <<lease, lock, router>>
    BY <1>7 DEF E!Leaves
  <2>2. WorkersOK' BY <2>1 DEF WorkersOK, Locking
  <2>3. lock = s /\ lease[s] \in Port /\ router[lease[s]] = s
    BY <1>0, <2>1 DEF OneMapper, E!MappingsAreTheirOwners, Locking, Leased
  <2> QED BY <2>1, <2>2, <2>3, MapperMoves
<1>8. CASE E!Deletes(s)
  <2>1. PICK at \in {"done", "lost"} :
          /\ mapper' = [mapper EXCEPT ![s] = at] /\ lease' = [lease EXCEPT ![s] = E!NoPort]
          /\ at = "lost" => lock' = lock
          /\ router' \in {router, [router EXCEPT ![lease[s]] = 0]}
    BY <1>8 DEF E!Deletes, WorkersOK
  <2>2. lock = s /\ lease[s] \in Port BY <1>0, <1>8 DEF E!Deletes, OneMapper, Locking, Leased
  <2>3. WorkersOK' BY <2>1, <2>2 DEF WorkersOK, Locking
  <2>4. \A t \in E!Session \ {s} : lease'[t] = lease[t] BY <2>1 DEF WorkersOK
  <2>5. at \notin Leased \cup {"releasing"} /\ (at \in Locking => lock' = s)
    BY <2>1, <2>2 DEF Leased, Locking
  <2> QED BY <2>1, <2>2, <2>3, <2>4, <2>5, MapperMoves
<1>9. CASE E!Loses(s) \/ E!Unavailable(s)
  <2>1. PICK at \in {"failed", "asleep"} :
          mapper' = [mapper EXCEPT ![s] = at] /\ UNCHANGED <<lease, lock, router>>
    BY <1>9 DEF E!Loses, E!Unavailable
  <2>2. lock = s BY <1>0, <1>9 DEF E!Loses, E!Unavailable, Locking
  <2>3. WorkersOK' BY <2>1 DEF WorkersOK, Locking
  <2>4. at \notin Leased \cup {"releasing"} BY DEF Leased
  <2> QED BY <2>1, <2>2, <2>3, <2>4, MapperMoves
<1> QED BY <1>1, <1>2, <1>3, <1>4, <1>5, <1>6, <1>7, <1>8, <1>9 DEF E!WorkerStep

LEMMA MapperTells ==
  ASSUME ReachInv, NEW s \in E!Session, E!WorkerStep(s)
  PROVE  EvidenceOK' /\ E!EvidenceIsCurrent'
<1> USE DEF ReachInv, EvidenceOK, E!EvidenceIsCurrent
<1>1. CASE UNCHANGED <<begun, current, advertised, direct, heard, checking, judged, tests>>
  BY <1>1
<1>2. CASE E!Publishes(s)
  <2>1. UNCHANGED <<begun, current, checking, judged, tests>> BY <1>2 DEF E!Publishes
  <2>2. mapper[s] = "held" BY <1>2 DEF E!Publishes, E!Moves
  <2>3. lease[s] \in Ports BY <2>2 DEF OneMapper, Leased, Ports
  <2>4. CASE s = current /\ advertised # lease[s]
    <3>1. heard' \in BOOLEAN /\ ~heard' /\ direct' = "Unknown" /\ advertised' = lease[s]
      BY <1>2, <2>4, Zenon DEF E!Publishes
    <3> QED BY <2>1, <2>3, <3>1
  <2>5. CASE ~(s = current /\ advertised # lease[s])
    <3>1. UNCHANGED <<advertised, heard, direct>> BY <1>2, <2>5 DEF E!Publishes
    <3> QED BY <2>1, <3>1
  <2> QED BY <2>4, <2>5
<1>3. CASE E!Loses(s)
  <2>1. UNCHANGED <<begun, current, advertised, checking, judged, tests>> BY <1>3 DEF E!Loses
  <2>2. CASE s = current
    <3>1. heard' \in BOOLEAN /\ ~heard' /\ direct' = "Unknown" BY <1>3, <2>2, Zenon DEF E!Loses
    <3> QED BY <2>1, <3>1
  <2>3. CASE s # current
    <3>1. UNCHANGED <<heard, direct>> BY <1>3, <2>3 DEF E!Loses
    <3> QED BY <2>1, <3>1
  <2> QED BY <2>2, <2>3
<1>4. CASE E!Unavailable(s)
  <2>1. UNCHANGED <<begun, current, heard, checking, judged, tests>> BY <1>4 DEF E!Unavailable
  <2>2. CASE s = current
    <3>1. advertised' = Listening /\ direct' = IF direct = "Reachable" THEN direct ELSE "Unknown"
      BY <1>4, <2>2 DEF E!Unavailable
    <3>2. (direct' = "Reachable") = (direct = "Reachable") /\ direct' # "Firewalled" BY <3>1
    <3> QED BY <2>1, <3>1, <3>2 DEF Ports
  <2>3. CASE s # current
    <3>1. UNCHANGED <<advertised, direct>> BY <1>4, <2>3 DEF E!Unavailable
    <3> QED BY <2>1, <3>1
  <2> QED BY <2>2, <2>3
<1> QED BY <1>1, <1>2, <1>3, <1>4
     DEF E!WorkerStep, E!Ends, E!Locks, E!Discovers, E!Creates, E!Renews, E!Leaves, E!Deletes, E!evidence

LEMMA ReachStep ==
  ASSUME ReachInv, [E!ReachNext]_reachVars
  PROVE  ReachInv'
<1>1. CASE UNCHANGED reachVars
  BY <1>1 DEF ReachInv, reachVars, EvidenceOK, WorkersOK, OneMapper, E!EvidenceIsCurrent, E!MappingsAreTheirOwners
<1>2. ASSUME NEW s \in E!Session, E!WorkerStep(s) PROVE ReachInv'
  BY <1>2, MapperKeeps, MapperTells DEF ReachInv
<1> QED BY <1>1, <1>2, EvidenceMoves, BeginKeeps DEF E!ReachNext

-----------------------------------------------------------------------------
(* The life cycle of the connection.                                       *)

CommandPlaces == {"idle", "bump", "unsend", "take", "hubs", "show", "rebump", "spawn", "store", "abort", "await"}
TaskPlaces ==
  {"none", "spawned", "top", "announce", "dial", "reached", "login", "accepted", "setup", "ready",
   "joins", "online", "ended", "unsends", "unhubs", "shows", "sleep", "return", "done", "gone"}

ConnOK ==
  /\ generation \in Nat /\ slot \in Nat /\ overlapped \in BOOLEAN
  /\ task \in [N!Generations -> TaskPlaces]
  /\ caller \in [Callers -> [op : N!Operations \cup {"none"}, at : CommandPlaces, mine : Nat]]
  /\ \A c \in Callers : caller[c].at = "idle" <=> caller[c] = N!Idle

(* An attempt that goes on, and that nobody has told to stop.              *)
Lives(g) == ~N!Finished(g) /\ g \notin aborted /\ task[g] # "return"

(* What a command in each place knows of the attempts that live: the slot  *)
(* has the only one until it is taken out; shutdown holds it from its      *)
(* beginning; connect makes a new one only when there is none.             *)
Holds(c) ==
  IF caller[c].op = "shutdown"
  THEN CASE caller[c].at \in {"bump", "unsend", "take", "hubs", "show", "abort"} ->
              \A g \in N!Generations : Lives(g) => caller[c].mine = g
         [] caller[c].at = "await" ->
              \A g \in N!Generations : ~Lives(g)
         [] OTHER -> FALSE
  ELSE CASE caller[c].at \in {"bump", "unsend", "take"} ->
              \A g \in N!Generations : Lives(g) => slot = g
         [] caller[c].at \in {"hubs", "show", "rebump"} ->
              \A g \in N!Generations : ~Lives(g)
         [] caller[c].at = "spawn" ->
              generation = caller[c].mine /\ \A g \in N!Generations : ~Lives(g)
         [] caller[c].at = "store" ->
              generation = caller[c].mine /\ \A g \in N!Generations : Lives(g) => caller[c].mine = g
         [] OTHER -> FALSE

Current == \A g \in N!Generations : Lives(g) => slot = g /\ generation = g
Calls(c) == caller[c] # N!Idle

CommandsInv ==
  ~overlapped =>
    /\ \A c, d \in Callers : Calls(c) /\ Calls(d) => c = d
    /\ \A c \in Callers : Calls(c) => Holds(c)
    /\ (\A c \in Callers : ~Calls(c)) => Current

ConnInv == ConnOK /\ CommandsInv

LEMMA ConnInitInv == N!ConnInit => ConnInv
<1> SUFFICES ASSUME N!ConnInit PROVE ConnInv OBVIOUS
<1>1. overlapped \in BOOLEAN BY Zenon DEF N!ConnInit
<1>2. ConnOK BY <1>1 DEF N!ConnInit, ConnOK, TaskPlaces, CommandPlaces, N!Idle, N!Operations
<1>3. \A g \in N!Generations : N!Finished(g) BY DEF N!ConnInit, N!Finished
<1>4. \A c \in Callers : ~Calls(c) BY DEF N!ConnInit, Calls
<1>5. CommandsInv BY <1>3, <1>4 DEF CommandsInv, Current, Lives
<1> QED BY <1>2, <1>5 DEF ConnInv

(* A command begins when no other is under way, or commands overlap.       *)
LEMMA BeginCommand ==
  ASSUME ConnInv, NEW c \in Callers, NEW op \in N!Operations, N!Begin(c, op)
  PROVE  ConnInv'
<1> DEFINE e == [op |-> op, at |-> "bump", mine |-> IF op = "shutdown" THEN slot ELSE 0]
<1>1. /\ caller[c] = N!Idle /\ caller' = [caller EXCEPT ![c] = e]
      /\ slot' = IF op = "shutdown" THEN 0 ELSE slot
      /\ UNCHANGED <<generation, task, aborted>>
      /\ overlapped' = (overlapped \/ \E d \in Callers : caller[d] # N!Idle)
  BY DEF N!Begin
<1>2. /\ e \in [op : N!Operations \cup {"none"}, at : CommandPlaces, mine : Nat]
      /\ e.op = op /\ e.at = "bump" /\ (op = "shutdown" => e.mine = slot) /\ e # N!Idle
  BY DEF ConnInv, ConnOK, CommandPlaces, N!Idle
<1> HIDE DEF e
<1>3. caller'[c] = e /\ \A d \in Callers \ {c} : caller'[d] = caller[d] BY <1>1 DEF ConnInv, ConnOK
<1>4. overlapped' \in BOOLEAN BY <1>1 DEF ConnInv, ConnOK
<1>5. slot' \in Nat BY <1>1 DEF ConnInv, ConnOK
<1>6. caller' \in [Callers -> [op : N!Operations \cup {"none"}, at : CommandPlaces, mine : Nat]]
  BY <1>1, <1>2 DEF ConnInv, ConnOK
<1>7. \A d \in Callers : caller'[d].at = "idle" <=> caller'[d] = N!Idle
  BY <1>2, <1>3 DEF ConnInv, ConnOK
<1>8. ConnOK' BY <1>1, <1>4, <1>5, <1>6, <1>7 DEF ConnInv, ConnOK
<1>9. ASSUME ~overlapped' PROVE CommandsInv'
  <2>1. ~overlapped /\ \A d \in Callers : caller[d] = N!Idle BY <1>1, <1>9
  <2>2. \A g \in N!Generations : Lives(g)' = Lives(g) BY <1>1 DEF Lives, N!Finished
  <2>3. \A g \in N!Generations : Lives(g) => slot = g BY <2>1 DEF ConnInv, CommandsInv, Calls, Current
  <2>4. Holds(c)' BY <1>1, <1>2, <1>3, <2>2, <2>3 DEF Holds
  <2> QED BY <1>2, <1>3, <2>1, <2>4 DEF CommandsInv, Calls
<1> QED BY <1>8, <1>9 DEF ConnInv, CommandsInv

(* A step of a command moves it and nobody else.  It is enough to look at  *)
(* the command that moves, when no other one is under way.                 *)
CallersOK ==
  /\ caller \in [Callers -> [op : N!Operations \cup {"none"}, at : CommandPlaces, mine : Nat]]
  /\ \A c \in Callers : caller[c].at = "idle" <=> caller[c] = N!Idle

LEMMA Going ==
  ASSUME CallersOK, NEW c \in Callers, Calls(c), NEW to \in CommandPlaces \ {"idle"}, NEW own \in Nat,
         \/ N!Goes(c, to) /\ own = caller[c].mine
         \/ caller' = [caller EXCEPT ![c].at = to, ![c].mine = own]
  PROVE  /\ CallersOK' /\ Calls(c)'
         /\ caller'[c].op = caller[c].op /\ caller'[c].at = to /\ caller'[c].mine = own
         /\ \A d \in Callers \ {c} : caller'[d] = caller[d]
<1> USE DEF CallersOK
<1>1. caller[c] \in [op : N!Operations \cup {"none"}, at : CommandPlaces, mine : Nat] OBVIOUS
<1> DEFINE e == [op |-> caller[c].op, at |-> to, mine |-> own]
<1>2. /\ e \in [op : N!Operations \cup {"none"}, at : CommandPlaces, mine : Nat]
      /\ e.op = caller[c].op /\ e.at = to /\ e.mine = own /\ e # N!Idle
  BY <1>1 DEF N!Idle
<1>3. caller' = [caller EXCEPT ![c] = e]
  BY <1>1 DEF N!Goes
<1> HIDE DEF e
<1>4. caller'[c] = e /\ \A d \in Callers \ {c} : caller'[d] = caller[d] BY <1>3
<1>5. caller' \in [Callers -> [op : N!Operations \cup {"none"}, at : CommandPlaces, mine : Nat]] BY <1>2, <1>3
<1>6. \A d \in Callers : caller'[d].at = "idle" <=> caller'[d] = N!Idle BY <1>2, <1>4
<1> QED BY <1>2, <1>4, <1>5, <1>6 DEF Calls

LEMMA Returning ==
  ASSUME CallersOK, NEW c \in Callers, N!Returns(c)
  PROVE  /\ CallersOK' /\ ~Calls(c)'
         /\ \A d \in Callers \ {c} : caller'[d] = caller[d]
<1>1. N!Idle \in [op : N!Operations \cup {"none"}, at : CommandPlaces, mine : Nat] /\ N!Idle.at = "idle"
  BY DEF N!Idle, CommandPlaces
<1>2. caller' = [caller EXCEPT ![c] = N!Idle] BY DEF N!Returns
<1> QED BY <1>1, <1>2 DEF CallersOK, Calls

LEMMA CommandMoves ==
  ASSUME CommandsInv, NEW c \in Callers, Calls(c), overlapped' = overlapped,
         \A d \in Callers \ {c} : caller'[d] = caller[d],
         ~overlapped => (Calls(c)' /\ Holds(c)') \/ (~Calls(c)' /\ Current')
  PROVE  CommandsInv'
<1>1. SUFFICES ASSUME ~overlapped PROVE CommandsInv' BY DEF CommandsInv
<1>2. \A d \in Callers \ {c} : ~Calls(d)' BY <1>1 DEF CommandsInv, Calls
<1>3. CASE Calls(c)'
  <2>1. Holds(c)' BY <1>1, <1>3
  <2>2. ~(\A d \in Callers : ~Calls(d))' BY <1>3
  <2> QED BY <1>2, <1>3, <2>1, <2>2 DEF CommandsInv
<1>4. CASE ~Calls(c)'
  <2>1. Current' BY <1>1, <1>4
  <2> QED BY <1>2, <1>4, <2>1 DEF CommandsInv
<1> QED BY <1>3, <1>4

LEMMA CommandStep ==
  ASSUME ConnInv, NEW c \in Callers, N!CallerStep(c)
  PROVE  ConnInv'
<1>0. CallersOK /\ CommandsInv BY DEF ConnInv, ConnOK, CallersOK
<1>1. caller[c].at \in CommandPlaces \ {"idle"} /\ overlapped' = overlapped
  BY DEF N!CallerStep, N!Bump, N!Unsend, N!TakeTask, N!HubsDown, N!ShowOffline, N!Rebump, N!Spawn, N!StoreTask,
         N!ShutdownAborts, N!ShutdownReturns, CommandPlaces
<1>2. Calls(c) /\ caller[c].mine \in Nat BY <1>0, <1>1 DEF CallersOK, Calls
<1>3. ~overlapped => Holds(c) BY <1>0, <1>2 DEF CommandsInv
<1>4. /\ generation \in Nat /\ slot \in Nat /\ overlapped \in BOOLEAN
      /\ task \in [N!Generations -> TaskPlaces]
  BY DEF ConnInv, ConnOK
<1>5. SUFFICES /\ CallersOK' /\ \A d \in Callers \ {c} : caller'[d] = caller[d]
               /\ generation' \in Nat /\ slot' \in Nat /\ task' \in [N!Generations -> TaskPlaces]
               /\ ~overlapped => (Calls(c)' /\ Holds(c)') \/ (~Calls(c)' /\ Current')
  BY <1>0, <1>1, <1>2, <1>4, CommandMoves DEF ConnInv, ConnOK, CallersOK
<1>6. CASE N!Bump(c)
  <2>1. /\ generation' = generation + 1 /\ N!Goes(c, "unsend") /\ caller[c].at = "bump"
        /\ UNCHANGED <<slot, task, aborted>>
    BY <1>6 DEF N!Bump
  <2>2. \A g \in N!Generations : Lives(g)' = Lives(g) BY <2>1 DEF Lives, N!Finished
  <2>3. "unsend" \in CommandPlaces \ {"idle"} BY DEF CommandPlaces
  <2>4. /\ CallersOK' /\ Calls(c)' /\ \A d \in Callers \ {c} : caller'[d] = caller[d]
        /\ caller'[c].op = caller[c].op /\ caller'[c].at = "unsend" /\ caller'[c].mine = caller[c].mine
    BY <1>0, <1>2, <2>1, <2>3, Going
  <2>5. Holds(c) => Holds(c)' BY <2>1, <2>2, <2>4 DEF Holds
  <2> QED BY <1>3, <1>4, <2>1, <2>4, <2>5
<1>7. CASE N!Unsend(c)
  <2>1. /\ N!Goes(c, "take") /\ caller[c].at = "unsend" /\ UNCHANGED <<generation, slot, task, aborted>>
    BY <1>7 DEF N!Unsend
  <2>2. \A g \in N!Generations : Lives(g)' = Lives(g) BY <2>1 DEF Lives, N!Finished
  <2>3. "take" \in CommandPlaces \ {"idle"} BY DEF CommandPlaces
  <2>4. /\ CallersOK' /\ Calls(c)' /\ \A d \in Callers \ {c} : caller'[d] = caller[d]
        /\ caller'[c].op = caller[c].op /\ caller'[c].at = "take" /\ caller'[c].mine = caller[c].mine
    BY <1>0, <1>2, <2>1, <2>3, Going
  <2>5. Holds(c) => Holds(c)' BY <2>1, <2>2, <2>4 DEF Holds
  <2> QED BY <1>3, <1>4, <2>1, <2>4, <2>5
<1>8. CASE N!TakeTask(c)
  <2>1. /\ N!Goes(c, "hubs") /\ caller[c].at = "take" /\ slot' = 0 /\ UNCHANGED <<generation, task>>
        /\ aborted' = IF slot # 0 THEN aborted \cup {slot} ELSE aborted
    BY <1>8 DEF N!TakeTask
  <2>2. \A g \in N!Generations : (Lives(g)' => Lives(g)) /\ (Lives(g)' => slot # g)
    BY <2>1 DEF Lives, N!Finished, N!Generations
  <2>3. "hubs" \in CommandPlaces \ {"idle"} BY DEF CommandPlaces
  <2>4. /\ CallersOK' /\ Calls(c)' /\ \A d \in Callers \ {c} : caller'[d] = caller[d]
        /\ caller'[c].op = caller[c].op /\ caller'[c].at = "hubs" /\ caller'[c].mine = caller[c].mine
    BY <1>0, <1>2, <2>1, <2>3, Going
  <2>5. Holds(c) => Holds(c)' BY <2>1, <2>2, <2>4 DEF Holds
  <2> QED BY <1>3, <1>4, <2>1, <2>4, <2>5
<1>9. CASE N!HubsDown(c)
  <2>1. PICK to \in {"rebump", "show"} :
          /\ N!Goes(c, to) /\ (to = "rebump" => caller[c].op # "shutdown")
          /\ caller[c].at = "hubs" /\ UNCHANGED <<generation, slot, task, aborted>>
    BY <1>9 DEF N!HubsDown
  <2>2. \A g \in N!Generations : Lives(g)' = Lives(g) BY <2>1 DEF Lives, N!Finished
  <2>3. to \in CommandPlaces \ {"idle"} BY DEF CommandPlaces
  <2>4. /\ CallersOK' /\ Calls(c)' /\ \A d \in Callers \ {c} : caller'[d] = caller[d]
        /\ caller'[c].op = caller[c].op /\ caller'[c].at = to /\ caller'[c].mine = caller[c].mine
    <3>1. N!Goes(c, to) BY <2>1
    <3>2. PICK own : own = caller[c].mine OBVIOUS
    <3>3. own \in Nat BY <1>2, <3>2
    <3>4. /\ CallersOK' /\ Calls(c)' /\ \A d \in Callers \ {c} : caller'[d] = caller[d]
          /\ caller'[c].op = caller[c].op /\ caller'[c].at = to /\ caller'[c].mine = own
      BY <1>0, <1>2, <2>3, <3>1, <3>2, <3>3, Going
    <3> QED BY <3>2, <3>4
  <2>5. Holds(c) => Holds(c)' BY <2>1, <2>2, <2>4 DEF Holds
  <2> QED BY <1>3, <1>4, <2>1, <2>4, <2>5
<1>10. CASE N!ShowOffline(c)
  <2>1. caller[c].at = "show" /\ UNCHANGED <<generation, slot, task, aborted>> BY <1>10 DEF N!ShowOffline
  <2>2. \A g \in N!Generations : Lives(g)' = Lives(g) BY <2>1 DEF Lives, N!Finished
  <2>3. "abort" \in CommandPlaces \ {"idle"} BY DEF CommandPlaces
  <2>4. CASE caller[c].op = "shutdown"
    <3>1. N!Goes(c, "abort") BY <1>10, <2>4 DEF N!ShowOffline
    <3>2. /\ CallersOK' /\ Calls(c)' /\ \A d \in Callers \ {c} : caller'[d] = caller[d]
          /\ caller'[c].op = caller[c].op /\ caller'[c].at = "abort" /\ caller'[c].mine = caller[c].mine
      BY <1>0, <1>2, <2>3, <3>1, Going
    <3>3. Holds(c) => Holds(c)' BY <2>1, <2>2, <2>4, <3>2 DEF Holds
    <3> QED BY <1>3, <1>4, <2>1, <3>2, <3>3
  <2>5. CASE caller[c].op # "shutdown"
    <3>1. N!Returns(c) BY <1>10, <2>5 DEF N!ShowOffline
    <3>2. CallersOK' /\ ~Calls(c)' /\ \A d \in Callers \ {c} : caller'[d] = caller[d]
      BY <1>0, <3>1, Returning
    <3>3. Holds(c) => Current' BY <2>1, <2>2, <2>5 DEF Holds, Current
    <3> QED BY <1>3, <1>4, <2>1, <3>2, <3>3
  <2> QED BY <2>4, <2>5
<1>11. CASE N!Rebump(c)
  <2>1. /\ caller' = [caller EXCEPT ![c].at = "spawn", ![c].mine = generation + 1]
        /\ generation' = generation + 1 /\ caller[c].at = "rebump" /\ UNCHANGED <<slot, task, aborted>>
    BY <1>11 DEF N!Rebump
  <2>2. \A g \in N!Generations : Lives(g)' = Lives(g) BY <2>1 DEF Lives, N!Finished
  <2>3. "spawn" \in CommandPlaces \ {"idle"} /\ generation + 1 \in Nat BY <1>4 DEF CommandPlaces
  <2>4. /\ CallersOK' /\ Calls(c)' /\ \A d \in Callers \ {c} : caller'[d] = caller[d]
        /\ caller'[c].op = caller[c].op /\ caller'[c].at = "spawn" /\ caller'[c].mine = generation + 1
    BY <1>0, <1>2, <2>1, <2>3, Going
  <2>5. Holds(c) => Holds(c)' BY <2>1, <2>2, <2>4 DEF Holds
  <2> QED BY <1>3, <1>4, <2>1, <2>3, <2>4, <2>5
<1>12. CASE N!Spawn(c)
  <2>1. /\ task' = [task EXCEPT ![caller[c].mine] = "spawned"] /\ N!Goes(c, "store")
        /\ caller[c].at = "spawn" /\ UNCHANGED <<generation, slot, aborted>>
    BY <1>12 DEF N!Spawn, N!sharedVars
  <2>2. task' \in [N!Generations -> TaskPlaces] BY <1>4, <2>1 DEF TaskPlaces
  <2>3. \A g \in N!Generations : Lives(g)' => Lives(g) \/ g = caller[c].mine
    BY <1>4, <2>1 DEF Lives, N!Finished
  <2>4. "store" \in CommandPlaces \ {"idle"} BY DEF CommandPlaces
  <2>5. /\ CallersOK' /\ Calls(c)' /\ \A d \in Callers \ {c} : caller'[d] = caller[d]
        /\ caller'[c].op = caller[c].op /\ caller'[c].at = "store" /\ caller'[c].mine = caller[c].mine
    BY <1>0, <1>2, <2>1, <2>4, Going
  <2>6. Holds(c) => Holds(c)' BY <2>1, <2>3, <2>5 DEF Holds
  <2> QED BY <1>3, <1>4, <2>1, <2>2, <2>5, <2>6
<1>13. CASE N!StoreTask(c)
  <2>1. slot' = caller[c].mine /\ N!Returns(c) /\ caller[c].at = "store" /\ UNCHANGED <<generation, task, aborted>>
    BY <1>13 DEF N!StoreTask
  <2>2. \A g \in N!Generations : Lives(g)' = Lives(g) BY <2>1 DEF Lives, N!Finished
  <2>3. CallersOK' /\ ~Calls(c)' /\ \A d \in Callers \ {c} : caller'[d] = caller[d]
    BY <1>0, <2>1, Returning
  <2>4. Holds(c) => Current' BY <2>1, <2>2 DEF Holds, Current
  <2> QED BY <1>2, <1>3, <1>4, <2>1, <2>3, <2>4
<1>14. CASE N!ShutdownAborts(c)
  <2>1. /\ N!Goes(c, "await") /\ caller[c].at = "abort" /\ UNCHANGED <<generation, slot, task>>
        /\ aborted' = IF caller[c].mine # 0 THEN aborted \cup {caller[c].mine} ELSE aborted
    BY <1>14 DEF N!ShutdownAborts, N!sharedVars
  <2>2. \A g \in N!Generations : (Lives(g)' => Lives(g)) /\ (Lives(g)' => caller[c].mine # g)
    BY <2>1 DEF Lives, N!Finished, N!Generations
  <2>3. "await" \in CommandPlaces \ {"idle"} BY DEF CommandPlaces
  <2>4. /\ CallersOK' /\ Calls(c)' /\ \A d \in Callers \ {c} : caller'[d] = caller[d]
        /\ caller'[c].op = caller[c].op /\ caller'[c].at = "await" /\ caller'[c].mine = caller[c].mine
    BY <1>0, <1>2, <2>1, <2>3, Going
  <2>5. Holds(c) => Holds(c)' BY <2>1, <2>2, <2>4 DEF Holds
  <2> QED BY <1>3, <1>4, <2>1, <2>4, <2>5
<1>15. CASE N!ShutdownReturns(c)
  <2>1. N!Returns(c) /\ caller[c].at = "await" /\ UNCHANGED <<generation, slot, task, aborted>>
    BY <1>15 DEF N!ShutdownReturns, N!sharedVars
  <2>2. \A g \in N!Generations : Lives(g)' = Lives(g) BY <2>1 DEF Lives, N!Finished
  <2>3. CallersOK' /\ ~Calls(c)' /\ \A d \in Callers \ {c} : caller'[d] = caller[d]
    BY <1>0, <2>1, Returning
  <2>4. Holds(c) => Current' BY <2>1, <2>2 DEF Holds, Current
  <2> QED BY <1>3, <1>4, <2>1, <2>3, <2>4
<1> QED BY <1>6, <1>7, <1>8, <1>9, <1>10, <1>11, <1>12, <1>13, <1>14, <1>15 DEF N!CallerStep

(* An attempt goes on or ends; it takes the slot with it only if the slot  *)
(* is its own.                                                             *)
LEMMA AttemptStep ==
  ASSUME ConnInv, NEW g \in N!Generations, N!TaskStep(g) \/ N!NetworkStep(g)
  PROVE  ConnInv'
<1>1. PICK to \in TaskPlaces :
        /\ task' = [task EXCEPT ![g] = to]
        /\ task[g] \notin {"none", "done", "gone"} /\ (task[g] = "return" => to = "done")
        /\ slot' = slot \/ (slot = g /\ slot' = 0 /\ to = "done")
        /\ UNCHANGED <<generation, aborted, caller, overlapped>>
  <2>1. CASE N!Dropped(g) BY <2>1 DEF N!Dropped, N!sharedVars, N!Waits, TaskPlaces
  <2>2. CASE N!Wakes(g) BY <2>2 DEF N!Wakes, N!Becomes, N!sharedVars, TaskPlaces
  <2>3. CASE N!ChecksTop(g) BY <2>3 DEF N!ChecksTop, N!Becomes, N!sharedVars, TaskPlaces
  <2>4. CASE N!Announces(g) \/ N!Authenticates(g) \/ N!SetsSender(g) \/ N!SetupWritten(g)
    BY <2>4 DEF N!Announces, N!Authenticates, N!SetsSender, N!SetupWritten, N!Becomes, N!sharedVars, TaskPlaces
  <2>5. CASE N!ShowsOnline(g) \/ N!HubsUp(g) \/ N!ChecksEnd(g) \/ N!Unsends(g)
    BY <2>5 DEF N!ShowsOnline, N!HubsUp, N!ChecksEnd, N!Unsends, N!Becomes, N!sharedVars, TaskPlaces
  <2>6. CASE N!HubsInterrupted(g) \/ N!WaitsToRetry(g) \/ N!ShowsError(g)
    BY <2>6 DEF N!HubsInterrupted, N!WaitsToRetry, N!ShowsError, N!Becomes, TaskPlaces
  <2>7. CASE N!ClearTask(g) BY <2>7 DEF N!ClearTask, N!Becomes, TaskPlaces
  <2>8. CASE N!Dials(g) \/ N!LoginAccepted(g) BY <2>8 DEF N!Dials, N!LoginAccepted, N!Becomes, N!sharedVars, TaskPlaces
  <2>9. CASE N!Fails(g)
    <3>1. /\ task' = [task EXCEPT ![g] = "ended"] /\ task[g] \in {"dial", "login", "setup", "online"}
          /\ UNCHANGED <<slot, generation, aborted, caller, overlapped>>
      BY <2>9 DEF N!Fails, N!Becomes, N!sharedVars
    <3> QED BY <3>1 DEF TaskPlaces
  <2> QED BY <2>1, <2>2, <2>3, <2>4, <2>5, <2>6, <2>7, <2>8, <2>9 DEF N!TaskStep, N!NetworkStep
<1>2. task'[g] = to /\ \A h \in N!Generations \ {g} : task'[h] = task[h] BY <1>1 DEF ConnInv, ConnOK
<1>3. \A h \in N!Generations : Lives(h)' => Lives(h)
  BY <1>1, <1>2 DEF Lives, N!Finished
<1>4. \A h \in N!Generations : Lives(h)' /\ slot = h => slot' = h
  BY <1>1, <1>2 DEF Lives, N!Finished
<1>5. \A c \in Callers : Calls(c)' = Calls(c) /\ (Holds(c) => Holds(c)')
  BY <1>1, <1>3, <1>4 DEF Calls, Holds
<1>6. Current => Current' BY <1>1, <1>3, <1>4 DEF Current
<1>7. slot' \in Nat /\ task' \in [N!Generations -> TaskPlaces] BY <1>1 DEF ConnInv, ConnOK
<1>8. ConnOK' BY <1>1, <1>7 DEF ConnInv, ConnOK
<1>9. CommandsInv' BY <1>1, <1>5, <1>6 DEF ConnInv, CommandsInv
<1> QED BY <1>8, <1>9 DEF ConnInv

LEMMA ConnStep ==
  ASSUME ConnInv, [N!ConnNext]_connVars
  PROVE  ConnInv'
<1>1. CASE UNCHANGED connVars
  BY <1>1 DEF connVars, ConnInv, ConnOK, CommandsInv, Current, Calls, Holds, Lives, N!Finished
<1>2. ASSUME NEW c \in Callers, N!AutoConnect(c) PROVE ConnInv'
  <2>1. "connect" \in N!Operations BY DEF N!Operations
  <2> QED BY <1>2, <2>1, BeginCommand DEF N!AutoConnect
<1> QED BY <1>1, <1>2, BeginCommand, CommandStep, AttemptStep DEF N!ConnNext

-----------------------------------------------------------------------------
LEMMA AlwaysReach == SessionSpec => []ReachInv
<1>1. SessionInit => ReachInv BY ReachInitInv DEF SessionInit
<1>2. [SessionNext]_allVars => [E!ReachNext]_reachVars
  BY DEF SessionNext, StoreNext, ConnectionNext, MappingNext, InStore, InConnection, InMapping, allVars
<1> QED BY <1>1, <1>2, ReachStep, PTL DEF SessionSpec

LEMMA AlwaysConn == SessionSpec => []ConnInv
<1>1. SessionInit => ConnInv BY ConnInitInv DEF SessionInit
<1>2. [SessionNext]_allVars => [N!ConnNext]_connVars
  BY DEF SessionNext, StoreNext, ConnectionNext, MappingNext, InStore, InConnection, InMapping, allVars
<1> QED BY <1>1, <1>2, ConnStep, PTL DEF SessionSpec

(* For any number of threads, sessions, tests and external ports: once     *)
(* commands that did not overlap have returned, only the attempt in the    *)
(* slot goes on (service.rs); what the user is told of the port is about   *)
(* this session and this port, and no worker loses its mapping to another  *)
(* one's deletion (reachability.rs).                                       *)
THEOREM SessionsStayApart == SessionSpec => []SessionsDoNotMix
<1>1. ReachInv => E!EvidenceIsCurrent /\ E!MappingsAreTheirOwners BY DEF ReachInv
<1>2. ConnInv => N!OnlyTheSlotLives
  BY DEF ConnInv, CommandsInv, Current, Calls, Lives, N!OnlyTheSlotLives
<1> QED BY <1>1, <1>2, AlwaysReach, AlwaysConn, PTL DEF SessionsDoNotMix

=============================================================================
