---------------------------- MODULE DurableQueue ----------------------------
(***************************************************************************)
(* What saving the queue in the background promises, without saying how:   *)
(* the saved copy is always a state the queue has been in, it only moves   *)
(* forward, and a state that a caller was told is saved survives a crash.  *)
(***************************************************************************)
EXTENDS Integers

VARIABLES
  memory,   \* the state of the queue, numbered in the order of the changes
  disk,     \* the state in transfers.json
  promised  \* the newest state that a successful flush has covered

vars == <<memory, disk, promised>>

Init == memory = 0 /\ disk = 0 /\ promised = 0

Change == memory' > memory /\ UNCHANGED <<disk, promised>>

Save == disk' \in disk .. memory /\ UNCHANGED <<memory, promised>>

Promise == promised' \in promised .. disk /\ UNCHANGED <<memory, disk>>

(* The file on disk may be one write ahead of what was known of it.        *)
Crash == disk' \in disk .. memory /\ memory' = disk' /\ UNCHANGED promised

Next == Change \/ Save \/ Promise \/ Crash

Spec == Init /\ [][Next]_vars

=============================================================================
