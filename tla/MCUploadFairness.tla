-------------------------- MODULE MCUploadFairness --------------------------
EXTENDS UploadFairness
CONSTANTS u, v, w
InTurn == [i \in Id |-> IF i % 3 = 0 THEN w ELSE IF i % 3 = 1 THEN u ELSE v]
VsFirst == [i \in Id |-> IF i <= 2 THEN v ELSE u]

(* A new request comes last, and uploads end one by one, each end saved.   *)
QueueNext ==
  /\ \E i \in Id :
       \/ Turn(i)
       \/ (\A j \in waiting \cup active : j < i) /\ Join(i)
       \/ i \in active /\ Leave({i})
  /\ served' = served' \cap Users(waiting' \cup active')
  /\ Count

QueueSpec == FairInit /\ waiting = {} /\ served = {} /\ [][QueueNext]_vars
=============================================================================
