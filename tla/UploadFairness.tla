--------------------------- MODULE UploadFairness ---------------------------
(***************************************************************************)
(* Who was served while somebody waited: UploadTurns with the history that *)
(* the promises of fairness speak about.                                   *)
(***************************************************************************)
EXTENDS UploadTurns

VARIABLES
  turns,   \* how often, up to 3, each user was served while another waits
  drained  \* of those, the ones whose requests came to an end meanwhile

vars == <<turnVars, turns, drained>>

(* A user who wants a slot and has none.                                   *)
Waits(u) == u \in Users(waiting) /\ u \notin Users(active)

KeepsWaiting(u) == Waits(u) /\ Waits(u)'

Served(w) == \E i \in active' \ active : UserOf[i] = w

Count ==
  /\ turns' = [u \in User |-> [w \in User |->
       IF ~KeepsWaiting(u) THEN 0
       ELSE IF Served(w) /\ turns[u][w] < 3 THEN turns[u][w] + 1 ELSE turns[u][w]]]
  /\ drained' = [u \in User |->
       IF ~KeepsWaiting(u) THEN {}
       ELSE drained[u] \cup {w \in User : turns'[u][w] > 0 /\ w \notin Users(waiting' \cup active')}]

(* One run of the application, which starts from what was saved last.      *)
FairInit ==
  /\ waiting \in SUBSET Id /\ active = {}
  /\ served \in SUBSET User
  /\ rank \in [User -> Rank]
  /\ turns = [u \in User |-> [w \in User |-> 0]]
  /\ drained = [u \in User |-> {}]

FairNext ==
  \/ \E i \in Id : (Turn(i) \/ Join(i)) /\ Count
  \/ \E S \in SUBSET (waiting \cup active) : Leave(S) /\ Count
  \/ Requeue /\ Count
  \/ SetPolicy /\ UNCHANGED <<turns, drained>>

FairSpec == FairInit /\ [][FairNext]_vars

(* Every variable has its type, and no request waits while it is active.   *)
TypeOK ==
  /\ waiting \subseteq Id /\ active \subseteq Id /\ waiting \cap active = {}
  /\ served \subseteq User
  /\ rank \in [User -> Rank]
  /\ turns \in [User -> [User -> 0 .. 3]]
  /\ drained \in [User -> SUBSET User]

(* While a user waits without a slot, nobody who keeps requests pending is *)
(* served three times: once in the round that is under way, and once in    *)
(* the next (upload_policy.rs:42, "serve each user once per round"),       *)
(* whatever the priorities are and however often they change.              *)
TurnsAreShared ==
  \A u, w \in User : Waits(u) /\ w \notin drained[u] => turns[u][w] <= 2

(* Whenever somebody waits, one request is next: the order has no ties and *)
(* no gaps, so that a free slot is never left empty (take_next).           *)
SomebodyIsNext ==
  waiting # {} => \E i \in waiting : IsNext(i) /\ \A j \in waiting : IsNext(j) => j = i

(* README.md:1034: "users at the same level take turns".  A user whose      *)
(* requests have come to an end is no longer remembered as served: who     *)
(* asks for one file after the other takes every turn.                     *)
NobodyIsPassedOver ==
  \A u, w \in User : Waits(u) => turns[u][w] <= 2

=============================================================================
