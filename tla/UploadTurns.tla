---------------------------- MODULE UploadTurns ----------------------------
(***************************************************************************)
(* Who gets the next free upload slot: FairScheduler                       *)
(* (connection/upload_policy.rs), and what the queue of uploads            *)
(* (connection/uploads.rs) does to the requests it chooses from.  Requests *)
(* are numbered in the order in which they were made.                      *)
(***************************************************************************)
EXTENDS Integers, FiniteSets

CONSTANTS
  Id,      \* requests
  User,    \* downloaders
  UserOf,  \* who has made each request
  Slots,   \* the numbers of slots the user may set
  Rank     \* precedence by favorites and privileges; smaller is earlier

ASSUME IdAssumption   == Id \subseteq Nat /\ IsFiniteSet(Id)
ASSUME UserAssumption == UserOf \in [Id -> User]
ASSUME RankAssumption == Slots \subseteq Nat /\ Rank \subseteq Nat

VARIABLES
  waiting, active,  \* requests that are Queued; that hold a slot
  served,           \* users who have had their turn in this round
  rank              \* of every user, by the policy and the lists of users

turnVars == <<waiting, active, served, rank>>

Users(S)    == {UserOf[i] : i \in S}
ActiveOf(u) == Cardinality({i \in active : UserOf[i] = u})

(* The waiting requests whose users hold the fewest slots.                 *)
Candidates ==
  {i \in waiting : \A j \in waiting : ActiveOf(UserOf[i]) <= ActiveOf(UserOf[j])}

(* A round is over when every candidate has had a turn.                    *)
Round == IF Users(Candidates) \subseteq served THEN {} ELSE served

RankedByIndex(i, j) == \* mutant: a user who has been served is not put back
  \/ rank[UserOf[i]] < rank[UserOf[j]]
  \/ rank[UserOf[i]] = rank[UserOf[j]] /\ i < j

StrictlyRanked(i, j) == \* mutant: no tie-break by index
  \/ UserOf[i] \notin Round /\ UserOf[j] \in Round
  \/ (UserOf[i] \in Round <=> UserOf[j] \in Round) /\ rank[UserOf[i]] < rank[UserOf[j]]

Precedes(i, j) ==
  \/ UserOf[i] \notin Round /\ UserOf[j] \in Round
  \/ /\ UserOf[i] \in Round <=> UserOf[j] \in Round
     /\ \/ rank[UserOf[i]] < rank[UserOf[j]]
        \/ rank[UserOf[i]] = rank[UserOf[j]] /\ i < j

IsNext(i) == i \in Candidates /\ \A j \in Candidates \ {i} : Precedes(i, j)

-----------------------------------------------------------------------------

(* persist keeps the turns of users who still have requests.               *)
Retained ==
  \E kept \in SUBSET served :
    served \cap Users(waiting' \cup active') \subseteq kept /\ served' = kept

TurnInPlace(i) == \* mutant: the request stays in the queue
  /\ \E slots \in Slots : Cardinality(active) < slots
  /\ IsNext(i)
  /\ active' = active \cup {i}
  /\ served' = (Round \cup {UserOf[i]}) \cap Users(waiting \cup active)
  /\ UNCHANGED <<waiting, rank>>

Turn(i) ==
  /\ \E slots \in Slots : Cardinality(active) < slots
  /\ IsNext(i)
  /\ waiting' = waiting \ {i}
  /\ active' = active \cup {i}
  /\ served' = (Round \cup {UserOf[i]}) \cap Users(waiting \cup active)
  /\ UNCHANGED rank

(* A new request, or a failed one that is tried again.                     *)
Join(i) ==
  /\ i \notin waiting \cup active
  /\ waiting' = waiting \cup {i}
  /\ UNCHANGED <<active, rank>>
  /\ Retained

(* Requests end, are cancelled, or fail.                                   *)
Leave(S) ==
  /\ waiting' = waiting \ S
  /\ active' = active \ S
  /\ UNCHANGED rank
  /\ Retained

(* The session is lost: uploads under way wait again.                      *)
Requeue ==
  /\ waiting' = waiting \cup active
  /\ active' = {}
  /\ UNCHANGED rank
  /\ Retained

(* The application starts again from what was saved last.  SetPolicy       *)
(* follows it when the lists of users have changed too.                    *)
Restart ==
  /\ waiting' \in SUBSET Id
  /\ active' = {}
  /\ served' \in SUBSET User
  /\ UNCHANGED rank

SetPolicy ==
  /\ rank' \in [User -> Rank]
  /\ UNCHANGED <<waiting, active, served>>

Init ==
  /\ waiting = {} /\ active = {} /\ served = {}
  /\ rank \in [User -> Rank]

QueueStep ==
  \/ \E i \in Id : Turn(i) \/ Join(i)
  \/ \E S \in SUBSET (waiting \cup active) : Leave(S)
  \/ Requeue \/ SetPolicy

Next == QueueStep \/ Restart

Spec == Init /\ [][Next]_turnVars

=============================================================================
