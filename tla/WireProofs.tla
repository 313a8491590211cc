----------------------------- MODULE WireProofs -----------------------------
(***************************************************************************)
(* What the components on the wire keep, for any number of users,          *)
(* requests, searches, albums, transfers and lookups: the turns of the     *)
(* uploads, the requests to other users, the branch, the questions of the  *)
(* user, of the Wanted list and of Shelf Radar, and the limits.  Each      *)
(* component has an inductive invariant of its own; a step of one leaves   *)
(* the others alone.                                                       *)
(***************************************************************************)
EXTENDS Wire, FiniteSetTheorems, SequenceTheorems, WellFoundedInduction, TLAPS

(* While u waits, the turns of w are accounted for by who has been served: *)
(* after one turn either w has been served in this round or the next round *)
(* has begun, which u opens with; after two, both.                         *)
Accounted ==
  \A u, w \in User : Waits(u) /\ w \notin drained[u] =>
    /\ turns[u][w] <= 2
    /\ turns[u][w] = 1 => w \in served \/ u \notin served
    /\ turns[u][w] = 2 => w \in served /\ u \notin served

(* Types.  FairInit establishes them, and every step keeps them.           *)
LEMMA TypeInit == FairInit => TypeOK
  BY DEF FairInit, TypeOK

LEMMA UsersType == ASSUME NEW S, S \subseteq Id PROVE Users(S) \subseteq User
  BY UserAssumption DEF Users

LEMMA RoundType == TypeOK => Round \subseteq User
  BY DEF TypeOK, Round

LEMMA CountType == ASSUME TypeOK, Count PROVE
    /\ turns' \in [User -> [User -> 0 .. 3]]
    /\ drained' \in [User -> SUBSET User]
<1>1. turns' \in [User -> [User -> 0 .. 3]]
  <2>1. \A u, w \in User : turns[u][w] \in 0 .. 3  BY DEF TypeOK
  <2>2. \A u, w \in User : (IF ~KeepsWaiting(u) THEN 0
           ELSE IF Served(w) /\ turns[u][w] < 3 THEN turns[u][w] + 1 ELSE turns[u][w]) \in 0 .. 3
    BY <2>1
  <2>. QED  BY <2>2 DEF Count
<1>2. drained' \in [User -> SUBSET User]
  BY DEF Count, TypeOK
<1>. QED  BY <1>1, <1>2

LEMMA TypeStep == TypeOK /\ [FairNext]_vars => TypeOK'
<1>. SUFFICES ASSUME TypeOK, [FairNext]_vars PROVE TypeOK'
  OBVIOUS
<1>1. CASE UNCHANGED vars
  BY <1>1 DEF vars, turnVars, TypeOK
<1>2. ASSUME NEW i \in Id, Turn(i), Count PROVE TypeOK'
  <2>1. UserOf[i] \in User  BY UserAssumption
  <2>2. served' \subseteq User  BY <1>2, <2>1, RoundType DEF Turn
  <2>. QED  BY <1>2, <2>2, CountType DEF Turn, TypeOK
<1>3. ASSUME NEW i \in Id, Join(i), Count PROVE TypeOK'
  BY <1>3, CountType DEF Join, Retained, TypeOK
<1>4. ASSUME NEW S \in SUBSET (waiting \cup active), Leave(S), Count PROVE TypeOK'
  BY <1>4, CountType DEF Leave, Retained, TypeOK
<1>5. ASSUME Requeue, Count PROVE TypeOK'
  BY <1>5, CountType DEF Requeue, Retained, TypeOK
<1>6. ASSUME SetPolicy, UNCHANGED <<turns, drained>> PROVE TypeOK'
  BY <1>6 DEF SetPolicy, TypeOK
<1>. QED  BY <1>1, <1>2, <1>3, <1>4, <1>5, <1>6 DEF FairNext

(* Every variable keeps its type (FairScheduler, UploadStatus).            *)
THEOREM TypeCorrect == FairSpec => []TypeOK
  BY TypeInit, TypeStep, PTL DEF FairSpec

-----------------------------------------------------------------------------
LEMMA SlotsAreCounted ==
  ASSUME TypeOK, NEW v \in User PROVE ActiveOf(v) \in Nat
<1>1. {j \in active : UserOf[j] = v} \subseteq Id  BY DEF TypeOK
<1>2. IsFiniteSet({j \in active : UserOf[j] = v})  BY <1>1, IdAssumption, FS_Subset
<1>. QED  BY <1>2, FS_CardinalityType DEF ActiveOf

(* A user without a slot is a candidate: nobody has fewer.                 *)
LEMMA WaitingIsCandidate ==
  ASSUME TypeOK, NEW u \in User, Waits(u)
  PROVE  \E i \in Candidates : UserOf[i] = u
<1>1. PICK i \in waiting : UserOf[i] = u  BY DEF Waits, Users
<1>2. {j \in active : UserOf[j] = u} = {}  BY DEF Waits, Users
<1>3. ActiveOf(u) = 0  BY <1>2, FS_EmptySet DEF ActiveOf
<1>4. \A v \in User : ActiveOf(v) \in Nat  BY SlotsAreCounted
<1>5. \A j \in waiting : UserOf[j] \in User  BY UserAssumption DEF TypeOK
<1>6. \A j \in waiting : ActiveOf(UserOf[i]) <= ActiveOf(UserOf[j])
  BY <1>1, <1>3, <1>4, <1>5
<1>. QED  BY <1>1, <1>6 DEF Candidates

(* What a turn of w tells about a user u who waits through it: if w had    *)
(* been served already, a new round begins, and otherwise u keeps its      *)
(* place in the round.                                                     *)
LEMMA TurnOfAnother ==
  ASSUME TypeOK, NEW i \in Id, Turn(i), NEW u \in User, Waits(u), UserOf[i] # u
  PROVE  /\ UserOf[i] \in served => u \in served /\ u \notin served'
         /\ u \notin served => Round = served /\ u \notin served'
         /\ UserOf[i] \in served'
         /\ u \in served' => Round = served
         /\ served' \subseteq Round \cup {UserOf[i]}
<1>1. PICK j \in Candidates : UserOf[j] = u  BY WaitingIsCandidate
<1>2. i \in Candidates /\ i # j /\ Precedes(i, j)  BY <1>1 DEF Turn, IsNext
<1>3. u \in Users(Candidates)  BY <1>1 DEF Users
<1>4. Round = served \/ Round = {}  BY DEF Round
<1>5. u \notin served => Round = served  BY <1>3 DEF Round
<1>6. UserOf[i] \in Round => u \in Round  BY <1>1, <1>2 DEF Precedes
<1>7. UserOf[i] \in served /\ Round = served => Users(Candidates) \subseteq served
  <2>. SUFFICES ASSUME UserOf[i] \in served, Round = served,
                       NEW k \in Candidates
                PROVE  UserOf[k] \in served
    BY DEF Users
  <2>. QED  BY DEF Turn, IsNext, Precedes
<1>8. UserOf[i] \in served => Round = {}
  <2>. SUFFICES ASSUME UserOf[i] \in served, Round # {} PROVE FALSE
    OBVIOUS
  <2>1. Round = served  BY <1>4
  <2>. QED  BY <2>1, <1>7 DEF Round
<1>9. UserOf[i] \in served'
  <2>1. i \in waiting  BY <1>2 DEF Candidates
  <2>2. UserOf[i] \in Users(waiting \cup active)  BY <2>1 DEF Users
  <2>. QED  BY <2>2 DEF Turn
<1>10. served' \subseteq Round \cup {UserOf[i]}  BY DEF Turn
<1>. QED  BY <1>4, <1>5, <1>6, <1>8, <1>9, <1>10

-----------------------------------------------------------------------------
(* Steps that give no slot: users may be forgotten who have nothing left.  *)
LEMMA QuietStep ==
  ASSUME TypeOK, Accounted, Count, active' \subseteq active,
         served' \subseteq served, served \cap Users(waiting' \cup active') \subseteq served'
  PROVE  Accounted'
<1>. SUFFICES ASSUME NEW u \in User, NEW w \in User, Waits(u)', w \notin drained'[u]
              PROVE  /\ turns'[u][w] <= 2
                     /\ turns'[u][w] = 1 => w \in served' \/ u \notin served'
                     /\ turns'[u][w] = 2 => w \in served' /\ u \notin served'
  BY DEF Accounted
<1>1. CASE ~KeepsWaiting(u)
  <2>1. turns'[u][w] = 0  BY <1>1 DEF Count
  <2>. QED  BY <2>1
<1>2. CASE KeepsWaiting(u)
  <2>1. ~Served(w)  BY DEF Served
  <2>2. turns'[u][w] = turns[u][w]  BY <1>2, <2>1 DEF Count
  <2>3. Waits(u) /\ w \notin drained[u]  BY <1>2 DEF KeepsWaiting, Count
  <2>4. turns'[u][w] > 0 => w \in Users(waiting' \cup active')  BY <1>2 DEF Count
  <2>5. turns[u][w] \in 0 .. 3  BY DEF TypeOK
  <2>6. /\ turns[u][w] <= 2
        /\ turns[u][w] = 1 => w \in served \/ u \notin served
        /\ turns[u][w] = 2 => w \in served /\ u \notin served
    BY <2>3 DEF Accounted
  <2>. QED  BY <2>2, <2>4, <2>5, <2>6
<1>. QED  BY <1>1, <1>2

LEMMA TurnStep ==
  ASSUME TypeOK, Accounted, Count, NEW i \in Id, Turn(i)
  PROVE  Accounted'
<1>. SUFFICES ASSUME NEW u \in User, NEW w \in User, Waits(u)', w \notin drained'[u]
              PROVE  /\ turns'[u][w] <= 2
                     /\ turns'[u][w] = 1 => w \in served' \/ u \notin served'
                     /\ turns'[u][w] = 2 => w \in served' /\ u \notin served'
  BY DEF Accounted
<1>1. CASE ~KeepsWaiting(u)
  <2>1. turns'[u][w] = 0  BY <1>1 DEF Count
  <2>. QED  BY <2>1
<1>2. CASE KeepsWaiting(u)
  <2>1. i \in waiting /\ i \notin active  BY DEF Turn, IsNext, Candidates, TypeOK
  <2>2. active' \ active = {i}  BY <2>1 DEF Turn
  <2>3. Served(w) <=> UserOf[i] = w  BY <2>2 DEF Served
  <2>4. UserOf[i] # u  BY <1>2, <2>2 DEF KeepsWaiting, Waits, Users
  <2>5. Waits(u) /\ w \notin drained[u]  BY <1>2 DEF KeepsWaiting, Count
  <2>6. turns[u][w] \in 0 .. 3  BY DEF TypeOK
  <2>7. /\ turns[u][w] <= 2
        /\ turns[u][w] = 1 => w \in served \/ u \notin served
        /\ turns[u][w] = 2 => w \in served /\ u \notin served
    BY <2>5 DEF Accounted
  <2>8. /\ UserOf[i] \in served => u \in served /\ u \notin served'
        /\ u \notin served => Round = served /\ u \notin served'
        /\ UserOf[i] \in served'
        /\ u \in served' => Round = served
        /\ served' \subseteq Round \cup {UserOf[i]}
    BY <2>4, <2>5, TurnOfAnother
  <2>9. CASE UserOf[i] = w
    <3>1. turns'[u][w] = turns[u][w] + 1  BY <1>2, <2>3, <2>6, <2>7, <2>9 DEF Count
    <3>. QED  BY <2>6, <2>7, <2>8, <2>9, <3>1
  <2>10. CASE UserOf[i] # w
    <3>1. turns'[u][w] = turns[u][w]  BY <1>2, <2>3, <2>10 DEF Count
    <3>2. turns'[u][w] > 0 => w \in Users(waiting' \cup active')  BY <1>2 DEF Count
    <3>3. waiting' \cup active' = waiting \cup active  BY <2>1 DEF Turn
    <3>4. turns'[u][w] > 0 /\ w \in served /\ Round = served => w \in served'
      BY <3>2, <3>3 DEF Turn
    <3>. QED  BY <2>6, <2>7, <2>8, <3>1, <3>4
  <2>. QED  BY <2>9, <2>10
<1>. QED  BY <1>1, <1>2

LEMMA AccountedInit == FairInit => Accounted
  BY DEF FairInit, Accounted

LEMMA AccountedStep == TypeOK /\ Accounted /\ [FairNext]_vars => Accounted'
<1>. SUFFICES ASSUME TypeOK, Accounted, [FairNext]_vars PROVE Accounted'
  OBVIOUS
<1>1. CASE UNCHANGED vars
  BY <1>1 DEF vars, turnVars, Accounted, Waits, Users
<1>2. ASSUME NEW i \in Id, Turn(i), Count PROVE Accounted'
  BY <1>2, TurnStep
<1>3. ASSUME NEW i \in Id, Join(i), Count PROVE Accounted'
  BY <1>3, QuietStep DEF Join, Retained
<1>4. ASSUME NEW S \in SUBSET (waiting \cup active), Leave(S), Count PROVE Accounted'
  BY <1>4, QuietStep DEF Leave, Retained
<1>5. ASSUME Requeue, Count PROVE Accounted'
  BY <1>5, QuietStep DEF Requeue, Retained
<1>6. ASSUME SetPolicy, UNCHANGED <<turns, drained>> PROVE Accounted'
  BY <1>6 DEF SetPolicy, Accounted, Waits, Users
<1>. QED  BY <1>1, <1>2, <1>3, <1>4, <1>5, <1>6 DEF FairNext

(* Nobody who keeps a request pending is served three times while another  *)
(* user waits without a slot (FairScheduler::take_next, persist).          *)
THEOREM TurnsAreFair == FairSpec => []TurnsAreShared
<1>1. Accounted => TurnsAreShared  BY DEF Accounted, TurnsAreShared
<1>. QED
  BY TypeInit, TypeStep, AccountedInit, AccountedStep, <1>1, PTL DEF FairSpec

-----------------------------------------------------------------------------
(* The order of the candidates.  Its three levels (whether the user has    *)
(* had a turn, the user's rank, the index) each have a least element.      *)
LEMMA LeastNumber ==
  ASSUME NEW S \in SUBSET Nat, S # {}
  PROVE  \E m \in S : \A n \in S : m <= n
<1>1. IsWellFoundedOn(OpToRel(<, Nat), Nat)  BY NatLessThanWellFounded
<1>2. PICK m \in S : \A n \in S : <<n, m>> \notin OpToRel(<, Nat)
  BY <1>1, WFMin
<1>3. \A n \in S : ~(n < m)  BY <1>2 DEF OpToRel
<1>. QED  BY <1>3

LEMMA LeastOf ==
  ASSUME NEW S, S # {}, NEW f \in [S -> Nat]
  PROVE  \E m \in S : \A n \in S : f[m] <= f[n]
<1>. DEFINE T == {f[s] : s \in S}
<1>1. T \in SUBSET Nat /\ T # {}  OBVIOUS
<1>2. PICK x \in T : \A y \in T : x <= y
  <2>. HIDE DEF T
  <2>. QED  BY <1>1, LeastNumber
<1>. QED  BY <1>2

LEMMA SomebodyIsCandidate ==
  ASSUME TypeOK, waiting # {} PROVE Candidates # {}
<1>. DEFINE f == [i \in waiting |-> ActiveOf(UserOf[i])]
<1>1. f \in [waiting -> Nat]
  BY UserAssumption, SlotsAreCounted DEF TypeOK
<1>2. PICK m \in waiting : \A n \in waiting : f[m] <= f[n]
  <2>. HIDE DEF f
  <2>. QED  BY <1>1, LeastOf
<1>3. \A n \in waiting : ActiveOf(UserOf[m]) <= ActiveOf(UserOf[n])  BY <1>2
<1>. QED  BY <1>3 DEF Candidates

LEMMA CandidateType ==
  ASSUME TypeOK, NEW i \in Candidates
  PROVE  i \in waiting /\ i \in Nat /\ UserOf[i] \in User /\ rank[UserOf[i]] \in Nat
<1>1. i \in waiting /\ i \in Id  BY DEF Candidates, TypeOK
<1>2. UserOf[i] \in User  BY <1>1, UserAssumption
<1>. QED  BY <1>1, <1>2, IdAssumption, RankAssumption DEF TypeOK

(* Of the candidates, those who have had no turn, if there are any; of     *)
(* these the ones of the least rank; of these the oldest is next.          *)
LEMMA OneIsNext ==
  ASSUME TypeOK, waiting # {} PROVE \E i \in waiting : IsNext(i)
<1>. DEFINE Fresh == {i \in Candidates : UserOf[i] \notin Round}
            First == IF Fresh = {} THEN Candidates ELSE Fresh
            r == [i \in First |-> rank[UserOf[i]]]
<1>1. First # {} /\ First \subseteq Candidates  BY SomebodyIsCandidate
<1>2. \A i \in First, j \in Candidates \ First : UserOf[i] \notin Round /\ UserOf[j] \in Round
  OBVIOUS
<1>3. \A i, j \in First : UserOf[i] \in Round <=> UserOf[j] \in Round
  OBVIOUS
<1>4. r \in [First -> Nat]  BY <1>1, CandidateType
<1>5. \A i \in First : r[i] = rank[UserOf[i]]  OBVIOUS
<1>. HIDE DEF First, r
<1>6. PICK m \in First : \A n \in First : r[m] <= r[n]  BY <1>1, <1>4, LeastOf
<1>. DEFINE Best == {n \in First : r[n] = r[m]}
            age == [n \in Best |-> n]
<1>7. Best # {} /\ age \in [Best -> Nat]  BY <1>1, CandidateType
<1>8. PICK i \in Best : \A n \in Best : age[i] <= age[n]
  <2>. HIDE DEF Best, age
  <2>. QED  BY <1>7, LeastOf
<1>9. i \in First /\ i \in Candidates /\ i \in waiting  BY <1>1, CandidateType
<1>10. ASSUME NEW j \in Candidates \ {i} PROVE Precedes(i, j)
  <2>1. i \in Nat /\ j \in Nat  BY <1>9, CandidateType
  <2>2. CASE j \notin First
    BY <1>2, <1>9, <2>2 DEF Precedes
  <2>3. CASE j \in Best
    <3>1. i <= j  BY <1>8, <2>3
    <3>2. rank[UserOf[i]] = rank[UserOf[j]]  BY <1>5, <2>3
    <3>. QED  BY <1>3, <1>9, <2>1, <2>3, <3>1, <3>2 DEF Precedes
  <2>4. CASE j \in First /\ j \notin Best
    <3>1. r[i] \in Nat /\ r[j] \in Nat  BY <1>4, <1>9, <2>4
    <3>2. r[i] < r[j]  BY <1>6, <2>4, <3>1
    <3>3. rank[UserOf[i]] < rank[UserOf[j]]  BY <1>5, <1>9, <2>4, <3>2
    <3>. QED  BY <1>3, <1>9, <2>4, <3>3 DEF Precedes
  <2>. QED  BY <2>2, <2>3, <2>4
<1>. QED  BY <1>9, <1>10 DEF IsNext

LEMMA NobodyElseIsNext ==
  ASSUME TypeOK, NEW i, IsNext(i), NEW j, IsNext(j) PROVE i = j
<1>1. i \in Candidates /\ j \in Candidates  BY DEF IsNext
<1>2. i # j => Precedes(i, j) /\ Precedes(j, i)  BY <1>1 DEF IsNext
<1>3. /\ i \in Nat /\ rank[UserOf[i]] \in Nat
      /\ j \in Nat /\ rank[UserOf[j]] \in Nat
  BY <1>1, CandidateType
<1>. QED  BY <1>2, <1>3 DEF Precedes

(* Whenever somebody waits, exactly one request is next                    *)
(* (FairScheduler::take_next).                                             *)
THEOREM OneRequestIsNext == FairSpec => []SomebodyIsNext
<1>1. TypeOK => SomebodyIsNext
  BY OneIsNext, NobodyElseIsNext DEF SomebodyIsNext
<1>. QED  BY TypeInit, TypeStep, <1>1, PTL DEF FairSpec

-----------------------------------------------------------------------------
(* The requests to other users.  Only a request that is claimed is talked  *)
(* about, over one route, and one that nobody has made has left no trace.  *)
Talks(r) == {route \in PR!Routes : <<r, route>> \in talking}

RequestsInv ==
  /\ pending \in [Request -> {"none", "open", "claimed"}]
  /\ caller \in [Request -> {"idle", "waiting", "answered", "failed"}]
  /\ late \in [Request -> {"no", "answered", "failed"}]
  /\ profile \in [PR!ReqUsers -> {"idle", "loading", "ready", "error"}]
  /\ \A r \in Request :
       /\ caller[r] = "idle" => pending[r] = "none" /\ Talks(r) = {}
       /\ caller[r] = "waiting" => pending[r] # "none" \/ late[r] # "no"
       /\ pending[r] = "open" => Talks(r) = {}
       /\ pending[r] = "claimed" => \A a, b \in Talks(r) : a = b
  /\ PR!LoadingProfileHasRequest

LEMMA RequestsInvInit == PR!ReqInit => RequestsInv
<1>. SUFFICES ASSUME PR!ReqInit PROVE RequestsInv
  OBVIOUS
<1>. USE DEF PR!ReqInit
<1>1. \A r \in Request : pending[r] = "none" /\ caller[r] = "idle" /\ late[r] = "no" /\ Talks(r) = {}
  BY DEF Talks
<1>2. \A x \in PR!ReqUsers : profile[x] = "idle"  OBVIOUS
<1>. QED  BY <1>1, <1>2 DEF RequestsInv, PR!LoadingProfileHasRequest

(* A request taken from its map leaves behind a caller who knows or a      *)
(* profile that is still to be updated.                                    *)
LEMMA TakenRequest ==
  ASSUME RequestsInv, NEW r \in Request, NEW result \in {"answered", "failed"},
         PR!TakeRequest(r, result), talking' \subseteq talking, profile' = profile
  PROVE  RequestsInv'
<1>. USE DEF PR!TakeRequest
<1>1. /\ pending' \in [Request -> {"none", "open", "claimed"}]
      /\ caller' \in [Request -> {"idle", "waiting", "answered", "failed"}]
      /\ late' \in [Request -> {"no", "answered", "failed"}]
      /\ profile' \in [PR!ReqUsers -> {"idle", "loading", "ready", "error"}]
  BY DEF RequestsInv
<1>2. \A s \in Request : Talks(s)' \subseteq Talks(s)
  BY DEF Talks
<1>3. ASSUME NEW s \in Request PROVE
       /\ caller'[s] = "idle" => pending'[s] = "none" /\ Talks(s)' = {}
       /\ caller'[s] = "waiting" => pending'[s] # "none" \/ late'[s] # "no"
       /\ pending'[s] = "open" => Talks(s)' = {}
       /\ pending'[s] = "claimed" => \A a, b \in Talks(s)' : a = b
  <2>1. CASE s = r  BY <2>1, <1>1, <1>2 DEF RequestsInv
  <2>2. CASE s # r  BY <2>2, <1>1, <1>2 DEF RequestsInv
  <2>. QED  BY <2>1, <2>2
<1>4. ASSUME NEW x \in PR!ReqUsers, profile'[x] = "loading"
      PROVE  \E s \in Request : /\ AskedUser[s] = x /\ PR!ReqIsProfile(s)
                                /\ pending'[s] # "none" \/ late'[s] # "no"
  <2>1. PICK s \in Request : /\ AskedUser[s] = x /\ PR!ReqIsProfile(s)
                             /\ pending[s] # "none" \/ late[s] # "no"
    BY <1>4 DEF RequestsInv, PR!LoadingProfileHasRequest
  <2>2. pending'[s] # "none" \/ late'[s] # "no"
    BY <2>1 DEF RequestsInv
  <2>. QED  BY <2>1, <2>2
<1>. QED  BY <1>1, <1>3, <1>4 DEF RequestsInv, PR!LoadingProfileHasRequest

LEMMA EndedRequest ==
  ASSUME RequestsInv, NEW r \in Request, NEW result \in {"answered", "failed"},
         PR!EndRequest(r, result), talking' \subseteq talking, profile' = profile
  PROVE  RequestsInv'
<1>1. CASE pending[r] # "none"  BY <1>1, TakenRequest DEF PR!EndRequest
<1>2. CASE pending[r] = "none"
  <2>1. pending' = pending /\ caller' = caller /\ late' = late
    BY <1>2 DEF PR!EndRequest
  <2>2. \A s \in Request : Talks(s)' \subseteq Talks(s)
    BY DEF Talks
  <2>3. \A s \in Request : \A a, b \in Talks(s)' : a \in Talks(s) /\ b \in Talks(s)
    BY <2>2
  <2>4. PR!LoadingProfileHasRequest'
    BY <2>1 DEF RequestsInv, PR!LoadingProfileHasRequest
  <2>. QED  BY <2>1, <2>2, <2>3, <2>4 DEF RequestsInv
<1>. QED  BY <1>1, <1>2

(* Nothing of a request changes.                                           *)
LEMMA RequestsUntouched ==
  ASSUME RequestsInv, pending' = pending, caller' = caller, late' = late,
         talking' \subseteq talking, profile' = profile
  PROVE  RequestsInv'
<1>1. \A s \in Request : Talks(s)' \subseteq Talks(s)
  BY DEF Talks
<1>2. \A s \in Request : \A a, b \in Talks(s)' : a \in Talks(s) /\ b \in Talks(s)
  BY <1>1
<1>3. PR!LoadingProfileHasRequest'
  BY DEF RequestsInv, PR!LoadingProfileHasRequest
<1>. QED  BY <1>1, <1>2, <1>3 DEF RequestsInv

LEMMA ClaimedRequest ==
  ASSUME RequestsInv, NEW r \in Request, NEW route \in PR!Routes, PR!Claim(r, route), profile' = profile
  PROVE  RequestsInv'
<1>. USE DEF PR!Claim
<1>1. pending' \in [Request -> {"none", "open", "claimed"}]
  BY DEF RequestsInv
<1>2. Talks(r) = {}  BY DEF RequestsInv
<1>3. Talks(r)' = {route}
  <2>1. \A x \in PR!Routes : <<r, x>> \in talking' <=> x = route
    BY <1>2 DEF Talks
  <2>. QED  BY <2>1 DEF Talks
<1>4. \A s \in Request \ {r} : Talks(s)' = Talks(s) /\ pending'[s] = pending[s]
  BY DEF Talks, RequestsInv
<1>5. pending'[r] = "claimed" /\ caller[r] # "idle"
  BY DEF RequestsInv
<1>6. PR!LoadingProfileHasRequest'
  <2>1. \A s \in Request : pending[s] # "none" => pending'[s] # "none"
    BY <1>4, <1>5
  <2>. QED  BY <2>1 DEF RequestsInv, PR!LoadingProfileHasRequest
<1>. QED  BY <1>1, <1>3, <1>4, <1>5, <1>6 DEF RequestsInv

LEMMA AskedRequest ==
  ASSUME RequestsInv, NEW r \in Request, PR!Ask(r)
  PROVE  RequestsInv'
<1>. USE DEF PR!Ask
<1>1. /\ pending' = [pending EXCEPT ![r] = "open"]
      /\ profile' = profile \/ (PR!ReqIsProfile(r) /\ profile' = [profile EXCEPT ![AskedUser[r]] = "loading"])
  BY DEF PR!AskFolder, PR!AskShares, PR!AskProfile
<1>2. /\ pending' \in [Request -> {"none", "open", "claimed"}]
      /\ caller' \in [Request -> {"idle", "waiting", "answered", "failed"}]
      /\ profile' \in [PR!ReqUsers -> {"idle", "loading", "ready", "error"}]
  BY <1>1 DEF RequestsInv
<1>3. \A s \in Request : Talks(s)' = Talks(s)
  BY DEF Talks
<1>4. Talks(r) = {} /\ pending'[r] = "open" /\ caller'[r] = "waiting"
  BY <1>1 DEF RequestsInv
<1>5. \A s \in Request \ {r} : pending'[s] = pending[s] /\ caller'[s] = caller[s]
  BY <1>1 DEF RequestsInv
<1>6. ASSUME NEW x \in PR!ReqUsers, profile'[x] = "loading"
      PROVE  \E s \in Request : /\ AskedUser[s] = x /\ PR!ReqIsProfile(s)
                                /\ pending'[s] # "none" \/ late'[s] # "no"
  <2>1. CASE profile[x] = "loading"
    <3>1. PICK s \in Request : /\ AskedUser[s] = x /\ PR!ReqIsProfile(s)
                               /\ pending[s] # "none" \/ late[s] # "no"
      BY <2>1 DEF RequestsInv, PR!LoadingProfileHasRequest
    <3>2. pending'[s] # "none" \/ late'[s] # "no"  BY <3>1, <1>4, <1>5
    <3>. QED  BY <3>1, <3>2
  <2>2. CASE profile[x] # "loading"
    <3>1. x = AskedUser[r] /\ PR!ReqIsProfile(r)
      BY <1>1, <1>6, <2>2 DEF RequestsInv
    <3>. QED  BY <3>1, <1>4
  <2>. QED  BY <2>1, <2>2
<1>. QED  BY <1>2, <1>3, <1>4, <1>5, <1>6 DEF RequestsInv, PR!LoadingProfileHasRequest

LEMMA UpdatedProfile ==
  ASSUME RequestsInv, NEW r \in Request, PR!UpdateProfile(r)
  PROVE  RequestsInv'
<1>. USE DEF PR!UpdateProfile, PR!routeVars
<1>1. /\ caller' \in [Request -> {"idle", "waiting", "answered", "failed"}]
      /\ late' \in [Request -> {"no", "answered", "failed"}]
      /\ profile' \in [PR!ReqUsers -> {"idle", "loading", "ready", "error"}]
  BY DEF RequestsInv
<1>2. \A s \in Request : Talks(s)' = Talks(s)
  BY DEF Talks
<1>3. caller'[r] # "waiting" /\ (caller'[r] = "idle" => caller[r] = "idle")
  BY DEF RequestsInv
<1>4. \A s \in Request \ {r} : caller'[s] = caller[s] /\ late'[s] = late[s]
  BY DEF RequestsInv
<1>5. ASSUME NEW x \in PR!ReqUsers, profile'[x] = "loading"
      PROVE  \E s \in Request : /\ AskedUser[s] = x /\ PR!ReqIsProfile(s)
                                /\ pending'[s] # "none" \/ late'[s] # "no"
  <2>1. x # AskedUser[r] /\ profile[x] = "loading"
    BY <1>5 DEF RequestsInv
  <2>2. PICK s \in Request : /\ AskedUser[s] = x /\ PR!ReqIsProfile(s)
                             /\ pending[s] # "none" \/ late[s] # "no"
    BY <2>1 DEF RequestsInv, PR!LoadingProfileHasRequest
  <2>. QED  BY <2>1, <2>2, <1>4
<1>. QED  BY <1>1, <1>2, <1>3, <1>4, <1>5 DEF RequestsInv, PR!LoadingProfileHasRequest

LEMMA TimedOutRequest ==
  ASSUME RequestsInv, NEW r \in Request, PR!CallerTimeout(r)
  PROVE  RequestsInv'
<1>. USE DEF PR!CallerTimeout, PR!routeVars
<1>1. /\ pending' \in [Request -> {"none", "open", "claimed"}]
      /\ caller' \in [Request -> {"idle", "waiting", "answered", "failed"}]
      /\ late' \in [Request -> {"no", "answered", "failed"}]
  BY DEF RequestsInv
<1>2. \A s \in Request : Talks(s)' = Talks(s)
  BY DEF Talks
<1>3. caller'[r] = "failed" /\ pending'[r] = "none"
  BY DEF RequestsInv
<1>4. \A s \in Request \ {r} : caller'[s] = caller[s] /\ late'[s] = late[s] /\ pending'[s] = pending[s]
  BY DEF RequestsInv
<1>5. ASSUME NEW x \in PR!ReqUsers, profile'[x] = "loading"
      PROVE  \E s \in Request : /\ AskedUser[s] = x /\ PR!ReqIsProfile(s)
                                /\ pending'[s] # "none" \/ late'[s] # "no"
  <2>1. PICK s \in Request : /\ AskedUser[s] = x /\ PR!ReqIsProfile(s)
                             /\ pending[s] # "none" \/ late[s] # "no"
    BY <1>5 DEF RequestsInv, PR!LoadingProfileHasRequest
  <2>2. CASE s = r /\ pending[s] # "none"
    <3>1. late'[s] = "failed"  BY <2>1, <2>2 DEF RequestsInv
    <3>. QED  BY <3>1, <2>1
  <2>3. CASE s = r /\ pending[s] = "none"
    <3>1. late'[s] = late[s]  BY <2>1, <2>3 DEF RequestsInv
    <3>. QED  BY <3>1, <2>1, <2>3
  <2>4. CASE s # r  BY <2>1, <2>4, <1>4
  <2>. QED  BY <2>2, <2>3, <2>4
<1>. QED  BY <1>1, <1>2, <1>3, <1>4, <1>5 DEF RequestsInv, PR!LoadingProfileHasRequest

LEMMA LostRequests ==
  ASSUME RequestsInv, PR!LoseRequests, late' = late, talking' = talking
  PROVE  RequestsInv'
<1>. USE DEF PR!LoseRequests
<1>1. /\ pending' \in [Request -> {"none", "open", "claimed"}]
      /\ caller' \in [Request -> {"idle", "waiting", "answered", "failed"}]
      /\ profile' \in [PR!ReqUsers -> {"idle", "loading", "ready", "error"}]
  BY DEF RequestsInv
<1>2. \A s \in Request : Talks(s)' = Talks(s)
  BY DEF Talks
<1>3. \A x \in PR!ReqUsers : profile'[x] # "loading"
  BY DEF RequestsInv
<1>4. \A s \in Request : pending'[s] = "none" /\ (caller'[s] = "idle" => caller[s] = "idle")
                         /\ (caller'[s] = "waiting" => caller[s] = "waiting" /\ pending[s] = "none")
  BY DEF RequestsInv
<1>. QED  BY <1>1, <1>2, <1>3, <1>4 DEF RequestsInv, PR!LoadingProfileHasRequest

LEMMA RequestsInvStep == RequestsInv /\ [PR!ReqNext]_reqVars => RequestsInv'
<1>. SUFFICES ASSUME RequestsInv, [PR!ReqNext]_reqVars PROVE RequestsInv'
  OBVIOUS
<1>1. ASSUME NEW r \in Request, PR!Ask(r) PROVE RequestsInv'
  BY <1>1, AskedRequest
<1>2. ASSUME NEW r \in Request, PR!SendRequest(r) PROVE RequestsInv'
  BY <1>2, RequestsUntouched DEF PR!SendRequest
<1>3. ASSUME NEW r \in Request, PR!DirectRoute(r) PROVE RequestsInv'
  <2>1. CASE PR!Claim(r, "direct")
    BY <1>3, <2>1, ClaimedRequest DEF PR!DirectRoute, PR!Routes
  <2>2. CASE UNCHANGED talking /\ PR!EndRequest(r, "failed")
    BY <1>3, <2>2, EndedRequest DEF PR!DirectRoute
  <2>3. CASE UNCHANGED <<talking, pending, caller, late>>
    BY <1>3, <2>3, RequestsUntouched DEF PR!DirectRoute
  <2>. QED  BY <1>3, <2>1, <2>2, <2>3 DEF PR!DirectRoute
<1>4. ASSUME NEW r \in Request, PR!DirectRouteFails(r) PROVE RequestsInv'
  <2>1. CASE PR!EndRequest(r, "failed")
    BY <1>4, <2>1, EndedRequest DEF PR!DirectRouteFails
  <2>2. CASE UNCHANGED <<pending, caller, late>>
    BY <1>4, <2>2, RequestsUntouched DEF PR!DirectRouteFails
  <2>. QED  BY <1>4, <2>1, <2>2 DEF PR!DirectRouteFails
<1>5. ASSUME NEW r \in Request, PR!IndirectRoute(r) PROVE RequestsInv'
  <2>1. CASE PR!Claim(r, "indirect")
    BY <1>5, <2>1, ClaimedRequest DEF PR!IndirectRoute, PR!Routes
  <2>2. CASE UNCHANGED <<pending, caller, late, talking>>
    BY <1>5, <2>2, RequestsUntouched DEF PR!IndirectRoute
  <2>. QED  BY <1>5, <2>1, <2>2 DEF PR!IndirectRoute
<1>6. ASSUME NEW r \in Request, PR!CantConnect(r) PROVE RequestsInv'
  BY <1>6, EndedRequest DEF PR!CantConnect
<1>7. ASSUME NEW r \in Request, PR!Answered(r) PROVE RequestsInv'
  BY <1>7, EndedRequest DEF PR!Answered
<1>8. ASSUME NEW r \in Request, PR!ConversationBreaks(r) PROVE RequestsInv'
  <2>1. PICK route \in PR!Routes :
          /\ talking' = talking \ {<<r, route>>} /\ profile' = profile
          /\ PR!EndRequest(r, "failed") \/ UNCHANGED <<pending, caller, late>>
    BY <1>8 DEF PR!ConversationBreaks
  <2>2. CASE PR!EndRequest(r, "failed")  BY <2>1, <2>2, EndedRequest
  <2>3. CASE UNCHANGED <<pending, caller, late>>  BY <2>1, <2>3, RequestsUntouched
  <2>. QED  BY <2>1, <2>2, <2>3
<1>9. ASSUME NEW r \in Request, PR!UpdateProfile(r) PROVE RequestsInv'
  BY <1>9, UpdatedProfile
<1>10. ASSUME NEW r \in Request, PR!CallerTimeout(r) PROVE RequestsInv'
  BY <1>10, TimedOutRequest
<1>11. ASSUME NEW x \in PR!ReqUsers, PR!PeerAddressArrives(x) PROVE RequestsInv'
  <2>1. CASE UNCHANGED <<pending, caller, late>>
    BY <1>11, <2>1, RequestsUntouched DEF PR!PeerAddressArrives
  <2>2. ASSUME NEW r \in PR!Requesting(x), PR!TakeRequest(r, "failed") PROVE RequestsInv'
    <3>1. r \in Request  BY <2>2 DEF PR!Requesting, PR!OpenRequests
    <3>. QED  BY <1>11, <2>2, <3>1, TakenRequest DEF PR!PeerAddressArrives
  <2>. QED  BY <1>11, <2>1, <2>2 DEF PR!PeerAddressArrives
<1>12. ASSUME PR!SessionEnds PROVE RequestsInv'
  BY <1>12, LostRequests DEF PR!SessionEnds
<1>13. CASE UNCHANGED reqVars
  BY <1>13, RequestsUntouched DEF reqVars
<1>. QED  BY <1>1, <1>2, <1>3, <1>4, <1>5, <1>6, <1>7, <1>8, <1>9, <1>10, <1>11, <1>12, <1>13 DEF PR!ReqNext

LEMMA RequestCardinality == \A S : PR!Cardinality(S) = Cardinality(S)
  BY DEF PR!Cardinality, Cardinality

LEMMA RequestsInvServes == RequestsInv => RequestsAreServed
<1>. SUFFICES ASSUME RequestsInv PROVE RequestsAreServed
  OBVIOUS
<1>1. PR!NobodyWaitsInVain  BY DEF RequestsInv, PR!NobodyWaitsInVain
<1>2. ASSUME NEW r \in Request, pending[r] # "none"
      PROVE  Cardinality({route \in PR!Routes : <<r, route>> \in talking}) <= 1
  <2>1. \A a, b \in Talks(r) : a = b  BY <1>2 DEF RequestsInv
  <2>2. CASE Talks(r) = {}
    <3>1. Cardinality(Talks(r)) = 0  BY <2>2, FS_EmptySet
    <3>. QED  BY <3>1 DEF Talks
  <2>3. CASE Talks(r) # {}
    <3>1. PICK a : a \in Talks(r)  BY <2>3
    <3>2. Talks(r) = {a}  BY <2>1, <3>1
    <3>3. Cardinality(Talks(r)) = 1  BY <3>2, FS_Singleton
    <3>. QED  BY <3>3 DEF Talks
  <2>. QED  BY <2>2, <2>3
<1>3. PR!OneConversation  BY <1>2, RequestCardinality DEF PR!OneConversation
<1>. QED  BY <1>1, <1>3 DEF RequestsAreServed, RequestsInv

-----------------------------------------------------------------------------
(* The distributed network.  What was told last follows the topology, the  *)
(* topology follows the parent, and nobody is a child without an upstream. *)
BranchConstants == MaxLevel \in Nat /\ MaxParentId \in Nat

RootNames == DN!Names \cup {DN!Nobody}
NeighborType == [user : Neighbor, level : DN!Level \cup {DN!Unknown}, root : RootNames]
TopologyType == [level : Int, root : RootNames]
ToldType == [parent : BOOLEAN, level : Int, root : RootNames, accept : BOOLEAN]

BranchInv ==
  /\ candidates \in [DOMAIN candidates -> NeighborType]
  /\ parent # 0 => parent \in DOMAIN candidates
  /\ rootMode \in BOOLEAN /\ (rootMode => parent = 0)
  /\ topology \in TopologyType /\ told \in ToldType /\ accepting \in BOOLEAN
  /\ IF parent # 0 \/ rootMode
     THEN topology.level >= 0 /\ told.level = topology.level /\ told.root = topology.root
     ELSE topology = DN!NoTopology /\ told.level = 0 /\ told.root = Own /\ DOMAIN children = {}
  /\ told.parent <=> parent # 0
  /\ told.accept <=> accepting
  /\ \A c \in DOMAIN children : children[c] = topology
  /\ \A c \in DOMAIN children : c # Own /\ c # DN!ParentName

LEMMA EmptyDomain == \A x : DOMAIN [c \in {} |-> x] = {}
  OBVIOUS

LEMMA BranchInvInit == DN!DistInit => BranchInv
<1>. SUFFICES ASSUME DN!DistInit PROVE BranchInv
  OBVIOUS
<1>. USE DEF DN!DistInit
<1>1. DOMAIN candidates = {} /\ DOMAIN children = {}
  BY EmptyDomain
<1>2. candidates \in [DOMAIN candidates -> NeighborType]
  BY <1>1
<1>3. topology \in TopologyType
  BY DEF DN!NoTopology, TopologyType, RootNames, DN!Nobody
<1>4. told \in ToldType /\ told.level = 0 /\ told.root = Own /\ told.parent = FALSE /\ told.accept = FALSE
  BY DEF DN!NoParent, ToldType, RootNames, DN!Names
<1>. QED  BY <1>1, <1>2, <1>3, <1>4 DEF BranchInv

(* Without an upstream the branch is empty and the server knows it.        *)
LEMMA NoUpstream ==
  ASSUME candidates' \in [DOMAIN candidates' -> NeighborType], parent' = 0,
         rootMode' \in BOOLEAN, accepting' = FALSE, told' = DN!NoParent,
         DOMAIN children' = {},
         topology' = IF rootMode' THEN [level |-> 0, root |-> Own] ELSE DN!NoTopology
  PROVE  BranchInv'
<1>1. topology' \in TopologyType
  BY DEF DN!NoTopology, TopologyType, RootNames, DN!Nobody, DN!Names
<1>2. told' \in ToldType /\ told'.level = 0 /\ told'.root = Own /\ told'.parent = FALSE /\ told'.accept = FALSE
  BY DEF DN!NoParent, ToldType, RootNames, DN!Names
<1>3. rootMode' => topology'.level = 0 /\ topology'.root = Own
  OBVIOUS
<1>4. CASE rootMode'
  <2>1. topology'.level = 0 /\ topology'.level >= 0 /\ told'.level = topology'.level /\ told'.root = topology'.root
    BY <1>2, <1>3, <1>4
  <2>2. \A c \in DOMAIN children' : FALSE  OBVIOUS
  <2>. QED  BY <1>1, <1>2, <1>4, <2>1, <2>2 DEF BranchInv
<1>5. CASE ~rootMode'
  BY <1>1, <1>2, <1>5 DEF BranchInv
<1>. QED  BY <1>4, <1>5

LEMMA KeptCandidates ==
  ASSUME BranchInv, NEW T, candidates' = DN!Keep(T)
  PROVE  /\ DOMAIN candidates' = DOMAIN candidates \cap T
         /\ \A i \in DOMAIN candidates' : candidates'[i] = candidates[i]
         /\ candidates' \in [DOMAIN candidates' -> NeighborType]
  BY DEF DN!Keep, BranchInv

LEMMA Started ==
  ASSUME BranchInv, DN!StartCandidates
  PROVE  BranchInv'
<1>. USE DEF DN!StartCandidates
<1>1. PICK T \in SUBSET Neighbor :
        \E name \in [nextId..nextId + DN!Cardinality(T) - 1 -> T] :
          candidates' = [i \in DOMAIN name |-> [user |-> name[i], level |-> DN!Unknown, root |-> DN!Nobody]]
  OBVIOUS
<1>2. PICK name \in [nextId..nextId + DN!Cardinality(T) - 1 -> T] :
          candidates' = [i \in DOMAIN name |-> [user |-> name[i], level |-> DN!Unknown, root |-> DN!Nobody]]
  BY <1>1
<1>3. candidates' \in [DOMAIN candidates' -> NeighborType]
  BY <1>2 DEF NeighborType, RootNames
<1>4. DN!ParentName' = DN!ParentName
  BY DEF DN!ParentName
<1>. QED  BY <1>3, <1>4 DEF BranchInv

(* The parent, or another candidate, tells its level or its root.          *)
LEMMA FrameHeard ==
  ASSUME BranchInv, NEW i \in DOMAIN candidates, NEW c \in NeighborType,
         candidates' = [candidates EXCEPT ![i] = c], c.user = candidates[i].user,
         NEW t \in TopologyType, t.level >= 0, NEW s \in ToldType,
         s.parent = told.parent, s.accept = told.accept, s.level = t.level, s.root = t.root,
         IF parent = i THEN DN!Broadcast(t) /\ told' = s
                       ELSE UNCHANGED <<topology, children, told>>,
         UNCHANGED <<parent, rootMode, accepting>>
  PROVE  BranchInv'
<1>1. /\ DOMAIN candidates' = DOMAIN candidates
      /\ candidates' \in [DOMAIN candidates' -> NeighborType]
      /\ \A j \in DOMAIN candidates : candidates'[j].user = candidates[j].user
  BY DEF BranchInv
<1>2. DN!ParentName' = DN!ParentName
  BY <1>1 DEF DN!ParentName, BranchInv
<1>3. CASE parent = i
  <2>1. parent # 0
    BY <1>3 DEF BranchInv
  <2>2. PICK T \in SUBSET DOMAIN children : children' = [d \in T |-> t]
    BY <1>3 DEF DN!Broadcast
  <2>3. DOMAIN children' \subseteq DOMAIN children /\ \A d \in DOMAIN children' : children'[d] = t
    BY <2>2
  <2>4. topology' = t /\ told' = s
    BY <1>3 DEF DN!Broadcast
  <2>. QED  BY <1>1, <1>2, <2>1, <2>3, <2>4 DEF BranchInv
<1>4. CASE parent # i
  BY <1>1, <1>2, <1>4 DEF BranchInv
<1>. QED  BY <1>3, <1>4

LEMMA LevelHeard ==
  ASSUME BranchConstants, BranchInv, NEW i, NEW level \in DN!Level, DN!LevelFrame(i, level)
  PROVE  BranchInv'
<1>. USE DEF DN!LevelFrame
<1> DEFINE c == [candidates[i] EXCEPT !.level = level, !.root = IF level = 0 THEN candidates[i].user ELSE @]
           t == [topology EXCEPT !.level = level + 1]
           s == [[told EXCEPT !.level = level + 1] EXCEPT !.root = t.root]
<1>0. i \in DOMAIN candidates /\ candidates[i] \in NeighborType /\ level \in Int /\ level >= 0
  BY DEF BranchInv, BranchConstants, DN!Level
<1>1. candidates' = [candidates EXCEPT ![i] = c]
  BY <1>0 DEF BranchInv, NeighborType
<1>2. c \in NeighborType /\ c.user = candidates[i].user
  BY <1>0 DEF NeighborType, RootNames, DN!Names
<1>3. t \in TopologyType /\ t.level = level + 1 /\ t.root = topology.root
  BY <1>0 DEF BranchInv, TopologyType
<1>4. s \in ToldType /\ s.parent = told.parent /\ s.accept = told.accept /\ s.level = t.level /\ s.root = t.root
  BY <1>0, <1>3 DEF BranchInv, ToldType, TopologyType
<1>5. CASE parent = i
  <2>1. told.root = topology.root  BY <1>0, <1>5 DEF BranchInv
  <2>2. s = [told EXCEPT !.level = level + 1]
    BY <2>1, <1>3 DEF BranchInv, ToldType
  <2>3. DN!Broadcast(t) /\ told' = s  BY <1>5, <2>2
  <2>4. t.level >= 0  BY <1>0, <1>3
  <2>5. UNCHANGED <<parent, rootMode, accepting>>  OBVIOUS
  <2>. HIDE DEF c, t, s
  <2>. QED  BY <1>0, <1>1, <1>2, <1>3, <1>4, <1>5, <2>3, <2>4, <2>5, FrameHeard
<1>6. CASE parent # i
  <2>1. UNCHANGED <<topology, children, told>> /\ UNCHANGED <<parent, rootMode, accepting>>  BY <1>6
  <2>2. t.level >= 0  BY <1>0, <1>3
  <2>. HIDE DEF c, t, s
  <2>. QED  BY <1>0, <1>1, <1>2, <1>3, <1>4, <1>6, <2>1, <2>2, FrameHeard
<1>. QED  BY <1>5, <1>6

LEMMA RootHeard ==
  ASSUME BranchInv, NEW i, NEW root \in DN!Names, DN!RootFrame(i, root)
  PROVE  BranchInv'
<1>. USE DEF DN!RootFrame
<1> DEFINE c == [candidates[i] EXCEPT !.root = root]
           t == [topology EXCEPT !.root = root]
           s == [told EXCEPT !.root = root]
<1>0. i \in DOMAIN candidates /\ candidates[i] \in NeighborType /\ root \in RootNames
  BY DEF BranchInv, RootNames
<1>1. candidates' = [candidates EXCEPT ![i] = c]
  BY <1>0 DEF BranchInv, NeighborType
<1>2. c \in NeighborType /\ c.user = candidates[i].user
  BY <1>0 DEF NeighborType
<1>3. /\ t \in TopologyType /\ t.level = topology.level /\ t.root = root
      /\ s \in ToldType /\ s.parent = told.parent /\ s.accept = told.accept /\ s.level = told.level /\ s.root = root
  BY <1>0 DEF BranchInv, TopologyType, ToldType
<1>4. \A d \in DOMAIN candidates \ {i} : candidates'[d] = candidates[d]
  BY <1>1
<1>5. CASE parent = i
  <2>1. told.level = topology.level /\ topology.level >= 0  BY <1>5, <1>0 DEF BranchInv
  <2>2. DN!Broadcast(t) /\ told' = s  BY <1>5
  <2>3. UNCHANGED <<parent, rootMode, accepting>>  OBVIOUS
  <2>4. t.level >= 0 /\ s.level = t.level /\ s.root = t.root  BY <1>3, <2>1
  <2>. HIDE DEF c, t, s
  <2>. QED  BY <1>0, <1>1, <1>2, <1>3, <1>5, <2>2, <2>3, <2>4, FrameHeard
<1>6. CASE parent # i
  <2>1. UNCHANGED <<topology, children, told, parent, rootMode, accepting>>  BY <1>6
  <2>2. /\ DOMAIN candidates' = DOMAIN candidates
        /\ candidates' \in [DOMAIN candidates' -> NeighborType]
    BY <1>1, <1>2 DEF BranchInv
  <2>3. DN!ParentName' = DN!ParentName
    BY <2>1, <1>4, <1>6 DEF DN!ParentName, BranchInv
  <2>. QED  BY <2>1, <2>2, <2>3 DEF BranchInv
<1>. QED  BY <1>5, <1>6

LEMMA Adopted ==
  ASSUME BranchInv, NEW i, i # 0, DN!Adopt(i)
  PROVE  BranchInv'
<1>. USE DEF DN!Adopt
<1> DEFINE t == [level |-> candidates[i].level + 1, root |-> candidates[i].root]
<1>1. candidates[i] \in NeighborType /\ candidates[i].level \in DN!Level
  BY DEF BranchInv, NeighborType
<1>2. candidates[i].level \in Int /\ candidates[i].level >= 0
  BY <1>1 DEF DN!Level
<1>3. t \in TopologyType /\ t.level >= 0
  BY <1>1, <1>2 DEF TopologyType, NeighborType
<1>4. DOMAIN children = {}
  BY DEF BranchInv
<1>5. topology' = t /\ DOMAIN children' = {}
  BY <1>4 DEF DN!Broadcast
<1>6. told' = [parent |-> TRUE, level |-> t.level, root |-> t.root, accept |-> FALSE]
  OBVIOUS
<1>7. told' \in ToldType /\ told'.level = t.level /\ told'.root = t.root /\ told'.parent = TRUE /\ told'.accept = FALSE
  BY <1>3, <1>6 DEF ToldType, TopologyType
<1>8. /\ candidates' \in [DOMAIN candidates' -> NeighborType]
      /\ i \in DOMAIN candidates'
  <2>1. candidates' = DN!Keep({i}) /\ i \in DOMAIN candidates  OBVIOUS
  <2>. QED  BY <2>1, KeptCandidates
<1>. HIDE DEF t
<1>9. parent' = i /\ accepting' = FALSE /\ rootMode' = FALSE
  BY DEF BranchInv
<1>. QED  BY <1>3, <1>5, <1>7, <1>8, <1>9 DEF BranchInv

LEMMA HasClosed ==
  ASSUME BranchInv, NEW i, i # 0, DN!Closed(i)
  PROVE  BranchInv'
<1>. USE DEF DN!Closed
<1>1. /\ DOMAIN candidates' = DOMAIN candidates \ {i}
      /\ \A j \in DOMAIN candidates' : candidates'[j] = candidates[j]
      /\ candidates' \in [DOMAIN candidates' -> NeighborType]
  <2>1. candidates' = DN!Keep(DOMAIN candidates \ {i})  OBVIOUS
  <2> DEFINE T == DOMAIN candidates \ {i}
  <2>2. DOMAIN candidates \cap T = T  OBVIOUS
  <2>. HIDE DEF T
  <2>3. candidates' = DN!Keep(T)  BY <2>1 DEF T
  <2>. QED  BY <2>2, <2>3, KeptCandidates DEF T
<1>2. CASE parent # i
  <2>1. DN!ParentName' = DN!ParentName
    BY <1>1, <1>2 DEF DN!ParentName, BranchInv
  <2>. QED  BY <1>1, <1>2, <2>1 DEF BranchInv
<1>3. CASE parent = i
  <2>1. parent' = 0 /\ rootMode' = FALSE /\ topology' = DN!NoTopology /\ DOMAIN children' = {}
        /\ told' = DN!NoParent /\ accepting' = FALSE
    BY <1>3, EmptyDomain DEF DN!ResetBranch, BranchInv
  <2>. QED  BY <1>1, <2>1, NoUpstream
<1>. QED  BY <1>2, <1>3

(* Children leave, or stay with the topology they know.                    *)
LEMMA ChildrenChange ==
  ASSUME BranchInv, UNCHANGED <<candidates, parent, rootMode, topology>>,
         \A c \in DOMAIN children' : c \in DOMAIN children \/ (c # Own /\ c # DN!ParentName /\ topology # DN!NoTopology),
         \A c \in DOMAIN children' : children'[c] = topology,
         accepting' \in BOOLEAN, told' \in ToldType, told'.accept = accepting',
         told'.parent = told.parent, told'.level = told.level, told'.root = told.root
  PROVE  BranchInv'
<1>1. DN!ParentName' = DN!ParentName  BY DEF DN!ParentName
<1>. QED  BY <1>1 DEF BranchInv

LEMMA BranchInvStep == BranchConstants /\ BranchInv /\ [DN!DistNext]_distVars => BranchInv'
<1>. SUFFICES ASSUME BranchConstants, BranchInv, [DN!DistNext]_distVars PROVE BranchInv'
  OBVIOUS
<1>1. ASSUME DN!StartCandidates PROVE BranchInv'  BY <1>1, Started
<1>2. ASSUME DN!BecomeBranchRoot PROVE BranchInv'
  <2>1. candidates' \in [DOMAIN candidates' -> NeighborType]
    BY <1>2, KeptCandidates DEF DN!BecomeBranchRoot
  <2>2. DOMAIN children' = {}  BY <1>2, EmptyDomain DEF DN!BecomeBranchRoot
  <2>. QED  BY <1>2, <2>1, <2>2, NoUpstream DEF DN!BecomeBranchRoot
<1>3. ASSUME DN!ResetDistributed PROVE BranchInv'
  <2>1. candidates' \in [DOMAIN candidates' -> NeighborType]
    BY <1>3, KeptCandidates DEF DN!ResetDistributed
  <2>2. DOMAIN children' = {} /\ topology' = DN!NoTopology
    BY <1>3, EmptyDomain DEF DN!ResetDistributed, DN!ResetBranch
  <2>. QED  BY <1>3, <2>1, <2>2, NoUpstream DEF DN!ResetDistributed
<1>4. ASSUME DN!Relay PROVE BranchInv'
  <2>1. PICK T \in SUBSET DOMAIN children : children' = [c \in T |-> children[c]]
    BY <1>4 DEF DN!Relay
  <2>2. \A c \in DOMAIN children' : c \in DOMAIN children /\ children'[c] = topology
    BY <2>1 DEF BranchInv
  <2>3. UNCHANGED <<candidates, parent, rootMode, topology, accepting, told>>
    BY <1>4 DEF DN!Relay, DN!coordinatorVars
  <2>4. accepting' \in BOOLEAN /\ told' \in ToldType /\ told'.accept = accepting'
    BY <2>3 DEF BranchInv, ToldType
  <2>. QED  BY <2>2, <2>3, <2>4, ChildrenChange
<1>5. ASSUME DN!Maintain PROVE BranchInv'
  <2>1. PICK room \in 0..MaxChildren, alive \in SUBSET DOMAIN children :
          LET kept == IF DN!Cardinality(alive) > room THEN {} ELSE alive IN
          /\ children' = [c \in kept |-> children[c]]
          /\ accepting' = DN!Accepts(room, kept)
    BY <1>5 DEF DN!Maintain
  <2> DEFINE kept == IF DN!Cardinality(alive) > room THEN {} ELSE alive
  <2>2. kept \subseteq DOMAIN children  OBVIOUS
  <2>3. \A c \in DOMAIN children' : c \in DOMAIN children /\ children'[c] = topology
    BY <2>1, <2>2 DEF BranchInv
  <2>4. accepting' \in BOOLEAN  BY <2>1 DEF DN!Accepts
  <2>5. told' = [told EXCEPT !.accept = accepting'] /\ UNCHANGED <<candidates, parent, rootMode, topology>>
    BY <1>5 DEF DN!Maintain, DN!coordinatorVars
  <2>6. /\ told' \in ToldType /\ told'.accept = accepting'
        /\ told'.parent = told.parent /\ told'.level = told.level /\ told'.root = told.root
    BY <2>4, <2>5 DEF BranchInv, ToldType
  <2>. HIDE DEF kept
  <2>. QED  BY <2>3, <2>4, <2>5, <2>6, ChildrenChange
<1>6. ASSUME NEW i \in 1..MaxParentId, NEW level \in DN!Level, DN!LevelFrame(i, level) PROVE BranchInv'
  BY <1>6, LevelHeard
<1>7. ASSUME NEW i \in 1..MaxParentId, NEW root \in DN!Names, DN!RootFrame(i, root) PROVE BranchInv'
  BY <1>7, RootHeard
<1>8. ASSUME NEW i \in 1..MaxParentId, DN!Adopt(i) PROVE BranchInv'
  <2>1. i # 0  BY DEF BranchConstants
  <2>. QED  BY <1>8, <2>1, Adopted
<1>9. ASSUME NEW i \in 1..MaxParentId, DN!Closed(i) PROVE BranchInv'
  <2>1. i # 0  BY DEF BranchConstants
  <2>. QED  BY <1>9, <2>1, HasClosed
<1>10. ASSUME NEW c \in DN!Names, DN!AddChild(c) PROVE BranchInv'
  <2>1. PICK room \in 0..MaxChildren, alive \in SUBSET DOMAIN children :
          LET kept == IF DN!Cardinality(alive) > room THEN {} ELSE alive
              takes == /\ DN!Accepts(room, kept) /\ c \notin kept
                       /\ c \notin {Own, topology.root, DN!ParentName}
          IN  children' = [d \in kept \cup (IF takes THEN {c} ELSE {}) |->
                             IF d \in kept THEN children[d] ELSE topology]
    BY <1>10 DEF DN!AddChild
  <2> DEFINE kept == IF DN!Cardinality(alive) > room THEN {} ELSE alive
             takes == /\ DN!Accepts(room, kept) /\ c \notin kept
                      /\ c \notin {Own, topology.root, DN!ParentName}
  <2>2. kept \subseteq DOMAIN children  OBVIOUS
  <2>3. takes => c # Own /\ c # DN!ParentName /\ topology # DN!NoTopology
    BY DEF DN!Accepts
  <2>4. children' = [d \in kept \cup (IF takes THEN {c} ELSE {}) |->
                       IF d \in kept THEN children[d] ELSE topology]
    BY <2>1
  <2>. HIDE DEF kept, takes
  <2>5. \A d \in DOMAIN children' :
          /\ d \in DOMAIN children \/ (d # Own /\ d # DN!ParentName /\ topology # DN!NoTopology)
          /\ children'[d] = topology
    BY <2>2, <2>3, <2>4 DEF BranchInv
  <2>6. UNCHANGED <<candidates, parent, rootMode, topology, accepting, told>>
    BY <1>10 DEF DN!AddChild, DN!coordinatorVars
  <2>7. accepting' \in BOOLEAN /\ told' \in ToldType /\ told'.accept = accepting'
    BY <2>6 DEF BranchInv, ToldType
  <2>. QED  BY <2>5, <2>6, <2>7, ChildrenChange
<1>11. CASE UNCHANGED distVars
  <2>1. DN!ParentName' = DN!ParentName  BY <1>11 DEF DN!ParentName, distVars
  <2>. QED  BY <1>11, <2>1 DEF distVars, BranchInv
<1>. QED  BY <1>1, <1>2, <1>3, <1>4, <1>5, <1>6, <1>7, <1>8, <1>9, <1>10, <1>11 DEF DN!DistNext

LEMMA BranchInvIsSound == BranchInv => BranchIsSound
<1>. SUFFICES ASSUME BranchInv PROVE BranchIsSound
  OBVIOUS
<1>1. parent # 0 \/ rootMode => topology # DN!NoTopology
  BY DEF BranchInv, DN!NoTopology
<1>2. [level |-> told.level, root |-> told.root] =
        IF topology = DN!NoTopology THEN [level |-> 0, root |-> Own] ELSE topology
  <2>1. CASE parent # 0 \/ rootMode
    <3>1. topology = [level |-> topology.level, root |-> topology.root]
      BY DEF BranchInv, TopologyType
    <3>. QED  BY <1>1, <2>1, <3>1 DEF BranchInv
  <2>2. CASE ~(parent # 0 \/ rootMode)
    BY <2>2 DEF BranchInv
  <2>. QED  BY <2>1, <2>2
<1>3. DN!BranchIsAnnounced
  BY <1>2 DEF BranchInv, DN!BranchIsAnnounced
<1>4. DN!NoLoop
  BY DEF BranchInv, DN!NoLoop
<1>. QED  BY <1>3, <1>4 DEF BranchIsSound

-----------------------------------------------------------------------------
(* The searches.  A token is given out once and stands for the query of    *)
(* the search that has it.                                                 *)
SearchConstants ==
  /\ MaxToken \in Nat /\ Tries \in Nat /\ Timeout \in Nat
  /\ Spacing \in Nat /\ Interval \in Nat

SearchType ==
  [client : Client, state : {"searching", "error", "stopped", "completed"}, due : Nat,
   since : Nat, found : Nat, try : Nat, tries : Nat, first : Nat]

SearchTypes ==
  /\ nextToken \in Nat \ {0} /\ now \in Nat /\ now # 0
  /\ searches \in [DOMAIN searches -> SearchType]
  /\ DOMAIN searches \subseteq 1 .. MaxToken
  /\ \A t \in DOMAIN searches : t < nextToken
  /\ asked \in [1 .. MaxToken -> SUBSET (Nat \X Nat)]
  /\ starting \in [Client -> {"no", "checked", "queued"}]
  /\ session \in {"down", "up", "ending"} /\ crossed \in BOOLEAN

TokensInv ==
  /\ \A t \in 1 .. MaxToken :
       /\ t >= nextToken => asked[t] = {}
       /\ \A a, b \in asked[t] : a = b
  /\ \A t \in DOMAIN searches :
       /\ \A a \in asked[t] : a = <<searches[t].first, searches[t].try>>
       /\ searches[t].found # 0 => asked[t] # {}

(* A search whose session is gone is one whose thread will still find out. *)
EndingInv ==
  /\ session = "ending" /\ ~crossed => \A c \in Client : starting[c] = "no"
  /\ session # "up" /\ ~crossed =>
       \A t \in DOMAIN searches : SE!Live(searches[t]) => starting[searches[t].client] # "no"

(* The budget remembers every write, and the last of the Wanted lane.      *)
BudgetType ==
  [online : BOOLEAN, seconds : {0, Interval}, announced : Nat, lastSend : Nat, lastWishlist : Nat]
BudgetInv ==
  /\ budget \in BudgetType /\ lastWrite \in [any : Nat, wanted : Nat]
  /\ lastWrite.any <= budget.lastSend /\ budget.lastSend <= now
  /\ lastWrite.wanted <= budget.lastWishlist /\ budget.lastWishlist <= now

SearchesInv == SearchTypes /\ TokensInv /\ EndingInv /\ BudgetInv

LEMMA SearchesInvInit == SearchConstants /\ SE!SearchInit => SearchesInv
<1>. SUFFICES ASSUME SearchConstants, SE!SearchInit PROVE SearchesInv
  OBVIOUS
<1>. USE DEF SE!SearchInit, SearchConstants
<1>1. DOMAIN searches = {}  OBVIOUS
<1>2. SearchTypes
  <2>1. searches \in [DOMAIN searches -> SearchType]  BY <1>1
  <2>2. asked \in [1 .. MaxToken -> SUBSET (Nat \X Nat)]  OBVIOUS
  <2>3. /\ nextToken = 1 /\ now = 1 /\ session = "down" /\ crossed = FALSE
        /\ starting = [c \in Client |-> "no"]
    OBVIOUS
  <2>4. starting \in [Client -> {"no", "checked", "queued"}] /\ session \in {"down", "up", "ending"}
    BY <2>3
  <2>5. nextToken \in Nat \ {0} /\ now \in Nat /\ now # 0
    <3>1. nextToken = 1 /\ now = 1  BY <2>3
    <3>2. 1 \in Nat \ {0} /\ 1 # 0  OBVIOUS
    <3>. QED  BY <3>1, <3>2
  <2>5b. crossed \in BOOLEAN  BY <2>3
  <2>6. DOMAIN searches \subseteq 1 .. MaxToken /\ \A t \in DOMAIN searches : t < nextToken
    BY <1>1
  <2>. QED  BY <2>1, <2>2, <2>4, <2>5, <2>5b, <2>6 DEF SearchTypes
<1>3. TokensInv  BY <1>1 DEF TokensInv
<1>4. EndingInv  BY <1>1 DEF EndingInv
<1>5. BudgetInv
  <2>1. budget \in BudgetType  BY DEF BudgetType
  <2>2. budget.lastSend = 0 /\ budget.lastWishlist = 0 /\ lastWrite.any = 0 /\ lastWrite.wanted = 0 /\ now = 1
    OBVIOUS
  <2>3. lastWrite \in [any : Nat, wanted : Nat]  OBVIOUS
  <2>. QED  BY <2>1, <2>2, <2>3 DEF BudgetInv
<1>. QED  BY <1>2, <1>3, <1>4, <1>5 DEF SearchesInv

-----------------------------------------------------------------------------
(* Searches that end, or are closed: what is left of them is as it was.    *)
Fades ==
  /\ searches' \in [DOMAIN searches' -> SearchType]
  /\ \A t \in DOMAIN searches' :
       /\ t \in DOMAIN searches
       /\ searches'[t].client = searches[t].client /\ searches'[t].found = searches[t].found
       /\ searches'[t].try = searches[t].try /\ searches'[t].first = searches[t].first
       /\ SE!Live(searches'[t]) => SE!Live(searches[t])

LEMMA EndedSearch ==
  ASSUME NEW s \in SearchType, NEW how \in {"error", "stopped", "completed"}
  PROVE  LET e == SE!End(s, how) IN
         /\ e \in SearchType /\ e.client = s.client /\ e.found = s.found
         /\ e.try = s.try /\ e.first = s.first /\ ~SE!Live(e)
  BY DEF SE!End, SE!Live, SearchType

LEMMA SomeEnd ==
  ASSUME SearchTypes, NEW how \in {"error", "stopped", "completed"}, NEW T,
         searches' = [t \in DOMAIN searches |-> IF t \in T THEN SE!End(searches[t], how) ELSE searches[t]]
  PROVE  Fades /\ DOMAIN searches' = DOMAIN searches
         /\ (\A x \in DOMAIN searches : x \in T => ~SE!Live(searches'[x]))
         /\ (\A x \in DOMAIN searches : x \notin T => searches'[x] = searches[x])
<1>1. DOMAIN searches' = DOMAIN searches  OBVIOUS
<1>2. ASSUME NEW t \in DOMAIN searches PROVE
        LET e == searches'[t] s == searches[t] IN
        /\ e \in SearchType /\ e.client = s.client /\ e.found = s.found
        /\ e.try = s.try /\ e.first = s.first /\ (SE!Live(e) => SE!Live(s))
        /\ (t \in T => ~SE!Live(e))
  <2>1. searches[t] \in SearchType  BY DEF SearchTypes
  <2>2. CASE t \in T
    <3>1. searches'[t] = SE!End(searches[t], how)  BY <2>2
    <3>. QED  BY <2>1, <3>1, EndedSearch
  <2>3. CASE t \notin T
    <3>1. searches'[t] = searches[t]  BY <2>3
    <3>. QED  BY <2>1, <2>3, <3>1
  <2>. QED  BY <2>2, <2>3
<1>3. searches' \in [DOMAIN searches' -> SearchType]  BY <1>1, <1>2
<1>4. \A t \in DOMAIN searches : t \notin T => searches'[t] = searches[t]  OBVIOUS
<1>. QED  BY <1>1, <1>2, <1>3, <1>4 DEF Fades

LEMMA AllEnd ==
  ASSUME SearchTypes, NEW how \in {"error", "stopped", "completed"}, searches' = SE!EndAll(how)
  PROVE  Fades /\ \A t \in DOMAIN searches' : ~SE!Live(searches'[t])
<1> DEFINE T == DOMAIN searches
<1>1. searches' = [t \in DOMAIN searches |-> IF t \in T THEN SE!End(searches[t], how) ELSE searches[t]]
  BY DEF SE!EndAll
<1>. HIDE DEF T
<1>2. Fades /\ DOMAIN searches' = DOMAIN searches /\ \A t \in DOMAIN searches : t \in T => ~SE!Live(searches'[t])
  BY <1>1, SomeEnd
<1>. QED  BY <1>2 DEF T

LEMMA OneEnds ==
  ASSUME SearchTypes, NEW how \in {"error", "stopped", "completed"}, NEW t \in DOMAIN searches,
         searches' = [searches EXCEPT ![t] = SE!End(@, how)]
  PROVE  Fades
<1> DEFINE T == {t}
<1>1. searches' = [x \in DOMAIN searches |-> IF x \in T THEN SE!End(searches[x], how) ELSE searches[x]]
  BY DEF SearchTypes
<1>. HIDE DEF T
<1>. QED  BY <1>1, SomeEnd

LEMMA SearchesFade ==
  ASSUME SearchTypes, TokensInv, Fades, UNCHANGED <<nextToken, asked, now>>,
         starting' \in [Client -> {"no", "checked", "queued"}],
         session' \in {"down", "up", "ending"}, crossed' \in BOOLEAN
  PROVE  SearchTypes' /\ TokensInv'
<1>1. SearchTypes'  BY DEF SearchTypes, Fades
<1>2. TokensInv'  BY DEF TokensInv, Fades, SearchTypes
<1>. QED  BY <1>1, <1>2

LEMMA EndingFades ==
  ASSUME SearchTypes, EndingInv, Fades, UNCHANGED <<starting, session, crossed>>
  PROVE  EndingInv'
  BY DEF EndingInv, Fades

LEMMA BudgetKept ==
  ASSUME BudgetInv, UNCHANGED <<budget, lastWrite, now>> PROVE BudgetInv'
  BY DEF BudgetInv

(* A search under a new token.                                             *)
LEMMA NewSearch ==
  ASSUME SearchConstants, SearchTypes, TokensInv, nextToken <= MaxToken, nextToken' = nextToken + 1,
         NEW s \in SearchType, s.found = 0, NEW T, T \subseteq DOMAIN searches,
         searches' = [t \in T \cup {nextToken} |-> IF t = nextToken THEN s ELSE searches[t]],
         UNCHANGED <<asked, now, session, crossed>>,
         starting' \in [Client -> {"no", "checked", "queued"}]
  PROVE  SearchTypes' /\ TokensInv'
<1>. USE DEF SearchConstants
<1>0. nextToken \in 1 .. MaxToken /\ nextToken \notin DOMAIN searches
  BY DEF SearchTypes
<1>1. /\ DOMAIN searches' = T \cup {nextToken}
      /\ searches'[nextToken] = s
      /\ \A t \in T : searches'[t] = searches[t]
  BY <1>0
<1>2. searches' \in [DOMAIN searches' -> SearchType]
  BY <1>1 DEF SearchTypes
<1>3. SearchTypes'
  BY <1>0, <1>1, <1>2 DEF SearchTypes
<1>4. asked[nextToken] = {}
  BY <1>0 DEF TokensInv, SearchTypes
<1>5. \A t \in 1 .. MaxToken : t >= nextToken' => asked'[t] = {}
  BY DEF TokensInv, SearchTypes
<1>6. ASSUME NEW t \in DOMAIN searches' PROVE
       /\ \A a \in asked'[t] : a = <<searches'[t].first, searches'[t].try>>
       /\ searches'[t].found # 0 => asked'[t] # {}
  <2>1. CASE t = nextToken  BY <2>1, <1>1, <1>4
  <2>2. CASE t # nextToken  BY <2>2, <1>1 DEF TokensInv
  <2>. QED  BY <2>1, <2>2
<1>7. \A t \in 1 .. MaxToken : \A a, b \in asked'[t] : a = b
  <2>1. asked' = asked  OBVIOUS
  <2>2. \A t \in 1 .. MaxToken : \A a, b \in asked[t] : a = b  BY DEF TokensInv
  <2>. QED  BY <2>1, <2>2
<1>8. TokensInv'  BY <1>5, <1>6, <1>7 DEF TokensInv
<1>. QED  BY <1>3, <1>8

LEMMA Queues ==
  ASSUME SearchConstants, SearchTypes, TokensInv, EndingInv, NEW c \in Client, SE!QueueSearch(c)
  PROVE  SearchTypes' /\ TokensInv' /\ EndingInv'
<1>. USE DEF SE!QueueSearch, SE!userVars
<1>0. starting[c] = "checked" /\ c \in DOMAIN starting  BY DEF SearchTypes
<1>1. CASE SE!Of(c) = {} /\ SE!Full(c)
  <2>1. starting' = [starting EXCEPT ![c] = "no"] /\ searches' = searches  BY <1>1
  <2>2. starting' \in [Client -> {"no", "checked", "queued"}]  BY <2>1 DEF SearchTypes
  <2>3. \A t \in DOMAIN searches : searches[t].client # c  BY <1>1 DEF SE!Of
  <2>4. SearchTypes'  BY <2>1, <2>2 DEF SearchTypes
  <2>5. TokensInv'
    <3>1. asked' = asked /\ searches' = searches /\ nextToken' = nextToken + 1  BY <2>1
    <3>2. nextToken \in Nat  BY DEF SearchTypes
    <3>3. \A t \in 1 .. MaxToken : t >= nextToken' => t >= nextToken  BY <3>1, <3>2
    <3>4. \A t \in 1 .. MaxToken : t >= nextToken' => asked'[t] = {}  BY <3>1, <3>3 DEF TokensInv
    <3>. QED  BY <3>1, <3>4 DEF TokensInv
  <2>6. \A d \in Client : starting[d] = "no" => starting'[d] = "no"  BY <2>1 DEF SearchTypes
  <2>7. \A d \in Client \ {c} : starting'[d] = starting[d]  BY <2>1 DEF SearchTypes
  <2>8. \A t \in DOMAIN searches : searches[t].client \in Client \ {c}
    BY <2>3 DEF SearchTypes, SearchType
  <2>9. EndingInv'  BY <2>1, <2>6, <2>7, <2>8 DEF EndingInv
  <2>. QED  BY <2>4, <2>5, <2>9
<1>2. CASE ~(SE!Of(c) = {} /\ SE!Full(c))
  <2>1. PICK tries \in {1, Tries} : searches' =
               [t \in (DOMAIN searches \ SE!Of(c)) \cup {nextToken} |->
                   IF t # nextToken THEN searches[t]
                   ELSE [client |-> c, state |-> "searching", due |-> 0,
                         since |-> now, found |-> 0, try |-> 1, tries |-> tries,
                         first |-> nextToken]]
    BY <1>2
  <2> DEFINE T == DOMAIN searches \ SE!Of(c)
             s == [client |-> c, state |-> "searching", due |-> 0,
                         since |-> now, found |-> 0, try |-> 1, tries |-> tries,
                         first |-> nextToken]
  <2>2. starting' = [starting EXCEPT ![c] = "queued"]  BY <1>2
  <2>3. starting' \in [Client -> {"no", "checked", "queued"}] /\ starting'[c] = "queued"
    BY <2>2 DEF SearchTypes
  <2>4. s \in SearchType /\ s.found = 0 /\ s.client = c
    BY DEF SearchType, SearchTypes, SearchConstants
  <2>5. searches' = [t \in T \cup {nextToken} |-> IF t = nextToken THEN s ELSE searches[t]]
    BY <2>1
  <2>6. T \subseteq DOMAIN searches  OBVIOUS
  <2>7. nextToken <= MaxToken /\ nextToken' = nextToken + 1 /\ UNCHANGED <<asked, now, session, crossed>>
    OBVIOUS
  <2>. HIDE DEF s, T
  <2>8. SearchTypes' /\ TokensInv'  BY <2>3, <2>4, <2>5, <2>6, <2>7, NewSearch
  <2>9. \A d \in Client \ {c} : starting'[d] = starting[d]  BY <2>2 DEF SearchTypes
  <2>10. /\ nextToken \notin T
         /\ searches'[nextToken].client = c
         /\ \A t \in T : searches'[t] = searches[t] /\ searches[t].client \in Client \ {c}
    <3>1. nextToken \notin T  BY <2>6 DEF SearchTypes
    <3>2. \A t \in T : searches[t].client \in Client \ {c}  BY DEF T, SE!Of, SearchTypes, SearchType
    <3>. QED  BY <2>4, <2>5, <3>1, <3>2
  <2>11. session = "ending" => crossed  BY <1>0 DEF EndingInv
  <2>12. ASSUME session # "up", ~crossed, NEW t \in DOMAIN searches', SE!Live(searches'[t])
         PROVE  starting'[searches'[t].client] # "no"
    <3>1. CASE t = nextToken  BY <3>1, <2>3, <2>10
    <3>2. CASE t \in T
      <4>1. starting[searches[t].client] # "no"  BY <2>6, <2>10, <2>12, <3>2 DEF EndingInv
      <4>. QED  BY <4>1, <2>9, <2>10, <3>2
    <3>. QED  BY <3>1, <3>2, <2>5
  <2>13. EndingInv'  BY <2>7, <2>11, <2>12 DEF EndingInv
  <2>. QED  BY <2>8, <2>13
<1>. QED  BY <1>1, <1>2

LEMMA Tells ==
  ASSUME SearchTypes, TokensInv, EndingInv, NEW c \in Client, SE!TellSession(c)
  PROVE  SearchTypes' /\ TokensInv' /\ EndingInv'
<1>. USE DEF SE!TellSession, SE!userVars
<1>1. starting' = [starting EXCEPT ![c] = "no"] /\ starting' \in [Client -> {"no", "checked", "queued"}]
  BY DEF SearchTypes
<1>2. \A d \in Client \ {c} : starting'[d] = starting[d]  BY <1>1 DEF SearchTypes
<1>3. session = "ending" => crossed  BY DEF EndingInv
<1>4. CASE session # "down"
  <2>1. searches' = searches  BY <1>4
  <2>2. Fades  BY <2>1 DEF Fades, SearchTypes
  <2>3. SearchTypes' /\ TokensInv'  BY <1>1, <2>2, SearchesFade DEF SearchTypes
  <2>4. session = "up" \/ crossed  BY <1>3, <1>4 DEF SearchTypes
  <2>. QED  BY <2>3, <2>4 DEF EndingInv
<1>5. CASE session = "down"
  <2> DEFINE T == SE!Of(c)
  <2>1. searches' = [t \in DOMAIN searches |-> IF t \in T THEN SE!End(searches[t], "error") ELSE searches[t]]
    BY <1>5
  <2>. HIDE DEF T
  <2>2. /\ Fades /\ DOMAIN searches' = DOMAIN searches
        /\ \A t \in DOMAIN searches : t \in T => ~SE!Live(searches'[t])
        /\ \A t \in DOMAIN searches : t \notin T => searches'[t] = searches[t]
    BY <2>1, SomeEnd
  <2>3. SearchTypes' /\ TokensInv'  BY <1>1, <2>2, SearchesFade DEF SearchTypes
  <2>4. ASSUME ~crossed, NEW t \in DOMAIN searches', SE!Live(searches'[t])
        PROVE  starting'[searches'[t].client] # "no"
    <3>1. t \in DOMAIN searches /\ t \notin T /\ searches'[t] = searches[t]  BY <2>2, <2>4
    <3>2. searches[t].client \in Client \ {c}  BY <3>1 DEF T, SE!Of, SearchTypes, SearchType
    <3>3. starting[searches[t].client] # "no"  BY <1>5, <2>4, <3>1 DEF EndingInv
    <3>. QED  BY <1>2, <3>1, <3>2, <3>3
  <2>. QED  BY <1>5, <2>3, <2>4 DEF EndingInv
<1>. QED  BY <1>4, <1>5

LEMMA RetriedSearch ==
  ASSUME NEW r \in SearchType, NEW n \in Nat
  PROVE  LET s == [r EXCEPT !.try = @ + 1, !.due = 0, !.since = n] IN
         s \in SearchType /\ s.found = r.found /\ s.client = r.client /\ s.state = r.state
<1>1. r.try + 1 \in Nat  BY DEF SearchType
<1>2. [r EXCEPT !.try = r.try + 1, !.due = 0, !.since = n] \in SearchType  BY <1>1 DEF SearchType
<1>. QED  BY <1>2 DEF SearchType

LEMMA Retries ==
  ASSUME SearchConstants, SearchTypes, TokensInv, NEW t \in DOMAIN searches, searches[t].found = 0,
         SE!RetryEmpty(t), UNCHANGED <<asked, now, session, crossed, starting>>
  PROVE  SearchTypes' /\ TokensInv'
<1>. USE DEF SE!RetryEmpty
<1> DEFINE s == [searches[t] EXCEPT !.try = @ + 1, !.due = 0, !.since = now]
           T == DOMAIN searches \ {t}
<1>1. searches[t] \in SearchType  BY DEF SearchTypes
<1>2. s \in SearchType /\ s.found = 0
  BY <1>1, RetriedSearch DEF SearchTypes
<1>3. nextToken \notin DOMAIN searches  BY DEF SearchTypes
<1>4. searches' = [x \in T \cup {nextToken} |-> IF x = nextToken THEN s ELSE searches[x]]
  BY <1>3 DEF SE!Put, SE!Without
<1>5. T \subseteq DOMAIN searches /\ starting' \in [Client -> {"no", "checked", "queued"}]
  BY DEF SearchTypes
<1>6. nextToken <= MaxToken /\ nextToken' = nextToken + 1  OBVIOUS
<1>. HIDE DEF s, T
<1>. QED  BY <1>2, <1>4, <1>5, <1>6, NewSearch

(* The lane that is served is one that was ready.                          *)
LEMMA LeastLane ==
  ASSUME NEW able, able \subseteq 1 .. 4, able # {}
  PROVE  SE!Min(able) \in able
<1>0. \A y \in able : y \in {1, 2, 3, 4}  OBVIOUS
<1>1. \E x \in able : \A y \in able : x <= y
  <2>1. CASE 1 \in able  BY <2>1, <1>0
  <2>2. CASE 1 \notin able /\ 2 \in able  BY <2>2, <1>0
  <2>3. CASE 1 \notin able /\ 2 \notin able /\ 3 \in able  BY <2>3, <1>0
  <2>4. CASE 1 \notin able /\ 2 \notin able /\ 3 \notin able /\ 4 \in able  BY <2>4, <1>0
  <2>. QED  BY <2>1, <2>2, <2>3, <2>4, <1>0
<1>. QED  BY <1>1 DEF SE!Min

LEMMA Dispatched ==
  ASSUME SE!DispatchSearch
  PROVE  \E lane \in {"user", "relay", "radar", "wanted"} :
           /\ SE!Ready(lane) /\ writing' = lane /\ budget' = SE!Sent(budget, lane)
           /\ \/ UNCHANGED <<searches, asked>>
              \/ \E t \in DOMAIN searches :
                   /\ searches' = [searches EXCEPT ![t].due = now + Timeout]
                   /\ asked' = [asked EXCEPT ![t] = @ \cup {<<searches[t].first, searches[t].try>>}]
<1>1. PICK offered \in SUBSET {"manual", "radar", "wanted"} :
       LET able == {i \in 1..4 : SE!Ready(SE!Lanes[i]) /\ SE!Wants(SE!Lanes[i], offered)}
           lane == SE!Lanes[SE!Min(able)]
           mine == IF lane \in {"user", "relay"} THEN SE!Queued(lane = "relay") ELSE {}
       IN  /\ able # {}
           /\ writing' = lane
           /\ budget' = SE!Sent(budget, lane)
           /\ IF mine = {} THEN UNCHANGED <<searches, asked>>
              ELSE \E t \in SE!Oldest(mine) :
                     /\ searches' = [searches EXCEPT ![t].due = now + Timeout]
                     /\ asked' = [asked EXCEPT ![t] =
                          @ \cup {<<searches[t].first, searches[t].try>>}]
  BY DEF SE!DispatchSearch
<1> DEFINE able == {i \in 1..4 : SE!Ready(SE!Lanes[i]) /\ SE!Wants(SE!Lanes[i], offered)}
           lane == SE!Lanes[SE!Min(able)]
           mine == IF lane \in {"user", "relay"} THEN SE!Queued(lane = "relay") ELSE {}
<1>2. able # {} /\ able \subseteq 1 .. 4  BY <1>1
<1>3. SE!Min(able) \in able  BY <1>2, LeastLane
<1>4. SE!Ready(lane)  BY <1>3
<1>5. lane \in {"user", "relay", "radar", "wanted"}
  <2>1. SE!Min(able) \in 1 .. 4  BY <1>3
  <2>2. \A i \in 1 .. 4 : SE!Lanes[i] \in {"user", "relay", "radar", "wanted"}
    BY DEF SE!Lanes
  <2>. QED  BY <2>1, <2>2
<1>6. \A t \in SE!Oldest(mine) : t \in DOMAIN searches
  BY DEF SE!Oldest, SE!Queued
<1>7. /\ writing' = lane /\ budget' = SE!Sent(budget, lane)
      /\ IF mine = {} THEN UNCHANGED <<searches, asked>>
              ELSE \E t \in SE!Oldest(mine) :
                     /\ searches' = [searches EXCEPT ![t].due = now + Timeout]
                     /\ asked' = [asked EXCEPT ![t] =
                          @ \cup {<<searches[t].first, searches[t].try>>}]
  BY <1>1
<1>. HIDE DEF lane, mine
<1>. QED  BY <1>4, <1>5, <1>6, <1>7

LEMMA DispatchKeeps ==
  ASSUME SearchConstants, SearchTypes, TokensInv, EndingInv, SE!DispatchSearch
  PROVE  SearchTypes' /\ TokensInv' /\ EndingInv'
<1>. USE DEF SE!timerVars
<1>0. UNCHANGED <<nextToken, session, starting, now, crossed>> /\ session = "up"
  BY DEF SE!DispatchSearch, SE!AtRest
<1>1. EndingInv'  BY <1>0 DEF EndingInv
<1>2. CASE UNCHANGED <<searches, asked>>
  BY <1>0, <1>1, <1>2 DEF SearchTypes, TokensInv
<1>3. ASSUME NEW t \in DOMAIN searches,
        searches' = [searches EXCEPT ![t].due = now + Timeout],
        asked' = [asked EXCEPT ![t] = @ \cup {<<searches[t].first, searches[t].try>>}]
      PROVE SearchTypes' /\ TokensInv'
  <2> DEFINE s == [searches[t] EXCEPT !.due = now + Timeout]
             q == <<searches[t].first, searches[t].try>>
  <2>1. searches[t] \in SearchType  BY DEF SearchTypes
  <2>2. /\ s \in SearchType /\ s.first = searches[t].first /\ s.try = searches[t].try
        /\ s.found = searches[t].found
    <3>1. s = [client |-> searches[t].client, state |-> searches[t].state, due |-> now + Timeout,
               since |-> searches[t].since, found |-> searches[t].found, try |-> searches[t].try,
               tries |-> searches[t].tries, first |-> searches[t].first]
      BY <2>1 DEF SearchType
    <3>2. now + Timeout \in Nat  BY DEF SearchTypes, SearchConstants
    <3>. QED  BY <2>1, <3>1, <3>2 DEF SearchType
  <2>3. searches' = [searches EXCEPT ![t] = s]  BY <1>3
  <2>4. q \in Nat \X Nat  BY <2>1 DEF SearchType
  <2>5. t \in 1 .. MaxToken /\ asked[t] \subseteq {q}  BY DEF TokensInv, SearchTypes
  <2>6. /\ asked' \in [1 .. MaxToken -> SUBSET (Nat \X Nat)] /\ asked'[t] = {q}
        /\ \A x \in 1 .. MaxToken : x # t => asked'[x] = asked[x]
    BY <1>3, <2>4, <2>5 DEF SearchTypes
  <2>. HIDE DEF s
  <2>7. /\ searches' \in [DOMAIN searches' -> SearchType] /\ DOMAIN searches' = DOMAIN searches
        /\ searches'[t] = s /\ \A x \in DOMAIN searches : x # t => searches'[x] = searches[x]
    BY <2>2, <2>3 DEF SearchTypes
  <2>8. SearchTypes'  BY <1>0, <2>6, <2>7 DEF SearchTypes
  <2>9. t < nextToken  BY DEF SearchTypes
  <2>10. ASSUME NEW x \in 1 .. MaxToken PROVE
          /\ x >= nextToken' => asked'[x] = {}
          /\ \A a, b \in asked'[x] : a = b
    <3>1. CASE x = t  BY <3>1, <1>0, <2>6, <2>9 DEF SearchTypes
    <3>2. CASE x # t  BY <3>2, <1>0, <2>6 DEF TokensInv
    <3>. QED  BY <3>1, <3>2
  <2>11. ASSUME NEW x \in DOMAIN searches' PROVE
          /\ \A a \in asked'[x] : a = <<searches'[x].first, searches'[x].try>>
          /\ searches'[x].found # 0 => asked'[x] # {}
    <3>1. CASE x = t  BY <3>1, <2>2, <2>6, <2>7
    <3>2. CASE x # t  BY <3>2, <2>6, <2>7 DEF TokensInv, SearchTypes
    <3>. QED  BY <3>1, <3>2
  <2>12. TokensInv'  BY <2>10, <2>11 DEF TokensInv
  <2>. QED  BY <2>8, <2>12
<1>. QED  BY <1>1, <1>2, <1>3, Dispatched

LEMMA AnswerCounts ==
  ASSUME SearchTypes, TokensInv, EndingInv, SE!Answered
  PROVE  SearchTypes' /\ TokensInv' /\ EndingInv'
<1>. USE DEF SE!Answered, SE!userVars
<1>1. PICK t \in DOMAIN searches :
        asked[t] # {} /\ SE!Live(searches[t]) /\ searches' = [searches EXCEPT ![t].found = @ + 1]
  OBVIOUS
<1> DEFINE s == [searches[t] EXCEPT !.found = @ + 1]
<1>2. searches[t] \in SearchType  BY DEF SearchTypes
<1>3. /\ s \in SearchType /\ s.first = searches[t].first /\ s.try = searches[t].try
      /\ s.client = searches[t].client /\ s.state = searches[t].state
  BY <1>2 DEF SearchType
<1>4. searches' = [searches EXCEPT ![t] = s]  BY <1>1
<1>. HIDE DEF s
<1>5. /\ searches' \in [DOMAIN searches' -> SearchType] /\ DOMAIN searches' = DOMAIN searches
      /\ searches'[t] = s /\ \A x \in DOMAIN searches : x # t => searches'[x] = searches[x]
  BY <1>3, <1>4 DEF SearchTypes
<1>6. SearchTypes'  BY <1>5 DEF SearchTypes
<1>7. ASSUME NEW x \in DOMAIN searches' PROVE
        /\ \A a \in asked'[x] : a = <<searches'[x].first, searches'[x].try>>
        /\ searches'[x].found # 0 => asked'[x] # {}
  <2>1. CASE x = t  BY <2>1, <1>1, <1>3, <1>5 DEF TokensInv
  <2>2. CASE x # t  BY <2>2, <1>5 DEF TokensInv
  <2>. QED  BY <2>1, <2>2
<1>8. TokensInv'  BY <1>7 DEF TokensInv
<1>9. \A x \in DOMAIN searches' : /\ x \in DOMAIN searches /\ searches'[x].client = searches[x].client
                                  /\ SE!Live(searches'[x]) => SE!Live(searches[x])
  BY <1>3, <1>5 DEF SE!Live
<1>10. EndingInv'  BY <1>9 DEF EndingInv
<1>. QED  BY <1>6, <1>8, <1>10

(* Every search that is sent is stamped, and every write later stamped     *)
(* again.                                                                  *)
LEMMA SentBudget ==
  ASSUME SearchTypes, BudgetInv, NEW lane
  PROVE  LET b == SE!Sent(budget, lane) IN
         /\ b \in BudgetType /\ b.lastSend = now
         /\ b.lastWishlist = IF lane = "wanted" THEN now ELSE budget.lastWishlist
<1> DEFINE wish == IF lane = "wanted" THEN now ELSE budget.lastWishlist
           b == [budget EXCEPT !.lastSend = now, !.lastWishlist = wish]
<1>0. budget \in BudgetType /\ now \in Nat  BY DEF BudgetInv, SearchTypes
<1>1. wish \in Nat  BY <1>0 DEF BudgetType
<1>2. SE!Sent(budget, lane) = b  BY <1>0 DEF SE!Sent, BudgetType
<1>. HIDE DEF wish
<1>3. b \in BudgetType /\ b.lastSend = now /\ b.lastWishlist = wish
  BY <1>0, <1>1 DEF BudgetType
<1>. QED  BY <1>2, <1>3 DEF wish

LEMMA LineBudget ==
  ASSUME SearchTypes, BudgetInv, NEW on \in BOOLEAN
  PROVE  LET b == SE!SetOnline(budget, on) IN
         b \in BudgetType /\ b.lastSend = budget.lastSend /\ b.lastWishlist = budget.lastWishlist
<1>0. budget \in BudgetType  BY DEF BudgetInv
<1>1. 0 \in {0, Interval} /\ 0 \in Nat  OBVIOUS
<1>. QED  BY <1>0, <1>1 DEF SE!SetOnline, BudgetType

LEMMA BudgetOfLine ==
  ASSUME SearchTypes, BudgetInv, NEW on \in BOOLEAN, budget' = SE!SetOnline(budget, on),
         UNCHANGED <<lastWrite, now>>
  PROVE  BudgetInv'
  BY LineBudget DEF BudgetInv

LEMMA BudgetOfDispatch ==
  ASSUME SearchTypes, BudgetInv, SE!DispatchSearch PROVE BudgetInv'
<1>1. PICK lane \in {"user", "relay", "radar", "wanted"} : budget' = SE!Sent(budget, lane)
  BY Dispatched
<1>2. UNCHANGED <<lastWrite, now>>  BY DEF SE!DispatchSearch, SE!timerVars
<1>3. /\ budget' \in BudgetType /\ budget'.lastSend = now
      /\ budget'.lastWishlist = IF lane = "wanted" THEN now ELSE budget.lastWishlist
  BY <1>1, SentBudget
<1>4. /\ lastWrite \in [any : Nat, wanted : Nat] /\ now \in Nat
      /\ lastWrite.any <= budget.lastSend /\ budget.lastSend <= now
      /\ lastWrite.wanted <= budget.lastWishlist /\ budget.lastWishlist <= now
      /\ budget.lastSend \in Nat /\ budget.lastWishlist \in Nat
      /\ lastWrite.any \in Nat /\ lastWrite.wanted \in Nat
  BY DEF BudgetInv, BudgetType, SearchTypes
<1>5. /\ lastWrite.any <= budget'.lastSend /\ budget'.lastSend <= now
      /\ lastWrite.wanted <= budget'.lastWishlist /\ budget'.lastWishlist <= now
  BY <1>3, <1>4
<1>. QED  BY <1>2, <1>3, <1>4, <1>5 DEF BudgetInv

LEMMA BudgetOfWrite ==
  ASSUME SearchTypes, BudgetInv, SE!Wrote PROVE BudgetInv'
<1>1. /\ budget' = SE!Sent(budget, writing) /\ now' = now
      /\ lastWrite' = [any |-> now, wanted |-> IF writing = "wanted" THEN now ELSE lastWrite.wanted]
  BY DEF SE!Wrote
<1>3. /\ budget' \in BudgetType /\ budget'.lastSend = now
      /\ budget'.lastWishlist = IF writing = "wanted" THEN now ELSE budget.lastWishlist
  BY <1>1, SentBudget
<1>4. /\ lastWrite \in [any : Nat, wanted : Nat] /\ now \in Nat
      /\ lastWrite.wanted <= budget.lastWishlist /\ budget.lastWishlist <= now
      /\ budget.lastWishlist \in Nat /\ lastWrite.wanted \in Nat
  BY DEF BudgetInv, BudgetType, SearchTypes
<1>5. lastWrite' \in [any : Nat, wanted : Nat]  BY <1>1, <1>4
<1>6. lastWrite'.any = now /\ lastWrite'.wanted = IF writing = "wanted" THEN now ELSE lastWrite.wanted
  BY <1>1
<1>7. /\ lastWrite'.any <= budget'.lastSend /\ budget'.lastSend <= now
      /\ lastWrite'.wanted <= budget'.lastWishlist /\ budget'.lastWishlist <= now
  BY <1>3, <1>4, <1>6
<1>. QED  BY <1>1, <1>3, <1>5, <1>7 DEF BudgetInv

LEMMA BudgetOfInterval ==
  ASSUME SearchTypes, BudgetInv, SE!IntervalAnnounced PROVE BudgetInv'
<1> DEFINE when == IF budget.announced = 0 THEN now ELSE budget.announced
           b == [budget EXCEPT !.seconds = Interval, !.announced = when]
<1>0. budget \in BudgetType /\ now \in Nat  BY DEF BudgetInv, SearchTypes
<1>1. when \in Nat  BY <1>0 DEF BudgetType
<1>2. budget' = b  BY <1>0 DEF SE!IntervalAnnounced, BudgetType
<1>. HIDE DEF when
<1>3. Interval \in {0, Interval}  OBVIOUS
<1>4. b \in BudgetType /\ b.lastSend = budget.lastSend /\ b.lastWishlist = budget.lastWishlist
  BY <1>0, <1>1, <1>3 DEF BudgetType
<1>5. UNCHANGED <<lastWrite, now>>  BY DEF SE!IntervalAnnounced, SE!timerVars
<1>. HIDE DEF b
<1>. QED  BY <1>2, <1>4, <1>5 DEF BudgetInv

LEMMA Expires ==
  ASSUME SearchConstants, SearchTypes, TokensInv, SE!ExpireSearch
  PROVE  SearchTypes' /\ TokensInv'
<1>. USE DEF SE!ExpireSearch, SE!timerVars
<1>0. UNCHANGED <<asked, now, session, crossed, starting>>  OBVIOUS
<1>1. PICK t \in DOMAIN searches :
       IF searches[t].found = 0 /\ searches[t].try < searches[t].tries
            THEN SE!RetryEmpty(t)
            ELSE /\ searches' = [searches EXCEPT ![t] = SE!End(@, "completed")]
                 /\ UNCHANGED nextToken
  OBVIOUS
<1>2. CASE searches[t].found = 0 /\ searches[t].try < searches[t].tries
  BY <1>0, <1>1, <1>2, Retries
<1>3. CASE ~(searches[t].found = 0 /\ searches[t].try < searches[t].tries)
  <2>1. searches' = [searches EXCEPT ![t] = SE!End(@, "completed")] /\ nextToken' = nextToken
    BY <1>1, <1>3
  <2>2. Fades  BY <2>1, OneEnds
  <2>. QED  BY <1>0, <2>1, <2>2, SearchesFade DEF SearchTypes
<1>. QED  BY <1>2, <1>3

(* What only stops, or closes, searches.                                   *)
LEMMA FadingStep ==
  ASSUME SearchesInv, Fades, UNCHANGED <<nextToken, budget, session, now, asked, lastWrite,
                                         starting, crossed>>
  PROVE  SearchesInv'
<1>1. SearchTypes' /\ TokensInv'  BY SearchesFade DEF SearchesInv, SearchTypes
<1>2. EndingInv'  BY EndingFades DEF SearchesInv
<1>3. BudgetInv'  BY BudgetKept DEF SearchesInv
<1>. QED  BY <1>1, <1>2, <1>3 DEF SearchesInv

LEMMA FailedStep ==
  ASSUME SearchesInv, searches' = SE!EndAll("error"), budget' = SE!SetOnline(budget, FALSE),
         UNCHANGED <<nextToken, now, asked, lastWrite, starting>>,
         session' \in {"down", "ending"}, crossed' \in BOOLEAN,
         session' = "ending" /\ ~crossed' => \A c \in Client : starting[c] = "no"
  PROVE  SearchesInv'
<1>1. Fades /\ \A t \in DOMAIN searches' : ~SE!Live(searches'[t])
  BY AllEnd DEF SearchesInv
<1>2. SearchTypes' /\ TokensInv'  BY <1>1, SearchesFade DEF SearchesInv, SearchTypes
<1>3. EndingInv'  BY <1>1 DEF EndingInv
<1>4. BudgetInv'  BY BudgetOfLine DEF SearchesInv
<1>. QED  BY <1>2, <1>3, <1>4 DEF SearchesInv

LEMMA SearchesInvStep ==
  SearchConstants /\ SearchesInv /\ [SE!SearchNext]_searchVars => SearchesInv'
<1>. SUFFICES ASSUME SearchConstants, SearchesInv, [SE!SearchNext]_searchVars PROVE SearchesInv'
  OBVIOUS
<1>0. SearchTypes /\ TokensInv /\ EndingInv /\ BudgetInv  BY DEF SearchesInv
<1>1. ASSUME NEW c \in Client, SE!StartSearch(c) PROVE SearchesInv'
  <2>1. /\ starting[c] = "no" /\ session = "up" /\ starting' = [starting EXCEPT ![c] = "checked"]
        /\ UNCHANGED <<searches, nextToken, budget, session, now, asked, lastWrite, crossed>>
    BY <1>1 DEF SE!StartSearch, SE!userVars
  <2>2. starting' \in [Client -> {"no", "checked", "queued"}]  BY <1>0, <2>1 DEF SearchTypes
  <2>3. SearchTypes' /\ TokensInv'  BY <1>0, <2>1, <2>2 DEF SearchTypes, TokensInv
  <2>4. EndingInv'  BY <2>1 DEF EndingInv
  <2>5. BudgetInv'  BY <1>0, <2>1, BudgetKept
  <2>. QED  BY <2>3, <2>4, <2>5 DEF SearchesInv
<1>2. ASSUME NEW c \in Client, SE!QueueSearch(c) PROVE SearchesInv'
  <2>1. UNCHANGED <<budget, lastWrite, now>>  BY <1>2 DEF SE!QueueSearch, SE!userVars
  <2>. QED  BY <1>0, <1>2, <2>1, Queues, BudgetKept DEF SearchesInv
<1>3. ASSUME NEW c \in Client, SE!TellSession(c) PROVE SearchesInv'
  <2>1. UNCHANGED <<budget, lastWrite, now>>  BY <1>3 DEF SE!TellSession, SE!userVars
  <2>. QED  BY <1>0, <1>3, <2>1, Tells, BudgetKept DEF SearchesInv
<1>4. ASSUME NEW c \in Client, SE!StopSearch(c) PROVE SearchesInv'
  <2> DEFINE T == SE!Of(c)
  <2>1. searches' = [t \in DOMAIN searches |-> IF t \in T THEN SE!End(searches[t], "stopped") ELSE searches[t]]
    BY <1>4 DEF SE!StopSearch
  <2>. HIDE DEF T
  <2>2. Fades  BY <1>0, <2>1, SomeEnd
  <2>. QED  BY <1>4, <2>2, FadingStep DEF SE!StopSearch, SE!userVars
<1>5. ASSUME NEW c \in Client, SE!CloseSearch(c) PROVE SearchesInv'
  <2>1. PICK t : searches' = SE!Without(t)  BY <1>5 DEF SE!CloseSearch
  <2>2. Fades  BY <1>0, <2>1 DEF SE!Without, Fades, SearchTypes
  <2>. QED  BY <1>5, <2>2, FadingStep DEF SE!CloseSearch, SE!userVars
<1>6. CASE SE!StopAll
  <2>1. Fades  BY <1>0, <1>6, AllEnd DEF SE!StopAll
  <2>. QED  BY <1>6, <2>1, FadingStep DEF SE!StopAll, SE!userVars
<1>7. CASE SE!ExpireSearch
  <2>1. SearchTypes' /\ TokensInv'  BY <1>0, <1>7, Expires
  <2>2. session' = "up"  BY <1>7 DEF SE!ExpireSearch, SE!AtRest, SE!timerVars
  <2>3. EndingInv'  BY <2>2 DEF EndingInv
  <2>4. BudgetInv'  BY <1>0, <1>7, BudgetKept DEF SE!ExpireSearch, SE!timerVars
  <2>. QED  BY <2>1, <2>3, <2>4 DEF SearchesInv
<1>8. CASE SE!DispatchSearch
  BY <1>0, <1>8, DispatchKeeps, BudgetOfDispatch DEF SearchesInv
<1>9. CASE SE!Wrote
  <2>1. UNCHANGED <<searches, nextToken, session, starting, now, asked, crossed>>
    BY <1>9 DEF SE!Wrote
  <2>2. SearchTypes' /\ TokensInv' /\ EndingInv'  BY <1>0, <2>1 DEF SearchTypes, TokensInv, EndingInv
  <2>3. BudgetInv'  BY <1>0, <1>9, BudgetOfWrite
  <2>. QED  BY <2>2, <2>3 DEF SearchesInv
<1>10. CASE SE!Answered
  <2>1. UNCHANGED <<budget, lastWrite, now>>  BY <1>10 DEF SE!Answered, SE!userVars
  <2>. QED  BY <1>0, <1>10, <2>1, AnswerCounts, BudgetKept DEF SearchesInv
<1>11. CASE SE!LimitReached
  <2>1. PICK t \in DOMAIN searches : searches' = [searches EXCEPT ![t] = SE!End(@, "completed")]
    BY <1>11 DEF SE!LimitReached
  <2>2. Fades  BY <1>0, <2>1, OneEnds
  <2>. QED  BY <1>11, <2>2, FadingStep DEF SE!LimitReached, SE!userVars
<1>12. CASE SE!Connected
  <2>1. /\ UNCHANGED <<searches, nextToken, starting, now, asked, lastWrite, crossed>>
        /\ session' = "up" /\ budget' = SE!SetOnline(budget, TRUE)
    BY <1>12 DEF SE!Connected
  <2>2. SearchTypes' /\ TokensInv' /\ EndingInv'  BY <1>0, <2>1 DEF SearchTypes, TokensInv, EndingInv
  <2>3. BudgetInv'  BY <1>0, <2>1, BudgetOfLine
  <2>. QED  BY <2>2, <2>3 DEF SearchesInv
<1>13. CASE SE!IntervalAnnounced
  <2>1. UNCHANGED <<searches, nextToken, session, starting, now, asked, crossed>>
    BY <1>13 DEF SE!IntervalAnnounced, SE!timerVars
  <2>2. SearchTypes' /\ TokensInv' /\ EndingInv'  BY <1>0, <2>1 DEF SearchTypes, TokensInv, EndingInv
  <2>3. BudgetInv'  BY <1>0, <1>13, BudgetOfInterval
  <2>. QED  BY <2>2, <2>3 DEF SearchesInv
<1>14. CASE SE!ConnectionLost
  <2>1. session' = "down" /\ crossed' = crossed /\ crossed \in BOOLEAN
    BY <1>0, <1>14 DEF SE!ConnectionLost, SearchTypes
  <2>. QED  BY <1>14, <2>1, FailedStep DEF SE!ConnectionLost
<1>15. CASE SE!Disconnect
  <2>1. session' = "ending" /\ crossed' = (crossed \/ \E c \in Client : starting[c] # "no")
    BY <1>15 DEF SE!Disconnect
  <2>2. crossed' \in BOOLEAN /\ (~crossed' => \A c \in Client : starting[c] = "no")
    BY <1>0, <2>1 DEF SearchTypes
  <2>. QED  BY <1>15, <2>1, <2>2, FailedStep DEF SE!Disconnect
<1>16. CASE SE!TaskGone
  <2>1. /\ UNCHANGED <<searches, nextToken, budget, starting, now, asked, lastWrite, crossed>>
        /\ session = "ending" /\ session' = "down"
    BY <1>16 DEF SE!TaskGone
  <2>2. SearchTypes' /\ TokensInv' /\ EndingInv'  BY <1>0, <2>1 DEF SearchTypes, TokensInv, EndingInv
  <2>3. BudgetInv'  BY <1>0, <2>1, BudgetKept
  <2>. QED  BY <2>2, <2>3 DEF SearchesInv
<1>17. CASE SE!ClockTicks
  <2>1. /\ UNCHANGED <<searches, nextToken, budget, session, starting, asked, lastWrite, crossed>>
        /\ now' = now + 1
    BY <1>17 DEF SE!ClockTicks
  <2>2. SearchTypes' /\ TokensInv' /\ EndingInv'  BY <1>0, <2>1 DEF SearchTypes, TokensInv, EndingInv
  <2>3. BudgetInv'  BY <1>0, <2>1 DEF BudgetInv, BudgetType, SearchTypes
  <2>. QED  BY <2>2, <2>3 DEF SearchesInv
<1>18. CASE UNCHANGED searchVars
  BY <1>18 DEF searchVars, SearchesInv, SearchTypes, TokensInv, EndingInv, BudgetInv
<1>. QED
  BY <1>1, <1>2, <1>3, <1>4, <1>5, <1>6, <1>7, <1>8, <1>9, <1>10, <1>11, <1>12, <1>13, <1>14,
     <1>15, <1>16, <1>17, <1>18 DEF SE!SearchNext

LEMMA TokensName ==
  ASSUME SearchesInv PROVE SE!TokenNamesOneQuery
<1>0. SearchTypes /\ TokensInv  BY DEF SearchesInv
<1>1. ASSUME NEW t \in 1 .. MaxToken PROVE SE!Cardinality(asked[t]) <= 1
  <2>1. SE!Cardinality(asked[t]) = Cardinality(asked[t])
    BY DEF SE!Cardinality, Cardinality
  <2>2. CASE asked[t] = {}
    BY <2>1, <2>2, FS_EmptySet
  <2>3. CASE asked[t] # {}
    <3>1. PICK a : a \in asked[t]  BY <2>3
    <3>2. asked[t] = {a}  BY <1>0, <3>1 DEF TokensInv
    <3>3. Cardinality(asked[t]) = 1  BY <3>2, FS_Singleton
    <3>. QED  BY <2>1, <3>3
  <2>. QED  BY <2>2, <2>3
<1>2. ASSUME NEW t \in DOMAIN searches, searches[t].found # 0
      PROVE  asked[t] = {<<searches[t].first, searches[t].try>>}
  BY <1>0, <1>2 DEF TokensInv
<1>. QED  BY <1>1, <1>2 DEF SE!TokenNamesOneQuery

LEMMA SearchesEnd ==
  ASSUME SearchesInv PROVE SE!NoSearchOutlivesTheSession
  BY DEF SearchesInv, EndingInv, SE!NoSearchOutlivesTheSession

(* A search is put on the wire when the budget allows it only.             *)
LEMMA SearchesAreSpaced ==
  ASSUME SearchConstants, SearchesInv, [SE!SearchNext]_searchVars,
         writing = "none", writing' # "none"
  PROVE  /\ lastWrite.any # 0 => now >= lastWrite.any + Spacing
         /\ writing' = "wanted" /\ lastWrite.wanted # 0 => now >= lastWrite.wanted + Interval
<1>0. SearchTypes /\ BudgetInv  BY DEF SearchesInv
<1>1. SE!DispatchSearch
  <2>1. \/ SE!DispatchSearch \/ writing' = writing \/ writing' = "none" \/ SE!Wrote
    BY DEF SE!SearchNext, SE!StartSearch, SE!QueueSearch, SE!TellSession, SE!StopSearch,
           SE!CloseSearch, SE!StopAll, SE!ExpireSearch, SE!Answered, SE!LimitReached,
           SE!Connected, SE!IntervalAnnounced, SE!ConnectionLost, SE!Disconnect, SE!TaskGone,
           SE!ClockTicks, SE!userVars, SE!timerVars, searchVars
  <2>. QED  BY <2>1 DEF SE!Wrote
<1>2. PICK lane : SE!Ready(lane) /\ writing' = lane  BY <1>1, Dispatched
<1>3. /\ lastWrite.any \in Nat /\ lastWrite.wanted \in Nat /\ now \in Nat
      /\ budget.lastSend \in Nat /\ budget.lastWishlist \in Nat
      /\ lastWrite.any <= budget.lastSend /\ lastWrite.wanted <= budget.lastWishlist
      /\ budget.seconds # 0 => budget.seconds = Interval
  BY <1>0 DEF BudgetInv, BudgetType, SearchTypes
<1>4. budget.lastSend # 0 => now >= budget.lastSend + Spacing  BY <1>2 DEF SE!Ready
<1>5. lane = "wanted" /\ budget.lastWishlist # 0 =>
        budget.seconds # 0 /\ now >= budget.lastWishlist + budget.seconds
  BY <1>2 DEF SE!Ready
<1>. QED  BY <1>2, <1>3, <1>4, <1>5 DEF SearchConstants

-----------------------------------------------------------------------------
(* The checks of wanted albums.  What an album shows was ranked for its    *)
(* edition; the token of a check was never on another session's wire.      *)
AlbumType ==
  [paused : BOOLEAN, fulfilled : {"no", "download", "archive"}, despite : BOOLEAN,
   edition : Edition \cup {"any"}, checked : BOOLEAN, misses : Nat,
   ranked : [edition : Edition \cup {"any", "none"}, tolerance : Tolerance \cup {"none"}]]
CheckType ==
  [album : Album, edition : Edition \cup {"any"}, token : 1 .. MaxCheckToken,
   listening : BOOLEAN, automatic : BOOLEAN, found : BOOLEAN, tracks : BOOLEAN, try : Nat]
EndingType ==
  [album : Album, edition : Edition \cup {"any"}, found : BOOLEAN, token : 1 .. MaxCheckToken,
   tolerance : Tolerance \cup {"unread"}]

SoundAlbum(x) ==
  x \in AlbumType /\ (x.ranked # WA!NoResult => x.ranked.edition = x.edition)

AlbumsInv ==
  /\ wanted \in [DOMAIN wanted -> AlbumType] /\ DOMAIN wanted \subseteq Album
  /\ \A a \in DOMAIN wanted : SoundAlbum(wanted[a])
CheckInv ==
  /\ checking \in {WA!None} \cup CheckType /\ ending \in {WA!None} \cup EndingType
  /\ tolerance \in Tolerance /\ checkToken \in Nat \ {0}
  /\ online \in [up : BOOLEAN, session : Nat]
  /\ sent \in [1 .. MaxCheckToken -> Nat]
  /\ \A t \in 1 .. MaxCheckToken : t >= checkToken => sent[t] = 0
  /\ checking # WA!None =>
       /\ online.up /\ checking.token < checkToken
       /\ sent[checking.token] \in {0, online.session}
       /\ ~checking.listening => sent[checking.token] = 0
WantedInv == AlbumsInv /\ CheckInv

LEMMA WantedInvInit == WA!WantedInit => WantedInv
<1>. SUFFICES ASSUME WA!WantedInit PROVE WantedInv
  OBVIOUS
<1>. USE DEF WA!WantedInit
<1>1. DOMAIN wanted = {}  OBVIOUS
<1>2. AlbumsInv  BY <1>1 DEF AlbumsInv
<1>3. CheckInv
  <2>1. checking = WA!None /\ ending = WA!None /\ tolerance \in Tolerance /\ checkToken = 1
    OBVIOUS
  <2>2. sent \in [1 .. MaxCheckToken -> Nat] /\ \A t \in 1 .. MaxCheckToken : sent[t] = 0
    OBVIOUS
  <2>3. online \in [up : BOOLEAN, session : Nat]  OBVIOUS
  <2>4. checkToken \in Nat \ {0}  BY <2>1
  <2>. HIDE DEF WA!WantedInit
  <2>. QED  BY <2>1, <2>2, <2>3, <2>4 DEF CheckInv
<1>. QED  BY <1>2, <1>3 DEF WantedInv

-----------------------------------------------------------------------------
(* Albums that are changed.                                                *)
LEMMA NoResultIs ==
  WA!NoResult \in [edition : Edition \cup {"any", "none"}, tolerance : Tolerance \cup {"none"}]
<1>1. "none" \in Edition \cup {"any", "none"} /\ "none" \in Tolerance \cup {"none"}  OBVIOUS
<1>. QED  BY <1>1 DEF WA!NoResult

LEMMA NewAlbum == SoundAlbum(WA!New)
<1>1. /\ "any" \in Edition \cup {"any"} /\ "no" \in {"no", "download", "archive"} /\ 0 \in Nat
      /\ FALSE \in BOOLEAN
  OBVIOUS
<1>2. WA!New \in AlbumType  BY <1>1, NoResultIs DEF WA!New, AlbumType
<1>3. WA!New.ranked = WA!NoResult  BY DEF WA!New
<1>. QED  BY <1>2, <1>3 DEF SoundAlbum

LEMMA DueAlbum ==
  ASSUME NEW x, SoundAlbum(x) PROVE SoundAlbum(WA!Unchecked(x))
<1>1. WA!Unchecked(x) \in AlbumType
  <2>1. x \in AlbumType /\ 0 \in Nat  BY DEF SoundAlbum
  <2>. QED  BY <2>1 DEF WA!Unchecked, AlbumType
<1>2. WA!Unchecked(x).ranked = x.ranked /\ WA!Unchecked(x).edition = x.edition
  BY DEF WA!Unchecked, SoundAlbum, AlbumType
<1>. QED  BY <1>1, <1>2 DEF SoundAlbum

LEMMA ForgottenAlbum ==
  ASSUME NEW x, SoundAlbum(x)
  PROVE  SoundAlbum(WA!Forgotten(x)) /\ WA!Forgotten(x).ranked = WA!NoResult
<1> DEFINE y == WA!Unchecked(x)
<1>1. y \in AlbumType  BY DueAlbum DEF SoundAlbum
<1>2. WA!Forgotten(x) = [y EXCEPT !.ranked = WA!NoResult]  BY DEF WA!Forgotten
<1>. HIDE DEF y
<1>3. WA!Forgotten(x) \in AlbumType /\ WA!Forgotten(x).ranked = WA!NoResult
  BY <1>1, <1>2, NoResultIs DEF AlbumType
<1>. QED  BY <1>3 DEF SoundAlbum

LEMMA UnrankedAlbum ==
  ASSUME NEW x \in AlbumType, x.ranked = WA!NoResult PROVE SoundAlbum(x)
  BY DEF SoundAlbum

LEMMA WatchedAlbum ==
  ASSUME NEW x, SoundAlbum(x) PROVE SoundAlbum(WA!ResetForWatch(x))
<1> DEFINE y == WA!Forgotten(x)
           z == [y EXCEPT !.paused = FALSE, !.fulfilled = "no", !.despite = TRUE]
<1>1. y \in AlbumType /\ y.ranked = WA!NoResult  BY ForgottenAlbum DEF SoundAlbum
<1>2. WA!ResetForWatch(x) = z  BY DEF WA!ResetForWatch
<1>. HIDE DEF y
<1>3. z \in AlbumType /\ z.ranked = WA!NoResult  BY <1>1 DEF AlbumType
<1>. QED  BY <1>2, <1>3, UnrankedAlbum

(* One album is changed, or each.                                          *)
LEMMA OneChanges ==
  ASSUME AlbumsInv, NEW a \in DOMAIN wanted, NEW x, SoundAlbum(x), WA!Changes(a, x)
  PROVE  AlbumsInv'
<1>1. wanted' = [wanted EXCEPT ![a] = x]  BY DEF WA!Changes
<1>2. x \in AlbumType  BY DEF SoundAlbum
<1>3. wanted' \in [DOMAIN wanted' -> AlbumType] /\ DOMAIN wanted' = DOMAIN wanted
  BY <1>1, <1>2 DEF AlbumsInv
<1>4. \A b \in DOMAIN wanted : wanted'[b] = x \/ wanted'[b] = wanted[b]  BY <1>1 DEF AlbumsInv
<1>5. \A b \in DOMAIN wanted' : SoundAlbum(wanted'[b])  BY <1>3, <1>4 DEF AlbumsInv
<1>. QED  BY <1>3, <1>5 DEF AlbumsInv

LEMMA Adds ==
  ASSUME AlbumsInv, NEW a \in Album, WA!Add(a) PROVE AlbumsInv'
<1>1. wanted' = [b \in DOMAIN wanted \cup {a} |->
       IF b # a THEN wanted[b]
       ELSE IF a \notin DOMAIN wanted THEN WA!New
       ELSE IF wanted[a].fulfilled # "no" THEN WA!ResetForWatch(wanted[a])
       ELSE [wanted[a] EXCEPT !.paused = FALSE]]
  BY DEF WA!Add, WA!Listed
<1>2. DOMAIN wanted' = DOMAIN wanted \cup {a} /\ DOMAIN wanted' \subseteq Album
  BY <1>1 DEF AlbumsInv
<1>3. ASSUME NEW b \in DOMAIN wanted' PROVE SoundAlbum(wanted'[b])
  <2>1. CASE b # a
    <3>1. wanted'[b] = wanted[b] /\ b \in DOMAIN wanted  BY <1>1, <1>2, <2>1
    <3>. QED  BY <3>1 DEF AlbumsInv
  <2>2. CASE b = a /\ a \notin DOMAIN wanted
    <3>1. wanted'[b] = WA!New  BY <1>1, <2>2
    <3>. QED  BY <3>1, NewAlbum
  <2>3. CASE b = a /\ a \in DOMAIN wanted
    <3> DEFINE x == wanted[a]
    <3>1. SoundAlbum(x)  BY <2>3 DEF AlbumsInv
    <3>2. wanted'[b] = WA!ResetForWatch(x) \/ wanted'[b] = [x EXCEPT !.paused = FALSE]
      BY <1>1, <2>3
    <3>. HIDE DEF x
    <3>3. SoundAlbum([x EXCEPT !.paused = FALSE])  BY <3>1 DEF SoundAlbum, AlbumType
    <3>4. SoundAlbum(WA!ResetForWatch(x))  BY <3>1, WatchedAlbum
    <3>. QED  BY <3>2, <3>3, <3>4
  <2>. QED  BY <2>1, <2>2, <2>3
<1>4. wanted' \in [DOMAIN wanted' -> AlbumType]
  <2>1. \A b \in DOMAIN wanted' : wanted'[b] \in AlbumType  BY <1>3 DEF SoundAlbum
  <2>2. wanted' = [b \in DOMAIN wanted' |-> wanted'[b]]  BY <1>1
  <2>. QED  BY <2>1, <2>2
<1>. QED  BY <1>2, <1>3, <1>4 DEF AlbumsInv

LEMMA Removes ==
  ASSUME AlbumsInv, NEW a \in Album, WA!Remove(a) PROVE AlbumsInv'
<1>1. wanted' = [b \in DOMAIN wanted \ {a} |-> wanted[b]]  BY DEF WA!Remove, WA!Listed
<1>2. DOMAIN wanted' \subseteq Album /\ DOMAIN wanted' \subseteq DOMAIN wanted
  BY <1>1 DEF AlbumsInv
<1>3. \A b \in DOMAIN wanted' : wanted'[b] = wanted[b]  BY <1>1
<1>4. wanted' \in [DOMAIN wanted' -> AlbumType]  BY <1>1, <1>2, <1>3 DEF AlbumsInv
<1>. QED  BY <1>2, <1>3, <1>4 DEF AlbumsInv

LEMMA Choices ==
  ASSUME AlbumsInv, NEW a \in Album,
         WA!SetPaused(a) \/ WA!FulfillDownloaded(a) \/ WA!SyncFulfilled(a) \/ WA!Restore(a)
         \/ WA!SetPreferences(a) \/ WA!SetEdition(a)
  PROVE  AlbumsInv'
<1> DEFINE x == wanted[a]
<1>0. a \in DOMAIN wanted
  BY DEF WA!SetPaused, WA!FulfillDownloaded, WA!SyncFulfilled, WA!Restore, WA!SetPreferences,
         WA!SetEdition, WA!Listed
<1>1. SoundAlbum(x)  BY <1>0 DEF AlbumsInv
<1>2. x \in AlbumType  BY <1>1 DEF SoundAlbum
<1>3. CASE WA!SetPaused(a)
  <2>1. PICK p \in BOOLEAN : WA!Changes(a, [x EXCEPT !.paused = p])  BY <1>3 DEF WA!SetPaused
  <2>. HIDE DEF x
  <2>2. SoundAlbum([x EXCEPT !.paused = p])  BY <1>1 DEF SoundAlbum, AlbumType
  <2>. QED  BY <1>0, <2>1, <2>2, OneChanges
<1>4. CASE WA!FulfillDownloaded(a)
  <2> DEFINE y == [x EXCEPT !.fulfilled = "download", !.despite = FALSE, !.ranked = WA!NoResult]
  <2>1. WA!Changes(a, y)  BY <1>4 DEF WA!FulfillDownloaded
  <2>. HIDE DEF x
  <2>2. y \in AlbumType /\ y.ranked = WA!NoResult  BY <1>2, NoResultIs DEF AlbumType
  <2>3. SoundAlbum(y)  BY <2>2, UnrankedAlbum
  <2>. QED  BY <1>0, <2>1, <2>3, OneChanges
<1>5. CASE WA!SyncFulfilled(a)
  <2> DEFINE u == WA!Unchecked(x)
  <2>1. WA!Changes(a, [x EXCEPT !.fulfilled = "archive"])
        \/ WA!Changes(a, [u EXCEPT !.fulfilled = "no"])
    BY <1>5 DEF WA!SyncFulfilled
  <2>2. SoundAlbum(u)  BY <1>1, DueAlbum
  <2>. HIDE DEF x, u
  <2>3. SoundAlbum([x EXCEPT !.fulfilled = "archive"])  BY <1>1 DEF SoundAlbum, AlbumType
  <2>4. SoundAlbum([u EXCEPT !.fulfilled = "no"])  BY <2>2 DEF SoundAlbum, AlbumType
  <2>. QED  BY <1>0, <2>1, <2>3, <2>4, OneChanges
<1>6. CASE WA!Restore(a)
  <2>1. WA!Changes(a, WA!ResetForWatch(x))  BY <1>6 DEF WA!Restore
  <2>. QED  BY <1>0, <1>1, <2>1, OneChanges, WatchedAlbum
<1>7. CASE WA!SetPreferences(a)
  <2>1. WA!Changes(a, WA!Forgotten(x))  BY <1>7 DEF WA!SetPreferences
  <2>. QED  BY <1>0, <1>1, <2>1, OneChanges, ForgottenAlbum
<1>8. CASE WA!SetEdition(a)
  <2> DEFINE f == WA!Forgotten(x)
  <2>1. PICK e \in Edition : WA!Changes(a, [f EXCEPT !.edition = e])  BY <1>8 DEF WA!SetEdition
  <2>2. f \in AlbumType /\ f.ranked = WA!NoResult  BY <1>1, ForgottenAlbum DEF SoundAlbum
  <2>. HIDE DEF x, f
  <2>3. [f EXCEPT !.edition = e] \in AlbumType /\ [f EXCEPT !.edition = e].ranked = WA!NoResult
    BY <2>2 DEF AlbumType
  <2>4. SoundAlbum([f EXCEPT !.edition = e])  BY <2>3, UnrankedAlbum
  <2>. QED  BY <1>0, <2>1, <2>4, OneChanges
<1>. QED  BY <1>3, <1>4, <1>5, <1>6, <1>7, <1>8

LEMMA SettingsApply ==
  ASSUME AlbumsInv, WA!ApplySettings PROVE AlbumsInv'
<1>1. CASE wanted' = wanted  BY <1>1 DEF AlbumsInv
<1>2. CASE wanted' # wanted
  <2> DEFINE F(b) == IF wanted[b].fulfilled = "no" THEN WA!Unchecked(wanted[b]) ELSE wanted[b]
             D == DOMAIN wanted
  <2>1. wanted' = [b \in D |-> F(b)]  BY <1>2 DEF WA!ApplySettings, WA!Listed
  <2>2. \A b \in D : SoundAlbum(F(b))  BY DueAlbum DEF AlbumsInv
  <2>3. D \subseteq Album  BY DEF AlbumsInv
  <2>4. DOMAIN wanted' = D /\ \A b \in D : SoundAlbum(wanted'[b])  BY <2>1, <2>2
  <2>5. wanted' \in [DOMAIN wanted' -> AlbumType]  BY <2>1, <2>2 DEF SoundAlbum
  <2>. QED  BY <2>3, <2>4, <2>5 DEF AlbumsInv
<1>. QED  BY <1>1, <1>2

LEMMA Finishes ==
  ASSUME AlbumsInv, CheckInv, WA!Finish PROVE AlbumsInv'
<1>1. /\ ending \in EndingType /\ ending.tolerance \in Tolerance
      /\ wanted' = [a \in DOMAIN wanted |->
           IF a = ending.album /\ wanted[a].edition = ending.edition
             THEN WA!Checked(wanted[a]) ELSE wanted[a]]
  BY DEF WA!Finish, WA!Listed, CheckInv, EndingType
<1>2. ASSUME NEW x, SoundAlbum(x), x.edition = ending.edition PROVE SoundAlbum(WA!Checked(x))
  <2> DEFINE m == IF ending.found THEN 0 ELSE IF x.misses < MaxMisses THEN x.misses + 1 ELSE x.misses
             r == IF ending.found
                    THEN [edition |-> ending.edition, tolerance |-> ending.tolerance]
                    ELSE WA!NoResult
             y == [x EXCEPT !.checked = TRUE, !.misses = m, !.ranked = r]
  <2>1. x \in AlbumType  BY <1>2 DEF SoundAlbum
  <2>2. m \in Nat  BY <2>1 DEF AlbumType
  <2>3. r \in [edition : Edition \cup {"any", "none"}, tolerance : Tolerance \cup {"none"}]
    BY <1>1, NoResultIs DEF EndingType
  <2>4. r # WA!NoResult => r.edition = ending.edition  OBVIOUS
  <2>5. WA!Checked(x) = y  BY <2>1 DEF WA!Checked, AlbumType
  <2>. HIDE DEF m, r
  <2>6. y \in AlbumType /\ y.ranked = r /\ y.edition = x.edition  BY <2>1, <2>2, <2>3 DEF AlbumType
  <2>. QED  BY <1>2, <2>4, <2>5, <2>6 DEF SoundAlbum
<1>3. DOMAIN wanted' = DOMAIN wanted  BY <1>1
<1>4. ASSUME NEW a \in DOMAIN wanted PROVE SoundAlbum(wanted'[a])
  <2>1. SoundAlbum(wanted[a])  BY DEF AlbumsInv
  <2>2. CASE a = ending.album /\ wanted[a].edition = ending.edition
    <3>1. wanted'[a] = WA!Checked(wanted[a])  BY <1>1, <2>2
    <3>. QED  BY <1>2, <2>1, <2>2, <3>1
  <2>3. CASE ~(a = ending.album /\ wanted[a].edition = ending.edition)
    <3>1. wanted'[a] = wanted[a]  BY <1>1, <2>3
    <3>. QED  BY <2>1, <3>1
  <2>. QED  BY <2>2, <2>3
<1>5. wanted' \in [DOMAIN wanted' -> AlbumType]
  <2>1. \A b \in DOMAIN wanted' : wanted'[b] \in AlbumType  BY <1>3, <1>4 DEF SoundAlbum
  <2>2. wanted' = [b \in DOMAIN wanted' |-> wanted'[b]]  BY <1>1
  <2>. QED  BY <2>1, <2>2
<1>. QED  BY <1>3, <1>4, <1>5 DEF AlbumsInv

-----------------------------------------------------------------------------
(* The check.                                                              *)
LEMMA CheckKept ==
  ASSUME CheckInv, checking' \in {checking, WA!None}, tolerance' \in Tolerance,
         UNCHANGED <<ending, online, checkToken, sent>>
  PROVE  CheckInv'
  BY DEF CheckInv

LEMMA Starts ==
  ASSUME AlbumsInv, CheckInv, NEW a \in Album, WA!StartManual(a) \/ WA!StartDue(a) PROVE CheckInv'
<1>1. PICK auto \in BOOLEAN :
        /\ online.up /\ checkToken <= MaxCheckToken /\ checkToken' = checkToken + 1
        /\ a \in DOMAIN wanted
        /\ checking' = [album |-> a, edition |-> wanted[a].edition, token |-> checkToken,
                        listening |-> auto, automatic |-> auto,
                        found |-> FALSE, tracks |-> FALSE, try |-> 1]
        /\ UNCHANGED <<ending, online, tolerance>>
        /\ \/ sent' = sent
           \/ auto /\ sent' = [sent EXCEPT ![checkToken] = online.session]
  BY DEF WA!StartManual, WA!StartDue, WA!Start, WA!OnWire, WA!Watching, WA!Listed
<1>2. checkToken \in 1 .. MaxCheckToken /\ checkToken' \in Nat \ {0}  BY <1>1 DEF CheckInv
<1>3. wanted[a].edition \in Edition \cup {"any"}  BY <1>1 DEF AlbumsInv, AlbumType
<1>4. checking' \in CheckType
  <2>1. 1 \in Nat /\ FALSE \in BOOLEAN  OBVIOUS
  <2>. QED  BY <1>1, <1>2, <1>3, <2>1 DEF CheckType
<1>5. checking'.token = checkToken /\ checking'.listening = auto  BY <1>1
<1>6. sent[checkToken] = 0  BY <1>2 DEF CheckInv
<1>7. /\ sent' \in [1 .. MaxCheckToken -> Nat]
      /\ \A t \in 1 .. MaxCheckToken : t # checkToken => sent'[t] = sent[t]
      /\ sent'[checkToken] \in {0, online.session} /\ (~auto => sent'[checkToken] = 0)
  <2>1. CASE sent' = sent  BY <1>6, <2>1 DEF CheckInv
  <2>2. CASE auto /\ sent' = [sent EXCEPT ![checkToken] = online.session]
    <3>1. online.session \in Nat  BY DEF CheckInv
    <3>. QED  BY <1>2, <2>2, <3>1 DEF CheckInv
  <2>. QED  BY <1>1, <2>1, <2>2
<1>8. \A t \in 1 .. MaxCheckToken : t >= checkToken' => sent'[t] = 0
  BY <1>1, <1>7 DEF CheckInv
<1>9. checking'.token < checkToken'  BY <1>1, <1>2, <1>5
<1>. QED  BY <1>1, <1>2, <1>4, <1>5, <1>7, <1>8, <1>9 DEF CheckInv

LEMMA Pends ==
  ASSUME CheckInv, WA!StartPending PROVE CheckInv'
<1>1. UNCHANGED <<ending, online, tolerance, checkToken>> /\ checking # WA!None /\ checking \in CheckType
  BY DEF WA!StartPending, CheckInv
<1>2. CASE checking' = WA!None /\ UNCHANGED sent
  BY <1>1, <1>2, CheckKept DEF CheckInv
<1>3. CASE /\ ~checking.listening /\ checking' = [checking EXCEPT !.listening = TRUE]
           /\ WA!OnWire(checking.token) \/ UNCHANGED sent
  <2> DEFINE k == checking.token
  <2>1. k \in 1 .. MaxCheckToken /\ k < checkToken /\ sent[k] = 0 /\ online.up
    BY <1>1, <1>3 DEF CheckInv, CheckType
  <2>2. checking' \in CheckType /\ checking'.token = k /\ checking'.listening
    BY <1>1, <1>3 DEF CheckType
  <2>. HIDE DEF k
  <2>3. /\ sent' \in [1 .. MaxCheckToken -> Nat] /\ sent'[k] \in {0, online.session}
        /\ \A t \in 1 .. MaxCheckToken : t # k => sent'[t] = sent[t]
    <3>1. online.session \in Nat  BY DEF CheckInv
    <3>2. sent' = sent \/ sent' = [sent EXCEPT ![k] = online.session]
      BY <1>3 DEF WA!OnWire, k
    <3>. QED  BY <2>1, <3>1, <3>2 DEF CheckInv
  <2>4. \A t \in 1 .. MaxCheckToken : t >= checkToken' => sent'[t] = 0
    BY <1>1, <2>1, <2>3 DEF CheckInv
  <2>. QED  BY <1>1, <2>1, <2>2, <2>3, <2>4 DEF CheckInv
<1>. QED  BY <1>2, <1>3 DEF WA!StartPending

LEMMA Hears ==
  ASSUME CheckInv, WA!Record \/ WA!TracksLoaded PROVE CheckInv'
<1>1. UNCHANGED <<ending, online, tolerance, checkToken, sent>> /\ checking \in CheckType
      /\ checking # WA!None
  BY DEF WA!Record, WA!TracksLoaded, WA!Hears, WA!listVars, WA!sessionVars, CheckInv
<1>2. checking' = [checking EXCEPT !.found = TRUE] \/ checking' = [checking EXCEPT !.tracks = TRUE]
  BY DEF WA!Record, WA!TracksLoaded
<1>3. /\ checking' \in CheckType /\ checking'.token = checking.token
      /\ checking'.listening = checking.listening
  BY <1>1, <1>2 DEF CheckType
<1>. QED  BY <1>1, <1>3 DEF CheckInv

LEMMA CheckExpires ==
  ASSUME CheckInv, WA!Expire PROVE CheckInv'
<1>1. /\ UNCHANGED <<online, tolerance, sent>> /\ checking \in CheckType /\ checking # WA!None
      /\ online.up
  BY DEF WA!Expire, WA!Hears, CheckInv
<1>2. CASE /\ checkToken <= MaxCheckToken /\ checkToken' = checkToken + 1 /\ UNCHANGED ending
           /\ checking' = [checking EXCEPT !.token = checkToken, !.listening = FALSE, !.try = @ + 1]
  <2> DEFINE n == checking.try + 1
             c == [checking EXCEPT !.token = checkToken, !.listening = FALSE, !.try = n]
  <2>1. checkToken \in 1 .. MaxCheckToken /\ checkToken' \in Nat \ {0} /\ sent[checkToken] = 0
    BY <1>2 DEF CheckInv
  <2>2. n \in Nat  BY <1>1 DEF CheckType
  <2>3. checking' = c  BY <1>1, <1>2 DEF CheckType
  <2>. HIDE DEF n
  <2>4. c \in CheckType /\ c.token = checkToken /\ c.listening = FALSE
    BY <1>1, <2>1, <2>2 DEF CheckType
  <2>. HIDE DEF c
  <2>5. \A t \in 1 .. MaxCheckToken : t >= checkToken' => sent'[t] = 0
    BY <1>1, <1>2 DEF CheckInv
  <2>6. checking'.token < checkToken'  BY <1>2, <2>1, <2>3, <2>4
  <2>. QED  BY <1>1, <1>2, <2>1, <2>3, <2>4, <2>5, <2>6 DEF CheckInv
<1>3. CASE /\ ending' = [album |-> checking.album, edition |-> checking.edition,
                          found |-> checking.found, token |-> checking.token,
                          tolerance |-> "unread"]
           /\ checking' = WA!None /\ UNCHANGED checkToken
  <2>1. "unread" \in Tolerance \cup {"unread"}  OBVIOUS
  <2>2. ending' \in EndingType  BY <1>1, <1>3, <2>1 DEF CheckType, EndingType
  <2>. QED  BY <1>1, <1>3, <2>2 DEF CheckInv
<1>. QED  BY <1>2, <1>3 DEF WA!Expire

LEMMA WantedInvStep == WantedInv /\ [WA!WantedNext]_checkVars => WantedInv'
<1>. SUFFICES ASSUME WantedInv, [WA!WantedNext]_checkVars PROVE WantedInv'
  OBVIOUS
<1>0. AlbumsInv /\ CheckInv  BY DEF WantedInv
<1>. USE DEF WA!listVars, WA!sessionVars
<1>1. ASSUME NEW a \in Album, WA!Add(a) PROVE WantedInv'
  <2>1. CheckInv'  BY <1>0, <1>1, CheckKept DEF WA!Add, CheckInv
  <2>. QED  BY <1>0, <1>1, <2>1, Adds DEF WantedInv
<1>2. ASSUME NEW a \in Album, WA!Remove(a) PROVE WantedInv'
  <2>1. CheckInv'  BY <1>0, <1>2, CheckKept DEF WA!Remove, WA!Drop, CheckInv
  <2>. QED  BY <1>0, <1>2, <2>1, Removes DEF WantedInv
<1>3. ASSUME NEW a \in Album,
         WA!SetPaused(a) \/ WA!FulfillDownloaded(a) \/ WA!SyncFulfilled(a) \/ WA!Restore(a)
         \/ WA!SetPreferences(a) \/ WA!SetEdition(a)
      PROVE WantedInv'
  <2>1. AlbumsInv'  BY <1>0, <1>3, Choices
  <2>2. UNCHANGED <<ending, online, checkToken, sent, tolerance>> /\ checking' \in {checking, WA!None}
    BY <1>3 DEF WA!SetPaused, WA!FulfillDownloaded, WA!SyncFulfilled, WA!Restore,
                WA!SetPreferences, WA!SetEdition, WA!Drop
  <2>3. CheckInv'  BY <1>0, <2>2, CheckKept DEF CheckInv
  <2>. QED  BY <2>1, <2>3 DEF WantedInv
<1>4. ASSUME NEW a \in Album, WA!StartManual(a) \/ WA!StartDue(a) PROVE WantedInv'
  <2>1. UNCHANGED wanted  BY <1>4 DEF WA!StartManual, WA!StartDue, WA!Start
  <2>2. AlbumsInv'  BY <1>0, <2>1 DEF AlbumsInv
  <2>. QED  BY <1>0, <1>4, <2>2, Starts DEF WantedInv
<1>5. CASE WA!ApplySettings
  <2>1. UNCHANGED <<checking, ending, online, checkToken, sent>> /\ tolerance' \in Tolerance
    BY <1>5 DEF WA!ApplySettings
  <2>. QED  BY <1>0, <1>5, <2>1, SettingsApply, CheckKept DEF WantedInv
<1>6. CASE WA!StartPending \/ WA!Record \/ WA!TracksLoaded \/ WA!Expire
  <2>1. UNCHANGED wanted  BY <1>6 DEF WA!StartPending, WA!Record, WA!TracksLoaded, WA!Expire
  <2>2. AlbumsInv'  BY <1>0, <2>1 DEF AlbumsInv
  <2>. QED  BY <1>0, <1>6, <2>2, Pends, Hears, CheckExpires DEF WantedInv
<1>7. CASE WA!ReadTolerance
  <2>1. /\ ending \in EndingType /\ ending' = [ending EXCEPT !.tolerance = tolerance]
        /\ UNCHANGED <<wanted, tolerance, checking, online, checkToken, sent>>
    BY <1>0, <1>7 DEF WA!ReadTolerance, CheckInv
  <2>2. tolerance \in Tolerance  BY <1>0 DEF CheckInv
  <2>3. ending' \in EndingType  BY <2>1, <2>2 DEF EndingType
  <2>. QED  BY <1>0, <2>1, <2>3 DEF WantedInv, AlbumsInv, CheckInv
<1>8. CASE WA!Finish
  <2>1. AlbumsInv'  BY <1>0, <1>8, Finishes
  <2>2. ending' = WA!None /\ UNCHANGED <<tolerance, checking, online, checkToken, sent>>
    BY <1>8 DEF WA!Finish
  <2>. QED  BY <1>0, <2>1, <2>2 DEF WantedInv, CheckInv
<1>9. CASE WA!SessionUp
  <2>1. /\ ~online.up /\ online' = [up |-> TRUE, session |-> online.session + 1]
        /\ UNCHANGED <<wanted, tolerance, checking, ending, checkToken, sent>>
    BY <1>9 DEF WA!SessionUp
  <2>2. checking = WA!None  BY <1>0, <2>1 DEF CheckInv
  <2>3. online' \in [up : BOOLEAN, session : Nat]  BY <1>0, <2>1 DEF CheckInv
  <2>. QED  BY <1>0, <2>1, <2>2, <2>3 DEF WantedInv, AlbumsInv, CheckInv
<1>10. CASE WA!SessionLost
  <2>1. /\ online' = [online EXCEPT !.up = FALSE] /\ checking' = WA!None
        /\ UNCHANGED <<wanted, tolerance, ending, checkToken, sent>>
    BY <1>10 DEF WA!SessionLost
  <2>2. online' \in [up : BOOLEAN, session : Nat]  BY <1>0, <2>1 DEF CheckInv
  <2>. QED  BY <1>0, <2>1, <2>2 DEF WantedInv, AlbumsInv, CheckInv
<1>11. CASE UNCHANGED checkVars
  BY <1>0, <1>11 DEF checkVars, WantedInv, AlbumsInv, CheckInv
<1>. QED
  BY <1>1, <1>2, <1>3, <1>4, <1>5, <1>6, <1>7, <1>8, <1>9, <1>10, <1>11 DEF WA!WantedNext

LEMMA WantedInvHolds ==
  ASSUME WantedInv PROVE WA!SourcesAreOfTheEdition /\ WA!ChecksDieWithTheSession
<1>1. WA!SourcesAreOfTheEdition
  BY DEF WantedInv, AlbumsInv, SoundAlbum, WA!SourcesAreOfTheEdition, WA!Listed
<1>2. WA!ChecksDieWithTheSession
  BY DEF WantedInv, CheckInv, WA!ChecksDieWithTheSession, WA!Hears
<1>. QED  BY <1>1, <1>2

-----------------------------------------------------------------------------
(* The scan of a shelf.  Its queue holds the albums that wait, each once,  *)
(* its probe the one at hand, and an album has heard answers to queries    *)
(* sent for it in this scan only.                                          *)
AlbumStates == {"queued", "scanning", "completed", "error", "stopped"}
ShelfAlbum == [state : AlbumStates, heard : SUBSET (1 .. MaxRadarToken)]
ProbeType == [album : Nat \ {0}, token : 1 .. MaxRadarToken, listening : BOOLEAN, try : Nat]
InState(state) == {i \in DOMAIN shelf : shelf[i].state = state}
Elements(q) == {q[k] : k \in DOMAIN q}
Once(q) == \A j, k \in DOMAIN q : j # k => q[j] # q[k]

ShelfTypes ==
  /\ shelf \in [DOMAIN shelf -> ShelfAlbum]
  /\ DOMAIN shelf \subseteq Nat \ {0} /\ IsFiniteSet(DOMAIN shelf)
  /\ queue \in Seq(Nat) /\ Once(queue)
  /\ probe \in {SH!NoProbe} \cup ProbeType
  /\ radarToken \in Nat \ {0} /\ scans \in Nat
  /\ meant \in [1 .. MaxRadarToken -> Nat \X Nat]
ShelfMatches ==
  /\ scan = "scanning" <=> queue # <<>> \/ probe # SH!NoProbe
  /\ InState("queued") = Elements(queue)
  /\ InState("scanning") = SH!Probed
  /\ done = Cardinality(InState("completed"))
ShelfAnswers ==
  /\ probe # SH!NoProbe =>
       probe.token < radarToken /\ meant[probe.token] = <<scans, probe.album>>
  /\ \A i \in DOMAIN shelf : \A t \in shelf[i].heard :
       t < radarToken /\ meant[t] = <<scans, i>>
ShelfInv == ShelfTypes /\ ShelfMatches /\ ShelfAnswers

LEMMA ProbedIs ==
  ASSUME ShelfTypes
  PROVE  /\ probe = SH!NoProbe => SH!Probed = {}
         /\ probe # SH!NoProbe => probe \in ProbeType /\ SH!Probed = {probe.album}
<1>1. CASE probe = SH!NoProbe
  <2>1. probe.album = 0  BY <1>1 DEF SH!NoProbe
  <2>. QED  BY <1>1, <2>1 DEF SH!Probed
<1>2. CASE probe # SH!NoProbe
  <2>1. probe \in ProbeType  BY <1>2 DEF ShelfTypes
  <2>2. probe.album # 0  BY <2>1 DEF ProbeType
  <2>. QED  BY <1>2, <2>1, <2>2 DEF SH!Probed
<1>. QED  BY <1>1, <1>2

LEMMA ShelfInvInit == SH!ShelfInit => ShelfInv
<1>. SUFFICES ASSUME SH!ShelfInit PROVE ShelfInv
  OBVIOUS
<1>1. /\ scan = "idle" /\ shelf = <<>> /\ done = 0 /\ queue = <<>> /\ probe = SH!NoProbe
      /\ radarToken = 1 /\ scans = 0 /\ meant = [t \in 1 .. MaxRadarToken |-> <<0, 0>>]
  BY DEF SH!ShelfInit, SH!Unmeant
<1>2. DOMAIN shelf = {} /\ DOMAIN queue = {}  BY <1>1
<1>3. ShelfTypes
  <2>1. shelf \in [DOMAIN shelf -> ShelfAlbum]  BY <1>1, <1>2
  <2>2. IsFiniteSet(DOMAIN shelf)  BY <1>2, FS_EmptySet
  <2>3. queue \in Seq(Nat)  BY <1>1
  <2>4. Once(queue)  BY <1>2 DEF Once
  <2>5. meant \in [1 .. MaxRadarToken -> Nat \X Nat]  BY <1>1
  <2>6. radarToken \in Nat \ {0} /\ scans \in Nat
    <3>1. 1 \in Nat \ {0} /\ 0 \in Nat  OBVIOUS
    <3>. QED  BY <1>1, <3>1
  <2>7. probe \in {SH!NoProbe} \cup ProbeType  BY <1>1
  <2>. QED  BY <1>2, <2>1, <2>2, <2>3, <2>4, <2>5, <2>6, <2>7 DEF ShelfTypes
<1>4. ShelfMatches
  <2>1. \A s : InState(s) = {}  BY <1>2 DEF InState
  <2>2. Elements(queue) = {}  BY <1>2 DEF Elements
  <2>3. SH!Probed = {}  BY <1>1, <1>3, ProbedIs
  <2>4. Cardinality(InState("completed")) = 0  BY <2>1, FS_EmptySet
  <2>5. scan # "scanning"  BY <1>1
  <2>. QED  BY <1>1, <2>1, <2>2, <2>3, <2>4, <2>5 DEF ShelfMatches
<1>5. ShelfAnswers  BY <1>1, <1>2 DEF ShelfAnswers
<1>. QED  BY <1>3, <1>4, <1>5 DEF ShelfInv

-----------------------------------------------------------------------------
(* Albums that are marked, and the queue without its first.                *)
LEMMA MarkedShelf ==
  ASSUME ShelfTypes, NEW S, NEW state \in AlbumStates, shelf' = SH!Mark(S, state)
  PROVE  /\ DOMAIN shelf' = DOMAIN shelf
         /\ shelf' \in [DOMAIN shelf' -> ShelfAlbum]
         /\ \A i \in DOMAIN shelf :
              /\ shelf'[i].heard = shelf[i].heard
              /\ i \in S => shelf'[i].state = state
              /\ i \notin S => shelf'[i].state = shelf[i].state
<1>1. DOMAIN shelf' = DOMAIN shelf  BY DEF SH!Mark, SH!Albums
<1>2. ASSUME NEW i \in DOMAIN shelf PROVE
        /\ shelf'[i] \in ShelfAlbum
        /\ shelf'[i].heard = shelf[i].heard
        /\ i \in S => shelf'[i].state = state
        /\ i \notin S => shelf'[i].state = shelf[i].state
  <2> DEFINE x == shelf[i]
  <2>1. x \in ShelfAlbum  BY DEF ShelfTypes
  <2>2. shelf'[i] = IF i \in S THEN [x EXCEPT !.state = state] ELSE x
    BY DEF SH!Mark, SH!Albums
  <2>. HIDE DEF x
  <2>3. /\ [x EXCEPT !.state = state] \in ShelfAlbum /\ [x EXCEPT !.state = state].heard = x.heard
        /\ [x EXCEPT !.state = state].state = state
    BY <2>1 DEF ShelfAlbum
  <2>. QED  BY <2>1, <2>2, <2>3 DEF x
<1>3. shelf' \in [DOMAIN shelf' -> ShelfAlbum]
  <2>1. shelf' = [i \in DOMAIN shelf' |-> shelf'[i]]  BY DEF SH!Mark, SH!Albums
  <2>. QED  BY <1>1, <1>2, <2>1
<1>. QED  BY <1>1, <1>2, <1>3

LEMMA QueueTakes ==
  ASSUME NEW q \in Seq(Nat), Once(q), q # <<>>
  PROVE  /\ Tail(q) \in Seq(Nat) /\ Once(Tail(q))
         /\ Head(q) \in Elements(q)
         /\ Elements(Tail(q)) = Elements(q) \ {Head(q)}
<1>1. Len(q) \in Nat /\ Len(q) > 0 /\ DOMAIN q = 1 .. Len(q)  OBVIOUS
<1>2. /\ Tail(q) \in Seq(Nat) /\ Len(Tail(q)) = Len(q) - 1 /\ DOMAIN Tail(q) = 1 .. (Len(q) - 1)
      /\ \A k \in 1 .. (Len(q) - 1) : Tail(q)[k] = q[k + 1]
  OBVIOUS
<1>3. Head(q) = q[1] /\ 1 \in DOMAIN q  BY <1>1
<1>4. Once(Tail(q))
  <2>1. SUFFICES ASSUME NEW j \in DOMAIN Tail(q), NEW k \in DOMAIN Tail(q), j # k
                 PROVE  Tail(q)[j] # Tail(q)[k]
    BY DEF Once
  <2>2. /\ j \in 1 .. (Len(q) - 1) /\ j + 1 \in 1 .. Len(q)
        /\ k \in 1 .. (Len(q) - 1) /\ k + 1 \in 1 .. Len(q)
        /\ j + 1 # k + 1
    <3>1. j \in 1 .. (Len(q) - 1) /\ k \in 1 .. (Len(q) - 1)  BY <1>2
    <3>. QED  BY <1>1, <2>1, <3>1
  <2>. QED  BY <1>1, <1>2, <2>2 DEF Once
<1>5. ASSUME NEW x \in Elements(Tail(q)) PROVE x \in Elements(q) \ {Head(q)}
  <2>1. PICK k \in DOMAIN Tail(q) : x = Tail(q)[k]  BY DEF Elements
  <2>2. k + 1 \in DOMAIN q /\ k + 1 # 1 /\ x = q[k + 1]  BY <1>1, <1>2, <2>1
  <2>. QED  BY <1>3, <2>2 DEF Elements, Once
<1>6. ASSUME NEW x \in Elements(q) \ {Head(q)} PROVE x \in Elements(Tail(q))
  <2>1. PICK k \in DOMAIN q : x = q[k]  BY DEF Elements
  <2>2. k # 1  BY <1>3, <2>1
  <2>3. k - 1 \in DOMAIN Tail(q) /\ (k - 1) + 1 = k  BY <1>1, <1>2, <2>2
  <2>4. x = Tail(q)[k - 1]  BY <1>2, <2>1, <2>3
  <2>. QED  BY <2>3, <2>4 DEF Elements
<1>7. Head(q) \in Elements(q)  BY <1>3 DEF Elements
<1>. QED  BY <1>2, <1>4, <1>5, <1>6, <1>7

(* Nothing is marked completed: the count of what is stays.                *)
LEMMA CountKept ==
  ASSUME ShelfTypes, ShelfMatches, DOMAIN shelf' = DOMAIN shelf, done' = done,
         \A i \in DOMAIN shelf : shelf'[i].state = "completed" <=> shelf[i].state = "completed"
  PROVE  done' = Cardinality(InState("completed")')
<1>1. InState("completed")' = InState("completed")  BY DEF InState
<1>. QED  BY <1>1 DEF ShelfMatches

(* What a new query does to the history of the queries.                    *)
LEMMA QuerySent ==
  ASSUME ShelfTypes, ShelfAnswers, NEW i \in Nat, SH!Send(i)
  PROVE  /\ radarToken \in 1 .. MaxRadarToken /\ radarToken' = radarToken + 1
         /\ radarToken' \in Nat \ {0}
         /\ meant' \in [1 .. MaxRadarToken -> Nat \X Nat]
         /\ meant'[radarToken] = <<scans, i>>
         /\ \A t \in 1 .. MaxRadarToken : t < radarToken => meant'[t] = meant[t]
<1>1. /\ radarToken \in 1 .. MaxRadarToken /\ radarToken' = radarToken + 1
      /\ meant' = [meant EXCEPT ![radarToken] = <<scans, i>>]
      /\ radarToken' \in Nat \ {0}
  BY DEF SH!Send, ShelfTypes
<1>2. <<scans, i>> \in Nat \X Nat  BY DEF ShelfTypes
<1>3. meant \in [1 .. MaxRadarToken -> Nat \X Nat]  BY DEF ShelfTypes
<1>. QED  BY <1>1, <1>2, <1>3

LEMMA HeardBefore ==
  ASSUME ShelfTypes, ShelfAnswers, NEW i \in Nat, SH!Send(i), UNCHANGED scans,
         DOMAIN shelf' = DOMAIN shelf,
         \A j \in DOMAIN shelf : shelf'[j].heard = shelf[j].heard
  PROVE  \A j \in DOMAIN shelf' : \A t \in shelf'[j].heard :
           t < radarToken' /\ meant'[t] = <<scans', j>>
<1>1. SUFFICES ASSUME NEW j \in DOMAIN shelf, NEW t \in shelf[j].heard
               PROVE  t < radarToken' /\ meant'[t] = <<scans, j>>
  OBVIOUS
<1>2. t \in 1 .. MaxRadarToken /\ t < radarToken /\ meant[t] = <<scans, j>>
  BY DEF ShelfTypes, ShelfAlbum, ShelfAnswers
<1>. QED  BY <1>2, QuerySent

-----------------------------------------------------------------------------
LEMMA ScanStarts ==
  ASSUME MaxShelf \in Nat, ShelfInv, SH!StartScan PROVE ShelfInv'
<1>0. ShelfTypes  BY DEF ShelfInv
<1>1. PICK n \in 1 .. MaxShelf :
        /\ shelf' = [i \in 1 .. n |-> [state |-> "queued", heard |-> {}]]
        /\ queue' = [i \in 1 .. n |-> i]
  BY DEF SH!StartScan
<1>2. /\ scan' = "scanning" /\ done' = 0 /\ probe' = SH!NoProbe /\ scans' = scans + 1
      /\ UNCHANGED <<radarToken, meant>>
  BY DEF SH!StartScan
<1>3. /\ DOMAIN shelf' = 1 .. n /\ DOMAIN queue' = 1 .. n /\ n \in Nat /\ n >= 1
      /\ \A i \in 1 .. n : shelf'[i].state = "queued" /\ shelf'[i].heard = {} /\ queue'[i] = i
  BY <1>1
<1>4. ShelfTypes'
  <2>1. shelf' \in [DOMAIN shelf' -> ShelfAlbum]
    <3>1. [state |-> "queued", heard |-> {}] \in ShelfAlbum  BY DEF ShelfAlbum, AlbumStates
    <3>. QED  BY <1>1, <3>1
  <2>2. IsFiniteSet(DOMAIN shelf') /\ DOMAIN shelf' \subseteq Nat \ {0}  BY <1>3, FS_Interval
  <2>3. queue' \in Seq(Nat)
    <3>1. queue' \in [1 .. n -> Nat]  BY <1>1
    <3>. QED  BY <1>3, <3>1, SeqDef
  <2>4. Once(queue')  BY <1>3 DEF Once
  <2>5. scans' \in Nat  BY <1>0, <1>2 DEF ShelfTypes
  <2>. QED  BY <1>0, <1>2, <2>1, <2>2, <2>3, <2>4, <2>5 DEF ShelfTypes
<1>5. ShelfMatches'
  <2>1. InState("queued")' = 1 .. n  BY <1>3 DEF InState
  <2>2. Elements(queue') = 1 .. n  BY <1>3 DEF Elements
  <2>3. InState("scanning")' = {} /\ InState("completed")' = {}  BY <1>3 DEF InState
  <2>4. SH!Probed' = {}  BY <1>2 DEF SH!Probed, SH!NoProbe
  <2>5. queue' # <<>>
    <3>1. 1 \in DOMAIN queue'  BY <1>3
    <3>. QED  BY <3>1
  <2>6. Cardinality(InState("completed")') = 0  BY <2>3, FS_EmptySet
  <2>. QED  BY <1>2, <2>1, <2>2, <2>3, <2>4, <2>5, <2>6 DEF ShelfMatches
<1>6. ShelfAnswers'  BY <1>2, <1>3 DEF ShelfAnswers
<1>. QED  BY <1>4, <1>5, <1>6 DEF ShelfInv

(* The scan is given up: the albums it had not done are marked.            *)
LEMMA ScanEnds ==
  ASSUME ShelfInv, NEW state \in {"stopped", "error"}, scan' # "scanning", probe' = SH!NoProbe,
         queue' = <<>>, shelf' = SH!Mark(SH!Probed \cup SH!InQueue, state),
         UNCHANGED <<done, radarToken, scans, meant>>
  PROVE  ShelfInv'
<1> DEFINE S == SH!Probed \cup SH!InQueue
<1>0. ShelfTypes /\ ShelfMatches /\ ShelfAnswers  BY DEF ShelfInv
<1>1. S = InState("scanning") \cup InState("queued")
  BY <1>0 DEF ShelfMatches, SH!InQueue, Elements
<1>2. state \in AlbumStates  BY DEF AlbumStates
<1>3. shelf' = SH!Mark(S, state)  OBVIOUS
<1>. HIDE DEF S
<1>4. /\ DOMAIN shelf' = DOMAIN shelf /\ shelf' \in [DOMAIN shelf' -> ShelfAlbum]
      /\ \A i \in DOMAIN shelf :
              /\ shelf'[i].heard = shelf[i].heard
              /\ i \in S => shelf'[i].state = state
              /\ i \notin S => shelf'[i].state = shelf[i].state
  BY <1>0, <1>2, <1>3, MarkedShelf
<1>5. DOMAIN queue' = {} /\ queue' \in Seq(Nat)  OBVIOUS
<1>6. Once(queue')  BY <1>5 DEF Once
<1>7. ShelfTypes'
  BY <1>0, <1>4, <1>5, <1>6 DEF ShelfTypes
<1>8. InState("queued")' = {} /\ InState("scanning")' = {}
  <2>1. ASSUME NEW i \in DOMAIN shelf PROVE shelf'[i].state \notin {"queued", "scanning"}
    <3>1. CASE i \in S  BY <3>1, <1>4
    <3>2. CASE i \notin S  BY <3>2, <1>1, <1>4 DEF InState
    <3>. QED  BY <3>1, <3>2
  <2>. QED  BY <1>4, <2>1 DEF InState
<1>9. \A i \in DOMAIN shelf : shelf'[i].state = "completed" <=> shelf[i].state = "completed"
  <2>1. ASSUME NEW i \in DOMAIN shelf
        PROVE  shelf'[i].state = "completed" <=> shelf[i].state = "completed"
    <3>1. CASE i \in S  BY <3>1, <1>1, <1>4 DEF InState
    <3>2. CASE i \notin S  BY <3>2, <1>4
    <3>. QED  BY <3>1, <3>2
  <2>. QED  BY <2>1
<1>10. done' = Cardinality(InState("completed")')  BY <1>0, <1>4, <1>9, CountKept
<1>11. Elements(queue') = {} /\ SH!Probed' = {}
  <2>1. SH!Probed' = {}  BY DEF SH!Probed, SH!NoProbe
  <2>. QED  BY <1>5, <2>1 DEF Elements
<1>12. ShelfMatches'  BY <1>8, <1>10, <1>11 DEF ShelfMatches
<1>13. ShelfAnswers'  BY <1>0, <1>4 DEF ShelfAnswers
<1>. QED  BY <1>7, <1>12, <1>13 DEF ShelfInv

LEMMA NextQuery ==
  ASSUME ShelfInv, probe # SH!NoProbe, SH!Send(probe.album),
         probe' = [probe EXCEPT !.token = radarToken, !.listening = TRUE],
         UNCHANGED <<scan, shelf, queue, done, scans>>
  PROVE  ShelfInv'
<1>0. ShelfTypes /\ ShelfMatches /\ ShelfAnswers  BY DEF ShelfInv
<1>1. probe \in ProbeType /\ SH!Probed = {probe.album}  BY <1>0, ProbedIs
<1>2. probe.album \in Nat /\ probe.album # 0  BY <1>1 DEF ProbeType
<1>3. /\ radarToken \in 1 .. MaxRadarToken /\ radarToken' = radarToken + 1
      /\ radarToken' \in Nat \ {0}
      /\ meant' \in [1 .. MaxRadarToken -> Nat \X Nat]
      /\ meant'[radarToken] = <<scans, probe.album>>
  BY <1>0, <1>2, QuerySent
<1>4. probe' \in ProbeType /\ probe'.token = radarToken /\ probe'.album = probe.album
  BY <1>1, <1>3 DEF ProbeType
<1>5. ShelfTypes'  BY <1>0, <1>3, <1>4 DEF ShelfTypes
<1>6. probe' # SH!NoProbe
  <2>1. SH!NoProbe.album = 0  BY DEF SH!NoProbe
  <2>. QED  BY <1>2, <1>4, <2>1
<1>7. SH!Probed' = SH!Probed  BY <1>4 DEF SH!Probed
<1>8. ShelfMatches'  BY <1>0, <1>6, <1>7 DEF ShelfMatches, InState
<1>9. \A j \in DOMAIN shelf' : \A t \in shelf'[j].heard :
           t < radarToken' /\ meant'[t] = <<scans', j>>
  BY <1>0, <1>2, HeardBefore
<1>10. radarToken < radarToken'  BY <1>3
<1>11. ShelfAnswers'  BY <1>3, <1>4, <1>9, <1>10 DEF ShelfAnswers
<1>. QED  BY <1>5, <1>8, <1>11 DEF ShelfInv

LEMMA NextAlbum ==
  ASSUME ShelfInv, scan = "scanning", probe = SH!NoProbe, queue # <<>>, SH!Send(Head(queue)),
         queue' = Tail(queue), shelf' = SH!Mark({Head(queue)}, "scanning"),
         probe' = [album |-> Head(queue), token |-> radarToken, listening |-> TRUE, try |-> 1],
         UNCHANGED <<scan, done, scans>>
  PROVE  ShelfInv'
<1> DEFINE h == Head(queue)
           S == {h}
<1>0. ShelfTypes /\ ShelfMatches /\ ShelfAnswers  BY DEF ShelfInv
<1>1. /\ queue' \in Seq(Nat) /\ Once(queue') /\ h \in Elements(queue)
      /\ Elements(queue') = Elements(queue) \ {h}
  BY <1>0, QueueTakes DEF ShelfTypes
<1>2. h \in DOMAIN shelf /\ shelf[h].state = "queued"  BY <1>0, <1>1 DEF ShelfMatches, InState
<1>3. h \in Nat /\ h # 0  BY <1>0, <1>2 DEF ShelfTypes
<1>3a. SH!Send(h) /\ shelf' = SH!Mark(S, "scanning")
       /\ probe' = [album |-> h, token |-> radarToken, listening |-> TRUE, try |-> 1]
  OBVIOUS
<1>. HIDE DEF h
<1>4. /\ radarToken \in 1 .. MaxRadarToken /\ radarToken' = radarToken + 1
      /\ radarToken' \in Nat \ {0}
      /\ meant' \in [1 .. MaxRadarToken -> Nat \X Nat]
      /\ meant'[radarToken] = <<scans, h>>
  BY <1>0, <1>3, <1>3a, QuerySent
<1>5. "scanning" \in AlbumStates  BY DEF AlbumStates
<1>. HIDE DEF S
<1>6. /\ DOMAIN shelf' = DOMAIN shelf /\ shelf' \in [DOMAIN shelf' -> ShelfAlbum]
      /\ \A i \in DOMAIN shelf :
              /\ shelf'[i].heard = shelf[i].heard
              /\ i \in S => shelf'[i].state = "scanning"
              /\ i \notin S => shelf'[i].state = shelf[i].state
  BY <1>0, <1>3a, <1>5, MarkedShelf
<1>. USE DEF S
<1>7. probe' \in ProbeType /\ probe'.token = radarToken /\ probe'.album = h
  <2>1. 1 \in Nat /\ TRUE \in BOOLEAN /\ h \in Nat \ {0}  BY <1>3
  <2>. QED  BY <1>3a, <1>4, <2>1 DEF ProbeType
<1>8. ShelfTypes'  BY <1>0, <1>1, <1>4, <1>6, <1>7 DEF ShelfTypes
<1>9. probe' # SH!NoProbe /\ SH!Probed' = {h}
  <2>1. SH!NoProbe.album = 0  BY DEF SH!NoProbe
  <2>. QED  BY <1>3, <1>7, <2>1 DEF SH!Probed
<1>10. SH!Probed = {}  BY <1>0, ProbedIs
<1>11. InState("scanning")' = {h}
  <2>1. \A i \in DOMAIN shelf : shelf[i].state # "scanning"  BY <1>0, <1>10 DEF ShelfMatches, InState
  <2>. QED  BY <1>2, <1>6, <2>1 DEF InState
<1>12. InState("queued")' = InState("queued") \ {h}
  BY <1>2, <1>6 DEF InState
<1>13. \A i \in DOMAIN shelf : shelf'[i].state = "completed" <=> shelf[i].state = "completed"
  BY <1>2, <1>6
<1>14. done' = Cardinality(InState("completed")')  BY <1>0, <1>6, <1>13, CountKept
<1>15. ShelfMatches'
  BY <1>0, <1>1, <1>9, <1>11, <1>12, <1>14 DEF ShelfMatches
<1>16. \A j \in DOMAIN shelf' : \A t \in shelf'[j].heard :
           t < radarToken' /\ meant'[t] = <<scans', j>>
  BY <1>0, <1>3, <1>3a, <1>6, HeardBefore
<1>17. radarToken < radarToken'  BY <1>4
<1>18. ShelfAnswers'  BY <1>4, <1>7, <1>16, <1>17 DEF ShelfAnswers
<1>. QED  BY <1>8, <1>15, <1>18 DEF ShelfInv

LEMMA Finishing ==
  ASSUME ShelfInv, NEW error \in BOOLEAN, SH!FinishActive(error), UNCHANGED <<radarToken, scans, meant>>
  PROVE  ShelfInv'
<1> DEFINE how == IF error THEN "error" ELSE "completed"
           S == SH!Probed
           p == probe.album
<1>0. ShelfTypes /\ ShelfMatches /\ ShelfAnswers  BY DEF ShelfInv
<1>1. /\ probe # SH!NoProbe /\ probe' = SH!NoProbe /\ queue' = queue
      /\ shelf' = SH!Mark(S, how) /\ done' = IF error THEN done ELSE done + 1
      /\ scan' = IF queue # <<>> THEN scan ELSE how
  BY DEF SH!FinishActive
<1>2. probe \in ProbeType /\ S = {p}  BY <1>0, <1>1, ProbedIs
<1>3. p \in DOMAIN shelf /\ shelf[p].state = "scanning"  BY <1>0, <1>2 DEF ShelfMatches, InState
<1>4. how \in AlbumStates /\ how \notin {"queued", "scanning"}  BY DEF AlbumStates
<1>5. how = "completed" <=> ~error  OBVIOUS
<1>. HIDE DEF S, how, p
<1>6. /\ DOMAIN shelf' = DOMAIN shelf /\ shelf' \in [DOMAIN shelf' -> ShelfAlbum]
      /\ \A i \in DOMAIN shelf :
              /\ shelf'[i].heard = shelf[i].heard
              /\ i \in S => shelf'[i].state = how
              /\ i \notin S => shelf'[i].state = shelf[i].state
  BY <1>0, <1>1, <1>4, MarkedShelf
<1>7. ShelfTypes'  BY <1>0, <1>1, <1>6 DEF ShelfTypes
<1>8. SH!Probed' = {}  BY <1>1 DEF SH!Probed, SH!NoProbe
<1>9. \A i \in DOMAIN shelf : shelf[i].state = "scanning" <=> i = p
  BY <1>0, <1>2 DEF ShelfMatches, InState, S
<1>10. InState("scanning")' = {}  BY <1>2, <1>4, <1>6, <1>9 DEF InState
<1>11. InState("queued")' = InState("queued")  BY <1>2, <1>3, <1>4, <1>6 DEF InState
<1>12. done' = Cardinality(InState("completed")')
  <2>1. CASE error
    <3>1. \A i \in DOMAIN shelf : shelf'[i].state = "completed" <=> shelf[i].state = "completed"
      BY <1>2, <1>3, <1>5, <1>6, <2>1
    <3>2. done' = done  BY <1>1, <2>1
    <3>. QED  BY <1>0, <1>6, <3>1, <3>2, CountKept
  <2>2. CASE ~error
    <3>1. InState("completed")' = InState("completed") \cup {p}
      BY <1>2, <1>3, <1>5, <1>6, <2>2 DEF InState
    <3>2. p \notin InState("completed")  BY <1>3 DEF InState
    <3>3. IsFiniteSet(InState("completed"))
      <4>1. InState("completed") \subseteq DOMAIN shelf /\ IsFiniteSet(DOMAIN shelf)
        BY <1>0 DEF InState, ShelfTypes
      <4>. QED  BY <4>1, FS_Subset
    <3>4. Cardinality(InState("completed") \cup {p}) = Cardinality(InState("completed")) + 1
      BY <3>2, <3>3, FS_AddElement
    <3>5. done' = done + 1  BY <1>1, <2>2
    <3>. QED  BY <1>0, <3>1, <3>4, <3>5 DEF ShelfMatches
  <2>. QED  BY <2>1, <2>2
<1>13. scan' = "scanning" <=> queue' # <<>> \/ probe' # SH!NoProbe
  <2>1. scan = "scanning"  BY <1>0, <1>1 DEF ShelfMatches
  <2>. QED  BY <1>1, <1>4, <2>1
<1>14. ShelfMatches'  BY <1>0, <1>1, <1>8, <1>10, <1>11, <1>12, <1>13 DEF ShelfMatches
<1>15. ShelfAnswers'  BY <1>0, <1>1, <1>6 DEF ShelfAnswers
<1>. QED  BY <1>7, <1>14, <1>15 DEF ShelfInv

LEMMA NextTry ==
  ASSUME ShelfInv, probe # SH!NoProbe, probe' = [probe EXCEPT !.listening = FALSE, !.try = @ + 1],
         UNCHANGED <<scan, shelf, done, queue, radarToken, scans, meant>>
  PROVE  ShelfInv'
<1> DEFINE n == probe.try + 1
           q == [probe EXCEPT !.listening = FALSE, !.try = n]
<1>0. ShelfTypes /\ ShelfMatches /\ ShelfAnswers  BY DEF ShelfInv
<1>1. probe \in ProbeType /\ SH!Probed = {probe.album}  BY <1>0, ProbedIs
<1>2. n \in Nat  BY <1>1 DEF ProbeType
<1>3. probe' = q  BY <1>1 DEF ProbeType
<1>. HIDE DEF n
<1>4. q \in ProbeType /\ q.token = probe.token /\ q.album = probe.album  BY <1>1, <1>2 DEF ProbeType
<1>. HIDE DEF q
<1>5. probe' # SH!NoProbe
  <2>1. SH!NoProbe.album = 0  BY DEF SH!NoProbe
  <2>. QED  BY <1>1, <1>3, <1>4, <2>1 DEF ProbeType
<1>6. SH!Probed' = SH!Probed  BY <1>3, <1>4 DEF SH!Probed
<1>7. ShelfTypes'  BY <1>0, <1>3, <1>4 DEF ShelfTypes
<1>8. ShelfMatches'  BY <1>0, <1>5, <1>6 DEF ShelfMatches, InState
<1>9. ShelfAnswers'  BY <1>0, <1>3, <1>4 DEF ShelfAnswers
<1>. QED  BY <1>7, <1>8, <1>9 DEF ShelfInv

LEMMA AnswerRecorded ==
  ASSUME ShelfInv, SH!RecordAnswer PROVE ShelfInv'
<1> DEFINE p == probe.album
           k == probe.token
<1>0. ShelfTypes /\ ShelfMatches /\ ShelfAnswers  BY DEF ShelfInv
<1>1. /\ probe # SH!NoProbe /\ shelf' = [shelf EXCEPT ![p].heard = @ \cup {k}]
      /\ UNCHANGED <<scan, done, queue, probe, radarToken, scans, meant>>
  BY DEF SH!RecordAnswer
<1>2. probe \in ProbeType /\ SH!Probed = {p}  BY <1>0, <1>1, ProbedIs
<1>3. p \in DOMAIN shelf  BY <1>0, <1>2 DEF ShelfMatches, InState
<1>4. k \in 1 .. MaxRadarToken /\ k < radarToken /\ meant[k] = <<scans, p>>
  BY <1>0, <1>1, <1>2 DEF ShelfAnswers, ProbeType
<1> DEFINE x == shelf[p]
           hear == x.heard \cup {k}
           y == [x EXCEPT !.heard = hear]
<1>5. x \in ShelfAlbum  BY <1>0, <1>3 DEF ShelfTypes
<1>6. hear \in SUBSET (1 .. MaxRadarToken)  BY <1>4, <1>5 DEF ShelfAlbum
<1>7. shelf' = [shelf EXCEPT ![p] = y]  BY <1>1
<1>. HIDE DEF hear
<1>8. y \in ShelfAlbum /\ y.state = x.state /\ y.heard = hear  BY <1>5, <1>6 DEF ShelfAlbum
<1>. HIDE DEF y
<1>9. /\ DOMAIN shelf' = DOMAIN shelf /\ shelf' \in [DOMAIN shelf' -> ShelfAlbum]
      /\ shelf'[p] = y /\ \A i \in DOMAIN shelf : i # p => shelf'[i] = shelf[i]
  BY <1>0, <1>3, <1>7, <1>8 DEF ShelfTypes
<1>10. \A i \in DOMAIN shelf : shelf'[i].state = shelf[i].state  BY <1>8, <1>9
<1>11. ShelfTypes'  BY <1>0, <1>1, <1>9 DEF ShelfTypes
<1>12. \A s : InState(s)' = InState(s)  BY <1>9, <1>10 DEF InState
<1>13. SH!Probed' = SH!Probed  BY <1>1 DEF SH!Probed
<1>14. ShelfMatches'
  <2>1. InState("queued")' = InState("queued") /\ InState("scanning")' = InState("scanning")
        /\ InState("completed")' = InState("completed")
    BY <1>9, <1>10 DEF InState
  <2>. QED  BY <1>0, <1>1, <1>13, <2>1 DEF ShelfMatches
<1>15. ASSUME NEW i \in DOMAIN shelf', NEW t \in shelf'[i].heard
       PROVE  t < radarToken' /\ meant'[t] = <<scans', i>>
  <2>1. CASE i # p \/ t \in x.heard
    <3>1. i \in DOMAIN shelf /\ t \in shelf[i].heard
      BY <1>8, <1>9, <1>15, <2>1 DEF hear
    <3>. QED  BY <1>0, <1>1, <3>1 DEF ShelfAnswers
  <2>2. CASE i = p /\ t \notin x.heard
    <3>1. t = k  BY <1>8, <1>9, <1>15, <2>2 DEF hear
    <3>. QED  BY <1>1, <1>4, <2>2, <3>1
  <2>. QED  BY <2>1, <2>2
<1>16. ShelfAnswers'  BY <1>0, <1>1, <1>15 DEF ShelfAnswers
<1>. QED  BY <1>11, <1>14, <1>16 DEF ShelfInv

LEMMA ShelfInvStep ==
  MaxShelf \in Nat /\ ShelfInv /\ [SH!ShelfNext]_shelfVars => ShelfInv'
<1>. SUFFICES ASSUME MaxShelf \in Nat, ShelfInv, [SH!ShelfNext]_shelfVars PROVE ShelfInv'
  OBVIOUS
<1>0. ASSUME UNCHANGED <<scan, shelf, done, queue, probe, radarToken, scans, meant>> PROVE ShelfInv'
  <2>1. UNCHANGED SH!Probed  BY <1>0 DEF SH!Probed
  <2>2. UNCHANGED <<InState("queued"), InState("scanning"), InState("completed")>>
    BY <1>0 DEF InState
  <2>. QED  BY <1>0, <2>1, <2>2 DEF ShelfInv, ShelfTypes, ShelfMatches, ShelfAnswers
<1>1. CASE SH!StartScan  BY <1>1, ScanStarts
<1>2. CASE SH!StopScan
  <2>1. scan' = "stopped" /\ scan' # "scanning" /\ "stopped" \in {"stopped", "error"}
    BY <1>2 DEF SH!StopScan
  <2>. QED  BY <1>2, <2>1, ScanEnds DEF SH!StopScan
<1>3. CASE SH!StartNext
  <2>1. CASE /\ probe # SH!NoProbe /\ ~probe.listening
             /\ SH!Send(probe.album)
             /\ probe' = [probe EXCEPT !.token = radarToken, !.listening = TRUE]
             /\ UNCHANGED <<scan, shelf, queue>>
    BY <1>3, <2>1, NextQuery DEF SH!StartNext
  <2>2. CASE /\ probe = SH!NoProbe /\ queue # <<>>
             /\ SH!Send(Head(queue))
             /\ queue' = Tail(queue)
             /\ shelf' = SH!Mark({Head(queue)}, "scanning")
             /\ probe' = [album |-> Head(queue), token |-> radarToken,
                          listening |-> TRUE, try |-> 1]
             /\ UNCHANGED scan
    BY <1>3, <2>2, NextAlbum DEF SH!StartNext
  <2>3. CASE probe = SH!NoProbe /\ queue = <<>>
    BY <1>3, <2>3 DEF SH!StartNext, ShelfInv, ShelfMatches
  <2>. QED  BY <1>3, <2>1, <2>2, <2>3 DEF SH!StartNext
<1>4. CASE SH!Wrote \/ SH!CooledDown \/ SH!SessionUp
  BY <1>0, <1>4 DEF SH!Wrote, SH!CooledDown, SH!SessionUp
<1>5. CASE SH!WriteFails
  <2>1. CASE probe = SH!NoProbe  BY <1>0, <1>5, <2>1 DEF SH!WriteFails
  <2>2. CASE probe # SH!NoProbe  BY <1>5, <2>2, Finishing DEF SH!WriteFails
  <2>. QED  BY <2>1, <2>2
<1>6. CASE SH!ExpireProbe
  <2>1. CASE probe' = [probe EXCEPT !.listening = FALSE, !.try = @ + 1]
             /\ UNCHANGED <<scan, shelf, done, queue, cooling>>
    BY <1>6, <2>1, NextTry DEF SH!ExpireProbe
  <2>2. CASE SH!FinishActive(FALSE)
    BY <1>6, <2>2, Finishing DEF SH!ExpireProbe
  <2>. QED  BY <1>6, <2>1, <2>2 DEF SH!ExpireProbe
<1>7. CASE SH!RecordAnswer  BY <1>7, AnswerRecorded
<1>8. CASE SH!SessionLost
  <2>1. CASE scan = "scanning"
    <3>1. scan' = "error" /\ scan' # "scanning" /\ "error" \in {"stopped", "error"}
      BY <1>8, <2>1 DEF SH!SessionLost
    <3>. QED  BY <1>8, <2>1, <3>1, ScanEnds DEF SH!SessionLost
  <2>2. CASE scan # "scanning"  BY <1>0, <1>8, <2>2 DEF SH!SessionLost
  <2>. QED  BY <2>1, <2>2
<1>9. CASE UNCHANGED shelfVars  BY <1>0, <1>9 DEF shelfVars
<1>. QED
  BY <1>1, <1>2, <1>3, <1>4, <1>5, <1>6, <1>7, <1>8, <1>9 DEF SH!ShelfNext

LEMMA ShelfInvHolds ==
  ASSUME ShelfInv PROVE SH!AnswersAreItsOwn /\ SH!ScanMatchesItsAlbums
<1>0. ShelfTypes /\ ShelfMatches /\ ShelfAnswers  BY DEF ShelfInv
<1>1. SH!AnswersAreItsOwn  BY <1>0 DEF ShelfAnswers, SH!AnswersAreItsOwn, SH!Albums
<1>2. /\ InState("queued") = SH!InQueue /\ InState("scanning") = SH!Probed
      /\ done = Cardinality(InState("completed"))
  BY <1>0 DEF ShelfMatches, SH!InQueue, Elements
<1>3. scan = "scanning" <=> \E i \in DOMAIN shelf : shelf[i].state \in {"queued", "scanning"}
  <2>1. (\E i \in DOMAIN shelf : shelf[i].state \in {"queued", "scanning"})
          <=> Elements(queue) # {} \/ SH!Probed # {}
    BY <1>0 DEF ShelfMatches, InState
  <2>2. Elements(queue) # {} <=> queue # <<>>
    <3>1. queue \in Seq(Nat)  BY <1>0 DEF ShelfTypes
    <3>2. queue # <<>> => 1 \in DOMAIN queue  BY <3>1
    <3>3. queue = <<>> => DOMAIN queue = {}  OBVIOUS
    <3>. QED  BY <3>2, <3>3 DEF Elements
  <2>3. SH!Probed # {} <=> probe # SH!NoProbe  BY <1>0, ProbedIs
  <2>. QED  BY <1>0, <2>1, <2>2, <2>3 DEF ShelfMatches
<1>4. \A S : SH!Cardinality(S) = Cardinality(S)  BY DEF SH!Cardinality, Cardinality
<1>5. SH!ScanMatchesItsAlbums
  BY <1>2, <1>3, <1>4 DEF SH!ScanMatchesItsAlbums, SH!Albums, InState
<1>. QED  BY <1>1, <1>5

-----------------------------------------------------------------------------
(* The questions to the services of the archive.  One of them has the      *)
(* gate, and the next request waits for what is left of the pause and of   *)
(* the cooldown.                                                           *)
DiscoveryConstants ==
  Pause \in Nat /\ FreshFor \in Nat /\ \A time \in Cooldowns : time \in Nat /\ Pause <= time

AskingType ==
  [at : {"waiting", "sleeping", "asked"}, query : Query, read : BOOLEAN] \cup {DI!Idle}
HasGate(c) == DI!Is(c, "sleeping") \/ DI!Is(c, "asked")

(* What the history says of the next request, in d.                        *)
Spaced(d) ==
  /\ d \in Nat /\ silence \in Nat /\ quiet \in Nat
  /\ silence <= Pause /\ Pause <= silence + d /\ quiet <= d

AskingInv ==
  /\ asking \in [Asker -> AskingType]
  /\ saved \in [Query -> {-1} \cup Nat]
  /\ \A c, d \in Asker : HasGate(c) /\ HasGate(d) => c = d
  /\ DI!DuplicatesCoalesce
DiscoveryInv ==
  /\ AskingInv
  /\ part = "discovery" => Spaced(wait)

LEMMA IdleAsker ==
  ASSUME NEW c, asking[c] = DI!Idle
  PROVE  ~DI!Is(c, "waiting") /\ ~DI!Is(c, "sleeping") /\ ~DI!Is(c, "asked")
  BY DEF DI!Is, DI!Idle

LEMMA BusyAsker ==
  ASSUME AskingInv, NEW c \in Asker, DI!Is(c, "waiting") \/ HasGate(c)
  PROVE  asking[c] \in [at : {"waiting", "sleeping", "asked"}, query : Query, read : BOOLEAN]
  BY IdleAsker DEF AskingInv, AskingType, HasGate

LEMMA DiscoveryInvInit == DiscoveryConstants /\ DI!DiscInit => DiscoveryInv
<1>. SUFFICES ASSUME DiscoveryConstants, DI!DiscInit PROVE DiscoveryInv
  OBVIOUS
<1>1. /\ asking = [c \in Asker |-> DI!Idle] /\ saved = [q \in Query |-> -1]
      /\ wait = 0 /\ silence = Pause /\ quiet = 0
  BY DEF DI!DiscInit, DI!None
<1>2. asking \in [Asker -> AskingType]  BY <1>1 DEF AskingType
<1>3. saved \in [Query -> {-1} \cup Nat]  BY <1>1
<1>4. \A c \in Asker : asking[c] = DI!Idle  BY <1>1
<1>5. \A c \in Asker : ~HasGate(c)  BY <1>4, IdleAsker DEF HasGate
<1>6. DI!DuplicatesCoalesce  BY <1>5 DEF DI!DuplicatesCoalesce, HasGate
<1>7. Spaced(wait)  BY <1>1 DEF Spaced, DiscoveryConstants
<1>. QED  BY <1>2, <1>3, <1>4, <1>5, <1>6, <1>7 DEF DiscoveryInv, AskingInv

(* One of them goes on, and what is kept stays.                            *)
LEMMA OneAsks ==
  ASSUME AskingInv, NEW c \in Asker, NEW x \in AskingType, asking' = [asking EXCEPT ![c] = x],
         saved' = saved,
         HasGate(c)' => HasGate(c) \/ ~DI!GateIsHeld,
         DI!Is(c, "sleeping")' /\ x.read => ~DI!Fresh(saved[x.query])
  PROVE  AskingInv'
<1>1. /\ asking' \in [Asker -> AskingType] /\ asking'[c] = x
      /\ \A d \in Asker : d # c => asking'[d] = asking[d]
  BY DEF AskingInv
<1>2. \A d \in Asker : d # c => (HasGate(d)' <=> HasGate(d)) /\ (DI!Is(d, "sleeping")' <=> DI!Is(d, "sleeping"))
  BY <1>1 DEF HasGate, DI!Is
<1>3. ASSUME NEW a \in Asker, NEW b \in Asker, HasGate(a)', HasGate(b)' PROVE a = b
  <2>1. CASE a = c /\ b # c  BY <1>2, <1>3, <2>1 DEF AskingInv, HasGate, DI!GateIsHeld
  <2>2. CASE b = c /\ a # c  BY <1>2, <1>3, <2>2 DEF AskingInv, HasGate, DI!GateIsHeld
  <2>3. CASE a # c /\ b # c  BY <1>2, <1>3, <2>3 DEF AskingInv
  <2>. QED  BY <2>1, <2>2, <2>3
<1>4. ASSUME NEW d \in Asker, DI!Is(d, "sleeping")', asking'[d].read
      PROVE  ~DI!Fresh(saved'[asking'[d].query])
  <2>1. CASE d = c  BY <1>1, <1>4, <2>1
  <2>2. CASE d # c  BY <1>1, <1>2, <1>4, <2>2 DEF AskingInv, DI!DuplicatesCoalesce
  <2>. QED  BY <2>1, <2>2
<1>. QED  BY <1>1, <1>3, <1>4 DEF AskingInv, DI!DuplicatesCoalesce

LEMMA OneIsDone ==
  ASSUME AskingInv, NEW c \in Asker, DI!Ends(c), saved' = saved PROVE AskingInv'
<1>1. asking' = [asking EXCEPT ![c] = DI!Idle] /\ DI!Idle \in AskingType
  BY DEF DI!Ends, AskingType
<1>2. asking'[c] = DI!Idle  BY <1>1 DEF AskingInv
<1>3. ~DI!Is(c, "sleeping")' /\ ~HasGate(c)'  BY <1>2 DEF DI!Is, DI!Idle, HasGate
<1>. QED  BY <1>1, <1>3, OneAsks

LEMMA Asks1 ==
  ASSUME AskingInv, NEW c \in Asker, NEW q \in Query, DI!Ask(c, q) PROVE AskingInv'
<1> DEFINE x == [at |-> "waiting", query |-> q, read |-> FALSE]
<1>1. asking' = [asking EXCEPT ![c] = x] /\ saved' = saved  BY DEF DI!Ask
<1>2. x \in AskingType  BY DEF AskingType
<1>3. x.at = "waiting"  OBVIOUS
<1>. HIDE DEF x
<1>4. asking'[c] = x  BY <1>1 DEF AskingInv
<1>5. ~DI!Is(c, "sleeping")' /\ ~HasGate(c)'  BY <1>3, <1>4 DEF DI!Is, HasGate
<1>. QED  BY <1>1, <1>2, <1>5, OneAsks

LEMMA EntersGate ==
  ASSUME AskingInv, NEW c \in Asker, DI!Enter(c) PROVE AskingInv'
<1>1. PICK read \in BOOLEAN :
       IF (read /\ DI!Fresh(saved[asking[c].query])) \/ wait > TooLong
       THEN DI!Ends(c)
       ELSE asking' = [asking EXCEPT ![c].at = "sleeping", ![c].read = read]
  BY DEF DI!Enter
<1>2. DI!Is(c, "waiting") /\ ~DI!GateIsHeld /\ saved' = saved  BY DEF DI!Enter
<1>3. CASE (read /\ DI!Fresh(saved[asking[c].query])) \/ wait > TooLong
  BY <1>1, <1>2, <1>3, OneIsDone
<1>4. CASE ~((read /\ DI!Fresh(saved[asking[c].query])) \/ wait > TooLong)
  <2> DEFINE y == asking[c]
             x == [y EXCEPT !.at = "sleeping", !.read = read]
  <2>1. y \in [at : {"waiting", "sleeping", "asked"}, query : Query, read : BOOLEAN]
    BY <1>2, BusyAsker
  <2>2. asking' = [asking EXCEPT ![c] = x]  BY <1>1, <1>4 DEF AskingInv
  <2>3. read => ~DI!Fresh(saved[y.query])  BY <1>4
  <2>. HIDE DEF y
  <2>4. x \in AskingType /\ x.query = y.query /\ x.read = read
    <3>1. "sleeping" \in {"waiting", "sleeping", "asked"}  OBVIOUS
    <3>. QED  BY <2>1, <3>1 DEF AskingType
  <2>. HIDE DEF x
  <2>. QED  BY <1>2, <2>2, <2>3, <2>4, OneAsks
<1>. QED  BY <1>3, <1>4

LEMMA AsksSent ==
  ASSUME AskingInv, NEW c \in Asker, DI!Send(c) PROVE AskingInv'
<1> DEFINE y == asking[c]
           x == [y EXCEPT !.at = "asked"]
<1>1. DI!Is(c, "sleeping") /\ HasGate(c) /\ saved' = saved /\ asking' = [asking EXCEPT ![c] = x]
  BY DEF DI!Send, DI!Goes, HasGate
<1>2. y \in [at : {"waiting", "sleeping", "asked"}, query : Query, read : BOOLEAN]
  BY <1>1, BusyAsker
<1>. HIDE DEF y
<1>3. x \in AskingType /\ x.at = "asked"
  <2>1. "asked" \in {"waiting", "sleeping", "asked"}  OBVIOUS
  <2>. QED  BY <1>2, <2>1 DEF AskingType
<1>. HIDE DEF x
<1>4. asking'[c] = x  BY <1>1 DEF AskingInv
<1>5. ~DI!Is(c, "sleeping")'  BY <1>3, <1>4 DEF DI!Is
<1>. QED  BY <1>1, <1>3, <1>5, OneAsks

LEMMA AnswerSaved ==
  ASSUME AskingInv, NEW c \in Asker, DI!Answer(c) PROVE AskingInv'
<1>1. DI!Is(c, "asked") /\ HasGate(c) /\ asking' = [asking EXCEPT ![c] = DI!Idle]
  BY DEF DI!Answer, DI!Ends, HasGate
<1>2. saved' \in [Query -> {-1} \cup Nat]
  <2>1. CASE saved' = saved  BY <2>1 DEF AskingInv
  <2>2. CASE saved' # saved
    <3> DEFINE now1 == [saved EXCEPT ![asking[c].query] = 0]
    <3>1. PICK K : saved' = [q \in Query |-> IF q \in K THEN now1[q] ELSE DI!None]
      BY <2>2 DEF DI!Answer
    <3>2. now1 \in [Query -> {-1} \cup Nat]  BY DEF AskingInv
    <3>. HIDE DEF now1
    <3>. QED  BY <3>1, <3>2 DEF DI!None
  <2>. QED  BY <2>1, <2>2
<1>3. /\ asking' \in [Asker -> AskingType] /\ asking'[c] = DI!Idle
      /\ \A d \in Asker : d # c => asking'[d] = asking[d]
  BY <1>1 DEF AskingInv, AskingType
<1>4. ~HasGate(c)'  BY <1>3 DEF HasGate, DI!Is, DI!Idle
<1>5. ASSUME NEW d \in Asker PROVE ~HasGate(d)'
  <2>1. CASE d = c  BY <1>4, <2>1
  <2>2. CASE d # c  BY <1>1, <1>3, <2>2 DEF AskingInv, HasGate, DI!Is
  <2>. QED  BY <2>1, <2>2
<1>. QED  BY <1>2, <1>3, <1>5 DEF AskingInv, DI!DuplicatesCoalesce, HasGate

LEMMA AgesPass ==
  ASSUME DiscoveryConstants, AskingInv, saved' = [q \in Query |-> DI!Older(saved[q])], asking' = asking
  PROVE  AskingInv'
<1>1. \A q \in Query : saved[q] \in {-1} \cup Nat  BY DEF AskingInv
<1>2. ASSUME NEW q \in Query
      PROVE  saved'[q] \in {-1} \cup Nat /\ (DI!Fresh(saved'[q]) => DI!Fresh(saved[q]))
  <2>1. saved'[q] = DI!Older(saved[q])  OBVIOUS
  <2>. QED  BY <1>1, <2>1 DEF DI!Older, DI!Fresh, DI!None, DI!Ages, DiscoveryConstants
<1>3. saved' \in [Query -> {-1} \cup Nat]  BY <1>2
<1>4. ASSUME NEW c \in Asker, DI!Is(c, "sleeping")', asking'[c].read
      PROVE  ~DI!Fresh(saved'[asking'[c].query])
  <2>1. DI!Is(c, "sleeping") /\ asking[c].read  BY <1>4 DEF DI!Is
  <2>2. asking[c].query \in Query
    <3>1. asking[c] \in [at : {"waiting", "sleeping", "asked"}, query : Query, read : BOOLEAN]
      BY <2>1, BusyAsker DEF HasGate
    <3>. QED  BY <3>1
  <2>. QED  BY <1>2, <2>1, <2>2 DEF AskingInv, DI!DuplicatesCoalesce
<1>. QED  BY <1>3, <1>4 DEF AskingInv, DI!DuplicatesCoalesce, HasGate, DI!Is

(* The clock of the next request.                                          *)
LEMMA ClockSpaced ==
  ASSUME Pause \in Nat, NEW d, NEW e, Spaced(d), e = (IF d > 0 THEN d - 1 ELSE 0),
         quiet' = (IF quiet > 0 THEN quiet - 1 ELSE 0),
         silence' = (IF silence < Pause THEN silence + 1 ELSE Pause)
  PROVE  /\ e \in Nat /\ silence' \in Nat /\ quiet' \in Nat
         /\ silence' <= Pause /\ Pause <= silence' + e /\ quiet' <= e
  BY DEF Spaced

LEMMA DiscoveryInvStep ==
  DiscoveryConstants /\ DiscoveryInv /\ [WireNext]_wireVars => DiscoveryInv'
<1>. SUFFICES ASSUME DiscoveryConstants, DiscoveryInv, [WireNext]_wireVars PROVE DiscoveryInv'
  OBVIOUS
<1>0. AskingInv /\ part' = part  BY DEF DiscoveryInv, WireNext, wireVars
<1>1. CASE part = "discovery" /\ DI!DiscNext
  <2>0. Spaced(wait)  BY <1>1 DEF DiscoveryInv
  <2>1. SUFFICES AskingInv' /\ Spaced(wait)'  BY <1>0, <1>1 DEF DiscoveryInv
  <2>2. ASSUME NEW c \in Asker, NEW q \in Query, DI!Ask(c, q) PROVE AskingInv' /\ Spaced(wait)'
    BY <1>0, <2>0, <2>2, Asks1 DEF DI!Ask, Spaced
  <2>3. ASSUME NEW c \in Asker, DI!Enter(c) PROVE AskingInv' /\ Spaced(wait)'
    BY <1>0, <2>0, <2>3, EntersGate DEF DI!Enter, Spaced
  <2>4. ASSUME NEW c \in Asker, DI!Send(c) PROVE AskingInv' /\ Spaced(wait)'
    <3>1. wait = 0 /\ wait' = Pause /\ silence' = 0 /\ quiet' = quiet  BY <2>4 DEF DI!Send
    <3>2. Spaced(wait)'  BY <2>0, <3>1 DEF Spaced, DiscoveryConstants
    <3>. QED  BY <1>0, <2>4, <3>2, AsksSent
  <2>5. ASSUME NEW c \in Asker, DI!Answer(c) PROVE AskingInv' /\ Spaced(wait)'
    <3>1. UNCHANGED <<wait, silence, quiet>>  BY <2>5 DEF DI!Answer
    <3>. QED  BY <1>0, <2>0, <2>5, <3>1, AnswerSaved DEF Spaced
  <2>6. ASSUME NEW c \in Asker, DI!Failed(c) PROVE AskingInv' /\ Spaced(wait)'
    BY <1>0, <2>0, <2>6, OneIsDone DEF DI!Failed, Spaced
  <2>7. ASSUME NEW c \in Asker, NEW time \in Cooldowns, DI!Refused(c, time) PROVE AskingInv' /\ Spaced(wait)'
    <3>1. wait' = time /\ silence' = silence /\ quiet' = time /\ DI!Ends(c) /\ saved' = saved
      BY <2>7 DEF DI!Refused
    <3>2. Spaced(wait)'  BY <2>0, <3>1 DEF Spaced, DiscoveryConstants
    <3>. QED  BY <1>0, <3>1, <3>2, OneIsDone
  <2>8. CASE DI!Tick
    <3>1. /\ wait' = (IF wait > 0 THEN wait - 1 ELSE 0)
          /\ quiet' = (IF quiet > 0 THEN quiet - 1 ELSE 0)
          /\ silence' = (IF silence < Pause THEN silence + 1 ELSE Pause)
      BY <2>8 DEF DI!Tick, DI!Less
    <3>2. Spaced(wait)'  BY <2>0, <3>1, ClockSpaced DEF Spaced, DiscoveryConstants
    <3>3. AskingInv'  BY <1>0, <2>8, AgesPass DEF DI!Tick
    <3>. QED  BY <3>2, <3>3
  <2>. QED  BY <1>1, <2>2, <2>3, <2>4, <2>5, <2>6, <2>7, <2>8 DEF DI!DiscNext
<1>2. CASE UNCHANGED <<asking, saved>> /\ (part = "discovery" => UNCHANGED <<wait, silence, quiet>>)
  <2>1. AskingInv'
    BY <1>0, <1>2 DEF AskingInv, HasGate, DI!Is, DI!DuplicatesCoalesce
  <2>. QED  BY <1>0, <1>2, <2>1 DEF DiscoveryInv, Spaced
<1>. QED
  BY <1>1, <1>2 DEF WireNext, wireVars, limitVars, lookVars, TurnsNext, RequestsNext, BranchNext,
     SearchesNext, WantedNext, ShelfNext, GuardNext, BandwidthNext, CatalogueNext, DiscoveryNext

(* Nothing is asked of a service before its time.                          *)
LEMMA ServicesAreSpaced ==
  ASSUME DiscoveryConstants, DiscoveryInv, [WireNext]_wireVars, NEW c \in Asker,
         ~DI!Is(c, "asked"), DI!Is(c, "asked")'
  PROVE  silence = Pause /\ quiet = 0
<1>1. asking' # asking  BY DEF DI!Is
<1>2. part = "discovery" /\ DI!DiscNext
  BY <1>1 DEF WireNext, wireVars, limitVars, lookVars, TurnsNext, RequestsNext, BranchNext,
     SearchesNext, WantedNext, ShelfNext, GuardNext, BandwidthNext, CatalogueNext, DiscoveryNext
<1>3. asking \in [Asker -> AskingType]  BY DEF DiscoveryInv, AskingInv
<1>4. ASSUME NEW d \in Asker, NEW x, asking' = [asking EXCEPT ![d] = x], x.at # "asked" PROVE FALSE
  <2>1. asking'[c] = x \/ asking'[c] = asking[c]  BY <1>3, <1>4
  <2>. QED  BY <1>4, <2>1 DEF DI!Is
<1>5. ASSUME NEW d \in Asker, DI!Ends(d) PROVE FALSE
  <2>1. asking' = [asking EXCEPT ![d] = DI!Idle] /\ DI!Idle.at = "idle"  BY <1>5 DEF DI!Ends, DI!Idle
  <2>2. DI!Idle.at # "asked"  BY <2>1
  <2>. QED  BY <2>1, <2>2, <1>4
<1>6. ASSUME NEW d \in Asker, NEW q \in Query, DI!Ask(d, q) PROVE FALSE
  <2> DEFINE x == [at |-> "waiting", query |-> q, read |-> FALSE]
  <2>1. asking' = [asking EXCEPT ![d] = x]  BY <1>6 DEF DI!Ask
  <2>2. x.at # "asked"  OBVIOUS
  <2>. HIDE DEF x
  <2>. QED  BY <2>1, <2>2, <1>4
<1>7. ASSUME NEW d \in Asker, DI!Enter(d) PROVE FALSE
  <2>1. PICK read \in BOOLEAN :
         DI!Ends(d) \/ asking' = [asking EXCEPT ![d].at = "sleeping", ![d].read = read]
    BY <1>7 DEF DI!Enter
  <2> DEFINE y == asking[d]
             x == [y EXCEPT !.at = "sleeping", !.read = read]
  <2>2. asking' = [asking EXCEPT ![d] = x]  BY <1>3, <1>5, <2>1
  <2>3. y \in [at : {"waiting", "sleeping", "asked"}, query : Query, read : BOOLEAN]
    BY <1>7, BusyAsker DEF DI!Enter, DiscoveryInv
  <2>. HIDE DEF y
  <2>4. x.at = "sleeping"  BY <2>3
  <2>. HIDE DEF x
  <2>5. x.at # "asked"  BY <2>4
  <2>. QED  BY <2>2, <2>5, <1>4
<1>8. PICK d \in Asker : DI!Send(d)
  BY <1>1, <1>2, <1>5, <1>6, <1>7 DEF DI!DiscNext, DI!Answer, DI!Failed, DI!Refused, DI!Tick
<1>. QED  BY <1>2, <1>8 DEF DI!Send, DiscoveryInv, Spaced, DiscoveryConstants

-----------------------------------------------------------------------------
(* The lookups at MusicBrainz.  One of them is behind the gate; it has not *)
(* found everything yet, and has time left for what it waits for.          *)
CatalogueConstants ==
  /\ Pause \in Nat /\ Patience \in Nat /\ RetryAfter \subseteq Nat
  /\ PagesOf \in [CA!Question -> Nat \ {0}] /\ Ttl \in [CA!Question -> Nat]
  /\ Asks \in [Looker -> SUBSET CA!Question]

LookType ==
  [at : {"waiting", "turn", "sleeping", "asked"}, question : CA!Question,
   then : SUBSET CA!Question, left : Nat, attempt : Nat, page : Nat, got : Nat]
AgainType == [at : {"again"}, then : SUBSET CA!Question]
AnswerType == [age : Nat, got : Nat, truncated : BOOLEAN]

Behind(l) == l.at \in {"turn", "sleeping", "asked", "again"}
Sound(l) ==
  l \in LookType =>
    /\ l.got < PagesOf[l.question]
    /\ l.at = "sleeping" => next < l.left
    /\ l.at # "waiting" /\ l.got = 0 => ~CA!Fresh(l.question)

AnswersInv ==
  /\ answers \in [CA!Question -> AnswerType]
  /\ \A q \in CA!Question : answers[q] = CA!Nothing \/ answers[q].truncated \/ answers[q].got = PagesOf[q]
LooksInv ==
  /\ lookup \in [Looker -> {CA!Idle} \cup LookType \cup AgainType]
  /\ \A c, d \in Looker : Behind(lookup[c]) /\ Behind(lookup[d]) => c = d
  /\ \A c \in Looker : Sound(lookup[c])
CatalogueInv ==
  AnswersInv /\ LooksInv /\ (part = "catalogue" => Spaced(next))

LEMMA IdleLooks == CA!Idle.at = "idle" /\ ~Behind(CA!Idle) /\ Sound(CA!Idle)
<1>1. CA!Idle.at = "idle"  BY DEF CA!Idle
<1>2. CA!Idle \notin LookType  BY <1>1 DEF LookType
<1>. QED  BY <1>1, <1>2 DEF Behind, Sound

LEMMA LooksAre ==
  ASSUME LooksInv, NEW c \in Looker
  PROVE  /\ CA!Active(c) <=> lookup[c] \in LookType \cup AgainType
         /\ CA!Active(c) /\ lookup[c].at # "waiting" <=> Behind(lookup[c])
         /\ \A at \in {"waiting", "turn", "sleeping", "asked"} :
              CA!Is(c, at) => lookup[c] \in LookType /\ lookup[c].at = at
         /\ CA!Is(c, "again") <=> lookup[c] \in AgainType
<1> DEFINE l == lookup[c]
<1>1. l \in {CA!Idle} \cup LookType \cup AgainType  BY DEF LooksInv
<1>2. CASE l = CA!Idle
  <2>1. l.at = "idle" /\ l \notin LookType \cup AgainType
    BY <1>2, IdleLooks DEF LookType, AgainType
  <2>. QED  BY <1>2, <2>1 DEF CA!Active, CA!Is, Behind
<1>3. CASE l # CA!Idle
  <2>1. l \in LookType \cup AgainType  BY <1>1, <1>3
  <2>2. CA!Active(c)  BY <1>3 DEF CA!Active
  <2>3. l \in LookType => l.at \in {"waiting", "turn", "sleeping", "asked"}  BY DEF LookType
  <2>4. l \in AgainType => l.at = "again"  BY DEF AgainType
  <2>. HIDE DEF l
  <2>5. CA!Active(c) /\ l.at # "waiting" <=> Behind(l)  BY <2>1, <2>2, <2>3, <2>4 DEF Behind
  <2>6. l.at = "again" <=> l \in AgainType  BY <2>1, <2>3, <2>4
  <2>7. \A at \in {"waiting", "turn", "sleeping", "asked"} : l.at = at => l \in LookType
    BY <2>1, <2>4
  <2>. QED  BY <2>1, <2>2, <2>5, <2>6, <2>7 DEF l, CA!Is
<1>. QED  BY <1>2, <1>3

LEMMA GateFree ==
  ASSUME LooksInv, ~CA!Held PROVE \A c \in Looker : ~Behind(lookup[c])
  BY LooksAre DEF CA!Held

LEMMA NothingIs == CA!Nothing \in AnswerType /\ CA!Nothing.age = 0
  BY DEF CA!Nothing, AnswerType

LEMMA CatalogueInvInit == CatalogueConstants /\ CA!CatInit => CatalogueInv
<1>. SUFFICES ASSUME CatalogueConstants, CA!CatInit PROVE CatalogueInv
  OBVIOUS
<1>1. /\ lookup = [c \in Looker |-> CA!Idle] /\ answers = [q \in CA!Question |-> CA!Nothing]
      /\ next = 0 /\ silence = Pause /\ quiet = 0
  BY DEF CA!CatInit, CA!Empty
<1>2. AnswersInv  BY <1>1, NothingIs DEF AnswersInv
<1>3. LooksInv  BY <1>1, IdleLooks DEF LooksInv
<1>4. Spaced(next)  BY <1>1 DEF Spaced, CatalogueConstants
<1>. QED  BY <1>2, <1>3, <1>4 DEF CatalogueInv

-----------------------------------------------------------------------------
(* The cache is read: it stays, or is found empty.                         *)
LEMMA CacheRead ==
  ASSUME AnswersInv, NEW q \in CA!Question, NEW hit \in BOOLEAN, CA!Reads(q, hit)
  PROVE  /\ AnswersInv'
         /\ \A x \in CA!Question : CA!Fresh(x)' => CA!Fresh(x)
         /\ ~hit => ~CA!Fresh(q)'
<1>1. CASE answers' = answers /\ hit = CA!Fresh(q)
  BY <1>1 DEF AnswersInv, CA!Fresh
<1>2. CASE answers' = CA!Empty
  <2>1. answers' = [x \in CA!Question |-> CA!Nothing]  BY <1>2 DEF CA!Empty
  <2>2. \A x \in CA!Question : answers'[x] = CA!Nothing  BY <2>1
  <2>3. AnswersInv'  BY <2>1, <2>2, NothingIs DEF AnswersInv
  <2>. QED  BY <2>2, <2>3 DEF CA!Fresh
<1>. QED  BY <1>1, <1>2 DEF CA!Reads

LEMMA CacheWritten ==
  ASSUME AnswersInv, NEW q \in CA!Question, NEW answer \in AnswerType,
         answer.truncated \/ answer.got = PagesOf[q], CA!Writes(q, answer)
  PROVE  AnswersInv'
<1>1. CASE answers' = answers  BY <1>1 DEF AnswersInv
<1>2. CASE answers' = CA!Empty
  BY <1>2, NothingIs DEF AnswersInv, CA!Empty
<1>3. CASE CA!Keeps(q, answer)
  <2> DEFINE a == [answers EXCEPT ![q] = answer]
  <2>1. PICK K \in SUBSET CA!Known(a) :
          answers' = [k \in CA!Question |-> IF k \in K THEN a[k] ELSE CA!Nothing]
    BY <1>3 DEF CA!Keeps
  <2>2. a \in [CA!Question -> AnswerType]  BY DEF AnswersInv
  <2>3. \A x \in CA!Question : a[x] = CA!Nothing \/ a[x].truncated \/ a[x].got = PagesOf[x]
    BY DEF AnswersInv
  <2>. HIDE DEF a
  <2>4. \A x \in CA!Question : answers'[x] = a[x] \/ answers'[x] = CA!Nothing  BY <2>1
  <2>5. answers' \in [CA!Question -> AnswerType]  BY <2>1, <2>2, NothingIs
  <2>. QED  BY <2>3, <2>4, <2>5 DEF AnswersInv
<1>. QED  BY <1>1, <1>2, <1>3 DEF CA!Writes

LEMMA NowSound ==
  ASSUME NEW d, NEW l, lookup'[d] = l,
         l \in LookType =>
            /\ l.got < PagesOf[l.question]
            /\ l.at = "sleeping" => next' < l.left
            /\ l.at # "waiting" /\ l.got = 0 => ~CA!Fresh(l.question)'
  PROVE  Sound(lookup[d])'
BY DEF Sound, CA!Fresh

(* One of them goes on: the one behind the gate, or one that leaves the    *)
(* others what they have.                                                  *)
LEMMA OneLooks ==
  ASSUME LooksInv, NEW c \in Looker, NEW x \in {CA!Idle} \cup LookType \cup AgainType,
         lookup' = [lookup EXCEPT ![c] = x],
         Behind(x) => Behind(lookup[c]) \/ ~CA!Held,
         Behind(lookup[c]) \/ (next' = next /\ \A q \in CA!Question : CA!Fresh(q)' => CA!Fresh(q)),
         x \in LookType =>
            /\ x.got < PagesOf[x.question]
            /\ x.at = "sleeping" => next' < x.left
            /\ x.at # "waiting" /\ x.got = 0 => ~CA!Fresh(x.question)'
  PROVE  LooksInv'
<1>1. /\ lookup' \in [Looker -> {CA!Idle} \cup LookType \cup AgainType] /\ lookup'[c] = x
      /\ \A d \in Looker : d # c => lookup'[d] = lookup[d]
  BY DEF LooksInv
<1>2. ASSUME NEW a \in Looker, NEW b \in Looker, Behind(lookup'[a]), Behind(lookup'[b]) PROVE a = b
  <2>1. CASE a = c /\ b # c  BY <1>1, <1>2, <2>1, GateFree DEF LooksInv
  <2>2. CASE b = c /\ a # c  BY <1>1, <1>2, <2>2, GateFree DEF LooksInv
  <2>3. CASE a # c /\ b # c  BY <1>1, <1>2, <2>3 DEF LooksInv
  <2>. QED  BY <2>1, <2>2, <2>3
<1>3. ASSUME NEW d \in Looker PROVE Sound(lookup[d])'
  <2>1. CASE d = c
    <3>1. lookup'[d] = x  BY <1>1, <2>1
    <3>. QED  BY <3>1, NowSound
  <2>2. CASE d # c
    <3>1. PICK l : l = lookup[d]  OBVIOUS
    <3>2. lookup'[d] = l /\ Sound(l)  BY <1>1, <2>2, <3>1 DEF LooksInv
    <3>3. Behind(l) => ~Behind(lookup[c])  BY <2>2, <3>1 DEF LooksInv
    <3>4. ASSUME l \in LookType
          PROVE  /\ l.got < PagesOf[l.question]
                 /\ l.at = "sleeping" => next' < l.left
                 /\ l.at # "waiting" /\ l.got = 0 => ~CA!Fresh(l.question)'
      <4>1. l.at # "waiting" => Behind(l)  BY <3>4 DEF LookType, Behind
      <4>2. l.question \in CA!Question  BY <3>4 DEF LookType
      <4>3. l.got < PagesOf[l.question]  BY <3>2, <3>4 DEF Sound
      <4>4. l.at = "sleeping" => next' < l.left  BY <3>2, <3>3, <3>4, <4>1 DEF Sound
      <4>5. l.at # "waiting" /\ l.got = 0 => ~CA!Fresh(l.question)'
        BY <3>2, <3>3, <3>4, <4>1, <4>2 DEF Sound
      <4>. QED  BY <4>3, <4>4, <4>5
    <3>. QED  BY <3>2, <3>4, NowSound
  <2>. QED  BY <2>1, <2>2
<1>4. \A d \in Looker : Sound(lookup[d])'  BY <1>3
<1>. QED  BY <1>1, <1>2, <1>4 DEF LooksInv

LEMMA OneLeaves ==
  ASSUME LooksInv, NEW c \in Looker, CA!Ends(c),
         Behind(lookup[c]) \/ (next' = next /\ \A q \in CA!Question : CA!Fresh(q)' => CA!Fresh(q))
  PROVE  LooksInv'
<1> DEFINE x == CA!Idle
<1>1. lookup' = [lookup EXCEPT ![c] = x] /\ x \in {CA!Idle} \cup LookType \cup AgainType
  BY DEF CA!Ends
<1>2. ~Behind(x) /\ x \notin LookType  BY IdleLooks DEF LookType
<1>. HIDE DEF x
<1>. QED  BY <1>1, <1>2, OneLooks

LEMMA OneWaits ==
  ASSUME CatalogueConstants, AnswersInv, LooksInv, NEW c \in Looker, NEW q \in CA!Question,
         NEW then \in SUBSET CA!Question, CA!Waits(c, q, then), next' = next
  PROVE  AnswersInv' /\ LooksInv'
<1> DEFINE x == [at |-> "waiting", question |-> q, then |-> then, left |-> Patience,
                 attempt |-> 1, page |-> 1, got |-> 0]
<1>1. CA!Reads(q, FALSE) /\ lookup' = [lookup EXCEPT ![c] = x]  BY DEF CA!Waits
<1>2. AnswersInv' /\ \A y \in CA!Question : CA!Fresh(y)' => CA!Fresh(y)  BY <1>1, CacheRead
<1>3. x \in LookType
  <2>1. Patience \in Nat /\ 1 \in Nat /\ 0 \in Nat
        /\ "waiting" \in {"waiting", "turn", "sleeping", "asked"}
    BY DEF CatalogueConstants
  <2>. QED  BY <2>1 DEF LookType
<1>4. x.at = "waiting" /\ x.got = 0 /\ x.question = q  OBVIOUS
<1>5. 0 < PagesOf[q]
  <2>1. PagesOf[q] \in Nat \ {0}  BY DEF CatalogueConstants
  <2>. QED  BY <2>1
<1>. HIDE DEF x
<1>6. ~Behind(x)  BY <1>4 DEF Behind
<1>7. LooksInv'  BY <1>1, <1>2, <1>3, <1>4, <1>5, <1>6, OneLooks
<1>. QED  BY <1>2, <1>7

LEMMA Begins ==
  ASSUME CatalogueConstants, AnswersInv, LooksInv, NEW c \in Looker, NEW q, NEW then, CA!Begin(c, q, then)
  PROVE  AnswersInv' /\ LooksInv' /\ UNCHANGED <<next, silence, quiet>>
<1>1. q \in CA!Question /\ then \in SUBSET CA!Question
  BY DEF CA!Begin, CatalogueConstants
<1>. QED  BY <1>1, OneWaits DEF CA!Begin

LEMMA EntersLookup ==
  ASSUME AnswersInv, LooksInv, NEW c \in Looker, CA!Enter(c) PROVE AnswersInv' /\ LooksInv'
<1>0. PICK l : l = lookup[c]  OBVIOUS
<1> DEFINE x == [l EXCEPT !.at = "turn"]
<1>1. l \in LookType /\ l.at = "waiting" /\ ~CA!Held /\ next' = next  BY <1>0, LooksAre DEF CA!Enter
<1>2. l.question \in CA!Question  BY <1>1 DEF LookType
<1>3. CASE CA!Reads(l.question, FALSE) /\ CA!Goes(c, "turn")
  <2>1. /\ AnswersInv' /\ \A y \in CA!Question : CA!Fresh(y)' => CA!Fresh(y)
        /\ ~CA!Fresh(l.question)'
    BY <1>2, <1>3, CacheRead
  <2>2. lookup' = [lookup EXCEPT ![c] = x]  BY <1>0, <1>3 DEF CA!Goes
  <2>3. l.got < PagesOf[l.question]  BY <1>0, <1>1 DEF LooksInv, Sound
  <2>4. x \in LookType /\ x.at = "turn" /\ x.got = l.got /\ x.question = l.question
    <3>1. "turn" \in {"waiting", "turn", "sleeping", "asked"}  OBVIOUS
    <3>. QED  BY <1>1, <3>1 DEF LookType
  <2>. HIDE DEF x
  <2>5. LooksInv'  BY <1>1, <2>1, <2>2, <2>3, <2>4, OneLooks
  <2>. QED  BY <2>1, <2>5
<1>4. CASE CA!Reads(l.question, TRUE) /\ CA!Ends(c)
  <2>1. AnswersInv' /\ \A y \in CA!Question : CA!Fresh(y)' => CA!Fresh(y)
    BY <1>2, <1>4, CacheRead
  <2>. QED  BY <1>1, <1>4, <2>1, OneLeaves
<1>. QED  BY <1>0, <1>3, <1>4 DEF CA!Enter

(* What is behind the gate goes on by itself.                              *)
LEMMA GateStep ==
  ASSUME AnswersInv, LooksInv, NEW c \in Looker, answers' = answers,
         lookup[c] \in LookType, lookup[c].at # "waiting",
         NEW x \in LookType, lookup' = [lookup EXCEPT ![c] = x],
         x.got = lookup[c].got, x.question = lookup[c].question,
         x.at = "sleeping" => next' < x.left
  PROVE  AnswersInv' /\ LooksInv'
<1>1. AnswersInv'  BY DEF AnswersInv
<1>2. \A q : CA!Fresh(q)' <=> CA!Fresh(q)  BY DEF CA!Fresh
<1>3. Sound(lookup[c])  BY DEF LooksInv
<1>4. Behind(lookup[c])  BY DEF LookType, Behind
<1>5. x.got < PagesOf[x.question] /\ (x.got = 0 => ~CA!Fresh(x.question)')
  BY <1>2, <1>3 DEF Sound
<1>6. LooksInv'  BY <1>4, <1>5, OneLooks
<1>. QED  BY <1>1, <1>6

LEMMA TakesTurn ==
  ASSUME AnswersInv, LooksInv, Spaced(next), NEW c \in Looker, CA!Turn(c) PROVE AnswersInv' /\ LooksInv'
<1> DEFINE l == lookup[c]
           x == [l EXCEPT !.at = "sleeping"]
<1>1. l \in LookType /\ l.at = "turn" /\ UNCHANGED <<answers, next>>  BY LooksAre DEF CA!Turn
<1>2. AnswersInv'  BY <1>1 DEF AnswersInv
<1>3. \A q : CA!Fresh(q)' <=> CA!Fresh(q)  BY <1>1 DEF CA!Fresh
<1>4. CASE next >= l.left
  BY <1>1, <1>2, <1>3, <1>4, OneLeaves DEF CA!Turn
<1>5. CASE ~(next >= l.left)
  <2>1. lookup' = [lookup EXCEPT ![c] = x]  BY <1>5 DEF CA!Turn, CA!Goes
  <2>2. next < l.left  BY <1>1, <1>5 DEF LookType, Spaced
  <2>3. lookup[c] \in LookType /\ lookup[c].at # "waiting" /\ l.got = lookup[c].got
        /\ l.question = lookup[c].question
    BY <1>1
  <2>. HIDE DEF l
  <2>4. x \in LookType /\ x.got = l.got /\ x.question = l.question /\ x.left = l.left
    <3>1. "sleeping" \in {"waiting", "turn", "sleeping", "asked"}  OBVIOUS
    <3>. QED  BY <1>1, <3>1 DEF LookType
  <2>. HIDE DEF x
  <2>5. next' < x.left  BY <1>1, <2>2, <2>4
  <2>. QED  BY <1>1, <2>1, <2>3, <2>4, <2>5, GateStep
<1>. QED  BY <1>4, <1>5

LEMMA LookSent ==
  ASSUME AnswersInv, LooksInv, NEW c \in Looker, CA!Send(c) PROVE AnswersInv' /\ LooksInv'
<1> DEFINE l == lookup[c]
           x == [l EXCEPT !.at = "asked"]
<1>1. l \in LookType /\ l.at = "sleeping" /\ answers' = answers  BY LooksAre DEF CA!Send
<1>2. lookup' = [lookup EXCEPT ![c] = x]  BY DEF CA!Send, CA!Goes
<1>3. lookup[c] \in LookType /\ lookup[c].at # "waiting" /\ l.got = lookup[c].got
      /\ l.question = lookup[c].question
  BY <1>1
<1>. HIDE DEF l
<1>4. x \in LookType /\ x.at = "asked" /\ x.got = l.got /\ x.question = l.question
  <2>1. "asked" \in {"waiting", "turn", "sleeping", "asked"}  OBVIOUS
  <2>. QED  BY <1>1, <2>1 DEF LookType
<1>. HIDE DEF x
<1>. QED  BY <1>1, <1>2, <1>3, <1>4, GateStep

LEMMA Throttles ==
  ASSUME AnswersInv, LooksInv, NEW c \in Looker, NEW time \in Nat, CA!Throttle(c, time)
  PROVE  AnswersInv' /\ LooksInv'
<1> DEFINE l == lookup[c]
<1>1. l \in LookType /\ l.at = "asked" /\ answers' = answers  BY LooksAre DEF CA!Throttle
<1>2. AnswersInv'  BY <1>1 DEF AnswersInv
<1>3. Behind(l)  BY <1>1 DEF Behind
<1>4. CASE CA!Ends(c)  BY <1>2, <1>3, <1>4, OneLeaves
<1>5. CASE lookup' = [lookup EXCEPT ![c].at = "turn", ![c].attempt = @ + 1]
  <2> DEFINE n == l.attempt + 1
             x == [l EXCEPT !.at = "turn", !.attempt = n]
  <2>1. n \in Nat  BY <1>1 DEF LookType
  <2>2. lookup' = [lookup EXCEPT ![c] = x]  BY <1>1, <1>5 DEF LooksInv, LookType
  <2>3. lookup[c] \in LookType /\ lookup[c].at # "waiting" /\ l.got = lookup[c].got
        /\ l.question = lookup[c].question
    BY <1>1
  <2>. HIDE DEF l, n
  <2>4. x \in LookType /\ x.at = "turn" /\ x.got = l.got /\ x.question = l.question
    <3>1. "turn" \in {"waiting", "turn", "sleeping", "asked"}  OBVIOUS
    <3>. QED  BY <1>1, <2>1, <3>1 DEF LookType
  <2>. HIDE DEF x
  <2>. QED  BY <1>1, <2>2, <2>3, <2>4, GateStep
<1>. QED  BY <1>4, <1>5 DEF CA!Throttle

LEMMA PageGoesOn ==
  ASSUME NEW c \in Looker, NEW found \in {0, 1}, CA!Page(c, found)
  PROVE  LET l == lookup[c]
             got == l.got + found
         IN  IF found = 1 /\ got < PagesOf[l.question] /\ l.page < MaxPages
             THEN /\ lookup' = [lookup EXCEPT ![c] =
                       [l EXCEPT !.at = "turn", !.attempt = 1, !.page = @ + 1, !.got = got]]
                  /\ answers' = answers
             ELSE /\ CA!Writes(l.question, [age |-> 0, got |-> got, truncated |-> got < PagesOf[l.question]])
                  /\ IF l.then = {} THEN CA!Ends(c)
                     ELSE lookup' = [lookup EXCEPT ![c] = [at |-> "again", then |-> l.then]]
BY DEF CA!Page

LEMMA PageRead ==
  ASSUME CatalogueConstants, AnswersInv, LooksInv, NEW c \in Looker, NEW found \in {0, 1}, CA!Page(c, found)
  PROVE  AnswersInv' /\ LooksInv'
<1> DEFINE l == lookup[c]
           got == l.got + found
           all == PagesOf[l.question]
<1>1. l \in LookType /\ l.at = "asked"  BY LooksAre DEF CA!Page
<1>2. Behind(l)  BY <1>1 DEF Behind
<1>3. l.question \in CA!Question /\ l.got \in Nat /\ l.page \in Nat /\ l.then \in SUBSET CA!Question
  BY <1>1 DEF LookType
<1>4. all \in Nat /\ l.got < all
  <2>1. Sound(l)  BY DEF LooksInv
  <2>2. PagesOf[l.question] \in Nat \ {0}  BY <1>3 DEF CatalogueConstants
  <2>. QED  BY <1>1, <2>1, <2>2 DEF Sound
<1>5. got \in Nat /\ got <= all  BY <1>3, <1>4
<1>6. CASE found = 1 /\ got < all /\ l.page < MaxPages
  <2> DEFINE n == l.page + 1
             x == [l EXCEPT !.at = "turn", !.attempt = 1, !.page = n, !.got = got]
  <2>1. lookup' = [lookup EXCEPT ![c] = x] /\ answers' = answers
    BY <1>6, PageGoesOn
  <2>2. n \in Nat /\ 1 \in Nat /\ got # 0  BY <1>3, <1>6
  <2>. HIDE DEF l, n, got
  <2>3. x \in LookType /\ x.at = "turn" /\ x.got = got /\ x.question = l.question
    <3>1. "turn" \in {"waiting", "turn", "sleeping", "asked"}  OBVIOUS
    <3>2. /\ [l EXCEPT !.at = "turn"] \in LookType /\ [l EXCEPT !.at = "turn"].at = "turn"
          /\ [l EXCEPT !.at = "turn"].question = l.question
      BY <1>1, <3>1 DEF LookType
    <3> DEFINE m == [l EXCEPT !.at = "turn"]
    <3>. HIDE DEF m
    <3>3. [m EXCEPT !.attempt = 1, !.page = n, !.got = got] = x
      BY <1>1 DEF m, LookType
    <3>4. /\ [m EXCEPT !.attempt = 1, !.page = n, !.got = got] \in LookType
          /\ [m EXCEPT !.attempt = 1, !.page = n, !.got = got].at = m.at
          /\ [m EXCEPT !.attempt = 1, !.page = n, !.got = got].got = got
          /\ [m EXCEPT !.attempt = 1, !.page = n, !.got = got].question = m.question
      <4>1. m \in LookType  BY <3>2 DEF m
      <4>. QED  BY <4>1, <2>2, <1>5 DEF LookType
    <3>. HIDE DEF x
    <3>. QED  BY <3>2, <3>3, <3>4 DEF m
  <2>. HIDE DEF x
  <2>4. Behind(lookup[c])  BY <1>2 DEF l
  <2>5. LooksInv'  BY <1>5, <1>6, <2>1, <2>2, <2>3, <2>4, OneLooks
  <2>6. AnswersInv'  BY <2>1 DEF AnswersInv
  <2>. QED  BY <2>5, <2>6
<1>7. CASE ~(found = 1 /\ got < all /\ l.page < MaxPages)
  <2> DEFINE answer == [age |-> 0, got |-> got, truncated |-> got < all]
  <2>1. CA!Writes(l.question, answer)
    <3>1. /\ CA!Writes(l.question, [age |-> 0, got |-> got, truncated |-> got < all])
          /\ IF l.then = {} THEN CA!Ends(c)
             ELSE lookup' = [lookup EXCEPT ![c] = [at |-> "again", then |-> l.then]]
      BY <1>7, PageGoesOn
    <3>. QED  BY <3>1
  <2>2. answer \in AnswerType
    <3>1. 0 \in Nat /\ (got < all) \in BOOLEAN  OBVIOUS
    <3>. QED  BY <1>5, <3>1 DEF AnswerType
  <2>3. answer.truncated \/ answer.got = PagesOf[l.question]
    <3>1. answer.truncated = (got < all) /\ answer.got = got  OBVIOUS
    <3>2. got < all \/ got = all  BY <1>4, <1>5
    <3>. QED  BY <3>1, <3>2
  <2>. HIDE DEF answer
  <2>4. AnswersInv'  BY <1>3, <2>1, <2>2, <2>3, CacheWritten
  <2>5. IF l.then = {} THEN CA!Ends(c)
        ELSE lookup' = [lookup EXCEPT ![c] = [at |-> "again", then |-> l.then]]
    BY <1>7, PageGoesOn
  <2>6. CASE l.then = {}
    <3>1. CA!Ends(c)  BY <2>5, <2>6
    <3>2. Behind(lookup[c])  BY <1>2
    <3>. QED  BY <2>4, <3>1, <3>2, OneLeaves
  <2>7. CASE l.then # {}
    <3> DEFINE x == [at |-> "again", then |-> l.then]
    <3>1. lookup' = [lookup EXCEPT ![c] = x]  BY <2>5, <2>7
    <3>2. x \in AgainType  BY <1>3 DEF AgainType
    <3>3. x \notin LookType
      <4>1. x.at = "again"  OBVIOUS
      <4>. HIDE DEF x
      <4>. QED  BY <4>1 DEF LookType
    <3>. HIDE DEF x
    <3>4. Behind(lookup[c])  BY <1>2
    <3>5. LooksInv'  BY <3>1, <3>2, <3>3, <3>4, OneLooks
    <3>. QED  BY <2>4, <3>5
  <2>. QED  BY <2>6, <2>7
<1>. QED  BY <1>6, <1>7

LEMMA GoesOn ==
  ASSUME CatalogueConstants, AnswersInv, LooksInv, NEW c \in Looker, CA!GoOn(c)
  PROVE  AnswersInv' /\ LooksInv'
<1>1. lookup[c] \in AgainType /\ next' = next  BY LooksAre DEF CA!GoOn
<1>2. PICK q \in lookup[c].then : CA!Waits(c, q, {}) \/ (CA!Reads(q, TRUE) /\ CA!Ends(c))
  BY DEF CA!GoOn
<1>3. q \in CA!Question /\ {} \in SUBSET CA!Question  BY <1>1 DEF AgainType
<1>4. CASE CA!Waits(c, q, {})  BY <1>1, <1>3, <1>4, OneWaits
<1>5. CASE CA!Reads(q, TRUE) /\ CA!Ends(c)
  <2>1. AnswersInv' /\ \A y \in CA!Question : CA!Fresh(y)' => CA!Fresh(y)  BY <1>3, <1>5, CacheRead
  <2>. QED  BY <1>1, <1>5, <2>1, OneLeaves
<1>. QED  BY <1>2, <1>4, <1>5

LEMMA LookGivenUp ==
  ASSUME AnswersInv, LooksInv, NEW c \in Looker, CA!Ends(c), UNCHANGED <<answers, next>>
  PROVE  AnswersInv' /\ LooksInv'
<1>1. AnswersInv'  BY DEF AnswersInv
<1>2. \A q : CA!Fresh(q)' <=> CA!Fresh(q)  BY DEF CA!Fresh
<1>. QED  BY <1>1, <1>2, OneLeaves

(* Time passes when nothing is due.                                        *)
LEMMA AnswersAge ==
  ASSUME CatalogueConstants, AnswersInv,
         answers' = [q \in CA!Question |->
           IF answers[q] = CA!Nothing \/ answers[q].age >= Ttl[q] THEN answers[q]
           ELSE [answers[q] EXCEPT !.age = @ + 1]]
  PROVE  AnswersInv' /\ \A q \in CA!Question : CA!Fresh(q)' => CA!Fresh(q)
<1>1. ASSUME NEW q \in CA!Question
      PROVE  /\ answers'[q] \in AnswerType
             /\ answers'[q] = CA!Nothing \/ answers'[q].truncated \/ answers'[q].got = PagesOf[q]
             /\ CA!Fresh(q)' => CA!Fresh(q)
  <2> DEFINE a == answers[q]
  <2>1. a \in AnswerType /\ (a = CA!Nothing \/ a.truncated \/ a.got = PagesOf[q])  BY DEF AnswersInv
  <2>2. CASE a = CA!Nothing \/ a.age >= Ttl[q]
    <3>1. answers'[q] = a  BY <2>2
    <3>. QED  BY <2>1, <3>1 DEF CA!Fresh
  <2>3. CASE ~(a = CA!Nothing \/ a.age >= Ttl[q])
    <3> DEFINE n == a.age + 1
               b == [a EXCEPT !.age = n]
    <3>1. answers'[q] = b  BY <2>3
    <3>2. n \in Nat /\ a.age < Ttl[q]
      <4>1. a.age \in Nat /\ Ttl[q] \in Nat  BY <2>1 DEF AnswerType, CatalogueConstants
      <4>. QED  BY <2>3, <4>1
    <3>3. CA!Fresh(q)  BY <2>3, <3>2 DEF CA!Fresh
    <3>4. a # CA!Nothing  BY <2>3
    <3>. HIDE DEF n, a
    <3>5. b \in AnswerType /\ b.truncated = a.truncated /\ b.got = a.got  BY <2>1, <3>2 DEF AnswerType
    <3>. HIDE DEF b
    <3>. QED  BY <2>1, <3>1, <3>3, <3>4, <3>5
  <2>. QED  BY <2>2, <2>3
<1>2. answers' \in [CA!Question -> AnswerType]
  <2>1. answers' = [q \in CA!Question |-> answers'[q]]  OBVIOUS
  <2>. QED  BY <1>1, <2>1
<1>. QED  BY <1>1, <1>2 DEF AnswersInv

LEMMA LooksAge ==
  ASSUME LooksInv, Spaced(next), \A c \in Looker : ~CA!Due(c),
         lookup' = [c \in Looker |->
           IF CA!Active(c) THEN [lookup[c] EXCEPT !.left = @ - 1] ELSE CA!Idle],
         next' = CA!Less(next), \A q \in CA!Question : CA!Fresh(q)' => CA!Fresh(q)
  PROVE  LooksInv'
<1>0. next' = (IF next > 0 THEN next - 1 ELSE 0) /\ next \in Nat
  BY DEF Spaced, CA!Less, CA!Larger
<1>1. ASSUME NEW c \in Looker
      PROVE  /\ lookup'[c] \in {CA!Idle} \cup LookType \cup AgainType
             /\ Behind(lookup'[c]) => Behind(lookup[c])
             /\ Sound(lookup[c])'
  <2>0. PICK l : l = lookup[c]  OBVIOUS
  <2>9. PICK m : m = lookup'[c]  OBVIOUS
  <2>1. m = IF CA!Active(c) THEN [l EXCEPT !.left = @ - 1] ELSE CA!Idle  BY <2>0, <2>9
  <2>2. CASE ~CA!Active(c)
    <3>1. m = CA!Idle  BY <2>1, <2>2
    <3>2. m \notin LookType  BY <3>1, IdleLooks DEF LookType
    <3>3. Sound(lookup[c])'  BY <2>9, <3>2, NowSound
    <3>. QED  BY <2>9, <3>1, <3>3, IdleLooks
  <2>3. CASE CA!Active(c)
    <3>1. ~CA!Due(c)  OBVIOUS
    <3>2. l \in LookType  BY <2>0, <2>3, <3>1, LooksAre DEF CA!Due
    <3>3. l.at \in {"waiting", "sleeping", "asked"}
      BY <2>0, <2>3, <3>1, <3>2 DEF LookType, CA!Due, CA!Is
    <3>4. l.at = "sleeping" => next # 0  BY <2>0, <2>3, <3>1 DEF CA!Due, CA!Is
    <3>5. l.at # "sleeping" => l.left # 0  BY <2>0, <2>3, <3>1, <3>3 DEF CA!Due, CA!Is
    <3>6. Sound(l)  BY <2>0 DEF LooksInv
    <3> DEFINE n == l.left - 1
               x == [l EXCEPT !.left = n]
    <3>7. m = x  BY <2>1, <2>3
    <3>8. l.left \in Nat /\ l.question \in CA!Question  BY <3>2 DEF LookType
    <3>9. l.at = "sleeping" => next < l.left  BY <3>2, <3>6 DEF Sound
    <3>10. n \in Nat /\ (l.at = "sleeping" => next' < n)
      BY <1>0, <3>4, <3>5, <3>8, <3>9
    <3>11. l.got < PagesOf[l.question] /\ (l.at # "waiting" /\ l.got = 0 => ~CA!Fresh(l.question)')
      BY <3>2, <3>6, <3>8 DEF Sound
    <3>. HIDE DEF n
    <3>12. x \in LookType /\ x.at = l.at /\ x.got = l.got /\ x.question = l.question /\ x.left = n
      BY <3>2, <3>10 DEF LookType
    <3>. HIDE DEF x
    <3>13. Sound(lookup[c])'
      <4>1. lookup'[c] = m  BY <2>9
      <4>2. /\ m.got < PagesOf[m.question]
            /\ m.at = "sleeping" => next' < m.left
        BY <3>7, <3>10, <3>11, <3>12
      <4>3. m.question = l.question /\ m.at = l.at /\ m.got = l.got  BY <3>7, <3>12
      <4>4. m.at # "waiting" /\ m.got = 0 => ~CA!Fresh(m.question)'
        BY <3>11, <4>3 DEF CA!Fresh
      <4>. QED  BY <4>1, <4>2, <4>4, NowSound
    <3>. QED  BY <2>0, <2>9, <3>7, <3>12, <3>13 DEF Behind
  <2>. QED  BY <2>2, <2>3
<1>2. lookup' \in [Looker -> {CA!Idle} \cup LookType \cup AgainType]
  <2>1. lookup' = [c \in Looker |-> lookup'[c]]  OBVIOUS
  <2>. QED  BY <1>1, <2>1
<1>. QED  BY <1>1, <1>2 DEF LooksInv

LEMMA CatalogueInvStep ==
  CatalogueConstants /\ CatalogueInv /\ [WireNext]_wireVars => CatalogueInv'
<1>. SUFFICES ASSUME CatalogueConstants, CatalogueInv, [WireNext]_wireVars PROVE CatalogueInv'
  OBVIOUS
<1>0. AnswersInv /\ LooksInv /\ part' = part  BY DEF CatalogueInv, WireNext, wireVars
<1>1. CASE part = "catalogue" /\ CA!CatNext
  <2>0. Spaced(next)  BY <1>1 DEF CatalogueInv
  <2>1. SUFFICES AnswersInv' /\ LooksInv' /\ Spaced(next)'  BY DEF CatalogueInv
  <2>2. ASSUME NEW c \in Looker, NEW q, NEW then, CA!Begin(c, q, then)
        PROVE  AnswersInv' /\ LooksInv' /\ Spaced(next)'
    BY <1>0, <2>0, <2>2, Begins DEF Spaced
  <2>3. ASSUME NEW c \in Looker,
           CA!SearchArtists(c) \/ CA!FindCover(c) \/ CA!Catalog(c) \/ CA!Editions(c)
           \/ CA!RecentReleases(c) \/ CA!FilingMetadata(c) \/ CA!EditionTracklist(c)
        PROVE  AnswersInv' /\ LooksInv' /\ Spaced(next)'
    BY <2>2, <2>3 DEF CA!SearchArtists, CA!FindCover, CA!Catalog, CA!Editions, CA!RecentReleases,
                      CA!FilingMetadata, CA!EditionTracklist
  <2>4. ASSUME NEW c \in Looker, CA!Enter(c) PROVE AnswersInv' /\ LooksInv' /\ Spaced(next)'
    BY <1>0, <2>0, <2>4, EntersLookup DEF CA!Enter, Spaced
  <2>5. ASSUME NEW c \in Looker, CA!Turn(c) PROVE AnswersInv' /\ LooksInv' /\ Spaced(next)'
    BY <1>0, <2>0, <2>5, TakesTurn DEF CA!Turn, Spaced
  <2>6. ASSUME NEW c \in Looker, CA!Send(c) PROVE AnswersInv' /\ LooksInv' /\ Spaced(next)'
    <3>1. next = 0 /\ next' = Pause /\ silence' = 0 /\ quiet' = quiet  BY <2>6 DEF CA!Send
    <3>2. Spaced(next)'  BY <2>0, <3>1 DEF Spaced, CatalogueConstants
    <3>. QED  BY <1>0, <2>6, <3>2, LookSent
  <2>7. ASSUME NEW c \in Looker, CA!GoOn(c) PROVE AnswersInv' /\ LooksInv' /\ Spaced(next)'
    BY <1>0, <2>0, <2>7, GoesOn DEF CA!GoOn, Spaced
  <2>8. ASSUME NEW c \in Looker, CA!Fail(c) \/ CA!TimeOut(c) \/ CA!Drop(c)
        PROVE  AnswersInv' /\ LooksInv' /\ Spaced(next)'
    <3>1. CA!Ends(c) /\ UNCHANGED <<answers, next, silence, quiet>>
      BY <2>8 DEF CA!Fail, CA!TimeOut, CA!Drop
    <3>. QED  BY <1>0, <2>0, <3>1, LookGivenUp DEF Spaced
  <2>9. ASSUME NEW c \in Looker, NEW found \in {0, 1}, CA!Page(c, found)
        PROVE  AnswersInv' /\ LooksInv' /\ Spaced(next)'
    <3>1. UNCHANGED <<next, silence, quiet>>  BY <2>9 DEF CA!Page
    <3>. QED  BY <1>0, <2>0, <2>9, <3>1, PageRead DEF Spaced
  <2>10. ASSUME NEW c \in Looker, NEW time \in RetryAfter, CA!Throttle(c, time)
         PROVE  AnswersInv' /\ LooksInv' /\ Spaced(next)'
    <3>0. time \in Nat  BY DEF CatalogueConstants
    <3>1. lookup[c] \in LookType  BY <1>0, <2>10, LooksAre DEF CA!Throttle
    <3>2. lookup[c].attempt \in Nat  BY <3>1 DEF LookType
    <3> DEFINE back == 2 ^ lookup[c].attempt
               delay == CA!Larger(time, back)
    <3>3. back \in Int
      <4>1. \A n \in Int : 2 ^ n \in Int  OBVIOUS
      <4>. QED  BY <3>2, <4>1
    <3>. HIDE DEF back
    <3>4. delay \in Nat /\ delay >= time  BY <3>0, <3>3 DEF CA!Larger
    <3>5. next' = CA!Larger(next, delay) /\ quiet' = CA!Larger(quiet, time) /\ silence' = silence
      BY <2>10 DEF CA!Throttle, CA!Backoff, back
    <3>. HIDE DEF delay
    <3>6. next' = (IF next > delay THEN next ELSE delay) /\ quiet' = (IF quiet > time THEN quiet ELSE time)
      BY <3>5 DEF CA!Larger
    <3>7. Spaced(next)'  BY <2>0, <3>0, <3>4, <3>5, <3>6 DEF Spaced, CatalogueConstants
    <3>. QED  BY <1>0, <2>10, <3>0, <3>7, Throttles
  <2>11. CASE CA!Tick
    <3>1. /\ next' = (IF next > 0 THEN next - 1 ELSE 0)
          /\ quiet' = (IF quiet > 0 THEN quiet - 1 ELSE 0)
          /\ silence' = (IF silence < Pause THEN silence + 1 ELSE Pause)
      BY <2>0, <2>11 DEF CA!Tick, CA!Less, CA!Larger, Spaced
    <3>2. Spaced(next)'  BY <2>0, <3>1, ClockSpaced DEF Spaced, CatalogueConstants
    <3>3. AnswersInv' /\ \A q \in CA!Question : CA!Fresh(q)' => CA!Fresh(q)
      BY <1>0, <2>11, AnswersAge DEF CA!Tick
    <3>4. LooksInv'  BY <1>0, <2>0, <2>11, <3>3, LooksAge DEF CA!Tick
    <3>. QED  BY <3>2, <3>3, <3>4
  <2>. QED  BY <1>1, <2>3, <2>4, <2>5, <2>6, <2>7, <2>8, <2>9, <2>10, <2>11 DEF CA!CatNext
<1>2. CASE UNCHANGED <<lookup, answers, next>> /\ (part = "catalogue" => UNCHANGED <<silence, quiet>>)
  <2>1. AnswersInv'  BY <1>0, <1>2 DEF AnswersInv
  <2>2. \A q : CA!Fresh(q)' <=> CA!Fresh(q)  BY <1>2 DEF CA!Fresh
  <2>3. LooksInv'  BY <1>0, <1>2, <2>2 DEF LooksInv, Sound
  <2>. QED  BY <1>0, <1>2, <2>1, <2>3 DEF CatalogueInv, Spaced
<1>. QED
  BY <1>1, <1>2 DEF WireNext, wireVars, limitVars, lookVars, TurnsNext, RequestsNext, BranchNext,
     SearchesNext, WantedNext, ShelfNext, GuardNext, BandwidthNext, CatalogueNext, DiscoveryNext

LEMMA CatalogueInvHolds ==
  ASSUME CatalogueInv
  PROVE  CA!LookupsEndInTime /\ CA!NothingIsAskedTwice /\ CA!KeptAnswersAreWhole
<1>0. LooksInv /\ AnswersInv  BY DEF CatalogueInv
<1>1. CA!LookupsEndInTime
  <2>1. ASSUME NEW c \in Looker, CA!Active(c), ~CA!Is(c, "again") PROVE lookup[c].left >= 0
    <3>1. lookup[c] \in LookType  BY <1>0, <2>1, LooksAre
    <3>2. lookup[c].left \in Nat  BY <3>1 DEF LookType
    <3>. QED  BY <3>2
  <2>. QED  BY <2>1 DEF CA!LookupsEndInTime
<1>2. CA!NothingIsAskedTwice
  <2>1. ASSUME NEW c \in Looker, CA!Is(c, "turn") \/ CA!Is(c, "sleeping"), lookup[c].got = 0
        PROVE  ~CA!Fresh(lookup[c].question)
    <3>1. lookup[c] \in LookType /\ lookup[c].at # "waiting"  BY <1>0, <2>1, LooksAre
    <3>. QED  BY <1>0, <2>1, <3>1 DEF LooksInv, Sound
  <2>. QED  BY <2>1 DEF CA!NothingIsAskedTwice
<1>3. CA!KeptAnswersAreWhole  BY <1>0 DEF AnswersInv, CA!KeptAnswersAreWhole, CA!Known
<1>. QED  BY <1>1, <1>2, <1>3

LEMMA LookupsAreSpaced ==
  ASSUME CatalogueConstants, CatalogueInv, [WireNext]_wireVars, NEW c \in Looker,
         ~CA!Is(c, "asked"), CA!Is(c, "asked")'
  PROVE  silence = Pause /\ quiet = 0
<1>0. LooksInv  BY DEF CatalogueInv
<1>1. lookup' # lookup  BY DEF CA!Is, CA!Active
<1>2. part = "catalogue" /\ CA!CatNext
  BY <1>1 DEF WireNext, wireVars, limitVars, lookVars, TurnsNext, RequestsNext, BranchNext,
     SearchesNext, WantedNext, ShelfNext, GuardNext, BandwidthNext, CatalogueNext, DiscoveryNext
<1>3. lookup \in [Looker -> {CA!Idle} \cup LookType \cup AgainType]  BY <1>0 DEF LooksInv
<1>4. ASSUME NEW d \in Looker, NEW x, lookup' = [lookup EXCEPT ![d] = x], x.at # "asked" PROVE FALSE
  <2>1. lookup'[c] = x \/ lookup'[c] = lookup[c]  BY <1>3, <1>4
  <2>. QED  BY <1>4, <2>1 DEF CA!Is, CA!Active
<1>5. ASSUME NEW d \in Looker, CA!Ends(d) PROVE FALSE
  <2>1. lookup' = [lookup EXCEPT ![d] = CA!Idle] /\ CA!Idle.at # "asked"
    BY <1>5, IdleLooks DEF CA!Ends
  <2>. QED  BY <2>1, <1>4
<1>6. ASSUME NEW d \in Looker, NEW at, CA!Goes(d, at), lookup[d] \in LookType, at # "asked" PROVE FALSE
  <2> DEFINE l == lookup[d]
             x == [l EXCEPT !.at = at]
  <2>1. lookup' = [lookup EXCEPT ![d] = x]  BY <1>6 DEF CA!Goes
  <2>2. l \in LookType  BY <1>6
  <2>. HIDE DEF l
  <2>3. x.at = at  BY <2>2 DEF LookType
  <2>. HIDE DEF x
  <2>. QED  BY <1>6, <2>1, <2>3, <1>4
<1>7. ASSUME NEW d \in Looker, NEW q, NEW then, CA!Waits(d, q, then) PROVE FALSE
  <2> DEFINE x == [at |-> "waiting", question |-> q, then |-> then, left |-> Patience,
                   attempt |-> 1, page |-> 1, got |-> 0]
  <2>1. lookup' = [lookup EXCEPT ![d] = x]  BY <1>7 DEF CA!Waits
  <2>2. x.at # "asked"  OBVIOUS
  <2>. HIDE DEF x
  <2>. QED  BY <2>1, <2>2, <1>4
<1>8. ASSUME NEW d \in Looker,
         CA!SearchArtists(d) \/ CA!FindCover(d) \/ CA!Catalog(d) \/ CA!Editions(d)
         \/ CA!RecentReleases(d) \/ CA!FilingMetadata(d) \/ CA!EditionTracklist(d)
         \/ CA!GoOn(d) \/ CA!Fail(d) \/ CA!TimeOut(d) \/ CA!Drop(d)
      PROVE FALSE
  BY <1>5, <1>7, <1>8 DEF CA!SearchArtists, CA!FindCover, CA!Catalog, CA!Editions, CA!RecentReleases,
     CA!FilingMetadata, CA!EditionTracklist, CA!Begin, CA!GoOn, CA!Fail, CA!TimeOut, CA!Drop
<1>9. ASSUME NEW d \in Looker, CA!Enter(d) \/ CA!Turn(d) PROVE FALSE
  <2>1. lookup[d] \in LookType  BY <1>0, <1>9, LooksAre DEF CA!Enter, CA!Turn
  <2>. QED  BY <1>5, <1>6, <1>9, <2>1 DEF CA!Enter, CA!Turn
<1>10. ASSUME NEW d \in Looker, NEW found \in {0, 1}, CA!Page(d, found) PROVE FALSE
  <2> DEFINE l == lookup[d]
             got == l.got + found
  <2>1. l \in LookType  BY <1>0, <1>10, LooksAre DEF CA!Page
  <2>2. \/ lookup' = [lookup EXCEPT ![d] =
                   [l EXCEPT !.at = "turn", !.attempt = 1, !.page = l.page + 1, !.got = got]]
        \/ CA!Ends(d)
        \/ lookup' = [lookup EXCEPT ![d] = [at |-> "again", then |-> l.then]]
    BY <1>10, PageGoesOn
  <2>3. CASE lookup' = [lookup EXCEPT ![d] =
                   [l EXCEPT !.at = "turn", !.attempt = 1, !.page = l.page + 1, !.got = got]]
    <3> DEFINE n == l.page + 1
               x == [l EXCEPT !.at = "turn", !.attempt = 1, !.page = n, !.got = got]
    <3>1. lookup' = [lookup EXCEPT ![d] = x]  BY <2>3
    <3>. HIDE DEF l, n, got
    <3>2. x.at = "turn"  BY <2>1 DEF LookType
    <3>. HIDE DEF x
    <3>3. x.at # "asked"  BY <3>2
    <3>. QED  BY <3>1, <3>3, <1>4
  <2>4. CASE lookup' = [lookup EXCEPT ![d] = [at |-> "again", then |-> l.then]]
    <3> DEFINE x == [at |-> "again", then |-> l.then]
    <3>1. lookup' = [lookup EXCEPT ![d] = x] /\ x.at # "asked"  BY <2>4
    <3>. HIDE DEF x
    <3>. QED  BY <3>1, <1>4
  <2>. QED  BY <1>5, <2>2, <2>3, <2>4
<1>11. ASSUME NEW d \in Looker, NEW time, CA!Throttle(d, time) PROVE FALSE
  <2> DEFINE l == lookup[d]
             x == [l EXCEPT !.at = "turn", !.attempt = @ + 1]
  <2>1. l \in LookType  BY <1>0, <1>11, LooksAre DEF CA!Throttle
  <2>2. CA!Ends(d) \/ lookup' = [lookup EXCEPT ![d] = x]  BY <1>3, <1>11, <2>1 DEF CA!Throttle, LookType
  <2>. HIDE DEF l
  <2>3. x.at = "turn"  BY <2>1 DEF LookType
  <2>. HIDE DEF x
  <2>4. x.at # "asked"  BY <2>3
  <2>. QED  BY <1>5, <2>2, <2>4, <1>4
<1>12. ASSUME CA!Tick PROVE FALSE
  <2>1. lookup'[c] = IF CA!Active(c) THEN [lookup[c] EXCEPT !.left = @ - 1] ELSE CA!Idle
    BY <1>12 DEF CA!Tick
  <2>2. CASE ~CA!Active(c)  BY <2>1, <2>2 DEF CA!Is, CA!Active
  <2>3. CASE CA!Active(c)
    <3> DEFINE l == lookup[c]
               n == l.left - 1
    <3>1. lookup'[c] = [l EXCEPT !.left = n]  BY <2>1, <2>3
    <3>2. l \in LookType \cup AgainType  BY <1>0, <2>3, LooksAre
    <3>. HIDE DEF l, n
    <3>3. [l EXCEPT !.left = n].at = l.at  BY <3>2 DEF LookType, AgainType
    <3>. QED  BY <2>3, <3>1, <3>3 DEF CA!Is, l
  <2>. QED  BY <2>2, <2>3
<1>13. PICK d \in Looker : CA!Send(d)
  <2>1. \A d \in Looker, found \in {0, 1} : ~CA!Page(d, found)  BY <1>10
  <2>2. \A d \in Looker, time \in RetryAfter : ~CA!Throttle(d, time)  BY <1>11
  <2>3. PICK d \in Looker :
          \/ CA!SearchArtists(d) \/ CA!FindCover(d) \/ CA!Catalog(d) \/ CA!Editions(d)
          \/ CA!RecentReleases(d) \/ CA!FilingMetadata(d) \/ CA!EditionTracklist(d)
          \/ CA!Enter(d) \/ CA!Turn(d) \/ CA!Send(d) \/ CA!GoOn(d) \/ CA!Fail(d) \/ CA!TimeOut(d) \/ CA!Drop(d)
          \/ \E found \in {0, 1} : CA!Page(d, found)
          \/ \E time \in RetryAfter : CA!Throttle(d, time)
    BY <1>2, <1>12 DEF CA!CatNext
  <2>4. CA!Send(d)  BY <1>8, <1>9, <2>1, <2>2, <2>3
  <2>. QED  BY <2>4
<1>. QED  BY <1>2, <1>13 DEF CA!Send, CatalogueInv, Spaced, CatalogueConstants

-----------------------------------------------------------------------------
(* The requests of the distributed network.  What the guard remembers is a *)
(* suffix of what was answered: the times of the window, and the queue of  *)
(* the requests seen, which the map agrees with; what is before it is over *)
(* or had to be forgotten.  The map of users holds times of requests that  *)
(* were answered, so a sweep of it leaves a window of users at most.       *)
GuardConstants ==
  /\ Window \in Nat /\ DuplicateTtl \in Nat
  /\ MaxPerWindow \in Nat /\ MaxSeenRequests \in Nat /\ MaxPerWindow < MaxSeenRequests

Entry == [key : Requester \X SearchToken, at : Nat]

Apart(log) ==
  \A i, j \in 1 .. Len(log) :
    /\ i < j /\ log[i].key = log[j].key =>
         log[j].at - log[i].at > DuplicateTtl \/ j - i >= MaxSeenRequests
    /\ j - i >= MaxPerWindow => log[j].at - log[i].at > Window
AnsweredInv ==
  /\ clock \in Nat /\ answered \in Seq(Entry)
  /\ \A i \in 1 .. Len(answered) : answered[i].at <= clock
  /\ Apart(answered)
TimesAre(times, log) ==
  /\ times \in Seq(Nat) /\ Len(times) <= Len(log) /\ Len(times) <= MaxPerWindow
  /\ \A i \in 1 .. Len(times) : times[i] = log[Len(log) - Len(times) + i].at
  /\ \A i \in 1 .. Len(log) - Len(times) : clock - log[i].at > Window
QueueIs(order, log) ==
  /\ order \in Seq(Entry) /\ Len(order) <= Len(log) /\ Len(order) <= MaxSeenRequests
  /\ \A i \in 1 .. Len(order) : order[i] = log[Len(log) - Len(order) + i]
  /\ \A i \in 1 .. Len(log) - Len(order) :
       clock - log[i].at > DuplicateTtl \/ Len(log) + 1 - i >= MaxSeenRequests
  /\ \A i, j \in 1 .. Len(order) : order[i].key = order[j].key => i = j
MapIs(map, order) ==
  /\ DOMAIN map = {order[i].key : i \in 1 .. Len(order)}
  /\ \A i \in 1 .. Len(order) : map[order[i].key] = order[i].at
UsersAre(map, log) ==
  /\ IsFiniteSet(DOMAIN map) /\ Cardinality(DOMAIN map) <= MaxSeenRequests
  /\ \A u \in DOMAIN map : map[u] \in Seq(Nat)
  /\ \A u \in DOMAIN map : \A i \in 1 .. Len(map[u]) :
       \E j \in 1 .. Len(log) : log[j].key[1] = u /\ log[j].at = map[u][i]
GuardInv ==
  AnsweredInv /\ TimesAre(recent, answered) /\ QueueIs(seenOrder, answered) /\ MapIs(seen, seenOrder)
  /\ UsersAre(recentByUser, answered)

(* What a loop drops from the front: as long as it may.                    *)
LEMMA LeadOf ==
  ASSUME NEW m \in Nat, NEW S
  PROVE  \E n \in 0 .. m : (\A i \in 1 .. n : i \in S) /\ (n < m => n + 1 \notin S)
<1> DEFINE T == {k \in Nat : k < m /\ k + 1 \notin S}
<1>1. CASE T = {}
  <2>1. \A i \in 1 .. m : i \in S
    <3> SUFFICES ASSUME NEW i \in 1 .. m, i \notin S PROVE FALSE  OBVIOUS
    <3>1. i - 1 \in Nat /\ i - 1 < m /\ (i - 1) + 1 = i  OBVIOUS
    <3>. QED  BY <1>1, <3>1
  <2>. QED  BY <2>1
<1>2. CASE T # {}
  <2>1. PICK n \in T : \A k \in T : n <= k
    <3>1. T \in SUBSET Nat  OBVIOUS
    <3>. HIDE DEF T
    <3>. QED  BY <1>2, <3>1, LeastNumber
  <2>2. n \in Nat /\ n < m /\ n + 1 \notin S  BY <2>1
  <2>3. \A i \in 1 .. n : i \in S
    <3> SUFFICES ASSUME NEW i \in 1 .. n, i \notin S PROVE FALSE  OBVIOUS
    <3>1. i - 1 \in Nat /\ i - 1 < m /\ (i - 1) + 1 = i /\ i - 1 < n  BY <2>2
    <3>. QED  BY <2>1, <3>1
  <2>. QED  BY <2>2, <2>3
<1>. QED  BY <1>1, <1>2

LEMMA PrunedAre ==
  ASSUME NEW times \in Seq(Nat), clock \in Nat, Window \in Nat
  PROVE  \E n \in 0 .. Len(times) :
           /\ \A i \in 1 .. n : clock - times[i] > Window
           /\ n < Len(times) => clock - times[n + 1] <= Window
           /\ RG!Pruned(times) \in Seq(Nat) /\ Len(RG!Pruned(times)) = Len(times) - n
           /\ \A i \in 1 .. Len(times) - n : RG!Pruned(times)[i] = times[n + i]
<1> DEFINE m == Len(times)
           S == {i \in 1 .. m : clock - times[i] > Window}
           P(n) == /\ \A i \in 1 .. n : clock - times[i] > Window
                   /\ n < m => clock - times[n + 1] <= Window
<1>1. \E n \in 0 .. m : P(n)
  <2>1. m \in Nat  OBVIOUS
  <2>. HIDE DEF m, S
  <2>2. PICK n \in 0 .. m : (\A i \in 1 .. n : i \in S) /\ (n < m => n + 1 \notin S)
    BY <2>1, LeadOf
  <2>3. \A i \in 1 .. n : clock - times[i] > Window  BY <2>2 DEF S
  <2>4. n < m => clock - times[n + 1] <= Window
    <3> SUFFICES ASSUME n < m PROVE clock - times[n + 1] <= Window  OBVIOUS
    <3>1. n + 1 \in 1 .. m /\ n + 1 \notin S  BY <2>1, <2>2
    <3>2. times[n + 1] \in Nat  BY <3>1 DEF m
    <3>. QED  BY <3>1, <3>2 DEF S
  <2>. QED  BY <2>3, <2>4
<1>2. PICK n : n = RG!Expired(times)  OBVIOUS
<1>3. n \in 0 .. m /\ P(n)  BY <1>1, <1>2 DEF RG!Expired
<1>4. RG!Pruned(times) = SubSeq(times, n + 1, m)  BY <1>2 DEF RG!Pruned
<1>5. \A i \in (n + 1) .. m : times[i] \in Nat  BY <1>3
<1>6. /\ SubSeq(times, n + 1, m) \in Seq(Nat)
      /\ Len(SubSeq(times, n + 1, m)) = m - n
      /\ \A i \in 1 .. m - n : SubSeq(times, n + 1, m)[i] = times[n + i]
  BY <1>3, <1>5
<1>. QED  BY <1>3, <1>4, <1>6

LEMMA TimesPruned ==
  ASSUME AnsweredInv, TimesAre(recent, answered), Window \in Nat, MaxPerWindow \in Nat
  PROVE  /\ TimesAre(RG!Pruned(recent), answered)
         /\ \A i \in 1 .. Len(answered) - Len(RG!Pruned(recent)) : clock - answered[i].at > Window
<1>0. clock \in Nat /\ recent \in Seq(Nat) /\ answered \in Seq(Entry)
  BY DEF AnsweredInv, TimesAre
<1>1. PICK n \in 0 .. Len(recent) :
        /\ \A i \in 1 .. n : clock - recent[i] > Window
        /\ RG!Pruned(recent) \in Seq(Nat) /\ Len(RG!Pruned(recent)) = Len(recent) - n
        /\ \A i \in 1 .. Len(recent) - n : RG!Pruned(recent)[i] = recent[n + i]
  BY <1>0, PrunedAre
<1>2. PICK times : times = RG!Pruned(recent)  OBVIOUS
<1>3. /\ Len(recent) <= Len(answered) /\ Len(recent) <= MaxPerWindow
      /\ \A i \in 1 .. Len(recent) : recent[i] = answered[Len(answered) - Len(recent) + i].at
      /\ \A i \in 1 .. Len(answered) - Len(recent) : clock - answered[i].at > Window
  BY DEF TimesAre
<1>4. times \in Seq(Nat) /\ Len(times) <= Len(answered) /\ Len(times) <= MaxPerWindow
  BY <1>0, <1>1, <1>2, <1>3
<1>5. ASSUME NEW i \in 1 .. Len(times) PROVE times[i] = answered[Len(answered) - Len(times) + i].at
  <2>1. i \in 1 .. Len(recent) - n /\ n + i \in 1 .. Len(recent)  BY <1>0, <1>1, <1>2
  <2>2. times[i] = recent[n + i]  BY <1>1, <1>2, <2>1
  <2>3. Len(answered) - Len(recent) + (n + i) = Len(answered) - Len(times) + i
    <3>1. Len(times) = Len(recent) - n /\ Len(recent) \in Nat /\ Len(answered) \in Nat
      BY <1>0, <1>1, <1>2
    <3>. QED  BY <3>1
  <2>. QED  BY <1>3, <2>1, <2>2, <2>3
<1>6. ASSUME NEW i \in 1 .. Len(answered) - Len(times) PROVE clock - answered[i].at > Window
  <2>1. CASE i <= Len(answered) - Len(recent)  BY <1>0, <1>3, <2>1
  <2>2. CASE i > Len(answered) - Len(recent)
    <3> DEFINE j == i - (Len(answered) - Len(recent))
    <3>1. j \in 1 .. n /\ j \in 1 .. Len(recent) /\ Len(answered) - Len(recent) + j = i
      BY <1>0, <1>1, <1>2, <1>3, <2>2
    <3>. HIDE DEF j
    <3>2. recent[j] = answered[i].at  BY <1>3, <3>1
    <3>. QED  BY <1>1, <3>1, <3>2
  <2>. QED  BY <1>0, <2>1, <2>2
<1>. QED  BY <1>2, <1>4, <1>5, <1>6 DEF TimesAre

(* What is left of the map when the first n insertions are dropped.        *)
LEMMA LeftIs ==
  ASSUME MapIs(seen, seenOrder), QueueIs(seenOrder, answered), NEW n \in 0 .. Len(seenOrder)
  PROVE  /\ DOMAIN RG!Left(n) = {seenOrder[i].key : i \in (n + 1) .. Len(seenOrder)}
         /\ Cardinality(DOMAIN RG!Left(n)) = Len(seenOrder) - n
         /\ \A i \in (n + 1) .. Len(seenOrder) : RG!Left(n)[seenOrder[i].key] = seenOrder[i].at
<1> DEFINE m == Len(seenOrder)
           Keys(a, b) == {seenOrder[i].key : i \in a .. b}
<1>1. /\ m \in Nat /\ n \in Nat /\ n <= m
      /\ \A i, j \in 1 .. m : seenOrder[i].key = seenOrder[j].key => i = j
      /\ DOMAIN seen = Keys(1, m)
      /\ \A i \in 1 .. m : seen[seenOrder[i].key] = seenOrder[i].at
  <2>1. seenOrder \in Seq(Entry)  BY DEF QueueIs
  <2>2. m \in Nat  BY <2>1
  <2>. QED  BY <2>2 DEF MapIs, QueueIs
<1>2. {j \in 1 .. n : seen[seenOrder[j].key] = seenOrder[j].at} = 1 .. n
  BY <1>1
<1>3. RG!Left(n) = [k \in Keys(1, m) \ Keys(1, n) |-> seen[k]]
  BY <1>1, <1>2 DEF RG!Left, RG!Without, RG!Restrict
<1>4. Keys(1, m) \ Keys(1, n) = Keys(n + 1, m)
  <2>1. ASSUME NEW i \in 1 .. m, NEW j \in 1 .. n, i > n PROVE seenOrder[i].key # seenOrder[j].key
    <3>1. i # j /\ j \in 1 .. m  BY <1>1, <2>1
    <3>. QED  BY <1>1, <3>1
  <2>2. \A i \in (n + 1) .. m : i \in 1 .. m /\ i > n  BY <1>1
  <2>3. \A i \in 1 .. m : i \in 1 .. n \/ i \in (n + 1) .. m  BY <1>1
  <2>. QED  BY <2>1, <2>2, <2>3
<1>5. DOMAIN RG!Left(n) = Keys(n + 1, m) /\ \A k \in Keys(n + 1, m) : RG!Left(n)[k] = seen[k]
  BY <1>3, <1>4
<1>6. Cardinality(Keys(n + 1, m)) = m - n
  <2> DEFINE f == [i \in (n + 1) .. m |-> seenOrder[i].key]
             K == Keys(n + 1, m)
  <2>1. \A i, j \in (n + 1) .. m : f[i] = f[j] => i = j  BY <1>1
  <2>2. f \in [(n + 1) .. m -> K] /\ \A k \in K : \E i \in (n + 1) .. m : f[i] = k  OBVIOUS
  <2>. HIDE DEF f, K
  <2>3. f \in Bijection((n + 1) .. m, K)
    BY <2>1, <2>2 DEF Bijection, Injection, Surjection, IsInjective
  <2>4. ExistsBijection((n + 1) .. m, K)  BY <2>3 DEF ExistsBijection
  <2>5. n + 1 \in Int /\ m \in Int  BY <1>1
  <2>. HIDE DEF m
  <2>6. IsFiniteSet((n + 1) .. m) /\ Cardinality((n + 1) .. m) = IF n + 1 > m THEN 0 ELSE m - (n + 1) + 1
    BY <2>5, FS_Interval
  <2>7. Cardinality(K) = Cardinality((n + 1) .. m)  BY <2>4, <2>6, FS_Bijection
  <2>. QED  BY <1>1, <2>6, <2>7 DEF K
<1>7. \A i \in (n + 1) .. m : seenOrder[i].key \in Keys(n + 1, m) /\ i \in 1 .. m  BY <1>1
<1>. QED  BY <1>1, <1>5, <1>6, <1>7

LEMMA DropsAre ==
  ASSUME GuardConstants, AnsweredInv, MapIs(seen, seenOrder), QueueIs(seenOrder, answered)
  PROVE  LET n == RG!Drops
             m == Len(seenOrder)
         IN  /\ n \in 0 .. m
             /\ \A i \in 1 .. n : clock - seenOrder[i].at > DuplicateTtl \/ m - (i - 1) >= MaxSeenRequests
             /\ m - n < MaxSeenRequests
<1> DEFINE m == Len(seenOrder)
           S == {i \in 1 .. m : clock - seenOrder[i].at > DuplicateTtl \/ m - (i - 1) >= MaxSeenRequests}
<1>0. /\ clock \in Nat /\ seenOrder \in Seq(Entry) /\ m \in Nat
      /\ DuplicateTtl \in Nat /\ MaxSeenRequests \in Nat /\ 0 < MaxSeenRequests
  BY DEF AnsweredInv, QueueIs, GuardConstants
<1>1. \A i \in 1 .. m : seenOrder[i].at \in Nat
  <2>1. \A i \in 1 .. m : seenOrder[i] \in Entry  BY <1>0
  <2>. QED  BY <2>1 DEF Entry
<1>2. \A k \in 0 .. m : Cardinality(DOMAIN RG!Left(k)) = m - k  BY LeftIs
<1>3. ASSUME NEW n \in 0 .. m,
             \/ (\A i \in 1 .. n : i \in S) /\ (n < m => n + 1 \notin S)
             \/ /\ \A i \in 1 .. n : \/ clock - seenOrder[i].at > DuplicateTtl
                                     \/ Cardinality(DOMAIN RG!Left(i - 1)) >= MaxSeenRequests
                /\ n < m => /\ clock - seenOrder[n + 1].at <= DuplicateTtl
                            /\ Cardinality(DOMAIN RG!Left(n)) < MaxSeenRequests
      PROVE  /\ \A i \in 1 .. n : \/ clock - seenOrder[i].at > DuplicateTtl
                                  \/ Cardinality(DOMAIN RG!Left(i - 1)) >= MaxSeenRequests
             /\ n < m => /\ clock - seenOrder[n + 1].at <= DuplicateTtl
                         /\ Cardinality(DOMAIN RG!Left(n)) < MaxSeenRequests
             /\ \A i \in 1 .. n : clock - seenOrder[i].at > DuplicateTtl \/ m - (i - 1) >= MaxSeenRequests
             /\ m - n < MaxSeenRequests
  <2>1. \A i \in 1 .. n : i - 1 \in 0 .. m /\ i \in 1 .. m  BY <1>0
  <2>2. \A i \in 1 .. n : Cardinality(DOMAIN RG!Left(i - 1)) = m - (i - 1)  BY <1>2, <2>1
  <2>3. Cardinality(DOMAIN RG!Left(n)) = m - n  BY <1>2
  <2>4. n < m => n + 1 \in 1 .. m  BY <1>0
  <2>5. (n < m /\ n + 1 \notin S) => clock - seenOrder[n + 1].at <= DuplicateTtl /\ m - n < MaxSeenRequests
    BY <1>0, <1>1, <2>4
  <2>6. n < m => clock - seenOrder[n + 1].at <= DuplicateTtl /\ m - n < MaxSeenRequests
    BY <1>3, <2>3, <2>5
  <2>7. \A i \in 1 .. n : clock - seenOrder[i].at > DuplicateTtl \/ m - (i - 1) >= MaxSeenRequests
    BY <1>3, <2>2
  <2>8. m - n < MaxSeenRequests  BY <1>0, <2>6
  <2>. QED  BY <2>2, <2>3, <2>6, <2>7, <2>8
<1>4. \E n \in 0 .. m : (\A i \in 1 .. n : i \in S) /\ (n < m => n + 1 \notin S)
  <2>. HIDE DEF m, S
  <2>. QED  BY <1>0, LeadOf
<1>5. PICK n : n = RG!Drops  OBVIOUS
<1>6. /\ n \in 0 .. m
      /\ \A i \in 1 .. n : \/ clock - seenOrder[i].at > DuplicateTtl
                           \/ Cardinality(DOMAIN RG!Left(i - 1)) >= MaxSeenRequests
      /\ n < m => /\ clock - seenOrder[n + 1].at <= DuplicateTtl
                  /\ Cardinality(DOMAIN RG!Left(n)) < MaxSeenRequests
  <2> DEFINE Q(k) == /\ \A i \in 1 .. k : \/ clock - seenOrder[i].at > DuplicateTtl
                                          \/ Cardinality(DOMAIN RG!Left(i - 1)) >= MaxSeenRequests
                     /\ k < m => /\ clock - seenOrder[k + 1].at <= DuplicateTtl
                                 /\ Cardinality(DOMAIN RG!Left(k)) < MaxSeenRequests
  <2>1. \E k \in 0 .. m : Q(k)  BY <1>3, <1>4
  <2>2. n = CHOOSE k \in 0 .. m : Q(k)  BY <1>5 DEF RG!Drops, RG!Cardinality, Cardinality
  <2>. HIDE DEF Q
  <2>3. n \in 0 .. m /\ Q(n)  BY <2>1, <2>2
  <2>. QED  BY <2>3 DEF Q
<1>. QED  BY <1>3, <1>5, <1>6

LEMMA QueueDropped ==
  ASSUME GuardConstants, AnsweredInv, MapIs(seen, seenOrder), QueueIs(seenOrder, answered),
         NEW order, order = SubSeq(seenOrder, RG!Drops + 1, Len(seenOrder))
  PROVE  QueueIs(order, answered) /\ MapIs(RG!Left(RG!Drops), order) /\ Len(order) < MaxSeenRequests
<1>1. PICK n : n = RG!Drops  OBVIOUS
<1>2. PICK m : m = Len(seenOrder)  OBVIOUS
<1>3. PICK L : L = Len(answered)  OBVIOUS
<1>4. /\ n \in 0 .. m /\ m - n < MaxSeenRequests
      /\ \A i \in 1 .. n : clock - seenOrder[i].at > DuplicateTtl \/ m - (i - 1) >= MaxSeenRequests
  BY <1>1, <1>2, DropsAre
<1>5. /\ seenOrder \in Seq(Entry) /\ m \in Nat /\ L \in Nat /\ m <= L /\ MaxSeenRequests \in Nat
      /\ answered \in Seq(Entry)
  <2>1. seenOrder \in Seq(Entry) /\ answered \in Seq(Entry)  BY DEF QueueIs, AnsweredInv
  <2>2. m \in Nat /\ L \in Nat  BY <1>2, <1>3, <2>1
  <2>. QED  BY <1>2, <1>3, <2>1, <2>2 DEF QueueIs, GuardConstants
<1>6. order = SubSeq(seenOrder, n + 1, m)  BY <1>1, <1>2
<1>7. \A i \in (n + 1) .. m : seenOrder[i] \in Entry  BY <1>2, <1>4, <1>5
<1>8. /\ order \in Seq(Entry) /\ Len(order) = m - n
      /\ \A i \in 1 .. m - n : order[i] = seenOrder[n + i]
  <2>1. n + 1 \in Int /\ m \in Int /\ n \in Nat  BY <1>4, <1>5
  <2>2. /\ order \in Seq(Entry)
        /\ Len(order) = IF n + 1 <= m THEN m - (n + 1) + 1 ELSE 0
        /\ \A i \in 1 .. m - (n + 1) + 1 : order[i] = seenOrder[n + 1 + i - 1]
    <3>1. PICK k : k = n + 1  OBVIOUS
    <3>2. k \in Int /\ m \in Int /\ \A i \in k .. m : seenOrder[i] \in Entry  BY <1>7, <2>1, <3>1
    <3>3. /\ SubSeq(seenOrder, k, m) \in Seq(Entry)
          /\ Len(SubSeq(seenOrder, k, m)) = IF k <= m THEN m - k + 1 ELSE 0
          /\ \A i \in 1 .. m - k + 1 : SubSeq(seenOrder, k, m)[i] = seenOrder[k + i - 1]
      BY <3>2, SubSeqProperties
    <3>4. order = SubSeq(seenOrder, k, m)  BY <1>6, <3>1
    <3>. QED  BY <3>1, <3>3, <3>4
  <2>3. m - (n + 1) + 1 = m - n /\ (~(n + 1 <= m) => m - n = 0)  BY <1>4, <1>5
  <2>4. \A i \in 1 .. m - n : n + 1 + i - 1 = n + i  BY <2>1
  <2>. QED  BY <2>2, <2>3, <2>4
<1>9. \A i \in 1 .. m - n : n + i \in (n + 1) .. m /\ n + i \in 1 .. m  BY <1>4, <1>5
<1>10. \A i \in 1 .. m : seenOrder[i] = answered[L - m + i]  BY <1>2, <1>3 DEF QueueIs
<1>11. \A i \in 1 .. Len(order) : order[i] = answered[L - Len(order) + i]
  <2>1. Len(order) = m - n  BY <1>8
  <2>2. ASSUME NEW i \in 1 .. m - n PROVE order[i] = answered[L - (m - n) + i]
    <3>1. PICK k : k = n + i  OBVIOUS
    <3>2. k \in 1 .. m /\ order[i] = seenOrder[k]  BY <1>8, <1>9, <3>1
    <3>3. seenOrder[k] = answered[L - m + k]  BY <1>10, <3>2
    <3>4. L - (m - n) + i = L - m + k  BY <1>4, <1>5, <3>1
    <3>. QED  BY <3>2, <3>3, <3>4
  <2>. QED  BY <2>1, <2>2
<1>12. ASSUME NEW i \in 1 .. L - Len(order)
       PROVE  clock - answered[i].at > DuplicateTtl \/ L + 1 - i >= MaxSeenRequests
  <2>1. CASE i <= L - m
    <3>1. i \in 1 .. L - m  BY <1>5, <2>1
    <3>. QED  BY <1>2, <1>3, <3>1 DEF QueueIs
  <2>2. CASE ~(i <= L - m)
    <3>1. PICK j : j = i - (L - m)  OBVIOUS
    <3>2. i \in Nat /\ i <= L - (m - n)  BY <1>4, <1>5, <1>8
    <3>3. j \in 1 .. n /\ j \in 1 .. m /\ L - m + j = i /\ m - (j - 1) = L + 1 - i
      BY <1>4, <1>5, <2>2, <3>1, <3>2
    <3>4. seenOrder[j] = answered[i]  BY <1>10, <3>3
    <3>. QED  BY <1>4, <3>3, <3>4
  <2>. QED  BY <2>1, <2>2
<1>13. \A i, j \in 1 .. m : seenOrder[i].key = seenOrder[j].key => i = j
  BY <1>2 DEF QueueIs
<1>14. \A i, j \in 1 .. Len(order) : order[i].key = order[j].key => i = j
  <2> SUFFICES ASSUME NEW i \in 1 .. Len(order), NEW j \in 1 .. Len(order), order[i].key = order[j].key
               PROVE  i = j
    OBVIOUS
  <2>1. i \in 1 .. m - n /\ j \in 1 .. m - n  BY <1>8
  <2>2. seenOrder[n + i].key = seenOrder[n + j].key  BY <1>8, <2>1
  <2>3. n + i = n + j  BY <1>9, <1>13, <2>1, <2>2
  <2>. QED  BY <1>4, <1>5, <2>1, <2>3
<1>15. QueueIs(order, answered)
  <2>1. Len(order) <= L /\ Len(order) <= MaxSeenRequests  BY <1>4, <1>5, <1>8
  <2>. QED  BY <1>3, <1>8, <1>11, <1>12, <1>14, <2>1 DEF QueueIs
<1>16. /\ DOMAIN RG!Left(n) = {seenOrder[i].key : i \in (n + 1) .. m}
       /\ \A i \in (n + 1) .. m : RG!Left(n)[seenOrder[i].key] = seenOrder[i].at
  BY <1>2, <1>4, LeftIs
<1>17. {order[i].key : i \in 1 .. m - n} = {seenOrder[i].key : i \in (n + 1) .. m}
  <2>1. ASSUME NEW i \in (n + 1) .. m PROVE \E k \in 1 .. m - n : order[k].key = seenOrder[i].key
    <3>1. i - n \in 1 .. m - n /\ n + (i - n) = i  BY <1>4, <1>5
    <3>. QED  BY <1>8, <3>1
  <2>2. \A i \in 1 .. m - n : order[i].key = seenOrder[n + i].key /\ n + i \in (n + 1) .. m
    BY <1>8, <1>9
  <2>3. {order[i].key : i \in 1 .. m - n} \subseteq {seenOrder[i].key : i \in (n + 1) .. m}
    BY <2>2
  <2>4. {seenOrder[i].key : i \in (n + 1) .. m} \subseteq {order[i].key : i \in 1 .. m - n}
    <3> SUFFICES ASSUME NEW i \in (n + 1) .. m
                 PROVE  seenOrder[i].key \in {order[k].key : k \in 1 .. m - n}
      OBVIOUS
    <3>1. PICK k \in 1 .. m - n : order[k].key = seenOrder[i].key  BY <2>1
    <3>. QED  BY <3>1
  <2>. QED  BY <2>3, <2>4
<1>18. MapIs(RG!Left(n), order)
  <2>1. PICK map : map = RG!Left(n)  OBVIOUS
  <2>2. DOMAIN map = {order[i].key : i \in 1 .. Len(order)}  BY <1>8, <1>16, <1>17, <2>1
  <2>3. ASSUME NEW i \in 1 .. Len(order) PROVE map[order[i].key] = order[i].at
    <3>1. i \in 1 .. m - n  BY <1>8
    <3>2. order[i] = seenOrder[n + i] /\ n + i \in (n + 1) .. m  BY <1>8, <1>9, <3>1
    <3>. QED  BY <1>16, <2>1, <3>2
  <2>. QED  BY <2>1, <2>2, <2>3 DEF MapIs
<1>. QED  BY <1>1, <1>4, <1>8, <1>15, <1>18

LEMMA UsersSwept ==
  ASSUME GuardConstants, AnsweredInv, TimesAre(recent, answered), UsersAre(recentByUser, answered)
  PROVE  UsersAre(RG!Swept, answered) /\ Cardinality(DOMAIN RG!Swept) < MaxSeenRequests
<1>0. /\ Window \in Nat /\ MaxPerWindow \in Nat /\ MaxSeenRequests \in Nat /\ MaxPerWindow < MaxSeenRequests
      /\ clock \in Nat /\ answered \in Seq(Entry)
  BY DEF GuardConstants, AnsweredInv
<1>1. CASE Cardinality(DOMAIN recentByUser) < MaxSeenRequests
  BY <1>1 DEF RG!Swept, RG!Cardinality, Cardinality
<1>2. CASE ~(Cardinality(DOMAIN recentByUser) < MaxSeenRequests)
  <2>1. PICK pruned : pruned = [u \in DOMAIN recentByUser |-> RG!Pruned(recentByUser[u])]  OBVIOUS
  <2>2. PICK D : D = {u \in DOMAIN recentByUser : pruned[u] # <<>>}  OBVIOUS
  <2>3. RG!Swept = [u \in D |-> pruned[u]]
    <3>1. RG!Swept = RG!Without(pruned, {u \in DOMAIN pruned : pruned[u] = <<>>})
      BY <1>2, <2>1 DEF RG!Swept, RG!Cardinality, Cardinality
    <3>2. DOMAIN pruned \ {u \in DOMAIN pruned : pruned[u] = <<>>} = D  BY <2>1, <2>2
    <3>. QED  BY <3>1, <3>2 DEF RG!Without, RG!Restrict
  <2>4. PICK times : times = RG!Pruned(recent)  OBVIOUS
  <2>5. /\ times \in Seq(Nat) /\ Len(times) <= Len(answered) /\ Len(times) <= MaxPerWindow
        /\ \A i \in 1 .. Len(answered) - Len(times) : clock - answered[i].at > Window
    BY <1>0, <2>4, TimesPruned DEF TimesAre
  <2>6. PICK L, from : L = Len(answered) /\ from = L - Len(times) + 1  OBVIOUS
  <2>7. L \in Nat /\ from \in Nat /\ from >= 1 /\ L - from + 1 = Len(times)
    BY <1>0, <2>5, <2>6
  <2>8. ASSUME NEW u \in D
        PROVE  /\ pruned[u] \in Seq(Nat)
               /\ \A i \in 1 .. Len(pruned[u]) :
                    \E j \in 1 .. L : answered[j].key[1] = u /\ answered[j].at = pruned[u][i]
               /\ \E j \in from .. L : answered[j].key[1] = u
    <3>1. PICK mine : mine = recentByUser[u]  OBVIOUS
    <3>2. /\ mine \in Seq(Nat)
          /\ \A i \in 1 .. Len(mine) : \E j \in 1 .. L : answered[j].key[1] = u /\ answered[j].at = mine[i]
      BY <2>2, <2>6, <3>1 DEF UsersAre
    <3>3. PICK n \in 0 .. Len(mine) :
            /\ n < Len(mine) => clock - mine[n + 1] <= Window
            /\ RG!Pruned(mine) \in Seq(Nat) /\ Len(RG!Pruned(mine)) = Len(mine) - n
            /\ \A i \in 1 .. Len(mine) - n : RG!Pruned(mine)[i] = mine[n + i]
      BY <1>0, <3>2, PrunedAre
    <3>4. pruned[u] = RG!Pruned(mine) /\ pruned[u] # <<>>  BY <2>1, <2>2, <3>1
    <3>5. Len(mine) \in Nat /\ n \in Nat /\ n < Len(mine)
      <4>1. Len(pruned[u]) # 0  BY <3>3, <3>4
      <4>. QED  BY <3>2, <3>3, <3>4, <4>1
    <3>6. \A i \in 1 .. Len(mine) - n : n + i \in 1 .. Len(mine)  BY <3>5
    <3>7. n + 1 \in 1 .. Len(mine)  BY <3>5
    <3>8. PICK j \in 1 .. L : answered[j].key[1] = u /\ answered[j].at = mine[n + 1]
      BY <3>2, <3>7
    <3>9. ~(clock - answered[j].at > Window)
      <4>1. mine[n + 1] \in Nat  BY <3>2, <3>7
      <4>. QED  BY <1>0, <3>3, <3>5, <3>8, <4>1
    <3>10. j \in from .. L  BY <2>5, <2>6, <2>7, <3>9
    <3>11. ASSUME NEW i \in 1 .. Len(pruned[u])
           PROVE  \E k \in 1 .. L : answered[k].key[1] = u /\ answered[k].at = pruned[u][i]
      <4>1. i \in 1 .. Len(mine) - n  BY <3>3, <3>4
      <4>2. pruned[u][i] = mine[n + i] /\ n + i \in 1 .. Len(mine)  BY <3>3, <3>4, <3>6, <4>1
      <4>. QED  BY <3>2, <4>2
    <3>. QED  BY <3>3, <3>4, <3>8, <3>10, <3>11
  <2>9. IsFiniteSet(D) /\ Cardinality(D) <= Len(times)
    <3> DEFINE f == [j \in from .. L |-> answered[j].key[1]]
               T == {f[j] : j \in from .. L}
    <3>1. IsFiniteSet(from .. L) /\ Cardinality(from .. L) = Len(times)
      <4>1. from \in Int /\ L \in Int  BY <2>7
      <4>2. IsFiniteSet(from .. L) /\ Cardinality(from .. L) = IF from > L THEN 0 ELSE L - from + 1
        BY <4>1, FS_Interval
      <4>. QED  BY <2>5, <2>7, <4>2
    <3>2. f \in [from .. L -> T] /\ \A k \in T : \E j \in from .. L : f[j] = k  OBVIOUS
    <3>3. D \subseteq T
      <4> SUFFICES ASSUME NEW u \in D PROVE u \in T  OBVIOUS
      <4>1. PICK j \in from .. L : answered[j].key[1] = u  BY <2>8
      <4>2. f[j] = u  BY <4>1
      <4>. QED  BY <4>2
    <3>. HIDE DEF f, T
    <3>4. f \in Surjection(from .. L, T)  BY <3>2 DEF Surjection
    <3>5. IsFiniteSet(T) /\ Cardinality(T) <= Cardinality(from .. L)
      BY <3>1, <3>4, FS_Surjection
    <3>6. IsFiniteSet(D) /\ Cardinality(D) <= Cardinality(T)  BY <3>3, <3>5, FS_Subset
    <3>7. Cardinality(D) \in Nat /\ Cardinality(T) \in Nat  BY <3>5, <3>6, FS_CardinalityType
    <3>. QED  BY <2>5, <3>1, <3>5, <3>6, <3>7
  <2>10. Cardinality(D) \in Nat  BY <2>9, FS_CardinalityType
  <2>11. Cardinality(D) < MaxSeenRequests  BY <1>0, <2>5, <2>9, <2>10
  <2>12. PICK swept : swept = RG!Swept  OBVIOUS
  <2>13. DOMAIN swept = D /\ \A u \in D : swept[u] = pruned[u]  BY <2>3, <2>12
  <2>14. UsersAre(swept, answered)
    <3>1. Cardinality(D) <= MaxSeenRequests  BY <1>0, <2>10, <2>11
    <3>. QED  BY <2>6, <2>8, <2>9, <2>13, <3>1 DEF UsersAre
  <2>. QED  BY <2>11, <2>12, <2>13, <2>14
<1>. QED  BY <1>1, <1>2

(* A request is answered: the log grows, and what is remembered of it.     *)
LEMMA LogGrows ==
  ASSUME NEW log \in Seq(Entry), NEW e \in Entry, NEW new, new = Append(log, e)
  PROVE  /\ new \in Seq(Entry) /\ Len(new) = Len(log) + 1 /\ new[Len(log) + 1] = e
         /\ Len(log) \in Nat /\ \A i \in 1 .. Len(log) : new[i] = log[i]
BY AppendProperties

LEMMA TimesGrow ==
  ASSUME NEW log \in Seq(Entry), NEW e \in Entry, NEW new, new = Append(log, e),
         NEW times, TimesAre(times, log), Len(times) < MaxPerWindow, MaxPerWindow \in Nat
  PROVE  TimesAre(Append(times, e.at), new)
<1>1. /\ Len(new) = Len(log) + 1 /\ new[Len(log) + 1] = e
      /\ Len(log) \in Nat /\ \A i \in 1 .. Len(log) : new[i] = log[i]
  BY LogGrows
<1>2. /\ times \in Seq(Nat) /\ Len(times) <= Len(log)
      /\ \A i \in 1 .. Len(times) : times[i] = log[Len(log) - Len(times) + i].at
      /\ \A i \in 1 .. Len(log) - Len(times) : clock - log[i].at > Window
  BY DEF TimesAre
<1>3. PICK more : more = Append(times, e.at)  OBVIOUS
<1>4. e.at \in Nat  BY DEF Entry
<1>5. /\ more \in Seq(Nat) /\ Len(more) = Len(times) + 1 /\ more[Len(times) + 1] = e.at
      /\ \A i \in 1 .. Len(times) : more[i] = times[i]
  BY <1>2, <1>3, <1>4, AppendProperties
<1>6. PICK L, l : L = Len(log) /\ l = Len(times)  OBVIOUS
<1>7. L \in Nat /\ l \in Nat /\ l <= L /\ l < MaxPerWindow  BY <1>1, <1>2, <1>6
<1>8. ASSUME NEW i \in 1 .. Len(more) PROVE more[i] = new[Len(new) - Len(more) + i].at
  <2>1. Len(new) - Len(more) + i = L - l + i  BY <1>1, <1>5, <1>6, <1>7
  <2>2. CASE i \in 1 .. l
    <3>1. L - l + i \in 1 .. L  BY <1>7, <2>2
    <3>. QED  BY <1>1, <1>2, <1>5, <1>6, <2>1, <2>2, <3>1
  <2>3. CASE i = l + 1
    <3>1. L - l + i = L + 1  BY <1>7, <2>3
    <3>. QED  BY <1>1, <1>5, <1>6, <2>1, <2>3, <3>1
  <2>4. i \in 1 .. l \/ i = l + 1  BY <1>5, <1>6, <1>7
  <2>. QED  BY <2>2, <2>3, <2>4
<1>9. ASSUME NEW i \in 1 .. Len(new) - Len(more) PROVE clock - new[i].at > Window
  <2>1. i \in 1 .. L - l /\ i \in 1 .. L  BY <1>1, <1>5, <1>6, <1>7
  <2>. QED  BY <1>1, <1>2, <1>6, <2>1
<1>10. Len(more) <= Len(new) /\ Len(more) <= MaxPerWindow  BY <1>1, <1>5, <1>6, <1>7
<1>. QED  BY <1>3, <1>5, <1>8, <1>9, <1>10 DEF TimesAre

LEMMA QueueGrows ==
  ASSUME NEW log \in Seq(Entry), NEW e \in Entry, NEW new, new = Append(log, e),
         NEW order, QueueIs(order, log), Len(order) < MaxSeenRequests, MaxSeenRequests \in Nat,
         NEW map, MapIs(map, order), e.key \notin DOMAIN map
  PROVE  /\ QueueIs(Append(order, e), new)
         /\ MapIs([k \in DOMAIN map \cup {e.key} |-> IF k = e.key THEN e.at ELSE map[k]], Append(order, e))
<1>1. /\ Len(new) = Len(log) + 1 /\ new[Len(log) + 1] = e
      /\ Len(log) \in Nat /\ \A i \in 1 .. Len(log) : new[i] = log[i]
  BY LogGrows
<1>2. /\ order \in Seq(Entry) /\ Len(order) <= Len(log)
      /\ \A i \in 1 .. Len(order) : order[i] = log[Len(log) - Len(order) + i]
      /\ \A i \in 1 .. Len(log) - Len(order) :
           clock - log[i].at > DuplicateTtl \/ Len(log) + 1 - i >= MaxSeenRequests
      /\ \A i, j \in 1 .. Len(order) : order[i].key = order[j].key => i = j
  BY DEF QueueIs
<1>3. PICK more : more = Append(order, e)  OBVIOUS
<1>5. /\ more \in Seq(Entry) /\ Len(more) = Len(order) + 1 /\ more[Len(order) + 1] = e
      /\ \A i \in 1 .. Len(order) : more[i] = order[i]
  BY <1>2, <1>3, AppendProperties
<1>6. PICK L, l : L = Len(log) /\ l = Len(order)  OBVIOUS
<1>7. L \in Nat /\ l \in Nat /\ l <= L /\ l < MaxSeenRequests  BY <1>1, <1>2, <1>6
<1>8. \A i \in 1 .. Len(more) : i \in 1 .. l \/ i = l + 1  BY <1>5, <1>6, <1>7
<1>9. ASSUME NEW i \in 1 .. Len(more) PROVE more[i] = new[Len(new) - Len(more) + i]
  <2>1. Len(new) - Len(more) + i = L - l + i  BY <1>1, <1>5, <1>6, <1>7
  <2>2. CASE i \in 1 .. l
    <3>1. L - l + i \in 1 .. L  BY <1>7, <2>2
    <3>. QED  BY <1>1, <1>2, <1>5, <1>6, <2>1, <2>2, <3>1
  <2>3. CASE i = l + 1
    <3>1. L - l + i = L + 1  BY <1>7, <2>3
    <3>. QED  BY <1>1, <1>5, <1>6, <2>1, <2>3, <3>1
  <2>. QED  BY <1>8, <2>2, <2>3
<1>10. ASSUME NEW i \in 1 .. Len(new) - Len(more)
       PROVE  clock - new[i].at > DuplicateTtl \/ Len(new) + 1 - i >= MaxSeenRequests
  <2>1. i \in 1 .. L - l /\ i \in 1 .. L  BY <1>1, <1>5, <1>6, <1>7
  <2>2. new[i] = log[i] /\ (clock - log[i].at > DuplicateTtl \/ L + 1 - i >= MaxSeenRequests)
    BY <1>1, <1>2, <1>6, <2>1
  <2>3. L + 1 - i >= MaxSeenRequests => Len(new) + 1 - i >= MaxSeenRequests
    BY <1>1, <1>6, <1>7, <2>1
  <2>. QED  BY <2>2, <2>3
<1>11. \A i \in 1 .. l : order[i].key \in DOMAIN map  BY <1>6 DEF MapIs
<1>12. ASSUME NEW i \in 1 .. Len(more), NEW j \in 1 .. Len(more), more[i].key = more[j].key PROVE i = j
  <2>1. CASE i \in 1 .. l /\ j \in 1 .. l  BY <1>2, <1>5, <1>6, <1>12, <2>1
  <2>2. CASE i \in 1 .. l /\ j = l + 1
    <3>1. more[i].key \in DOMAIN map /\ more[j].key = e.key  BY <1>5, <1>6, <1>11, <2>2
    <3>. QED  BY <1>12, <3>1
  <2>3. CASE i = l + 1 /\ j \in 1 .. l
    <3>1. more[j].key \in DOMAIN map /\ more[i].key = e.key  BY <1>5, <1>6, <1>11, <2>3
    <3>. QED  BY <1>12, <3>1
  <2>. QED  BY <1>8, <2>1, <2>2, <2>3
<1>13. QueueIs(more, new)
  <2>1. Len(more) <= Len(new) /\ Len(more) <= MaxSeenRequests  BY <1>1, <1>5, <1>6, <1>7
  <2>. QED  BY <1>5, <1>9, <1>10, <1>12, <2>1 DEF QueueIs
<1>14. PICK bigger : bigger = [k \in DOMAIN map \cup {e.key} |-> IF k = e.key THEN e.at ELSE map[k]]
  OBVIOUS
<1>15. MapIs(bigger, more)
  <2>1. DOMAIN map = {order[i].key : i \in 1 .. l} /\ \A i \in 1 .. l : map[order[i].key] = order[i].at
    BY <1>6 DEF MapIs
  <2>2. DOMAIN bigger \subseteq {more[i].key : i \in 1 .. Len(more)}
    <3> SUFFICES ASSUME NEW k \in DOMAIN bigger PROVE \E i \in 1 .. Len(more) : more[i].key = k  OBVIOUS
    <3>1. CASE k = e.key
      <4>1. l + 1 \in 1 .. Len(more)  BY <1>5, <1>6, <1>7
      <4>. QED  BY <1>5, <1>6, <3>1, <4>1
    <3>2. CASE k \in DOMAIN map
      <4>1. PICK i \in 1 .. l : order[i].key = k  BY <2>1, <3>2
      <4>2. i \in 1 .. Len(more)  BY <1>5, <1>6, <1>7
      <4>. QED  BY <1>5, <1>6, <4>1, <4>2
    <3>. QED  BY <1>14, <3>1, <3>2
  <2>3. ASSUME NEW i \in 1 .. Len(more)
        PROVE  more[i].key \in DOMAIN bigger /\ bigger[more[i].key] = more[i].at
    <3>1. CASE i = l + 1  BY <1>5, <1>6, <1>14, <3>1
    <3>2. CASE i \in 1 .. l
      <4>1. more[i] = order[i] /\ order[i].key \in DOMAIN map /\ order[i].key # e.key
        BY <1>5, <1>6, <1>11, <3>2
      <4>. QED  BY <1>14, <2>1, <3>2, <4>1
    <3>. QED  BY <1>8, <3>1, <3>2
  <2>4. {more[i].key : i \in 1 .. Len(more)} \subseteq DOMAIN bigger  BY <2>3
  <2>. QED  BY <2>2, <2>3, <2>4 DEF MapIs
<1>. QED  BY <1>3, <1>13, <1>14, <1>15

Extends(new, log) ==
  /\ Len(log) \in Nat /\ Len(new) \in Nat /\ Len(log) <= Len(new)
  /\ \A i \in 1 .. Len(log) : new[i] = log[i]
TimesOf(times, u, log) ==
  /\ times \in Seq(Nat)
  /\ \A i \in 1 .. Len(times) : \E j \in 1 .. Len(log) : log[j].key[1] = u /\ log[j].at = times[i]
Written(more, map, u, times) == more = [v \in DOMAIN map \cup {u} |-> IF v = u THEN times ELSE map[v]]

LEMMA UsersGrow ==
  ASSUME NEW log, NEW new, Extends(new, log), MaxSeenRequests \in Nat,
         NEW map, UsersAre(map, log), Cardinality(DOMAIN map) < MaxSeenRequests,
         NEW u, NEW times, TimesOf(times, u, new), NEW more, Written(more, map, u, times)
  PROVE  UsersAre(more, new)
<1>0. /\ Len(log) \in Nat /\ Len(new) \in Nat /\ Len(log) <= Len(new)
      /\ \A i \in 1 .. Len(log) : new[i] = log[i]
      /\ times \in Seq(Nat)
      /\ \A i \in 1 .. Len(times) : \E j \in 1 .. Len(new) : new[j].key[1] = u /\ new[j].at = times[i]
      /\ DOMAIN more = DOMAIN map \cup {u}
      /\ \A v \in DOMAIN more : more[v] = IF v = u THEN times ELSE map[v]
  BY DEF Extends, TimesOf, Written
<1>2. DOMAIN more = DOMAIN map \cup {u}  BY <1>0
<1>3. IsFiniteSet(DOMAIN more) /\ Cardinality(DOMAIN more) <= MaxSeenRequests
  <2>1. IsFiniteSet(DOMAIN map)  BY DEF UsersAre
  <2>2. /\ IsFiniteSet(DOMAIN map \cup {u})
        /\ Cardinality(DOMAIN map \cup {u}) = IF u \in DOMAIN map THEN Cardinality(DOMAIN map)
                                              ELSE Cardinality(DOMAIN map) + 1
    BY <2>1, FS_AddElement
  <2>3. Cardinality(DOMAIN map) \in Nat  BY <2>1, FS_CardinalityType
  <2>. QED  BY <1>2, <2>2, <2>3
<1>4. \A v \in DOMAIN more : more[v] = IF v = u THEN times ELSE map[v]  BY <1>0
<1>5. \A v \in DOMAIN more : more[v] \in Seq(Nat)  BY <1>0, <1>2, <1>4 DEF UsersAre
<1>6. ASSUME NEW v \in DOMAIN more, NEW i \in 1 .. Len(more[v])
      PROVE  \E j \in 1 .. Len(new) : new[j].key[1] = v /\ new[j].at = more[v][i]
  <2>1. CASE v = u  BY <1>0, <1>4, <2>1, <1>6
  <2>2. CASE v # u
    <3>1. v \in DOMAIN map /\ more[v] = map[v]  BY <1>2, <1>4, <2>2
    <3>2. PICK j \in 1 .. Len(log) : log[j].key[1] = v /\ log[j].at = map[v][i]
      BY <3>1, <1>6 DEF UsersAre
    <3>3. j \in 1 .. Len(new)  BY <1>0, <3>2
    <3>. QED  BY <1>0, <3>1, <3>2, <3>3
  <2>. QED  BY <2>1, <2>2
<1>7. \A v \in DOMAIN more : \A i \in 1 .. Len(more[v]) :
        \E j \in 1 .. Len(new) : new[j].key[1] = v /\ new[j].at = more[v][i]
  BY <1>6
<1>. QED  BY <1>3, <1>5, <1>7 DEF UsersAre

LEMMA ApartGrows ==
  ASSUME GuardConstants, clock \in Nat,
         NEW log \in Seq(Entry), NEW e \in Entry, NEW new, new = Append(log, e), e.at = clock,
         Apart(log), NEW times, TimesAre(times, log), Len(times) < MaxPerWindow,
         NEW order, QueueIs(order, log), NEW map, MapIs(map, order), e.key \notin DOMAIN map
  PROVE  Apart(new)
<1>0. MaxPerWindow \in Nat /\ MaxSeenRequests \in Nat /\ 0 < MaxPerWindow
  <2>1. MaxPerWindow \in Nat /\ MaxSeenRequests \in Nat  BY DEF GuardConstants
  <2>2. Len(times) \in Nat
    <3>1. times \in Seq(Nat)  BY DEF TimesAre
    <3>. QED  BY <3>1
  <2>. QED  BY <2>1, <2>2
<1>1. /\ Len(new) = Len(log) + 1 /\ new[Len(log) + 1] = e
      /\ Len(log) \in Nat /\ \A i \in 1 .. Len(log) : new[i] = log[i]
  BY LogGrows
<1>2. PICK L : L = Len(log)  OBVIOUS
<1>3. ASSUME NEW i \in 1 .. Len(new), NEW j \in 1 .. Len(new)
      PROVE  /\ i < j /\ new[i].key = new[j].key =>
                  new[j].at - new[i].at > DuplicateTtl \/ j - i >= MaxSeenRequests
             /\ j - i >= MaxPerWindow => new[j].at - new[i].at > Window
  <2>1. CASE i \in 1 .. L /\ j \in 1 .. L
    <3>1. new[i] = log[i] /\ new[j] = log[j]  BY <1>1, <1>2, <2>1
    <3>. QED  BY <1>2, <2>1, <3>1 DEF Apart
  <2>2. CASE i \in 1 .. L /\ j = L + 1
    <3>1. new[i] = log[i] /\ new[j] = e  BY <1>1, <1>2, <2>2
    <3>2. ASSUME log[i].key = e.key PROVE clock - log[i].at > DuplicateTtl \/ j - i >= MaxSeenRequests
      <4>1. order \in Seq(Entry) /\ Len(order) <= L  BY <1>2 DEF QueueIs
      <4>2. PICK l : l = Len(order)  OBVIOUS
      <4>3. l \in Nat /\ L \in Nat /\ l <= L  BY <1>1, <1>2, <4>1, <4>2
      <4>4. CASE i \in 1 .. L - l
        BY <1>2, <2>2, <4>2, <4>4 DEF QueueIs
      <4>5. CASE i \notin 1 .. L - l
        <5>1. PICK k : k = i - (L - l)  OBVIOUS
        <5>2. k \in 1 .. l /\ L - l + k = i  BY <2>2, <4>3, <4>5, <5>1
        <5>3. order[k] = log[i]  BY <1>2, <4>2, <5>2 DEF QueueIs
        <5>4. order[k].key \in DOMAIN map  BY <4>2, <5>2 DEF MapIs
        <5>. QED  BY <3>2, <5>3, <5>4
      <4>. QED  BY <4>4, <4>5
    <3>3. ASSUME j - i >= MaxPerWindow PROVE clock - log[i].at > Window
      <4>1. times \in Seq(Nat) /\ Len(times) <= L  BY <1>2 DEF TimesAre
      <4>2. i \in 1 .. L - Len(times)  BY <1>0, <1>1, <1>2, <2>2, <3>3, <4>1
      <4>. QED  BY <1>2, <4>2 DEF TimesAre
    <3>. QED  BY <3>1, <3>2, <3>3
  <2>3. CASE i = L + 1
    <3>1. ~(i < j) /\ ~(j - i >= MaxPerWindow)  BY <1>0, <1>1, <1>2, <2>3
    <3>. QED  BY <3>1
  <2>4. (i \in 1 .. L \/ i = L + 1) /\ (j \in 1 .. L \/ j = L + 1)  BY <1>1, <1>2
  <2>. QED  BY <2>1, <2>2, <2>3, <2>4
<1>. QED  BY <1>3 DEF Apart

(* A guard that has seen nothing.                                          *)
LEMMA EmptyGuard ==
  ASSUME GuardConstants
  PROVE  /\ Apart(<<>>) /\ TimesAre(<<>>, <<>>) /\ QueueIs(<<>>, <<>>) /\ <<>> \in Seq(Entry)
         /\ \A map : DOMAIN map = {} => MapIs(map, <<>>) /\ UsersAre(map, <<>>)
<1>1. MaxPerWindow \in Nat /\ MaxSeenRequests \in Nat  BY DEF GuardConstants
<1>2. Len(<<>>) = 0 /\ <<>> \in Seq(Nat) /\ <<>> \in Seq(Entry) /\ 1 .. 0 = {}  OBVIOUS
<1>3. Apart(<<>>)  BY <1>2 DEF Apart
<1>4. TimesAre(<<>>, <<>>)  BY <1>1, <1>2 DEF TimesAre
<1>5. QueueIs(<<>>, <<>>)  BY <1>1, <1>2 DEF QueueIs
<1>6. ASSUME NEW map, DOMAIN map = {} PROVE MapIs(map, <<>>) /\ UsersAre(map, <<>>)
  BY <1>1, <1>2, <1>6, FS_EmptySet DEF MapIs, UsersAre
<1>. QED  BY <1>2, <1>3, <1>4, <1>5, <1>6

LEMMA GuardInvInit == RG!GuardInit /\ GuardConstants => GuardInv
<1>. SUFFICES ASSUME RG!GuardInit, GuardConstants PROVE GuardInv  OBVIOUS
<1>1. /\ clock = 0 /\ recent = <<>> /\ DOMAIN recentByUser = {} /\ DOMAIN seen = {}
      /\ seenOrder = <<>> /\ answered = <<>>
  BY DEF RG!GuardInit, RG!EmptyMap
<1>2. /\ Apart(<<>>) /\ TimesAre(<<>>, <<>>) /\ QueueIs(<<>>, <<>>) /\ <<>> \in Seq(Entry)
      /\ MapIs(seen, <<>>) /\ UsersAre(recentByUser, <<>>)
  BY <1>1, EmptyGuard
<1>3. AnsweredInv  BY <1>1, <1>2 DEF AnsweredInv
<1>. QED  BY <1>1, <1>2, <1>3 DEF GuardInv

(* One request is looked at.                                               *)
LEMMA GuardAdmits ==
  ASSUME GuardConstants, GuardInv, NEW u \in Requester, NEW t \in SearchToken, RG!Admit(u, t)
  PROVE  GuardInv'
<1>0. /\ Window \in Nat /\ MaxPerWindow \in Nat /\ MaxSeenRequests \in Nat
      /\ clock \in Nat /\ answered \in Seq(Entry)
      /\ AnsweredInv /\ TimesAre(recent, answered) /\ QueueIs(seenOrder, answered) /\ MapIs(seen, seenOrder)
      /\ UsersAre(recentByUser, answered)
  BY DEF GuardConstants, GuardInv, AnsweredInv
<1>1. PICK key, n, left, order : key = <<u, t>> /\ n = RG!Drops /\ left = RG!Left(n)
        /\ order = SubSeq(seenOrder, n + 1, Len(seenOrder))
  OBVIOUS
<1>2. PICK times, swept : times = RG!Pruned(recent) /\ swept = RG!Swept  OBVIOUS
<1>3. PICK mine : mine = RG!Pruned(IF u \in DOMAIN swept THEN swept[u] ELSE <<>>)  OBVIOUS
<1>4. /\ clock' = clock
      /\ \/ /\ key \in DOMAIN left
            /\ recentByUser' = swept
            /\ recent' = times /\ seen' = left /\ seenOrder' = order
            /\ answered' = answered
         \/ /\ key \notin DOMAIN left
            /\ recentByUser' = [v \in DOMAIN swept \cup {u} |-> IF v = u THEN mine ELSE swept[v]]
            /\ recent' = times /\ seen' = left /\ seenOrder' = order
            /\ answered' = answered
         \/ /\ key \notin DOMAIN left /\ Len(times) < MaxPerWindow
            /\ recentByUser' = [v \in DOMAIN swept \cup {u} |-> IF v = u THEN Append(mine, clock) ELSE swept[v]]
            /\ recent' = Append(times, clock)
            /\ seen' = [k \in DOMAIN left \cup {key} |-> IF k = key THEN clock ELSE left[k]]
            /\ seenOrder' = Append(order, [key |-> key, at |-> clock])
            /\ answered' = Append(answered, [key |-> key, at |-> clock])
  BY <1>1, <1>2, <1>3 DEF RG!Admit
<1>5. QueueIs(order, answered) /\ MapIs(left, order) /\ Len(order) < MaxSeenRequests
  BY <1>0, <1>1, QueueDropped
<1>6. TimesAre(times, answered)  BY <1>0, <1>2, TimesPruned
<1>7. UsersAre(swept, answered) /\ Cardinality(DOMAIN swept) < MaxSeenRequests
  BY <1>0, <1>2, UsersSwept
<1>8. /\ mine \in Seq(Nat)
      /\ \A i \in 1 .. Len(mine) :
           \E j \in 1 .. Len(answered) : answered[j].key[1] = u /\ answered[j].at = mine[i]
  <2>1. PICK old : old = IF u \in DOMAIN swept THEN swept[u] ELSE <<>>  OBVIOUS
  <2>2. /\ old \in Seq(Nat)
        /\ \A i \in 1 .. Len(old) :
             \E j \in 1 .. Len(answered) : answered[j].key[1] = u /\ answered[j].at = old[i]
    BY <1>7, <2>1 DEF UsersAre
  <2>3. PICK k \in 0 .. Len(old) :
          /\ RG!Pruned(old) \in Seq(Nat) /\ Len(RG!Pruned(old)) = Len(old) - k
          /\ \A i \in 1 .. Len(old) - k : RG!Pruned(old)[i] = old[k + i]
    BY <1>0, <2>2, PrunedAre
  <2>4. mine = RG!Pruned(old)  BY <1>3, <2>1
  <2>5. Len(old) \in Nat  BY <2>2
  <2>6. ASSUME NEW i \in 1 .. Len(mine)
        PROVE  \E j \in 1 .. Len(answered) : answered[j].key[1] = u /\ answered[j].at = mine[i]
    <3>1. i \in 1 .. Len(old) - k  BY <2>3, <2>4
    <3>2. mine[i] = old[k + i] /\ k + i \in 1 .. Len(old)  BY <2>3, <2>4, <2>5, <3>1
    <3>. QED  BY <2>2, <3>2
  <2>. QED  BY <2>3, <2>4, <2>6
<1>9. CASE /\ recent' = times /\ seen' = left /\ seenOrder' = order
           /\ answered' = answered /\ UsersAre(recentByUser', answered)
  <2>1. AnsweredInv'  BY <1>0, <1>4, <1>9 DEF AnsweredInv, Apart
  <2>2. TimesAre(recent, answered)'  BY <1>4, <1>6, <1>9 DEF TimesAre
  <2>3. QueueIs(seenOrder, answered)'  BY <1>4, <1>5, <1>9 DEF QueueIs
  <2>4. MapIs(seen, seenOrder)'  BY <1>5, <1>9 DEF MapIs
  <2>5. UsersAre(recentByUser, answered)'  BY <1>9 DEF UsersAre
  <2>. QED  BY <2>1, <2>2, <2>3, <2>4, <2>5 DEF GuardInv
<1>10. Len(answered) \in Nat  BY <1>0
<1>11. UsersAre([v \in DOMAIN swept \cup {u} |-> IF v = u THEN mine ELSE swept[v]], answered)
  <2>1. PICK log : log = answered  OBVIOUS
  <2>2. Extends(log, log) /\ TimesOf(mine, u, log) /\ UsersAre(swept, log)
    BY <1>7, <1>8, <1>10, <2>1 DEF Extends, TimesOf
  <2>3. PICK map : map = [v \in DOMAIN swept \cup {u} |-> IF v = u THEN mine ELSE swept[v]]  OBVIOUS
  <2>4. Written(map, swept, u, mine)  BY <2>3 DEF Written
  <2>5. UsersAre(map, log)
    BY <1>0, <1>7, <2>2, <2>4, UsersGrow
  <2>. QED  BY <2>1, <2>3, <2>5
<1>12. CASE /\ key \notin DOMAIN left /\ Len(times) < MaxPerWindow
            /\ recentByUser' = [v \in DOMAIN swept \cup {u} |-> IF v = u THEN Append(mine, clock) ELSE swept[v]]
            /\ recent' = Append(times, clock)
            /\ seen' = [k \in DOMAIN left \cup {key} |-> IF k = key THEN clock ELSE left[k]]
            /\ seenOrder' = Append(order, [key |-> key, at |-> clock])
            /\ answered' = Append(answered, [key |-> key, at |-> clock])
  <2>1. PICK e : e = [key |-> key, at |-> clock]  OBVIOUS
  <2>2. e \in Entry /\ e.key = key /\ e.at = clock /\ key[1] = u  BY <1>0, <1>1, <2>1 DEF Entry
  <2>3. PICK new : new = Append(answered, e)  OBVIOUS
  <2>4. /\ new \in Seq(Entry) /\ Len(new) = Len(answered) + 1 /\ new[Len(answered) + 1] = e
        /\ \A i \in 1 .. Len(answered) : new[i] = answered[i]
    BY <1>0, <2>2, <2>3, LogGrows
  <2>5. answered' = new  BY <1>12, <2>1, <2>3
  <2>6. AnsweredInv'
    <3>1. Apart(answered) /\ \A i \in 1 .. Len(answered) : answered[i].at <= clock
      BY <1>0 DEF AnsweredInv
    <3>2. Apart(new)
      <4>1. Len(times) < MaxPerWindow /\ e.key \notin DOMAIN left  BY <1>12, <2>2
      <4>. QED  BY <1>0, <1>5, <1>6, <2>2, <2>3, <3>1, <4>1, ApartGrows
    <3>3. \A i \in 1 .. Len(new) : new[i].at <= clock
      <4>1. \A i \in 1 .. Len(new) : i \in 1 .. Len(answered) \/ i = Len(answered) + 1  BY <1>10, <2>4
      <4>2. e.at <= clock  BY <1>0, <2>2
      <4>. QED  BY <2>4, <3>1, <4>1, <4>2
    <3>. QED  BY <1>0, <1>4, <2>4, <2>5, <3>2, <3>3 DEF AnsweredInv, Apart
  <2>7. TimesAre(recent, answered)'
    <3>1. TimesAre(Append(times, e.at), new)  BY <1>0, <1>6, <1>12, <2>2, <2>3, TimesGrow
    <3>2. recent' = Append(times, e.at)  BY <1>12, <2>2
    <3>. QED  BY <1>4, <2>5, <3>1, <3>2 DEF TimesAre
  <2>8. QueueIs(seenOrder, answered)' /\ MapIs(seen, seenOrder)'
    <3>1. e.key \notin DOMAIN left  BY <1>12, <2>2
    <3>2. /\ QueueIs(Append(order, e), new)
          /\ MapIs([k \in DOMAIN left \cup {e.key} |-> IF k = e.key THEN e.at ELSE left[k]], Append(order, e))
      BY <1>0, <1>5, <2>2, <2>3, <3>1, QueueGrows
    <3>3. PICK q, map : q = Append(order, e)
            /\ map = [k \in DOMAIN left \cup {e.key} |-> IF k = e.key THEN e.at ELSE left[k]]
      OBVIOUS
    <3>4. seenOrder' = q /\ seen' = map  BY <1>12, <2>1, <2>2, <3>3
    <3>5. QueueIs(q, new) /\ MapIs(map, q)  BY <3>2, <3>3
    <3>. QED  BY <1>4, <2>5, <3>4, <3>5 DEF QueueIs, MapIs
  <2>9. UsersAre(recentByUser, answered)'
    <3>1. PICK more : more = Append(mine, clock)  OBVIOUS
    <3>2. /\ more \in Seq(Nat) /\ Len(more) = Len(mine) + 1 /\ more[Len(mine) + 1] = clock
          /\ Len(mine) \in Nat /\ \A i \in 1 .. Len(mine) : more[i] = mine[i]
      BY <1>0, <1>8, <3>1, AppendProperties
    <3>3. ASSUME NEW i \in 1 .. Len(more)
          PROVE  \E j \in 1 .. Len(new) : new[j].key[1] = u /\ new[j].at = more[i]
      <4>1. CASE i \in 1 .. Len(mine)
        <5>1. PICK j \in 1 .. Len(answered) : answered[j].key[1] = u /\ answered[j].at = mine[i]
          BY <1>8, <4>1
        <5>2. j \in 1 .. Len(new)  BY <1>10, <2>4
        <5>. QED  BY <2>4, <3>2, <4>1, <5>1, <5>2
      <4>2. CASE i = Len(mine) + 1
        <5>1. Len(answered) + 1 \in 1 .. Len(new)  BY <1>10, <2>4
        <5>2. new[Len(answered) + 1].key[1] = u /\ new[Len(answered) + 1].at = more[i]
          BY <2>2, <2>4, <3>2, <4>2
        <5>. QED  BY <5>1, <5>2
      <4>. QED  BY <3>2, <4>1, <4>2
    <3>4. Len(new) \in Nat /\ Len(answered) <= Len(new)  BY <1>10, <2>4
    <3>6. PICK map : map = [v \in DOMAIN swept \cup {u} |-> IF v = u THEN more ELSE swept[v]]  OBVIOUS
    <3>5. UsersAre(map, new)
      <4>1. PICK log : log = answered  OBVIOUS
      <4>2. Extends(new, log) /\ UsersAre(swept, log)
        BY <1>7, <1>10, <2>4, <3>4, <4>1 DEF Extends
      <4>3. TimesOf(more, u, new)  BY <3>2, <3>3 DEF TimesOf
      <4>4. Written(map, swept, u, more)  BY <3>6 DEF Written
      <4>. QED  BY <1>0, <1>7, <4>2, <4>3, <4>4, UsersGrow
    <3>7. recentByUser' = map /\ UsersAre(map, new)  BY <1>12, <3>1, <3>5, <3>6
    <3>. QED  BY <2>5, <3>7 DEF UsersAre
  <2>. QED  BY <2>6, <2>7, <2>8, <2>9 DEF GuardInv
<1>. QED  BY <1>4, <1>7, <1>9, <1>11, <1>12

LEMMA GuardInvStep ==
  GuardConstants /\ GuardInv /\ [WireNext]_wireVars => GuardInv'
<1>. SUFFICES ASSUME GuardConstants, GuardInv, [WireNext]_wireVars PROVE GuardInv'
  OBVIOUS
<1>1. CASE RG!GuardNext
  <2>1. ASSUME NEW u \in Requester, NEW t \in SearchToken, RG!Admit(u, t) PROVE GuardInv'
    BY <2>1, GuardAdmits
  <2>2. CASE RG!NewGuard
    <3>1. /\ clock' = clock /\ recent' = <<>> /\ DOMAIN recentByUser' = {} /\ DOMAIN seen' = {}
          /\ seenOrder' = <<>> /\ answered' = <<>>
      BY <2>2 DEF RG!NewGuard, RG!EmptyMap
    <3>2. clock' \in Nat  BY <3>1 DEF GuardInv, AnsweredInv
    <3>3. PICK map, users : map = seen' /\ users = recentByUser'  OBVIOUS
    <3>4. /\ Apart(<<>>) /\ TimesAre(<<>>, <<>>) /\ QueueIs(<<>>, <<>>) /\ <<>> \in Seq(Entry)
          /\ MapIs(map, <<>>) /\ UsersAre(users, <<>>)
      BY <3>1, <3>3, EmptyGuard
    <3>5. AnsweredInv'  BY <3>1, <3>2, <3>4 DEF AnsweredInv, Apart
    <3>6. TimesAre(recent, answered)'  BY <3>1, <3>4 DEF TimesAre
    <3>7. QueueIs(seenOrder, answered)'  BY <3>1, <3>4 DEF QueueIs
    <3>8. MapIs(seen, seenOrder)' /\ UsersAre(recentByUser, answered)'
      BY <3>1, <3>3, <3>4 DEF MapIs, UsersAre
    <3>. QED  BY <3>5, <3>6, <3>7, <3>8 DEF GuardInv
  <2>3. CASE RG!Tick
    <3>1. clock' = clock + 1 /\ UNCHANGED <<recent, recentByUser, seen, seenOrder, answered>>
      BY <2>3 DEF RG!Tick
    <3>2. clock \in Nat /\ clock' \in Nat /\ answered \in Seq(Entry)  BY <3>1 DEF GuardInv, AnsweredInv
    <3>3. \A i \in 1 .. Len(answered) : answered[i].at \in Nat
      <4>1. \A i \in 1 .. Len(answered) : answered[i] \in Entry  BY <3>2
      <4>. QED  BY <4>1 DEF Entry
    <3>4. AnsweredInv'
      <4>1. \A i \in 1 .. Len(answered) : answered[i].at <= clock  BY DEF GuardInv, AnsweredInv
      <4>2. \A i \in 1 .. Len(answered) : answered[i].at <= clock'  BY <3>1, <3>2, <3>3, <4>1
      <4>3. Apart(answered)'  BY <3>1 DEF GuardInv, AnsweredInv, Apart
      <4>. QED  BY <3>1, <3>2, <4>2, <4>3 DEF AnsweredInv
    <3>5. TimesAre(recent, answered)'
      <4>1. TimesAre(recent, answered)  BY DEF GuardInv
      <4>2. recent \in Seq(Nat) /\ Len(recent) \in Nat /\ Len(answered) \in Nat
        <5>1. recent \in Seq(Nat)  BY <4>1 DEF TimesAre
        <5>. QED  BY <3>2, <5>1
      <4>3. ASSUME NEW i \in 1 .. Len(answered) - Len(recent) PROVE clock' - answered[i].at > Window
        <5>1. clock - answered[i].at > Window  BY <4>1 DEF TimesAre
        <5>2. i \in 1 .. Len(answered)  BY <4>2
        <5>3. Window \in Nat /\ answered[i].at \in Nat  BY <3>3, <5>2 DEF GuardConstants
        <5>. QED  BY <3>1, <3>2, <5>1, <5>3
      <4>. QED  BY <3>1, <4>1, <4>3 DEF TimesAre
    <3>6. QueueIs(seenOrder, answered)'
      <4>1. QueueIs(seenOrder, answered)  BY DEF GuardInv
      <4>2. seenOrder \in Seq(Entry) /\ Len(seenOrder) \in Nat /\ Len(answered) \in Nat
        <5>1. seenOrder \in Seq(Entry)  BY <4>1 DEF QueueIs
        <5>. QED  BY <3>2, <5>1
      <4>3. ASSUME NEW i \in 1 .. Len(answered) - Len(seenOrder)
            PROVE  clock' - answered[i].at > DuplicateTtl \/ Len(answered) + 1 - i >= MaxSeenRequests
        <5>1. clock - answered[i].at > DuplicateTtl \/ Len(answered) + 1 - i >= MaxSeenRequests
          BY <4>1 DEF QueueIs
        <5>2. i \in 1 .. Len(answered)  BY <4>2
        <5>3. DuplicateTtl \in Nat /\ answered[i].at \in Nat  BY <3>3, <5>2 DEF GuardConstants
        <5>. QED  BY <3>1, <3>2, <5>1, <5>3
      <4>. QED  BY <3>1, <4>1, <4>3 DEF QueueIs
    <3>7. MapIs(seen, seenOrder)' /\ UsersAre(recentByUser, answered)'
      BY <3>1 DEF GuardInv, MapIs, UsersAre
    <3>. QED  BY <3>4, <3>5, <3>6, <3>7 DEF GuardInv
  <2>. QED  BY <1>1, <2>1, <2>2, <2>3 DEF RG!GuardNext
<1>2. CASE UNCHANGED guardVars
  <2>1. UNCHANGED <<clock, recent, recentByUser, seen, seenOrder, answered>>  BY <1>2 DEF guardVars
  <2>. QED  BY <2>1 DEF GuardInv, AnsweredInv, TimesAre, QueueIs, MapIs, UsersAre, Apart
<1>. QED
  BY <1>1, <1>2 DEF WireNext, wireVars, limitVars, TurnsNext, RequestsNext, BranchNext,
     SearchesNext, WantedNext, ShelfNext, GuardNext, BandwidthNext, CatalogueNext, DiscoveryNext

LEMMA GuardInvHolds == GuardInv => RG!GuardIsBounded /\ RG!NoRequestTwice
<1>. SUFFICES ASSUME GuardInv PROVE RG!GuardIsBounded /\ RG!NoRequestTwice  OBVIOUS
<1>1. answered \in Seq(Entry) /\ Apart(answered)  BY DEF GuardInv, AnsweredInv
<1>2. RG!NoRequestTwice  BY <1>1 DEF RG!NoRequestTwice, Apart
<1>3. /\ QueueIs(seenOrder, answered) /\ MapIs(seen, seenOrder) /\ UsersAre(recentByUser, answered)
  BY DEF GuardInv
<1>4. seenOrder \in Seq(Entry) /\ Len(seenOrder) \in Nat /\ Len(seenOrder) <= MaxSeenRequests
  <2>1. seenOrder \in Seq(Entry)  BY <1>3 DEF QueueIs
  <2>. QED  BY <1>3, <2>1 DEF QueueIs
<1>5. Cardinality(DOMAIN seen) = Len(seenOrder)
  <2>1. RG!Left(0) = [k \in DOMAIN seen |-> seen[k]]
    <3>1. {seenOrder[i].key : i \in {j \in 1 .. 0 : seen[seenOrder[j].key] = seenOrder[j].at}} = {}
      OBVIOUS
    <3>. QED  BY <3>1 DEF RG!Left, RG!Without, RG!Restrict
  <2>2. 0 \in 0 .. Len(seenOrder)  BY <1>4
  <2>3. Cardinality(DOMAIN RG!Left(0)) = Len(seenOrder) - 0  BY <1>3, <2>2, LeftIs
  <2>4. DOMAIN RG!Left(0) = DOMAIN seen  BY <2>1
  <2>. QED  BY <1>4, <2>3, <2>4
<1>6. \A k \in DOMAIN seen : \E i \in DOMAIN seenOrder : seenOrder[i] = [key |-> k, at |-> seen[k]]
  <2> SUFFICES ASSUME NEW k \in DOMAIN seen
               PROVE  \E i \in DOMAIN seenOrder : seenOrder[i] = [key |-> k, at |-> seen[k]]
    OBVIOUS
  <2>1. PICK i \in 1 .. Len(seenOrder) : seenOrder[i].key = k  BY <1>3 DEF MapIs
  <2>2. seen[k] = seenOrder[i].at  BY <1>3, <2>1 DEF MapIs
  <2>3. seenOrder[i] \in Entry /\ i \in DOMAIN seenOrder  BY <1>4
  <2>4. seenOrder[i] = [key |-> k, at |-> seen[k]]  BY <2>1, <2>2, <2>3 DEF Entry
  <2>. QED  BY <2>3, <2>4
<1>7. RG!GuardIsBounded
  BY <1>3, <1>4, <1>5, <1>6 DEF RG!GuardIsBounded, UsersAre, RG!Cardinality, Cardinality
<1>. QED  BY <1>2, <1>7

-----------------------------------------------------------------------------
(* The sum of c over the subsets of S, by taking out one element after the *)
(* other (FoldSet).                                                        *)
Some(s) == CHOOSE x \in s : TRUE
SumsUp(g, S, c) ==
  g = [s \in SUBSET S |-> IF s = {} THEN 0 ELSE g[s \ {Some(s)}] + c[Some(s)]]

LEMMA SomeIsIn == \A s : s # {} => Some(s) \in s
BY DEF Some

LEMMA WithoutOne ==
  ASSUME NEW S, IsFiniteSet(S), NEW s \in SUBSET S, NEW x \in s
  PROVE  /\ IsFiniteSet(s) /\ s \ {x} \in SUBSET S
         /\ Cardinality(s) \in Nat /\ Cardinality(s \ {x}) = Cardinality(s) - 1 /\ Cardinality(s) # 0
<1>1. IsFiniteSet(s)  BY FS_Subset
<1>2. Cardinality(s) \in Nat /\ Cardinality(s \ {x}) = Cardinality(s) - 1
  BY <1>1, FS_RemoveElement, FS_CardinalityType
<1>3. Cardinality(s) # 0  BY <1>1, FS_EmptySet
<1>. QED  BY <1>1, <1>2, <1>3

(* Every finite set has a sum: one for the sets of at most n elements      *)
(* extends to those of one more.                                           *)
LEMMA SumExists ==
  ASSUME NEW S, IsFiniteSet(S), NEW c \in [S -> Nat]
  PROVE  \E g : SumsUp(g, S, c) /\ g \in [SUBSET S -> Nat]
<1> DEFINE Small(n) == {s \in SUBSET S : Cardinality(s) <= n}
           Level(g, n) == /\ g \in [Small(n) -> Nat]
                          /\ \A s \in Small(n) : g[s] = IF s = {} THEN 0 ELSE g[s \ {Some(s)}] + c[Some(s)]
           Bad == {n \in Nat : ~\E g : Level(g, n)}
<1>1. Bad = {}
  <2>1. SUFFICES ASSUME Bad # {} PROVE FALSE  OBVIOUS
  <2>2. PICK n \in Bad : \A k \in Bad : n <= k
    <3>1. Bad \in SUBSET Nat  OBVIOUS
    <3>. HIDE DEF Bad
    <3>. QED  BY <2>1, <3>1, LeastNumber
  <2>3. n \in Nat /\ ~\E g : Level(g, n)  BY <2>2
  <2>4. CASE n = 0
    <3>1. \A s \in Small(0) : s = {}
      <4> SUFFICES ASSUME NEW s \in SUBSET S, Cardinality(s) <= 0 PROVE s = {}  OBVIOUS
      <4>1. IsFiniteSet(s)  BY FS_Subset
      <4>2. Cardinality(s) = 0  BY <4>1, FS_CardinalityType
      <4>. QED  BY <4>1, <4>2, FS_EmptySet
    <3>2. PICK g : g = [s \in Small(0) |-> 0]  OBVIOUS
    <3>3. g \in [Small(0) -> Nat] /\ \A s \in Small(0) : g[s] = 0  BY <3>2
    <3>4. Level(g, 0)  BY <3>1, <3>3
    <3>. QED  BY <2>3, <2>4, <3>4
  <2>5. CASE n # 0
    <3>1. PICK m \in Nat : n = m + 1
      <4>1. n - 1 \in Nat /\ n = (n - 1) + 1  BY <2>3, <2>5
      <4>. QED  BY <4>1
    <3>2. m \notin Bad
      <4>1. ~(n <= m)  BY <3>1
      <4>. HIDE DEF Bad
      <4>. QED  BY <2>2, <4>1
    <3>3. PICK g : Level(g, m)  BY <3>2
    <3>4. PICK h : h = [s \in Small(n) |-> IF s = {} THEN 0 ELSE g[s \ {Some(s)}] + c[Some(s)]]  OBVIOUS
    <3>5. ASSUME NEW s \in Small(n), s # {}
          PROVE  s \ {Some(s)} \in Small(m) /\ s \ {Some(s)} \in Small(n) /\ c[Some(s)] \in Nat
      <4>1. Some(s) \in s /\ s \in SUBSET S /\ Cardinality(s) <= n  BY <3>5, SomeIsIn
      <4>2. /\ s \ {Some(s)} \in SUBSET S
            /\ Cardinality(s) \in Nat /\ Cardinality(s \ {Some(s)}) = Cardinality(s) - 1
        BY <4>1, WithoutOne
      <4>3. Cardinality(s \ {Some(s)}) <= m /\ Cardinality(s \ {Some(s)}) <= n
        BY <3>1, <4>1, <4>2
      <4>. QED  BY <4>1, <4>2, <4>3
    <3>6. \A s \in Small(n) : h[s] = IF s = {} THEN 0 ELSE g[s \ {Some(s)}] + c[Some(s)]
      <4>. HIDE DEF Small
      <4>. QED  BY <3>4
    <3>7. g \in [Small(m) -> Nat]
          /\ \A s \in Small(m) : g[s] = IF s = {} THEN 0 ELSE g[s \ {Some(s)}] + c[Some(s)]
      BY <3>3
    <3>8. Small(m) \subseteq Small(n)
      <4> SUFFICES ASSUME NEW s \in SUBSET S, Cardinality(s) <= m PROVE Cardinality(s) <= n  OBVIOUS
      <4>1. Cardinality(s) \in Nat  BY FS_Subset, FS_CardinalityType
      <4>. QED  BY <3>1, <4>1
    <3>. HIDE DEF Small
    <3>9. \A s \in Small(m) : h[s] = g[s]  BY <3>6, <3>7, <3>8
    <3>10. h \in [Small(n) -> Nat]
      <4>1. ASSUME NEW s \in Small(n) PROVE (IF s = {} THEN 0 ELSE g[s \ {Some(s)}] + c[Some(s)]) \in Nat
        <5>1. CASE s = {}  BY <5>1
        <5>2. CASE s # {}
          <6>1. g[s \ {Some(s)}] \in Nat /\ c[Some(s)] \in Nat  BY <3>5, <3>7, <5>2
          <6>. QED  BY <5>2, <6>1
        <5>. QED  BY <5>1, <5>2
      <4>. QED  BY <3>4, <4>1
    <3>11. \A s \in Small(n) : h[s] = IF s = {} THEN 0 ELSE h[s \ {Some(s)}] + c[Some(s)]
      BY <3>5, <3>6, <3>9
    <3>12. Level(h, n)  BY <3>10, <3>11
    <3>. QED  BY <2>3, <3>12
  <2>. QED  BY <2>4, <2>5
<1>2. PICK n : n = Cardinality(S)  OBVIOUS
<1>3. n \in Nat  BY <1>2, FS_CardinalityType
<1>4. PICK g : Level(g, n)  BY <1>1, <1>3
<1>5. Small(n) = SUBSET S
  <2>1. ASSUME NEW s \in SUBSET S PROVE Cardinality(s) <= n  BY <1>2, FS_Subset
  <2>. QED  BY <2>1
<1>6. g \in [SUBSET S -> Nat]
      /\ \A s \in SUBSET S : g[s] = IF s = {} THEN 0 ELSE g[s \ {Some(s)}] + c[Some(s)]
  BY <1>4, <1>5
<1>7. SumsUp(g, S, c)  BY <1>6 DEF SumsUp
<1>. QED  BY <1>6, <1>7

(* Sums of the same numbers are the same, whatever sets they are for.      *)
LEMMA SumsAgree ==
  ASSUME NEW S, NEW T, NEW c, NEW d, NEW g, NEW h, IsFiniteSet(S), SumsUp(g, S, c), SumsUp(h, T, d),
         NEW R \in SUBSET S, R \in SUBSET T, \A x \in R : c[x] = d[x]
  PROVE  g[R] = h[R]
<1> DEFINE Bad == {s \in SUBSET R : g[s] # h[s]}
           Sizes == {Cardinality(s) : s \in Bad}
<1>1. SUFFICES ASSUME Bad # {} PROVE FALSE  OBVIOUS
<1>2. \A s \in Bad : Cardinality(s) \in Nat  BY FS_Subset, FS_CardinalityType
<1>3. PICK s \in Bad : \A t \in Bad : Cardinality(s) <= Cardinality(t)
  <2>1. Sizes \in SUBSET Nat /\ Sizes # {}  BY <1>1, <1>2
  <2>2. PICK n \in Sizes : \A k \in Sizes : n <= k
    <3>. HIDE DEF Sizes
    <3>. QED  BY <2>1, LeastNumber
  <2>. QED  BY <2>2
<1>4. s \in SUBSET S /\ s \in SUBSET T /\ g[s] # h[s]  OBVIOUS
<1>5. /\ g[s] = IF s = {} THEN 0 ELSE g[s \ {Some(s)}] + c[Some(s)]
      /\ h[s] = IF s = {} THEN 0 ELSE h[s \ {Some(s)}] + d[Some(s)]
  BY <1>4 DEF SumsUp
<1>6. s # {}  BY <1>4, <1>5
<1>7. PICK x : x = Some(s)  OBVIOUS
<1>8. x \in s  BY <1>6, <1>7, SomeIsIn
<1>9. Cardinality(s) \in Nat /\ Cardinality(s \ {x}) = Cardinality(s) - 1  BY <1>4, <1>8, WithoutOne
<1>10. s \ {x} \notin Bad  BY <1>3, <1>9
<1>11. g[s \ {x}] = h[s \ {x}]  BY <1>10
<1>. QED  BY <1>4, <1>5, <1>6, <1>7, <1>8, <1>11

(* Any element may be taken out.                                           *)
LEMMA SumWithout ==
  ASSUME NEW S, IsFiniteSet(S), NEW c \in [S -> Nat], NEW g \in [SUBSET S -> Nat], SumsUp(g, S, c),
         NEW R \in SUBSET S, NEW a \in R
  PROVE  g[R] = g[R \ {a}] + c[a]
<1> DEFINE Bad == {s \in SUBSET S : \E y \in s : g[s] # g[s \ {y}] + c[y]}
           Sizes == {Cardinality(s) : s \in Bad}
<1>1. SUFFICES ASSUME Bad # {} PROVE FALSE  OBVIOUS
<1>2. \A s \in Bad : Cardinality(s) \in Nat  BY FS_Subset, FS_CardinalityType
<1>3. PICK s \in Bad : \A t \in Bad : Cardinality(s) <= Cardinality(t)
  <2>1. Sizes \in SUBSET Nat /\ Sizes # {}  BY <1>1, <1>2
  <2>2. PICK n \in Sizes : \A k \in Sizes : n <= k
    <3>. HIDE DEF Sizes
    <3>. QED  BY <2>1, LeastNumber
  <2>3. PICK s \in Bad : Cardinality(s) = n  BY <2>2
  <2>4. \A t \in Bad : Cardinality(t) \in Sizes  OBVIOUS
  <2>. HIDE DEF Bad, Sizes
  <2>. QED  BY <2>2, <2>3, <2>4
<1>4. PICK y \in s : g[s] # g[s \ {y}] + c[y]  OBVIOUS
<1>5. PICK x : x = Some(s)  OBVIOUS
<1>6. s \in SUBSET S /\ s # {} /\ x \in s  BY <1>4, <1>5, SomeIsIn
<1>7. g[s] = g[s \ {x}] + c[x]  BY <1>5, <1>6 DEF SumsUp
<1>8. x # y  BY <1>4, <1>7
<1>9. \A z \in s : Cardinality(s) \in Nat /\ Cardinality(s \ {z}) = Cardinality(s) - 1 /\ s \ {z} \in SUBSET S
  BY <1>6, WithoutOne
<1>10. s \ {x} \notin Bad /\ s \ {y} \notin Bad
  <2>1. ASSUME NEW z \in s PROVE s \ {z} \notin Bad
    <3>1. ~(Cardinality(s) <= Cardinality(s \ {z}))  BY <1>9
    <3>. HIDE DEF Bad
    <3>. QED  BY <1>3, <3>1
  <2>. QED  BY <1>6, <2>1
<1>11. g[s \ {x}] = g[(s \ {x}) \ {y}] + c[y]  BY <1>8, <1>9, <1>10, <1>6
<1>12. g[s \ {y}] = g[(s \ {y}) \ {x}] + c[x]  BY <1>8, <1>9, <1>10, <1>6
<1>13. (s \ {x}) \ {y} = (s \ {y}) \ {x}  OBVIOUS
<1>14. PICK t : t = (s \ {x}) \ {y}  OBVIOUS
<1>15. g[t] \in Nat /\ c[x] \in Nat /\ c[y] \in Nat
  <2>1. t \in SUBSET S /\ x \in S /\ y \in S  BY <1>6, <1>14
  <2>. QED  BY <2>1
<1>16. g[s \ {x}] = g[t] + c[y] /\ g[s \ {y}] = g[t] + c[x]  BY <1>11, <1>12, <1>13, <1>14
<1>17. g[s] = g[s \ {y}] + c[y]
  <2>1. PICK u, v, w : u = g[t] /\ v = c[x] /\ w = c[y]  OBVIOUS
  <2>2. u \in Nat /\ v \in Nat /\ w \in Nat  BY <1>15, <2>1
  <2>3. (u + w) + v = (u + v) + w  BY <2>2
  <2>. QED  BY <1>7, <1>16, <2>1, <2>3
<1>. QED  BY <1>4, <1>17

-----------------------------------------------------------------------------
(* The payload budget.  Up to the last refill, what was used of a bucket,  *)
(* what is out and what is left add up to its rate at most; permits of the *)
(* buckets of now are of transfers that do not wait in a lane, so that     *)
(* none is lost or counted twice.                                          *)
BandConstants ==
  /\ IsFiniteSet(Acquirer) /\ DirectionOf \in [Acquirer -> {1, 2}]
  /\ Day \in Nat \ {0} /\ Settings \subseteq BW!SettingsType
  /\ Maximum \in Nat /\ MaxBurst \in Nat

(* What is out of bucket b, by the permits p of epoch e and the rates r.   *)
Permit == [count : Nat, epoch : Nat]
CountsOf(p) == [a \in Acquirer |-> p[a].count]
FoldOf(p, of) == BW!FoldSet(LAMBDA a, n : n + p[a].count, 0, of)
OutOf(p, e, r, b) == {a \in Acquirer : p[a].epoch = e /\ b \in {0, DirectionOf[a]} /\ r[b] > 0}
Lent(p, e, r, b) == FoldOf(p, OutOf(p, e, r, b))

LEMMA OutIsLent ==
  ASSUME NEW b
  PROVE  BW!Out(b) = Lent(permit, epoch, rate, b) /\ BW!Out(b)' = Lent(permit', epoch', rate', b)
<1>1. {a \in Acquirer : permit[a].epoch = epoch /\ b \in BW!Limited(a)} = OutOf(permit, epoch, rate, b)
  BY DEF OutOf, BW!Limited
<1>2. {a \in Acquirer : permit'[a].epoch = epoch' /\ b \in BW!Limited(a)'} = OutOf(permit', epoch', rate', b)
  BY DEF OutOf, BW!Limited
<1>3. BW!Out(b) = Lent(permit, epoch, rate, b)
  BY <1>1 DEF BW!Out, Lent, FoldOf, BW!FoldSet, BW!MapThenFoldSet
<1>4. BW!Out(b)' = Lent(permit', epoch', rate', b)
  BY <1>2 DEF BW!Out, Lent, FoldOf, BW!FoldSet, BW!MapThenFoldSet
<1>. QED  BY <1>3, <1>4

LEMMA FoldIs ==
  ASSUME IsFiniteSet(Acquirer), NEW p \in [Acquirer -> Permit], NEW of \in SUBSET Acquirer,
         NEW g, SumsUp(g, Acquirer, CountsOf(p))
  PROVE  FoldOf(p, of) = g[of]
<1>3. IsFiniteSet(of)  BY FS_Subset
<1>4. PICK c : c = CountsOf(p)  OBVIOUS
<1>5. PICK d : d = [a \in of |-> c[a]]  OBVIOUS
<1>6. d \in [of -> Nat]  BY <1>4, <1>5 DEF CountsOf, Permit
<1>7. PICK h : SumsUp(h, of, d)  BY <1>3, <1>6, SumExists
<1> DEFINE Is(i) == i = [s \in SUBSET of |-> IF s = {} THEN 0
                           ELSE i[s \ {CHOOSE x \in s : TRUE}] + p[CHOOSE x \in s : TRUE].count]
<1>8. FoldOf(p, of) = (CHOOSE i : Is(i))[of]
  BY DEF FoldOf, BW!FoldSet, BW!MapThenFoldSet
<1>9. ASSUME NEW i PROVE Is(i) <=> SumsUp(i, of, d)
  <2>1. \A s \in SUBSET of : s # {} => d[CHOOSE x \in s : TRUE] = p[CHOOSE x \in s : TRUE].count
    <3> SUFFICES ASSUME NEW s \in SUBSET of, s # {}
                 PROVE  d[CHOOSE x \in s : TRUE] = p[CHOOSE x \in s : TRUE].count
      OBVIOUS
    <3>1. PICK x : x = CHOOSE y \in s : TRUE  OBVIOUS
    <3>2. x \in s  BY <3>1
    <3>3. x \in of /\ x \in Acquirer  BY <3>2
    <3>4. d[x] = p[x].count  BY <1>4, <1>5, <3>3 DEF CountsOf
    <3>. QED  BY <3>1, <3>4
  <2>2. [s \in SUBSET of |-> IF s = {} THEN 0
           ELSE i[s \ {CHOOSE x \in s : TRUE}] + p[CHOOSE x \in s : TRUE].count]
        = [s \in SUBSET of |-> IF s = {} THEN 0
           ELSE i[s \ {CHOOSE x \in s : TRUE}] + d[CHOOSE x \in s : TRUE]]
    BY <2>1
  <2>. QED  BY <2>2 DEF SumsUp, Some
<1>10. PICK i : i = CHOOSE j : Is(j)  OBVIOUS
<1>11. Is(i)
  <2>1. Is(h)  BY <1>7, <1>9
  <2>. HIDE DEF Is
  <2>. QED  BY <1>10, <2>1
<1>12. SumsUp(i, of, d)  BY <1>9, <1>11
<1>13. i[of] = g[of]
  <2>1. of \in SUBSET of /\ \A x \in of : d[x] = c[x]  BY <1>5
  <2>2. SumsUp(g, Acquirer, c)  BY <1>4
  <2>. QED  BY <1>3, <1>12, <2>1, <2>2, SumsAgree
<1>. QED  BY <1>8, <1>10, <1>13

LEMMA FoldsAre ==
  ASSUME IsFiniteSet(Acquirer), NEW p \in [Acquirer -> Permit]
  PROVE  /\ \A of \in SUBSET Acquirer : FoldOf(p, of) \in Nat
         /\ \A of \in SUBSET Acquirer : \A a \in of : FoldOf(p, of) = FoldOf(p, of \ {a}) + p[a].count
         /\ FoldOf(p, {}) = 0
<1>1. PICK c : c = CountsOf(p)  OBVIOUS
<1>2. c \in [Acquirer -> Nat] /\ \A a \in Acquirer : c[a] = p[a].count  BY <1>1 DEF CountsOf, Permit
<1>3. PICK g : SumsUp(g, Acquirer, c) /\ g \in [SUBSET Acquirer -> Nat]  BY <1>2, SumExists
<1>4. \A of \in SUBSET Acquirer : FoldOf(p, of) = g[of]  BY <1>1, <1>3, FoldIs
<1>5. \A of \in SUBSET Acquirer : \A a \in of : g[of] = g[of \ {a}] + c[a]
  <2> SUFFICES ASSUME NEW of \in SUBSET Acquirer, NEW a \in of PROVE g[of] = g[of \ {a}] + c[a]
    OBVIOUS
  <2>1. PICK S : S = Acquirer  OBVIOUS
  <2>2. /\ IsFiniteSet(S) /\ c \in [S -> Nat] /\ g \in [SUBSET S -> Nat] /\ SumsUp(g, S, c)
        /\ of \in SUBSET S
    BY <1>2, <1>3, <2>1
  <2>. QED  BY <2>2, SumWithout
<1>6. g[{}] = 0  BY <1>3 DEF SumsUp
<1>7. \A of \in SUBSET Acquirer : \A a \in of : FoldOf(p, of) = FoldOf(p, of \ {a}) + p[a].count
  <2> SUFFICES ASSUME NEW of \in SUBSET Acquirer, NEW a \in of
               PROVE  FoldOf(p, of) = FoldOf(p, of \ {a}) + p[a].count
    OBVIOUS
  <2>1. of \ {a} \in SUBSET Acquirer /\ a \in Acquirer  OBVIOUS
  <2>. QED  BY <1>2, <1>4, <1>5, <2>1
<1>. QED  BY <1>3, <1>4, <1>6, <1>7

LEMMA FoldsAgree ==
  ASSUME IsFiniteSet(Acquirer), NEW p \in [Acquirer -> Permit], NEW q \in [Acquirer -> Permit],
         NEW of \in SUBSET Acquirer, \A a \in of : p[a] = q[a]
  PROVE  FoldOf(p, of) = FoldOf(q, of)
<1>1. PICK c, d : c = CountsOf(p) /\ d = CountsOf(q)  OBVIOUS
<1>2. c \in [Acquirer -> Nat] /\ d \in [Acquirer -> Nat] /\ \A a \in of : c[a] = d[a]
  BY <1>1 DEF CountsOf, Permit
<1>3. PICK g : SumsUp(g, Acquirer, c)  BY <1>2, SumExists
<1>4. PICK h : SumsUp(h, Acquirer, d)  BY <1>2, SumExists
<1>5. g[of] = h[of]  BY <1>2, <1>3, <1>4, SumsAgree
<1>6. FoldOf(p, of) = g[of] /\ FoldOf(q, of) = h[of]  BY <1>1, <1>3, <1>4, FoldIs
<1>. QED  BY <1>5, <1>6

(* One permit changes, and with it what is out.                            *)
LEMMA LentMoves ==
  ASSUME IsFiniteSet(Acquirer), NEW p \in [Acquirer -> Permit], NEW q \in [Acquirer -> Permit],
         NEW a \in Acquirer, \A x \in Acquirer : x # a => q[x] = p[x], NEW e, NEW r, NEW b
  PROVE  \E rest \in Nat :
           /\ Lent(p, e, r, b) = IF a \in OutOf(p, e, r, b) THEN rest + p[a].count ELSE rest
           /\ Lent(q, e, r, b) = IF a \in OutOf(q, e, r, b) THEN rest + q[a].count ELSE rest
<1>1. PICK of, to : of = OutOf(p, e, r, b) /\ to = OutOf(q, e, r, b)  OBVIOUS
<1>2. of \in SUBSET Acquirer /\ to \in SUBSET Acquirer /\ of \ {a} = to \ {a}  BY <1>1 DEF OutOf
<1>3. PICK s : s = of \ {a}  OBVIOUS
<1>4. s \in SUBSET Acquirer /\ s = to \ {a} /\ \A x \in s : p[x] = q[x]  BY <1>2, <1>3
<1>5. FoldOf(p, s) = FoldOf(q, s) /\ FoldOf(p, s) \in Nat  BY <1>4, FoldsAgree, FoldsAre
<1>6. FoldOf(p, of) = IF a \in of THEN FoldOf(p, s) + p[a].count ELSE FoldOf(p, s)
  <2>1. a \notin of => of = s  BY <1>3
  <2>. QED  BY <1>2, <1>3, <2>1, FoldsAre
<1>7. FoldOf(q, to) = IF a \in to THEN FoldOf(q, s) + q[a].count ELSE FoldOf(q, s)
  <2>1. a \notin to => to = s  BY <1>4
  <2>. QED  BY <1>2, <1>4, <2>1, FoldsAre
<1>. QED  BY <1>1, <1>5, <1>6, <1>7 DEF Lent

BandType ==
  /\ settings \in Settings /\ minute \in 0 .. Day - 1 /\ rate = BW!LimitsOf(settings, minute)
  /\ tokens \in [BW!Bucket -> Nat] /\ refilled \in [BW!Bucket -> Nat] /\ spent \in [BW!Bucket -> Nat]
  /\ elapsed \in Nat /\ epoch \in Nat \ {0}
  /\ permit \in [Acquirer -> Permit] /\ \A a \in Acquirer : permit[a].epoch <= epoch
LanesInv ==
  /\ lanes \in [{1, 2} -> Seq(Acquirer)]
  /\ \A d \in {1, 2} : \A i, j \in 1 .. Len(lanes[d]) : lanes[d][i] = lanes[d][j] => i = j
  /\ \A d \in {1, 2} : \A i \in 1 .. Len(lanes[d]) :
       DirectionOf[lanes[d][i]] = d /\ permit[lanes[d][i]] = BW!NoPermit
BucketsInv ==
  \A b \in BW!Bucket :
    /\ refilled[b] <= elapsed
    /\ rate[b] > 0 =>
         /\ tokens[b] <= BW!Capacity(b)
         /\ spent[b] + Lent(permit, epoch, rate, b) + tokens[b] <= rate[b] * refilled[b]
BandInv == BandType /\ LanesInv /\ BucketsInv

LEMMA RatesAre ==
  ASSUME BandConstants, NEW s \in Settings, NEW m
  PROVE  BW!LimitsOf(s, m) \in [BW!Bucket -> Nat]
<1>1. s \in BW!SettingsType  BY DEF BandConstants
<1>2. s.alternate \in [BW!Bucket -> Nat] /\ s.normal \in [BW!Bucket -> Nat]  BY <1>1 DEF BW!SettingsType
<1>. QED  BY <1>2 DEF BW!LimitsOf

LEMMA BandTyped ==
  ASSUME BandConstants, BandType
  PROVE  /\ rate \in [BW!Bucket -> Nat] /\ \A b \in BW!Bucket : BW!Capacity(b) \in Nat
         /\ \A a \in Acquirer : DirectionOf[a] \in {1, 2} /\ {0, DirectionOf[a]} \subseteq BW!Bucket
         /\ IsFiniteSet(Acquirer) /\ \A b \in BW!Bucket : Lent(permit, epoch, rate, b) \in Nat
<1>1. rate \in [BW!Bucket -> Nat]  BY RatesAre DEF BandType
<1>2. \A b \in BW!Bucket : BW!Capacity(b) \in Nat  BY <1>1 DEF BandConstants, BW!Capacity
<1>3. \A a \in Acquirer : DirectionOf[a] \in {1, 2} /\ {0, DirectionOf[a]} \subseteq BW!Bucket
  <2>1. \A a \in Acquirer : DirectionOf[a] \in {1, 2}  BY DEF BandConstants
  <2>2. 0 \in BW!Bucket /\ 1 \in BW!Bucket /\ 2 \in BW!Bucket  BY DEF BW!Bucket
  <2>. QED  BY <2>1, <2>2
<1>4. IsFiniteSet(Acquirer)  BY DEF BandConstants
<1>5. \A b \in BW!Bucket : Lent(permit, epoch, rate, b) \in Nat
  <2>1. permit \in [Acquirer -> Permit]  BY DEF BandType
  <2>2. \A b : OutOf(permit, epoch, rate, b) \in SUBSET Acquirer  BY DEF OutOf
  <2>. QED  BY <1>4, <2>1, <2>2, FoldsAre DEF Lent
<1>. QED  BY <1>1, <1>2, <1>3, <1>4, <1>5

LEMMA NoPermitIs == BW!NoPermit \in Permit /\ BW!NoPermit.epoch = 0 /\ BW!NoPermit.count = 0
BY DEF BW!NoPermit, Permit

(* Buckets that are new.                                                   *)
LEMMA NewBuckets ==
  ASSUME BandConstants, NEW p \in [Acquirer -> Permit], NEW e \in Nat, \A a \in Acquirer : p[a].epoch < e,
         NEW r, NEW b
  PROVE  Lent(p, e, r, b) = 0
<1>1. OutOf(p, e, r, b) = {}
  <2>1. \A a \in Acquirer : p[a].epoch \in Nat  BY DEF Permit
  <2>. QED  BY <2>1 DEF OutOf
<1>2. IsFiniteSet(Acquirer)  BY DEF BandConstants
<1>. QED  BY <1>1, <1>2, FoldsAre DEF Lent

LEMMA BandInvInit == BandConstants /\ BW!BandInit => BandInv
<1>. SUFFICES ASSUME BandConstants, BW!BandInit PROVE BandInv  OBVIOUS
<1>1. /\ settings \in Settings /\ minute \in 0 .. Day - 1 /\ rate = BW!LimitsOf(settings, minute)
      /\ tokens = [b \in BW!Bucket |-> 0] /\ refilled = [b \in BW!Bucket |-> 0] /\ spent = [b \in BW!Bucket |-> 0]
      /\ elapsed = 0 /\ epoch = 1 /\ lanes = [d \in {1, 2} |-> <<>>]
      /\ permit = [a \in Acquirer |-> BW!NoPermit]
  BY DEF BW!BandInit
<1>2. permit \in [Acquirer -> Permit] /\ \A a \in Acquirer : permit[a].epoch = 0  BY <1>1, NoPermitIs
<1>3. BandType  BY <1>1, <1>2 DEF BandType
<1>4. LanesInv  BY <1>1 DEF LanesInv
<1>5. BucketsInv
  <2>1. ASSUME NEW b \in BW!Bucket
        PROVE  /\ refilled[b] <= elapsed /\ tokens[b] <= BW!Capacity(b)
               /\ spent[b] + Lent(permit, epoch, rate, b) + tokens[b] <= rate[b] * refilled[b]
    <3>1. epoch \in Nat /\ \A a \in Acquirer : permit[a].epoch < epoch  BY <1>1, <1>2
    <3>2. Lent(permit, epoch, rate, b) = 0  BY <1>2, <3>1, NewBuckets
    <3>3. BW!Capacity(b) \in Nat /\ rate[b] \in Nat  BY <1>3, BandTyped
    <3>4. rate[b] * refilled[b] = 0  BY <1>1, <3>3
    <3>. QED  BY <1>1, <3>2, <3>3, <3>4
  <2>. QED  BY <2>1 DEF BucketsInv
<1>. QED  BY <1>3, <1>4, <1>5 DEF BandInv

(* What the permits, the rates and the buckets of the others stay.         *)
LEMMA BucketsKept ==
  ASSUME BandType, BucketsInv, BandConstants, UNCHANGED <<rate, permit, epoch, tokens, refilled, spent>>,
         elapsed' \in Nat, elapsed' >= elapsed
  PROVE  BucketsInv'
<1>1. \A b : BW!Capacity(b)' = BW!Capacity(b)  BY DEF BW!Capacity
<1>2. \A b : Lent(permit', epoch', rate', b) = Lent(permit, epoch, rate, b)  OBVIOUS
<1>3. \A b \in BW!Bucket : refilled[b] \in Nat /\ elapsed \in Nat  BY DEF BandType
<1>4. \A b \in BW!Bucket : refilled'[b] <= elapsed'  BY <1>3 DEF BucketsInv
<1>. QED  BY <1>1, <1>2, <1>4 DEF BucketsInv

LEMMA BandStays ==
  ASSUME BandConstants, BandType, BucketsInv,
         UNCHANGED <<settings, minute, rate, tokens, refilled, elapsed, epoch, spent, permit>>
  PROVE  BandType' /\ BucketsInv'
<1>1. BandType'  BY DEF BandType, BW!LimitsOf
<1>2. elapsed' \in Nat /\ elapsed' >= elapsed  BY DEF BandType
<1>3. BucketsInv'  BY <1>2, BucketsKept
<1>. QED  BY <1>1, <1>3

LEMMA BandRefreshes ==
  ASSUME BandConstants, BandInv, settings' \in Settings, minute' \in 0 .. Day - 1, BW!Refreshed,
         UNCHANGED <<lanes, permit, stopping>>
  PROVE  BandInv'
<1>0. BandType /\ LanesInv /\ BucketsInv  BY DEF BandInv
<1>1. LanesInv'  BY <1>0 DEF LanesInv
<1>2. rate' = BW!LimitsOf(settings, minute)'  BY DEF BW!Refreshed
<1>3. CASE rate' # rate \/ paused' # paused
  <2>1. /\ epoch' = epoch + 1 /\ elapsed' = 0
        /\ tokens' = [b \in BW!Bucket |-> 0] /\ refilled' = [b \in BW!Bucket |-> 0]
        /\ spent' = [b \in BW!Bucket |-> 0]
    BY <1>3 DEF BW!Refreshed
  <2>2. permit' \in [Acquirer -> Permit] /\ epoch' \in Nat \ {0} /\ \A a \in Acquirer : permit'[a].epoch < epoch'
    <3>1. permit \in [Acquirer -> Permit] /\ epoch \in Nat /\ \A a \in Acquirer : permit[a].epoch <= epoch
      BY <1>0 DEF BandType
    <3>2. \A a \in Acquirer : permit[a].epoch \in Nat  BY <3>1 DEF Permit
    <3>. QED  BY <2>1, <3>1, <3>2
  <2>3. BandType'
    <3>1. \A a \in Acquirer : permit'[a].epoch <= epoch'
      <4>1. \A a \in Acquirer : permit'[a].epoch \in Nat  BY <2>2 DEF Permit
      <4>. QED  BY <2>2, <4>1
    <3>. QED  BY <1>2, <2>1, <2>2, <3>1 DEF BandType
  <2>4. rate' \in [BW!Bucket -> Nat]
    <3>1. PICK s, m : s = settings' /\ m = minute'  OBVIOUS
    <3>2. rate' = BW!LimitsOf(s, m)  BY <3>1 DEF BW!Refreshed
    <3>. QED  BY <3>1, <3>2, RatesAre
  <2>5. ASSUME NEW b \in BW!Bucket
        PROVE  /\ refilled'[b] <= elapsed' /\ tokens'[b] <= BW!Capacity(b)'
               /\ spent'[b] + Lent(permit', epoch', rate', b) + tokens'[b] <= rate'[b] * refilled'[b]
    <3>1. Lent(permit', epoch', rate', b) = 0  BY <2>2, NewBuckets
    <3>2. rate'[b] \in Nat /\ BW!Capacity(b)' \in Nat  BY <2>4 DEF BW!Capacity, BandConstants
    <3>3. rate'[b] * refilled'[b] = 0  BY <2>1, <3>2
    <3>. QED  BY <2>1, <3>1, <3>2, <3>3
  <2>6. BucketsInv'  BY <2>5 DEF BucketsInv
  <2>. QED  BY <1>1, <2>3, <2>6 DEF BandInv
<1>4. CASE ~(rate' # rate \/ paused' # paused)
  <2>1. UNCHANGED <<rate, tokens, refilled, elapsed, epoch, spent>>  BY <1>4 DEF BW!Refreshed
  <2>2. BandType'  BY <1>0, <1>2, <2>1 DEF BandType
  <2>3. BucketsInv'
    <3>1. elapsed' \in Nat /\ elapsed' >= elapsed  BY <1>0, <2>1 DEF BandType
    <3>. QED  BY <1>0, <2>1, <3>1, BucketsKept
  <2>. QED  BY <1>1, <2>2, <2>3 DEF BandInv
<1>. QED  BY <1>3, <1>4

(* The lanes.                                                              *)
LEMMA LaneSet ==
  ASSUME NEW f, f \in [{1, 2} -> Seq(Acquirer)], NEW d \in {1, 2}, NEW m \in Seq(Acquirer),
         NEW g, g = [f EXCEPT ![d] = m]
  PROVE  /\ g \in [{1, 2} -> Seq(Acquirer)] /\ g[d] = m
         /\ \A x \in {1, 2} : x # d => g[x] = f[x]
OBVIOUS

LEMMA LanesMove ==
  ASSUME BandConstants, BandType, LanesInv, UNCHANGED permit, NEW d \in {1, 2},
         NEW l \in Seq(Acquirer), lanes' = [lanes EXCEPT ![d] = l],
         \A i, j \in 1 .. Len(l) : l[i] = l[j] => i = j,
         \A i \in 1 .. Len(l) : DirectionOf[l[i]] = d /\ permit[l[i]] = BW!NoPermit
  PROVE  LanesInv'
<1>1. lanes' \in [{1, 2} -> Seq(Acquirer)] /\ lanes'[d] = l
      /\ \A x \in {1, 2} : x # d => lanes'[x] = lanes[x]
  <2>1. PICK f, g : f = lanes /\ g = lanes'  OBVIOUS
  <2>2. f \in [{1, 2} -> Seq(Acquirer)]  BY <2>1 DEF LanesInv
  <2>3. g = [f EXCEPT ![d] = l]  BY <2>1
  <2>4. /\ g \in [{1, 2} -> Seq(Acquirer)] /\ g[d] = l
        /\ \A x \in {1, 2} : x # d => g[x] = f[x]
    BY <2>2, <2>3, LaneSet
  <2>. QED  BY <2>1, <2>4
<1>2. ASSUME NEW x \in {1, 2}
      PROVE  /\ \A i, j \in 1 .. Len(lanes'[x]) : lanes'[x][i] = lanes'[x][j] => i = j
             /\ \A i \in 1 .. Len(lanes'[x]) :
                  DirectionOf[lanes'[x][i]] = x /\ permit'[lanes'[x][i]] = BW!NoPermit
  <2>1. CASE x = d  BY <1>1, <2>1
  <2>2. CASE x # d  BY <1>1, <2>2 DEF LanesInv
  <2>. QED  BY <2>1, <2>2
<1>. QED  BY <1>1, <1>2 DEF LanesInv

LEMMA Queued ==
  ASSUME BandConstants, BandType, LanesInv, NEW a \in Acquirer, BW!Queues(a) PROVE LanesInv'
<1>1. PICK d, l : d = DirectionOf[a] /\ l = lanes[d]  OBVIOUS
<1>2. d \in {1, 2} /\ l \in Seq(Acquirer)  BY <1>1, BandTyped DEF LanesInv
<1>3. /\ a \notin {l[i] : i \in 1 .. Len(l)} /\ permit[a] = BW!NoPermit /\ UNCHANGED permit
      /\ lanes' = [lanes EXCEPT ![d] = Append(l, a)]
  BY <1>1, <1>2 DEF BW!Queues, BW!Waiting, BW!Range, LanesInv
<1>4. PICK m : m = Append(l, a)  OBVIOUS
<1>5. /\ m \in Seq(Acquirer) /\ Len(m) = Len(l) + 1 /\ m[Len(l) + 1] = a /\ Len(l) \in Nat
      /\ \A i \in 1 .. Len(l) : m[i] = l[i]
  BY <1>2, <1>4, AppendProperties
<1>6. \A i \in 1 .. Len(m) : i \in 1 .. Len(l) \/ i = Len(l) + 1  BY <1>5
<1>7. \A i \in 1 .. Len(l) : l[i] # a  BY <1>3
<1>8. ASSUME NEW i \in 1 .. Len(m), NEW j \in 1 .. Len(m), m[i] = m[j] PROVE i = j
  <2>1. \A x, y \in 1 .. Len(l) : l[x] = l[y] => x = y  BY <1>1, <1>2 DEF LanesInv
  <2>. QED  BY <1>5, <1>6, <1>7, <1>8, <2>1
<1>9. ASSUME NEW i \in 1 .. Len(m) PROVE DirectionOf[m[i]] = d /\ permit[m[i]] = BW!NoPermit
  <2>1. CASE i \in 1 .. Len(l)
    <3>1. m[i] = l[i]  BY <1>5, <2>1
    <3>2. \A x \in 1 .. Len(l) : DirectionOf[l[x]] = d /\ permit[l[x]] = BW!NoPermit
      BY <1>1, <1>2 DEF LanesInv
    <3>. QED  BY <2>1, <3>1, <3>2
  <2>2. CASE i = Len(l) + 1  BY <1>1, <1>3, <1>5, <2>2
  <2>. QED  BY <1>6, <2>1, <2>2
<1>. QED  BY <1>2, <1>3, <1>4, <1>5, <1>8, <1>9, LanesMove

(* One leaves its lane.                                                    *)
LEMMA OneOut ==
  ASSUME NEW l \in Seq(Acquirer), NEW i \in 1 .. Len(l),
         NEW m, m = SubSeq(l, 1, i - 1) \o SubSeq(l, i + 1, Len(l))
  PROVE  /\ m \in Seq(Acquirer) /\ Len(m) = Len(l) - 1
         /\ \A k \in 1 .. Len(m) : m[k] = IF k < i THEN l[k] ELSE l[k + 1]
<1>1. PICK n : n = Len(l)  OBVIOUS
<1>2. n \in Nat /\ i \in Nat /\ i >= 1 /\ i <= n  BY <1>1
<1>3. PICK a, b : a = SubSeq(l, 1, i - 1) /\ b = SubSeq(l, i + 1, n)  OBVIOUS
<1>4. \A k \in 1 .. n : l[k] \in Acquirer  BY <1>1
<1>5. a \in Seq(Acquirer) /\ Len(a) = i - 1 /\ \A k \in 1 .. i - 1 : a[k] = l[k]
  <2>1. i - 1 \in Int /\ 1 \in Int /\ \A k \in 1 .. i - 1 : l[k] \in Acquirer  BY <1>2, <1>4
  <2>2. PICK h : h = i - 1  OBVIOUS
  <2>3. /\ SubSeq(l, 1, h) \in Seq(Acquirer)
        /\ Len(SubSeq(l, 1, h)) = IF 1 <= h THEN h - 1 + 1 ELSE 0
        /\ \A k \in 1 .. h - 1 + 1 : SubSeq(l, 1, h)[k] = l[1 + k - 1]
    BY <2>1, <2>2, SubSeqProperties
  <2>4. h - 1 + 1 = i - 1 /\ (~(1 <= h) => i - 1 = 0) /\ \A k \in 1 .. h : 1 + k - 1 = k  BY <1>2, <2>2
  <2>. QED  BY <1>3, <2>2, <2>3, <2>4
<1>6. b \in Seq(Acquirer) /\ Len(b) = n - i /\ \A k \in 1 .. n - i : b[k] = l[i + k]
  <2>1. PICK h : h = i + 1  OBVIOUS
  <2>2. h \in Int /\ n \in Int /\ \A k \in h .. n : l[k] \in Acquirer  BY <1>2, <1>4, <2>1
  <2>3. /\ SubSeq(l, h, n) \in Seq(Acquirer)
        /\ Len(SubSeq(l, h, n)) = IF h <= n THEN n - h + 1 ELSE 0
        /\ \A k \in 1 .. n - h + 1 : SubSeq(l, h, n)[k] = l[h + k - 1]
    BY <2>2, SubSeqProperties
  <2>4. n - h + 1 = n - i /\ (~(h <= n) => n - i = 0) /\ \A k \in 1 .. n - i : h + k - 1 = i + k
    BY <1>2, <2>1
  <2>. QED  BY <1>3, <2>1, <2>3, <2>4
<1>7. m = a \o b  BY <1>1, <1>3
<1>8. m \in Seq(Acquirer) /\ Len(m) = Len(a) + Len(b)
      /\ \A k \in 1 .. Len(a) + Len(b) : m[k] = IF k <= Len(a) THEN a[k] ELSE b[k - Len(a)]
  <2>1. a \in Seq(Acquirer) /\ b \in Seq(Acquirer)  BY <1>5, <1>6
  <2>2. /\ a \o b \in Seq(Acquirer) /\ Len(a \o b) = Len(a) + Len(b)
        /\ \A k \in 1 .. Len(a) + Len(b) : (a \o b)[k] = IF k <= Len(a) THEN a[k] ELSE b[k - Len(a)]
    BY <2>1, ConcatProperties
  <2>. QED  BY <1>7, <2>2
<1>9. Len(a) + Len(b) = n - 1  BY <1>2, <1>5, <1>6
<1>10. ASSUME NEW k \in 1 .. n - 1 PROVE m[k] = IF k < i THEN l[k] ELSE l[k + 1]
  <2>1. CASE k < i
    <3>1. k \in 1 .. i - 1 /\ k <= Len(a)  BY <1>2, <1>5, <2>1
    <3>. QED  BY <1>5, <1>8, <1>9, <2>1, <3>1
  <2>2. CASE ~(k < i)
    <3>1. PICK r : r = Len(a)  OBVIOUS
    <3>2. r = i - 1 /\ k \in 1 .. n - 1 /\ k >= i  BY <1>2, <1>5, <2>2, <3>1
    <3>3. ~(k <= r)  BY <1>2, <3>2
    <3>4. k - r \in 1 .. n - i  BY <1>2, <3>2
    <3>5. i + (k - r) = k + 1  BY <1>2, <3>2
    <3>6. m[k] = b[k - r]  BY <1>8, <1>9, <3>1, <3>3
    <3>7. b[k - r] = l[i + (k - r)]  BY <1>6, <3>4
    <3>. QED  BY <2>2, <3>5, <3>6, <3>7
  <2>. QED  BY <2>1, <2>2
<1>. QED  BY <1>1, <1>8, <1>9, <1>10

LEMMA GivenUp ==
  ASSUME BandConstants, BandType, LanesInv, NEW a \in Acquirer, BW!GivesUp(a) PROVE LanesInv'
<1>1. PICK d, l : d = DirectionOf[a] /\ l = lanes[d]  OBVIOUS
<1>2. d \in {1, 2} /\ l \in Seq(Acquirer)  BY <1>1, BandTyped DEF LanesInv
<1>3. PICK i \in 1 .. Len(l) : lanes' = [lanes EXCEPT ![d] = BW!RemoveAt(l, i)] /\ permit' = permit
  <2>1. PICK i \in DOMAIN lanes[d] : lanes' = [lanes EXCEPT ![d] = BW!RemoveAt(@, i)]
    BY <1>1 DEF BW!GivesUp
  <2>2. i \in 1 .. Len(l)  BY <1>1, <1>2, <2>1
  <2>3. [lanes EXCEPT ![d] = BW!RemoveAt(@, i)] = [lanes EXCEPT ![d] = BW!RemoveAt(l, i)]  BY <1>1
  <2>4. permit' = permit  BY DEF BW!GivesUp
  <2>. QED  BY <2>1, <2>2, <2>3, <2>4
<1>4. PICK m : m = BW!RemoveAt(l, i)  OBVIOUS
<1>5. m = SubSeq(l, 1, i - 1) \o SubSeq(l, i + 1, Len(l))  BY <1>4 DEF BW!RemoveAt
<1>6. /\ m \in Seq(Acquirer) /\ Len(m) = Len(l) - 1
      /\ \A k \in 1 .. Len(m) : m[k] = IF k < i THEN l[k] ELSE l[k + 1]
  BY <1>2, <1>5, OneOut
<1>7. Len(l) \in Nat  BY <1>2
<1>8. \A k \in 1 .. Len(m) : k \in 1 .. Len(l) /\ k + 1 \in 1 .. Len(l)  BY <1>6, <1>7
<1>9. ASSUME NEW j \in 1 .. Len(m), NEW k \in 1 .. Len(m), m[j] = m[k] PROVE j = k
  <2>1. \A x, y \in 1 .. Len(l) : l[x] = l[y] => x = y  BY <1>1, <1>2 DEF LanesInv
  <2>2. PICK x \in 1 .. Len(l) : m[j] = l[x] /\ x = IF j < i THEN j ELSE j + 1  BY <1>6, <1>8
  <2>3. PICK y \in 1 .. Len(l) : m[k] = l[y] /\ y = IF k < i THEN k ELSE k + 1  BY <1>6, <1>8
  <2>4. x = y  BY <1>9, <2>1, <2>2, <2>3
  <2>. QED  BY <1>7, <2>2, <2>3, <2>4
<1>10. ASSUME NEW k \in 1 .. Len(m) PROVE DirectionOf[m[k]] = d /\ permit[m[k]] = BW!NoPermit
  <2>1. \A x \in 1 .. Len(l) : DirectionOf[l[x]] = d /\ permit[l[x]] = BW!NoPermit
    BY <1>1, <1>2 DEF LanesInv
  <2>. QED  BY <1>6, <1>8, <2>1
<1>. QED  BY <1>2, <1>3, <1>4, <1>6, <1>9, <1>10, LanesMove

(* What a grant is: no more than each bucket it is taken from holds.       *)
LEMMA RefillsAre ==
  ASSUME BandConstants, BandInv, NEW b \in BW!Bucket
  PROVE  /\ BW!Refilled(b) \in Nat /\ BW!Refilled(b) <= BW!Capacity(b)
         /\ BW!Refilled(b) <= tokens[b] + (elapsed - refilled[b]) * rate[b]
<1>1. BandType /\ refilled[b] <= elapsed  BY DEF BandInv, BucketsInv
<1>2. /\ tokens[b] \in Nat /\ elapsed \in Nat /\ refilled[b] \in Nat /\ rate[b] \in Nat
      /\ BW!Capacity(b) \in Nat
  BY <1>1, BandTyped DEF BandType
<1>3. PICK u, r, c : u = elapsed - refilled[b] /\ r = rate[b] /\ c = BW!Capacity(b)  OBVIOUS
<1>4. u \in Nat /\ r \in Nat /\ c \in Nat  BY <1>1, <1>2, <1>3
<1>5. u * r \in Nat  BY <1>4
<1>6. PICK h : h = tokens[b] + u * r  OBVIOUS
<1>7. h \in Nat  BY <1>2, <1>5, <1>6
<1>8. BW!Refilled(b) = IF h < c THEN h ELSE c
  BY <1>3, <1>6 DEF BW!Refilled, BW!Minimum
<1>9. (IF h < c THEN h ELSE c) \in Nat /\ (IF h < c THEN h ELSE c) <= c /\ (IF h < c THEN h ELSE c) <= h
  BY <1>4, <1>7
<1>. QED  BY <1>3, <1>6, <1>8, <1>9

LEMMA LimitedAre ==
  ASSUME BandConstants, BandType, NEW a \in Acquirer
  PROVE  BW!Limited(a) \subseteq BW!Bucket
BY BandTyped DEF BW!Limited

LEMMA GrantIs ==
  ASSUME BandConstants, BandInv, NEW a \in Acquirer
  PROVE  BW!Granted(a) \in Nat /\ \A b \in BW!Limited(a) : BW!Granted(a) <= BW!Refilled(b)
<1>1. BW!Limited(a) \subseteq BW!Bucket  BY LimitedAre DEF BandInv
<1>2. PICK has : has = {Maximum} \cup {BW!Refilled(b) : b \in BW!Limited(a)}  OBVIOUS
<1>3. \A b \in BW!Limited(a) : BW!Refilled(b) \in Nat /\ BW!Refilled(b) \in has
  <2>1. \A b \in BW!Limited(a) : BW!Refilled(b) \in Nat  BY <1>1, RefillsAre
  <2>2. \A b \in BW!Limited(a) : BW!Refilled(b) \in has  BY <1>2
  <2>. QED  BY <2>1, <2>2
<1>4. has \in SUBSET Nat /\ has # {}  BY <1>2, <1>3 DEF BandConstants
<1>5. \E n \in has : \A m \in has : n <= m  BY <1>4, LeastNumber
<1>6. BW!Granted(a) = CHOOSE n \in has : \A m \in has : n <= m  BY <1>2 DEF BW!Granted
<1>7. BW!Granted(a) \in has /\ \A m \in has : BW!Granted(a) <= m  BY <1>5, <1>6
<1>. QED  BY <1>3, <1>4, <1>7

LEMMA Product ==
  ASSUME NEW r \in Nat, NEW e \in Nat, NEW f \in Nat, f <= e
  PROVE  r * f + (e - f) * r = r * e /\ r * f <= r * e
<1>1. PICK u \in Nat : e = f + u
  <2>1. e - f \in Nat /\ e = f + (e - f)  OBVIOUS
  <2>. QED  BY <2>1
<1>2. e - f = u  BY <1>1
<1>3. r * (f + u) = r * f + u * r  OBVIOUS
<1>4. r * f \in Nat /\ u * r \in Nat  OBVIOUS
<1>. QED  BY <1>1, <1>2, <1>3, <1>4

(* The lane that gives its head away.                                      *)
LEMMA HeadGoes ==
  ASSUME BandConstants, BandType, LanesInv, NEW a \in Acquirer, NEW q, permit' = [permit EXCEPT ![a] = q],
         BW!Waiting(a), Head(lanes[DirectionOf[a]]) = a,
         lanes' = [lanes EXCEPT ![DirectionOf[a]] = Tail(@)]
  PROVE  LanesInv'
<1>1. PICK d, l : d = DirectionOf[a] /\ l = lanes[d]  OBVIOUS
<1>2. d \in {1, 2} /\ l \in Seq(Acquirer)  BY <1>1, BandTyped DEF LanesInv
<1>3. l # <<>>
  <2>1. \E i \in 1 .. Len(l) : l[i] = a  BY <1>1, <1>2 DEF BW!Waiting, BW!Range
  <2>. QED  BY <1>2, <2>1, EmptySeq
<1>4. PICK m : m = Tail(l)  OBVIOUS
<1>5. /\ m \in Seq(Acquirer) /\ Len(m) = Len(l) - 1 /\ \A i \in 1 .. Len(m) : m[i] = l[i + 1]
  BY <1>2, <1>3, <1>4, HeadTailProperties
<1>6. Len(l) \in Nat /\ Len(l) >= 1 /\ l[1] = a
  <2>1. Len(l) \in Nat \ {0}  BY <1>2, <1>3, EmptySeq
  <2>2. Head(l) = l[1]  BY <1>2, <1>3
  <2>. QED  BY <1>1, <2>1, <2>2
<1>7. lanes' = [lanes EXCEPT ![d] = m]  BY <1>1, <1>4
<1>8. lanes \in [{1, 2} -> Seq(Acquirer)]  BY DEF LanesInv
<1>9. lanes' \in [{1, 2} -> Seq(Acquirer)] /\ lanes'[d] = m
      /\ \A x \in {1, 2} : x # d => lanes'[x] = lanes[x]
  <2>1. PICK f, g : f = lanes /\ g = lanes'  OBVIOUS
  <2>2. f \in [{1, 2} -> Seq(Acquirer)]  BY <1>8, <2>1
  <2>3. g = [f EXCEPT ![d] = m]  BY <1>7, <2>1
  <2>4. m \in Seq(Acquirer)  BY <1>5
  <2>5. /\ g \in [{1, 2} -> Seq(Acquirer)] /\ g[d] = m
        /\ \A x \in {1, 2} : x # d => g[x] = f[x]
    BY <1>2, <2>2, <2>3, <2>4, LaneSet
  <2>. QED  BY <2>1, <2>5
<1>10. \A x \in Acquirer : x # a => permit'[x] = permit[x]  BY DEF BandType
<1>11. ASSUME NEW i \in 1 .. Len(m) PROVE i + 1 \in 1 .. Len(l) /\ i + 1 # 1  BY <1>5, <1>6
<1>12. /\ \A i, j \in 1 .. Len(l) : l[i] = l[j] => i = j
       /\ \A i \in 1 .. Len(l) : DirectionOf[l[i]] = d /\ permit[l[i]] = BW!NoPermit
  BY <1>1, <1>2 DEF LanesInv
<1>13. 1 \in 1 .. Len(l)  BY <1>6
<1>14. ASSUME NEW i \in 1 .. Len(m) PROVE m[i] # a /\ m[i] \in Acquirer
  <2>1. l[i + 1] # l[1]  BY <1>11, <1>12, <1>13
  <2>. QED  BY <1>5, <1>6, <2>1
<1>15. ASSUME NEW i \in 1 .. Len(m), NEW j \in 1 .. Len(m), m[i] = m[j] PROVE i = j
  <2>1. l[i + 1] = l[j + 1]  BY <1>5, <1>15
  <2>2. i + 1 = j + 1  BY <1>11, <1>12, <2>1
  <2>. QED  BY <1>5, <1>6, <2>2
<1>16. ASSUME NEW i \in 1 .. Len(m) PROVE DirectionOf[m[i]] = d /\ permit'[m[i]] = BW!NoPermit
  <2>1. PICK k : k = i + 1  OBVIOUS
  <2>2. k \in 1 .. Len(l)  BY <1>11, <2>1
  <2>3. m[i] = l[k]  BY <1>5, <2>1
  <2>4. DirectionOf[l[k]] = d /\ permit[l[k]] = BW!NoPermit  BY <1>12, <2>2
  <2>. QED  BY <1>10, <1>14, <2>3, <2>4
<1>17. ASSUME NEW x \in {1, 2}, x # d, NEW i \in 1 .. Len(lanes[x])
       PROVE  DirectionOf[lanes[x][i]] = x /\ permit'[lanes[x][i]] = BW!NoPermit
  <2>1. DirectionOf[lanes[x][i]] = x /\ permit[lanes[x][i]] = BW!NoPermit  BY DEF LanesInv
  <2>2. lanes[x] \in Seq(Acquirer)  BY <1>8
  <2>3. lanes[x][i] \in Acquirer  BY <2>2, ElementOfSeq
  <2>4. lanes[x][i] # a  BY <1>1, <1>17, <2>1
  <2>. QED  BY <1>10, <2>1, <2>3, <2>4
<1>18. ASSUME NEW x \in {1, 2}
       PROVE  /\ \A i, j \in 1 .. Len(lanes'[x]) : lanes'[x][i] = lanes'[x][j] => i = j
              /\ \A i \in 1 .. Len(lanes'[x]) :
                   DirectionOf[lanes'[x][i]] = x /\ permit'[lanes'[x][i]] = BW!NoPermit
  <2>1. CASE x = d
    <3>1. PICK k : k = lanes'[x]  OBVIOUS
    <3>2. k = m  BY <1>9, <2>1, <3>1
    <3>3. \A i, j \in 1 .. Len(k) : k[i] = k[j] => i = j  BY <1>15, <3>2
    <3>4. \A i \in 1 .. Len(k) : DirectionOf[k[i]] = x /\ permit'[k[i]] = BW!NoPermit
      BY <1>16, <2>1, <3>2
    <3>5. ASSUME NEW i \in 1 .. Len(lanes'[x]), NEW j \in 1 .. Len(lanes'[x]), lanes'[x][i] = lanes'[x][j]
          PROVE  i = j
      <4>1. i \in 1 .. Len(k) /\ j \in 1 .. Len(k) /\ k[i] = k[j]  BY <3>1, <3>5
      <4>. QED  BY <3>3, <4>1
    <3>6. ASSUME NEW i \in 1 .. Len(lanes'[x])
          PROVE  DirectionOf[lanes'[x][i]] = x /\ permit'[lanes'[x][i]] = BW!NoPermit
      <4>1. i \in 1 .. Len(k)  BY <3>1
      <4>. QED  BY <3>1, <3>4, <4>1
    <3>. QED  BY <3>5, <3>6
  <2>2. CASE x # d
    <3>1. lanes'[x] = lanes[x]  BY <1>9, <2>2
    <3>2. \A i, j \in 1 .. Len(lanes[x]) : lanes[x][i] = lanes[x][j] => i = j  BY DEF LanesInv
    <3>. QED  BY <1>17, <2>2, <3>1, <3>2
  <2>. QED  BY <2>1, <2>2
<1>. QED  BY <1>9, <1>18 DEF LanesInv

LEMMA Acquired ==
  ASSUME BandConstants, BandInv, NEW a \in Acquirer, BW!Acquires(a) PROVE BandInv'
<1>0. BandType /\ LanesInv /\ BucketsInv  BY DEF BandInv
<1>1. PICK n : n = BW!Granted(a)  OBVIOUS
<1>2. /\ BW!Waiting(a) /\ Head(lanes[DirectionOf[a]]) = a
      /\ tokens' = [b \in BW!Bucket |-> IF b \in BW!Limited(a) THEN BW!Refilled(b) - n ELSE tokens[b]]
      /\ refilled' = [b \in BW!Bucket |-> IF b \in {0, DirectionOf[a]} THEN elapsed ELSE refilled[b]]
      /\ UNCHANGED <<settings, minute, rate, elapsed, epoch, spent>>
      /\ IF n = 0 THEN UNCHANGED <<lanes, permit>>
         ELSE /\ permit' = [permit EXCEPT ![a] = [count |-> n, epoch |-> epoch]]
              /\ lanes' = [lanes EXCEPT ![DirectionOf[a]] = Tail(@)]
  BY <1>1 DEF BW!Acquires, BW!configVars
<1>3. n \in Nat /\ \A b \in BW!Limited(a) : n <= BW!Refilled(b)  BY <1>1, GrantIs
<1>4. BW!Limited(a) \subseteq BW!Bucket  BY <1>0, LimitedAre
<1>5. permit[a] = BW!NoPermit
  <2>1. DirectionOf[a] \in {1, 2}  BY <1>0, BandTyped
  <2>2. \E i \in 1 .. Len(lanes[DirectionOf[a]]) : lanes[DirectionOf[a]][i] = a
    <3>1. lanes[DirectionOf[a]] \in Seq(Acquirer)  BY <1>0, <2>1 DEF LanesInv
    <3>. QED  BY <1>2, <3>1 DEF BW!Waiting, BW!Range
  <2>. QED  BY <1>0, <2>1, <2>2 DEF LanesInv
<1>6. permit \in [Acquirer -> Permit] /\ epoch \in Nat \ {0} /\ \A x \in Acquirer : permit[x].epoch <= epoch
  BY <1>0 DEF BandType
<1>7. /\ permit' \in [Acquirer -> Permit] /\ \A x \in Acquirer : x # a => permit'[x] = permit[x]
      /\ permit'[a] = IF n = 0 THEN BW!NoPermit ELSE [count |-> n, epoch |-> epoch]
  <2>1. [count |-> n, epoch |-> epoch] \in Permit  BY <1>3, <1>6 DEF Permit
  <2>2. CASE n = 0  BY <1>2, <1>5, <1>6, <2>2
  <2>3. CASE n # 0  BY <1>2, <1>6, <2>1, <2>3
  <2>. QED  BY <2>2, <2>3
<1>8. permit'[a].epoch <= epoch /\ permit'[a].count = n /\ (n # 0 => permit'[a].epoch = epoch)
  <2>1. CASE n = 0  BY <1>6, <1>7, <2>1, NoPermitIs
  <2>2. CASE n # 0  BY <1>6, <1>7, <2>2
  <2>. QED  BY <2>1, <2>2
<1>9. \A b \in BW!Bucket : BW!Refilled(b) \in Nat /\ tokens[b] \in Nat /\ refilled[b] \in Nat
  BY <1>0, RefillsAre DEF BandType
<1>10. BandType'
  <2>1. \A b \in BW!Bucket : (IF b \in BW!Limited(a) THEN BW!Refilled(b) - n ELSE tokens[b]) \in Nat
    BY <1>3, <1>9
  <2>2. tokens' \in [BW!Bucket -> Nat]  BY <1>2, <2>1
  <2>3. elapsed \in Nat  BY <1>0 DEF BandType
  <2>4. refilled' \in [BW!Bucket -> Nat]  BY <1>2, <1>9, <2>3
  <2>5. \A x \in Acquirer : permit'[x].epoch <= epoch'  BY <1>2, <1>6, <1>7, <1>8
  <2>6. rate' = BW!LimitsOf(settings', minute')  BY <1>0, <1>2 DEF BandType, BW!LimitsOf
  <2>. QED  BY <1>0, <1>2, <1>7, <2>2, <2>4, <2>5, <2>6 DEF BandType
<1>11. LanesInv'
  <2>1. CASE n = 0
    <3>1. lanes' = lanes /\ permit' = permit  BY <1>2, <2>1
    <3>. QED  BY <1>0, <3>1 DEF LanesInv
  <2>2. CASE n # 0
    <3>1. PICK q : permit' = [permit EXCEPT ![a] = q]  BY <1>2, <2>2
    <3>. QED  BY <1>0, <1>2, <2>2, <3>1, HeadGoes
  <2>. QED  BY <2>1, <2>2
<1>12. ASSUME NEW b \in BW!Bucket
       PROVE  /\ refilled'[b] <= elapsed'
              /\ rate'[b] > 0 =>
                   /\ tokens'[b] <= BW!Capacity(b)'
                   /\ spent'[b] + Lent(permit', epoch', rate', b) + tokens'[b] <= rate'[b] * refilled'[b]
  <2>1. /\ elapsed \in Nat /\ refilled[b] \in Nat /\ refilled[b] <= elapsed /\ rate[b] \in Nat
        /\ tokens[b] \in Nat /\ spent[b] \in Nat /\ BW!Capacity(b) \in Nat
    BY <1>0, BandTyped DEF BandType, BucketsInv
  <2>2. refilled'[b] = (IF b \in {0, DirectionOf[a]} THEN elapsed ELSE refilled[b]) /\ elapsed' = elapsed
    BY <1>2
  <2>3. BW!Capacity(b)' = BW!Capacity(b) /\ rate'[b] = rate[b] /\ spent'[b] = spent[b]
    BY <1>2 DEF BW!Capacity
  <2>4. ASSUME rate[b] > 0
        PROVE  /\ tokens'[b] <= BW!Capacity(b)
               /\ spent[b] + Lent(permit', epoch, rate, b) + tokens'[b] <= rate[b] * refilled'[b]
    <3>1. /\ tokens[b] <= BW!Capacity(b)
          /\ spent[b] + Lent(permit, epoch, rate, b) + tokens[b] <= rate[b] * refilled[b]
      BY <1>0, <2>4 DEF BucketsInv
    <3>2. PICK rest \in Nat :
            /\ Lent(permit, epoch, rate, b) = IF a \in OutOf(permit, epoch, rate, b) THEN rest + permit[a].count ELSE rest
            /\ Lent(permit', epoch, rate, b) = IF a \in OutOf(permit', epoch, rate, b) THEN rest + permit'[a].count ELSE rest
      <4>1. PICK p, q, e, r : p = permit /\ q = permit' /\ e = epoch /\ r = rate  OBVIOUS
      <4>2. \E rest \in Nat :
              /\ Lent(p, e, r, b) = IF a \in OutOf(p, e, r, b) THEN rest + p[a].count ELSE rest
              /\ Lent(q, e, r, b) = IF a \in OutOf(q, e, r, b) THEN rest + q[a].count ELSE rest
        <5>1. p \in [Acquirer -> Permit] /\ q \in [Acquirer -> Permit] /\ \A x \in Acquirer : x # a => q[x] = p[x]
          BY <1>6, <1>7, <4>1
        <5>2. IsFiniteSet(Acquirer)  BY DEF BandConstants
        <5>. QED  BY <5>1, <5>2, LentMoves
      <4>. QED  BY <4>1, <4>2
    <3>3. Lent(permit, epoch, rate, b) = rest
      <4>1. permit[a].epoch # epoch  BY <1>5, <1>6, NoPermitIs
      <4>. QED  BY <3>2, <4>1 DEF OutOf
    <3>4. CASE b \in {0, DirectionOf[a]}
      <4>1. b \in BW!Limited(a)  BY <2>4, <3>4 DEF BW!Limited
      <4>2. tokens'[b] = BW!Refilled(b) - n /\ n <= BW!Refilled(b)  BY <1>2, <1>3, <4>1
      <4>3. /\ BW!Refilled(b) \in Nat /\ BW!Refilled(b) <= BW!Capacity(b)
            /\ BW!Refilled(b) <= tokens[b] + (elapsed - refilled[b]) * rate[b]
        BY RefillsAre
      <4>4. Lent(permit', epoch, rate, b) = rest + n
        <5>1. CASE n = 0  BY <1>8, <3>2, <5>1
        <5>2. CASE n # 0
          <6>1. a \in OutOf(permit', epoch, rate, b)  BY <1>8, <2>4, <3>4, <5>2 DEF OutOf
          <6>. QED  BY <1>8, <3>2, <6>1
        <5>. QED  BY <5>1, <5>2
      <4>5. PICK r, e, f : r = rate[b] /\ e = elapsed /\ f = refilled[b]  OBVIOUS
      <4>6. r * f + (e - f) * r = r * e  BY <2>1, <4>5, Product
      <4>7. PICK x, y, z : x = r * f /\ y = (e - f) * r /\ z = r * e  OBVIOUS
      <4>8. x \in Nat /\ y \in Nat /\ z \in Nat /\ x + y = z
        <5>1. e - f \in Nat  BY <2>1, <4>5
        <5>. QED  BY <2>1, <4>5, <4>6, <4>7, <5>1
      <4>9. rate[b] * refilled'[b] = z /\ rate[b] * refilled[b] = x /\ (elapsed - refilled[b]) * rate[b] = y
        BY <2>2, <3>4, <4>5, <4>7
      <4>10. spent[b] + rest + tokens[b] <= x /\ BW!Refilled(b) <= tokens[b] + y
        BY <3>1, <3>3, <4>3, <4>9
      <4>11. spent[b] + (rest + n) + tokens'[b] <= z
        <5>1. PICK s, k, m, h : s = spent[b] /\ k = tokens[b] /\ m = tokens'[b] /\ h = BW!Refilled(b)  OBVIOUS
        <5>2. s \in Nat /\ k \in Nat /\ h \in Nat /\ m = h - n /\ s + rest + k <= x /\ h <= k + y
          BY <2>1, <4>2, <4>3, <4>10, <5>1
        <5>3. s + (rest + n) + m <= z  BY <1>3, <3>2, <4>8, <5>2
        <5>. QED  BY <5>1, <5>3
      <4>12. tokens'[b] <= BW!Capacity(b)
        BY <1>3, <2>1, <4>2, <4>3
      <4>. QED  BY <4>4, <4>9, <4>11, <4>12
    <3>5. CASE b \notin {0, DirectionOf[a]}
      <4>1. b \notin BW!Limited(a)  BY <3>5 DEF BW!Limited
      <4>2. tokens'[b] = tokens[b] /\ refilled'[b] = refilled[b]  BY <1>2, <2>2, <3>5, <4>1
      <4>3. Lent(permit', epoch, rate, b) = rest  BY <3>2, <3>5 DEF OutOf
      <4>. QED  BY <3>1, <3>3, <4>2, <4>3
    <3>. QED  BY <3>4, <3>5
  <2>5. refilled'[b] <= elapsed'  BY <2>1, <2>2
  <2>6. epoch' = epoch /\ rate' = rate  BY <1>2
  <2>. QED  BY <2>3, <2>4, <2>5, <2>6
<1>13. BucketsInv'  BY <1>12 DEF BucketsInv
<1>. QED  BY <1>10, <1>11, <1>13 DEF BandInv

LEMMA Used ==
  ASSUME BandConstants, BandInv, NEW a \in Acquirer, BW!Uses(a) PROVE BandInv'
<1>0. BandType /\ LanesInv /\ BucketsInv  BY DEF BandInv
<1>1. PICK used \in 0 .. permit[a].count :
        /\ BW!Refund(a, used)
        /\ spent' = [b \in BW!Bucket |->
             IF b \in BW!Limited(a) /\ permit[a].epoch = epoch THEN spent[b] + used ELSE spent[b]]
  BY DEF BW!Uses
<1>2. /\ permit' = [permit EXCEPT ![a] = BW!NoPermit]
      /\ UNCHANGED <<settings, minute, rate, refilled, elapsed, epoch, lanes>>
  BY DEF BW!Uses, BW!configVars
<1>3. permit \in [Acquirer -> Permit] /\ epoch \in Nat \ {0} /\ \A x \in Acquirer : permit[x].epoch <= epoch
  BY <1>0 DEF BandType
<1>4. /\ permit' \in [Acquirer -> Permit] /\ \A x \in Acquirer : x # a => permit'[x] = permit[x]
      /\ permit'[a] = BW!NoPermit
  BY <1>2, <1>3, NoPermitIs
<1>5. permit[a].count \in Nat /\ used \in Nat /\ used <= permit[a].count
  <2>1. permit[a].count \in Nat  BY <1>3 DEF Permit
  <2>. QED  BY <1>1, <2>1
<1>6. tokens' = [b \in BW!Bucket |-> IF b \in BW!Limited(a) /\ permit[a].epoch = epoch
         THEN BW!Minimum(tokens[b] + permit[a].count - used, BW!Capacity(b)) ELSE tokens[b]]
  BY <1>1 DEF BW!Refund
<1>7. ASSUME NEW b \in BW!Bucket
      PROVE  LET back == BW!Minimum(tokens[b] + permit[a].count - used, BW!Capacity(b))
             IN back \in Nat /\ back <= BW!Capacity(b) /\ back <= tokens[b] + permit[a].count - used
  <2>1. tokens[b] \in Nat /\ BW!Capacity(b) \in Nat  BY <1>0, BandTyped DEF BandType
  <2>2. PICK h, c : h = tokens[b] + permit[a].count - used /\ c = BW!Capacity(b)  OBVIOUS
  <2>3. h \in Nat /\ c \in Nat  BY <1>5, <2>1, <2>2
  <2>4. (IF h < c THEN h ELSE c) \in Nat /\ (IF h < c THEN h ELSE c) <= c /\ (IF h < c THEN h ELSE c) <= h
    BY <2>3
  <2>5. BW!Minimum(h, c) = IF h < c THEN h ELSE c  BY DEF BW!Minimum
  <2>. QED  BY <2>2, <2>4, <2>5
<1>8. \A b \in BW!Bucket : tokens[b] \in Nat /\ spent[b] \in Nat  BY <1>0 DEF BandType
<1>9. BandType'
  <2>1. tokens' \in [BW!Bucket -> Nat]  BY <1>6, <1>7, <1>8
  <2>2. spent' \in [BW!Bucket -> Nat]  BY <1>1, <1>5, <1>8
  <2>3. \A x \in Acquirer : permit'[x].epoch <= epoch'  BY <1>2, <1>3, <1>4, NoPermitIs
  <2>4. rate' = BW!LimitsOf(settings', minute')  BY <1>0, <1>2 DEF BandType, BW!LimitsOf
  <2>. QED  BY <1>0, <1>2, <1>4, <2>1, <2>2, <2>3, <2>4 DEF BandType
<1>10. LanesInv'
  <2>1. \A d \in {1, 2} : \A i \in 1 .. Len(lanes[d]) : lanes[d][i] \in Acquirer
    BY <1>0, ElementOfSeq DEF LanesInv
  <2>2. \A d \in {1, 2} : \A i \in 1 .. Len(lanes[d]) : permit'[lanes[d][i]] = BW!NoPermit
    BY <1>0, <1>4, <2>1 DEF LanesInv
  <2>3. lanes' = lanes  BY <1>2
  <2>4. lanes' \in [{1, 2} -> Seq(Acquirer)]  BY <1>0, <2>3 DEF LanesInv
  <2>5. ASSUME NEW d \in {1, 2}
        PROVE  /\ \A i, j \in 1 .. Len(lanes'[d]) : lanes'[d][i] = lanes'[d][j] => i = j
               /\ \A i \in 1 .. Len(lanes'[d]) :
                    DirectionOf[lanes'[d][i]] = d /\ permit'[lanes'[d][i]] = BW!NoPermit
    <3>1. \A i, j \in 1 .. Len(lanes[d]) : lanes[d][i] = lanes[d][j] => i = j  BY <1>0 DEF LanesInv
    <3>2. \A i \in 1 .. Len(lanes[d]) : DirectionOf[lanes[d][i]] = d  BY <1>0 DEF LanesInv
    <3>. QED  BY <2>2, <2>3, <3>1, <3>2
  <2>. QED  BY <2>4, <2>5 DEF LanesInv
<1>11. ASSUME NEW b \in BW!Bucket, rate[b] > 0
       PROVE  /\ tokens'[b] <= BW!Capacity(b)
              /\ spent'[b] + Lent(permit', epoch, rate, b) + tokens'[b] <= rate[b] * refilled[b]
  <2>1. /\ tokens[b] <= BW!Capacity(b)
        /\ spent[b] + Lent(permit, epoch, rate, b) + tokens[b] <= rate[b] * refilled[b]
    BY <1>0, <1>11 DEF BucketsInv
  <2>2. PICK rest \in Nat :
          /\ Lent(permit, epoch, rate, b) = IF a \in OutOf(permit, epoch, rate, b) THEN rest + permit[a].count ELSE rest
          /\ Lent(permit', epoch, rate, b) = IF a \in OutOf(permit', epoch, rate, b) THEN rest + permit'[a].count ELSE rest
    <3>1. PICK p, q, e, r : p = permit /\ q = permit' /\ e = epoch /\ r = rate  OBVIOUS
    <3>2. \E rest \in Nat :
            /\ Lent(p, e, r, b) = IF a \in OutOf(p, e, r, b) THEN rest + p[a].count ELSE rest
            /\ Lent(q, e, r, b) = IF a \in OutOf(q, e, r, b) THEN rest + q[a].count ELSE rest
      <4>1. p \in [Acquirer -> Permit] /\ q \in [Acquirer -> Permit] /\ \A x \in Acquirer : x # a => q[x] = p[x]
        BY <1>3, <1>4, <3>1
      <4>2. IsFiniteSet(Acquirer)  BY DEF BandConstants
      <4>. QED  BY <4>1, <4>2, LentMoves
    <3>. QED  BY <3>1, <3>2
  <2>3. Lent(permit', epoch, rate, b) = rest
    <3>1. permit'[a].count = 0  BY <1>4, NoPermitIs
    <3>. QED  BY <2>2, <3>1
  <2>4. rate[b] * refilled[b] \in Nat
    <3>1. rate[b] \in Nat /\ refilled[b] \in Nat  BY <1>0, BandTyped DEF BandType
    <3>. QED  BY <3>1
  <2>5. CASE b \in BW!Limited(a) /\ permit[a].epoch = epoch
    <3>1. a \in OutOf(permit, epoch, rate, b)  BY <2>5 DEF OutOf, BW!Limited
    <3>2. PICK back : back = BW!Minimum(tokens[b] + permit[a].count - used, BW!Capacity(b))  OBVIOUS
    <3>3. back \in Nat /\ back <= BW!Capacity(b) /\ back <= tokens[b] + permit[a].count - used
      BY <1>7, <3>2
    <3>4. tokens'[b] = back /\ spent'[b] = spent[b] + used  BY <1>1, <1>6, <2>5, <3>2
    <3>5. PICK x, s, k, c : x = rate[b] * refilled[b] /\ s = spent[b] /\ k = tokens[b] /\ c = permit[a].count
      OBVIOUS
    <3>6. /\ x \in Nat /\ s \in Nat /\ k \in Nat /\ c \in Nat
          /\ s + (rest + c) + k <= x /\ back <= k + c - used
      BY <1>5, <1>8, <2>1, <2>2, <2>4, <3>1, <3>3, <3>5
    <3>7. (s + used) + rest + back <= x  BY <1>5, <2>2, <3>3, <3>6
    <3>. QED  BY <2>3, <3>3, <3>4, <3>5, <3>7
  <2>6. CASE ~(b \in BW!Limited(a) /\ permit[a].epoch = epoch)
    <3>1. tokens'[b] = tokens[b] /\ spent'[b] = spent[b]  BY <1>1, <1>6, <2>6
    <3>2. a \notin OutOf(permit, epoch, rate, b)  BY <2>6 DEF OutOf, BW!Limited
    <3>. QED  BY <2>1, <2>2, <2>3, <3>1, <3>2
  <2>. QED  BY <2>5, <2>6
<1>12. BucketsInv'
  <2>1. \A b : BW!Capacity(b)' = BW!Capacity(b)  BY <1>2 DEF BW!Capacity
  <2>2. epoch' = epoch /\ rate' = rate /\ refilled' = refilled /\ elapsed' = elapsed  BY <1>2
  <2>. QED  BY <1>0, <1>11, <2>1, <2>2 DEF BucketsInv
<1>. QED  BY <1>9, <1>10, <1>12 DEF BandInv

LEMMA BandInvStep ==
  BandConstants /\ BandInv /\ [WireNext]_wireVars => BandInv'
<1>. SUFFICES ASSUME BandConstants, BandInv, [WireNext]_wireVars PROVE BandInv'  OBVIOUS
<1>0. BandType /\ LanesInv /\ BucketsInv  BY DEF BandInv
<1>1. CASE BW!BandNext
  <2>1. CASE BW!Configure
    <3>1. settings' \in Settings /\ minute' \in 0 .. Day - 1 /\ BW!Refreshed
          /\ UNCHANGED <<lanes, permit, stopping>>
      BY <2>1 DEF BW!Configure
    <3>. QED  BY <3>1, BandRefreshes
  <2>2. CASE BW!Environment
    <3>1. settings' = settings /\ minute' \in 0 .. Day - 1 /\ BW!Refreshed
          /\ UNCHANGED <<lanes, permit, stopping>>
      BY <2>2 DEF BW!Environment
    <3>2. settings' \in Settings  BY <1>0, <3>1 DEF BandType
    <3>. QED  BY <3>1, <3>2, BandRefreshes
  <2>3. CASE BW!Elapses
    <3>1. /\ elapsed' = elapsed + 1
          /\ UNCHANGED <<settings, minute, rate, tokens, refilled, epoch, spent, lanes, permit>>
      BY <2>3 DEF BW!Elapses, BW!configVars
    <3>2. elapsed \in Nat  BY <1>0 DEF BandType
    <3>3. elapsed' \in Nat /\ elapsed' >= elapsed  BY <3>1, <3>2
    <3>4. BucketsInv'  BY <1>0, <3>1, <3>3, BucketsKept
    <3>5. LanesInv'  BY <1>0, <3>1 DEF LanesInv
    <3>6. BandType'  BY <1>0, <3>1, <3>3 DEF BandType, BW!LimitsOf
    <3>. QED  BY <3>4, <3>5, <3>6 DEF BandInv
  <2>4. ASSUME NEW a \in Acquirer, BW!Queues(a) PROVE BandInv'
    <3>1. LanesInv'  BY <1>0, <2>4, Queued
    <3>2. UNCHANGED <<settings, minute, rate, tokens, refilled, elapsed, epoch, spent, permit>>
      BY <2>4 DEF BW!Queues, BW!configVars, BW!bucketVars
    <3>3. BandType' /\ BucketsInv'  BY <1>0, <3>2, BandStays
    <3>. QED  BY <3>1, <3>3 DEF BandInv
  <2>5. ASSUME NEW a \in Acquirer, BW!Stops(a) PROVE BandInv'
    <3>1. UNCHANGED <<settings, minute, rate, tokens, refilled, elapsed, epoch, spent, permit, lanes>>
      BY <2>5 DEF BW!Stops, BW!configVars, BW!bucketVars
    <3>2. BandType' /\ BucketsInv'  BY <1>0, <3>1, BandStays
    <3>3. LanesInv'  BY <1>0, <3>1 DEF LanesInv
    <3>. QED  BY <3>2, <3>3 DEF BandInv
  <2>6. ASSUME NEW a \in Acquirer, BW!GivesUp(a) PROVE BandInv'
    <3>1. LanesInv'  BY <1>0, <2>6, GivenUp
    <3>2. UNCHANGED <<settings, minute, rate, tokens, refilled, elapsed, epoch, spent, permit>>
      BY <2>6 DEF BW!GivesUp, BW!configVars, BW!bucketVars
    <3>3. BandType' /\ BucketsInv'  BY <1>0, <3>2, BandStays
    <3>. QED  BY <3>1, <3>3 DEF BandInv
  <2>7. ASSUME NEW a \in Acquirer, BW!Acquires(a) PROVE BandInv'  BY <2>7, Acquired
  <2>8. ASSUME NEW a \in Acquirer, BW!Uses(a) PROVE BandInv'  BY <2>8, Used
  <2>. QED  BY <1>1, <2>1, <2>2, <2>3, <2>4, <2>5, <2>6, <2>7, <2>8 DEF BW!BandNext
<1>2. CASE UNCHANGED bandVars
  <2>1. UNCHANGED <<settings, minute, rate, tokens, refilled, elapsed, epoch, spent, permit, lanes>>
    BY <1>2 DEF bandVars
  <2>2. BandType' /\ BucketsInv'  BY <1>0, <2>1, BandStays
  <2>3. LanesInv'  BY <1>0, <2>1 DEF LanesInv
  <2>. QED  BY <2>2, <2>3 DEF BandInv
<1>. QED
  BY <1>1, <1>2 DEF WireNext, wireVars, limitVars, TurnsNext, RequestsNext, BranchNext,
     SearchesNext, WantedNext, ShelfNext, GuardNext, BandwidthNext, CatalogueNext, DiscoveryNext

(* Times of a day, and how far apart they are.                             *)
LEMMA DayApart ==
  ASSUME NEW d \in Nat \ {0}, NEW x \in 0 .. d - 1, NEW y \in 0 .. d - 1
  PROVE  (x - y) % d = IF y <= x THEN x - y ELSE x - y + d
<1>1. CASE y <= x
  <2>1. x - y \in 0 .. d - 1  BY <1>1
  <2>. QED  BY <1>1, <2>1
<1>2. CASE ~(y <= x)
  <2>1. PICK z : z = x - y + d  OBVIOUS
  <2>2. z \in 0 .. d - 1 /\ x - y = -d + z  BY <1>2, <2>1
  <2>. QED  BY <1>2, <2>1, <2>2
<1>. QED  BY <1>1, <1>2

LEMMA BandInvHolds ==
  BandConstants /\ BandInv => BW!BudgetIsKept /\ BW!ScheduleIsCyclic
<1>. SUFFICES ASSUME BandConstants, BandInv PROVE BW!BudgetIsKept /\ BW!ScheduleIsCyclic  OBVIOUS
<1>0. BandType /\ LanesInv /\ BucketsInv  BY DEF BandInv
<1>1. BW!BudgetIsKept
  <2> SUFFICES ASSUME NEW b \in BW!Bucket, rate[b] > 0
               PROVE  /\ spent[b] + BW!Out(b) + tokens[b] <= rate[b] * elapsed
                      /\ tokens[b] \in 0 .. BW!Capacity(b)
    BY DEF BW!BudgetIsKept
  <2>1. /\ refilled[b] <= elapsed /\ tokens[b] <= BW!Capacity(b)
        /\ spent[b] + Lent(permit, epoch, rate, b) + tokens[b] <= rate[b] * refilled[b]
    BY <1>0 DEF BucketsInv
  <2>2. /\ rate[b] \in Nat /\ refilled[b] \in Nat /\ elapsed \in Nat /\ tokens[b] \in Nat
        /\ spent[b] \in Nat /\ BW!Capacity(b) \in Nat /\ Lent(permit, epoch, rate, b) \in Nat
    BY <1>0, BandTyped DEF BandType
  <2>3. rate[b] * refilled[b] <= rate[b] * elapsed  BY <2>1, <2>2, Product
  <2>4. PICK x, y : x = rate[b] * refilled[b] /\ y = rate[b] * elapsed  OBVIOUS
  <2>5. x \in Nat /\ y \in Nat /\ x <= y  BY <2>2, <2>3, <2>4
  <2>6. BW!Out(b) = Lent(permit, epoch, rate, b)  BY OutIsLent
  <2>. QED  BY <2>1, <2>2, <2>4, <2>5, <2>6
<1>2. BW!ScheduleIsCyclic
  <2>1. settings \in BW!SettingsType /\ Day \in Nat \ {0}  BY <1>0 DEF BandType, BandConstants
  <2>2. settings.start \in 0 .. Day - 1 /\ settings.end \in 0 .. Day - 1 /\ minute \in 0 .. Day - 1
    BY <1>0, <2>1 DEF BandType, BW!SettingsType
  <2>3. rate = IF BW!AlternateAt(settings, minute) THEN settings.alternate ELSE settings.normal
    BY <1>0 DEF BandType, BW!LimitsOf
  <2>4. PICK s, e, m : s = settings.start /\ e = settings.end /\ m = minute  OBVIOUS
  <2>5. s \in 0 .. Day - 1 /\ e \in 0 .. Day - 1 /\ m \in 0 .. Day - 1  BY <2>2, <2>4
  <2>6. /\ (m - s) % Day = IF s <= m THEN m - s ELSE m - s + Day
        /\ (e - s) % Day = IF s <= e THEN e - s ELSE e - s + Day
    BY <2>1, <2>5, DayApart
  <2>7. settings.scheduled /\ (m - s) % Day < (e - s) % Day => BW!AlternateAt(settings, minute)
    <3>1. PICK p, q : p = (m - s) % Day /\ q = (e - s) % Day  OBVIOUS
    <3>2. p < q => IF s < e THEN m >= s /\ m < e ELSE m >= s \/ m < e
      BY <2>1, <2>5, <2>6, <3>1
    <3>. QED  BY <2>4, <3>1, <3>2 DEF BW!AlternateAt
  <2>. QED  BY <2>3, <2>4, <2>7 DEF BW!ScheduleIsCyclic
<1>. QED  BY <1>1, <1>2

-----------------------------------------------------------------------------
(* A step of the wire is a step of one of its parts; the others stand      *)
(* still.                                                                  *)
LEMMA PartSteps ==
  ASSUME [WireNext]_wireVars
  PROVE  /\ [PR!ReqNext]_reqVars /\ [DN!DistNext]_distVars /\ [SE!SearchNext]_searchVars
         /\ [WA!WantedNext]_checkVars /\ [SH!ShelfNext]_shelfVars
<1>1. [PR!ReqNext]_reqVars
  BY DEF WireNext, wireVars, TurnsNext, RequestsNext, BranchNext, SearchesNext, WantedNext,
         ShelfNext, GuardNext, BandwidthNext, CatalogueNext, DiscoveryNext
<1>2. [DN!DistNext]_distVars
  BY DEF WireNext, wireVars, TurnsNext, RequestsNext, BranchNext, SearchesNext, WantedNext,
         ShelfNext, GuardNext, BandwidthNext, CatalogueNext, DiscoveryNext
<1>3. [SE!SearchNext]_searchVars
  BY DEF WireNext, wireVars, TurnsNext, RequestsNext, BranchNext, SearchesNext, WantedNext,
         ShelfNext, GuardNext, BandwidthNext, CatalogueNext, DiscoveryNext
<1>4. [WA!WantedNext]_checkVars
  BY DEF WireNext, wireVars, TurnsNext, RequestsNext, BranchNext, SearchesNext, WantedNext,
         ShelfNext, GuardNext, BandwidthNext, CatalogueNext, DiscoveryNext
<1>5. [SH!ShelfNext]_shelfVars
  BY DEF WireNext, wireVars, TurnsNext, RequestsNext, BranchNext, SearchesNext, WantedNext,
         ShelfNext, GuardNext, BandwidthNext, CatalogueNext, DiscoveryNext
<1>. QED  BY <1>1, <1>2, <1>3, <1>4, <1>5

(* What the constants are, part by part.                                   *)
LEMMA WireConstants ==
  /\ BranchConstants /\ SearchConstants /\ MaxShelf \in Nat /\ GuardConstants /\ BandConstants
  /\ CatalogueConstants /\ DiscoveryConstants
BY WireAssumption
DEF BranchConstants, SearchConstants, GuardConstants, BandConstants, CatalogueConstants,
    DiscoveryConstants

(* Whoever waits for another user is waited for by a request, whichever    *)
(* route to the user wins and whatever is lost (peers.rs).                 *)
THEOREM RequestsStayServed == WireSpec => []RequestsAreServed
<1>1. WireInit => RequestsInv  BY RequestsInvInit DEF WireInit, PartsInit
<1>2. RequestsInv /\ [WireNext]_wireVars => RequestsInv'  BY PartSteps, RequestsInvStep
<1>. QED  BY <1>1, <1>2, RequestsInvServes, PTL DEF WireSpec

(* The server, the children and Forever agree on the branch after every    *)
(* frame of every neighbour, and the branch never loops (network.rs).      *)
THEOREM BranchStaysSound == WireSpec => []BranchIsSound
<1>1. WireInit => BranchInv  BY WireConstants, BranchInvInit DEF WireInit, PartsInit
<1>2. BranchInv /\ [WireNext]_wireVars => BranchInv'  BY WireConstants, PartSteps, BranchInvStep
<1>. QED  BY <1>1, <1>2, BranchInvIsSound, PTL DEF WireSpec

(* The searches, the checks of wanted albums and the scan of a shelf.      *)
AsksInv == SearchesInv /\ WantedInv /\ ShelfInv

LEMMA AsksInvInit == WireInit => AsksInv
  BY WireConstants, SearchesInvInit, WantedInvInit, ShelfInvInit DEF WireInit, PartsInit, AsksInv

LEMMA AsksInvStep == AsksInv /\ [WireNext]_wireVars => AsksInv'
  BY WireConstants, PartSteps, SearchesInvStep, WantedInvStep, ShelfInvStep DEF AsksInv

(* An answer counts for the question it answers, for any number of users,  *)
(* albums, tokens and sessions (search.rs, wanted.rs, radar.rs).           *)
THEOREM AnswersStayTheirOwn == WireSpec => []AnswersAreTheirOwn
<1>1. AsksInv => AnswersAreTheirOwn
  BY TokensName, WantedInvHolds, ShelfInvHolds DEF AsksInv, AnswersAreTheirOwn
<1>. QED  BY <1>1, AsksInvInit, AsksInvStep, PTL DEF WireSpec

(* A session that ends ends what could no longer be answered, at whatever  *)
(* moment it ends (search.rs, wanted.rs, radar.rs).                        *)
THEOREM SessionsEndTheirWork == WireSpec => []NothingOutlivesTheSession
<1>1. AsksInv => NothingOutlivesTheSession
  BY SearchesEnd, WantedInvHolds, ShelfInvHolds DEF AsksInv, NothingOutlivesTheSession
<1>. QED  BY <1>1, AsksInvInit, AsksInvStep, PTL DEF WireSpec

(* Searches of every lane share one budget: none is put on the wire before *)
(* its time, whoever wants it and however slow the last write was          *)
(* (search_governor.rs).                                                   *)
THEOREM SearchesStaySpaced == WireSpec => SE!SendsAreSpaced
<1>1. AsksInv /\ [WireNext]_wireVars =>
        [writing = "none" /\ writing' # "none" =>
           /\ lastWrite.any # 0 => now >= lastWrite.any + Spacing
           /\ writing' = "wanted" /\ lastWrite.wanted # 0 =>
                now >= lastWrite.wanted + Interval]_SE!searchVars
  BY WireConstants, PartSteps, SearchesAreSpaced DEF AsksInv
<1>. QED  BY <1>1, AsksInvInit, AsksInvStep, PTL DEF WireSpec, SE!SendsAreSpaced

(* The budget of the payload is kept over all transfers and whatever they  *)
(* give back, and its schedule is cyclic (bandwidth.rs).                   *)
THEOREM BudgetStaysKept == WireSpec => [](BW!BudgetIsKept /\ BW!ScheduleIsCyclic)
<1>1. WireInit => BandInv  BY WireConstants, BandInvInit DEF WireInit, PartsInit
<1>2. BandInv /\ [WireNext]_wireVars => BandInv'  BY WireConstants, BandInvStep
<1>3. BandInv => BW!BudgetIsKept /\ BW!ScheduleIsCyclic  BY WireConstants, BandInvHolds
<1>. QED  BY <1>1, <1>2, <1>3, PTL DEF WireSpec

(* The guard of distributed requests stays within its limits and answers   *)
(* no request twice while it is remembered (distributed.rs).               *)
THEOREM GuardStaysBounded == WireSpec => [](RG!GuardIsBounded /\ RG!NoRequestTwice)
<1>1. WireInit => GuardInv  BY WireConstants, GuardInvInit DEF WireInit, PartsInit
<1>2. GuardInv /\ [WireNext]_wireVars => GuardInv'  BY WireConstants, GuardInvStep
<1>. QED  BY <1>1, <1>2, GuardInvHolds, PTL DEF WireSpec

LEMMA CatalogueStays == WireSpec => []CatalogueInv
<1>1. WireInit => CatalogueInv  BY WireConstants, CatalogueInvInit DEF WireInit, PartsInit
<1>2. CatalogueInv /\ [WireNext]_wireVars => CatalogueInv'  BY WireConstants, CatalogueInvStep
<1>. QED  BY <1>1, <1>2, PTL DEF WireSpec

LEMMA DiscoveryStays == WireSpec => []DiscoveryInv
<1>1. WireInit => DiscoveryInv  BY WireConstants, DiscoveryInvInit DEF WireInit, PartsInit
<1>2. DiscoveryInv /\ [WireNext]_wireVars => DiscoveryInv'  BY WireConstants, DiscoveryInvStep
<1>. QED  BY <1>1, <1>2, PTL DEF WireSpec

(* What Forever asks of others stays within what they allow: no search, no *)
(* lookup and no request to a service before its time, nothing asked that  *)
(* the cache holds, no distributed request answered twice, and no byte     *)
(* beyond the budget (search_governor.rs, transport.rs, provider.rs,       *)
(* distributed.rs, bandwidth.rs).                                          *)
THEOREM LimitsStayKept == WireSpec => LimitsAreKept
<1>1. CatalogueInv /\ [WireNext]_wireVars =>
        [\A c \in Looker :
           ~CA!Is(c, "asked") /\ CA!Is(c, "asked")' => silence = Pause /\ quiet = 0]_CA!catVars
  BY WireConstants, LookupsAreSpaced
<1>2. WireSpec => CA!RequestsAreSpaced
  BY <1>1, CatalogueStays, PTL DEF WireSpec, CA!RequestsAreSpaced
<1>3. DiscoveryInv /\ [WireNext]_wireVars =>
        [\A c \in Asker :
           ~DI!Is(c, "asked") /\ DI!Is(c, "asked")' => silence = Pause /\ quiet = 0]_DI!discVars
  BY WireConstants, ServicesAreSpaced
<1>4. WireSpec => DI!RequestsAreSpaced
  BY <1>3, DiscoveryStays, PTL DEF WireSpec, DI!RequestsAreSpaced
<1>5. WireSpec => [](CA!LookupsEndInTime /\ CA!NothingIsAskedTwice /\ CA!KeptAnswersAreWhole)
  BY CatalogueStays, CatalogueInvHolds, PTL
<1>6. DiscoveryInv => DI!DuplicatesCoalesce  BY DEF DiscoveryInv, AskingInv
<1>7. WireSpec => []DI!DuplicatesCoalesce  BY <1>6, DiscoveryStays, PTL
<1>. QED
  BY <1>2, <1>4, <1>5, <1>7, SearchesStaySpaced, BudgetStaysKept, GuardStaysBounded
  DEF LimitsAreKept
=============================================================================
