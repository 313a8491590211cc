------------------------------ MODULE Distributed ------------------------------
(***************************************************************************)
(* The place of the client in the distributed search network               *)
(* (service/network.rs, branch.rs, the server's messages about it in       *)
(* service/server.rs): candidates for a parent race to deliver the first   *)
(* search, the winner's level and root are announced to the server and to  *)
(* the children, and children come and go with the capacity.               *)
(*                                                                         *)
(* The session handles one event at a time, so every handler is one step;  *)
(* events of candidates that were dropped may still be queued.             *)
(***************************************************************************)
EXTENDS Integers, FiniteSets

CONSTANTS
  Own,          \* the user name of the session
  User,         \* names of other users
  MaxLevel,     \* greatest branch level that peers report
  MaxChildren,  \* MAX_CHILDREN
  MaxParentId   \* bound on the candidates that are started

VARIABLES
  candidates,  \* DistributedCoordinator::candidates: id -> [user, level, root]
  nextId,      \* next_id
  parent,      \* active_parent: an id, or 0
  rootMode,    \* server_is_parent
  topology,    \* Branch::topology: [level, root], or NoTopology
  capacity,    \* Branch::capacity
  children,    \* Branch::children: user -> the topology it was told
  accepting,   \* Session::accepting_children
  told         \* history: what the server was told last

distVars == <<candidates, nextId, parent, rootMode, topology, capacity, children,
              accepting, told>>
coordinatorVars == <<candidates, nextId, parent, rootMode>>

NoTopology == [level |-> -1, root |-> "nobody"]
Level == 0..MaxLevel
Unknown == -1
Nobody == "nobody"
Names == User \cup {Own}

(* announce_no_distributed_parent.                                         *)
NoParent == [parent |-> FALSE, level |-> 0, root |-> Own, accept |-> FALSE]

(* Branch::reset.                                                          *)
ResetBranch ==
  /\ topology' = NoTopology /\ capacity' = 0
  /\ children' = [c \in {} |-> NoTopology]

DistInit ==
  /\ candidates = [i \in {} |-> 0] /\ nextId = 1 /\ parent = 0 /\ rootMode = FALSE
  /\ topology = NoTopology /\ capacity = 0
  /\ children = [c \in {} |-> NoTopology]
  /\ accepting = FALSE /\ told = NoParent

Keep(S) == [i \in DOMAIN candidates \cap S |-> candidates[i]]

BroadcastNobody(t) == \* mutant: only the server hears of a change
  /\ topology' = t
  /\ UNCHANGED children

(* Branch::topology: the children hear of it; one with a full queue is     *)
(* dropped.                                                                *)
Broadcast(t) ==
  /\ topology' = t
  /\ \E S \in SUBSET DOMAIN children : children' = [c \in S |-> t]

-----------------------------------------------------------------------------
(* Events of the server.                                                   *)
StartCandidates ==
  /\ parent = 0 /\ ~rootMode /\ DOMAIN candidates = {}
  /\ \E S \in SUBSET User :
       /\ S # {} /\ nextId + Cardinality(S) - 1 <= MaxParentId
       /\ \E name \in [nextId..nextId + Cardinality(S) - 1 -> S] :
            /\ \A i, j \in DOMAIN name : name[i] = name[j] => i = j
            /\ candidates' = [i \in DOMAIN name |->
                 [user |-> name[i], level |-> Unknown, root |-> Nobody]]
       /\ nextId' = nextId + Cardinality(S)
  /\ UNCHANGED <<parent, rootMode, topology, capacity, children, accepting, told>>

(* The server sends a search itself.                                       *)
BecomeBranchRoot ==
  /\ ~rootMode
  /\ candidates' = Keep({}) /\ parent' = 0 /\ rootMode' = TRUE
  /\ topology' = [level |-> 0, root |-> Own] /\ capacity' = 0
  /\ children' = [c \in {} |-> NoTopology]
  /\ told' = NoParent /\ accepting' = FALSE
  /\ UNCHANGED nextId

ResetDistributed ==
  /\ candidates' = Keep({}) /\ parent' = 0 /\ rootMode' = FALSE
  /\ ResetBranch
  /\ told' = NoParent /\ accepting' = FALSE
  /\ UNCHANGED nextId

-----------------------------------------------------------------------------
(* Events of a candidate, or of the parent.                                *)
LevelFrame(i, level) ==
  /\ i \in DOMAIN candidates
  /\ candidates' = [candidates EXCEPT ![i].level = level,
       ![i].root = IF level = 0 THEN candidates[i].user ELSE @]
  /\ IF parent = i
       THEN /\ Broadcast([topology EXCEPT !.level = level + 1])
            /\ told' = [told EXCEPT !.level = level + 1]
       ELSE UNCHANGED <<topology, children, told>>
  /\ UNCHANGED <<nextId, parent, rootMode, capacity, accepting>>

RootFrame(i, root) ==
  /\ i \in DOMAIN candidates
  /\ candidates' = [candidates EXCEPT ![i].root = root]
  /\ IF parent = i
       THEN /\ Broadcast([topology EXCEPT !.root = root])
            /\ told' = [told EXCEPT !.root = root]
       ELSE UNCHANGED <<topology, children, told>>
  /\ UNCHANGED <<nextId, parent, rootMode, capacity, accepting>>

(* The first search of a candidate that has told its level and root makes  *)
(* it the parent; relaying may drop children whose queue is full.          *)
Adopt(i) ==
  /\ parent = 0 /\ ~rootMode /\ i \in DOMAIN candidates
  /\ candidates[i].level # Unknown /\ candidates[i].root # Nobody
  /\ candidates' = Keep({i}) /\ parent' = i
  /\ LET t == [level |-> candidates[i].level + 1, root |-> candidates[i].root]
     IN  /\ Broadcast(t)
         /\ told' = [parent |-> TRUE, level |-> t.level, root |-> t.root,
                     accept |-> FALSE]
  /\ accepting' = FALSE
  /\ UNCHANGED <<nextId, rootMode, capacity>>

Relay ==
  /\ parent # 0 \/ rootMode
  /\ \E S \in SUBSET DOMAIN children : children' = [c \in S |-> children[c]]
  /\ UNCHANGED <<coordinatorVars, topology, capacity, accepting, told>>

ClosedKeepsBranch(i) == \* mutant: the branch outlives the parent
  /\ i \in DOMAIN candidates
  /\ candidates' = Keep(DOMAIN candidates \ {i})
  /\ IF parent # i THEN UNCHANGED <<parent, accepting, told>>
     ELSE parent' = 0 /\ told' = NoParent /\ accepting' = FALSE
  /\ UNCHANGED <<nextId, rootMode, topology, capacity, children>>

Closed(i) ==
  /\ i \in DOMAIN candidates
  /\ candidates' = Keep(DOMAIN candidates \ {i})
  /\ IF parent # i THEN UNCHANGED <<parent, topology, capacity, children, accepting, told>>
     ELSE parent' = 0 /\ ResetBranch /\ told' = NoParent /\ accepting' = FALSE
  /\ UNCHANGED <<nextId, rootMode>>

-----------------------------------------------------------------------------
(* Branch::refresh.  The capacity depends on the settings, on how long the *)
(* topology has been stable, on speeds and on reachability.                *)
Refreshed(room, kept) ==
  /\ room \in 0..MaxChildren /\ (topology = NoTopology => room = 0)
  /\ kept \subseteq DOMAIN children
  /\ capacity' = room

Accepts(room, kept) == topology # NoTopology /\ Cardinality(kept) < room

(* maintain_network: an overloaded branch is dropped as a whole, and the   *)
(* server hears of a change.                                               *)
Maintain ==
  /\ \E room \in 0..MaxChildren : \E alive \in SUBSET DOMAIN children :
       LET kept == IF Cardinality(alive) > room THEN {} ELSE alive IN
       /\ Refreshed(room, alive)
       /\ children' = [c \in kept |-> children[c]]
       /\ accepting' = Accepts(room, kept)
       /\ told' = [told EXCEPT !.accept = accepting']
  /\ UNCHANGED <<coordinatorVars, topology>>

(* A child connects, directly or through the server: refresh, then add.    *)
ParentName == IF parent = 0 THEN Nobody ELSE candidates[parent].user

AddChild(c) ==
  /\ \E room \in 0..MaxChildren : \E alive \in SUBSET DOMAIN children :
       LET kept == IF Cardinality(alive) > room THEN {} ELSE alive
           takes == /\ Accepts(room, kept) /\ c \notin kept
                    /\ c \notin {Own, topology.root, ParentName}
       IN  /\ Refreshed(room, alive)
           /\ children' = [d \in kept \cup (IF takes THEN {c} ELSE {}) |->
                IF d \in kept THEN children[d] ELSE topology]
  /\ UNCHANGED <<coordinatorVars, topology, accepting, told>>

DistNext ==
  \/ StartCandidates \/ BecomeBranchRoot \/ ResetDistributed \/ Relay \/ Maintain
  \/ \E i \in 1..MaxParentId :
       \/ \E level \in Level : LevelFrame(i, level)
       \/ \E root \in Names : RootFrame(i, root)
       \/ Adopt(i) \/ Closed(i)
  \/ \E c \in Names : AddChild(c)

DistSpec == DistInit /\ [][DistNext]_distVars

-----------------------------------------------------------------------------
(* The server and every child know the branch as the session does, through *)
(* every change of parent, level, root and capacity.                       *)
BranchIsAnnounced ==
  /\ told.parent <=> parent # 0
  /\ told.accept <=> accepting
  /\ [level |-> told.level, root |-> told.root] =
       IF topology = NoTopology THEN [level |-> 0, root |-> Own] ELSE topology
  /\ \A c \in DOMAIN children : children[c] = topology

(* No search can go round: neither the client itself nor its parent is a   *)
(* child, and there are no children without an upstream.                   *)
NoLoop ==
  /\ DOMAIN children \cap {Own, ParentName} = {}
  /\ DOMAIN children # {} => parent # 0 \/ rootMode

(* A client below a branch root names that root: the root announced is     *)
(* the one the parent's own messages imply.                                *)
RootIsTheParents == parent # 0 => topology.root = candidates[parent].root
=============================================================================
