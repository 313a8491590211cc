-------------------------------- MODULE Rooms --------------------------------
(***************************************************************************)
(* Public rooms (rooms.rs): what the user wants to be in, which is stored, *)
(* and where the session believes us to be, which the server's frames tell.*)
(* Commands and frames are two queues; a leave may pass the answer to an   *)
(* earlier join.                                                           *)
(***************************************************************************)
EXTENDS Integers, Sequences, FiniteSets, SequencesExt

CONSTANTS
  Room,
  Visitor,          \* other users, who come and go
  MaxStoredRooms,   \* MAX_STORED_ROOMS
  MaxFrames,        \* bound: commands and frames under way
  MaxRoomFailures   \* bound: saves that fail

VARIABLES
  store,     \* RoomsStore in memory: rooms by name
  stored,    \* the file
  connected, \* RoomsRuntime
  joined, joining, members,
  toServer,  \* commands on their way: <<"join" or "leave", room>>
  toClient,  \* frames on their way: <<kind, room, users>>
  presence,  \* the server: the rooms we are in
  visitors,  \* the server: who else is in each room
  hand,      \* the command a thread is about to send, <<>> if none
  unsavedRooms, \* saves that failed
  leftByUser \* history: rooms the user has left and not joined since

roomVars == <<store, stored, connected, joined, joining, members, toServer,
              toClient, presence, visitors, hand, unsavedRooms, leftByUser>>
runtimeVars == <<connected, joined, joining, members>>
wireVars == <<toServer, toClient, presence, visitors>>

Absent == [auto |-> FALSE, favorite |-> FALSE, messages |-> FALSE, kept |-> FALSE]
New == [Absent EXCEPT !.kept = TRUE]

RoomsInit ==
  /\ store = [r \in Room |-> Absent] /\ stored = store
  /\ connected = FALSE /\ joined = {} /\ joining = {}
  /\ members = [r \in Room |-> {}]
  /\ toServer = <<>> /\ toClient = <<>>
  /\ presence = {} /\ visitors = [r \in Room |-> {}]
  /\ hand = <<>> /\ unsavedRooms = 0 /\ leftByUser = {}

Desired == {r \in Room : store[r].auto}
Kept(s) == {r \in Room : s[r].kept}
Stored(r) == IF store[r].kept THEN store[r] ELSE New

-----------------------------------------------------------------------------
(* prune_store forgets a room nobody has a reason to keep; trim_store keeps*)
(* the rooms that are wanted, then the starred ones, then those with news. *)
Prune(s) ==
  [r \in Room |-> IF s[r].auto \/ s[r].favorite \/ s[r].messages THEN s[r] ELSE Absent]

Rank(room) == (IF room.auto THEN 0 ELSE 4) + (IF room.favorite THEN 0 ELSE 2)
                + (IF room.messages THEN 0 ELSE 1)

Trims(s, kept) ==
  /\ kept \subseteq Kept(s)
  /\ Cardinality(kept) = IF Cardinality(Kept(s)) < MaxStoredRooms
                         THEN Cardinality(Kept(s)) ELSE MaxStoredRooms
  /\ \A r \in kept, q \in Kept(s) \ kept : Rank(s[r]) <= Rank(s[q])

(* mutate_store: change, trim, save; a failed save leaves the memory ahead.*)
Stores(s) ==
  \E kept \in SUBSET Room :
    /\ Trims(s, kept)
    /\ store' = [r \in Room |-> IF r \in kept THEN s[r] ELSE Absent]
Saves == stored' = store' /\ UNCHANGED unsavedRooms
FailsToSave ==
  unsavedRooms < MaxRoomFailures /\ unsavedRooms' = unsavedRooms + 1 /\ UNCHANGED stored

-----------------------------------------------------------------------------
(* on_connected: the runtime forgets nothing it has not been told to, every*)
(* wanted room is being joined, and its command is sent.                   *)
Connects ==
  /\ ~connected /\ connected' = TRUE
  /\ joining' = Desired
  /\ toServer' = SetToSeq({"join"} \X Desired)
  /\ UNCHANGED <<store, stored, joined, members, toClient, presence, visitors,
                 hand, unsavedRooms, leftByUser>>

Disconnects ==
  /\ connected /\ connected' = FALSE
  /\ joined' = {} /\ joining' = {}
  /\ members' = [r \in Room |-> {}]
  /\ toServer' = <<>> /\ toClient' = <<>> /\ presence' = {}
  /\ UNCHANGED <<store, stored, visitors, hand, unsavedRooms, leftByUser>>

RoomsRestart ==
  /\ ~connected /\ store # stored
  /\ store' = stored /\ hand' = <<>>
  /\ UNCHANGED <<stored, runtimeVars, wireVars, unsavedRooms, leftByUser>>

(* join_room and leave_room change the store and then send the command.    *)
RequestJoin(r) ==
  /\ connected /\ hand = <<>> /\ Len(toServer) < MaxFrames
  /\ Stores([store EXCEPT ![r] = [Stored(r) EXCEPT !.auto = TRUE]])
  /\ joining' = joining \cup {r}
  /\ leftByUser' = leftByUser \ {r}
  /\ \/ Saves /\ hand' = <<"join", r>>
     \/ FailsToSave /\ UNCHANGED hand
  /\ UNCHANGED <<connected, joined, members, wireVars>>

RequestLeave(r) ==
  /\ connected /\ hand = <<>> /\ Len(toServer) < MaxFrames
  /\ Stores(Prune([store EXCEPT ![r].auto = FALSE]))
  /\ joining' = joining \ {r} /\ joined' = joined \ {r}
  /\ members' = [members EXCEPT ![r] = {}]
  /\ leftByUser' = leftByUser \cup {r}
  /\ \/ Saves /\ hand' = <<"leave", r>>
     \/ FailsToSave /\ UNCHANGED hand
  /\ UNCHANGED <<connected, wireVars>>

SendRoomCommand ==
  /\ hand # <<>> /\ hand' = <<>>
  /\ toServer' = IF connected THEN Append(toServer, hand) ELSE toServer
  /\ UNCHANGED <<store, stored, runtimeVars, toClient, presence, visitors,
                 unsavedRooms, leftByUser>>

SetFavorite(r, favorite) ==
  /\ Stores(Prune([store EXCEPT ![r] = [Stored(r) EXCEPT !.favorite = favorite]]))
  /\ Saves \/ FailsToSave
  /\ UNCHANGED <<runtimeVars, wireVars, hand, leftByUser>>

-----------------------------------------------------------------------------
(* The server (external): it answers commands in order and tells us of the *)
(* visitors of the rooms we are in.                                        *)
Answers ==
  /\ toServer # <<>> /\ Len(toClient) < MaxFrames
  /\ LET r == Head(toServer)[2]
         joins == Head(toServer)[1] = "join"
     IN /\ presence' = IF joins THEN presence \cup {r} ELSE presence \ {r}
        /\ toClient' = Append(toClient, IF joins THEN <<"joined", r, visitors[r]>>
                                        ELSE <<"left", r, {}>>)
  /\ toServer' = Tail(toServer)
  /\ UNCHANGED <<store, stored, runtimeVars, visitors, hand, unsavedRooms, leftByUser>>

VisitorMoves(r, v) ==
  /\ Len(toClient) < MaxFrames
  /\ visitors' = [visitors EXCEPT ![r] = IF v \in @ THEN @ \ {v} ELSE @ \cup {v}]
  /\ toClient' = IF r \in presence
       THEN Append(toClient, <<IF v \in visitors[r] THEN "goes" ELSE "comes", r, {v}>>)
       ELSE toClient
  /\ UNCHANGED <<store, stored, runtimeVars, toServer, presence, hand,
                 unsavedRooms, leftByUser>>

SomebodySpeaks(r) ==
  /\ r \in presence /\ Len(toClient) < MaxFrames
  /\ toClient' = Append(toClient, <<"says", r, {}>>)
  /\ UNCHANGED <<store, stored, runtimeVars, toServer, presence, visitors, hand,
                 unsavedRooms, leftByUser>>

-----------------------------------------------------------------------------
(* The frames, in their order.                                             *)
Frame(kind, r) ==
  /\ toClient # <<>> /\ Head(toClient)[1] = kind /\ Head(toClient)[2] = r
  /\ toClient' = Tail(toClient)
  /\ UNCHANGED <<connected, toServer, presence, visitors, hand, leftByUser>>

Joined(r) ==
  /\ Frame("joined", r)
  /\ Stores([store EXCEPT ![r] = [Stored(r) EXCEPT !.auto = TRUE]])
  /\ Saves \/ FailsToSave
  /\ joining' = joining \ {r} /\ joined' = joined \cup {r}
  /\ members' = [members EXCEPT ![r] = Head(toClient)[3]]

LeftButListed(r) == \* mutant: the members of a room we have left stay listed
  /\ Frame("left", r)
  /\ joining' = joining \ {r} /\ joined' = joined \ {r}
  /\ UNCHANGED <<store, stored, members, unsavedRooms>>

LeftUnnoticed(r) == \* mutant: the answer to a leave is not looked at
  /\ Frame("left", r)
  /\ UNCHANGED <<store, stored, joining, joined, members, unsavedRooms>>

Left(r) ==
  /\ Frame("left", r)
  /\ joining' = joining \ {r} /\ joined' = joined \ {r}
  /\ members' = [members EXCEPT ![r] = {}]
  /\ UNCHANGED <<store, stored, unsavedRooms>>

UserJoined(r) ==
  /\ Frame("comes", r)
  /\ members' = [members EXCEPT ![r] = @ \cup Head(toClient)[3]]
  /\ UNCHANGED <<store, stored, joining, joined, unsavedRooms>>

UserLeft(r) ==
  /\ Frame("goes", r)
  /\ members' = [members EXCEPT ![r] = @ \ Head(toClient)[3]]
  /\ UNCHANGED <<store, stored, joining, joined, unsavedRooms>>

RecordMessage(r) ==
  /\ Frame("says", r)
  /\ Stores([store EXCEPT ![r] = [Stored(r) EXCEPT !.messages = TRUE]])
  /\ Saves \/ FailsToSave
  /\ UNCHANGED <<joining, joined, members>>

RoomsNext ==
  \/ Connects \/ Disconnects \/ RoomsRestart \/ SendRoomCommand \/ Answers
  \/ \E r \in Room :
       \/ RequestJoin(r) \/ RequestLeave(r) \/ SomebodySpeaks(r)
       \/ Joined(r) \/ Left(r) \/ UserJoined(r) \/ UserLeft(r) \/ RecordMessage(r)
       \/ \E favorite \in BOOLEAN : SetFavorite(r, favorite)
       \/ \E v \in Visitor : VisitorMoves(r, v)

-----------------------------------------------------------------------------
Quiet == connected /\ toServer = <<>> /\ toClient = <<>> /\ hand = <<>>

(* When nothing is under way and every save has worked, the rooms we show  *)
(* as joined are those the server has us in (rooms.rs joined, left,        *)
(* request_leave; service.rs leave_room).                                  *)
JoinedAgreesWithServer == Quiet /\ unsavedRooms = 0 => joined = presence

(* ... and a room shows exactly the visitors it has; a room we are not in  *)
(* shows none, although frames about it may still have come in.            *)
MembersMirrorServer ==
  Quiet /\ unsavedRooms = 0 =>
    \A r \in Room : members[r] = IF r \in presence THEN visitors[r] ELSE {}

(* README.md: leaving a room disables the auto-rejoin preference.  With    *)
(* nothing under way and nothing unsaved, no room the user has left is     *)
(* joined again by the next session (rooms.rs request_leave, joined).      *)
LeftRoomsStayLeft ==
  Quiet /\ unsavedRooms = 0 => leftByUser \cap Desired = {}
=============================================================================
