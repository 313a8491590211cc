---------------------------- MODULE PeerRequests ----------------------------
(***************************************************************************)
(* Questions to another user: the contents of a folder (folders.rs), the   *)
(* list of shares (shares.rs) and the profile (people.rs).                 *)
(*                                                                         *)
(* A caller files a request and waits for its answer with a timeout.  The  *)
(* session asks the server to have the user connect to us (the indirect    *)
(* route) and for the user's address (the direct route).  The routes race: *)
(* the first that claims the request owns the conversation.  Requests are  *)
(* also ended by the server (CantConnectToPeer), by the caller's timeout   *)
(* and by the loss of the session.                                         *)
(***************************************************************************)
EXTENDS Integers, FiniteSets

CONSTANTS
  Request,      \* the requests, each under a connection token of its own
  KindOf,       \* [Request -> {"profile", "folder", "shares"}]
  UserOf,       \* [Request -> the user it is about]
  MaxDials,     \* bound: direct connections opened at a time for one request
  MaxProfiles   \* MAX_PENDING_PROFILES

ReqUsers == {UserOf[r] : r \in Request}
Routes == {"direct", "indirect"}

VARIABLES
  reqOnline,  \* the session is up and reads its commands
  pending,    \* the hubs' maps: "none", "open" or "claimed"
  caller,     \* the command that waits: "idle", "waiting", "answered", "failed"
  queued,     \* requests whose command the session has not read yet
  relayed,    \* requests the server has passed on to their user
  lookups,    \* address requests the server has not answered, by user
  dialing,    \* direct connections being opened, by request
  talking,    \* conversations: <<request, route>>
  late,       \* requests taken from the map whose profile is not updated yet
  profile     \* profile_state of each user

reqVars == <<reqOnline, pending, caller, queued, relayed, lookups, dialing,
             talking, late, profile>>
routeVars == <<queued, relayed, lookups, dialing, talking>>

ReqInit ==
  /\ reqOnline = TRUE
  /\ pending = [r \in Request |-> "none"]
  /\ caller = [r \in Request |-> "idle"]
  /\ queued = {} /\ relayed = {} /\ talking = {}
  /\ late = [r \in Request |-> "no"]
  /\ lookups = [u \in ReqUsers |-> 0]
  /\ dialing = [r \in Request |-> 0]
  /\ profile = [u \in ReqUsers |-> "idle"]

ReqIsProfile(r) == KindOf[r] = "profile"
PendingProfiles == {r \in Request : ReqIsProfile(r) /\ pending[r] # "none"}

-----------------------------------------------------------------------------
(* A request taken from its map answers its caller; a profile is updated   *)
(* under a second lock.                                                    *)
TakeRequest(r, result) ==
  /\ pending' = [pending EXCEPT ![r] = "none"]
  /\ caller' = [caller EXCEPT ![r] = IF @ = "waiting" /\ ~ReqIsProfile(r)
                                     THEN result ELSE @]
  /\ late' = [late EXCEPT ![r] = IF ReqIsProfile(r) THEN result ELSE @]

EndRequest(r, result) ==
  IF pending[r] # "none" THEN TakeRequest(r, result)
  ELSE UNCHANGED <<pending, caller, late>>

AskFolder(r) ==
  /\ KindOf[r] = "folder"
  /\ pending' = [pending EXCEPT ![r] = "open"]
  /\ UNCHANGED profile

AskShares(r) ==
  /\ KindOf[r] = "shares"
  /\ pending' = [pending EXCEPT ![r] = "open"]
  /\ UNCHANGED profile

AskProfile(r) ==
  /\ ReqIsProfile(r) /\ Cardinality(PendingProfiles) < MaxProfiles
  /\ pending' = [pending EXCEPT ![r] = "open"]
  /\ profile' = [profile EXCEPT ![UserOf[r]] = "loading"]

Ask(r) ==
  /\ reqOnline /\ caller[r] = "idle"
  /\ AskFolder(r) \/ AskShares(r) \/ AskProfile(r)
  /\ caller' = [caller EXCEPT ![r] = "waiting"]
  /\ queued' = queued \cup {r}
  /\ UNCHANGED <<reqOnline, relayed, lookups, dialing, talking, late>>

(* The session writes ConnectToPeer and GetPeerAddress.                    *)
SendRequest(r) ==
  /\ reqOnline /\ r \in queued
  /\ queued' = queued \ {r}
  /\ relayed' = relayed \cup {r}
  /\ lookups' = [lookups EXCEPT ![UserOf[r]] = @ + 1]
  /\ UNCHANGED <<reqOnline, pending, caller, dialing, talking, late, profile>>

-----------------------------------------------------------------------------
(* The server answers an address request.  The answer carries the user and *)
(* no token: it serves some open request about that user, a profile before *)
(* a folder before a list of shares.                                       *)
OpenRequests(u, kind) ==
  {r \in Request : pending[r] = "open" /\ UserOf[r] = u /\ KindOf[r] = kind}

Requesting(u) ==
  IF OpenRequests(u, "profile") # {} THEN OpenRequests(u, "profile")
  ELSE IF OpenRequests(u, "folder") # {} THEN OpenRequests(u, "folder")
  ELSE OpenRequests(u, "shares")

PeerAddressArrives(u) ==
  /\ reqOnline /\ lookups[u] > 0
  /\ lookups' = [lookups EXCEPT ![u] = @ - 1]
  /\ \/ /\ Requesting(u) = {}
        /\ UNCHANGED <<dialing, pending, caller, late>>
     \/ \E r \in Requesting(u) : \* the port is usable and a permit is free
          /\ dialing[r] < MaxDials
          /\ dialing' = [dialing EXCEPT ![r] = @ + 1]
          /\ UNCHANGED <<pending, caller, late>>
     \/ \E r \in Requesting(u) : \* no port, or no permit: a profile fails
          /\ UNCHANGED dialing
          /\ IF ReqIsProfile(r) THEN TakeRequest(r, "failed")
             ELSE UNCHANGED <<pending, caller, late>>
  /\ UNCHANGED <<reqOnline, queued, relayed, talking, profile>>

ClaimTwice(r, route) == \* mutant: the claim is not exclusive
  /\ pending[r] \in {"open", "claimed"}
  /\ pending' = [pending EXCEPT ![r] = "claimed"]
  /\ talking' = talking \cup {<<r, route>>}
  /\ UNCHANGED <<caller, late>>

Claim(r, route) ==
  /\ pending[r] = "open"
  /\ pending' = [pending EXCEPT ![r] = "claimed"]
  /\ talking' = talking \cup {<<r, route>>}
  /\ UNCHANGED <<caller, late>>

(* The direct connection stands.  The profile's task fails the request it  *)
(* cannot claim; the others leave it alone.                                *)
DirectRoute(r) ==
  /\ dialing[r] > 0
  /\ dialing' = [dialing EXCEPT ![r] = @ - 1]
  /\ \/ Claim(r, "direct")
     \/ /\ pending[r] # "open" /\ UNCHANGED talking
        /\ IF ReqIsProfile(r) THEN EndRequest(r, "failed")
           ELSE UNCHANGED <<pending, caller, late>>
  /\ UNCHANGED <<reqOnline, queued, relayed, lookups, profile>>

(* The user cannot be reached directly.                                    *)
DirectRouteFails(r) ==
  /\ dialing[r] > 0
  /\ dialing' = [dialing EXCEPT ![r] = @ - 1]
  /\ IF ReqIsProfile(r) THEN EndRequest(r, "failed")
     ELSE UNCHANGED <<pending, caller, late>>
  /\ UNCHANGED <<reqOnline, queued, relayed, lookups, talking, profile>>

(* The user connects to us and pierces the firewall with our token.        *)
IndirectRoute(r) ==
  /\ reqOnline /\ r \in relayed
  /\ relayed' = relayed \ {r}
  /\ \/ Claim(r, "indirect")
     \/ pending[r] # "open" /\ UNCHANGED <<pending, caller, late, talking>>
  /\ UNCHANGED <<reqOnline, queued, lookups, dialing, profile>>

(* CantConnectToPeer: the user could not connect to us.                    *)
CantConnect(r) ==
  /\ reqOnline /\ r \in relayed
  /\ relayed' = relayed \ {r}
  /\ EndRequest(r, "failed")
  /\ UNCHANGED <<reqOnline, queued, lookups, dialing, talking, profile>>

(* The user answers on the connection that owns the request.               *)
Answered(r) ==
  \E route \in Routes :
    /\ <<r, route>> \in talking
    /\ talking' = talking \ {<<r, route>>}
    /\ EndRequest(r, "answered")
    /\ UNCHANGED <<reqOnline, queued, relayed, lookups, dialing, profile>>

(* The conversation ends without an answer.  On the indirect route nobody  *)
(* fails a profile: only the timeout will.                                 *)
ConversationBreaks(r) ==
  \E route \in Routes :
    /\ <<r, route>> \in talking
    /\ talking' = talking \ {<<r, route>>}
    /\ IF ReqIsProfile(r) /\ route = "indirect"
       THEN UNCHANGED <<pending, caller, late>>
       ELSE EndRequest(r, "failed")
    /\ UNCHANGED <<reqOnline, queued, relayed, lookups, dialing, profile>>

(* The second lock of resolve_user_info and fail_profile.                  *)
UpdateUntold(r) == \* mutant: the caller is not told
  /\ late[r] # "no"
  /\ late' = [late EXCEPT ![r] = "no"]
  /\ profile' = [profile EXCEPT ![UserOf[r]] =
                   IF late[r] = "answered" THEN "ready" ELSE "error"]
  /\ UNCHANGED <<reqOnline, pending, caller, routeVars>>

UpdateProfile(r) ==
  /\ late[r] # "no"
  /\ late' = [late EXCEPT ![r] = "no"]
  /\ profile' = [profile EXCEPT ![UserOf[r]] =
                   IF late[r] = "answered" THEN "ready" ELSE "error"]
  /\ caller' = [caller EXCEPT ![r] = IF @ = "waiting" THEN late[r] ELSE @]
  /\ UNCHANGED <<reqOnline, pending, routeVars>>

CallerTimeout(r) ==
  /\ caller[r] = "waiting"
  /\ caller' = [caller EXCEPT ![r] = "failed"]
  /\ pending' = [pending EXCEPT ![r] = "none"]
  /\ late' = [late EXCEPT ![r] = IF ReqIsProfile(r) /\ pending[r] # "none"
                                 THEN "failed" ELSE @]
  /\ UNCHANGED <<reqOnline, routeVars, profile>>

LoseQuietly == \* mutant: a lost session leaves the profiles as they are
  /\ pending' = [r \in Request |-> "none"]
  /\ caller' = [r \in Request |-> IF pending[r] # "none" /\ caller[r] = "waiting"
                                  THEN "failed" ELSE caller[r]]
  /\ UNCHANGED profile

(* connection_lost of the three hubs.                                      *)
LoseRequests ==
  /\ pending' = [r \in Request |-> "none"]
  /\ caller' = [r \in Request |-> IF pending[r] # "none" /\ caller[r] = "waiting"
                                  THEN "failed" ELSE caller[r]]
  /\ profile' = [u \in ReqUsers |-> IF profile[u] = "loading" THEN "error"
                                    ELSE profile[u]]

SessionEnds ==
  /\ reqOnline /\ reqOnline' = FALSE
  /\ LoseRequests
  /\ queued' = {} /\ relayed' = {}
  /\ lookups' = [u \in ReqUsers |-> 0]
  /\ UNCHANGED <<dialing, talking, late>>

ReqNext ==
  \/ \E r \in Request :
       \/ Ask(r) \/ SendRequest(r) \/ DirectRoute(r) \/ DirectRouteFails(r)
       \/ IndirectRoute(r) \/ CantConnect(r) \/ Answered(r)
       \/ ConversationBreaks(r) \/ UpdateProfile(r) \/ CallerTimeout(r)
  \/ \E u \in ReqUsers : PeerAddressArrives(u)
  \/ SessionEnds

-----------------------------------------------------------------------------
(* A caller that waits is one that somebody will still answer: its request *)
(* is in the map, or was taken from it and its profile is being updated.   *)
NobodyWaitsInVain ==
  \A r \in Request : caller[r] = "waiting" => pending[r] # "none" \/ late[r] # "no"

(* A profile that shows Loading has a request that is still to end it.     *)
LoadingProfileHasRequest ==
  \A u \in ReqUsers : profile[u] = "loading" =>
    \E r \in Request : /\ UserOf[r] = u /\ ReqIsProfile(r)
                       /\ pending[r] # "none" \/ late[r] # "no"

(* The two routes never both ask the question of one request.              *)
OneConversation ==
  \A r \in Request : pending[r] # "none" =>
    Cardinality({route \in Routes : <<r, route>> \in talking}) <= 1

(* Losing the claim means that the other route owns the request: the loser *)
(* leaves it to that route (peers.rs on the upload's control connection).  *)
LoserLeavesTheRequest ==
  [][\A r \in Request :
       dialing'[r] < dialing[r] /\ pending[r] = "claimed" => pending'[r] = "claimed"
    ]_reqVars
=============================================================================
