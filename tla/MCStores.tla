------------------------------ MODULE MCStores ------------------------------
(***************************************************************************)
(* The components that keep a file of their own, in one instance.  They    *)
(* share no state: part chooses the one that runs, the others stay as they *)
(* were initialised, so that every property speaks about its own part and  *)
(* the states are the sum, not the product, of the parts' states.          *)
(***************************************************************************)
EXTENDS JsonStore, Sequences

CONSTANTS Parts, \* the components of which one runs
          Peer, Incoming, SenderOf, MaxConversations, MaxPerConversation, MaxOutgoing,
          MaxSaveFailures, MaxSessions,
          Room, Visitor, MaxStoredRooms, MaxFrames, MaxRoomFailures,
          Person, Setters, MaxFavorites, MaxRecent, MaxProfiles,
          MaxPeopleFailures, MaxWatches,
          Artist, Release, MaxReleases, MaxWatched, MaxFollows, MaxRadarFailures,
          Files, MaxFilingCrashes, MaxForeign,
          Root, Track, RootOf, FolderOf, Phrased, MaxVersion, MaxEdits, MaxSettings, MaxPending

VARIABLES
  part,
  inbox, saved, held, delivered, toAck, session, sessions, outbox, writing,
  channel, sent, failures, unsaved, erased,
  rooms, stored, connected, joined, joining, members, toServer, toClient,
  presence, visitors, hand, unsavedRooms, leftByUser,
  lists, recent, peopleFile, profiles, watched, peopleSession, watches,
  watching, setter, notSaved, raced,
  follows, generation, releases, check, watch, watchFile, persisting,
  radarFailures, returned, removed, unsavedWatches,
  at, stageDir, record, journal, path, savedPath, heldBack, op, foreign,
  filingCrashes,
  disk, rows, roots, index, cache, scan, scanning, asked, watcher, reported, changed,
  due, excluded, tickets, edits, changes, unseen, leaked

messageVars == <<inbox, saved, held, delivered, toAck, session, sessions, outbox,
                 writing, channel, sent, failures, unsaved, erased>>
roomVars == <<rooms, stored, connected, joined, joining, members, toServer,
              toClient, presence, visitors, hand, unsavedRooms, leftByUser>>
peopleVars == <<lists, recent, peopleFile, profiles, watched, peopleSession,
                watches, watching, setter, notSaved, raced>>
radarVars == <<follows, generation, releases, check, watch, watchFile, persisting,
               radarFailures, returned, removed, unsavedWatches>>
filingVars == <<at, stageDir, record, journal, path, savedPath, heldBack, op,
                foreign, filingCrashes>>
sharesVars == <<disk, rows, roots, index, cache, scan, scanning, asked, watcher,
                reported, changed, due, excluded, tickets, edits, changes, unseen,
                leaked>>
libraryVars == <<filingVars, sharesVars>>
allVars == <<part, vars, messageVars, roomVars, peopleVars, radarVars, libraryVars>>

(* Values for the cfg files: who sends, and what the folders hold.         *)
FromTwo == [i \in Incoming |-> IF i = 12 THEN "v" ELSE "u"]
OneRoot == [f \in Track |-> CHOOSE r \in Root : TRUE]
OwnFolder == [f \in Track |-> f]

M == INSTANCE Messages
R == INSTANCE Rooms WITH store <- rooms
P == INSTANCE People WITH phase <- peopleSession
A == INSTANCE ReleaseRadar WITH inbox <- releases, unsaved <- unsavedWatches
F == INSTANCE Filing WITH held <- heldBack, crashes <- filingCrashes,
                          MaxCrashes <- MaxFilingCrashes
L == INSTANCE LocalShares WITH watched <- reported, pending <- changed

StoresInit ==
  /\ part \in Parts
  /\ Init /\ M!MsgInit /\ R!RoomsInit /\ P!PeopleInit /\ A!RadarInit
  /\ F!FilingInit /\ L!SharesInit
  /\ part # "json" => primary = Missing
  /\ part # "shares" => \A f \in Track : rows[f] = 0 /\ \A r \in Root : roots[r] = "none"

JsonNext == part = "json" /\ Next
  /\ UNCHANGED <<messageVars, roomVars, peopleVars, radarVars, libraryVars>>
MessagesNext == part = "messages" /\ M!MsgNext
  /\ UNCHANGED <<vars, roomVars, peopleVars, radarVars, libraryVars>>
RoomsNext == part = "rooms" /\ R!RoomsNext
  /\ UNCHANGED <<vars, messageVars, peopleVars, radarVars, libraryVars>>
PeopleNext == part = "people" /\ P!PeopleNext
  /\ UNCHANGED <<vars, messageVars, roomVars, radarVars, libraryVars>>
RadarNext == part = "radar" /\ A!RadarNext
  /\ UNCHANGED <<vars, messageVars, roomVars, peopleVars, libraryVars>>
FilingNext == part = "filing" /\ F!FilingNext
  /\ UNCHANGED <<vars, messageVars, roomVars, peopleVars, radarVars, sharesVars>>
SharesNext == part = "shares" /\ L!SharesNext
  /\ UNCHANGED <<vars, messageVars, roomVars, peopleVars, radarVars, filingVars>>

StoresNext ==
  /\ UNCHANGED part
  /\ JsonNext \/ MessagesNext \/ RoomsNext \/ PeopleNext \/ RadarNext
     \/ FilingNext \/ SharesNext

StoresSpec == StoresInit /\ [][StoresNext]_allVars

(* An unread mark always stands for an unread message of a conversation,   *)
(* a queued message is on its way to the server or fails visibly, and an   *)
(* acknowledged one is in memory once (messages.rs).                       *)
ConversationsAreSound ==
  M!UnreadCountsAgree /\ M!QueuedIsUnderWay /\ M!AckedIsSavedOnce

(* When no frame is under way the rooms the user sees as joined, and the   *)
(* members listed in them, are those of the server (rooms.rs).             *)
RoomsMirrorServer == R!JoinedAgreesWithServer /\ R!MembersMirrorServer

(* The favorite mark of a profile, the file and the users the server       *)
(* watches follow the lists, whatever fails or is lost between (people.rs).*)
PeopleAgree == P!FlagsAgree /\ P!FileFollowsLists /\ P!FavoritesAreWatched

(* The file of the release radar can be loaded again, its inbox holds only *)
(* what followed artists released since they were followed, and what it    *)
(* records as watched is on the Wanted list (release_radar.rs).            *)
RadarIsSound ==
  A!SavedRadarLoads /\ A!HistoryIsFresh /\ A!ReceiptsStandForWatches

(* However a filing is interrupted, the originals survive it, the journal  *)
(* says what is on the disk, and what has been begun can be undone         *)
(* (filing.rs).                                                            *)
FilingIsRecoverable == F!OriginalsSurvive /\ F!JournalIsTrue /\ F!AlwaysUndoable

(* Nobody is answered with a file that is not shared at that moment, no    *)
(* scan brings a disabled folder back, the cache never holds the header of *)
(* another version, and the index is current whenever the watcher has      *)
(* nothing left to do (local_shares.rs).                                   *)
SharesAreSound ==
  /\ L!AnswersAreShared /\ L!IndexFollowsRoots
  /\ L!CacheIsTrue /\ L!IndexIsCurrent

(* Three promises the code does not keep, each with a run of its own.      *)
(* "A radar retry after a failed write must not mistake an unsaved         *)
(* in-memory watch for a durable receipt" (add_if_missing, wanted.rs).     *)
ReceiptIsDurable == A!ReceiptIsDurable

(* Incoming private messages persist before the acknowledgement is written *)
(* (docs/connection-architecture.md).                                      *)
AckedIsSaved == M!AckedIsSaved

(* "Wait for startup indexing before validating restored requests"         *)
(* (service/commands.rs).                                                  *)
UploadsWaitForScansOnly == L!UploadsWaitForScansOnly
=============================================================================
