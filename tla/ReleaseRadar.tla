----------------------------- MODULE ReleaseRadar -----------------------------
(***************************************************************************)
(* Followed artists and the inbox of their releases                        *)
(* (release_radar.rs), with the part of the Wanted list it writes to:      *)
(* which albums are watched in memory and in wanted.json (add, add_many,   *)
(* add_if_missing, remove and persist of wanted.rs).                       *)
(*                                                                         *)
(* One check runs at a time; while it waits for MusicBrainz and for the    *)
(* archive the user follows, unfollows, dismisses and edits Wanted.  The   *)
(* radar saves before it publishes, so its memory is its file.  Times (a   *)
(* day, an hour, the cooldown) are left out: an artist may always be due.  *)
(***************************************************************************)
EXTENDS Integers, FiniteSets

CONSTANTS
  Artist, Release,
  MaxReleases,       \* MAX_RELEASES
  MaxWatched,        \* MAX_WANTED_ALBUMS
  MaxFollows,        \* bound on Store::generation
  MaxRadarFailures   \* bound on saves that fail

VARIABLES
  follows,    \* Store::artists: artist -> [generation, auto]
  generation, \* Store::generation
  inbox,      \* Store::releases: release -> [lead, by, dismissed, added, owned]
  check,      \* the artist being checked, as the check read it, or NoCheck
  watch,      \* WantedStore::albums: ids in memory
  watchFile,  \* the ids in wanted.json
  persisting, \* the thread of the interface that changed Wanted has yet to save
  radarFailures, \* saves that failed
  returned,   \* history: <<artist, generation, release>> a check returned
  removed,    \* history: watches the user removed
  unsaved     \* history: watches added in memory whose save has not succeeded

radarVars == <<follows, generation, inbox, check, watch, watchFile, persisting,
               radarFailures, returned, removed, unsaved>>
wantedVars == <<watch, watchFile, persisting, removed, unsaved>>

NoCheck == [artist |-> "none"]

RadarInit ==
  /\ follows = [a \in {} |-> 0] /\ generation = 0
  /\ inbox = [r \in {} |-> 0] /\ check = NoCheck
  /\ watch = {} /\ watchFile = {} /\ persisting = FALSE
  /\ radarFailures = 0 /\ returned = {} /\ removed = {} /\ unsaved = {}

Extend(f, x, v) == [y \in DOMAIN f \cup {x} |-> IF y = x THEN v ELSE f[y]]
Only(f, S) == [y \in DOMAIN f \cap S |-> f[y]]
SaveFails == radarFailures < MaxRadarFailures /\ radarFailures' = radarFailures + 1
Saves == UNCHANGED radarFailures

-----------------------------------------------------------------------------
(* Commands of the interface.  change publishes only what it saved, so one *)
(* that fails to save changes nothing.                                     *)
Follow(a, auto) ==
  /\ IF a \in DOMAIN follows
       THEN /\ follows' = [follows EXCEPT ![a].auto = auto]
            /\ UNCHANGED generation
       ELSE /\ generation < MaxFollows
            /\ generation' = generation + 1
            /\ follows' = Extend(follows, a, [generation |-> generation', auto |-> auto])
  /\ UNCHANGED <<inbox, check, wantedVars, radarFailures, returned>>

Followers(r, a) == inbox[r].by \ {a}

UnfollowKeepsLead(a) == \* mutant: artist_id still names the unfollowed artist
  /\ a \in DOMAIN follows
  /\ follows' = Only(follows, Artist \ {a})
  /\ inbox' = [r \in {q \in DOMAIN inbox : Followers(q, a) # {}} |->
                [inbox[r] EXCEPT !.by = Followers(r, a)]]
  /\ UNCHANGED <<generation, check, wantedVars, radarFailures, returned>>

Unfollow(a) ==
  /\ a \in DOMAIN follows
  /\ follows' = Only(follows, Artist \ {a})
  /\ \E next \in [DOMAIN inbox -> Artist] :
       /\ \A r \in DOMAIN inbox : Followers(r, a) # {} =>
            next[r] \in IF inbox[r].lead = a THEN Followers(r, a) ELSE {inbox[r].lead}
       /\ inbox' = [r \in {q \in DOMAIN inbox : Followers(q, a) # {}} |->
            [inbox[r] EXCEPT !.by = Followers(r, a), !.lead = next[r]]]
  /\ UNCHANGED <<generation, check, wantedVars, radarFailures, returned>>

Dismiss(r) ==
  /\ r \in DOMAIN inbox
  /\ \E dismissed \in BOOLEAN : inbox' = [inbox EXCEPT ![r].dismissed = dismissed]
  /\ UNCHANGED <<follows, generation, check, wantedVars, radarFailures, returned>>

-----------------------------------------------------------------------------
(* The Wanted list.  add and remove change memory, release the lock, then  *)
(* persist writes what memory holds by then.                               *)
AddWatch(r) ==
  /\ ~persisting
  /\ r \in watch \/ Cardinality(watch) < MaxWatched
  /\ watch' = watch \cup {r}
  /\ unsaved' = IF r \in watchFile THEN unsaved ELSE unsaved \cup {r}
  /\ removed' = removed \ {r}
  /\ persisting' = TRUE
  /\ UNCHANGED <<follows, generation, inbox, check, watchFile, radarFailures, returned>>

RemoveWatch(r) ==
  /\ ~persisting /\ r \in watch
  /\ watch' = watch \ {r}
  /\ removed' = removed \cup {r}
  /\ persisting' = TRUE
  /\ UNCHANGED <<follows, generation, inbox, check, watchFile, radarFailures,
                 returned, unsaved>>

Persist ==
  /\ persisting
  /\ persisting' = FALSE
  /\ \/ Saves /\ watchFile' = watch /\ unsaved' = unsaved \ watch
     \/ SaveFails /\ UNCHANGED <<watchFile, unsaved>>
  /\ UNCHANGED <<follows, generation, inbox, check, watch, returned, removed>>

(* add_if_missing: an album that memory holds is taken as watched; a new   *)
(* one is written first.  What it returns decides the receipt.             *)
Missing(S) == S \ watch
FitsWatch(S) == Cardinality(watch \cup S) <= MaxWatched

-----------------------------------------------------------------------------
(* refresh: begin, the two requests, finish.                               *)
BeginCheck(a) ==
  /\ check = NoCheck /\ a \in DOMAIN follows
  /\ check' = [artist |-> a, generation |-> follows[a].generation,
               auto |-> follows[a].auto]
  /\ UNCHANGED <<follows, generation, inbox, wantedVars, radarFailures, returned>>

(* A full radar takes a prefix of the catalog, which is a smaller catalog. *)
(* A failed answer, another artist's catalog, or an artist no longer       *)
(* followed as when the check began: only the error is recorded.           *)
CurrentByName(a) == a \in DOMAIN follows \* mutant: the generation is not compared

Current(a) == a \in DOMAIN follows /\ follows[a].generation = check.generation

CheckFails ==
  /\ check # NoCheck
  /\ check' = NoCheck
  /\ UNCHANGED <<follows, generation, inbox, wantedVars, radarFailures, returned>>

Listed(a, catalog, owned, old) ==
  [r \in DOMAIN old \cup catalog |->
    IF r \notin catalog THEN old[r]
    ELSE IF r \in DOMAIN old
      THEN [old[r] EXCEPT !.by = @ \cup {a}, !.owned = r \in owned]
      ELSE [lead |-> a, by |-> {a}, dismissed |-> FALSE, added |-> FALSE,
            owned |-> r \in owned]]

Receipts(box, ok) == [r \in DOMAIN box |->
                       IF r \in ok THEN [box[r] EXCEPT !.added = TRUE] ELSE box[r]]

AddsUnsaved(ok) == \* mutant: add_if_missing publishes without saving
  /\ watch' = watch \cup ok
  /\ removed' = removed \ ok
  /\ UNCHANGED <<watchFile, unsaved, persisting>>

(* The watches that were written stay, even when the radar's own save then *)
(* fails and the receipts are lost with it.                                *)
Adds(ok) ==
  /\ watch' = watch \cup ok
  /\ watchFile' = IF Missing(ok) = {} THEN watchFile ELSE watch'
  /\ unsaved' = IF Missing(ok) = {} THEN unsaved ELSE unsaved \ watch'
  /\ removed' = removed \ ok
  /\ UNCHANGED persisting

FinishWith(a, catalog, owned, window) ==
  LET old  == Only(inbox, window \cup catalog)
      box  == Listed(a, catalog, owned, old)
      wish == {r \in catalog : /\ follows[a].auto /\ ~box[r].dismissed
                               /\ ~box[r].added /\ ~box[r].owned}
  IN  /\ Cardinality(DOMAIN box) <= MaxReleases
      /\ \E ok \in SUBSET wish :
           /\ wish \cap watch \subseteq ok
           /\ FitsWatch(ok)
           /\ Missing(wish) # Missing(ok) =>
                ~FitsWatch(wish) \/ radarFailures < MaxRadarFailures
           /\ Adds(ok)
           /\ \/ /\ radarFailures' = radarFailures +
                      (IF ok # wish /\ FitsWatch(wish) THEN 1 ELSE 0)
                 /\ inbox' = Receipts(box, ok)
                 /\ returned' = returned \cup
                      {<<a, check.generation, r>> : r \in catalog}
              \/ SaveFails /\ UNCHANGED <<inbox, returned>>

Finish ==
  /\ check # NoCheck /\ Current(check.artist)
  /\ \E catalog \in SUBSET Release : \E owned \in SUBSET catalog :
     \E window \in SUBSET (DOMAIN inbox \ catalog) :
       FinishWith(check.artist, catalog, owned, window)
  /\ check' = NoCheck
  /\ UNCHANGED <<follows, generation>>

(* The button of the inbox.                                                *)
AddWanted(r) ==
  /\ r \in DOMAIN inbox /\ FitsWatch({r})
  /\ Adds({r})
  /\ \/ Saves /\ inbox' = [inbox EXCEPT ![r].added = TRUE]
     \/ SaveFails /\ UNCHANGED inbox
  /\ UNCHANGED <<follows, generation, check, returned>>

Restart ==
  /\ check' = NoCheck /\ persisting' = FALSE
  /\ watch' = watchFile
  /\ UNCHANGED <<follows, generation, inbox, watchFile, radarFailures, returned,
                 removed, unsaved>>

RadarNext ==
  \/ \E a \in Artist : \/ \E auto \in BOOLEAN : Follow(a, auto)
                       \/ Unfollow(a) \/ BeginCheck(a)
  \/ \E r \in Release : Dismiss(r) \/ AddWatch(r) \/ RemoveWatch(r) \/ AddWanted(r)
  \/ Persist \/ CheckFails \/ Finish \/ Restart

RadarSpec == RadarInit /\ [][RadarNext]_radarVars

-----------------------------------------------------------------------------
(* release-radar.json always loads again: the loader refuses the whole     *)
(* file for one release whose artists are not all followed, and unfollow   *)
(* and a late check both rewrite who a release belongs to.                 *)
SavedRadarLoads == \A r \in DOMAIN inbox :
  /\ inbox[r].lead \in DOMAIN follows
  /\ inbox[r].by # {} /\ inbox[r].by \subseteq DOMAIN follows

(* Following again begins a fresh history: what the inbox holds for an     *)
(* artist was returned to a check begun since the artist was last          *)
(* followed, whatever was unfollowed while a check was under way.          *)
HistoryIsFresh == \A r \in DOMAIN inbox : \A a \in inbox[r].by :
  a \in DOMAIN follows => <<a, follows[a].generation, r>> \in returned

(* A receipt stands for a watch in wanted.json, except for one the user    *)
(* removed and one whose own save, from elsewhere, has not succeeded.      *)
ReceiptsStandForWatches == \A r \in DOMAIN inbox :
  inbox[r].added => r \in watchFile \cup removed \cup unsaved

(* "A radar retry after a failed write must not mistake an unsaved         *)
(* in-memory watch for a durable receipt" (add_if_missing, wanted.rs).     *)
ReceiptIsDurable == \A r \in DOMAIN inbox :
  inbox[r].added /\ ~persisting => r \in watchFile \cup removed
=============================================================================
