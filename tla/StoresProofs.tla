----------------------------- MODULE StoresProofs -----------------------------
(***************************************************************************)
(* Theorems about the components that keep a file of their own (MCStores), *)
(* one after the other: the inductive invariant of the part, that every    *)
(* step of the part keeps it, and what follows.  The steps of the other    *)
(* parts leave the variables of this one as they are.                      *)
(***************************************************************************)
EXTENDS MCStores, FiniteSetTheorems, SequenceTheorems, TLAPS

-----------------------------------------------------------------------------
(* The release radar.                                                      *)

Listing == [lead : Artist, by : SUBSET Artist, dismissed : BOOLEAN,
            added : BOOLEAN, owned : BOOLEAN]

(* Generations only grow: no artist is followed in a later one.            *)
FollowsOK ==
  /\ generation \in Nat /\ DOMAIN follows \subseteq Artist
  /\ follows \in [DOMAIN follows -> [generation : Nat, auto : BOOLEAN]]

InboxOK == releases \in [DOMAIN releases -> Listing]

(* A watch in memory is in the file or known not to be, and one that is    *)
(* only in the file was removed.                                           *)
WatchesInv ==
  /\ watch \subseteq watchFile \cup unsavedWatches
  /\ watchFile \subseteq watch \cup removed

Receipted == A!ReceiptsStandForWatches /\ WatchesInv
Historic == A!SavedRadarLoads /\ A!HistoryIsFresh
RadarInv == FollowsOK /\ InboxOK /\ Historic /\ Receipted

LEMMA RadarInitInv == A!RadarInit => RadarInv
BY DEF A!RadarInit, RadarInv, FollowsOK, InboxOK, Historic, Receipted, WatchesInv,
       A!SavedRadarLoads, A!HistoryIsFresh, A!ReceiptsStandForWatches

LEMMA ListedToo ==
  ASSUME NEW l \in Listing, NEW a \in Artist, NEW o \in BOOLEAN
  PROVE  [l EXCEPT !.by = @ \cup {a}, !.owned = o] \in Listing
<1>1. PICK b : b = l.by \cup {a} OBVIOUS
<1>2. b \in SUBSET Artist BY <1>1 DEF Listing
<1>3. [l EXCEPT !.by = b, !.owned = o] \in Listing BY <1>2 DEF Listing
<1> QED BY <1>1, <1>3

(* Whatever changes only the marks of the inbox and not who a release      *)
(* belongs to leaves the histories as they are.                            *)
LEMMA SameHistory ==
  ASSUME RadarInv, UNCHANGED <<follows, generation>>, returned \subseteq returned',
         DOMAIN releases' \subseteq DOMAIN releases,
         releases' \in [DOMAIN releases' -> Listing],
         \A r \in DOMAIN releases' : /\ releases'[r].lead = releases[r].lead
                                     /\ releases'[r].by = releases[r].by
  PROVE  FollowsOK' /\ InboxOK' /\ Historic'
<1>1. FollowsOK' /\ InboxOK' BY DEF RadarInv, FollowsOK, InboxOK
<1>2. A!SavedRadarLoads' BY DEF RadarInv, Historic, A!SavedRadarLoads
<1>3. A!HistoryIsFresh' BY DEF RadarInv, Historic, A!HistoryIsFresh
<1> QED BY <1>1, <1>2, <1>3 DEF Historic

(* add_if_missing leaves what it accepts in the file or known to be        *)
(* unsaved, and receipts are given to nothing else.                        *)
LEMMA AddsReceipted ==
  ASSUME RadarInv, NEW ok, A!Adds(ok),
         \A r \in DOMAIN releases' :
           releases'[r].added => \/ r \in ok
                                 \/ r \in DOMAIN releases /\ releases[r].added
  PROVE  Receipted'
<1>1. /\ watch' = watch \cup ok /\ removed' = removed \ ok
      /\ \/ ok \subseteq watch /\ UNCHANGED <<watchFile, unsavedWatches>>
         \/ watchFile' = watch' /\ unsavedWatches' = unsavedWatches \ watch'
  BY DEF A!Adds, A!Missing
<1>2. WatchesInv' BY <1>1 DEF RadarInv, Receipted, WatchesInv
<1>3. ASSUME NEW r \in DOMAIN releases', releases'[r].added
      PROVE  r \in watchFile' \cup removed' \cup unsavedWatches'
  <2>1. CASE r \in ok BY <1>1, <2>1 DEF RadarInv, Receipted, WatchesInv
  <2>2. CASE r \notin ok
    <3>1. r \in watchFile \cup removed \cup unsavedWatches
      BY <1>3, <2>2 DEF RadarInv, Receipted, A!ReceiptsStandForWatches
    <3> QED BY <1>1, <2>2, <3>1 DEF RadarInv, Receipted, WatchesInv
  <2> QED BY <2>1, <2>2
<1> QED BY <1>2, <1>3 DEF Receipted, A!ReceiptsStandForWatches

LEMMA RadarStep ==
  ASSUME RadarInv, [A!RadarNext]_radarVars
  PROVE  RadarInv'
<1>1. ASSUME NEW a \in Artist, NEW auto \in BOOLEAN, A!Follow(a, auto)
      PROVE  RadarInv'
  <2>1. UNCHANGED <<releases, check, watch, watchFile, persisting, removed, unsavedWatches, returned>>
    BY <1>1 DEF A!Follow, A!wantedVars
  <2>2. Receipted' /\ InboxOK'
    BY <2>1 DEF RadarInv, Receipted, WatchesInv, A!ReceiptsStandForWatches, InboxOK
  <2>3. CASE a \in DOMAIN follows
    <3>1. follows' = [follows EXCEPT ![a].auto = auto] /\ generation' = generation
      BY <1>1, <2>3 DEF A!Follow
    <3>2. DOMAIN follows' = DOMAIN follows /\ follows' \in [DOMAIN follows -> [generation : Nat, auto : BOOLEAN]]
          /\ \A b \in DOMAIN follows : follows'[b].generation = follows[b].generation
      BY <3>1 DEF RadarInv, FollowsOK
    <3> QED BY <2>1, <2>2, <3>1, <3>2
        DEF RadarInv, FollowsOK, Historic, A!SavedRadarLoads, A!HistoryIsFresh
  <2>4. CASE a \notin DOMAIN follows
    <3> DEFINE e == [generation |-> generation', auto |-> auto]
    <3>1. generation' = generation + 1 /\ follows' = A!Extend(follows, a, e)
      BY <1>1, <2>4 DEF A!Follow
    <3>2. e \in [generation : Nat, auto : BOOLEAN] BY <3>1 DEF RadarInv, FollowsOK
    <3> HIDE DEF e
    <3>3. /\ DOMAIN follows' = DOMAIN follows \cup {a}
          /\ follows' \in [DOMAIN follows' -> [generation : Nat, auto : BOOLEAN]]
          /\ \A b \in DOMAIN follows : follows'[b] = follows[b]
      BY <2>4, <3>1, <3>2 DEF A!Extend, RadarInv, FollowsOK
    <3>4. FollowsOK' BY <3>1, <3>3 DEF RadarInv, FollowsOK
    <3>5. Historic'
      BY <2>1, <2>4, <3>3 DEF RadarInv, Historic, A!SavedRadarLoads, A!HistoryIsFresh
    <3> QED BY <2>2, <3>4, <3>5 DEF RadarInv
  <2> QED BY <2>3, <2>4
<1>2. ASSUME NEW a \in Artist, A!Unfollow(a) PROVE RadarInv'
  <2> DEFINE left == {q \in DOMAIN releases : A!Followers(q, a) # {}}
  <2>1. PICK next \in [DOMAIN releases -> Artist] :
          /\ \A r \in DOMAIN releases : A!Followers(r, a) # {} =>
               next[r] \in IF releases[r].lead = a THEN A!Followers(r, a) ELSE {releases[r].lead}
          /\ releases' = [r \in left |-> [releases[r] EXCEPT !.by = A!Followers(r, a), !.lead = next[r]]]
    BY <1>2 DEF A!Unfollow
  <2>2. /\ follows' = A!Only(follows, Artist \ {a})
        /\ UNCHANGED <<generation, watch, watchFile, removed, unsavedWatches, returned>>
    BY <1>2 DEF A!Unfollow, A!wantedVars
  <2>3. /\ DOMAIN follows' = DOMAIN follows \ {a}
        /\ \A b \in DOMAIN follows' : follows'[b] = follows[b]
        /\ follows' \in [DOMAIN follows' -> [generation : Nat, auto : BOOLEAN]]
    BY <2>2 DEF A!Only, RadarInv, FollowsOK
  <2>4. DOMAIN releases' = left /\ left \subseteq DOMAIN releases BY <2>1
  <2>5. \A r \in left : /\ releases[r] \in Listing /\ next[r] \in Artist
                        /\ A!Followers(r, a) = releases[r].by \ {a} /\ A!Followers(r, a) # {}
    BY <2>1 DEF RadarInv, InboxOK, A!Followers
  <2>6. \A r \in left : /\ releases'[r] \in Listing
                        /\ releases'[r].by = releases[r].by \ {a}
                        /\ releases'[r].lead = next[r]
                        /\ releases'[r].added = releases[r].added
    BY <2>1, <2>5 DEF Listing
  <2>7. FollowsOK' BY <2>2, <2>3 DEF RadarInv, FollowsOK
  <2>8. InboxOK' BY <2>1, <2>4, <2>6 DEF InboxOK
  <2>9. Receipted'
    BY <2>2, <2>4, <2>6 DEF RadarInv, Receipted, WatchesInv, A!ReceiptsStandForWatches
  <2>10. A!SavedRadarLoads'
    <3>1. SUFFICES ASSUME NEW r \in left
                   PROVE  /\ next[r] \in DOMAIN follows \ {a}
                          /\ releases'[r].by # {} /\ releases'[r].by \subseteq DOMAIN follows \ {a}
      BY <2>3, <2>4, <2>6 DEF A!SavedRadarLoads
    <3>2. releases[r].lead \in DOMAIN follows /\ releases[r].by \subseteq DOMAIN follows
      BY <2>4 DEF RadarInv, Historic, A!SavedRadarLoads
    <3>3. next[r] \in DOMAIN follows \ {a} BY <2>1, <2>4, <2>5, <3>2
    <3> QED BY <2>5, <2>6, <3>2, <3>3
  <2>11. A!HistoryIsFresh'
    BY <2>2, <2>3, <2>4, <2>6 DEF RadarInv, Historic, A!HistoryIsFresh
  <2> QED BY <2>7, <2>8, <2>9, <2>10, <2>11 DEF RadarInv, Historic
<1>3. ASSUME NEW r \in Release, A!Dismiss(r) PROVE RadarInv'
  <2>1. PICK d \in BOOLEAN : releases' = [releases EXCEPT ![r].dismissed = d]
    BY <1>3 DEF A!Dismiss
  <2>2. UNCHANGED <<follows, generation, watch, watchFile, removed, unsavedWatches, returned>>
    BY <1>3 DEF A!Dismiss, A!wantedVars
  <2>3. /\ DOMAIN releases' = DOMAIN releases /\ releases' \in [DOMAIN releases' -> Listing]
        /\ \A q \in DOMAIN releases : /\ releases'[q].lead = releases[q].lead
                                      /\ releases'[q].by = releases[q].by
                                      /\ releases'[q].added = releases[q].added
    <3>1. r \in DOMAIN releases BY <1>3 DEF A!Dismiss
    <3>2. releases \in [DOMAIN releases -> Listing] BY DEF RadarInv, InboxOK
    <3>3. PICK e : e = [releases[r] EXCEPT !.dismissed = d] OBVIOUS
    <3>4. /\ e \in Listing /\ e.lead = releases[r].lead /\ e.by = releases[r].by
          /\ e.added = releases[r].added
      BY <3>1, <3>2, <3>3 DEF Listing
    <3>5. releases' = [releases EXCEPT ![r] = e] BY <2>1, <3>3
    <3> QED BY <3>1, <3>2, <3>4, <3>5
  <2>4. FollowsOK' /\ InboxOK' /\ Historic' BY <2>2, <2>3, SameHistory
  <2> QED BY <2>2, <2>3, <2>4 DEF RadarInv, Receipted, WatchesInv, A!ReceiptsStandForWatches
<1>4. ASSUME UNCHANGED <<follows, generation, releases, returned>>, Receipted'
      PROVE  RadarInv'
  BY <1>4, SameHistory DEF RadarInv, InboxOK
<1>5. ASSUME NEW r \in Release, A!AddWatch(r) \/ A!RemoveWatch(r) PROVE RadarInv'
  <2>1. UNCHANGED <<follows, generation, releases, returned>> BY <1>5 DEF A!AddWatch, A!RemoveWatch
  <2>2. Receipted'
    BY <1>5 DEF A!AddWatch, A!RemoveWatch, RadarInv, Receipted, WatchesInv, A!ReceiptsStandForWatches
  <2> QED BY <1>4, <2>1, <2>2
<1>6. ASSUME A!Persist \/ A!Restart PROVE RadarInv'
  <2>1. UNCHANGED <<follows, generation, releases, returned>> BY <1>6 DEF A!Persist, A!Restart
  <2>2. Receipted'
    BY <1>6 DEF A!Persist, A!Restart, RadarInv, Receipted, WatchesInv, A!ReceiptsStandForWatches
  <2> QED BY <1>4, <2>1, <2>2
<1>7. ASSUME (\E a \in Artist : A!BeginCheck(a)) \/ A!CheckFails \/ UNCHANGED radarVars PROVE RadarInv'
  <2>1. UNCHANGED <<follows, generation, releases, returned, watch, watchFile, removed, unsavedWatches>>
    BY <1>7 DEF A!BeginCheck, A!CheckFails, A!wantedVars, radarVars
  <2> QED BY <1>4, <2>1 DEF RadarInv, Receipted, WatchesInv, A!ReceiptsStandForWatches
<1>8. ASSUME NEW r \in Release, A!AddWanted(r) PROVE RadarInv'
  <2>1. /\ A!Adds({r}) /\ UNCHANGED <<follows, generation, returned>>
        /\ releases' = releases \/ releases' = [releases EXCEPT ![r].added = TRUE]
    BY <1>8 DEF A!AddWanted
  <2>2. /\ DOMAIN releases' = DOMAIN releases /\ releases' \in [DOMAIN releases' -> Listing]
        /\ \A q \in DOMAIN releases : /\ releases'[q].lead = releases[q].lead
                                      /\ releases'[q].by = releases[q].by
                                      /\ q # r => releases'[q].added = releases[q].added
    <3>1. CASE releases' = releases BY <3>1 DEF RadarInv, InboxOK
    <3>2. CASE releases' = [releases EXCEPT ![r].added = TRUE]
      <4> DEFINE e == [releases[r] EXCEPT !.added = TRUE]
      <4>1. r \in DOMAIN releases /\ releases[r] \in Listing BY <1>8 DEF A!AddWanted, RadarInv, InboxOK
      <4>2. e \in Listing /\ e.lead = releases[r].lead /\ e.by = releases[r].by BY <4>1 DEF Listing
      <4>3. releases' = [releases EXCEPT ![r] = e] BY <3>2
      <4> HIDE DEF e
      <4> QED BY <4>1, <4>2, <4>3 DEF RadarInv, InboxOK
    <3> QED BY <2>1, <3>1, <3>2
  <2>3. FollowsOK' /\ InboxOK' /\ Historic' BY <2>1, <2>2, SameHistory
  <2>4. Receipted' BY <2>1, <2>2, AddsReceipted
  <2> QED BY <2>3, <2>4 DEF RadarInv
<1>9. CASE A!Finish
  <2> DEFINE a == check.artist
  <2>1. PICK catalog, owned, window : A!FinishWith(a, catalog, owned, window)
    BY <1>9 DEF A!Finish
  <2> DEFINE old == A!Only(releases, window \cup catalog)
             box == A!Listed(a, catalog, owned, old)
  <2>2. PICK ok : /\ A!Adds(ok)
                  /\ \/ /\ releases' = A!Receipts(box, ok)
                        /\ returned' = returned \cup {<<a, check.generation, r>> : r \in catalog}
                     \/ UNCHANGED <<releases, returned>>
    BY <2>1 DEF A!FinishWith
  <2>3. /\ a \in DOMAIN follows /\ follows[a].generation = check.generation
        /\ UNCHANGED <<follows, generation>>
    BY <1>9 DEF A!Finish, A!Current
  <2>4. CASE UNCHANGED <<releases, returned>>
    <3>1. FollowsOK' /\ InboxOK' /\ Historic' BY <2>3, <2>4, SameHistory DEF RadarInv, InboxOK
    <3> QED BY <2>2, <2>4, <3>1, AddsReceipted DEF RadarInv
  <2>5. CASE /\ releases' = A!Receipts(box, ok)
             /\ returned' = returned \cup {<<a, check.generation, r>> : r \in catalog}
    <3>1. /\ DOMAIN old = DOMAIN releases \cap (window \cup catalog)
          /\ \A r \in DOMAIN old : old[r] = releases[r] /\ old[r] \in Listing
      BY DEF A!Only, RadarInv, InboxOK
    <3> HIDE DEF old
    <3>2. DOMAIN box = DOMAIN old \cup catalog BY DEF A!Listed
    <3>3. ASSUME NEW r \in DOMAIN box
          PROVE  /\ box[r] \in Listing
                 /\ r \in catalog => a \in box[r].by
                 /\ r \in DOMAIN old => /\ box[r].lead = old[r].lead /\ old[r].by \subseteq box[r].by
                                        /\ box[r].by \subseteq old[r].by \cup {a}
                                        /\ box[r].added = old[r].added
                                        /\ r \notin catalog => box[r].by = old[r].by
                 /\ r \notin DOMAIN old => /\ box[r].lead = a /\ box[r].by = {a} /\ box[r].added = FALSE
                                           /\ r \in catalog
      <4>1. CASE r \notin catalog BY <3>1, <3>2, <4>1 DEF A!Listed
      <4>2. a \in Artist BY <2>3 DEF RadarInv, FollowsOK
      <4> DEFINE o == r \in owned
      <4>3. o \in BOOLEAN OBVIOUS
      <4>4. CASE r \in catalog /\ r \in DOMAIN old
        <5>1. box[r] = [old[r] EXCEPT !.by = @ \cup {a}, !.owned = o]
          BY <3>2, <4>4 DEF A!Listed
        <5> HIDE DEF o, box
        <5>2. old[r] \in Listing BY <3>1, <4>4
        <5>3. /\ box[r].lead = old[r].lead /\ box[r].by = old[r].by \cup {a}
              /\ box[r].added = old[r].added
          BY <5>1, <5>2 DEF Listing
        <5>4. box[r] \in Listing BY <4>2, <4>3, <5>1, <5>2, ListedToo
        <5> QED BY <4>4, <5>3, <5>4
      <4>5. CASE r \in catalog /\ r \notin DOMAIN old
        <5>1. box[r] = [lead |-> a, by |-> {a}, dismissed |-> FALSE, added |-> FALSE, owned |-> o]
          BY <3>2, <4>5 DEF A!Listed
        <5> HIDE DEF o, box
        <5>2. FALSE \in BOOLEAN OBVIOUS
        <5>3. box[r].lead = a /\ box[r].by = {a} /\ box[r].added = FALSE BY <5>1
        <5>4. box[r] \in Listing BY <4>2, <4>3, <5>1, <5>2 DEF Listing
        <5> QED BY <4>5, <5>3, <5>4
      <4> QED BY <4>1, <4>4, <4>5
    <3> HIDE DEF box
    <3>4. /\ DOMAIN releases' = DOMAIN box /\ releases' \in [DOMAIN releases' -> Listing]
          /\ \A r \in DOMAIN box : /\ releases'[r].lead = box[r].lead /\ releases'[r].by = box[r].by
                                   /\ r \notin ok => releases'[r].added = box[r].added
      <4>1. DOMAIN releases' = DOMAIN box BY <2>5 DEF A!Receipts
      <4>2. ASSUME NEW r \in DOMAIN box
            PROVE  /\ releases'[r] \in Listing /\ releases'[r].lead = box[r].lead
                   /\ releases'[r].by = box[r].by
                   /\ r \notin ok => releases'[r].added = box[r].added
        <5>1. releases'[r] = IF r \in ok THEN [box[r] EXCEPT !.added = TRUE] ELSE box[r]
          BY <2>5 DEF A!Receipts
        <5>2. box[r] \in Listing BY <3>3
        <5>3. TRUE \in BOOLEAN OBVIOUS
        <5> QED BY <5>1, <5>2, <5>3 DEF Listing
      <4>3. releases' = [r \in DOMAIN box |-> releases'[r]] BY <2>5 DEF A!Receipts
      <4>4. releases' \in [DOMAIN releases' -> Listing] BY <4>1, <4>2, <4>3
      <4> QED BY <4>1, <4>2, <4>4
    <3>5. FollowsOK' /\ InboxOK' BY <2>3, <3>4 DEF RadarInv, FollowsOK, InboxOK
    <3>6. A!SavedRadarLoads'
      <4>1. SUFFICES ASSUME NEW r \in DOMAIN box
                     PROVE  /\ box[r].lead \in DOMAIN follows /\ box[r].by # {}
                            /\ box[r].by \subseteq DOMAIN follows
        BY <2>3, <3>4 DEF A!SavedRadarLoads
      <4>2. CASE r \notin DOMAIN old BY <2>3, <3>3, <4>2
      <4>3. CASE r \in DOMAIN old
        <5>1. /\ old[r].lead \in DOMAIN follows /\ old[r].by # {} /\ old[r].by \subseteq DOMAIN follows
          BY <3>1, <4>3 DEF RadarInv, Historic, A!SavedRadarLoads
        <5> QED BY <2>3, <3>3, <4>3, <5>1
      <4> QED BY <4>2, <4>3
    <3>7. A!HistoryIsFresh'
      <4>1. SUFFICES ASSUME NEW r \in DOMAIN releases', NEW b \in releases'[r].by
                     PROVE  <<b, follows[b].generation, r>> \in returned'
        BY <2>3 DEF A!HistoryIsFresh
      <4>2. CASE r \in DOMAIN releases /\ b \in releases[r].by
        BY <2>5, <4>2 DEF RadarInv, Historic, A!HistoryIsFresh, A!SavedRadarLoads
      <4>3. CASE ~(r \in DOMAIN releases /\ b \in releases[r].by)
        <5>1. b \in box[r].by /\ r \in DOMAIN box BY <3>4
        <5>2. b = a /\ r \in catalog
          <6>1. CASE r \in DOMAIN old
            <7>1. r \in DOMAIN releases /\ old[r] = releases[r] BY <3>1, <6>1
            <7>2. b \notin old[r].by BY <4>3, <7>1
            <7>3. box[r].by \subseteq old[r].by \cup {a} BY <3>3, <5>1, <6>1
            <7>4. r \notin catalog => box[r].by = old[r].by BY <3>3, <5>1, <6>1
            <7> QED BY <5>1, <7>2, <7>3, <7>4
          <6>2. CASE r \notin DOMAIN old BY <3>3, <5>1, <6>2
          <6> QED BY <6>1, <6>2
        <5> QED BY <2>3, <2>5, <5>2
      <4> QED BY <4>2, <4>3
    <3>8. Receipted' BY <2>2, <3>1, <3>2, <3>3, <3>4, AddsReceipted
    <3> QED BY <3>5, <3>6, <3>7, <3>8 DEF RadarInv, Historic
  <2> QED BY <2>2, <2>4, <2>5
<1> QED BY <1>1, <1>2, <1>3, <1>5, <1>6, <1>7, <1>8, <1>9 DEF A!RadarNext

LEMMA AlwaysRadar == StoresSpec => []RadarInv
<1>1. StoresInit => RadarInv BY RadarInitInv DEF StoresInit
<1>2. [StoresNext]_allVars => [A!RadarNext]_radarVars
  BY DEF StoresNext, JsonNext, MessagesNext, RoomsNext, PeopleNext, RadarNext, FilingNext, SharesNext, allVars
<1> QED BY <1>1, <1>2, RadarStep, PTL DEF StoresSpec

(* The file of the radar loads again, its inbox is as fresh as the follows *)
(* it belongs to, and a receipt stands for a watch, for any artists,       *)
(* releases and limits, and however checks, follows and edits of Wanted    *)
(* interleave (release_radar.rs, add_if_missing of wanted.rs).             *)
THEOREM RadarStaysSound == StoresSpec => []RadarIsSound
<1>1. RadarInv => RadarIsSound BY DEF RadarInv, Historic, Receipted, RadarIsSound
<1> QED BY <1>1, AlwaysRadar, PTL

-----------------------------------------------------------------------------
(* Filing.                                                                 *)

Steps == {"stage", "tag", "saveHashes", "check", "link", "unlink", "retain", "unlinkSource",
          "restore", "withdraw", "dropBackup", "dropStaged", "cleanUp", "commit", "finish"}

Journals == [state : F!States, hashed : SUBSET F!File]

DiskOK ==
  /\ at \in [F!Place -> [F!File -> {"original", "nothing", "foreign", "partial", "output"}]]
  /\ \A f \in F!File : /\ at["source"][f] \in {"original", "nothing", "foreign"}
                       /\ at["backup"][f] \in {"original", "nothing"}
                       /\ at["destination"][f] \in {"nothing", "output", "foreign"}
                       /\ at["staged"][f] \in {"nothing", "partial", "output"}
  /\ foreign \subseteq {"source", "destination"} \X F!File
  /\ \A p \in {"source", "destination"}, f \in F!File :
       F!Is(p, f, "foreign") => <<p, f>> \in foreign

OpOK ==
  /\ record \in Journals /\ journal \in Journals
  /\ op = F!NoOp \/ op \in [kind : {"apply", "undo"}, step : Steps, file : F!File]

(* No output is where the user would see it before both the journal and    *)
(* the memory know its hash, and what is open is held.                     *)
HashesInv ==
  /\ \A f \in F!File : F!Is("destination", f, "output") => f \in record.hashed /\ f \in journal.hashed
  /\ F!Open(record) => heldBack

(* Nothing was filed yet: the album is where it was downloaded to, whether *)
(* or not the first save of the journal has reached the disk.              *)
Untouched ==
  /\ op = F!NoOp /\ ~stageDir
  /\ journal.state \in {"none", "Applying"} /\ journal.hashed = {} /\ record.hashed = {}
  /\ \A f \in F!File : /\ F!Is("source", f, "original") \/ <<"source", f>> \in foreign
                       /\ ~F!Is("destination", f, "output")
                       /\ F!Absent("backup", f) /\ F!Absent("staged", f)

FreshInv ==
  /\ record.state = "none" => Untouched
  /\ journal.state = "none" => record.state = "none"

(* How far an apply is, file by file.                                      *)
Staged(f) == F!Is("staged", f, "output") /\ f \in record.hashed
Published(f) == ~F!Absent("destination", f)
Settled(p) == path \in {p, "gone"} /\ savedPath \in {p, "gone"}

ApplyInv ==
  op.kind = "apply" =>
    /\ record.state = "Applying" /\ journal.state = "Applying"
    /\ op.step \in {"stage", "tag", "saveHashes", "check", "link", "unlink", "retain",
                    "unlinkSource", "cleanUp", "commit", "finish"}
    /\ op.step \in {"stage", "tag"} => \A f \in F!File : f < op.file => Staged(f)
    /\ op.step \in {"saveHashes", "check"} => \A f \in F!File : Staged(f)
    /\ op.step \notin {"stage", "tag", "saveHashes"} =>
         journal = record /\ \A f \in F!File : f \in record.hashed
    /\ op.step = "link" =>
         \A f \in F!File : IF f < op.file THEN Published(f) ELSE Staged(f)
    /\ op.step = "unlink" =>
         \A f \in F!File : IF f <= op.file THEN Published(f) ELSE Staged(f)
    /\ op.step \in {"retain", "unlinkSource", "cleanUp", "commit", "finish"} =>
         \A f \in F!File : Published(f)
    /\ op.step = "unlinkSource" => F!Is("backup", op.file, "original") /\ F!Is("source", op.file, "original")
    /\ op.step = "finish" => Settled("destination")

(* How far an undo is.                                                     *)
Back(f) == ~F!Absent("source", f)
Withdrawn(f) == Back(f) /\ ~F!Is("destination", f, "output")
Undone(f) == Withdrawn(f) /\ F!Absent("backup", f) /\ F!Absent("staged", f)

UndoInv ==
  op.kind = "undo" =>
    /\ record.state = "Undoing" /\ journal = record
    /\ op.step \in {"restore", "withdraw", "dropBackup", "dropStaged", "cleanUp", "commit", "finish"}
    /\ \A f \in F!File : f < op.file => Undone(f)
    /\ op.step = "withdraw" => Back(op.file)
    /\ op.step = "dropBackup" => Withdrawn(op.file)
    /\ op.step = "dropStaged" => Withdrawn(op.file) /\ F!Absent("backup", op.file)
    /\ op.step \in {"cleanUp", "commit", "finish"} => \A f \in F!File : Undone(f)
    /\ op.step = "finish" => Settled("source")

(* What the journal says for good; neither is said while anything runs.    *)
VerdictInv ==
  /\ journal.state = "Filed" =>
       op = F!NoOp /\ (\A f \in F!File : Published(f)) /\ Settled("destination")
  /\ journal.state = "Undone" =>
       op = F!NoOp /\ (\A f \in F!File : Undone(f)) /\ Settled("source")

FilingInv ==
  DiskOK /\ OpOK /\ F!OriginalsSurvive /\ HashesInv /\ FreshInv /\ ApplyInv /\ UndoInv /\ VerdictInv

(* One place of one file changes.                                          *)
LEMMA Puts ==
  ASSUME FilingInv, NEW p \in F!Place, NEW g \in F!File, NEW what, F!Put(p, g, what),
         \/ p = "source" /\ what \in {"original", "nothing"} /\ foreign' = foreign
         \/ p = "backup" /\ what \in {"original", "nothing"} /\ foreign' = foreign
         \/ p = "destination" /\ what \in {"nothing", "output"} /\ foreign' = foreign
         \/ p = "staged" /\ what \in {"nothing", "partial", "output"} /\ foreign' = foreign
         \/ p \in {"source", "destination"} /\ what = "foreign" /\ foreign' = foreign \cup {<<p, g>>}
  PROVE  /\ DiskOK'
         /\ \A q \in F!Place, f \in F!File : (q # p \/ f # g) => at'[q][f] = at[q][f]
         /\ at'[p][g] = what
<1>1. at' = [at EXCEPT ![p] = [at[p] EXCEPT ![g] = what]] BY DEF F!Put
<1>2. at \in [F!Place -> [F!File -> {"original", "nothing", "foreign", "partial", "output"}]]
  BY DEF FilingInv, DiskOK
<1>3. [at[p] EXCEPT ![g] = what] \in [F!File -> {"original", "nothing", "foreign", "partial", "output"}]
  BY <1>2
<1>4. at' \in [F!Place -> [F!File -> {"original", "nothing", "foreign", "partial", "output"}]]
  BY <1>1, <1>2, <1>3
<1>5. /\ \A q \in F!Place, f \in F!File : (q # p \/ f # g) => at'[q][f] = at[q][f]
      /\ at'[p][g] = what
  BY <1>1, <1>2
<1>6. \A f \in F!File : /\ at'["source"][f] \in {"original", "nothing", "foreign"}
                        /\ at'["backup"][f] \in {"original", "nothing"}
                        /\ at'["destination"][f] \in {"nothing", "output", "foreign"}
                        /\ at'["staged"][f] \in {"nothing", "partial", "output"}
  BY <1>5 DEF FilingInv, DiskOK, F!Place
<1>7. foreign' \subseteq {"source", "destination"} \X F!File BY DEF FilingInv, DiskOK
<1>8. \A q \in {"source", "destination"}, f \in F!File : at'[q][f] = "foreign" => <<q, f>> \in foreign'
  BY <1>5 DEF FilingInv, DiskOK, F!Place, F!Is
<1> QED BY <1>4, <1>5, <1>6, <1>7, <1>8 DEF DiskOK, F!Is

(* What cannot be disturbed while an apply is under way, and while an undo *)
(* is: each has announced itself in the journal.                           *)
LEMMA WhileApplying ==
  ASSUME record'.state = "Applying", journal'.state = "Applying", op' = F!NoOp \/ op'.kind = "apply"
  PROVE  FreshInv' /\ UndoInv' /\ VerdictInv'
BY DEF FreshInv, UndoInv, VerdictInv, F!NoOp

LEMMA WhileUndoing ==
  ASSUME record'.state = "Undoing", journal'.state = "Undoing", op' = F!NoOp \/ op'.kind = "undo"
  PROVE  FreshInv' /\ ApplyInv' /\ VerdictInv'
BY DEF FreshInv, ApplyInv, VerdictInv, F!NoOp

LEMMA SameDisk ==
  ASSUME FilingInv, UNCHANGED <<at, foreign>>
  PROVE  DiskOK' /\ F!OriginalsSurvive'
BY DEF FilingInv, DiskOK, F!OriginalsSurvive, F!Is

LEMMA Moves ==
  ASSUME Files \in Nat \ {0}, op \in [kind : {"apply", "undo"}, step : Steps, file : F!File],
         record' \in Journals, journal' \in Journals,
         NEW s \in Steps, NEW t \in Steps,
         \/ op' = [op EXCEPT !.step = s, !.file = op.file]
         \/ op' = [op EXCEPT !.step = s, !.file = 1]
         \/ op' = IF op.file < Files THEN [op EXCEPT !.step = s, !.file = op.file + 1]
                  ELSE [op EXCEPT !.step = t, !.file = 1]
         \/ op' = F!NoOp
  PROVE  OpOK'
<1>1. 1 \in F!File /\ (op.file < Files => op.file + 1 \in F!File) BY DEF F!File
<1>2. op' = F!NoOp \/ op' \in [kind : {"apply", "undo"}, step : Steps, file : F!File] BY <1>1
<1> QED BY <1>2 DEF OpOK

LEMMA ApplySteps ==
  ASSUME Files \in Nat \ {0}, FilingInv,
         F!StageFile \/ F!TagFile \/ F!SaveHashes \/ F!CheckAlbum \/ F!LinkDestination \/ F!UnlinkStaged
         \/ F!RetainOriginal \/ F!UnlinkSource \/ F!FinishApply
  PROVE  FilingInv'
<1> USE DEF F!Step, F!Goes, F!Is, F!Absent, Staged, Published
<1>1. /\ op \in [kind : {"apply", "undo"}, step : Steps, file : F!File] /\ op.kind = "apply"
      /\ record.state = "Applying" /\ journal.state = "Applying"
  <2>1. op.kind = "apply"
    BY DEF F!StageFile, F!TagFile, F!SaveHashes, F!CheckAlbum, F!LinkDestination, F!UnlinkStaged,
       F!RetainOriginal, F!UnlinkSource, F!FinishApply
  <2>2. op # F!NoOp BY <2>1 DEF F!NoOp
  <2> QED BY <2>1, <2>2 DEF FilingInv, OpOK, ApplyInv
<1>2. CASE F!StageFile
  <2>1. F!Put("staged", op.file, "partial") /\ foreign' = foreign BY <1>2 DEF F!StageFile, F!idleVars
  <2>2. /\ DiskOK' /\ at'["staged"][op.file] = "partial"
        /\ \A q \in F!Place, f \in F!File : (q # "staged" \/ f # op.file) => at'[q][f] = at[q][f]
    BY <1>1, <2>1, Puts DEF F!Place
  <2>3. /\ op' = [op EXCEPT !.step = "tag", !.file = op.file] /\ op.step = "stage"
        /\ UNCHANGED <<record, journal, path, savedPath, heldBack>>
    BY <1>2 DEF F!StageFile, F!pathVars
  <2>4. OpOK' BY <1>1, <2>3 DEF FilingInv, OpOK, Steps
  <2>5. F!OriginalsSurvive' BY <2>1, <2>2 DEF FilingInv, DiskOK, F!OriginalsSurvive, F!Place
  <2>6. HashesInv' BY <2>2, <2>3 DEF FilingInv, HashesInv, F!Place
  <2>7. ApplyInv' BY <1>1, <2>2, <2>3 DEF FilingInv, ApplyInv, F!Place, F!File
  <2> QED BY <1>1, <2>2, <2>3, <2>4, <2>5, <2>6, <2>7, WhileApplying DEF FilingInv
<1>3. CASE F!TagFile
  <2>1. F!Put("staged", op.file, "output") /\ foreign' = foreign
    BY <1>3 DEF F!TagFile, F!idleVars
  <2>2. /\ DiskOK' /\ at'["staged"][op.file] = "output"
        /\ \A q \in F!Place, f \in F!File : (q # "staged" \/ f # op.file) => at'[q][f] = at[q][f]
    BY <1>1, <2>1, Puts DEF F!Place
  <2>3. /\ op' = IF op.file < Files THEN [op EXCEPT !.step = "stage", !.file = op.file + 1]
                 ELSE [op EXCEPT !.step = "saveHashes", !.file = 1]
        /\ op.step = "tag"
        /\ record' = [record EXCEPT !.hashed = @ \cup {op.file}]
        /\ UNCHANGED <<journal, path, savedPath, heldBack>>
    BY <1>3 DEF F!TagFile, F!pathVars
  <2>4. OpOK'
    <3>1. record' \in Journals /\ journal' \in Journals BY <1>1, <2>3 DEF FilingInv, OpOK, Journals
    <3>2. "stage" \in Steps /\ "saveHashes" \in Steps BY DEF Steps
    <3> QED BY <1>1, <2>3, <3>1, <3>2, Moves
  <2>5. F!OriginalsSurvive' BY <1>1, <2>1, <2>2 DEF FilingInv, DiskOK, F!OriginalsSurvive, F!Place
  <2>6. HashesInv' BY <1>1, <2>1, <2>2, <2>3 DEF FilingInv, HashesInv, F!Place, F!Open, OpOK, Journals
  <2>7. ApplyInv' BY <1>1, <2>1, <2>2, <2>3 DEF FilingInv, ApplyInv, F!Place, F!File, OpOK, Journals
  <2>8. record'.state = "Applying" /\ journal'.state = "Applying" /\ op'.kind = "apply"
    BY <1>1, <2>3 DEF FilingInv, OpOK, Journals
  <2> QED BY <2>2, <2>4, <2>5, <2>6, <2>7, <2>8, WhileApplying DEF FilingInv
<1>4. CASE F!SaveHashes
  <2>1. /\ UNCHANGED <<at, foreign, record, path, savedPath, heldBack>> /\ op.step = "saveHashes"
        /\ \/ journal' = record /\ op' = [op EXCEPT !.step = "check", !.file = 1]
           \/ journal' \in {journal, record} /\ op' = F!NoOp
    BY <1>4 DEF F!SaveHashes, F!Saves, F!pathVars, F!diskVars, F!idleVars
  <2>2. OpOK'
    <3>1. record' \in Journals /\ journal' \in Journals BY <2>1 DEF FilingInv, OpOK
    <3>2. "check" \in Steps BY DEF Steps
    <3> QED BY <1>1, <2>1, <3>1, <3>2, Moves
  <2>3. HashesInv' BY <2>1 DEF FilingInv, HashesInv
  <2>4. ApplyInv'
    <3>1. CASE op' = F!NoOp BY <3>1 DEF ApplyInv, F!NoOp
    <3>2. CASE journal' = record /\ op' = [op EXCEPT !.step = "check", !.file = 1]
      BY <1>1, <2>1, <3>2 DEF FilingInv, ApplyInv
    <3> QED BY <2>1, <3>1, <3>2
  <2> QED BY <1>1, <2>1, <2>2, <2>3, <2>4, SameDisk, WhileApplying DEF FilingInv
<1>5. CASE F!CheckAlbum
  <2>1. /\ UNCHANGED <<at, foreign, record, journal, path, savedPath, heldBack>> /\ op.step = "check"
        /\ op' = [op EXCEPT !.step = "link", !.file = 1]
    BY <1>5 DEF F!CheckAlbum, F!pathVars, F!diskVars, F!idleVars
  <2>2. OpOK'
    <3>1. record' \in Journals /\ journal' \in Journals BY <2>1 DEF FilingInv, OpOK
    <3>2. "link" \in Steps BY DEF Steps
    <3> QED BY <1>1, <2>1, <3>1, <3>2, Moves
  <2>3. HashesInv' BY <2>1 DEF FilingInv, HashesInv
  <2>4. ApplyInv' BY <1>1, <2>1 DEF FilingInv, ApplyInv, F!File
  <2> QED BY <1>1, <2>1, <2>2, <2>3, <2>4, SameDisk, WhileApplying DEF FilingInv
<1>6. CASE F!LinkDestination
  <2>1. F!Put("destination", op.file, "output") /\ foreign' = foreign /\ F!Absent("destination", op.file)
    BY <1>1, <1>6 DEF F!LinkDestination, F!idleVars, FilingInv, ApplyInv, F!File
  <2>2. /\ DiskOK' /\ at'["destination"][op.file] = "output"
        /\ \A q \in F!Place, f \in F!File : (q # "destination" \/ f # op.file) => at'[q][f] = at[q][f]
    BY <1>1, <2>1, Puts DEF F!Place
  <2>3. /\ op' = [op EXCEPT !.step = "unlink", !.file = op.file]
        /\ op.step = "link"
        /\ UNCHANGED <<record, journal, path, savedPath, heldBack>>
    BY <1>6 DEF F!LinkDestination, F!pathVars
  <2>4. OpOK'
    <3>1. record' \in Journals /\ journal' \in Journals BY <1>1, <2>3 DEF FilingInv, OpOK, Journals
    <3>2. "unlink" \in Steps /\ "unlink" \in Steps BY DEF Steps
    <3> QED BY <1>1, <2>3, <3>1, <3>2, Moves
  <2>5. F!OriginalsSurvive' BY <1>1, <2>1, <2>2 DEF FilingInv, DiskOK, F!OriginalsSurvive, F!Place
  <2>6. HashesInv' BY <1>1, <2>1, <2>2, <2>3 DEF FilingInv, HashesInv, F!Place, F!Open, ApplyInv
  <2>7. ApplyInv' BY <1>1, <2>1, <2>2, <2>3 DEF FilingInv, ApplyInv, F!Place, F!File
  <2>8. record'.state = "Applying" /\ journal'.state = "Applying" /\ op'.kind = "apply"
    BY <1>1, <2>3
  <2> QED BY <2>2, <2>4, <2>5, <2>6, <2>7, <2>8, WhileApplying DEF FilingInv
<1>7. CASE F!UnlinkStaged
  <2>1. F!Put("staged", op.file, "nothing") /\ foreign' = foreign
    BY <1>7 DEF F!UnlinkStaged, F!idleVars
  <2>2. /\ DiskOK' /\ at'["staged"][op.file] = "nothing"
        /\ \A q \in F!Place, f \in F!File : (q # "staged" \/ f # op.file) => at'[q][f] = at[q][f]
    BY <1>1, <2>1, Puts DEF F!Place
  <2>3. /\ op' = IF op.file < Files THEN [op EXCEPT !.step = "link", !.file = op.file + 1]
                 ELSE [op EXCEPT !.step = "retain", !.file = 1]
        /\ op.step = "unlink"
        /\ UNCHANGED <<record, journal, path, savedPath, heldBack>>
    BY <1>7 DEF F!UnlinkStaged, F!pathVars
  <2>4. OpOK'
    <3>1. record' \in Journals /\ journal' \in Journals BY <1>1, <2>3 DEF FilingInv, OpOK, Journals
    <3>2. "link" \in Steps /\ "retain" \in Steps BY DEF Steps
    <3> QED BY <1>1, <2>3, <3>1, <3>2, Moves
  <2>5. F!OriginalsSurvive' BY <1>1, <2>1, <2>2 DEF FilingInv, DiskOK, F!OriginalsSurvive, F!Place
  <2>6. HashesInv' BY <1>1, <2>1, <2>2, <2>3 DEF FilingInv, HashesInv, F!Place, F!Open
  <2>7. ApplyInv' BY <1>1, <2>1, <2>2, <2>3 DEF FilingInv, ApplyInv, F!Place, F!File
  <2>8. record'.state = "Applying" /\ journal'.state = "Applying" /\ op'.kind = "apply"
    BY <1>1, <2>3
  <2> QED BY <2>2, <2>4, <2>5, <2>6, <2>7, <2>8, WhileApplying DEF FilingInv
<1>8. CASE F!RetainOriginal
  <2>1. F!Put("backup", op.file, "original") /\ foreign' = foreign /\ F!Is("source", op.file, "original")
    BY <1>8 DEF F!RetainOriginal, F!idleVars
  <2>2. /\ DiskOK' /\ at'["backup"][op.file] = "original"
        /\ \A q \in F!Place, f \in F!File : (q # "backup" \/ f # op.file) => at'[q][f] = at[q][f]
    BY <1>1, <2>1, Puts DEF F!Place
  <2>3. /\ op' = [op EXCEPT !.step = "unlinkSource", !.file = op.file]
        /\ op.step = "retain"
        /\ UNCHANGED <<record, journal, path, savedPath, heldBack>>
    BY <1>8 DEF F!RetainOriginal, F!pathVars
  <2>4. OpOK'
    <3>1. record' \in Journals /\ journal' \in Journals BY <1>1, <2>3 DEF FilingInv, OpOK, Journals
    <3>2. "unlinkSource" \in Steps /\ "unlinkSource" \in Steps BY DEF Steps
    <3> QED BY <1>1, <2>3, <3>1, <3>2, Moves
  <2>5. F!OriginalsSurvive' BY <1>1, <2>1, <2>2 DEF FilingInv, DiskOK, F!OriginalsSurvive, F!Place
  <2>6. HashesInv' BY <1>1, <2>1, <2>2, <2>3 DEF FilingInv, HashesInv, F!Place, F!Open
  <2>7. ApplyInv' BY <1>1, <2>1, <2>2, <2>3 DEF FilingInv, ApplyInv, F!Place, F!File
  <2>8. record'.state = "Applying" /\ journal'.state = "Applying" /\ op'.kind = "apply"
    BY <1>1, <2>3
  <2> QED BY <2>2, <2>4, <2>5, <2>6, <2>7, <2>8, WhileApplying DEF FilingInv
<1>9. CASE F!UnlinkSource
  <2>1. F!Put("source", op.file, "nothing") /\ foreign' = foreign
        /\ F!Is("backup", op.file, "original") /\ F!Is("source", op.file, "original")
    BY <1>1, <1>9 DEF F!UnlinkSource, F!idleVars, FilingInv, ApplyInv
  <2>2. /\ DiskOK' /\ at'["source"][op.file] = "nothing"
        /\ \A q \in F!Place, f \in F!File : (q # "source" \/ f # op.file) => at'[q][f] = at[q][f]
    BY <1>1, <2>1, Puts DEF F!Place
  <2>3. /\ op' = IF op.file < Files THEN [op EXCEPT !.step = "retain", !.file = op.file + 1]
                 ELSE [op EXCEPT !.step = "cleanUp", !.file = 1]
        /\ op.step = "unlinkSource"
        /\ UNCHANGED <<record, journal, path, savedPath, heldBack>>
    BY <1>9 DEF F!UnlinkSource, F!pathVars
  <2>4. OpOK'
    <3>1. record' \in Journals /\ journal' \in Journals BY <1>1, <2>3 DEF FilingInv, OpOK, Journals
    <3>2. "retain" \in Steps /\ "cleanUp" \in Steps BY DEF Steps
    <3> QED BY <1>1, <2>3, <3>1, <3>2, Moves
  <2>5. F!OriginalsSurvive' BY <1>1, <2>1, <2>2 DEF FilingInv, DiskOK, F!OriginalsSurvive, F!Place
  <2>6. HashesInv' BY <1>1, <2>1, <2>2, <2>3 DEF FilingInv, HashesInv, F!Place, F!Open
  <2>7. ApplyInv' BY <1>1, <2>1, <2>2, <2>3 DEF FilingInv, ApplyInv, F!Place, F!File
  <2>8. record'.state = "Applying" /\ journal'.state = "Applying" /\ op'.kind = "apply"
    BY <1>1, <2>3
  <2> QED BY <2>2, <2>4, <2>5, <2>6, <2>7, <2>8, WhileApplying DEF FilingInv
<1>10. CASE F!FinishApply
  <2> DEFINE filed == [record EXCEPT !.state = "Filed"]
  <2>1. /\ UNCHANGED <<at, foreign, path, savedPath, heldBack>> /\ op.step = "finish" /\ op' = F!NoOp
        /\ \/ record' = filed /\ journal' = filed
           \/ record' = record /\ journal' \in {journal, filed}
    BY <1>10 DEF F!FinishApply, F!Saves, F!pathVars, F!diskVars, F!idleVars
  <2>2. filed \in Journals /\ filed.state = "Filed" /\ filed.hashed = record.hashed
    BY DEF FilingInv, OpOK, Journals, F!States
  <2> HIDE DEF filed
  <2>3. OpOK' BY <2>1, <2>2 DEF FilingInv, OpOK
  <2>4. HashesInv' BY <1>1, <2>1, <2>2 DEF FilingInv, HashesInv, F!Open
  <2>5. (\A f \in F!File : Published(f)) /\ Settled("destination")
    BY <1>1, <2>1 DEF FilingInv, ApplyInv
  <2>6. VerdictInv' BY <1>1, <2>1, <2>2, <2>5 DEF VerdictInv, Settled
  <2>7. FreshInv' /\ ApplyInv' /\ UndoInv'
    BY <1>1, <2>1, <2>2 DEF FreshInv, ApplyInv, UndoInv, F!NoOp
  <2> QED BY <2>1, <2>3, <2>4, <2>6, <2>7, SameDisk DEF FilingInv
<1> QED BY <1>2, <1>3, <1>4, <1>5, <1>6, <1>7, <1>8, <1>9, <1>10

LEMMA UndoSteps ==
  ASSUME Files \in Nat \ {0}, FilingInv,
         F!RestoreSource \/ F!WithdrawDestination \/ F!DropBackup \/ F!DropStaged \/ F!FinishUndo
  PROVE  FilingInv'
<1> USE DEF F!Step, F!Goes, F!Is, F!Absent, Back, Withdrawn, Undone
<1>1. /\ op \in [kind : {"apply", "undo"}, step : Steps, file : F!File] /\ op.kind = "undo"
      /\ record.state = "Undoing" /\ journal = record /\ \A f \in F!File : f < op.file => Undone(f)
  <2>1. op.kind = "undo"
    BY DEF F!RestoreSource, F!WithdrawDestination, F!DropBackup, F!DropStaged, F!FinishUndo
  <2>2. op # F!NoOp BY <2>1 DEF F!NoOp
  <2> QED BY <2>1, <2>2 DEF FilingInv, OpOK, UndoInv
<1>2. ASSUME UNCHANGED <<record, journal, path, savedPath, heldBack>>, op' # op, op'.kind = "undo",
             DiskOK', OpOK', F!OriginalsSurvive', UndoInv',
             \A f \in F!File : at'["destination"][f] \in {at["destination"][f], "nothing"}
      PROVE  FilingInv'
  <2>1. HashesInv' BY <1>2 DEF FilingInv, HashesInv
  <2> QED BY <1>1, <1>2, <2>1, WhileUndoing DEF FilingInv
<1>3. CASE F!RestoreSource
  <2>1. /\ UNCHANGED <<foreign, record, journal, path, savedPath, heldBack>> /\ op.step = "restore"
        /\ op' = [op EXCEPT !.step = "withdraw", !.file = op.file]
        /\ \/ at["source"][op.file] = "nothing" /\ F!Put("source", op.file, at["backup"][op.file])
           \/ at["source"][op.file] # "nothing" /\ UNCHANGED at
    BY <1>3 DEF F!RestoreSource, F!pathVars, F!idleVars
  <2>2. ASSUME at["source"][op.file] = "nothing"
        PROVE  at["backup"][op.file] = "original"
    <3>1. <<"source", op.file>> \notin foreign BY <1>1, <2>2 DEF FilingInv, F!OriginalsSurvive
    <3> QED BY <1>1, <2>2, <3>1 DEF FilingInv, F!OriginalsSurvive
  <2>3. /\ DiskOK' /\ at'["source"][op.file] # "nothing"
        /\ at["source"][op.file] = "nothing" => at'["source"][op.file] = "original"
        /\ at["source"][op.file] # "nothing" => at' = at
        /\ \A q \in F!Place, f \in F!File : (q # "source" \/ f # op.file) => at'[q][f] = at[q][f]
    <3>1. CASE at["source"][op.file] # "nothing"
      <4>1. DiskOK' BY <2>1, <3>1, SameDisk
      <4> QED BY <2>1, <3>1, <4>1
    <3>2. CASE at["source"][op.file] = "nothing" /\ F!Put("source", op.file, "original")
      BY <1>1, <2>1, <3>2, Puts DEF F!Place
    <3> QED BY <2>1, <2>2, <3>1, <3>2
  <2>4. F!OriginalsSurvive' BY <1>1, <2>1, <2>3 DEF FilingInv, DiskOK, F!OriginalsSurvive, F!Place
  <2>5. "withdraw" \in Steps BY DEF Steps
  <2>6. OpOK' BY <1>1, <2>1, <2>5, Moves DEF FilingInv, OpOK
  <2>7. UndoInv' BY <1>1, <2>1, <2>3 DEF UndoInv, F!Place, F!File
  <2> QED BY <1>1, <1>2, <2>1, <2>3, <2>4, <2>6, <2>7 DEF F!Place
<1>4. CASE F!WithdrawDestination
  <2>1. /\ UNCHANGED <<foreign, record, journal, path, savedPath, heldBack>> /\ op.step = "withdraw"
        /\ op' = [op EXCEPT !.step = "dropBackup", !.file = op.file]
        /\ at["source"][op.file] = "original"
        /\ \/ at["destination"][op.file] = "nothing" /\ UNCHANGED at
           \/ at["destination"][op.file] = "output" /\ F!Put("destination", op.file, "nothing")
    BY <1>4 DEF F!WithdrawDestination, F!pathVars, F!idleVars
  <2>2. /\ DiskOK' /\ at'["destination"][op.file] = "nothing" /\ at["destination"][op.file] # "foreign"
        /\ \A q \in F!Place, f \in F!File : (q # "destination" \/ f # op.file) => at'[q][f] = at[q][f]
    <3>1. CASE at["destination"][op.file] = "nothing" /\ UNCHANGED at
      <4>1. DiskOK' BY <2>1, <3>1, SameDisk
      <4> QED BY <2>1, <3>1, <4>1
    <3>2. CASE at["destination"][op.file] = "output" /\ F!Put("destination", op.file, "nothing") BY <1>1, <2>1, <3>2, Puts DEF F!Place
    <3> QED BY <2>1, <3>1, <3>2
  <2>3. F!OriginalsSurvive' BY <1>1, <2>1, <2>2 DEF FilingInv, DiskOK, F!OriginalsSurvive, F!Place
  <2>4. "dropBackup" \in Steps BY DEF Steps
  <2>5. OpOK' BY <1>1, <2>1, <2>4, Moves DEF FilingInv, OpOK
  <2>6. UndoInv' BY <1>1, <2>1, <2>2 DEF FilingInv, UndoInv, F!Place, F!File
  <2> QED BY <1>1, <1>2, <2>1, <2>2, <2>3, <2>5, <2>6 DEF F!Place
<1>5. CASE F!DropBackup
  <2>1. /\ UNCHANGED <<foreign, record, journal, path, savedPath, heldBack>> /\ op.step = "dropBackup"
        /\ op' = [op EXCEPT !.step = "dropStaged", !.file = op.file]
        /\ F!Put("backup", op.file, "nothing")
    BY <1>5 DEF F!DropBackup, F!pathVars, F!idleVars
  <2>2. /\ DiskOK' /\ at'["backup"][op.file] = "nothing"
        /\ \A q \in F!Place, f \in F!File : (q # "backup" \/ f # op.file) => at'[q][f] = at[q][f]
    BY <1>1, <2>1, Puts DEF F!Place
  <2>3. at["source"][op.file] = "original" \/ <<"source", op.file>> \in foreign
    BY <1>1, <2>1 DEF FilingInv, DiskOK, UndoInv
  <2>4. F!OriginalsSurvive' BY <1>1, <2>1, <2>2, <2>3 DEF FilingInv, DiskOK, F!OriginalsSurvive, F!Place
  <2>5. "dropStaged" \in Steps BY DEF Steps
  <2>6. OpOK' BY <1>1, <2>1, <2>5, Moves DEF FilingInv, OpOK
  <2>7. UndoInv' BY <1>1, <2>1, <2>2 DEF FilingInv, UndoInv, F!Place, F!File
  <2> QED BY <1>1, <1>2, <2>1, <2>2, <2>4, <2>6, <2>7 DEF F!Place
<1>6. CASE F!DropStaged
  <2>1. /\ UNCHANGED <<foreign, record, journal, path, savedPath, heldBack>> /\ op.step = "dropStaged"
        /\ op' = IF op.file < Files THEN [op EXCEPT !.step = "restore", !.file = op.file + 1]
                 ELSE [op EXCEPT !.step = "cleanUp", !.file = 1]
        /\ F!Put("staged", op.file, "nothing")
    BY <1>6 DEF F!DropStaged, F!NextFile, F!pathVars, F!idleVars
  <2>2. /\ DiskOK' /\ at'["staged"][op.file] = "nothing"
        /\ \A q \in F!Place, f \in F!File : (q # "staged" \/ f # op.file) => at'[q][f] = at[q][f]
    BY <1>1, <2>1, Puts DEF F!Place
  <2>3. F!OriginalsSurvive' BY <1>1, <2>1, <2>2 DEF FilingInv, DiskOK, F!OriginalsSurvive, F!Place
  <2>4. "restore" \in Steps /\ "cleanUp" \in Steps BY DEF Steps
  <2>5. OpOK' BY <1>1, <2>1, <2>4, Moves DEF FilingInv, OpOK
  <2>6. UndoInv' BY <1>1, <2>1, <2>2 DEF FilingInv, UndoInv, F!Place, F!File
  <2>7. op' # op /\ op'.kind = "undo" BY <1>1, <2>1
  <2> QED BY <1>1, <1>2, <2>1, <2>2, <2>3, <2>5, <2>6, <2>7 DEF F!Place
<1>7. CASE F!FinishUndo
  <2> DEFINE done == [record EXCEPT !.state = "Undone"]
  <2>1. /\ UNCHANGED <<at, foreign, path, savedPath>> /\ op.step = "finish" /\ op' = F!NoOp
        /\ \/ record' = done /\ journal' = done
           \/ record' = record /\ journal' \in {journal, done} /\ heldBack' = heldBack
    BY <1>7 DEF F!FinishUndo, F!Saves, F!pathVars, F!diskVars, F!idleVars
  <2>2. done \in Journals /\ done.state = "Undone" /\ done.hashed = record.hashed
    BY DEF FilingInv, OpOK, Journals, F!States
  <2> HIDE DEF done
  <2>3. OpOK' BY <2>1, <2>2 DEF FilingInv, OpOK
  <2>4. HashesInv' BY <1>1, <2>1, <2>2 DEF FilingInv, HashesInv, F!Open
  <2>5. (\A f \in F!File : Undone(f)) /\ Settled("source")
    BY <1>1, <2>1 DEF FilingInv, UndoInv
  <2>6. VerdictInv' BY <1>1, <2>1, <2>2, <2>5 DEF VerdictInv, Settled
  <2>7. FreshInv' /\ ApplyInv' /\ UndoInv'
    BY <1>1, <2>1, <2>2 DEF FreshInv, ApplyInv, UndoInv, F!NoOp
  <2> QED BY <2>1, <2>3, <2>4, <2>6, <2>7, SameDisk DEF FilingInv
<1> QED BY <1>3, <1>4, <1>5, <1>6, <1>7

(* The steps that leave the files alone.                                   *)
LEMMA QuietSteps ==
  ASSUME Files \in Nat \ {0}, FilingInv,
         F!BeginApply \/ F!BeginUndo \/ F!CleanUp \/ F!CommitFiling \/ F!OperationFails
         \/ F!ClearHistory \/ F!SaveTransfers \/ F!Crash \/ UNCHANGED filingVars
  PROVE  FilingInv'
<1> USE DEF F!Goes, F!Is, F!Absent
<1>1. UNCHANGED <<at, foreign>>
  BY DEF F!BeginApply, F!BeginUndo, F!CleanUp, F!CommitFiling, F!OperationFails, F!ClearHistory,
     F!SaveTransfers, F!Crash, filingVars, F!diskVars, F!idleVars
<1>2. DiskOK' /\ F!OriginalsSurvive' BY <1>1, SameDisk
<1>3. CASE F!BeginApply
  <2> DEFINE begun == [state |-> "Applying", hashed |-> {}]
  <2>1. /\ op = F!NoOp /\ record.state = "none" /\ UNCHANGED <<stageDir, path, savedPath>>
        /\ \/ /\ record' = begun /\ journal' = begun /\ heldBack' = TRUE
              /\ op' = [kind |-> "apply", step |-> "stage", file |-> 1]
           \/ journal' \in {journal, begun} /\ UNCHANGED <<record, heldBack, op>>
    BY <1>3 DEF F!BeginApply, F!Saves, F!diskVars, F!pathVars
  <2>2. begun \in Journals /\ begun.state = "Applying" /\ begun.hashed = {} BY DEF Journals, F!States
  <2> HIDE DEF begun
  <2>3. Untouched BY <2>1 DEF FilingInv, FreshInv
  <2>4. HashesInv' BY <1>1, <2>1, <2>2, <2>3 DEF FilingInv, HashesInv, Untouched, F!Open
  <2>5. CASE record' = begun /\ journal' = begun /\ op' = [kind |-> "apply", step |-> "stage", file |-> 1]
    <3>1. OpOK' BY <2>2, <2>5 DEF OpOK, Steps, F!File
    <3>2. ApplyInv' BY <2>2, <2>5 DEF ApplyInv, F!File
    <3> QED BY <1>2, <2>2, <2>4, <2>5, <3>1, <3>2, WhileApplying DEF FilingInv
  <2>6. CASE journal' \in {journal, begun} /\ UNCHANGED <<record, op>>
    <3>1. OpOK' BY <2>2, <2>6 DEF FilingInv, OpOK
    <3>2. Untouched' BY <1>1, <2>1, <2>2, <2>3, <2>6 DEF Untouched
    <3>3. FreshInv' BY <2>1, <2>6, <3>2 DEF FreshInv
    <3>4. VerdictInv' BY <3>2 DEF VerdictInv, Untouched
    <3>5. ApplyInv' /\ UndoInv' BY <2>1, <2>6 DEF ApplyInv, UndoInv, F!NoOp
    <3> QED BY <1>2, <2>4, <3>1, <3>3, <3>4, <3>5 DEF FilingInv
  <2> QED BY <2>1, <2>5, <2>6
<1>4. CASE F!BeginUndo
  <2> DEFINE undoing == [record EXCEPT !.state = "Undoing"]
  <2>1. /\ op = F!NoOp /\ F!Open(record) /\ UNCHANGED <<path, savedPath, heldBack>> /\ record' = undoing
        /\ \/ journal' = undoing /\ op' = [kind |-> "undo", step |-> "restore", file |-> 1]
           \/ journal' \in {journal, undoing} /\ op' = F!NoOp
    BY <1>4 DEF F!BeginUndo, F!Saves, F!pathVars
  <2>2. undoing \in Journals /\ undoing.state = "Undoing" /\ undoing.hashed = record.hashed
    BY DEF FilingInv, OpOK, Journals, F!States
  <2> HIDE DEF undoing
  <2>3. HashesInv' BY <1>1, <2>1, <2>2 DEF FilingInv, HashesInv, F!Open
  <2>4. CASE journal' = undoing /\ op' = [kind |-> "undo", step |-> "restore", file |-> 1]
    <3>1. OpOK' BY <2>1, <2>2, <2>4 DEF OpOK, Steps, F!File
    <3>2. UndoInv' BY <2>1, <2>2, <2>4 DEF UndoInv, F!File
    <3> QED BY <1>2, <2>1, <2>2, <2>3, <2>4, <3>1, <3>2, WhileUndoing DEF FilingInv
  <2>5. CASE journal' \in {journal, undoing} /\ op' = F!NoOp
    <3>1. OpOK' BY <2>1, <2>2, <2>5 DEF FilingInv, OpOK
    <3>2. FreshInv' BY <2>1, <2>2, <2>5 DEF FilingInv, FreshInv, F!Open
    <3>3. VerdictInv'
      BY <1>1, <2>1, <2>2, <2>5 DEF FilingInv, VerdictInv, Settled, Published, Undone, Withdrawn, Back
    <3>4. ApplyInv' /\ UndoInv' BY <2>5 DEF ApplyInv, UndoInv, F!NoOp
    <3> QED BY <1>2, <2>3, <3>1, <3>2, <3>3, <3>4 DEF FilingInv
  <2> QED BY <2>1, <2>4, <2>5
<1>5. CASE F!CleanUp \/ F!CommitFiling
  <2>1. /\ UNCHANGED <<record, journal, heldBack>> /\ op # F!NoOp
        /\ op \in [kind : {"apply", "undo"}, step : Steps, file : F!File]
        /\ \/ /\ op.step = "cleanUp" /\ UNCHANGED <<path, savedPath>>
              /\ op' = [op EXCEPT !.step = "commit", !.file = 1]
           \/ /\ op.step = "commit"
              /\ \/ op' = F!NoOp
                 \/ /\ op' = [op EXCEPT !.step = "finish", !.file = 1] /\ savedPath' = path'
                    /\ path' \in {"gone", IF op.kind = "apply" THEN "destination" ELSE "source"}
    BY <1>5 DEF F!CleanUp, F!CommitFiling, F!pathVars, F!diskVars, FilingInv, OpOK, F!NoOp
  <2>2. \/ op.kind = "apply" /\ record.state = "Applying" /\ journal.state = "Applying"
        \/ op.kind = "undo" /\ record.state = "Undoing" /\ journal.state = "Undoing"
    BY <2>1 DEF FilingInv, ApplyInv, UndoInv
  <2>3. "commit" \in Steps /\ "finish" \in Steps BY DEF Steps
  <2>4. OpOK' BY <2>1, <2>3, Moves DEF FilingInv, OpOK
  <2>5. HashesInv' BY <1>1, <2>1 DEF FilingInv, HashesInv
  <2>6. CASE op' = F!NoOp
    <3>1. FreshInv' /\ VerdictInv' BY <2>1, <2>2 DEF FreshInv, VerdictInv
    <3> QED BY <1>2, <2>4, <2>5, <2>6, <3>1 DEF FilingInv, ApplyInv, UndoInv, F!NoOp
  <2>7. CASE op.kind = "apply" /\ op' # F!NoOp
    <3>1. op'.kind = "apply" BY <2>1, <2>7
    <3>2. ApplyInv'
      BY <1>1, <2>1, <2>2, <2>7 DEF FilingInv, ApplyInv, Published, Settled
    <3> QED BY <1>2, <2>1, <2>2, <2>4, <2>5, <2>7, <3>1, <3>2, WhileApplying DEF FilingInv
  <2>8. CASE op.kind = "undo" /\ op' # F!NoOp
    <3>1. op'.kind = "undo" BY <2>1, <2>8
    <3>2. UndoInv'
      BY <1>1, <2>1, <2>2, <2>8 DEF FilingInv, UndoInv, Undone, Withdrawn, Back, Settled, F!File
    <3> QED BY <1>2, <2>1, <2>2, <2>4, <2>5, <2>8, <3>1, <3>2, WhileUndoing DEF FilingInv
  <2> QED BY <2>2, <2>6, <2>7, <2>8
<1>6. CASE F!OperationFails
  <2>1. UNCHANGED <<stageDir, record, journal, path, savedPath, heldBack>> /\ op # F!NoOp /\ op' = F!NoOp
    BY <1>6 DEF F!OperationFails, F!pathVars, F!diskVars
  <2>2. OpOK' /\ HashesInv' BY <1>1, <2>1 DEF FilingInv, OpOK, HashesInv
  <2>3. FreshInv' /\ VerdictInv' BY <2>1 DEF FilingInv, FreshInv, Untouched, VerdictInv
  <2>4. ApplyInv' /\ UndoInv' BY <2>1 DEF ApplyInv, UndoInv, F!NoOp
  <2> QED BY <1>2, <2>2, <2>3, <2>4 DEF FilingInv
<1>7. CASE F!ClearHistory \/ F!SaveTransfers \/ UNCHANGED filingVars
  <2>1. /\ UNCHANGED <<stageDir, record, journal, heldBack, op>>
        /\ \A p : Settled(p) => Settled(p)'
    BY <1>7 DEF F!ClearHistory, F!SaveTransfers, filingVars, F!pathVars, F!diskVars, Settled
  <2>2. OpOK' /\ HashesInv' BY <1>1, <2>1 DEF FilingInv, OpOK, HashesInv
  <2>3. FreshInv' BY <1>1, <2>1 DEF FilingInv, FreshInv, Untouched
  <2>4. VerdictInv' BY <1>1, <2>1 DEF FilingInv, VerdictInv, Published, Undone, Withdrawn, Back
  <2>5. ApplyInv' BY <1>1, <2>1 DEF FilingInv, ApplyInv, Staged, Published
  <2>6. UndoInv' BY <1>1, <2>1 DEF FilingInv, UndoInv, Undone, Withdrawn, Back
  <2> QED BY <1>2, <2>2, <2>3, <2>4, <2>5, <2>6 DEF FilingInv
<1>8. CASE F!Crash
  <2>1. /\ record' = journal /\ journal' = journal /\ heldBack' = F!Open(journal) /\ UNCHANGED stageDir
        /\ path' = savedPath /\ savedPath' = savedPath /\ op' = F!NoOp
    BY <1>8 DEF F!Crash, F!diskVars
  <2>2. OpOK' /\ HashesInv' BY <1>1, <2>1 DEF FilingInv, OpOK, HashesInv, F!Open
  <2>3. FreshInv' BY <1>1, <2>1 DEF FilingInv, FreshInv, Untouched
  <2>4. VerdictInv' BY <1>1, <2>1 DEF FilingInv, VerdictInv, Published, Undone, Withdrawn, Back, Settled
  <2>5. ApplyInv' /\ UndoInv' BY <2>1 DEF ApplyInv, UndoInv, F!NoOp
  <2> QED BY <1>2, <2>2, <2>3, <2>4, <2>5 DEF FilingInv
<1> QED BY <1>3, <1>4, <1>5, <1>6, <1>7, <1>8

(* Another program.                                                        *)
LEMMA ForeignSteps ==
  ASSUME FilingInv, NEW f \in F!File, NEW p \in {"source", "destination"}, F!Interferes(p, f)
  PROVE  FilingInv'
<1> USE DEF F!Is, F!Absent
<1>1. /\ F!Put(p, f, "foreign") /\ foreign' = foreign \cup {<<p, f>>}
      /\ UNCHANGED <<stageDir, record, journal, path, savedPath, heldBack, op>>
      /\ ~(op.step = "unlinkSource" /\ p = "source" /\ f = op.file)
  BY DEF F!Interferes, F!pathVars
<1>2. /\ DiskOK' /\ at'[p][f] = "foreign"
      /\ \A q \in F!Place, g \in F!File : (q # p \/ g # f) => at'[q][g] = at[q][g]
  BY <1>1, Puts DEF F!Place
<1>3. \A g \in F!File : /\ at'["source"][g] \in {at["source"][g], "foreign"}
                        /\ at'["destination"][g] \in {at["destination"][g], "foreign"}
                        /\ at'["backup"][g] = at["backup"][g] /\ at'["staged"][g] = at["staged"][g]
                        /\ (p # "source" \/ g # f) => at'["source"][g] = at["source"][g]
  BY <1>2 DEF F!Place
<1>4. F!OriginalsSurvive' BY <1>1, <1>2 DEF FilingInv, DiskOK, F!OriginalsSurvive, F!Place
<1>5. OpOK' /\ HashesInv' BY <1>1, <1>3 DEF FilingInv, OpOK, HashesInv
<1>6. FreshInv' BY <1>1, <1>2, <1>3 DEF FilingInv, FreshInv, Untouched
<1>7. VerdictInv' BY <1>1, <1>3 DEF FilingInv, VerdictInv, Published, Undone, Withdrawn, Back, Settled
<1>8. ApplyInv' BY <1>1, <1>3 DEF FilingInv, ApplyInv, OpOK, F!NoOp, Staged, Published, Settled
<1>9. UndoInv' BY <1>1, <1>3 DEF FilingInv, UndoInv, OpOK, F!NoOp, Undone, Withdrawn, Back, Settled
<1> QED BY <1>2, <1>4, <1>5, <1>6, <1>7, <1>8, <1>9 DEF FilingInv

LEMMA FilingInitInv == F!FilingInit => FilingInv
<1> SUFFICES ASSUME F!FilingInit PROVE FilingInv OBVIOUS
<1>1. \A q \in F!Place, f \in F!File : at[q][f] = IF q = "source" THEN "original" ELSE "nothing"
  BY DEF F!FilingInit
<1>2. DiskOK
  <2>1. at \in [F!Place -> [F!File -> {"original", "nothing", "foreign", "partial", "output"}]]
    BY DEF F!FilingInit
  <2> QED BY <1>1, <2>1 DEF F!FilingInit, DiskOK, F!Place, F!Is
<1>3. OpOK BY DEF F!FilingInit, OpOK, F!NoRecord, Journals, F!States
<1>4. F!OriginalsSurvive BY <1>1 DEF F!FilingInit, F!OriginalsSurvive, F!Is, F!Place
<1>5. HashesInv BY <1>1 DEF F!FilingInit, HashesInv, F!Is, F!Place, F!NoRecord, F!Open
<1>6. FreshInv BY <1>1 DEF F!FilingInit, FreshInv, Untouched, F!NoRecord, F!Is, F!Absent, F!Place
<1>7. ApplyInv /\ UndoInv /\ VerdictInv
  BY DEF F!FilingInit, ApplyInv, UndoInv, VerdictInv, F!NoOp, F!NoRecord
<1> QED BY <1>2, <1>3, <1>4, <1>5, <1>6, <1>7 DEF FilingInv

LEMMA AlwaysFiling ==
  ASSUME Files \in Nat \ {0}
  PROVE  StoresSpec => []FilingInv
<1>1. StoresInit => FilingInv BY FilingInitInv DEF StoresInit
<1>2. [StoresNext]_allVars => [F!FilingNext]_filingVars
  BY DEF StoresNext, JsonNext, MessagesNext, RoomsNext, PeopleNext, RadarNext, FilingNext, SharesNext,
         allVars, libraryVars
<1>3. FilingInv /\ [F!FilingNext]_filingVars => FilingInv'
  BY ApplySteps, UndoSteps, QuietSteps, ForeignSteps DEF F!FilingNext
<1> QED BY <1>1, <1>2, <1>3, PTL DEF StoresSpec

(* However a filing is interrupted, and whatever other programs do to the  *)
(* files, originals and foreign files survive, the journal tells the       *)
(* truth, and what was begun can be undone; for albums of any number of    *)
(* files, any number of crashes and of foreign changes (filing.rs).        *)
THEOREM FilingStaysRecoverable ==
  ASSUME Files \in Nat \ {0}
  PROVE  StoresSpec => []FilingIsRecoverable
<1>1. FilingInv => F!JournalIsTrue
  BY DEF FilingInv, DiskOK, VerdictInv, F!JournalIsTrue, Published, Undone, Withdrawn, Back, Settled,
         F!Is, F!Absent
<1>2. FilingInv => F!AlwaysUndoable
  <2>1. SUFFICES ASSUME FilingInv, foreign = {} PROVE F!AlwaysUndoable BY DEF F!AlwaysUndoable
  <2>2. F!CheckUndo
    BY <2>1 DEF FilingInv, DiskOK, HashesInv, F!OriginalsSurvive, F!CheckUndo, F!Is, F!Absent
  <2>3. record.state = "none" => F!Preflight
    BY <2>1 DEF FilingInv, DiskOK, FreshInv, Untouched, F!Preflight, F!Is, F!Absent
  <2> QED BY <2>1, <2>2, <2>3 DEF F!AlwaysUndoable, FilingInv, HashesInv
<1>3. FilingInv => FilingIsRecoverable BY <1>1, <1>2 DEF FilingInv, FilingIsRecoverable
<1> QED BY <1>3, AlwaysFiling, PTL

-----------------------------------------------------------------------------
(* The shared folders.                                                     *)

Entry == [at : Nat, probed : Nat]
Entries == [Track -> Entry]

FilesOK == disk \in [Track -> Nat] /\ rows \in [Track -> Nat] /\ roots \in [Root -> {"none", "shared", "disabled"}]

ScanOK ==
  /\ index \in Entries /\ cache \in Entries /\ asked \in Nat
  /\ scan \in [step : {"idle", "prune", "walk", "probe"}, todo : SUBSET Track, file : Track \cup {"none"},
               key : Nat, next : Entries, cache : Entries, ask : {0, 1}]
  /\ scan.step = "idle" => scan = L!Idle
  /\ scan.step = "probe" => scan.file \in Track /\ scan.file \notin scan.todo

(* The thread scans everything once before anything else, and what it is   *)
(* to scan is forgotten only when the scan begins.                         *)
WatcherOK ==
  /\ watcher \in [step : {"look", "register", "take", "scan"}, first : BOOLEAN, full : BOOLEAN,
                  seen : SUBSET Root, target : SUBSET Root, folders : SUBSET L!Folder]
  /\ changed \in [folders : SUBSET L!Folder, full : BOOLEAN]
  /\ watcher.step = "look" => ~watcher.full
  /\ watcher.step \in {"register", "take"} => (watcher.first => watcher.full)
  /\ watcher.step = "scan" => ~watcher.first

CachesInv == \A f \in Track : cache[f].at = cache[f].probed /\ scan.cache[f].at = scan.cache[f].probed

(* Nothing of a root that is not shared is in an index that a holder of    *)
(* the lock leaves behind, nor in the one it is about to publish.          *)
RootsInv ==
  /\ scan.step # "prune" => \A f \in Track : index[f].at > 0 => RootOf[f] \in L!Enabled
  /\ scan.step \in {"walk", "probe"} =>
       /\ \A f \in Track : scan.next[f].at > 0 => RootOf[f] \in L!Enabled
       /\ \A f \in scan.todo : RootOf[f] \in L!Enabled
       /\ scan.step = "probe" => RootOf[scan.file] \in L!Enabled

(* What the index should hold of a file, and whether something is under    *)
(* way, asked for or known to be missed that will read the file again.     *)
Walks(f) == RootOf[f] \in L!Enabled /\ ~L!Covered(RootOf[f])
Cur(f) ==
  IF L!ReadsLibrary(f) THEN [at |-> rows[f], probed |-> rows[f]]
  ELSE IF RootOf[f] \in L!Enabled THEN [at |-> disk[f], probed |-> disk[f]] ELSE L!Nothing
Awaited(f) ==
  \/ unseen \/ asked > 0 \/ changed.full \/ FolderOf[f] \in changed.folders
  \/ watcher.first \/ watcher.full \/ (watcher.step = "scan" /\ FolderOf[f] \in watcher.folders)

Reading(f) == f \in scan.todo \/ (scan.step = "probe" /\ f = scan.file)

CurrentInv ==
  /\ scan.step \in {"idle", "prune"} =>
       \A f \in Track : index[f] = Cur(f) \/ Awaited(f) \/ (scan.step = "prune" /\ scan.ask = 1)
  /\ scan.step \in {"walk", "probe"} =>
       /\ \A f \in scan.todo : scan.next[f] = L!Nothing
       /\ \A f \in Track : \/ Reading(f) /\ Walks(f)
                           \/ ~Reading(f) /\ scan.next[f] = Cur(f)
                           \/ Awaited(f)
       /\ scan.step = "probe" => scan.key = disk[scan.file] \/ Awaited(scan.file)

SharesInv ==
  FilesOK /\ ScanOK /\ WatcherOK /\ CachesInv /\ RootsInv /\ CurrentInv /\ leaked = {}

(* A step that changes neither the index nor a scan, and that leaves what  *)
(* the index should hold of a file as it is unless the file is awaited.    *)
LEMMA OnlyAwaitedChange ==
  ASSUME SharesInv, FilesOK', WatcherOK', leaked' = {},
         UNCHANGED <<roots, index, cache, scan, asked>>,
         \A f \in Track : Awaited(f) => Awaited(f)',
         \A f \in Track : \/ Awaited(f)' \/ RootOf[f] \notin L!Enabled
                          \/ /\ disk'[f] = disk[f] /\ rows'[f] = rows[f]
                             /\ L!Covered(RootOf[f])' = L!Covered(RootOf[f])
  PROVE  SharesInv'
<1>1. L!Enabled' = L!Enabled BY DEF L!Enabled
<1>2. ScanOK' /\ CachesInv' BY DEF SharesInv, ScanOK, CachesInv
<1>3. RootsInv' BY <1>1 DEF SharesInv, RootsInv
<1>4. \A f \in Track : Awaited(f)' \/ (Cur(f)' = Cur(f) /\ Walks(f)' = Walks(f))
  BY <1>1 DEF Cur, Walks, L!ReadsLibrary
<1>5. \A f \in Track : RootOf[f] \in L!Enabled => disk'[f] = disk[f] \/ Awaited(f)' OBVIOUS
<1>6. \A f \in Track : Reading(f)' = Reading(f) BY DEF Reading
<1>7. CurrentInv' BY <1>4, <1>5, <1>6 DEF SharesInv, ScanOK, RootsInv, CurrentInv
<1> QED BY <1>2, <1>3, <1>7 DEF SharesInv

LEMMA FileSteps ==
  ASSUME MaxVersion \in Nat, SharesInv,
         (\E f \in Track : L!Edit(f)) \/ (\E r \in Root : L!Measure(r))
  PROVE  SharesInv'
<1>1. ASSUME NEW f \in Track, L!Edit(f) PROVE SharesInv'
  <2>1. PICK v \in Nat : disk' = [disk EXCEPT ![f] = v] BY <1>1 DEF L!Edit, L!Version
  <2>2. /\ UNCHANGED <<rows, roots, index, cache, scan, asked, watcher, leaked>> /\ L!Recorded(f)
    BY <1>1 DEF L!Edit, L!indexVars, L!answerVars
  <2>3. FilesOK' /\ \A g \in Track : g # f => disk'[g] = disk[g]
    BY <2>1, <2>2 DEF SharesInv, FilesOK
  <2>4. FolderOf[f] \in L!Folder BY DEF L!Folder
  <2>5. /\ changed' \in [folders : SUBSET L!Folder, full : BOOLEAN]
        /\ unseen => unseen'
        /\ changed.full => changed'.full
        /\ \A d \in changed.folders : d \in changed'.folders \/ changed'.full
        /\ changed'.full \/ FolderOf[f] \in changed'.folders \/ unseen' \/ RootOf[f] \notin L!Enabled
    <3>1. CASE RootOf[f] \in reported
      <4> DEFINE more == [changed EXCEPT !.folders = IF changed.full THEN {} ELSE @ \cup {FolderOf[f]}]
                 all == [folders |-> {}, full |-> TRUE]
      <4>1. changed' \in {more, all} /\ unseen' = unseen BY <2>2, <3>1 DEF L!Recorded
      <4>2. /\ more \in [folders : SUBSET L!Folder, full : BOOLEAN] /\ more.full = changed.full
            /\ changed.full \/ more.folders = changed.folders \cup {FolderOf[f]}
        BY <2>4 DEF SharesInv, WatcherOK
      <4>3. all \in [folders : SUBSET L!Folder, full : BOOLEAN] /\ all.full OBVIOUS
      <4> HIDE DEF more, all
      <4> QED BY <4>1, <4>2, <4>3
    <3>2. CASE RootOf[f] \notin reported
      BY <2>2, <3>2 DEF L!Recorded, SharesInv, WatcherOK
    <3> QED BY <3>1, <3>2
  <2>6. WatcherOK' BY <2>2, <2>5 DEF SharesInv, WatcherOK
  <2>7. \A g \in Track : Awaited(g) => Awaited(g)' BY <2>2, <2>5 DEF Awaited
  <2>8. Awaited(f)' \/ RootOf[f] \notin L!Enabled BY <2>5 DEF Awaited
  <2>9. \A g \in Track : L!Covered(RootOf[g])' = L!Covered(RootOf[g]) BY <2>2 DEF L!Covered
  <2>10. leaked' = {} BY <2>2 DEF SharesInv
  <2> QED BY <2>2, <2>3, <2>6, <2>7, <2>8, <2>9, <2>10, OnlyAwaitedChange
<1>2. ASSUME NEW r \in Root, L!Measure(r) PROVE SharesInv'
  <2>1. /\ UNCHANGED <<disk, roots, index, cache, scan, asked, watcher, changed, leaked>>
        /\ unseen' = (unseen \/ r \in L!Enabled)
        /\ rows' \in {[f \in Track |-> IF RootOf[f] = r THEN disk[f] ELSE rows[f]],
                      [f \in Track |-> IF RootOf[f] = r THEN 0 ELSE rows[f]]}
    BY <1>2 DEF L!Measure, L!indexVars, L!watchVars, L!answerVars
  <2>2. FilesOK' /\ \A f \in Track : RootOf[f] # r => rows'[f] = rows[f]
    BY <2>1 DEF SharesInv, FilesOK
  <2>3. \A f \in Track : RootOf[f] # r => L!Covered(RootOf[f])' = L!Covered(RootOf[f])
    BY <2>2 DEF L!Covered
  <2>4. \A f \in Track : Awaited(f) => Awaited(f)' BY <2>1 DEF Awaited
  <2>5. \A f \in Track : RootOf[f] = r => Awaited(f)' \/ RootOf[f] \notin L!Enabled
    BY <2>1 DEF Awaited
  <2>6. WatcherOK' /\ leaked' = {} BY <2>1 DEF SharesInv, WatcherOK
  <2> QED BY <2>1, <2>2, <2>3, <2>4, <2>5, <2>6, OnlyAwaitedChange
<1> QED BY <1>1, <1>2

(* The watcher, its clock, and whatever is answered to other users.        *)
LEMMA WatcherSteps ==
  ASSUME SharesInv,
         (\E retry \in BOOLEAN : L!Look(retry)) \/ L!Register \/ L!Take \/ L!IntervalElapses
  PROVE  SharesInv'
<1>1. /\ UNCHANGED <<disk, rows, roots, index, cache, scan, asked, leaked, unseen>>
  BY DEF L!Look, L!Register, L!Take, L!IntervalElapses, L!fileVars, L!indexVars, L!answerVars
<1>2. WatcherOK' /\ \A f \in Track : Awaited(f) => Awaited(f)'
  <2>1. CASE \E retry \in BOOLEAN : L!Look(retry)
    <3>1. PICK retry \in BOOLEAN : L!Look(retry) BY <2>1
    <3> DEFINE differs == watcher.seen # L!Enabled
               seen == [watcher EXCEPT !.target = L!Enabled, !.full = differs \/ watcher.first,
                        !.step = IF watcher.first \/ differs \/ retry THEN "register" ELSE "take"]
    <3>2. /\ watcher' = seen /\ changed' = changed /\ watcher.step = "look"
      BY <3>1 DEF L!Look
    <3>3. L!Enabled \subseteq Root BY DEF L!Enabled
    <3>4. /\ seen \in [step : {"look", "register", "take", "scan"}, first : BOOLEAN, full : BOOLEAN,
                       seen : SUBSET Root, target : SUBSET Root, folders : SUBSET L!Folder]
          /\ seen.first = watcher.first /\ seen.step \in {"register", "take"}
          /\ seen.first => seen.full
      BY <3>3 DEF SharesInv, WatcherOK
    <3> HIDE DEF seen
    <3>5. WatcherOK' BY <3>2, <3>4 DEF SharesInv, WatcherOK
    <3> QED BY <1>1, <3>2, <3>4, <3>5 DEF SharesInv, WatcherOK, Awaited
  <2>2. CASE L!Register
    <3>1. /\ watcher' = [watcher EXCEPT !.seen = watcher.target, !.step = "take"]
          /\ changed' = changed /\ watcher.step = "register"
      BY <2>2 DEF L!Register
    <3>2. WatcherOK' BY <3>1 DEF SharesInv, WatcherOK
    <3> QED BY <1>1, <3>1, <3>2 DEF SharesInv, WatcherOK, Awaited
  <2>3. CASE L!Take
    <3>1. PICK batch \in {L!NoChanges, changed} :
            /\ changed' = IF batch = changed THEN L!NoChanges ELSE changed
            /\ LET full == watcher.full \/ due \/ batch.full IN
                 watcher' = [watcher EXCEPT !.first = FALSE, !.full = full,
                   !.folders = IF full THEN {} ELSE batch.folders,
                   !.step = IF full \/ batch # L!NoChanges THEN "scan" ELSE "look"]
      BY <2>3 DEF L!Take
    <3>2. watcher.step = "take" BY <2>3 DEF L!Take
    <3>3. L!NoChanges \in [folders : SUBSET L!Folder, full : BOOLEAN] BY DEF L!NoChanges
    <3>4. batch \in [folders : SUBSET L!Folder, full : BOOLEAN]
      BY <3>1, <3>3 DEF SharesInv, WatcherOK
    <3>5. CASE watcher.full \/ due \/ batch.full
      <4>1. watcher' = [watcher EXCEPT !.first = FALSE, !.full = TRUE, !.folders = {}, !.step = "scan"]
        BY <3>1, <3>5
      <4>2. WatcherOK' BY <3>1, <3>3, <3>4, <4>1 DEF SharesInv, WatcherOK
      <4>3. watcher'.full BY <4>1 DEF SharesInv, WatcherOK
      <4> QED BY <4>2, <4>3 DEF Awaited
    <3>6. CASE ~(watcher.full \/ due \/ batch.full)
      <4>1. watcher' = [watcher EXCEPT !.first = FALSE, !.full = FALSE, !.folders = batch.folders,
                        !.step = IF batch # L!NoChanges THEN "scan" ELSE "look"]
        BY <3>1, <3>6
      <4>2. WatcherOK' BY <3>1, <3>3, <3>4, <4>1 DEF SharesInv, WatcherOK
      <4>3. ~watcher.first /\ ~watcher.full BY <3>2, <3>6 DEF SharesInv, WatcherOK
      <4>4. /\ batch # L!NoChanges => watcher'.step = "scan" /\ watcher'.folders = batch.folders
            /\ batch = changed \/ changed' = changed
        BY <3>1, <4>1 DEF SharesInv, WatcherOK
      <4>5. \A f \in Track : FolderOf[f] \in batch.folders => batch # L!NoChanges BY DEF L!NoChanges
      <4> QED BY <1>1, <3>2, <3>6, <4>2, <4>3, <4>4, <4>5 DEF Awaited
    <3> QED BY <3>5, <3>6
  <2>4. CASE L!IntervalElapses
    <3>1. UNCHANGED <<watcher, changed>> BY <2>4 DEF L!IntervalElapses
    <3> QED BY <1>1, <3>1 DEF SharesInv, WatcherOK, Awaited
  <2> QED BY <2>1, <2>2, <2>3, <2>4
<1>3. FilesOK' /\ leaked' = {} BY <1>1 DEF SharesInv, FilesOK
<1>4. \A f \in Track : L!Covered(RootOf[f])' = L!Covered(RootOf[f]) BY <1>1 DEF L!Covered
<1> QED BY <1>1, <1>2, <1>3, <1>4, OnlyAwaitedChange

LEMMA AnswerSteps ==
  ASSUME SharesInv,
         \/ L!AnswerNow \/ L!QueueSearchResponse \/ (\E t \in tickets : L!SendSearchResponse(t))
         \/ L!LoseTickets \/ L!SetExcludedPhrases \/ UNCHANGED sharesVars
  PROVE  SharesInv'
<1>1. UNCHANGED <<disk, rows, roots, index, cache, scan, asked, watcher, changed, unseen>>
  BY DEF L!AnswerNow, L!QueueSearchResponse, L!SendSearchResponse, L!LoseTickets,
         L!SetExcludedPhrases, sharesVars, L!fileVars, L!indexVars, L!watchVars
<1>2. leaked' = {}
  <2>1. \A files : files \subseteq L!Visible => {f \in files : ~L!Shared(f)} = {}
    BY DEF L!Visible, L!Shared
  <2>2. ASSUME NEW files, files \subseteq L!Visible, L!Answered(files) PROVE leaked' = {}
    BY <2>1, <2>2 DEF L!Answered, SharesInv
  <2>3. CASE L!AnswerNow BY <2>2, <2>3 DEF L!AnswerNow
  <2>4. ASSUME NEW t \in tickets, L!SendSearchResponse(t) PROVE leaked' = {}
    <3>1. L!Answered(t \cap L!Visible) /\ t \cap L!Visible \subseteq L!Visible
      BY <2>4 DEF L!SendSearchResponse
    <3> QED BY <2>2, <3>1
  <2>5. CASE L!QueueSearchResponse \/ L!LoseTickets \/ L!SetExcludedPhrases \/ UNCHANGED sharesVars
    BY <2>5 DEF L!QueueSearchResponse, L!LoseTickets, L!SetExcludedPhrases, sharesVars, L!answerVars, SharesInv
  <2> QED BY <2>3, <2>4, <2>5
<1>3. FilesOK' /\ WatcherOK' BY <1>1 DEF SharesInv, FilesOK, WatcherOK
<1>4. \A f \in Track : Awaited(f)' = Awaited(f) BY <1>1 DEF Awaited
<1>5. \A f \in Track : L!Covered(RootOf[f])' = L!Covered(RootOf[f]) BY <1>1 DEF L!Covered
<1> QED BY <1>1, <1>2, <1>3, <1>4, <1>5, OnlyAwaitedChange

(* The index is pruned once the roots are others; when a scan is to follow *)
(* what it should hold may be anything until then.                         *)
LEMMA Prunes ==
  ASSUME SharesInv, FilesOK', NEW k \in {0, 1}, scan = L!Idle,
         scan' = [L!Idle EXCEPT !.step = "prune", !.ask = k],
         k = 0 => roots' = roots,
         UNCHANGED <<disk, rows, index, cache, asked, watcher, changed, unseen, leaked>>
  PROVE  SharesInv'
<1>1. /\ scan'.step = "prune" /\ scan'.ask = k /\ scan'.cache = L!NoIndex
      /\ scan' \in [step : {"idle", "prune", "walk", "probe"}, todo : SUBSET Track, file : Track \cup {"none"},
                    key : Nat, next : Entries, cache : Entries, ask : {0, 1}]
  BY DEF L!Idle, L!NoIndex, L!Nothing, Entries, Entry
<1>2. ScanOK' BY <1>1 DEF SharesInv, ScanOK
<1>3. CachesInv' BY <1>1 DEF SharesInv, CachesInv, L!NoIndex, L!Nothing
<1>4. RootsInv' BY <1>1 DEF RootsInv
<1>5. CASE k = 1
  <2>1. CurrentInv' BY <1>1, <1>5 DEF CurrentInv
  <2> QED BY <1>2, <1>3, <1>4, <2>1 DEF SharesInv, WatcherOK
<1>6. CASE k = 0
  <2>1. \A f \in Track : Cur(f)' = Cur(f)
    BY <1>6 DEF Cur, L!ReadsLibrary, L!Enabled, L!Covered
  <2>2. \A f \in Track : Awaited(f)' = Awaited(f) BY DEF Awaited
  <2>3. scan.step = "idle" BY DEF L!Idle
  <2>4. CurrentInv' BY <1>1, <2>1, <2>2, <2>3 DEF SharesInv, CurrentInv
  <2> QED BY <1>2, <1>3, <1>4, <2>4 DEF SharesInv, WatcherOK
<1> QED BY <1>5, <1>6

LEMMA RootSteps ==
  ASSUME SharesInv,
         \/ \E r \in Root : \/ L!AddRoot(r) \/ L!RemoveRoot(r)
                            \/ \E enabled \in BOOLEAN : L!SetEnabled(r, enabled)
                            \/ \E to \in {"none", "shared", "disabled"} : L!ApplySettings(r, to)
         \/ L!PruneDisabledRoots
  PROVE  SharesInv'
<1>1. ASSUME NEW r \in Root, NEW to \in {"none", "shared", "disabled"}, L!ChangesRoots(r, to), scan = L!Idle
      PROVE  /\ FilesOK' /\ WatcherOK'
             /\ roots' = [roots EXCEPT ![r] = to]
             /\ UNCHANGED <<disk, rows, index, cache, watcher, changed, unseen, leaked>>
  BY <1>1 DEF L!ChangesRoots, L!fileVars, L!watchVars, L!answerVars, SharesInv, FilesOK, WatcherOK
<1>2. ASSUME NEW r \in Root, L!AddRoot(r) PROVE SharesInv'
  <2>1. /\ L!ChangesRoots(r, "shared") /\ scan = L!Idle /\ scan' = scan /\ asked' = asked + 1
    BY <1>2 DEF L!AddRoot
  <2>2. /\ FilesOK' /\ WatcherOK' /\ roots' = [roots EXCEPT ![r] = "shared"]
        /\ UNCHANGED <<disk, rows, index, cache, watcher, changed, unseen, leaked>>
    BY <1>1, <2>1
  <2>3. L!Enabled \subseteq L!Enabled' BY <2>2 DEF L!Enabled, SharesInv, FilesOK
  <2>4. scan.step = "idle" BY <2>1 DEF L!Idle
  <2>5. ScanOK' BY <2>1, <2>2 DEF SharesInv, ScanOK
  <2>6. CachesInv' BY <2>1, <2>2 DEF SharesInv, CachesInv
  <2>7. RootsInv' BY <2>1, <2>2, <2>3, <2>4 DEF SharesInv, RootsInv
  <2>8. asked' > 0 BY <2>1 DEF SharesInv, ScanOK
  <2>9. CurrentInv' BY <2>1, <2>4, <2>8 DEF CurrentInv, Awaited
  <2> QED BY <2>2, <2>5, <2>6, <2>7, <2>9 DEF SharesInv
<1>3. ASSUME NEW r \in Root, L!RemoveRoot(r) \/ \E enabled \in BOOLEAN : L!SetEnabled(r, enabled)
      PROVE  SharesInv'
  <2>1. PICK to \in {"none", "shared", "disabled"} : L!ChangesRoots(r, to)
    BY <1>3 DEF L!RemoveRoot, L!SetEnabled
  <2>2. scan = L!Idle /\ scan' = [L!Idle EXCEPT !.step = "prune", !.ask = 1] /\ asked' = asked
    BY <1>3 DEF L!RemoveRoot, L!SetEnabled
  <2> QED BY <1>1, <2>1, <2>2, Prunes
<1>4. ASSUME NEW r \in Root, NEW to \in {"none", "shared", "disabled"}, L!ApplySettings(r, to)
      PROVE  SharesInv'
  <2>1. /\ L!ChangesRoots(r, to) /\ scan = L!Idle /\ asked' = asked
        /\ scan' = [L!Idle EXCEPT !.step = "prune", !.ask = IF roots' = roots THEN 0 ELSE 1]
    BY <1>4 DEF L!ApplySettings
  <2>2. CASE roots' = roots BY <1>1, <2>1, <2>2, Prunes
  <2>3. CASE roots' # roots BY <1>1, <2>1, <2>3, Prunes
  <2> QED BY <2>2, <2>3
<1>5. CASE L!PruneDisabledRoots
  <2>1. /\ scan.step = "prune" /\ scan' = L!Idle /\ asked' = asked + scan.ask
        /\ index' = [f \in Track |-> IF RootOf[f] \in L!Enabled THEN index[f] ELSE L!Nothing]
        /\ UNCHANGED <<disk, rows, roots, cache, watcher, changed, unseen, leaked>>
    BY <1>5 DEF L!PruneDisabledRoots, L!fileVars, L!watchVars, L!answerVars
  <2>2. L!Nothing \in Entry /\ L!Nothing.at = 0 /\ L!NoIndex \in Entries
    BY DEF L!Nothing, Entry, Entries, L!NoIndex
  <2>3. /\ scan'.step = "idle" /\ scan'.cache = L!NoIndex /\ scan'.todo = {} /\ scan'.next = L!NoIndex
        /\ scan'.file = "none" /\ scan'.key = 0 /\ scan'.ask = 0
    BY <2>1 DEF L!Idle
  <2>4. ScanOK'
    <3>1. index' \in Entries BY <2>1, <2>2 DEF SharesInv, ScanOK, Entries
    <3>2. asked' \in Nat BY <2>1 DEF SharesInv, ScanOK
    <3>3. scan' \in [step : {"idle", "prune", "walk", "probe"}, todo : SUBSET Track, file : Track \cup {"none"},
                     key : Nat, next : Entries, cache : Entries, ask : {0, 1}]
      BY <2>1, <2>2 DEF L!Idle
    <3> QED BY <2>1, <2>3, <3>1, <3>2, <3>3 DEF SharesInv, ScanOK
  <2>5. CachesInv' BY <2>1, <2>3 DEF SharesInv, CachesInv, L!NoIndex, L!Nothing
  <2>6. L!Enabled' = L!Enabled BY <2>1 DEF L!Enabled
  <2>7. RootsInv' BY <2>1, <2>2, <2>3, <2>6 DEF RootsInv
  <2>8. \A f \in Track : index'[f] = Cur(f)' \/ Awaited(f)'
    <3> SUFFICES ASSUME NEW f \in Track, ~Awaited(f)' PROVE index'[f] = Cur(f)' OBVIOUS
    <3>1. Cur(f)' = Cur(f) BY <2>1 DEF Cur, L!ReadsLibrary, L!Enabled, L!Covered
    <3>2. CASE RootOf[f] \notin L!Enabled BY <2>1, <3>1, <3>2 DEF Cur, L!ReadsLibrary
    <3>3. CASE RootOf[f] \in L!Enabled
      <4>1. scan.ask = 0 /\ ~Awaited(f) BY <2>1 DEF SharesInv, ScanOK, Awaited
      <4>2. index[f] = Cur(f) BY <2>1, <4>1 DEF SharesInv, CurrentInv
      <4> QED BY <2>1, <3>1, <3>3, <4>2
    <3> QED BY <3>2, <3>3
  <2>9. CurrentInv' BY <2>3, <2>8 DEF CurrentInv
  <2> QED BY <2>1, <2>4, <2>5, <2>7, <2>9 DEF SharesInv, FilesOK, WatcherOK
<1> QED BY <1>2, <1>3, <1>4, <1>5

(* A scan begins with what it will not read again.                         *)
LEMMA ScanBegins ==
  ASSUME SharesInv, NEW full \in BOOLEAN, NEW folders, L!Begins(full, folders), asked' \in Nat, WatcherOK',
         \A f \in Track : ~full /\ FolderOf[f] \notin folders => (Awaited(f) => Awaited(f)')
  PROVE  SharesInv'
<1> DEFINE todo == {f \in Track : L!Walked(f, full, folders)}
           next == [f \in Track |->
             IF L!ReadsLibrary(f) THEN [at |-> rows[f], probed |-> rows[f]]
             ELSE IF RootOf[f] \in L!Enabled /\ ~full /\ FolderOf[f] \notin folders THEN index[f]
             ELSE L!Nothing]
<1>1. /\ scan = L!Idle /\ UNCHANGED <<disk, rows, roots, index, cache, leaked>>
      /\ scan' = [L!Idle EXCEPT !.step = "walk", !.cache = cache, !.todo = todo, !.next = next]
  BY DEF L!Begins, L!fileVars, L!answerVars
<1>2. L!Nothing \in Entry /\ L!Nothing.at = 0 BY DEF L!Nothing, Entry
<1>3. next \in Entries
  <2>1. \A f \in Track : [at |-> rows[f], probed |-> rows[f]] \in Entry /\ index[f] \in Entry
    BY DEF SharesInv, FilesOK, ScanOK, Entry, Entries
  <2> QED BY <1>2, <2>1 DEF Entries
<1>4. todo \subseteq Track OBVIOUS
<1>5. \A f \in todo : Walks(f) /\ next[f] = L!Nothing
  BY DEF L!Walked, Walks, L!ReadsLibrary
<1>6. \A f \in Track : next[f].at > 0 => RootOf[f] \in L!Enabled
  BY <1>2 DEF L!ReadsLibrary
<1>7. \A f \in Track : f \notin todo => next[f] = Cur(f) \/ Awaited(f)'
  <2> SUFFICES ASSUME NEW f \in Track, f \notin todo, ~Awaited(f)' PROVE next[f] = Cur(f) OBVIOUS
  <2>1. CASE L!ReadsLibrary(f) BY <2>1 DEF Cur
  <2>2. CASE RootOf[f] \notin L!Enabled BY <2>2 DEF Cur, L!ReadsLibrary
  <2>3. CASE ~L!ReadsLibrary(f) /\ RootOf[f] \in L!Enabled
    <3>1. ~full /\ FolderOf[f] \notin folders BY <2>3 DEF L!Walked, L!ReadsLibrary
    <3>2. index[f] = Cur(f) BY <1>1, <3>1 DEF SharesInv, CurrentInv, L!Idle
    <3> QED BY <2>3, <3>1, <3>2
  <2> QED BY <2>1, <2>2, <2>3
<1> HIDE DEF todo, next
<1>8. /\ scan'.step = "walk" /\ scan'.cache = cache /\ scan'.todo = todo /\ scan'.next = next
      /\ scan'.ask = 0 /\ scan'.file = "none" /\ scan'.key = 0
      /\ scan' \in [step : {"idle", "prune", "walk", "probe"}, todo : SUBSET Track, file : Track \cup {"none"},
                    key : Nat, next : Entries, cache : Entries, ask : {0, 1}]
  BY <1>1, <1>3, <1>4 DEF L!Idle, SharesInv, ScanOK
<1>9. ScanOK' BY <1>1, <1>8 DEF SharesInv, ScanOK
<1>10. CachesInv' BY <1>1, <1>8 DEF SharesInv, CachesInv
<1>11. L!Enabled' = L!Enabled BY <1>1 DEF L!Enabled
<1>12. RootsInv'
  <2>1. \A f \in Track : index[f].at > 0 => RootOf[f] \in L!Enabled
    BY <1>1 DEF SharesInv, RootsInv, L!Idle
  <2> QED BY <1>1, <1>5, <1>6, <1>8, <1>11, <2>1 DEF RootsInv, Walks
<1>13. \A f \in Track : Cur(f)' = Cur(f) /\ Walks(f)' = Walks(f)
  BY <1>1 DEF Cur, Walks, L!ReadsLibrary, L!Enabled, L!Covered
<1>14. \A f \in Track : Reading(f)' <=> f \in todo BY <1>8 DEF Reading
<1>15. CurrentInv' BY <1>4, <1>5, <1>7, <1>8, <1>13, <1>14 DEF CurrentInv
<1> QED BY <1>1, <1>9, <1>10, <1>12, <1>15 DEF SharesInv, FilesOK

LEMMA ScanSteps ==
  ASSUME SharesInv,
         (\E f \in Track : L!WalkFile(f)) \/ L!Probe \/ L!Publish \/ L!ScanAsked \/ L!Scan
  PROVE  SharesInv'
<1>1. CASE L!ScanAsked
  <2>1. asked > 0 /\ asked' = asked - 1 /\ L!Begins(TRUE, {}) /\ UNCHANGED <<watcher, changed>>
    BY <1>1 DEF L!ScanAsked, L!watchVars
  <2>2. asked' \in Nat BY <2>1 DEF SharesInv, ScanOK
  <2>3. WatcherOK' BY <2>1 DEF SharesInv, WatcherOK
  <2>4. TRUE \in BOOLEAN OBVIOUS
  <2> QED BY <2>1, <2>2, <2>3, <2>4, ScanBegins
<1>2. CASE L!Scan
  <2>1. /\ L!Begins(watcher.full, watcher.folders) /\ watcher.step = "scan"
        /\ watcher' = [watcher EXCEPT !.step = "look", !.full = FALSE, !.folders = {}]
        /\ UNCHANGED <<asked, changed>>
    BY <1>2 DEF L!Scan
  <2>2. WatcherOK' /\ asked' \in Nat BY <2>1 DEF SharesInv, WatcherOK, ScanOK
  <2>3. watcher.full \in BOOLEAN /\ ~watcher.first BY <2>1 DEF SharesInv, WatcherOK
  <2>4. \A f \in Track : ~watcher.full /\ FolderOf[f] \notin watcher.folders => (Awaited(f) => Awaited(f)')
    BY <2>1, <2>3 DEF Awaited, L!Begins
  <2> QED BY <2>1, <2>2, <2>3, <2>4, ScanBegins
<1>3. ASSUME UNCHANGED <<disk, rows, roots, asked, watcher, changed, unseen, leaked>>, ScanOK', CachesInv',
             RootsInv', CurrentInv'
      PROVE  SharesInv'
  BY <1>3 DEF SharesInv, FilesOK, WatcherOK
<1>4. ASSUME UNCHANGED <<disk, rows, roots, asked, watcher, changed, unseen>>
      PROVE  /\ L!Enabled' = L!Enabled
             /\ \A f \in Track : Cur(f)' = Cur(f) /\ Walks(f)' = Walks(f) /\ Awaited(f)' = Awaited(f)
  BY <1>4 DEF Cur, Walks, Awaited, L!ReadsLibrary, L!Enabled, L!Covered
<1>5. ASSUME NEW f \in Track, L!WalkFile(f) PROVE SharesInv'
  <2>1. /\ scan.step = "walk" /\ f \in scan.todo
        /\ scan' = IF disk[f] = 0 THEN [scan EXCEPT !.todo = @ \ {f}]
                   ELSE IF scan.cache[f].at = disk[f]
                   THEN [scan EXCEPT !.todo = @ \ {f}, !.next[f] = scan.cache[f]]
                   ELSE [scan EXCEPT !.todo = @ \ {f}, !.step = "probe", !.file = f, !.key = disk[f]]
        /\ UNCHANGED <<disk, rows, roots, index, cache, asked, watcher, changed, unseen, leaked>>
    BY <1>5 DEF L!WalkFile, L!fileVars, L!watchVars, L!answerVars
  <2>2. /\ L!Enabled' = L!Enabled
        /\ \A g \in Track : Cur(g)' = Cur(g) /\ Walks(g)' = Walks(g) /\ Awaited(g)' = Awaited(g)
    BY <1>4, <2>1
  <2>3. /\ disk[f] \in Nat /\ scan.cache[f] \in Entry /\ scan.cache[f].at = scan.cache[f].probed
        /\ scan.next \in Entries /\ scan.todo \subseteq Track
    BY DEF SharesInv, FilesOK, ScanOK, CachesInv, Entries
  <2>4. Walks(f) => Cur(f) = [at |-> disk[f], probed |-> disk[f]]
    BY DEF Cur, Walks, L!ReadsLibrary
  <2>5. RootOf[f] \in L!Enabled BY <2>1 DEF SharesInv, RootsInv
  <2>6. ASSUME NEW entry \in Entry, scan'.next = [scan.next EXCEPT ![f] = entry],
               Walks(f) => entry = Cur(f), scan' \in [step : {"idle", "prune", "walk", "probe"},
                 todo : SUBSET Track, file : Track \cup {"none"}, key : Nat, next : Entries,
                 cache : Entries, ask : {0, 1}],
               scan'.step = "walk", scan'.cache = scan.cache, scan'.todo = scan.todo \ {f}
        PROVE  SharesInv'
    <3>1. ScanOK' BY <2>1, <2>6 DEF SharesInv, ScanOK
    <3>2. CachesInv' BY <2>1, <2>6 DEF SharesInv, CachesInv
    <3>3. scan'.next[f] = entry /\ \A g \in Track : g # f => scan'.next[g] = scan.next[g]
      BY <2>3, <2>6 DEF Entries
    <3>4. RootsInv' BY <2>1, <2>2, <2>5, <2>6, <3>3 DEF SharesInv, RootsInv
    <3>5. \A g \in Track : g # f => Reading(g)' = Reading(g) BY <2>1, <2>6 DEF Reading
    <3>6. Reading(f) /\ ~Reading(f)' BY <2>1, <2>6 DEF Reading
    <3>7. CurrentInv' BY <2>1, <2>2, <2>3, <2>6, <3>3, <3>5, <3>6 DEF SharesInv, CurrentInv
    <3> QED BY <1>3, <2>1, <3>1, <3>2, <3>4, <3>7
  <2>7. CASE disk[f] = 0
    <3>1. scan' = [scan EXCEPT !.todo = @ \ {f}] BY <2>1, <2>7
    <3>2. scan.next[f] = L!Nothing BY <2>1 DEF SharesInv, CurrentInv
    <3>3. L!Nothing \in Entry /\ (Walks(f) => L!Nothing = Cur(f))
      BY <2>4, <2>7 DEF L!Nothing, Entry
    <3>4. scan'.next = [scan.next EXCEPT ![f] = L!Nothing]
      BY <2>3, <3>1, <3>2 DEF SharesInv, ScanOK, Entries
    <3>5. /\ scan' \in [step : {"idle", "prune", "walk", "probe"}, todo : SUBSET Track,
               file : Track \cup {"none"}, key : Nat, next : Entries, cache : Entries, ask : {0, 1}]
          /\ scan'.step = "walk" /\ scan'.cache = scan.cache /\ scan'.todo = scan.todo \ {f}
      BY <2>1, <3>1 DEF SharesInv, ScanOK
    <3> QED BY <2>6, <3>3, <3>4, <3>5
  <2>8. CASE disk[f] # 0 /\ scan.cache[f].at = disk[f]
    <3> DEFINE next == [scan.next EXCEPT ![f] = scan.cache[f]]
    <3>1. scan' = [scan EXCEPT !.todo = @ \ {f}, !.next = next] BY <2>1, <2>8
    <3>2. next \in Entries BY <2>3 DEF Entries
    <3>3. Walks(f) => scan.cache[f] = Cur(f) BY <2>3, <2>4, <2>8 DEF Entry
    <3> HIDE DEF next
    <3>4. /\ scan' \in [step : {"idle", "prune", "walk", "probe"}, todo : SUBSET Track,
               file : Track \cup {"none"}, key : Nat, next : Entries, cache : Entries, ask : {0, 1}]
          /\ scan'.step = "walk" /\ scan'.cache = scan.cache /\ scan'.todo = scan.todo \ {f}
          /\ scan'.next = next
      <4>1. PICK td : td = scan.todo \ {f} OBVIOUS
      <4>2. td \in SUBSET Track BY <2>3, <4>1
      <4>3. scan \in [step : {"idle", "prune", "walk", "probe"}, todo : SUBSET Track,
              file : Track \cup {"none"}, key : Nat, next : Entries, cache : Entries, ask : {0, 1}]
        BY DEF SharesInv, ScanOK
      <4>4. scan' = [scan EXCEPT !.todo = td, !.next = next] BY <3>1, <4>1
      <4> QED BY <2>1, <3>2, <4>1, <4>2, <4>3, <4>4
    <3> QED BY <2>3, <2>6, <3>3, <3>4 DEF next
  <2>9. CASE disk[f] # 0 /\ scan.cache[f].at # disk[f]
    <3>1. scan' = [scan EXCEPT !.todo = @ \ {f}, !.step = "probe", !.file = f, !.key = disk[f]]
      BY <2>1, <2>9
    <3>2. /\ scan' \in [step : {"idle", "prune", "walk", "probe"}, todo : SUBSET Track,
               file : Track \cup {"none"}, key : Nat, next : Entries, cache : Entries, ask : {0, 1}]
          /\ scan'.step = "probe" /\ scan'.cache = scan.cache /\ scan'.todo = scan.todo \ {f}
          /\ scan'.file = f /\ scan'.key = disk[f] /\ scan'.next = scan.next
      <4>1. PICK n, td : n = disk[f] /\ td = scan.todo \ {f} OBVIOUS
      <4>2. n \in Nat /\ td \in SUBSET Track BY <2>3, <4>1
      <4>3. scan \in [step : {"idle", "prune", "walk", "probe"}, todo : SUBSET Track,
              file : Track \cup {"none"}, key : Nat, next : Entries, cache : Entries, ask : {0, 1}]
        BY DEF SharesInv, ScanOK
      <4>4. scan' = [scan EXCEPT !.todo = td, !.step = "probe", !.file = f, !.key = n] BY <3>1, <4>1
      <4> QED BY <4>1, <4>2, <4>3, <4>4
    <3>3. ScanOK' BY <2>1, <3>2 DEF SharesInv, ScanOK
    <3>4. CachesInv' BY <2>1, <3>2 DEF SharesInv, CachesInv
    <3>5. RootsInv' BY <2>1, <2>2, <2>5, <3>2 DEF SharesInv, RootsInv
    <3>6. \A g \in Track : Reading(g)' = Reading(g) BY <2>1, <3>2 DEF Reading
    <3>7. CurrentInv' BY <2>1, <2>2, <3>2, <3>6 DEF SharesInv, CurrentInv
    <3> QED BY <1>3, <2>1, <3>3, <3>4, <3>5, <3>7
  <2> QED BY <2>7, <2>8, <2>9
<1>6. CASE L!Probe
  <2>0. PICK f \in Track : f = scan.file BY <1>6 DEF L!Probe, SharesInv, ScanOK
  <2> DEFINE entry == [at |-> scan.key, probed |-> disk[f]]
             next == [scan.next EXCEPT ![f] = entry]
             kept(e) == [scan.cache EXCEPT ![f] = e]
  <2>1. PICK e \in {scan.cache[f]} \cup (IF disk[f] = scan.key THEN {entry} ELSE {}) :
          scan' = [scan EXCEPT !.step = "walk", !.next[f] = entry, !.cache[f] = e]
    <3>1. scan' \in {[scan EXCEPT !.step = "walk", !.next[f] = entry, !.cache[f] = e] :
                     e \in {scan.cache[f]} \cup (IF disk[f] = scan.key THEN {entry} ELSE {})}
      BY <1>6, <2>0 DEF L!Probe
    <3> QED BY <3>1
  <2>2. /\ scan.step = "probe"
        /\ UNCHANGED <<disk, rows, roots, index, cache, asked, watcher, changed, unseen, leaked>>
    BY <1>6 DEF L!Probe, L!fileVars, L!watchVars, L!answerVars
  <2>3. /\ L!Enabled' = L!Enabled
        /\ \A g \in Track : Cur(g)' = Cur(g) /\ Walks(g)' = Walks(g) /\ Awaited(g)' = Awaited(g)
    BY <1>4, <2>2
  <2>4. /\ f \in Track /\ f \notin scan.todo /\ disk[f] \in Nat /\ scan.key \in Nat
        /\ scan.next \in Entries /\ scan.cache \in Entries /\ scan.todo \subseteq Track
        /\ RootOf[f] \in L!Enabled
    BY <2>2, <2>0 DEF SharesInv, FilesOK, ScanOK, RootsInv
  <2>5. entry \in Entry BY <2>4 DEF Entry
  <2>6. e \in Entry /\ e.at = e.probed
    <3>1. CASE e = scan.cache[f] BY <2>4, <3>1 DEF SharesInv, CachesInv, Entries
    <3>2. CASE disk[f] = scan.key /\ e = entry BY <2>5, <3>2
    <3> QED BY <2>1, <3>1, <3>2
  <2>7. /\ next \in Entries /\ next[f] = entry /\ \A g \in Track : g # f => next[g] = scan.next[g]
    BY <2>4, <2>5 DEF Entries
  <2>8. kept(e) \in Entries /\ \A g \in Track : kept(e)[g].at = kept(e)[g].probed
    BY <2>4, <2>6 DEF Entries, SharesInv, CachesInv
  <2>9. Walks(f) => entry = Cur(f) \/ Awaited(f)
    BY <2>2, <2>4, <2>0 DEF SharesInv, CurrentInv, Cur, Walks, L!ReadsLibrary
  <2> DEFINE c == kept(e)
  <2>10. c \in Entries /\ \A g \in Track : c[g].at = c[g].probed BY <2>8
  <2>11. scan' = [scan EXCEPT !.step = "walk", !.next = next, !.cache = c]
    BY <2>1 DEF SharesInv, ScanOK
  <2> HIDE DEF entry, next, kept, c
  <2>12. /\ scan' \in [step : {"idle", "prune", "walk", "probe"}, todo : SUBSET Track,
              file : Track \cup {"none"}, key : Nat, next : Entries, cache : Entries, ask : {0, 1}]
         /\ scan'.step = "walk" /\ scan'.cache = c /\ scan'.todo = scan.todo /\ scan'.next = next
    BY <2>7, <2>10, <2>11 DEF SharesInv, ScanOK
  <2>13. ScanOK' BY <2>2, <2>12 DEF SharesInv, ScanOK
  <2>14. CachesInv' BY <2>2, <2>10, <2>12 DEF SharesInv, CachesInv
  <2>15. RootsInv' BY <2>2, <2>3, <2>4, <2>7, <2>12 DEF SharesInv, RootsInv
  <2>16. \A g \in Track : g # f => Reading(g)' = Reading(g) BY <2>2, <2>12, <2>0 DEF Reading
  <2>17. Reading(f) /\ ~Reading(f)' BY <2>2, <2>4, <2>12, <2>0 DEF Reading
  <2>18. CurrentInv' BY <2>2, <2>3, <2>4, <2>7, <2>9, <2>12, <2>16, <2>17 DEF SharesInv, CurrentInv
  <2> QED BY <1>3, <2>2, <2>13, <2>14, <2>15, <2>18
<1>7. CASE L!Publish
  <2>1. /\ scan.step = "walk" /\ scan.todo = {} /\ index' = scan.next /\ scan' = L!Idle
        /\ cache' \in {cache, [f \in Track |-> IF scan.next[f] = L!Nothing THEN L!Nothing ELSE scan.cache[f]]}
        /\ UNCHANGED <<disk, rows, roots, asked, watcher, changed, unseen, leaked>>
    BY <1>7 DEF L!Publish, L!fileVars, L!watchVars, L!answerVars
  <2>2. /\ L!Enabled' = L!Enabled
        /\ \A g \in Track : Cur(g)' = Cur(g) /\ Walks(g)' = Walks(g) /\ Awaited(g)' = Awaited(g)
    BY <1>4, <2>1
  <2>3. L!Nothing \in Entry /\ L!Nothing.at = L!Nothing.probed /\ L!NoIndex \in Entries
    BY DEF L!Nothing, Entry, Entries, L!NoIndex
  <2>4. cache' \in Entries /\ \A f \in Track : cache'[f].at = cache'[f].probed
    BY <2>1, <2>3 DEF SharesInv, ScanOK, CachesInv, Entries
  <2>5. /\ scan' \in [step : {"idle", "prune", "walk", "probe"}, todo : SUBSET Track,
             file : Track \cup {"none"}, key : Nat, next : Entries, cache : Entries, ask : {0, 1}]
        /\ scan'.step = "idle" /\ scan'.cache = L!NoIndex
    BY <2>1, <2>3 DEF L!Idle
  <2>6. ScanOK' BY <2>1, <2>4, <2>5 DEF SharesInv, ScanOK
  <2>7. CachesInv' BY <2>4, <2>5 DEF CachesInv, L!NoIndex, L!Nothing
  <2>8. RootsInv' BY <2>1, <2>2, <2>5 DEF SharesInv, RootsInv
  <2>9. CurrentInv' BY <2>1, <2>2, <2>5 DEF SharesInv, CurrentInv, Reading
  <2> QED BY <1>3, <2>1, <2>6, <2>7, <2>8, <2>9
<1> QED BY <1>1, <1>2, <1>5, <1>6, <1>7

LEMMA SharesInitInv == L!SharesInit => SharesInv
<1> SUFFICES ASSUME L!SharesInit PROVE SharesInv OBVIOUS
<1> USE DEF L!SharesInit
<1>1. FilesOK BY DEF FilesOK
<1>2. L!NoIndex \in Entries BY DEF L!NoIndex, L!Nothing, Entries, Entry
<1>3. ScanOK BY <1>2 DEF ScanOK, L!Idle
<1>4. WatcherOK BY DEF WatcherOK, L!NoChanges
<1>5. CachesInv BY DEF CachesInv, L!Idle, L!NoIndex, L!Nothing
<1>6. RootsInv BY DEF RootsInv, L!Idle, L!NoIndex, L!Nothing
<1>7. CurrentInv BY DEF CurrentInv, L!Idle, Awaited
<1> QED BY <1>1, <1>3, <1>4, <1>5, <1>6, <1>7 DEF SharesInv

LEMMA AlwaysShares ==
  ASSUME MaxVersion \in Nat
  PROVE  StoresSpec => []SharesInv
<1>1. StoresInit => SharesInv BY SharesInitInv DEF StoresInit
<1>2. [StoresNext]_allVars => [L!SharesNext]_sharesVars
  BY DEF StoresNext, JsonNext, MessagesNext, RoomsNext, PeopleNext, RadarNext, FilingNext, SharesNext,
         allVars, libraryVars
<1>3. SharesInv /\ [L!SharesNext]_sharesVars => SharesInv'
  BY FileSteps, RootSteps, ScanSteps, WatcherSteps, AnswerSteps DEF L!SharesNext
<1> QED BY <1>1, <1>2, <1>3, PTL DEF StoresSpec

(* Nobody is answered with a file that is not shared at that moment, no    *)
(* scan brings a disabled folder back, the cache never pairs a file with   *)
(* another version's header, and the index is current whenever the watcher *)
(* has nothing left to do; for any roots, files and directories, however   *)
(* files and roots change while scans run (local_shares.rs, watcher.rs).   *)
THEOREM SharesStaySound ==
  ASSUME MaxVersion \in Nat
  PROVE  StoresSpec => []SharesAreSound
<1>1. SharesInv => L!AnswersAreShared /\ L!CacheIsTrue
  BY DEF SharesInv, CachesInv, L!AnswersAreShared, L!CacheIsTrue
<1>2. SharesInv => L!IndexFollowsRoots BY DEF SharesInv, RootsInv, L!IndexFollowsRoots
<1>3. SharesInv => L!IndexIsCurrent
  <2> SUFFICES ASSUME SharesInv, L!Quiet, NEW f \in Track PROVE index[f] = Cur(f)
    BY DEF L!IndexIsCurrent, Cur
  <2>1. ~Awaited(f)
    BY DEF SharesInv, WatcherOK, ScanOK, L!Quiet, L!NoChanges, Awaited
  <2> QED BY <2>1 DEF SharesInv, CurrentInv, L!Quiet, L!Idle
<1>4. SharesInv => SharesAreSound BY <1>1, <1>2, <1>3 DEF SharesAreSound
<1> QED BY <1>4, AlwaysShares, PTL

-----------------------------------------------------------------------------
(* The people.                                                             *)

Setting == [at : {"idle", "list", "profile", "save", "tell"}, list : P!Lists,
            who : Person, value : BOOLEAN]

(* The limit holds of the lists in memory and of those in the file.        *)
Bounded(ls) ==
  /\ ls \in [P!Lists -> SUBSET Person]
  /\ \A l \in P!Lists : IsFiniteSet(ls[l]) /\ Cardinality(ls[l]) <= MaxFavorites

PeopleOK ==
  /\ Bounded(lists) /\ Bounded(peopleFile[1])
  /\ peopleFile = <<peopleFile[1], peopleFile[2]>>
  /\ profiles \in [Person -> (SUBSET P!Lists) \cup {P!NoProfile}]
  /\ watches \in Seq(Person \X BOOLEAN) /\ watching = watched
  /\ notSaved \in Nat /\ raced \in BOOLEAN
  /\ peopleSession \in {"off", "setup", "shown", "up"}
  /\ setter \in [Setters -> Setting]
  /\ \A t \in Setters : setter[t].at = "tell" => setter[t].list = "favorite"

(* Unless two threads have met at one user, each has its user to itself    *)
(* and leaves the list as it has changed it until it is done.              *)
Changes(t) == setter[t].at \in {"profile", "save", "tell"}
AloneInv ==
  ~raced =>
    /\ \A t, u \in Setters :
         t # u /\ setter[t].at # "idle" /\ setter[u].at # "idle" => setter[t].who # setter[u].who
    /\ \A t \in Setters :
         Changes(t) => (setter[t].value <=> setter[t].who \in lists[setter[t].list])

(* A flag may differ from the list only while a thread is about to set it. *)
FlagsInv ==
  ~raced => \A p \in P!Shown, l \in P!Lists :
    \/ l \in profiles[p] <=> p \in lists[l]
    \/ \E t \in Setters : setter[t].at = "profile" /\ setter[t].who = p /\ setter[t].list = l

FileInv ==
  notSaved = 0 => \/ peopleFile = <<lists, recent>>
                  \/ \E t \in Setters : setter[t].at \in {"profile", "save"}

(* The server watches a user or will be told to, and whatever in the       *)
(* channel tells it to stop is followed by something that tells it to      *)
(* begin again.                                                            *)
Told(p) ==
  /\ p \in watching \/ \E i \in DOMAIN watches : watches[i] = <<p, TRUE>>
  /\ \A i \in DOMAIN watches :
       watches[i] = <<p, FALSE>> => \E j \in DOMAIN watches : j > i /\ watches[j] = <<p, TRUE>>

Telling(p) ==
  \E t \in Setters : Changes(t) /\ setter[t].list = "favorite" /\ setter[t].who = p

WatchInv ==
  peopleSession = "up" /\ ~raced /\ notSaved = 0 =>
    \A p \in lists["favorite"] : Told(p) \/ Telling(p)

PeopleInv == PeopleOK /\ AloneInv /\ FlagsInv /\ FileInv /\ WatchInv

LEMMA PeopleCardinality == \A S : P!Cardinality(S) = Cardinality(S)
BY DEF P!Cardinality, Cardinality

(* A finite set has a sequence of its elements (SequencesExt).             *)
LEMMA SeqOfSet ==
  ASSUME NEW S, IsFiniteSet(S)
  PROVE  /\ P!SetToSeq(S) \in Seq(S)
         /\ \A x \in S : \E i \in DOMAIN P!SetToSeq(S) : P!SetToSeq(S)[i] = x
<1> DEFINE n == Cardinality(S)
<1>1. n \in Nat /\ ExistsBijection(1 .. n, S) BY FS_CardinalityType
<1>2. PICK g \in [1 .. n -> S] : P!IsInjective(g)
  BY <1>1 DEF ExistsBijection, Bijection, Injection, IsInjective, P!IsInjective
<1>3. P!SetToSeq(S) \in [1 .. n -> S] /\ P!IsInjective(P!SetToSeq(S))
  BY <1>2, PeopleCardinality DEF P!SetToSeq
<1> DEFINE s == P!SetToSeq(S)
<1>4. s \in Injection(1 .. n, S) BY <1>3 DEF Injection, IsInjective, P!IsInjective
<1>5. Cardinality(1 .. n) = n BY <1>1, FS_Interval
<1>6. s \in Surjection(1 .. n, S)
  <2> HIDE DEF s
  <2> QED BY <1>4, <1>5, FS_Injection
<1>7. \A x \in S : \E i \in 1 .. n : s[i] = x BY <1>6 DEF Surjection
<1>8. s \in Seq(S) BY <1>1, <1>3
<1> QED BY <1>3, <1>7, <1>8

(* A profile that comes into being has the flags of the lists.             *)
LEMMA WithFlags ==
  ASSUME PeopleOK, NEW p, profiles' = P!With(p)
  PROVE  /\ profiles' \in [Person -> (SUBSET P!Lists) \cup {P!NoProfile}]
         /\ \A q \in Person : profiles'[q] \in {profiles[q], P!FlagsOf(q)}
BY DEF PeopleOK, P!With, P!FlagsOf

LEMMA ShownFlags ==
  ASSUME PeopleOK, FlagsInv,
         profiles' \in [Person -> (SUBSET P!Lists) \cup {P!NoProfile}],
         \A q \in Person : profiles'[q] \in {profiles[q], P!FlagsOf(q)},
         raced' \/ ~raced, lists' = lists,
         \A t \in Setters : setter[t].at = "profile" => setter'[t] = setter[t]
  PROVE  FlagsInv'
<1> SUFFICES ASSUME ~raced', NEW p \in P!Shown', NEW l \in P!Lists
             PROVE  \/ l \in profiles'[p] <=> p \in lists'[l]
                    \/ \E t \in Setters : /\ setter'[t].at = "profile" /\ setter'[t].who = p
                                          /\ setter'[t].list = l
  BY DEF FlagsInv
<1>1. p \in Person BY DEF P!Shown
<1>2. CASE profiles'[p] = P!FlagsOf(p) BY <1>2 DEF P!FlagsOf
<1>3. CASE profiles'[p] = profiles[p]
  <2>1. p \in P!Shown BY <1>1, <1>3 DEF P!Shown
  <2> QED BY <1>3, <2>1 DEF FlagsInv
<1> QED BY <1>1, <1>2, <1>3

LEMMA ObservedSteps ==
  ASSUME PeopleInv, (\E p \in Person : P!Observed(p) \/ P!Remember(p)) \/ P!EnsureSaved
  PROVE  PeopleInv'
<1>1. /\ \E p : profiles' = P!With(p)
      /\ UNCHANGED <<lists, setter, raced, watched, peopleSession, watches, watching>>
      /\ \/ UNCHANGED <<recent, peopleFile, notSaved>>
         \/ peopleFile' = <<lists, recent'>> /\ UNCHANGED notSaved
         \/ notSaved' = notSaved + 1 /\ UNCHANGED peopleFile
  BY DEF P!Observed, P!Remember, P!EnsureSaved, P!sessionVars
<1>2. /\ profiles' \in [Person -> (SUBSET P!Lists) \cup {P!NoProfile}]
      /\ \A q \in Person : profiles'[q] \in {profiles[q], P!FlagsOf(q)}
  BY <1>1, WithFlags DEF PeopleInv
<1>3. PeopleOK'
  <2>1. Bounded(lists)' /\ Bounded(peopleFile[1])' BY <1>1 DEF PeopleInv, PeopleOK, Bounded
  <2>2. notSaved' \in Nat BY <1>1 DEF PeopleInv, PeopleOK
  <2> QED BY <1>1, <1>2, <2>1, <2>2 DEF PeopleInv, PeopleOK
<1>4. FlagsInv' BY <1>1, <1>2, ShownFlags DEF PeopleInv
<1>5. AloneInv' BY <1>1 DEF PeopleInv, AloneInv, Changes
<1>6. FileInv' BY <1>1 DEF PeopleInv, PeopleOK, FileInv
<1>7. WatchInv'
  <2>1. \A p : Told(p)' = Told(p) /\ Telling(p)' = Telling(p) BY <1>1 DEF Told, Telling, Changes
  <2>2. notSaved' = 0 => notSaved = 0 BY <1>1 DEF PeopleInv, PeopleOK
  <2> QED BY <1>1, <2>1, <2>2 DEF PeopleInv, WatchInv
<1> QED BY <1>3, <1>4, <1>5, <1>6, <1>7 DEF PeopleInv

LEMMA PeopleRestarts == ASSUME PeopleInv, P!PeopleRestart PROVE PeopleInv'
<1>1. /\ peopleSession = "off" /\ \A t \in Setters : setter[t].at = "idle"
      /\ lists' = peopleFile[1] /\ recent' = peopleFile[2] /\ notSaved' = 0
      /\ profiles' = [p \in Person |-> P!NoProfile]
      /\ UNCHANGED <<peopleFile, watched, peopleSession, watches, watching, setter, raced>>
  BY DEF P!PeopleRestart, P!sessionVars, P!At
<1>2. PeopleOK' BY <1>1 DEF PeopleInv, PeopleOK, Bounded
<1>3. FlagsInv' BY <1>1 DEF FlagsInv, P!Shown
<1>4. AloneInv' BY <1>1 DEF AloneInv, Changes, PeopleInv
<1>5. FileInv'
  <2>1. peopleFile = <<peopleFile[1], peopleFile[2]>> BY DEF PeopleInv, PeopleOK
  <2> QED BY <1>1, <2>1 DEF FileInv
<1>6. WatchInv' BY <1>1 DEF WatchInv
<1> QED BY <1>2, <1>3, <1>4, <1>5, <1>6 DEF PeopleInv

LEMMA PairOf ==
  ASSUME NEW S, NEW b, NEW x \in S \X {b}
  PROVE  x[1] \in S /\ x = <<x[1], b>>
OBVIOUS

LEMMA FinitePairs ==
  ASSUME NEW S, NEW b, IsFiniteSet(S)
  PROVE  IsFiniteSet(S \X {b})
<1> DEFINE all == S \X {b}
           pair == [p \in S |-> <<p, b>>]
<1>1. pair \in [S -> all] OBVIOUS
<1>2. ASSUME NEW x \in all PROVE \E p \in S : pair[p] = x
  <2>1. x[1] \in S /\ x = <<x[1], b>> BY PairOf
  <2>2. pair[x[1]] = x BY <2>1
  <2> QED BY <2>1, <2>2
<1> HIDE DEF pair, all
<1>3. pair \in Surjection(S, all) BY <1>1, <1>2 DEF Surjection
<1>4. IsFiniteSet(all) BY <1>3, FS_Surjection
<1> QED BY <1>4 DEF all

LEMMA Concatenated ==
  ASSUME NEW X, NEW s \in Seq(X), NEW t \in Seq(X)
  PROVE  /\ s \o t \in Seq(X) /\ Len(s) \in Nat
         /\ \A k \in DOMAIN t : /\ k \in Nat \ {0} /\ Len(s) + k \in DOMAIN (s \o t)
                                /\ (s \o t)[Len(s) + k] = t[k]
         /\ \A i \in DOMAIN (s \o t) : /\ i \in Nat
                                       /\ (i <= Len(s) \/ \E k \in DOMAIN t : (s \o t)[i] = t[k])
<1>1. s \o t \in Seq(X) /\ Len(s) \in Nat /\ Len(t) \in Nat /\ Len(s \o t) = Len(s) + Len(t) OBVIOUS
<1>2. /\ DOMAIN t = 1 .. Len(t) /\ DOMAIN (s \o t) = 1 .. Len(s) + Len(t)
      /\ \A i \in 1 .. Len(s) + Len(t) : (s \o t)[i] = IF i <= Len(s) THEN s[i] ELSE t[i - Len(s)]
  BY <1>1
<1>3. ASSUME NEW k \in 1 .. Len(t)
      PROVE  /\ k \in Nat \ {0} /\ Len(s) + k \in 1 .. Len(s) + Len(t)
             /\ ~(Len(s) + k <= Len(s)) /\ (Len(s) + k) - Len(s) = k
  BY <1>1
<1>4. ASSUME NEW i \in 1 .. Len(s) + Len(t)
      PROVE  i \in Nat /\ (i <= Len(s) \/ i - Len(s) \in 1 .. Len(t))
  BY <1>1
<1> QED BY <1>1, <1>2, <1>3, <1>4

LEMMA TailOf ==
  ASSUME NEW X, NEW s \in Seq(X), s # <<>>
  PROVE  /\ Tail(s) \in Seq(X) /\ 1 \in DOMAIN s /\ Head(s) = s[1] /\ s[1] \in X
         /\ \A i \in DOMAIN Tail(s) : i \in Nat \ {0} /\ i + 1 \in DOMAIN s /\ Tail(s)[i] = s[i + 1]
         /\ \A j \in DOMAIN s : \/ j = 1
                                \/ j \in Nat /\ j > 1 /\ j - 1 \in DOMAIN Tail(s) /\ Tail(s)[j - 1] = s[j]
<1>1. /\ Len(s) \in Nat /\ Len(s) > 0 /\ Tail(s) \in Seq(X) /\ Len(Tail(s)) = Len(s) - 1
      /\ Head(s) = s[1]
  OBVIOUS
<1>2. /\ DOMAIN s = 1 .. Len(s) /\ DOMAIN Tail(s) = 1 .. Len(s) - 1
      /\ \A i \in 1 .. Len(s) - 1 : Tail(s)[i] = s[i + 1]
  BY <1>1
<1>3. \A i \in 1 .. Len(s) - 1 : i \in Nat \ {0} /\ i + 1 \in 1 .. Len(s) BY <1>1
<1>4. ASSUME NEW j \in 1 .. Len(s), j # 1
      PROVE  j \in Nat /\ j > 1 /\ j - 1 \in 1 .. Len(s) - 1 /\ (j - 1) + 1 = j
  BY <1>1, <1>4
<1>5. 1 \in 1 .. Len(s) /\ s[1] \in X BY <1>1, <1>2
<1>6. ASSUME NEW i \in DOMAIN Tail(s)
      PROVE  i \in Nat \ {0} /\ i + 1 \in DOMAIN s /\ Tail(s)[i] = s[i + 1]
  <2>1. i \in 1 .. Len(s) - 1 BY <1>2
  <2> QED BY <1>2, <1>3, <2>1
<1>7. ASSUME NEW j \in DOMAIN s, j # 1
      PROVE  j \in Nat /\ j > 1 /\ j - 1 \in DOMAIN Tail(s) /\ Tail(s)[j - 1] = s[j]
  <2>1. j \in 1 .. Len(s) BY <1>2
  <2>2. j \in Nat /\ j > 1 /\ j - 1 \in 1 .. Len(s) - 1 /\ (j - 1) + 1 = j BY <1>4, <1>7, <2>1
  <2>3. j - 1 \in DOMAIN Tail(s) BY <1>2, <2>2
  <2>4. Tail(s)[j - 1] = s[(j - 1) + 1] BY <1>2, <2>2
  <2> QED BY <2>2, <2>3, <2>4
<1>8. 1 \in DOMAIN s BY <1>2, <1>5
<1> QED BY <1>1, <1>5, <1>6, <1>7, <1>8

LEMMA SessionSteps ==
  ASSUME PeopleInv,
         \/ \E p \in Person : P!HandleProfileRequest(p)
         \/ P!SessionSetup \/ P!SessionShown \/ P!PeopleConnected \/ P!PeopleLost \/ P!HandleWatch
         \/ UNCHANGED peopleVars
  PROVE  PeopleInv'
<1>1. UNCHANGED <<lists, recent, peopleFile, profiles, setter, notSaved, raced>>
  BY DEF P!HandleProfileRequest, P!SessionSetup, P!SessionShown, P!PeopleConnected, P!PeopleLost,
         P!HandleWatch, peopleVars
<1>2. AloneInv' /\ FlagsInv' /\ FileInv' /\ \A p : Telling(p)' = Telling(p)
  BY <1>1 DEF PeopleInv, AloneInv, FlagsInv, FileInv, Telling, Changes, P!Shown
<1>3. ASSUME watches' \in Seq(Person \X BOOLEAN), watching' = watched',
             peopleSession' \in {"off", "setup", "shown", "up"}, WatchInv'
      PROVE  PeopleInv'
  BY <1>1, <1>2, <1>3 DEF PeopleInv, PeopleOK, Bounded
<1>4. CASE P!SessionSetup \/ P!SessionShown \/ P!PeopleLost \/ UNCHANGED peopleVars
  <2>1. /\ peopleSession' \in {"setup", "shown", "off"} \/ UNCHANGED <<watches, watching, watched, peopleSession>>
        /\ \/ UNCHANGED <<watches, watching, watched>>
           \/ watches' = <<>> /\ watching' = {} /\ watched' = {}
    <3>1. CASE P!SessionSetup BY <3>1 DEF P!SessionSetup
    <3>2. CASE P!SessionShown BY <3>2 DEF P!SessionShown
    <3>3. CASE P!PeopleLost BY <3>3 DEF P!PeopleLost
    <3>4. CASE UNCHANGED peopleVars BY <3>4 DEF peopleVars
    <3> QED BY <1>4, <3>1, <3>2, <3>3, <3>4
  <2>2. WatchInv'
    <3>1. CASE peopleSession' # "up" BY <3>1 DEF WatchInv
    <3>2. CASE UNCHANGED <<watches, watching, watched, peopleSession>>
      BY <1>1, <1>2, <3>2 DEF PeopleInv, WatchInv, Told
    <3> QED BY <2>1, <3>1, <3>2
  <2>3. /\ watches' \in Seq(Person \X BOOLEAN) /\ watching' = watched'
        /\ peopleSession' \in {"off", "setup", "shown", "up"}
    <3>1. CASE UNCHANGED <<watches, watching, watched>> BY <2>1, <3>1 DEF PeopleInv, PeopleOK
    <3>2. CASE watches' = <<>> /\ watching' = {} /\ watched' = {}
      <4>1. <<>> \in Seq(Person \X BOOLEAN) OBVIOUS
      <4> QED BY <2>1, <3>2, <4>1 DEF PeopleInv, PeopleOK
    <3> QED BY <2>1, <3>1, <3>2
  <2> QED BY <1>3, <2>2, <2>3
<1>5. ASSUME NEW p \in Person, P!HandleProfileRequest(p) PROVE PeopleInv'
  <2>1. /\ UNCHANGED <<watches, peopleSession>> /\ watching' = watched' /\ watching \subseteq watching'
    BY <1>5 DEF P!HandleProfileRequest, P!Watch, PeopleInv, PeopleOK
  <2>2. WatchInv' BY <1>1, <1>2, <2>1 DEF PeopleInv, WatchInv, Told
  <2> QED BY <1>3, <2>1, <2>2 DEF PeopleInv, PeopleOK
<1>6. CASE P!PeopleConnected
  <2> DEFINE all == lists["favorite"] \X {TRUE}
             more == P!SetToSeq(all)
  <2>1. /\ UNCHANGED <<watched, watching>> /\ peopleSession' = "up" /\ watches' = watches \o more
    BY <1>6 DEF P!PeopleConnected
  <2>2. lists["favorite"] \subseteq Person /\ IsFiniteSet(lists["favorite"])
    BY DEF PeopleInv, PeopleOK, Bounded, P!Lists
  <2>3. IsFiniteSet(all)
    BY <2>2, FinitePairs
  <2>4. more \in Seq(all) /\ \A x \in all : \E i \in DOMAIN more : more[i] = x
    <3> HIDE DEF all
    <3> QED BY <2>3, SeqOfSet
  <2>5. \A i \in DOMAIN more : more[i] \in all
    <3> HIDE DEF all, more
    <3> QED BY <2>4
  <2>6. \A i \in DOMAIN more : more[i] \in Person \X BOOLEAN /\ more[i][2] = TRUE
    BY <2>2, <2>5
  <2>7. \A p \in lists["favorite"] : \E i \in DOMAIN more : more[i] = <<p, TRUE>>
    BY <2>4
  <2>8. more \in Seq(Person \X BOOLEAN)
    <3> HIDE DEF more, all
    <3> QED BY <2>4, <2>6
  <2> HIDE DEF all, more
  <2>9. watches \in Seq(Person \X BOOLEAN) BY DEF PeopleInv, PeopleOK
  <2>10. /\ watches' \in Seq(Person \X BOOLEAN) /\ Len(watches) \in Nat
         /\ \A k \in DOMAIN more : /\ k \in Nat \ {0} /\ Len(watches) + k \in DOMAIN watches'
                                   /\ watches'[Len(watches) + k] = more[k]
         /\ \A i \in DOMAIN watches' :
              i \in Nat /\ (i <= Len(watches) \/ \E k \in DOMAIN more : watches'[i] = more[k])
    BY <2>1, <2>8, <2>9, Concatenated
  <2>11. \A p \in lists["favorite"] : Told(p)'
    <3> TAKE p \in lists["favorite"]
    <3>1. PICK k \in DOMAIN more : more[k] = <<p, TRUE>> BY <2>7
    <3>2. Len(watches) + k \in DOMAIN watches' /\ watches'[Len(watches) + k] = <<p, TRUE>>
      BY <2>10, <3>1
    <3>3. k \in Nat \ {0} /\ Len(watches) \in Nat BY <2>10, <3>1
    <3>4. ASSUME NEW i \in DOMAIN watches', watches'[i] = <<p, FALSE>> PROVE Len(watches) + k > i
      <4>1. i \in Nat /\ (i <= Len(watches) \/ \E m \in DOMAIN more : watches'[i] = more[m]) BY <2>10
      <4>2. \A m \in DOMAIN more : watches'[i] # more[m]
        <5>1. <<p, FALSE>>[2] = FALSE OBVIOUS
        <5> QED BY <2>6, <3>4, <5>1
      <4> QED BY <3>3, <4>1, <4>2
    <3> QED BY <3>2, <3>4 DEF Told
  <2>12. WatchInv' BY <1>1, <2>11 DEF WatchInv
  <2> QED BY <1>3, <2>1, <2>10, <2>12 DEF PeopleInv, PeopleOK
<1>7. CASE P!HandleWatch
  <2> DEFINE told == Head(watches)
  <2>1. /\ watches # <<>> /\ watches' = Tail(watches) /\ UNCHANGED peopleSession
        /\ IF told[2] THEN P!Watch(told[1])
           ELSE watched' = watched \ {told[1]} /\ watching' = watching \ {told[1]}
    BY <1>7 DEF P!HandleWatch
  <2>2. watches \in Seq(Person \X BOOLEAN) BY DEF PeopleInv, PeopleOK
  <2>3. /\ watches' \in Seq(Person \X BOOLEAN) /\ 1 \in DOMAIN watches
        /\ told = watches[1] /\ told \in Person \X BOOLEAN
        /\ \A i \in DOMAIN watches' : i \in Nat \ {0} /\ i + 1 \in DOMAIN watches /\ watches'[i] = watches[i + 1]
        /\ \A j \in DOMAIN watches :
             \/ j = 1
             \/ j \in Nat /\ j > 1 /\ j - 1 \in DOMAIN watches' /\ watches'[j - 1] = watches[j]
    BY <2>1, <2>2, TailOf
  <2> HIDE DEF told
  <2>4. told = <<told[1], told[2]>> /\ told[2] \in BOOLEAN BY <2>3
  <2>5. /\ watching' = watched'
        /\ \A p : p \in watching => p \in watching' \/ told = <<p, FALSE>>
        /\ \A p : told = <<p, TRUE>> => p \in watching'
    <3>1. CASE told[2] = TRUE
      <4>1. watched' = watched \cup {told[1]} /\ watching' = watched'
        BY <2>1, <3>1 DEF P!Watch, PeopleInv, PeopleOK
      <4>2. \A p : told = <<p, TRUE>> => told[1] = p OBVIOUS
      <4>3. \A p : p \in watching => p \in watching' BY <4>1 DEF PeopleInv, PeopleOK
      <4> QED BY <4>1, <4>2, <4>3
    <3>2. CASE told[2] = FALSE
      <4>1. watched' = watched \ {told[1]} /\ watching' = watching \ {told[1]} BY <2>1, <3>2
      <4>2. \A p : told[1] = p => told = <<p, FALSE>> BY <2>4, <3>2
      <4>3. \A p : told # <<p, TRUE>>
        <5>1. \A p : <<p, TRUE>>[2] = TRUE OBVIOUS
        <5> QED BY <3>2, <5>1
      <4> QED BY <4>1, <4>2, <4>3 DEF PeopleInv, PeopleOK
    <3> QED BY <2>4, <3>1, <3>2
  <2>6. ASSUME NEW p, Told(p) PROVE Told(p)'
    <3>1. ASSUME NEW i \in DOMAIN watches', watches'[i] = <<p, FALSE>>
          PROVE  \E j \in DOMAIN watches' : j > i /\ watches'[j] = <<p, TRUE>>
      <4>1. i \in Nat \ {0} /\ i + 1 \in DOMAIN watches /\ watches[i + 1] = <<p, FALSE>> BY <2>3, <3>1
      <4>2. PICK j \in DOMAIN watches : j > i + 1 /\ watches[j] = <<p, TRUE>> BY <2>6, <4>1 DEF Told
      <4>3. j # 1 BY <4>1, <4>2
      <4>4. j \in Nat /\ j - 1 \in DOMAIN watches' /\ watches'[j - 1] = <<p, TRUE>> BY <2>3, <4>2, <4>3
      <4>5. j - 1 > i BY <4>1, <4>2, <4>4
      <4> QED BY <4>4, <4>5
    <3>2. p \in watching' \/ \E i \in DOMAIN watches' : watches'[i] = <<p, TRUE>>
      <4>1. CASE told = <<p, FALSE>>
        <5>1. PICK j \in DOMAIN watches : j > 1 /\ watches[j] = <<p, TRUE>> BY <2>3, <2>6, <4>1 DEF Told
        <5>2. j # 1 BY <5>1
        <5> QED BY <2>3, <5>1, <5>2
      <4>2. CASE told = <<p, TRUE>> BY <2>5, <4>2
      <4>3. CASE told # <<p, TRUE>> /\ told # <<p, FALSE>>
        <5>1. CASE p \in watching BY <2>5, <4>3, <5>1
        <5>2. CASE p \notin watching
          <6>1. PICK j \in DOMAIN watches : watches[j] = <<p, TRUE>> BY <2>6, <5>2 DEF Told
          <6>2. j # 1 BY <2>3, <4>3, <6>1
          <6> QED BY <2>3, <6>1, <6>2
        <5> QED BY <5>1, <5>2
      <4> QED BY <4>1, <4>2, <4>3
    <3> QED BY <3>1, <3>2 DEF Told
  <2>7. WatchInv' BY <1>1, <1>2, <2>1, <2>6 DEF PeopleInv, WatchInv
  <2> QED BY <1>3, <2>1, <2>3, <2>5, <2>7 DEF PeopleInv, PeopleOK
<1> QED BY <1>4, <1>5, <1>6, <1>7

LEMMA Appended ==
  ASSUME NEW X, NEW s \in Seq(X), NEW x \in X
  PROVE  /\ Append(s, x) \in Seq(X) /\ Len(s) \in Nat
         /\ Len(s) + 1 \in DOMAIN Append(s, x) /\ Append(s, x)[Len(s) + 1] = x
         /\ \A i \in DOMAIN s : i \in DOMAIN Append(s, x) /\ Append(s, x)[i] = s[i] /\ i < Len(s) + 1
         /\ \A i \in DOMAIN Append(s, x) : i \in DOMAIN s \/ i = Len(s) + 1
<1>1. /\ Append(s, x) \in Seq(X) /\ Len(s) \in Nat /\ Len(Append(s, x)) = Len(s) + 1
      /\ DOMAIN s = 1 .. Len(s) /\ DOMAIN Append(s, x) = 1 .. Len(s) + 1
      /\ \A i \in 1 .. Len(s) : Append(s, x)[i] = s[i]
      /\ Append(s, x)[Len(s) + 1] = x
  OBVIOUS
<1>2. /\ \A i \in 1 .. Len(s) : i \in 1 .. Len(s) + 1 /\ i < Len(s) + 1
      /\ \A i \in 1 .. Len(s) + 1 : i \in 1 .. Len(s) \/ i = Len(s) + 1
      /\ Len(s) + 1 \in 1 .. Len(s) + 1
  BY <1>1
<1> QED BY <1>1, <1>2

(* One thread goes on; the others are where they were.                     *)
LEMMA ThreadGoes ==
  ASSUME PeopleOK, NEW t \in Setters, NEW step \in {"idle", "list", "profile", "save", "tell"},
         P!Goes(t, step)
  PROVE  /\ setter' \in [Setters -> Setting]
         /\ \A u \in Setters : u # t => setter'[u] = setter[u]
         /\ setter'[t].at = step /\ setter'[t].list = setter[t].list
         /\ setter'[t].who = setter[t].who /\ setter'[t].value = setter[t].value
BY DEF PeopleOK, P!Goes, Setting

LEMMA Begins ==
  ASSUME PeopleInv, NEW t \in Setters, NEW l \in P!Lists, NEW p \in Person, NEW value \in BOOLEAN,
         P!BeginSet(t, l, p, value)
  PROVE  PeopleInv'
<1> DEFINE begun == [at |-> "list", list |-> l, who |-> p, value |-> value]
<1>1. /\ setter[t].at = "idle" /\ setter' = [setter EXCEPT ![t] = begun]
      /\ raced' = (raced \/ \E u \in Setters : setter[u].at # "idle" /\ setter[u].who = p)
      /\ profiles' = P!With(p)
      /\ UNCHANGED <<lists, recent, peopleFile, watched, peopleSession, watches, watching, notSaved>>
  BY DEF P!BeginSet, P!At, P!sessionVars
<1>2. begun \in Setting /\ begun.at = "list" /\ begun.who = p BY DEF Setting
<1> HIDE DEF begun
<1>3. /\ setter' \in [Setters -> Setting] /\ setter'[t] = begun
      /\ \A u \in Setters : u # t => setter'[u] = setter[u]
  BY <1>1, <1>2 DEF PeopleInv, PeopleOK
<1>4. /\ profiles' \in [Person -> (SUBSET P!Lists) \cup {P!NoProfile}]
      /\ \A q \in Person : profiles'[q] \in {profiles[q], P!FlagsOf(q)}
  BY <1>1, WithFlags DEF PeopleInv
<1>5. raced' \in BOOLEAN /\ (raced => raced') /\ (raced \in BOOLEAN)
  BY <1>1 DEF PeopleInv, PeopleOK
<1>6. PeopleOK'
  <2>1. Bounded(lists)' /\ Bounded(peopleFile[1])' BY <1>1 DEF PeopleInv, PeopleOK, Bounded
  <2> QED BY <1>1, <1>2, <1>3, <1>4, <1>5, <2>1 DEF PeopleInv, PeopleOK
<1>7. FlagsInv'
  <2>1. \A u \in Setters : setter[u].at = "profile" => setter'[u] = setter[u] BY <1>1, <1>3
  <2> QED BY <1>1, <1>4, <1>5, <2>1, ShownFlags DEF PeopleInv
<1>8. \A u \in Setters : Changes(u)' => u # t /\ Changes(u) BY <1>2, <1>3 DEF Changes
<1>9. AloneInv'
  <2> SUFFICES ASSUME ~raced' PROVE AloneInv' BY DEF AloneInv
  <2>1. ~raced /\ \A u \in Setters : setter[u].at # "idle" => setter[u].who # p BY <1>1
  <2> QED BY <1>1, <1>2, <1>3, <1>8, <2>1 DEF PeopleInv, AloneInv
<1>10. FileInv' BY <1>1, <1>3 DEF PeopleInv, FileInv
<1>11. \A q : Telling(q) => Telling(q)'
  <2>1. \A u \in Setters : Changes(u) => Changes(u)' /\ setter'[u] = setter[u]
    BY <1>1, <1>3 DEF Changes
  <2> QED BY <2>1 DEF Telling
<1>12. \A q : Told(q)' = Told(q) BY <1>1 DEF Told
<1>13. WatchInv' BY <1>1, <1>5, <1>11, <1>12 DEF PeopleInv, WatchInv
<1> QED BY <1>6, <1>7, <1>9, <1>10, <1>13 DEF PeopleInv

LEMMA ListChanges ==
  ASSUME MaxFavorites \in Nat, PeopleInv, NEW t \in Setters, P!ChangeList(t)
  PROVE  PeopleInv'
<1> DEFINE l == setter[t].list
           p == setter[t].who
           rest == lists[l] \ {p}
           full == setter[t].value /\ Cardinality(rest) >= MaxFavorites
<1>1. /\ setter[t].at = "list"
      /\ lists' = [lists EXCEPT ![l] = IF setter[t].value /\ ~full THEN rest \cup {p} ELSE rest]
      /\ P!Goes(t, IF full THEN "idle" ELSE "profile")
      /\ UNCHANGED <<recent, peopleFile, profiles, watched, peopleSession, watches, watching, notSaved, raced>>
  BY PeopleCardinality DEF P!ChangeList, P!At, P!sessionVars
<1>2. /\ l \in P!Lists /\ p \in Person /\ setter[t].value \in BOOLEAN
      /\ lists \in [P!Lists -> SUBSET Person]
      /\ IsFiniteSet(lists[l]) /\ Cardinality(lists[l]) <= MaxFavorites
  BY DEF PeopleInv, PeopleOK, Bounded, Setting
<1>3. /\ IsFiniteSet(rest) /\ Cardinality(rest) \in Nat /\ Cardinality(lists[l]) \in Nat
      /\ Cardinality(rest) = IF p \in lists[l] THEN Cardinality(lists[l]) - 1 ELSE Cardinality(lists[l])
  <2> DEFINE S == lists[l]
  <2>1. IsFiniteSet(S) BY <1>2
  <2> HIDE DEF S
  <2>2. /\ IsFiniteSet(S \ {p}) /\ Cardinality(S) \in Nat
        /\ Cardinality(S \ {p}) = IF p \in S THEN Cardinality(S) - 1 ELSE Cardinality(S)
    BY <2>1, FS_RemoveElement, FS_CardinalityType
  <2>3. Cardinality(S \ {p}) \in Nat BY <2>2, FS_CardinalityType
  <2> QED BY <2>2, <2>3 DEF S
<1>4. /\ IsFiniteSet(rest \cup {p}) /\ Cardinality(rest \cup {p}) = Cardinality(rest) + 1
  <2>1. p \notin rest OBVIOUS
  <2> HIDE DEF rest
  <2> QED BY <1>3, <2>1, FS_AddElement
<1>5. CASE full
  <2>1. p \notin lists[l] BY <1>2, <1>3, <1>5
  <2>2. lists' = lists BY <1>1, <1>2, <1>5, <2>1
  <2> HIDE DEF rest, full
  <2>3. P!Goes(t, "idle") BY <1>1, <1>5
  <2>4. /\ setter' \in [Setters -> Setting] /\ \A u \in Setters : u # t => setter'[u] = setter[u]
        /\ setter'[t].at = "idle"
    BY <2>3, ThreadGoes DEF PeopleInv
  <2>5. PeopleOK' BY <1>1, <2>2, <2>4 DEF PeopleInv, PeopleOK, Bounded
  <2>6. \A u \in Setters : Changes(u)' = Changes(u) /\ (Changes(u) => setter'[u] = setter[u])
    BY <1>1, <2>4 DEF Changes
  <2>7. AloneInv' BY <1>1, <2>2, <2>4, <2>6 DEF PeopleInv, AloneInv
  <2>8. FlagsInv' BY <1>1, <2>2, <2>4 DEF PeopleInv, FlagsInv, P!Shown
  <2>9. FileInv' BY <1>1, <2>2, <2>4 DEF PeopleInv, FileInv
  <2>10. WatchInv'
    <3>1. \A q : (Told(q) => Told(q)') /\ (Telling(q) => Telling(q)') BY <1>1, <2>6 DEF Told, Telling
    <3> QED BY <1>1, <2>2, <3>1 DEF PeopleInv, WatchInv
  <2> QED BY <2>5, <2>7, <2>8, <2>9, <2>10 DEF PeopleInv
<1>6. CASE ~full
  <2> DEFINE new == IF setter[t].value THEN rest \cup {p} ELSE rest
  <2>1. lists' = [lists EXCEPT ![l] = new] BY <1>1, <1>2, <1>6
  <2>2. P!Goes(t, "profile") BY <1>1, <1>6
  <2>3. /\ setter' \in [Setters -> Setting] /\ \A u \in Setters : u # t => setter'[u] = setter[u]
        /\ setter'[t].at = "profile" /\ setter'[t].list = l /\ setter'[t].who = p
        /\ setter'[t].value = setter[t].value
    BY <2>2, ThreadGoes DEF PeopleInv
  <2>4. /\ new \in SUBSET Person /\ IsFiniteSet(new) /\ Cardinality(new) <= MaxFavorites
        /\ (p \in new <=> setter[t].value) /\ \A q : q # p => (q \in new <=> q \in lists[l])
    BY <1>2, <1>3, <1>4, <1>6
  <2> HIDE DEF new, rest, full
  <2>5. /\ Bounded(lists')
        /\ \A q, k : k \in P!Lists /\ (q # p \/ k # l) => (q \in lists'[k] <=> q \in lists[k])
        /\ p \in lists'[l] <=> setter[t].value
    BY <1>2, <2>1, <2>4 DEF PeopleInv, PeopleOK, Bounded
  <2>6. PeopleOK'
    <3>1. Bounded(lists)' /\ Bounded(peopleFile[1])' BY <1>1, <2>5 DEF PeopleInv, PeopleOK, Bounded
    <3> QED BY <1>1, <2>3, <3>1 DEF PeopleInv, PeopleOK
  <2>7. \A u \in Setters : u # t => Changes(u)' = Changes(u) BY <2>3 DEF Changes
  <2>8. AloneInv'
    <3> SUFFICES ASSUME ~raced' PROVE AloneInv' BY DEF AloneInv
    <3>1. \A u, v \in Setters :
            u # v /\ setter'[u].at # "idle" /\ setter'[v].at # "idle" => setter'[u].who # setter'[v].who
      BY <1>1, <2>3 DEF PeopleInv, AloneInv
    <3>2. ASSUME NEW u \in Setters, u # t, Changes(u)
          PROVE  setter[u].value <=> setter[u].who \in lists'[setter[u].list]
      <4>1. setter[u].who # p BY <1>1, <3>2 DEF PeopleInv, AloneInv, Changes
      <4>2. setter[u].list \in P!Lists BY DEF PeopleInv, PeopleOK, Setting
      <4> QED BY <1>1, <2>5, <3>2, <4>1, <4>2 DEF PeopleInv, AloneInv
    <3> QED BY <2>3, <2>5, <2>7, <3>1, <3>2 DEF AloneInv
  <2>9. FlagsInv'
    <3> SUFFICES ASSUME ~raced', NEW q \in P!Shown', NEW k \in P!Lists
                 PROVE  \/ k \in profiles'[q] <=> q \in lists'[k]
                        \/ \E u \in Setters : /\ setter'[u].at = "profile" /\ setter'[u].who = q
                                              /\ setter'[u].list = k
      BY DEF FlagsInv
    <3>1. CASE q = p /\ k = l BY <2>3, <3>1
    <3>2. CASE q # p \/ k # l
      <4>1. q \in P!Shown BY <1>1 DEF P!Shown
      <4> QED BY <1>1, <2>3, <2>5, <3>2, <4>1 DEF PeopleInv, FlagsInv
    <3> QED BY <3>1, <3>2
  <2>10. FileInv' BY <2>3 DEF FileInv
  <2>11. WatchInv'
    <3> SUFFICES ASSUME peopleSession' = "up", ~raced', notSaved' = 0, NEW q \in lists'["favorite"]
                 PROVE  Told(q)' \/ Telling(q)'
      BY DEF WatchInv
    <3>1. CASE q = p /\ l = "favorite" BY <2>3, <3>1 DEF Telling, Changes
    <3>2. CASE q # p \/ l # "favorite"
      <4>1. q \in lists["favorite"] BY <2>5, <3>2 DEF P!Lists
      <4>2. Told(q) \/ Telling(q) BY <1>1, <4>1 DEF PeopleInv, WatchInv
      <4>3. Told(q) => Told(q)' BY <1>1 DEF Told
      <4>4. Telling(q) => Telling(q)' BY <1>1, <2>3 DEF Telling, Changes
      <4> QED BY <4>2, <4>3, <4>4
    <3> QED BY <3>1, <3>2
  <2> QED BY <2>6, <2>8, <2>9, <2>10, <2>11 DEF PeopleInv
<1> QED BY <1>5, <1>6

LEMMA ProfileChanges ==
  ASSUME PeopleInv, NEW t \in Setters, P!ChangeProfile(t)
  PROVE  PeopleInv'
<1> DEFINE l == setter[t].list
           p == setter[t].who
           flags == IF setter[t].value THEN profiles[p] \cup {l} ELSE profiles[p] \ {l}
<1>1. /\ setter[t].at = "profile" /\ P!Goes(t, "save")
      /\ profiles' = IF p \notin P!Shown THEN profiles ELSE [profiles EXCEPT ![p] = flags]
      /\ UNCHANGED <<lists, recent, peopleFile, watched, peopleSession, watches, watching, notSaved, raced>>
  BY DEF P!ChangeProfile, P!At, P!sessionVars
<1>2. /\ setter' \in [Setters -> Setting] /\ \A u \in Setters : u # t => setter'[u] = setter[u]
      /\ setter'[t].at = "save" /\ setter'[t].list = l /\ setter'[t].who = p
      /\ setter'[t].value = setter[t].value
  BY <1>1, ThreadGoes DEF PeopleInv
<1>3. l \in P!Lists /\ p \in Person /\ setter[t].value \in BOOLEAN
  BY DEF PeopleInv, PeopleOK, Setting
<1>4. p \in P!Shown => flags \in SUBSET P!Lists /\ (l \in flags <=> setter[t].value)
                       /\ \A k : k # l => (k \in flags <=> k \in profiles[p])
  BY <1>3 DEF P!Shown, PeopleInv, PeopleOK
<1> HIDE DEF flags
<1>5. /\ profiles' \in [Person -> (SUBSET P!Lists) \cup {P!NoProfile}]
      /\ \A q \in Person : q # p => profiles'[q] = profiles[q]
      /\ p \in P!Shown => profiles'[p] = flags
      /\ p \notin P!Shown => profiles' = profiles
  BY <1>1, <1>3, <1>4 DEF PeopleInv, PeopleOK
<1>6. PeopleOK'
  <2>1. Bounded(lists)' /\ Bounded(peopleFile[1])' BY <1>1 DEF PeopleInv, PeopleOK, Bounded
  <2> QED BY <1>1, <1>2, <1>5, <2>1 DEF PeopleInv, PeopleOK
<1>7. \A u \in Setters : Changes(u)' = Changes(u) BY <1>1, <1>2 DEF Changes
<1>8. AloneInv' BY <1>1, <1>2, <1>7 DEF PeopleInv, AloneInv
<1>9. FlagsInv'
  <2> SUFFICES ASSUME ~raced', NEW q \in P!Shown', NEW k \in P!Lists
               PROVE  \/ k \in profiles'[q] <=> q \in lists'[k]
                      \/ \E u \in Setters : /\ setter'[u].at = "profile" /\ setter'[u].who = q
                                            /\ setter'[u].list = k
    BY DEF FlagsInv
  <2>1. q \in Person /\ q \in P!Shown
    BY <1>5 DEF P!Shown
  <2>2. CASE q = p /\ k = l
    <3>1. setter[t].value <=> p \in lists[l] BY <1>1 DEF PeopleInv, AloneInv, Changes
    <3> QED BY <1>1, <1>4, <1>5, <2>1, <2>2, <3>1
  <2>3. CASE q # p \/ k # l
    <3>1. k \in profiles'[q] <=> k \in profiles[q] BY <1>4, <1>5, <2>1, <2>3
    <3> QED BY <1>1, <1>2, <2>1, <2>3, <3>1 DEF PeopleInv, FlagsInv
  <2> QED BY <2>2, <2>3
<1>10. FileInv' BY <1>2 DEF FileInv
<1>11. \A q : (Told(q) => Told(q)') /\ (Telling(q) => Telling(q)')
  BY <1>1, <1>2, <1>7 DEF Told, Telling
<1>12. WatchInv' BY <1>1, <1>11 DEF PeopleInv, WatchInv
<1> QED BY <1>6, <1>8, <1>9, <1>10, <1>12 DEF PeopleInv

LEMMA SaveSteps ==
  ASSUME PeopleInv, NEW t \in Setters, P!SavesLists(t) \/ P!SaveOfListsFails(t)
  PROVE  PeopleInv'
<1> DEFINE next == IF setter[t].list = "favorite" THEN "tell" ELSE "idle"
<1>1. /\ setter[t].at = "save"
      /\ UNCHANGED <<lists, recent, profiles, watched, peopleSession, watches, watching, raced>>
      /\ \/ peopleFile' = <<lists, recent>> /\ notSaved' = notSaved /\ P!Goes(t, next)
         \/ peopleFile' = peopleFile /\ notSaved' = notSaved + 1 /\ P!Goes(t, "idle")
  BY DEF P!SavesLists, P!SaveOfListsFails, P!At, P!sessionVars
<1>2. next \in {"idle", "tell"} /\ (next = "idle" <=> setter[t].list # "favorite") OBVIOUS
<1> HIDE DEF next
<1>3. PICK step \in {"idle", "tell"} :
        /\ P!Goes(t, step)
        /\ \/ peopleFile' = <<lists, recent>> /\ notSaved' = notSaved /\ step = next
           \/ peopleFile' = peopleFile /\ notSaved' = notSaved + 1 /\ step = "idle"
  BY <1>1, <1>2
<1>4. /\ setter' \in [Setters -> Setting] /\ \A u \in Setters : u # t => setter'[u] = setter[u]
      /\ setter'[t].at = step /\ setter'[t].list = setter[t].list /\ setter'[t].who = setter[t].who
      /\ setter'[t].value = setter[t].value
  BY <1>3, ThreadGoes DEF PeopleInv
<1>5. step = "tell" => setter[t].list = "favorite" BY <1>2, <1>3
<1>6. PeopleOK'
  <2>1. Bounded(lists)' BY <1>1 DEF PeopleInv, PeopleOK, Bounded
  <2>2. Bounded(peopleFile'[1]) /\ peopleFile' = <<peopleFile'[1], peopleFile'[2]>>
    BY <1>3 DEF PeopleInv, PeopleOK
  <2>3. Bounded(peopleFile[1])' BY <2>2 DEF Bounded
  <2>4. notSaved' \in Nat BY <1>3 DEF PeopleInv, PeopleOK
  <2> QED BY <1>1, <1>4, <1>5, <2>1, <2>2, <2>3, <2>4 DEF PeopleInv, PeopleOK
<1>7. \A u \in Setters : Changes(u)' => Changes(u) BY <1>1, <1>4 DEF Changes
<1>8. AloneInv' BY <1>1, <1>4, <1>7 DEF PeopleInv, AloneInv, Changes
<1>9. FlagsInv' BY <1>1, <1>4 DEF PeopleInv, FlagsInv, P!Shown
<1>10. CASE notSaved' = notSaved
  <2>1. peopleFile' = <<lists', recent'>> /\ step = next BY <1>1, <1>3, <1>10 DEF PeopleInv, PeopleOK
  <2>2. FileInv' BY <2>1 DEF FileInv
  <2>3. \A q : Telling(q) => Telling(q)' BY <1>2, <1>4, <2>1 DEF Telling, Changes
  <2>4. \A q : Told(q) => Told(q)' BY <1>1 DEF Told
  <2>5. WatchInv' BY <1>1, <1>10, <2>3, <2>4 DEF PeopleInv, WatchInv
  <2> QED BY <1>6, <1>8, <1>9, <2>2, <2>5 DEF PeopleInv
<1>11. CASE notSaved' = notSaved + 1
  <2>1. notSaved' # 0 BY <1>11 DEF PeopleInv, PeopleOK
  <2> QED BY <1>6, <1>8, <1>9, <2>1 DEF PeopleInv, FileInv, WatchInv
<1> QED BY <1>3, <1>10, <1>11

LEMMA Tells ==
  ASSUME PeopleInv, NEW t \in Setters, P!TellSession(t)
  PROVE  PeopleInv'
<1> DEFINE p == setter[t].who
           what == <<p, setter[t].value>>
<1>1. /\ setter[t].at = "tell" /\ P!Goes(t, "idle")
      /\ watches' = IF peopleSession \in {"shown", "up"} THEN Append(watches, what) ELSE watches
      /\ UNCHANGED <<lists, recent, peopleFile, profiles, watched, peopleSession, watching, notSaved, raced>>
  BY DEF P!TellSession, P!At
<1>2. /\ setter' \in [Setters -> Setting] /\ \A u \in Setters : u # t => setter'[u] = setter[u]
      /\ setter'[t].at = "idle"
  BY <1>1, ThreadGoes DEF PeopleInv
<1>3. /\ what \in Person \X BOOLEAN /\ setter[t].list = "favorite" /\ setter[t].value \in BOOLEAN
      /\ watches \in Seq(Person \X BOOLEAN)
  BY <1>1 DEF PeopleInv, PeopleOK, Setting
<1>4. PeopleOK'
  <2>1. Bounded(lists)' /\ Bounded(peopleFile[1])' BY <1>1 DEF PeopleInv, PeopleOK, Bounded
  <2>2. watches' \in Seq(Person \X BOOLEAN) BY <1>1, <1>3
  <2> QED BY <1>1, <1>2, <2>1, <2>2 DEF PeopleInv, PeopleOK
<1>5. \A u \in Setters : Changes(u)' => Changes(u) /\ u # t BY <1>2 DEF Changes
<1>6. AloneInv' BY <1>1, <1>2, <1>5 DEF PeopleInv, AloneInv
<1>7. FlagsInv' BY <1>1, <1>2 DEF PeopleInv, FlagsInv, P!Shown
<1>8. FileInv' BY <1>1, <1>2 DEF PeopleInv, FileInv
<1>9. WatchInv'
  <2> SUFFICES ASSUME peopleSession' = "up", ~raced', notSaved' = 0, NEW q \in lists'["favorite"]
               PROVE  Told(q)' \/ Telling(q)'
    BY DEF WatchInv
  <2>1. Told(q) \/ Telling(q) BY <1>1 DEF PeopleInv, WatchInv
  <2>2. watches' = Append(watches, what) BY <1>1
  <2>3. /\ Len(watches) \in Nat
        /\ Len(watches) + 1 \in DOMAIN watches' /\ watches'[Len(watches) + 1] = what
        /\ \A i \in DOMAIN watches : i \in DOMAIN watches' /\ watches'[i] = watches[i] /\ i < Len(watches) + 1
        /\ \A i \in DOMAIN watches' : i \in DOMAIN watches \/ i = Len(watches) + 1
    <3> HIDE DEF what
    <3> QED BY <1>3, <2>2, Appended
  <2>4. CASE q = p
    <3>1. setter[t].value = TRUE BY <1>1, <1>3, <2>4 DEF PeopleInv, AloneInv, Changes
    <3>2. what = <<q, TRUE>> BY <2>4, <3>1
    <3>3. what # <<q, FALSE>> BY <3>2
    <3> HIDE DEF what
    <3> QED BY <2>3, <3>2, <3>3 DEF Told
  <2>5. CASE q # p
    <3>1. Telling(q) => Telling(q)' BY <1>2, <2>5 DEF Telling, Changes
    <3>2. what # <<q, FALSE>> BY <2>5
    <3> HIDE DEF what
    <3>3. ASSUME Told(q) PROVE Told(q)'
      <4>1. watching' = watching BY <1>1
      <4>2. q \in watching' \/ \E i \in DOMAIN watches' : watches'[i] = <<q, TRUE>>
        <5>1. CASE q \in watching BY <4>1, <5>1
        <5>2. ASSUME NEW i \in DOMAIN watches, watches[i] = <<q, TRUE>>
              PROVE  i \in DOMAIN watches' /\ watches'[i] = <<q, TRUE>>
          BY <2>3, <5>2
        <5> QED BY <3>3, <5>1, <5>2 DEF Told
      <4>3. ASSUME NEW i \in DOMAIN watches', watches'[i] = <<q, FALSE>>
            PROVE  \E j \in DOMAIN watches' : j > i /\ watches'[j] = <<q, TRUE>>
        <5>1. i \in DOMAIN watches /\ watches[i] = <<q, FALSE>> BY <2>3, <3>2, <4>3
        <5>2. PICK j \in DOMAIN watches : j > i /\ watches[j] = <<q, TRUE>> BY <3>3, <5>1 DEF Told
        <5>3. j \in DOMAIN watches' /\ watches'[j] = <<q, TRUE>> BY <2>3, <5>2
        <5> QED BY <5>2, <5>3
      <4> QED BY <4>2, <4>3 DEF Told
    <3> QED BY <2>1, <3>1, <3>3
  <2> QED BY <2>4, <2>5
<1> QED BY <1>4, <1>6, <1>7, <1>8, <1>9 DEF PeopleInv

LEMMA PeopleInitInv ==
  ASSUME Person # {}, MaxFavorites \in Nat
  PROVE  P!PeopleInit => PeopleInv
<1> SUFFICES ASSUME P!PeopleInit PROVE PeopleInv OBVIOUS
<1>1. Bounded([l \in P!Lists |-> {}]) BY FS_EmptySet DEF Bounded
<1>2. /\ peopleFile = <<lists, recent>> /\ lists = [l \in P!Lists |-> {}]
      /\ setter = [t \in Setters |-> P!Resting] /\ raced = FALSE
  BY DEF P!PeopleInit
<1>3. P!Resting \in Setting /\ P!Resting.at = "idle" BY DEF P!Resting, Setting, P!Lists
<1>4. Bounded(lists) /\ Bounded(peopleFile[1]) /\ peopleFile = <<peopleFile[1], peopleFile[2]>>
  BY <1>1, <1>2
<1>5. /\ profiles \in [Person -> (SUBSET P!Lists) \cup {P!NoProfile}]
      /\ watches \in Seq(Person \X BOOLEAN) /\ watching = watched
      /\ notSaved \in Nat /\ peopleSession = "off"
  BY DEF P!PeopleInit
<1>6. PeopleOK BY <1>2, <1>3, <1>4, <1>5 DEF PeopleOK
<1>7. AloneInv BY <1>2, <1>3 DEF AloneInv, Changes
<1>8. FlagsInv BY DEF P!PeopleInit, FlagsInv, P!Shown
<1>9. FileInv BY <1>2 DEF FileInv
<1>10. WatchInv BY <1>5 DEF WatchInv
<1> QED BY <1>6, <1>7, <1>8, <1>9, <1>10 DEF PeopleInv

LEMMA AlwaysPeople ==
  ASSUME Person # {}, MaxFavorites \in Nat
  PROVE  StoresSpec => []PeopleInv
<1>1. StoresInit => PeopleInv BY PeopleInitInv DEF StoresInit
<1>2. [StoresNext]_allVars => [P!PeopleNext]_peopleVars
  BY DEF StoresNext, JsonNext, MessagesNext, RoomsNext, PeopleNext, RadarNext, FilingNext, SharesNext,
         allVars, libraryVars
<1>3. PeopleInv /\ [P!PeopleNext]_peopleVars => PeopleInv'
  BY ObservedSteps, PeopleRestarts, SessionSteps, Begins, ListChanges, ProfileChanges, SaveSteps, Tells
     DEF P!PeopleNext
<1> QED BY <1>1, <1>2, <1>3, PTL DEF StoresSpec

(* A profile shows the flags of the lists, the file never falls behind the *)
(* lists, and the server watches every favorite once the session has read  *)
(* its channel; for any users and limits and any number of threads, with   *)
(* the sessions that come and go meanwhile (people.rs, service.rs).        *)
THEOREM PeopleStayAgreed ==
  ASSUME Person # {}, MaxFavorites \in Nat
  PROVE  StoresSpec => []PeopleAgree
<1>1. PeopleInv => P!FlagsAgree
  BY DEF PeopleInv, PeopleOK, FlagsInv, P!FlagsAgree, P!AllIdle, P!At, P!Shown, P!FlagsOf
<1>2. PeopleInv => P!FileFollowsLists
  BY DEF PeopleInv, FileInv, P!FileFollowsLists, P!AllIdle, P!At
<1>3. PeopleInv => P!FavoritesAreWatched
  BY DEF PeopleInv, WatchInv, Told, Telling, Changes, P!FavoritesAreWatched, P!AllIdle, P!At
<1>4. PeopleInv => PeopleAgree BY <1>1, <1>2, <1>3 DEF PeopleAgree
<1> QED BY <1>4, AlwaysPeople, PTL

-----------------------------------------------------------------------------
(* Rooms.  What the session believes follows the server, delayed by the    *)
(* frames on their way.  A topic is a question the frames answer: whether  *)
(* we are in a room, or whether a visitor is listed in it.  Says are the   *)
(* frames about the topic, Yes those that affirm it.                       *)

Command == {"join", "leave"} \X Room
RoomFrame == {"joined", "left", "comes", "goes", "says"} \X Room \X SUBSET Visitor

(* The last frame under way about a topic tells the truth.                 *)
LastTells(q, Says, Yes, truth) ==
  \A i \in DOMAIN q :
    q[i] \in Says /\ (\A j \in DOMAIN q : j > i => q[j] \notin Says) => (q[i] \in Yes <=> truth)
Silent(q, Says) == \A i \in DOMAIN q : q[i] \notin Says

AboutUs(r) == {f \in RoomFrame : f[2] = r /\ f[1] \in {"joined", "left"}}
WeAreIn(r) == {f \in RoomFrame : f[2] = r /\ f[1] = "joined"}
About(r, v) ==
  {f \in RoomFrame : f[2] = r /\ (f[1] \in {"joined", "left"} \/ (f[1] \in {"comes", "goes"} /\ v \in f[3]))}
IsThere(r, v) == {f \in RoomFrame : f[2] = r /\ f[1] \in {"joined", "comes"} /\ v \in f[3]}

(* A leave that the server has not answered yet.                           *)
Leaves(r) == hand = <<"leave", r>> \/ \E i \in DOMAIN toServer : toServer[i] = <<"leave", r>>

LEMMA EmptyTells ==
  ASSUME NEW Says, NEW Yes, NEW truth
  PROVE  LastTells(<<>>, Says, Yes, truth)
BY DEF LastTells

LEMMA OtherAppended ==
  ASSUME NEW X, NEW q \in Seq(X), NEW f \in X, NEW Says, NEW Yes, NEW truth, f \notin Says
  PROVE  /\ LastTells(q, Says, Yes, truth) => LastTells(Append(q, f), Says, Yes, truth)
         /\ Silent(Append(q, f), Says) => Silent(q, Says)
<1>1. /\ Len(q) \in Nat /\ Append(q, f)[Len(q) + 1] = f
      /\ \A i \in DOMAIN q : i \in DOMAIN Append(q, f) /\ Append(q, f)[i] = q[i]
      /\ \A i \in DOMAIN Append(q, f) : i \in DOMAIN q \/ i = Len(q) + 1
  BY Appended
<1> QED BY <1>1 DEF LastTells, Silent

LEMMA AnswerAppended ==
  ASSUME NEW X, NEW q \in Seq(X), NEW f \in X, NEW Says, NEW Yes, f \in Says
  PROVE  /\ LastTells(Append(q, f), Says, Yes, f \in Yes)
         /\ ~Silent(Append(q, f), Says)
<1>1. /\ Len(q) \in Nat /\ Append(q, f)[Len(q) + 1] = f /\ Len(q) + 1 \in DOMAIN Append(q, f)
      /\ \A i \in DOMAIN q : i < Len(q) + 1
      /\ \A i \in DOMAIN Append(q, f) : i \in DOMAIN q \/ i = Len(q) + 1
  BY Appended
<1>2. ~Silent(Append(q, f), Says) BY <1>1 DEF Silent
<1>3. ASSUME NEW i \in DOMAIN Append(q, f),
             \A j \in DOMAIN Append(q, f) : j > i => Append(q, f)[j] \notin Says
      PROVE  Append(q, f)[i] = f
  <2>1. i \notin DOMAIN q
    <3>1. ~(Len(q) + 1 > i) BY <1>1, <1>3
    <3>2. \A k \in DOMAIN q : k \in Nat BY LenProperties
    <3> QED BY <1>1, <3>1, <3>2
  <2> QED BY <1>1, <2>1
<1> QED BY <1>2, <1>3 DEF LastTells

LEMMA HeadTaken ==
  ASSUME NEW X, NEW q \in Seq(X), q # <<>>, NEW Says, NEW Yes, NEW truth,
         LastTells(q, Says, Yes, truth)
  PROVE  /\ LastTells(Tail(q), Says, Yes, truth)
         /\ Head(q) \notin Says /\ Silent(Tail(q), Says) => Silent(q, Says)
         /\ Head(q) \in Says /\ Silent(Tail(q), Says) => (Head(q) \in Yes <=> truth)
<1>1. /\ 1 \in DOMAIN q /\ Head(q) = q[1]
      /\ \A i \in DOMAIN Tail(q) : i \in Nat \ {0} /\ i + 1 \in DOMAIN q /\ Tail(q)[i] = q[i + 1]
      /\ \A j \in DOMAIN q : \/ j = 1
                             \/ j \in Nat /\ j > 1 /\ j - 1 \in DOMAIN Tail(q) /\ Tail(q)[j - 1] = q[j]
  BY TailOf
<1>2. ASSUME NEW i \in DOMAIN Tail(q), Tail(q)[i] \in Says,
             \A j \in DOMAIN Tail(q) : j > i => Tail(q)[j] \notin Says
      PROVE  Tail(q)[i] \in Yes <=> truth
  <2>1. i + 1 \in DOMAIN q /\ q[i + 1] = Tail(q)[i] /\ i \in Nat \ {0} BY <1>1
  <2>2. ASSUME NEW j \in DOMAIN q, j > i + 1 PROVE q[j] \notin Says
    <3>1. j # 1 BY <2>1, <2>2
    <3>2. j \in Nat /\ j - 1 \in DOMAIN Tail(q) /\ Tail(q)[j - 1] = q[j] BY <1>1, <3>1
    <3>3. j - 1 > i BY <2>1, <2>2, <3>2
    <3> QED BY <1>2, <3>2, <3>3
  <2> QED BY <1>2, <2>1, <2>2 DEF LastTells
<1>3. LastTells(Tail(q), Says, Yes, truth) BY <1>2 DEF LastTells
<1>4. ASSUME Head(q) \notin Says, Silent(Tail(q), Says) PROVE Silent(q, Says)
  BY <1>1, <1>4 DEF Silent
<1>5. ASSUME Head(q) \in Says, Silent(Tail(q), Says) PROVE Head(q) \in Yes <=> truth
  <2>1. \A j \in DOMAIN q : j > 1 => q[j] \notin Says BY <1>1, <1>5 DEF Silent
  <2> QED BY <1>1, <1>5, <2>1 DEF LastTells
<1> QED BY <1>3, <1>4, <1>5
(* What the session shows of a topic, given the frames under way, whether  *)
(* a save has failed, and whether we are leaving the room: the last frame  *)
(* tells the truth, and with none under way the truth is shown.            *)
Mirrors(q, failed, Says, Yes, leaving, truth, shown) ==
  /\ LastTells(q, Says, Yes, truth)
  /\ failed = 0 /\ ~leaving /\ Silent(q, Says) => (shown <=> truth)

RoomsOK ==
  /\ connected \in BOOLEAN /\ unsavedRooms \in Nat
  /\ hand \in Command \cup {<<>>}
  /\ toServer \in Seq(Command) /\ toClient \in Seq(RoomFrame)
  /\ joined \subseteq Room /\ presence \subseteq Room
  /\ members \in [Room -> SUBSET Visitor] /\ visitors \in [Room -> SUBSET Visitor]

OfflineInv ==
  ~connected =>
    /\ joined = {} /\ presence = {} /\ (\A r \in Room : members[r] = {})
    /\ toServer = <<>> /\ toClient = <<>>

WeFollow(r) ==
  Mirrors(toClient, unsavedRooms, AboutUs(r), WeAreIn(r), Leaves(r), r \in presence, r \in joined)
VisitorsFollow(r, v) ==
  Mirrors(toClient, unsavedRooms, About(r, v), IsThere(r, v), Leaves(r),
          r \in presence /\ v \in visitors[r], v \in members[r])

RoomsInv ==
  /\ RoomsOK /\ OfflineInv
  /\ \A r \in Room : WeFollow(r) /\ \A v \in Visitor : VisitorsFollow(r, v)

LEMMA StaysMirrored ==
  ASSUME NEW q, NEW n, NEW n2, NEW Says, NEW Yes, NEW leaving, NEW leaving2, NEW truth, NEW truth2,
         NEW shown, NEW shown2, Mirrors(q, n, Says, Yes, leaving, truth, shown),
         n2 = 0 => n = 0, n2 = 0 /\ ~leaving2 => ~leaving /\ (shown2 <=> shown), truth2 <=> truth
  PROVE  Mirrors(q, n2, Says, Yes, leaving2, truth2, shown2)
BY DEF Mirrors, LastTells

LEMMA OtherFrame ==
  ASSUME NEW q \in Seq(RoomFrame), NEW f \in RoomFrame, NEW n, NEW Says, NEW Yes,
         NEW leaving, NEW leaving2, NEW truth, NEW truth2, NEW shown,
         Mirrors(q, n, Says, Yes, leaving, truth, shown), f \notin Says,
         ~leaving2 => ~leaving, truth2 <=> truth
  PROVE  Mirrors(Append(q, f), n, Says, Yes, leaving2, truth2, shown)
<1>1. LastTells(q, Says, Yes, truth2) BY DEF Mirrors, LastTells
<1> QED BY <1>1, OtherAppended DEF Mirrors

LEMMA AnswerFrame ==
  ASSUME NEW q \in Seq(RoomFrame), NEW f \in RoomFrame, NEW n, NEW Says, NEW Yes,
         NEW leaving, NEW truth, NEW shown, f \in Says, truth <=> f \in Yes
  PROVE  Mirrors(Append(q, f), n, Says, Yes, leaving, truth, shown)
<1>1. LastTells(Append(q, f), Says, Yes, f \in Yes) /\ ~Silent(Append(q, f), Says) BY AnswerAppended
<1> QED BY <1>1 DEF Mirrors, LastTells

LEMMA FrameTaken ==
  ASSUME NEW q \in Seq(RoomFrame), q # <<>>, NEW n, NEW n2, NEW Says, NEW Yes, NEW leaving, NEW truth,
         NEW shown, NEW shown2, Mirrors(q, n, Says, Yes, leaving, truth, shown), n2 = 0 => n = 0,
         Head(q) \in Says => (shown2 <=> Head(q) \in Yes), Head(q) \notin Says => (shown2 <=> shown)
  PROVE  Mirrors(Tail(q), n2, Says, Yes, leaving, truth, shown2)
<1>1. /\ LastTells(Tail(q), Says, Yes, truth)
      /\ Head(q) \notin Says /\ Silent(Tail(q), Says) => Silent(q, Says)
      /\ Head(q) \in Says /\ Silent(Tail(q), Says) => (Head(q) \in Yes <=> truth)
  BY HeadTaken DEF Mirrors
<1> QED BY <1>1 DEF Mirrors

LEMMA FrameTopics ==
  ASSUME NEW f \in RoomFrame, NEW r \in Room
  PROVE  /\ f \in AboutUs(r) <=> f[2] = r /\ f[1] \in {"joined", "left"}
         /\ f \in WeAreIn(r) <=> f[2] = r /\ f[1] = "joined"
         /\ \A v : f \in About(r, v) <=>
                     f[2] = r /\ (f[1] \in {"joined", "left"} \/ (f[1] \in {"comes", "goes"} /\ v \in f[3]))
         /\ \A v : f \in IsThere(r, v) <=> f[2] = r /\ f[1] \in {"joined", "comes"} /\ v \in f[3]
BY DEF AboutUs, WeAreIn, About, IsThere

(* A step that leaves the frames and the server alone.                     *)
LEMMA NothingHeard ==
  ASSUME RoomsInv, RoomsOK', OfflineInv', UNCHANGED <<toClient, presence, visitors>>,
         unsavedRooms' = 0 => unsavedRooms = 0,
         \A r \in Room : unsavedRooms' = 0 /\ ~Leaves(r)' =>
                           ~Leaves(r) /\ (r \in joined' <=> r \in joined) /\ members'[r] = members[r]
  PROVE  RoomsInv'
<1>1. ASSUME NEW r \in Room PROVE WeFollow(r)'
  <2>1. Mirrors(toClient, unsavedRooms', AboutUs(r), WeAreIn(r), Leaves(r)', r \in presence, r \in joined')
    BY StaysMirrored DEF RoomsInv, WeFollow
  <2> QED BY <2>1 DEF WeFollow
<1>2. ASSUME NEW r \in Room, NEW v \in Visitor PROVE VisitorsFollow(r, v)'
  <2>1. Mirrors(toClient, unsavedRooms', About(r, v), IsThere(r, v), Leaves(r)',
                r \in presence /\ v \in visitors[r], v \in members'[r])
    BY StaysMirrored DEF RoomsInv, VisitorsFollow
  <2> QED BY <2>1 DEF VisitorsFollow
<1> QED BY <1>1, <1>2 DEF RoomsInv

(* A step of the session that takes a frame.                               *)
LEMMA FrameHeard ==
  ASSUME RoomsInv, RoomsOK', OfflineInv', toClient # <<>>, toClient' = Tail(toClient),
         UNCHANGED <<toServer, hand, presence, visitors>>, unsavedRooms' = 0 => unsavedRooms = 0,
         \A r \in Room : /\ Head(toClient) \in AboutUs(r) => (r \in joined' <=> Head(toClient) \in WeAreIn(r))
                         /\ Head(toClient) \notin AboutUs(r) => (r \in joined' <=> r \in joined),
         \A r \in Room, v \in Visitor :
            /\ Head(toClient) \in About(r, v) => (v \in members'[r] <=> Head(toClient) \in IsThere(r, v))
            /\ Head(toClient) \notin About(r, v) => (v \in members'[r] <=> v \in members[r])
  PROVE  RoomsInv'
<1>1. toClient \in Seq(RoomFrame) BY DEF RoomsInv, RoomsOK
<1>2. \A r \in Room : Leaves(r)' = Leaves(r) BY DEF Leaves
<1>3. ASSUME NEW r \in Room PROVE WeFollow(r)'
  <2>1. Mirrors(Tail(toClient), unsavedRooms', AboutUs(r), WeAreIn(r), Leaves(r), r \in presence, r \in joined')
    BY <1>1, FrameTaken DEF RoomsInv, WeFollow
  <2> QED BY <1>2, <2>1 DEF WeFollow
<1>4. ASSUME NEW r \in Room, NEW v \in Visitor PROVE VisitorsFollow(r, v)'
  <2>1. Mirrors(Tail(toClient), unsavedRooms', About(r, v), IsThere(r, v), Leaves(r),
                r \in presence /\ v \in visitors[r], v \in members'[r])
    BY <1>1, FrameTaken DEF RoomsInv, VisitorsFollow
  <2> QED BY <1>2, <2>1 DEF VisitorsFollow
<1> QED BY <1>3, <1>4 DEF RoomsInv

LEMMA RoomCardinality == \A S : R!Cardinality(S) = Cardinality(S)
BY DEF R!Cardinality, Cardinality

LEMMA RoomSeq ==
  ASSUME NEW S, IsFiniteSet(S)
  PROVE  R!SetToSeq(S) \in Seq(S)
<1> DEFINE n == Cardinality(S)
<1>1. n \in Nat /\ ExistsBijection(1 .. n, S) BY FS_CardinalityType
<1>2. PICK g \in [1 .. n -> S] : R!IsInjective(g)
  BY <1>1 DEF ExistsBijection, Bijection, Injection, IsInjective, R!IsInjective
<1>3. R!SetToSeq(S) \in [1 .. n -> S]
  BY <1>2, RoomCardinality DEF R!SetToSeq
<1> QED BY <1>1, <1>3

LEMMA JoinsOf ==
  ASSUME IsFiniteSet(Room)
  PROVE  /\ R!SetToSeq({"join"} \X R!Desired) \in Seq(Command)
         /\ \A i \in DOMAIN R!SetToSeq({"join"} \X R!Desired), r \in Room :
               R!SetToSeq({"join"} \X R!Desired)[i] # <<"leave", r>>
<1> DEFINE W == R!Desired
           S == {"join"} \X W
           s == R!SetToSeq(S)
<1>1. W \subseteq Room BY DEF R!Desired
<1>2. IsFiniteSet(W) BY <1>1, FS_Subset
<1> DEFINE pair == [r \in W |-> <<"join", r>>]
<1>3. IsFiniteSet(S)
  <2>1. pair \in [W -> S] OBVIOUS
  <2>2. ASSUME NEW x \in S PROVE \E r \in W : pair[r] = x
    <3>1. x[2] \in W /\ x = <<"join", x[2]>> OBVIOUS
    <3>2. pair[x[2]] = x BY <3>1
    <3> QED BY <3>1, <3>2
  <2> HIDE DEF pair, S
  <2>3. pair \in Surjection(W, S) BY <2>1, <2>2 DEF Surjection
  <2> QED BY <1>2, <2>3, FS_Surjection
<1>4. s \in Seq(S) BY <1>3, RoomSeq
<1>5. S \subseteq Command BY <1>1 DEF Command
<1> HIDE DEF s
<1>6. \A i \in DOMAIN s : s[i] \in S BY <1>4
<1>7. s \in Seq(Command)
  <2> HIDE DEF S
  <2> QED BY <1>4, <1>5
<1>8. \A i \in DOMAIN s, r \in Room : s[i] # <<"leave", r>>
  <2> TAKE i \in DOMAIN s, r \in Room
  <2>1. s[i][1] = "join" BY <1>6
  <2> QED BY <2>1
<1> QED BY <1>7, <1>8 DEF s

(* The connection comes and goes, and the program restarts.                *)
LEMMA ConnectionSteps ==
  ASSUME RoomsInv, IsFiniteSet(Room), R!Connects \/ R!Disconnects \/ R!RoomsRestart
  PROVE  RoomsInv'
<1>1. RoomsOK /\ OfflineInv BY DEF RoomsInv
<1>2. CASE R!Connects
  <2>1. /\ connected' = TRUE /\ ~connected /\ toServer' \in Seq(Command)
        /\ \A i \in DOMAIN toServer', r \in Room : toServer'[i] # <<"leave", r>>
        /\ UNCHANGED <<joined, members, toClient, presence, visitors, hand, unsavedRooms>>
    BY <1>2, JoinsOf DEF R!Connects
  <2>2. RoomsOK' BY <1>1, <2>1 DEF RoomsOK
  <2>3. OfflineInv' BY <2>1 DEF OfflineInv
  <2>4. \A r \in Room : Leaves(r) <=> Leaves(r)'
    BY <1>1, <2>1 DEF Leaves, OfflineInv
  <2> QED BY <2>1, <2>2, <2>3, <2>4, NothingHeard
<1>3. CASE R!Disconnects
  <2>1. /\ connected' = FALSE /\ joined' = {} /\ members' = [r \in Room |-> {}]
        /\ toServer' = <<>> /\ toClient' = <<>> /\ presence' = {}
        /\ UNCHANGED <<visitors, hand, unsavedRooms>>
    BY <1>3 DEF R!Disconnects
  <2>2. <<>> \in Seq(Command) /\ <<>> \in Seq(RoomFrame) OBVIOUS
  <2>3. FALSE \in BOOLEAN OBVIOUS
  <2>4. members' \in [Room -> SUBSET Visitor] BY <2>1
  <2>5. RoomsOK' BY <1>1, <2>1, <2>2, <2>3, <2>4 DEF RoomsOK
  <2>6. OfflineInv' BY <2>1 DEF OfflineInv
  <2>7. ASSUME NEW r \in Room PROVE WeFollow(r)'
    BY <2>1, EmptyTells DEF WeFollow, Mirrors
  <2>8. ASSUME NEW r \in Room, NEW v \in Visitor PROVE VisitorsFollow(r, v)'
    BY <2>1, EmptyTells DEF VisitorsFollow, Mirrors
  <2> QED BY <2>5, <2>6, <2>7, <2>8 DEF RoomsInv
<1>4. CASE R!RoomsRestart
  <2>1. /\ ~connected /\ hand' = <<>>
        /\ UNCHANGED <<connected, joined, members, toServer, toClient, presence, visitors, unsavedRooms>>
    BY <1>4 DEF R!RoomsRestart, R!runtimeVars, R!wireVars
  <2>2. RoomsOK' BY <1>1, <2>1 DEF RoomsOK
  <2>3. OfflineInv' BY <1>1, <2>1 DEF OfflineInv
  <2>4. toClient = <<>> /\ joined = {} /\ presence = {} /\ \A r \in Room : members[r] = {}
    BY <1>1, <2>1 DEF OfflineInv
  <2>5. ASSUME NEW r \in Room PROVE WeFollow(r)'
    BY <2>1, <2>4, EmptyTells DEF WeFollow, Mirrors
  <2>6. ASSUME NEW r \in Room, NEW v \in Visitor PROVE VisitorsFollow(r, v)'
    BY <2>1, <2>4, EmptyTells DEF VisitorsFollow, Mirrors
  <2> QED BY <2>2, <2>3, <2>5, <2>6 DEF RoomsInv
<1> QED BY <1>2, <1>3, <1>4

LEMMA FailedSave == ASSUME unsavedRooms \in Nat, R!Saves \/ R!FailsToSave
                    PROVE  unsavedRooms' \in Nat /\ (unsavedRooms' = 0 => unsavedRooms = 0 /\ R!Saves)
BY DEF R!Saves, R!FailsToSave

(* The user's commands.                                                    *)
LEMMA UserSteps ==
  ASSUME RoomsInv, NEW r \in Room,
         \/ R!RequestJoin(r) \/ R!RequestLeave(r) \/ R!SendRoomCommand
         \/ \E favorite \in BOOLEAN : R!SetFavorite(r, favorite)
  PROVE  RoomsInv'
<1>1. RoomsOK /\ OfflineInv BY DEF RoomsInv
<1>0. unsavedRooms \in Nat BY <1>1 DEF RoomsOK
<1>2. CASE R!RequestJoin(r)
  <2>1. /\ hand = <<>> /\ hand' \in {<<>>, <<"join", r>>} /\ (R!Saves \/ R!FailsToSave) /\ connected
        /\ UNCHANGED <<connected, joined, members, toServer, toClient, presence, visitors>>
    BY <1>2 DEF R!RequestJoin, R!wireVars
  <2>2. unsavedRooms' \in Nat /\ (unsavedRooms' = 0 => unsavedRooms = 0) BY <1>0, <2>1, FailedSave
  <2>3. RoomsOK' BY <1>1, <2>1, <2>2 DEF RoomsOK, Command
  <2>4. OfflineInv' BY <2>1 DEF OfflineInv
  <2>5. \A q \in Room : Leaves(q) => Leaves(q)' BY <2>1 DEF Leaves
  <2> QED BY <2>1, <2>2, <2>3, <2>4, <2>5, NothingHeard
<1>3. CASE R!RequestLeave(r)
  <2>1. /\ hand = <<>> /\ connected /\ hand' \in {<<>>, <<"leave", r>>}
        /\ (R!Saves /\ hand' = <<"leave", r>>) \/ R!FailsToSave
        /\ joined' = joined \ {r} /\ members' = [members EXCEPT ![r] = {}]
        /\ UNCHANGED <<connected, toServer, toClient, presence, visitors>>
    BY <1>3 DEF R!RequestLeave, R!wireVars
  <2>2. /\ unsavedRooms' \in Nat
        /\ unsavedRooms' = 0 => unsavedRooms = 0 /\ hand' = <<"leave", r>>
    BY <1>0, <2>1, FailedSave DEF R!FailsToSave
  <2>3. members' \in [Room -> SUBSET Visitor] BY <1>1, <2>1 DEF RoomsOK
  <2>4. RoomsOK' BY <1>1, <2>1, <2>2, <2>3 DEF RoomsOK, Command
  <2>5. OfflineInv' BY <2>1 DEF OfflineInv
  <2>6. ASSUME NEW q \in Room, unsavedRooms' = 0, ~Leaves(q)'
        PROVE  ~Leaves(q) /\ (q \in joined' <=> q \in joined) /\ members'[q] = members[q]
    <3>1. q # r BY <2>2, <2>6 DEF Leaves
    <3>2. ~Leaves(q) BY <2>1, <2>6 DEF Leaves
    <3> QED BY <1>1, <2>1, <3>1, <3>2 DEF RoomsOK
  <2> QED BY <2>1, <2>2, <2>4, <2>5, <2>6, NothingHeard
<1>4. CASE R!SendRoomCommand
  <2>1. /\ hand # <<>> /\ hand' = <<>>
        /\ toServer' = IF connected THEN Append(toServer, hand) ELSE toServer
        /\ UNCHANGED <<connected, joined, members, toClient, presence, visitors, unsavedRooms>>
    BY <1>4 DEF R!SendRoomCommand, R!runtimeVars
  <2>2. hand \in Command /\ toServer \in Seq(Command) BY <1>1, <2>1 DEF RoomsOK
  <2>3. RoomsOK' BY <1>1, <2>1, <2>2 DEF RoomsOK
  <2>4. OfflineInv' BY <1>1, <2>1 DEF OfflineInv
  <2>5. CASE connected
    <3>1. toServer' = Append(toServer, hand) BY <2>1, <2>5
    <3>2. \A q \in Room : Leaves(q) => Leaves(q)' BY <2>2, <3>1, Appended DEF Leaves
    <3> QED BY <2>1, <2>3, <2>4, <3>2, NothingHeard
  <2>6. CASE ~connected
    <3>1. toClient = <<>> /\ joined = {} /\ presence = {} /\ \A q \in Room : members[q] = {}
      BY <1>1, <2>6 DEF OfflineInv
    <3>2. ASSUME NEW q \in Room PROVE WeFollow(q)'
      BY <2>1, <3>1, EmptyTells DEF WeFollow, Mirrors
    <3>3. ASSUME NEW q \in Room, NEW v \in Visitor PROVE VisitorsFollow(q, v)'
      BY <2>1, <3>1, EmptyTells DEF VisitorsFollow, Mirrors
    <3> QED BY <2>3, <2>4, <3>2, <3>3 DEF RoomsInv
  <2> QED BY <2>5, <2>6
<1>5. CASE \E favorite \in BOOLEAN : R!SetFavorite(r, favorite)
  <2>1. /\ R!Saves \/ R!FailsToSave
        /\ UNCHANGED <<connected, joined, members, toServer, toClient, presence, visitors, hand>>
    BY <1>5 DEF R!SetFavorite, R!runtimeVars, R!wireVars
  <2>2. unsavedRooms' \in Nat /\ (unsavedRooms' = 0 => unsavedRooms = 0) BY <1>0, <2>1, FailedSave
  <2>3. RoomsOK' BY <1>1, <2>1, <2>2 DEF RoomsOK
  <2>4. OfflineInv' BY <1>1, <2>1 DEF OfflineInv
  <2>5. \A q \in Room : Leaves(q) => Leaves(q)' BY <2>1 DEF Leaves
  <2> QED BY <2>1, <2>2, <2>3, <2>4, <2>5, NothingHeard
<1> QED BY <1>2, <1>3, <1>4, <1>5

(* The server answers a command or tells of a visitor.                     *)
LEMMA ServerSteps ==
  ASSUME RoomsInv, NEW r \in Room,
         R!Answers \/ R!SomebodySpeaks(r) \/ \E v \in Visitor : R!VisitorMoves(r, v)
  PROVE  RoomsInv'
<1>1. RoomsOK /\ OfflineInv BY DEF RoomsInv
<1>2. toClient \in Seq(RoomFrame) BY <1>1 DEF RoomsOK
<1>3. CASE R!Answers
  <2>1. toServer # <<>> BY <1>3 DEF R!Answers
  <2>2. connected BY <1>1, <2>1 DEF OfflineInv
  <2>3. PICK kind \in {"join", "leave"}, q \in Room : Head(toServer) = <<kind, q>>
    BY <1>1, <2>1 DEF RoomsOK, Command
  <2> DEFINE f == IF kind = "join" THEN <<"joined", q, visitors[q]>> ELSE <<"left", q, {}>>
  <2>4. /\ presence' = IF kind = "join" THEN presence \cup {q} ELSE presence \ {q}
        /\ toClient' = Append(toClient, f) /\ toServer' = Tail(toServer)
        /\ UNCHANGED <<connected, joined, members, visitors, hand, unsavedRooms>>
    <3>1. Head(toServer)[1] = kind /\ Head(toServer)[2] = q BY <2>3
    <3>2. presence' = IF kind = "join" THEN presence \cup {q} ELSE presence \ {q}
      BY <1>3, <3>1 DEF R!Answers
    <3>3. toClient' = Append(toClient, f)
      BY <1>3, <3>1 DEF R!Answers
    <3> QED BY <1>3, <3>2, <3>3 DEF R!Answers, R!runtimeVars
  <2>5. /\ f \in RoomFrame /\ f[2] = q /\ f[1] = (IF kind = "join" THEN "joined" ELSE "left")
        /\ kind = "join" => f[3] = visitors[q]
    BY <1>1 DEF RoomsOK, RoomFrame
  <2> HIDE DEF f
  <2>6. RoomsOK'
    <3>1. toServer' \in Seq(Command) BY <1>1, <2>1, <2>4, TailOf DEF RoomsOK
    <3>2. toClient' \in Seq(RoomFrame) BY <1>2, <2>4, <2>5
    <3> QED BY <1>1, <2>4, <3>1, <3>2 DEF RoomsOK
  <2>7. OfflineInv' BY <2>2, <2>4 DEF OfflineInv
  <2>8. ASSUME NEW p \in Room, p # q PROVE Leaves(p) => Leaves(p)'
    <3>1. ASSUME NEW i \in DOMAIN toServer, toServer[i] = <<"leave", p>>
          PROVE  \E j \in DOMAIN Tail(toServer) : Tail(toServer)[j] = <<"leave", p>>
      <4>1. i # 1 BY <1>1, <2>1, <2>3, <2>8, <3>1, TailOf DEF RoomsOK
      <4>2. i - 1 \in DOMAIN Tail(toServer) /\ Tail(toServer)[i - 1] = toServer[i]
        BY <1>1, <2>1, <4>1, TailOf DEF RoomsOK
      <4> QED BY <3>1, <4>2
    <3> QED BY <2>4, <3>1 DEF Leaves
  <2>9. ASSUME NEW p \in Room PROVE WeFollow(p)'
    <3>1. CASE p = q
      <4>1. f \in AboutUs(p) /\ (p \in presence' <=> f \in WeAreIn(p))
        BY <2>4, <2>5, <3>1, FrameTopics
      <4>2. Mirrors(Append(toClient, f), unsavedRooms, AboutUs(p), WeAreIn(p), Leaves(p)',
                    p \in presence', p \in joined)
        BY <1>2, <2>5, <4>1, AnswerFrame
      <4> QED BY <2>4, <4>2 DEF WeFollow
    <3>2. CASE p # q
      <4>1. f \notin AboutUs(p) /\ (p \in presence' <=> p \in presence) /\ (~Leaves(p)' => ~Leaves(p))
        BY <2>4, <2>5, <2>8, <3>2, FrameTopics
      <4>2. Mirrors(toClient, unsavedRooms, AboutUs(p), WeAreIn(p), Leaves(p), p \in presence, p \in joined)
        BY DEF RoomsInv, WeFollow
      <4>3. Mirrors(Append(toClient, f), unsavedRooms, AboutUs(p), WeAreIn(p), Leaves(p)',
                    p \in presence', p \in joined)
        BY <1>2, <2>5, <4>1, <4>2, OtherFrame
      <4> QED BY <2>4, <4>3 DEF WeFollow
    <3> QED BY <3>1, <3>2
  <2>10. ASSUME NEW p \in Room, NEW v \in Visitor PROVE VisitorsFollow(p, v)'
    <3>1. CASE p = q
      <4>1. /\ f \in About(p, v)
            /\ (p \in presence' /\ v \in visitors[p]) <=> f \in IsThere(p, v)
        BY <2>4, <2>5, <3>1, FrameTopics
      <4>2. Mirrors(Append(toClient, f), unsavedRooms, About(p, v), IsThere(p, v), Leaves(p)',
                    p \in presence' /\ v \in visitors[p], v \in members[p])
        BY <1>2, <2>5, <4>1, AnswerFrame
      <4> QED BY <2>4, <4>2 DEF VisitorsFollow
    <3>2. CASE p # q
      <4>1. /\ f \notin About(p, v) /\ (~Leaves(p)' => ~Leaves(p))
            /\ (p \in presence' /\ v \in visitors[p]) <=> (p \in presence /\ v \in visitors[p])
        BY <2>4, <2>5, <2>8, <3>2, FrameTopics
      <4>2. Mirrors(toClient, unsavedRooms, About(p, v), IsThere(p, v), Leaves(p),
                    p \in presence /\ v \in visitors[p], v \in members[p])
        BY DEF RoomsInv, VisitorsFollow
      <4>3. Mirrors(Append(toClient, f), unsavedRooms, About(p, v), IsThere(p, v), Leaves(p)',
                    p \in presence' /\ v \in visitors[p], v \in members[p])
        BY <1>2, <2>5, <4>1, <4>2, OtherFrame
      <4> QED BY <2>4, <4>3 DEF VisitorsFollow
    <3> QED BY <3>1, <3>2
  <2> QED BY <2>6, <2>7, <2>9, <2>10 DEF RoomsInv
<1>4. CASE R!SomebodySpeaks(r)
  <2> DEFINE f == <<"says", r, {}>>
  <2>1. /\ r \in presence /\ toClient' = Append(toClient, f)
        /\ UNCHANGED <<connected, joined, members, toServer, presence, visitors, hand, unsavedRooms>>
    BY <1>4 DEF R!SomebodySpeaks, R!runtimeVars
  <2>2. f \in RoomFrame /\ f[1] = "says" BY DEF RoomFrame
  <2> HIDE DEF f
  <2>3. toClient' \in Seq(RoomFrame) BY <1>2, <2>1, <2>2
  <2>4. RoomsOK' BY <1>1, <2>1, <2>3 DEF RoomsOK
  <2>5. OfflineInv' BY <1>1, <2>1 DEF OfflineInv
  <2>6. \A p \in Room : Leaves(p)' = Leaves(p) BY <2>1 DEF Leaves
  <2>7. ASSUME NEW p \in Room PROVE WeFollow(p)'
    <3>1. Mirrors(toClient, unsavedRooms, AboutUs(p), WeAreIn(p), Leaves(p), p \in presence, p \in joined)
      BY DEF RoomsInv, WeFollow
    <3>2. f \notin AboutUs(p) BY <2>2, FrameTopics
    <3>3. Mirrors(Append(toClient, f), unsavedRooms, AboutUs(p), WeAreIn(p), Leaves(p), p \in presence, p \in joined)
      BY <1>2, <2>2, <3>1, <3>2, OtherFrame
    <3> QED BY <2>1, <2>6, <3>3 DEF WeFollow
  <2>8. ASSUME NEW p \in Room, NEW v \in Visitor PROVE VisitorsFollow(p, v)'
    <3>1. Mirrors(toClient, unsavedRooms, About(p, v), IsThere(p, v), Leaves(p),
                  p \in presence /\ v \in visitors[p], v \in members[p])
      BY DEF RoomsInv, VisitorsFollow
    <3>2. f \notin About(p, v) BY <2>2, FrameTopics
    <3>3. Mirrors(Append(toClient, f), unsavedRooms, About(p, v), IsThere(p, v), Leaves(p),
                  p \in presence /\ v \in visitors[p], v \in members[p])
      BY <1>2, <2>2, <3>1, <3>2, OtherFrame
    <3> QED BY <2>1, <2>6, <3>3 DEF VisitorsFollow
  <2> QED BY <2>4, <2>5, <2>7, <2>8 DEF RoomsInv
<1>5. ASSUME NEW w \in Visitor, R!VisitorMoves(r, w) PROVE RoomsInv'
  <2> DEFINE f == <<IF w \in visitors[r] THEN "goes" ELSE "comes", r, {w}>>
  <2>1. /\ visitors' = [visitors EXCEPT ![r] = IF w \in @ THEN @ \ {w} ELSE @ \cup {w}]
        /\ toClient' = IF r \in presence THEN Append(toClient, f) ELSE toClient
        /\ UNCHANGED <<connected, joined, members, toServer, presence, hand, unsavedRooms>>
    BY <1>5 DEF R!VisitorMoves, R!runtimeVars
  <2>2. /\ f \in RoomFrame /\ f[2] = r /\ f[3] = {w}
        /\ f[1] = IF w \in visitors[r] THEN "goes" ELSE "comes"
    BY DEF RoomFrame
  <2> HIDE DEF f
  <2>3. /\ visitors' \in [Room -> SUBSET Visitor]
        /\ \A p \in Room : p # r => visitors'[p] = visitors[p]
        /\ \A v \in Visitor : v # w => (v \in visitors'[r] <=> v \in visitors[r])
        /\ w \in visitors'[r] <=> w \notin visitors[r]
    BY <1>1, <2>1 DEF RoomsOK
  <2>4. toClient' \in Seq(RoomFrame) BY <1>2, <2>1, <2>2
  <2>5. RoomsOK' BY <1>1, <2>1, <2>3, <2>4 DEF RoomsOK
  <2>6. OfflineInv' BY <1>1, <2>1 DEF OfflineInv
  <2>7. \A p \in Room : Leaves(p)' = Leaves(p) BY <2>1 DEF Leaves
  <2>8. ASSUME NEW p \in Room PROVE WeFollow(p)'
    <3>1. Mirrors(toClient, unsavedRooms, AboutUs(p), WeAreIn(p), Leaves(p), p \in presence, p \in joined)
      BY DEF RoomsInv, WeFollow
    <3>2. f \notin AboutUs(p) BY <2>2, FrameTopics
    <3>3. Mirrors(Append(toClient, f), unsavedRooms, AboutUs(p), WeAreIn(p), Leaves(p), p \in presence, p \in joined)
      BY <1>2, <2>2, <3>1, <3>2, OtherFrame
    <3> QED BY <2>1, <2>7, <3>1, <3>3 DEF WeFollow
  <2>9. ASSUME NEW p \in Room, NEW v \in Visitor PROVE VisitorsFollow(p, v)'
    <3>1. Mirrors(toClient, unsavedRooms, About(p, v), IsThere(p, v), Leaves(p),
                  p \in presence /\ v \in visitors[p], v \in members[p])
      BY DEF RoomsInv, VisitorsFollow
    <3>2. CASE p = r /\ v = w /\ r \in presence
      <4>1. f \in About(p, v) /\ ((p \in presence /\ v \in visitors'[p]) <=> f \in IsThere(p, v))
        BY <2>2, <2>3, <3>2, FrameTopics
      <4>2. Mirrors(Append(toClient, f), unsavedRooms, About(p, v), IsThere(p, v), Leaves(p),
                    p \in presence /\ v \in visitors'[p], v \in members[p])
        BY <1>2, <2>2, <4>1, AnswerFrame
      <4> QED BY <2>1, <2>7, <3>2, <4>2 DEF VisitorsFollow
    <3>3. CASE r \notin presence
      <4>1. (p \in presence /\ v \in visitors'[p]) <=> (p \in presence /\ v \in visitors[p])
        BY <2>3, <3>3
      <4>2. Mirrors(toClient, unsavedRooms, About(p, v), IsThere(p, v), Leaves(p),
                    p \in presence /\ v \in visitors'[p], v \in members[p])
        BY <3>1, <4>1, StaysMirrored
      <4> QED BY <2>1, <2>7, <3>3, <4>2 DEF VisitorsFollow
    <3>4. CASE r \in presence /\ ~(p = r /\ v = w)
      <4>1. /\ (p \in presence /\ v \in visitors'[p]) <=> (p \in presence /\ v \in visitors[p])
            /\ f \notin About(p, v)
        BY <2>2, <2>3, <3>4, FrameTopics
      <4>2. Mirrors(Append(toClient, f), unsavedRooms, About(p, v), IsThere(p, v), Leaves(p),
                    p \in presence /\ v \in visitors'[p], v \in members[p])
        BY <1>2, <2>2, <3>1, <4>1, OtherFrame
      <4> QED BY <2>1, <2>7, <3>4, <4>2 DEF VisitorsFollow
    <3> QED BY <3>2, <3>3, <3>4
  <2> QED BY <2>5, <2>6, <2>8, <2>9 DEF RoomsInv
<1> QED BY <1>3, <1>4, <1>5

(* The session takes a frame.                                              *)
LEMMA FrameSteps ==
  ASSUME RoomsInv, NEW r \in Room,
         R!Joined(r) \/ R!Left(r) \/ R!UserJoined(r) \/ R!UserLeft(r) \/ R!RecordMessage(r)
  PROVE  RoomsInv'
<1>1. RoomsOK /\ OfflineInv BY DEF RoomsInv
<1> DEFINE f == Head(toClient)
<1>2. /\ toClient # <<>> /\ toClient' = Tail(toClient) /\ f[2] = r
      /\ UNCHANGED <<connected, toServer, presence, visitors, hand>>
  BY DEF R!Joined, R!Left, R!UserJoined, R!UserLeft, R!RecordMessage, R!Frame
<1>3. f \in RoomFrame /\ toClient' \in Seq(RoomFrame) BY <1>1, <1>2, TailOf DEF RoomsOK
<1>4. f[3] \in SUBSET Visitor BY <1>3 DEF RoomFrame
<1>5. connected BY <1>1, <1>2 DEF OfflineInv
<1>6. OfflineInv' BY <1>2, <1>5 DEF OfflineInv
<1>7. unsavedRooms' \in Nat /\ (unsavedRooms' = 0 => unsavedRooms = 0)
  BY <1>1, FailedSave DEF RoomsOK, R!Joined, R!Left, R!UserJoined, R!UserLeft, R!RecordMessage
<1>8. CASE R!Joined(r)
  <2>1. f[1] = "joined" /\ joined' = joined \cup {r} /\ members' = [members EXCEPT ![r] = f[3]]
    BY <1>8 DEF R!Joined, R!Frame
  <2> HIDE DEF f
  <2>2. RoomsOK' BY <1>1, <1>2, <1>3, <1>4, <1>7, <2>1 DEF RoomsOK
  <2>3. \A p \in Room : /\ f \in AboutUs(p) => (p \in joined' <=> f \in WeAreIn(p))
                        /\ f \notin AboutUs(p) => (p \in joined' <=> p \in joined)
    BY <1>2, <1>3, <2>1, FrameTopics
  <2>4. \A p \in Room, v \in Visitor :
          /\ f \in About(p, v) => (v \in members'[p] <=> f \in IsThere(p, v))
          /\ f \notin About(p, v) => (v \in members'[p] <=> v \in members[p])
    BY <1>1, <1>2, <1>3, <2>1, FrameTopics DEF RoomsOK
  <2> QED BY <1>2, <1>6, <1>7, <2>2, <2>3, <2>4, FrameHeard DEF f
<1>9. CASE R!Left(r)
  <2>1. f[1] = "left" /\ joined' = joined \ {r} /\ members' = [members EXCEPT ![r] = {}]
    BY <1>9 DEF R!Left, R!Frame
  <2> HIDE DEF f
  <2>2. RoomsOK' BY <1>1, <1>2, <1>3, <1>4, <1>7, <2>1 DEF RoomsOK
  <2>3. \A p \in Room : /\ f \in AboutUs(p) => (p \in joined' <=> f \in WeAreIn(p))
                        /\ f \notin AboutUs(p) => (p \in joined' <=> p \in joined)
    BY <1>2, <1>3, <2>1, FrameTopics
  <2>4. \A p \in Room, v \in Visitor :
          /\ f \in About(p, v) => (v \in members'[p] <=> f \in IsThere(p, v))
          /\ f \notin About(p, v) => (v \in members'[p] <=> v \in members[p])
    BY <1>1, <1>2, <1>3, <2>1, FrameTopics DEF RoomsOK
  <2> QED BY <1>2, <1>6, <1>7, <2>2, <2>3, <2>4, FrameHeard DEF f
<1>10. CASE R!UserJoined(r)
  <2>1. f[1] = "comes" /\ joined' = joined /\ members' = [members EXCEPT ![r] = @ \cup f[3]]
    BY <1>10 DEF R!UserJoined, R!Frame
  <2> HIDE DEF f
  <2>2. RoomsOK' BY <1>1, <1>2, <1>3, <1>4, <1>7, <2>1 DEF RoomsOK
  <2>3. \A p \in Room : /\ f \in AboutUs(p) => (p \in joined' <=> f \in WeAreIn(p))
                        /\ f \notin AboutUs(p) => (p \in joined' <=> p \in joined)
    BY <1>2, <1>3, <2>1, FrameTopics
  <2>4. \A p \in Room, v \in Visitor :
          /\ f \in About(p, v) => (v \in members'[p] <=> f \in IsThere(p, v))
          /\ f \notin About(p, v) => (v \in members'[p] <=> v \in members[p])
    BY <1>1, <1>2, <1>3, <2>1, FrameTopics DEF RoomsOK
  <2> QED BY <1>2, <1>6, <1>7, <2>2, <2>3, <2>4, FrameHeard DEF f
<1>11. CASE R!UserLeft(r)
  <2>1. f[1] = "goes" /\ joined' = joined /\ members' = [members EXCEPT ![r] = @ \ f[3]]
    BY <1>11 DEF R!UserLeft, R!Frame
  <2> HIDE DEF f
  <2>2. RoomsOK' BY <1>1, <1>2, <1>3, <1>4, <1>7, <2>1 DEF RoomsOK
  <2>3. \A p \in Room : /\ f \in AboutUs(p) => (p \in joined' <=> f \in WeAreIn(p))
                        /\ f \notin AboutUs(p) => (p \in joined' <=> p \in joined)
    BY <1>2, <1>3, <2>1, FrameTopics
  <2>4. \A p \in Room, v \in Visitor :
          /\ f \in About(p, v) => (v \in members'[p] <=> f \in IsThere(p, v))
          /\ f \notin About(p, v) => (v \in members'[p] <=> v \in members[p])
    BY <1>1, <1>2, <1>3, <2>1, FrameTopics DEF RoomsOK
  <2> QED BY <1>2, <1>6, <1>7, <2>2, <2>3, <2>4, FrameHeard DEF f
<1>12. CASE R!RecordMessage(r)
  <2>1. f[1] = "says" /\ joined' = joined /\ members' = members
    BY <1>12 DEF R!RecordMessage, R!Frame
  <2> HIDE DEF f
  <2>2. RoomsOK' BY <1>1, <1>2, <1>3, <1>7, <2>1 DEF RoomsOK
  <2>3. \A p \in Room : f \notin AboutUs(p) /\ \A v \in Visitor : f \notin About(p, v)
    BY <1>3, <2>1, FrameTopics
  <2> QED BY <1>2, <1>6, <1>7, <2>1, <2>2, <2>3, FrameHeard DEF f
<1> QED BY <1>8, <1>9, <1>10, <1>11, <1>12

LEMMA RoomsInitInv == R!RoomsInit => RoomsInv
<1> SUFFICES ASSUME R!RoomsInit PROVE RoomsInv OBVIOUS
<1>1. /\ connected = FALSE /\ joined = {} /\ presence = {} /\ toServer = <<>> /\ toClient = <<>>
      /\ members = [r \in Room |-> {}] /\ visitors = [r \in Room |-> {}]
      /\ hand = <<>> /\ unsavedRooms = 0
  BY DEF R!RoomsInit
<1>2. FALSE \in BOOLEAN OBVIOUS
<1>3. members \in [Room -> SUBSET Visitor] /\ visitors \in [Room -> SUBSET Visitor] BY <1>1
<1>4. RoomsOK
  <2>1. <<>> \in Seq(Command) /\ <<>> \in Seq(RoomFrame) /\ hand \in Command \cup {<<>>} BY <1>1
  <2> QED BY <1>1, <1>2, <1>3, <2>1 DEF RoomsOK
<1>5. OfflineInv BY <1>1 DEF OfflineInv
<1>6. ASSUME NEW r \in Room PROVE WeFollow(r)
  BY <1>1, EmptyTells DEF WeFollow, Mirrors
<1>7. ASSUME NEW r \in Room, NEW v \in Visitor PROVE VisitorsFollow(r, v)
  BY <1>1, EmptyTells DEF VisitorsFollow, Mirrors
<1> QED BY <1>4, <1>5, <1>6, <1>7 DEF RoomsInv

LEMMA AlwaysRooms ==
  ASSUME IsFiniteSet(Room)
  PROVE  StoresSpec => []RoomsInv
<1>1. StoresInit => RoomsInv BY RoomsInitInv DEF StoresInit
<1>2. [StoresNext]_allVars => [R!RoomsNext]_roomVars
  BY DEF StoresNext, JsonNext, MessagesNext, RoomsNext, PeopleNext, RadarNext, FilingNext, SharesNext,
         allVars, libraryVars
<1>3. RoomsInv /\ [R!RoomsNext]_roomVars => RoomsInv'
  <2> SUFFICES ASSUME RoomsInv, [R!RoomsNext]_roomVars PROVE RoomsInv' OBVIOUS
  <2>1. CASE UNCHANGED roomVars
    <3>1. UNCHANGED <<connected, joined, members, toServer, toClient, presence, visitors, hand, unsavedRooms>>
      BY <2>1 DEF roomVars
    <3>2. RoomsOK' /\ OfflineInv' BY <3>1 DEF RoomsInv, RoomsOK, OfflineInv
    <3>3. \A r \in Room : Leaves(r)' = Leaves(r) BY <3>1 DEF Leaves
    <3> QED BY <3>1, <3>2, <3>3, NothingHeard
  <2>2. CASE R!Answers \/ R!SendRoomCommand
    <3>1. PICK r \in Room : TRUE
      <4>1. R!Answers => Head(toServer) \in Command
        BY TailOf DEF R!Answers, RoomsInv, RoomsOK
      <4>2. R!SendRoomCommand => hand \in Command BY DEF R!SendRoomCommand, RoomsInv, RoomsOK
      <4> QED BY <2>2, <4>1, <4>2 DEF Command
    <3> QED BY <2>2, <3>1, UserSteps, ServerSteps
  <2>3. CASE R!Connects \/ R!Disconnects \/ R!RoomsRestart BY <2>3, ConnectionSteps
  <2>4. ASSUME NEW r \in Room,
               \/ R!RequestJoin(r) \/ R!RequestLeave(r) \/ R!SomebodySpeaks(r)
               \/ R!Joined(r) \/ R!Left(r) \/ R!UserJoined(r) \/ R!UserLeft(r) \/ R!RecordMessage(r)
               \/ \E favorite \in BOOLEAN : R!SetFavorite(r, favorite)
               \/ \E v \in Visitor : R!VisitorMoves(r, v)
        PROVE  RoomsInv'
    BY <2>4, UserSteps, ServerSteps, FrameSteps
  <2> QED BY <2>1, <2>2, <2>3, <2>4 DEF R!RoomsNext
<1> QED BY <1>1, <1>2, <1>3, PTL DEF StoresSpec

(* When no frame and no command is under way and every save has worked,    *)
(* the rooms the user sees as joined are those the server has us in, and   *)
(* the members listed are those who are there; for any rooms, visitors and *)
(* limits, however commands, answers, visitors and sessions come and go    *)
(* (rooms.rs).                                                             *)
THEOREM RoomsStayMirrored ==
  ASSUME IsFiniteSet(Room)
  PROVE  StoresSpec => []RoomsMirrorServer
<1>1. ASSUME RoomsInv, R!Quiet, unsavedRooms = 0
      PROVE  /\ joined = presence
             /\ \A r \in Room : members[r] = IF r \in presence THEN visitors[r] ELSE {}
  <2>1. /\ toClient = <<>> /\ joined \subseteq Room /\ presence \subseteq Room
        /\ members \in [Room -> SUBSET Visitor] /\ visitors \in [Room -> SUBSET Visitor]
        /\ \A r \in Room : ~Leaves(r)
    BY <1>1 DEF R!Quiet, RoomsInv, RoomsOK, Leaves
  <2>2. \A Says : Silent(toClient, Says) BY <2>1 DEF Silent
  <2>3. \A r \in Room : r \in joined <=> r \in presence
    BY <1>1, <2>1, <2>2 DEF RoomsInv, WeFollow, Mirrors
  <2>4. \A r \in Room, v \in Visitor : v \in members[r] <=> r \in presence /\ v \in visitors[r]
    BY <1>1, <2>1, <2>2 DEF RoomsInv, VisitorsFollow, Mirrors
  <2>5. ASSUME NEW r \in Room PROVE members[r] = IF r \in presence THEN visitors[r] ELSE {}
    <3>1. members[r] \subseteq Visitor /\ visitors[r] \subseteq Visitor BY <2>1
    <3> QED BY <2>4, <3>1
  <2> QED BY <2>1, <2>3, <2>5
<1>2. RoomsInv => RoomsMirrorServer
  BY <1>1 DEF RoomsMirrorServer, R!JoinedAgreesWithServer, R!MembersMirrorServer
<1> QED BY <1>2, AlwaysRooms, PTL

-----------------------------------------------------------------------------
(* Private messages.                                                       *)

QueuedIn(c) == {c.messages[k].id : k \in {k \in DOMAIN c.messages : c.messages[k].delivery = "queued"}}

(* A store in memory or on disk: one conversation for a peer, a message in *)
(* one conversation only, counts that agree, and no id from the future.    *)
Inbox(s, last) ==
  /\ s \in Seq(M!Conversation)
  /\ \A i, j \in DOMAIN s : s[i].peer = s[j].peer => i = j
  /\ \A i, j \in DOMAIN s : M!IdsOf(s[i]) \cap M!IdsOf(s[j]) # {} => i = j
  /\ \A i \in DOMAIN s : s[i].unread = M!UnreadOf(s[i].messages)
  /\ \A i \in DOMAIN s : M!IdsOf(s[i]) \subseteq Incoming \cup 1 .. last

MessagesOK ==
  /\ sent \in 0 .. MaxOutgoing /\ writing \in 0 .. MaxOutgoing
  /\ outbox \in Seq(1 .. MaxOutgoing) /\ toAck \subseteq Incoming
  /\ Inbox(inbox, sent) /\ Inbox(saved, sent)

(* What was acknowledged, or will be, and where it is.                     *)
Safe(id) == id \in M!Known(saved) \cup erased \cup unsaved
AckInv ==
  /\ M!Known(saved) \subseteq M!Known(inbox) \cup erased
  /\ M!Known(inbox) \cap Incoming \subseteq M!Known(saved) \cup unsaved
  /\ erased \cap M!Known(inbox) \cap Incoming \subseteq M!Known(saved)
  /\ \A id \in Incoming : id \in toAck \/ id \notin held => Safe(id)

MessagesInv == MessagesOK /\ M!QueuedIsUnderWay /\ AckInv

-----------------------------------------------------------------------------
LEMMA KnownIds ==
  ASSUME NEW s, NEW id
  PROVE  id \in M!Known(s) <=> \E i \in DOMAIN s : id \in M!IdsOf(s[i])
BY DEF M!Known, M!Range

LEMMA IdsOfMessages ==
  ASSUME NEW c, NEW id
  PROVE  id \in M!IdsOf(c) <=> \E k \in DOMAIN c.messages : id = c.messages[k].id
BY DEF M!IdsOf, M!Range

LEMMA QueuedMessages ==
  ASSUME NEW s, NEW id
  PROVE  id \in M!QueuedIds(s) <=> \E i \in DOMAIN s : id \in QueuedIn(s[i])
<1>1. id \in M!QueuedIds(s) <=>
        \E i \in DOMAIN s : \E k \in DOMAIN s[i].messages :
           s[i].messages[k].delivery = "queued" /\ id = s[i].messages[k].id
  BY DEF M!QueuedIds, M!Range
<1> QED BY <1>1 DEF QueuedIn

LEMMA QueuedAreIds ==
  ASSUME NEW c
  PROVE  QueuedIn(c) \subseteq M!IdsOf(c)
BY IdsOfMessages DEF QueuedIn

LEMMA MessageCardinality == \A S : M!Cardinality(S) = Cardinality(S)
BY DEF M!Cardinality, Cardinality

LEMMA Removed ==
  ASSUME NEW X, NEW s \in Seq(X), NEW k \in 1 .. Len(s)
  PROVE  /\ M!RemoveAt(s, k) \in Seq(X) /\ Len(M!RemoveAt(s, k)) = Len(s) - 1
         /\ \A i \in 1 .. Len(s) - 1 : M!RemoveAt(s, k)[i] = IF i < k THEN s[i] ELSE s[i + 1]
<1> DEFINE a == SubSeq(s, 1, k - 1)
           b == SubSeq(s, k + 1, Len(s))
<1>1. a \in Seq(X) /\ Len(a) = k - 1 /\ \A i \in 1 .. k - 1 : a[i] = s[i] OBVIOUS
<1>2. b \in Seq(X) /\ Len(b) = Len(s) - k /\ \A i \in 1 .. Len(s) - k : b[i] = s[k + i] OBVIOUS
<1>3. M!RemoveAt(s, k) = a \o b BY DEF M!RemoveAt
<1> HIDE DEF a, b
<1>4. a \o b \in Seq(X) /\ Len(a \o b) = Len(s) - 1
  <2>1. a \in Seq(X) /\ b \in Seq(X) BY <1>1, <1>2
  <2>2. a \o b \in Seq(X) /\ Len(a \o b) = Len(a) + Len(b) BY <2>1
  <2>3. (k - 1) + (Len(s) - k) = Len(s) - 1 OBVIOUS
  <2> QED BY <1>1, <1>2, <2>2, <2>3
<1>5. ASSUME NEW i \in 1 .. Len(s) - 1 PROVE (a \o b)[i] = IF i < k THEN s[i] ELSE s[i + 1]
  <2>1. (a \o b)[i] = IF i <= Len(a) THEN a[i] ELSE b[i - Len(a)] BY <1>1, <1>2
  <2>2. CASE i < k BY <1>1, <2>1, <2>2
  <2>3. CASE ~(i < k)
    <3>1. i - (k - 1) \in 1 .. Len(s) - k /\ k + (i - (k - 1)) = i + 1 BY <2>3
    <3>2. ~(i <= k - 1) BY <2>3
    <3>3. (a \o b)[i] = b[i - (k - 1)] BY <1>1, <2>1, <3>2
    <3>4. b[i - (k - 1)] = s[k + (i - (k - 1))] BY <1>2, <3>1
    <3> QED BY <2>3, <3>1, <3>3, <3>4
  <2> QED BY <2>2, <2>3
<1> QED BY <1>3, <1>4, <1>5

(* The other conversations, each at one place.                             *)
LEMMA Others ==
  ASSUME NEW n, Inbox(inbox, n), NEW peer
  PROVE  /\ M!Without(peer) \in Seq(M!Conversation)
         /\ \E from \in [DOMAIN M!Without(peer) -> DOMAIN inbox] :
              /\ \A i \in DOMAIN M!Without(peer) : /\ M!Without(peer)[i] = inbox[from[i]]
                                                  /\ inbox[from[i]].peer # peer
              /\ \A i, j \in DOMAIN M!Without(peer) : from[i] = from[j] => i = j
<1> DEFINE W == M!Without(peer)
<1>1. inbox \in Seq(M!Conversation) /\ \A i, j \in DOMAIN inbox : inbox[i].peer = inbox[j].peer => i = j
  BY DEF Inbox
<1>2. CASE ~M!Has(peer)
  <2>1. W = inbox BY <1>2 DEF M!Without
  <2>2. \A i \in DOMAIN inbox : inbox[i].peer # peer BY <1>2 DEF M!Has
  <2>3. [i \in DOMAIN inbox |-> i] \in [DOMAIN W -> DOMAIN inbox] BY <2>1
  <2> QED BY <1>1, <2>1, <2>2, <2>3
<1>3. CASE M!Has(peer)
  <2>1. PICK k : k \in DOMAIN inbox /\ inbox[k].peer = peer /\ W = M!RemoveAt(inbox, k)
    <3>1. \E k \in DOMAIN inbox : inbox[k].peer = peer BY <1>3 DEF M!Has
    <3> DEFINE k == CHOOSE i \in DOMAIN inbox : inbox[i].peer = peer
    <3>2. k \in DOMAIN inbox /\ inbox[k].peer = peer BY <3>1
    <3>3. W = M!RemoveAt(inbox, k) BY <1>3 DEF M!Without
    <3> QED BY <3>2, <3>3
  <2>2. k \in 1 .. Len(inbox) BY <1>1, <2>1
  <2>3. /\ W \in Seq(M!Conversation) /\ Len(W) = Len(inbox) - 1
        /\ \A i \in 1 .. Len(inbox) - 1 : W[i] = IF i < k THEN inbox[i] ELSE inbox[i + 1]
    <3>1. inbox \in Seq(M!Conversation) BY <1>1
    <3>2. /\ M!RemoveAt(inbox, k) \in Seq(M!Conversation) /\ Len(M!RemoveAt(inbox, k)) = Len(inbox) - 1
          /\ \A i \in 1 .. Len(inbox) - 1 :
               M!RemoveAt(inbox, k)[i] = IF i < k THEN inbox[i] ELSE inbox[i + 1]
      BY <2>2, <3>1, Removed
    <3>3. W = M!RemoveAt(inbox, k) BY <2>1
    <3> HIDE DEF W
    <3> QED BY <3>2, <3>3
  <2> HIDE DEF W
  <2> DEFINE from == [i \in DOMAIN W |-> IF i < k THEN i ELSE i + 1]
  <2>4. DOMAIN W = 1 .. Len(inbox) - 1 /\ DOMAIN inbox = 1 .. Len(inbox) /\ Len(inbox) \in Nat
    BY <1>1, <2>3
  <2>5. ASSUME NEW i \in DOMAIN W
        PROVE  from[i] \in DOMAIN inbox /\ from[i] # k /\ W[i] = inbox[from[i]]
    BY <2>2, <2>3, <2>4
  <2>6. \A i, j \in DOMAIN W : from[i] = from[j] => i = j BY <2>2, <2>4
  <2>7. \A i \in DOMAIN W : inbox[from[i]].peer # peer BY <1>1, <2>1, <2>5
  <2>8. from \in [DOMAIN W -> DOMAIN inbox] BY <2>5
  <2> QED BY <2>3, <2>5, <2>6, <2>7, <2>8 DEF W
<1> QED BY <1>2, <1>3
LEMMA FrontOf ==
  ASSUME NEW n, Inbox(inbox, n), NEW c \in M!Conversation, MaxConversations \in Nat
  PROVE  /\ M!Foremost(c) \in Seq(M!Conversation)
         /\ MaxConversations # 0 => 1 \in DOMAIN M!Foremost(c) /\ M!Foremost(c)[1] = c
         /\ \E from :
              /\ \A i \in DOMAIN M!Foremost(c) :
                   \/ i = 1 /\ M!Foremost(c)[i] = c
                   \/ /\ i # 1 /\ from[i] \in DOMAIN inbox /\ inbox[from[i]].peer # c.peer
                      /\ M!Foremost(c)[i] = inbox[from[i]]
              /\ \A i, j \in DOMAIN M!Foremost(c) : i # 1 /\ j # 1 /\ from[i] = from[j] => i = j
<1> DEFINE W == M!Without(c.peer)
           all == <<c>> \o W
           m == IF Len(all) < MaxConversations THEN Len(all) ELSE MaxConversations
           front == SubSeq(all, 1, m)
<1>1. W \in Seq(M!Conversation) BY Others
<1>2. PICK old \in [DOMAIN W -> DOMAIN inbox] :
         /\ \A i \in DOMAIN W : W[i] = inbox[old[i]] /\ inbox[old[i]].peer # c.peer
         /\ \A i, j \in DOMAIN W : old[i] = old[j] => i = j
  BY Others
<1>3. M!Foremost(c) = front BY DEF M!Foremost
<1> HIDE DEF W
<1>4. /\ all \in Seq(M!Conversation) /\ Len(all) = Len(W) + 1 /\ Len(W) \in Nat /\ all[1] = c
      /\ \A i \in 2 .. Len(W) + 1 : all[i] = W[i - 1]
  BY <1>1
<1> HIDE DEF all
<1>5. m \in 0 .. Len(all) BY <1>4
<1>6. front \in Seq(M!Conversation) /\ DOMAIN front = 1 .. m /\ \A i \in 1 .. m : front[i] = all[i]
  <2> HIDE DEF m
  <2> QED BY <1>4, <1>5
<1> HIDE DEF front
<1> DEFINE from == [i \in DOMAIN front |-> old[i - 1]]
<1>7. ASSUME NEW i \in DOMAIN front
      PROVE  \/ i = 1 /\ front[i] = c
             \/ /\ i # 1 /\ from[i] \in DOMAIN inbox /\ inbox[from[i]].peer # c.peer
                /\ front[i] = inbox[from[i]]
  <2>1. CASE i = 1 BY <1>4, <1>6, <2>1
  <2>2. CASE i # 1
    <3>1. i \in 2 .. Len(W) + 1 BY <1>4, <1>5, <1>6, <2>2
    <3>2. i - 1 \in DOMAIN W BY <1>1, <1>4, <3>1
    <3>3. front[i] = W[i - 1] BY <1>4, <1>6, <3>1
    <3>4. from[i] = old[i - 1] OBVIOUS
    <3> QED BY <1>2, <2>2, <3>2, <3>3, <3>4
  <2> QED BY <2>1, <2>2
<1>8. ASSUME NEW i \in DOMAIN front, NEW j \in DOMAIN front, i # 1, j # 1, from[i] = from[j] PROVE i = j
  <2>1. i \in 2 .. Len(W) + 1 /\ j \in 2 .. Len(W) + 1 BY <1>4, <1>5, <1>6, <1>8
  <2>2. i - 1 \in DOMAIN W /\ j - 1 \in DOMAIN W BY <1>1, <1>4, <2>1
  <2>3. from[i] = old[i - 1] /\ from[j] = old[j - 1] OBVIOUS
  <2>4. i - 1 = j - 1 BY <1>2, <1>8, <2>2, <2>3
  <2> QED BY <2>1, <2>4
<1> HIDE DEF from
<1>9. \E g : /\ \A i \in DOMAIN front :
                  \/ i = 1 /\ front[i] = c
                  \/ /\ i # 1 /\ g[i] \in DOMAIN inbox /\ inbox[g[i]].peer # c.peer
                     /\ front[i] = inbox[g[i]]
             /\ \A i, j \in DOMAIN front : i # 1 /\ j # 1 /\ g[i] = g[j] => i = j
  BY <1>7, <1>8
<1>10. MaxConversations # 0 => 1 \in DOMAIN front /\ front[1] = c BY <1>4, <1>5, <1>6 DEF m
<1> HIDE DEF m
<1> QED BY <1>3, <1>6, <1>9, <1>10

(* A conversation that may take the place of the one with this peer.       *)
Fits(c, last) ==
  /\ c \in M!Conversation /\ c.unread = M!UnreadOf(c.messages)
  /\ M!IdsOf(c) \subseteq Incoming \cup 1 .. last
  /\ \A i \in DOMAIN inbox : inbox[i].peer # c.peer => M!IdsOf(c) \cap M!IdsOf(inbox[i]) = {}

LEMMA ForemostKeeps ==
  ASSUME NEW n \in Nat, NEW last \in Nat, n <= last, Inbox(inbox, n), NEW c, Fits(c, last),
         MaxConversations \in Nat
  PROVE  /\ Inbox(M!Foremost(c), last)
         /\ M!Known(M!Foremost(c)) \subseteq M!Known(inbox) \cup M!IdsOf(c)
         /\ M!QueuedIds(M!Foremost(c)) \subseteq
              QueuedIn(c) \cup UNION {QueuedIn(inbox[i]) : i \in {i \in DOMAIN inbox : inbox[i].peer # c.peer}}
<1> DEFINE front == M!Foremost(c)
<1>1. front \in Seq(M!Conversation) BY FrontOf DEF Fits
<1>2. PICK from :
         /\ \A i \in DOMAIN front :
              \/ i = 1 /\ front[i] = c
              \/ /\ i # 1 /\ from[i] \in DOMAIN inbox /\ inbox[from[i]].peer # c.peer
                 /\ front[i] = inbox[from[i]]
         /\ \A i, j \in DOMAIN front : i # 1 /\ j # 1 /\ from[i] = from[j] => i = j
  BY FrontOf DEF Fits
<1> HIDE DEF front
<1>3. ASSUME NEW i \in DOMAIN front, NEW j \in DOMAIN front, front[i].peer = front[j].peer PROVE i = j
  <2>1. CASE i = 1 \/ j = 1 BY <1>2, <1>3, <2>1
  <2>2. CASE i # 1 /\ j # 1
    <3>1. from[i] = from[j] BY <1>2, <1>3, <2>2 DEF Inbox
    <3> QED BY <1>2, <2>2, <3>1
  <2> QED BY <2>1, <2>2
<1>4. ASSUME NEW i \in DOMAIN front, NEW j \in DOMAIN front, M!IdsOf(front[i]) \cap M!IdsOf(front[j]) # {} PROVE i = j
  <2>1. CASE i = 1 /\ j = 1 BY <2>1
  <2>2. CASE i = 1 /\ j # 1
    <3>1. M!IdsOf(c) \cap M!IdsOf(inbox[from[j]]) = {} BY <1>2, <2>2 DEF Fits
    <3> QED BY <1>2, <1>4, <2>2, <3>1
  <2>3. CASE i # 1 /\ j = 1
    <3>1. M!IdsOf(c) \cap M!IdsOf(inbox[from[i]]) = {} BY <1>2, <2>3 DEF Fits
    <3> QED BY <1>2, <1>4, <2>3, <3>1
  <2>4. CASE i # 1 /\ j # 1
    <3>1. from[i] = from[j] BY <1>2, <1>4, <2>4 DEF Inbox
    <3> QED BY <1>2, <2>4, <3>1
  <2> QED BY <2>1, <2>2, <2>3, <2>4
<1>5. \A i \in DOMAIN front : front[i].unread = M!UnreadOf(front[i].messages) BY <1>2 DEF Fits, Inbox
<1>6. 1 .. n \subseteq 1 .. last OBVIOUS
<1>7. \A i \in DOMAIN front : M!IdsOf(front[i]) \subseteq Incoming \cup 1 .. last BY <1>2, <1>6 DEF Fits, Inbox
<1>8. Inbox(front, last) BY <1>1, <1>3, <1>4, <1>5, <1>7 DEF Inbox
<1>9. M!Known(front) \subseteq M!Known(inbox) \cup M!IdsOf(c) BY <1>2, KnownIds
<1>10. M!QueuedIds(front) \subseteq
         QueuedIn(c) \cup UNION {QueuedIn(inbox[i]) : i \in {i \in DOMAIN inbox : inbox[i].peer # c.peer}}
  BY <1>2, QueuedMessages
<1> QED BY <1>8, <1>9, <1>10 DEF front

(* The same in place: what MarkRead and MarkUnread do.                     *)
LEMMA InPlaceKeeps ==
  ASSUME NEW n \in Nat, Inbox(inbox, n), NEW c, Fits(c, n)
  PROVE  /\ Inbox(M!InPlace(c), n)
         /\ M!Known(M!InPlace(c)) \subseteq M!Known(inbox) \cup M!IdsOf(c)
         /\ M!QueuedIds(M!InPlace(c)) \subseteq M!QueuedIds(inbox) \cup QueuedIn(c)
<1> DEFINE front == M!InPlace(c)
<1>1. /\ DOMAIN front = DOMAIN inbox /\ front \in Seq(M!Conversation)
      /\ \A i \in DOMAIN inbox : front[i] = IF inbox[i].peer = c.peer THEN c ELSE inbox[i]
  BY DEF M!InPlace, Inbox, Fits
<1> HIDE DEF front
<1>2. \A i \in DOMAIN inbox : front[i].peer = inbox[i].peer BY <1>1
<1>3. \A i, j \in DOMAIN front : front[i].peer = front[j].peer => i = j BY <1>1, <1>2 DEF Inbox
<1>4. ASSUME NEW i \in DOMAIN front, NEW j \in DOMAIN front, M!IdsOf(front[i]) \cap M!IdsOf(front[j]) # {} PROVE i = j
  <2>1. CASE inbox[i].peer = c.peer /\ inbox[j].peer = c.peer BY <1>1, <2>1 DEF Inbox
  <2>2. CASE inbox[i].peer # c.peer /\ inbox[j].peer # c.peer BY <1>1, <1>4, <2>2 DEF Inbox
  <2>3. CASE inbox[i].peer # c.peer /\ inbox[j].peer = c.peer BY <1>1, <1>4, <2>3 DEF Fits
  <2>4. CASE inbox[i].peer = c.peer /\ inbox[j].peer # c.peer BY <1>1, <1>4, <2>4 DEF Fits
  <2> QED BY <2>1, <2>2, <2>3, <2>4
<1>5. /\ \A i \in DOMAIN front : front[i].unread = M!UnreadOf(front[i].messages)
      /\ \A i \in DOMAIN front : M!IdsOf(front[i]) \subseteq Incoming \cup 1 .. n
  BY <1>1 DEF Fits, Inbox
<1>6. Inbox(front, n) BY <1>1, <1>3, <1>4, <1>5 DEF Inbox
<1>7. M!Known(front) \subseteq M!Known(inbox) \cup M!IdsOf(c) BY <1>1, KnownIds
<1>8. M!QueuedIds(front) \subseteq M!QueuedIds(inbox) \cup QueuedIn(c) BY <1>1, QueuedMessages
<1> QED BY <1>6, <1>7, <1>8 DEF front

(* A conversation is removed.                                              *)
LEMMA WithoutKeeps ==
  ASSUME NEW n, Inbox(inbox, n), NEW peer
  PROVE  /\ Inbox(M!Without(peer), n)
         /\ M!Known(M!Without(peer)) \subseteq M!Known(inbox)
         /\ M!QueuedIds(M!Without(peer)) \subseteq M!QueuedIds(inbox)
<1> DEFINE W == M!Without(peer)
<1>1. W \in Seq(M!Conversation) BY Others
<1>2. PICK from \in [DOMAIN W -> DOMAIN inbox] :
         /\ \A i \in DOMAIN W : W[i] = inbox[from[i]] /\ inbox[from[i]].peer # peer
         /\ \A i, j \in DOMAIN W : from[i] = from[j] => i = j
  BY Others
<1> HIDE DEF W
<1>3. \A i, j \in DOMAIN W : W[i].peer = W[j].peer => i = j
  <2> TAKE i, j \in DOMAIN W
  <2>1. from[i] \in DOMAIN inbox /\ from[j] \in DOMAIN inbox OBVIOUS
  <2> QED BY <1>2, <2>1 DEF Inbox
<1>4. \A i, j \in DOMAIN W : M!IdsOf(W[i]) \cap M!IdsOf(W[j]) # {} => i = j
  <2> TAKE i, j \in DOMAIN W
  <2>1. from[i] \in DOMAIN inbox /\ from[j] \in DOMAIN inbox OBVIOUS
  <2> QED BY <1>2, <2>1 DEF Inbox
<1>5. Inbox(W, n) BY <1>1, <1>2, <1>3, <1>4 DEF Inbox
<1>6. M!Known(W) \subseteq M!Known(inbox) /\ M!QueuedIds(W) \subseteq M!QueuedIds(inbox)
  BY <1>2, KnownIds, QueuedMessages
<1> QED BY <1>5, <1>6 DEF W

-----------------------------------------------------------------------------
(* Counting.                                                               *)
LEMMA UnreadCounts ==
  ASSUME NEW ms \in Seq(M!Message)
  PROVE  /\ M!UnreadOf(ms) \in Nat
         /\ (\A i \in DOMAIN ms : ms[i].unread = FALSE) => M!UnreadOf(ms) = 0
         /\ \A m \in M!Message :
              M!UnreadOf(Append(ms, m)) = M!UnreadOf(ms) + (IF m.unread THEN 1 ELSE 0)
<1> DEFINE U(s) == {i \in DOMAIN s : s[i].unread}
<1>1. /\ IsFiniteSet(1 .. Len(ms)) /\ DOMAIN ms = 1 .. Len(ms) /\ Len(ms) \in Nat
  <2>1. Len(ms) \in Nat /\ DOMAIN ms = 1 .. Len(ms) OBVIOUS
  <2>2. IsFiniteSet(1 .. Len(ms)) BY <2>1, FS_Interval
  <2> QED BY <2>1, <2>2
<1>2. IsFiniteSet(U(ms))
  <2>1. U(ms) \subseteq 1 .. Len(ms) BY <1>1
  <2> QED BY <1>1, <2>1, FS_Subset
<1>3. \A s : M!UnreadOf(s) = Cardinality(U(s)) BY MessageCardinality DEF M!UnreadOf
<1>4. M!UnreadOf(ms) \in Nat BY <1>2, <1>3, FS_CardinalityType
<1>5. ASSUME \A i \in DOMAIN ms : ms[i].unread = FALSE PROVE M!UnreadOf(ms) = 0
  <2>1. U(ms) = {} BY <1>5
  <2> QED BY <1>3, <2>1, FS_EmptySet
<1>6. ASSUME NEW m \in M!Message
      PROVE  M!UnreadOf(Append(ms, m)) = M!UnreadOf(ms) + (IF m.unread THEN 1 ELSE 0)
  <2> DEFINE l == Append(ms, m)
  <2>1. /\ DOMAIN l = 1 .. Len(ms) + 1 /\ l[Len(ms) + 1] = m
        /\ \A i \in 1 .. Len(ms) : l[i] = ms[i]
    OBVIOUS
  <2>2. /\ 1 .. Len(ms) + 1 = (1 .. Len(ms)) \cup {Len(ms) + 1} /\ Len(ms) + 1 \notin 1 .. Len(ms)
    BY <1>1
  <2> HIDE DEF l
  <2>3. CASE m.unread
    <3>1. U(l) = U(ms) \cup {Len(ms) + 1} BY <1>1, <2>1, <2>2, <2>3
    <3>2. Len(ms) + 1 \notin U(ms) BY <1>1, <2>2
    <3> HIDE DEF U
    <3>3. Cardinality(U(l)) = Cardinality(U(ms)) + 1 BY <1>2, <3>1, <3>2, FS_AddElement
    <3> QED BY <1>3, <2>3, <3>3 DEF l
  <2>4. CASE ~m.unread
    <3>1. U(l) = U(ms) BY <1>1, <2>1, <2>2, <2>4
    <3>2. M!UnreadOf(l) = M!UnreadOf(ms) BY <1>3, <3>1
    <3> QED BY <1>4, <2>4, <3>2 DEF l
  <2> QED BY <2>3, <2>4
<1> QED BY <1>4, <1>5, <1>6

LEMMA SameFlags ==
  ASSUME NEW ms, NEW ns, DOMAIN ms = DOMAIN ns, \A i \in DOMAIN ms : ns[i].unread = ms[i].unread
  PROVE  M!UnreadOf(ns) = M!UnreadOf(ms)
<1>1. {i \in DOMAIN ns : ns[i].unread} = {i \in DOMAIN ms : ms[i].unread} OBVIOUS
<1> QED BY <1>1 DEF M!UnreadOf

LEMMA Mapped ==
  ASSUME NEW X, NEW Y, NEW s \in Seq(X), NEW t, t = [i \in DOMAIN s |-> t[i]],
         \A i \in DOMAIN s : t[i] \in Y
  PROVE  t \in Seq(Y) /\ DOMAIN t = DOMAIN s /\ Len(t) = Len(s)
<1>1. DOMAIN s = 1 .. Len(s) /\ Len(s) \in Nat OBVIOUS
<1>2. DOMAIN t = DOMAIN s OBVIOUS
<1>3. t \in [1 .. Len(s) -> Y] BY <1>1
<1>4. t \in Seq(Y) BY <1>1, <1>3
<1>5. Len(t) = Len(s) BY <1>1, <1>2, <1>4
<1> QED BY <1>2, <1>4, <1>5

(* The conversation with a peer, or a new one.                             *)
LEMMA GetFits ==
  ASSUME NEW n, Inbox(inbox, n), NEW peer \in Peer
  PROVE  /\ Fits(M!Get(peer), n) /\ M!Get(peer).peer = peer
         /\ M!IdsOf(M!Get(peer)) \subseteq M!Known(inbox)
         /\ QueuedIn(M!Get(peer)) \subseteq M!QueuedIds(inbox)
         /\ M!Has(peer) => \E i \in DOMAIN inbox : M!Get(peer) = inbox[i]
<1> DEFINE c == M!Get(peer)
<1>1. inbox \in Seq(M!Conversation) BY DEF Inbox
<1>2. CASE M!Has(peer)
  <2>1. PICK i \in DOMAIN inbox : inbox[i].peer = peer BY <1>2 DEF M!Has
  <2>2. \E d \in M!Range(inbox) : d.peer = peer BY <2>1 DEF M!Range
  <2>3. c \in M!Range(inbox) /\ c.peer = peer BY <1>2, <2>2 DEF M!Get
  <2>4. PICK j \in DOMAIN inbox : c = inbox[j] BY <2>3 DEF M!Range
  <2> HIDE DEF c
  <2>5. c \in M!Conversation BY <1>1, <2>4
  <2>6. \A k \in DOMAIN inbox : inbox[k].peer # c.peer => M!IdsOf(c) \cap M!IdsOf(inbox[k]) = {}
    BY <2>4 DEF Inbox
  <2>7. c.unread = M!UnreadOf(c.messages) /\ M!IdsOf(c) \subseteq Incoming \cup 1 .. n BY <2>4 DEF Inbox
  <2>8. M!IdsOf(c) \subseteq M!Known(inbox) /\ QueuedIn(c) \subseteq M!QueuedIds(inbox)
    BY <2>4, KnownIds, QueuedMessages
  <2> QED BY <2>3, <2>4, <2>5, <2>6, <2>7, <2>8 DEF Fits, c
<1>3. CASE ~M!Has(peer)
  <2>1. c = [peer |-> peer, messages |-> <<>>, unread |-> 0] BY <1>3 DEF M!Get
  <2> HIDE DEF c
  <2>2. <<>> \in Seq(M!Message) OBVIOUS
  <2>3. c \in M!Conversation BY <2>1, <2>2 DEF M!Conversation
  <2>4. M!UnreadOf(<<>>) = 0
    <3>1. \A i \in DOMAIN <<>> : <<>>[i].unread = FALSE OBVIOUS
    <3> QED BY <2>2, <3>1, UnreadCounts
  <2>5. c.peer = peer /\ c.messages = <<>> /\ c.unread = 0 BY <2>1
  <2>6. M!IdsOf(c) = {} /\ QueuedIn(c) = {} BY <2>5, IdsOfMessages DEF QueuedIn
  <2> QED BY <1>3, <2>3, <2>4, <2>5, <2>6 DEF Fits, c
<1> QED BY <1>2, <1>3

LEMMA TrimKeeps ==
  ASSUME NEW c \in M!Conversation, c.unread = M!UnreadOf(c.messages), MaxPerConversation \in Nat
  PROVE  /\ M!Trim(c) \in M!Conversation /\ M!Trim(c).peer = c.peer
         /\ M!Trim(c).unread = M!UnreadOf(M!Trim(c).messages)
         /\ M!IdsOf(M!Trim(c)) \subseteq M!IdsOf(c) /\ QueuedIn(M!Trim(c)) \subseteq QueuedIn(c)
         /\ c.messages # <<>> /\ MaxPerConversation # 0 =>
               c.messages[Len(c.messages)].id \in M!IdsOf(M!Trim(c))
<1>0. c.messages \in Seq(M!Message) BY DEF M!Conversation
<1>1. CASE Len(c.messages) <= MaxPerConversation
  <2>1. M!Trim(c) = c BY <1>1 DEF M!Trim
  <2>2. c.messages # <<>> => Len(c.messages) \in DOMAIN c.messages BY <1>0
  <2> QED BY <2>1, <2>2, IdsOfMessages
<1>2. CASE ~(Len(c.messages) <= MaxPerConversation)
  <2> DEFINE ms == c.messages
             kept == SubSeq(ms, Len(ms) - MaxPerConversation + 1, Len(ms))
  <2>1. M!Trim(c) = [c EXCEPT !.messages = kept, !.unread = M!UnreadOf(kept)] BY <1>2 DEF M!Trim
  <2>2. ms \in Seq(M!Message) BY DEF M!Conversation
  <2>3. /\ kept \in Seq(M!Message) /\ Len(kept) = MaxPerConversation
        /\ \A i \in 1 .. MaxPerConversation : kept[i] = ms[Len(ms) - MaxPerConversation + i]
    BY <1>2, <2>2
  <2> HIDE DEF kept
  <2>4. \A i \in DOMAIN kept : \E j \in DOMAIN ms : kept[i] = ms[j]
    <3> TAKE i \in DOMAIN kept
    <3>1. i \in 1 .. MaxPerConversation BY <2>3
    <3>2. Len(ms) - MaxPerConversation + i \in 1 .. Len(ms) BY <1>2, <2>2, <3>1
    <3> QED BY <2>2, <2>3, <3>1, <3>2
  <2>5. M!UnreadOf(kept) \in Nat BY <2>3, UnreadCounts
  <2>6. /\ M!Trim(c) \in M!Conversation /\ M!Trim(c).peer = c.peer
        /\ M!Trim(c).messages = kept /\ M!Trim(c).unread = M!UnreadOf(kept)
    BY <2>1, <2>3, <2>5 DEF M!Conversation
  <2>7. M!IdsOf(M!Trim(c)) \subseteq M!IdsOf(c) BY <2>4, <2>6, IdsOfMessages
  <2>8. QueuedIn(M!Trim(c)) \subseteq QueuedIn(c) BY <2>4, <2>6 DEF QueuedIn
  <2>9. ASSUME MaxPerConversation # 0 PROVE ms[Len(ms)].id \in M!IdsOf(M!Trim(c))
    <3>1. /\ MaxPerConversation \in 1 .. MaxPerConversation
          /\ Len(ms) - MaxPerConversation + MaxPerConversation = Len(ms)
      BY <2>2, <2>9
    <3>2. MaxPerConversation \in DOMAIN kept /\ kept[MaxPerConversation] = ms[Len(ms)] BY <2>3, <3>1
    <3> QED BY <2>6, <3>2, IdsOfMessages
  <2> QED BY <2>6, <2>7, <2>8, <2>9
<1> QED BY <1>1, <1>2

-----------------------------------------------------------------------------
(* What an operation makes of the store: the ids that come in, those that  *)
(* are queued by it and those that are no longer.                          *)
Becomes(s, last, new, queued, done) ==
  /\ Inbox(s, last)
  /\ M!Known(s) \subseteq M!Known(inbox) \cup new
  /\ M!QueuedIds(s) \subseteq (M!QueuedIds(inbox) \ done) \cup queued

LEMMA PushBecomes ==
  ASSUME NEW n \in Nat, NEW last \in Nat, n <= last, Inbox(inbox, n), NEW peer \in Peer,
         NEW msg \in M!Message, msg.id \in Incoming \cup 1 .. last, msg.id \notin M!Known(inbox),
         NEW u, u = (IF msg.unread THEN 1 ELSE 0),
         MaxConversations \in Nat \ {0}, MaxPerConversation \in Nat \ {0}
  PROVE  /\ Becomes(M!Push(peer, msg, u), last, {msg.id},
                    IF msg.delivery = "queued" THEN {msg.id} ELSE {}, {})
         /\ msg.id \in M!Known(M!Push(peer, msg, u))
<1> DEFINE c == M!Get(peer)
           l == Append(c.messages, msg)
           d == [c EXCEPT !.messages = l, !.unread = @ + u]
           e == M!Trim(d)
<1>1. /\ c \in M!Conversation /\ c.peer = peer /\ c.unread = M!UnreadOf(c.messages)
      /\ M!IdsOf(c) \subseteq Incoming \cup 1 .. n
      /\ \A i \in DOMAIN inbox : inbox[i].peer # peer => M!IdsOf(c) \cap M!IdsOf(inbox[i]) = {}
      /\ M!IdsOf(c) \subseteq M!Known(inbox) /\ QueuedIn(c) \subseteq M!QueuedIds(inbox)
  BY GetFits DEF Fits
<1>2. M!Push(peer, msg, u) = M!Foremost(e) BY DEF M!Push
<1> HIDE DEF c
<1>3. c.messages \in Seq(M!Message) /\ c.unread \in Nat BY <1>1 DEF M!Conversation
<1>4. /\ l \in Seq(M!Message) /\ DOMAIN l = DOMAIN c.messages \cup {Len(c.messages) + 1}
      /\ l[Len(c.messages) + 1] = msg /\ \A i \in DOMAIN c.messages : l[i] = c.messages[i]
  BY <1>3
<1>5. M!UnreadOf(l) = c.unread + u BY <1>1, <1>3, UnreadCounts
<1> HIDE DEF l
<1>6. u \in Nat OBVIOUS
<1>7. /\ d \in M!Conversation /\ d.peer = peer /\ d.messages = l /\ d.unread = M!UnreadOf(d.messages)
  <2>1. d.peer = peer /\ d.messages = l /\ d.unread = c.unread + u BY <1>1 DEF M!Conversation
  <2>2. d \in M!Conversation
    <3>1. c.unread + u \in Nat BY <1>3, <1>6
    <3> QED BY <1>1, <1>4, <3>1 DEF M!Conversation
  <2> HIDE DEF d
  <2> QED BY <1>5, <2>1, <2>2
<1> HIDE DEF d
<1>8. M!IdsOf(d) \subseteq M!IdsOf(c) \cup {msg.id} BY <1>4, <1>7, IdsOfMessages
<1>9. QueuedIn(d) \subseteq QueuedIn(c) \cup (IF msg.delivery = "queued" THEN {msg.id} ELSE {})
  BY <1>4, <1>7 DEF QueuedIn
<1>10. /\ e \in M!Conversation /\ e.peer = peer /\ e.unread = M!UnreadOf(e.messages)
       /\ M!IdsOf(e) \subseteq M!IdsOf(d) /\ QueuedIn(e) \subseteq QueuedIn(d)
       /\ d.messages # <<>> => d.messages[Len(d.messages)].id \in M!IdsOf(e)
  BY <1>7, TrimKeeps
<1> HIDE DEF e
<1>16. msg.id \in M!IdsOf(e)
  <2>1. Len(l) = Len(c.messages) + 1 /\ l # <<>> BY <1>3 DEF l
  <2> QED BY <1>4, <1>7, <1>10, <2>1
<1>11. 1 .. n \subseteq 1 .. last OBVIOUS
<1>12. \A i \in DOMAIN inbox : msg.id \notin M!IdsOf(inbox[i]) BY KnownIds
<1>13. Fits(e, last)
  <2>1. M!IdsOf(e) \subseteq Incoming \cup 1 .. last BY <1>1, <1>8, <1>10, <1>11
  <2>2. ASSUME NEW i \in DOMAIN inbox, inbox[i].peer # e.peer PROVE M!IdsOf(e) \cap M!IdsOf(inbox[i]) = {}
    BY <1>1, <1>8, <1>10, <1>12, <2>2
  <2> QED BY <1>10, <2>1, <2>2 DEF Fits
<1>14. /\ Inbox(M!Foremost(e), last)
       /\ M!Known(M!Foremost(e)) \subseteq M!Known(inbox) \cup M!IdsOf(e)
       /\ M!QueuedIds(M!Foremost(e)) \subseteq
            QueuedIn(e) \cup UNION {QueuedIn(inbox[i]) : i \in {i \in DOMAIN inbox : inbox[i].peer # e.peer}}
  BY <1>13, ForemostKeeps
<1>15. UNION {QueuedIn(inbox[i]) : i \in {i \in DOMAIN inbox : inbox[i].peer # e.peer}} \subseteq M!QueuedIds(inbox)
  BY QueuedMessages
<1>17. msg.id \in M!Known(M!Foremost(e))
  <2>1. 1 \in DOMAIN M!Foremost(e) /\ M!Foremost(e)[1] = e BY <1>10, FrontOf
  <2> QED BY <1>16, <2>1, KnownIds
<1> QED BY <1>1, <1>2, <1>8, <1>9, <1>10, <1>14, <1>15, <1>17 DEF Becomes

(* A message changes its state of delivery, wherever it is.                *)
LEMMA Redelivered ==
  ASSUME NEW c \in M!Conversation, NEW ns, DOMAIN ns = DOMAIN c.messages, ns = [i \in DOMAIN c.messages |-> ns[i]],
         \A i \in DOMAIN ns : /\ ns[i] \in M!Message /\ ns[i].id = c.messages[i].id
                              /\ ns[i].unread = c.messages[i].unread,
         c.unread = M!UnreadOf(c.messages)
  PROVE  /\ [c EXCEPT !.messages = ns] \in M!Conversation
         /\ [c EXCEPT !.messages = ns].peer = c.peer
         /\ [c EXCEPT !.messages = ns].messages = ns
         /\ [c EXCEPT !.messages = ns].unread = M!UnreadOf(ns)
         /\ M!IdsOf([c EXCEPT !.messages = ns]) = M!IdsOf(c)
<1>1. c.messages \in Seq(M!Message) BY DEF M!Conversation
<1>2. ns \in Seq(M!Message) BY <1>1, Mapped
<1> DEFINE d == [c EXCEPT !.messages = ns]
<1>3. d \in M!Conversation /\ d.peer = c.peer /\ d.messages = ns /\ d.unread = c.unread
  BY <1>2 DEF M!Conversation
<1> HIDE DEF d
<1>4. M!UnreadOf(ns) = M!UnreadOf(c.messages) BY SameFlags
<1>5. M!IdsOf(d) = M!IdsOf(c)
  <2>1. \A k \in DOMAIN ns : ns[k].id = c.messages[k].id OBVIOUS
  <2>2. ASSUME NEW id, id \in M!IdsOf(d) PROVE id \in M!IdsOf(c)
    <3>1. PICK k \in DOMAIN ns : id = ns[k].id BY <1>3, <2>2, IdsOfMessages
    <3>2. k \in DOMAIN c.messages /\ id = c.messages[k].id BY <2>1, <3>1
    <3> QED BY <3>2, IdsOfMessages
  <2>3. ASSUME NEW id, id \in M!IdsOf(c) PROVE id \in M!IdsOf(d)
    <3>1. PICK k \in DOMAIN c.messages : id = c.messages[k].id BY <2>3, IdsOfMessages
    <3>2. k \in DOMAIN d.messages /\ id = d.messages[k].id BY <1>3, <2>1, <3>1
    <3> QED BY <3>2, IdsOfMessages
  <2> QED BY <2>2, <2>3 DEF M!IdsOf
<1> QED BY <1>3, <1>4, <1>5 DEF d

LEMMA SetDeliveryBecomes ==
  ASSUME NEW n \in Nat, Inbox(inbox, n), NEW id, id \in M!Known(inbox),
         NEW delivery \in {"queued", "sent", "failed"}, MaxConversations \in Nat
  PROVE  Becomes(M!SetDelivery(id, delivery), n, {},
                 IF delivery = "queued" THEN {id} ELSE {}, IF delivery = "queued" THEN {} ELSE {id})
<1> DEFINE c == CHOOSE d \in M!Range(inbox) : id \in M!IdsOf(d)
           ns == [i \in DOMAIN c.messages |->
                    IF c.messages[i].id = id THEN [c.messages[i] EXCEPT !.delivery = delivery] ELSE c.messages[i]]
           d == [c EXCEPT !.messages = ns]
<1>1. \E e \in M!Range(inbox) : id \in M!IdsOf(e) BY KnownIds DEF M!Range
<1>2. c \in M!Range(inbox) /\ id \in M!IdsOf(c) BY <1>1
<1>3. M!SetDelivery(id, delivery) = M!Foremost(d) BY DEF M!SetDelivery
<1> HIDE DEF c
<1>4. PICK j \in DOMAIN inbox : c = inbox[j] BY <1>2 DEF M!Range
<1>5. c \in M!Conversation /\ c.unread = M!UnreadOf(c.messages) BY <1>4 DEF Inbox
<1>6. c.messages \in Seq(M!Message) BY <1>5 DEF M!Conversation
<1>7. ASSUME NEW i \in DOMAIN ns
      PROVE  /\ ns[i] \in M!Message /\ ns[i].id = c.messages[i].id /\ ns[i].unread = c.messages[i].unread
             /\ ns[i].id = id => ns[i].delivery = delivery
             /\ ns[i].id # id => ns[i] = c.messages[i]
  <2>1. c.messages[i] \in M!Message BY <1>6
  <2> QED BY <2>1 DEF M!Message
<1>8. DOMAIN ns = DOMAIN c.messages /\ ns = [i \in DOMAIN c.messages |-> ns[i]] OBVIOUS
<1> HIDE DEF ns
<1>9. /\ d \in M!Conversation /\ d.peer = c.peer /\ d.messages = ns /\ d.unread = M!UnreadOf(d.messages)
      /\ M!IdsOf(d) = M!IdsOf(c)
  BY <1>5, <1>7, <1>8, Redelivered
<1> HIDE DEF d
<1>10. Fits(d, n)
  <2>1. M!IdsOf(d) \subseteq Incoming \cup 1 .. n BY <1>4, <1>9 DEF Inbox
  <2>2. ASSUME NEW i \in DOMAIN inbox, inbox[i].peer # d.peer PROVE M!IdsOf(d) \cap M!IdsOf(inbox[i]) = {}
    BY <1>4, <1>9, <2>2 DEF Inbox
  <2> QED BY <1>9, <2>1, <2>2 DEF Fits
<1>11. n <= n OBVIOUS
<1>12. /\ Inbox(M!Foremost(d), n)
       /\ M!Known(M!Foremost(d)) \subseteq M!Known(inbox) \cup M!IdsOf(d)
       /\ M!QueuedIds(M!Foremost(d)) \subseteq
            QueuedIn(d) \cup UNION {QueuedIn(inbox[i]) : i \in {i \in DOMAIN inbox : inbox[i].peer # d.peer}}
  BY <1>10, <1>11, ForemostKeeps
<1>13. M!IdsOf(c) \subseteq M!Known(inbox) BY <1>4, KnownIds
<1>14. ASSUME NEW q \in QueuedIn(d)
       PROVE  q \in (M!QueuedIds(inbox) \ (IF delivery = "queued" THEN {} ELSE {id}))
                      \cup (IF delivery = "queued" THEN {id} ELSE {})
  <2>1. PICK k \in DOMAIN ns : ns[k].delivery = "queued" /\ q = ns[k].id BY <1>9, <1>14 DEF QueuedIn
  <2>2. CASE q = id BY <1>7, <2>1, <2>2
  <2>3. CASE q # id
    <3>1. q \in QueuedIn(c) BY <1>7, <1>8, <2>1, <2>3 DEF QueuedIn
    <3>2. q \in M!QueuedIds(inbox) BY <1>4, <3>1, QueuedMessages
    <3> QED BY <2>3, <3>2
  <2> QED BY <2>2, <2>3
<1>15. ASSUME NEW i \in DOMAIN inbox, inbox[i].peer # d.peer, NEW q \in QueuedIn(inbox[i])
       PROVE  q \in M!QueuedIds(inbox) \ {id}
  <2>1. q \in M!IdsOf(inbox[i]) BY <1>15, QueuedAreIds
  <2>2. id \notin M!IdsOf(inbox[i]) BY <1>2, <1>4, <1>9, <1>15 DEF Inbox
  <2> QED BY <1>15, <2>1, <2>2, QueuedMessages
<1> QED BY <1>3, <1>9, <1>12, <1>13, <1>14, <1>15 DEF Becomes

(* The end of a session: nothing is queued any more.                       *)
LEMMA FailQueuedKeeps ==
  ASSUME NEW n, NEW s, Inbox(s, n)
  PROVE  /\ Inbox(M!FailQueuedOf(s), n) /\ M!Known(M!FailQueuedOf(s)) = M!Known(s)
         /\ M!QueuedIds(M!FailQueuedOf(s)) = {}
<1> DEFINE t == M!FailQueuedOf(s)
<1>1. s \in Seq(M!Conversation) BY DEF Inbox
<1>2. ASSUME NEW c \in M!Conversation, c.unread = M!UnreadOf(c.messages)
      PROVE  /\ M!FailQueuedIn(c) \in M!Conversation /\ M!FailQueuedIn(c).peer = c.peer
             /\ M!FailQueuedIn(c).unread = M!UnreadOf(M!FailQueuedIn(c).messages)
             /\ M!IdsOf(M!FailQueuedIn(c)) = M!IdsOf(c) /\ QueuedIn(M!FailQueuedIn(c)) = {}
  <2> DEFINE ns == [i \in DOMAIN c.messages |->
               IF c.messages[i].delivery = "queued" THEN [c.messages[i] EXCEPT !.delivery = "failed"] ELSE c.messages[i]]
             d == [c EXCEPT !.messages = ns]
  <2>1. M!FailQueuedIn(c) = d BY DEF M!FailQueuedIn
  <2>2. c.messages \in Seq(M!Message) BY DEF M!Conversation
  <2>3. ASSUME NEW i \in DOMAIN ns
        PROVE  /\ ns[i] \in M!Message /\ ns[i].id = c.messages[i].id /\ ns[i].unread = c.messages[i].unread
               /\ ns[i].delivery # "queued"
    <3>1. c.messages[i] \in M!Message BY <2>2
    <3> QED BY <3>1 DEF M!Message
  <2>4. DOMAIN ns = DOMAIN c.messages /\ ns = [i \in DOMAIN c.messages |-> ns[i]] OBVIOUS
  <2> HIDE DEF ns
  <2>5. /\ d \in M!Conversation /\ d.peer = c.peer /\ d.messages = ns /\ d.unread = M!UnreadOf(ns)
        /\ M!IdsOf(d) = M!IdsOf(c)
    BY <1>2, <2>3, <2>4, Redelivered
  <2> HIDE DEF d
  <2>6. QueuedIn(d) = {} BY <2>3, <2>5 DEF QueuedIn
  <2> QED BY <2>1, <2>5, <2>6
<1>3. ASSUME NEW i \in DOMAIN s
      PROVE  /\ t[i] \in M!Conversation /\ t[i].peer = s[i].peer /\ t[i].unread = M!UnreadOf(t[i].messages)
             /\ M!IdsOf(t[i]) = M!IdsOf(s[i]) /\ QueuedIn(t[i]) = {}
  <2>1. t[i] = M!FailQueuedIn(s[i]) BY DEF M!FailQueuedOf
  <2>2. s[i] \in M!Conversation /\ s[i].unread = M!UnreadOf(s[i].messages) BY DEF Inbox
  <2> QED BY <1>2, <2>1, <2>2
<1>4. DOMAIN t = DOMAIN s /\ t = [i \in DOMAIN s |-> t[i]] BY DEF M!FailQueuedOf
<1> HIDE DEF t
<1>5. t \in Seq(M!Conversation) BY <1>1, <1>3, <1>4, Mapped
<1>6. Inbox(t, n) BY <1>3, <1>4, <1>5 DEF Inbox
<1>7. M!Known(t) = M!Known(s)
  <2>1. \A id : id \in M!Known(t) <=> id \in M!Known(s) BY <1>3, <1>4, KnownIds
  <2> QED BY <2>1 DEF M!Known
<1>8. M!QueuedIds(t) = {} BY <1>3, <1>4, QueuedMessages
<1> QED BY <1>6, <1>7, <1>8 DEF t

-----------------------------------------------------------------------------
LEMMA InboxGrows ==
  ASSUME NEW n \in Nat, NEW last \in Nat, n <= last, NEW s, Inbox(s, n)
  PROVE  Inbox(s, last)
<1>1. 1 .. n \subseteq 1 .. last OBVIOUS
<1> QED BY <1>1 DEF Inbox

LEMMA InRange == ASSUME NEW s, NEW x PROVE x \in M!Range(s) <=> \E i \in DOMAIN s : s[i] = x
BY DEF M!Range

(* An operation changes the memory and then the file, or fails to.         *)
LEMMA Operation ==
  ASSUME MessagesInv, NEW X, NEW new, NEW queued, NEW done,
         sent' \in 0 .. MaxOutgoing, sent <= sent', Becomes(X, sent', new, queued, done),
         inbox' = X \/ (inbox' = M!FailQueuedOf(X) /\ session' = 0),
         erased' = (erased \cup M!Known(inbox)) \ M!Known(X),
         saved' = saved \/ saved' = inbox',
         writing' \in 0 .. MaxOutgoing, outbox' \in Seq(1 .. MaxOutgoing), toAck' \subseteq Incoming,
         session' # 0 => (M!QueuedIds(inbox) \ done) \cup queued \subseteq M!Range(outbox') \cup {writing'} \cup unsaved',
         \A id \in Incoming \cap new : saved' = inbox' \/ id \in unsaved',
         \A id \in unsaved : id \in unsaved' \/ (saved' = inbox' /\ id \in M!Known(X)),
         \A id \in Incoming : id \in toAck' \/ id \notin held' =>
                                \/ id \in toAck \/ id \notin held
                                \/ saved' = inbox' /\ id \in M!Known(X)
  PROVE  MessagesInv'
<1>1. Inbox(X, sent') /\ M!Known(X) \subseteq M!Known(inbox) \cup new
      /\ M!QueuedIds(X) \subseteq (M!QueuedIds(inbox) \ done) \cup queued
  BY DEF Becomes
<1>2. Inbox(inbox', sent') /\ M!Known(inbox') = M!Known(X) BY <1>1, FailQueuedKeeps
<1>3. Inbox(saved', sent')
  <2>1. sent \in Nat /\ sent' \in Nat /\ Inbox(saved, sent) BY DEF MessagesInv, MessagesOK
  <2>2. Inbox(saved, sent') BY <2>1, InboxGrows
  <2> QED BY <1>2, <2>2
<1>4. MessagesOK' BY <1>2, <1>3 DEF MessagesOK
<1>5. M!QueuedIsUnderWay' BY <1>1 DEF M!QueuedIsUnderWay
<1>6. /\ M!Known(saved) \subseteq M!Known(inbox) \cup erased
      /\ M!Known(inbox) \cap Incoming \subseteq M!Known(saved) \cup unsaved
      /\ erased \cap M!Known(inbox) \cap Incoming \subseteq M!Known(saved)
      /\ \A id \in Incoming : id \in toAck \/ id \notin held => id \in M!Known(saved) \cup erased \cup unsaved
  BY DEF MessagesInv, AckInv, Safe
<1>7. saved' = saved \/ M!Known(saved') = M!Known(X) BY <1>2
<1>8. M!Known(saved') \subseteq M!Known(inbox') \cup erased' BY <1>2, <1>6, <1>7
<1>9. ASSUME NEW id \in Incoming, id \in M!Known(inbox') PROVE id \in M!Known(saved') \cup unsaved'
  BY <1>1, <1>2, <1>6, <1>9
<1>10. erased' \cap M!Known(inbox') = {} BY <1>2
<1>11. ASSUME NEW id \in Incoming, id \in toAck' \/ id \notin held' PROVE Safe(id)'
  <2>1. CASE saved' = inbox'
    <3>1. id \in M!Known(X) \/ id \in erased \cup M!Known(inbox) \cup unsaved BY <1>6, <1>11
    <3>2. M!Known(saved') = M!Known(X) BY <1>2, <2>1
    <3> QED BY <3>1, <3>2 DEF Safe
  <2>2. CASE saved' # inbox'
    <3>1. saved' = saved BY <2>2
    <3>2. id \in M!Known(saved) \cup erased \cup unsaved BY <1>6, <1>11, <2>2
    <3>3. id \in unsaved => id \in unsaved' BY <2>2
    <3>4. CASE id \in erased /\ id \in M!Known(X) BY <1>1, <1>6, <2>2, <3>1, <3>4 DEF Safe
    <3> QED BY <3>1, <3>2, <3>3, <3>4 DEF Safe
  <2> QED BY <2>1, <2>2
<1>12. AckInv' BY <1>8, <1>9, <1>10, <1>11 DEF AckInv
<1> QED BY <1>4, <1>5, <1>12 DEF MessagesInv

(* A step that leaves the conversations and their ids.                     *)
LEMMA SameIds ==
  ASSUME MessagesInv, UNCHANGED <<sent, unsaved>>, Inbox(inbox', sent), M!Known(inbox') = M!Known(inbox),
         saved' = saved \/ saved' = inbox',
         erased \subseteq erased', erased' \cap M!Known(inbox) \subseteq erased,
         writing' \in 0 .. MaxOutgoing, outbox' \in Seq(1 .. MaxOutgoing), toAck' \subseteq Incoming,
         session' # 0 => M!QueuedIds(inbox') \subseteq M!Range(outbox') \cup {writing'} \cup unsaved,
         \A id \in Incoming : id \in toAck' \/ id \notin held' =>
                                id \in toAck \/ id \notin held \/ id \in erased' \/ id \in M!Known(inbox)
  PROVE  MessagesInv'
<1>1. MessagesOK' BY DEF MessagesInv, MessagesOK
<1>2. M!QueuedIsUnderWay' BY DEF M!QueuedIsUnderWay
<1>3. /\ M!Known(saved) \subseteq M!Known(inbox) \cup erased
      /\ M!Known(inbox) \cap Incoming \subseteq M!Known(saved) \cup unsaved
      /\ erased \cap M!Known(inbox) \cap Incoming \subseteq M!Known(saved)
      /\ \A id \in Incoming : id \in toAck \/ id \notin held => id \in M!Known(saved) \cup erased \cup unsaved
  BY DEF MessagesInv, AckInv, Safe
<1>4. saved' = saved \/ M!Known(saved') = M!Known(inbox) OBVIOUS
<1>5. M!Known(saved') \subseteq M!Known(inbox') \cup erased' BY <1>3, <1>4
<1>6. M!Known(inbox') \cap Incoming \subseteq M!Known(saved') \cup unsaved' BY <1>3, <1>4
<1>7. erased' \cap M!Known(inbox') \cap Incoming \subseteq M!Known(saved') BY <1>3, <1>4
<1>8. ASSUME NEW id \in Incoming, id \in toAck' \/ id \notin held' PROVE Safe(id)'
  BY <1>3, <1>4, <1>8 DEF Safe
<1> QED BY <1>1, <1>2, <1>5, <1>6, <1>7, <1>8 DEF MessagesInv, AckInv

MessageConstants ==
  /\ MaxOutgoing \in Nat /\ MaxConversations \in Nat \ {0} /\ MaxPerConversation \in Nat \ {0}
  /\ SenderOf \in [Incoming -> Peer] /\ Incoming \cap (0 .. MaxOutgoing) = {}

LEMMA MessageFacts ==
  ASSUME MessageConstants, MessagesInv
  PROVE  /\ sent \in Nat /\ sent \in 0 .. MaxOutgoing /\ writing \in 0 .. MaxOutgoing
         /\ outbox \in Seq(1 .. MaxOutgoing) /\ toAck \subseteq Incoming
         /\ Inbox(inbox, sent) /\ Inbox(saved, sent)
         /\ M!Known(inbox) \subseteq Incoming \cup 1 .. sent
         /\ M!QueuedIds(inbox) \subseteq M!Known(inbox) /\ 0 \notin M!Known(inbox)
         /\ session # 0 => M!QueuedIds(inbox) \subseteq M!Range(outbox) \cup {writing} \cup unsaved
         /\ <<>> \in Seq(1 .. MaxOutgoing)
<1>1. MaxOutgoing \in Nat /\ Incoming \cap (0 .. MaxOutgoing) = {} BY DEF MessageConstants
<1>2. /\ sent \in 0 .. MaxOutgoing /\ writing \in 0 .. MaxOutgoing
      /\ outbox \in Seq(1 .. MaxOutgoing) /\ toAck \subseteq Incoming
      /\ Inbox(inbox, sent) /\ Inbox(saved, sent)
      /\ session # 0 => M!QueuedIds(inbox) \subseteq M!Range(outbox) \cup {writing} \cup unsaved
  BY DEF MessagesInv, MessagesOK, M!QueuedIsUnderWay
<1>3. sent \in Nat BY <1>1, <1>2
<1>4. M!Known(inbox) \subseteq Incoming \cup 1 .. sent BY <1>2, KnownIds DEF Inbox
<1>5. M!QueuedIds(inbox) \subseteq M!Known(inbox) BY QueuedMessages, QueuedAreIds, KnownIds
<1>6. 0 \notin M!Known(inbox)
  <2>1. 0 \in 0 .. MaxOutgoing /\ 0 \notin 1 .. sent BY <1>1, <1>3
  <2> QED BY <1>1, <1>4, <2>1
<1> QED BY <1>2, <1>3, <1>4, <1>5, <1>6

(* Sessions come and go, and the program restarts.                         *)
LEMMA MessageSessions ==
  ASSUME MessageConstants, MessagesInv,
         M!SessionBegins \/ M!SessionBreaks \/ M!Restarts \/ M!CloneSender
  PROVE  MessagesInv'
<1>1. /\ sent \in Nat /\ writing \in 0 .. MaxOutgoing /\ <<>> \in Seq(1 .. MaxOutgoing)
      /\ outbox \in Seq(1 .. MaxOutgoing) /\ toAck \subseteq Incoming
      /\ Inbox(inbox, sent) /\ Inbox(saved, sent)
      /\ session # 0 => M!QueuedIds(inbox) \subseteq M!Range(outbox) \cup {writing} \cup unsaved
  BY MessageFacts
<1>2. CASE M!SessionBegins
  <2>1. /\ UNCHANGED <<held, toAck, outbox, writing, sent, unsaved, erased>>
        /\ inbox' = M!FailQueuedOf(inbox) /\ (saved' = saved \/ saved' = inbox')
    BY <1>2 DEF M!SessionBegins, M!senderVars, M!FailQueued, M!SaveWorks, M!SaveFails
  <2>2. Inbox(inbox', sent) /\ M!Known(inbox') = M!Known(inbox) /\ M!QueuedIds(inbox') = {}
    BY <1>1, <2>1, FailQueuedKeeps
  <2> QED BY <1>1, <2>1, <2>2, SameIds
<1>3. CASE M!SessionBreaks
  <2>1. /\ UNCHANGED <<held, writing, sent, unsaved, erased>> /\ session' = 0 /\ toAck' = {} /\ outbox' = <<>>
        /\ inbox' = M!FailQueuedOf(inbox) /\ (saved' = saved \/ saved' = inbox')
    BY <1>3 DEF M!SessionBreaks, M!Disconnected, M!FailQueued, M!SaveWorks, M!SaveFails
  <2>2. Inbox(inbox', sent) /\ M!Known(inbox') = M!Known(inbox)
    BY <1>1, <2>1, FailQueuedKeeps
  <2> QED BY <1>1, <2>1, <2>2, SameIds
<1>4. CASE M!Restarts
  <2>1. /\ UNCHANGED <<held, sent, saved, unsaved, erased>>
        /\ session' = 0 /\ toAck' = {} /\ outbox' = <<>> /\ writing' = 0 /\ inbox' = saved
    BY <1>4 DEF M!Restarts, M!Disconnected
  <2>2. 0 \in 0 .. MaxOutgoing BY DEF MessageConstants
  <2>3. MessagesOK' BY <2>1, <2>2, <1>1 DEF MessagesInv, MessagesOK
  <2>4. M!QueuedIsUnderWay' BY <2>1 DEF M!QueuedIsUnderWay
  <2>5. AckInv' BY <2>1 DEF MessagesInv, AckInv, Safe
  <2> QED BY <2>3, <2>4, <2>5 DEF MessagesInv
<1>5. CASE M!CloneSender
  <2>1. UNCHANGED <<inbox, saved, held, toAck, session, outbox, writing, sent, unsaved, erased>>
    BY <1>5 DEF M!CloneSender, M!serverVars
  <2> QED BY <1>1, <2>1, SameIds
<1> QED BY <1>2, <1>3, <1>4, <1>5

(* A message comes in, once or again, is stored or ignored, and is         *)
(* acknowledged.                                                           *)
LEMMA IncomingSteps ==
  ASSUME MessageConstants, MessagesInv, NEW id \in Incoming,
         M!RecordIncoming(id) \/ M!RecordIncomingFails(id) \/ M!IgnoreIncoming(id) \/ M!Acknowledge(id)
  PROVE  MessagesInv'
<1>1. /\ sent \in Nat /\ sent \in 0 .. MaxOutgoing /\ writing \in 0 .. MaxOutgoing /\ <<>> \in Seq(1 .. MaxOutgoing)
      /\ outbox \in Seq(1 .. MaxOutgoing) /\ toAck \subseteq Incoming
      /\ Inbox(inbox, sent) /\ M!QueuedIds(inbox) \subseteq M!Known(inbox)
      /\ session # 0 => M!QueuedIds(inbox) \subseteq M!Range(outbox) \cup {writing} \cup unsaved
  BY MessageFacts
<1>2. /\ SenderOf[id] \in Peer /\ MaxConversations \in Nat \ {0} /\ MaxPerConversation \in Nat \ {0}
  BY DEF MessageConstants
<1> DEFINE msg == [id |-> id, unread |-> TRUE, delivery |-> "received"]
           X == M!Push(SenderOf[id], msg, 1)
<1>3. msg \in M!Message /\ msg.id = id /\ msg.unread = TRUE /\ msg.delivery = "received"
  <2>1. TRUE \in BOOLEAN OBVIOUS
  <2> QED BY <2>1 DEF M!Message
<1>4. ASSUME id \notin M!Known(inbox) PROVE Becomes(X, sent, {id}, {}, {}) /\ id \in M!Known(X)
  <2> HIDE DEF msg
  <2>1. sent <= sent BY <1>1
  <2>2. (IF msg.unread THEN 1 ELSE 0) = 1 /\ (IF msg.delivery = "queued" THEN {msg.id} ELSE {}) = {} BY <1>3
  <2>3. /\ Becomes(M!Push(SenderOf[id], msg, 1), sent, {msg.id}, IF msg.delivery = "queued" THEN {msg.id} ELSE {}, {})
        /\ msg.id \in M!Known(M!Push(SenderOf[id], msg, 1))
    BY <1>1, <1>2, <1>3, <1>4, <2>1, <2>2, PushBecomes
  <2> QED BY <1>3, <2>2, <2>3
<1> HIDE DEF X
<1>5. sent <= sent BY <1>1
<1>6. CASE M!RecordIncoming(id) /\ id \in M!Known(inbox)
  <2>1. UNCHANGED <<inbox, saved, held, session, outbox, writing, sent, unsaved, erased>> /\ toAck' = toAck \cup {id}
    BY <1>6 DEF M!RecordIncoming, M!senderVars
  <2> QED BY <1>1, <1>6, <2>1, SameIds
<1>7. CASE M!RecordIncoming(id) /\ id \notin M!Known(inbox)
  <2>1. /\ UNCHANGED <<held, session, outbox, writing, sent>> /\ toAck' = toAck \cup {id} /\ session # 0
        /\ inbox' = X /\ erased' = (erased \cup M!Known(inbox)) \ M!Known(X)
        /\ saved' = inbox' /\ unsaved' = unsaved \ {id}
    BY <1>7 DEF M!RecordIncoming, M!senderVars, M!Remembers, M!Erases, M!SaveWorks, X
  <2>2. id \notin M!QueuedIds(inbox) BY <1>1, <1>7
  <2>3. (M!QueuedIds(inbox) \ {}) \cup {} \subseteq M!Range(outbox') \cup {writing'} \cup unsaved'
    BY <1>1, <2>1, <2>2
  <2>4. Becomes(X, sent, {id}, {}, {}) /\ id \in M!Known(X) BY <1>4, <1>7
  <2>5. toAck' \subseteq Incoming BY <1>1, <2>1
  <2>6. \A i \in unsaved : i \in unsaved' \/ (saved' = inbox' /\ i \in M!Known(X)) BY <2>1, <2>4
  <2> QED BY <1>1, <1>5, <2>1, <2>3, <2>4, <2>5, <2>6, Operation
<1>8. CASE M!RecordIncomingFails(id)
  <2>1. /\ UNCHANGED <<held, writing, sent, saved>> /\ toAck' = {} /\ session' = 0 /\ outbox' = <<>>
        /\ inbox' = M!FailQueuedOf(X) /\ erased' = (erased \cup M!Known(inbox)) \ M!Known(X)
        /\ unsaved' = unsaved \cup {id} /\ id \notin M!Known(inbox)
    BY <1>8 DEF M!RecordIncomingFails, M!Disconnected, M!SaveFails, X
  <2>2. Becomes(X, sent, {id}, {}, {}) BY <1>4, <2>1
  <2>3. toAck' \subseteq Incoming /\ \A i \in unsaved : i \in unsaved' BY <2>1
  <2> QED BY <1>1, <1>5, <2>1, <2>2, <2>3, Operation
<1>9. CASE M!IgnoreIncoming(id)
  <2>1. /\ UNCHANGED <<inbox, saved, held, session, outbox, writing, sent, unsaved>>
        /\ toAck' = toAck \cup {id} /\ erased' = erased \cup {id} /\ id \notin M!Known(inbox)
    BY <1>9 DEF M!IgnoreIncoming, M!senderVars
  <2> QED BY <1>1, <2>1, SameIds
<1>10. CASE M!Acknowledge(id)
  <2>1. /\ UNCHANGED <<inbox, saved, session, outbox, writing, sent, unsaved, erased>>
        /\ toAck' = toAck \ {id} /\ held' = held \ {id} /\ id \in toAck
    BY <1>10 DEF M!Acknowledge, M!senderVars
  <2> QED BY <1>1, <2>1, SameIds
<1> QED BY <1>6, <1>7, <1>8, <1>9, <1>10

LEMMA AppendRange ==
  ASSUME NEW S, NEW s \in Seq(S), NEW x \in S
  PROVE  Append(s, x) \in Seq(S) /\ \A y : y \in M!Range(Append(s, x)) <=> y \in M!Range(s) \/ y = x
<1> DEFINE l == Append(s, x)
<1>1. /\ l \in Seq(S) /\ Len(s) + 1 \in DOMAIN l /\ l[Len(s) + 1] = x
      /\ \A i \in DOMAIN s : i \in DOMAIN l /\ l[i] = s[i]
      /\ \A i \in DOMAIN l : i \in DOMAIN s \/ i = Len(s) + 1
  BY Appended
<1> HIDE DEF l
<1>2. ASSUME NEW y, y \in M!Range(l) PROVE y \in M!Range(s) \/ y = x
  <2>1. PICK i \in DOMAIN l : l[i] = y BY <1>2, InRange
  <2>2. CASE i \in DOMAIN s
    <3>1. s[i] = y BY <1>1, <2>1, <2>2
    <3> QED BY <2>2, <3>1, InRange
  <2>3. CASE i = Len(s) + 1 BY <1>1, <2>1, <2>3
  <2> QED BY <1>1, <2>1, <2>2, <2>3
<1>3. ASSUME NEW y, y \in M!Range(s) PROVE y \in M!Range(l)
  <2>1. PICK i \in DOMAIN s : s[i] = y BY <1>3, InRange
  <2>2. i \in DOMAIN l /\ l[i] = y BY <1>1, <2>1
  <2> QED BY <2>2, InRange
<1>4. x \in M!Range(l) BY <1>1, InRange
<1> QED BY <1>1, <1>2, <1>3, <1>4 DEF l

LEMMA TailRange ==
  ASSUME NEW S, NEW s \in Seq(S), s # <<>>
  PROVE  /\ Tail(s) \in Seq(S) /\ Head(s) \in S
         /\ M!Range(s) \subseteq M!Range(Tail(s)) \cup {Head(s)}
<1>1. /\ Tail(s) \in Seq(S) /\ Head(s) = s[1] /\ s[1] \in S
      /\ \A j \in DOMAIN s : j = 1 \/ (j - 1 \in DOMAIN Tail(s) /\ Tail(s)[j - 1] = s[j])
  BY TailOf
<1>2. ASSUME NEW y, y \in M!Range(s) PROVE y \in M!Range(Tail(s)) \cup {Head(s)}
  <2>1. PICK j \in DOMAIN s : s[j] = y BY <1>2, InRange
  <2>2. CASE j = 1 BY <1>1, <2>1, <2>2
  <2>3. CASE j # 1
    <3>1. j - 1 \in DOMAIN Tail(s) /\ Tail(s)[j - 1] = y BY <1>1, <2>1, <2>3
    <3>2. y \in M!Range(Tail(s)) BY <3>1, InRange
    <3> QED BY <3>2
  <2> QED BY <2>2, <2>3
<1> QED BY <1>1, <1>2

(* A message goes out: it is queued, handed to the session and written, or *)
(* any of these fails.                                                     *)
LEMMA OutgoingSteps ==
  ASSUME MessageConstants, MessagesInv,
         \/ M!HandOver \/ M!SendOutgoing \/ M!SendBreaks
         \/ \E id \in 1 .. MaxOutgoing : M!Retry(id)
         \/ \E peer \in Peer : M!QueueOutgoing(peer)
  PROVE  MessagesInv'
<1>1. /\ sent \in Nat /\ sent \in 0 .. MaxOutgoing /\ writing \in 0 .. MaxOutgoing /\ <<>> \in Seq(1 .. MaxOutgoing)
      /\ outbox \in Seq(1 .. MaxOutgoing) /\ toAck \subseteq Incoming
      /\ Inbox(inbox, sent) /\ M!QueuedIds(inbox) \subseteq M!Known(inbox) /\ 0 \notin M!Known(inbox)
      /\ M!Known(inbox) \subseteq Incoming \cup 1 .. sent
      /\ session # 0 => M!QueuedIds(inbox) \subseteq M!Range(outbox) \cup {writing} \cup unsaved
  BY MessageFacts
<1>2. /\ MaxOutgoing \in Nat /\ MaxConversations \in Nat \ {0} /\ MaxPerConversation \in Nat \ {0}
      /\ Incoming \cap (0 .. MaxOutgoing) = {}
  BY DEF MessageConstants
<1>3. sent <= sent /\ 0 \in 0 .. MaxOutgoing /\ \A i \in 1 .. MaxOutgoing : i \in 0 .. MaxOutgoing /\ i # 0
  BY <1>1, <1>2
<1>4. ASSUME NEW id, id \in M!Known(inbox), NEW d \in {"sent", "failed"}
      PROVE  Becomes(M!SetDelivery(id, d), sent, {}, {}, {id})
  <2>1. d \in {"queued", "sent", "failed"} /\ d # "queued" OBVIOUS
  <2>2. Becomes(M!SetDelivery(id, d), sent, {}, IF d = "queued" THEN {id} ELSE {}, IF d = "queued" THEN {} ELSE {id})
    BY <1>1, <1>2, <1>4, <2>1, SetDeliveryBecomes
  <2> QED BY <2>1, <2>2
<1>5. CASE M!HandOver
  <2>1. /\ writing # 0 /\ writing' = 0 /\ UNCHANGED <<held, toAck, session, sent, unsaved>>
    BY <1>5 DEF M!HandOver, M!serverVars
  <2>2. writing \in 1 .. MaxOutgoing BY <1>1, <1>2, <2>1
  <2>3. CASE channel = session
    <3>1. outbox' = Append(outbox, writing) /\ UNCHANGED <<inbox, saved, erased>>
      BY <1>5, <2>3 DEF M!HandOver
    <3>2. outbox' \in Seq(1 .. MaxOutgoing) /\ M!Range(outbox) \cup {writing} \subseteq M!Range(outbox')
      <4> DEFINE S == 1 .. MaxOutgoing
      <4>1. outbox \in Seq(S) /\ writing \in S BY <1>1, <2>2
      <4> HIDE DEF S
      <4>2. /\ Append(outbox, writing) \in Seq(S)
            /\ \A y : y \in M!Range(Append(outbox, writing)) <=> y \in M!Range(outbox) \/ y = writing
        BY <4>1, AppendRange
      <4> QED BY <3>1, <4>2 DEF S
    <3>3. session' # 0 => M!QueuedIds(inbox') \subseteq M!Range(outbox') \cup {writing'} \cup unsaved
      BY <1>1, <2>1, <3>1, <3>2
    <3> QED BY <1>1, <1>3, <2>1, <3>1, <3>2, <3>3, SameIds
  <2>4. CASE channel # session /\ M!Mark(writing, "failed") /\ UNCHANGED outbox
    <3>1. CASE writing \in M!Known(inbox)
      <4> DEFINE X == M!SetDelivery(writing, "failed")
      <4>1. inbox' = X /\ erased' = (erased \cup M!Known(inbox)) \ M!Known(X) /\ (saved' = saved \/ saved' = inbox')
        BY <2>4, <3>1 DEF M!Mark, M!Remembers, M!Erases, M!SaveWorks, M!SaveFails
      <4>2. Becomes(X, sent, {}, {}, {writing}) BY <1>4, <3>1
      <4> HIDE DEF X
      <4>3. session' # 0 => (M!QueuedIds(inbox) \ {writing}) \cup {} \subseteq M!Range(outbox') \cup {writing'} \cup unsaved'
        BY <1>1, <2>1, <2>4
      <4> QED BY <1>1, <1>3, <2>1, <2>4, <4>1, <4>2, <4>3, Operation
    <3>2. CASE writing \notin M!Known(inbox)
      <4>1. UNCHANGED <<inbox, saved, erased>> BY <2>4, <3>2 DEF M!Mark
      <4>2. session' # 0 => M!QueuedIds(inbox') \subseteq M!Range(outbox') \cup {writing'} \cup unsaved
        BY <1>1, <2>1, <2>4, <3>2, <4>1
      <4> QED BY <1>1, <1>3, <2>1, <2>4, <4>1, <4>2, SameIds
    <3> QED BY <3>1, <3>2
  <2>5. CASE session = 0 /\ UNCHANGED <<outbox, inbox, saved, erased>>
    BY <1>1, <1>3, <2>1, <2>5, SameIds
  <2> QED BY <1>5, <2>3, <2>4, <2>5 DEF M!HandOver
<1>6. CASE M!SendOutgoing
  <2> DEFINE h == Head(outbox)
  <2>1. session # 0 /\ outbox # <<>> /\ UNCHANGED <<writing, sent, unsaved>> BY <1>6 DEF M!SendOutgoing
  <2>2. Tail(outbox) \in Seq(1 .. MaxOutgoing) /\ h \in 1 .. MaxOutgoing
        /\ M!Range(outbox) \subseteq M!Range(Tail(outbox)) \cup {h}
    BY <1>1, <2>1, TailRange
  <2> HIDE DEF h
  <2>3. CASE /\ h \in M!Known(inbox)
             /\ M!Remembers(M!SetDelivery(h, "sent")) /\ M!SaveWorks(inbox')
             /\ outbox' = Tail(outbox) /\ UNCHANGED M!serverVars
    <3> DEFINE X == M!SetDelivery(h, "sent")
    <3>1. /\ inbox' = X /\ erased' = (erased \cup M!Known(inbox)) \ M!Known(X) /\ saved' = inbox'
          /\ UNCHANGED <<held, toAck, session>> /\ outbox' = Tail(outbox)
      BY <2>3 DEF M!Remembers, M!Erases, M!SaveWorks, M!serverVars
    <3>2. Becomes(X, sent, {}, {}, {h}) BY <1>4, <2>3
    <3> HIDE DEF X
    <3>3. session' # 0 => (M!QueuedIds(inbox) \ {h}) \cup {} \subseteq M!Range(outbox') \cup {writing'} \cup unsaved'
      BY <1>1, <2>1, <2>2, <3>1
    <3> QED BY <1>1, <1>3, <2>1, <2>2, <3>1, <3>2, <3>3, Operation
  <2>4. ASSUME h \in M!Known(inbox), M!Disconnected, M!SaveFails, NEW d \in {"sent", "failed"},
               inbox' = M!FailQueuedOf(M!SetDelivery(h, d)), M!Erases(M!SetDelivery(h, d))
        PROVE  MessagesInv'
    <3> DEFINE X == M!SetDelivery(h, d)
    <3>1. /\ inbox' = M!FailQueuedOf(X) /\ erased' = (erased \cup M!Known(inbox)) \ M!Known(X) /\ saved' = saved
          /\ held' = held /\ toAck' = {} /\ session' = 0 /\ outbox' = <<>>
      BY <2>4 DEF M!Erases, M!SaveFails, M!Disconnected
    <3>2. Becomes(X, sent, {}, {}, {h}) BY <1>4, <2>4
    <3> HIDE DEF X
    <3> QED BY <1>1, <1>3, <2>1, <3>1, <3>2, Operation
  <2>5. CASE M!Disconnected /\ M!FailQueued(inbox) /\ UNCHANGED erased
    <3>1. /\ UNCHANGED <<held, erased>> /\ session' = 0 /\ toAck' = {} /\ outbox' = <<>>
          /\ inbox' = M!FailQueuedOf(inbox) /\ (saved' = saved \/ saved' = inbox')
      BY <2>5 DEF M!Disconnected, M!FailQueued, M!SaveWorks, M!SaveFails
    <3>2. Inbox(inbox', sent) /\ M!Known(inbox') = M!Known(inbox)
      BY <1>1, <3>1, FailQueuedKeeps
    <3> QED BY <1>1, <2>1, <3>1, <3>2, SameIds
  <2> QED BY <1>6, <2>3, <2>4, <2>5 DEF M!SendOutgoing, h
<1>7. CASE M!SendBreaks
  <2> DEFINE X == M!SetDelivery(Head(outbox), "failed")
  <2>1. /\ Head(outbox) \in M!Known(inbox) /\ inbox' = M!FailQueuedOf(X) /\ saved' = inbox'
        /\ erased' = (erased \cup M!Known(inbox)) \ M!Known(X)
        /\ held' = held /\ toAck' = {} /\ session' = 0 /\ outbox' = <<>> /\ UNCHANGED <<writing, sent, unsaved>>
    BY <1>7 DEF M!SendBreaks, M!Erases, M!SaveWorks, M!Disconnected
  <2>2. Becomes(X, sent, {}, {}, {Head(outbox)}) BY <1>4, <2>1
  <2> HIDE DEF X
  <2> QED BY <1>1, <1>3, <2>1, <2>2, Operation
<1>8. ASSUME NEW id \in 1 .. MaxOutgoing, M!Retry(id) PROVE MessagesInv'
  <2> DEFINE X == M!SetDelivery(id, "queued")
  <2>1. /\ writing = 0 /\ inbox' = X /\ erased' = (erased \cup M!Known(inbox)) \ M!Known(X)
        /\ UNCHANGED <<held, toAck, session, outbox, sent>> /\ (saved' = saved \/ saved' = inbox')
        /\ \/ writing' = id /\ unsaved' = unsaved
           \/ writing' = writing /\ unsaved' = unsaved \cup {id}
    BY <1>8 DEF M!Retry, M!Remembers, M!Erases, M!serverVars, M!SaveWorks, M!SaveFails
  <2>2. id \in M!Known(inbox)
    <3>1. PICK c \in M!Range(inbox) : \E m \in M!Range(c.messages) : m.id = id
      BY <1>8 DEF M!Retry, M!HasFailed
    <3> QED BY <3>1 DEF M!Known, M!IdsOf
  <2>3. Becomes(X, sent, {}, {id}, {}) BY <1>1, <1>2, <2>2, SetDeliveryBecomes
  <2> HIDE DEF X
  <2>4. writing \notin M!QueuedIds(inbox) BY <1>1, <2>1
  <2>5. session' # 0 => (M!QueuedIds(inbox) \ {}) \cup {id} \subseteq M!Range(outbox') \cup {writing'} \cup unsaved'
    BY <1>1, <2>1, <2>4
  <2>6. writing' \in 0 .. MaxOutgoing /\ \A i \in unsaved : i \in unsaved' BY <1>1, <1>3, <2>1
  <2> QED BY <1>1, <1>3, <2>1, <2>3, <2>5, <2>6, Operation
<1>9. ASSUME NEW peer \in Peer, M!QueueOutgoing(peer) PROVE MessagesInv'
  <2> DEFINE id == sent + 1
             msg == [id |-> id, unread |-> FALSE, delivery |-> "queued"]
             X == M!Push(peer, msg, 0)
  <2>1. /\ writing = 0 /\ sent < MaxOutgoing /\ sent' = id
        /\ inbox' = X /\ erased' = (erased \cup M!Known(inbox)) \ M!Known(X)
        /\ UNCHANGED <<held, toAck, session, outbox>> /\ (saved' = saved \/ saved' = inbox')
        /\ \/ writing' = id /\ unsaved' = unsaved
           \/ writing' = writing /\ unsaved' = unsaved \cup {id}
    BY <1>9 DEF M!QueueOutgoing, M!Remembers, M!Erases, M!serverVars, M!SaveWorks, M!SaveFails
  <2>2. id \in Nat /\ id \in 1 .. MaxOutgoing /\ sent <= id /\ id \notin 1 .. sent /\ id \in 0 .. MaxOutgoing
        /\ id \in 1 .. id
    BY <1>1, <1>2, <2>1
  <2>3. msg \in M!Message /\ msg.id = id /\ msg.unread = FALSE /\ msg.delivery = "queued"
    <3>1. FALSE \in BOOLEAN OBVIOUS
    <3> HIDE DEF id
    <3> QED BY <2>2, <3>1 DEF M!Message
  <2>4. id \notin M!Known(inbox) BY <1>1, <1>2, <2>2
  <2>5. Becomes(X, id, {id}, {id}, {})
    <3> HIDE DEF msg, id
    <3>1. (IF msg.unread THEN 1 ELSE 0) = 0 /\ (IF msg.delivery = "queued" THEN {msg.id} ELSE {}) = {id} BY <2>3
    <3>2. msg.id \in Incoming \cup 1 .. id BY <2>2, <2>3
    <3>3. Becomes(M!Push(peer, msg, 0), id, {msg.id}, IF msg.delivery = "queued" THEN {msg.id} ELSE {}, {})
      BY <1>1, <1>2, <2>2, <2>3, <2>4, <3>1, <3>2, PushBecomes
    <3> QED BY <2>3, <3>1, <3>3
  <2> HIDE DEF X, msg, id
  <2>6. writing \notin M!QueuedIds(inbox) BY <1>1, <2>1
  <2>7. session' # 0 => (M!QueuedIds(inbox) \ {}) \cup {id} \subseteq M!Range(outbox') \cup {writing'} \cup unsaved'
    BY <1>1, <2>1, <2>6
  <2>8. writing' \in 0 .. MaxOutgoing /\ (\A i \in unsaved : i \in unsaved') /\ Incoming \cap {id} = {}
    BY <1>1, <1>2, <1>3, <2>1, <2>2
  <2> QED BY <1>1, <2>1, <2>2, <2>5, <2>7, <2>8, Operation
<1> QED BY <1>5, <1>6, <1>7, <1>8, <1>9

(* The user opens, reads, clears or removes a conversation.                *)
LEMMA Rewritten ==
  ASSUME NEW n, NEW c, Fits(c, n), NEW d \in M!Conversation, d.peer = c.peer,
         d.unread = M!UnreadOf(d.messages), M!IdsOf(d) \subseteq M!IdsOf(c)
  PROVE  Fits(d, n)
BY DEF Fits

LEMMA EditSteps ==
  ASSUME MessageConstants, MessagesInv, NEW peer \in Peer,
         \/ M!OpenConversation(peer) \/ M!MarkRead(peer) \/ M!MarkUnread(peer)
         \/ M!ClearConversation(peer) \/ M!RemoveConversation(peer)
  PROVE  MessagesInv'
<1>1. /\ sent \in Nat /\ sent \in 0 .. MaxOutgoing /\ writing \in 0 .. MaxOutgoing
      /\ outbox \in Seq(1 .. MaxOutgoing) /\ toAck \subseteq Incoming /\ Inbox(inbox, sent)
      /\ session # 0 => M!QueuedIds(inbox) \subseteq M!Range(outbox) \cup {writing} \cup unsaved
  BY MessageFacts
<1>2. MaxConversations \in Nat /\ sent <= sent BY <1>1 DEF MessageConstants
<1> DEFINE c == M!Get(peer)
<1>3. /\ Fits(c, sent) /\ M!IdsOf(c) \subseteq M!Known(inbox) /\ QueuedIn(c) \subseteq M!QueuedIds(inbox)
  BY <1>1, GetFits
<1>4. /\ c \in M!Conversation /\ c.messages \in Seq(M!Message) /\ c.peer \in Peer
  BY <1>3 DEF Fits, M!Conversation
<1> HIDE DEF c
<1>5. ASSUME NEW X, M!Edits(X), Becomes(X, sent, {}, {}, {}) PROVE MessagesInv'
  <2>1. /\ inbox' = X /\ erased' = (erased \cup M!Known(inbox)) \ M!Known(X)
        /\ UNCHANGED <<held, toAck, session, outbox, writing, sent, unsaved>> /\ (saved' = saved \/ saved' = inbox')
    BY <1>5 DEF M!Edits, M!Remembers, M!Erases, M!serverVars, M!senderVars, M!SaveWorks, M!SaveFails
  <2>2. session' # 0 => (M!QueuedIds(inbox) \ {}) \cup {} \subseteq M!Range(outbox') \cup {writing'} \cup unsaved'
    BY <1>1, <2>1
  <2> QED BY <1>1, <1>2, <1>5, <2>1, <2>2, Operation
<1>6. ASSUME NEW d, Fits(d, sent), M!IdsOf(d) \subseteq M!IdsOf(c), QueuedIn(d) \subseteq QueuedIn(c)
      PROVE  /\ Becomes(M!Foremost(d), sent, {}, {}, {}) /\ Becomes(M!InPlace(d), sent, {}, {}, {})
  <2>1. UNION {QueuedIn(inbox[i]) : i \in {i \in DOMAIN inbox : inbox[i].peer # d.peer}} \subseteq M!QueuedIds(inbox)
    BY QueuedMessages
  <2>2. Becomes(M!Foremost(d), sent, {}, {}, {})
    <3>1. /\ Inbox(M!Foremost(d), sent)
          /\ M!Known(M!Foremost(d)) \subseteq M!Known(inbox) \cup M!IdsOf(d)
          /\ M!QueuedIds(M!Foremost(d)) \subseteq
               QueuedIn(d) \cup UNION {QueuedIn(inbox[i]) : i \in {i \in DOMAIN inbox : inbox[i].peer # d.peer}}
      BY <1>1, <1>2, <1>6, ForemostKeeps
    <3> QED BY <1>3, <1>6, <2>1, <3>1 DEF Becomes
  <2>3. Becomes(M!InPlace(d), sent, {}, {}, {})
    <3>1. /\ Inbox(M!InPlace(d), sent)
          /\ M!Known(M!InPlace(d)) \subseteq M!Known(inbox) \cup M!IdsOf(d)
          /\ M!QueuedIds(M!InPlace(d)) \subseteq M!QueuedIds(inbox) \cup QueuedIn(d)
      BY <1>1, <1>6, InPlaceKeeps
    <3> QED BY <1>3, <1>6, <3>1 DEF Becomes
  <2> QED BY <2>2, <2>3
<1>7. CASE M!OpenConversation(peer)
  <2>1. M!Edits(M!Foremost(c)) BY <1>7 DEF M!OpenConversation, c
  <2>2. Becomes(M!Foremost(c), sent, {}, {}, {}) BY <1>3, <1>6
  <2> QED BY <1>5, <2>1, <2>2
<1>8. CASE M!MarkRead(peer)
  <2> DEFINE ns == [i \in DOMAIN c.messages |-> [c.messages[i] EXCEPT !.unread = FALSE]]
             d == [c EXCEPT !.unread = 0, !.messages = ns]
  <2>1. M!Edits(M!InPlace(d)) BY <1>8 DEF M!MarkRead, c
  <2>2. ASSUME NEW i \in DOMAIN ns
        PROVE  /\ ns[i] \in M!Message /\ ns[i].id = c.messages[i].id /\ ns[i].unread = FALSE
               /\ ns[i].delivery = c.messages[i].delivery
    <3>1. c.messages[i] \in M!Message BY <1>4
    <3>2. FALSE \in BOOLEAN OBVIOUS
    <3> QED BY <3>1, <3>2 DEF M!Message
  <2>3. DOMAIN ns = DOMAIN c.messages /\ ns = [i \in DOMAIN c.messages |-> ns[i]] OBVIOUS
  <2> HIDE DEF ns
  <2>4. ns \in Seq(M!Message) BY <1>4, <2>2, <2>3, Mapped
  <2>5. M!UnreadOf(ns) = 0 BY <2>2, <2>4, UnreadCounts
  <2>6. d \in M!Conversation /\ d.peer = c.peer /\ d.messages = ns /\ d.unread = 0
    BY <1>4, <2>4 DEF M!Conversation
  <2> HIDE DEF d
  <2>7. M!IdsOf(d) \subseteq M!IdsOf(c)
    <3>1. ASSUME NEW id, id \in M!IdsOf(d) PROVE id \in M!IdsOf(c)
      <4>1. PICK k \in DOMAIN ns : id = ns[k].id BY <2>6, <3>1, IdsOfMessages
      <4>2. k \in DOMAIN c.messages /\ id = c.messages[k].id BY <2>2, <2>3, <4>1
      <4> QED BY <4>2, IdsOfMessages
    <3> QED BY <3>1
  <2>8. QueuedIn(d) \subseteq QueuedIn(c)
    <3>1. ASSUME NEW id \in QueuedIn(d) PROVE id \in QueuedIn(c)
      <4>1. PICK k \in DOMAIN ns : ns[k].delivery = "queued" /\ id = ns[k].id
        BY <2>6 DEF QueuedIn
      <4>2. /\ k \in DOMAIN c.messages /\ c.messages[k].delivery = "queued"
            /\ id = c.messages[k].id
        BY <2>2, <2>3, <4>1
      <4> HIDE DEF c
      <4> QED BY <4>2 DEF QueuedIn
    <3> QED BY <3>1
  <2>9. Fits(d, sent) BY <1>3, <2>5, <2>6, <2>7, Rewritten
  <2>10. Becomes(M!InPlace(d), sent, {}, {}, {}) BY <1>6, <2>7, <2>8, <2>9
  <2> QED BY <1>5, <2>1, <2>10
<1>9. CASE M!MarkUnread(peer)
  <2> DEFINE ns == [c.messages EXCEPT ![Len(c.messages)].unread = TRUE]
             d == [c EXCEPT !.messages = ns, !.unread = M!UnreadOf(ns)]
  <2>1. M!Edits(M!InPlace(d)) /\ c.messages # <<>> BY <1>9 DEF M!MarkUnread, c
  <2>2. ASSUME NEW i \in DOMAIN ns
        PROVE  /\ ns[i] \in M!Message /\ ns[i].id = c.messages[i].id /\ ns[i].delivery = c.messages[i].delivery
    <3>1. c.messages[i] \in M!Message BY <1>4
    <3>2. TRUE \in BOOLEAN OBVIOUS
    <3> QED BY <3>1, <3>2 DEF M!Message
  <2>3. DOMAIN ns = DOMAIN c.messages /\ ns = [i \in DOMAIN c.messages |-> ns[i]] BY <1>4
  <2> HIDE DEF ns
  <2>4. ns \in Seq(M!Message) BY <1>4, <2>2, <2>3, Mapped
  <2>5. M!UnreadOf(ns) \in Nat BY <2>4, UnreadCounts
  <2>6. d \in M!Conversation /\ d.peer = c.peer /\ d.messages = ns /\ d.unread = M!UnreadOf(ns)
    BY <1>4, <2>4, <2>5 DEF M!Conversation
  <2> HIDE DEF d
  <2>7. M!IdsOf(d) \subseteq M!IdsOf(c)
    <3>1. ASSUME NEW id, id \in M!IdsOf(d) PROVE id \in M!IdsOf(c)
      <4>1. PICK k \in DOMAIN ns : id = ns[k].id BY <2>6, <3>1, IdsOfMessages
      <4>2. k \in DOMAIN c.messages /\ id = c.messages[k].id BY <2>2, <2>3, <4>1
      <4> QED BY <4>2, IdsOfMessages
    <3> QED BY <3>1
  <2>8. QueuedIn(d) \subseteq QueuedIn(c) BY <2>2, <2>3, <2>6 DEF QueuedIn
  <2>9. Fits(d, sent) BY <1>3, <2>6, <2>7, Rewritten
  <2>10. Becomes(M!InPlace(d), sent, {}, {}, {}) BY <1>6, <2>7, <2>8, <2>9
  <2> QED BY <1>5, <2>1, <2>10
<1>10. CASE M!ClearConversation(peer)
  <2> DEFINE d == [c EXCEPT !.messages = <<>>, !.unread = 0]
  <2>1. M!Edits(M!Foremost(d)) BY <1>10 DEF M!ClearConversation, c
  <2>2. <<>> \in Seq(M!Message) /\ M!UnreadOf(<<>>) = 0
    <3>1. <<>> \in Seq(M!Message) /\ \A i \in DOMAIN <<>> : <<>>[i].unread = FALSE OBVIOUS
    <3> QED BY <3>1, UnreadCounts
  <2>3. d \in M!Conversation /\ d.peer = c.peer /\ d.messages = <<>> /\ d.unread = 0
    BY <1>4, <2>2 DEF M!Conversation
  <2> HIDE DEF d
  <2>4. M!IdsOf(d) = {} /\ QueuedIn(d) = {} BY <2>3, IdsOfMessages DEF QueuedIn
  <2>5. Fits(d, sent) BY <1>3, <2>2, <2>3, <2>4, Rewritten
  <2>6. Becomes(M!Foremost(d), sent, {}, {}, {}) BY <1>6, <2>4, <2>5
  <2> QED BY <1>5, <2>1, <2>6
<1>11. CASE M!RemoveConversation(peer)
  <2>1. M!Edits(M!Without(peer)) BY <1>11 DEF M!RemoveConversation
  <2>2. Becomes(M!Without(peer), sent, {}, {}, {}) BY <1>1, WithoutKeeps DEF Becomes
  <2> QED BY <1>5, <2>1, <2>2
<1> QED BY <1>7, <1>8, <1>9, <1>10, <1>11

LEMMA MessagesInitInv == ASSUME MessageConstants PROVE M!MsgInit => MessagesInv
<1> SUFFICES ASSUME M!MsgInit PROVE MessagesInv OBVIOUS
<1>1. /\ inbox = <<>> /\ saved = <<>> /\ held = Incoming /\ toAck = {} /\ session = 0
      /\ outbox = <<>> /\ writing = 0 /\ sent = 0 /\ erased = {} /\ unsaved = {}
  BY DEF M!MsgInit
<1>2. <<>> \in Seq(M!Conversation) /\ <<>> \in Seq(1 .. MaxOutgoing) /\ 0 \in 0 .. MaxOutgoing
  BY DEF MessageConstants
<1>3. \A i \in DOMAIN <<>> : FALSE OBVIOUS
<1>4. Inbox(<<>>, 0) BY <1>2, <1>3 DEF Inbox
<1>5. MessagesOK BY <1>1, <1>2, <1>4 DEF MessagesOK
<1>6. M!QueuedIsUnderWay BY <1>1 DEF M!QueuedIsUnderWay
<1>7. M!Known(<<>>) = {}
  <2>1. \A id : id \notin M!Known(<<>>) BY <1>3, KnownIds
  <2> QED BY <2>1
<1>8. AckInv BY <1>1, <1>7 DEF AckInv
<1> QED BY <1>5, <1>6, <1>8 DEF MessagesInv

LEMMA AlwaysMessages ==
  ASSUME MessageConstants
  PROVE  StoresSpec => []MessagesInv
<1>1. StoresInit => MessagesInv BY MessagesInitInv DEF StoresInit
<1>2. [StoresNext]_allVars => [M!MsgNext]_messageVars
  BY DEF StoresNext, JsonNext, MessagesNext, RoomsNext, PeopleNext, RadarNext, FilingNext, SharesNext,
         allVars, libraryVars
<1>3. MessagesInv /\ UNCHANGED messageVars => MessagesInv'
  BY DEF messageVars, MessagesInv, MessagesOK, M!QueuedIsUnderWay, AckInv, Safe
<1>4. MessagesInv /\ [M!MsgNext]_messageVars => MessagesInv'
  BY <1>3, MessageSessions, IncomingSteps, OutgoingSteps, EditSteps DEF M!MsgNext
<1> QED BY <1>1, <1>2, <1>4, PTL DEF StoresSpec

(* The unread counts are those of the messages, a message shown as Queued  *)
(* will still be come across by the session, and an acknowledged message   *)
(* that nobody removed is in the file unless its own save failed; for any  *)
(* users, messages and limits, however sessions break, saves fail and the  *)
(* user edits meanwhile (messages.rs, service.rs, service/commands.rs).    *)
THEOREM ConversationsStaySound ==
  ASSUME MessageConstants
  PROVE  StoresSpec => []ConversationsAreSound
<1>1. MessagesInv => M!UnreadCountsAgree
  BY DEF MessagesInv, MessagesOK, Inbox, M!UnreadCountsAgree
<1>2. MessagesInv => M!AckedIsSavedOnce
  BY DEF MessagesInv, AckInv, Safe, M!AckedIsSavedOnce
<1>3. MessagesInv => ConversationsAreSound
  BY <1>1, <1>2 DEF MessagesInv, ConversationsAreSound
<1> QED BY <1>3, AlwaysMessages, PTL

=============================================================================
