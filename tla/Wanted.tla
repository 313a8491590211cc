-------------------------------- MODULE Wanted --------------------------------
(***************************************************************************)
(* Checks of wanted albums (wanted.rs): one album at a time is searched    *)
(* for, by hand or when it is due, and what was found is written to the    *)
(* album.  The session runs the check; threads of the interface change the *)
(* same album at any moment, also between the steps of finish, which takes *)
(* the lock of the list once for each thing it reads.                      *)
(*                                                                         *)
(* The list's own file is modelled in ReleaseRadar and JsonStore.          *)
(***************************************************************************)
EXTENDS Integers, FiniteSets

CONSTANTS
  Album,
  Edition,        \* releases of an album the user may choose
  Tolerance,      \* match tolerances the settings may hold
  MaxMisses,      \* where the count of misses stops changing the interval
  Tries,          \* queries in the plan of an album
  MaxSessions,    \* bound on the sessions
  MaxCheckToken   \* bound on the tokens taken

VARIABLES
  wanted,     \* WantedStore::albums
  tolerance,  \* WantedStore::tolerance
  interval,   \* interval_minutes is not 0
  active,     \* WantedRuntime::active
  ending,     \* the check finish has taken, and what it has read so far
  online,     \* the session is up, and how many there were
  checkToken, \* next_search_token
  sent,       \* history: token -> sessions whose wire carried its query
  fresh       \* history: albums the last change of tolerance made due

wantedCheckVars == <<wanted, tolerance, interval, active, ending, online,
                     checkToken, sent, fresh>>
sessionVars == <<online, checkToken, sent>>

None == [album |-> "none"]
NoResult == [edition |-> "none", tolerance |-> "none"]

(* ranked: under which edition and tolerance the sources an album shows    *)
(* were chosen.                                                            *)
New == [paused |-> FALSE, fulfilled |-> "no", despite |-> FALSE,
        edition |-> "any", checked |-> FALSE, misses |-> 0, ranked |-> NoResult]

WantedInit ==
  /\ wanted = [a \in {} |-> New]
  /\ tolerance \in Tolerance /\ interval = TRUE
  /\ active = None /\ ending = None
  /\ online = [up |-> FALSE, session |-> 0]
  /\ checkToken = 1 /\ sent = [t \in 1..MaxCheckToken |-> 0] /\ fresh = {}

Listed == DOMAIN wanted
Drop(S) == active' = IF active.album \in S THEN None ELSE active
Watching(a) == a \in Listed /\ ~wanted[a].paused /\ wanted[a].fulfilled = "no"

(* reset_for_watch, and the part of set_preferences, change_edition and    *)
(* apply_settings that makes an album due and forgets its sources.         *)
Unchecked(album) == [album EXCEPT !.checked = FALSE, !.misses = 0]
Forgotten(album) == [Unchecked(album) EXCEPT !.ranked = NoResult]
ResetForWatch(album) ==
  [Forgotten(album) EXCEPT !.paused = FALSE, !.fulfilled = "no", !.despite = TRUE]

-----------------------------------------------------------------------------
(* Commands of the interface.                                              *)
Changes(a, album) == wanted' = [wanted EXCEPT ![a] = album]
listVars == <<tolerance, interval, ending, sessionVars>>

Add(a) ==
  /\ wanted' = [b \in Listed \cup {a} |->
       IF b # a THEN wanted[b]
       ELSE IF a \notin Listed THEN New
       ELSE IF wanted[a].fulfilled # "no" THEN ResetForWatch(wanted[a])
       ELSE [wanted[a] EXCEPT !.paused = FALSE]]
  /\ fresh' = fresh \ {a}
  /\ UNCHANGED <<active, listVars>>

Remove(a) ==
  /\ a \in Listed
  /\ wanted' = [b \in Listed \ {a} |-> wanted[b]]
  /\ Drop({a})
  /\ fresh' = fresh \ {a}
  /\ UNCHANGED listVars

SetPaused(a) ==
  /\ a \in Listed
  /\ \E paused \in BOOLEAN :
       /\ Changes(a, [wanted[a] EXCEPT !.paused = paused])
       /\ IF paused THEN Drop({a}) ELSE UNCHANGED active
  /\ UNCHANGED <<fresh, listVars>>

FulfillDownloaded(a) ==
  /\ a \in Listed
  /\ Changes(a, [wanted[a] EXCEPT !.fulfilled = "download", !.despite = FALSE,
                                  !.ranked = NoResult])
  /\ Drop({a})
  /\ UNCHANGED <<fresh, listVars>>

(* The archive's answer leaves a running check alone.                      *)
SyncFulfilled(a) ==
  /\ a \in Listed /\ ~wanted[a].despite /\ wanted[a].fulfilled # "download"
  /\ \/ wanted[a].fulfilled = "no" /\ Changes(a, [wanted[a] EXCEPT !.fulfilled = "archive"])
     \/ wanted[a].fulfilled = "archive"
          /\ Changes(a, [Unchecked(wanted[a]) EXCEPT !.fulfilled = "no"])
  /\ UNCHANGED <<active, fresh, listVars>>

Restore(a) ==
  /\ a \in Listed
  /\ Changes(a, ResetForWatch(wanted[a]))
  /\ fresh' = fresh \ {a}
  /\ UNCHANGED <<active, listVars>>

SetPreferences(a) ==
  /\ a \in Listed
  /\ Changes(a, Forgotten(wanted[a]))
  /\ fresh' = fresh \ {a}
  /\ UNCHANGED <<active, listVars>>

SetEdition(a) ==
  /\ a \in Listed
  /\ \E edition \in Edition \ {wanted[a].edition} :
       Changes(a, [Forgotten(wanted[a]) EXCEPT !.edition = edition])
  /\ Drop({a})
  /\ fresh' = fresh \ {a}
  /\ UNCHANGED listVars

ApplySettings ==
  /\ \E t \in Tolerance : tolerance' = t
  /\ \E on \in BOOLEAN : interval' = on
  /\ IF tolerance' = tolerance THEN UNCHANGED <<wanted, fresh>>
     ELSE /\ wanted' = [a \in Listed |->
               IF wanted[a].fulfilled = "no" THEN Unchecked(wanted[a]) ELSE wanted[a]]
          /\ fresh' = {a \in Listed : wanted[a].fulfilled = "no"}
  /\ UNCHANGED <<active, ending, sessionVars>>

(* check_wanted: a check by hand waits for the lane of the user.           *)
Start(a, automatic) ==
  /\ online.up /\ active = None /\ Watching(a) /\ checkToken <= MaxCheckToken
  /\ checkToken' = checkToken + 1
  /\ active' = [album |-> a, edition |-> wanted[a].edition, token |-> checkToken,
                listening |-> automatic, automatic |-> automatic,
                found |-> FALSE, tracks |-> FALSE, try |-> 1]
  /\ UNCHANGED <<wanted, tolerance, interval, ending, online, fresh>>

StartManual(a) == Start(a, FALSE) /\ UNCHANGED sent

-----------------------------------------------------------------------------
(* The session.                                                            *)
OnWire(token) == sent' = [sent EXCEPT ![token] = online.session]

(* start_due: a check the interval makes due goes on the wire at once, or  *)
(* the write fails and ends the session.                                   *)
StartDue(a) ==
  /\ interval /\ ending = None
  /\ Start(a, TRUE)
  /\ OnWire(checkToken) \/ UNCHANGED sent

(* start_pending: a check that waits, unless its album is no longer        *)
(* watched or its interval was switched off.                               *)
StartPending ==
  /\ online.up /\ ending = None /\ active # None
  /\ IF ~Watching(active.album) \/ (active.automatic /\ ~interval)
       THEN active' = None /\ UNCHANGED sent
       ELSE /\ ~active.listening
            /\ active' = [active EXCEPT !.listening = TRUE]
            /\ OnWire(active.token) \/ UNCHANGED sent
  /\ UNCHANGED <<wanted, tolerance, interval, ending, online, checkToken, fresh>>

Hears == active # None /\ active.listening
Record ==
  /\ Hears /\ sent[active.token] # 0
  /\ active' = [active EXCEPT !.found = TRUE]
  /\ UNCHANGED <<wanted, fresh, listVars>>

TracksLoaded ==
  /\ active # None
  /\ active' = [active EXCEPT !.tracks = TRUE]
  /\ UNCHANGED <<wanted, fresh, listVars>>

(* expire_if_due, after a write that succeeded.                            *)
Expire ==
  /\ Hears /\ online.up /\ ending = None /\ sent[active.token] = online.session
  /\ IF ~active.found /\ active.try < Tries
       THEN /\ checkToken <= MaxCheckToken
            /\ checkToken' = checkToken + 1
            /\ active' = [active EXCEPT !.token = checkToken, !.listening = FALSE,
                                        !.try = @ + 1]
            /\ UNCHANGED ending
       ELSE /\ active.tracks
            /\ ending' = [album |-> active.album, edition |-> active.edition,
                          found |-> active.found, token |-> active.token,
                          tolerance |-> "unread"]
            /\ active' = None
            /\ UNCHANGED checkToken
  /\ UNCHANGED <<wanted, tolerance, interval, online, sent, fresh>>

(* finish: the tolerance is read, the sources are ranked, and the album    *)
(* is written if it still has the edition that was searched for.           *)
ReadTolerance ==
  /\ ending # None /\ ending.tolerance = "unread"
  /\ ending' = [ending EXCEPT !.tolerance = tolerance]
  /\ UNCHANGED <<wanted, tolerance, interval, active, sessionVars, fresh>>

Checked(album) ==
  [album EXCEPT
    !.checked = TRUE,
    !.misses = IF ending.found THEN 0 ELSE IF @ < MaxMisses THEN @ + 1 ELSE @,
    !.ranked = IF ending.found
                 THEN [edition |-> ending.edition, tolerance |-> ending.tolerance]
                 ELSE NoResult]

FinishAnyEdition == \* mutant: the edition is not compared
  /\ ending # None /\ ending.tolerance # "unread"
  /\ wanted' = [a \in Listed |->
       IF a = ending.album THEN Checked(wanted[a]) ELSE wanted[a]]
  /\ ending' = None
  /\ UNCHANGED <<tolerance, interval, active, sessionVars, fresh>>

Finish ==
  /\ ending # None /\ ending.tolerance # "unread"
  /\ wanted' = [a \in Listed |->
       IF a = ending.album /\ wanted[a].edition = ending.edition
         THEN Checked(wanted[a]) ELSE wanted[a]]
  /\ ending' = None
  /\ UNCHANGED <<tolerance, interval, active, sessionVars, fresh>>

-----------------------------------------------------------------------------
SessionUp ==
  /\ ~online.up /\ ending = None /\ online.session < MaxSessions
  /\ online' = [up |-> TRUE, session |-> online.session + 1]
  /\ UNCHANGED <<wanted, tolerance, interval, active, ending, checkToken, sent, fresh>>

SessionLostQuietly == \* mutant: the wanted hub is not told
  /\ online.up
  /\ online' = [online EXCEPT !.up = FALSE]
  /\ UNCHANGED <<wanted, tolerance, interval, active, ending, checkToken, sent, fresh>>

(* connection_lost.                                                        *)
SessionLost ==
  /\ online.up
  /\ online' = [online EXCEPT !.up = FALSE]
  /\ active' = None
  /\ UNCHANGED <<wanted, tolerance, interval, ending, checkToken, sent, fresh>>

WantedNext ==
  \/ \E a \in Album :
       \/ Add(a) \/ Remove(a) \/ SetPaused(a) \/ FulfillDownloaded(a)
       \/ SyncFulfilled(a) \/ Restore(a) \/ SetPreferences(a) \/ SetEdition(a)
       \/ StartManual(a) \/ StartDue(a)
  \/ ApplySettings \/ StartPending \/ Record \/ TracksLoaded \/ Expire
  \/ ReadTolerance \/ Finish \/ SessionUp \/ SessionLost

WantedSpec == WantedInit /\ [][WantedNext]_wantedCheckVars

-----------------------------------------------------------------------------
(* The sources an album shows are those of the edition it wants: a choice  *)
(* made at any moment of a check is never answered with another edition.   *)
SourcesAreOfTheEdition == \A a \in Listed :
  wanted[a].ranked # NoResult => wanted[a].ranked.edition = wanted[a].edition

(* A check is alive only in the session whose wire will carry it, and one  *)
(* that listens was sent in that session or is about to end it.  So an     *)
(* interrupted session never counts as a miss (record_check_outcome).      *)
ChecksDieWithTheSession ==
  /\ ~online.up => active = None
  /\ Hears => sent[active.token] \in {0, online.session}

(* "every open watch gets a fresh look" when the tolerance changes         *)
(* (apply_settings, wanted.rs): until it is checked again an open album    *)
(* stays due, and a check ranked under the old tolerance is not one.       *)
EveryWatchGetsAFreshLook == \A a \in Listed \cap fresh :
  wanted[a].fulfilled = "no" /\ wanted[a].checked /\ wanted[a].ranked # NoResult =>
    wanted[a].ranked.tolerance = tolerance
=============================================================================
