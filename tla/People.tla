------------------------------- MODULE People -------------------------------
(***************************************************************************)
(* What we know of other users (people.rs): the saved lists, the profiles  *)
(* that show them, and the users the server watches for us.                *)
(*                                                                         *)
(* A command thread changes a list, its profile and the file under three   *)
(* locks, one after the other, and then asks the session to watch or to    *)
(* unwatch the user.  Meanwhile profiles come into being wherever a user   *)
(* is observed, and sessions begin and end.                                *)
(***************************************************************************)
EXTENDS Integers, Sequences, FiniteSets, SequencesExt

CONSTANTS
  Person,
  Setters,       \* threads that run the commands of the interface
  MaxFavorites,  \* MAX_FAVORITES, MAX_BLOCKED and MAX_IGNORED
  MaxRecent,     \* MAX_RECENT
  MaxProfiles,   \* MAX_RUNTIME_PROFILES
  MaxPeopleFailures, \* bound: saves that fail
  MaxWatches     \* bound: commands in the session's channel

Lists == {"favorite", "blocked"} \* ignored users are kept as blocked ones are

VARIABLES
  lists,    \* PeopleStore: list -> set of users
  recent,   \* PeopleStore::recent, newest first
  peopleFile, \* the file: <<lists, recent>>
  profiles, \* PeopleRuntime::profiles: user -> lists it is shown in, NoProfile
  watched,  \* PeopleRuntime::watched
  phase,    \* the session: "off", "setup", "shown", "up"
  watches,  \* commands WatchPerson, UnwatchPerson in the channel
  watching, \* the server: the users it watches for us
  setter,   \* what each thread is doing
  notSaved, \* saves that failed
  raced     \* history: two threads have changed one user at the same time

peopleVars == <<lists, recent, peopleFile, profiles, watched, phase, watches,
                watching, setter, notSaved, raced>>
sessionVars == <<watched, phase, watches, watching>>

NoProfile == {"none"}
Resting == [at |-> "idle", list |-> "favorite", who |-> CHOOSE p \in Person : TRUE,
            value |-> FALSE]

PeopleInit ==
  /\ lists = [l \in Lists |-> {}] /\ recent = <<>>
  /\ peopleFile = <<lists, recent>>
  /\ profiles = [p \in Person |-> NoProfile]
  /\ watched = {} /\ phase = "off" /\ watches = <<>> /\ watching = {}
  /\ setter = [t \in Setters |-> Resting]
  /\ notSaved = 0 /\ raced = FALSE

-----------------------------------------------------------------------------
(* observe: a profile comes into being with the flags the lists give it.   *)
Shown == {p \in Person : profiles[p] # NoProfile}
FlagsOf(p) == {l \in Lists : p \in lists[l]}

WithBlank(p) == \* mutant: a new profile starts without flags
  IF p \in Shown \/ Cardinality(Shown) >= MaxProfiles THEN profiles
  ELSE [profiles EXCEPT ![p] = {}]

With(p) ==
  IF p \in Shown \/ Cardinality(Shown) >= MaxProfiles THEN profiles
  ELSE [profiles EXCEPT ![p] = FlagsOf(p)]

(* A frame of the server or a peer names the user: update_watch,           *)
(* update_status, update_stats, update_interests, and the peers' answers.  *)
Observed(p) ==
  /\ profiles' = With(p)
  /\ UNCHANGED <<lists, recent, peopleFile, sessionVars, setter, notSaved, raced>>

(* snapshot and populate_saved_people: everyone who is saved has a profile *)
(* while there is room.                                                    *)
Saved == UNION {lists[l] : l \in Lists} \cup Range(recent)
EnsureSaved ==
  /\ \E p \in Saved \ Shown : profiles' = With(p)
  /\ UNCHANGED <<lists, recent, peopleFile, sessionVars, setter, notSaved, raced>>

-----------------------------------------------------------------------------
(* set_favorite, set_blocked and set_ignored, lock by lock.                *)
At(t, at) == setter[t].at = at
Goes(t, at) == setter' = [setter EXCEPT ![t].at = at]

BeginSet(t, l, p, value) ==
  /\ At(t, "idle") /\ Len(watches) < MaxWatches
  /\ setter' = [setter EXCEPT ![t] = [at |-> "list", list |-> l, who |-> p, value |-> value]]
  /\ raced' = (raced \/ \E u \in Setters : ~At(u, "idle") /\ setter[u].who = p)
  /\ profiles' = With(p)
  /\ UNCHANGED <<lists, recent, peopleFile, sessionVars, notSaved>>

ChangeList(t) ==
  /\ At(t, "list")
  /\ LET s == setter[t]
         rest == lists[s.list] \ {s.who}
         full == s.value /\ Cardinality(rest) >= MaxFavorites
     IN /\ lists' = [lists EXCEPT ![s.list] =
                       IF s.value /\ ~full THEN rest \cup {s.who} ELSE rest]
        /\ Goes(t, IF full THEN "idle" ELSE "profile")
  /\ UNCHANGED <<recent, peopleFile, profiles, sessionVars, notSaved, raced>>

ChangeProfile(t) ==
  /\ At(t, "profile")
  /\ LET s == setter[t]
     IN profiles' = IF s.who \notin Shown THEN profiles
          ELSE [profiles EXCEPT ![s.who] =
                  IF s.value THEN @ \cup {s.list} ELSE @ \ {s.list}]
  /\ Goes(t, "save")
  /\ UNCHANGED <<lists, recent, peopleFile, sessionVars, notSaved, raced>>

(* persist holds the list's read lock over the save.                       *)
SavesIfShown(t) == \* mutant: without a profile there is nothing to save
  /\ At(t, "save")
  /\ peopleFile' = IF setter[t].who \in Shown THEN <<lists, recent>> ELSE peopleFile
  /\ Goes(t, IF setter[t].list = "favorite" THEN "tell" ELSE "idle")
  /\ UNCHANGED <<lists, recent, profiles, sessionVars, notSaved, raced>>

SavesLists(t) ==
  /\ At(t, "save")
  /\ peopleFile' = <<lists, recent>>
  /\ Goes(t, IF setter[t].list = "favorite" THEN "tell" ELSE "idle")
  /\ UNCHANGED <<lists, recent, profiles, sessionVars, notSaved, raced>>

SaveOfListsFails(t) ==
  /\ At(t, "save") /\ notSaved < MaxPeopleFailures
  /\ notSaved' = notSaved + 1
  /\ Goes(t, "idle")
  /\ UNCHANGED <<lists, recent, peopleFile, profiles, sessionVars, raced>>

(* set_person_favorite: the session is told, if there is one.              *)
TellSession(t) ==
  /\ At(t, "tell") /\ Goes(t, "idle")
  /\ watches' = IF phase \in {"shown", "up"}
       THEN Append(watches, <<setter[t].who, setter[t].value>>) ELSE watches
  /\ UNCHANGED <<lists, recent, peopleFile, profiles, watched, phase, watching,
                 notSaved, raced>>

(* remember: the user goes to the front of the recent ones.                *)
Remember(p) ==
  /\ profiles' = With(p)
  /\ LET others == <<p>> \o SelectSeq(recent, LAMBDA q : q # p)
     IN recent' = SubSeq(others, 1, IF Len(others) < MaxRecent THEN Len(others) ELSE MaxRecent)
  /\ \/ peopleFile' = <<lists, recent'>> /\ UNCHANGED notSaved
     \/ /\ notSaved < MaxPeopleFailures /\ notSaved' = notSaved + 1
        /\ UNCHANGED peopleFile
  /\ UNCHANGED <<lists, sessionVars, setter, raced>>

PeopleRestart ==
  /\ phase = "off" /\ \A t \in Setters : At(t, "idle")
  /\ lists' = peopleFile[1] /\ recent' = peopleFile[2]
  /\ profiles' = [p \in Person |-> NoProfile]
  /\ UNCHANGED <<peopleFile, sessionVars, setter, raced>>
  /\ notSaved' = 0

-----------------------------------------------------------------------------
(* The session sets its sender, shows Online and then joins the hubs,      *)
(* which queue a watch for every favorite.                                 *)
SessionSetup ==
  /\ phase = "off" /\ phase' = "setup"
  /\ UNCHANGED <<lists, recent, peopleFile, profiles, watched, watches, watching,
                 setter, notSaved, raced>>

SessionShown ==
  /\ phase = "setup" /\ phase' = "shown"
  /\ UNCHANGED <<lists, recent, peopleFile, profiles, watched, watches, watching,
                 setter, notSaved, raced>>

PeopleConnected ==
  /\ phase = "shown" /\ phase' = "up"
  /\ watches' = watches \o SetToSeq(lists["favorite"] \X {TRUE})
  /\ UNCHANGED <<lists, recent, peopleFile, profiles, watched, watching, setter,
                 notSaved, raced>>

StillWatched == \* mutant: the users watched in the lost session are kept
  /\ phase # "off" /\ phase' = "off"
  /\ watches' = <<>> /\ watching' = {}
  /\ UNCHANGED <<watched, lists, recent, peopleFile, profiles, setter, notSaved, raced>>

PeopleLost ==
  /\ phase # "off" /\ phase' = "off"
  /\ watched' = {} /\ watches' = <<>> /\ watching' = {}
  /\ UNCHANGED <<lists, recent, peopleFile, profiles, setter, notSaved, raced>>

(* WatchPerson tells the server of a user only once a session; so does the *)
(* request for a profile.                                                  *)
Watch(p) ==
  /\ watched' = watched \cup {p}
  /\ watching' = IF p \in watched THEN watching ELSE watching \cup {p}

HandleWatch ==
  /\ phase = "up" /\ watches # <<>>
  /\ watches' = Tail(watches)
  /\ IF Head(watches)[2] THEN Watch(Head(watches)[1])
     ELSE /\ watched' = watched \ {Head(watches)[1]}
          /\ watching' = watching \ {Head(watches)[1]}
  /\ UNCHANGED <<lists, recent, peopleFile, profiles, phase, setter, notSaved, raced>>

HandleProfileRequest(p) ==
  /\ phase = "up" /\ Watch(p)
  /\ UNCHANGED <<lists, recent, peopleFile, profiles, phase, watches, setter,
                 notSaved, raced>>

PeopleNext ==
  \/ \E p \in Person : Observed(p) \/ Remember(p) \/ HandleProfileRequest(p)
  \/ \E t \in Setters :
       \/ \E l \in Lists, p \in Person, value \in BOOLEAN : BeginSet(t, l, p, value)
       \/ ChangeList(t) \/ ChangeProfile(t) \/ SavesLists(t)
       \/ SaveOfListsFails(t) \/ TellSession(t)
  \/ EnsureSaved \/ PeopleRestart \/ SessionSetup \/ SessionShown
  \/ PeopleConnected \/ PeopleLost \/ HandleWatch

-----------------------------------------------------------------------------
AllIdle == \A t \in Setters : At(t, "idle")

(* A profile shows the flags of the lists, however the profile came into   *)
(* being while a flag was changed (people.rs observe, set_favorite).  Two  *)
(* threads that change one user at the same time may leave the profile     *)
(* with the flag the list has not.                                         *)
FlagsAgree ==
  AllIdle /\ ~raced => \A p \in Shown : profiles[p] = FlagsOf(p)

(* The file never falls behind the lists, although the threads save after  *)
(* they have let go of the lists: only a save that fails leaves it behind. *)
FileFollowsLists ==
  AllIdle /\ notSaved = 0 => peopleFile = <<lists, recent>>

(* Once the session has read its channel, the server watches every         *)
(* favorite, whether it became one before, after or while the session came *)
(* up (service.rs set_person_favorite, service/hubs.rs on_connected).      *)
FavoritesAreWatched ==
  AllIdle /\ ~raced /\ notSaved = 0 /\ phase = "up" /\ watches = <<>> =>
    lists["favorite"] \subseteq watching
=============================================================================
