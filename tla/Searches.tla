------------------------------- MODULE Searches -------------------------------
(***************************************************************************)
(* Live searches (search.rs), the shared budget of searches sent           *)
(* (search_governor.rs) and the step of the session that sends the next    *)
(* one (dispatch_search of service/connection.rs).                         *)
(*                                                                         *)
(* A search is queued by a thread of the interface, sent by the session    *)
(* when the budget allows, answered by peer tasks at any later time, and   *)
(* ended by its deadline, the user, the result limit or the connection.    *)
(***************************************************************************)
EXTENDS Integers, FiniteSets, FiniteSetsExt

CONSTANTS
  Client,       \* identifiers of search tabs
  RelayClient,  \* those that start with RELAY_CLIENT_PREFIX
  MaxTab,       \* SEARCH_SESSION_LIMIT and RELAY_SESSION_LIMIT
  ResultLimit,  \* SEARCH_RESULT_LIMIT
  Tries,        \* queries in the plan of an album search
  Spacing,      \* SEARCH_SPACING
  Timeout,      \* SEARCH_TIMEOUT
  Interval,     \* the interval of wishlist searches the server announces
  MaxNow,       \* bound on the clock
  MaxToken      \* bound on the tokens taken

VARIABLES
  searches,   \* SearchHub::runtimes: by token
  nextToken,  \* next_search_token
  budget,     \* SearchGovernor's Budget; 0 is None
  session,    \* "down", "up", or "ending": told to abort, its receiver alive
  writing,    \* the lane whose frame the session is writing, or "none"
  starting,   \* threads in start_search: client -> where it is
  now,        \* the clock
  asked,      \* history: token -> the queries sent under it
  lastWrite,  \* history: when the last search of each lane was on the wire
  crossed     \* history: a disconnect ran while start_search held a sender

searchVars == <<searches, nextToken, budget, session, writing, starting, now,
                asked, lastWrite, crossed>>
userVars == <<budget, session, writing, now, asked, lastWrite>>

Lanes == <<"user", "relay", "radar", "wanted">>

SearchInit ==
  /\ searches = [t \in {} |-> 0] /\ nextToken = 1
  /\ budget = [online |-> FALSE, seconds |-> 0, announced |-> 0, lastSend |-> 0,
               lastWishlist |-> 0]
  /\ session = "down" /\ writing = "none"
  /\ starting = [c \in Client |-> "no"]
  /\ now = 1 /\ crossed = FALSE
  /\ asked = [t \in 1..MaxToken |-> {}]
  /\ lastWrite = [any |-> 0, wanted |-> 0]

Without(t) == [u \in DOMAIN searches \ {t} |-> searches[u]]
Put(f, t, s) == [u \in DOMAIN f \cup {t} |-> IF u = t THEN s ELSE f[u]]
Of(c) == {t \in DOMAIN searches : searches[t].client = c}
Live(s) == s.state = "searching"
Queued(relay) == {t \in DOMAIN searches :
  /\ Live(searches[t]) /\ searches[t].due = 0
  /\ (searches[t].client \in RelayClient) = relay}

(* SearchRuntime::finish.                                                  *)
End(s, how) == IF Live(s) THEN [s EXCEPT !.state = how, !.due = 0] ELSE s
EndAll(how) == [t \in DOMAIN searches |-> End(searches[t], how)]

-----------------------------------------------------------------------------
(* start_search of service.rs: the connection is checked and its sender    *)
(* cloned; then the hub queues the search; then the session is told.       *)
StartSearch(c) ==
  /\ starting[c] = "no" /\ session = "up"
  /\ starting' = [starting EXCEPT ![c] = "checked"]
  /\ UNCHANGED <<searches, nextToken, userVars, crossed>>

Full(c) == MaxTab <= Cardinality({t \in DOMAIN searches :
             (searches[t].client \in RelayClient) = (c \in RelayClient)})

QueueSearch(c) ==
  /\ starting[c] = "checked" /\ nextToken <= MaxToken
  /\ nextToken' = nextToken + 1
  /\ IF Of(c) = {} /\ Full(c)
       THEN /\ starting' = [starting EXCEPT ![c] = "no"]
            /\ UNCHANGED searches
       ELSE /\ \E tries \in {1, Tries} : searches' =
                 [t \in (DOMAIN searches \ Of(c)) \cup {nextToken} |->
                   IF t # nextToken THEN searches[t]
                   ELSE [client |-> c, state |-> "searching", due |-> 0,
                         since |-> now, found |-> 0, try |-> 1, tries |-> tries,
                         first |-> nextToken]]
            /\ starting' = [starting EXCEPT ![c] = "queued"]
  /\ UNCHANGED <<userVars, crossed>>

TellNobody(c) == \* mutant: the failed send is ignored
  /\ starting[c] = "queued"
  /\ starting' = [starting EXCEPT ![c] = "no"]
  /\ UNCHANGED <<searches, nextToken, userVars, crossed>>

TellSession(c) ==
  /\ starting[c] = "queued"
  /\ starting' = [starting EXCEPT ![c] = "no"]
  /\ searches' = IF session # "down" THEN searches
                 ELSE [t \in DOMAIN searches |->
                        IF t \in Of(c) THEN End(searches[t], "error") ELSE searches[t]]
  /\ UNCHANGED <<nextToken, userVars, crossed>>

StopSearch(c) ==
  /\ searches' = [t \in DOMAIN searches |->
                   IF t \in Of(c) THEN End(searches[t], "stopped") ELSE searches[t]]
  /\ UNCHANGED <<nextToken, userVars, starting, crossed>>

StopAll ==
  /\ searches' = EndAll("stopped")
  /\ UNCHANGED <<nextToken, userVars, starting, crossed>>

CloseSearch(c) ==
  /\ \E t \in Of(c) : searches' = Without(t)
  /\ UNCHANGED <<nextToken, userVars, starting, crossed>>

-----------------------------------------------------------------------------
(* The timer of the session.                                               *)
AtRest == session = "up" /\ writing = "none"
timerVars == <<session, starting, now, lastWrite, crossed>>

(* retry_empty: the next query of the plan under a token of its own.       *)
RetryUnderOldToken(t) == \* mutant: the token of the empty query is kept
  /\ searches' = [searches EXCEPT ![t].try = @ + 1, ![t].due = 0, ![t].since = now]
  /\ UNCHANGED nextToken

RetryEmpty(t) ==
  /\ nextToken <= MaxToken
  /\ nextToken' = nextToken + 1
  /\ searches' = Put(Without(t), nextToken,
       [searches[t] EXCEPT !.try = @ + 1, !.due = 0, !.since = now])

ExpireSearch ==
  /\ AtRest
  /\ \E t \in DOMAIN searches :
       /\ searches[t].due # 0 /\ now >= searches[t].due
       /\ IF searches[t].found = 0 /\ searches[t].try < searches[t].tries
            THEN RetryEmpty(t)
            ELSE /\ searches' = [searches EXCEPT ![t] = End(@, "completed")]
                 /\ UNCHANGED nextToken
  /\ UNCHANGED <<timerVars, budget, writing, asked>>

(* Budget::next_slot and SearchGovernor::ready.                            *)
Ready(lane) ==
  /\ budget.online
  /\ budget.lastSend # 0 => now >= budget.lastSend + Spacing
  /\ lane = "wanted" =>
       LET anchor == IF budget.lastWishlist # 0 THEN budget.lastWishlist
                     ELSE budget.announced
       IN  budget.seconds # 0 /\ anchor # 0 /\ now >= anchor + budget.seconds

Sent(b, lane) ==
  [b EXCEPT !.lastSend = now,
            !.lastWishlist = IF lane = "wanted" THEN now ELSE @]

(* take_next: the first lane that is ready and has a request.  The radar   *)
(* and the wanted hub offer theirs from outside this module.               *)
Wants(lane, offered) ==
  \/ lane = "user" /\ (Queued(FALSE) # {} \/ "manual" \in offered)
  \/ lane = "relay" /\ Queued(TRUE) # {}
  \/ lane \in offered

Oldest(S) == {t \in S : \A u \in S : searches[t].since <= searches[u].since}

DispatchSearch ==
  /\ AtRest
  /\ \E offered \in SUBSET {"manual", "radar", "wanted"} :
       LET able == {i \in 1..4 : Ready(Lanes[i]) /\ Wants(Lanes[i], offered)}
           lane == Lanes[Min(able)]
           mine == IF lane \in {"user", "relay"} THEN Queued(lane = "relay") ELSE {}
       IN  /\ able # {}
           /\ writing' = lane
           /\ budget' = Sent(budget, lane)
           /\ IF mine = {} THEN UNCHANGED <<searches, asked>>
              ELSE \E t \in Oldest(mine) :
                     /\ searches' = [searches EXCEPT ![t].due = now + Timeout]
                     /\ asked' = [asked EXCEPT ![t] =
                          @ \cup {<<searches[t].first, searches[t].try>>}]
  /\ UNCHANGED <<nextToken, timerVars>>

(* The write is over: the budget is stamped again.                         *)
WroteUnstamped == \* mutant: the time of a slow write is not counted
  /\ session = "up" /\ writing # "none"
  /\ writing' = "none"
  /\ lastWrite' = [any |-> now, wanted |-> IF writing = "wanted" THEN now
                                           ELSE lastWrite.wanted]
  /\ UNCHANGED <<searches, nextToken, budget, session, starting, now, asked, crossed>>

Wrote ==
  /\ session = "up" /\ writing # "none"
  /\ writing' = "none"
  /\ budget' = Sent(budget, writing)
  /\ lastWrite' = [any |-> now, wanted |-> IF writing = "wanted" THEN now
                                           ELSE lastWrite.wanted]
  /\ UNCHANGED <<searches, nextToken, session, starting, now, asked, crossed>>

(* SearchHub::record, from a peer task; the result limit ends the search   *)
(* under a lock of its own.                                                *)
Answered ==
  /\ \E t \in DOMAIN searches :
       /\ asked[t] # {} /\ Live(searches[t]) /\ searches[t].due # 0
       /\ searches[t].found < ResultLimit
       /\ searches' = [searches EXCEPT ![t].found = @ + 1]
  /\ UNCHANGED <<nextToken, userVars, starting, crossed>>

LimitReached ==
  /\ \E t \in DOMAIN searches :
       /\ searches[t].found = ResultLimit /\ Live(searches[t])
       /\ searches' = [searches EXCEPT ![t] = End(@, "completed")]
  /\ UNCHANGED <<nextToken, userVars, starting, crossed>>

-----------------------------------------------------------------------------
(* The connection: set_online and set_wishlist_interval of the governor,   *)
(* fail_all of the search hub.                                             *)
SetOnline(b, on) == [b EXCEPT !.online = on, !.seconds = 0, !.announced = 0]

Connected ==
  /\ session = "down"
  /\ session' = "up" /\ writing' = "none"
  /\ budget' = SetOnline(budget, TRUE)
  /\ UNCHANGED <<searches, nextToken, starting, now, asked, lastWrite, crossed>>

IntervalAnnounced ==
  /\ AtRest
  /\ budget' = [budget EXCEPT !.seconds = Interval,
                              !.announced = IF @ = 0 THEN now ELSE @]
  /\ UNCHANGED <<searches, nextToken, writing, timerVars, asked>>

(* The connection is lost, or a write fails: connect_once has returned and *)
(* its receiver is gone before the hubs are told.                          *)
ConnectionLost ==
  /\ session = "up"
  /\ session' = "down" /\ writing' = "none"
  /\ searches' = EndAll("error")
  /\ budget' = SetOnline(budget, FALSE)
  /\ UNCHANGED <<nextToken, starting, now, asked, lastWrite, crossed>>

(* The user disconnects: the hubs are told while the task, told to abort,  *)
(* may still run to its next await.                                        *)
Disconnect ==
  /\ session = "up"
  /\ session' = "ending" /\ writing' = "none"
  /\ searches' = EndAll("error")
  /\ budget' = SetOnline(budget, FALSE)
  /\ crossed' = (crossed \/ \E c \in Client : starting[c] # "no")
  /\ UNCHANGED <<nextToken, starting, now, asked, lastWrite>>

TaskGone ==
  /\ session = "ending"
  /\ session' = "down"
  /\ UNCHANGED <<searches, nextToken, budget, writing, starting, now, asked,
                 lastWrite, crossed>>

ClockTicks ==
  /\ now < MaxNow
  /\ now' = now + 1
  /\ UNCHANGED <<searches, nextToken, budget, session, writing, starting, asked,
                 lastWrite, crossed>>

SearchNext ==
  \/ \E c \in Client : \/ StartSearch(c) \/ QueueSearch(c) \/ TellSession(c)
                       \/ StopSearch(c) \/ CloseSearch(c)
  \/ StopAll \/ ExpireSearch \/ DispatchSearch \/ Wrote
  \/ Answered \/ LimitReached
  \/ Connected \/ IntervalAnnounced \/ ConnectionLost \/ Disconnect \/ TaskGone
  \/ ClockTicks

SearchSpec == SearchInit /\ [][SearchNext]_searchVars

-----------------------------------------------------------------------------
(* Two searches are never on the wire closer than SEARCH_SPACING, nor two  *)
(* wishlist searches closer than the interval in force, whatever the time  *)
(* a write takes and however often the connection is renewed between them. *)
SendsAreSpaced == [][writing = "none" /\ writing' # "none" =>
  /\ lastWrite.any # 0 => now >= lastWrite.any + Spacing
  /\ writing' = "wanted" /\ lastWrite.wanted # 0 =>
       now >= lastWrite.wanted + Interval]_searchVars

(* Answers carry only a token: every token stands for one query, so that a *)
(* late answer to an empty first try never counts for the second.          *)
TokenNamesOneQuery ==
  /\ \A t \in 1..MaxToken : Cardinality(asked[t]) <= 1
  /\ \A t \in DOMAIN searches : searches[t].found # 0 =>
       asked[t] = {<<searches[t].first, searches[t].try>>}

(* A lost connection leaves no search "searching": one that start_search   *)
(* queues across the loss is failed by whichever of the two comes last.    *)
NoSearchOutlivesTheSession ==
  session = "down" /\ ~crossed => \A t \in DOMAIN searches :
    Live(searches[t]) => starting[searches[t].client] # "no"
=============================================================================
