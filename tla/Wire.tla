-------------------------------- MODULE Wire --------------------------------
(***************************************************************************)
(* The components that share the session's wire, in one state: who gets    *)
(* the next upload slot, the requests to other users, the searches, the    *)
(* distributed network and its requests, the budget of the payload, and    *)
(* the lookups at other services.                                          *)
(* They share no state: part chooses the one that                          *)
(* runs, the others stay as they were initialised, so that every property  *)
(* speaks about its own part and the states are the sum, not the product.  *)
(***************************************************************************)
EXTENDS UploadFairness, Sequences

CONSTANTS Request, KindOf, AskedUser, MaxDials, MaxProfiles,
          Own, Neighbor, MaxLevel, MaxChildren, MaxParentId,
          Client, RelayClient, MaxTab, ResultLimit, Tries, Spacing, Timeout,
          Interval, MaxNow, MaxToken,
          Album, Edition, Tolerance, MaxMisses, MaxSessions, MaxCheckToken,
          MaxShelf, RadarTries, MaxScans, MaxRadarToken,
          Requester, SearchToken, Window, MaxPerWindow, MaxPerUserWindow,
          DuplicateTtl, MaxSeenRequests, MaxClock,
          Acquirer, DirectionOf, Settings, Day, Maximum, MaxBurst, MaxElapsed,
          MaxChanges,
          Looker, Impatient, Asks, PagesOf, Ttl, Forever, MaxPages, Pause,
          Patience, MaxAttempts, RetryAfter, CacheSize,
          Asker, Query, TooLong, FreshFor, Cooldowns, Entries

VARIABLES
  part,
  reqOnline, pending, caller, queued, relayed, lookups, dialing, talking, late,
  profile,
  candidates, nextId, parent, rootMode, topology, capacity, children, accepting,
  told,
  searches, nextToken, budget, session, writing, starting, now, asked, lastWrite,
  crossed,
  wanted, tolerance, interval, checking, ending, online, checkToken, sent, fresh,
  scan, shelf, done, queue, probe, cooling, radarUp, radarWriting, radarToken,
  scans, meant,
  clock, recent, recentByUser, seen, seenOrder, answered,
  settings, minute, cost, rate, paused, tokens, refilled, elapsed, epoch, lanes,
  permit, stopping, spent,
  lookup, answers, next, silence, quiet,
  asking, saved, wait

reqVars == <<reqOnline, pending, caller, queued, relayed, lookups, dialing,
             talking, late, profile>>
distVars == <<candidates, nextId, parent, rootMode, topology, capacity, children,
              accepting, told>>
searchVars == <<searches, nextToken, budget, session, writing, starting, now,
                asked, lastWrite, crossed>>
checkVars == <<wanted, tolerance, interval, checking, ending, online, checkToken,
               sent, fresh>>
shelfVars == <<scan, shelf, done, queue, probe, cooling, radarUp, radarWriting,
               radarToken, scans, meant>>
guardVars == <<clock, recent, recentByUser, seen, seenOrder, answered>>
bandVars == <<settings, minute, cost, rate, paused, tokens, refilled, elapsed,
              epoch, lanes, permit, stopping, spent>>
lookVars == <<lookup, answers, next, silence, quiet, asking, saved, wait>>
limitVars == <<guardVars, bandVars, lookVars>>
wireVars == <<part, vars, reqVars, distVars, searchVars, checkVars, shelfVars, limitVars>>

PR == INSTANCE PeerRequests WITH UserOf <- AskedUser
DN == INSTANCE Distributed WITH User <- Neighbor
SE == INSTANCE Searches
WA == INSTANCE Wanted WITH active <- checking
SH == INSTANCE ShelfRadar WITH writing <- radarWriting
RG == INSTANCE RequestGuard
BW == INSTANCE Bandwidth
CA == INSTANCE Catalogue
DI == INSTANCE Discovery

(* Levels, tokens, times and limits are numbers.  The guard may answer     *)
(* fewer requests in a window than it remembers (distributed.rs: 300 and   *)
(* 8192); a time of day and a schedule lie within a day (bandwidth.rs      *)
(* validate); every answer of MusicBrainz has a page (transport.rs); and a *)
(* service that asks for a rest asks for no less than the pause between    *)
(* two requests, in steps of about a second (provider.rs: clamp(1, 3600)). *)
ASSUME WireAssumption ==
  /\ {MaxLevel, MaxParentId, MaxToken, Tries, Timeout, Spacing, Interval, MaxShelf} \subseteq Nat
  /\ {Window, DuplicateTtl, MaxPerWindow, MaxSeenRequests} \subseteq Nat
  /\ MaxPerWindow < MaxSeenRequests
  /\ IsFiniteSet(Acquirer) /\ DirectionOf \in [Acquirer -> {1, 2}]
  /\ Day \in Nat \ {0} /\ Settings \subseteq BW!SettingsType
  /\ {Maximum, MaxBurst, Pause, Patience, FreshFor} \subseteq Nat
  /\ Asks \in [Looker -> SUBSET CA!Question]
  /\ PagesOf \in [CA!Question -> Nat \ {0}] /\ Ttl \in [CA!Question -> Nat]
  /\ RetryAfter \subseteq Nat
  /\ \A time \in Cooldowns : time \in Nat /\ Pause <= time

Parts == {"turns", "requests", "branch", "searches", "wanted", "shelf", "guard",
          "bandwidth", "catalogue", "discovery"}

PartsInit ==
  /\ FairInit /\ PR!ReqInit /\ DN!DistInit /\ SE!SearchInit /\ WA!WantedInit
  /\ SH!ShelfInit /\ RG!GuardInit /\ BW!BandInit /\ CA!CatInit /\ DI!DiscInit

WireInit == part \in Parts /\ PartsInit

TurnsNext == part = "turns" /\ FairNext
  /\ UNCHANGED <<reqVars, distVars, searchVars, checkVars, shelfVars, limitVars>>
RequestsNext == part = "requests" /\ PR!ReqNext
  /\ UNCHANGED <<vars, distVars, searchVars, checkVars, shelfVars, limitVars>>
BranchNext == part = "branch" /\ DN!DistNext
  /\ UNCHANGED <<vars, reqVars, searchVars, checkVars, shelfVars, limitVars>>
SearchesNext == part = "searches" /\ SE!SearchNext
  /\ UNCHANGED <<vars, reqVars, distVars, checkVars, shelfVars, limitVars>>
WantedNext == part = "wanted" /\ WA!WantedNext
  /\ UNCHANGED <<vars, reqVars, distVars, searchVars, shelfVars, limitVars>>
ShelfNext == part = "shelf" /\ SH!ShelfNext
  /\ UNCHANGED <<vars, reqVars, distVars, searchVars, checkVars, limitVars>>
GuardNext == part = "guard" /\ RG!GuardNext
  /\ UNCHANGED <<vars, reqVars, distVars, searchVars, checkVars, shelfVars, bandVars,
                lookVars>>
BandwidthNext == part = "bandwidth" /\ BW!BandNext
  /\ UNCHANGED <<vars, reqVars, distVars, searchVars, checkVars, shelfVars, guardVars,
                lookVars>>
(* The lookups at MusicBrainz and at the other services share the clock of *)
(* their histories only.                                                   *)
CatalogueNext == part = "catalogue" /\ CA!CatNext
  /\ UNCHANGED <<vars, reqVars, distVars, searchVars, checkVars, shelfVars, guardVars,
                bandVars, asking, saved, wait>>
DiscoveryNext == part = "discovery" /\ DI!DiscNext
  /\ UNCHANGED <<vars, reqVars, distVars, searchVars, checkVars, shelfVars, guardVars,
                bandVars, lookup, answers, next>>

WireNext ==
  /\ UNCHANGED part
  /\ TurnsNext \/ RequestsNext \/ BranchNext \/ SearchesNext \/ WantedNext \/ ShelfNext
     \/ GuardNext \/ BandwidthNext \/ CatalogueNext \/ DiscoveryNext

WireSpec == WireInit /\ [][WireNext]_wireVars

(* Whoever waits for another user is waited for by a request, which ends   *)
(* with one conversation or an error, whichever route wins (peers.rs).     *)
RequestsAreServed ==
  PR!NobodyWaitsInVain /\ PR!LoadingProfileHasRequest /\ PR!OneConversation

(* The server, the children and Forever agree on the branch, and the       *)
(* branch has no loop through Forever (network.rs, distributed.rs).        *)
BranchIsSound == DN!BranchIsAnnounced /\ DN!NoLoop

(* An answer of another user counts for the question it answers: tokens    *)
(* are never used twice, and late answers meet no newer question           *)
(* (search.rs, wanted.rs, peers.rs).                                       *)
AnswersAreTheirOwn ==
  SE!TokenNamesOneQuery /\ WA!SourcesAreOfTheEdition /\ SH!AnswersAreItsOwn

(* No search, check or scan goes on after its session: what could no       *)
(* longer be answered says so (search.rs, wanted.rs).                      *)
NothingOutlivesTheSession ==
  SE!NoSearchOutlivesTheSession /\ WA!ChecksDieWithTheSession /\ SH!ScanMatchesItsAlbums

(* What others can take and what the server is asked for is bounded over   *)
(* all of them: searches are written at least the spacing apart, whoever   *)
(* wants them (SearchBudget); the requests answered and remembered, and    *)
(* the payload of every limit, keep their bounds, whatever is given back   *)
(* or changed meanwhile (RequestGuard, bandwidth.rs); and MusicBrainz and  *)
(* the services of the archive are left alone between requests and while   *)
(* they cool down, and not asked for what the cache holds (transport.rs,   *)
(* provider.rs).                                                           *)
LimitsAreKept ==
  /\ SE!SendsAreSpaced /\ CA!RequestsAreSpaced /\ DI!RequestsAreSpaced
  /\ [](CA!LookupsEndInTime /\ CA!NothingIsAskedTwice /\ CA!KeptAnswersAreWhole)
  /\ [](DI!DuplicatesCoalesce)
  /\ [](RG!GuardIsBounded /\ RG!NoRequestTwice)
  /\ [](BW!BudgetIsKept /\ BW!ScheduleIsCyclic)
=============================================================================
