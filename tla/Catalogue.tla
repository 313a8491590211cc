----------------------------- MODULE Catalogue -----------------------------
(***************************************************************************)
(* Lookups at MusicBrainz (musicbrainz.rs, releases.rs, transport.rs,      *)
(* cache.rs) by commands, the Wanted list and the release radar.  They go  *)
(* one at a time through the lookup gate, keep their answers in a cache,   *)
(* and space their requests, whatever the service refuses or delays, and   *)
(* whoever gives up meanwhile.  Time is in steps of about a second; the    *)
(* cache is read and written in no time.                                   *)
(***************************************************************************)
EXTENDS Integers, FiniteSets

CONSTANTS
  Looker,      \* who looks things up
  Impatient,   \* those with a time-out of their own: the Wanted list
  Asks,        \* what each of them looks up
  PagesOf,     \* the pages of the answer to each question
  Ttl,         \* when a kept answer is too old; 0 if it is not kept
  Forever,     \* the Ttl of an answer that does not expire
  MaxPages,    \* MAX_CATALOG_PAGES and its like
  Pause,       \* REQUEST_INTERVAL
  Patience,    \* LOOKUP_TIMEOUT
  MaxAttempts,
  RetryAfter,  \* what the service may ask for when it refuses
  CacheSize    \* MAX_ENTRIES

Question == DOMAIN PagesOf

VARIABLES
  lookup,   \* what each of them does
  answers,  \* the cache: the answer to each question, or Nothing
  next,     \* time to next_request
  silence,  \* history: time since the last request, up to Pause
  quiet     \* history: time for which the service asked to be left alone

catVars == <<lookup, answers, next, silence, quiet>>

Idle == [at |-> "idle"]
Nothing == [age |-> 0, got |-> 0, truncated |-> FALSE]
Empty == [q \in Question |-> Nothing]
Larger(m, n) == IF m > n THEN m ELSE n
Less(n) == Larger(n - 1, 0)

CatInit ==
  /\ lookup = [c \in Looker |-> Idle] /\ answers = Empty
  /\ next = 0 /\ silence = Pause /\ quiet = 0

Active(c) == lookup[c] # Idle
Is(c, at) == Active(c) /\ lookup[c].at = at
Goes(c, at) == lookup' = [lookup EXCEPT ![c].at = at]
Ends(c) == lookup' = [lookup EXCEPT ![c] = Idle]

(* The gate of lookups and the one of the transport are held by one.       *)
Held == \E c \in Looker : Active(c) /\ lookup[c].at # "waiting"

(* Cache::get, whose failure leaves an empty cache for the session.        *)
Fresh(q) == answers[q] # Nothing /\ (Ttl[q] = Forever \/ answers[q].age < Ttl[q])
Reads(q, hit) ==
  \/ answers' = answers /\ hit = Fresh(q)
  \/ Ttl[q] # 0 /\ answers' = Empty /\ hit = FALSE

(* Cache::put and prune                                                    *)
Known(a) == {q \in Question : a[q] # Nothing}
Keeps(q, answer) ==
  LET a == [answers EXCEPT ![q] = answer]
  IN  \E K \in SUBSET Known(a) :
        /\ Cardinality(K) = IF Cardinality(Known(a)) < CacheSize
                            THEN Cardinality(Known(a)) ELSE CacheSize
        /\ \A k \in K, o \in Known(a) \ K : a[k].age <= a[o].age
        /\ answers' = [k \in Question |-> IF k \in K THEN a[k] ELSE Nothing]
Writes(q, answer) == IF Ttl[q] = 0 THEN UNCHANGED answers ELSE Keeps(q, answer) \/ answers' = Empty

-----------------------------------------------------------------------------
(* A question the cache answers is not looked up.                          *)
Waits(c, q, then) ==
  /\ Reads(q, FALSE)
  /\ lookup' = [lookup EXCEPT ![c] =
       [at |-> "waiting", question |-> q, then |-> then, left |-> Patience,
        attempt |-> 1, page |-> 1, got |-> 0]]
Begin(c, q, then) ==
  ~Active(c) /\ {q} \cup then \subseteq Asks[c] /\ Waits(c, q, then) /\ UNCHANGED <<next, silence, quiet>>

SearchArtists(c) == Begin(c, "artists", {})
FindCover(c) == Begin(c, "cover", {})
Catalog(c) == Begin(c, "catalog", {})
Editions(c) == Begin(c, "editions", {})
RecentReleases(c) == Begin(c, "recent", {})
FilingMetadata(c) == Begin(c, "filing", {})
(* A tracklist without an edition asks for the editions first.             *)
EditionTracklist(c) ==
  \/ Begin(c, "tracklist", {})
  \/ Begin(c, "editions", {"tracklist"})
  \/ Fresh("editions") /\ Begin(c, "tracklist", {})

EnterUnread(c) == \* mutant: the cache is not read again behind the gate
  /\ Is(c, "waiting") /\ ~Held
  /\ Goes(c, "turn")
  /\ UNCHANGED <<answers, next, silence, quiet>>

(* lookup_slot, and the cache once more                                    *)
Enter(c) ==
  /\ Is(c, "waiting") /\ ~Held
  /\ \/ Reads(lookup[c].question, FALSE) /\ Goes(c, "turn")
     \/ Reads(lookup[c].question, TRUE) /\ Ends(c)
  /\ UNCHANGED <<next, silence, quiet>>

-----------------------------------------------------------------------------
(* Transport::get: an attempt that could not be sent before the deadline   *)
(* is not waited for.                                                      *)
TurnAnyway(c) == \* mutant: the deadline is not looked at
  Is(c, "turn") /\ Goes(c, "sleeping") /\ UNCHANGED <<answers, next, silence, quiet>>
Turn(c) ==
  /\ Is(c, "turn")
  /\ IF next >= lookup[c].left THEN Ends(c) ELSE Goes(c, "sleeping")
  /\ UNCHANGED <<answers, next, silence, quiet>>

SendAndForget(c) == \* mutant: the time of the next request is set by the answer
  /\ Is(c, "sleeping") /\ next = 0
  /\ Goes(c, "asked") /\ silence' = 0 /\ UNCHANGED <<next, answers, quiet>>
Send(c) ==
  /\ Is(c, "sleeping") /\ next = 0
  /\ next' = Pause /\ silence' = 0
  /\ Goes(c, "asked")
  /\ UNCHANGED <<answers, quiet>>

Backoff(attempt) == 2 ^ attempt

(* 429, 503                                                                *)
Throttle(c, wait) ==
  LET delay == Larger(wait, Backoff(lookup[c].attempt))
  IN  /\ Is(c, "asked")
      /\ next' = Larger(next, delay) /\ quiet' = Larger(quiet, wait)
      /\ IF lookup[c].attempt = MaxAttempts \/ next' >= lookup[c].left
         THEN Ends(c)
         ELSE lookup' = [lookup EXCEPT ![c].at = "turn", ![c].attempt = @ + 1]
      /\ UNCHANGED <<answers, silence>>

(* A page, which may be empty, and what becomes of the answer.  Whoever    *)
(* asked for editions because of a tracklist goes on with it.              *)
Page(c, found) ==
  LET l == lookup[c]
      got == l.got + found
      all == PagesOf[l.question]
  IN  /\ Is(c, "asked")
      /\ IF found = 1 /\ got < all /\ l.page < MaxPages
         THEN /\ lookup' = [lookup EXCEPT ![c] =
                   [l EXCEPT !.at = "turn", !.attempt = 1, !.page = @ + 1, !.got = got]]
              /\ UNCHANGED answers
         ELSE /\ Writes(l.question, [age |-> 0, got |-> got, truncated |-> got < all])
              /\ IF l.then = {} THEN Ends(c)
                 ELSE lookup' = [lookup EXCEPT ![c] = [at |-> "again", then |-> l.then]]
      /\ UNCHANGED <<next, silence, quiet>>
GoOn(c) ==
  /\ Is(c, "again")
  /\ \E q \in lookup[c].then :
       \/ Waits(c, q, {})
       \/ Reads(q, TRUE) /\ Ends(c)
  /\ UNCHANGED <<next, silence, quiet>>

(* Another status, no connection, a body that is too large or unreadable.  *)
Fail(c) == Is(c, "asked") /\ Ends(c) /\ UNCHANGED <<answers, next, silence, quiet>>

TimeOut(c) ==
  /\ Is(c, "waiting") \/ Is(c, "asked")
  /\ lookup[c].left = 0
  /\ Ends(c) /\ UNCHANGED <<answers, next, silence, quiet>>

(* official_tracks_or_fallback drops the lookup wherever it is.            *)
Drop(c) ==
  /\ c \in Impatient /\ Active(c)
  /\ Ends(c) /\ UNCHANGED <<answers, next, silence, quiet>>

(* Timers go off in time.  An answer that is too old grows no older.       *)
Due(c) ==
  \/ Is(c, "turn") \/ Is(c, "again")
  \/ Is(c, "sleeping") /\ next = 0
  \/ (Is(c, "waiting") \/ Is(c, "asked")) /\ lookup[c].left = 0
Tick ==
  /\ \A c \in Looker : ~Due(c)
  /\ lookup' = [c \in Looker |->
       IF Active(c) THEN [lookup[c] EXCEPT !.left = @ - 1] ELSE Idle]
  /\ answers' = [q \in Question |->
       IF answers[q] = Nothing \/ answers[q].age >= Ttl[q] THEN answers[q]
       ELSE [answers[q] EXCEPT !.age = @ + 1]]
  /\ next' = Less(next) /\ quiet' = Less(quiet)
  /\ silence' = IF silence < Pause THEN silence + 1 ELSE Pause

CatNext ==
  \/ \E c \in Looker :
       \/ SearchArtists(c) \/ FindCover(c) \/ Catalog(c) \/ Editions(c)
       \/ RecentReleases(c) \/ FilingMetadata(c) \/ EditionTracklist(c)
       \/ Enter(c) \/ Turn(c) \/ Send(c) \/ GoOn(c) \/ Fail(c) \/ TimeOut(c) \/ Drop(c)
       \/ \E found \in {0, 1} : Page(c, found)
       \/ \E wait \in RetryAfter : Throttle(c, wait)
  \/ Tick

-----------------------------------------------------------------------------
(* Requests are a pause apart, and none is sent while the service asked to *)
(* be left alone, whoever was dropped or timed out in between              *)
(* (transport.rs "Cancellation retains next_request").                     *)
RequestsAreSpaced ==
  [][\A c \in Looker :
       ~Is(c, "asked") /\ Is(c, "asked")' => silence = Pause /\ quiet = 0]_catVars

(* Nobody waits past the time-out of the lookup (transport.rs get).        *)
LookupsEndInTime == \A c \in Looker : Active(c) /\ ~Is(c, "again") => lookup[c].left >= 0

(* What the cache could answer is not asked for, even if two want it at    *)
(* the same time (musicbrainz.rs "Coalesce concurrent cache misses").      *)
NothingIsAskedTwice ==
  \A c \in Looker :
    (Is(c, "turn") \/ Is(c, "sleeping")) /\ lookup[c].got = 0 => ~Fresh(lookup[c].question)

(* A kept answer is whole, or says that it is not (musicbrainz.rs catalog).*)
KeptAnswersAreWhole ==
  \A q \in Known(answers) : answers[q].truncated \/ answers[q].got = PagesOf[q]
=============================================================================
