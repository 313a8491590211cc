------------------------------ MODULE Discovery ------------------------------
(***************************************************************************)
(* What the music archive asks of one other service (ListenBrainz and its  *)
(* like; archive/discovery/provider.rs): one question at a time, a pause   *)
(* between requests, and answers that are kept.  Whether an old answer or  *)
(* an error is shown when the service refuses changes no state.  Time is   *)
(* in steps of about a second.                                             *)
(***************************************************************************)
EXTENDS Integers, FiniteSets

CONSTANTS
  Asker, Query,
  Pause,       \* Service::interval
  TooLong,     \* a cooldown that is not waited for
  FreshFor,
  Cooldowns,   \* what the service may ask for, or the default
  Entries      \* CACHE_ENTRIES

VARIABLES
  asking,   \* what each call of get_with does
  saved,    \* discovery_cache: the age of the answer to each question
  wait,     \* time to the next request
  silence, quiet   \* history, as in Catalogue

discVars == <<asking, saved, wait, silence, quiet>>

Idle == [at |-> "idle"]
None == -1
Ages == FreshFor + 1
Less(n) == IF n > 0 THEN n - 1 ELSE 0
Older(age) == IF age = None \/ age = Ages THEN age ELSE age + 1

DiscInit ==
  /\ asking = [c \in Asker |-> Idle] /\ saved = [q \in Query |-> None]
  /\ wait = 0 /\ silence = Pause /\ quiet = 0

Is(c, at) == asking[c].at = at
Goes(c, at) == asking' = [asking EXCEPT ![c].at = at]
Ends(c) == asking' = [asking EXCEPT ![c] = Idle]
GateIsHeld == \E c \in Asker : Is(c, "sleeping") \/ Is(c, "asked")

Fresh(age) == age # None /\ age <= FreshFor

Ask(c, q) ==
  /\ Is(c, "idle")
  /\ asking' = [asking EXCEPT ![c] = [at |-> "waiting", query |-> q, read |-> FALSE]]
  /\ UNCHANGED <<saved, wait, silence, quiet>>

EnterUnread(c) == \* mutant: the cache is read before the gate is entered
  /\ Is(c, "waiting") /\ ~GateIsHeld
  /\ asking' = [asking EXCEPT ![c].at = "sleeping", ![c].read = TRUE]
  /\ UNCHANGED <<saved, wait, silence, quiet>>

(* The cache is read again behind the gate, if it can be: a fresh answer   *)
(* ends the question, and so does a cooldown that is too long.             *)
Enter(c) ==
  /\ Is(c, "waiting") /\ ~GateIsHeld
  /\ \E read \in BOOLEAN :
       IF (read /\ Fresh(saved[asking[c].query])) \/ wait > TooLong
       THEN Ends(c)
       ELSE asking' = [asking EXCEPT ![c].at = "sleeping", ![c].read = read]
  /\ UNCHANGED <<saved, wait, silence, quiet>>

Send(c) ==
  /\ Is(c, "sleeping") /\ wait = 0
  /\ wait' = Pause /\ silence' = 0
  /\ Goes(c, "asked")
  /\ UNCHANGED <<saved, quiet>>

(* write_cache keeps the newest answers, if it can be opened.              *)
Answer(c) ==
  LET now == [saved EXCEPT ![asking[c].query] = 0]
      known == {q \in Query : now[q] # None}
  IN  /\ Is(c, "asked") /\ Ends(c)
      /\ \/ saved' = saved
         \/ \E K \in SUBSET known :
              /\ Cardinality(K) = IF Cardinality(known) < Entries THEN Cardinality(known) ELSE Entries
              /\ \A k \in K, o \in known \ K : now[k] <= now[o]
              /\ saved' = [q \in Query |-> IF q \in K THEN now[q] ELSE None]
      /\ UNCHANGED <<wait, silence, quiet>>

RefusedAsFailed(c, time) == \* mutant: the cooldown is not kept
  Is(c, "asked") /\ Ends(c) /\ quiet' = time /\ UNCHANGED <<saved, wait, silence>>
(* 429, 503, and any other failure                                         *)
Refused(c, time) ==
  /\ Is(c, "asked") /\ Ends(c)
  /\ wait' = time /\ quiet' = time
  /\ UNCHANGED <<saved, silence>>
Failed(c) == Is(c, "asked") /\ Ends(c) /\ UNCHANGED <<saved, wait, silence, quiet>>

Tick ==
  /\ \A c \in Asker : ~(Is(c, "sleeping") /\ wait = 0)
  /\ saved' = [q \in Query |-> Older(saved[q])]
  /\ wait' = Less(wait) /\ quiet' = Less(quiet)
  /\ silence' = IF silence < Pause THEN silence + 1 ELSE Pause
  /\ UNCHANGED asking

DiscNext ==
  \/ \E c \in Asker :
       \/ \E q \in Query : Ask(c, q)
       \/ Enter(c) \/ Send(c) \/ Answer(c) \/ Failed(c)
       \/ \E time \in Cooldowns : Refused(c, time)
  \/ Tick

-----------------------------------------------------------------------------
(* The service is left alone between requests and while it cools down      *)
(* (provider.rs get_with, fetch).                                          *)
RequestsAreSpaced ==
  [][\A c \in Asker : ~Is(c, "asked") /\ Is(c, "asked")' => silence = Pause /\ quiet = 0]_discVars

(* Duplicate callers coalesce: whoever could read the cache does not ask   *)
(* for what it holds (provider.rs get_with).                               *)
DuplicatesCoalesce ==
  \A c \in Asker :
    Is(c, "sleeping") /\ asking[c].read => ~Fresh(saved[asking[c].query])
=============================================================================
