---------------------------- MODULE RequestGuard ----------------------------
(***************************************************************************)
(* Which distributed search requests are answered (RequestGuard in         *)
(* distributed.rs): not more than so many in a window, not more than so    *)
(* many of one user, and none a second time.  What has been seen is kept   *)
(* in a map and in a queue of insertions, which must agree or memory is    *)
(* never freed.  Time is in units of the window.                           *)
(***************************************************************************)
EXTENDS Integers, Sequences, FiniteSets, Functions, SequencesExt

CONSTANTS
  Requester,         \* users that search
  SearchToken,       \* tokens they use
  Window,            \* REQUEST_RATE_WINDOW
  MaxPerWindow,      \* MAX_REQUESTS_PER_WINDOW
  MaxPerUserWindow,  \* MAX_REQUESTS_PER_USER_WINDOW
  DuplicateTtl,      \* DUPLICATE_TTL
  MaxSeenRequests,   \* MAX_SEEN_REQUESTS
  MaxClock           \* bound on time

VARIABLES
  clock,
  recent,        \* times of the requests allowed in the window, oldest first
  recentByUser,  \* the same for each user with an entry
  seen,          \* the last time each request was allowed
  seenOrder,     \* the same as a queue, oldest first
  answered       \* history: requests allowed since the guard is new, in order

guardVars == <<clock, recent, recentByUser, seen, seenOrder, answered>>

EmptyMap == [k \in {} |-> 0]

GuardInit ==
  /\ clock = 0 /\ recent = <<>> /\ recentByUser = EmptyMap
  /\ seen = EmptyMap /\ seenOrder = <<>> /\ answered = <<>>

(* prune_times: the oldest go while they are out of the window.            *)
Expired(times) ==
  CHOOSE n \in 0 .. Len(times) :
    /\ \A i \in 1 .. n : clock - times[i] > Window
    /\ n < Len(times) => clock - times[n + 1] <= Window
Pruned(times) == SubSeq(times, Expired(times) + 1, Len(times))
Without(map, keys) == Restrict(map, DOMAIN map \ keys)

(* prune_seen drops the oldest insertions while they have expired or the   *)
(* map is full; an entry that was inserted again later stays.  Drop is the *)
(* number of insertions that go.                                           *)
Left(n) == Without(seen, {seenOrder[i].key : i \in {j \in 1 .. n : seen[seenOrder[j].key] = seenOrder[j].at}})
DropsExpired == \* mutant: a full map is not made room in
  CHOOSE n \in 0 .. Len(seenOrder) :
    /\ \A i \in 1 .. n : clock - seenOrder[i].at > DuplicateTtl
    /\ n < Len(seenOrder) => clock - seenOrder[n + 1].at <= DuplicateTtl

Drops ==
  CHOOSE n \in 0 .. Len(seenOrder) :
    /\ \A i \in 1 .. n : \/ clock - seenOrder[i].at > DuplicateTtl
                         \/ Cardinality(DOMAIN Left(i - 1)) >= MaxSeenRequests
    /\ n < Len(seenOrder) => /\ clock - seenOrder[n + 1].at <= DuplicateTtl
                             /\ Cardinality(DOMAIN Left(n)) < MaxSeenRequests

(* The map of users is swept only when it is full.                         *)
Swept ==
  IF Cardinality(DOMAIN recentByUser) < MaxSeenRequests THEN recentByUser
  ELSE LET pruned == [u \in DOMAIN recentByUser |-> Pruned(recentByUser[u])]
       IN Without(pruned, {u \in DOMAIN pruned : pruned[u] = <<>>})

(* admit: a duplicate is refused before the rates are looked at, and a     *)
(* user who is refused for the rate has an entry all the same.             *)
Admit(user, token) ==
  LET key == <<user, token>>
      left == Left(Drops)
      order == SubSeq(seenOrder, Drops + 1, Len(seenOrder))
      now == Pruned(recent)
      mine == Pruned(IF user \in DOMAIN Swept THEN Swept[user] ELSE <<>>)
      allowed == Len(now) < MaxPerWindow /\ Len(mine) < MaxPerUserWindow
      With(times) == [u \in DOMAIN Swept \cup {user} |-> IF u = user THEN times ELSE Swept[u]]
  IN /\ UNCHANGED clock
     /\ \/ /\ key \in DOMAIN left
           /\ recentByUser' = Swept
           /\ recent' = now /\ seen' = left /\ seenOrder' = order
           /\ UNCHANGED answered
        \/ /\ key \notin DOMAIN left /\ ~allowed
           /\ recentByUser' = With(mine)
           /\ recent' = now /\ seen' = left /\ seenOrder' = order
           /\ UNCHANGED answered
        \/ /\ key \notin DOMAIN left /\ allowed
           /\ recentByUser' = With(Append(mine, clock))
           /\ recent' = Append(now, clock)
           /\ seen' = [k \in DOMAIN left \cup {key} |-> IF k = key THEN clock ELSE left[k]]
           /\ seenOrder' = Append(order, [key |-> key, at |-> clock])
           /\ answered' = Append(answered, [key |-> key, at |-> clock])

(* begin_discovery: every session starts with a new guard.                 *)
NewGuard ==
  /\ recent' = <<>> /\ recentByUser' = EmptyMap
  /\ seen' = EmptyMap /\ seenOrder' = <<>> /\ answered' = <<>>
  /\ UNCHANGED clock

Tick ==
  /\ clock < MaxClock /\ clock' = clock + 1
  /\ UNCHANGED <<recent, recentByUser, seen, seenOrder, answered>>

GuardNext ==
  \/ \E u \in Requester, t \in SearchToken : Admit(u, t)
  \/ NewGuard \/ Tick

GuardSpec == GuardInit /\ [][GuardNext]_guardVars

-----------------------------------------------------------------------------
(* Memory is bounded, and everything in the map is also in the queue that  *)
(* will free it (prune_seen).                                              *)
GuardIsBounded ==
  /\ Cardinality(DOMAIN seen) <= MaxSeenRequests
  /\ Cardinality(DOMAIN recentByUser) <= MaxSeenRequests
  /\ \A k \in DOMAIN seen : \E i \in DOMAIN seenOrder : seenOrder[i] = [key |-> k, at |-> seen[k]]
  /\ Len(seenOrder) <= MaxSeenRequests

(* A request is answered again only when its time is over or so many       *)
(* others were answered since that it had to be forgotten; and no closed   *)
(* window of time has more answers than its limit (admit).                 *)
NoRequestTwice ==
  \A i, j \in DOMAIN answered :
    /\ i < j /\ answered[i].key = answered[j].key =>
         answered[j].at - answered[i].at > DuplicateTtl \/ j - i >= MaxSeenRequests
    /\ j - i >= MaxPerWindow => answered[j].at - answered[i].at > Window
=============================================================================
