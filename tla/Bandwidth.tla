----------------------------- MODULE Bandwidth -----------------------------
(***************************************************************************)
(* The payload budget that every transfer shares (bandwidth.rs): a bucket  *)
(* for all traffic and one for each direction, permits that give back what *)
(* a short read left, and settings, the time of day and the cost of the    *)
(* network that replace the buckets while permits are out.                 *)
(***************************************************************************)
EXTENDS Integers, Sequences, FiniteSets, SequencesExt

CONSTANTS
  Acquirer,       \* transfers that acquire
  DirectionOf,    \* 1 downloads, 2 uploads
  Settings,       \* validated settings, see SettingsType
  Day,            \* minutes of a day
  Maximum,        \* what a transfer asks for at most
  MaxBurst,       \* bound of a bucket's capacity
  MaxElapsed,     \* bound on time since the buckets are new
  MaxChanges      \* bound on changes that replace the buckets

Bucket == 0 .. 2  \* 0 is the total

(* Settings that validate accepts: a schedule has two distinct times.      *)
SettingsType ==
  [manual : BOOLEAN, normal : [Bucket -> Nat], alternate : [Bucket -> Nat],
   scheduled : BOOLEAN, start : 0 .. Day - 1, end : 0 .. Day - 1, metered : BOOLEAN]

Minimum(a, b) == IF a < b THEN a ELSE b

VARIABLES
  settings, minute, cost,
  rate,     \* Snapshot::limits: per bucket, 0 for no limit
  paused,   \* Snapshot::paused
  tokens,   \* Bucket::tokens
  refilled, \* Bucket::at, since the buckets are new
  elapsed,  \* time since the buckets are new
  epoch,    \* State::epoch
  lanes,    \* who waits in each direction, in order; the first holds the lane
  permit,   \* what each transfer may use, and the epoch it is of
  stopping, \* transfers whose cancel flag is set
  spent     \* history: what was used of each bucket since it is new

configVars == <<settings, minute, cost>>
bucketVars == <<rate, paused, tokens, refilled, elapsed, epoch, spent>>
bandVars == <<configVars, bucketVars, lanes, permit, stopping>>

NoPermit == [count |-> 0, epoch |-> 0]

(* alternate_at: a schedule that ends before it starts runs over midnight. *)
AlternateAt(s, m) ==
  /\ s.scheduled
  /\ IF s.start < s.end THEN m >= s.start /\ m < s.end ELSE m >= s.start \/ m < s.end

LimitsOf(s, m) == IF AlternateAt(s, m) THEN s.alternate ELSE s.normal
PausedBy(s, c) == s.manual \/ (s.metered /\ c # "Unmetered")

BandInit ==
  /\ settings \in Settings /\ minute \in 0 .. Day - 1 /\ cost = "Unknown"
  /\ rate = LimitsOf(settings, minute)
  /\ paused = PausedBy(settings, cost)
  /\ tokens = [b \in Bucket |-> 0] /\ refilled = [b \in Bucket |-> 0]
  /\ elapsed = 0 /\ epoch = 1
  /\ lanes = [d \in {1, 2} |-> <<>>]
  /\ permit = [a \in Acquirer |-> NoPermit]
  /\ stopping = {} /\ spent = [b \in Bucket |-> 0]

-----------------------------------------------------------------------------
(* configure and environment: refresh replaces the buckets when a limit or *)
(* the pause has changed, and permits of the old buckets are void.         *)
Refreshed ==
  /\ rate' = LimitsOf(settings', minute')
  /\ paused' = PausedBy(settings', cost')
  /\ IF rate' # rate \/ paused' # paused
     THEN /\ epoch < MaxChanges /\ epoch' = epoch + 1
          /\ tokens' = [b \in Bucket |-> 0] /\ refilled' = [b \in Bucket |-> 0]
          /\ elapsed' = 0 /\ spent' = [b \in Bucket |-> 0]
     ELSE UNCHANGED <<tokens, refilled, elapsed, epoch, spent>>

Configure ==
  /\ settings' \in Settings /\ minute' \in 0 .. Day - 1 /\ UNCHANGED cost
  /\ Refreshed /\ UNCHANGED <<lanes, permit, stopping>>

Environment ==
  /\ minute' \in 0 .. Day - 1 /\ cost' \in {"Unmetered", "Metered", "Unknown"}
  /\ UNCHANGED settings
  /\ Refreshed /\ UNCHANGED <<lanes, permit, stopping>>

-----------------------------------------------------------------------------
(* acquire: first in, first out within a direction.                        *)
Waiting(a) == a \in Range(lanes[DirectionOf[a]])

Queues(a) ==
  /\ ~Waiting(a) /\ permit[a] = NoPermit /\ a \notin stopping
  /\ lanes' = [lanes EXCEPT ![DirectionOf[a]] = Append(@, a)]
  /\ UNCHANGED <<configVars, bucketVars, permit, stopping>>

(* A transfer is cancelled, and acquire answers that there is no permit.   *)
Stops(a) ==
  /\ a \notin stopping /\ stopping' = stopping \cup {a}
  /\ UNCHANGED <<configVars, bucketVars, lanes, permit>>

GivesUp(a) ==
  /\ a \in stopping
  /\ \E i \in DOMAIN lanes[DirectionOf[a]] :
       /\ lanes[DirectionOf[a]][i] = a
       /\ lanes' = [lanes EXCEPT ![DirectionOf[a]] = RemoveAt(@, i)]
  /\ UNCHANGED <<configVars, bucketVars, permit, stopping>>

(* Both buckets are refilled, and the grant is what both have.             *)
Capacity(b) == IF rate[b] < MaxBurst THEN rate[b] ELSE MaxBurst
Refilled(b) == Minimum(tokens[b] + (elapsed - refilled[b]) * rate[b], Capacity(b))
Limited(a) == {b \in {0, DirectionOf[a]} : rate[b] > 0}
Granted(a) == LET has == {Maximum} \cup {Refilled(b) : b \in Limited(a)}
              IN CHOOSE n \in has : \A m \in has : n <= m

Acquires(a) ==
  LET n == Granted(a) IN
  /\ Waiting(a) /\ Head(lanes[DirectionOf[a]]) = a /\ a \notin stopping
  /\ ~paused
  /\ tokens' = [b \in Bucket |-> IF b \in Limited(a) THEN Refilled(b) - n ELSE tokens[b]]
  /\ refilled' = [b \in Bucket |-> IF b \in {0, DirectionOf[a]} THEN elapsed ELSE refilled[b]]
  /\ IF n = 0 THEN UNCHANGED <<lanes, permit>>
     ELSE /\ permit' = [permit EXCEPT ![a] = [count |-> n, epoch |-> epoch]]
          /\ lanes' = [lanes EXCEPT ![DirectionOf[a]] = Tail(@)]
  /\ UNCHANGED <<configVars, rate, paused, elapsed, epoch, spent, stopping>>

(* Drop: what the transfer did not use goes back, but never to buckets     *)
(* that have been replaced.                                                *)
RefundAnyEpoch(a, used) == \* mutant: the epoch of the permit is not compared
  tokens' = [b \in Bucket |->
    IF b \in Limited(a) THEN Minimum(tokens[b] + permit[a].count - used, Capacity(b)) ELSE tokens[b]]

Refund(a, used) ==
  tokens' = [b \in Bucket |->
    IF b \in Limited(a) /\ permit[a].epoch = epoch
    THEN Minimum(tokens[b] + permit[a].count - used, Capacity(b)) ELSE tokens[b]]

Uses(a) ==
  /\ permit[a] # NoPermit
  /\ \E used \in 0 .. permit[a].count :
       /\ Refund(a, used)
       /\ spent' = [b \in Bucket |->
            IF b \in Limited(a) /\ permit[a].epoch = epoch THEN spent[b] + used ELSE spent[b]]
  /\ permit' = [permit EXCEPT ![a] = NoPermit]
  /\ UNCHANGED <<configVars, rate, paused, refilled, elapsed, epoch, lanes, stopping>>

Elapses ==
  /\ elapsed < MaxElapsed /\ elapsed' = elapsed + 1
  /\ UNCHANGED <<configVars, rate, paused, tokens, refilled, epoch, spent, lanes, permit, stopping>>

BandNext ==
  \/ Configure \/ Environment \/ Elapses
  \/ \E a \in Acquirer : Queues(a) \/ Stops(a) \/ GivesUp(a) \/ Acquires(a) \/ Uses(a)

BandSpec == BandInit /\ [][BandNext]_bandVars

-----------------------------------------------------------------------------
(* Since its limit was set, no bucket has given out more than its rate     *)
(* times the time, over all transfers and whatever was given back: what    *)
(* was used, what is out and what is left add up to at most that.          *)
Out(b) == LET of == {a \in Acquirer : permit[a].epoch = epoch /\ b \in Limited(a)}
          IN FoldSet(LAMBDA a, n : n + permit[a].count, 0, of)

BudgetIsKept ==
  \A b \in Bucket : rate[b] > 0 =>
    /\ spent[b] + Out(b) + tokens[b] <= rate[b] * elapsed
    /\ tokens[b] \in 0 .. Capacity(b)

(* The alternate limits apply for end - start minutes from start on, and   *)
(* over midnight where the schedule wraps (alternate_at).                  *)
ScheduleIsCyclic ==
  settings.scheduled =>
    (rate = settings.alternate \/ ~((minute - settings.start) % Day < (settings.end - settings.start) % Day))
=============================================================================
