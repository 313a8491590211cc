---------------------------- MODULE Reachability ----------------------------
(***************************************************************************)
(* Whether other users can reach the listening port, and the leased router *)
(* mapping that helps them to (reachability.rs; the network timer of a     *)
(* session in service/network.rs).  A session begins and is dropped, its   *)
(* mapping worker outlives it until the mapping is deleted, port tests of  *)
(* an earlier session come back late, and the router forgets, refuses and  *)
(* moves mappings.  Threads interleave at every lock of the evidence.      *)
(***************************************************************************)
EXTENDS Integers, FiniteSets

CONSTANTS
  Port,       \* external ports
  Listening,  \* the one that is also the local listening port
  MaxBegins,  \* bound on sessions
  MaxTests    \* bound on port tests

NoPort == "none"
Session == 1 .. MaxBegins
Test == 1 .. MaxTests

VARIABLES
  begun,       \* sessions begun
  current,     \* Evidence::session: the session the evidence is of, 0 offline
  advertised,  \* advertised_port
  direct,      \* DirectStatus
  heard,       \* last_incoming is set
  checking,    \* a test is under way, as the user sees it
  tests,       \* tests under way: session, port, a connection came since
  judged,      \* history: the port of the last verdict
  dropped,     \* sessions whose ReachabilitySession was dropped
  worker,      \* where the mapping worker of each session is
  lease,       \* the external port of its mapping
  lock,        \* who holds mapping_lock, or 0
  router       \* the session whose mapping each external port is, or 0

evidence == <<current, advertised, direct, heard, checking, judged>>
workers == <<worker, lease, lock, router>>
reachVars == <<begun, evidence, tests, dropped, workers>>

ReachInit ==
  /\ begun = 0 /\ current = 0 /\ advertised = NoPort
  /\ direct = "Unknown" /\ heard = FALSE /\ checking = FALSE
  /\ tests = {} /\ judged = NoPort /\ dropped = {}
  /\ worker = [s \in Session |-> "none"]
  /\ lease = [s \in Session |-> NoPort]
  /\ lock = 0 /\ router = [p \in Port |-> 0]

Stopped(s) == s \in dropped

-----------------------------------------------------------------------------
(* Sessions.                                                               *)

(* begin: the evidence is that of a new session; with automatic mapping a  *)
(* worker is spawned.  The task of the session before may not have been    *)
(* dropped yet.                                                            *)
BeginSession(automatic) ==
  LET s == begun + 1 IN
  /\ begun < MaxBegins
  /\ begun' = s /\ current' = s
  /\ advertised' = Listening
  /\ direct' = "Unknown" /\ heard' = FALSE /\ checking' = FALSE
  /\ worker' = [worker EXCEPT ![s] = IF automatic THEN "queued" ELSE "none"]
  /\ UNCHANGED <<tests, judged, dropped, lease, lock, router>>

Offline ==
  /\ current # 0
  /\ current' = 0 /\ advertised' = NoPort
  /\ direct' = "Unknown" /\ heard' = FALSE /\ checking' = FALSE
  /\ UNCHANGED <<begun, tests, judged, dropped, workers>>

(* connect_once returns or is aborted.                                     *)
DropSession(s) ==
  /\ s <= begun /\ ~Stopped(s)
  /\ dropped' = dropped \cup {s}
  /\ UNCHANGED <<begun, evidence, tests, workers>>

(* incoming: a connection from a public address.                           *)
Incoming(s) ==
  /\ s <= begun /\ ~Stopped(s) /\ s = current
  /\ heard' = TRUE /\ direct' = "Reachable"
  /\ tests' = {[t EXCEPT !.seen = TRUE] : t \in tests}
  /\ UNCHANGED <<begun, current, advertised, checking, judged, dropped, workers>>

(* expire_evidence, every second: evidence of half an hour ago expires,    *)
(* which is long after a test that saw it has ended.                       *)
ExpireEvidence(s) ==
  /\ s <= begun /\ ~Stopped(s) /\ s = current
  /\ heard /\ \A t \in tests : ~t.seen
  /\ heard' = FALSE /\ direct' = "Unknown"
  /\ UNCHANGED <<begun, current, advertised, checking, judged, tests, dropped, workers>>

-----------------------------------------------------------------------------
(* The port test.                                                          *)
BeginTest ==
  /\ advertised # NoPort /\ ~checking
  /\ checking' = TRUE
  /\ \E n \in Test \ {t.id : t \in tests} :
       tests' = tests \cup {[id |-> n, session |-> current, port |-> advertised, seen |-> FALSE]}
  /\ UNCHANGED <<begun, current, advertised, direct, heard, judged, dropped, workers>>

(* finish_test: a verdict is about the session and the port it was asked   *)
(* for, and an outside connection outweighs what the checker says.         *)
JudgeAnyPort(t, closed) == \* mutant: the port may have changed meanwhile
  /\ judged' = t.port
  /\ direct' = IF t.seen THEN "Reachable" ELSE IF closed THEN "Firewalled" ELSE "Unknown"
  /\ heard' = t.seen

Judge(t, closed) ==
  IF advertised # t.port
  THEN UNCHANGED <<judged, direct, heard>>
  ELSE /\ judged' = t.port
       /\ direct' = IF t.seen THEN "Reachable" ELSE IF closed THEN "Firewalled" ELSE "Unknown"
       /\ heard' = t.seen

FinishTest ==
  \E t \in tests, closed \in BOOLEAN :
    /\ tests' = tests \ {t}
    /\ IF t.session = current
       THEN checking' = FALSE /\ Judge(t, closed)
       ELSE UNCHANGED <<checking, judged, direct, heard>>
    /\ UNCHANGED <<begun, current, advertised, dropped, workers>>

-----------------------------------------------------------------------------
(* The mapping worker.  Moves takes it from one place to another.          *)
Moves(s, from, to) == worker[s] = from /\ worker' = [worker EXCEPT ![s] = to]

(* The worker ends, and with it the lock it held.                          *)
Ends(s, from) ==
  /\ Moves(s, from, "done")
  /\ lock' = IF lock = s THEN 0 ELSE lock
  /\ UNCHANGED <<begun, evidence, tests, dropped, lease, router>>

Locks(s) ==
  /\ lock = 0 /\ lock' = s
  /\ Moves(s, "queued", "top")
  /\ UNCHANGED <<begun, evidence, tests, dropped, lease, router>>

Discovers(s) ==
  /\ ~Stopped(s)
  /\ Moves(s, "top", "creating") \/ Moves(s, "asleep", "top")
  /\ UNCHANGED <<begun, evidence, tests, dropped, lease, lock, router>>

(* create_mapping is never cancelled; a router that answers too late may   *)
(* keep a mapping nobody holds.                                            *)
Creates(s) ==
  /\ \E p \in Port :
       \/ Moves(s, "creating", "held") /\ router' = [router EXCEPT ![p] = s]
          /\ lease' = [lease EXCEPT ![s] = p]
       \/ Moves(s, "creating", "failed") /\ UNCHANGED lease
          /\ router' \in {router, [router EXCEPT ![p] = s]}
  /\ UNCHANGED <<begun, evidence, tests, dropped, lock>>

(* The closure of own_lease: the advertised port is that of the lease, and *)
(* what was known of another port is forgotten.                            *)
Publishes(s) ==
  /\ ~Stopped(s) /\ Moves(s, "held", "leased")
  /\ IF s = current
     THEN /\ advertised' = lease[s]
          /\ IF advertised # lease[s]
             THEN heard' = FALSE /\ direct' = "Unknown"
             ELSE UNCHANGED <<heard, direct>>
     ELSE UNCHANGED <<advertised, heard, direct>>
  /\ UNCHANGED <<begun, current, checking, judged, tests, dropped, lease, lock, router>>

(* Half of the lease is over; the router renews it, perhaps on another     *)
(* port, or does not, and may have lost it.                                *)
Renews(s) ==
  /\ \/ \E p \in Port :
          /\ Moves(s, "leased", "held")
          /\ lease' = [lease EXCEPT ![s] = p]
          /\ router' = [router EXCEPT ![lease[s]] = 0, ![p] = s]
     \/ /\ Moves(s, "leased", "releasing")
        /\ UNCHANGED lease
        /\ router' \in {router, [router EXCEPT ![lease[s]] = 0]}
  /\ UNCHANGED <<begun, evidence, tests, dropped, lock>>

(* The lock is held through the deletion.                                  *)
LeavesUnlocked(s) == \* mutant: the next worker may start before the deletion
  /\ Stopped(s)
  /\ Moves(s, "held", "removing") \/ Moves(s, "leased", "removing")
  /\ lock' = 0
  /\ UNCHANGED <<begun, evidence, tests, dropped, lease, router>>

Leaves(s) ==
  /\ Stopped(s)
  /\ Moves(s, "held", "removing") \/ Moves(s, "leased", "removing")
  /\ UNCHANGED <<begun, evidence, tests, dropped, lease, lock, router>>

(* delete: the router removes whatever mapping the port has, or does not   *)
(* answer, and then its lease runs out there.                              *)
Deletes(s) ==
  /\ worker[s] \in {"removing", "releasing"}
  /\ worker' = [worker EXCEPT ![s] = IF @ = "removing" THEN "done" ELSE "lost"]
  /\ lock' = IF worker[s] = "removing" /\ lock = s THEN 0 ELSE lock
  /\ lease' = [lease EXCEPT ![s] = NoPort]
  /\ router' \in {router, [router EXCEPT ![lease[s]] = 0]}
  /\ UNCHANGED <<begun, evidence, tests, dropped>>

Loses(s) ==
  /\ Moves(s, "lost", "failed")
  /\ IF s = current THEN heard' = FALSE /\ direct' = "Unknown" ELSE UNCHANGED <<heard, direct>>
  /\ UNCHANGED <<begun, current, advertised, checking, judged, tests, dropped, lease, lock, router>>

(* The mapping is unavailable: the listening port is advertised itself.    *)
Unavailable(s) ==
  /\ Moves(s, "failed", "asleep")
  /\ IF s = current
     THEN /\ advertised' = Listening
          /\ direct' = IF direct = "Reachable" THEN direct ELSE "Unknown"
     ELSE UNCHANGED <<advertised, direct>>
  /\ UNCHANGED <<begun, current, heard, checking, judged, tests, dropped, lease, lock, router>>

WorkerStep(s) ==
  \/ Stopped(s) /\ \E at \in {"queued", "top", "asleep"} : Ends(s, at)
  \/ Locks(s) \/ Discovers(s) \/ Creates(s) \/ Publishes(s) \/ Renews(s)
  \/ Leaves(s) \/ Deletes(s) \/ Loses(s) \/ Unavailable(s)

ReachNext ==
  \/ \E automatic \in BOOLEAN : BeginSession(automatic)
  \/ Offline \/ BeginTest \/ FinishTest
  \/ \E s \in Session : DropSession(s) \/ Incoming(s) \/ ExpireEvidence(s) \/ WorkerStep(s)

ReachSpec == ReachInit /\ [][ReachNext]_reachVars

-----------------------------------------------------------------------------
(* "An old session must never delete a newer mapping" (reachability.rs):   *)
(* the router holds the mapping of a worker for as long as the worker      *)
(* thinks so.                                                              *)
MappingsAreTheirOwners ==
  \A s \in Session : worker[s] \in {"held", "leased", "removing"} => router[lease[s]] = s

(* The status speaks of this session and of the port other users are told: *)
(* Reachable stands for an outside connection, Firewalled for a test of    *)
(* that port, and a test the user waits for is under way.                  *)
EvidenceIsCurrent ==
  /\ (direct = "Reachable") = heard
  /\ direct = "Firewalled" => judged = advertised
  /\ checking => \E t \in tests : t.session = current

(* The deletion shutdown_network waits for comes to its end (wait_for_     *)
(* cleanup), whatever the router does.                                     *)
CleanupEnds ==
  []<>(\A s \in Session : Stopped(s) => worker[s] \in {"none", "done"})
=============================================================================
