------------------------------ MODULE ShelfRadar ------------------------------
(***************************************************************************)
(* The scan of a shelf of missing albums (radar.rs): albums are searched   *)
(* for one after the other, each with the queries of its plan, while       *)
(* answers of earlier queries keep arriving and the user stops the scan or *)
(* starts another.  The runtime has one lock; every action is one critical *)
(* section.  A write that fails ends the scanned album before the session. *)
(***************************************************************************)
EXTENDS Integers, Sequences, FiniteSets

CONSTANTS
  MaxShelf,       \* MAX_RADAR_ALBUMS
  RadarTries,     \* queries in the plan of an album
  MaxScans,       \* bound on the scans started
  MaxRadarToken   \* bound on the tokens taken

VARIABLES
  scan,       \* RadarSnapshot::state
  shelf,      \* RadarSnapshot::albums: the state and the results of each
  done,       \* RadarSnapshot::completed_count
  queue,      \* RadarRuntime::queue
  probe,      \* RadarRuntime::active: album, token, listening, try, found
  cooling,    \* next_allowed_at has not come
  radarUp,    \* the session is up
  writing,    \* the session is writing the frame of the scan
  radarToken, \* next_search_token
  scans,      \* scans started
  meant       \* history: token -> <<scan, album>> it was sent for

shelfVars == <<scan, shelf, done, queue, probe, cooling, radarUp, writing,
               radarToken, scans, meant>>

NoProbe == [album |-> 0]
Unmeant == <<0, 0>>

ShelfInit ==
  /\ scan = "idle" /\ shelf = <<>> /\ done = 0 /\ queue = <<>> /\ probe = NoProbe
  /\ cooling = FALSE /\ radarUp = FALSE /\ writing = FALSE
  /\ radarToken = 1 /\ scans = 0
  /\ meant = [t \in 1..MaxRadarToken |-> Unmeant]

Albums == DOMAIN shelf
Mark(S, state) == [i \in Albums |->
  IF i \in S THEN [shelf[i] EXCEPT !.state = state] ELSE shelf[i]]
InQueue == {queue[k] : k \in DOMAIN queue}
Probed == {probe.album} \ {0}

-----------------------------------------------------------------------------
(* begin, from a thread that found the connection online; a scan under way *)
(* is replaced.                                                            *)
StartScan ==
  /\ radarUp /\ scans < MaxScans
  /\ scans' = scans + 1
  /\ \E n \in 1..MaxShelf :
       /\ shelf' = [i \in 1..n |-> [state |-> "queued", heard |-> {}]]
       /\ queue' = [i \in 1..n |-> i]
  /\ scan' = "scanning" /\ done' = 0 /\ probe' = NoProbe /\ cooling' = FALSE
  /\ UNCHANGED <<radarUp, writing, radarToken, meant>>

StopScan ==
  /\ scan = "scanning"
  /\ scan' = "stopped" /\ probe' = NoProbe /\ queue' = <<>>
  /\ shelf' = Mark(Probed \cup InQueue, "stopped")
  /\ UNCHANGED <<done, cooling, radarUp, writing, radarToken, scans, meant>>

-----------------------------------------------------------------------------
(* start_next, from dispatch_search: the next query of the album at hand,  *)
(* the next album, or the end of the scan.                                 *)
Send(i) ==
  /\ radarToken <= MaxRadarToken
  /\ radarToken' = radarToken + 1
  /\ meant' = [meant EXCEPT ![radarToken] = <<scans, i>>]
  /\ writing' = TRUE

StartNext ==
  /\ radarUp /\ ~writing /\ scan = "scanning"
  /\ \/ /\ probe # NoProbe /\ ~probe.listening
        /\ Send(probe.album)
        /\ probe' = [probe EXCEPT !.token = radarToken, !.listening = TRUE]
        /\ UNCHANGED <<scan, shelf, queue>>
     \/ /\ probe = NoProbe /\ ~cooling /\ queue # <<>>
        /\ Send(Head(queue))
        /\ queue' = Tail(queue)
        /\ shelf' = Mark({Head(queue)}, "scanning")
        /\ probe' = [album |-> Head(queue), token |-> radarToken,
                     listening |-> TRUE, try |-> 1]
        /\ UNCHANGED scan
     \/ /\ probe = NoProbe /\ ~cooling /\ queue = <<>>
        /\ scan' = "completed"
        /\ UNCHANGED <<shelf, queue, probe, writing, radarToken, meant>>
  /\ UNCHANGED <<done, cooling, radarUp, scans>>

(* finish_active.                                                          *)
FinishKeepsScanning(error) == \* mutant: the last album does not end the scan
  /\ probe # NoProbe
  /\ shelf' = Mark(Probed, IF error THEN "error" ELSE "completed")
  /\ done' = IF error THEN done ELSE done + 1
  /\ probe' = NoProbe /\ cooling' = TRUE
  /\ UNCHANGED <<scan, queue>>

FinishActive(error) ==
  /\ probe # NoProbe
  /\ shelf' = Mark(Probed, IF error THEN "error" ELSE "completed")
  /\ done' = IF error THEN done ELSE done + 1
  /\ probe' = NoProbe /\ cooling' = TRUE
  /\ scan' = IF queue # <<>> THEN scan ELSE IF error THEN "error" ELSE "completed"
  /\ UNCHANGED queue

Wrote ==
  /\ writing
  /\ writing' = FALSE
  /\ UNCHANGED <<scan, shelf, done, queue, probe, cooling, radarUp, radarToken,
                 scans, meant>>

(* The write fails: fail_active, then connect_once returns and the hubs    *)
(* are told (SessionLost).                                                 *)
WriteFails ==
  /\ writing /\ radarUp
  /\ IF probe = NoProbe THEN UNCHANGED <<scan, shelf, done, queue, probe, cooling>>
                        ELSE FinishActive(TRUE)
  /\ UNCHANGED <<radarUp, writing, radarToken, scans, meant>>

ExpireProbe ==
  /\ radarUp /\ ~writing /\ probe # NoProbe /\ probe.listening
  /\ IF shelf[probe.album].heard = {} /\ probe.try < RadarTries
       THEN /\ probe' = [probe EXCEPT !.listening = FALSE, !.try = @ + 1]
            /\ UNCHANGED <<scan, shelf, done, queue, cooling>>
       ELSE FinishActive(FALSE)
  /\ UNCHANGED <<radarUp, writing, radarToken, scans, meant>>

CooledDown ==
  /\ cooling /\ cooling' = FALSE
  /\ UNCHANGED <<scan, shelf, done, queue, probe, radarUp, writing, radarToken,
                 scans, meant>>

(* record: an answer to any query ever sent.                               *)
RecordAnyToken == \* mutant: the token of the answer is not compared
  /\ probe # NoProbe /\ probe.listening
  /\ \E t \in 1..radarToken - 1 :
       shelf' = [shelf EXCEPT ![probe.album].heard = @ \cup {t}]
  /\ UNCHANGED <<scan, done, queue, probe, cooling, radarUp, writing, radarToken,
                 scans, meant>>

RecordAnswer ==
  /\ probe # NoProbe /\ probe.listening
  /\ \E t \in 1..radarToken - 1 :
       /\ t = probe.token
       /\ shelf' = [shelf EXCEPT ![probe.album].heard = @ \cup {t}]
  /\ UNCHANGED <<scan, done, queue, probe, cooling, radarUp, writing, radarToken,
                 scans, meant>>

SessionUp ==
  /\ ~radarUp /\ radarUp' = TRUE
  /\ UNCHANGED <<scan, shelf, done, queue, probe, cooling, writing, radarToken,
                 scans, meant>>

(* connection_lost.                                                        *)
SessionLost ==
  /\ radarUp /\ radarUp' = FALSE /\ writing' = FALSE
  /\ IF scan = "scanning"
       THEN /\ scan' = "error" /\ probe' = NoProbe /\ queue' = <<>>
            /\ shelf' = Mark(Probed \cup InQueue, "error")
       ELSE UNCHANGED <<scan, shelf, queue, probe>>
  /\ UNCHANGED <<done, cooling, radarToken, scans, meant>>

ShelfNext ==
  \/ StartScan \/ StopScan \/ StartNext \/ Wrote \/ WriteFails \/ ExpireProbe
  \/ CooledDown \/ RecordAnswer \/ SessionUp \/ SessionLost

ShelfSpec == ShelfInit /\ [][ShelfNext]_shelfVars

-----------------------------------------------------------------------------
(* The scan is under way exactly as long as an album of it is, and counts  *)
(* what it finished: no order of expiry, stop, a failed write and a new    *)
(* scan leaves an album waiting in a scan that is over.                    *)
ScanMatchesItsAlbums ==
  /\ scan = "scanning" <=> \E i \in Albums : shelf[i].state \in {"queued", "scanning"}
  /\ {i \in Albums : shelf[i].state = "queued"} = InQueue
  /\ {i \in Albums : shelf[i].state = "scanning"} = Probed
  /\ done = Cardinality({i \in Albums : shelf[i].state = "completed"})

(* An album shows only answers to its own queries of this scan.            *)
AnswersAreItsOwn == \A i \in Albums : \A t \in shelf[i].heard : meant[t] = <<scans, i>>
=============================================================================
