----------------------------- MODULE MCSession -----------------------------
(***************************************************************************)
(* The threads of control that must always come to an end, in one          *)
(* instance: the writer of the transfer store, the task of the connection  *)
(* and the workers of the router mapping.  They share no state: part       *)
(* chooses the one that runs.                                              *)
(***************************************************************************)
EXTENDS QueueStore, FiniteSets

CONSTANTS c1, c2, Callers, MaxGeneration, Port, Listening, MaxBegins, MaxTests

VARIABLES
  part,
  generation, slot, sender, hubsOf, snapshot, configured, task, outcome, aborted,
  caller, overlapped,
  begun, current, advertised, direct, heard, checking, tests, judged, dropped,
  mapper, lease, lock, router

connVars == <<generation, slot, sender, hubsOf, snapshot, configured, task,
              outcome, aborted, caller, overlapped>>
reachVars == <<begun, current, advertised, direct, heard, checking, tests, judged,
               dropped, mapper, lease, lock, router>>
allVars == <<part, vars, connVars, reachVars>>

N == INSTANCE Connection
E == INSTANCE Reachability WITH worker <- mapper

SessionInit ==
  /\ part \in {"store", "connection", "mapping"}
  /\ Init /\ N!ConnInit /\ E!ReachInit

InStore(step) == part = "store" /\ step /\ UNCHANGED <<part, connVars, reachVars>>
InConnection(step) == part = "connection" /\ step /\ UNCHANGED <<part, vars, reachVars>>
InMapping(step) == part = "mapping" /\ step /\ UNCHANGED <<part, vars, connVars>>

StoreNext == InStore(Next)
ConnectionNext == InConnection(N!ConnNext)
MappingNext == InMapping(E!ReachNext)

SessionNext == StoreNext \/ ConnectionNext \/ MappingNext

(* The operating system runs every thread and every task, and their calls  *)
(* return; nobody has to begin a change or a command.                      *)
SessionSpec ==
  /\ SessionInit /\ [][SessionNext]_allVars
  /\ WF_allVars(InStore(WorkerStep))
  /\ \A c \in Caller : WF_allVars(InStore(Flush(c)))
  /\ \A c \in Callers : WF_allVars(InConnection(N!CallerStep(c)))
  /\ \A g \in N!Generations : WF_allVars(InConnection(N!TaskStep(g)))
  /\ \A s \in E!Session : WF_allVars(InMapping(E!WorkerStep(s)))

(* Whoever waits is woken: the writer of the store for a snapshot, and     *)
(* shutdown for the task of the connection, whatever it is doing, and for  *)
(* the deletion of the router mapping.                                     *)
NobodyWaitsForEver == WriterCatchesUp /\ N!ShutdownEnds /\ E!CleanupEnds

(* Sessions do not mix: no attempt to connect outlives the slot that could *)
(* stop it (service.rs), what the user is told of the listening port is    *)
(* about this session and this port, and no worker deletes another one's   *)
(* mapping (reachability.rs).                                              *)
SessionsDoNotMix ==
  N!OnlyTheSlotLives /\ E!EvidenceIsCurrent /\ E!MappingsAreTheirOwners
=============================================================================
