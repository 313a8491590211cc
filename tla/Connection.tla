----------------------------- MODULE Connection -----------------------------
(***************************************************************************)
(* The life cycle of the server connection (service.rs,                    *)
(* service/connection.rs, service/session.rs).  Commands of the interface  *)
(* run on a thread pool and stop and start connection attempts; an attempt *)
(* is a task that dials, signs in, runs the session and retries.           *)
(*                                                                         *)
(* Threads interleave at every access to the shared state: the generation, *)
(* the slot of the active task, the command sender, the hubs and the       *)
(* snapshot the interface shows.  An abort takes effect where a task waits.*)
(***************************************************************************)
EXTENDS Integers, FiniteSets

CONSTANTS
  Callers,       \* threads that run commands
  MaxGeneration  \* bound on the generation

Generations == 1..MaxGeneration
Operations == {"connect", "disconnect", "save", "reset", "shutdown"}

VARIABLES
  generation,  \* ConnectionManager::generation
  slot,        \* ConnectionManager::task: the generation of the active task, or 0
  sender,      \* ConnectionManager::command_sender: whose channel it is, or 0
  hubsOf,      \* the attempt the hubs were last connected for, or 0
  snapshot,    \* ConnectionState
  configured,  \* a profile is saved
  task,        \* where each attempt is
  outcome,     \* what connect_once of each attempt has returned
  aborted,     \* attempts whose task has been told to abort
  caller,      \* the command each thread runs
  overlapped   \* history: a command began while another one was running

connVars == <<generation, slot, sender, hubsOf, snapshot, configured, task,
              outcome, aborted, caller, overlapped>>
sharedVars == <<generation, slot, sender, hubsOf, snapshot, configured>>

Idle == [op |-> "none", at |-> "idle", mine |-> 0]

ConnInit ==
  /\ generation = 0 /\ slot = 0 /\ sender = 0 /\ hubsOf = 0
  /\ snapshot = "offline" /\ configured = TRUE
  /\ task = [g \in Generations |-> "none"]
  /\ outcome = [g \in Generations |-> "retry"]
  /\ aborted = {}
  /\ caller = [c \in Callers |-> Idle]
  /\ overlapped = FALSE

(* Where a task waits, so that an abort drops it.                          *)
Waits == {"spawned", "dial", "login", "setup", "online", "sleep"}
Finished(g) == task[g] \in {"none", "done", "gone"}

-----------------------------------------------------------------------------
(* Commands.                                                               *)
Goes(c, at) == caller' = [caller EXCEPT ![c].at = at]
Returns(c) == caller' = [caller EXCEPT ![c] = Idle]

Busy(op) == \E c \in Callers : caller[c].op = op

(* How often a command raises the generation.                              *)
Bumps(op) == IF op = "connect" THEN 2 ELSE 1

(* connect needs a saved profile; save_profile and reset take the lock     *)
(* settings_operation; shutdown_network takes the task out of its slot     *)
(* before it disconnects.                                                  *)
Begin(c, op) ==
  /\ caller[c] = Idle
  /\ generation + Bumps(op) + 2 * Cardinality(Callers \ {d \in Callers : caller[d] = Idle})
       <= MaxGeneration
  /\ op = "connect" => configured
  /\ op \in {"save", "reset"} => ~Busy("save") /\ ~Busy("reset")
  /\ op = "save" => configured' = TRUE
  /\ op # "save" => UNCHANGED configured
  /\ caller' = [caller EXCEPT ![c] =
       [op |-> op, at |-> "bump", mine |-> IF op = "shutdown" THEN slot ELSE 0]]
  /\ slot' = IF op = "shutdown" THEN 0 ELSE slot
  /\ overlapped' = (overlapped \/ \E d \in Callers : caller[d] # Idle)
  /\ UNCHANGED <<generation, sender, hubsOf, snapshot, task, outcome, aborted>>

(* auto_connect_on_startup connects only from Offline.                     *)
AutoConnect(c) == snapshot = "offline" /\ Begin(c, "connect")

(* stop_active_task, one shared variable after the other.                  *)
Bump(c) ==
  /\ caller[c].at = "bump"
  /\ generation' = generation + 1
  /\ Goes(c, "unsend")
  /\ UNCHANGED <<slot, sender, hubsOf, snapshot, configured, task, outcome,
                 aborted, overlapped>>

Unsend(c) ==
  /\ caller[c].at = "unsend"
  /\ sender' = 0
  /\ Goes(c, "take")
  /\ UNCHANGED <<generation, slot, hubsOf, snapshot, configured, task, outcome,
                 aborted, overlapped>>

TakeWithoutAbort(c) == \* mutant: the handle is dropped, which detaches the task
  /\ caller[c].at = "take"
  /\ slot' = 0
  /\ UNCHANGED aborted
  /\ Goes(c, "hubs")
  /\ UNCHANGED <<generation, sender, hubsOf, snapshot, configured, task,
                 outcome, overlapped>>

TakeTask(c) ==
  /\ caller[c].at = "take"
  /\ slot' = 0
  /\ aborted' = IF slot # 0 THEN aborted \cup {slot} ELSE aborted
  /\ Goes(c, "hubs")
  /\ UNCHANGED <<generation, sender, hubsOf, snapshot, configured, task,
                 outcome, overlapped>>

HubsDown(c) ==
  /\ caller[c].at = "hubs"
  /\ hubsOf' = 0
  /\ Goes(c, IF caller[c].op = "connect" THEN "rebump" ELSE "show")
  /\ UNCHANGED <<generation, slot, sender, snapshot, configured, task, outcome,
                 aborted, overlapped>>

(* The rest of disconnect, save_profile and reset: the snapshot.           *)
ShowOffline(c) ==
  /\ caller[c].at = "show"
  /\ configured' = (configured /\ caller[c].op # "reset")
  /\ snapshot' = IF configured' THEN "offline" ELSE "unconfigured"
  /\ IF caller[c].op = "shutdown" THEN Goes(c, "abort") ELSE Returns(c)
  /\ UNCHANGED <<generation, slot, sender, hubsOf, task, outcome, aborted,
                 overlapped>>

(* The rest of connect: a generation of its own, a task, the slot.         *)
Rebump(c) ==
  /\ caller[c].at = "rebump"
  /\ generation' = generation + 1
  /\ caller' = [caller EXCEPT ![c].at = "spawn", ![c].mine = generation + 1]
  /\ UNCHANGED <<slot, sender, hubsOf, snapshot, configured, task, outcome,
                 aborted, overlapped>>

Spawn(c) ==
  /\ caller[c].at = "spawn"
  /\ task' = [task EXCEPT ![caller[c].mine] = "spawned"]
  /\ Goes(c, "store")
  /\ UNCHANGED <<sharedVars, outcome, aborted, overlapped>>

StoreTask(c) ==
  /\ caller[c].at = "store"
  /\ slot' = caller[c].mine
  /\ Returns(c)
  /\ UNCHANGED <<generation, sender, hubsOf, snapshot, configured, task,
                 outcome, aborted, overlapped>>

(* The rest of shutdown_network: the task it took is aborted and awaited.  *)
ShutdownForgets(c) == \* mutant: the task is awaited and not aborted
  /\ caller[c].at = "abort"
  /\ Goes(c, "await")
  /\ UNCHANGED <<sharedVars, task, outcome, aborted, overlapped>>

ShutdownAborts(c) ==
  /\ caller[c].at = "abort"
  /\ aborted' = IF caller[c].mine # 0 THEN aborted \cup {caller[c].mine} ELSE aborted
  /\ Goes(c, "await")
  /\ UNCHANGED <<sharedVars, task, outcome, overlapped>>

ShutdownReturns(c) ==
  /\ caller[c].at = "await"
  /\ caller[c].mine # 0 => Finished(caller[c].mine)
  /\ Returns(c)
  /\ UNCHANGED <<sharedVars, task, outcome, aborted, overlapped>>

CallerStep(c) ==
  \/ Bump(c) \/ Unsend(c) \/ TakeTask(c) \/ HubsDown(c) \/ ShowOffline(c)
  \/ Rebump(c) \/ Spawn(c) \/ StoreTask(c) \/ ShutdownAborts(c)
  \/ ShutdownReturns(c)

-----------------------------------------------------------------------------
(* An attempt.  Becomes moves it from one place to another; where it waits *)
(* it moves only if it has not been aborted, except that the frames of the *)
(* set-up may be written without waiting.                                  *)
Becomes(g, from, to) ==
  /\ task[g] = from
  /\ from \in Waits \ {"setup"} => g \notin aborted
  /\ task' = [task EXCEPT ![g] = to]
  /\ UNCHANGED <<aborted, caller, overlapped>>

Dropped(g) ==
  /\ g \in aborted /\ task[g] \in Waits
  /\ task' = [task EXCEPT ![g] = "gone"]
  /\ UNCHANGED <<sharedVars, outcome, aborted, caller, overlapped>>

Wakes(g) ==
  /\ Becomes(g, "spawned", "top") \/ Becomes(g, "sleep", "top")
  /\ UNCHANGED <<sharedVars, outcome>>

(* run_connection_loop: the check at the top of the loop.                  *)
ChecksTop(g) ==
  /\ Becomes(g, "top", IF generation = g THEN "announce" ELSE "return")
  /\ UNCHANGED <<sharedVars, outcome>>

Announces(g) ==
  /\ \E state \in {"connecting", "reconnecting"} : snapshot' = state
  /\ Becomes(g, "announce", "dial")
  /\ UNCHANGED <<generation, slot, sender, hubsOf, configured, outcome>>

(* connect_once: the TCP connection, the login and the set-up.             *)
Dials(g) ==
  /\ Becomes(g, "dial", "reached")
  /\ UNCHANGED <<sharedVars, outcome>>

Authenticates(g) ==
  /\ Becomes(g, "reached", "login")
  /\ snapshot' = "authenticating"
  /\ UNCHANGED <<generation, slot, sender, hubsOf, configured, outcome>>

LoginAccepted(g) ==
  /\ Becomes(g, "login", "accepted")
  /\ UNCHANGED <<sharedVars, outcome>>

SetsSender(g) ==
  /\ Becomes(g, "accepted", "setup")
  /\ sender' = g
  /\ UNCHANGED <<generation, slot, hubsOf, snapshot, configured, outcome>>

SetupWritten(g) ==
  /\ Becomes(g, "setup", "ready")
  /\ UNCHANGED <<sharedVars, outcome>>

ShowsOnline(g) ==
  /\ Becomes(g, "ready", "joins")
  /\ snapshot' = "online"
  /\ UNCHANGED <<generation, slot, sender, hubsOf, configured, outcome>>

HubsUp(g) ==
  /\ Becomes(g, "joins", "online")
  /\ hubsOf' = g
  /\ UNCHANGED <<generation, slot, sender, snapshot, configured, outcome>>

(* A refused login is fatal unless the server is full, and so is the       *)
(* server's Relogged; everything else is retried: timeouts, I/O errors,    *)
(* the end of the session.                                                 *)
Fails(g) ==
  /\ \E from \in {"dial", "login", "setup", "online"} :
       /\ Becomes(g, from, "ended")
       /\ \E result \in {"retry", "fatal"} :
            /\ result = "fatal" => from \in {"login", "online"}
            /\ outcome' = [outcome EXCEPT ![g] = result]
  /\ UNCHANGED sharedVars

(* The check behind connect_once and the clean-up it guards.               *)
ChecksEnd(g) ==
  /\ Becomes(g, "ended", IF generation = g THEN "unsends" ELSE "return")
  /\ UNCHANGED <<sharedVars, outcome>>

Unsends(g) ==
  /\ Becomes(g, "unsends", "unhubs")
  /\ sender' = 0
  /\ UNCHANGED <<generation, slot, hubsOf, snapshot, configured, outcome>>

HubsInterrupted(g) ==
  /\ Becomes(g, "unhubs", "shows")
  /\ hubsOf' = 0
  /\ UNCHANGED <<generation, slot, sender, snapshot, configured, outcome>>

WaitsToRetry(g) ==
  /\ outcome[g] = "retry"
  /\ Becomes(g, "shows", "sleep")
  /\ snapshot' = "reconnecting"
  /\ UNCHANGED <<generation, slot, sender, hubsOf, configured, outcome>>

ShowsError(g) ==
  /\ outcome[g] = "fatal"
  /\ Becomes(g, "shows", "return")
  /\ snapshot' = "error"
  /\ UNCHANGED <<generation, slot, sender, hubsOf, configured, outcome>>

(* clear_task empties the slot only if it still holds this attempt.        *)
ClearTask(g) ==
  /\ Becomes(g, "return", "done")
  /\ slot' = IF slot = g THEN 0 ELSE slot
  /\ UNCHANGED <<generation, sender, hubsOf, snapshot, configured, outcome>>

(* Steps the runtime owes a task, and those that are up to the network.    *)
TaskStep(g) ==
  \/ Dropped(g) \/ Wakes(g) \/ ChecksTop(g) \/ Announces(g) \/ Authenticates(g)
  \/ SetsSender(g) \/ SetupWritten(g) \/ ShowsOnline(g) \/ HubsUp(g)
  \/ ChecksEnd(g) \/ Unsends(g) \/ HubsInterrupted(g) \/ WaitsToRetry(g)
  \/ ShowsError(g) \/ ClearTask(g)
NetworkStep(g) == Dials(g) \/ LoginAccepted(g) \/ Fails(g)

ConnNext ==
  \/ \E c \in Callers :
       CallerStep(c) \/ AutoConnect(c) \/ \E op \in Operations : Begin(c, op)
  \/ \E g \in Generations : TaskStep(g) \/ NetworkStep(g)

-----------------------------------------------------------------------------
(* Once the commands have returned, an attempt that nobody has told to     *)
(* stop is the one in the slot, and no later command has superseded it:    *)
(* the next disconnect will find it.  Commands that overlap may leave a    *)
(* task behind that no slot holds (service.rs connect).                    *)
OnlyTheSlotLives ==
  ~overlapped /\ (\A c \in Callers : caller[c] = Idle) =>
    \A g \in Generations : ~Finished(g) /\ g \notin aborted =>
      \/ slot = g /\ generation = g
      \/ task[g] = "return"

(* shutdown_network returns, whatever the task it waits for was doing and  *)
(* whatever else was started meanwhile (service.rs shutdown_network).      *)
ShutdownEnds ==
  \A c \in Callers : caller[c].at = "await" ~> caller[c] = Idle

(* docs/connection-architecture.md: an old connection attempt checks its  *)
(* generation before publishing disconnect cleanup.  So a superseded       *)
(* attempt never clears the command sender, never disconnects the hubs and *)
(* never shows Reconnecting or an error (service/connection.rs).           *)
CleanupIsCurrent ==
  [][\A g \in Generations :
       task[g] \in {"unsends", "unhubs", "shows"} /\ task'[g] # task[g]
         => generation = g]_connVars
=============================================================================
