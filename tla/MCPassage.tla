------------------------------ MODULE MCPassage ------------------------------
(***************************************************************************)
(* What downloads wait for, in one instance: cancelled writers and Safe    *)
(* Passage for their tasks, and the session for a download that could      *)
(* start.  The two share no state: scene chooses the one that runs.        *)
(***************************************************************************)
EXTENDS MCDownloads

CONSTANTS Item, Supplier, MaxDue, MaxLimit, MaxTries, MaxOwed

VARIABLES
  scene,
  status, due, writers, limit, held, paused, permit, owed, loop, flag, deadline, tries

schedVars == <<status, due, writers, limit, held, paused, permit, owed, loop, flag,
               deadline, tries>>
allVars == <<scene, vars, schedVars>>

Itself == [i \in Item |-> i]
D == INSTANCE DownloadScheduler WITH Transfer <- Item, SourceOf <- Supplier

PassageInit ==
  /\ scene \in {"tasks", "scheduler"}
  /\ Init /\ D!SchedInit
  /\ \A i \in Item : status[i] # "other"
  /\ scene # "scheduler" => ~paused /\ \A i \in Item : status[i] = "queued"

OfTasks(step) == scene = "tasks" /\ step /\ UNCHANGED <<scene, schedVars>>
OfScheduler(step) == scene = "scheduler" /\ step /\ UNCHANGED <<scene, vars>>

TasksNext == OfTasks(RunNext)
SchedulerNext == OfScheduler(D!SchedNext)

(* PassageFairness, with tasks whose data arrives; the loop of the session *)
(* is polled, and a handler that has changed something notifies it.        *)
WaitsSpec ==
  /\ PassageInit /\ [][TasksNext \/ SchedulerNext]_allVars
  /\ \A w \in Writer : WF_allVars(OfTasks(TaskStep(w)))
  /\ WF_allVars(OfTasks(EndUserOp)) /\ WF_allVars(OfTasks(ConnectionLost))
  /\ WF_allVars(OfTasks(AbortForRestart)) /\ WF_allVars(OfTasks(PrepareTransfersForRestart))
  /\ WF_allVars(OfTasks(FinishRestartPreparation))
  /\ WF_allVars(OfScheduler(D!Wait)) /\ WF_allVars(OfScheduler(D!Pass))
  /\ WF_allVars(OfScheduler(D!Changed))

(* The session sleeps through nothing (download_scheduler.rs).             *)
NothingIsSleptThrough == D!NothingIsSleptThrough

(* Every task ends, and no download waits for ever beside a free lane.     *)
DownloadsGoOn == TasksEnd /\ D!StartableIsStarted
=============================================================================
