---------------------------- MODULE MCDownloads ----------------------------
EXTENDS Downloads, TLC
CONSTANTS a, b, u1, u2, w1, w2
TwoFiles == [r \in {"A", "B"} |-> IF r = "A" THEN <<a>> ELSE <<b>>]
OneFile == [r \in {"A"} |-> <<a>>]
Symmetry == Permutations({u1, u2}) \cup Permutations({w1, w2})

(* One run of the application with one lane: Next without the crash, files *)
(* of other programs, and the order and number of lanes, which             *)
(* MCDownloadsLanes has.                                                   *)
RunNext ==
  \/ \E r \in Release, u \in User : EnqueueRelease(r, u)
  \/ \E op \in {"pause", "cancel", "switch"}, S \in Targets : BeginUserOp(op, S)
  \/ EndUserOp
  \/ \E S \in Targets : ResumeTransfers(S)
  \/ \E r \in Release : RetryReleaseIssues(r)
  \/ ClearCompleted
  \/ SourceStep
  \/ BeginConnectionLost \/ ConnectionLost
  \/ \E mode \in {"PauseNow", "FinishCurrentFiles"} : BeginRestartPreparation(mode)
  \/ AbortForRestart \/ PrepareTransfersForRestart \/ FinishRestartPreparation
  \/ CancelRestartPreparation
  \/ CheckSafety \/ ActivateNext
  \/ \E w \in Writer : TaskStep(w)
  \/ \E i \in Id : PartialCleanup(i)

RunSpec == Init /\ [][RunNext]_vars
RunLiveSpec == RunSpec /\ PassageFairness /\ \A w \in Writer : WF_vars(TaskStep(w))
=============================================================================
