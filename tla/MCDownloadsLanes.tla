-------------------------- MODULE MCDownloadsLanes --------------------------
(***************************************************************************)
(* Two instances of Downloads in one: many transfers that compete for      *)
(* lanes, or one transfer whose application may crash and whose final path *)
(* another program may fill.  Two of Arrivals, for what comes after the    *)
(* download: one file that is scanned, repaired and filed while other      *)
(* programs change it, and a release of two.  scene tells which.           *)
(***************************************************************************)
EXTENDS Downloads, TLC
CONSTANTS one, other, u1, u2, w1, Asked, Task, Sounds, Names
ASSUME NamesAssumption == 1 \in Names /\ 0 \notin Names \* 0 is Library
TwoFiles == [r \in {"A", "B"} |-> IF r = "A" THEN <<one>> ELSE <<other>>]
Symmetry == Permutations({u1, u2})

VARIABLES
  scene,
  release, disk, files, aside, gone, scans, filing, examined, meddled

scanVars == <<release, disk, files, aside, gone, scans, filing, examined, meddled>>
File == INSTANCE Arrivals WITH Track <- {1}, Added <- 2, Original <- "u", Candidate <- {"v"},
  Automatic <- FALSE, MaxFiles <- 3, MaxMeddling <- 1, MaxChanges <- 4
Pair == INSTANCE Arrivals WITH Track <- {1, 2}, Added <- 2, Original <- "u", Candidate <- {"v"},
  Automatic <- TRUE, MaxFiles <- 4, MaxMeddling <- 0, MaxChanges <- 3

LanesNext ==
  \/ \E r \in Release, u \in User : EnqueueRelease(r, u)
  \/ \E S \in Targets : BeginUserOp("switch", S) \/ ResumeTransfers(S)
  \/ \E v \in User, exact \in BOOLEAN : SwitchSource(v, exact)
  \/ SwitchFails
  \/ \E r \in Release : ReorderRelease(r)
  \/ \E n \in LaneLimits : SetMaxConcurrentDownloads(n)
  \/ CheckSafety \/ ActivateNext
  \/ \E c \in 1 .. MaxAttempts : ClaimPeer(c) \/ RequestTimeout(c)
  \/ \E i \in Id : TransferRequest(i, TRUE)
  \/ \E t \in 1 .. MaxAttempts : FileConnection(t)
  \/ \E r \in Release, v \in User : AutoRelay(r, v)
  \/ BeginConnectionLost \/ ConnectionLost
  \/ \E w \in Writer : TaskStep(w)

(* One attempt at one transfer with one lane.                              *)
CrashNext ==
  /\ Next
  /\ lanes = 1 /\ lanes' = 1 /\ attempts' <= 1 /\ (sched' => attempts' < 1)
  /\ transfers'[other] = transfers[other]
  /\ userOp' # None => other \notin userOp'.ids

SceneNext ==
  /\ UNCHANGED scene
  /\ \/ scene = "lanes" /\ LanesNext /\ UNCHANGED scanVars
     \/ scene = "crash" /\ CrashNext /\ UNCHANGED scanVars
     \/ scene = "file" /\ File!ArrivalsNext /\ UNCHANGED vars
     \/ scene = "pair" /\ Pair!ArrivalsNext /\ UNCHANGED vars

SceneInit ==
  /\ scene \in {"lanes", "crash", "file", "pair"}
  /\ Init /\ (scene \in {"file", "pair"} => lanes = 1)
  /\ IF scene = "pair" THEN Pair!ArrivalsInit ELSE File!ArrivalsInit
SceneSpec == SceneInit /\ [][SceneNext]_<<vars, scanVars, scene>>

(* What the release tells of its files was found in these files, a repair  *)
(* is called done when it was looked at, no file is lost and a filing can  *)
(* be undone (downloads.rs, soundcheck.rs).                                *)
ArrivalsAreSound ==
  /\ scene = "file" => File!ArrivalIsSound
  /\ scene = "pair" => Pair!ArrivalIsSound
=============================================================================
