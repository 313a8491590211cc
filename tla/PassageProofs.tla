---------------------------- MODULE PassageProofs ----------------------------
(***************************************************************************)
(* Theorems about the scheduler of downloads (DownloadScheduler, as        *)
(* MCPassage has it), for any items, sources and bounds.                   *)
(***************************************************************************)
EXTENDS MCPassage, TLAPS

(* What the session knows while nobody has anything left to tell it.       *)
Quiet == owed = 0 /\ ~permit /\ D!Open

(* From the end of a pass until it wakes, nothing queued could be started; *)
(* the wait was made while the bandwidth was not held; and the deadline is *)
(* no later than any retry.  A sleeper holds no permit.                    *)
WaitInv ==
  /\ loop = "asleep" => ~permit
  /\ Quiet /\ loop \in {"begins", "waits", "looked", "asleep"} => \A t \in Item : ~D!Queued(t)
  /\ Quiet /\ loop = "waits" => ~flag
  /\ Quiet /\ loop \in {"looked", "asleep"} =>
       \A t \in Item : D!Retrying(t) => deadline # D!Never /\ deadline <= due[t]

SchedInv == D!SchedTypeOK /\ WaitInv

-----------------------------------------------------------------------------
(* Type correctness.                                                       *)

LEMMA SchedInitInv ==
  ASSUME MaxLimit \in Nat, D!SchedInit
  PROVE  SchedInv
<1>1. WaitInv BY DEF D!SchedInit, WaitInv, D!Queued, D!Status
<1>2. held \in BOOLEAN /\ permit \in BOOLEAN /\ flag \in BOOLEAN BY Zenon DEF D!SchedInit
<1>3. limit \in Nat /\ owed \in Nat /\ tries \in Nat /\ paused \in BOOLEAN BY DEF D!SchedInit
<1>4. status \in [Item -> D!Status] /\ due \in [Item -> Nat] BY DEF D!SchedInit, D!Status
<1>5. writers \subseteq Item /\ loop \in D!Place /\ deadline \in Nat \cup {D!Never}
  BY DEF D!SchedInit, D!Place
<1> QED BY <1>1, <1>2, <1>3, <1>4, <1>5 DEF SchedInv, D!SchedTypeOK

LEMMA LessType ==
  /\ \A n \in Nat : D!Less(n) \in Nat
  /\ \A n \in Nat \cup {D!Never} : D!Less(n) \in Nat \cup {D!Never}
  /\ \A m, n \in Nat : m <= n => D!Less(m) <= D!Less(n)
  /\ \A n \in Nat \cup {D!Never} : D!Less(n) = D!Never => n = D!Never
BY DEF D!Less, D!Never

LEMMA SchedStepType ==
  ASSUME MaxDue \in Nat, MaxLimit \in Nat, D!SchedTypeOK, [D!SchedNext]_schedVars
  PROVE  D!SchedTypeOK'
<1> USE DEF D!SchedTypeOK
<1>1. ASSUME NEW t \in Item, NEW s \in D!Status, NEW d \in 0 .. MaxDue, D!Mutate(t, s, d)
      PROVE  D!SchedTypeOK'
  BY <1>1 DEF D!Mutate, D!Tries, D!Owes, D!waitVars
<1>2. ASSUME D!Notified, UNCHANGED <<status, due, limit, held, paused, tries>>, owed' \in Nat,
             writers' \subseteq Item
      PROVE  D!SchedTypeOK'
  BY <1>2 DEF D!Notified, D!Place
<1>3. ASSUME NEW t \in Item, D!RegisterTask(t) PROVE D!SchedTypeOK'
  BY <1>3 DEF D!RegisterTask, D!waitVars
<1>4. ASSUME NEW t \in Item, D!UnregisterTask(t) PROVE D!SchedTypeOK'
  BY <1>2, <1>4 DEF D!UnregisterTask
<1>5. ASSUME NEW t \in Item, D!Activate(t) PROVE D!SchedTypeOK'
  BY <1>5 DEF D!Activate, D!Owes, D!waitVars, D!Status
<1>6. ASSUME NEW n \in 1 .. MaxLimit, D!SetLimit(n) PROVE D!SchedTypeOK'
  BY <1>6 DEF D!SetLimit, D!Tries, D!Owes, D!waitVars
<1>7. CASE D!SetPaused BY <1>7 DEF D!SetPaused, D!Tries, D!Owes, D!waitVars
<1>8. CASE D!BeginPassage BY <1>8 DEF D!BeginPassage, D!Tries, D!waitVars
<1>9. CASE D!CancelPassage
  <2>1. held' \in BOOLEAN BY <1>9, Zenon DEF D!CancelPassage
  <2> QED BY <1>9, <2>1 DEF D!CancelPassage, D!Tries, D!Owes, D!waitVars
<1>10. CASE D!Changed BY <1>2, <1>10 DEF D!Changed, D!queueVars
<1>11. CASE D!Connect BY <1>11 DEF D!Connect, D!queueVars, D!Place
<1>12. CASE D!MakeWait BY <1>12 DEF D!MakeWait, D!queueVars, D!Place
<1>13. CASE D!Look
  <2>1. deadline' \in Nat \cup {D!Never} BY <1>13 DEF D!Look
  <2> QED BY <1>13, <2>1 DEF D!Look, D!queueVars, D!Place
<1>14. CASE D!Sleep BY <1>14 DEF D!Sleep, D!queueVars, D!Place
<1>15. CASE D!Timer BY <1>15 DEF D!Timer, D!queueVars, D!Place
<1>16. CASE D!EndPass BY <1>16 DEF D!EndPass, D!queueVars, D!Place
<1>17. CASE D!Disconnect BY <1>17 DEF D!Disconnect, D!Tries, D!Owes, D!Place, D!Status
<1>18. CASE D!Tick
  <2>1. due' \in [Item -> Nat] /\ deadline' \in Nat \cup {D!Never} BY <1>18, LessType DEF D!Tick
  <2> QED BY <1>18, <2>1 DEF D!Tick
<1>19. CASE UNCHANGED schedVars BY <1>19 DEF schedVars, D!queueVars, D!waitVars
<1> QED
  BY <1>1, <1>3, <1>4, <1>5, <1>6, <1>7, <1>8, <1>9, <1>10, <1>11, <1>12, <1>13, <1>14, <1>15, <1>16,
     <1>17, <1>18, <1>19
  DEF D!SchedNext, D!Wait

-----------------------------------------------------------------------------
(* What could be started, and what the session knows of it.                *)

(* A step that leaves the queue as it was offers nothing new to start; one *)
(* that registers a task offers less.                                      *)
LEMMA SameChoice ==
  ASSUME UNCHANGED <<status, limit, held, paused>>, writers \subseteq writers', NEW t
  PROVE  (D!Queued(t)' => D!Queued(t)) /\ (D!Retrying(t)' => D!Retrying(t))
BY DEF D!Queued, D!Retrying, D!Free, D!Active

(* Whoever owes a notification keeps the session from being quiet.         *)
LEMMA OwingStep ==
  ASSUME SchedInv, D!Owes, UNCHANGED permit, loop' = "asleep" => loop = "asleep"
  PROVE  WaitInv'
BY DEF SchedInv, D!SchedTypeOK, WaitInv, D!Owes, Quiet

(* A notification wakes the session, or waits for it as a permit.          *)
LEMMA NotifiedStep ==
  ASSUME SchedInv, D!Notified
  PROVE  WaitInv'
<1>1. CASE loop' = "awake" BY <1>1 DEF WaitInv
<1>2. CASE loop # "asleep" /\ loop' = loop /\ permit' BY <1>2 DEF WaitInv, Quiet
<1> QED BY <1>1, <1>2 DEF D!Notified

LEMMA SchedStep ==
  ASSUME SchedInv, D!SchedTypeOK', [D!SchedNext]_schedVars
  PROVE  WaitInv'
<1> USE DEF SchedInv
<1>1. ASSUME UNCHANGED <<status, limit, held, paused, D!waitVars, owed>>, writers \subseteq writers',
             UNCHANGED due
      PROVE  WaitInv'
  <2>1. UNCHANGED <<permit, loop, flag, deadline>> BY <1>1 DEF D!waitVars
  <2>2. Quiet' => Quiet BY <1>1, <2>1 DEF Quiet, D!Open
  <2>3. \A t \in Item : (D!Queued(t)' => D!Queued(t)) /\ (D!Retrying(t)' => D!Retrying(t))
    BY <1>1, SameChoice
  <2> QED BY <1>1, <2>1, <2>2, <2>3 DEF WaitInv
<1>2. ASSUME UNCHANGED <<D!queueVars, owed>>
      PROVE  /\ \A t \in Item : (D!Queued(t)' => D!Queued(t)) /\ (D!Retrying(t)' => D!Retrying(t))
             /\ D!Open' = D!Open /\ UNCHANGED <<due, owed, held, paused>>
  <2>1. UNCHANGED <<status, limit, held, paused, writers, due>> BY <1>2 DEF D!queueVars
  <2>2. \A t \in Item : (D!Queued(t)' => D!Queued(t)) /\ (D!Retrying(t)' => D!Retrying(t))
    BY <2>1, SameChoice
  <2> QED BY <1>2, <2>1, <2>2 DEF D!Open
<1>3. CASE D!MakeWait
  <2>1. loop' = "waits" /\ loop = "begins" /\ (Quiet' => Quiet /\ ~flag')
    BY <1>2, <1>3 DEF D!MakeWait, Quiet, D!Open
  <2> QED BY <1>2, <1>3, <2>1 DEF D!MakeWait, WaitInv
<1>4. CASE D!Look
  <2>1. loop = "waits" /\ loop' = "looked" /\ UNCHANGED <<D!queueVars, permit, flag, owed>>
    BY <1>4 DEF D!Look
  <2>2. Quiet' => Quiet BY <1>2, <2>1 DEF Quiet
  <2>3. ASSUME Quiet, NEW t \in Item, D!Retrying(t)
        PROVE  deadline' # D!Never /\ deadline' <= due[t]
    <3>1. ~flag /\ ~held BY <2>1, <2>3 DEF WaitInv, Quiet, D!Open
    <3>2. PICK r \in Item : /\ \A x \in Item : D!Retrying(x) => due[r] <= due[x]
                                /\ deadline' = due[r]
      BY <1>4, <2>3, <3>1 DEF D!Look
    <3>3. due[r] \in Nat BY DEF D!SchedTypeOK
    <3> QED BY <2>3, <3>2, <3>3 DEF D!Never
  <2> QED BY <1>2, <2>1, <2>2, <2>3 DEF WaitInv
<1>5. CASE D!Sleep
  <2>1. loop = "looked" /\ UNCHANGED <<D!queueVars, flag, deadline, owed>> BY <1>5 DEF D!Sleep
  <2>2. CASE loop' = "awake" BY <2>2 DEF WaitInv
  <2>3. CASE ~permit /\ loop' = "asleep" /\ UNCHANGED permit
    <3>1. Quiet' => Quiet BY <1>2, <2>1, <2>3 DEF Quiet
    <3> QED BY <1>2, <2>1, <2>3, <3>1 DEF WaitInv
  <2> QED BY <1>5, <2>2, <2>3 DEF D!Sleep
<1>6. CASE D!Timer BY <1>6 DEF D!Timer, WaitInv
<1>7. CASE D!EndPass
  <2>1. loop' = "begins" /\ UNCHANGED <<D!queueVars, permit, owed>> BY <1>7 DEF D!EndPass
  <2>2. ASSUME Quiet', NEW t \in Item PROVE ~D!Queued(t)'
    BY <1>2, <1>7, <2>1, <2>2 DEF D!EndPass, Quiet, D!Available
  <2> QED BY <2>1, <2>2 DEF WaitInv
<1>8. CASE D!Tick
  <2>1. /\ UNCHANGED <<status, writers, limit, held, paused, permit, owed, loop, flag>>
        /\ \A t \in Item : due'[t] = D!Less(due[t])
        /\ deadline' = D!Less(deadline)
    BY <1>8 DEF D!Tick
  <2>2. Quiet' => Quiet BY <2>1 DEF Quiet, D!Open
  <2>3. \A t \in Item : (D!Queued(t)' => D!Queued(t)) /\ (D!Retrying(t)' => D!Retrying(t))
    BY <2>1, SameChoice
  <2>4. ASSUME NEW t \in Item, deadline # D!Never, deadline <= due[t]
        PROVE  deadline' # D!Never /\ deadline' <= due'[t]
    BY <2>1, <2>4, LessType DEF D!SchedTypeOK
  <2> QED BY <2>1, <2>2, <2>3, <2>4 DEF WaitInv
<1>9. CASE D!BeginPassage
  BY <1>9 DEF D!BeginPassage, WaitInv, Quiet, D!Open, D!waitVars, D!SchedTypeOK
<1>10. CASE D!Connect BY <1>10 DEF D!Connect, WaitInv, Quiet
<1>11. CASE D!Disconnect BY <1>11, OwingStep DEF D!Disconnect
<1>12. ASSUME NEW t \in Item, D!RegisterTask(t) PROVE WaitInv'
  BY <1>1, <1>12 DEF D!RegisterTask
<1>13. CASE UNCHANGED schedVars BY <1>1, <1>13 DEF schedVars, D!waitVars
<1>14. ASSUME NEW t \in Item,
              D!UnregisterTask(t) \/ D!Activate(t) \/ \E s \in D!Status, d \in 0 .. MaxDue : D!Mutate(t, s, d)
       PROVE  WaitInv'
  BY <1>14, OwingStep, NotifiedStep DEF D!UnregisterTask, D!Activate, D!Mutate, D!waitVars
<1>15. CASE (\E n \in 1 .. MaxLimit : D!SetLimit(n)) \/ D!SetPaused \/ D!CancelPassage \/ D!Changed
  BY <1>15, OwingStep, NotifiedStep DEF D!SetLimit, D!SetPaused, D!CancelPassage, D!Changed, D!waitVars
<1> QED
  BY <1>3, <1>4, <1>5, <1>6, <1>7, <1>8, <1>9, <1>10, <1>11, <1>12, <1>13, <1>14, <1>15
  DEF D!SchedNext, D!Wait

-----------------------------------------------------------------------------
(* The other part of MCPassage leaves the scheduler as it is.              *)
LEMMA PassageSteps ==
  ASSUME [TasksNext \/ SchedulerNext]_allVars
  PROVE  [D!SchedNext]_schedVars
BY DEF TasksNext, OfTasks, SchedulerNext, OfScheduler, allVars

LEMMA AlwaysSched ==
  ASSUME MaxDue \in Nat, MaxLimit \in Nat
  PROVE  WaitsSpec => []SchedInv
<1>1. PassageInit => SchedInv BY SchedInitInv DEF PassageInit
<1>2. SchedInv /\ [TasksNext \/ SchedulerNext]_allVars => SchedInv'
  BY PassageSteps, SchedStepType, SchedStep DEF SchedInv
<1> QED BY <1>1, <1>2, PTL DEF WaitsSpec

(* Every variable of the scheduler keeps its type, for any bounds on       *)
(* delays and limits.                                                      *)
THEOREM SchedTypeCorrect ==
  ASSUME MaxDue \in Nat, MaxLimit \in Nat
  PROVE  WaitsSpec => []D!SchedTypeOK
<1>1. SchedInv => D!SchedTypeOK BY DEF SchedInv
<1> QED BY <1>1, AlwaysSched, PTL

(* No wakeup is lost: a session sleeps only while nothing queued could be  *)
(* started, and no longer than until the first retry is due, however       *)
(* changes, their notifications and its own look at the queue interleave.  *)
THEOREM NoWakeupIsLost ==
  ASSUME MaxDue \in Nat, MaxLimit \in Nat
  PROVE  WaitsSpec => []NothingIsSleptThrough
<1>1. SchedInv => NothingIsSleptThrough
  BY DEF SchedInv, WaitInv, NothingIsSleptThrough, D!NothingIsSleptThrough, Quiet
<1> QED BY <1>1, AlwaysSched, PTL
=============================================================================
