-------------------------- MODULE DownloadScheduler --------------------------
(***************************************************************************)
(* When the session looks for a download to start (download_scheduler.rs,  *)
(* scheduling_changed of downloads.rs, the loop of service/session.rs).    *)
(* Whoever changes what could be started does so under one lock and        *)
(* notifies the session afterwards; a notification is kept as one permit.  *)
(* The session sleeps on that permit and on the earliest retry, as both    *)
(* were when it last looked.                                               *)
(***************************************************************************)
EXTENDS Integers, FiniteSets

CONSTANTS
  Transfer, SourceOf,
  MaxDue,      \* the longest delay of a retry, in steps of time
  MaxLimit,    \* bound on max_concurrent_downloads
  MaxTries,    \* bound on the changes from outside
  MaxOwed      \* bound on the handlers between a change and its notification

VARIABLES
  status,    \* TransferStatus, as far as the scheduler tells apart
  due,       \* time to retry_at_ms
  writers,   \* the transfers with a registered task
  limit, held, paused,   \* max_concurrent_downloads, Safe Passage, bandwidth
  permit,    \* the permit of Notify
  owed,      \* handlers that have changed something and not notified yet
  loop,      \* where the loop of the session is
  flag,      \* bandwidth_paused of the wait
  deadline,  \* the time the wait sleeps at most, or Never
  tries      \* changes so far

queueVars == <<status, due, writers, limit, held, paused>>
waitVars == <<permit, loop, flag, deadline>>
schedVars == <<queueVars, waitVars, owed, tries>>

Never == -1
Status == {"other", "queued", "retrying", "active"}
Place == {"down", "begins", "waits", "looked", "asleep", "awake"}

SchedInit ==
  /\ status \in [Transfer -> {"other", "queued", "retrying"}]
  /\ due = [t \in Transfer |-> 0]
  /\ writers = {} /\ limit \in 1 .. MaxLimit /\ held = FALSE /\ paused \in BOOLEAN
  /\ permit = FALSE /\ owed = 0 /\ tries = 0
  /\ loop = "down" /\ flag = FALSE /\ deadline = Never

Active == {t \in Transfer : status[t] = "active"}
Free(t) ==
  /\ Cardinality(Active) < limit
  /\ t \notin writers
  /\ \A a \in Active : SourceOf[a] # SourceOf[t]
Queued(t) == status[t] = "queued" /\ Free(t)
Retrying(t) == status[t] = "retrying" /\ Free(t)
Available(t) == Queued(t) \/ (Retrying(t) /\ due[t] = 0)
Open == ~held /\ ~paused

-----------------------------------------------------------------------------
(* notify_one: a waiter that is registered is woken, or the permit kept.   *)
Notified ==
  IF loop = "asleep" THEN loop' = "awake" /\ UNCHANGED <<permit, flag, deadline>>
  ELSE permit' = TRUE /\ UNCHANGED <<loop, flag, deadline>>
ChangedNobody == \* mutant: notify_waiters, which keeps no permit
  /\ owed > 0 /\ owed' = owed - 1
  /\ loop' = IF loop = "asleep" THEN "awake" ELSE loop
  /\ UNCHANGED <<queueVars, permit, flag, deadline, tries>>

Owes == owed < MaxOwed /\ owed' = owed + 1
Tries == tries < MaxTries /\ tries' = tries + 1

(* mutate and persist_and_publish: any transfer, by any handler.           *)
Mutate(t, s, d) ==
  /\ Tries /\ Owes
  /\ status' = [status EXCEPT ![t] = s] /\ due' = [due EXCEPT ![t] = d]
  /\ UNCHANGED <<writers, limit, held, paused, waitVars>>

(* apply_settings and bandwidth_changed                                    *)
SetLimit(n) ==
  Tries /\ Owes /\ limit' = n /\ UNCHANGED <<status, due, writers, held, paused, waitVars>>
SetPaused ==
  Tries /\ Owes /\ paused' = ~paused /\ UNCHANGED <<status, due, writers, limit, held, waitVars>>

(* Safe Passage: what it does to the transfers is a Mutate.                *)
BeginPassage ==
  /\ Tries /\ held' = TRUE
  /\ UNCHANGED <<status, due, writers, limit, paused, waitVars, owed>>
CancelPassage ==
  Tries /\ Owes /\ held' = FALSE /\ UNCHANGED <<status, due, writers, limit, paused, waitVars>>

RegisterTask(t) ==
  /\ status[t] = "active" /\ writers' = writers \cup {t}
  /\ UNCHANGED <<status, due, limit, held, paused, waitVars, owed, tries>>
(* unregister_task notifies before it unlocks the map.                     *)
UnregisterTask(t) ==
  /\ t \in writers /\ writers' = writers \ {t} /\ Notified
  /\ UNCHANGED <<status, due, limit, held, paused, owed, tries>>

Changed == owed > 0 /\ owed' = owed - 1 /\ Notified /\ UNCHANGED <<queueVars, tries>>

-----------------------------------------------------------------------------
(* A session comes online: on_connected of the transfers, then its loop.   *)
Connect ==
  /\ loop = "down" /\ loop' = "begins" /\ permit' = TRUE
  /\ UNCHANGED <<queueVars, flag, deadline, owed, tries>>

(* The wait is made with what bandwidth.paused says now ...                *)
MakeWait ==
  /\ loop = "begins" /\ loop' = "waits" /\ flag' = paused
  /\ UNCHANGED <<queueVars, permit, deadline, owed, tries>>

(* ... and looks for the first retry when it is polled, or for none.       *)
Look ==
  /\ loop = "waits" /\ loop' = "looked"
  /\ IF flag \/ held \/ ~\E t \in Transfer : Retrying(t)
     THEN deadline' = Never
     ELSE \E t \in Transfer :
            /\ Retrying(t) /\ \A r \in Transfer : Retrying(r) => due[t] <= due[r]
            /\ deadline' = due[t]
  /\ UNCHANGED <<queueVars, permit, flag, owed, tries>>

SleepAnyway == \* mutant: the permit of an earlier notification is not taken
  /\ loop = "looked" /\ loop' = "asleep" /\ UNCHANGED <<queueVars, permit, flag, deadline, owed, tries>>
(* notified() takes the permit, unless sleep(0) is polled first.           *)
Sleep ==
  /\ loop = "looked"
  /\ \/ permit /\ permit' = FALSE /\ loop' = "awake"
     \/ ~permit /\ loop' = "asleep" /\ UNCHANGED permit
     \/ deadline = 0 /\ loop' = "awake" /\ UNCHANGED permit
  /\ UNCHANGED <<queueVars, flag, deadline, owed, tries>>

Timer ==
  /\ loop = "asleep" /\ deadline = 0 /\ loop' = "awake"
  /\ UNCHANGED <<queueVars, permit, flag, deadline, owed, tries>>

(* ScheduleDownloads: one transfer after the other, whenever somebody      *)
(* sends the command or the session wakes.                                 *)
Activate(t) ==
  /\ loop \in {"waits", "asleep", "awake"} /\ Open /\ Available(t)
  /\ status' = [status EXCEPT ![t] = "active"] /\ Owes
  /\ UNCHANGED <<due, writers, limit, held, paused, waitVars, tries>>
EndPass ==
  /\ loop = "awake" /\ ~(Open /\ \E t \in Transfer : Available(t))
  /\ loop' = "begins"
  /\ UNCHANGED <<queueVars, permit, flag, deadline, owed, tries>>

(* The session ends wherever it is: connection_lost requeues what it had.  *)
Disconnect ==
  /\ Tries /\ Owes /\ loop # "down" /\ loop' = "down"
  /\ status' = [t \in Transfer |-> IF status[t] = "active" THEN "queued" ELSE status[t]]
  /\ UNCHANGED <<due, writers, limit, held, paused, permit, flag, deadline>>

Less(n) == IF n > 0 THEN n - 1 ELSE n
Tick ==
  /\ \E t \in Transfer : due[t] > 0
  /\ due' = [t \in Transfer |-> Less(due[t])] /\ deadline' = Less(deadline)
  /\ UNCHANGED <<status, writers, limit, held, paused, permit, owed, loop, flag, tries>>

Wait == MakeWait \/ Look \/ Sleep \/ Timer
Pass == EndPass \/ (loop = "awake" /\ \E t \in Transfer : Activate(t))
SchedNext ==
  \/ \E t \in Transfer :
       \/ \E s \in Status, d \in 0 .. MaxDue : Mutate(t, s, d)
       \/ RegisterTask(t) \/ UnregisterTask(t) \/ Activate(t)
  \/ \E n \in 1 .. MaxLimit : SetLimit(n)
  \/ SetPaused \/ BeginPassage \/ CancelPassage
  \/ Changed \/ Connect \/ Wait \/ EndPass \/ Disconnect \/ Tick

SchedSpec == SchedInit /\ [][SchedNext]_schedVars

-----------------------------------------------------------------------------
SchedTypeOK ==
  /\ status \in [Transfer -> Status] /\ due \in [Transfer -> Nat]
  /\ writers \subseteq Transfer
  /\ limit \in Nat /\ held \in BOOLEAN /\ paused \in BOOLEAN
  /\ permit \in BOOLEAN /\ owed \in Nat /\ tries \in Nat
  /\ loop \in Place /\ flag \in BOOLEAN /\ deadline \in Nat \cup {Never}

(* The session does not sleep through anything: while it sleeps and nobody *)
(* is about to notify it, no queued transfer could be started, and it      *)
(* wakes no later than the first retry that could (download_scheduler.rs   *)
(* "coalesce without lost wakeups").                                       *)
NothingIsSleptThrough ==
  loop = "asleep" /\ owed = 0 /\ Open =>
    \A t \in Transfer :
      /\ ~Queued(t)
      /\ Retrying(t) => deadline # Never /\ deadline <= due[t]

(* A transfer that could be started is, unless something else changes what *)
(* could be: no queue waits for ever beside a free lane.                   *)
StartableIsStarted ==
  \A t \in Transfer :
    (loop # "down" /\ Open /\ Available(t))
      ~> (loop = "down" \/ ~Open \/ ~Available(t))
=============================================================================
