------------------------- MODULE AccessSyncScheduler --------------------------
(***************************************************************************)
(* The scheduler of the Cloudflare Access sync                             *)
(* (backend/src/services/accessSync/scheduler.js): one chain of operations *)
(* in the process, on which runs of the sync and saves of its settings     *)
(* follow one another, fed by a debounce timer, an hourly interval, the    *)
(* retry timer of a failed run, and the screen's button.                   *)
(*                                                                         *)
(* What a run does to users and to the policy is AccessSync's subject;     *)
(* here it reads the users at some moment and answers.                     *)
(***************************************************************************)
EXTENDS Naturals, Sequences

CONSTANTS
  MaxRetries,   \* retries in a row a retriable failure gets (RETRY_DELAYS_MS.length)
  MaxFaults,    \* bound: runs that fail or throw, saves that throw, stops and crashes
  MaxSaves      \* bound: saves of the settings

ASSUME RetriesAssumption == MaxRetries \in Nat
ASSUME BudgetAssumption == MaxFaults \in Nat /\ MaxSaves \in Nat

VARIABLES
  started,    \* the interval timer is set
  debounce,   \* the debounce timer is set
  retry,      \* the retry timer is set
  chain,      \* the operations behind tail that have not begun, oldest first
  queuedRun,  \* queuedRun is set: a run waits in the chain
  trigger,    \* of the run that waits, or else of the one under way: is it a retry
  current,    \* the operation under way
  canRetry,   \* as the run under way was told when it began
  attempt,    \* retryAttempt of the stored state (settings.js)
  unserved,   \* history: a user changed and no run has begun since
  watched,    \* history: one change to a user, any of them, and whether a run has synced it
  read,       \* history: the run under way has read the users, before or after the watched change
  owed,       \* history: the last run to answer named a retry, and no run has begun since
  faults, saves

timers == <<started, debounce, retry>>
schedulerHistory == <<unserved, watched, read, owed>>
budget == <<faults, saves>>
schedulerVars == <<timers, chain, queuedRun, trigger, current, canRetry, attempt, schedulerHistory, budget>>

Triggers == {"retry", "other"}
Operations == {"run", "save"}

SchedulerTypeOK ==
  /\ timers \in BOOLEAN \X BOOLEAN \X BOOLEAN
  /\ chain \in Seq(Operations)
  /\ queuedRun \in BOOLEAN
  /\ trigger \in [waiting: Triggers, running: Triggers]
  /\ current \in Operations \cup {"none"}
  /\ canRetry \in BOOLEAN
  /\ attempt \in 0..MaxRetries
  /\ schedulerHistory \in BOOLEAN \X {"ahead", "made", "synced"} \X {"no", "before", "after"} \X BOOLEAN
  /\ budget \in (0..MaxFaults) \X (0..MaxSaves)

SchedulerInit ==
  /\ started = FALSE /\ debounce = FALSE /\ retry = FALSE
  /\ chain = <<>>
  /\ queuedRun = FALSE
  /\ trigger = [waiting |-> "other", running |-> "other"]
  /\ current = "none"
  /\ canRetry = FALSE
  /\ attempt = 0
  /\ unserved = FALSE /\ watched = "ahead" /\ read = "no" /\ owed = FALSE
  /\ faults = 0 /\ saves = 0

Fault == faults < MaxFaults /\ faults' = faults + 1

-------------------------------------------------------------------------------
(* Asking for a run *)

\* exclusive: op goes behind everything queued before it
Exclusive(op) == chain' = Append(chain, op)

\* queueRun: a run that has not begun serves every later request
QueueRun(t) ==
  IF queuedRun
  THEN UNCHANGED <<chain, queuedRun, trigger>>
  ELSE /\ Exclusive("run")
       /\ queuedRun' = TRUE
       /\ trigger' = [trigger EXCEPT !.waiting = t]

\* request: ignored before start; otherwise the debounce timer starts anew
Requested == debounce \/ started

\* An administrator or a sign-in changes who may come in, then asks for a run.
ChangeUser ==
  /\ unserved' = TRUE
  /\ watched' \in {watched, IF watched = "ahead" THEN "made" ELSE watched}
  /\ debounce' = Requested
  /\ UNCHANGED <<started, retry, chain, queuedRun, trigger, current, canRetry, attempt, read, owed, budget>>

DebounceFires ==
  /\ debounce
  /\ debounce' = FALSE
  /\ QueueRun("other")
  /\ UNCHANGED <<started, retry, current, canRetry, attempt, schedulerHistory, budget>>

IntervalFires ==
  /\ started
  /\ QueueRun("other")
  /\ UNCHANGED <<timers, current, canRetry, attempt, schedulerHistory, budget>>

RetryFires ==
  /\ retry
  /\ retry' = FALSE
  /\ QueueRun("retry")
  /\ UNCHANGED <<started, debounce, current, canRetry, attempt, schedulerHistory, budget>>

\* runNow: the screen's button, and the job a panel CLI queued; works before start too
RunNow ==
  /\ debounce' = FALSE
  /\ QueueRun("other")
  /\ UNCHANGED <<started, retry, current, canRetry, attempt, schedulerHistory, budget>>

\* applyAccessSyncConfig, up to the turn of its save
AskForSave ==
  /\ saves < MaxSaves
  /\ saves' = saves + 1
  /\ Exclusive("save")
  /\ UNCHANGED <<timers, queuedRun, trigger, current, canRetry, attempt, schedulerHistory, faults>>

-------------------------------------------------------------------------------
(* The chain *)

\* queuedRun is cleared as the run begins: whoever asks from now on gets another one.
RunTakenSlip == queuedRun
RunTaken == FALSE
BeginQueuedRun ==
  /\ current = "none"
  /\ chain # <<>>
  /\ Head(chain) = "run"
  /\ chain' = Tail(chain)
  /\ current' = "run"
  /\ queuedRun' = RunTaken
  /\ trigger' = [trigger EXCEPT !.running = trigger.waiting]
  /\ canRetry' = started
  /\ unserved' = FALSE
  /\ owed' = FALSE
  /\ UNCHANGED <<timers, attempt, watched, read, budget>>

BeginSave ==
  /\ current = "none"
  /\ chain # <<>>
  /\ Head(chain) = "save"
  /\ chain' = Tail(chain)
  /\ current' = "save"
  /\ UNCHANGED <<timers, queuedRun, trigger, canRetry, attempt, schedulerHistory, budget>>

\* The run reads the users (runner.js).
RunReadsUsers ==
  /\ current = "run"
  /\ read = "no"
  /\ read' = IF watched = "made" THEN "after" ELSE "before"
  /\ UNCHANGED <<timers, chain, queuedRun, trigger, current, canRetry, attempt, unserved, watched, owed, budget>>

\* scheduleRetry: the timer of an earlier run goes whatever this one answers
RetryTimerSlip(named) == started /\ named /\ ~ retry
RetryTimer(named) == started /\ named

\* The retry a retriable failure gets (fail, retryDelayMs); 0 when it gets none. A Retry-After
\* beyond the hour, which also gets none, is a failure that is not retriable.
Failures == IF trigger.running = "retry" THEN attempt + 1 ELSE 1
NextAttempt ==
  IF canRetry /\ Failures <= MaxRetries THEN Failures ELSE 0

Answered(next) ==
  /\ current = "run"
  /\ current' = "none"
  /\ attempt' = next
  /\ retry' = RetryTimer(next > 0)
  /\ owed' = (next > 0)
  /\ read' = "no"
  /\ UNCHANGED <<started, debounce, chain, queuedRun, trigger, canRetry, unserved>>

RunSucceeds ==
  /\ read # "no"
  /\ Answered(0)
  /\ watched' = IF read = "after" THEN "synced" ELSE watched
  /\ UNCHANGED budget

RunFails == Fault /\ Answered(0) /\ UNCHANGED <<watched, saves>>

RunFailsRetriably == Fault /\ Answered(NextAttempt) /\ UNCHANGED <<watched, saves>>

\* The database fails a run: it rejects, and no answer replaces the retry timer.
RunThrows ==
  /\ Fault
  /\ current = "run"
  /\ current' = "none"
  /\ read' = "no"
  /\ UNCHANGED <<timers, chain, queuedRun, trigger, canRetry, attempt, unserved, watched, owed, saves>>

\* The settings are stored; when the sync is on, the save asks for a run.
SaveEnds ==
  /\ current = "save"
  /\ current' = "none"
  /\ debounce' \in {debounce, Requested}
  /\ UNCHANGED <<started, retry, chain, queuedRun, trigger, canRetry, attempt, schedulerHistory, budget>>

\* tail swallows the error: the chain goes on
SaveThrows ==
  /\ Fault
  /\ current = "save"
  /\ current' = "none"
  /\ UNCHANGED <<timers, chain, queuedRun, trigger, canRetry, attempt, schedulerHistory, saves>>

-------------------------------------------------------------------------------
(* The process *)

StartRequestSlip == debounce
StartRequest == TRUE
Start ==
  /\ ~ started
  /\ started' = TRUE
  /\ debounce' = StartRequest
  /\ UNCHANGED <<retry, chain, queuedRun, trigger, current, canRetry, attempt, schedulerHistory, budget>>

\* stop clears the timers; what is in the chain still runs
Stop ==
  /\ Fault
  /\ started
  /\ started' = FALSE /\ debounce' = FALSE /\ retry' = FALSE
  /\ UNCHANGED <<chain, queuedRun, trigger, current, canRetry, attempt, schedulerHistory, saves>>

\* The process dies: the timers and the chain go with it, the stored state stays.
Crash ==
  /\ Fault
  /\ started' = FALSE /\ debounce' = FALSE /\ retry' = FALSE
  /\ chain' = <<>>
  /\ queuedRun' = FALSE
  /\ trigger' = [waiting |-> "other", running |-> "other"]
  /\ current' = "none"
  /\ canRetry' = FALSE
  /\ read' = "no"
  /\ owed' = FALSE
  /\ UNCHANGED <<attempt, unserved, watched, saves>>

BeginOperation == BeginQueuedRun \/ BeginSave

\* The operation under way comes to its end, well or badly.
EndOperation ==
  RunSucceeds \/ RunFails \/ RunFailsRetriably \/ RunThrows \/ SaveEnds \/ SaveThrows

SchedulerNext ==
  \/ ChangeUser \/ DebounceFires \/ IntervalFires \/ RetryFires \/ RunNow \/ AskForSave
  \/ BeginOperation \/ RunReadsUsers \/ EndOperation
  \/ Start \/ Stop \/ Crash

SchedulerSpec == SchedulerInit /\ [][SchedulerNext]_schedulerVars

\* Timers fire, the event loop gets to the next operation, and an operation ends: a run's calls
\* have time limits. A run that has read the users goes on to its answer. Which answer is left
\* open, but failures are bounded: Cloudflare and the database come back.
Fairness ==
  /\ WF_schedulerVars(DebounceFires)
  /\ WF_schedulerVars(IntervalFires)
  /\ WF_schedulerVars(BeginOperation)
  /\ WF_schedulerVars(RunReadsUsers)
  /\ WF_schedulerVars(EndOperation)
  /\ WF_schedulerVars(Start)

LiveSpec == SchedulerSpec /\ Fairness

-------------------------------------------------------------------------------
(* Properties *)

\* A started scheduler never sits on a change: as long as no run has begun since the change, the
\* debounce timer is set or a run waits in the chain, whatever the button, the retries, the
\* saves and the restarts did to the timers meanwhile (scheduler.js request, queueRun, runNow).
RunWaits == \E i \in DOMAIN chain : chain[i] = "run"
ChangeHasARunComing == started /\ unserved => debounce \/ RunWaits

\* A retry the last answer named is not forgotten: until a run has begun, its timer is set or a
\* run that takes its place is coming (scheduleRetry, and "whatever run ends next").
OwedRetryIsKept == started /\ owed => retry \/ debounce \/ RunWaits

\* Every change is at last part of a run that succeeded, even when requests never stop coming and
\* keep pushing the debounce timer back: the interval does not wait for them.
ChangeIsSynced == watched = "made" ~> watched = "synced"
===============================================================================
