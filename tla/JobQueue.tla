------------------------------- MODULE JobQueue -------------------------------
(***************************************************************************)
(* The durable job queue of backend/src/services/jobQueue.js: the table    *)
(* jobs, the worker processes that claim its rows, the runs of a claimed   *)
(* job, and the clients that enqueue, cancel and reschedule.               *)
(*                                                                         *)
(* A row is a record; every SQL UPDATE of the code is one operator from    *)
(* the row before to the row after, used by the action that issues it.     *)
(* A run is one call of runJob: it is named by the job and the claim token *)
(* it was given, because the token is all that ties the two together.      *)
(*                                                                         *)
(* The handler is any handler that keeps the queue's contract: it calls    *)
(* markEffectStarted before its irreversible step (the effect), and only   *)
(* asks for a retry or a failure while it knows the effect did not happen. *)
(* The effect itself belongs to the outside world: once begun it may       *)
(* happen at any later time, also after the worker is gone.                *)
(***************************************************************************)
EXTENDS Integers, FiniteSets

CONSTANTS
  Jobs,            \* the jobs that can be enqueued
  Workers,         \* the backend processes, each with one job worker
  Claims,          \* the claim tokens one job can be given
  NoClaim,         \* claim_token NULL
  NoWorker,        \* the worker of a run that has none
  MaxAttempts,     \* max_attempts of every job
  Concurrency,     \* the slots of one worker
  MaxFaults,       \* bound: how often workers crash or are stopped
  MaxReschedules   \* bound: how often clients reschedule or resend

ASSUME NoClaimIsNoToken == NoClaim \notin Claims
ASSUME NoWorkerIsNoWorker == NoWorker \notin Workers
ASSUME MaxAttemptsPositive == MaxAttempts \in Nat \ {0}
ASSUME BoundsAreNaturals ==
  /\ Concurrency \in Nat
  /\ MaxFaults \in Nat
  /\ MaxReschedules \in Nat

VARIABLES
  jobs,         \* the table jobs
  runs,         \* runs[j][c]: the run of job j under claim token c
  workers,      \* up, stopping (stopJobWorker was called) or down
  consents,     \* history: how often someone asked for job j to run (enqueue, resend)
  undone,       \* history: jobs cancelled while they waited or had certainly failed
  faults,       \* bound counter
  reschedules   \* bound counter

vars == <<jobs, runs, workers, consents, undone, faults, reschedules>>

-------------------------------------------------------------------------------
(* Types *)

Statuses == {"absent", "queued", "running", "done", "failed", "cancelled",
             "needs_attention", "deleted"}

\* error_code, as far as the queue tells codes apart: the sweep's lease_expired, the code
\* a handler gave markEffectDone, any other code of a handler.
Codes == {"none", "lease_expired", "effect_done", "other"}

Row ==
  [status: Statuses,
   due: BOOLEAN,             \* run_at <= now()
   attempts: Nat,
   token: Claims \cup {NoClaim},
   lease: BOOLEAN,           \* lease_until >= now()
   effectStarted: BOOLEAN,   \* effect_started_at IS NOT NULL
   effectDone: BOOLEAN,      \* payload ? effectDoneCode
   code: Codes]

\* unused: the token was never given out.  claimed: the claim's reply is on its way to the
\* worker.  handling: the handler runs and its effect has not begun.  effect: markEffectStarted
\* came back.  settling: the handler threw.  ended: runJob returned, or its process died.
Stages == {"unused", "claimed", "handling", "effect", "settling", "ended"}

\* started: begun, outcome open.  happened: it happened and the handler does not know.
\* answered: it happened and the handler knows.  averted: it will never happen and the
\* handler knows.
Effects == {"none", "started", "happened", "answered", "averted"}

Outcomes == {"none", "retry", "fail", "needs_attention"}

Run ==
  [stage: Stages,
   worker: Workers \cup {NoWorker},
   consent: Nat,             \* history: the consent the claim was made under
   ran: BOOLEAN,             \* history: the handler was called
   effect: Effects,
   outcome: Outcomes,
   known: BOOLEAN]           \* the error's code is the one given to markEffectDone

TypeOK ==
  /\ jobs \in [Jobs -> Row]
  /\ runs \in [Jobs -> [Claims -> Run]]
  /\ workers \in [Workers -> {"up", "stopping", "down"}]
  /\ consents \in [Jobs -> Nat]
  /\ undone \in SUBSET Jobs
  /\ faults \in 0..MaxFaults
  /\ reschedules \in 0..MaxReschedules

NoRow == [status |-> "absent", due |-> FALSE, attempts |-> 0, token |-> NoClaim,
          lease |-> FALSE, effectStarted |-> FALSE, effectDone |-> FALSE, code |-> "none"]

NoRun == [stage |-> "unused", worker |-> NoWorker, consent |-> 0, ran |-> FALSE,
          effect |-> "none", outcome |-> "none", known |-> FALSE]

Init ==
  /\ jobs = [j \in Jobs |-> NoRow]
  /\ runs = [j \in Jobs |-> [c \in Claims |-> NoRun]]
  /\ workers = [w \in Workers |-> "up"]
  /\ consents = [j \in Jobs |-> 0]
  /\ undone = {}
  /\ faults = 0
  /\ reschedules = 0

-------------------------------------------------------------------------------
(* The rows: one operator for each UPDATE of the code. Operators named     *)
(* ...Slip are plausible mistakes in the one that follows them: each run   *)
(* of the checker shows that its property would notice the mistake.        *)

Unclaimed(row) == [row EXCEPT !.token = NoClaim, !.lease = FALSE]

\* enqueueJob: the undo window, or the time asked for, is still ahead.
Enqueued == [NoRow EXCEPT !.status = "queued"]

Cancelled(row) == [Unclaimed(row) EXCEPT !.status = "cancelled"]

\* rescheduleJob: a waiting job keeps its attempts and its error.
Rescheduled(row) ==
  [Unclaimed(row) EXCEPT
     !.status = "queued",
     !.due = FALSE,
     !.effectStarted = FALSE,
     !.effectDone = FALSE,
     !.attempts = IF row.status = "queued" THEN @ ELSE 0,
     !.code = IF row.status = "queued" THEN @ ELSE "none"]

\* claimDueJobs: every claim counts as an attempt.
Attempted(row) == [row EXCEPT !.attempts = @ + 1]
Claimed(row, c) ==
  [Attempted(row) EXCEPT !.status = "running", !.token = c, !.lease = TRUE,
                         !.effectStarted = FALSE]

\* releaseClaims: GREATEST(attempts - 1, 0)
AttemptGivenBack(row) == [row EXCEPT !.attempts = IF @ > 0 THEN @ - 1 ELSE 0]
Released(row) == [Unclaimed(AttemptGivenBack(row)) EXCEPT !.status = "queued"]

\* sweepExpiredLeases: the CASEs of its one UPDATE. A job queued again is due at once.
SweptStatusSlip(row) == IF row.attempts >= MaxAttempts THEN "failed" ELSE "queued"
SweptStatus(row) ==
  IF row.effectStarted THEN "needs_attention"
  ELSE IF row.attempts >= MaxAttempts THEN "failed" ELSE "queued"
SweptCodeSlip(row) == IF row.effectStarted THEN "effect_done" ELSE "lease_expired"
SweptCode(row) ==
  IF row.effectStarted /\ row.effectDone THEN "effect_done" ELSE "lease_expired"
Swept(row) ==
  [Unclaimed(row) EXCEPT !.status = SweptStatus(row),
                         !.due = (@ \/ ~row.effectStarted),
                         !.code = SweptCode(row)]

\* outcomeOf: a retry beyond max_attempts is a failure.
OutcomeOf(row, outcome) ==
  IF outcome = "retry" /\ row.attempts >= MaxAttempts THEN "fail" ELSE outcome

\* settleFailure: queued again after a backoff, or given up.
SettledStatus(verdict) == IF verdict = "fail" THEN "failed" ELSE "needs_attention"
Settled(row, outcome, code) ==
  LET verdict == OutcomeOf(row, outcome) IN
  IF verdict = "retry"
    THEN [Unclaimed(row) EXCEPT !.status = "queued", !.due = FALSE,
                                !.effectStarted = FALSE, !.code = code]
    ELSE [Unclaimed(row) EXCEPT !.status = SettledStatus(verdict), !.code = code]

\* ctx.complete
Completed(row) == [Unclaimed(row) EXCEPT !.status = "done", !.code = "none"]

-------------------------------------------------------------------------------
(* The runs and the slots they take *)

Alive(j, c) == runs[j][c].stage \in {"claimed", "handling", "effect", "settling"}

\* WHERE id = $1 AND status = 'running' AND claim_token = $2
HoldsClaimSlip(j, c) == jobs[j].status = "running" /\ c \in Claims
HoldsClaim(j, c) == jobs[j].status = "running" /\ jobs[j].token = c

\* The effect of the run happened, or is under way and may still happen.
Happened(j, c) == runs[j][c].effect \in {"happened", "answered"}
MayHappen(j, c) == Happened(j, c) \/ runs[j][c].effect = "started"

\* The runs of a worker (its set "running", and the jobs its claim in flight brings).
RunsOf(w) == {jc \in Jobs \X Claims : /\ Alive(jc[1], jc[2])
                                      /\ runs[jc[1]][jc[2]].worker = w}
ClaimInFlight(w) == {jc \in RunsOf(w) : runs[jc[1]][jc[2]].stage = "claimed"}
FreeSlots(w) == Concurrency - Cardinality(RunsOf(w))

EndedRun(run) ==
  [run EXCEPT !.stage = "ended", !.worker = NoWorker, !.outcome = "none", !.known = FALSE]

\* The runs once those of set R ended, whatever they had begun.
EndRuns(R) ==
  [j \in Jobs |-> [c \in Claims |->
     IF <<j, c>> \in R THEN EndedRun(runs[j][c]) ELSE runs[j][c]]]

\* randomUUID: a token no claim was given yet.
FreshToken(j) == CHOOSE c \in Claims : runs[j][c].stage = "unused"
HasFreshToken(j) == \E c \in Claims : runs[j][c].stage = "unused"

SetRow(j, row) == jobs' = [jobs EXCEPT ![j] = row]
SetRun(j, c, run) == runs' = [runs EXCEPT ![j][c] = run]

-------------------------------------------------------------------------------
(* Clients: routes and other services that call the queue *)

\* enqueueJob. A repeated dedupe_key finds the job already there and changes nothing.
EnqueueJob(j) ==
  /\ jobs[j].status = "absent"
  /\ SetRow(j, Enqueued)
  /\ consents' = [consents EXCEPT ![j] = @ + 1]
  /\ UNCHANGED <<runs, workers, undone, faults, reschedules>>

\* The statuses a caller may cancel from: the default, or sendQueue.js CANCELLABLE_STATUSES.
CancellableSlip == {"queued", "running", "failed", "needs_attention"}
Cancellable == {"queued", "failed", "needs_attention"}

\* cancelJob
CancelJob(j) ==
  /\ jobs[j].status \in Cancellable
  /\ SetRow(j, Cancelled(jobs[j]))
  /\ undone' = IF jobs[j].status = "needs_attention" THEN undone ELSE undone \cup {j}
  /\ UNCHANGED <<runs, workers, consents, faults, reschedules>>

\* rescheduleJob: a waiting job is moved; a failed one, or one that needs attention, runs
\* again because someone asked for it. Never one labelled as done (exceptErrorCodes).
RescheduleJob(j) ==
  /\ reschedules < MaxReschedules
  /\ jobs[j].status \in Cancellable
  /\ jobs[j].code # "effect_done"
  /\ SetRow(j, Rescheduled(jobs[j]))
  /\ consents' = [consents EXCEPT ![j] = IF jobs[j].status = "queued" THEN @ ELSE @ + 1]
  /\ reschedules' = reschedules + 1
  /\ UNCHANGED <<runs, workers, undone, faults>>

\* failJobsOfDeletedAccount, for the jobs S of a deleted mailbox: one UPDATE, which leaves a
\* kept job as it is.
FailedWithAccount == {"queued"}
FailJobsOfDeletedAccount(S) ==
  /\ \E j \in S : jobs[j].status \in FailedWithAccount
  /\ jobs' = [j \in Jobs |->
                IF j \in S /\ jobs[j].status \in FailedWithAccount
                  THEN [Unclaimed(jobs[j]) EXCEPT !.status = "failed", !.code = "other"]
                  ELSE jobs[j]]
  /\ UNCHANGED <<runs, workers, consents, undone, faults, reschedules>>

\* cleanupFinishedJobs: the retention of a job at rest ran out.
CleanupFinishedJob(j) ==
  /\ jobs[j].status \in {"done", "cancelled", "failed", "needs_attention"}
  /\ SetRow(j, [NoRow EXCEPT !.status = "deleted"])
  /\ UNCHANGED <<runs, workers, consents, undone, faults, reschedules>>

-------------------------------------------------------------------------------
(* Time *)

\* run_at is reached.
ComesDue(j) ==
  /\ jobs[j].status = "queued"
  /\ ~jobs[j].due
  /\ SetRow(j, [jobs[j] EXCEPT !.due = TRUE])
  /\ UNCHANGED <<runs, workers, consents, undone, faults, reschedules>>

\* lease_until is reached: the worker died, or stalled past its heartbeats.
LeaseRunsOut(j) ==
  /\ jobs[j].status = "running"
  /\ jobs[j].lease
  /\ SetRow(j, [jobs[j] EXCEPT !.lease = FALSE])
  /\ UNCHANGED <<runs, workers, consents, undone, faults, reschedules>>

-------------------------------------------------------------------------------
(* The worker: tick, start and stop *)

\* sweepExpiredLeases: one UPDATE over every running row whose lease ran out.
ExpiredJobsSlip ==
  {j \in Jobs : jobs[j].status = "running" /\ ~jobs[j].lease /\ ~jobs[j].effectStarted}
ExpiredJobs == {j \in Jobs : jobs[j].status = "running" /\ ~jobs[j].lease}
SweepExpiredLeases(w) ==
  /\ workers[w] = "up"
  /\ ExpiredJobs # {}
  /\ jobs' = [j \in Jobs |-> IF j \in ExpiredJobs THEN Swept(jobs[j]) ELSE jobs[j]]
  /\ UNCHANGED <<runs, workers, consents, undone, faults, reschedules>>

\* runDueJobs up to the claim's commit. A tick that still waits for its claim lets no other
\* tick begin (ticking). Rows another worker is claiming are skipped, so any due jobs may be
\* the ones this claim brings.
DueJobs == {j \in Jobs : jobs[j].status = "queued" /\ jobs[j].due /\ HasFreshToken(j)}
ClaimDueJobs(w) ==
  /\ workers[w] = "up"
  /\ ClaimInFlight(w) = {}
  /\ \E S \in SUBSET DueJobs :
       /\ S # {}
       /\ Cardinality(S) <= FreeSlots(w)
       /\ jobs' = [j \in Jobs |->
                     IF j \in S THEN Claimed(jobs[j], FreshToken(j)) ELSE jobs[j]]
       /\ runs' = [j \in Jobs |->
                     IF j \in S
                       THEN [runs[j] EXCEPT ![FreshToken(j)] =
                               [NoRun EXCEPT !.stage = "claimed", !.worker = w,
                                             !.consent = consents[j]]]
                       ELSE runs[j]]
  /\ UNCHANGED <<workers, consents, undone, faults, reschedules>>

\* The claim's reply came: every job it brought is started (runJob up to the handler).
StartRuns(w) ==
  /\ workers[w] = "up"
  /\ ClaimInFlight(w) # {}
  /\ runs' = [j \in Jobs |-> [c \in Claims |->
                IF <<j, c>> \in ClaimInFlight(w)
                  THEN [runs[j][c] EXCEPT !.stage = "handling", !.ran = TRUE]
                  ELSE runs[j][c]]]
  /\ UNCHANGED <<jobs, workers, consents, undone, faults, reschedules>>

\* The claim's reply came while the worker was stopping: releaseClaims gives the jobs back.
ReleaseClaims(w) ==
  LET Mine(j) == \E c \in Claims : /\ <<j, c>> \in ClaimInFlight(w)
                                   /\ HoldsClaim(j, c)
                                   /\ ~jobs[j].effectStarted
  IN
  /\ workers[w] = "stopping"
  /\ ClaimInFlight(w) # {}
  /\ jobs' = [j \in Jobs |-> IF Mine(j) THEN Released(jobs[j]) ELSE jobs[j]]
  /\ runs' = EndRuns(ClaimInFlight(w))
  /\ UNCHANGED <<workers, consents, undone, faults, reschedules>>

\* The claim (or releaseClaims) committed, but its reply was an error: the jobs are nobody's
\* until their leases run out.
ClaimReplyLost(w) ==
  /\ ClaimInFlight(w) # {}
  /\ runs' = EndRuns(ClaimInFlight(w))
  /\ UNCHANGED <<jobs, workers, consents, undone, faults, reschedules>>

\* stopJobWorker
StopWorker(w) ==
  /\ workers[w] = "up"
  /\ faults < MaxFaults
  /\ workers' = [workers EXCEPT ![w] = "stopping"]
  /\ faults' = faults + 1
  /\ UNCHANGED <<jobs, runs, consents, undone, reschedules>>

\* The process is gone, and every run in it: the waiting time of stopJobWorker is over.
ExitWorker(w) ==
  /\ workers[w] = "stopping"
  /\ workers' = [workers EXCEPT ![w] = "down"]
  /\ runs' = EndRuns(RunsOf(w))
  /\ UNCHANGED <<jobs, consents, undone, faults, reschedules>>

CrashWorker(w) ==
  /\ workers[w] = "up"
  /\ faults < MaxFaults
  /\ workers' = [workers EXCEPT ![w] = "down"]
  /\ runs' = EndRuns(RunsOf(w))
  /\ faults' = faults + 1
  /\ UNCHANGED <<jobs, consents, undone, reschedules>>

\* startJobWorker, in the process the container runtime started again
StartWorker(w) ==
  /\ workers[w] = "down"
  /\ workers' = [workers EXCEPT ![w] = "up"]
  /\ UNCHANGED <<jobs, runs, consents, undone, faults, reschedules>>

-------------------------------------------------------------------------------
(* One run: runJob, its heartbeat and its ctx *)

\* renewLease, every JOB_HEARTBEAT_MS until runJob returns
RenewLease(j, c) ==
  /\ runs[j][c].stage \in {"handling", "effect", "settling"}
  /\ HoldsClaim(j, c)
  /\ ~jobs[j].lease
  /\ SetRow(j, [jobs[j] EXCEPT !.lease = TRUE])
  /\ UNCHANGED <<runs, workers, consents, undone, faults, reschedules>>

\* ctx.markEffectStarted: with the claim the effect begins, without it the run ends there.
MarkEffectStarted(j, c) ==
  /\ runs[j][c].stage = "handling"
  /\ IF HoldsClaim(j, c)
       THEN /\ SetRow(j, [jobs[j] EXCEPT !.effectStarted = TRUE])
            /\ SetRun(j, c, [runs[j][c] EXCEPT !.stage = "effect", !.effect = "started"])
       ELSE /\ SetRun(j, c, EndedRun(runs[j][c]))
            /\ UNCHANGED jobs
  /\ UNCHANGED <<workers, consents, undone, faults, reschedules>>

\* The mark was committed and its reply lost: the handler never begins the effect, and runJob
\* believes it was not marked.
MarkEffectReplyLost(j, c) ==
  /\ runs[j][c].stage = "handling"
  /\ HoldsClaim(j, c)
  /\ SetRow(j, [jobs[j] EXCEPT !.effectStarted = TRUE])
  /\ SetRun(j, c, [runs[j][c] EXCEPT !.stage = "settling", !.outcome = "retry"])
  /\ UNCHANGED <<workers, consents, undone, faults, reschedules>>

\* The outside world: the effect happens, whatever became of the run meanwhile.
EffectHappens(j, c) ==
  /\ runs[j][c].effect = "started"
  /\ SetRun(j, c, [runs[j][c] EXCEPT !.effect = "happened"])
  /\ UNCHANGED <<jobs, workers, consents, undone, faults, reschedules>>

\* The handler learns that it happened, or that it certainly will not.
EffectAnswered(j, c) ==
  /\ runs[j][c].stage = "effect"
  /\ \/ /\ runs[j][c].effect = "happened"
        /\ SetRun(j, c, [runs[j][c] EXCEPT !.effect = "answered"])
     \/ /\ runs[j][c].effect = "started"
        /\ SetRun(j, c, [runs[j][c] EXCEPT !.effect = "averted"])
  /\ UNCHANGED <<jobs, workers, consents, undone, faults, reschedules>>

\* ctx.markEffectDone: no claim check, so it reaches a row the sweep took meanwhile.
MarkEffectDone(j, c) ==
  /\ runs[j][c].stage = "effect"
  /\ runs[j][c].effect = "answered"
  /\ jobs[j].effectStarted
  /\ jobs[j].status \in {"running", "needs_attention"}
  /\ SetRow(j, [jobs[j] EXCEPT !.effectDone = TRUE])
  /\ UNCHANGED <<runs, workers, consents, undone, faults, reschedules>>

\* ctx.complete is called by a handler that has no effect, or whose effect happened.
MayCompleteSlip(j, c) == runs[j][c].stage \in {"handling", "effect"}
MayComplete(j, c) ==
  \/ runs[j][c].stage = "handling"
  \/ runs[j][c].stage = "effect" /\ runs[j][c].effect = "answered"

\* ctx.complete, and the end of runJob: done if the claim is still held, else nothing.
Complete(j, c) ==
  /\ MayComplete(j, c)
  /\ SetRow(j, IF HoldsClaim(j, c) THEN Completed(jobs[j]) ELSE jobs[j])
  /\ SetRun(j, c, EndedRun(runs[j][c]))
  /\ UNCHANGED <<workers, consents, undone, faults, reschedules>>

\* The errors a handler that keeps the contract can end with: once its effect began and was
\* not certainly averted, only one that needs attention. known: its code tells that the
\* effect happened.
Throwable(j, c) ==
  IF MayHappen(j, c)
    THEN [outcome : {"needs_attention"}, known : {FALSE, runs[j][c].effect = "answered"}]
    ELSE [outcome : {"retry", "fail", "needs_attention"}, known : {FALSE}]

\* The handler throws, or complete does while the database does not answer.
Throw(j, c) ==
  /\ runs[j][c].stage \in {"handling", "effect"}
  /\ \E error \in Throwable(j, c) :
       SetRun(j, c, [runs[j][c] EXCEPT !.stage = "settling", !.outcome = error.outcome,
                                       !.known = error.known])
  /\ UNCHANGED <<jobs, workers, consents, undone, faults, reschedules>>

\* complete committed and its reply was lost: runJob goes on to settle a job that is done.
CompleteReplyLost(j, c) ==
  /\ MayComplete(j, c)
  /\ HoldsClaim(j, c)
  /\ SetRow(j, Completed(jobs[j]))
  /\ SetRun(j, c, [runs[j][c] EXCEPT
                     !.stage = "settling",
                     !.outcome = IF runs[j][c].stage = "effect" THEN "needs_attention"
                                                                ELSE "retry"])
  /\ UNCHANGED <<workers, consents, undone, faults, reschedules>>

\* settleFailure
SettleFailure(j, c) ==
  LET code == IF runs[j][c].known THEN "effect_done" ELSE "other" IN
  /\ runs[j][c].stage = "settling"
  /\ SetRow(j, IF HoldsClaim(j, c) THEN Settled(jobs[j], runs[j][c].outcome, code)
                                   ELSE jobs[j])
  /\ SetRun(j, c, EndedRun(runs[j][c]))
  /\ UNCHANGED <<workers, consents, undone, faults, reschedules>>

\* settleWithRetry gave up: the job is left to the lease sweep.
SettleGivesUp(j, c) ==
  /\ runs[j][c].stage = "settling"
  /\ SetRun(j, c, EndedRun(runs[j][c]))
  /\ UNCHANGED <<jobs, workers, consents, undone, faults, reschedules>>

-------------------------------------------------------------------------------

ClientStep(j) ==
  \/ EnqueueJob(j)
  \/ CancelJob(j)
  \/ RescheduleJob(j)
  \/ CleanupFinishedJob(j)

TimeStep(j) == ComesDue(j) \/ LeaseRunsOut(j)

WorkerStep(w) ==
  \/ SweepExpiredLeases(w)
  \/ ClaimDueJobs(w)
  \/ StartRuns(w)
  \/ ReleaseClaims(w)
  \/ ClaimReplyLost(w)
  \/ StopWorker(w)
  \/ ExitWorker(w)
  \/ CrashWorker(w)
  \/ StartWorker(w)

RunStep(j, c) ==
  \/ RenewLease(j, c)
  \/ MarkEffectStarted(j, c)
  \/ MarkEffectReplyLost(j, c)
  \/ EffectHappens(j, c)
  \/ EffectAnswered(j, c)
  \/ MarkEffectDone(j, c)
  \/ Complete(j, c)
  \/ CompleteReplyLost(j, c)
  \/ Throw(j, c)
  \/ SettleFailure(j, c)
  \/ SettleGivesUp(j, c)

Next ==
  \/ \E j \in Jobs : ClientStep(j) \/ TimeStep(j)
  \/ \E S \in SUBSET Jobs : FailJobsOfDeletedAccount(S)
  \/ \E w \in Workers : WorkerStep(w)
  \/ \E j \in Jobs, c \in Claims : RunStep(j, c)

Spec == Init /\ [][Next]_vars

-------------------------------------------------------------------------------
(* Safety *)

\* A job's effect happens at most once for each time someone asked for it: two runs of a job
\* whose effect happened (or still may) were claimed under different consents, whatever
\* stalls, crashes, lost replies, sweeps and resends came between them.
\* (jobQueue.js:19-21, the guarantee of markEffectStarted)
AtMostOncePerConsent ==
  \A j \in Jobs : \A c, d \in Claims :
    c # d /\ MayHappen(j, c) /\ MayHappen(j, d) => runs[j][c].consent # runs[j][d].consent

\* A job taken back while it waited, or after it certainly failed, never has its effect
\* afterwards: no run still on its way under that consent can begin it.
\* (cancelJob, jobQueue.js:160-171: "a job a worker has already claimed is never cancelled")
UndoneNeverHappens ==
  \A j \in undone : \A c \in Claims :
    MayHappen(j, c) => runs[j][c].consent # consents[j]

\* A job listed as waiting or as failed has no effect under way: what runs by itself, and
\* what is offered to be sent again as unsent, was not sent.
\* (sweepExpiredLeases and settleFailure, jobQueue.js:241-268 and 372-395)
WaitingOrFailedHasNoEffect ==
  \A j \in Jobs : jobs[j].status \in {"queued", "failed"} =>
    \A c \in Claims : MayHappen(j, c) => runs[j][c].consent # consents[j]

\* The label of markEffectDone tells the truth: a job that carries it, in its payload or as
\* its error code, had its effect, although markEffectDone checks no claim and may mark the
\* row of another run. (jobQueue.js:313-328)
DoneLabelIsTrue ==
  \A j \in Jobs : jobs[j].effectDone \/ jobs[j].code = "effect_done" =>
    \E c \in Claims : Happened(j, c)

\* attempts never passes max_attempts, and a waiting job always has one left.
\* (outcomeOf and the sweep, jobQueue.js:237 and 376)
AttemptsWithinMax ==
  \A j \in Jobs :
    /\ jobs[j].attempts <= MaxAttempts
    /\ jobs[j].status = "queued" => jobs[j].attempts < MaxAttempts

-------------------------------------------------------------------------------
(* The inductive invariant behind them (proved in QueueProofs) *)

\* Where the job of an effect made under the latest consent can be: still in the hands of the
\* run that began it, or at rest where nothing runs by itself.
IsGuarded(j, c) ==
  \/ jobs[j].status = "running" /\ jobs[j].token = c /\ jobs[j].effectStarted
  \/ jobs[j].status \in {"needs_attention", "done"}
  \/ jobs[j].status \in {"cancelled", "deleted"} /\ j \notin undone

EffectIsGuarded ==
  \A j \in Jobs : \A c \in Claims :
    MayHappen(j, c) /\ runs[j][c].consent = consents[j] => IsGuarded(j, c)

\* A claim is of a run that was started under the latest consent.
ClaimIsCurrent ==
  \A j \in Jobs : jobs[j].status = "running" =>
    /\ jobs[j].token \in Claims
    /\ runs[j][jobs[j].token].stage # "unused"
    /\ runs[j][jobs[j].token].consent = consents[j]

\* What a run knows of its effect: none before the effect stage, none left open by a run
\* that is about to ask for a retry or a failure, one that happened if its error says so.
IsHonest(run, consent) ==
  /\ run.consent <= consent
  /\ run.stage # "unused" => run.consent >= 1
  /\ run.stage \in {"unused", "claimed", "handling"} => run.effect = "none"
  /\ run.outcome \in {"retry", "fail"} => run.effect \in {"none", "averted"}
  /\ run.stage = "settling" <=> run.outcome # "none"
  /\ run.known => run.effect \in {"happened", "answered"}

RunsAreHonest == \A j \in Jobs : \A c \in Claims : IsHonest(runs[j][c], consents[j])

WaitingWasAsked == \A j \in Jobs : jobs[j].status # "absent" => consents[j] >= 1

UndoneIsOver == \A j \in undone : jobs[j].status \in {"cancelled", "deleted"}

IndInv ==
  /\ TypeOK
  /\ EffectIsGuarded
  /\ ClaimIsCurrent
  /\ RunsAreHonest
  /\ WaitingWasAsked
  /\ UndoneIsOver
  /\ AtMostOncePerConsent
  /\ DoneLabelIsTrue

-------------------------------------------------------------------------------
(* Action properties *)

\* A claim ends only by the hand of its own run, or by the sweep after its lease ran out:
\* never because of a client, another worker or an older run of the same job.
\* (jobQueue.js:10-12: "every later write about the claim checks the token")
ClaimEndsByItsRunOrTheSweep ==
  [][\A j \in Jobs : \A c \in Claims :
       HoldsClaim(j, c) /\ ~HoldsClaim(j, c)' =>
         ~jobs[j].lease \/ runs'[j][c] # runs[j][c]]_vars

\* A job known to have had its effect is never offered or run again: its label leaves it only
\* when it is recorded done, dismissed or deleted.
\* (rescheduleJob's exceptErrorCodes; failJobsOfDeletedAccount, jobQueue.js:416-422)
DoneLabelSticks ==
  [][\A j \in Jobs : jobs[j].code = "effect_done" /\ jobs'[j].code # "effect_done" =>
       jobs'[j].status \in {"done", "deleted"}]_vars

-------------------------------------------------------------------------------
(* Refinement: each run that had its effect is a doer of the abstract specification. *)

EffectsOf(j) == {<<runs[j][c].consent, c>> : c \in {d \in Claims : Happened(j, d)}}

Promise == INSTANCE AtMostOnce WITH
  Doers <- Claims,
  withdrawn <- undone,
  effects <- [j \in Jobs |-> EffectsOf(j)]

\* The queue implements the promise: every step of it gives a consent, withdraws one in time,
\* makes an effect happen under an unused one, or changes none of this.
ImplementsPromise == Promise!Spec

-------------------------------------------------------------------------------
(* Liveness *)

\* What the code and its environment keep doing: every process ticks every JOB_POLL_MS, is
\* started again (docker-compose.yml, restart: unless-stopped) and exits within 10 s of a
\* stop; a dead run's lease runs out; the mail server's answer or a timeout ends the
\* handler's effect; handlers return or throw. Nothing makes a client act, a worker crash,
\* a live worker stall or an effect happen.
DeadLeaseRunsOut(j) ==
  /\ LeaseRunsOut(j)
  /\ \A c \in Claims : HoldsClaim(j, c) => ~Alive(j, c)

RunEnds(j, c) ==
  \/ MarkEffectStarted(j, c)
  \/ Complete(j, c)
  \/ Throw(j, c)
  \/ SettleFailure(j, c)
  \/ SettleGivesUp(j, c)

Fairness ==
  /\ \A j \in Jobs : WF_vars(ComesDue(j)) /\ WF_vars(DeadLeaseRunsOut(j))
  /\ \A w \in Workers : /\ WF_vars(SweepExpiredLeases(w))
                        /\ WF_vars(ClaimDueJobs(w))
                        /\ WF_vars(StartRuns(w))
                        /\ WF_vars(ExitWorker(w))
                        /\ WF_vars(StartWorker(w))
  /\ \A j \in Jobs, c \in Claims : WF_vars(RunEnds(j, c))

FairSpec == Spec /\ Fairness

AtRest(j) == jobs[j].status \in {"done", "failed", "cancelled", "needs_attention", "deleted"}

\* No job is lost: one that waits or runs comes to rest, through crashes, stops, lost replies
\* and retries, and is never forgotten as running.
EveryJobComesToRest ==
  \A j \in Jobs : jobs[j].status \in {"queued", "running"} ~> AtRest(j)

===============================================================================
