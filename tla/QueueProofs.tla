----------------------------- MODULE QueueProofs ------------------------------
(***************************************************************************)
(* Proofs about the job queue and the send queue on top of it, for every   *)
(* number of jobs, workers, claims and attempts.                           *)
(*                                                                         *)
(* JobQueue: the inductive invariant and what it says of the effects; the  *)
(* list of all the writes of a row of the table jobs, and what may happen  *)
(* to a row and who may take it from whom; and that the queue implements   *)
(* AtMostOnce, by the refinement mapping of the INSTANCE Promise.          *)
(*                                                                         *)
(* SendQueue: each step is a step of the job queue, or leaves it alone,    *)
(* but one: settleSweptDelivery writes a row without a claim. So what is   *)
(* shown of the queue carries over once that one step is shown to keep the *)
(* queue's invariant and to be a stutter of its promise.                   *)
(***************************************************************************)
EXTENDS SendQueue, TLAPS

-------------------------------------------------------------------------------
(* What the UPDATEs and the runs' records keep *)

\* Every UPDATE of the code leaves a well-formed row.
LEMMA RowUpdates ==
  ASSUME NEW row \in Row
  PROVE  /\ Unclaimed(row) \in Row
         /\ Cancelled(row) \in Row
         /\ Rescheduled(row) \in Row
         /\ \A c \in Claims : Claimed(row, c) \in Row
         /\ Released(row) \in Row
         /\ Swept(row) \in Row
         /\ \A o \in Outcomes, code \in Codes : Settled(row, o, code) \in Row
         /\ Completed(row) \in Row
<1>1. Unclaimed(row) \in Row
  BY DEF Unclaimed, Row
<1>2. Cancelled(row) \in Row
  BY <1>1 DEF Cancelled, Row, Statuses
<1>3. Rescheduled(row) \in Row
  <2>1. /\ (IF row.status = "queued" THEN row.attempts ELSE 0) \in Nat
        /\ (IF row.status = "queued" THEN row.code ELSE "none") \in Codes
    BY DEF Row, Codes
  <2>. QED
    BY <1>1, <2>1 DEF Rescheduled, Row, Statuses, Unclaimed
<1>4. ASSUME NEW c \in Claims PROVE Claimed(row, c) \in Row
  <2>. DEFINE attempted == Attempted(row)
  <2>1. attempted \in Row
    BY DEF Attempted, Row
  <2>. HIDE DEF attempted
  <2>2. [attempted EXCEPT !.status = "running", !.token = c, !.lease = TRUE,
                          !.effectStarted = FALSE] \in Row
    BY <2>1 DEF Row, Statuses
  <2>. QED
    BY <2>2 DEF attempted, Claimed
<1>5. Released(row) \in Row
  <2>. DEFINE given == AttemptGivenBack(row)
  <2>1. given \in Row
    BY DEF AttemptGivenBack, Row
  <2>. HIDE DEF given
  <2>2. [Unclaimed(given) EXCEPT !.status = "queued"] \in Row
    BY <2>1 DEF Unclaimed, Row, Statuses
  <2>. QED
    BY <2>2 DEF given, Released
<1>6. Swept(row) \in Row
  BY DEF Swept, Row, Statuses, Codes, Unclaimed, SweptStatus, SweptCode
<1>7. ASSUME NEW o \in Outcomes, NEW code \in Codes PROVE Settled(row, o, code) \in Row
  BY DEF Settled, Row, Statuses, Codes, Unclaimed, SettledStatus, OutcomeOf, Outcomes
<1>8. Completed(row) \in Row
  BY DEF Completed, Row, Statuses, Codes, Unclaimed
<1>. QED
  BY <1>1, <1>2, <1>3, <1>4, <1>5, <1>6, <1>7, <1>8

\* The row before the insert, the inserted one and the deleted one are well formed.
LEMMA FirstAndLastRows ==
  NoRow \in Row /\ Enqueued \in Row /\ [NoRow EXCEPT !.status = "deleted"] \in Row
BY DEF NoRow, Enqueued, Row, Statuses, Codes

\* What a step writes into a run keeps it well formed. (runJob, jobQueue.js:294-365)
LEMMA RunRecords ==
  /\ NoRun \in Run
  /\ \A run \in Run : EndedRun(run) \in Run
BY DEF NoRun, EndedRun, Run, Stages, Effects, Outcomes

\* A token that CHOOSE takes from the unused ones is unused.
LEMMA FreshTokenIsFresh ==
  ASSUME NEW j \in Jobs, HasFreshToken(j)
  PROVE  FreshToken(j) \in Claims /\ runs[j][FreshToken(j)].stage = "unused"
BY DEF HasFreshToken, FreshToken

-------------------------------------------------------------------------------
(* Types *)

\* An empty table and no runs are well formed. (jobQueue.js:441-451)
LEMMA TypeInit == Init => TypeOK
BY FirstAndLastRows, RunRecords, BoundsAreNaturals DEF Init, TypeOK

\* The end of any set of runs leaves well-formed runs.
LEMMA EndRunsType ==
  ASSUME TypeOK, NEW R
  PROVE  EndRuns(R) \in [Jobs -> [Claims -> Run]]
BY RunRecords DEF TypeOK, EndRuns

\* enqueueJob, cancelJob, rescheduleJob and cleanupFinishedJobs write well-formed rows.
LEMMA ClientStepType ==
  ASSUME TypeOK, NEW j \in Jobs, ClientStep(j)
  PROVE  TypeOK'
<1>1. CASE EnqueueJob(j)
  BY <1>1, FirstAndLastRows DEF EnqueueJob, TypeOK, SetRow
<1>2. CASE CancelJob(j)
  <2>1. Cancelled(jobs[j]) \in Row
    BY RowUpdates DEF TypeOK
  <2>. QED
    BY <1>2, <2>1 DEF CancelJob, TypeOK, SetRow
<1>3. CASE RescheduleJob(j)
  <2>1. Rescheduled(jobs[j]) \in Row
    BY RowUpdates DEF TypeOK
  <2>2. reschedules' \in 0..MaxReschedules
    BY <1>3, BoundsAreNaturals DEF RescheduleJob, TypeOK
  <2>3. consents' \in [Jobs -> Nat]
    BY <1>3 DEF RescheduleJob, TypeOK
  <2>. QED
    BY <1>3, <2>1, <2>2, <2>3 DEF RescheduleJob, TypeOK, SetRow
<1>4. CASE CleanupFinishedJob(j)
  BY <1>4, FirstAndLastRows DEF CleanupFinishedJob, TypeOK, SetRow
<1>. QED
  BY <1>1, <1>2, <1>3, <1>4 DEF ClientStep

\* A due time or a lease reached leaves a well-formed row.
LEMMA TimeStepType ==
  ASSUME TypeOK, NEW j \in Jobs, TimeStep(j)
  PROVE  TypeOK'
<1>1. /\ [jobs[j] EXCEPT !.due = TRUE] \in Row
      /\ [jobs[j] EXCEPT !.lease = FALSE] \in Row
  BY DEF TypeOK, Row
<1>. QED
  BY <1>1 DEF TimeStep, ComesDue, LeaseRunsOut, TypeOK, SetRow

\* failJobsOfDeletedAccount writes well-formed rows. (jobQueue.js:424-431)
LEMMA FailJobsType ==
  ASSUME TypeOK, NEW S \in SUBSET Jobs, FailJobsOfDeletedAccount(S)
  PROVE  TypeOK'
<1>1. ASSUME NEW j \in Jobs
      PROVE  [Unclaimed(jobs[j]) EXCEPT !.status = "failed", !.code = "other"] \in Row
  BY DEF TypeOK, Row, Unclaimed, Statuses, Codes
<1>2. jobs' \in [Jobs -> Row]
  BY <1>1 DEF FailJobsOfDeletedAccount, TypeOK
<1>. QED
  BY <1>2 DEF FailJobsOfDeletedAccount, TypeOK

\* The sweep, a claim, its reply, a stop and a crash leave well-formed rows and runs.
\* (jobQueue.js:372-388, 453-532)
LEMMA WorkerStepType ==
  ASSUME TypeOK, NEW w \in Workers, WorkerStep(w)
  PROVE  TypeOK'
<1>1. CASE SweepExpiredLeases(w)
  <2>1. \A j \in Jobs : Swept(jobs[j]) \in Row
    BY RowUpdates DEF TypeOK
  <2>2. jobs' \in [Jobs -> Row]
    BY <1>1, <2>1 DEF SweepExpiredLeases, TypeOK
  <2>. QED
    BY <1>1, <2>2 DEF SweepExpiredLeases, TypeOK
<1>2. CASE ClaimDueJobs(w)
  <2>1. PICK S \in SUBSET DueJobs :
          /\ jobs' = [j \in Jobs |->
                        IF j \in S THEN Claimed(jobs[j], FreshToken(j)) ELSE jobs[j]]
          /\ runs' = [j \in Jobs |->
                        IF j \in S
                          THEN [runs[j] EXCEPT ![FreshToken(j)] =
                                  [NoRun EXCEPT !.stage = "claimed", !.worker = w,
                                                !.consent = consents[j]]]
                          ELSE runs[j]]
    BY <1>2 DEF ClaimDueJobs
  <2>2. ASSUME NEW j \in S
        PROVE  /\ Claimed(jobs[j], FreshToken(j)) \in Row
               /\ [NoRun EXCEPT !.stage = "claimed", !.worker = w,
                                !.consent = consents[j]] \in Run
    <3>1. j \in Jobs /\ FreshToken(j) \in Claims
      BY FreshTokenIsFresh DEF DueJobs
    <3>2. Claimed(jobs[j], FreshToken(j)) \in Row
      BY <3>1, RowUpdates DEF TypeOK
    <3>3. consents[j] \in Nat
      BY <3>1 DEF TypeOK
    <3>. QED
      BY <3>2, <3>3 DEF NoRun, Run, Stages, Effects, Outcomes
  <2>3. jobs' \in [Jobs -> Row]
    BY <2>1, <2>2 DEF TypeOK
  <2>4. runs' \in [Jobs -> [Claims -> Run]]
    BY <2>1, <2>2 DEF TypeOK
  <2>. QED
    BY <1>2, <2>3, <2>4 DEF ClaimDueJobs, TypeOK
<1>3. CASE StartRuns(w)
  <2>1. runs' \in [Jobs -> [Claims -> Run]]
    <3>1. \A run \in Run : [run EXCEPT !.stage = "handling", !.ran = TRUE] \in Run
      BY DEF Run, Stages
    <3>. QED
      BY <1>3, <3>1 DEF StartRuns, TypeOK
  <2>. QED
    BY <1>3, <2>1 DEF StartRuns, TypeOK
<1>4. CASE ReleaseClaims(w)
  <2>1. \A j \in Jobs : Released(jobs[j]) \in Row
    BY RowUpdates DEF TypeOK
  <2>2. jobs' \in [Jobs -> Row]
    BY <1>4, <2>1 DEF ReleaseClaims, TypeOK
  <2>. QED
    BY <1>4, <2>2, EndRunsType DEF ReleaseClaims, TypeOK
<1>5. CASE ClaimReplyLost(w)
  BY <1>5, EndRunsType DEF ClaimReplyLost, TypeOK
<1>6. CASE StopWorker(w)
  BY <1>6, BoundsAreNaturals DEF StopWorker, TypeOK
<1>7. CASE ExitWorker(w)
  BY <1>7, EndRunsType DEF ExitWorker, TypeOK
<1>8. CASE CrashWorker(w)
  BY <1>8, EndRunsType, BoundsAreNaturals DEF CrashWorker, TypeOK
<1>9. CASE StartWorker(w)
  BY <1>9 DEF StartWorker, TypeOK
<1>. QED
  BY <1>1, <1>2, <1>3, <1>4, <1>5, <1>6, <1>7, <1>8, <1>9 DEF WorkerStep

\* Whatever runJob and its ctx write is well formed. (jobQueue.js:294-365)
LEMMA RunStepType ==
  ASSUME TypeOK, NEW j \in Jobs, NEW c \in Claims, RunStep(j, c)
  PROVE  TypeOK'
<1>. DEFINE row == jobs[j]
            run == runs[j][c]
<1>1. row \in Row /\ run \in Run
  BY DEF TypeOK
<1>2. ASSUME NEW r \in Row, SetRow(j, r)
      PROVE  jobs' \in [Jobs -> Row]
  BY <1>2 DEF SetRow, TypeOK
<1>3. ASSUME NEW r \in Run, SetRun(j, c, r)
      PROVE  runs' \in [Jobs -> [Claims -> Run]]
  BY <1>3 DEF SetRun, TypeOK
<1>4. EndedRun(run) \in Run
  BY <1>1, RunRecords
<1>5. [row EXCEPT !.effectStarted = TRUE] \in Row
  BY <1>1 DEF Row
<1>6. ASSUME jobs' \in [Jobs -> Row], runs' \in [Jobs -> [Claims -> Run]],
             UNCHANGED <<workers, consents, undone, faults, reschedules>>
      PROVE  TypeOK'
  BY <1>6 DEF TypeOK
<1>7. UNCHANGED jobs => jobs' \in [Jobs -> Row]
  BY DEF TypeOK
<1>8. UNCHANGED runs => runs' \in [Jobs -> [Claims -> Run]]
  BY DEF TypeOK
<1>9. UNCHANGED <<workers, consents, undone, faults, reschedules>>
  BY DEF RunStep, RenewLease, MarkEffectStarted, MarkEffectReplyLost, EffectHappens,
         EffectAnswered, MarkEffectDone, Complete, CompleteReplyLost, Throw, SettleFailure,
         SettleGivesUp
<1>10. jobs' \in [Jobs -> Row]
  <2>1. CASE RenewLease(j, c)
    <3>1. [row EXCEPT !.lease = TRUE] \in Row
      BY <1>1 DEF Row
    <3>. QED
      BY <2>1, <3>1, <1>2 DEF RenewLease
  <2>2. CASE MarkEffectStarted(j, c)
    BY <2>2, <1>2, <1>5, <1>7 DEF MarkEffectStarted
  <2>3. CASE MarkEffectReplyLost(j, c)
    BY <2>3, <1>2, <1>5 DEF MarkEffectReplyLost
  <2>4. CASE MarkEffectDone(j, c)
    <3>1. [row EXCEPT !.effectDone = TRUE] \in Row
      BY <1>1 DEF Row
    <3>. QED
      BY <2>4, <3>1, <1>2 DEF MarkEffectDone
  <2>5. CASE Complete(j, c) \/ CompleteReplyLost(j, c)
    BY <2>5, <1>1, <1>2, RowUpdates DEF Complete, CompleteReplyLost
  <2>6. CASE SettleFailure(j, c)
    <3>1. /\ run.outcome \in Outcomes
          /\ (IF run.known THEN "effect_done" ELSE "other") \in Codes
      BY <1>1 DEF Run, Codes
    <3>2. Settled(row, run.outcome, IF run.known THEN "effect_done" ELSE "other") \in Row
      BY <1>1, <3>1, RowUpdates
    <3>. QED
      BY <2>6, <3>2, <1>1, <1>2 DEF SettleFailure
  <2>7. CASE \/ EffectHappens(j, c) \/ EffectAnswered(j, c) \/ Throw(j, c)
             \/ SettleGivesUp(j, c)
    BY <2>7, <1>7 DEF EffectHappens, EffectAnswered, Throw, SettleGivesUp
  <2>. QED
    BY <2>1, <2>2, <2>3, <2>4, <2>5, <2>6, <2>7 DEF RunStep
<1>11. runs' \in [Jobs -> [Claims -> Run]]
  <2>1. CASE RenewLease(j, c) \/ MarkEffectDone(j, c)
    BY <2>1, <1>8 DEF RenewLease, MarkEffectDone
  <2>2. CASE MarkEffectStarted(j, c)
    <3>1. [run EXCEPT !.stage = "effect", !.effect = "started"] \in Run
      BY <1>1 DEF Run, Stages, Effects
    <3>. QED
      BY <2>2, <3>1, <1>3, <1>4 DEF MarkEffectStarted
  <2>3. CASE MarkEffectReplyLost(j, c)
    <3>1. [run EXCEPT !.stage = "settling", !.outcome = "retry"] \in Run
      BY <1>1 DEF Run, Stages, Outcomes
    <3>. QED
      BY <2>3, <3>1, <1>3 DEF MarkEffectReplyLost
  <2>4. CASE EffectHappens(j, c) \/ EffectAnswered(j, c)
    <3>1. \A e \in Effects : [run EXCEPT !.effect = e] \in Run
      BY <1>1 DEF Run
    <3>. QED
      BY <2>4, <3>1, <1>3 DEF EffectHappens, EffectAnswered, Effects
  <2>5. CASE Complete(j, c) \/ SettleFailure(j, c) \/ SettleGivesUp(j, c)
    BY <2>5, <1>3, <1>4 DEF Complete, SettleFailure, SettleGivesUp
  <2>6. CASE CompleteReplyLost(j, c)
    <3>1. \A o \in Outcomes : [run EXCEPT !.stage = "settling", !.outcome = o] \in Run
      BY <1>1 DEF Run, Stages
    <3>. QED
      BY <2>6, <3>1, <1>3 DEF CompleteReplyLost, Outcomes
  <2>7. CASE Throw(j, c)
    <3>1. PICK error \in Throwable(j, c) :
            SetRun(j, c, [run EXCEPT !.stage = "settling", !.outcome = error.outcome,
                                     !.known = error.known])
      BY <2>7 DEF Throw
    <3>2. error.outcome \in Outcomes /\ error.known \in BOOLEAN
      BY <1>1 DEF Throwable, Outcomes
    <3>3. [run EXCEPT !.stage = "settling", !.outcome = error.outcome,
                      !.known = error.known] \in Run
      BY <1>1, <3>2 DEF Run, Stages
    <3>. QED
      BY <3>1, <3>3, <1>3
  <2>. QED
    BY <2>1, <2>2, <2>3, <2>4, <2>5, <2>6, <2>7 DEF RunStep
<1>. QED
  BY <1>6, <1>9, <1>10, <1>11

\* Every step of clients, time, workers and runs keeps rows, runs and counters well formed.
LEMMA TypeStep == TypeOK /\ [Next]_vars => TypeOK'
<1>. SUFFICES ASSUME TypeOK, [Next]_vars
              PROVE  TypeOK'
  OBVIOUS
<1>1. CASE \E j \in Jobs : ClientStep(j) \/ TimeStep(j)
  BY <1>1, ClientStepType, TimeStepType
<1>2. CASE \E S \in SUBSET Jobs : FailJobsOfDeletedAccount(S)
  BY <1>2, FailJobsType
<1>3. CASE \E w \in Workers : WorkerStep(w)
  BY <1>3, WorkerStepType
<1>4. CASE \E j \in Jobs, c \in Claims : RunStep(j, c)
  BY <1>4, RunStepType
<1>5. CASE UNCHANGED vars
  BY <1>5 DEF vars, TypeOK
<1>. QED
  BY <1>1, <1>2, <1>3, <1>4, <1>5 DEF Next

\* The queue's rows, runs and counters are always well formed; in particular the counters never
\* pass their bounds and no status is written that the table's CHECK would refuse.
\* (0087_job_queue.sql:27-48)
THEOREM TypeCorrect == Spec => []TypeOK
BY TypeInit, TypeStep, PTL DEF Spec

-------------------------------------------------------------------------------
(* The inductive invariant, job by job: the jobs do not know of each other *)

Open(j, c) == MayHappen(j, c) /\ runs[j][c].consent = consents[j]

Labelled(row) == row.effectDone \/ row.code = "effect_done"

JobInv(j) ==
  /\ \A c \in Claims : Open(j, c) => IsGuarded(j, c)
  /\ jobs[j].status = "running" =>
       /\ jobs[j].token \in Claims
       /\ runs[j][jobs[j].token].stage # "unused"
       /\ runs[j][jobs[j].token].consent = consents[j]
  /\ \A c \in Claims : IsHonest(runs[j][c], consents[j])
  /\ jobs[j].status # "absent" => consents[j] >= 1
  /\ j \in undone => jobs[j].status \in {"cancelled", "deleted"}
  /\ \A c, d \in Claims :
       c # d /\ MayHappen(j, c) /\ MayHappen(j, d) => runs[j][c].consent # runs[j][d].consent
  /\ Labelled(jobs[j]) => \E c \in Claims : Happened(j, c)

JobsInv == TypeOK /\ \A j \in Jobs : JobInv(j)

\* The inductive invariant is a fact of each job.
LEMMA IndInvOfJobs == IndInv <=> JobsInv
<1>1. /\ EffectIsGuarded <=> \A j \in Jobs : \A c \in Claims : Open(j, c) => IsGuarded(j, c)
      /\ DoneLabelIsTrue <=>
           \A j \in Jobs : Labelled(jobs[j]) => \E c \in Claims : Happened(j, c)
  BY DEF EffectIsGuarded, Open, DoneLabelIsTrue, Labelled
<1>2. TypeOK => (UndoneIsOver <=>
        \A j \in Jobs : j \in undone => jobs[j].status \in {"cancelled", "deleted"})
  BY DEF TypeOK, UndoneIsOver
<1>. QED
  BY <1>1, <1>2, Zenon DEF IndInv, JobsInv, JobInv, ClaimIsCurrent, RunsAreHonest, WaitingWasAsked,
                    AtMostOncePerConsent

\* A run stays that of its consent, and forgets no effect and begins none.
RunKept(j, c) ==
  /\ runs'[j][c].consent = runs[j][c].consent
  /\ runs'[j][c].stage = "unused" <=> runs[j][c].stage = "unused"
  /\ MayHappen(j, c)' => MayHappen(j, c)
  /\ Happened(j, c) => Happened(j, c)'
  /\ IsHonest(runs'[j][c], consents'[j])

\* A step that leaves the job where it is, in the hands it is in.
LEMMA Unmoved ==
  ASSUME NEW j \in Jobs, JobInv(j),
         \A c \in Claims : RunKept(j, c),
         consents'[j] = consents[j],
         j \in undone' <=> j \in undone,
         jobs'[j].status = jobs[j].status,
         jobs'[j].token = jobs[j].token,
         jobs'[j].effectStarted = jobs[j].effectStarted,
         Labelled(jobs'[j]) => Labelled(jobs[j]) \/ \E c \in Claims : Happened(j, c)
  PROVE  JobInv(j)'
<1>1. \A c \in Claims : Open(j, c)' => Open(j, c)
  BY DEF RunKept, Open
<1>2. \A c \in Claims : Open(j, c)' => IsGuarded(j, c)'
  BY <1>1 DEF JobInv, IsGuarded
<1>3. jobs'[j].status = "running" =>
        /\ jobs'[j].token \in Claims
        /\ runs'[j][jobs'[j].token].stage # "unused"
        /\ runs'[j][jobs'[j].token].consent = consents'[j]
  BY DEF JobInv, RunKept
<1>4. \A c, d \in Claims :
        c # d /\ MayHappen(j, c)' /\ MayHappen(j, d)' =>
          runs'[j][c].consent # runs'[j][d].consent
  BY DEF JobInv, RunKept
<1>5. Labelled(jobs'[j]) => \E c \in Claims : Happened(j, c)'
  BY DEF JobInv, RunKept
<1>6. /\ \A c \in Claims : IsHonest(runs'[j][c], consents'[j])
      /\ jobs'[j].status # "absent" => consents'[j] >= 1
      /\ j \in undone' => jobs'[j].status \in {"cancelled", "deleted"}
  BY DEF JobInv, RunKept
<1>. QED
  BY <1>2, <1>3, <1>4, <1>5, <1>6 DEF JobInv, Labelled

\* A step that takes the job to another place: nowhere from which it runs by itself while an
\* effect under its latest consent is open.
LEMMA Moved ==
  ASSUME NEW j \in Jobs, JobInv(j),
         \A c \in Claims : RunKept(j, c),
         consents'[j] \in Nat, consents'[j] >= 1,
         jobs'[j].status # "running",
         j \in undone' => jobs'[j].status \in {"cancelled", "deleted"},
         \/ \A c \in Claims : ~Open(j, c)'
         \/ jobs'[j].status \in {"needs_attention", "done"}
         \/ jobs'[j].status \in {"cancelled", "deleted"} /\ j \notin undone',
         Labelled(jobs'[j]) => Labelled(jobs[j]) \/ \E c \in Claims : Happened(j, c)
  PROVE  JobInv(j)'
<1>1. \A c \in Claims : Open(j, c)' => IsGuarded(j, c)'
  BY DEF IsGuarded
<1>2. \A c, d \in Claims :
        c # d /\ MayHappen(j, c)' /\ MayHappen(j, d)' =>
          runs'[j][c].consent # runs'[j][d].consent
  BY DEF JobInv, RunKept
<1>3. Labelled(jobs'[j]) => \E c \in Claims : Happened(j, c)'
  BY DEF JobInv, RunKept
<1>4. \A c \in Claims : IsHonest(runs'[j][c], consents'[j])
  BY DEF RunKept
<1>. QED
  BY <1>1, <1>2, <1>3, <1>4 DEF JobInv, Labelled

\* Runs that stay as they are or end are kept, also when the job is asked for again.
LEMMA EndingKeepsRuns ==
  ASSUME TypeOK, NEW j \in Jobs, JobInv(j),
         consents'[j] \in Nat, consents'[j] >= consents[j],
         \A c \in Claims :
           \/ runs'[j][c] = runs[j][c]
           \/ runs[j][c].stage # "unused" /\ runs'[j][c] = EndedRun(runs[j][c])
  PROVE  \A c \in Claims : RunKept(j, c)
<1>. SUFFICES ASSUME NEW c \in Claims
              PROVE  RunKept(j, c)
  OBVIOUS
<1>1. /\ runs[j][c] \in Run
      /\ consents[j] \in Nat
      /\ IsHonest(runs[j][c], consents[j])
  BY DEF TypeOK, JobInv
<1>2. /\ runs'[j][c].consent = runs[j][c].consent
      /\ runs'[j][c].effect = runs[j][c].effect
      /\ runs'[j][c].stage = "unused" <=> runs[j][c].stage = "unused"
      /\ IsHonest(runs'[j][c], consents'[j])
  <2>1. CASE runs'[j][c] = runs[j][c]
    BY <2>1, <1>1 DEF IsHonest, Run
  <2>2. CASE runs[j][c].stage # "unused" /\ runs'[j][c] = EndedRun(runs[j][c])
    <3>. DEFINE e == EndedRun(runs[j][c])
    <3>1. /\ e.consent = runs[j][c].consent
          /\ e.effect = runs[j][c].effect
          /\ e.stage = "ended"
          /\ e.outcome = "none"
          /\ ~e.known
      BY <1>1 DEF EndedRun, Run
    <3>. HIDE DEF e
    <3>2. runs'[j][c] = e
      BY <2>2 DEF e
    <3>3. runs[j][c].consent \in Nat
      BY <1>1 DEF Run
    <3>. QED
      BY <1>1, <2>2, <3>1, <3>2, <3>3 DEF IsHonest
  <2>. QED
    BY <2>1, <2>2
<1>. QED
  BY <1>2 DEF RunKept, MayHappen, Happened

\* A step that changes neither the jobs nor the runs nor what was asked keeps the invariant:
\* the stop and the start of a worker. (jobQueue.js:510-532)
LEMMA Untouched ==
  ASSUME TypeOK, NEW j \in Jobs, JobInv(j),
         jobs'[j] = jobs[j], runs'[j] = runs[j], consents'[j] = consents[j],
         j \in undone' <=> j \in undone
  PROVE  JobInv(j)'
<1>1. consents'[j] \in Nat /\ consents'[j] >= consents[j]
  BY DEF TypeOK
<1>2. \A c \in Claims : RunKept(j, c)
  BY <1>1, EndingKeepsRuns
<1>. QED
  BY <1>2, Unmoved

\* A job that waits, or failed, has no effect open.
LEMMA NothingOpen ==
  ASSUME NEW j \in Jobs, JobInv(j),
         \/ jobs[j].status \in {"absent", "queued", "failed"}
         \/ jobs[j].status = "running" /\ ~jobs[j].effectStarted
  PROVE  \A c \in Claims : ~Open(j, c)
BY DEF JobInv, IsGuarded

\* Nothing that was begun is open any more once the job is asked for again.
LEMMA NewConsentClosesAll ==
  ASSUME TypeOK, NEW j \in Jobs, JobInv(j), runs'[j] = runs[j], consents'[j] = consents[j] + 1
  PROVE  \A c \in Claims : ~Open(j, c)'
<1>1. \A c \in Claims : runs[j][c].consent <= consents[j] /\ runs[j][c].consent \in Nat
  BY DEF JobInv, IsHonest, TypeOK, Run
<1>2. consents[j] \in Nat
  BY DEF TypeOK
<1>. QED
  BY <1>1, <1>2 DEF Open

\* What clients do keeps the invariant: a job is cancelled or asked for again only where it
\* is in no run's hands. (cancelJob and rescheduleJob, jobQueue.js:160-194)
LEMMA ClientStepInv ==
  ASSUME TypeOK, TypeOK', \A k \in Jobs : JobInv(k), NEW j \in Jobs, ClientStep(j)
  PROVE  \A k \in Jobs : JobInv(k)'
<1>1. ASSUME NEW k \in Jobs, k # j
      PROVE  JobInv(k)'
  <2>1. /\ jobs'[k] = jobs[k]
        /\ runs'[k] = runs[k]
        /\ consents'[k] = consents[k]
        /\ k \in undone' <=> k \in undone
    BY <1>1 DEF TypeOK, ClientStep, EnqueueJob, CancelJob, RescheduleJob, CleanupFinishedJob,
                SetRow
  <2>. QED
    BY <2>1, Untouched
<1>2. jobs[j] \in Row /\ consents[j] \in Nat /\ consents'[j] \in Nat /\ JobInv(j)
  BY DEF TypeOK
<1>3. JobInv(j)'
  <2>1. CASE EnqueueJob(j)
    <3>1. /\ jobs'[j] = Enqueued
          /\ runs'[j] = runs[j]
          /\ consents'[j] = consents[j] + 1
          /\ undone' = undone
          /\ jobs[j].status = "absent"
      BY <2>1 DEF EnqueueJob, SetRow, TypeOK
    <3>2. \A c \in Claims : RunKept(j, c)
      BY <1>2, <3>1, EndingKeepsRuns
    <3>3. \A c \in Claims : ~Open(j, c)'
      BY <1>2, <3>1, NewConsentClosesAll
    <3>4. jobs'[j].status = "queued" /\ ~Labelled(jobs'[j])
      BY <3>1 DEF Enqueued, NoRow, Labelled
    <3>5. j \notin undone'
      BY <1>2, <3>1 DEF JobInv
    <3>6. consents'[j] >= 1
      BY <1>2, <3>1
    <3>. QED
      BY <1>2, <3>2, <3>3, <3>4, <3>5, <3>6, Moved
  <2>2. CASE CancelJob(j)
    <3>1. /\ jobs'[j] = Cancelled(jobs[j])
          /\ runs'[j] = runs[j]
          /\ consents'[j] = consents[j]
          /\ undone' = IF jobs[j].status = "needs_attention" THEN undone ELSE undone \cup {j}
          /\ jobs[j].status \in {"queued", "failed", "needs_attention"}
      BY <2>2 DEF CancelJob, Cancellable, SetRow, TypeOK
    <3>2. \A c \in Claims : RunKept(j, c)
      BY <1>2, <3>1, EndingKeepsRuns
    <3>3. /\ jobs'[j].status = "cancelled"
          /\ Labelled(jobs'[j]) => Labelled(jobs[j])
      BY <1>2, <3>1 DEF Cancelled, Unclaimed, Row, Labelled
    <3>4. \/ \A c \in Claims : ~Open(j, c)'
          \/ j \notin undone'
      <4>1. CASE jobs[j].status = "needs_attention"
        BY <1>2, <3>1, <4>1 DEF JobInv
      <4>2. CASE jobs[j].status # "needs_attention"
        <5>1. \A c \in Claims : ~Open(j, c)
          BY <1>2, <3>1, <4>2, NothingOpen
        <5>. QED
          BY <5>1, <3>1 DEF Open, MayHappen, Happened
      <4>. QED
        BY <4>1, <4>2
    <3>5. consents'[j] >= 1
      BY <1>2, <3>1 DEF JobInv
    <3>. QED
      BY <1>2, <3>2, <3>3, <3>4, <3>5, Moved
  <2>3. CASE RescheduleJob(j)
    <3>1. /\ jobs'[j] = Rescheduled(jobs[j])
          /\ runs'[j] = runs[j]
          /\ consents'[j] = IF jobs[j].status = "queued" THEN consents[j] ELSE consents[j] + 1
          /\ undone' = undone
          /\ jobs[j].status \in {"queued", "failed", "needs_attention"}
      BY <2>3 DEF RescheduleJob, Cancellable, SetRow, TypeOK
    <3>2. \A c \in Claims : RunKept(j, c)
      BY <1>2, <3>1, EndingKeepsRuns
    <3>3. /\ jobs'[j].status = "queued"
          /\ ~jobs'[j].effectDone
          /\ jobs'[j].code \in {jobs[j].code, "none"}
      BY <1>2, <3>1 DEF Rescheduled, Unclaimed, Row
    <3>4. Labelled(jobs'[j]) => Labelled(jobs[j])
      BY <3>3 DEF Labelled
    <3>5. \A c \in Claims : ~Open(j, c)'
      <4>1. CASE jobs[j].status = "queued"
        <5>1. \A c \in Claims : ~Open(j, c)
          BY <1>2, <4>1, NothingOpen
        <5>. QED
          BY <5>1, <3>1, <4>1 DEF Open, MayHappen, Happened
      <4>2. CASE jobs[j].status # "queued"
        BY <1>2, <3>1, <4>2, NewConsentClosesAll
      <4>. QED
        BY <4>1, <4>2
    <3>6. j \notin undone' /\ consents'[j] >= 1
      BY <1>2, <3>1 DEF JobInv
    <3>. QED
      BY <1>2, <3>2, <3>3, <3>4, <3>5, <3>6, Moved
  <2>4. CASE CleanupFinishedJob(j)
    <3>1. /\ jobs'[j] = [NoRow EXCEPT !.status = "deleted"]
          /\ runs'[j] = runs[j]
          /\ consents'[j] = consents[j]
          /\ undone' = undone
          /\ jobs[j].status \in {"done", "cancelled", "failed", "needs_attention"}
      BY <2>4 DEF CleanupFinishedJob, SetRow, TypeOK
    <3>2. \A c \in Claims : RunKept(j, c)
      BY <1>2, <3>1, EndingKeepsRuns
    <3>3. jobs'[j].status = "deleted" /\ ~Labelled(jobs'[j])
      BY <3>1 DEF NoRow, Labelled
    <3>4. consents'[j] >= 1
      BY <1>2, <3>1 DEF JobInv
    <3>5. \/ \A c \in Claims : ~Open(j, c)'
          \/ j \notin undone'
      <4>1. ASSUME NEW c \in Claims, j \in undone
            PROVE  ~Open(j, c)
        BY <1>2, <4>1 DEF JobInv, IsGuarded
      <4>. QED
        BY <4>1, <3>1 DEF Open, MayHappen, Happened
    <3>. QED
      BY <1>2, <3>2, <3>3, <3>4, <3>5, Moved
  <2>. QED
    BY <2>1, <2>2, <2>3, <2>4 DEF ClientStep
<1>. QED
  BY <1>1, <1>3

\* A step that only writes into the row of a job, and not where the job is.
LEMMA RowWritten ==
  ASSUME TypeOK, \A k \in Jobs : JobInv(k), NEW j \in Jobs, NEW row, SetRow(j, row),
         UNCHANGED <<runs, consents, undone>>,
         row.status = jobs[j].status,
         row.token = jobs[j].token,
         row.effectStarted = jobs[j].effectStarted,
         Labelled(row) => Labelled(jobs[j]) \/ \E c \in Claims : Happened(j, c)
  PROVE  \A k \in Jobs : JobInv(k)'
<1>1. ASSUME NEW k \in Jobs, k # j
      PROVE  JobInv(k)'
  BY <1>1, Untouched DEF SetRow, TypeOK
<1>2. JobInv(j)'
  <2>1. jobs'[j] = row /\ runs'[j] = runs[j] /\ consents'[j] = consents[j] /\ undone' = undone
    BY DEF SetRow, TypeOK
  <2>2. consents'[j] \in Nat /\ consents'[j] >= consents[j]
    BY <2>1 DEF TypeOK
  <2>3. \A c \in Claims : RunKept(j, c)
    BY <2>1, <2>2, EndingKeepsRuns
  <2>. QED
    BY <2>1, <2>3, Unmoved
<1>. QED
  BY <1>1, <1>2

\* Time changes no place a job can be in. (jobQueue.js:367-371, 497-508)
LEMMA TimeStepInv ==
  ASSUME TypeOK, \A k \in Jobs : JobInv(k), NEW j \in Jobs, TimeStep(j)
  PROVE  \A k \in Jobs : JobInv(k)'
<1>1. jobs[j] \in Row
  BY DEF TypeOK
<1>2. UNCHANGED <<runs, consents, undone>>
  BY DEF TimeStep, ComesDue, LeaseRunsOut
<1>3. CASE SetRow(j, [jobs[j] EXCEPT !.due = TRUE])
  <2>. DEFINE row == [jobs[j] EXCEPT !.due = TRUE]
  <2>1. /\ row.status = jobs[j].status
        /\ row.token = jobs[j].token
        /\ row.effectStarted = jobs[j].effectStarted
        /\ Labelled(row) => Labelled(jobs[j])
    BY <1>1 DEF Row, Labelled
  <2>2. SetRow(j, row)
    BY <1>3
  <2>. HIDE DEF row
  <2>. QED
    BY <1>2, <2>1, <2>2, RowWritten
<1>4. CASE SetRow(j, [jobs[j] EXCEPT !.lease = FALSE])
  <2>. DEFINE row == [jobs[j] EXCEPT !.lease = FALSE]
  <2>1. /\ row.status = jobs[j].status
        /\ row.token = jobs[j].token
        /\ row.effectStarted = jobs[j].effectStarted
        /\ Labelled(row) => Labelled(jobs[j])
    BY <1>1 DEF Row, Labelled
  <2>2. SetRow(j, row)
    BY <1>4
  <2>. HIDE DEF row
  <2>. QED
    BY <1>2, <2>1, <2>2, RowWritten
<1>. QED
  BY <1>3, <1>4 DEF TimeStep, ComesDue, LeaseRunsOut

\* The deletion of a mailbox fails only waiting jobs, which have no effect open.
\* (jobQueue.js:416-431)
LEMMA FailJobsInv ==
  ASSUME TypeOK, \A k \in Jobs : JobInv(k), NEW S \in SUBSET Jobs, FailJobsOfDeletedAccount(S)
  PROVE  \A k \in Jobs : JobInv(k)'
<1>. SUFFICES ASSUME NEW k \in Jobs
              PROVE  JobInv(k)'
  OBVIOUS
<1>1. runs' = runs /\ consents' = consents /\ undone' = undone
  BY DEF FailJobsOfDeletedAccount
<1>2. CASE k \in S /\ jobs[k].status = "queued"
  <2>1. jobs'[k] = [Unclaimed(jobs[k]) EXCEPT !.status = "failed", !.code = "other"]
    BY <1>2 DEF FailJobsOfDeletedAccount, FailedWithAccount
  <2>2. jobs[k] \in Row /\ consents[k] \in Nat
    BY DEF TypeOK
  <2>3. /\ jobs'[k].status = "failed"
        /\ Labelled(jobs'[k]) => Labelled(jobs[k])
    BY <2>1, <2>2 DEF Unclaimed, Row, Labelled
  <2>4. \A c \in Claims : RunKept(k, c)
    BY <1>1, <2>2, EndingKeepsRuns
  <2>5. \A c \in Claims : ~Open(k, c)'
    BY <1>1, <1>2, NothingOpen DEF Open, MayHappen, Happened
  <2>6. consents'[k] \in Nat /\ consents'[k] >= 1 /\ k \notin undone'
    BY <1>1, <1>2, <2>2 DEF JobInv
  <2>. QED
    BY <2>3, <2>4, <2>5, <2>6, Moved
<1>3. CASE ~(k \in S /\ jobs[k].status = "queued")
  <2>1. jobs'[k] = jobs[k]
    BY <1>3 DEF FailJobsOfDeletedAccount, FailedWithAccount
  <2>. QED
    BY <1>1, <2>1, Untouched
<1>. QED
  BY <1>2, <1>3

\* The end of runs that were begun leaves every job where it is.
LEMMA EndRunsInv ==
  ASSUME TypeOK, \A k \in Jobs : JobInv(k), NEW R, runs' = EndRuns(R),
         UNCHANGED <<jobs, consents, undone>>,
         \A j \in Jobs, c \in Claims : <<j, c>> \in R => Alive(j, c)
  PROVE  \A k \in Jobs : JobInv(k)'
<1>. SUFFICES ASSUME NEW k \in Jobs
              PROVE  JobInv(k)'
  OBVIOUS
<1>1. \A c \in Claims :
        \/ runs'[k][c] = runs[k][c]
        \/ runs[k][c].stage # "unused" /\ runs'[k][c] = EndedRun(runs[k][c])
  BY DEF EndRuns, Alive
<1>2. consents'[k] \in Nat /\ consents'[k] >= consents[k]
  BY DEF TypeOK
<1>3. \A c \in Claims : RunKept(k, c)
  BY <1>1, <1>2, EndingKeepsRuns
<1>. QED
  BY <1>3, Unmoved

\* The sweep: a job whose effect may have begun is never queued again.
LEMMA SweepInv ==
  ASSUME TypeOK, \A k \in Jobs : JobInv(k), NEW w \in Workers, SweepExpiredLeases(w)
  PROVE  \A k \in Jobs : JobInv(k)'
<1>. SUFFICES ASSUME NEW k \in Jobs
              PROVE  JobInv(k)'
  OBVIOUS
<1>1. runs' = runs /\ consents' = consents /\ undone' = undone
  BY DEF SweepExpiredLeases
<1>2. CASE k \in ExpiredJobs
  <2>1. jobs'[k] = Swept(jobs[k]) /\ jobs[k].status = "running"
    BY <1>2 DEF SweepExpiredLeases, ExpiredJobs
  <2>2. jobs[k] \in Row /\ consents[k] \in Nat
    BY DEF TypeOK
  <2>3. /\ jobs'[k].status = SweptStatus(jobs[k])
        /\ jobs'[k].effectDone = jobs[k].effectDone
        /\ jobs'[k].code = SweptCode(jobs[k])
    BY <2>1, <2>2 DEF Swept, Unclaimed, Row
  <2>4. Labelled(jobs'[k]) => Labelled(jobs[k])
    BY <2>3 DEF SweptCode, Labelled
  <2>5. \A c \in Claims : RunKept(k, c)
    BY <1>1, <2>2, EndingKeepsRuns
  <2>6. \/ \A c \in Claims : ~Open(k, c)'
        \/ jobs'[k].status = "needs_attention"
    <3>1. CASE jobs[k].effectStarted
      BY <3>1, <2>3 DEF SweptStatus
    <3>2. CASE ~jobs[k].effectStarted
      <4>1. \A c \in Claims : ~Open(k, c)
        BY <2>1, <3>2, NothingOpen
      <4>. QED
        BY <1>1, <4>1 DEF Open, MayHappen, Happened
    <3>. QED
      BY <3>1, <3>2
  <2>7. jobs'[k].status # "running"
    BY <2>3 DEF SweptStatus
  <2>8. consents'[k] \in Nat /\ consents'[k] >= 1 /\ k \notin undone'
    BY <1>1, <2>1, <2>2 DEF JobInv
  <2>. QED
    BY <2>4, <2>5, <2>6, <2>7, <2>8, Moved
<1>3. CASE k \notin ExpiredJobs
  <2>1. jobs'[k] = jobs[k]
    BY <1>3 DEF SweepExpiredLeases
  <2>. QED
    BY <1>1, <2>1, Untouched
<1>. QED
  BY <1>2, <1>3

\* A claim takes a waiting job, and makes its new run under the latest consent.
LEMMA ClaimInv ==
  ASSUME TypeOK, \A k \in Jobs : JobInv(k), NEW w \in Workers, ClaimDueJobs(w)
  PROVE  \A k \in Jobs : JobInv(k)'
<1>. SUFFICES ASSUME NEW k \in Jobs
              PROVE  JobInv(k)'
  OBVIOUS
<1>1. PICK S \in SUBSET DueJobs :
        /\ jobs' = [j \in Jobs |->
                      IF j \in S THEN Claimed(jobs[j], FreshToken(j)) ELSE jobs[j]]
        /\ runs' = [j \in Jobs |->
                      IF j \in S
                        THEN [runs[j] EXCEPT ![FreshToken(j)] =
                                [NoRun EXCEPT !.stage = "claimed", !.worker = w,
                                              !.consent = consents[j]]]
                        ELSE runs[j]]
  BY DEF ClaimDueJobs
<1>2. consents' = consents /\ undone' = undone
  BY DEF ClaimDueJobs
<1>3. CASE k \in S
  <2>. DEFINE run == [NoRun EXCEPT !.stage = "claimed", !.worker = w, !.consent = consents[k]]
  <2>1. PICK c \in Claims : /\ c = FreshToken(k)
                            /\ jobs[k].status = "queued"
                            /\ runs[k][c].stage = "unused"
    BY <1>3, FreshTokenIsFresh DEF DueJobs
  <2>2. /\ jobs[k] \in Row
        /\ consents[k] \in Nat
        /\ runs[k] \in [Claims -> Run]
    BY DEF TypeOK
  <2>3. /\ run.stage = "claimed"
        /\ run.consent = consents[k]
        /\ run.effect = "none"
        /\ run.outcome = "none"
        /\ ~run.known
    BY DEF NoRun
  <2>4. jobs'[k] = Claimed(jobs[k], c)
    BY <1>1, <1>3, <2>1
  <2>5. /\ jobs'[k].status = "running"
        /\ jobs'[k].token = c
        /\ jobs'[k].effectDone = jobs[k].effectDone
        /\ jobs'[k].code = jobs[k].code
    BY <2>2, <2>4 DEF Claimed, Attempted, Row
  <2>6. runs'[k] = [runs[k] EXCEPT ![c] = run]
    BY <1>1, <1>3, <2>1
  <2>. HIDE DEF run
  <2>7. /\ runs'[k][c] = run
        /\ \A d \in Claims : d # c => runs'[k][d] = runs[k][d]
    BY <2>1, <2>2, <2>6
  <2>8. \A d \in Claims : /\ MayHappen(k, d)' <=> d # c /\ MayHappen(k, d)
                          /\ Happened(k, d)' <=> d # c /\ Happened(k, d)
    BY <2>3, <2>7 DEF MayHappen, Happened
  <2>9. ~Happened(k, c)
    BY <2>1 DEF JobInv, IsHonest, Happened
  <2>10. \A d \in Claims : ~Open(k, d)
    BY <2>1, NothingOpen
  <2>11. \A d \in Claims : ~Open(k, d)'
    <3>. SUFFICES ASSUME NEW d \in Claims
                  PROVE  ~Open(k, d)'
      OBVIOUS
    <3>1. CASE d = c
      BY <2>8, <3>1 DEF Open
    <3>2. CASE d # c
      BY <2>7, <2>8, <2>10, <3>2, <1>2 DEF Open
    <3>. QED
      BY <3>1, <3>2
  <2>12. \A d \in Claims : IsHonest(runs'[k][d], consents'[k])
    <3>1. IsHonest(run, consents[k])
      BY <2>1, <2>2, <2>3 DEF JobInv, IsHonest
    <3>. QED
      BY <3>1, <2>7, <1>2 DEF JobInv
  <2>13. /\ consents'[k] >= 1
         /\ k \notin undone'
    BY <2>1, <1>2 DEF JobInv
  <2>14. Labelled(jobs'[k]) => \E d \in Claims : Happened(k, d)'
    BY <2>5, <2>8, <2>9 DEF JobInv, Labelled
  <2>15. \A d, e \in Claims :
           d # e /\ MayHappen(k, d)' /\ MayHappen(k, e)' =>
             runs'[k][d].consent # runs'[k][e].consent
    BY <2>7, <2>8 DEF JobInv
  <2>16. jobs'[k].status = "running" =>
           /\ jobs'[k].token \in Claims
           /\ runs'[k][jobs'[k].token].stage # "unused"
           /\ runs'[k][jobs'[k].token].consent = consents'[k]
    BY <2>1, <2>3, <2>5, <2>7, <1>2
  <2>. QED
    BY <2>11, <2>12, <2>13, <2>14, <2>15, <2>16 DEF JobInv, Labelled
<1>4. CASE k \notin S
  <2>1. jobs'[k] = jobs[k] /\ runs'[k] = runs[k]
    BY <1>1, <1>4
  <2>. QED
    BY <1>2, <2>1, Untouched
<1>. QED
  BY <1>3, <1>4

\* A claim given back was of a run whose handler was never called.
LEMMA ReleaseInv ==
  ASSUME TypeOK, \A k \in Jobs : JobInv(k), NEW w \in Workers, ReleaseClaims(w)
  PROVE  \A k \in Jobs : JobInv(k)'
<1>. SUFFICES ASSUME NEW k \in Jobs
              PROVE  JobInv(k)'
  OBVIOUS
<1>1. /\ runs' = EndRuns(ClaimInFlight(w))
      /\ consents' = consents
      /\ undone' = undone
      /\ \/ jobs'[k] = jobs[k]
         \/ /\ jobs'[k] = Released(jobs[k])
            /\ jobs[k].status = "running"
            /\ ~jobs[k].effectStarted
  BY DEF ReleaseClaims, HoldsClaim
<1>2. /\ jobs[k] \in Row
      /\ consents'[k] \in Nat
      /\ consents'[k] >= consents[k]
  BY <1>1 DEF TypeOK
<1>3. \A c \in Claims :
        \/ runs'[k][c] = runs[k][c]
        \/ runs[k][c].stage # "unused" /\ runs'[k][c] = EndedRun(runs[k][c])
  BY <1>1 DEF EndRuns, ClaimInFlight
<1>4. \A c \in Claims : RunKept(k, c)
  BY <1>2, <1>3, EndingKeepsRuns
<1>5. CASE jobs'[k] = jobs[k]
  BY <1>1, <1>4, <1>5, Unmoved
<1>6. CASE /\ jobs'[k] = Released(jobs[k])
           /\ jobs[k].status = "running"
           /\ ~jobs[k].effectStarted
  <2>. DEFINE given == AttemptGivenBack(jobs[k])
  <2>1. /\ given \in Row
        /\ given.effectDone = jobs[k].effectDone
        /\ given.code = jobs[k].code
    BY <1>2 DEF AttemptGivenBack, Row
  <2>2. jobs'[k] = [Unclaimed(given) EXCEPT !.status = "queued"]
    BY <1>6 DEF Released
  <2>. HIDE DEF given
  <2>3. /\ jobs'[k].status = "queued"
        /\ Labelled(jobs'[k]) => Labelled(jobs[k])
    BY <2>1, <2>2 DEF Unclaimed, Row, Labelled
  <2>4. \A c \in Claims : ~Open(k, c)
    BY <1>6, NothingOpen
  <2>5. \A c \in Claims : ~Open(k, c)'
    BY <2>4, <1>1, <1>4 DEF RunKept, Open
  <2>6. consents'[k] >= 1 /\ k \notin undone'
    BY <1>1, <1>6 DEF JobInv
  <2>. QED
    BY <1>2, <1>4, <2>3, <2>5, <2>6, Moved
<1>. QED
  BY <1>1, <1>5, <1>6

\* What a worker process does keeps the invariant. (jobQueue.js:367-395, 453-532)
LEMMA WorkerStepInv ==
  ASSUME TypeOK, \A k \in Jobs : JobInv(k), NEW w \in Workers, WorkerStep(w)
  PROVE  \A k \in Jobs : JobInv(k)'
<1>1. CASE SweepExpiredLeases(w)
  BY <1>1, SweepInv
<1>2. CASE ClaimDueJobs(w)
  BY <1>2, ClaimInv
<1>3. CASE StartRuns(w)
  <2>. SUFFICES ASSUME NEW k \in Jobs
                PROVE  JobInv(k)'
    OBVIOUS
  <2>1. jobs' = jobs /\ consents' = consents /\ undone' = undone
    BY <1>3 DEF StartRuns
  <2>2. ASSUME NEW c \in Claims
        PROVE  RunKept(k, c)
    <3>. DEFINE run == runs[k][c]
                started == [run EXCEPT !.stage = "handling", !.ran = TRUE]
    <3>1. run \in Run /\ IsHonest(run, consents[k])
      BY DEF TypeOK, JobInv
    <3>2. \/ runs'[k][c] = run
          \/ runs'[k][c] = started /\ run.stage = "claimed"
      BY <1>3 DEF StartRuns, ClaimInFlight
    <3>3. /\ started.stage = "handling"
          /\ started.consent = run.consent
          /\ started.effect = run.effect
          /\ started.outcome = run.outcome
          /\ started.known = run.known
      BY <3>1 DEF Run
    <3>. HIDE DEF started
    <3>4. /\ runs'[k][c].consent = run.consent
          /\ runs'[k][c].effect = run.effect
          /\ runs'[k][c].stage = "unused" <=> run.stage = "unused"
      BY <3>2, <3>3
    <3>5. IsHonest(runs'[k][c], consents[k])
      BY <3>1, <3>2, <3>3 DEF IsHonest
    <3>. QED
      BY <2>1, <3>4, <3>5 DEF RunKept, MayHappen, Happened
  <2>. QED
    BY <2>1, <2>2, Unmoved
<1>4. CASE ReleaseClaims(w)
  BY <1>4, ReleaseInv
<1>5. CASE ClaimReplyLost(w)
  BY <1>5, EndRunsInv DEF ClaimReplyLost, ClaimInFlight, RunsOf
<1>6. CASE StopWorker(w) \/ StartWorker(w)
  BY <1>6, Untouched DEF StopWorker, StartWorker
<1>7. CASE ExitWorker(w) \/ CrashWorker(w)
  BY <1>7, EndRunsInv DEF ExitWorker, CrashWorker, RunsOf
<1>. QED
  BY <1>1, <1>2, <1>3, <1>4, <1>5, <1>6, <1>7 DEF WorkerStep

\* A step of one run that forgets no effect, begins none and stays honest.
LEMMA OneRunKept ==
  ASSUME TypeOK, NEW j \in Jobs, NEW c \in Claims, NEW run, JobInv(j), SetRun(j, c, run),
         consents'[j] = consents[j],
         run.consent = runs[j][c].consent,
         run.stage # "unused", runs[j][c].stage # "unused",
         run.effect = "started" => MayHappen(j, c),
         run.effect \in {"happened", "answered"} => MayHappen(j, c),
         Happened(j, c) => run.effect \in {"happened", "answered"},
         IsHonest(run, consents[j])
  PROVE  \A d \in Claims : RunKept(j, d)
<1>. SUFFICES ASSUME NEW d \in Claims
              PROVE  RunKept(j, d)
  OBVIOUS
<1>1. runs'[j] = [runs[j] EXCEPT ![c] = run] /\ runs[j] \in [Claims -> Run]
  BY DEF SetRun, TypeOK
<1>2. CASE d = c
  <2>1. runs'[j][d] = run
    BY <1>1, <1>2
  <2>. QED
    BY <1>2, <2>1 DEF RunKept, MayHappen, Happened
<1>3. CASE d # c
  <2>1. runs'[j][d] = runs[j][d]
    BY <1>1, <1>3
  <2>. QED
    BY <2>1 DEF RunKept, MayHappen, Happened, JobInv
<1>. QED
  BY <1>2, <1>3

\* A step of one run that leaves its job in the place it is.
LEMMA OneRunInv ==
  ASSUME TypeOK, \A k \in Jobs : JobInv(k), NEW j \in Jobs, NEW c \in Claims, NEW run,
         SetRun(j, c, run), \A d \in Claims : RunKept(j, d),
         UNCHANGED <<consents, undone>>,
         \A k \in Jobs : k # j => jobs'[k] = jobs[k],
         jobs'[j] = jobs[j] \/ JobInv(j)'
  PROVE  \A k \in Jobs : JobInv(k)'
<1>1. ASSUME NEW k \in Jobs, k # j
      PROVE  JobInv(k)'
  <2>1. runs'[k] = runs[k]
    BY <1>1 DEF SetRun, TypeOK
  <2>. QED
    BY <1>1, <2>1, Untouched
<1>2. CASE jobs'[j] = jobs[j]
  BY <1>1, <1>2, Unmoved
<1>. QED
  BY <1>1, <1>2

\* The effect begins in the hands of the claim's holder: no other effect of the job is open
\* under the latest consent.
LEMMA MarkEffectStartedInv ==
  ASSUME TypeOK, NEW j \in Jobs, NEW c \in Claims, JobInv(j),
         MarkEffectStarted(j, c), HoldsClaim(j, c)
  PROVE  JobInv(j)'
<1>. DEFINE run == [runs[j][c] EXCEPT !.stage = "effect", !.effect = "started"]
<1>1. /\ jobs[j] \in Row
      /\ runs[j] \in [Claims -> Run]
      /\ runs[j][c] \in Run
      /\ consents[j] \in Nat
  BY DEF TypeOK
<1>2. /\ jobs'[j] = [jobs[j] EXCEPT !.effectStarted = TRUE]
      /\ runs'[j] = [runs[j] EXCEPT ![c] = run]
      /\ consents' = consents
      /\ undone' = undone
      /\ runs[j][c].stage = "handling"
      /\ jobs[j].status = "running"
      /\ jobs[j].token = c
  BY DEF MarkEffectStarted, HoldsClaim, SetRow, SetRun, TypeOK
<1>3. /\ run.stage = "effect"
      /\ run.effect = "started"
      /\ run.consent = runs[j][c].consent
      /\ run.outcome = runs[j][c].outcome
      /\ run.known = runs[j][c].known
  BY <1>1 DEF Run
<1>. HIDE DEF run
<1>4. /\ jobs'[j].status = "running"
      /\ jobs'[j].token = c
      /\ jobs'[j].effectStarted
      /\ jobs'[j].effectDone = jobs[j].effectDone
      /\ jobs'[j].code = jobs[j].code
  BY <1>1, <1>2 DEF Row
<1>5. /\ runs'[j][c] = run
      /\ \A d \in Claims : d # c => runs'[j][d] = runs[j][d]
  BY <1>1, <1>2
<1>6. \A d \in Claims : ~Open(j, d)
  <2>1. ~MayHappen(j, c)
    BY <1>2 DEF JobInv, IsHonest, MayHappen, Happened
  <2>2. \A d \in Claims : d # c => ~Open(j, d)
    BY <1>2 DEF JobInv, IsGuarded
  <2>. QED
    BY <2>1, <2>2 DEF Open
<1>7. run.consent = consents[j]
  BY <1>2, <1>3 DEF JobInv
<1>8. \A d \in Claims : d # c => /\ MayHappen(j, d)' <=> MayHappen(j, d)
                                /\ Happened(j, d)' <=> Happened(j, d)
  BY <1>5 DEF MayHappen, Happened
<1>9. \A d \in Claims : Open(j, d)' => IsGuarded(j, d)'
  <2>. SUFFICES ASSUME NEW d \in Claims, Open(j, d)'
                PROVE  d = c
    BY <1>4 DEF IsGuarded
  <2>. QED
    BY <1>2, <1>5, <1>6 DEF Open, MayHappen, Happened
<1>10. \A d \in Claims : IsHonest(runs'[j][d], consents'[j])
  <2>1. IsHonest(runs[j][c], consents[j]) /\ ~runs[j][c].known
    BY <1>2 DEF JobInv, IsHonest
  <2>2. runs[j][c].outcome = "none"
    BY <1>2 DEF JobInv, IsHonest
  <2>3. IsHonest(run, consents[j])
    BY <2>1, <2>2, <1>2, <1>3 DEF IsHonest
  <2>. QED
    BY <2>3, <1>2, <1>5 DEF JobInv
<1>11. \A d, e \in Claims :
         d # e /\ MayHappen(j, d)' /\ MayHappen(j, e)' =>
           runs'[j][d].consent # runs'[j][e].consent
  <2>. SUFFICES ASSUME NEW d \in Claims, NEW e \in Claims, d # e,
                       MayHappen(j, d)', MayHappen(j, e)'
                PROVE  runs'[j][d].consent # runs'[j][e].consent
    OBVIOUS
  <2>1. CASE d # c /\ e # c
    BY <2>1, <1>5 DEF JobInv, MayHappen, Happened
  <2>2. CASE d = c
    BY <2>2, <1>3, <1>5, <1>6, <1>7 DEF Open, MayHappen, Happened
  <2>3. CASE e = c
    BY <2>3, <1>3, <1>5, <1>6, <1>7 DEF Open, MayHappen, Happened
  <2>. QED
    BY <2>1, <2>2, <2>3
<1>12. Labelled(jobs'[j]) => \E d \in Claims : Happened(j, d)'
  <2>1. ~Happened(j, c)
    BY <1>2 DEF JobInv, IsHonest, Happened
  <2>. QED
    BY <2>1, <1>4, <1>8 DEF JobInv, Labelled
<1>13. /\ jobs'[j].token \in Claims
       /\ runs'[j][jobs'[j].token].stage # "unused"
       /\ runs'[j][jobs'[j].token].consent = consents'[j]
  BY <1>2, <1>3, <1>4, <1>5, <1>7
<1>14. consents'[j] >= 1 /\ j \notin undone'
  BY <1>2 DEF JobInv
<1>. QED
  BY <1>9, <1>10, <1>11, <1>12, <1>13, <1>14 DEF JobInv, Labelled

\* The mark whose reply is lost: the run knows that it began nothing.
LEMMA MarkEffectReplyLostInv ==
  ASSUME TypeOK, NEW j \in Jobs, NEW c \in Claims, JobInv(j), MarkEffectReplyLost(j, c)
  PROVE  JobInv(j)' /\ \A d \in Claims : RunKept(j, d)
<1>. DEFINE run == [runs[j][c] EXCEPT !.stage = "settling", !.outcome = "retry"]
<1>1. /\ jobs[j] \in Row
      /\ runs[j] \in [Claims -> Run]
      /\ runs[j][c] \in Run
  BY DEF TypeOK
<1>2. /\ jobs'[j] = [jobs[j] EXCEPT !.effectStarted = TRUE]
      /\ SetRun(j, c, run)
      /\ consents' = consents
      /\ undone' = undone
      /\ runs[j][c].stage = "handling"
      /\ jobs[j].status = "running"
      /\ jobs[j].token = c
  BY DEF MarkEffectReplyLost, HoldsClaim, SetRow, TypeOK
<1>3. /\ run.stage = "settling"
      /\ run.effect = runs[j][c].effect
      /\ run.consent = runs[j][c].consent
      /\ run.outcome = "retry"
      /\ run.known = runs[j][c].known
  BY <1>1 DEF Run
<1>. HIDE DEF run
<1>4. /\ jobs'[j].status = "running"
      /\ jobs'[j].token = c
      /\ jobs'[j].effectDone = jobs[j].effectDone
      /\ jobs'[j].code = jobs[j].code
  BY <1>1, <1>2 DEF Row
<1>5. runs[j][c].effect = "none"
  BY <1>2 DEF JobInv, IsHonest
<1>6. IsHonest(run, consents[j])
  BY <1>2, <1>3, <1>5 DEF JobInv, IsHonest
<1>7. \A d \in Claims : RunKept(j, d)
  BY <1>2, <1>3, <1>5, <1>6, OneRunKept DEF MayHappen, Happened
<1>8. \A d \in Claims : ~Open(j, d)
  <2>1. \A d \in Claims : d # c => ~Open(j, d)
    BY <1>2 DEF JobInv, IsGuarded
  <2>. QED
    BY <2>1, <1>5 DEF Open, MayHappen, Happened
<1>9. \A d \in Claims : ~Open(j, d)'
  BY <1>2, <1>7, <1>8 DEF RunKept, Open
<1>10. \A d, e \in Claims :
         d # e /\ MayHappen(j, d)' /\ MayHappen(j, e)' =>
           runs'[j][d].consent # runs'[j][e].consent
  BY <1>7 DEF JobInv, RunKept
<1>11. Labelled(jobs'[j]) => \E d \in Claims : Happened(j, d)'
  BY <1>4, <1>7 DEF JobInv, RunKept, Labelled
<1>12. /\ jobs'[j].token \in Claims
       /\ runs'[j][jobs'[j].token].stage # "unused"
       /\ runs'[j][jobs'[j].token].consent = consents'[j]
  BY <1>2, <1>4, <1>7 DEF JobInv, RunKept
<1>13. /\ \A d \in Claims : IsHonest(runs'[j][d], consents'[j])
       /\ consents'[j] >= 1
       /\ j \notin undone'
  BY <1>2, <1>7 DEF JobInv, RunKept
<1>. QED
  BY <1>4, <1>7, <1>9, <1>10, <1>11, <1>12, <1>13 DEF JobInv, Labelled

\* A holder that settles its job for a retry or a failure leaves no effect open: its own did
\* not happen, and nobody else's could begin.
LEMMA SettleLeavesNothingOpen ==
  ASSUME TypeOK, NEW j \in Jobs, NEW c \in Claims, JobInv(j), HoldsClaim(j, c),
         runs[j][c].outcome \in {"retry", "fail"}
  PROVE  \A d \in Claims : ~Open(j, d)
<1>1. ~Open(j, c)
  BY DEF JobInv, IsHonest, Open, MayHappen, Happened
<1>2. \A d \in Claims : d # c => ~Open(j, d)
  BY DEF HoldsClaim, JobInv, IsGuarded
<1>. QED
  BY <1>1, <1>2

\* The end of a run, with its job moved or left alone.
LEMMA EndRunKept ==
  ASSUME TypeOK, NEW j \in Jobs, NEW c \in Claims, JobInv(j), runs[j][c].stage # "unused",
         SetRun(j, c, EndedRun(runs[j][c])), consents' = consents
  PROVE  \A d \in Claims : RunKept(j, d)
<1>1. consents'[j] \in Nat /\ consents'[j] >= consents[j]
  BY DEF TypeOK
<1>2. \A d \in Claims : \/ runs'[j][d] = runs[j][d]
                        \/ d = c /\ runs'[j][d] = EndedRun(runs[j][d])
  BY DEF SetRun, TypeOK
<1>. QED
  BY <1>1, <1>2, EndingKeepsRuns

\* What runJob and its ctx do keeps the invariant, with or without the claim.
\* (jobQueue.js:294-365)
LEMMA RunStepInv ==
  ASSUME TypeOK, \A k \in Jobs : JobInv(k), NEW j \in Jobs, NEW c \in Claims, RunStep(j, c)
  PROVE  \A k \in Jobs : JobInv(k)'
<1>. DEFINE run == runs[j][c]
<1>1. /\ jobs[j] \in Row
      /\ run \in Run
      /\ consents[j] \in Nat
      /\ JobInv(j)
      /\ IsHonest(run, consents[j])
  BY DEF TypeOK, JobInv
<1>2. UNCHANGED <<consents, undone>>
  BY DEF RunStep, RenewLease, MarkEffectStarted, MarkEffectReplyLost, EffectHappens,
         EffectAnswered, MarkEffectDone, Complete, CompleteReplyLost, Throw, SettleFailure,
         SettleGivesUp
<1>3. consents'[j] = consents[j] /\ (j \in undone' <=> j \in undone)
  BY <1>2
<1>4. ASSUME NEW r, SetRow(j, r)
      PROVE  jobs'[j] = r /\ \A k \in Jobs : k # j => jobs'[k] = jobs[k]
  BY <1>4 DEF SetRow, TypeOK
<1>5. jobs[j].status = "running" => consents'[j] \in Nat /\ consents'[j] >= 1 /\ j \notin undone'
  BY <1>1, <1>2 DEF JobInv
<1>6. CASE RenewLease(j, c)
  <2>. DEFINE r == [jobs[j] EXCEPT !.lease = TRUE]
  <2>1. /\ r.status = jobs[j].status
        /\ r.token = jobs[j].token
        /\ r.effectStarted = jobs[j].effectStarted
        /\ Labelled(r) => Labelled(jobs[j])
    BY <1>1 DEF Row, Labelled
  <2>2. SetRow(j, r) /\ UNCHANGED runs
    BY <1>6 DEF RenewLease
  <2>. HIDE DEF r
  <2>. QED
    BY <1>2, <2>1, <2>2, RowWritten
<1>7. CASE MarkEffectStarted(j, c)
  <2>1. CASE HoldsClaim(j, c)
    <3>1. JobInv(j)'
      BY <1>1, <1>7, <2>1, MarkEffectStartedInv
    <3>2. ASSUME NEW k \in Jobs, k # j
          PROVE  JobInv(k)'
      <4>1. jobs'[k] = jobs[k] /\ runs'[k] = runs[k]
        BY <1>7, <2>1, <3>2 DEF MarkEffectStarted, SetRow, SetRun, TypeOK
      <4>. QED
        BY <1>2, <4>1, Untouched
    <3>. QED
      BY <3>1, <3>2
  <2>2. CASE ~HoldsClaim(j, c)
    <3>1. /\ SetRun(j, c, EndedRun(run))
          /\ run.stage # "unused"
          /\ UNCHANGED jobs
      BY <1>7, <2>2 DEF MarkEffectStarted
    <3>2. \A d \in Claims : RunKept(j, d)
      BY <1>1, <1>2, <3>1, EndRunKept
    <3>. QED
      BY <1>2, <3>1, <3>2, OneRunInv
  <2>. QED
    BY <2>1, <2>2
<1>8. CASE MarkEffectReplyLost(j, c)
  <2>1. JobInv(j)' /\ \A d \in Claims : RunKept(j, d)
    BY <1>1, <1>8, MarkEffectReplyLostInv
  <2>2. PICK r \in {[run EXCEPT !.stage = "settling", !.outcome = "retry"]} : SetRun(j, c, r)
    BY <1>8 DEF MarkEffectReplyLost
  <2>3. \A k \in Jobs : k # j => jobs'[k] = jobs[k]
    BY <1>4, <1>8 DEF MarkEffectReplyLost
  <2>. QED
    BY <1>2, <2>1, <2>2, <2>3, OneRunInv
<1>9. CASE EffectHappens(j, c) \/ EffectAnswered(j, c)
  <2>1. PICK e \in {"happened", "answered", "averted"} :
          /\ SetRun(j, c, [run EXCEPT !.effect = e])
          /\ e = "averted" => run.effect = "started"
          /\ run.effect \in {"started", "happened"}
          /\ UNCHANGED jobs
    BY <1>9 DEF EffectHappens, EffectAnswered
  <2>. DEFINE r == [run EXCEPT !.effect = e]
  <2>2. /\ r.stage = run.stage
        /\ r.effect = e
        /\ r.consent = run.consent
        /\ r.outcome = run.outcome
        /\ r.known = run.known
    BY <1>1 DEF Run
  <2>. HIDE DEF r
  <2>3. run.stage # "unused"
    BY <1>1, <2>1 DEF IsHonest
  <2>4. /\ IsHonest(r, consents[j])
        /\ Happened(j, c) => r.effect \in {"happened", "answered"}
        /\ MayHappen(j, c)
    BY <1>1, <2>1, <2>2 DEF IsHonest, Happened, MayHappen
  <2>5. SetRun(j, c, r)
    BY <2>1 DEF r
  <2>6. \A d \in Claims : RunKept(j, d)
    BY <1>1, <1>3, <2>2, <2>3, <2>4, <2>5, OneRunKept
  <2>. QED
    BY <1>2, <2>1, <2>5, <2>6, OneRunInv
<1>10. CASE MarkEffectDone(j, c)
  <2>. DEFINE r == [jobs[j] EXCEPT !.effectDone = TRUE]
  <2>1. /\ r.status = jobs[j].status
        /\ r.token = jobs[j].token
        /\ r.effectStarted = jobs[j].effectStarted
    BY <1>1 DEF Row
  <2>2. SetRow(j, r) /\ UNCHANGED runs /\ Happened(j, c)
    BY <1>10 DEF MarkEffectDone, Happened
  <2>. HIDE DEF r
  <2>. QED
    BY <1>2, <2>1, <2>2, RowWritten
<1>11. CASE Complete(j, c)
  <2>1. /\ SetRun(j, c, EndedRun(run))
        /\ run.stage # "unused"
    BY <1>11 DEF Complete, MayComplete
  <2>2. \A d \in Claims : RunKept(j, d)
    BY <1>1, <1>2, <2>1, EndRunKept
  <2>3. \/ jobs'[j] = jobs[j]
        \/ jobs'[j] = Completed(jobs[j]) /\ jobs[j].status = "running"
    BY <1>4, <1>11 DEF Complete, HoldsClaim
  <2>4. ASSUME jobs'[j] = Completed(jobs[j]), jobs[j].status = "running"
        PROVE  JobInv(j)'
    <3>1. /\ jobs'[j].status = "done"
          /\ Labelled(jobs'[j]) => Labelled(jobs[j])
      BY <1>1, <2>4 DEF Completed, Unclaimed, Row, Labelled
    <3>. QED
      BY <1>1, <1>5, <2>2, <2>4, <3>1, Moved
  <2>5. \A k \in Jobs : k # j => jobs'[k] = jobs[k]
    BY <1>4, <1>11 DEF Complete
  <2>. QED
    BY <1>2, <2>1, <2>2, <2>3, <2>4, <2>5, OneRunInv
<1>12. CASE CompleteReplyLost(j, c)
  <2>1. PICK o \in {"retry", "needs_attention"} :
          /\ SetRun(j, c, [run EXCEPT !.stage = "settling", !.outcome = o])
          /\ run.stage \in {"handling", "effect"}
          /\ o = "retry" => run.stage = "handling"
    BY <1>12 DEF CompleteReplyLost, MayComplete
  <2>. DEFINE r == [run EXCEPT !.stage = "settling", !.outcome = o]
  <2>2. /\ r.stage = "settling"
        /\ r.effect = run.effect
        /\ r.consent = run.consent
        /\ r.outcome = o
        /\ r.known = run.known
    BY <1>1 DEF Run
  <2>. HIDE DEF r
  <2>3. /\ IsHonest(r, consents[j])
        /\ Happened(j, c) <=> r.effect \in {"happened", "answered"}
        /\ r.effect = "started" => MayHappen(j, c)
    BY <1>1, <2>1, <2>2 DEF IsHonest, Happened, MayHappen
  <2>4. SetRun(j, c, r)
    BY <2>1 DEF r
  <2>5. \A d \in Claims : RunKept(j, d)
    BY <1>1, <1>3, <2>1, <2>2, <2>3, <2>4, OneRunKept DEF MayHappen
  <2>6. /\ jobs'[j] = Completed(jobs[j])
        /\ jobs[j].status = "running"
        /\ \A k \in Jobs : k # j => jobs'[k] = jobs[k]
    BY <1>4, <1>12 DEF CompleteReplyLost, HoldsClaim
  <2>7. /\ jobs'[j].status = "done"
        /\ Labelled(jobs'[j]) => Labelled(jobs[j])
    BY <1>1, <2>6 DEF Completed, Unclaimed, Row, Labelled
  <2>8. JobInv(j)'
    BY <1>1, <1>5, <2>5, <2>6, <2>7, Moved
  <2>. QED
    BY <1>2, <2>4, <2>5, <2>6, <2>8, OneRunInv
<1>13. CASE Throw(j, c)
  <2>1. PICK error \in Throwable(j, c) :
          SetRun(j, c, [run EXCEPT !.stage = "settling", !.outcome = error.outcome,
                                   !.known = error.known])
    BY <1>13 DEF Throw
  <2>2. run.stage \in {"handling", "effect"} /\ UNCHANGED jobs
    BY <1>13 DEF Throw
  <2>. DEFINE r == [run EXCEPT !.stage = "settling", !.outcome = error.outcome,
                               !.known = error.known]
  <2>3. /\ r.stage = "settling"
        /\ r.effect = run.effect
        /\ r.consent = run.consent
        /\ r.outcome = error.outcome
        /\ r.known = error.known
    BY <1>1 DEF Run
  <2>. HIDE DEF r
  <2>4. /\ error.outcome # "none"
        /\ error.outcome \in {"retry", "fail"} => ~MayHappen(j, c)
        /\ error.known => Happened(j, c)
    BY DEF Throwable, Happened
  <2>5. run.effect \in Effects
    BY <1>1 DEF Run
  <2>6. /\ IsHonest(r, consents[j])
        /\ Happened(j, c) <=> r.effect \in {"happened", "answered"}
        /\ r.effect = "started" => MayHappen(j, c)
    BY <1>1, <2>2, <2>3, <2>4, <2>5 DEF IsHonest, Happened, MayHappen, Effects
  <2>7. SetRun(j, c, r)
    BY <2>1 DEF r
  <2>8. \A d \in Claims : RunKept(j, d)
    BY <1>1, <1>3, <2>2, <2>3, <2>6, <2>7, OneRunKept DEF MayHappen
  <2>. QED
    BY <1>2, <2>2, <2>7, <2>8, OneRunInv
<1>14. CASE SettleFailure(j, c)
  <2>1. /\ SetRun(j, c, EndedRun(run))
        /\ run.stage = "settling"
    BY <1>14 DEF SettleFailure
  <2>2. \A d \in Claims : RunKept(j, d)
    BY <1>1, <1>2, <2>1, EndRunKept
  <2>. DEFINE code == IF run.known THEN "effect_done" ELSE "other"
  <2>3. \/ jobs'[j] = jobs[j]
        \/ jobs'[j] = Settled(jobs[j], run.outcome, code) /\ HoldsClaim(j, c)
    BY <1>4, <1>14 DEF SettleFailure
  <2>4. ASSUME jobs'[j] = Settled(jobs[j], run.outcome, code), HoldsClaim(j, c)
        PROVE  JobInv(j)'
    <3>1. run.outcome \in {"retry", "fail", "needs_attention"} /\ code \in Codes
      BY <1>1, <2>1 DEF IsHonest, Run, Outcomes, Codes
    <3>2. /\ jobs'[j].effectDone = jobs[j].effectDone
          /\ jobs'[j].code = code
          /\ jobs'[j].status \in {"queued", "failed", "needs_attention"}
          /\ run.outcome = "needs_attention" => jobs'[j].status = "needs_attention"
      BY <1>1, <2>4, <3>1 DEF Settled, SettledStatus, OutcomeOf, Unclaimed, Row, Codes
    <3>3. Labelled(jobs'[j]) => Labelled(jobs[j]) \/ Happened(j, c)
      BY <1>1, <3>2 DEF Labelled, IsHonest, Happened
    <3>4. \/ \A d \in Claims : ~Open(j, d)'
          \/ jobs'[j].status = "needs_attention"
      <4>1. CASE run.outcome \in {"retry", "fail"}
        <5>1. \A d \in Claims : ~Open(j, d)
          BY <1>1, <2>4, <4>1, SettleLeavesNothingOpen
        <5>. QED
          BY <5>1, <1>3, <2>2 DEF RunKept, Open
      <4>. QED
        BY <4>1, <3>1, <3>2
    <3>5. jobs[j].status = "running"
      BY <2>4 DEF HoldsClaim
    <3>. QED
      BY <1>1, <1>5, <2>2, <3>2, <3>3, <3>4, <3>5, Moved
  <2>5. \A k \in Jobs : k # j => jobs'[k] = jobs[k]
    BY <1>4, <1>14 DEF SettleFailure
  <2>. QED
    BY <1>2, <2>1, <2>2, <2>3, <2>4, <2>5, OneRunInv
<1>15. CASE SettleGivesUp(j, c)
  <2>1. /\ SetRun(j, c, EndedRun(run))
        /\ run.stage # "unused"
        /\ UNCHANGED jobs
    BY <1>15 DEF SettleGivesUp
  <2>2. \A d \in Claims : RunKept(j, d)
    BY <1>1, <1>2, <2>1, EndRunKept
  <2>. QED
    BY <1>2, <2>1, <2>2, OneRunInv
<1>. QED
  BY <1>6, <1>7, <1>8, <1>9, <1>10, <1>11, <1>12, <1>13, <1>14, <1>15 DEF RunStep

-------------------------------------------------------------------------------
(* The invariant and what follows from it *)

\* The invariant holds of an empty table.
LEMMA IndInvInit == Init => IndInv
<1>. SUFFICES ASSUME Init
              PROVE  TypeOK /\ \A j \in Jobs : JobInv(j)
  BY IndInvOfJobs DEF JobsInv
<1>1. TypeOK
  BY TypeInit
<1>2. ASSUME NEW j \in Jobs
      PROVE  JobInv(j)
  <2>1. /\ jobs[j] = NoRow
        /\ consents[j] = 0
        /\ undone = {}
        /\ \A c \in Claims : runs[j][c] = NoRun
    BY DEF Init
  <2>2. /\ NoRow.status = "absent"
        /\ ~Labelled(NoRow)
        /\ NoRun.stage = "unused"
        /\ NoRun.effect = "none"
        /\ NoRun.outcome = "none"
        /\ NoRun.consent = 0
        /\ ~NoRun.known
    BY DEF NoRow, NoRun, Labelled
  <2>3. \A c \in Claims : ~MayHappen(j, c) /\ IsHonest(runs[j][c], consents[j])
    BY <2>1, <2>2 DEF MayHappen, Happened, IsHonest
  <2>. QED
    BY <2>1, <2>2, <2>3 DEF JobInv, Open
<1>. QED
  BY <1>1, <1>2

\* Every step of the queue keeps the invariant.
LEMMA IndInvStep == TypeOK' /\ IndInv /\ [Next]_vars => IndInv'
<1>. SUFFICES ASSUME TypeOK', IndInv, [Next]_vars
              PROVE  IndInv'
  OBVIOUS
<1>1. TypeOK /\ \A k \in Jobs : JobInv(k)
  BY IndInvOfJobs DEF JobsInv
<1>2. \A k \in Jobs : JobInv(k)'
  <2>1. CASE \E j \in Jobs : ClientStep(j) \/ TimeStep(j)
    BY <1>1, <2>1, ClientStepInv, TimeStepInv
  <2>2. CASE \E S \in SUBSET Jobs : FailJobsOfDeletedAccount(S)
    BY <1>1, <2>2, FailJobsInv
  <2>3. CASE \E w \in Workers : WorkerStep(w)
    BY <1>1, <2>3, WorkerStepInv
  <2>4. CASE \E j \in Jobs, c \in Claims : RunStep(j, c)
    BY <1>1, <2>4, RunStepInv
  <2>5. CASE UNCHANGED vars
    BY <1>1, <2>5, Untouched DEF vars
  <2>. QED
    BY <2>1, <2>2, <2>3, <2>4, <2>5 DEF Next
<1>3. JobsInv'
  BY <1>2 DEF JobsInv
<1>. QED
  BY <1>3, IndInvOfJobs, PTL

\* The inductive invariant, for every number of jobs, workers, claims and attempts.
THEOREM Invariance == Spec => []IndInv
BY IndInvInit, IndInvStep, TypeCorrect, PTL DEF Spec

\* Two effects of one job never happen under the same consent, whatever stalls, crashes, lost
\* replies and resends came between: the guarantee of markEffectStarted. (jobQueue.js:19-21)
THEOREM EffectAtMostOnce == Spec => []AtMostOncePerConsent
BY Invariance, PTL DEF IndInv

\* A job taken back before its effect began never has it. (cancelJob, jobQueue.js:160-171)
THEOREM UndoHolds == Spec => []UndoneNeverHappens
<1>1. IndInv => UndoneNeverHappens
  BY DEF IndInv, TypeOK, UndoneIsOver, EffectIsGuarded, IsGuarded, UndoneNeverHappens
<1>. QED
  BY <1>1, Invariance, PTL

\* What is listed as waiting or as failed was not sent. (jobQueue.js:241-268, 372-395)
THEOREM UnsentIsUnsent == Spec => []WaitingOrFailedHasNoEffect
<1>1. IndInv => WaitingOrFailedHasNoEffect
  BY DEF IndInv, EffectIsGuarded, IsGuarded, WaitingOrFailedHasNoEffect
<1>. QED
  BY <1>1, Invariance, PTL

\* A job labelled as having had its effect had it, although markEffectDone checks no claim.
\* (jobQueue.js:313-328)
THEOREM LabelIsTrue == Spec => []DoneLabelIsTrue
BY Invariance, PTL DEF IndInv

-------------------------------------------------------------------------------
(* The writes of a row *)

\* The columns that say where a job is, apart from times and marks.
SamePlace(row, next) ==
  /\ next.status = row.status
  /\ next.token = row.token
  /\ next.attempts = row.attempts
  /\ next.code = row.code

\* The writes of others than the job's own run.
ClientWrites(row, next) ==
  \/ row.status = "absent" /\ next = Enqueued
  \/ row.status \in Cancellable /\ next = Cancelled(row)
  \/ row.status \in Cancellable /\ row.code # "effect_done" /\ next = Rescheduled(row)
  \/ row.status = "queued" /\ next = [Unclaimed(row) EXCEPT !.status = "failed", !.code = "other"]
  \/ row.status # "running" /\ next = [NoRow EXCEPT !.status = "deleted"]

WorkerWrites(row, next) ==
  \/ row.status = "queued" /\ \E c \in Claims : next = Claimed(row, c)
  \/ row.status = "running" /\ ~row.lease /\ next = Swept(row)

\* The writes under a claim: they come with the end, or the turn to its end, of the claim's run.
RunWrites(j, c) ==
  /\ HoldsClaim(j, c)
  /\ runs'[j][c] # runs[j][c]
  /\ \/ jobs'[j] = Released(jobs[j])
     \/ jobs'[j] = Completed(jobs[j])
     \/ /\ runs[j][c].stage = "settling"
        /\ jobs'[j] = Settled(jobs[j], runs[j][c].outcome,
                              IF runs[j][c].known THEN "effect_done" ELSE "other")

RowMoves(j) ==
  \/ SamePlace(jobs[j], jobs'[j])
  \/ ClientWrites(jobs[j], jobs'[j])
  \/ WorkerWrites(jobs[j], jobs'[j])
  \/ \E c \in Claims : RunWrites(j, c)

\* The clients' writes. (jobQueue.js:105-194, 397-438)
LEMMA ClientRows ==
  ASSUME TypeOK, NEW j \in Jobs, ClientStep(j), NEW k \in Jobs
  PROVE  RowMoves(k)
<1>1. CASE k # j
  BY <1>1 DEF ClientStep, EnqueueJob, CancelJob, RescheduleJob, CleanupFinishedJob, SetRow,
              TypeOK, RowMoves, SamePlace
<1>2. CASE k = j
  BY <1>2 DEF ClientStep, EnqueueJob, CancelJob, RescheduleJob, CleanupFinishedJob, SetRow,
              TypeOK, RowMoves, ClientWrites
<1>. QED
  BY <1>1, <1>2

\* Time changes no place. (jobQueue.js:367-371, 497-508)
LEMMA TimeRows ==
  ASSUME TypeOK, NEW j \in Jobs, TimeStep(j), NEW k \in Jobs
  PROVE  RowMoves(k)
<1>1. jobs[k] \in Row
  BY DEF TypeOK
<1>2. \/ jobs'[k] = jobs[k]
      \/ jobs'[k] = [jobs[k] EXCEPT !.due = TRUE]
      \/ jobs'[k] = [jobs[k] EXCEPT !.lease = FALSE]
  BY DEF TimeStep, ComesDue, LeaseRunsOut, SetRow, TypeOK
<1>. QED
  BY <1>1, <1>2 DEF RowMoves, SamePlace, Row

\* The deletion of a mailbox fails waiting jobs. (jobQueue.js:424-431)
LEMMA FailJobsRows ==
  ASSUME NEW S \in SUBSET Jobs, FailJobsOfDeletedAccount(S), NEW k \in Jobs
  PROVE  RowMoves(k)
BY DEF FailJobsOfDeletedAccount, FailedWithAccount, RowMoves, SamePlace, ClientWrites

\* A worker process takes waiting jobs, gives back its own and sweeps those whose lease ran out.
\* (jobQueue.js:196-213, 372-388, 453-474)
LEMMA WorkerRows ==
  ASSUME TypeOK, NEW w \in Workers, WorkerStep(w), NEW k \in Jobs
  PROVE  RowMoves(k)
<1>1. CASE jobs' = jobs
  BY <1>1 DEF RowMoves, SamePlace
<1>2. CASE SweepExpiredLeases(w)
  BY <1>2 DEF SweepExpiredLeases, ExpiredJobs, RowMoves, SamePlace, WorkerWrites
<1>3. CASE ClaimDueJobs(w)
  <2>1. PICK S \in SUBSET DueJobs :
          jobs'[k] = IF k \in S THEN Claimed(jobs[k], FreshToken(k)) ELSE jobs[k]
    BY <1>3 DEF ClaimDueJobs
  <2>2. CASE k \in S
    <3>1. jobs[k].status = "queued" /\ FreshToken(k) \in Claims
      BY <2>2, FreshTokenIsFresh DEF DueJobs
    <3>. QED
      BY <2>1, <2>2, <3>1 DEF RowMoves, WorkerWrites
  <2>3. CASE k \notin S
    BY <2>1, <2>3 DEF RowMoves, SamePlace
  <2>. QED
    BY <2>2, <2>3
<1>4. CASE ReleaseClaims(w)
  <2>1. CASE jobs'[k] = jobs[k]
    BY <2>1 DEF RowMoves, SamePlace
  <2>2. CASE jobs'[k] # jobs[k]
    <3>1. PICK c \in Claims : <<k, c>> \in ClaimInFlight(w) /\ HoldsClaim(k, c)
      BY <1>4, <2>2 DEF ReleaseClaims
    <3>2. jobs'[k] = Released(jobs[k])
      BY <1>4, <2>2 DEF ReleaseClaims
    <3>3. runs[k][c].stage = "claimed" /\ runs[k][c] \in Run
      BY <3>1 DEF ClaimInFlight, TypeOK
    <3>4. runs'[k][c] = EndedRun(runs[k][c])
      BY <1>4, <3>1 DEF ReleaseClaims, EndRuns
    <3>5. EndedRun(runs[k][c]).stage = "ended"
      BY <3>3 DEF EndedRun, Run
    <3>. QED
      BY <3>1, <3>2, <3>3, <3>4, <3>5 DEF RowMoves, RunWrites
  <2>. QED
    BY <2>1, <2>2
<1>. QED
  BY <1>1, <1>2, <1>3, <1>4
  DEF WorkerStep, StartRuns, ClaimReplyLost, StopWorker, StartWorker, ExitWorker, CrashWorker

\* A run writes its row's place only with its claim, and goes on or ends with it.
\* (runJob and settleFailure, jobQueue.js:241-365)
LEMMA RunRows ==
  ASSUME TypeOK, NEW j \in Jobs, NEW c \in Claims, RunStep(j, c), NEW k \in Jobs
  PROVE  RowMoves(k)
<1>. DEFINE run == runs[j][c]
<1>1. run \in Run /\ runs[j] \in [Claims -> Run] /\ jobs[j] \in Row
  BY DEF TypeOK
<1>2. CASE jobs'[k] = jobs[k]
  BY <1>2 DEF RowMoves, SamePlace
<1>3. ASSUME k # j
      PROVE  jobs'[k] = jobs[k]
  BY <1>3 DEF RunStep, RenewLease, MarkEffectStarted, MarkEffectReplyLost, EffectHappens,
              EffectAnswered, MarkEffectDone, Complete, CompleteReplyLost, Throw,
              SettleFailure, SettleGivesUp, SetRow, TypeOK
<1>4. CASE k = j /\ (\/ RenewLease(j, c)
                     \/ MarkEffectStarted(j, c)
                     \/ MarkEffectReplyLost(j, c)
                     \/ MarkEffectDone(j, c))
  <2>1. \/ jobs'[j] = jobs[j]
        \/ jobs'[j] = [jobs[j] EXCEPT !.lease = TRUE]
        \/ jobs'[j] = [jobs[j] EXCEPT !.effectStarted = TRUE]
        \/ jobs'[j] = [jobs[j] EXCEPT !.effectDone = TRUE]
    BY <1>4 DEF RenewLease, MarkEffectStarted, MarkEffectReplyLost, MarkEffectDone, SetRow,
                TypeOK
  <2>. QED
    BY <1>1, <1>4, <2>1 DEF RowMoves, SamePlace, Row
<1>5. ASSUME SetRun(j, c, EndedRun(run)), run.stage # "ended"
      PROVE  runs'[j][c] # runs[j][c]
  <2>1. runs'[j][c] = EndedRun(run)
    BY <1>5 DEF SetRun, TypeOK
  <2>2. EndedRun(run).stage = "ended"
    BY <1>1 DEF EndedRun, Run
  <2>. QED
    BY <1>5, <2>1, <2>2
<1>6. CASE k = j /\ Complete(j, c) /\ HoldsClaim(j, c)
  <2>1. jobs'[j] = Completed(jobs[j])
    BY <1>6 DEF Complete, SetRow, TypeOK
  <2>2. runs'[j][c] # runs[j][c]
    BY <1>5, <1>6 DEF Complete, MayComplete
  <2>. QED
    BY <1>6, <2>1, <2>2 DEF RowMoves, RunWrites
<1>7. CASE k = j /\ CompleteReplyLost(j, c)
  <2>1. jobs'[j] = Completed(jobs[j]) /\ HoldsClaim(j, c)
    BY <1>7 DEF CompleteReplyLost, SetRow, TypeOK
  <2>2. PICK outcome :
          runs'[j][c] = [run EXCEPT !.stage = "settling", !.outcome = outcome]
    BY <1>7 DEF CompleteReplyLost, SetRun, TypeOK
  <2>3. [run EXCEPT !.stage = "settling", !.outcome = outcome].stage = "settling"
    BY <1>1 DEF Run
  <2>4. run.stage # "settling"
    BY <1>7 DEF CompleteReplyLost, MayComplete
  <2>. QED
    BY <1>7, <2>1, <2>2, <2>3, <2>4 DEF RowMoves, RunWrites
<1>8. CASE k = j /\ SettleFailure(j, c) /\ HoldsClaim(j, c)
  <2>1. jobs'[j] = Settled(jobs[j], run.outcome,
                           IF run.known THEN "effect_done" ELSE "other")
    BY <1>8 DEF SettleFailure, SetRow, TypeOK
  <2>2. runs'[j][c] # runs[j][c]
    BY <1>5, <1>8 DEF SettleFailure
  <2>3. run.stage = "settling"
    BY <1>8 DEF SettleFailure
  <2>. QED
    BY <1>8, <2>1, <2>2, <2>3 DEF RowMoves, RunWrites
<1>9. CASE (Complete(j, c) \/ SettleFailure(j, c)) /\ ~HoldsClaim(j, c)
  <2>1. jobs'[j] = jobs[j]
    BY <1>9 DEF Complete, SettleFailure, SetRow, TypeOK
  <2>. QED
    BY <1>2, <1>3, <2>1
<1>10. CASE EffectHappens(j, c) \/ EffectAnswered(j, c) \/ Throw(j, c) \/ SettleGivesUp(j, c)
  BY <1>2, <1>10 DEF EffectHappens, EffectAnswered, Throw, SettleGivesUp
<1>. QED
  BY <1>2, <1>3, <1>4, <1>6, <1>7, <1>8, <1>9, <1>10 DEF RunStep

\* All that can happen to a row.
LEMMA RowsMove ==
  ASSUME TypeOK, [Next]_vars, NEW k \in Jobs
  PROVE  RowMoves(k)
<1>1. CASE UNCHANGED vars
  BY <1>1 DEF vars, RowMoves, SamePlace
<1>2. CASE Next
  BY <1>2, ClientRows, TimeRows, FailJobsRows, WorkerRows, RunRows DEF Next
<1>. QED
  BY <1>1, <1>2

-------------------------------------------------------------------------------
(* attempts *)

Within(row) ==
  /\ row.attempts <= MaxAttempts
  /\ row.status = "queued" => row.attempts < MaxAttempts

\* Every write keeps the attempts within their limit: the last one is never queued again, and a
\* claim given back is one that was counted.
LEMMA WritesKeepWithin ==
  ASSUME NEW row \in Row, Within(row)
  PROVE  /\ Within(Enqueued)
         /\ Within(Cancelled(row))
         /\ row.status \in Cancellable => Within(Rescheduled(row))
         /\ Within([Unclaimed(row) EXCEPT !.status = "failed", !.code = "other"])
         /\ Within([NoRow EXCEPT !.status = "deleted"])
         /\ row.status = "queued" => \A c \in Claims : Within(Claimed(row, c))
         /\ Within(Swept(row))
         /\ Within(Released(row))
         /\ Within(Completed(row))
         /\ \A outcome \in Outcomes, code \in Codes : Within(Settled(row, outcome, code))
<1>1. /\ row.attempts \in Nat
      /\ MaxAttempts \in Nat \ {0}
  BY MaxAttemptsPositive DEF Row
<1>2. Within(Enqueued) /\ Within([NoRow EXCEPT !.status = "deleted"])
  BY <1>1 DEF Within, Enqueued, NoRow
<1>3. /\ Within(Cancelled(row))
      /\ Within(Completed(row))
      /\ Within([Unclaimed(row) EXCEPT !.status = "failed", !.code = "other"])
  BY <1>1 DEF Within, Cancelled, Completed, Unclaimed, Row
<1>4. Within(Rescheduled(row))
  <2>. DEFINE r == Rescheduled(row)
  <2>1. r.attempts = IF row.status = "queued" THEN row.attempts ELSE 0
    BY DEF Rescheduled, Unclaimed, Row
  <2>. HIDE DEF r
  <2>. QED
    BY <1>1, <2>1 DEF Within, r
<1>5. ASSUME row.status = "queued", NEW c \in Claims
      PROVE  Within(Claimed(row, c))
  <2>. DEFINE r == Claimed(row, c)
  <2>1. r.status = "running" /\ r.attempts = row.attempts + 1
    BY DEF Claimed, Attempted, Row
  <2>. HIDE DEF r
  <2>. QED
    BY <1>1, <1>5, <2>1 DEF Within, r
<1>6. Within(Swept(row))
  <2>. DEFINE r == Swept(row)
  <2>1. r.status = SweptStatus(row) /\ r.attempts = row.attempts
    BY DEF Swept, Unclaimed, Row
  <2>. HIDE DEF r
  <2>. QED
    BY <1>1, <2>1 DEF Within, SweptStatus, r
<1>7. Within(Released(row))
  <2>. DEFINE r == Released(row)
  <2>1. r.attempts = IF row.attempts > 0 THEN row.attempts - 1 ELSE 0
    BY DEF Released, AttemptGivenBack, Unclaimed, Row
  <2>. HIDE DEF r
  <2>. QED
    BY <1>1, <2>1 DEF Within, r
<1>8. ASSUME NEW outcome \in Outcomes, NEW code \in Codes
      PROVE  Within(Settled(row, outcome, code))
  <2>. DEFINE r == Settled(row, outcome, code)
  <2>1. /\ r.attempts = row.attempts
        /\ r.status = IF OutcomeOf(row, outcome) = "retry" THEN "queued"
                                                         ELSE SettledStatus(OutcomeOf(row, outcome))
    BY DEF Settled, Unclaimed, Row
  <2>. HIDE DEF r
  <2>. QED
    BY <1>1, <2>1 DEF Within, OutcomeOf, SettledStatus, r
<1>. QED
  BY <1>2, <1>3, <1>4, <1>5, <1>6, <1>7, <1>8

\* A waiting job always has an attempt left, and none is counted beyond max_attempts, however
\* often workers crash, stall or give jobs back. (jobQueue.js:237, 376, 457)
THEOREM AttemptsAreBounded == Spec => []AttemptsWithinMax
<1>1. AttemptsWithinMax <=> \A j \in Jobs : Within(jobs[j])
  BY DEF AttemptsWithinMax, Within
<1>2. Init => AttemptsWithinMax
  BY MaxAttemptsPositive DEF Init, AttemptsWithinMax, NoRow
<1>3. TypeOK /\ TypeOK' /\ AttemptsWithinMax /\ [Next]_vars => AttemptsWithinMax'
  <2>. SUFFICES ASSUME TypeOK, TypeOK', AttemptsWithinMax, [Next]_vars, NEW j \in Jobs
                PROVE  Within(jobs'[j])
    BY DEF AttemptsWithinMax, Within
  <2>1. jobs[j] \in Row /\ Within(jobs[j]) /\ RowMoves(j)
    BY <1>1, RowsMove DEF TypeOK
  <2>2. CASE SamePlace(jobs[j], jobs'[j])
    BY <2>1, <2>2 DEF SamePlace, Within
  <2>3. CASE ClientWrites(jobs[j], jobs'[j])
    BY <2>1, <2>3, WritesKeepWithin DEF ClientWrites
  <2>4. CASE WorkerWrites(jobs[j], jobs'[j])
    BY <2>1, <2>4, WritesKeepWithin DEF WorkerWrites
  <2>5. ASSUME NEW c \in Claims, RunWrites(j, c)
        PROVE  Within(jobs'[j])
    <3>1. runs[j][c].outcome \in Outcomes
      BY DEF TypeOK, Run
    <3>2. (IF runs[j][c].known THEN "effect_done" ELSE "other") \in Codes
      BY DEF Codes
    <3>. QED
      BY <2>1, <2>5, <3>1, <3>2, WritesKeepWithin DEF RunWrites
  <2>. QED
    BY <2>1, <2>2, <2>3, <2>4, <2>5 DEF RowMoves
<1>. QED
  BY <1>2, <1>3, TypeCorrect, PTL DEF Spec

-------------------------------------------------------------------------------
(* Claims *)

\* A claim is taken from its run by nobody: it ends with a write of that run, or by the sweep
\* when its lease ran out. (jobQueue.js:10-12, and the WHERE of every UPDATE under a claim)
THEOREM ClaimsEndInTheirOwnHands == Spec => ClaimEndsByItsRunOrTheSweep
<1>. DEFINE Ends(j, c) == HoldsClaim(j, c) /\ ~HoldsClaim(j, c)' =>
                            ~jobs[j].lease \/ runs'[j][c] # runs[j][c]
            Step == \A j \in Jobs : \A c \in Claims : Ends(j, c)
<1>1. TypeOK /\ [Next]_vars => [Step]_vars
  <2>. SUFFICES ASSUME TypeOK, [Next]_vars, NEW j \in Jobs, NEW c \in Claims,
                       HoldsClaim(j, c), jobs'[j].status # "running" \/ jobs'[j].token # c
                PROVE  ~jobs[j].lease \/ runs'[j][c] # runs[j][c]
    BY DEF HoldsClaim
  <2>1. RowMoves(j) /\ jobs[j].status = "running" /\ jobs[j].token = c
    BY RowsMove DEF HoldsClaim
  <2>2. ~SamePlace(jobs[j], jobs'[j])
    BY <2>1 DEF SamePlace
  <2>3. ~ClientWrites(jobs[j], jobs'[j])
    BY <2>1 DEF ClientWrites, Cancellable
  <2>4. WorkerWrites(jobs[j], jobs'[j]) => ~jobs[j].lease
    BY <2>1 DEF WorkerWrites
  <2>5. ASSUME NEW d \in Claims, RunWrites(j, d)
        PROVE  runs'[j][c] # runs[j][c]
    BY <2>1, <2>5 DEF RunWrites, HoldsClaim
  <2>. QED
    BY <2>1, <2>2, <2>3, <2>4, <2>5 DEF RowMoves
<1>2. TypeOK /\ [Next]_vars => [\A j \in Jobs : \A c \in Claims :
                                   HoldsClaim(j, c) /\ ~HoldsClaim(j, c)' =>
                                     ~jobs[j].lease \/ runs'[j][c] # runs[j][c]]_vars
  BY <1>1
<1>. QED
  BY <1>2, TypeCorrect, PTL DEF Spec, ClaimEndsByItsRunOrTheSweep

-------------------------------------------------------------------------------
(* The label of a job known to have had its effect *)

\* Where a job with the label can be: the sweep and settleFailure give it only to a job that
\* needs attention, which may then be dismissed.
LabelIsAtRest ==
  \A j \in Jobs : jobs[j].code = "effect_done" =>
    jobs[j].status \in {"needs_attention", "cancelled"}

\* What a write does to the label of a row, and what it needs to give one.
LEMMA WritesAndTheLabel ==
  ASSUME NEW row \in Row
  PROVE  /\ Enqueued.code # "effect_done"
         /\ Cancelled(row).code = row.code /\ Cancelled(row).status = "cancelled"
         /\ Rescheduled(row).code \in {row.code, "none"}
         /\ Swept(row).code = "effect_done" => Swept(row).status = "needs_attention"
         /\ Released(row).code = row.code
         /\ \A c \in Claims : Claimed(row, c).code = row.code
         /\ Completed(row).code = "none" /\ Completed(row).status = "done"
         /\ \A outcome \in Outcomes, code \in Codes :
              /\ Settled(row, outcome, code).code = code
              /\ outcome = "needs_attention" =>
                   Settled(row, outcome, code).status = "needs_attention"
<1>1. Enqueued.code # "effect_done"
  BY DEF Enqueued, NoRow
<1>2. /\ Cancelled(row).code = row.code
      /\ Cancelled(row).status = "cancelled"
      /\ Completed(row).code = "none"
      /\ Completed(row).status = "done"
  BY DEF Cancelled, Completed, Unclaimed, Row
<1>3. Rescheduled(row).code \in {row.code, "none"}
  BY DEF Rescheduled, Unclaimed, Row
<1>4. Swept(row).code = "effect_done" => Swept(row).status = "needs_attention"
  <2>1. Swept(row).code = SweptCode(row) /\ Swept(row).status = SweptStatus(row)
    BY DEF Swept, Unclaimed, Row
  <2>. QED
    BY <2>1 DEF SweptCode, SweptStatus
<1>5. Released(row).code = row.code
  BY DEF Released, AttemptGivenBack, Unclaimed, Row
<1>6. \A c \in Claims : Claimed(row, c).code = row.code
  BY DEF Claimed, Attempted, Row
<1>7. ASSUME NEW outcome \in Outcomes, NEW code \in Codes
      PROVE  /\ Settled(row, outcome, code).code = code
             /\ outcome = "needs_attention" =>
                  Settled(row, outcome, code).status = "needs_attention"
  BY DEF Settled, SettledStatus, OutcomeOf, Unclaimed, Row, Outcomes
<1>. QED
  BY <1>1, <1>2, <1>3, <1>4, <1>5, <1>6, <1>7

\* A run that settles with the label's code needs attention: no other outcome knows of an effect
\* that happened.
LEMMA LabelSettlesAtRest ==
  ASSUME IndInv, NEW j \in Jobs, NEW c \in Claims, runs[j][c].stage = "settling",
         runs[j][c].known
  PROVE  runs[j][c].outcome = "needs_attention"
<1>1. runs[j][c].outcome \in Outcomes /\ IsHonest(runs[j][c], consents[j])
  BY DEF IndInv, TypeOK, Run, RunsAreHonest
<1>. QED
  BY <1>1 DEF IsHonest, Outcomes

\* One step: a label is given only at rest, and lost only to done or to the retention.
LEMMA LabelStep ==
  ASSUME IndInv, LabelIsAtRest, [Next]_vars, NEW j \in Jobs
  PROVE  /\ jobs'[j].code = "effect_done" =>
              jobs'[j].status \in {"needs_attention", "cancelled"}
         /\ jobs[j].code = "effect_done" /\ jobs'[j].code # "effect_done" =>
              jobs'[j].status \in {"done", "deleted"}
<1>1. /\ jobs[j] \in Row
      /\ jobs[j].code = "effect_done" => jobs[j].status \in {"needs_attention", "cancelled"}
      /\ RowMoves(j)
  BY RowsMove DEF IndInv, TypeOK, LabelIsAtRest
<1>2. CASE SamePlace(jobs[j], jobs'[j])
  BY <1>1, <1>2 DEF SamePlace
<1>3. CASE ClientWrites(jobs[j], jobs'[j])
  <2>1. CASE jobs[j].status = "absent" /\ jobs'[j] = Enqueued
    BY <1>1, <2>1, WritesAndTheLabel
  <2>2. CASE jobs[j].status \in Cancellable /\ jobs'[j] = Cancelled(jobs[j])
    BY <1>1, <2>2, WritesAndTheLabel
  <2>3. CASE jobs[j].code # "effect_done" /\ jobs'[j] = Rescheduled(jobs[j])
    BY <1>1, <2>3, WritesAndTheLabel
  <2>4. CASE /\ jobs[j].status = "queued"
             /\ jobs'[j] = [Unclaimed(jobs[j]) EXCEPT !.status = "failed", !.code = "other"]
    BY <1>1, <2>4 DEF Unclaimed, Row
  <2>5. CASE jobs'[j] = [NoRow EXCEPT !.status = "deleted"]
    BY <2>5 DEF NoRow
  <2>. QED
    BY <1>3, <2>1, <2>2, <2>3, <2>4, <2>5 DEF ClientWrites
<1>4. CASE WorkerWrites(jobs[j], jobs'[j])
  BY <1>1, <1>4, WritesAndTheLabel DEF WorkerWrites
<1>5. ASSUME NEW c \in Claims, RunWrites(j, c)
      PROVE  /\ jobs[j].code # "effect_done"
             /\ jobs'[j].code = "effect_done" => jobs'[j].status = "needs_attention"
  <2>1. jobs[j].status = "running"
    BY <1>5 DEF RunWrites, HoldsClaim
  <2>2. CASE jobs'[j] = Released(jobs[j]) \/ jobs'[j] = Completed(jobs[j])
    BY <1>1, <2>1, <2>2, WritesAndTheLabel
  <2>3. CASE /\ runs[j][c].stage = "settling"
             /\ jobs'[j] = Settled(jobs[j], runs[j][c].outcome,
                                   IF runs[j][c].known THEN "effect_done" ELSE "other")
    <3>1. runs[j][c].outcome \in Outcomes
      BY DEF IndInv, TypeOK, Run
    <3>2. {"effect_done", "other"} \subseteq Codes
      BY DEF Codes
    <3>3. CASE runs[j][c].known
      BY <1>1, <2>1, <2>3, <3>1, <3>2, <3>3, LabelSettlesAtRest, WritesAndTheLabel
    <3>4. CASE ~runs[j][c].known
      BY <1>1, <2>1, <2>3, <3>1, <3>2, <3>4, WritesAndTheLabel
    <3>. QED
      BY <3>3, <3>4
  <2>. QED
    BY <1>5, <2>2, <2>3 DEF RunWrites
<1>. QED
  BY <1>1, <1>2, <1>3, <1>4, <1>5 DEF RowMoves

\* A job labelled as having had its effect is never run or offered again: only a record that it
\* is done, or the retention, takes the label away. (jobQueue.js:173-194, 416-422)
THEOREM LabelsStick == Spec => DoneLabelSticks
<1>1. Init => LabelIsAtRest
  BY DEF Init, LabelIsAtRest, NoRow
<1>2. IndInv /\ LabelIsAtRest /\ [Next]_vars => LabelIsAtRest'
  BY LabelStep DEF LabelIsAtRest
<1>3. IndInv /\ LabelIsAtRest /\ [Next]_vars =>
        [\A j \in Jobs : jobs[j].code = "effect_done" /\ jobs'[j].code # "effect_done" =>
            jobs'[j].status \in {"done", "deleted"}]_vars
  BY LabelStep
<1>. QED
  BY <1>1, <1>2, <1>3, Invariance, PTL DEF Spec, DoneLabelSticks

-------------------------------------------------------------------------------
(* The refinement: what people see of the queue are its consents, the jobs *)
(* taken back in time and the effects that happened; nearly every step     *)
(* changes none of them.                                                   *)

\* A step that shows nothing: no effect happens, and none is moved to another consent.
Unseen ==
  \A j \in Jobs : \A c \in Claims :
    /\ Happened(j, c)' <=> Happened(j, c)
    /\ Happened(j, c) => runs'[j][c].consent = runs[j][c].consent

\* The effects of a job are the same if each of its runs shows the same.
LEMMA EffectsKept ==
  ASSUME NEW j \in Jobs,
         \A c \in Claims :
           /\ Happened(j, c)' <=> Happened(j, c)
           /\ Happened(j, c) => runs'[j][c].consent = runs[j][c].consent
  PROVE  EffectsOf(j)' = EffectsOf(j)
BY DEF EffectsOf

\* A step that shows nothing is a stutter of the promise.
LEMMA UnseenIsStutter ==
  ASSUME Unseen, UNCHANGED <<consents, undone>>
  PROVE  UNCHANGED Promise!vars
<1>1. [j \in Jobs |-> EffectsOf(j)]' = [j \in Jobs |-> EffectsOf(j)]
  BY EffectsKept DEF Unseen
<1>. QED
  BY <1>1 DEF Promise!vars

\* A step that leaves the runs alone shows no effect.
LEMMA RunsAloneUnseen ==
  ASSUME UNCHANGED runs
  PROVE  Unseen
BY DEF Unseen, Happened

\* The end of runs shows no effect. (releaseClaims, an exit, a crash: jobQueue.js:453-532)
LEMMA EndRunsUnseen ==
  ASSUME TypeOK, NEW R, runs' = EndRuns(R)
  PROVE  Unseen
<1>1. ASSUME NEW j \in Jobs, NEW c \in Claims
      PROVE  /\ runs'[j][c].effect = runs[j][c].effect
             /\ runs'[j][c].consent = runs[j][c].consent
  <2>1. runs[j][c] \in Run
    BY DEF TypeOK
  <2>2. runs'[j][c] = runs[j][c] \/ runs'[j][c] = EndedRun(runs[j][c])
    BY DEF EndRuns
  <2>. QED
    BY <2>1, <2>2 DEF EndedRun, Run
<1>. QED
  BY <1>1 DEF Unseen, Happened

\* A step of one run shows nothing if the run's effect is as happened as it was.
LEMMA OneRunUnseen ==
  ASSUME TypeOK, NEW j \in Jobs, NEW c \in Claims, NEW run, SetRun(j, c, run),
         run.consent = runs[j][c].consent,
         run.effect \in {"happened", "answered"} <=> Happened(j, c)
  PROVE  Unseen
<1>1. ASSUME NEW k \in Jobs, NEW d \in Claims
      PROVE  runs'[k][d] = IF k = j /\ d = c THEN run ELSE runs[k][d]
  BY DEF SetRun, TypeOK
<1>. QED
  BY <1>1 DEF Unseen, Happened

-------------------------------------------------------------------------------
(* The steps that people see *)

\* An enqueue, or a resend, gives a consent; a cancel in time withdraws one, which no effect
\* has used. (enqueueJob, cancelJob, rescheduleJob: jobQueue.js:105-194)
LEMMA ClientStepShown ==
  ASSUME IndInv, NEW j \in Jobs, ClientStep(j)
  PROVE  [Promise!Next]_(Promise!vars)
<1>1. UNCHANGED runs
  BY DEF ClientStep, EnqueueJob, CancelJob, RescheduleJob, CleanupFinishedJob
<1>2. [k \in Jobs |-> EffectsOf(k)]' = [k \in Jobs |-> EffectsOf(k)]
  BY <1>1, RunsAloneUnseen, EffectsKept DEF Unseen
<1>3. j \in undone => jobs[j].status \in {"cancelled", "deleted"}
  BY DEF IndInv, TypeOK, UndoneIsOver
<1>4. ASSUME consents' = [consents EXCEPT ![j] = @ + 1], undone' = undone,
             jobs[j].status \notin {"cancelled", "deleted"}
      PROVE  Promise!Consent(j)
  BY <1>2, <1>3, <1>4 DEF Promise!Consent
<1>5. CASE EnqueueJob(j)
  BY <1>4, <1>5 DEF EnqueueJob, Promise!Next
<1>6. CASE RescheduleJob(j)
  <2>1. jobs[j].status \notin {"cancelled", "deleted"} /\ undone' = undone
    BY <1>6 DEF RescheduleJob, Cancellable
  <2>2. CASE jobs[j].status = "queued"
    <3>1. consents' = consents
      BY <1>6, <2>2 DEF RescheduleJob, IndInv, TypeOK
    <3>. QED
      BY <1>2, <2>1, <3>1 DEF Promise!vars
  <2>3. CASE jobs[j].status # "queued"
    BY <1>4, <1>6, <2>1, <2>3 DEF RescheduleJob, Promise!Next
  <2>. QED
    BY <2>2, <2>3
<1>7. CASE CancelJob(j)
  <2>1. CASE jobs[j].status = "needs_attention"
    BY <1>2, <1>7, <2>1 DEF CancelJob, Promise!vars
  <2>2. CASE jobs[j].status # "needs_attention"
    <3>1. undone' = undone \cup {j} /\ consents' = consents
      BY <1>7, <2>2 DEF CancelJob
    <3>2. ASSUME NEW c \in Claims, Happened(j, c)
          PROVE  runs[j][c].consent # consents[j]
      <4>1. jobs[j].status \in {"queued", "failed"}
        BY <1>7, <2>2 DEF CancelJob, Cancellable
      <4>. QED
        BY <3>2, <4>1 DEF IndInv, EffectIsGuarded, IsGuarded, MayHappen
    <3>3. ~Promise!Spent(j, consents[j])
      BY <3>2 DEF Promise!Spent, EffectsOf
    <3>4. Promise!Withdraw(j)
      BY <1>2, <3>1, <3>3 DEF Promise!Withdraw
    <3>. QED
      BY <3>4 DEF Promise!Next
  <2>. QED
    BY <2>1, <2>2
<1>8. CASE CleanupFinishedJob(j)
  BY <1>2, <1>8 DEF CleanupFinishedJob, Promise!vars
<1>. QED
  BY <1>5, <1>6, <1>7, <1>8 DEF ClientStep

\* An effect happens under a consent that was given, not withdrawn and not used: the outside
\* world acts late, and on what a stalled or dead run began. (markEffectStarted's guarantee,
\* jobQueue.js:19-21)
LEMMA EffectHappensShown ==
  ASSUME IndInv, NEW j \in Jobs, NEW c \in Claims, EffectHappens(j, c)
  PROVE  Promise!Next
<1>. DEFINE e == runs[j][c].consent
            now == [k \in Jobs |-> EffectsOf(k)]
            happened == [runs[j][c] EXCEPT !.effect = "happened"]
<1>1. runs[j][c] \in Run /\ consents[j] \in Nat
  BY DEF IndInv, TypeOK
<1>2. runs[j][c].effect = "started" /\ MayHappen(j, c) /\ ~Happened(j, c)
  BY DEF EffectHappens, MayHappen, Happened
<1>3. e \in 1..consents[j]
  <2>1. IsHonest(runs[j][c], consents[j])
    BY DEF IndInv, RunsAreHonest
  <2>2. e \in Nat /\ e <= consents[j] /\ e >= 1
    BY <1>1, <1>2, <2>1 DEF IsHonest, Run
  <2>. QED
    BY <1>1, <2>2
<1>4. \A d \in Claims : Happened(j, d) => runs[j][d].consent # e
  BY <1>2 DEF IndInv, AtMostOncePerConsent, MayHappen
<1>5. ~Promise!Spent(j, e)
  BY <1>4 DEF Promise!Spent, EffectsOf
<1>6. ~(j \in undone /\ e = consents[j])
  BY <1>2 DEF IndInv, TypeOK, UndoneIsOver, EffectIsGuarded, IsGuarded
<1>7. ASSUME NEW k \in Jobs, NEW d \in Claims
      PROVE  runs'[k][d] = IF k = j /\ d = c THEN happened ELSE runs[k][d]
  BY DEF EffectHappens, SetRun, IndInv, TypeOK
<1>8. happened.consent = e /\ happened.effect = "happened"
  BY <1>1 DEF Run
<1>. HIDE DEF happened
<1>9. EffectsOf(j)' = EffectsOf(j) \cup {<<e, c>>}
  <2>1. \A d \in Claims : Happened(j, d)' <=> Happened(j, d) \/ d = c
    BY <1>7, <1>8 DEF Happened
  <2>2. \A d \in Claims : runs'[j][d].consent = runs[j][d].consent
    BY <1>7, <1>8
  <2>. QED
    BY <2>1, <2>2 DEF EffectsOf
<1>10. ASSUME NEW k \in Jobs, k # j
       PROVE  EffectsOf(k)' = EffectsOf(k)
  BY <1>7, <1>10, EffectsKept DEF Happened
<1>11. now' = [now EXCEPT ![j] = @ \cup {<<e, c>>}]
  BY <1>9, <1>10
<1>12. consents' = consents /\ undone' = undone
  BY DEF EffectHappens
<1>. HIDE DEF e
<1>13. Promise!Happen(j, e, c)
  BY <1>3, <1>5, <1>6, <1>11, <1>12 DEF Promise!Happen
<1>. QED
  BY <1>3, <1>13 DEF Promise!Next

-------------------------------------------------------------------------------
(* The steps that nobody sees *)

\* A claim names a run whose token no run had yet. (claimDueJobs, jobQueue.js:196-213)
LEMMA ClaimUnseen ==
  ASSUME IndInv, NEW w \in Workers, ClaimDueJobs(w)
  PROVE  Unseen
<1>. SUFFICES ASSUME NEW j \in Jobs, NEW c \in Claims
              PROVE  /\ Happened(j, c)' <=> Happened(j, c)
                     /\ Happened(j, c) => runs'[j][c].consent = runs[j][c].consent
  BY DEF Unseen
<1>. DEFINE new == [NoRun EXCEPT !.stage = "claimed", !.worker = w, !.consent = consents[j]]
<1>1. runs[j] \in [Claims -> Run]
  BY DEF IndInv, TypeOK
<1>2. PICK S \in SUBSET DueJobs :
        runs'[j] = IF j \in S THEN [runs[j] EXCEPT ![FreshToken(j)] = new] ELSE runs[j]
  BY DEF ClaimDueJobs
<1>3. CASE j \in S /\ c = FreshToken(j)
  <2>1. runs[j][c].stage = "unused"
    BY <1>3, FreshTokenIsFresh DEF DueJobs
  <2>2. runs[j][c].effect = "none"
    BY <2>1 DEF IndInv, RunsAreHonest, IsHonest
  <2>3. runs'[j][c] = new
    BY <1>1, <1>2, <1>3
  <2>4. new.effect = "none"
    BY DEF NoRun
  <2>. QED
    BY <2>2, <2>3, <2>4 DEF Happened
<1>4. CASE ~(j \in S /\ c = FreshToken(j))
  <2>1. runs'[j][c] = runs[j][c]
    BY <1>1, <1>2, <1>4
  <2>. QED
    BY <2>1 DEF Happened
<1>. QED
  BY <1>3, <1>4

\* The start of a claim's runs calls handlers, and no effect began yet.
\* (runDueJobs, jobQueue.js:475-479)
LEMMA StartUnseen ==
  ASSUME IndInv, NEW w \in Workers, StartRuns(w)
  PROVE  Unseen
<1>1. ASSUME NEW j \in Jobs, NEW c \in Claims
      PROVE  /\ runs'[j][c].effect = runs[j][c].effect
             /\ runs'[j][c].consent = runs[j][c].consent
  <2>1. runs[j][c] \in Run
    BY DEF IndInv, TypeOK
  <2>2. \/ runs'[j][c] = runs[j][c]
        \/ runs'[j][c] = [runs[j][c] EXCEPT !.stage = "handling", !.ran = TRUE]
    BY DEF StartRuns
  <2>. QED
    BY <2>1, <2>2 DEF Run
<1>. QED
  BY <1>1 DEF Unseen, Happened

\* What a worker process does shows nothing. (jobQueue.js:367-395, 453-532)
LEMMA WorkerStepUnseen ==
  ASSUME IndInv, NEW w \in Workers, WorkerStep(w)
  PROVE  Unseen /\ UNCHANGED <<consents, undone>>
<1>1. TypeOK
  BY DEF IndInv
<1>2. CASE SweepExpiredLeases(w)
  BY <1>2, RunsAloneUnseen DEF SweepExpiredLeases
<1>3. CASE ClaimDueJobs(w)
  BY <1>3, ClaimUnseen DEF ClaimDueJobs
<1>4. CASE StartRuns(w)
  BY <1>4, StartUnseen DEF StartRuns
<1>5. CASE ReleaseClaims(w)
  BY <1>1, <1>5, EndRunsUnseen DEF ReleaseClaims
<1>6. CASE ClaimReplyLost(w)
  BY <1>1, <1>6, EndRunsUnseen DEF ClaimReplyLost
<1>7. CASE StopWorker(w) \/ StartWorker(w)
  BY <1>7, RunsAloneUnseen DEF StopWorker, StartWorker
<1>8. CASE ExitWorker(w) \/ CrashWorker(w)
  BY <1>1, <1>8, EndRunsUnseen DEF ExitWorker, CrashWorker
<1>. QED
  BY <1>2, <1>3, <1>4, <1>5, <1>6, <1>7, <1>8 DEF WorkerStep

\* What a run does shows nothing: its effect is the outside world's. (runJob, jobQueue.js:294-365)
LEMMA RunStepUnseen ==
  ASSUME IndInv, NEW j \in Jobs, NEW c \in Claims, RunStep(j, c), ~EffectHappens(j, c)
  PROVE  Unseen /\ UNCHANGED <<consents, undone>>
<1>. DEFINE run == runs[j][c]
<1>1. TypeOK /\ run \in Run
  BY DEF IndInv, TypeOK
<1>2. CASE RenewLease(j, c) \/ MarkEffectDone(j, c)
  BY <1>2, RunsAloneUnseen DEF RenewLease, MarkEffectDone
<1>3. ASSUME SetRun(j, c, EndedRun(run))
      PROVE  Unseen
  <2>1. EndedRun(run).consent = run.consent /\ EndedRun(run).effect = run.effect
    BY <1>1 DEF EndedRun, Run
  <2>. QED
    BY <1>1, <1>3, <2>1, OneRunUnseen DEF Happened
<1>4. CASE Complete(j, c) \/ SettleFailure(j, c) \/ SettleGivesUp(j, c)
  BY <1>3, <1>4 DEF Complete, SettleFailure, SettleGivesUp
<1>5. CASE MarkEffectStarted(j, c)
  <2>1. CASE SetRun(j, c, EndedRun(run))
    BY <1>3, <1>5, <2>1 DEF MarkEffectStarted
  <2>2. CASE SetRun(j, c, [run EXCEPT !.stage = "effect", !.effect = "started"])
    <3>. DEFINE started == [run EXCEPT !.stage = "effect", !.effect = "started"]
    <3>1. started.consent = run.consent /\ started.effect = "started"
      BY <1>1 DEF Run
    <3>2. run.effect = "none"
      BY <1>5 DEF MarkEffectStarted, IndInv, RunsAreHonest, IsHonest
    <3>. HIDE DEF started
    <3>3. Unseen
      BY <1>1, <2>2, <3>1, <3>2, OneRunUnseen DEF Happened, started
    <3>. QED
      BY <1>5, <3>3 DEF MarkEffectStarted
  <2>. QED
    BY <1>5, <2>1, <2>2 DEF MarkEffectStarted
<1>6. ASSUME NEW outcome, NEW known,
             SetRun(j, c, [run EXCEPT !.stage = "settling", !.outcome = outcome,
                                      !.known = known])
      PROVE  Unseen
  <2>. DEFINE settling == [run EXCEPT !.stage = "settling", !.outcome = outcome,
                                      !.known = known]
  <2>1. settling.consent = run.consent /\ settling.effect = run.effect
    BY <1>1 DEF Run
  <2>. QED
    BY <1>1, <1>6, <2>1, OneRunUnseen DEF Happened
<1>7. ASSUME NEW outcome, SetRun(j, c, [run EXCEPT !.stage = "settling", !.outcome = outcome])
      PROVE  Unseen
  <2>. DEFINE settling == [run EXCEPT !.stage = "settling", !.outcome = outcome]
  <2>1. settling.consent = run.consent /\ settling.effect = run.effect
    BY <1>1 DEF Run
  <2>. QED
    BY <1>1, <1>7, <2>1, OneRunUnseen DEF Happened
<1>8. CASE Throw(j, c)
  BY <1>6, <1>8 DEF Throw
<1>9. CASE MarkEffectReplyLost(j, c)
  BY <1>7, <1>9 DEF MarkEffectReplyLost
<1>10. CASE CompleteReplyLost(j, c)
  BY <1>7, <1>10 DEF CompleteReplyLost
<1>11. CASE EffectAnswered(j, c)
  <2>1. CASE /\ run.effect = "happened"
             /\ SetRun(j, c, [run EXCEPT !.effect = "answered"])
    <3>1. /\ [run EXCEPT !.effect = "answered"].consent = run.consent
          /\ [run EXCEPT !.effect = "answered"].effect = "answered"
      BY <1>1 DEF Run
    <3>2. Happened(j, c)
      BY <2>1 DEF Happened
    <3>. QED
      BY <1>1, <1>11, <2>1, <3>1, <3>2, OneRunUnseen DEF EffectAnswered
  <2>2. CASE /\ run.effect = "started"
             /\ SetRun(j, c, [run EXCEPT !.effect = "averted"])
    <3>1. /\ [run EXCEPT !.effect = "averted"].consent = run.consent
          /\ [run EXCEPT !.effect = "averted"].effect = "averted"
      BY <1>1 DEF Run
    <3>2. ~Happened(j, c)
      BY <2>2 DEF Happened
    <3>. QED
      BY <1>1, <1>11, <2>2, <3>1, <3>2, OneRunUnseen DEF EffectAnswered
  <2>. QED
    BY <1>11, <2>1, <2>2 DEF EffectAnswered
<1>12. UNCHANGED <<consents, undone>>
  BY DEF RunStep, RenewLease, MarkEffectStarted, MarkEffectReplyLost, EffectHappens,
         EffectAnswered, MarkEffectDone, Complete, CompleteReplyLost, Throw, SettleFailure,
         SettleGivesUp
<1>. QED
  BY <1>2, <1>4, <1>5, <1>8, <1>9, <1>10, <1>11, <1>12 DEF RunStep

-------------------------------------------------------------------------------

\* At first nothing was asked, taken back or done.
LEMMA InitImplements == Init => Promise!Init
<1>. SUFFICES ASSUME Init
              PROVE  Promise!Init
  OBVIOUS
<1>1. ASSUME NEW j \in Jobs
      PROVE  EffectsOf(j) = {}
  BY DEF Init, EffectsOf, Happened, NoRun
<1>. QED
  BY <1>1 DEF Init, Promise!Init

\* Every step of the queue is one of the promise, or shows nothing.
LEMMA StepImplements == IndInv /\ [Next]_vars => [Promise!Next]_(Promise!vars)
<1>. SUFFICES ASSUME IndInv, [Next]_vars
              PROVE  [Promise!Next]_(Promise!vars)
  OBVIOUS
<1>1. CASE \E j \in Jobs : ClientStep(j)
  BY <1>1, ClientStepShown
<1>2. CASE \E j \in Jobs : TimeStep(j)
  BY <1>2, RunsAloneUnseen, UnseenIsStutter DEF TimeStep, ComesDue, LeaseRunsOut
<1>3. CASE \E S \in SUBSET Jobs : FailJobsOfDeletedAccount(S)
  BY <1>3, RunsAloneUnseen, UnseenIsStutter DEF FailJobsOfDeletedAccount
<1>4. CASE \E w \in Workers : WorkerStep(w)
  BY <1>4, WorkerStepUnseen, UnseenIsStutter
<1>5. CASE \E j \in Jobs, c \in Claims : RunStep(j, c)
  BY <1>5, EffectHappensShown, RunStepUnseen, UnseenIsStutter
<1>6. CASE UNCHANGED vars
  BY <1>6, RunsAloneUnseen, UnseenIsStutter DEF vars
<1>. QED
  BY <1>1, <1>2, <1>3, <1>4, <1>5, <1>6 DEF Next

\* The job queue keeps its promise: an effect happens only under a consent that somebody gave,
\* that was not withdrawn and that no effect used before, however many workers, stalls,
\* crashes, lost replies and resends there are. (jobQueue.js:8-21)
THEOREM QueueImplementsPromise == Spec => ImplementsPromise
BY InitImplements, StepImplements, Invariance, PTL DEF Spec, ImplementsPromise, Promise!Spec

-------------------------------------------------------------------------------
(* The send queue *)

\* The steps of the send queue that leave the letters alone, seen as steps of the job queue: no
\* enqueue, no cancel, no completion and no cleanup.
LetterlessStep ==
  \/ UNCHANGED vars
  \/ \E j \in Jobs : RescheduleJob(j) \/ TimeStep(j)
  \/ FailJobsOfDeletedAccount(Jobs)
  \/ \E w \in Workers : WorkerStep(w)
  \/ \E j \in Jobs, c \in Claims :
       \/ RenewLease(j, c)
       \/ MarkEffectStarted(j, c)
       \/ MarkEffectReplyLost(j, c)
       \/ EffectHappens(j, c)
       \/ EffectAnswered(j, c)
       \/ MarkEffectDone(j, c)
       \/ Throw(j, c)
       \/ SettleFailure(j, c)
       \/ SettleGivesUp(j, c)

\* The steps that take or bring a letter.
LetterStep ==
  \/ \E j \in Jobs : EnqueueOutgoingSend(j) \/ CancelScheduled(j) \/ CleanupLetter(j)
  \/ \E j \in Jobs, c \in Claims : CompleteDelivery(j, c) \/ SettleSweptDelivery(j, c)

\* Every step does one or the other. (sendQueue.js, sendDelivery.js)
LEMMA StepsAndLetters ==
  ASSUME [SendNext]_sendVars
  PROVE  (LetterlessStep /\ letters' = letters) \/ LetterStep
<1>1. CASE UNCHANGED sendVars
  BY <1>1 DEF sendVars, LetterlessStep
<1>2. CASE \E j \in Jobs : AuthorStep(j)
  BY <1>2 DEF AuthorStep, RescheduleScheduled, LetterlessStep, LetterStep
<1>3. CASE AdminStep
  BY <1>3 DEF AdminStep, SetAuthor, SetMailbox, DeleteMailboxFailsJobs, DeleteMailboxRow,
              LetterlessStep
<1>4. CASE \E w \in Workers : StartHandlers(w)
  BY <1>4 DEF StartHandlers, WorkerStep, LetterlessStep
<1>5. CASE QueueStep
  BY <1>5 DEF QueueStep, WorkerStep, LetterlessStep
<1>6. CASE \E j \in Jobs, c \in Claims : HandlerStep(j, c)
  BY <1>6 DEF HandlerStep, CheckLetter, LetterRefused, SetupFails, HandToServer, ServerAnswers,
              DeliveryFails, MarkDelivered, RecordingFails, Throws, LetterlessStep, LetterStep
<1>. QED
  BY <1>1, <1>2, <1>3, <1>4, <1>5, <1>6 DEF SendNext

\* For the job queue it is a step of its own, but for one that writes without a claim.
LEMMA StepsOfTheQueue ==
  ASSUME [SendNext]_sendVars
  PROVE  [Next]_vars \/ \E j \in Jobs, c \in Claims : SettleSweptDelivery(j, c)
<1>1. ASSUME LetterlessStep
      PROVE  [Next]_vars
  BY <1>1 DEF LetterlessStep, Next, ClientStep, RunStep
<1>2. ASSUME LetterStep, ~ \E j \in Jobs, c \in Claims : SettleSweptDelivery(j, c)
      PROVE  [Next]_vars
  BY <1>2 DEF LetterStep, EnqueueOutgoingSend, CancelScheduled, CleanupLetter, CompleteDelivery,
              Next, ClientStep, RunStep
<1>. QED
  BY <1>1, <1>2, StepsAndLetters

-------------------------------------------------------------------------------
(* settleSweptDelivery, the one step that is not the job queue's *)

\* The row it writes when the sweep put the job where it found it.
SettledBySweep(row) == [row EXCEPT !.status = "done", !.code = "none"]

\* What it writes, and that the run that sends it had its effect. (sendQueue.js:368-381)
LEMMA SettleSweptWrites ==
  ASSUME TypeOK, NEW j \in Jobs, NEW c \in Claims, SettleSweptDelivery(j, c)
  PROVE  /\ \/ jobs' = jobs /\ letters' = letters
            \/ /\ jobs[j].status = "needs_attention"
               /\ jobs' = [jobs EXCEPT ![j] = SettledBySweep(jobs[j])]
               /\ letters' = letters \ {j}
         /\ SettledBySweep(jobs[j]) \in Row
         /\ SettledBySweep(jobs[j]).status = "done"
         /\ Labelled(SettledBySweep(jobs[j])) => Labelled(jobs[j])
         /\ SetRun(j, c, EndedRun(runs[j][c]))
         /\ runs[j][c].stage = "effect"
         /\ Happened(j, c)
         /\ UNCHANGED <<workers, consents, undone, faults, reschedules>>
<1>1. jobs[j] \in Row /\ jobs = [jobs EXCEPT ![j] = jobs[j]]
  BY DEF TypeOK
<1>2. /\ SettledBySweep(jobs[j]) \in Row
      /\ SettledBySweep(jobs[j]).status = "done"
      /\ Labelled(SettledBySweep(jobs[j])) => Labelled(jobs[j])
  BY <1>1 DEF SettledBySweep, Row, Statuses, Codes, Labelled
<1>3. \/ jobs' = jobs /\ letters' = letters
      \/ /\ jobs[j].status = "needs_attention"
         /\ jobs' = [jobs EXCEPT ![j] = SettledBySweep(jobs[j])]
         /\ letters' = letters \ {j}
  BY <1>1 DEF SettleSweptDelivery, SetRow, SweptFrom, LettersAfterSend, SettledBySweep
<1>. QED
  BY <1>2, <1>3 DEF SettleSweptDelivery, Happened

\* It leaves rows and runs well formed.
LEMMA SettleSweptType ==
  ASSUME TypeOK, NEW j \in Jobs, NEW c \in Claims, SettleSweptDelivery(j, c)
  PROVE  TypeOK'
<1>1. jobs' \in [Jobs -> Row]
  BY SettleSweptWrites DEF TypeOK
<1>2. runs' \in [Jobs -> [Claims -> Run]]
  <2>1. runs[j] \in [Claims -> Run] /\ EndedRun(runs[j][c]) \in Run
    BY RunRecords DEF TypeOK
  <2>2. runs' = [runs EXCEPT ![j] = [runs[j] EXCEPT ![c] = EndedRun(runs[j][c])]]
    BY SettleSweptWrites DEF SetRun, TypeOK
  <2>. QED
    BY <2>1, <2>2 DEF TypeOK
<1>. QED
  BY <1>1, <1>2, SettleSweptWrites DEF TypeOK

\* It keeps the queue's invariant: nothing runs by itself from done, and the label goes.
LEMMA SettleSweptInv ==
  ASSUME IndInv, NEW j \in Jobs, NEW c \in Claims, SettleSweptDelivery(j, c)
  PROVE  IndInv'
<1>1. TypeOK /\ (\A k \in Jobs : JobInv(k)) /\ TypeOK'
  BY IndInvOfJobs, SettleSweptType DEF JobsInv
<1>2. JobInv(j) /\ consents[j] \in Nat /\ UNCHANGED <<consents, undone>>
  BY <1>1, SettleSweptWrites DEF TypeOK
<1>3. \A d \in Claims : RunKept(j, d)
  BY <1>1, <1>2, SettleSweptWrites, EndRunKept
<1>4. ASSUME jobs[j].status = "needs_attention",
             jobs' = [jobs EXCEPT ![j] = SettledBySweep(jobs[j])]
      PROVE  JobInv(j)'
  <2>1. jobs'[j] = SettledBySweep(jobs[j])
    BY <1>1, <1>4 DEF TypeOK
  <2>2. jobs'[j].status = "done" /\ (Labelled(jobs'[j]) => Labelled(jobs[j]))
    BY <1>1, <2>1, SettleSweptWrites
  <2>3. consents'[j] \in Nat /\ consents'[j] >= 1 /\ j \notin undone'
    BY <1>2, <1>4 DEF JobInv
  <2>. QED
    BY <1>2, <1>3, <2>2, <2>3, Moved
<1>5. (\A k \in Jobs : k # j => jobs'[k] = jobs[k]) /\ (jobs'[j] = jobs[j] \/ JobInv(j)')
  BY <1>1, <1>4, SettleSweptWrites DEF TypeOK
<1>6. \A k \in Jobs : JobInv(k)'
  <2>1. SetRun(j, c, EndedRun(runs[j][c]))
    BY <1>1, SettleSweptWrites
  <2>. QED
    BY <1>1, <1>2, <1>3, <1>5, <2>1, OneRunInv
<1>7. JobsInv'
  BY <1>1, <1>6 DEF JobsInv
<1>. QED
  BY <1>7, IndInvOfJobs, PTL

\* It shows nothing: the effect it records happened before.
LEMMA SettleSweptUnseen ==
  ASSUME TypeOK, NEW j \in Jobs, NEW c \in Claims, SettleSweptDelivery(j, c)
  PROVE  Unseen /\ UNCHANGED <<consents, undone>>
<1>1. EndedRun(runs[j][c]).consent = runs[j][c].consent
      /\ EndedRun(runs[j][c]).effect = runs[j][c].effect
  BY DEF TypeOK, EndedRun, Run
<1>. QED
  BY <1>1, SettleSweptWrites, OneRunUnseen DEF Happened

-------------------------------------------------------------------------------
(* The queue's invariant and its promise carry over *)

\* Types and the invariant of the queue hold in the send queue. (sendQueue.js)
LEMMA QueueInvStep ==
  ASSUME IndInv, [SendNext]_sendVars
  PROVE  IndInv'
<1>1. CASE [Next]_vars
  BY <1>1, TypeStep, IndInvStep DEF IndInv
<1>2. CASE \E j \in Jobs, c \in Claims : SettleSweptDelivery(j, c)
  BY <1>2, SettleSweptInv
<1>. QED
  BY <1>1, <1>2, StepsOfTheQueue

\* The invariant of the job queue, in the send queue.
THEOREM SendKeepsQueueInv == SendSpec => []IndInv
<1>1. SendInit => IndInv
  BY IndInvInit DEF SendInit
<1>. QED
  BY <1>1, QueueInvStep, PTL DEF SendSpec

\* Undo send and send later implement AtMostOnce: each consent of the author hands his letter to
\* the mail server at most once, and one that was taken back in time never, whatever the people
\* who run the install, the sweep and the workers do. (sendQueue.js:6-8)
THEOREM SendKeepsPromise == SendSpec => SendImplementsPromise
<1>1. SendInit => Promise!Init
  BY InitImplements DEF SendInit
<1>2. ASSUME IndInv, [SendNext]_sendVars
      PROVE  [Promise!Next]_(Promise!vars)
  <2>1. CASE [Next]_vars
    BY <1>2, <2>1, StepImplements
  <2>2. CASE \E j \in Jobs, c \in Claims : SettleSweptDelivery(j, c)
    BY <1>2, <2>2, SettleSweptUnseen, UnseenIsStutter DEF IndInv
  <2>. QED
    BY <1>2, <2>1, <2>2, StepsOfTheQueue
<1>. QED
  BY <1>1, <1>2, SendKeepsQueueInv, PTL DEF SendSpec, SendImplementsPromise, Promise!Spec

-------------------------------------------------------------------------------
(* The letters and where their jobs are *)

\* A step that moves the job neither into nor out of the list, and does not finish it.
StaysListed(j) ==
  /\ jobs'[j].status \in Listed <=> jobs[j].status \in Listed
  /\ jobs'[j].status = "done" => jobs[j].status = "done"

\* Where the writes of the queue leave a row.
LEMMA StatusWritten ==
  ASSUME NEW row \in Row
  PROVE  /\ Enqueued.status = "queued"
         /\ Cancelled(row).status = "cancelled"
         /\ Rescheduled(row).status = "queued"
         /\ \A c \in Claims : Claimed(row, c).status = "running"
         /\ Released(row).status = "queued"
         /\ Swept(row).status \in {"needs_attention", "failed", "queued"}
         /\ \A outcome, code :
              Settled(row, outcome, code).status \in {"needs_attention", "failed", "queued"}
         /\ Completed(row).status = "done"
         /\ [NoRow EXCEPT !.status = "deleted"].status = "deleted"
         /\ [Unclaimed(row) EXCEPT !.status = "failed", !.code = "other"].status = "failed"
<1>1. /\ Enqueued.status = "queued"
      /\ [NoRow EXCEPT !.status = "deleted"].status = "deleted"
  BY DEF Enqueued, NoRow
<1>2. /\ Cancelled(row).status = "cancelled"
      /\ Completed(row).status = "done"
      /\ [Unclaimed(row) EXCEPT !.status = "failed", !.code = "other"].status = "failed"
  BY DEF Cancelled, Completed, Unclaimed, Row
<1>3. Rescheduled(row).status = "queued"
  BY DEF Rescheduled, Unclaimed, Row
<1>4. \A c \in Claims : Claimed(row, c).status = "running"
  BY DEF Claimed, Attempted, Row
<1>5. Released(row).status = "queued"
  BY DEF Released, AttemptGivenBack, Unclaimed, Row
<1>6. Swept(row).status \in {"needs_attention", "failed", "queued"}
  <2>1. Swept(row).status = SweptStatus(row)
    BY DEF Swept, Unclaimed, Row
  <2>. QED
    BY <2>1 DEF SweptStatus
<1>7. ASSUME NEW outcome, NEW code
      PROVE  Settled(row, outcome, code).status \in {"needs_attention", "failed", "queued"}
  BY DEF Settled, SettledStatus, Unclaimed, Row
<1>. QED
  BY <1>1, <1>2, <1>3, <1>4, <1>5, <1>6, <1>7

\* The steps that leave the letters alone leave every job in its list, and finish none.
LEMMA LetterlessStays ==
  ASSUME TypeOK, LetterlessStep, NEW k \in Jobs
  PROVE  StaysListed(k)
<1>1. jobs[k] \in Row
  BY DEF TypeOK
<1>2. CASE jobs'[k] = jobs[k]
  BY <1>2 DEF StaysListed
<1>3. CASE jobs[k].status \in Listed /\ jobs'[k].status \in Listed
  BY <1>3 DEF StaysListed, Listed
<1>4. ASSUME NEW j \in Jobs, RescheduleJob(j) \/ TimeStep(j)
      PROVE  StaysListed(k)
  <2>1. CASE k # j
    BY <1>2, <1>4, <2>1 DEF RescheduleJob, TimeStep, ComesDue, LeaseRunsOut, SetRow, TypeOK
  <2>2. CASE k = j /\ RescheduleJob(j)
    <3>1. jobs[k].status \in Cancellable /\ jobs'[k] = Rescheduled(jobs[k])
      BY <2>2 DEF RescheduleJob, SetRow, TypeOK
    <3>. QED
      BY <1>1, <1>3, <3>1, StatusWritten DEF Cancellable, Listed
  <2>3. CASE k = j /\ TimeStep(j)
    <3>1. \/ jobs'[k] = [jobs[k] EXCEPT !.due = TRUE]
          \/ jobs'[k] = [jobs[k] EXCEPT !.lease = FALSE]
      BY <2>3 DEF TimeStep, ComesDue, LeaseRunsOut, SetRow, TypeOK
    <3>. QED
      BY <1>1, <3>1 DEF StaysListed, Row
  <2>. QED
    BY <1>4, <2>1, <2>2, <2>3
<1>5. CASE FailJobsOfDeletedAccount(Jobs)
  BY <1>1, <1>2, <1>3, <1>5, StatusWritten DEF FailJobsOfDeletedAccount, FailedWithAccount, Listed
<1>6. ASSUME NEW w \in Workers, WorkerStep(w)
      PROVE  StaysListed(k)
  <2>1. CASE SweepExpiredLeases(w)
    BY <1>1, <1>2, <1>3, <2>1, StatusWritten DEF SweepExpiredLeases, ExpiredJobs, Listed
  <2>2. CASE ClaimDueJobs(w)
    <3>1. PICK S \in SUBSET DueJobs :
            jobs'[k] = IF k \in S THEN Claimed(jobs[k], FreshToken(k)) ELSE jobs[k]
      BY <2>2 DEF ClaimDueJobs
    <3>2. k \in S => jobs[k].status = "queued" /\ FreshToken(k) \in Claims
      BY FreshTokenIsFresh DEF DueJobs
    <3>. QED
      BY <1>1, <1>2, <1>3, <3>1, <3>2, StatusWritten DEF Listed
  <2>3. CASE ReleaseClaims(w)
    <3>1. \/ jobs'[k] = jobs[k]
          \/ jobs[k].status = "running" /\ jobs'[k] = Released(jobs[k])
      BY <2>3 DEF ReleaseClaims, HoldsClaim
    <3>. QED
      BY <1>1, <1>2, <1>3, <3>1, StatusWritten DEF Listed
  <2>4. CASE jobs' = jobs
    BY <1>2, <2>4
  <2>. QED
    BY <1>6, <2>1, <2>2, <2>3, <2>4
    DEF WorkerStep, StartRuns, ClaimReplyLost, StopWorker, ExitWorker, CrashWorker, StartWorker
<1>7. ASSUME NEW j \in Jobs, NEW c \in Claims,
             \/ RenewLease(j, c)
             \/ MarkEffectStarted(j, c)
             \/ MarkEffectReplyLost(j, c)
             \/ MarkEffectDone(j, c)
      PROVE  StaysListed(k)
  <2>1. \/ jobs'[k] = jobs[k]
        \/ jobs'[k] = [jobs[k] EXCEPT !.lease = TRUE]
        \/ jobs'[k] = [jobs[k] EXCEPT !.effectStarted = TRUE]
        \/ jobs'[k] = [jobs[k] EXCEPT !.effectDone = TRUE]
    BY <1>7 DEF RenewLease, MarkEffectStarted, MarkEffectReplyLost, MarkEffectDone, SetRow, TypeOK
  <2>. QED
    BY <1>1, <2>1 DEF StaysListed, Row
<1>8. ASSUME NEW j \in Jobs, NEW c \in Claims, SettleFailure(j, c)
      PROVE  StaysListed(k)
  <2>1. \/ jobs'[k] = jobs[k]
        \/ /\ jobs[k].status = "running"
           /\ \E outcome, code : jobs'[k] = Settled(jobs[k], outcome, code)
    BY <1>8 DEF SettleFailure, HoldsClaim, SetRow, TypeOK
  <2>. QED
    BY <1>1, <1>2, <1>3, <2>1, StatusWritten DEF Listed
<1>9. ASSUME NEW j \in Jobs, NEW c \in Claims,
             \/ EffectHappens(j, c)
             \/ EffectAnswered(j, c)
             \/ Throw(j, c)
             \/ SettleGivesUp(j, c)
      PROVE  StaysListed(k)
  BY <1>2, <1>9 DEF EffectHappens, EffectAnswered, Throw, SettleGivesUp
<1>10. CASE UNCHANGED vars
  BY <1>2, <1>10 DEF vars
<1>. QED
  BY <1>4, <1>5, <1>6, <1>7, <1>8, <1>9, <1>10 DEF LetterlessStep

\* An effect that happened is never forgotten. (jobQueue.js:294-365)
LEMMA EffectsStay ==
  ASSUME IndInv, [SendNext]_sendVars, NEW j \in Jobs, NEW c \in Claims, Happened(j, c)
  PROVE  Happened(j, c)'
<1>1. ASSUME Unseen
      PROVE  Happened(j, c)'
  BY <1>1 DEF Unseen
<1>2. CASE \E k \in Jobs, d \in Claims : EffectHappens(k, d)
  <2>1. PICK k \in Jobs, d \in Claims : EffectHappens(k, d)
    BY <1>2
  <2>2. runs'[j][c] = runs[j][c]
    BY <2>1 DEF EffectHappens, SetRun, Happened, IndInv, TypeOK
  <2>. QED
    BY <2>2 DEF Happened
<1>3. CASE (\E k \in Jobs : ClientStep(k) \/ TimeStep(k)) \/ UNCHANGED vars
           \/ (\E S \in SUBSET Jobs : FailJobsOfDeletedAccount(S))
  <2>1. UNCHANGED runs
    BY <1>3 DEF ClientStep, EnqueueJob, CancelJob, RescheduleJob, CleanupFinishedJob, TimeStep,
                ComesDue, LeaseRunsOut, FailJobsOfDeletedAccount, vars
  <2>. QED
    BY <1>1, <2>1, RunsAloneUnseen
<1>4. CASE \E w \in Workers : WorkerStep(w)
  BY <1>1, <1>4, WorkerStepUnseen
<1>5. CASE \E k \in Jobs, d \in Claims : RunStep(k, d) /\ ~EffectHappens(k, d)
  BY <1>1, <1>5, RunStepUnseen
<1>6. CASE \E k \in Jobs, d \in Claims : SettleSweptDelivery(k, d)
  BY <1>1, <1>6, SettleSweptUnseen DEF IndInv
<1>. QED
  BY <1>2, <1>3, <1>4, <1>5, <1>6, StepsOfTheQueue DEF Next

\* A step that takes one job off the list, with its letter, or brings one with its letter.
LEMMA OneLetter ==
  ASSUME IndInv, [SendNext]_sendVars, NEW j \in Jobs, NEW row,
         LetterKeptExactlyWhileListed, DoneMeansDelivered,
         SetRow(j, row),
         \/ row.status \in Listed /\ letters' = letters \cup {j}
         \/ row.status \notin Listed /\ letters' = letters \ {j},
         row.status = "done" => \E c \in Claims : Happened(j, c)
  PROVE  LetterKeptExactlyWhileListed' /\ DoneMeansDelivered'
<1>1. \A k \in Jobs : jobs'[k] = IF k = j THEN row ELSE jobs[k]
  BY DEF SetRow, IndInv, TypeOK
<1>2. LetterKeptExactlyWhileListed'
  BY <1>1 DEF LetterKeptExactlyWhileListed
<1>3. ASSUME NEW k \in Jobs, jobs'[k].status = "done"
      PROVE  \E c \in Claims : Happened(k, c)'
  <2>1. \E c \in Claims : Happened(k, c)
    BY <1>1, <1>3 DEF DoneMeansDelivered
  <2>. QED
    BY <2>1, EffectsStay
<1>. QED
  BY <1>2, <1>3 DEF DoneMeansDelivered

\* Every step keeps the letters with the list, and finishes only a job that had its effect.
LEMMA LettersStep ==
  ASSUME IndInv, LetterKeptExactlyWhileListed, DoneMeansDelivered, [SendNext]_sendVars
  PROVE  LetterKeptExactlyWhileListed' /\ DoneMeansDelivered'
<1>1. CASE LetterlessStep /\ letters' = letters
  <2>1. \A k \in Jobs : StaysListed(k)
    BY <1>1, LetterlessStays DEF IndInv
  <2>2. LetterKeptExactlyWhileListed'
    BY <1>1, <2>1 DEF LetterKeptExactlyWhileListed, StaysListed
  <2>3. DoneMeansDelivered'
    BY <2>1, EffectsStay DEF DoneMeansDelivered, StaysListed
  <2>. QED
    BY <2>2, <2>3
<1>2. ASSUME NEW j \in Jobs, EnqueueOutgoingSend(j)
      PROVE  LetterKeptExactlyWhileListed' /\ DoneMeansDelivered'
  <2>1. SetRow(j, Enqueued) /\ letters' = letters \cup {j}
    BY <1>2 DEF EnqueueOutgoingSend, EnqueueJob
  <2>2. Enqueued.status = "queued"
    BY DEF Enqueued, NoRow
  <2>. QED
    BY <2>1, <2>2, OneLetter DEF Listed
<1>3. ASSUME NEW j \in Jobs, CancelScheduled(j) \/ CleanupLetter(j)
      PROVE  LetterKeptExactlyWhileListed' /\ DoneMeansDelivered'
  <2>. DEFINE over == {Cancelled(jobs[j]), [NoRow EXCEPT !.status = "deleted"]}
  <2>1. jobs[j] \in Row
    BY DEF IndInv, TypeOK
  <2>2. \A row \in over : row.status \in {"cancelled", "deleted"}
    BY <2>1, StatusWritten
  <2>3. \E row \in over : SetRow(j, row) /\ letters' = letters \ {j}
    BY <1>3 DEF CancelScheduled, CancelJob, LettersAfterCancel, CleanupLetter, CleanupFinishedJob
  <2>. HIDE DEF over
  <2>. QED
    BY <2>2, <2>3, OneLetter DEF Listed
<1>4. ASSUME NEW j \in Jobs, NEW c \in Claims, CompleteDelivery(j, c)
      PROVE  LetterKeptExactlyWhileListed' /\ DoneMeansDelivered'
  <2>1. SetRow(j, Completed(jobs[j])) /\ letters' = letters \ {j} /\ Happened(j, c)
    BY <1>4 DEF CompleteDelivery, LettersAfterSend, Complete, CompleteReplyLost, MayComplete,
                Happened
  <2>2. Completed(jobs[j]).status = "done"
    BY StatusWritten DEF IndInv, TypeOK
  <2>. QED
    BY <2>1, <2>2, OneLetter DEF Listed
<1>5. ASSUME NEW j \in Jobs, NEW c \in Claims, SettleSweptDelivery(j, c)
      PROVE  LetterKeptExactlyWhileListed' /\ DoneMeansDelivered'
  <2>1. CASE jobs' = jobs /\ letters' = letters
    BY <2>1, EffectsStay DEF LetterKeptExactlyWhileListed, DoneMeansDelivered
  <2>2. CASE SetRow(j, SettledBySweep(jobs[j])) /\ letters' = letters \ {j}
    BY <1>5, <2>2, SettleSweptWrites, OneLetter DEF Listed, IndInv
  <2>. QED
    BY <1>5, <2>1, <2>2, SettleSweptWrites DEF IndInv, SetRow
<1>. QED
  BY <1>1, <1>2, <1>3, <1>4, <1>5, StepsAndLetters DEF LetterStep

\* No letter vanishes and none lingers: its content is in outgoing_messages exactly while its job
\* is listed under Scheduled. (0087_job_queue.sql:59-62, sendQueue.js LISTED_STATUSES)
\* And a letter reported sent was taken by the mail server. (sendQueue.js:368-381)
LEMMA LettersInv == SendSpec => [](LetterKeptExactlyWhileListed /\ DoneMeansDelivered)
<1>1. SendInit => LetterKeptExactlyWhileListed /\ DoneMeansDelivered
  BY DEF SendInit, Init, NoRow, LetterKeptExactlyWhileListed, DoneMeansDelivered, Listed
<1>. QED
  BY <1>1, LettersStep, SendKeepsQueueInv, PTL DEF SendSpec

\* No letter vanishes and none lingers, whichever of the author, the sweep, the worker that sent
\* it and the retention touched its job last. (0087_job_queue.sql:59-62, sendQueue.js)
THEOREM LettersStayWithTheList == SendSpec => []LetterKeptExactlyWhileListed
BY LettersInv, PTL

\* A letter reported sent was taken by the mail server, also when its job was finished by a run
\* that had lost the claim. (complete and settleSweptDelivery, sendQueue.js:368-381)
THEOREM SentWasTaken == SendSpec => []DoneMeansDelivered
BY LettersInv, PTL

-------------------------------------------------------------------------------
(* Who may not send *)

\* What the handler's checks are worth: a run that passed them is in its handler, and while a run
\* is known to have begun when sending was barred, nobody may send and it passed none of them.
ChecksAreWorth ==
  /\ checked \in SUBSET (Jobs \X Claims)
  /\ barred \in SUBSET (Jobs \X Claims)
  /\ \A jc \in checked : runs[jc[1]][jc[2]].stage = "handling"
  /\ barred # {} => ~MaySend
  /\ barred \cap checked = {}

BarInv == ChecksAreWorth /\ BarredNeverSends

\* A run that has begun no effect.
Harmless(j, c) == runs[j][c].effect = "none"

\* The steps that begin no effect: all but the one that hands the letter to the server.
EffectlessStep ==
  \/ UNCHANGED runs
  \/ \E w \in Workers : WorkerStep(w)
  \/ \E j \in Jobs, c \in Claims :
       \/ EffectHappens(j, c)
       \/ EffectAnswered(j, c)
       \/ Complete(j, c)
       \/ CompleteReplyLost(j, c)
       \/ Throw(j, c)
       \/ SettleFailure(j, c)
       \/ SettleGivesUp(j, c)
       \/ SettleSweptDelivery(j, c)

\* Every step but one begins no effect. (sendDelivery.js)
LEMMA StepsAndEffects ==
  ASSUME [SendNext]_sendVars, ~ \E j \in Jobs, c \in Claims : HandToServer(j, c)
  PROVE  EffectlessStep
<1>1. CASE UNCHANGED sendVars
  BY <1>1 DEF sendVars, vars, EffectlessStep
<1>2. CASE \E j \in Jobs : AuthorStep(j)
  BY <1>2 DEF AuthorStep, EnqueueOutgoingSend, EnqueueJob, CancelScheduled, CancelJob,
              RescheduleScheduled, RescheduleJob, CleanupLetter, CleanupFinishedJob, EffectlessStep
<1>3. CASE AdminStep
  BY <1>3 DEF AdminStep, SetAuthor, SetMailbox, DeleteMailboxFailsJobs, DeleteMailboxRow,
              FailJobsOfDeletedAccount, vars, EffectlessStep
<1>4. CASE \E w \in Workers : StartHandlers(w)
  BY <1>4 DEF StartHandlers, WorkerStep, EffectlessStep
<1>5. CASE QueueStep
  BY <1>5 DEF QueueStep, WorkerStep, TimeStep, ComesDue, LeaseRunsOut, RenewLease, EffectlessStep
<1>6. CASE \E j \in Jobs, c \in Claims : HandlerStep(j, c)
  BY <1>6 DEF HandlerStep, CheckLetter, LetterRefused, SetupFails, ServerAnswers, DeliveryFails,
              MarkDelivered, MarkEffectDone, CompleteDelivery, RecordingFails, Throws, vars,
              EffectlessStep
<1>. QED
  BY <1>1, <1>2, <1>3, <1>4, <1>5, <1>6 DEF SendNext

\* A run whose effect had not begun begins it with no other step. (jobQueue.js:19-21)
LEMMA NothingBegins ==
  ASSUME IndInv, EffectlessStep, NEW j \in Jobs, NEW c \in Claims, Harmless(j, c)
  PROVE  Harmless(j, c)'
<1>1. TypeOK /\ runs[j][c] \in Run /\ (\A run \in Run : EndedRun(run).effect = run.effect)
  BY DEF IndInv, TypeOK, EndedRun, Run
<1>2. CASE UNCHANGED runs
  BY <1>2 DEF Harmless
<1>3. ASSUME NEW w \in Workers, WorkerStep(w)
      PROVE  Harmless(j, c)'
  <2>1. CASE \E R : runs' = EndRuns(R)
    BY <1>1, <2>1 DEF EndRuns, Harmless
  <2>2. CASE StartRuns(w)
    <3>1. \/ runs'[j][c] = runs[j][c]
          \/ runs'[j][c] = [runs[j][c] EXCEPT !.stage = "handling", !.ran = TRUE]
      BY <2>2 DEF StartRuns
    <3>. QED
      BY <1>1, <3>1 DEF Harmless, Run
  <2>3. CASE ClaimDueJobs(w)
    <3>. DEFINE new == [NoRun EXCEPT !.stage = "claimed", !.worker = w, !.consent = consents[j]]
    <3>1. runs'[j] = runs[j] \/ runs'[j] = [runs[j] EXCEPT ![FreshToken(j)] = new]
      BY <2>3 DEF ClaimDueJobs
    <3>2. new.effect = "none"
      BY DEF NoRun
    <3>. HIDE DEF new
    <3>3. runs'[j][c] = runs[j][c] \/ runs'[j][c] = new
      BY <1>1, <3>1 DEF TypeOK
    <3>. QED
      BY <3>2, <3>3 DEF Harmless
  <2>. QED
    BY <1>2, <1>3, <2>1, <2>2, <2>3
    DEF WorkerStep, SweepExpiredLeases, ReleaseClaims, ClaimReplyLost, StopWorker, ExitWorker,
        CrashWorker, StartWorker
<1>4. ASSUME NEW k \in Jobs, NEW d \in Claims, NEW run, SetRun(k, d, run),
             Harmless(k, d) => run.effect = "none"
      PROVE  Harmless(j, c)'
  <2>1. runs'[j][c] = IF k = j /\ d = c THEN run ELSE runs[j][c]
    BY <1>1, <1>4 DEF SetRun, TypeOK
  <2>. QED
    BY <1>4, <2>1 DEF Harmless
<1>5. ASSUME NEW k \in Jobs, NEW d \in Claims,
             EffectHappens(k, d) \/ EffectAnswered(k, d)
      PROVE  Harmless(j, c)'
  <2>1. ~Harmless(k, d) /\ \E run : SetRun(k, d, run)
    BY <1>5 DEF EffectHappens, EffectAnswered, Harmless
  <2>. QED
    BY <1>4, <2>1
<1>6. ASSUME NEW k \in Jobs, NEW d \in Claims,
             CompleteReplyLost(k, d) \/ Throw(k, d)
      PROVE  Harmless(j, c)'
  <2>1. runs[k][d] \in Run
    BY <1>1 DEF TypeOK
  <2>2. PICK outcome, known :
          SetRun(k, d, [runs[k][d] EXCEPT !.stage = "settling", !.outcome = outcome,
                                          !.known = known])
    <3>1. CASE Throw(k, d)
      BY <3>1 DEF Throw
    <3>2. CASE CompleteReplyLost(k, d)
      <4>1. PICK outcome :
              SetRun(k, d, [runs[k][d] EXCEPT !.stage = "settling", !.outcome = outcome])
        BY <3>2 DEF CompleteReplyLost
      <4>2. [runs[k][d] EXCEPT !.stage = "settling", !.outcome = outcome]
              = [runs[k][d] EXCEPT !.stage = "settling", !.outcome = outcome,
                                   !.known = runs[k][d].known]
        BY <2>1 DEF Run
      <4>. QED
        BY <4>1, <4>2
    <3>. QED
      BY <1>6, <3>1, <3>2
  <2>3. [runs[k][d] EXCEPT !.stage = "settling", !.outcome = outcome, !.known = known].effect
          = runs[k][d].effect
    BY <2>1 DEF Run
  <2>. QED
    BY <1>4, <2>2, <2>3 DEF Harmless
<1>7. ASSUME NEW k \in Jobs, NEW d \in Claims,
             \/ Complete(k, d)
             \/ SettleFailure(k, d)
             \/ SettleGivesUp(k, d)
             \/ SettleSweptDelivery(k, d)
      PROVE  Harmless(j, c)'
  <2>1. SetRun(k, d, EndedRun(runs[k][d])) /\ runs[k][d] \in Run
    BY <1>1, <1>7 DEF Complete, SettleFailure, SettleGivesUp, SettleSweptDelivery, TypeOK
  <2>. QED
    BY <1>1, <1>4, <2>1 DEF Harmless
<1>. QED
  BY <1>2, <1>3, <1>5, <1>6, <1>7 DEF EffectlessStep

\* A step after which checked and barred speak of the runs that are left, and which begins no
\* effect of a barred run.
LEMMA FollowKeepsBars ==
  ASSUME BarInv, Follow, UNCHANGED <<author, mailbox>>,
         \A jc \in barred : Harmless(jc[1], jc[2])'
  PROVE  BarInv'
BY DEF BarInv, ChecksAreWorth, BarredNeverSends, Follow, MaySend, Harmless

\* Every step leaves a run that began while sending was barred without an effect: to pass the
\* checks it would have to find that sending is allowed again. (sendQueue.js:391-415)
LEMMA BarStep ==
  ASSUME IndInv, BarInv, [SendNext]_sendVars
  PROVE  BarInv'
<1>1. CASE \E j \in Jobs, c \in Claims : HandToServer(j, c)
  <2>1. PICK j \in Jobs, c \in Claims : HandToServer(j, c)
    BY <1>1
  <2>2. <<j, c>> \notin barred
    BY <2>1 DEF HandToServer, BarInv, ChecksAreWorth
  <2>3. \E run : SetRun(j, c, run)
    BY <2>1 DEF HandToServer, MarkEffectStarted, MarkEffectReplyLost
  <2>4. ASSUME NEW jc \in barred
        PROVE  Harmless(jc[1], jc[2])'
    <3>1. jc \in Jobs \X Claims /\ jc # <<j, c>> /\ runs[jc[1]][jc[2]].effect = "none"
      BY <2>2 DEF BarInv, ChecksAreWorth, BarredNeverSends
    <3>2. runs'[jc[1]][jc[2]] = runs[jc[1]][jc[2]]
      BY <2>3, <3>1 DEF SetRun, IndInv, TypeOK
    <3>. QED
      BY <3>1, <3>2 DEF Harmless
  <2>. QED
    BY <2>1, <2>4, FollowKeepsBars DEF HandToServer
<1>2. CASE ~ \E j \in Jobs, c \in Claims : HandToServer(j, c)
  <2>1. \A j \in Jobs, c \in Claims : Harmless(j, c) => Harmless(j, c)'
    BY <1>2, StepsAndEffects, NothingBegins
  <2>2. \A jc \in barred : Harmless(jc[1], jc[2])'
    BY <2>1 DEF BarInv, ChecksAreWorth, BarredNeverSends, Harmless
  <2>3. CASE Follow /\ UNCHANGED <<author, mailbox>>
    BY <2>2, <2>3, FollowKeepsBars
  <2>4. CASE /\ UNCHANGED <<runs, checked>>
             /\ \/ barred' = {}
                \/ barred' = barred /\ (MaySend' => MaySend)
    BY <2>4 DEF BarInv, ChecksAreWorth, BarredNeverSends
  <2>5. ASSUME NEW w \in Workers, StartHandlers(w)
        PROVE  BarInv'
    <3>. DEFINE claim == ClaimInFlight(w)
    <3>1. /\ checked' = checked
          /\ barred' = IF MaySend THEN barred ELSE barred \cup claim
          /\ MaySend' = MaySend
      BY <2>5 DEF StartHandlers, MaySend
    <3>2. \A jc \in claim : jc \in Jobs \X Claims /\ runs[jc[1]][jc[2]].stage = "claimed"
      BY DEF ClaimInFlight, RunsOf
    <3>3. \A jc \in claim : Harmless(jc[1], jc[2])
      BY <3>2 DEF IndInv, RunsAreHonest, IsHonest, Harmless
    <3>4. \A jc \in claim : Harmless(jc[1], jc[2])'
      BY <2>1, <3>2, <3>3
    <3>5. \A jc \in checked : jc \in Jobs \X Claims /\ jc \notin claim
      BY <3>2 DEF BarInv, ChecksAreWorth
    <3>6. ASSUME NEW jc \in checked
          PROVE  runs'[jc[1]][jc[2]] = runs[jc[1]][jc[2]]
      <4>1. PICK j \in Jobs, c \in Claims : jc = <<j, c>>
        BY <3>5
      <4>2. <<j, c>> \notin claim
        BY <3>5, <4>1
      <4>3. runs'[j][c] = runs[j][c]
        BY <2>5, <4>2 DEF StartHandlers, StartRuns
      <4>. QED
        BY <4>1, <4>3
    <3>. HIDE DEF claim
    <3>7. ChecksAreWorth'
      BY <3>1, <3>2, <3>5, <3>6 DEF BarInv, ChecksAreWorth
    <3>8. BarredNeverSends'
      BY <2>2, <3>1, <3>4 DEF BarredNeverSends, Harmless
    <3>. QED
      BY <3>7, <3>8 DEF BarInv
  <2>6. ASSUME NEW j \in Jobs, NEW c \in Claims, CheckLetter(j, c)
        PROVE  BarInv'
    BY <2>6 DEF CheckLetter, vars, MaySend, BarInv, ChecksAreWorth, BarredNeverSends
  <2>7. CASE AdminStep
    <3>1. CASE \E state \in {"active", "disabled"} : SetAuthor(state)
      BY <2>4, <3>1 DEF SetAuthor, vars, MaySend
    <3>2. CASE \E state \in {"usable", "barred"} : SetMailbox(state)
      BY <2>4, <3>2 DEF SetMailbox, vars, MaySend
    <3>3. CASE DeleteMailboxFailsJobs
      BY <2>3, <3>3 DEF DeleteMailboxFailsJobs
    <3>4. CASE DeleteMailboxRow
      BY <2>4, <3>4 DEF DeleteMailboxRow, vars, MaySend
    <3>. QED
      BY <2>7, <3>1, <3>2, <3>3, <3>4 DEF AdminStep
  <2>8. CASE (\E j \in Jobs : AuthorStep(j)) \/ QueueStep
    BY <2>3, <2>8 DEF AuthorStep, EnqueueOutgoingSend, CancelScheduled, RescheduleScheduled,
                      CleanupLetter, QueueStep
  <2>9. ASSUME NEW j \in Jobs, NEW c \in Claims, HandlerStep(j, c), ~CheckLetter(j, c)
        PROVE  BarInv'
    BY <1>2, <2>3, <2>9 DEF HandlerStep, LetterRefused, SetupFails, ServerAnswers, DeliveryFails,
                            MarkDelivered, CompleteDelivery, SettleSweptDelivery, RecordingFails
  <2>10. CASE UNCHANGED sendVars
    BY <2>4, <2>10 DEF sendVars, vars, MaySend
  <2>. QED
    BY <2>5, <2>6, <2>7, <2>8, <2>9, <2>10 DEF SendNext
<1>. QED
  BY <1>1, <1>2

\* The checks are worth what they should in every reachable state.
LEMMA BarsInv == SendSpec => []BarInv
<1>1. SendInit => BarInv
  BY DEF SendInit, BarInv, ChecksAreWorth, BarredNeverSends
<1>. QED
  BY <1>1, BarStep, SendKeepsQueueInv, PTL DEF SendSpec

\* A handler that began while its author was disabled, or its mailbox could not send, hands
\* nothing to the mail server. (sendQueue.js:391-415)
THEOREM BarredRunsSendNothing == SendSpec => []BarredNeverSends
<1>1. BarInv => BarredNeverSends
  BY DEF BarInv
<1>. QED
  BY <1>1, BarsInv, PTL

\* Letters, people and runs are what the tables and the processes hold. (sendQueue.js)
THEOREM SendTypeCorrect == SendSpec => []SendTypeOK
<1>. DEFINE Admin == /\ author \in {"active", "disabled"}
                     /\ mailbox \in {"usable", "barred", "gone"}
                     /\ leaving \in BOOLEAN
<1>1. SendInit => Admin
  BY DEF SendInit
<1>2. ASSUME Admin, [SendNext]_sendVars
      PROVE  Admin'
  <2>1. CASE AdminStep
    BY <1>2, <2>1 DEF AdminStep, SetAuthor, SetMailbox, DeleteMailboxFailsJobs, DeleteMailboxRow
  <2>2. CASE \E j \in Jobs : AuthorStep(j)
    BY <1>2, <2>2 DEF AuthorStep, EnqueueOutgoingSend, CancelScheduled, RescheduleScheduled,
                      CleanupLetter
  <2>3. CASE UNCHANGED sendVars \/ QueueStep \/ \E w \in Workers : StartHandlers(w)
    BY <1>2, <2>3 DEF sendVars, QueueStep, StartHandlers
  <2>4. CASE \E j \in Jobs, c \in Claims : HandlerStep(j, c)
    BY <1>2, <2>4 DEF HandlerStep, CheckLetter, LetterRefused, SetupFails, HandToServer,
                      ServerAnswers, DeliveryFails, MarkDelivered, CompleteDelivery,
                      SettleSweptDelivery, RecordingFails
  <2>. QED
    BY <1>2, <2>1, <2>2, <2>3, <2>4 DEF SendNext
<1>3. SendSpec => []Admin
  BY <1>1, <1>2, PTL DEF SendSpec
<1>4. IndInv /\ LetterKeptExactlyWhileListed /\ BarInv /\ Admin => SendTypeOK
  BY DEF IndInv, LetterKeptExactlyWhileListed, BarInv, ChecksAreWorth, SendTypeOK
<1>. QED
  BY <1>3, <1>4, SendKeepsQueueInv, LettersInv, BarsInv, PTL
===============================================================================
