------------------------------ MODULE SendQueue -------------------------------
(***************************************************************************)
(* Undo send, send later and the delivery of a letter: the send_message    *)
(* kind of the job queue (backend/src/services/sendQueue.js,               *)
(* sendDelivery.js). A job of JobQueue is here a letter's job, its effect  *)
(* is the mail server taking the letter, and the letter itself lives in    *)
(* the table outgoing_messages until it is sent, cancelled or too old.     *)
(*                                                                         *)
(* The letters of the model are of one author and one mailbox, so that     *)
(* disabling the author or deleting the mailbox meets all of them.         *)
(***************************************************************************)
EXTENDS JobQueue

VARIABLES
  letters,   \* the jobs whose letter is in outgoing_messages
  author,    \* active or disabled (users.disabled_at)
  mailbox,   \* usable, barred (disabled or read-only) or gone (its row was deleted)
  leaving,   \* its deletion began: its waiting jobs were failed, its row is about to go
  checked,   \* the runs whose handler passed its checks and has not begun its effect
  barred     \* history: runs whose handler began, and still runs, while sending was barred

sendVars == <<vars, letters, author, mailbox, leaving, checked, barred>>

SendTypeOK ==
  /\ TypeOK
  /\ letters \in SUBSET Jobs
  /\ author \in {"active", "disabled"}
  /\ mailbox \in {"usable", "barred", "gone"}
  /\ leaving \in BOOLEAN
  /\ checked \in SUBSET (Jobs \X Claims)
  /\ barred \in SUBSET (Jobs \X Claims)

SendInit ==
  /\ Init
  /\ letters = {}
  /\ author = "active"
  /\ mailbox = "usable"
  /\ leaving = FALSE
  /\ checked = {}
  /\ barred = {}

\* LISTED_STATUSES: the statuses a letter is shown under Scheduled in
Listed == {"queued", "running", "failed", "needs_attention"}

\* What the checks of the handler read of the author and of the mailbox's row.
MaySendSlip == mailbox = "usable"
MaySend == author = "active" /\ mailbox = "usable"

\* checked and barred speak of runs that are still there.
Follow ==
  /\ checked' = {jc \in checked : runs'[jc[1]][jc[2]].stage = "handling"}
  /\ barred' = {jc \in barred : Alive(jc[1], jc[2])'}

-------------------------------------------------------------------------------
(* The author: routes/send.js and routes/scheduled.js *)

\* enqueueOutgoingSend: the job and its letter, in one transaction. The route checked the
\* author and the mailbox before it built the letter: by now they may be barred, and only a
\* deleted mailbox stops the insert (its foreign key).
EnqueueOutgoingSend(j) ==
  /\ mailbox # "gone"
  /\ EnqueueJob(j)
  /\ letters' = letters \cup {j}
  /\ UNCHANGED <<author, mailbox, leaving>>
  /\ Follow

\* cancelScheduled, by the author or an administrator: undo, edit or discard. The letter goes
\* with the job, in one transaction.
LettersAfterCancelSlip(j) ==
  IF jobs[j].status = "needs_attention" THEN letters ELSE letters \ {j}
LettersAfterCancel(j) == letters \ {j}
CancelScheduled(j) ==
  /\ CancelJob(j)
  /\ letters' = LettersAfterCancel(j)
  /\ UNCHANGED <<author, mailbox, leaving>>
  /\ Follow

\* rescheduleScheduled: a waiting letter is moved, a kept one is sent again when asked to
RescheduleScheduled(j) ==
  /\ RescheduleJob(j)
  /\ UNCHANGED <<letters, author, mailbox, leaving>>
  /\ Follow

-------------------------------------------------------------------------------
(* Administration and time *)

SetAuthor(state) ==
  /\ author # state
  /\ author' = state
  /\ checked' = checked
  /\ barred' = IF state = "active" THEN {} ELSE barred
  /\ UNCHANGED <<vars, letters, mailbox, leaving>>

\* Disabled or read-only, and back.
SetMailbox(state) ==
  /\ mailbox \in {"usable", "barred"} \ {state}
  /\ mailbox' = state
  /\ checked' = checked
  /\ barred' = IF state = "usable" THEN {} ELSE barred
  /\ UNCHANGED <<vars, letters, author, leaving>>

\* deleteAccount: the waiting letters of the mailbox fail first ...
DeleteMailboxFailsJobs ==
  /\ ~leaving
  /\ leaving' = TRUE
  /\ \/ FailJobsOfDeletedAccount(Jobs)
     \/ /\ \A j \in Jobs : jobs[j].status \notin FailedWithAccount
        /\ UNCHANGED vars
  /\ UNCHANGED <<letters, author, mailbox>>
  /\ Follow

\* ... then, after the provider's token was revoked, its row goes.
DeleteMailboxRow ==
  /\ leaving
  /\ mailbox # "gone"
  /\ mailbox' = "gone"
  /\ UNCHANGED <<vars, letters, author, leaving, checked, barred>>

\* cleanupFinishedJobs: the job's letter goes with its row (ON DELETE CASCADE).
CleanupLetter(j) ==
  /\ CleanupFinishedJob(j)
  /\ letters' = letters \ {j}
  /\ UNCHANGED <<author, mailbox, leaving>>
  /\ Follow

-------------------------------------------------------------------------------
(* The worker: the queue's steps, with the handler's beginning noted *)

StartHandlers(w) ==
  /\ StartRuns(w)
  /\ checked' = checked
  /\ barred' = IF author = "active" /\ mailbox = "usable" THEN barred
                                                        ELSE barred \cup ClaimInFlight(w)
  /\ UNCHANGED <<letters, author, mailbox, leaving>>

QueueStep ==
  /\ \/ \E j \in Jobs : TimeStep(j)
     \/ \E w \in Workers :
          \/ SweepExpiredLeases(w)
          \/ ClaimDueJobs(w)
          \/ ReleaseClaims(w)
          \/ ClaimReplyLost(w)
          \/ StopWorker(w)
          \/ ExitWorker(w)
          \/ CrashWorker(w)
          \/ StartWorker(w)
     \/ \E j \in Jobs, c \in Claims :
          \/ RenewLease(j, c)
          \/ EffectHappens(j, c)
          \/ SettleFailure(j, c)
          \/ SettleGivesUp(j, c)
  /\ UNCHANGED <<letters, author, mailbox, leaving>>
  /\ Follow

-------------------------------------------------------------------------------
(* The handler: handleSendJob and deliverOutgoingMessage *)

\* The error of a throw, as the handler or deliveryFailure chose it.
Throws(j, c, outcomes, known) ==
  /\ Throw(j, c)
  /\ runs'[j][c].outcome \in outcomes
  /\ runs'[j][c].known = known

\* The letter, its author and its mailbox are read and found fit.
CheckLetter(j, c) ==
  /\ runs[j][c].stage = "handling"
  /\ <<j, c>> \notin checked
  /\ j \in letters
  /\ MaySend
  /\ checked' = checked \cup {<<j, c>>}
  /\ UNCHANGED <<vars, letters, author, mailbox, leaving, barred>>

\* letter_missing, author_disabled, account_missing, mailbox_disabled, mailbox_read_only; or
\* the database did not answer the reads
LetterRefused(j, c) ==
  /\ runs[j][c].stage = "handling"
  /\ <<j, c>> \notin checked
  /\ \/ ~(j \in letters /\ MaySend) /\ Throws(j, c, {"fail"}, FALSE)
     \/ Throws(j, c, {"retry"}, FALSE)
  /\ UNCHANGED <<letters, author, mailbox, leaving>>
  /\ Follow

\* The transport could not be set up, or the Proton worker's gate is closed.
SetupFails(j, c) ==
  /\ <<j, c>> \in checked
  /\ Throws(j, c, {"retry", "fail"}, FALSE)
  /\ UNCHANGED <<letters, author, mailbox, leaving>>
  /\ Follow

\* markEffectStarted, and transport.sendMail right after it
HandToServer(j, c) ==
  /\ <<j, c>> \in checked
  /\ MarkEffectStarted(j, c) \/ MarkEffectReplyLost(j, c)
  /\ UNCHANGED <<letters, author, mailbox, leaving>>
  /\ Follow

\* sendMail resolves, or throws a definite refusal or no more than a broken connection.
ServerAnswers(j, c) ==
  /\ EffectAnswered(j, c)
  /\ UNCHANGED <<letters, author, mailbox, leaving>>
  /\ Follow

DeliveryFails(j, c) ==
  /\ runs[j][c].stage = "effect"
  /\ \/ runs[j][c].effect = "averted" /\ Throws(j, c, {"retry", "fail"}, FALSE)
     \/ runs[j][c].effect \in {"started", "happened"}
        /\ Throws(j, c, {"needs_attention"}, FALSE)
  /\ UNCHANGED <<letters, author, mailbox, leaving>>
  /\ Follow

\* onDelivered records the delivery first, apart from the completion.
MarkDelivered(j, c) ==
  /\ MarkEffectDone(j, c)
  /\ UNCHANGED <<letters, author, mailbox, leaving>>
  /\ Follow

\* complete: the job is done and its letter goes, in one transaction.
LettersAfterSend(j) == letters \ {j}
CompleteDelivery(j, c) ==
  /\ runs[j][c].stage = "effect"
  /\ HoldsClaim(j, c)
  /\ Complete(j, c) \/ CompleteReplyLost(j, c)
  /\ letters' = LettersAfterSend(j)
  /\ UNCHANGED <<author, mailbox, leaving>>
  /\ Follow

\* complete found the claim gone: settleSweptDelivery takes the job from where the sweep put
\* it, unless somebody did something with it meanwhile.
SettledBySender == {"lease_expired", "effect_done"}
SweptFrom == {"needs_attention"}
SettleSweptDelivery(j, c) ==
  LET mine == jobs[j].status \in SweptFrom /\ jobs[j].code \in SettledBySender IN
  /\ runs[j][c].stage = "effect"
  /\ runs[j][c].effect = "answered"
  /\ ~HoldsClaim(j, c)
  /\ SetRow(j, IF mine THEN [jobs[j] EXCEPT !.status = "done", !.code = "none"] ELSE jobs[j])
  /\ letters' = IF mine THEN LettersAfterSend(j) ELSE letters
  /\ SetRun(j, c, EndedRun(runs[j][c]))
  /\ UNCHANGED <<workers, consents, undone, faults, reschedules, author, mailbox,
                 leaving>>
  /\ Follow

\* Recording failed twice: settled as delivered-unrecorded, if the claim is still held.
RecordingFails(j, c) ==
  /\ runs[j][c].effect = "answered"
  /\ Throws(j, c, {"needs_attention"}, TRUE)
  /\ UNCHANGED <<letters, author, mailbox, leaving>>
  /\ Follow

-------------------------------------------------------------------------------

AuthorStep(j) ==
  EnqueueOutgoingSend(j) \/ CancelScheduled(j) \/ RescheduleScheduled(j) \/ CleanupLetter(j)

AdminStep ==
  \/ \E state \in {"active", "disabled"} : SetAuthor(state)
  \/ \E state \in {"usable", "barred"} : SetMailbox(state)
  \/ DeleteMailboxFailsJobs
  \/ DeleteMailboxRow

HandlerStep(j, c) ==
  \/ CheckLetter(j, c)
  \/ LetterRefused(j, c)
  \/ SetupFails(j, c)
  \/ HandToServer(j, c)
  \/ ServerAnswers(j, c)
  \/ DeliveryFails(j, c)
  \/ MarkDelivered(j, c)
  \/ CompleteDelivery(j, c)
  \/ SettleSweptDelivery(j, c)
  \/ RecordingFails(j, c)

SendNext ==
  \/ \E j \in Jobs : AuthorStep(j)
  \/ AdminStep
  \/ \E w \in Workers : StartHandlers(w)
  \/ QueueStep
  \/ \E j \in Jobs, c \in Claims : HandlerStep(j, c)

SendSpec == SendInit /\ [][SendNext]_sendVars

-------------------------------------------------------------------------------
(* Safety *)

\* No letter vanishes and none lingers: its content is there exactly while its job is listed
\* under Scheduled, whichever of the author, the sweep, the worker that sent it and the
\* retention touched the job last. (0087_job_queue.sql:59-62, sendQueue.js LISTED_STATUSES)
LetterKeptExactlyWhileListed ==
  letters = {j \in Jobs : jobs[j].status \in Listed}

\* A letter reported sent was taken by the mail server, also when its job was finished by a
\* run that had lost the claim. (complete and settleSweptDelivery, sendQueue.js:368-381)
DoneMeansDelivered ==
  \A j \in Jobs : jobs[j].status = "done" => \E c \in Claims : Happened(j, c)

\* A handler that began while its author was disabled or its mailbox could not send hands
\* nothing to the mail server, unless they were allowed to again while it ran.
\* (sendQueue.js:391-415)
BarredNeverSends ==
  \A jc \in barred : runs[jc[1]][jc[2]].effect = "none"

\* The promise of undo and of at-most-once sending, kept by the send queue as a whole.
\* (sendQueue.js:6-8)
SendImplementsPromise == Promise!Spec

-------------------------------------------------------------------------------
(* What a comment says and the code does not do *)

\* sendQueue.js:455-456: once the delivery was marked, "should the worker stop before the job
\* is done, the sweep labels it delivered_unrecorded, never an uncertain send to offer again".
MarkedDeliveryIsLabelled ==
  \A j \in Jobs :
    /\ jobs[j].status = "needs_attention"
    /\ jobs[j].effectDone
    /\ \A c \in Claims : ~Alive(j, c)
    => jobs[j].code = "effect_done"

===============================================================================
