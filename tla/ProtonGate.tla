------------------------------ MODULE ProtonGate -------------------------------
(***************************************************************************)
(* Sends of managed Proton mailboxes against backups: the send leases of    *)
(* the backend (proton/maintenance.js), the snapshot gate of the Proton     *)
(* worker (deploy/proton-worker/controller.py) and the backup on the host   *)
(* that closes it (scripts/deploy/backup.sh, lib/proton.sh).                *)
(*                                                                          *)
(* The three speak over HTTP: a request the caller gave up on may still be  *)
(* carried out later, in another order. Each send is one call of            *)
(* withProtonSendLease with a lease name of its own. The worker's sign-ins  *)
(* and removals, which a snapshot drains as well, are left out.             *)
(***************************************************************************)
EXTENDS Naturals

CONSTANTS
  Sends,       \* calls of withProtonSendLease
  Backups,     \* runs of backup.sh, by their snapshot id
  None,        \* no snapshot
  MaxFaults    \* bound: timeouts, missed renewals, killed backups, backend crashes
CONSTANT
  MaxRestarts  \* bound: restarts of the worker by itself

ASSUME GateAssumption == None \notin Backups /\ MaxFaults \in Nat /\ MaxRestarts \in Nat

VARIABLES
  stage,      \* of each send: new, asking, sending, releasing, deleting, ended
  tries,      \* of each send: DELETEs tried
  posts,      \* sends whose POST /leases/send waits at the worker
  deletes,    \* of each send: DELETE /leases/:id that wait at the worker
  lost,       \* history: sends the worker has wrong: a release that never came, a lease forgotten
  leases,     \* send_leases of the worker
  cancelled,  \* cancelled_leases
  gate,       \* snapshot: the backup that holds the gate
  draining,   \* the backup whose begin still waits for the sends
  expired,    \* snapshot_expires_at has passed
  bridge,     \* Proton Bridge runs
  backup,     \* of each backup: where the script stands
  dirty,      \* history: backups that captured a half recorded send or a running Bridge
  budget      \* faults and restarts left

sendState == <<stage, tries, lost>>
messages == <<posts, deletes>>
worker == <<leases, cancelled, gate, draining, expired, bridge>>
host == <<backup, dirty>>
vars == <<stage, tries, posts, deletes, lost, leases, cancelled, gate, draining, expired, bridge,
          backup, dirty, budget>>

Alive == {s \in Sends : stage[s] \notin {"new", "ended"}}
Running == {"beginning", "held", "dumped", "staging", "staged"}
Capturing == {"held", "dumped", "staging", "staged"}

TypeOK ==
  /\ stage \in [Sends -> {"new", "asking", "sending", "releasing", "deleting", "ended"}]
  /\ tries \in [Sends -> 0 .. 2]
  /\ posts \in SUBSET Sends
  /\ deletes \in [Sends -> 0 .. 2]
  /\ lost \in SUBSET Sends
  /\ leases \in SUBSET Sends
  /\ cancelled \in SUBSET Sends
  /\ gate \in Backups \cup {None}
  /\ draining \in {gate, None}
  /\ expired \in BOOLEAN
  /\ bridge \in BOOLEAN
  /\ backup \in [Backups -> Running \cup {"idle", "ok", "failed"}]
  /\ dirty \in SUBSET Backups
  /\ budget \in [faults : Nat, restarts : Nat]

Init ==
  /\ stage = [s \in Sends |-> "new"]
  /\ tries = [s \in Sends |-> 0]
  /\ posts = {}
  /\ deletes = [s \in Sends |-> 0]
  /\ lost = {}
  /\ leases = {}
  /\ cancelled = {}
  /\ gate = None
  /\ draining = None
  /\ expired = FALSE
  /\ bridge = TRUE
  /\ backup = [b \in Backups |-> "idle"]
  /\ dirty = {}
  /\ budget = [faults |-> MaxFaults, restarts |-> MaxRestarts]

Fault ==
  /\ budget.faults > 0
  /\ budget' = [budget EXCEPT !.faults = @ - 1]

SetStage(s, to) == stage' = [stage EXCEPT ![s] = to]

-------------------------------------------------------------------------------
(* The backend: withProtonSendLease *)

\* acquire: POST /leases/send under a new name, or again after maintenance_busy.
Ask(s) ==
  /\ stage[s] = "new"
  /\ SetStage(s, "asking")
  /\ posts' = posts \cup {s}
  /\ UNCHANGED <<tries, lost, deletes, worker, host, budget>>

\* The request times out: the name is cancelled, whatever became of the request.
GiveUpAsking(s) ==
  /\ stage[s] = "asking"
  /\ Fault
  /\ SetStage(s, "releasing")
  /\ UNCHANGED <<tries, lost, messages, worker, host>>

\* fn ends: the letter is recorded as sent, or failed.
EndSend(s) ==
  /\ stage[s] = "sending"
  /\ SetStage(s, "releasing")
  /\ UNCHANGED <<tries, lost, messages, worker, host, budget>>

\* release: DELETE /leases/:id
Delete(s) ==
  /\ stage[s] = "releasing"
  /\ SetStage(s, "deleting")
  /\ tries' = [tries EXCEPT ![s] = @ + 1]
  /\ deletes' = [deletes EXCEPT ![s] = @ + 1]
  /\ UNCHANGED <<lost, posts, worker, host, budget>>

TriesAgain(s) == tries[s] < 2

\* The DELETE times out, or never got there: tried twice, then the lease stays with the worker.
GiveUpDeleting(s) ==
  /\ stage[s] = "deleting"
  /\ IF deletes[s] > 0 THEN Fault ELSE UNCHANGED budget
  /\ SetStage(s, IF TriesAgain(s) THEN "releasing" ELSE "ended")
  /\ \/ deletes' = deletes
     \/ deletes[s] > 0 /\ deletes' = [deletes EXCEPT ![s] = @ - 1]
  /\ lost' = IF TriesAgain(s) THEN lost ELSE lost \cup {s}
  /\ UNCHANGED <<tries, posts, worker, host>>

\* The backend dies: its sends end where they are, and their leases stay with the worker.
BackendDies ==
  /\ Fault
  /\ Alive # {}
  /\ stage' = [s \in Sends |-> IF s \in Alive THEN "ended" ELSE stage[s]]
  /\ lost' = lost \cup Alive
  /\ UNCHANGED <<tries, messages, worker, host>>

-------------------------------------------------------------------------------
(* The worker: leases *)

AdmitsSlip(s) == TRUE
\* _admit: nothing new while a snapshot holds the gate
Admits(s) == gate = None

\* What the sender does with the answer, if it still waits for it: a refused name is cancelled,
\* and a busy worker is asked again, or given up after two minutes.
Answered(s, answer) ==
  IF stage[s] # "asking"
    THEN UNCHANGED stage
    ELSE \/ answer = "granted" /\ SetStage(s, "sending")
         \/ answer = "busy" /\ \E to \in {"new", "ended"} : SetStage(s, to)
         \/ answer = "refused" /\ SetStage(s, "releasing")

\* acquire_send_lease
HandlePost(s) ==
  /\ s \in posts
  /\ posts' = posts \ {s}
  /\ \/ /\ s \in cancelled
        /\ cancelled' = cancelled \ {s}
        /\ Answered(s, "refused")
        /\ UNCHANGED leases
     \/ /\ s \notin cancelled
        /\ ~Admits(s)
        /\ Answered(s, "busy")
        /\ UNCHANGED <<leases, cancelled>>
     \/ /\ s \notin cancelled
        /\ Admits(s)
        /\ leases' = leases \cup {s}
        /\ Answered(s, "granted")
        /\ UNCHANGED cancelled
  /\ UNCHANGED <<tries, lost, deletes, gate, draining, expired, bridge, host, budget>>

\* release_send_lease: a name not (yet) granted is remembered as cancelled.
Remembers(s) == IF s \in leases THEN cancelled ELSE cancelled \cup {s}
HandleDelete(s) ==
  /\ deletes[s] > 0
  /\ deletes' = [deletes EXCEPT ![s] = @ - 1]
  /\ leases' = leases \ {s}
  /\ cancelled' = Remembers(s)
  /\ IF stage[s] = "deleting" THEN SetStage(s, "ended") ELSE UNCHANGED stage
  /\ UNCHANGED <<tries, lost, posts, gate, draining, expired, bridge, host, budget>>

-------------------------------------------------------------------------------
(* The worker: the gate *)

\* What an opened gate does to the backup that captures under it: Bridge starts.
OpenGate ==
  /\ gate' = None
  /\ expired' = FALSE
  /\ bridge' = TRUE
  /\ dirty' = dirty \cup {b \in Backups : backup[b] \in Capturing}

\* No renewal for five minutes: the holder is gone, or its renewals fail. Draining and stopping
\* Bridge take less than three.
Expires ==
  /\ gate # None
  /\ draining = None
  /\ ~expired
  /\ IF backup[gate] \in Running THEN Fault ELSE UNCHANGED budget
  /\ expired' = TRUE
  /\ UNCHANGED <<sendState, messages, leases, cancelled, gate, draining, bridge, host>>

\* snapshot_renew, by the backup's background renewer
Renew(b) ==
  /\ backup[b] \in Capturing
  /\ gate = b
  /\ expired
  /\ expired' = FALSE
  /\ UNCHANGED <<sendState, messages, leases, cancelled, gate, draining, bridge, host, budget>>

\* tick: the gate nobody renews reopens.
TickOpensSlip == FALSE
TickOpens == gate # None /\ expired
Tick ==
  /\ TickOpens
  /\ OpenGate
  /\ UNCHANGED <<sendState, messages, leases, cancelled, draining, backup, budget>>

\* The drain of snapshot_begin ends: Bridge is stopped, and the caller may be gone.
Drained == gate = draining /\ leases = {}
DrainEnds ==
  /\ draining # None
  /\ Drained
  /\ draining' = None
  /\ bridge' = FALSE
  /\ backup' = IF backup[draining] = "beginning" THEN [backup EXCEPT ![draining] = "held"]
                                                 ELSE backup
  /\ UNCHANGED <<sendState, messages, leases, cancelled, gate, expired, dirty, budget>>

\* snapshot_busy after 60 s, or Bridge did not stop: the gate opens again.
DrainFails ==
  /\ draining # None
  /\ draining' = None
  /\ gate' = None
  /\ backup' = IF backup[draining] = "beginning" THEN [backup EXCEPT ![draining] = "failed"]
                                                 ELSE backup
  /\ UNCHANGED <<sendState, messages, leases, cancelled, expired, bridge, dirty, budget>>

-------------------------------------------------------------------------------
(* The host: backup.sh, one at a time under backup.lock *)

\* proton_snapshot_begin, and snapshot_begin in the worker: a gate left by a backup killed
\* before is taken over when it has expired, and ended first when it has not.
Begin(b) ==
  /\ backup[b] = "idle"
  /\ \A other \in Backups : backup[other] \notin Running
  /\ gate' = b
  /\ expired' = FALSE
  /\ IF gate # None /\ expired
       THEN /\ backup' = [backup EXCEPT ![b] = "held"]
            /\ UNCHANGED <<draining, bridge>>
       ELSE /\ backup' = [backup EXCEPT ![b] = "beginning"]
            /\ draining' = b
            /\ bridge' = TRUE
  /\ UNCHANGED <<sendState, messages, leases, cancelled, dirty, budget>>

\* The request's answer never comes: the backup fails, and its exit trap ends the gate.
BeginUnknown(b) ==
  /\ backup[b] = "beginning"
  /\ Fault
  /\ backup' = [backup EXCEPT ![b] = "failed"]
  /\ OpenGate
  /\ draining' = None
  /\ UNCHANGED <<sendState, messages, leases, cancelled>>

\* dump_database: the database as it is at one moment.
\* A send whose lease the worker forgot when it restarted by itself is let pass.
HalfRecorded == \E s \in Sends \ lost : stage[s] = "sending"
Dump(b) ==
  /\ backup[b] = "held"
  /\ backup' = [backup EXCEPT ![b] = "dumped"]
  /\ dirty' = IF HalfRecorded \/ bridge THEN dirty \cup {b} ELSE dirty
  /\ UNCHANGED <<sendState, messages, worker, budget>>

\* proton_snapshot_check before and after stage_proton_state: the gate is still this backup's,
\* and it is renewed.
Check(b, from, to) ==
  /\ backup[b] = from
  /\ backup' = [backup EXCEPT ![b] = IF gate = b THEN to ELSE "failed"]
  /\ expired' = (expired /\ gate # b)
  /\ UNCHANGED <<sendState, messages, leases, cancelled, gate, draining, bridge, dirty, budget>>

\* proton_snapshot_end, with the worker's "ended": only then the capture is used.
IsTrusted(b) == gate = b
EndBackup(b) ==
  /\ backup[b] = "staged"
  /\ backup' = [backup EXCEPT ![b] = IF IsTrusted(b) THEN "ok" ELSE "failed"]
  /\ IF gate = b THEN gate' = None /\ expired' = FALSE /\ bridge' = TRUE
                 ELSE UNCHANGED <<gate, expired, bridge>>
  /\ UNCHANGED <<sendState, messages, leases, cancelled, draining, dirty, budget>>

\* The backup is killed without its exit trap: its gate stays closed.
KillBackup(b) ==
  /\ backup[b] \in Running
  /\ Fault
  /\ backup' = [backup EXCEPT ![b] = "failed"]
  /\ UNCHANGED <<sendState, messages, worker, dirty>>

-------------------------------------------------------------------------------
(* Restarts of the worker: its memory is gone, and so are the requests that waited *)

Restart ==
  /\ leases' = {}
  /\ cancelled' = {}
  /\ draining' = None
  /\ posts' = {}
  /\ deletes' = [s \in Sends |-> 0]
  /\ OpenGate
  /\ backup' = [b \in Backups |-> IF backup[b] = "beginning" THEN "failed" ELSE backup[b]]

\* The controlled recreation: the old backend has stopped before.
Recreate ==
  /\ Fault
  /\ Restart
  /\ stage' = [s \in Sends |-> IF s \in Alive THEN "ended" ELSE stage[s]]
  /\ UNCHANGED <<tries, lost>>

\* The worker alone restarts (restart: unless-stopped, docker compose restart proton-worker).
RestartAlone ==
  /\ budget.restarts > 0
  /\ budget' = [budget EXCEPT !.restarts = @ - 1]
  /\ Restart
  /\ stage' = [s \in Sends |-> IF stage[s] = "asking" THEN "releasing" ELSE stage[s]]
  /\ lost' = lost \cup {s \in Sends : stage[s] = "sending"}
  /\ UNCHANGED tries

-------------------------------------------------------------------------------

SendStep(s) == Ask(s) \/ EndSend(s) \/ Delete(s)
SendTrouble(s) == GiveUpAsking(s) \/ GiveUpDeleting(s)
DrainStep == DrainEnds \/ DrainFails
BackupStep(b) ==
  \/ Dump(b)
  \/ Check(b, "dumped", "staging")
  \/ Check(b, "staging", "staged")
  \/ EndBackup(b)

Next ==
  \/ \E s \in Sends : SendStep(s) \/ SendTrouble(s)
  \/ BackendDies
  \/ \E s \in Sends : HandlePost(s) \/ HandleDelete(s)
  \/ DrainStep \/ Tick \/ Expires
  \/ \E b \in Backups : Begin(b) \/ BeginUnknown(b) \/ BackupStep(b) \/ KillBackup(b) \/ Renew(b)
  \/ Recreate \/ RestartAlone

Spec == Init /\ [][Next]_vars

\* The drain is bounded by 60 s, the worker ticks every second, time passes, and a backup goes
\* on or is killed.
Fairness ==
  /\ WF_vars(DrainStep)
  /\ WF_vars(Tick)
  /\ WF_vars(Expires)
  /\ \A b \in Backups : WF_vars(BackupStep(b))
FairSpec == Spec /\ Fairness

-------------------------------------------------------------------------------
(* Safety *)

\* A capture that is used describes one moment: no letter of a managed Proton mailbox was half
\* recorded in it and Bridge did not run, whatever was killed, timed out or came late. Only a
\* send during which the worker restarted by itself escapes the gate.
\* (maintenance.js:14-16, backup.sh:285-305)
TrustedCaptureIsWhole == \A b \in Backups : backup[b] = "ok" => b \notin dirty

-------------------------------------------------------------------------------
(* Liveness *)

\* The gate never stays closed: the backup ends it, or the worker opens the gate of a backup
\* that died. (controller.py:600-615, backup.sh:67)
GateReopens == gate # None ~> gate = None
===============================================================================
