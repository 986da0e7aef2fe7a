------------------------------ MODULE PanelUpdate ------------------------------
(***************************************************************************)
(* "Update from the panel": the backend asks (routes/adminUpdate.js) by    *)
(* files in a spool, the host's updater (scripts/deploy/updater.sh) checks *)
(* and runs update.sh, and the backend, which restarts in the middle of    *)
(* its own update, journals the results (panelUpdate/reconcile.js).        *)
(*                                                                         *)
(* Versions are commits of main in their order: w descends from v iff      *)
(* w > v.  A version in Migrates brings a migration of its own.            *)
(***************************************************************************)
EXTENDS Naturals, FiniteSets, FiniteSetsExt

CONSTANTS
  Versions,   \* the commits of main, by number
  Migrates,   \* those that bring a migration
  MaxAsks,    \* requests the panel makes
  MaxEvents   \* failures, kills, commands a person runs over SSH and moves of the tag latest

ASSUME SizeAssumption ==
  /\ Versions \subseteq Nat \ {0} /\ Versions # {} /\ IsFiniteSet(Versions)
  /\ Migrates \subseteq Versions
  /\ MaxAsks \in Nat /\ MaxEvents \in Nat

VARIABLES
  latest,    \* the version the tag latest names
  version,   \* the version install.conf and the checkout name
  ready,     \* the panel runs and answers as ready
  schema,    \* the versions whose migrations are recorded as applied
  half,      \* ... and those a failed start ran in part
  rolledBack,\* state/rolled-back-version, 0 for none
  lock,      \* update.lock: "free", "panel" (update.sh of the updater) or "person"
  request,   \* id -> the request: what it asks and where its file is
  result,    \* id -> the result file: its state, and whether it is older than 30 minutes
  run,       \* the updater's run
  ask,       \* the request a click makes, one at a time (serialized)
  passes,    \* the reconciler's passes under way
  known,     \* journaled: the entries the journal was seen to hold
  journal,   \* id -> entry -> how often the journal has it
  events     \* how many so far

host == <<version, ready, schema, half, rolledBack>>
backend == <<ask, passes, known>>
vars == <<latest, host, lock, request, result, run, backend, journal, events>>

Ids == 1..MaxAsks
Entries == {"started", "finished", "failed"}
Ended == {"ready", "blocked", "refused", "error", "succeeded", "failed", "rolled_back", "rollback_failed"}
States == Ended \cup {"none", "checking", "updating", "rolling_back"}

NoRequest == [action |-> "none", target |-> 0, at |-> "none"]
NoResult == [state |-> "none", old |-> FALSE]
NoRun == [at |-> "none", ok |-> FALSE, id |-> 0, from |-> 0, auto |-> FALSE, before |-> {},
          checked |-> FALSE, updated |-> FALSE, touched |-> FALSE]
NoAsk == [action |-> "none", target |-> 0, unread |-> {}, busy |-> FALSE]

TypeOK ==
  /\ latest \in Versions /\ version \in Versions /\ ready \in BOOLEAN
  /\ schema \subseteq Migrates /\ half \subseteq Migrates /\ rolledBack \in Versions \cup {0}
  /\ lock \in {"free", "panel", "person"}
  /\ request \in [Ids -> [action : {"none", "check", "update"}, target : Versions \cup {0},
                          at : {"none", "spool", "staged", "taken"}]]
  /\ result \in [Ids -> [state : States, old : BOOLEAN]]
  /\ run.at \in {"none", "next", "target", "preflight", "count", "update", "locked", "switched", "failed",
                "rollback"}
  /\ run.id \in Ids \cup {0} /\ run.before \subseteq Migrates
  /\ ask.unread \subseteq {"requests", "results"}
  /\ \A p \in passes : p.at \in {"query", "write"} /\ p.wanted \subseteq Ids \X Entries
  /\ known \subseteq Ids \X Entries
  /\ journal \in [Ids \X Entries -> 0..2]

Init ==
  /\ version \in Versions /\ latest \in Versions
  /\ ready = TRUE /\ schema = {m \in Migrates : m <= version} /\ half = {} /\ rolledBack = 0
  /\ lock = "free"
  /\ request = [i \in Ids |-> NoRequest] /\ result = [i \in Ids |-> NoResult]
  /\ run = NoRun /\ ask = NoAsk /\ passes = {}
  /\ known = {} /\ journal = [k \in Ids \X Entries |-> 0]
  /\ events = 0

Fault == events < MaxEvents /\ events' = events + 1
NoFault == UNCHANGED events

-------------------------------------------------------------------------------
(* The click (routes/adminUpdate.js) *)

At(place) == {i \in Ids : request[i].at = place}
Updates == {i \in Ids : request[i].action = "update" /\ result[i].state # "none"}

\* isBusy's second half: the newest update is under way. Results are made in the order of the ids.
NewestRunsSlip == Updates # {} /\ result[Max(Updates)].state \notin Ended
NewestRuns ==
  /\ Updates # {}
  /\ LET r == result[Max(Updates)] IN r.state \notin Ended /\ ~r.old
IsBusy == At("spool") # {} \/ NewestRuns

\* Neither the version somebody went back from nor, for an update, one that is not ahead
Offered(action) == latest # rolledBack /\ (action = "update" => latest > version)

AskBegins(action) ==
  /\ ask = NoAsk /\ ready /\ At("none") # {} /\ Offered(action)
  /\ ask' = [action |-> action, target |-> latest, unread |-> {"requests", "results"}, busy |-> FALSE]
  /\ UNCHANGED <<latest, host, lock, request, result, run, passes, known, journal, events>>

\* spoolState reads the two directories at once: either may be read first
ReadSpool(what) ==
  /\ what \in ask.unread
  /\ ask' = [ask EXCEPT !.unread = @ \ {what},
                        !.busy = @ \/ (IF what = "requests" THEN At("spool") # {} ELSE NewestRuns)]
  /\ UNCHANGED <<latest, host, lock, request, result, run, passes, known, journal, events>>

WriteRequest ==
  /\ ask # NoAsk /\ ask.unread = {} /\ ~ask.busy
  /\ request' = [request EXCEPT ![Min(At("none"))] = [action |-> ask.action, target |-> ask.target, at |-> "spool"]]
  /\ ask' = NoAsk
  /\ UNCHANGED <<latest, host, lock, result, run, passes, known, journal, events>>

AnswerBusy ==
  /\ ask.unread = {} /\ ask.busy
  /\ ask' = NoAsk
  /\ UNCHANGED <<latest, host, lock, request, result, run, passes, known, journal, events>>

-------------------------------------------------------------------------------
(* The reconciler (panelUpdate/reconcile.js) *)

EntriesFor(state) ==
  (IF state \in {"updating", "rolling_back", "succeeded", "failed", "rolled_back", "rollback_failed"}
   THEN {"started"} ELSE {})
  \cup (IF state = "succeeded" THEN {"finished"} ELSE {})
  \cup (IF state \in {"failed", "rolled_back", "rollback_failed", "refused", "blocked", "error"}
        THEN {"failed"} ELSE {})

Called == {k \in Ids \X Entries : k[1] \in Updates /\ k[2] \in EntriesFor(result[k[1]].state)}
Journaled == {k \in Ids \X Entries : journal[k] > 0}

\* running ??= pass(): a caller during a pass gets that pass
OnePassSlip == TRUE
OnePass == passes = {}
PassBegins ==
  /\ OnePass
  /\ Called \ known # {}
  /\ passes' = passes \cup {[at |-> "query", wanted |-> Called \ known]}
  /\ UNCHANGED <<latest, host, lock, request, result, run, ask, known, journal, events>>

\* Only what the journal shows is marked as journaled
SeenSlip(wanted) == wanted
Seen(wanted) == wanted \cap Journaled
PassQueries(p) ==
  /\ p.at = "query"
  /\ known' = known \cup Seen(p.wanted)
  /\ passes' = (passes \ {p}) \cup {[at |-> "write", wanted |-> w] : w \in {p.wanted \ Journaled} \ {{}}}
  /\ UNCHANGED <<latest, host, lock, request, result, run, ask, journal, events>>

PassWrites(p) ==
  /\ p.at = "write"
  /\ journal' = [k \in Ids \X Entries |-> IF k \in p.wanted THEN journal[k] + 1 ELSE journal[k]]
  /\ passes' = passes \ {p}
  /\ UNCHANGED <<latest, host, lock, request, result, run, ask, known, events>>

\* The query fails, or the insert does and recordAudit says nothing: the next pass tries again
PassFails(p) ==
  /\ Fault
  /\ passes' = passes \ {p}
  /\ UNCHANGED <<latest, host, lock, request, result, run, ask, known, journal>>

\* The backend's memory goes with its process
BackendStops == ask' = NoAsk /\ passes' = {} /\ known' = {}

-------------------------------------------------------------------------------
(* The updater's run (scripts/deploy/updater.sh) *)

SetResult(state) == result' = [result EXCEPT ![run.id] = [state |-> state, old |-> FALSE]]
Goes(place) == run' = [run EXCEPT !.at = place]
\* A final state: the request is no longer in hand
Finishes(state) == SetResult(state) /\ run' = [run EXCEPT !.at = "next", !.id = 0]
Target == request[run.id].target
Action == request[run.id].action

\* The path unit starts it; every request leaves the spool before anything can fail.
RunBegins ==
  /\ run = NoRun /\ At("spool") # {}
  /\ request' = [i \in Ids |-> IF i \in At("spool") THEN [request[i] EXCEPT !.at = "staged"] ELSE request[i]]
  /\ \E ok \in BOOLEAN :
       /\ IF ok THEN NoFault ELSE Fault
       /\ run' = [NoRun EXCEPT !.at = "next", !.ok = ok, !.from = version,
                               !.touched = lock = "person"]
  /\ UNCHANGED <<latest, host, lock, result, backend, journal>>

Oldest == Min(At("staged"))
\* load_install failed, or the run has had its check or its update
NotInThisRun(action) == ~run.ok \/ (IF action = "check" THEN run.checked ELSE run.updated)

Take ==
  /\ run.at = "next" /\ At("staged") # {}
  /\ request' = [request EXCEPT ![Oldest].at = "taken"]
  /\ LET action == request[Oldest].action
     IN IF NotInThisRun(action)
        THEN /\ result' = [result EXCEPT ![Oldest].state = "refused"]
             /\ UNCHANGED run
        ELSE /\ result' = [result EXCEPT ![Oldest].state = "checking"]
             /\ run' = [run EXCEPT !.at = "target", !.id = Oldest,
                                   !.checked = @ \/ action = "check", !.updated = @ \/ action = "update"]
  /\ UNCHANGED <<latest, host, lock, backend, journal, events>>

RunEnds ==
  /\ run.at = "next" /\ At("staged") = {}
  /\ run' = NoRun
  /\ UNCHANGED <<latest, host, lock, request, result, backend, journal, events>>

\* target_verdict: only the promoted build, only forward, never the one somebody went back from
MayMoveTo(v) == v = latest /\ v > version /\ v # rolledBack
CheckTarget ==
  /\ run.at = "target"
  /\ IF lock = "free" /\ MayMoveTo(Target)
     THEN \/ Goes("preflight") /\ UNCHANGED <<result, events>>
          \/ Finishes("refused") /\ Fault
     ELSE Finishes("refused") /\ NoFault
  /\ UNCHANGED <<latest, host, lock, request, backend, journal>>

\* status.sh --target; a schema that was not read counts as one with migrations to run
Pending(v) == {m \in Migrates : m <= v} \ schema
AutoAllowedSlip(v) == v \in Versions
AutoAllowed(v) == Pending(v) = {}
Preflight ==
  /\ run.at = "preflight"
  /\ \/ \E state \in {"blocked", "error"} : Finishes(state) /\ Fault
     \/ /\ NoFault
        /\ IF Action = "check" THEN Finishes("ready")
           ELSE \E read \in BOOLEAN :
                  /\ run' = [run EXCEPT !.at = "count", !.auto = read /\ AutoAllowed(Target)]
                  /\ UNCHANGED result
  /\ UNCHANGED <<latest, host, lock, request, backend, journal>>

\* Applied migrations are counted right before update.sh is started
StartUpdate ==
  /\ run.at = "count"
  /\ SetResult("updating")
  /\ run' = [run EXCEPT !.at = "update", !.before = schema]
  /\ UNCHANGED <<latest, host, lock, request, backend, journal, events>>

\* The 30 minutes of isStale; a run rewrites the result in hand every few seconds.
GrowsOld(i) ==
  /\ result[i].state \notin Ended \cup {"none"} /\ ~result[i].old /\ run.id # i
  /\ result' = [result EXCEPT ![i].old = TRUE]
  /\ UNCHANGED <<latest, host, lock, request, run, backend, journal, events>>

-------------------------------------------------------------------------------
(* update.sh, and the way back *)

\* "already at": the version is read again, before the lock
AlreadyThere ==
  /\ run.at = "update" /\ Target = version
  /\ Finishes("succeeded") /\ rolledBack' = 0
  /\ UNCHANGED <<latest, version, ready, schema, half, lock, request, backend, journal, events>>

TakeLock ==
  /\ run.at = "update" /\ lock = "free"
  /\ lock' = "panel"
  /\ Goes("locked")
  /\ UNCHANGED <<latest, host, request, result, backend, journal, events>>

\* Exit codes 2 and 3: the lock was not let go for ten minutes, the panel is not ready, an image
\* does not pull, the backup fails
StopsBeforeSwitch ==
  /\ run.at \in {"update", "locked"}
  /\ IF lock = "person" \/ (run.at = "locked" /\ ~ready) THEN NoFault ELSE Fault
  /\ lock' = IF lock = "panel" THEN "free" ELSE lock
  /\ Finishes("failed")
  /\ UNCHANGED <<latest, host, request, backend, journal>>

\* install.sh --version v brought v up: its migrations ran, the backend is another process
Runs(v) ==
  /\ version' = v /\ ready' = TRUE
  /\ schema' = schema \cup Pending(v)
  /\ half' = half \ Pending(v)
  /\ BackendStops

\* It did not: the old containers were never touched, or v started and ran some of its migrations
NeverStarts(v) == version' = v /\ UNCHANGED <<ready, schema, half, backend>>
DoesNotRun(v) ==
  /\ version' = v /\ ready' = FALSE
  /\ \E done \in SUBSET Pending(v) :
       /\ \A m \in done, n \in Pending(v) : n < m => n \in done
       /\ schema' = schema \cup done
       /\ \/ half' = half \ done
          \/ done # Pending(v) /\ half' = (half \ done) \cup {Min(Pending(v) \ done)}
  /\ BackendStops

Switch ==
  /\ run.at = "locked" /\ ready
  /\ \/ /\ Runs(Target) /\ NoFault
        /\ rolledBack' = IF rolledBack = Target THEN 0 ELSE rolledBack
        /\ Goes("switched")
     \/ /\ NeverStarts(Target) \/ DoesNotRun(Target)
        /\ Fault
        /\ UNCHANGED rolledBack
        /\ Goes("failed")
  /\ UNCHANGED <<latest, lock, request, result, journal>>

\* Exit 0: the version somebody went back from is forgotten
Succeeds ==
  /\ run.at = "switched"
  /\ Finishes("succeeded") /\ rolledBack' = 0 /\ lock' = "free"
  /\ UNCHANGED <<latest, version, ready, schema, half, request, backend, journal, events>>

\* Exit 1: back only when nothing was pending and the count is what it was; any other code of a
\* killed update.sh stays as it is
GoesBack == run.auto /\ Cardinality(schema) = Cardinality(run.before)
Judge ==
  /\ run.at = "failed"
  /\ lock' = "free"
  /\ \/ GoesBack /\ SetResult("rolling_back") /\ Goes("rollback") /\ NoFault
     \/ ~GoesBack /\ Finishes("failed") /\ NoFault
     \/ GoesBack /\ Finishes("failed") /\ Fault
  /\ UNCHANGED <<latest, host, request, backend, journal>>

\* install.sh --version from, under install.lock only
RollsBack ==
  /\ run.at = "rollback"
  /\ Runs(run.from) /\ rolledBack' = Target
  /\ Finishes("rolled_back")
  /\ UNCHANGED <<latest, lock, request, journal, events>>
RollbackFails ==
  /\ run.at = "rollback" /\ Fault
  /\ NeverStarts(run.from) \/ DoesNotRun(run.from)
  /\ Finishes("rollback_failed")
  /\ UNCHANGED <<latest, rolledBack, lock, request, journal>>

\* The service is stopped or fails: the request in hand ends as an error (finish_on_exit). What is
\* staged waits for the next run.
Stops ==
  /\ run # NoRun /\ Fault
  /\ IF run.id # 0 THEN SetResult("error") ELSE UNCHANGED result
  /\ run' = NoRun
  /\ lock' = IF lock = "panel" THEN "free" ELSE lock
  /\ UNCHANGED <<latest, host, request, backend, journal>>

\* The host goes down: the result in hand stays as it is
HostDies ==
  /\ Fault
  /\ run' = NoRun /\ lock' = "free"
  /\ BackendStops
  /\ UNCHANGED <<latest, host, request, result, journal>>

-------------------------------------------------------------------------------
(* A person over SSH, and the owner of the tag *)

PersonBegins ==
  /\ lock = "free" /\ Fault
  /\ lock' = "person"
  /\ run' = IF run = NoRun THEN run ELSE [run EXCEPT !.touched = TRUE]
  /\ UNCHANGED <<latest, host, request, result, backend, journal>>

\* update.sh, to any commit
PersonUpdates(v) ==
  /\ lock = "person" /\ ready /\ v # version
  /\ Runs(v) /\ rolledBack' = IF rolledBack = v THEN 0 ELSE rolledBack
  /\ lock' = "free"
  /\ UNCHANGED <<latest, request, result, run, journal, events>>

\* rollback.sh: the dump brings the schema of v, and the journal as it was
PersonRollsBack(v) ==
  /\ lock = "person" /\ v < version
  /\ version' = v /\ ready' = TRUE /\ schema' = {m \in Migrates : m <= v} /\ half' = {}
  /\ \E dumped \in SUBSET Journaled :
       journal' = [k \in Ids \X Entries |-> IF k \in dumped THEN journal[k] ELSE 0]
  /\ rolledBack' = version
  /\ BackendStops
  /\ lock' = "free"
  /\ UNCHANGED <<latest, request, result, run, events>>

PersonGivesUp ==
  /\ lock = "person" /\ lock' = "free"
  /\ UNCHANGED <<latest, host, request, result, run, backend, journal, events>>

Promote(v) ==
  /\ v # latest /\ Fault
  /\ latest' = v
  /\ UNCHANGED <<host, lock, request, result, run, backend, journal>>

-------------------------------------------------------------------------------
AskStep == (\E what \in {"requests", "results"} : ReadSpool(what)) \/ WriteRequest \/ AnswerBusy
PassStep == PassBegins \/ \E p \in passes : PassQueries(p) \/ PassWrites(p)
RunStep == \/ Take \/ RunEnds \/ CheckTarget \/ Preflight \/ StartUpdate \/ AlreadyThere \/ TakeLock
           \/ StopsBeforeSwitch \/ Switch \/ Succeeds \/ Judge \/ RollsBack \/ RollbackFails
PersonEnds == (\E v \in Versions : PersonUpdates(v) \/ PersonRollsBack(v)) \/ PersonGivesUp

Next ==
  \/ \E action \in {"check", "update"} : AskBegins(action)
  \/ AskStep \/ PassStep \/ (\E p \in passes : PassFails(p))
  \/ RunBegins \/ RunStep \/ (\E i \in Ids : GrowsOld(i)) \/ Stops \/ HostDies
  \/ PersonBegins \/ PersonEnds
  \/ \E v \in Versions : Promote(v)

Safety == Init /\ [][Next]_vars

\* The path unit watches the spool, every command of a run has a limit, a pass begins every 30
\* seconds of a panel that runs, and time passes.
Fairness ==
  /\ WF_vars(RunBegins) /\ WF_vars(RunStep) /\ WF_vars(\E i \in Ids : GrowsOld(i))
  /\ WF_vars(AskStep) /\ WF_vars(PassBegins) /\ WF_vars(\E p \in passes : PassQueries(p))
  /\ WF_vars(\E p \in passes : PassWrites(p)) /\ WF_vars(PersonEnds)

Spec == Safety /\ Fairness

-------------------------------------------------------------------------------
(* Properties *)

\* However often the backend and the reads of the spool restart, an entry is in the journal once
\* at most ("dedupe relies on that and on a single backend process").
JournalOnce == \A k \in Ids \X Entries : journal[k] <= 1

\* As long as the panel keeps coming up, the entries the results call for come into the journal,
\* although the request that asked for the update is long gone and a rollback takes the journal back.
AnswersAreJournaled == []<>ready => <>[](Called \subseteq Journaled)

\* The panel goes back by itself only to a version that fits the schema: no migration above it is
\* applied but one that was before the update began (a person may run an older version), and none
\* that the update brought was even half run by a failed start, unless a person changed the version
\* during the run ("only when it is known that no migration ran").
SchemaFits ==
  [][RollsBack /\ ~run.touched => /\ \A m \in schema' : m <= version' \/ m \in run.before
                                 /\ \A m \in half' : m <= version' \/ m > Target]_vars

\* The card does not stay busy: a run that died with a request in hand is given up.
PanelReopens == []<>~IsBusy
===============================================================================
