--------------------------- MODULE PanelUpdateProofs ---------------------------
(***************************************************************************)
(* What was done from the panel is journaled once, and an automatic        *)
(* rollback finds a schema that its version fits, for every history of     *)
(* versions and migrations, and any number of requests, failures and       *)
(* people at the host.                                                     *)
(***************************************************************************)
EXTENDS PanelUpdate, FiniteSetTheorems, TLAPS

-------------------------------------------------------------------------------
(* Numbers *)

\* A set of natural numbers that is not empty has a least one.
LEMMA LeastNumber ==
  ASSUME NEW S \in SUBSET Nat, S # {}
  PROVE  Min(S) \in S
<1>. DEFINE Upto == {0..m : m \in S}
            R == StrictSubsetOrdering(Nat)
            F == FiniteSubsetsOf(Nat)
<1>1. Upto \subseteq F /\ Upto # {}
  <2>1. ASSUME NEW m \in S PROVE 0..m \in F
    BY FS_Interval DEF FiniteSubsetsOf
  <2>. QED
    BY <2>1
<1>2. PICK U \in Upto : \A V \in Upto : ~(<<V, U>> \in R)
  <2>1. IsWellFoundedOn(R, F)
    BY FS_StrictSubsetOrderingWellFounded
  <2>. HIDE DEF Upto, R, F
  <2>. QED
    BY <1>1, <2>1, WFMin
<1>3. PICK m \in S : U = 0..m
  BY <1>2
<1>4. ASSUME NEW n \in S PROVE m <= n
  <2>1. ~(<<0..n, 0..m>> \in R)
    BY <1>2, <1>3
  <2>2. CASE n < m
    <3>1. 0..n \subseteq 0..m /\ m \in 0..m /\ m \notin 0..n /\ 0..n \subseteq Nat /\ 0..m \subseteq Nat
      BY <2>2
    <3>. QED
      BY <2>1, <3>1 DEF StrictSubsetOrdering
  <2>. QED
    BY <2>2
<1>. QED
  BY <1>3, <1>4 DEF Min

\* The next id to write, and the oldest request that is staged, are such ones.
LEMMA IdsAtHand ==
  /\ At("none") # {} => Min(At("none")) \in At("none")
  /\ At("staged") # {} => Oldest \in At("staged")
<1>1. At("none") \in SUBSET Nat /\ At("staged") \in SUBSET Nat
  BY SizeAssumption DEF At, Ids
<1>. QED
  BY <1>1, LeastNumber DEF Oldest

-------------------------------------------------------------------------------
(* The invariants *)

Requests == [action : {"none", "check", "update"}, target : Versions \cup {0},
             at : {"none", "spool", "staged", "taken"}]
RunRecords == [at : {"none", "next", "target", "preflight", "count", "update", "locked", "switched",
                     "failed", "rollback"},
               ok : BOOLEAN, id : Ids \cup {0}, from : Versions \cup {0}, auto : BOOLEAN,
               before : SUBSET Migrates, checked : BOOLEAN, updated : BOOLEAN, touched : BOOLEAN]
AskRecords == [action : {"none", "check", "update"}, target : Versions \cup {0},
               unread : SUBSET {"requests", "results"}, busy : BOOLEAN]
PassRecords == [at : {"query", "write"}, wanted : SUBSET (Ids \X Entries)]

\* TypeOK with the fields it leaves out, and where the version of a request and of a run is known.
Typed ==
  /\ latest \in Versions /\ version \in Versions /\ ready \in BOOLEAN
  /\ schema \subseteq Migrates /\ half \subseteq Migrates /\ rolledBack \in Versions \cup {0}
  /\ lock \in {"free", "panel", "person"}
  /\ request \in [Ids -> Requests]
  /\ result \in [Ids -> [state : States, old : BOOLEAN]]
  /\ run \in RunRecords
  /\ ask \in AskRecords
  /\ passes \subseteq PassRecords
  /\ known \subseteq Ids \X Entries
  /\ journal \in [Ids \X Entries -> Nat]
  /\ ask # NoAsk => ask.action # "none" /\ ask.target \in Versions /\ At("none") # {}
  /\ \A i \in Ids : request[i].at # "none" => request[i].action # "none" /\ request[i].target \in Versions
  /\ run.at = "none" => run = NoRun
  /\ run.at # "none" => run.from \in Versions
  /\ run.at \notin {"none", "next"} => run.id # 0 /\ request[run.id].at = "taken"

\* One pass is under way at most, and what it is about to write is not in the journal.
JournalInv ==
  /\ JournalOnce
  /\ \A p, q \in passes : p = q
  /\ \A p \in passes : p.at = "write" => p.wanted \cap Journaled = {}

\* A person who works at the host has touched the run.
PersonTouches == lock = "person" /\ run.at # "none" => run.touched

\* A run that may go back by itself, and that nobody touched, found no migration to run up to its
\* target, and from its count on the schema is as it was counted.
AutoRun ==
  run.auto /\ ~run.touched =>
    /\ run.at \in {"count", "update", "locked", "switched", "failed", "rollback"} => Pending(Target) = {}
    /\ run.at \in {"update", "locked", "switched", "failed", "rollback"} => schema = run.before

\* Only such a run goes back; a migration that ran in part is not recorded as applied.
SchemaInv ==
  /\ PersonTouches
  /\ AutoRun
  /\ run.at = "rollback" => run.auto
  /\ half \cap schema = {}

IInv == Typed /\ JournalInv /\ SchemaInv

-------------------------------------------------------------------------------
(* Types *)

\* The panel starts with a schema its version knows and an empty journal.
LEMMA InitIInv == Init => IInv
<1>. SUFFICES ASSUME Init PROVE IInv
  OBVIOUS
<1>1. Typed
  BY SizeAssumption DEF Init, Typed, Requests, RunRecords, AskRecords, PassRecords, NoRequest, NoResult,
     NoRun, NoAsk, States, Ended
<1>2. JournalInv
  BY DEF Init, JournalInv, JournalOnce
<1>3. SchemaInv
  BY DEF Init, SchemaInv, PersonTouches, AutoRun, NoRun
<1>. QED
  BY <1>1, <1>2, <1>3 DEF IInv

\* A click and a read of the spool. (routes/adminUpdate.js)
LEMMA AskTyped ==
  ASSUME Typed, (\E action \in {"check", "update"} : AskBegins(action)) \/ AskStep
  PROVE  Typed'
<1>1. ASSUME NEW action \in {"check", "update"}, AskBegins(action) PROVE Typed'
  BY <1>1 DEF AskBegins, Typed, AskRecords, NoAsk, At, host
<1>2. ASSUME NEW what \in {"requests", "results"}, ReadSpool(what) PROVE Typed'
  <2>1. (IF what = "requests" THEN At("spool") # {} ELSE NewestRuns) \in BOOLEAN
    BY DEF NewestRuns
  <2>2. ask' \in AskRecords /\ ask'.action = ask.action /\ ask'.target = ask.target
    <3>. DEFINE seen == IF what = "requests" THEN At("spool") # {} ELSE NewestRuns
    <3>1. ask' = [ask EXCEPT !.unread = @ \ {what}, !.busy = @ \/ seen]
      BY <1>2 DEF ReadSpool
    <3>2. (ask.busy \/ seen) \in BOOLEAN
      OBVIOUS
    <3>. HIDE DEF seen
    <3>. QED
      BY <3>1, <3>2 DEF Typed, AskRecords
  <2>3. what \in ask.unread /\ ask # NoAsk
    BY <1>2 DEF ReadSpool, NoAsk
  <2>. QED
    BY <1>2, <2>2, <2>3 DEF ReadSpool, Typed, At, host
<1>3. CASE WriteRequest
  <2>. DEFINE i == Min(At("none"))
              r == [action |-> ask.action, target |-> ask.target, at |-> "spool"]
  <2>1. request' = [request EXCEPT ![i] = r] /\ ask # NoAsk /\ ask' = NoAsk
    BY <1>3 DEF WriteRequest
  <2>2. i \in Ids /\ request[i].at = "none"
    BY <2>1, IdsAtHand DEF At, Typed
  <2>3. r \in Requests /\ r.at = "spool" /\ r.action # "none" /\ r.target \in Versions
    BY <2>1 DEF Typed, AskRecords, Requests
  <2>. HIDE DEF i, r
  <2>4. request' \in [Ids -> Requests]
    BY <2>1, <2>3 DEF Typed
  <2>5. \A j \in Ids : request'[j].at # "none" => request'[j].action # "none" /\ request'[j].target \in Versions
    BY <2>1, <2>3 DEF Typed
  <2>6. \A j \in Ids : request[j].at = "taken" => request'[j].at = "taken"
    BY <2>1, <2>2 DEF Typed
  <2>7. run.id \in Ids \cup {0} /\ run' = run
    BY <1>3 DEF WriteRequest, Typed, RunRecords
  <2>. QED
    BY <1>3, <2>4, <2>5, <2>6, <2>7 DEF WriteRequest, Typed, AskRecords, NoAsk, host
<1>4. CASE AnswerBusy
  BY <1>4 DEF AnswerBusy, Typed, AskRecords, NoAsk, host
<1>. QED
  BY <1>1, <1>2, <1>3, <1>4 DEF AskStep

\* A pass of the reconciler. (panelUpdate/reconcile.js)
LEMMA PassTyped ==
  ASSUME Typed, PassStep \/ \E p \in passes : PassFails(p)
  PROVE  Typed'
<1>1. Called \subseteq Ids \X Entries /\ Journaled \subseteq Ids \X Entries
  BY DEF Called, Journaled
<1>2. CASE PassBegins
  <2>1. passes' \subseteq PassRecords
    BY <1>1, <1>2 DEF PassBegins, Typed, PassRecords
  <2>. QED
    BY <1>2, <2>1 DEF PassBegins, Typed, At, host
<1>3. ASSUME NEW p \in passes, PassQueries(p) PROVE Typed'
  <2>1. p.wanted \subseteq Ids \X Entries
    BY DEF Typed, PassRecords
  <2>2. passes' \subseteq PassRecords
    BY <1>3, <2>1 DEF PassQueries, Typed, PassRecords
  <2>3. known' \subseteq Ids \X Entries
    BY <1>3, <2>1 DEF PassQueries, Typed, Seen
  <2>. QED
    BY <1>3, <2>2, <2>3 DEF PassQueries, Typed, At, host
<1>4. ASSUME NEW p \in passes, PassWrites(p) PROVE Typed'
  <2>1. journal' \in [Ids \X Entries -> Nat]
    BY <1>4 DEF PassWrites, Typed
  <2>. QED
    BY <1>4, <2>1 DEF PassWrites, Typed, At, host
<1>5. ASSUME NEW p \in passes, PassFails(p) PROVE Typed'
  BY <1>5 DEF PassFails, Typed, At, host
<1>. QED
  BY <1>2, <1>3, <1>4, <1>5 DEF PassStep

\* What a run writes: a result, its own record, and the two fields of a request.
LEMMA ResultTyped ==
  ASSUME Typed, NEW state \in States, SetResult(state)
  PROVE  result' \in [Ids -> [state : States, old : BOOLEAN]]
BY DEF SetResult, Typed

\* The updater goes on to its next place, of its type.
LEMMA GoesTyped ==
  ASSUME Typed, NEW place \in {"next", "target", "preflight", "count", "update", "locked", "switched",
                               "failed", "rollback"},
         Goes(place)
  PROVE  /\ run' \in RunRecords /\ run'.at = place /\ run'.id = run.id /\ run'.from = run.from
         /\ run'.touched = run.touched /\ run'.auto = run.auto /\ run'.before = run.before
BY DEF Goes, Typed, RunRecords

\* A result that ends a request is of its type.
LEMMA FinishesTyped ==
  ASSUME Typed, run.at # "none", NEW state \in States, Finishes(state)
  PROVE  /\ result' \in [Ids -> [state : States, old : BOOLEAN]]
         /\ run' \in RunRecords /\ run'.at = "next" /\ run'.from \in Versions
         /\ run'.touched = run.touched
<1>1. result' \in [Ids -> [state : States, old : BOOLEAN]]
  BY ResultTyped DEF Finishes
<1>2. run' = [run EXCEPT !.at = "next", !.id = 0]
  BY DEF Finishes
<1>. QED
  BY <1>1, <1>2 DEF Typed, RunRecords

\* A version comes up, or is left half way: what is applied stays among the migrations.
LEMMA VersionTyped ==
  ASSUME Typed, NEW v \in Versions, Runs(v) \/ NeverStarts(v) \/ DoesNotRun(v)
  PROVE  /\ version' \in Versions /\ ready' \in BOOLEAN
         /\ schema' \subseteq Migrates /\ half' \subseteq Migrates
         /\ ask' \in AskRecords /\ passes' \subseteq PassRecords /\ known' \subseteq Ids \X Entries
         /\ ask' # NoAsk => ask' = ask
<1>1. Pending(v) \in SUBSET Nat /\ Pending(v) \subseteq Migrates
  BY SizeAssumption DEF Pending
<1>2. CASE Runs(v)
  BY <1>1, <1>2 DEF Runs, BackendStops, Typed, AskRecords, NoAsk
<1>3. CASE NeverStarts(v)
  BY <1>3 DEF NeverStarts, backend, Typed
<1>4. CASE DoesNotRun(v)
  <2>1. PICK done \in SUBSET Pending(v) :
          /\ schema' = schema \cup done
          /\ \/ half' = half \ done
             \/ done # Pending(v) /\ half' = (half \ done) \cup {Min(Pending(v) \ done)}
    BY <1>4 DEF DoesNotRun
  <2>2. half' \subseteq Migrates
    <3>1. CASE done # Pending(v)
      <4>1. Min(Pending(v) \ done) \in Pending(v) \ done
        BY <1>1, <3>1, LeastNumber
      <4>. QED
        BY <1>1, <2>1, <4>1 DEF Typed
    <3>2. CASE done = Pending(v)
      BY <2>1, <3>2 DEF Typed
    <3>. QED
      BY <3>1, <3>2
  <2>. QED
    BY <1>1, <1>4, <2>1, <2>2 DEF DoesNotRun, BackendStops, Typed, AskRecords, NoAsk
<1>. QED
  BY <1>2, <1>3, <1>4

\* The updater takes requests and checks the target. (scripts/deploy/updater.sh)
LEMMA UpdaterTyped ==
  ASSUME Typed, \/ RunBegins \/ Take \/ RunEnds \/ CheckTarget \/ Preflight \/ StartUpdate
                \/ (\E i \in Ids : GrowsOld(i)) \/ Stops
  PROVE  Typed'
<1>1. CASE RunBegins
  <2>1. request' \in [Ids -> Requests] /\ \A i \in Ids : /\ request'[i].action = request[i].action
                                                         /\ request'[i].target = request[i].target
                                                         /\ request'[i].at = "none" <=> request[i].at = "none"
    <3>1. request' = [i \in Ids |-> IF i \in At("spool") THEN [request[i] EXCEPT !.at = "staged"] ELSE request[i]]
      BY <1>1 DEF RunBegins
    <3>2. ASSUME NEW i \in Ids
          PROVE  /\ request'[i] \in Requests /\ request'[i].action = request[i].action
                 /\ request'[i].target = request[i].target
                 /\ request'[i].at = "none" <=> request[i].at = "none"
      <4>1. request[i] \in Requests
        BY DEF Typed
      <4>2. CASE i \in At("spool")
        <5>1. request'[i] = [request[i] EXCEPT !.at = "staged"] /\ request[i].at = "spool"
          BY <3>1, <4>2 DEF At
        <5>. QED
          BY <4>1, <5>1 DEF Requests
      <4>3. CASE i \notin At("spool")
        BY <3>1, <4>1, <4>3
      <4>. QED
        BY <4>2, <4>3
    <3>. QED
      BY <3>1, <3>2
  <2>2. run' \in RunRecords /\ run'.at = "next" /\ run'.from = version
    <3>1. PICK ok \in BOOLEAN : run' = [NoRun EXCEPT !.at = "next", !.ok = ok, !.from = version,
                                                     !.touched = lock = "person"]
      BY <1>1 DEF RunBegins
    <3>2. PICK touched \in BOOLEAN : run' = [NoRun EXCEPT !.at = "next", !.ok = ok, !.from = version,
                                                          !.touched = touched]
      BY <3>1
    <3>. QED
      BY <3>2 DEF Typed, RunRecords, NoRun
  <2>3. At("none")' = At("none")
    BY <2>1 DEF At
  <2>4. /\ UNCHANGED <<latest, version, ready, schema, half, rolledBack, lock, result, ask, passes, known, journal>>
        /\ run'.at = "next" /\ run'.from \in Versions
    BY <1>1, <2>2 DEF RunBegins, Typed, host, backend
  <2>. QED
    BY <2>1, <2>2, <2>3, <2>4 DEF Typed
<1>2. CASE Take
  <2>. DEFINE o == Oldest
  <2>1. o \in Ids /\ request[o].at = "staged"
    BY <1>2, IdsAtHand DEF Take, At, Typed
  <2>2. request' = [request EXCEPT ![o].at = "taken"]
    BY <1>2 DEF Take
  <2>3. \/ result' = [result EXCEPT ![o].state = "refused"] /\ run' = run
        \/ /\ result' = [result EXCEPT ![o].state = "checking"]
           /\ run' = [run EXCEPT !.at = "target", !.id = o,
                                 !.checked = @ \/ request[o].action = "check",
                                 !.updated = @ \/ request[o].action = "update"]
    BY <1>2 DEF Take
  <2>. HIDE DEF o
  <2>4. request' \in [Ids -> Requests] /\ request'[o].at = "taken"
        /\ \A i \in Ids : /\ request'[i].action = request[i].action
                          /\ request'[i].target = request[i].target
                          /\ request'[i].at = "none" <=> request[i].at = "none"
    BY <2>1, <2>2 DEF Typed, Requests
  <2>5. result' \in [Ids -> [state : States, old : BOOLEAN]]
    <3>1. PICK state \in States : result' = [result EXCEPT ![o].state = state]
      BY <2>3 DEF States, Ended
    <3>2. [result[o] EXCEPT !.state = state] \in [state : States, old : BOOLEAN]
      BY <2>1 DEF Typed
    <3>. QED
      BY <2>1, <3>1, <3>2 DEF Typed
  <2>6. /\ run' \in RunRecords /\ run'.from = run.from
        /\ run' = run \/ (run'.at = "target" /\ run'.id = o)
    <3>. DEFINE checked == run.checked \/ request[o].action = "check"
                updated == run.updated \/ request[o].action = "update"
    <3>1. CASE run' = [run EXCEPT !.at = "target", !.id = o, !.checked = checked, !.updated = updated]
      <4>1. checked \in BOOLEAN /\ updated \in BOOLEAN
        BY DEF Typed, RunRecords
      <4>. HIDE DEF checked, updated
      <4>. QED
        BY <2>1, <3>1, <4>1 DEF Typed, RunRecords
    <3>. QED
      BY <2>3, <3>1 DEF Typed
  <2>7. o # 0
    BY <2>1 DEF Ids
  <2>. QED
    BY <1>2, <2>1, <2>4, <2>5, <2>6, <2>7 DEF Take, Typed, At, host, backend
<1>3. CASE RunEnds
  BY <1>3 DEF RunEnds, Typed, RunRecords, NoRun, At, host, backend
<1>4. CASE CheckTarget
  <2>1. (Goes("preflight") /\ result' = result) \/ Finishes("refused")
    BY <1>4 DEF CheckTarget
  <2>. QED
    BY <1>4, <2>1, GoesTyped, FinishesTyped DEF CheckTarget, Typed, At, host, backend, States, Ended
<1>5. CASE Preflight
  <2>1. \/ Finishes("blocked") \/ Finishes("error") \/ Finishes("ready")
        \/ /\ \E read \in BOOLEAN : run' = [run EXCEPT !.at = "count", !.auto = read /\ AutoAllowed(Target)]
           /\ result' = result
    BY <1>5 DEF Preflight
  <2>2. CASE /\ \E read \in BOOLEAN : run' = [run EXCEPT !.at = "count", !.auto = read /\ AutoAllowed(Target)]
             /\ result' = result
    <3>1. run' \in RunRecords /\ run'.at = "count" /\ run'.id = run.id /\ run'.from = run.from
      <4>1. PICK auto \in BOOLEAN : run' = [run EXCEPT !.at = "count", !.auto = auto]
        BY <2>2 DEF AutoAllowed
      <4>. QED
        BY <4>1 DEF Typed, RunRecords
    <3>. QED
      BY <1>5, <2>2, <3>1 DEF Preflight, Typed, At, host, backend
  <2>. QED
    BY <1>5, <2>1, <2>2, FinishesTyped DEF Preflight, Typed, At, host, backend, States, Ended
<1>6. CASE StartUpdate
  <2>1. run' \in RunRecords /\ run'.at = "update" /\ run'.id = run.id /\ run'.from = run.from
    BY <1>6 DEF StartUpdate, Typed, RunRecords
  <2>. QED
    BY <1>6, <2>1, ResultTyped DEF StartUpdate, Typed, At, host, backend, States
<1>7. ASSUME NEW i \in Ids, GrowsOld(i) PROVE Typed'
  <2>1. result' \in [Ids -> [state : States, old : BOOLEAN]]
    BY <1>7 DEF GrowsOld, Typed
  <2>. QED
    BY <1>7, <2>1 DEF GrowsOld, Typed, At, host, backend
<1>8. CASE Stops
  <2>1. result' \in [Ids -> [state : States, old : BOOLEAN]]
    BY <1>8, ResultTyped DEF Stops, Typed, States, Ended
  <2>2. run' \in RunRecords /\ run'.at = "none" /\ run' = NoRun
    BY <1>8 DEF Stops, RunRecords, NoRun
  <2>. QED
    BY <1>8, <2>1, <2>2 DEF Stops, Typed, At, host, backend
<1>. QED
  BY <1>1, <1>2, <1>3, <1>4, <1>5, <1>6, <1>7, <1>8

\* The target of a run is a version.
LEMMA TargetTyped ==
  ASSUME Typed, run.at \notin {"none", "next"}
  PROVE  run.id \in Ids /\ Target \in Versions /\ run.from \in Versions
BY DEF Typed, Target, RunRecords

\* update.sh and the way back. (scripts/deploy/update.sh, updater.sh)
LEMMA UpdateTyped ==
  ASSUME Typed, \/ AlreadyThere \/ TakeLock \/ StopsBeforeSwitch \/ Switch \/ Succeeds \/ Judge
                \/ RollsBack \/ RollbackFails \/ HostDies
  PROVE  Typed'
<1>1. CASE AlreadyThere
  BY <1>1, FinishesTyped DEF AlreadyThere, Typed, At, backend, States, Ended
<1>2. CASE TakeLock
  BY <1>2, GoesTyped DEF TakeLock, Typed, At, host, backend
<1>3. CASE StopsBeforeSwitch
  BY <1>3, FinishesTyped DEF StopsBeforeSwitch, Typed, At, host, backend, States, Ended
<1>4. CASE Switch
  <2>1. Runs(Target) \/ NeverStarts(Target) \/ DoesNotRun(Target)
    BY <1>4 DEF Switch
  <2>2. Target \in Versions
    BY <1>4, TargetTyped DEF Switch
  <2>3. Goes("switched") \/ Goes("failed")
    BY <1>4 DEF Switch
  <2>4. rolledBack' \in Versions \cup {0}
    BY <1>4 DEF Switch, Typed
  <2>5. UNCHANGED <<latest, lock, request, result, journal>>
    BY <1>4 DEF Switch
  <2>. QED
    BY <1>4, <2>1, <2>2, <2>3, <2>4, <2>5, VersionTyped, GoesTyped DEF Switch, Typed, At
<1>5. CASE Succeeds
  BY <1>5, FinishesTyped DEF Succeeds, Typed, At, backend, States, Ended
<1>6. CASE Judge
  <2>1. (SetResult("rolling_back") /\ Goes("rollback")) \/ Finishes("failed")
    BY <1>6 DEF Judge
  <2>2. UNCHANGED <<latest, version, ready, schema, half, rolledBack, request, ask, passes, known, journal>>
        /\ lock' = "free" /\ run.at = "failed"
    BY <1>6 DEF Judge, host, backend
  <2>. QED
    BY <2>1, <2>2, GoesTyped, FinishesTyped, ResultTyped DEF Typed, At, States, Ended
<1>7. CASE RollsBack
  <2>1. run.at = "rollback" /\ run.from \in Versions /\ Target \in Versions
    BY <1>7, TargetTyped DEF RollsBack
  <2>2. Runs(run.from) /\ rolledBack' = Target /\ Finishes("rolled_back")
        /\ UNCHANGED <<latest, lock, request, journal>>
    BY <1>7 DEF RollsBack
  <2>. QED
    BY <2>1, <2>2, VersionTyped, FinishesTyped DEF Typed, At, States, Ended
<1>8. CASE RollbackFails
  <2>1. run.at = "rollback" /\ run.from \in Versions
    BY <1>8, TargetTyped DEF RollbackFails
  <2>2. (NeverStarts(run.from) \/ DoesNotRun(run.from)) /\ Finishes("rollback_failed")
        /\ UNCHANGED <<latest, rolledBack, lock, request, journal>>
    BY <1>8 DEF RollbackFails
  <2>. QED
    BY <2>1, <2>2, VersionTyped, FinishesTyped DEF Typed, At, States, Ended
<1>9. CASE HostDies
  <2>1. run' = NoRun /\ run' \in RunRecords /\ ask' = NoAsk /\ ask' \in AskRecords
    BY <1>9 DEF HostDies, BackendStops, NoRun, RunRecords, NoAsk, AskRecords
  <2>. QED
    BY <1>9, <2>1 DEF HostDies, BackendStops, Typed, At, host, NoRun
<1>. QED
  BY <1>1, <1>2, <1>3, <1>4, <1>5, <1>6, <1>7, <1>8, <1>9

\* People at the host, and the owner of the tag. (update.sh, rollback.sh)
LEMMA PeopleTyped ==
  ASSUME Typed, PersonBegins \/ PersonEnds \/ \E v \in Versions : Promote(v)
  PROVE  Typed'
<1>1. CASE PersonBegins
  <2>1. /\ run' \in RunRecords /\ run'.at = run.at /\ run'.id = run.id /\ run'.from = run.from
        /\ run'.at = "none" => run' = NoRun
    BY <1>1 DEF PersonBegins, Typed, RunRecords
  <2>. QED
    BY <1>1, <2>1 DEF PersonBegins, Typed, At, host, backend
<1>2. ASSUME NEW v \in Versions, PersonUpdates(v) PROVE Typed'
  BY <1>2, VersionTyped DEF PersonUpdates, Typed, At
<1>3. ASSUME NEW v \in Versions, PersonRollsBack(v) PROVE Typed'
  <2>1. ask' = NoAsk /\ ask' \in AskRecords /\ passes' = {} /\ known' = {}
    BY <1>3 DEF PersonRollsBack, BackendStops, NoAsk, AskRecords
  <2>2. journal' \in [Ids \X Entries -> Nat]
    BY <1>3 DEF PersonRollsBack, Typed
  <2>. QED
    BY <1>3, <2>1, <2>2 DEF PersonRollsBack, Typed, At
<1>4. CASE PersonGivesUp
  BY <1>4 DEF PersonGivesUp, Typed, At, host, backend
<1>5. ASSUME NEW v \in Versions, Promote(v) PROVE Typed'
  BY <1>5 DEF Promote, Typed, At, host, backend
<1>. QED
  BY <1>1, <1>2, <1>3, <1>4, <1>5 DEF PersonEnds

\* Every step keeps the types.
LEMMA StepTyped ==
  ASSUME Typed, [Next]_vars
  PROVE  Typed'
<1>1. CASE UNCHANGED vars
  BY <1>1 DEF vars, host, backend, Typed, At
<1>. QED
  BY <1>1, AskTyped, PassTyped, UpdaterTyped, UpdateTyped, PeopleTyped DEF Next, RunStep

-------------------------------------------------------------------------------
(* The journal *)

\* The journal is written by passes, taken back by a dump with the process, and otherwise left alone.
LEMMA PassesAndTheRest ==
  ASSUME [Next]_vars
  PROVE  \/ PassStep \/ \E p \in passes : PassFails(p)
         \/ journal' = journal /\ (passes' = passes \/ passes' = {})
         \/ \E v \in Versions : PersonRollsBack(v)
<1>1. CASE UNCHANGED vars
  BY <1>1 DEF vars, backend
<1>2. CASE (\E action \in {"check", "update"} : AskBegins(action)) \/ AskStep
  BY <1>2 DEF AskStep, AskBegins, ReadSpool, WriteRequest, AnswerBusy
<1>3. CASE RunBegins \/ (\E i \in Ids : GrowsOld(i)) \/ Stops \/ HostDies
  BY <1>3 DEF RunBegins, GrowsOld, Stops, HostDies, BackendStops, backend
<1>4. CASE RunStep
  BY <1>4 DEF RunStep, Take, RunEnds, CheckTarget, Preflight, StartUpdate, AlreadyThere, TakeLock, StopsBeforeSwitch,
     Switch, Succeeds, Judge, RollsBack, RollbackFails, Runs, NeverStarts, DoesNotRun, BackendStops, backend
<1>5. CASE PersonBegins \/ PersonEnds \/ \E v \in Versions : Promote(v)
  BY <1>5 DEF PersonBegins, PersonEnds, PersonUpdates, PersonGivesUp, Promote, Runs, BackendStops, backend
<1>. QED
  BY <1>1, <1>2, <1>3, <1>4, <1>5 DEF Next

\* What a pass writes it did not see, and nothing else wrote it since. (reconcile)
LEMMA JournalStep ==
  ASSUME Typed, JournalInv, [Next]_vars
  PROVE  JournalInv'
<1>1. CASE PassBegins
  BY <1>1 DEF PassBegins, OnePass, JournalInv, JournalOnce, Journaled
<1>2. ASSUME NEW p \in passes, PassQueries(p) PROVE JournalInv'
  <2>1. passes = {p} /\ journal' = journal
    BY <1>2 DEF PassQueries, JournalInv
  <2>2. passes' \subseteq {[at |-> "write", wanted |-> p.wanted \ Journaled]}
    BY <1>2, <2>1 DEF PassQueries
  <2>. QED
    BY <2>1, <2>2 DEF JournalInv, JournalOnce, Journaled
<1>3. ASSUME NEW p \in passes, PassWrites(p) PROVE JournalInv'
  <2>1. passes' = {}
    BY <1>3 DEF PassWrites, JournalInv
  <2>2. ASSUME NEW k \in Ids \X Entries PROVE journal'[k] <= 1
    <3>1. journal'[k] = IF k \in p.wanted THEN journal[k] + 1 ELSE journal[k]
      BY <1>3 DEF PassWrites
    <3>2. k \in p.wanted => ~(journal[k] > 0)
      BY <1>3 DEF PassWrites, JournalInv, Journaled
    <3>. QED
      BY <3>1, <3>2 DEF JournalInv, JournalOnce, Typed
  <2>. QED
    BY <2>1, <2>2 DEF JournalInv, JournalOnce
<1>4. ASSUME NEW p \in passes, PassFails(p) PROVE JournalInv'
  BY <1>4 DEF PassFails, JournalInv, JournalOnce, Journaled
<1>5. CASE journal' = journal /\ (passes' = passes \/ passes' = {})
  BY <1>5 DEF JournalInv, JournalOnce, Journaled
<1>6. ASSUME NEW v \in Versions, PersonRollsBack(v) PROVE JournalInv'
  BY <1>6 DEF PersonRollsBack, BackendStops, JournalInv, JournalOnce, Typed
<1>. QED
  BY <1>1, <1>2, <1>3, <1>4, <1>5, <1>6, PassesAndTheRest DEF PassStep

-------------------------------------------------------------------------------
(* The schema *)

\* A version that comes up, or is left half way, keeps the two kinds of migrations apart; where
\* nothing is pending it runs none.
LEMMA VersionMigrates ==
  ASSUME Typed, NEW v \in Versions, Runs(v) \/ NeverStarts(v) \/ DoesNotRun(v), half \cap schema = {}
  PROVE  /\ half' \cap schema' = {}
         /\ Pending(v) = {} => schema' = schema
<1>1. Pending(v) \in SUBSET Nat /\ Pending(v) \cap schema = {}
  BY SizeAssumption DEF Pending
<1>2. CASE Runs(v)
  BY <1>1, <1>2 DEF Runs
<1>3. CASE NeverStarts(v)
  BY <1>3 DEF NeverStarts
<1>4. CASE DoesNotRun(v)
  <2>1. PICK done \in SUBSET Pending(v) :
          /\ schema' = schema \cup done
          /\ \/ half' = half \ done
             \/ done # Pending(v) /\ half' = (half \ done) \cup {Min(Pending(v) \ done)}
    BY <1>4 DEF DoesNotRun
  <2>2. CASE half' = half \ done
    BY <1>1, <2>1, <2>2
  <2>3. CASE done # Pending(v) /\ half' = (half \ done) \cup {Min(Pending(v) \ done)}
    <3>1. Min(Pending(v) \ done) \in Pending(v) \ done
      BY <1>1, <2>3, LeastNumber
    <3>. QED
      BY <1>1, <2>1, <2>3, <3>1
  <2>. QED
    BY <2>1, <2>2, <2>3
<1>. QED
  BY <1>2, <1>3, <1>4

\* A request in hand keeps its target.
LEMMA TargetStays ==
  ASSUME Typed, [Next]_vars, run.at \notin {"none", "next"}, run'.id = run.id
  PROVE  Target' = Target
<1>1. request[run.id].at = "taken" /\ run.id \in Ids
  BY DEF Typed, RunRecords
<1>2. request'[run.id] = request[run.id]
  <2>1. CASE UNCHANGED request
    BY <2>1
  <2>2. CASE WriteRequest
    <3>1. Min(At("none")) # run.id
      BY <1>1, <2>2, IdsAtHand DEF WriteRequest, At, Typed
    <3>. QED
      BY <2>2, <3>1 DEF WriteRequest
  <2>3. CASE RunBegins \/ Take
    <3>1. run = NoRun \/ run.at = "next"
      BY <2>3 DEF RunBegins, Take
    <3>. QED
      BY <3>1 DEF NoRun
  <2>. QED
    BY <2>1, <2>2, <2>3 DEF Next, vars, AskStep, AskBegins, ReadSpool, AnswerBusy, PassStep, PassBegins, PassQueries, PassWrites,
       PassFails, RunStep, RunEnds, CheckTarget, Preflight, StartUpdate, AlreadyThere, TakeLock, StopsBeforeSwitch,
       Switch, Succeeds, Judge, RollsBack, RollbackFails, GrowsOld, Stops, HostDies, PersonBegins, PersonEnds,
       PersonUpdates, PersonRollsBack, PersonGivesUp, Promote
<1>. QED
  BY <1>2 DEF Target

\* Steps that leave the run, the schema and the lock alone, or only free the lock.
LEMMA QuietStep ==
  ASSUME Typed, SchemaInv, [Next]_vars, UNCHANGED <<run, schema, half>>, lock' \in {lock, "free"}
  PROVE  SchemaInv'
<1>1. run.at \notin {"none", "next"} => Target' = Target
  BY TargetStays
<1>. QED
  BY <1>1 DEF SchemaInv, PersonTouches, AutoRun, Pending

\* The steps of a run from its beginning to its count. (scripts/deploy/updater.sh)
LEMMA CheckStep ==
  ASSUME Typed, SchemaInv, [Next]_vars,
         \/ RunBegins \/ Take \/ RunEnds \/ Stops \/ HostDies \/ CheckTarget \/ Preflight \/ StartUpdate
  PROVE  SchemaInv'
<1>1. UNCHANGED <<schema, half>>
  BY DEF RunBegins, Take, RunEnds, Stops, HostDies, CheckTarget, Preflight, StartUpdate, host
<1>2. CASE RunBegins
  <2>1. PICK ok \in BOOLEAN : run' = [NoRun EXCEPT !.at = "next", !.ok = ok, !.from = version,
                                                   !.touched = lock = "person"]
    BY <1>2 DEF RunBegins
  <2>2. run'.at = "next" /\ (lock = "person" => run'.touched) /\ ~run'.auto
    BY <2>1 DEF NoRun
  <2>3. lock' = lock
    BY <1>2 DEF RunBegins
  <2>. QED
    BY <1>1, <2>2, <2>3 DEF SchemaInv, PersonTouches, AutoRun
<1>3. CASE Take
  <2>1. run.at = "next" /\ run'.at \in {"next", "target"} /\ run'.touched = run.touched /\ lock' = lock
    BY <1>3 DEF Take, Typed, RunRecords
  <2>. QED
    BY <1>1, <2>1 DEF SchemaInv, PersonTouches, AutoRun
<1>4. CASE RunEnds \/ Stops \/ HostDies
  <2>1. run' = NoRun
    BY <1>4 DEF RunEnds, Stops, HostDies
  <2>. QED
    BY <1>1, <2>1 DEF SchemaInv, PersonTouches, AutoRun, NoRun
<1>5. CASE CheckTarget
  <2>1. run.at = "target" /\ run'.at \in {"preflight", "next"} /\ run'.touched = run.touched /\ lock' = lock
    BY <1>5 DEF CheckTarget, Goes, Finishes, Typed, RunRecords
  <2>. QED
    BY <1>1, <2>1 DEF SchemaInv, PersonTouches, AutoRun
<1>6. CASE Preflight
  <2>1. run.at = "preflight" /\ lock' = lock
    BY <1>6 DEF Preflight
  <2>2. CASE run'.at = "next" /\ run'.touched = run.touched
    BY <1>1, <2>1, <2>2 DEF SchemaInv, PersonTouches, AutoRun
  <2>3. CASE \E read \in BOOLEAN : run' = [run EXCEPT !.at = "count", !.auto = read /\ AutoAllowed(Target)]
    <3>1. PICK auto \in BOOLEAN : /\ run' = [run EXCEPT !.at = "count", !.auto = auto]
                                  /\ auto => Pending(Target) = {}
      BY <2>3 DEF AutoAllowed
    <3>2. run'.at = "count" /\ run'.id = run.id /\ run'.auto = auto /\ run'.touched = run.touched
      BY <3>1 DEF Typed, RunRecords
    <3>3. Target' = Target
      BY <2>1, <3>2, TargetStays
    <3>. QED
      BY <1>1, <2>1, <3>1, <3>2, <3>3 DEF SchemaInv, PersonTouches, AutoRun, Pending
  <2>4. \/ Finishes("blocked") \/ Finishes("error") \/ Finishes("ready")
        \/ \E read \in BOOLEAN : run' = [run EXCEPT !.at = "count", !.auto = read /\ AutoAllowed(Target)]
    BY <1>6 DEF Preflight
  <2>. QED
    BY <2>1, <2>2, <2>3, <2>4, FinishesTyped DEF States, Ended
<1>7. CASE StartUpdate
  <2>1. /\ run.at = "count" /\ lock' = lock
        /\ run'.at = "update" /\ run'.id = run.id /\ run'.auto = run.auto /\ run'.touched = run.touched
        /\ run'.before = schema
    BY <1>7 DEF StartUpdate, Typed, RunRecords
  <2>2. Target' = Target
    BY <2>1, TargetStays
  <2>. QED
    BY <1>1, <2>1, <2>2 DEF SchemaInv, PersonTouches, AutoRun, Pending
<1>. QED
  BY <1>2, <1>3, <1>4, <1>5, <1>6, <1>7

\* update.sh and the way back: with nothing to run the schema stays as it was counted.
LEMMA UpdateStep ==
  ASSUME Typed, SchemaInv, [Next]_vars,
         \/ AlreadyThere \/ TakeLock \/ StopsBeforeSwitch \/ Switch \/ Succeeds \/ Judge
         \/ RollsBack \/ RollbackFails
  PROVE  SchemaInv'
<1>1. CASE AlreadyThere \/ StopsBeforeSwitch \/ Succeeds
  <2>1. run.at # "none" /\ UNCHANGED <<schema, half>> /\ lock' \in {lock, "free"}
    BY <1>1 DEF AlreadyThere, StopsBeforeSwitch, Succeeds, host
  <2>2. run'.at = "next" /\ run'.touched = run.touched
    BY <1>1, <2>1, FinishesTyped DEF AlreadyThere, StopsBeforeSwitch, Succeeds, States, Ended
  <2>. QED
    BY <2>1, <2>2 DEF SchemaInv, PersonTouches, AutoRun
<1>2. CASE TakeLock
  <2>1. Goes("locked") /\ lock' = "panel" /\ run.at = "update" /\ UNCHANGED <<schema, half>>
    BY <1>2 DEF TakeLock, host
  <2>2. Target' = Target
    BY <2>1, GoesTyped, TargetStays
  <2>. QED
    BY <2>1, <2>2, GoesTyped DEF SchemaInv, PersonTouches, AutoRun, Pending
<1>3. CASE Switch
  <2>1. /\ Runs(Target) \/ NeverStarts(Target) \/ DoesNotRun(Target)
        /\ Goes("switched") \/ Goes("failed")
        /\ run.at = "locked" /\ lock' = lock
    BY <1>3 DEF Switch
  <2>2. Target \in Versions
    BY <2>1, TargetTyped
  <2>3. half' \cap schema' = {} /\ (Pending(Target) = {} => schema' = schema)
    BY <2>1, <2>2, VersionMigrates DEF SchemaInv
  <2>4. Target' = Target
    BY <2>1, GoesTyped, TargetStays
  <2>5. run'.at \in {"switched", "failed"} /\ run'.touched = run.touched /\ run'.auto = run.auto
        /\ run'.before = run.before
    BY <2>1, GoesTyped
  <2>. QED
    BY <2>1, <2>3, <2>4, <2>5 DEF SchemaInv, PersonTouches, AutoRun, Pending
<1>4. CASE Judge
  <2>1. run.at = "failed" /\ lock' = "free" /\ UNCHANGED <<schema, half>>
    BY <1>4 DEF Judge, host
  <2>2. CASE Finishes("failed")
    <3>1. run'.at = "next"
      BY <2>1, <2>2, FinishesTyped DEF States, Ended
    <3>. QED
      BY <2>1, <3>1 DEF SchemaInv, PersonTouches, AutoRun
  <2>3. CASE GoesBack /\ Goes("rollback")
    <3>1. Target' = Target
      BY <2>1, <2>3, GoesTyped, TargetStays
    <3>2. run.auto
      BY <2>3 DEF GoesBack
    <3>. QED
      BY <2>1, <2>3, <3>1, <3>2, GoesTyped DEF SchemaInv, PersonTouches, AutoRun, Pending
  <2>. QED
    BY <1>4, <2>2, <2>3 DEF Judge
<1>5. CASE RollsBack \/ RollbackFails
  <2>1. /\ Runs(run.from) \/ NeverStarts(run.from) \/ DoesNotRun(run.from)
        /\ Finishes("rolled_back") \/ Finishes("rollback_failed")
        /\ run.at = "rollback" /\ lock' = lock
    BY <1>5 DEF RollsBack, RollbackFails
  <2>2. half' \cap schema' = {}
    BY <2>1, TargetTyped, VersionMigrates DEF SchemaInv
  <2>3. run'.at = "next" /\ run'.touched = run.touched
    BY <2>1, FinishesTyped DEF States, Ended
  <2>. QED
    BY <2>1, <2>2, <2>3 DEF SchemaInv, PersonTouches, AutoRun
<1>. QED
  BY <1>1, <1>2, <1>3, <1>4, <1>5

\* Whoever changes the version at the host has touched the run. (update.sh, rollback.sh)
LEMMA PersonStep ==
  ASSUME Typed, SchemaInv, PersonBegins \/ \E v \in Versions : PersonUpdates(v) \/ PersonRollsBack(v)
  PROVE  SchemaInv'
<1>1. CASE PersonBegins
  <2>1. run = NoRun \/ run.at # "none"
    BY DEF Typed
  <2>2. /\ UNCHANGED <<schema, half>> /\ run'.at = run.at /\ run'.auto = run.auto
        /\ (run = NoRun /\ run' = run) \/ run'.touched
    BY <1>1 DEF PersonBegins, host, Typed, RunRecords
  <2>. QED
    BY <2>1, <2>2 DEF SchemaInv, PersonTouches, AutoRun, NoRun
<1>2. ASSUME NEW v \in Versions, PersonUpdates(v) \/ PersonRollsBack(v) PROVE SchemaInv'
  <2>1. lock = "person" /\ lock' = "free" /\ run' = run
    BY <1>2 DEF PersonUpdates, PersonRollsBack
  <2>2. half' \cap schema' = {}
    BY <1>2, VersionMigrates DEF PersonUpdates, PersonRollsBack, SchemaInv
  <2>3. run = NoRun \/ run.touched
    BY <2>1 DEF SchemaInv, PersonTouches, Typed
  <2>. QED
    BY <2>1, <2>2, <2>3 DEF SchemaInv, PersonTouches, AutoRun, NoRun
<1>. QED
  BY <1>1, <1>2

\* Every step keeps what is known of the schema.
LEMMA SchemaStep ==
  ASSUME Typed, SchemaInv, [Next]_vars
  PROVE  SchemaInv'
<1>1. CASE UNCHANGED vars
  BY <1>1, QuietStep DEF vars, host
<1>2. CASE (\E action \in {"check", "update"} : AskBegins(action)) \/ AskStep \/ PassStep \/ \E p \in passes : PassFails(p)
  <2>1. UNCHANGED <<run, schema, half, lock>>
    BY <1>2 DEF AskStep, PassStep, AskBegins, ReadSpool, WriteRequest, AnswerBusy, PassBegins, PassQueries, PassWrites,
       PassFails, host
  <2>. QED
    BY <2>1, QuietStep
<1>3. CASE (\E i \in Ids : GrowsOld(i)) \/ PersonGivesUp \/ \E v \in Versions : Promote(v)
  <2>1. UNCHANGED <<run, schema, half>> /\ lock' \in {lock, "free"}
    BY <1>3 DEF GrowsOld, PersonGivesUp, Promote, host
  <2>. QED
    BY <2>1, QuietStep
<1>. QED
  BY <1>1, <1>2, <1>3, CheckStep, UpdateStep, PersonStep DEF Next, RunStep, PersonEnds

-------------------------------------------------------------------------------
(* The theorems *)

\* Every step keeps the invariant.
LEMMA StepIInv == IInv /\ [Next]_vars => IInv'
BY StepTyped, JournalStep, SchemaStep DEF IInv

\* The invariant of the spool, the journal, the runs and the schema. (updater.sh, reconcile.js)
THEOREM Invariance == Spec => []IInv
<1>. QED
  BY InitIInv, StepIInv, PTL DEF Spec, Safety

\* However often the backend and the reads of the spool restart, an entry is in the journal once at
\* most. (panelUpdate/reconcile.js)
THEOREM JournaledOnce == Spec => []JournalOnce
<1>1. IInv => JournalOnce
  BY DEF IInv, JournalInv
<1>. QED
  BY <1>1, Invariance, PTL

\* Every variable has its type. (the files of the spool, install.conf and the table of migrations)
THEOREM TypeCorrect == Spec => []TypeOK
<1>1. IInv => TypeOK
  <2>. SUFFICES ASSUME IInv PROVE TypeOK
    OBVIOUS
  <2>1. journal \in [Ids \X Entries -> 0..2]
    <3>. DEFINE K == Ids \X Entries
    <3>1. journal \in [K -> Nat] /\ \A k \in K : journal[k] <= 1
      BY DEF IInv, Typed, JournalInv, JournalOnce
    <3>. HIDE DEF K
    <3>2. ASSUME NEW k \in K PROVE journal[k] \in 0..2
      BY <3>1
    <3>3. journal \in [K -> 0..2]
      BY <3>1, <3>2
    <3>. QED
      BY <3>3 DEF K
  <2>. QED
    BY <2>1 DEF IInv, Typed, TypeOK, Requests, RunRecords, AskRecords, PassRecords
<1>. QED
  BY <1>1, Invariance, PTL

\* An automatic rollback, of a run that nobody touched, finds no migration applied above its version
\* but those that were there before the update, and none of the update half run. (do_update)
THEOREM RollbackFitsSchema == Spec => SchemaFits
<1>1. IInv /\ [Next]_vars => [RollsBack /\ ~run.touched =>
                                /\ \A m \in schema' : m <= version' \/ m \in run.before
                                /\ \A m \in half' : m <= version' \/ m > Target]_vars
  <2>. SUFFICES ASSUME IInv, RollsBack, ~run.touched
                PROVE  /\ \A m \in schema' : m <= version' \/ m \in run.before
                       /\ \A m \in half' : m <= version' \/ m > Target
    OBVIOUS
  <2>1. run.at = "rollback" /\ Target \in Versions
    BY TargetTyped DEF RollsBack, IInv
  <2>2. Pending(Target) = {} /\ schema = run.before /\ half \cap schema = {}
    BY <2>1 DEF IInv, SchemaInv, AutoRun
  <2>3. version' = run.from /\ schema' = schema \cup Pending(run.from) /\ half' \subseteq half
    BY DEF RollsBack, Runs
  <2>4. half \subseteq Migrates /\ Migrates \subseteq Nat
    BY SizeAssumption DEF IInv, Typed
  <2>5. ASSUME NEW m \in half' PROVE m > Target
    <3>1. m \in Migrates /\ m \notin schema
      BY <2>2, <2>3, <2>4
    <3>2. ~(m <= Target)
      BY <2>2, <3>1 DEF Pending
    <3>. QED
      BY <2>1, <2>4, <3>1, <3>2, SizeAssumption
  <2>. QED
    BY <2>2, <2>3, <2>5 DEF Pending
<1>. QED
  BY <1>1, Invariance, PTL DEF Spec, Safety, SchemaFits
===============================================================================
