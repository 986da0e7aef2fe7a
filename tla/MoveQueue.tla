------------------------------- MODULE MoveQueue -------------------------------
(***************************************************************************)
(* The durable queue of moves of one mailbox                               *)
(* (backend/src/services/moveQueue.js): a move changes the panel's row at  *)
(* once and the mail server later.  With it, everything that touches the   *)
(* same rows meanwhile: the folder syncs, the reconciliation of deleted    *)
(* letters and the moves on the server (imapManager.js), the permanent     *)
(* delete and its claims (expungeClaims.js, routes/mail.js), other mail    *)
(* clients, and restarts.                                                  *)
(*                                                                         *)
(* Every uid is given once, and to one folder, so a uid stands for the     *)
(* place <<folder, uid>>; a negative uid is the placeholder of a move.     *)
(* The expected arrivals kept in memory only spare claimArrival its query  *)
(* and hold every move in flight; they are not a variable.  What is due    *)
(* when (backoff, tick, kick) is left to the scheduler.                    *)
(***************************************************************************)
EXTENDS Integers, Sequences, FiniteSets, FiniteSetsExt

CONSTANTS
  Folders,
  Inbox,
  NoHeader,      \* the letter has no Message-ID
  Settings,      \* the installs, each with its bounds, of which a behaviour has one
  MoveMaxAttempts

\* headers    the Message-IDs of the letters there at the start, by uid
\* unsynced   Gmail's All Mail: moved to, not kept by the panel
\* answers    what the server does and says
\* lateGuards whether other work may run between the statement of a request and its guards
\* beside     bound: what runs beside the queue
\* asks       bound: moves and permanent deletes that people ask for
\* elses, arrivals  bounds: letters other clients move or delete, new letters
\* faults, faultKinds  bound: how many faults, and which may happen
IsSetting(s) ==
  /\ s.headers \in Seq({s.headers[i] : i \in DOMAIN s.headers})
  /\ s.unsynced \subseteq Folders \ {Inbox}
  /\ s.answers \subseteq {"named", "unnamed", "retained"} /\ s.answers # {}
  /\ s.lateGuards \in BOOLEAN /\ s.beside \subseteq {"sync", "reconcile", "expunge"}
  /\ {s.asks, s.elses, s.arrivals, s.faults} \subseteq Nat
  /\ s.faultKinds \subseteq {"fail", "lost", "late", "busy", "crash"}

ASSUME InboxAssumption == Inbox \in Folders
ASSUME SettingsAssumption == \A s \in Settings : IsSetting(s)
ASSUME AttemptsAssumption == MoveMaxAttempts \in Nat \ {0}

VARIABLES
  setting,   \* the install and its bounds; it never changes
  letters,   \* the mail server: folder and Message-ID of every uid given, and whether it still exists
  given,     \* uids given
  late,      \* MOVE commands cut off that the server may still run
  rows,      \* table messages; uid 0 is no row
  moves,     \* table message_moves
  asked,     \* moves ever queued
  guard,     \* the guard of every move, in memory
  linger,    \* source uids guarded for a while after their move has settled
  unguarded, \* guards that requests have yet to register, or to take back
  run,       \* the worker's run
  sync,      \* a sync or backfill with a letter it fetched
  recon,     \* the reconciliation of deleted letters
  expunge,   \* a permanent delete
  wish,      \* history: the folder people last asked for a row; "any" once something else decides
  mixed,     \* history: the counts of a command whose answer was lost may have misled the panel (Comes)
  asks, elses, arrivals, faults

server == <<letters, given, late, mixed>>
panel == <<rows, moves, asked>>
memory == <<guard, linger, unguarded>>
processes == <<run, sync, recon, expunge>>
budget == <<setting, asks, elses, arrivals, faults>>
vars == <<server, panel, memory, processes, wish, budget>>

Headers == setting.headers
Unsynced == setting.unsynced
Answers == setting.answers
LateGuards == setting.lateGuards
Beside == setting.beside
MaxAsks == setting.asks
MaxElse == setting.elses
MaxArrivals == setting.arrivals
MaxFaults == setting.faults

LastUid == Len(Headers) + MaxAsks * (1 + MaxFaults) + MaxElse + MaxArrivals
Uids == 1..LastUid
MoveIds == 1..MaxAsks
RowIds == 1..(Len(Headers) + MaxAsks * (2 + MaxFaults) + MaxElse + MaxArrivals)
Ids == {Headers[i] : i \in DOMAIN Headers} \cup {NoHeader}

NoRow == [in |-> Inbox, uid |-> 0, id |-> NoHeader, claim |-> FALSE]
NoMove == [row |-> 0, id |-> NoHeader, from |-> Inbox, uid |-> 0, to |-> Inbox, pred |-> 0, state |-> "none",
           sent |-> FALSE, tries |-> 0, newer |-> {}]
NoGuard == [to |-> Inbox, uid |-> 0, set |-> FALSE]
NoRun == [at |-> "idle", jobs |-> {}, before |-> 0]
NoSync == [at |-> "idle", uid |-> 0, move |-> 0]
NoRecon == [at |-> "idle", live |-> {}, fresh |-> {}, orphans |-> {}]
NoExpunge == [at |-> "idle", row |-> 0, uid |-> 0]

Places == [in: Folders, id: Ids, live: BOOLEAN]
Jobs == [id: MoveIds, from: Folders, uid: Uids, to: Folders, new: {0} \cup Uids,
         is: {"look", "claimed", "sent", "named", "unnamed", "retained", "failed", "found"}]

TypeOK ==
  /\ setting \in Settings
  /\ letters \in [Uids -> Places] /\ given \in {0} \cup Uids /\ mixed \in BOOLEAN
  /\ late \subseteq [uids: SUBSET Uids, from: Folders, to: Folders]
  /\ rows \in [RowIds -> [in: Folders, uid: {-m : m \in MoveIds} \cup {0} \cup Uids, id: Ids, claim: BOOLEAN]]
  /\ moves \in [MoveIds -> [row: {0} \cup RowIds, id: Ids, from: Folders, uid: {0} \cup Uids, to: Folders, pred: {0} \cup MoveIds,
                            state: {"none", "queued", "moving", "awaiting"}, sent: BOOLEAN,
                            tries: 0..(MaxFaults + MoveMaxAttempts), newer: SUBSET RowIds]]
  /\ asked \in 0..MaxAsks
  /\ guard \in [MoveIds -> [to: Folders, uid: {0} \cup Uids, set: BOOLEAN]]
  /\ linger \subseteq Uids
  /\ unguarded \subseteq [id: MoveIds, to: Folders, uid: {0} \cup Uids, set: BOOLEAN]
  /\ run.at \in {"idle", "looking", "claimed", "sent", "searching", "handling"} /\ run.jobs \subseteq Jobs
  /\ run.before \in {0} \cup Uids \cup {given + 1}
  /\ sync \in [at: {"idle", "fetched", "attaching", "inserting"}, uid: {0} \cup Uids, move: {0} \cup MoveIds]
  /\ recon \in [at: {"idle", "listed", "judged"}, live: SUBSET Uids, fresh: SUBSET RowIds,
                orphans: SUBSET (Folders \X (Uids \cup {-m : m \in MoveIds}))]
  /\ expunge \in [at: {"idle", "claimed", "deleted", "kept"}, row: {0} \cup RowIds, uid: {0} \cup Uids]
  /\ wish \in [RowIds -> Folders \cup {"any"}]
  /\ asks \in 0..MaxAsks /\ elses \in 0..MaxElse /\ arrivals \in 0..MaxArrivals /\ faults \in 0..MaxFaults

Init ==
  /\ setting \in Settings
  /\ letters = [u \in Uids |-> IF u \in DOMAIN Headers THEN [in |-> Inbox, id |-> Headers[u], live |-> TRUE]
                               ELSE [in |-> Inbox, id |-> NoHeader, live |-> FALSE]]
  /\ given = Len(Headers) /\ late = {} /\ mixed = FALSE
  /\ rows = [r \in RowIds |-> IF r \in DOMAIN Headers THEN [NoRow EXCEPT !.uid = r, !.id = Headers[r]] ELSE NoRow]
  /\ moves = [m \in MoveIds |-> NoMove] /\ asked = 0
  /\ guard = [m \in MoveIds |-> NoGuard] /\ linger = {} /\ unguarded = {}
  /\ run = NoRun /\ sync = NoSync /\ recon = NoRecon /\ expunge = NoExpunge
  /\ wish = [r \in RowIds |-> IF r \in DOMAIN Headers THEN Inbox ELSE "any"]
  /\ asks = 0 /\ elses = 0 /\ arrivals = 0 /\ faults = 0

Asks == asks < MaxAsks /\ asks' = asks + 1 /\ UNCHANGED <<setting, elses, arrivals, faults>>
Else == elses < MaxElse /\ elses' = elses + 1 /\ UNCHANGED <<setting, asks, arrivals, faults>>
Fault(kind) == kind \in setting.faultKinds /\ faults < MaxFaults /\ faults' = faults + 1 /\ UNCHANGED <<setting, asks, elses, arrivals>>

Live(f) == {u \in 1..given : letters[u].live /\ letters[u].in = f}
There(r) == rows[r].uid # 0
At(f, u) == {r \in RowIds : There(r) /\ rows[r].in = f /\ rows[r].uid = u}
Known(u) == At(letters[u].in, u) # {}
Rows(h) == {r \in RowIds : There(r) /\ rows[r].id = h}
Pending(m) == moves[m].state # "none"
InFlight(m) == moves[m].state \in {"moving", "awaiting"}
Followers(m) == {n \in MoveIds : Pending(n) /\ moves[n].pred = m}

\* A row is in place as of now (synced_at): the reconciliation and the searches see that it is new
Fresh(ms, r) == [m \in MoveIds |-> IF ms[m].state = "none" THEN ms[m] ELSE [ms[m] EXCEPT !.newer = @ \cup {r}]]
SyncedNowSlip(r) == UNCHANGED recon
SyncedNow(r) == recon' = IF recon.at = "idle" THEN recon ELSE [recon EXCEPT !.fresh = @ \cup {r}]

\* Something else than people has decided where these rows are
Unwished(rs) == wish' = [r \in RowIds |-> IF r \in rs THEN "any" ELSE wish[r]]

-------------------------------------------------------------------------------
(* Guards *)

GuardOf(op) == [to |-> op.to, uid |-> op.uid, set |-> TRUE]
Guarded(f, u) ==
  \/ u \in linger
  \/ \E m \in MoveIds : guard[m].set /\ (u = guard[m].uid \/ (u = -m /\ f = guard[m].to))

\* A request's guards: at once, or when its other statements have been answered (enqueue)
Register(m, g) ==
  /\ IF LateGuards THEN /\ unguarded' = unguarded \cup {[id |-> m, to |-> g.to, uid |-> g.uid, set |-> g.set]}
                        /\ UNCHANGED guard
     ELSE guard' = [guard EXCEPT ![m] = g] /\ UNCHANGED unguarded
  /\ UNCHANGED linger

Registered(q) ==
  /\ q \in unguarded
  /\ unguarded' = unguarded \ {q}
  /\ guard' = [guard EXCEPT ![q.id] = [to |-> q.to, uid |-> q.uid, set |-> q.set]]
  /\ UNCHANGED <<server, panel, linger, processes, wish, budget>>

\* A FETCH from before the MOVE is taken to be handled within the ten seconds
LingerEnds(u) ==
  /\ u \in linger /\ sync.uid # u
  /\ linger' = linger \ {u}
  /\ UNCHANGED <<server, panel, guard, unguarded, processes, wish, budget>>

-------------------------------------------------------------------------------
(* The requests: enqueue, and a row whose move is pending moved again *)

\* What people ask of a row is not counted when its letter is gone, or another row's move has it
Wishes(r, f) ==
  LET rivals == {moves[m].row : m \in {n \in MoveIds : Pending(n) /\ moves[n].uid = rows[r].uid}}
  IN IF rows[r].uid < 0 THEN wish' = [wish EXCEPT ![r] = IF @ = "any" THEN "any" ELSE f]
     ELSE IF rivals # {} THEN Unwished({r} \cup rivals)
     ELSE wish' = [wish EXCEPT ![r] = IF letters[rows[r].uid].live THEN f ELSE "any"]
LatestMove(r) == -rows[r].uid
PendingRow(r) == rows[r].uid < 0 /\ Pending(LatestMove(r)) /\ moves[LatestMove(r)].row = r

MoveFreshSlip(r, f) ==
  LET m == asked + 1
      op == [NoMove EXCEPT !.row = r, !.id = rows[r].id, !.from = rows[r].in, !.uid = rows[r].uid,
                            !.to = f, !.state = "queued"]
  IN /\ rows[r].uid > 0 /\ rows[r].in # f
     /\ asked' = m
     /\ moves' = [moves EXCEPT ![m] = op]
     /\ rows' = [rows EXCEPT ![r].in = f, ![r].uid = -m]
     /\ Register(m, GuardOf(op))
MoveFresh(r, f) ==
  LET m == asked + 1
      op == [NoMove EXCEPT !.row = r, !.id = rows[r].id, !.from = rows[r].in, !.uid = rows[r].uid,
                            !.to = f, !.state = "queued"]
  IN /\ rows[r].uid > 0 /\ rows[r].in # f /\ ~rows[r].claim
     /\ asked' = m
     /\ moves' = [moves EXCEPT ![m] = op]
     /\ rows' = [rows EXCEPT ![r].in = f, ![r].uid = -m]
     /\ Register(m, GuardOf(op))

\* Back to where the letter, or the move before, has it. A row there makes the statement fail.
Cancels(r, f) == PendingRow(r) /\ moves[LatestMove(r)].state = "queued" /\ moves[LatestMove(r)].from = f
CancelMove(r, f) ==
  LET m == LatestMove(r)
      back == IF moves[m].uid # 0 THEN moves[m].uid ELSE -moves[m].pred
  IN /\ Cancels(r, f) /\ At(f, back) = {}
     /\ moves' = [moves EXCEPT ![m] = NoMove]
     /\ rows' = [rows EXCEPT ![r].in = f, ![r].uid = back]
     /\ Register(m, NoGuard)
     /\ UNCHANGED asked

Retarget(r, f) ==
  LET m == LatestMove(r)
  IN /\ PendingRow(r) /\ rows[r].in # f /\ moves[m].state = "queued" /\ ~Cancels(r, f)
     /\ moves' = [moves EXCEPT ![m].to = f]
     /\ rows' = [rows EXCEPT ![r].in = f]
     /\ Register(m, GuardOf([moves[m] EXCEPT !.to = f]))
     /\ UNCHANGED asked

Follow(r, f) ==
  LET p == LatestMove(r)
      m == asked + 1
      op == [NoMove EXCEPT !.row = r, !.id = moves[p].id, !.from = moves[p].to, !.to = f,
                            !.pred = p, !.state = "queued"]
  IN /\ PendingRow(r) /\ rows[r].in # f /\ InFlight(p)
     /\ asked' = m
     /\ moves' = [moves EXCEPT ![m] = op]
     /\ rows' = [rows EXCEPT ![r].in = f, ![r].uid = -m]
     /\ Register(m, GuardOf(op))

Ask(r, f) ==
  /\ Asks
  /\ MoveFresh(r, f) \/ CancelMove(r, f) \/ Retarget(r, f) \/ Follow(r, f)
  /\ Wishes(r, f)
  /\ UNCHANGED <<server, processes>>

-------------------------------------------------------------------------------
(* How a move ends *)

Unguards(m, next, from, uid, keepSource) ==
  /\ guard' = [n \in MoveIds |-> IF n = m THEN NoGuard
                                 ELSE IF n \in next THEN GuardOf([to |-> moves[n].to, uid |-> uid])
                                 ELSE guard[n]]
  /\ linger' = IF keepSource /\ guard[m].uid # 0 THEN linger \cup {guard[m].uid} ELSE linger
  /\ UNCHANGED unguarded

\* The move that follows m starts from <<from, uid>>
Succeeds(m, next, from, uid) ==
  [n \in MoveIds |-> IF n = m THEN NoMove
                     ELSE IF n \in next THEN [moves[n] EXCEPT !.from = from, !.uid = uid, !.pred = 0]
                     ELSE moves[n]]

\* The row takes the place, and whoever holds it goes
Take(r, f, u) ==
  [x \in RowIds |-> IF x = r THEN [rows[r] EXCEPT !.in = f, !.uid = u]
                    ELSE IF x \in At(f, u) THEN NoRow ELSE rows[x]]

\* The letter is at u. The row takes it, or the move that follows starts there.
Settle(m, u) ==
  LET r == moves[m].row
      f == letters[u].in
      next == Followers(m)
      mine == rows[r].uid = -m
  IN IF ~Pending(m) THEN UNCHANGED <<panel, memory, recon, wish>>
     ELSE /\ Unguards(m, next, f, u, TRUE)
          /\ UNCHANGED asked
          /\ IF f = moves[m].to THEN UNCHANGED wish ELSE Unwished({r})
          /\ IF next # {} \/ ~mine
             THEN moves' = Succeeds(m, next, f, u) /\ UNCHANGED <<rows, recon>>
             ELSE IF moves[m].to \in Unsynced /\ f = moves[m].to
             THEN /\ moves' = Succeeds(m, {}, f, u)
                  /\ rows' = [rows EXCEPT ![r] = NoRow]
                  /\ UNCHANGED recon
             ELSE /\ moves' = Fresh(Succeeds(m, {}, f, u), r)
                  /\ rows' = Take(r, f, u)
                  /\ SyncedNow(r)

\* The row goes back to the letter's place, or the move that follows starts there
Revert(m) ==
  LET r == moves[m].row
      next == Followers(m)
  IN IF ~Pending(m) THEN UNCHANGED <<panel, memory, recon, wish>>
     ELSE /\ Unguards(m, next, moves[m].from, moves[m].uid, FALSE)
          /\ UNCHANGED asked
          /\ IF next # {} \/ rows[r].uid # -m
             THEN moves' = Succeeds(m, next, moves[m].from, moves[m].uid) /\ UNCHANGED <<rows, recon, wish>>
             ELSE /\ moves' = Fresh(Succeeds(m, {}, moves[m].from, moves[m].uid), r)
                  /\ rows' = Take(r, moves[m].from, moves[m].uid)
                  /\ SyncedNow(r)
                  /\ Unwished({r})

\* The move, the one that follows it and the row go: a sync will find the letter
Drop(m) ==
  LET r == moves[m].row
      gone == {m} \cup Followers(m)
  IN IF ~Pending(m) THEN UNCHANGED <<panel, memory, wish>>
     ELSE /\ moves' = [n \in MoveIds |-> IF n \in gone THEN NoMove ELSE moves[n]]
          /\ guard' = [n \in MoveIds |-> IF n \in gone THEN NoGuard ELSE guard[n]]
          /\ UNCHANGED <<asked, linger, unguarded>>
          /\ IF \E n \in gone : rows[r].uid = -n
             THEN rows' = [rows EXCEPT ![r] = NoRow] /\ Unwished({r})
             ELSE UNCHANGED <<rows, wish>>

\* Each of these changes a move only while it is claimed (WHERE state = 'moving')
OnlyMoving(m, op) == moves' = [moves EXCEPT ![m] = IF @.state = "moving" THEN op ELSE @]
MarkAwaiting(m) == OnlyMoving(m, [moves[m] EXCEPT !.state = "awaiting"])
RetryUnclear(m) == OnlyMoving(m, [moves[m] EXCEPT !.state = "awaiting", !.tries = @ + 1])
Retry(m) == OnlyMoving(m, [moves[m] EXCEPT !.state = "queued", !.tries = @ + 1])

SweptSlip(op) == IF op.state = "moving" THEN [op EXCEPT !.state = "queued"] ELSE op
SweptLost(op) == IF op.state = "moving" /\ ~op.sent THEN [op EXCEPT !.state = "queued"] ELSE op
\* Left by a run that failed, or by a process that stopped: looked up if its MOVE may be out
Swept(op) == IF op.state # "moving" THEN op
             ELSE IF op.sent THEN [op EXCEPT !.state = "awaiting"] ELSE [op EXCEPT !.state = "queued"]

-------------------------------------------------------------------------------
(* Where the letter of a move went, once it is gone from its source *)

Found(m, f) == {u \in Live(f) : moves[m].id # NoHeader /\ letters[u].id = moves[m].id}
FoundFree(m, f) == {u \in Found(m, f) : ~Known(u)}
FoundNewer(m, f) == {u \in Found(m, f) : \E x \in At(f, u) : x # moves[m].row /\ x \in moves[m].newer}

\* A uid no row holds, or one whose row came after the move; an older row is another copy
Pick(m, f) ==
  IF FoundFree(m, f) # {} THEN {Max(FoundFree(m, f))}
  ELSE IF FoundNewer(m, f) # {} THEN {Max(FoundNewer(m, f))} ELSE {}

\* The destination first, then the other folders (in any order, the code sorts them)
Locate(m) ==
  IF Pick(m, moves[m].to) # {} THEN Pick(m, moves[m].to)
  ELSE UNION {Pick(m, f) : f \in Folders \ ({moves[m].from, moves[m].to} \cup Unsynced)}

-------------------------------------------------------------------------------
(* The worker: one run at a time. It looks up the awaiting moves, claims   *)
(* the queued ones and sends one MOVE for each source and destination.     *)

JobOf(m, is) == [id |-> m, from |-> moves[m].from, uid |-> moves[m].uid, to |-> moves[m].to, new |-> 0, is |-> is]
Doing(is) == {j \in run.jobs : j.is = is}
Group == {j \in run.jobs : j.is # "claimed"}

\* The run with these jobs left of a group; then the next group, or the end
Left(jobs) ==
  IF \E j \in jobs : j.is # "claimed" THEN [run EXCEPT !.jobs = jobs]
  ELSE IF run.at = "looking" THEN [run EXCEPT !.jobs = jobs]
  ELSE IF jobs = {} THEN NoRun ELSE [NoRun EXCEPT !.at = "claimed", !.jobs = jobs]
Done(j) == run' = Left(run.jobs \ {j})
Becomes(j, is, u) == run' = [run EXCEPT !.jobs = (@ \ {j}) \cup {[j EXCEPT !.is = is, !.new = u]}]

Awaiting == {m \in MoveIds : moves[m].state = "awaiting"}
Queued == {m \in MoveIds : moves[m].state = "queued" /\ moves[m].uid # 0}

RunBegins ==
  /\ run.at = "idle" /\ Awaiting \cup Queued # {}
  /\ run' = [NoRun EXCEPT !.at = "looking", !.jobs = {JobOf(m, "look") : m \in Awaiting}]
  /\ UNCHANGED <<server, panel, memory, sync, recon, expunge, wish, budget>>

\* The letter is gone from its source (_goneFromSource)
GoneFromSource(j) ==
  \/ /\ Pending(j.id)
     /\ \E u \in Locate(j.id) : Becomes(j, "found", u)
     /\ UNCHANGED <<panel, memory, recon, wish>>
  \/ /\ ~Pending(j.id) \/ Locate(j.id) = {}
     /\ IF j.to \in Unsynced \/ moves[j.id].id = NoHeader THEN Drop(j.id) /\ UNCHANGED recon ELSE Revert(j.id)
     /\ Done(j)

\* An awaiting move: the source first (_resolveAwaiting)
Look(j) ==
  /\ run.at = "looking" /\ j \in Doing("look")
  /\ \/ /\ j.uid \in Live(j.from)
        /\ IF moves[j.id].tries >= MoveMaxAttempts THEN Revert(j.id)
           ELSE /\ moves' = [moves EXCEPT ![j.id] = IF @.state = "awaiting"
                                                    THEN [@ EXCEPT !.state = "queued", !.sent = FALSE] ELSE @]
                /\ UNCHANGED <<rows, asked, memory, recon, wish>>
        /\ Done(j)
     \/ j.uid \notin Live(j.from) /\ GoneFromSource(j)
  /\ UNCHANGED <<server, sync, expunge, budget>>

\* The lookup fails: again later, or given up after ten minutes
LookFails(j) ==
  /\ run.at = "looking" /\ j \in Doing("look") /\ Fault("fail")
  /\ UNCHANGED <<panel, memory, wish>> \/ Drop(j.id)
  /\ Done(j)
  /\ UNCHANGED <<server, sync, recon, expunge>>

SettleFound(j) ==
  /\ j \in Doing("found") \cup Doing("named")
  /\ Settle(j.id, j.new)
  /\ Done(j)
  /\ UNCHANGED <<server, sync, expunge, budget>>

Claim ==
  /\ run.at = "looking" /\ run.jobs = {}
  /\ IF Queued = {} THEN run' = NoRun
     ELSE run' = [NoRun EXCEPT !.at = "claimed", !.jobs = {JobOf(m, "claimed") : m \in Queued}]
  /\ moves' = [m \in MoveIds |-> IF m \in Queued THEN [moves[m] EXCEPT !.state = "moving", !.sent = FALSE] ELSE moves[m]]
  /\ UNCHANGED <<server, rows, asked, memory, sync, recon, expunge, wish, budget>>

SameGroup(j) == {k \in run.jobs : k.from = j.from /\ k.to = j.to}

\* Marked as sent, then UIDNEXT of the destination, which may not be had, then the command
Send(j) ==
  /\ run.at = "claimed" /\ j \in run.jobs
  /\ LET G == SameGroup(j)
     IN /\ moves' = [m \in MoveIds |-> IF (\E k \in G : k.id = m) /\ moves[m].state = "moving"
                                       THEN [moves[m] EXCEPT !.sent = TRUE] ELSE moves[m]]
        /\ \E before \in {0, given + 1} :
             /\ IF before = 0 THEN Fault("fail") ELSE UNCHANGED budget
             /\ run' = [at |-> "sent", before |-> before,
                        jobs |-> (run.jobs \ G) \cup {[k EXCEPT !.is = "sent"] : k \in G}]
  /\ UNCHANGED <<server, rows, asked, memory, sync, recon, expunge, wish>>

-------------------------------------------------------------------------------
(* The command on the server, and what the worker learns of it (bulkMoveMessages) *)

Rank(u, S) == Cardinality({x \in S : x < u})
Sent == Doing("sent")
UidsOf(jobs) == {j.uid : j \in jobs}
Command(jobs) == [uids |-> UidsOf(jobs), from |-> (CHOOSE j \in jobs : TRUE).from, to |-> (CHOOSE j \in jobs : TRUE).to]
Moved(c) == c.uids \cap Live(c.from)
NewUid(u, c) == given + 1 + Rank(u, Moved(c))

\* What comes into its destination between a command's UIDNEXT and its searches may be taken for what it moved
Comes(f) == mixed' = (mixed \/ (run.at \in {"sent", "searching"} /\ f = Command(Sent).to))

\* MOVE, or COPY where the source cannot be deleted
Executes(c, keep) ==
  /\ given' = given + Cardinality(Moved(c)) /\ given' <= LastUid
  /\ letters' = [u \in Uids |-> IF u \in Moved(c) THEN [letters[u] EXCEPT !.live = keep]
                               ELSE IF \E x \in Moved(c) : u = NewUid(x, c)
                               THEN [in |-> c.to, live |-> TRUE,
                                     id |-> letters[CHOOSE x \in Moved(c) : u = NewUid(x, c)].id]
                               ELSE letters[u]]

Answered(is, c) ==
  run' = [run EXCEPT !.at = "handling",
            !.jobs = {IF j.is # "sent" THEN j
                      ELSE IF j.uid \notin Moved(c) THEN [j EXCEPT !.is = "failed"]
                      ELSE [j EXCEPT !.is = is, !.new = IF is = "named" THEN NewUid(j.uid, c) ELSE 0] : j \in @}]
Unanswered == run' = [run EXCEPT !.at = "searching"]

\* A uid the source no longer has may cost the whole command its answer (Dovecot)
ServerMoves ==
  /\ run.at = "sent"
  /\ LET c == Command(Sent)
     IN \/ "named" \in Answers /\ Moved(c) # {} /\ Executes(c, FALSE) /\ Answered("named", c)
        \/ /\ "unnamed" \in Answers \/ Moved(c) # c.uids
           /\ Executes(c, FALSE) /\ Unanswered
        \/ /\ "retained" \in Answers /\ Moved(c) # {}
           /\ Executes(c, TRUE)
           /\ Answered("named", c) \/ Answered("retained", c)
  /\ UNCHANGED <<late, mixed, panel, memory, sync, recon, expunge, wish, budget>>

\* Refused; or run, and the answer is lost (a copy leaves nothing gone to count); or cut off, and the server may
\* still run it
CommandFails ==
  /\ run.at = "sent"
  /\ LET c == Command(Sent)
     IN \/ Fault("fail") /\ UNCHANGED server
        \/ /\ Fault("lost") /\ Executes(c, "retained" \in Answers)
           /\ mixed' = (mixed \/ "retained" \in Answers) /\ UNCHANGED late
        \/ Fault("late") /\ late' = late \cup {c} /\ UNCHANGED <<letters, given, mixed>>
  /\ Unanswered
  /\ UNCHANGED <<panel, memory, sync, recon, expunge, wish>>

\* No lookup can tell that a command is still to run: what it does then counts as another client's
LateMove(c) ==
  /\ c \in late
  /\ late' = late \ {c}
  /\ \/ /\ Moved(c) # {} /\ Executes(c, FALSE) /\ Comes(c.to)
        /\ Unwished(UNION {Rows(letters[u].id) : u \in Moved(c)})
     \/ UNCHANGED <<letters, given, mixed, wish>>
  /\ UNCHANGED <<panel, memory, processes, budget>>

BySearchSlip(gone, arrived) ==
  {IF j.is # "sent" THEN j
   ELSE IF j.uid \notin gone THEN [j EXCEPT !.is = "failed"]
   ELSE IF run.before = 0 THEN [j EXCEPT !.is = "unnamed"]
   ELSE IF Cardinality(arrived) < Cardinality(gone) THEN [j EXCEPT !.is = "failed"]
   ELSE IF Cardinality(arrived) > Cardinality(gone) THEN [j EXCEPT !.is = "unnamed"]
   ELSE [j EXCEPT !.is = "named", !.new = CHOOSE u \in arrived : Rank(j.uid, gone) + Rank(u, arrived) + 1 = Cardinality(gone)]
   : j \in run.jobs}
\* What the searches say: who has left the source, and what has arrived (classifyMoveBySearch)
BySearch(gone, arrived) ==
  {IF j.is # "sent" THEN j
   ELSE IF j.uid \notin gone THEN [j EXCEPT !.is = "failed"]
   ELSE IF run.before = 0 THEN [j EXCEPT !.is = "unnamed"]
   ELSE IF Cardinality(arrived) < Cardinality(gone) THEN [j EXCEPT !.is = "failed"]
   ELSE IF Cardinality(arrived) > Cardinality(gone) THEN [j EXCEPT !.is = "unnamed"]
   ELSE [j EXCEPT !.is = "named", !.new = CHOOSE u \in arrived : Rank(u, arrived) = Rank(j.uid, gone)]
   : j \in run.jobs}

Search ==
  /\ run.at = "searching"
  /\ LET c == Command(Sent)
         gone == c.uids \ Live(c.from)
         arrived == {u \in Live(c.to) : u >= run.before}
     IN run' = [run EXCEPT !.at = "handling", !.jobs = BySearch(gone, arrived)]
  /\ UNCHANGED <<server, panel, memory, sync, recon, expunge, wish, budget>>

SearchFails ==
  /\ run.at = "searching"
  /\ Fault("fail") \/ Fault("busy")
  /\ run' = [run EXCEPT !.at = "handling", !.jobs = BySearch({}, {})]
  /\ UNCHANGED <<server, panel, memory, sync, recon, expunge, wish>>

Unplaced(j) ==
  /\ j \in Doing("unnamed") \cup Doing("retained")
  /\ IF ~Pending(j.id) THEN UNCHANGED <<panel, memory, wish>>
     ELSE IF moves[j.id].id = NoHeader \/ j.is = "retained" THEN Drop(j.id)
     ELSE MarkAwaiting(j.id) /\ UNCHANGED <<rows, asked, memory, wish>>
  /\ Done(j)
  /\ UNCHANGED <<server, sync, recon, expunge, budget>>

\* The server did not move it: still at the source, or gone from there
CheckFailed(j) ==
  /\ j \in Doing("failed")
  /\ \/ /\ j.uid \in Live(j.from)
        /\ IF moves[j.id].tries + 1 >= MoveMaxAttempts THEN Revert(j.id)
           ELSE Retry(j.id) /\ UNCHANGED <<rows, asked, memory, recon, wish>>
        /\ Done(j)
     \/ j.uid \notin Live(j.from) /\ GoneFromSource(j)
  /\ UNCHANGED <<server, sync, expunge, budget>>

CheckFails(j) ==
  /\ j \in Doing("failed") /\ Fault("fail")
  /\ RetryUnclear(j.id) /\ Done(j)
  /\ UNCHANGED <<server, rows, asked, memory, sync, recon, expunge, wish>>

\* No session: what is claimed and not dealt with goes back to the queue, and the run ends
Released(ids) == [m \in MoveIds |-> IF m \in ids /\ moves[m].state = "moving" THEN [moves[m] EXCEPT !.state = "queued"] ELSE moves[m]]
Busy ==
  /\ run.at # "idle" /\ run.at # "searching" /\ Fault("busy")
  /\ IF run.at = "handling" THEN Doing("failed") # {} /\ Group = Doing("failed") ELSE TRUE
  /\ moves' = Released({j.id : j \in run.jobs})
  /\ run' = NoRun
  /\ UNCHANGED <<server, rows, asked, memory, sync, recon, expunge, wish>>

\* A database error: what the group had claimed is put back at once, or later by the sweep
RunFails ==
  /\ run.at \in {"claimed", "handling"} /\ Fault("fail")
  /\ LET mine == {j.id : j \in run.jobs}
     IN \/ moves' = [m \in MoveIds |-> IF m \in mine THEN Swept(moves[m]) ELSE moves[m]]
        \/ UNCHANGED moves
  /\ run' = NoRun
  /\ UNCHANGED <<server, rows, asked, memory, sync, recon, expunge, wish>>

\* Moves left behind; a run in progress keeps its own (the lease outlasts its command)
Sweep ==
  /\ run.at = "idle" /\ \E m \in MoveIds : moves[m].state = "moving"
  /\ moves' = [m \in MoveIds |-> Swept(moves[m])]
  /\ UNCHANGED <<server, rows, asked, memory, processes, wish, budget>>

-------------------------------------------------------------------------------
(* A sync or backfill with one letter it fetched (processMsg) *)

\* What lingers is guarded until the sync is done with it: such a fetch changes nothing
Fetch(u) ==
  /\ sync = NoSync /\ "sync" \in Beside /\ u \in 1..given /\ letters[u].live /\ letters[u].in \notin Unsynced
  /\ u \notin linger
  /\ sync' = [sync EXCEPT !.at = "fetched", !.uid = u]
  /\ UNCHANGED <<server, panel, memory, run, recon, expunge, wish, budget>>

Expecting(u) == {m \in MoveIds : /\ InFlight(m) /\ moves[m].to = letters[u].in
                                 /\ moves[m].id # NoHeader /\ moves[m].id = letters[u].id}

\* Guarded, or expected by a move in flight (claimArrival), or inserted
CheckFetched ==
  /\ sync.at = "fetched"
  /\ sync' = IF Guarded(letters[sync.uid].in, sync.uid) THEN NoSync
             ELSE IF Expecting(sync.uid) # {} /\ ~Known(sync.uid)
             THEN [sync EXCEPT !.at = "attaching", !.move = Min(Expecting(sync.uid))]
             ELSE [sync EXCEPT !.at = "inserting"]
  /\ UNCHANGED <<server, panel, memory, run, recon, expunge, wish, budget>>

\* claimArrival settles: taken if a row or a following move took it, else inserted after all
Attach ==
  /\ sync.at = "attaching"
  /\ Settle(sync.move, sync.uid)
  /\ LET m == sync.move
         took == Pending(m) /\ (Followers(m) # {} \/ rows[moves[m].row].uid = -m)
     IN sync' = IF took THEN NoSync ELSE [sync EXCEPT !.at = "inserting", !.move = 0]
  /\ UNCHANGED <<server, run, expunge, budget>>

Unused == {r \in RowIds : r \notin DOMAIN Headers /\ ~There(r) /\ expunge.row # r /\ ~\E m \in MoveIds : moves[m].row = r}

\* ON CONFLICT keeps the row that is there
Insert ==
  /\ sync.at = "inserting"
  /\ LET u == sync.uid
         r == Min(Unused)
     IN IF Known(u) THEN UNCHANGED <<rows, moves, recon, wish>>
        ELSE /\ Unused # {}
             /\ rows' = [rows EXCEPT ![r] = [NoRow EXCEPT !.in = letters[u].in, !.uid = u, !.id = letters[u].id]]
             /\ moves' = Fresh(moves, r)
             /\ SyncedNow(r)
             /\ Unwished({r})
  /\ sync' = NoSync
  /\ UNCHANGED <<server, asked, memory, run, expunge, budget>>

-------------------------------------------------------------------------------
(* The reconciliation of deleted letters (reconcileDeletes) *)

ListServer ==
  /\ recon.at = "idle" /\ "reconcile" \in Beside
  /\ recon' = [NoRecon EXCEPT !.at = "listed", !.live = {u \in 1..given : letters[u].live}]
  /\ UNCHANGED <<server, panel, memory, run, sync, expunge, wish, budget>>

\* The rows in place since before the list, that it lacks and nothing guards
Judge ==
  /\ recon.at = "listed"
  /\ recon' = [recon EXCEPT !.at = "judged",
       !.orphans = {<<rows[r].in, rows[r].uid>> : r \in {x \in RowIds :
          /\ There(x) /\ x \notin recon.fresh /\ rows[x].uid \notin recon.live
          /\ ~Guarded(rows[x].in, rows[x].uid)}}]
  /\ UNCHANGED <<server, panel, memory, run, sync, expunge, wish, budget>>

DeleteOrphans ==
  /\ recon.at = "judged"
  /\ rows' = [r \in RowIds |-> IF There(r) /\ <<rows[r].in, rows[r].uid>> \in recon.orphans /\ r \notin recon.fresh
                              THEN NoRow ELSE rows[r]]
  /\ recon' = NoRecon
  /\ UNCHANGED <<server, moves, asked, memory, run, sync, expunge, wish, budget>>

-------------------------------------------------------------------------------
(* A permanent delete (expungeClaimed) *)

ClaimRow(r) ==
  /\ expunge = NoExpunge /\ "expunge" \in Beside /\ Asks
  /\ rows[r].uid > 0 /\ ~rows[r].claim
  /\ rows' = [rows EXCEPT ![r].claim = TRUE]
  /\ expunge' = [at |-> "claimed", row |-> r, uid |-> rows[r].uid]
  /\ Unwished({x \in RowIds : rows[x].id = rows[r].id})
  /\ UNCHANGED <<server, moves, asked, memory, run, sync, recon>>

ServerExpunges ==
  /\ expunge.at = "claimed"
  /\ \/ /\ letters' = [letters EXCEPT ![expunge.uid].live = FALSE]
        /\ expunge' = [expunge EXCEPT !.at = "deleted"]
        /\ UNCHANGED budget
     \/ Fault("fail") /\ expunge' = [expunge EXCEPT !.at = "kept"] /\ UNCHANGED letters
     \/ /\ Fault("lost")
        /\ letters' = [letters EXCEPT ![expunge.uid].live = FALSE]
        /\ expunge' = [expunge EXCEPT !.at = "kept"]
  /\ UNCHANGED <<given, late, mixed, panel, memory, run, sync, recon, wish>>

\* The row goes while still claimed and in its place
FinishExpunge ==
  /\ expunge.at = "deleted"
  /\ rows' = [r \in RowIds |-> IF r = expunge.row /\ rows[r].claim /\ rows[r].uid = expunge.uid THEN NoRow ELSE rows[r]]
  /\ expunge' = NoExpunge
  /\ UNCHANGED <<server, moves, asked, memory, run, sync, recon, wish, budget>>

ReleaseClaim ==
  /\ expunge.at = "kept"
  /\ \/ rows' = [rows EXCEPT ![expunge.row].claim = FALSE] /\ UNCHANGED budget
     \/ Fault("fail") /\ UNCHANGED rows
  /\ expunge' = NoExpunge
  /\ UNCHANGED <<server, moves, asked, memory, run, sync, recon, wish>>

\* A claim whose lease ran out; no delete still at work is that old
ReleaseStale ==
  /\ expunge = NoExpunge /\ \E r \in RowIds : rows[r].claim
  /\ rows' = [r \in RowIds |-> [rows[r] EXCEPT !.claim = FALSE]]
  /\ UNCHANGED <<server, moves, asked, memory, processes, wish, budget>>

-------------------------------------------------------------------------------
(* Other clients, and restarts *)

ElseMoves(u, f) ==
  /\ Else /\ u \in 1..given /\ letters[u].live /\ letters[u].in # f
  /\ Executes([uids |-> {u}, from |-> letters[u].in, to |-> f], FALSE) /\ Comes(f)
  /\ Unwished(Rows(letters[u].id))
  /\ UNCHANGED <<late, panel, memory, processes>>

ElseDeletes(u) ==
  /\ Else /\ u \in 1..given /\ letters[u].live
  /\ letters' = [letters EXCEPT ![u].live = FALSE]
  /\ Unwished(Rows(letters[u].id))
  /\ UNCHANGED <<given, late, mixed, panel, memory, processes>>

\* A new letter, perhaps with a Message-ID the panel knows
Arrives(f, h) ==
  /\ arrivals < MaxArrivals /\ arrivals' = arrivals + 1 /\ UNCHANGED <<setting, asks, elses, faults>>
  /\ given' = given + 1 /\ given' <= LastUid /\ Comes(f)
  /\ letters' = [letters EXCEPT ![given + 1] = [in |-> f, id |-> h, live |-> TRUE]]
  /\ UNCHANGED <<late, panel, memory, processes, wish>>

\* The process stops, the server may still run the command; it starts again (resume) before any sync
Crash ==
  /\ Fault("crash")
  /\ IF run.at = "sent" THEN late' = late \cup {Command(Sent)} ELSE UNCHANGED late
  /\ moves' = [m \in MoveIds |-> Swept(moves[m])]
  /\ rows' = [r \in RowIds |-> [rows[r] EXCEPT !.claim = FALSE]]
  /\ guard' = [m \in MoveIds |-> IF Pending(m) THEN GuardOf(moves[m]) ELSE NoGuard]
  /\ linger' = {} /\ unguarded' = {}
  /\ run' = NoRun /\ sync' = NoSync /\ recon' = NoRecon /\ expunge' = NoExpunge
  /\ UNCHANGED <<letters, given, mixed, asked, wish>>

RunStep == \E j \in run.jobs : Look(j) \/ SettleFound(j) \/ Send(j) \/ Unplaced(j) \/ CheckFailed(j)
Work == RunBegins \/ RunStep \/ Claim \/ ServerMoves \/ Search \/ Sweep
Troubles == \/ \E j \in run.jobs : LookFails(j) \/ CheckFails(j)
            \/ CommandFails \/ SearchFails \/ Busy \/ RunFails \/ Crash
Syncs == (\E u \in Uids : Fetch(u)) \/ CheckFetched \/ Attach \/ Insert
Reconciles == ListServer \/ Judge \/ DeleteOrphans
Expunges == (\E r \in RowIds : ClaimRow(r)) \/ ServerExpunges \/ FinishExpunge \/ ReleaseClaim \/ ReleaseStale
Others == \/ \E u \in Uids : ElseDeletes(u) \/ \E f \in Folders : ElseMoves(u, f)
          \/ \E f \in Folders, h \in Ids : Arrives(f, h)

Next ==
  \/ \E r \in RowIds, f \in Folders : Ask(r, f)
  \/ \E q \in unguarded : Registered(q)
  \/ \E u \in linger : LingerEnds(u)
  \/ \E c \in late : LateMove(c)
  \/ Work \/ Troubles \/ Syncs \/ Reconciles \/ Expunges \/ Others

Safety == Init /\ [][Next]_vars

-------------------------------------------------------------------------------
(* Properties *)

\* A row names a letter with its own Message-ID, wherever the panel looked for
\* it.  Only the pairing by counts (classifyMoveBySearch) can name another's:
\* when a letter came into the destination meanwhile, or a copy left nothing
\* gone from the source.
RowNamesItsLetter == ~mixed => \A r \in RowIds : rows[r].uid > 0 => letters[rows[r].uid].id = rows[r].id

\* While people alone decide where a letter is, the row they moved names a
\* letter that is there: no answer lost and no request meanwhile lets the
\* panel believe the letter is where it is not (when guards are registered
\* with the statement, as a request for one letter does, and no new letter
\* arrives to be taken for the moved one).
WishHolds == ~LateGuards /\ arrivals = 0 => \A r \in RowIds : rows[r].uid > 0 /\ wish[r] = rows[r].in => letters[rows[r].uid].live

\* A claimed row stays in its place until the delete is done with it.
ClaimedStays == expunge.at \in {"claimed", "deleted"} /\ There(expunge.row) =>
                  rows[expunge.row].claim /\ rows[expunge.row].uid = expunge.uid

\* The reconciliation removes only rows of letters the server no longer has, never a moved row.
OnlyGoneReconciled ==
  [][DeleteOrphans => \A r \in RowIds : There(r) /\ rows'[r].uid = 0 => rows[r].uid > 0 /\ ~letters[rows[r].uid].live]_vars

Mirror ==
  /\ \A m \in MoveIds : ~Pending(m)
  /\ \A u \in 1..given : letters[u].live /\ letters[u].in \notin Unsynced => Known(u)
  /\ \A r \in RowIds : There(r) => rows[r].uid > 0 /\ letters[rows[r].uid].live

\* Whatever happened, the panel comes to show what the server has, and no move stays pending.
PanelMirrorsServer == <>[]("reconcile" \in Beside => Mirror)

\* Runs, syncs and reconciliations keep coming; their commands are bounded by timeouts
Fairness ==
  /\ WF_vars(Work) /\ WF_vars(CheckFetched \/ Attach \/ Insert) /\ WF_vars(Reconciles)
  /\ WF_vars(ServerExpunges \/ FinishExpunge \/ ReleaseClaim \/ ReleaseStale)
  /\ SF_vars(\E u \in Uids : ~Known(u) /\ Fetch(u))
  /\ WF_vars(\E u \in linger : LingerEnds(u))
  /\ WF_vars(\E q \in unguarded : Registered(q)) /\ WF_vars(\E c \in late : LateMove(c))

Spec == Safety /\ Fairness
===============================================================================
