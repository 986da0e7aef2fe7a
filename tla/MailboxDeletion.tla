---------------------------- MODULE MailboxDeletion ----------------------------
(***************************************************************************)
(* The life of a mail node mailbox and of its EOP seat                     *)
(* (backend/src/services/mailNode/mailboxActions.js, mailboxDeletion.js,   *)
(* eopSeats.js, readOnlyFilter.js): created, deactivated and activated,    *)
(* asked to be deleted, cancelled, and deleted by the job, by people, the  *)
(* panel CLI and the job at once, with a node that fails or whose answer   *)
(* is lost, and processes that die between two steps.                      *)
(*                                                                         *)
(* An address has at most one row (withAccountAddressLock and the check    *)
(* for a taken address); ids tell the rows of one address apart.           *)
(* The seats lock is a variable, as it spans several steps of its holder;  *)
(* the lock of a mailbox is held exactly while act[a] is not Idle.         *)
(***************************************************************************)
EXTENDS Integers, FiniteSets, FiniteSetsExt, Functions

CONSTANTS
  Addresses,
  Purchased,    \* seats bought (seatSupply), unchanged during a behaviour
  Born,         \* addresses whose mailbox exists at the start, each on a seat
  FaultKinds,   \* bound: which of "fail", "lost", "crash" may happen
  MaxFaults,    \* bound: how many of them
  MaxActs,      \* bound: actions that people begin
  MaxRaises     \* bound: times the hold period is made longer

ASSUME SupplyAssumption == Purchased \in Nat /\ Born \subseteq Addresses
                           /\ IsFiniteSet(Addresses) /\ Cardinality(Born) <= Purchased
ASSUME AddressAssumption == "none" \notin Addresses
ASSUME BoundAssumption == /\ FaultKinds \subseteq {"fail", "lost", "crash"}
                          /\ {MaxFaults, MaxActs, MaxRaises} \subseteq Nat

VARIABLES
  row,       \* email_accounts, one possible row an address; id 0 is no row
  onNode,    \* the addresses whose mailbox the mail node has
  filter,    \* the addresses whose mailbox has the read-only filter
  seat,      \* the latest confirmed ledger row of every seat number
  reserved,  \* the pending ledger row of every seat number
  holder,    \* who holds the seats lock: a process, or Nobody
  swept,     \* seats whose expired reservation the holder's transaction has deleted
  create,    \* the creation under way at an address
  act,       \* the action under way on a mailbox, and with it the mailbox's lock
  job,       \* the run of the deletion job
  ids,       \* ids given to rows
  released,  \* rows whose claim a recorded failure has released (history: read by no action)
  acts, faults, raises

mailboxes == <<row, onNode, filter>>
ledger == <<seat, reserved, holder, swept>>
processes == <<create, act, job>>
budget == <<acts, faults, raises>>
vars == <<mailboxes, ledger, processes, ids, released, budget>>

Ops == {"request", "cancel", "deactivate", "activate"}
Closing == {"request", "deactivate"}
Seats == 1..(Purchased + 1)
RowIds == 1..(Cardinality(Addresses) + MaxActs)

Nobody == <<"none", "none">>
NoRow == [id |-> 0, pending |-> FALSE, due |-> FALSE, claimed |-> FALSE, stale |-> FALSE, off |-> FALSE]
NoReservation == [for |-> "none", expired |-> FALSE]
NotCreating == [at |-> "idle", seat |-> 0, reused |-> FALSE]
Idle == [at |-> "idle", op |-> "none", id |-> 0, undoes |-> FALSE, own |-> 0]
NoRun == [at |-> "idle", on |-> "none", id |-> 0]

TypeOK ==
  /\ row \in [Addresses -> [id: {0} \cup RowIds, pending: BOOLEAN, due: BOOLEAN, claimed: BOOLEAN,
                            stale: BOOLEAN, off: BOOLEAN]]
  /\ onNode \subseteq Addresses /\ filter \subseteq onNode
  /\ seat \in [Seats -> [of: {0} \cup RowIds, is: {"free", "live", "held"}]]
  /\ reserved \in [Seats -> [for: Addresses \cup {"none"}, expired: BOOLEAN]]
  /\ holder \in ({"create", "act"} \X Addresses) \cup {Nobody}
  /\ swept \subseteq Seats
  /\ create \in [Addresses -> [at: {"idle", "counted", "reserved", "provisioned"},
                               seat: {0} \cup Seats, reused: BOOLEAN]]
  /\ act \in [Addresses -> [at: {"idle", "node", "change", "taking", "undo"}, op: Ops \cup {"none"},
                            id: {0} \cup RowIds, undoes: BOOLEAN, own: {0} \cup Seats]]
  /\ job \in [at: {"idle", "claimed", "deleting", "deleted"}, on: Addresses \cup {"none"}, id: {0} \cup RowIds]
  /\ ids \in {0} \cup RowIds /\ released \subseteq RowIds
  /\ acts \in 0..MaxActs /\ faults \in 0..MaxFaults /\ raises \in 0..MaxRaises

\* Every mailbox of Born has a row and a seat, by creation order (migration 0095)
Init ==
  /\ \E n \in Bijection(Born, 1..Cardinality(Born)) :
       /\ row = [a \in Addresses |-> IF a \in Born THEN [NoRow EXCEPT !.id = n[a]] ELSE NoRow]
       /\ seat = [s \in Seats |-> IF s \in 1..Cardinality(Born) THEN [of |-> s, is |-> "live"]
                                                               ELSE [of |-> 0, is |-> "free"]]
  /\ onNode = Born /\ filter = {}
  /\ reserved = [s \in Seats |-> NoReservation]
  /\ holder = Nobody /\ swept = {}
  /\ create = [a \in Addresses |-> NotCreating]
  /\ act = [a \in Addresses |-> Idle]
  /\ job = NoRun
  /\ ids = Cardinality(Born) /\ released = {}
  /\ acts = 0 /\ faults = 0 /\ raises = 0

Begins == acts < MaxActs /\ acts' = acts + 1 /\ UNCHANGED <<faults, raises>>
Fault(kind) == kind \in FaultKinds /\ faults < MaxFaults /\ faults' = faults + 1 /\ UNCHANGED <<acts, raises>>

Exists(a) == row[a].id # 0
ReadOnly(a) == row[a].pending \/ row[a].off
Working(a) == Exists(a) /\ ~ReadOnly(a)

-------------------------------------------------------------------------------
(* The seats *)

Unreleased(s) == seat[s].is = "live" \/ reserved[s] # NoReservation
Held(s) == seat[s].is = "held" /\ reserved[s] = NoReservation

\* Answered for by a reservation that has not expired, a mailbox, or a hold (seatCounts)
Counted(s) == \/ seat[s].is = "live" /\ reserved[s] = NoReservation
              \/ reserved[s] # NoReservation /\ ~reserved[s].expired
              \/ Held(s)
FreeSeats == Purchased - Cardinality({s \in Seats : Counted(s)})

Own(id) == {s \in Seats : Held(s) /\ seat[s].of = id}

\* The lowest number neither live nor on hold, the swept reservations gone (freeSeatNumber)
FreeSeatNumber == Min({s \in Seats : ~Held(s) /\ (Unreleased(s) => s \in swept)})

\* The transaction that takes a seat: lockSeats, the expired reservations deleted, the count
LockSeatsSlip(who) == holder' = who
LockSeats(who) == holder = Nobody /\ holder' = who
Sweep == swept' = {s \in Seats : reserved[s].expired}

\* The holder's transaction commits: what it swept is gone
Kept == [s \in Seats |-> IF s \in swept THEN NoReservation ELSE reserved[s]]
Release == holder' = Nobody /\ swept' = {}
ReleaseIfHeld(who) == IF holder = who THEN Release ELSE UNCHANGED <<holder, swept>>

ReleaseSeat(id) ==
  seat' = [s \in Seats |-> IF seat[s] = [of |-> id, is |-> "live"] THEN [of |-> id, is |-> "held"] ELSE seat[s]]

\* Ten minutes pass over a reservation (PENDING_MINUTES)
ReservationExpires(s) ==
  /\ reserved[s] # NoReservation /\ ~reserved[s].expired
  /\ reserved' = [reserved EXCEPT ![s].expired = TRUE]
  /\ UNCHANGED <<mailboxes, seat, holder, swept, processes, ids, released, budget>>

\* free_from passes, or the hold period was made shorter
HoldEnds(s) ==
  /\ seat[s].is = "held"
  /\ seat' = [seat EXCEPT ![s].is = "free"]
  /\ UNCHANGED <<mailboxes, reserved, holder, swept, processes, ids, released, budget>>

\* setHoldDays with more days: seats free again already may be on hold again, the latest rows only
Redated(s) == seat[s].is = "free" /\ seat[s].of # 0 /\ reserved[s] = NoReservation
SetHoldDays ==
  /\ holder = Nobody /\ raises < MaxRaises /\ raises' = raises + 1
  /\ \E S \in SUBSET {s \in Seats : Redated(s)} \ {{}} :
       seat' = [s \in Seats |-> IF s \in S THEN [seat[s] EXCEPT !.is = "held"] ELSE seat[s]]
  /\ UNCHANGED <<mailboxes, reserved, holder, swept, processes, ids, released, acts, faults>>

-------------------------------------------------------------------------------
(* Creating a mailbox (createNodeMailboxNow) *)

\* The address is not taken, and there is a seat: counted under the lock
CreateBegin(a) ==
  /\ create[a].at = "idle" /\ ~Exists(a)
  /\ Begins
  /\ LockSeats(<<"create", a>>)
  /\ Sweep
  /\ FreeSeats >= 1
  /\ create' = [create EXCEPT ![a].at = "counted"]
  /\ UNCHANGED <<mailboxes, seat, reserved, act, job, ids, released>>

\* The pending row goes in under the number that is free now, and the transaction commits
CreateReserve(a) ==
  /\ create[a].at = "counted"
  /\ LET s == FreeSeatNumber IN
       /\ reserved' = [Kept EXCEPT ![s] = [for |-> a, expired |-> FALSE]]
       /\ create' = [create EXCEPT ![a] = [@ EXCEPT !.at = "reserved", !.seat = s]]
  /\ Release
  /\ UNCHANGED <<mailboxes, seat, act, job, ids, released, budget>>

\* dropPendingSeat: only this creation's own row, and only while it is pending
Mine(a) == create[a].seat # 0 /\ reserved[create[a].seat].for = a
GiveBack(a) == IF Mine(a) THEN [reserved EXCEPT ![create[a].seat] = NoReservation] ELSE reserved
\* a row another transaction is deleting is waited for
NotBeingSwept(a) == create[a].seat \notin swept

\* provisionMailbox: made, or taken over from an administrator's hand or a lost creation
Provision(a) ==
  /\ create[a].at = "reserved"
  /\ onNode' = onNode \cup {a}
  /\ create' = [create EXCEPT ![a] = [@ EXCEPT !.at = "provisioned", !.reused = a \in onNode]]
  /\ UNCHANGED <<row, filter, ledger, act, job, ids, released, budget>>

ProvisionFails(a) ==
  /\ create[a].at = "reserved" /\ NotBeingSwept(a)
  /\ \/ Fault("fail") /\ UNCHANGED onNode
     \/ Fault("lost") /\ onNode' = onNode \cup {a}
  /\ reserved' = GiveBack(a)
  /\ create' = [create EXCEPT ![a] = NotCreating]
  /\ UNCHANGED <<row, filter, seat, holder, swept, act, job, ids, released>>

\* The row and its seat in one transaction (confirmSeat), expired or not
Confirm(a) == Mine(a)
Insert(a) ==
  /\ create[a].at = "provisioned" /\ NotBeingSwept(a) /\ Confirm(a)
  /\ ids' = ids + 1
  /\ row' = [row EXCEPT ![a] = [NoRow EXCEPT !.id = ids']]
  /\ seat' = [seat EXCEPT ![create[a].seat] = [of |-> ids', is |-> "live"]]
  /\ reserved' = [reserved EXCEPT ![create[a].seat] = NoReservation]
  /\ create' = [create EXCEPT ![a] = NotCreating]
  /\ UNCHANGED <<onNode, filter, holder, swept, act, job, released, budget>>

\* A mailbox made just now is deleted again, one taken over stays
UndoProvision(a) ==
  IF create[a].reused THEN UNCHANGED <<onNode, filter>> ELSE onNode' = onNode \ {a} /\ filter' = filter \ {a}

\* The insert failed or its seat is gone; the node may fail as well, and keep the mailbox
InsertFails(a) ==
  /\ create[a].at = "provisioned" /\ NotBeingSwept(a)
  /\ \/ ~Mine(a) /\ UndoProvision(a) /\ UNCHANGED budget
     \/ Fault("fail") /\ (UndoProvision(a) \/ UNCHANGED <<onNode, filter>>)
  /\ reserved' = GiveBack(a)
  /\ create' = [create EXCEPT ![a] = NotCreating]
  /\ UNCHANGED <<row, seat, holder, swept, act, job, ids, released>>

\* The process dies: the reservation stays until it expires, a node mailbox stays
CreateCrash(a) ==
  /\ create[a].at # "idle" /\ Fault("crash")
  /\ ReleaseIfHeld(<<"create", a>>)
  /\ create' = [create EXCEPT ![a] = NotCreating]
  /\ UNCHANGED <<mailboxes, seat, reserved, act, job, ids, released>>

-------------------------------------------------------------------------------
(* The actions on a mailbox (requestMailboxDeletion, cancelMailboxDeletion,   *)
(* deactivateNodeMailbox, activateNodeMailbox)                                *)

\* What the action checks once it holds the mailbox's lock
MayBegin(a, op) ==
  CASE op = "request"    -> ~row[a].pending
    [] op = "deactivate" -> ~row[a].pending /\ ~row[a].off
    [] op = "cancel"     -> row[a].pending
    [] op = "activate"   -> row[a].off /\ ~row[a].pending

\* A closed mailbox whose deletion is cancelled stays closed: no node call and no seat
Opens(a, op) == op \notin Closing /\ ~(op = "cancel" /\ row[a].off)
SeatAvailable(a) == Own(row[a].id) # {} \/ FreeSeats >= 1

ActBegin(a, op) ==
  /\ act[a].at = "idle" /\ Exists(a) /\ MayBegin(a, op)
  /\ Opens(a, op) => SeatAvailable(a)
  /\ Begins
  /\ act' = [act EXCEPT ![a] = [Idle EXCEPT !.at = IF op \in Closing \/ Opens(a, op) THEN "node" ELSE "change",
                                            !.op = op, !.id = row[a].id,
                                            !.undoes = IF op \in Closing THEN Working(a) ELSE Opens(a, op)]]
  /\ UNCHANGED <<mailboxes, ledger, create, job, ids, released>>

CloseDelivery(a) == filter' = filter \cup ({a} \cap onNode)
OpenDelivery(a) == filter' = filter \ {a}
NodeEffect(a) == IF act[a].op \in Closing THEN CloseDelivery(a) ELSE OpenDelivery(a)

\* The node first: closeLocalDelivery or openLocalDelivery
NodeCall(a) ==
  /\ act[a].at = "node"
  /\ NodeEffect(a)
  /\ act' = [act EXCEPT ![a].at = "change"]
  /\ UNCHANGED <<row, onNode, ledger, create, job, ids, released, budget>>

\* It threw, so the action ends; an answer may be lost after the node did it
NodeCallFails(a) ==
  /\ act[a].at = "node"
  /\ \/ Fault("fail") /\ UNCHANGED filter
     \/ Fault("lost") /\ NodeEffect(a)
  /\ act' = [act EXCEPT ![a] = Idle]
  /\ UNCHANGED <<row, onNode, ledger, create, job, ids, released>>

SameRow(a) == row[a].id = act[a].id

\* requestDeletion and the update of a deactivation: the row, and its seat on hold
Closed(a) ==
  IF act[a].op = "request"
  THEN [row[a] EXCEPT !.pending = TRUE, !.due = FALSE, !.claimed = FALSE, !.stale = FALSE]
  ELSE [row[a] EXCEPT !.off = TRUE]
Close(a) ==
  /\ act[a].at = "change" /\ act[a].op \in Closing /\ SameRow(a)
  /\ row' = [row EXCEPT ![a] = Closed(a)]
  /\ ReleaseSeat(act[a].id)
  /\ act' = [act EXCEPT ![a] = Idle]
  /\ UNCHANGED <<onNode, filter, reserved, holder, swept, create, job, ids, released, budget>>

\* cancelDeletion refuses a row that is gone or claimed, stale claims included
CancelRefusedSlip(a) == ~SameRow(a)
CancelRefusedFreshSlip(a) == ~SameRow(a) \/ (row[a].claimed /\ ~row[a].stale)
CancelRefused(a) == ~SameRow(a) \/ row[a].claimed
Refused(a) == act[a].op = "cancel" /\ CancelRefused(a)

\* Under the seats lock, and of a cancel the row's own lock: its held seat, or a free one counted
TakeSeat(a) ==
  /\ act[a].at = "change" /\ act[a].op \notin Closing /\ act[a].undoes /\ ~Refused(a)
  /\ LockSeats(<<"act", a>>)
  /\ \/ \E s \in Own(act[a].id) : swept' = {} /\ act' = [act EXCEPT ![a] = [@ EXCEPT !.at = "taking", !.own = s]]
     \/ /\ Own(act[a].id) = {} /\ FreeSeats >= 1
        /\ Sweep
        /\ act' = [act EXCEPT ![a].at = "taking"]
  /\ UNCHANGED <<mailboxes, seat, reserved, create, job, ids, released, budget>>

Opened(a) ==
  IF act[a].op = "cancel" THEN [row[a] EXCEPT !.pending = FALSE, !.due = FALSE] ELSE [row[a] EXCEPT !.off = FALSE]
Open(a) ==
  /\ act[a].at = "taking"
  /\ row' = [row EXCEPT ![a] = Opened(a)]
  /\ LET s == IF act[a].own # 0 THEN act[a].own ELSE FreeSeatNumber IN
       seat' = [seat EXCEPT ![s] = [of |-> act[a].id, is |-> "live"]]
  /\ reserved' = Kept
  /\ Release
  /\ act' = [act EXCEPT ![a] = Idle]
  /\ UNCHANGED <<onNode, filter, create, job, ids, released, budget>>

\* The cancel of a deactivated mailbox's deletion: no seat, no node
CancelClosed(a) ==
  /\ act[a].at = "change" /\ act[a].op = "cancel" /\ ~act[a].undoes /\ ~Refused(a)
  /\ holder = Nobody
  /\ row' = [row EXCEPT ![a] = Opened(a)]
  /\ act' = [act EXCEPT ![a] = Idle]
  /\ UNCHANGED <<onNode, filter, ledger, create, job, ids, released, budget>>

\* The change is refused under the seats lock, which the transaction keeps while the node is put
\* back: the row is claimed or gone, or the last free seat went meanwhile (what was swept goes too)
Turned(a) == act' = [act EXCEPT ![a].at = "undo"]
ChangeRefused(a) ==
  /\ act[a].at = "change" /\ act[a].op \notin Closing
  /\ LockSeats(<<"act", a>>)
  /\ \/ Refused(a) /\ swept' = {}
     \/ ~Refused(a) /\ act[a].undoes /\ Own(act[a].id) = {} /\ FreeSeats < 1 /\ Sweep
  /\ Turned(a)
  /\ UNCHANGED <<mailboxes, seat, reserved, create, job, ids, released, budget>>

\* The change throws: its transaction is broken and undone, the node put back before it ends
ChangeThrows(a) ==
  /\ act[a].at \in {"change", "taking"} /\ Fault("fail")
  /\ swept' = IF holder = <<"act", a>> THEN {} ELSE swept
  /\ Turned(a)
  /\ UNCHANGED <<mailboxes, seat, reserved, holder, create, job, ids, released>>

\* closeThen's undo and openThen's redo, if the action changed what the node did; then its transaction ends
PutBack(a) == IF act[a].op \in Closing THEN OpenDelivery(a) ELSE CloseDelivery(a)
Undo(a) ==
  /\ act[a].at = "undo"
  /\ \/ act[a].undoes /\ PutBack(a) /\ UNCHANGED budget
     \/ ~act[a].undoes /\ UNCHANGED <<filter, budget>>
     \/ act[a].undoes /\ Fault("fail") /\ UNCHANGED filter
  /\ IF holder = <<"act", a>> THEN reserved' = Kept /\ Release ELSE UNCHANGED <<reserved, holder, swept>>
  /\ act' = [act EXCEPT ![a] = Idle]
  /\ UNCHANGED <<row, onNode, seat, create, job, ids, released>>

\* The process dies: both locks go with its connection, the row keeps its state and the node its own
ActCrash(a) ==
  /\ act[a].at # "idle" /\ Fault("crash")
  /\ ReleaseIfHeld(<<"act", a>>)
  /\ act' = [act EXCEPT ![a] = Idle]
  /\ UNCHANGED <<mailboxes, seat, reserved, create, job, ids, released>>

\* reconcileLocalDelivery, under the mailbox's lock with its row read again
MailboxUnlockedSlip(a) == TRUE
MailboxUnlocked(a) == act[a].at = "idle"
Differs(a) == (a \in filter) # ReadOnly(a)
Reconcile(a) ==
  /\ MailboxUnlocked(a) /\ Exists(a) /\ a \in onNode
  /\ Differs(a)
  /\ filter' = IF ReadOnly(a) THEN filter \cup {a} ELSE filter \ {a}
  /\ UNCHANGED <<row, onNode, ledger, processes, ids, released, budget>>

-------------------------------------------------------------------------------
(* The deletion job (mailboxDeletion.js): one run at a time in the process,   *)
(* one mailbox after another                                                  *)

\* The days of the request pass (delete_after)
DateCome(a) ==
  /\ row[a].pending /\ ~row[a].due
  /\ row' = [row EXCEPT ![a].due = TRUE]
  /\ UNCHANGED <<onNode, filter, ledger, processes, ids, released, budget>>

\* Ten minutes pass over a claim whose run is gone
ClaimGoesStale(a) ==
  /\ row[a].claimed /\ ~row[a].stale /\ job.on # a
  /\ row' = [row EXCEPT ![a].stale = TRUE]
  /\ UNCHANGED <<onNode, filter, ledger, processes, ids, released, budget>>

\* The row lock of a cancel that is taking a seat holds the claim up
RowLocked(a) == act[a].at = "taking" /\ act[a].op = "cancel"
ClaimableSlip(a) == row[a].pending /\ row[a].due /\ ~row[a].claimed /\ ~RowLocked(a)
Claimable(a) == row[a].pending /\ row[a].due /\ (~row[a].claimed \/ row[a].stale) /\ ~RowLocked(a)

Claim(a) ==
  /\ job = NoRun /\ Claimable(a)
  /\ row' = [row EXCEPT ![a] = [@ EXCEPT !.claimed = TRUE, !.stale = FALSE]]
  /\ job' = [at |-> "claimed", on |-> a, id |-> row[a].id]
  /\ UNCHANGED <<onNode, filter, ledger, create, act, ids, released, budget>>

\* A due row while the node's settings are missing: recordFailure, with whatever claim it had
NotConfigured(a) ==
  /\ job = NoRun /\ Claimable(a) /\ Fault("fail")
  /\ row' = [row EXCEPT ![a] = [@ EXCEPT !.claimed = FALSE, !.stale = FALSE]]
  /\ released' = released \cup {row[a].id}
  /\ UNCHANGED <<onNode, filter, ledger, processes, ids>>

\* recordFailure: this run's claim is released and the row waits for the next attempt
OwnClaim == row[job.on].id = job.id /\ row[job.on].claimed
RecordFailure ==
  /\ row' = IF OwnClaim THEN [row EXCEPT ![job.on].claimed = FALSE] ELSE row
  /\ released' = released \cup {job.id}
  /\ job' = NoRun

\* BEFORE_NODE_DELETE: the tenant's recipient goes
BeforeSteps ==
  /\ job.at = "claimed"
  /\ job' = [job EXCEPT !.at = "deleting"]
  /\ UNCHANGED <<mailboxes, ledger, create, act, ids, released, budget>>

\* Another mail host, a step that throws, a node that refuses or is not reached
AttemptFails ==
  /\ job.at \in {"claimed", "deleting"} /\ Fault("fail")
  /\ RecordFailure
  /\ UNCHANGED <<onNode, filter, ledger, create, act, ids>>

\* deleteOnNode: a mailbox that is not there counts as deleted
NodeDeletes ==
  /\ job.at = "deleting"
  /\ onNode' = onNode \ {job.on} /\ filter' = filter \ {job.on}
  /\ job' = [job EXCEPT !.at = "deleted"]
  /\ UNCHANGED <<row, ledger, create, act, ids, released, budget>>

\* The node deletes it and the answer is lost: mail_node_unreachable, recorded as a failure
NodeDeleteLost ==
  /\ job.at = "deleting" /\ Fault("lost")
  /\ onNode' = onNode \ {job.on} /\ filter' = filter \ {job.on}
  /\ RecordFailure
  /\ UNCHANGED <<ledger, create, act, ids>>

\* The row goes under this run's claim; the seat's ledger row stays
RemoveRow ==
  /\ job.at = "deleted"
  /\ row' = IF OwnClaim THEN [row EXCEPT ![job.on] = NoRow] ELSE row
  /\ job' = NoRun
  /\ UNCHANGED <<onNode, filter, ledger, create, act, ids, released, budget>>

\* The process dies, or a statement fails past the node's delete: the claim stays
JobCrash ==
  /\ job # NoRun /\ Fault("crash")
  /\ job' = NoRun
  /\ UNCHANGED <<mailboxes, ledger, create, act, ids, released>>

-------------------------------------------------------------------------------

Creating(a) == CreateReserve(a) \/ Provision(a) \/ ProvisionFails(a) \/ Insert(a) \/ InsertFails(a)
Acting(a) == NodeCall(a) \/ Close(a) \/ TakeSeat(a) \/ Open(a) \/ CancelClosed(a) \/ ChangeRefused(a) \/ Undo(a)
Deleting == BeforeSteps \/ NodeDeletes \/ RemoveRow

Next ==
  \/ \E a \in Addresses :
       \/ CreateBegin(a) \/ Creating(a) \/ CreateCrash(a)
       \/ \E op \in Ops : ActBegin(a, op)
       \/ Acting(a) \/ NodeCallFails(a) \/ ChangeThrows(a) \/ ActCrash(a)
       \/ Reconcile(a)
       \/ DateCome(a) \/ ClaimGoesStale(a) \/ Claim(a) \/ NotConfigured(a)
  \/ Deleting \/ AttemptFails \/ NodeDeleteLost \/ JobCrash
  \/ SetHoldDays
  \/ \E s \in Seats : ReservationExpires(s) \/ HoldEnds(s)

\* A process that has begun goes on (every node call has a timeout, the locks a statement timeout),
\* days and the ten minutes of a claim pass, the job runs every five minutes and the alerts, which
\* reconcile the filters, on their own interval
Fairness ==
  /\ \A a \in Addresses :
       /\ WF_vars(Creating(a)) /\ SF_vars(Acting(a)) /\ WF_vars(Reconcile(a))
       /\ WF_vars(DateCome(a)) /\ WF_vars(ClaimGoesStale(a)) /\ SF_vars(Claim(a))
  /\ WF_vars(Deleting)

Safety == Init /\ [][Next]_vars
Spec == Init /\ [][Next]_vars /\ Fairness

-------------------------------------------------------------------------------
(* Properties *)

\* Seats bought are never overbooked: with creations, activations and cancels at once, reservations
\* that expire, and a hold made longer, the seats of mailboxes, reservations and holds fit
\* (eopSeats.js: "two creations never share the last one")
SeatsWithinPurchase == Cardinality({s \in Seats : Unreleased(s) \/ Held(s)}) <= Purchased

\* Nothing deletes a mailbox on the node but the job, under its claim on a row whose date has come,
\* and a creation that takes back what it made: a cancel that won is never overtaken by the job
OnlyDueIsDeleted ==
  [][\A a \in Addresses : a \in onNode \ onNode' =>
       \/ ~Exists(a)
       \/ row[a].pending /\ row[a].due /\ row[a].claimed]_vars

Cancelled(a) == (Open(a) \/ CancelClosed(a)) /\ act[a].op = "cancel"

\* A cancel gives back a mailbox that is still there ("Cancels a pending deletion: the mailbox stays
\* as it is", mailboxActions.js), whatever a process that dies leaves, as the claim stays and
\* refuses the cancel ("stale claim included: the node mailbox may be gone already",
\* mailboxDeletion.js), but for a row whose claim recordFailure has released after the node may
\* have deleted the mailbox.
ClaimedIsNeverGivenBack ==
  [][\A a \in Addresses : Cancelled(a) /\ row[a].id \notin released => a \in onNode]_vars

\* When a row becomes read-only its filter is on the node already, and off when it works again,
\* though the reconciliation changes filters on its own ("the node's filter first, then the change")
FilterBeforeRow ==
  [][\A a \in Addresses :
       Exists(a) /\ row[a].id = row'[a].id /\ ReadOnly(a) # ReadOnly(a)' /\ a \in onNode
         => ((a \in filter) = ReadOnly(a)')]_vars

\* A mailbox whose date has come is deleted or its deletion cancelled, whatever failed before
DueIsDeleted ==
  \A a \in Addresses, id \in RowIds :
    (row[a].id = id /\ row[a].due) ~> ~(row[a].id = id /\ row[a].due)
===============================================================================
