------------------------- MODULE MailboxDeletionProofs -------------------------
(***************************************************************************)
(* Mailboxes and seats of the mail node: for every number of addresses,    *)
(* seats, actions and faults, no seat beyond those bought is ever used,    *)
(* only the job deletes a mailbox, and only one whose date has come, a     *)
(* cancel gives back a mailbox that is still there, and the filter of the  *)
(* node comes before the row.                                              *)
(*                                                                         *)
(* Two invariants. One is about the seats: whoever counted under the seats *)
(* lock finds a number among those bought when it takes one. The other is  *)
(* about one address at a time: what its creation, its action and the job  *)
(* know of the row while the locks keep the others away.                   *)
(***************************************************************************)
EXTENDS MailboxDeletion, FiniteSetTheorems, TLAPS

-------------------------------------------------------------------------------
(* The invariants *)

\* The types, but for the bound on the ids.
Rows == [id: Nat, pending: BOOLEAN, due: BOOLEAN, claimed: BOOLEAN, stale: BOOLEAN, off: BOOLEAN]
Entries == [of: Nat, is: {"free", "live", "held"}]
Reservations == [for: Addresses \cup {"none"}, expired: BOOLEAN]
Creations == [at: {"idle", "counted", "reserved", "provisioned"}, seat: {0} \cup Seats, reused: BOOLEAN]
Actions == [at: {"idle", "node", "change", "taking", "undo"}, op: Ops \cup {"none"}, id: Nat,
            undoes: BOOLEAN, own: {0} \cup Seats]
JobRuns == [at: {"idle", "claimed", "deleting", "deleted"}, on: Addresses \cup {"none"}, id: Nat]

Typed ==
  /\ row \in [Addresses -> Rows]
  /\ seat \in [Seats -> Entries] /\ reserved \in [Seats -> Reservations] /\ swept \subseteq Seats
  /\ create \in [Addresses -> Creations] /\ act \in [Addresses -> Actions] /\ job \in JobRuns
  /\ ids \in Nat

\* A seat that has a mailbox, a hold or a reservation, or ever had one.
Used(s) == seat[s].is # "free" \/ seat[s].of # 0 \/ reserved[s] # NoReservation

\* The seats that whoever holds the lock may not take.
Blocked == {s \in Seats : Held(s) \/ (Unreleased(s) /\ s \notin swept)}

\* Whoever is about to take a seat holds the lock, and has counted, or has one of its own.
TakersHold ==
  \A a \in Addresses :
    /\ create[a].at = "counted" => holder = <<"create", a>> /\ Cardinality(Blocked) < Purchased
    /\ act[a].at \in {"node", "change"} => act[a].own = 0
    /\ act[a].at = "taking" =>
         /\ holder = <<"act", a>>
         /\ IF act[a].own = 0 THEN Cardinality(Blocked) < Purchased
                              ELSE act[a].own <= Purchased /\ reserved[act[a].own] = NoReservation

SeatSane(s) ==
  /\ Used(s) => s <= Purchased
  /\ reserved[s] # NoReservation => seat[s].is = "free"
  /\ s \in swept => reserved[s] # NoReservation

SeatsInv == TakersHold /\ \A s \in Seats : SeatSane(s)

\* A creation is alone with its address, and its mailbox stays on the node.
CreationSane(a) ==
  /\ create[a].at # "idle" => ~Exists(a)
  /\ create[a].at = "provisioned" => a \in onNode

RowSane(a) ==
  /\ row[a].id <= ids
  /\ ~Exists(a) => row[a] = NoRow
  /\ row[a].claimed => row[a].pending
  /\ Exists(a) /\ row[a].id \notin released /\ ~row[a].claimed => a \in onNode

\* What an action began with is so until it ends, but for a row that the job deletes or claims
\* under a cancel.
ActSane(a) ==
  act[a].at # "idle" =>
    /\ act[a].op \in Ops /\ act[a].id # 0 /\ act[a].id <= ids
    /\ act[a].op # "cancel" => SameRow(a)
    /\ act[a].op \in Closing => ~row[a].pending
    /\ act[a].op = "deactivate" => ~row[a].off
    /\ act[a].op = "activate" => row[a].off /\ ~row[a].pending /\ act[a].undoes
    /\ act[a].op = "cancel" /\ SameRow(a) => row[a].pending /\ (act[a].undoes <=> ~row[a].off)
    /\ act[a].at = "node" => act[a].op \in Closing \/ act[a].undoes
    /\ act[a].at = "taking" =>
         act[a].op \notin Closing /\ act[a].undoes /\ SameRow(a) /\ (act[a].op = "cancel" => ~row[a].claimed)

\* The filter that an action has set or taken off stays so until the row follows.
FilterSane(a) ==
  SameRow(a) /\ a \in onNode =>
    /\ act[a].at = "change" /\ act[a].op \in Closing => a \in filter
    /\ act[a].at \in {"change", "taking"} /\ act[a].op \notin Closing /\ act[a].undoes => a \notin filter

Sane(a) == CreationSane(a) /\ RowSane(a) /\ ActSane(a) /\ FilterSane(a)

\* The job works under its claim, on a row whose date has come.
JobSane ==
  IF job.at = "idle" THEN job = NoRun
  ELSE /\ job.on \in Addresses /\ job.id # 0 /\ row[job.on].id = job.id
       /\ row[job.on].pending /\ row[job.on].due /\ row[job.on].claimed

RowsInv == JobSane /\ \A a \in Addresses : Sane(a)

-------------------------------------------------------------------------------
(* The number of a free seat *)

\* A set of natural numbers that is not empty has a least one.
LEMMA LeastNumber ==
  ASSUME NEW S \in SUBSET Nat, S # {}
  PROVE  Min(S) \in S /\ \A n \in S : Min(S) <= n
<1>. DEFINE Upto == {0..m : m \in S}
            R == StrictSubsetOrdering(Nat)
            F == FiniteSubsetsOf(Nat)
<1>1. Upto \subseteq F /\ Upto # {}
  <2>1. ASSUME NEW m \in S PROVE 0..m \in F
    BY FS_Interval DEF FiniteSubsetsOf
  <2>. QED
    BY <2>1
<1>2. IsWellFoundedOn(R, F)
  BY FS_StrictSubsetOrderingWellFounded
<1>3. PICK U \in Upto : \A V \in Upto : ~(<<V, U>> \in R)
  <2>. HIDE DEF Upto, R, F
  <2>. QED
    BY <1>1, <1>2, WFMin
<1>4. PICK m \in S : U = 0..m
  BY <1>3
<1>5. ASSUME NEW n \in S PROVE m <= n
  <2>1. ~(<<0..n, 0..m>> \in R)
    BY <1>3, <1>4
  <2>2. CASE n < m
    <3>1. 0..n \subseteq 0..m /\ m \in 0..m /\ m \notin 0..n /\ 0..n \subseteq Nat /\ 0..m \subseteq Nat
      BY <2>2
    <3>. QED
      BY <2>1, <3>1 DEF StrictSubsetOrdering
  <2>. QED
    BY <2>2
<1>. QED
  BY <1>4, <1>5 DEF Min

\* There is one number more than seats.
LEMMA SeatNumbers ==
  /\ Purchased \in Nat /\ Seats \subseteq Nat \ {0} /\ IsFiniteSet(Seats)
  /\ 1..Purchased \subseteq Seats /\ IsFiniteSet(1..Purchased) /\ Cardinality(1..Purchased) = Purchased
<1>1. Purchased \in Nat
  BY SupplyAssumption
<1>2. IsFiniteSet(Seats) /\ IsFiniteSet(1..Purchased)
  BY <1>1, FS_Interval DEF Seats
<1>3. Cardinality(1..Purchased) = IF 1 > Purchased THEN 0 ELSE Purchased - 1 + 1
  BY <1>1, FS_Interval
<1>. QED
  BY <1>1, <1>2, <1>3 DEF Seats

\* When fewer seats are blocked than were bought, the lowest free number is one of those bought.
LEMMA FreeNumber ==
  ASSUME Cardinality(Blocked) < Purchased
  PROVE  FreeSeatNumber \in Seats \ Blocked /\ FreeSeatNumber <= Purchased
<1>. DEFINE Free == {s \in Seats : ~Held(s) /\ (Unreleased(s) => s \in swept)}
<1>1. Free = Seats \ Blocked
  BY DEF Blocked
<1>2. PICK s \in 1..Purchased : s \notin Blocked
  <2>1. CASE 1..Purchased \subseteq Blocked
    <3>1. IsFiniteSet(Blocked)
      BY SeatNumbers, FS_Subset DEF Blocked
    <3>2. Cardinality(1..Purchased) <= Cardinality(Blocked) /\ Cardinality(Blocked) \in Nat
      BY <2>1, <3>1, FS_Subset, FS_CardinalityType
    <3>. QED
      BY <3>2, SeatNumbers
  <2>. QED
    BY <2>1
<1>3. s \in Free /\ Free \in SUBSET Nat
  BY <1>1, <1>2, SeatNumbers
<1>. HIDE DEF Free
<1>4. Min(Free) \in Free /\ Min(Free) <= s
  BY <1>3, LeastNumber
<1>5. FreeSeatNumber = Min(Free)
  BY DEF FreeSeatNumber, Free
<1>. QED
  BY <1>1, <1>2, <1>3, <1>4, <1>5, SeatNumbers

\* A count that finds a free seat leaves fewer blocked than were bought, once the expired are swept.
LEMMA CountedAreBlocked ==
  ASSUME Typed, FreeSeats >= 1, seat' = seat, reserved' = reserved, Sweep
  PROVE  Cardinality(Blocked') < Purchased
<1>1. Blocked' \subseteq {s \in Seats : Counted(s)}
  <2>1. SUFFICES ASSUME NEW s \in Seats, (Held(s) \/ (Unreleased(s) /\ s \notin swept))' PROVE Counted(s)
    BY DEF Blocked, Seats
  <2>2. Held(s) \/ (Unreleased(s) /\ ~reserved[s].expired)
    BY <2>1 DEF Held, Unreleased, Sweep
  <2>3. reserved[s].expired = FALSE \/ reserved[s].expired = TRUE
    BY DEF Typed, Reservations
  <2>. QED
    BY <2>2, <2>3 DEF Counted, Unreleased
<1>2. IsFiniteSet({s \in Seats : Counted(s)})
  BY SeatNumbers, FS_Subset
<1>3. /\ Cardinality(Blocked') <= Cardinality({s \in Seats : Counted(s)})
      /\ Cardinality({s \in Seats : Counted(s)}) \in Nat /\ Cardinality(Blocked') \in Nat
  BY <1>1, <1>2, FS_Subset, FS_CardinalityType
<1>. QED
  BY <1>3, SeatNumbers DEF FreeSeats

-------------------------------------------------------------------------------
(* Types *)

\* The values that stand for nothing are of the types of their variables.
LEMMA Nothings ==
  /\ NoRow \in Rows /\ NoReservation \in Reservations /\ NotCreating \in Creations
  /\ Idle \in Actions /\ NoRun \in JobRuns
  BY DEF NoRow, NoReservation, NotCreating, Idle, NoRun, Rows, Reservations, Creations, Actions, JobRuns

\* Every step of a creation keeps the types.
LEMMA TypedCreation ==
  ASSUME Typed, SeatsInv, NEW a \in Addresses, CreateBegin(a) \/ Creating(a) \/ CreateCrash(a)
  PROVE  Typed'
<1>. USE Nothings DEF Typed
<1>1. CASE CreateBegin(a)
  BY <1>1 DEF CreateBegin, Sweep, mailboxes, Creations
<1>2. CASE CreateReserve(a)
  <2>1. FreeSeatNumber \in Seats
    BY <1>2, FreeNumber DEF CreateReserve, SeatsInv, TakersHold
  <2>. HIDE DEF Typed
  <2>2. reserved' \in [Seats -> Reservations]
    BY <1>2, <2>1 DEF CreateReserve, Kept, Typed, Reservations
  <2>3. create' \in [Addresses -> Creations]
    BY <1>2, <2>1 DEF CreateReserve, Typed, Creations
  <2>. QED
    BY <1>2, <2>2, <2>3 DEF CreateReserve, Release, mailboxes, Typed
<1>3. CASE Provision(a)
  <2>1. create' \in [Addresses -> Creations]
    <3>. DEFINE there == a \in onNode
    <3>1. there \in BOOLEAN
      OBVIOUS
    <3>2. create' = [create EXCEPT ![a] = [@ EXCEPT !.at = "provisioned", !.reused = there]]
      BY <1>3 DEF Provision
    <3>. HIDE DEF there
    <3>. QED
      BY <3>1, <3>2 DEF Creations
  <2>. QED
    BY <1>3, <2>1 DEF Provision, ledger
<1>4. CASE ProvisionFails(a)
  BY <1>4 DEF ProvisionFails, GiveBack
<1>5. CASE Insert(a)
  <2>1. row' \in [Addresses -> Rows]
    BY <1>5 DEF Insert, Rows
  <2>2. seat' \in [Seats -> Entries]
    <3>1. [of |-> ids', is |-> "live"] \in Entries
      BY <1>5 DEF Insert, Entries
    <3>. QED
      BY <1>5, <3>1 DEF Insert
  <2>. QED
    BY <1>5, <2>1, <2>2 DEF Insert
<1>6. CASE InsertFails(a)
  BY <1>6 DEF InsertFails, GiveBack
<1>7. CASE CreateCrash(a)
  BY <1>7 DEF CreateCrash, ReleaseIfHeld, Release, mailboxes
<1>. QED
  BY <1>1, <1>2, <1>3, <1>4, <1>5, <1>6, <1>7 DEF Creating

\* Every step of an action on a mailbox keeps the types.
LEMMA TypedAction ==
  ASSUME Typed, SeatsInv, NEW a \in Addresses,
         (\E op \in Ops : ActBegin(a, op)) \/ Acting(a) \/ NodeCallFails(a) \/ ChangeThrows(a) \/ ActCrash(a)
  PROVE  Typed'
<1>. USE Nothings DEF Typed
<1>1. ASSUME NEW op \in Ops, ActBegin(a, op) PROVE Typed'
  BY <1>1 DEF ActBegin, Idle, mailboxes, ledger, Working, ReadOnly, Exists, Opens, Actions, Rows
<1>2. CASE NodeCall(a)
  BY <1>2 DEF NodeCall, ledger, Actions
<1>3. CASE NodeCallFails(a)
  BY <1>3 DEF NodeCallFails, ledger
<1>4. CASE Close(a)
  <2>1. row' \in [Addresses -> Rows]
    BY <1>4 DEF Close, Closed, Rows
  <2>2. seat' \in [Seats -> Entries]
    BY <1>4 DEF Close, ReleaseSeat, Entries, Actions
  <2>. QED
    BY <1>4, <2>1, <2>2 DEF Close
<1>5. CASE TakeSeat(a)
  <2>1. act' \in [Addresses -> Actions]
    <3>1. \/ act' = [act EXCEPT ![a].at = "taking"]
          \/ \E s \in Seats : act' = [act EXCEPT ![a] = [@ EXCEPT !.at = "taking", !.own = s]]
      BY <1>5 DEF TakeSeat, Own
    <3>2. [act[a] EXCEPT !.at = "taking"] \in Actions
      BY DEF Actions
    <3>3. ASSUME NEW s \in Seats PROVE [act[a] EXCEPT !.at = "taking", !.own = s] \in Actions
      BY DEF Actions
    <3>. QED
      BY <3>1, <3>2, <3>3
  <2>. QED
    BY <1>5, <2>1 DEF TakeSeat, Sweep, mailboxes
<1>6. CASE Open(a)
  <2>1. (IF act[a].own # 0 THEN act[a].own ELSE FreeSeatNumber) \in Seats
    <3>1. act[a] \in Actions /\ (act[a].own = 0 => Cardinality(Blocked) < Purchased)
      BY <1>6 DEF Open, SeatsInv, TakersHold
    <3>. QED
      BY <3>1, FreeNumber DEF Actions
  <2>2. row' \in [Addresses -> Rows]
    BY <1>6 DEF Open, Opened, Rows
  <2>3. seat' \in [Seats -> Entries]
    BY <1>6, <2>1 DEF Open, Entries, Actions
  <2>. QED
    BY <1>6, <2>2, <2>3 DEF Open, Kept, Release
<1>7. CASE CancelClosed(a)
  BY <1>7 DEF CancelClosed, Opened, ledger, Rows
<1>8. CASE ChangeRefused(a)
  BY <1>8 DEF ChangeRefused, Sweep, Turned, mailboxes, Actions
<1>9. CASE ChangeThrows(a)
  BY <1>9 DEF ChangeThrows, Turned, mailboxes, Actions
<1>10. CASE Undo(a)
  BY <1>10 DEF Undo, Kept, Release
<1>11. CASE ActCrash(a)
  BY <1>11 DEF ActCrash, ReleaseIfHeld, Release, mailboxes
<1>. QED
  BY <1>1, <1>2, <1>3, <1>4, <1>5, <1>6, <1>7, <1>8, <1>9, <1>10, <1>11 DEF Acting

\* Every other step keeps the types.
LEMMA TypedRest ==
  ASSUME Typed,
         \/ \E a \in Addresses : Reconcile(a) \/ DateCome(a) \/ ClaimGoesStale(a) \/ Claim(a) \/ NotConfigured(a)
         \/ Deleting \/ AttemptFails \/ NodeDeleteLost \/ JobCrash
         \/ SetHoldDays
         \/ \E s \in Seats : ReservationExpires(s) \/ HoldEnds(s)
  PROVE  Typed'
<1>. USE Nothings DEF Typed
<1>1. ASSUME NEW a \in Addresses, Reconcile(a) PROVE Typed'
  BY <1>1 DEF Reconcile, ledger, processes
<1>2. ASSUME NEW a \in Addresses, DateCome(a) \/ ClaimGoesStale(a) PROVE Typed'
  BY <1>2 DEF DateCome, ClaimGoesStale, ledger, processes, Rows
<1>3. ASSUME NEW a \in Addresses, Claim(a) PROVE Typed'
  BY <1>3 DEF Claim, ledger, Rows, JobRuns
<1>4. ASSUME NEW a \in Addresses, NotConfigured(a) PROVE Typed'
  BY <1>4 DEF NotConfigured, ledger, processes, Rows
<1>5. CASE BeforeSteps
  BY <1>5 DEF BeforeSteps, mailboxes, ledger, JobRuns
<1>6. CASE NodeDeletes
  BY <1>6 DEF NodeDeletes, ledger, JobRuns
<1>7. CASE RemoveRow
  BY <1>7 DEF RemoveRow, ledger
<1>8. CASE AttemptFails \/ NodeDeleteLost
  <2>1. RecordFailure /\ UNCHANGED <<ledger, create, act, ids>>
    BY <1>8 DEF AttemptFails, NodeDeleteLost
  <2>2. row' \in [Addresses -> Rows]
    BY <2>1 DEF RecordFailure, OwnClaim, Rows
  <2>. QED
    BY <2>1, <2>2 DEF RecordFailure, ledger
<1>9. CASE JobCrash
  BY <1>9 DEF JobCrash, mailboxes, ledger
<1>10. CASE SetHoldDays
  BY <1>10 DEF SetHoldDays, mailboxes, processes, Entries
<1>11. ASSUME NEW s \in Seats, ReservationExpires(s) \/ HoldEnds(s) PROVE Typed'
  <2>1. CASE ReservationExpires(s)
    BY <2>1 DEF ReservationExpires, mailboxes, processes, Reservations
  <2>2. CASE HoldEnds(s)
    BY <2>2 DEF HoldEnds, mailboxes, processes, Entries
  <2>. QED
    BY <1>11, <2>1, <2>2
<1>. QED
  BY <1>1, <1>2, <1>3, <1>4, <1>5, <1>6, <1>7, <1>8, <1>9, <1>10, <1>11 DEF Deleting

-------------------------------------------------------------------------------
(* Seats *)

Lock == <<holder, swept>>

\* Nobody begins to take a seat.
NoNewTaker ==
  \A a \in Addresses :
    /\ create'[a].at = "counted" => create[a].at = "counted"
    /\ act'[a].at \in {"node", "change"} => act'[a].own = 0
    /\ act'[a].at = "taking" => act[a].at = "taking" /\ act'[a].own = act[a].own

\* A step that leaves the lock alone, begins no taking and blocks no more seats.
LEMMA QuietStep ==
  ASSUME Typed, SeatsInv, UNCHANGED Lock, NoNewTaker, \A s \in Seats : SeatSane(s)', Blocked' \subseteq Blocked,
         \A s \in Seats : reserved[s] = NoReservation => reserved'[s] = NoReservation
  PROVE  SeatsInv'
<1>1. IsFiniteSet(Blocked)
  BY SeatNumbers, FS_Subset DEF Blocked
<1>2. Cardinality(Blocked') <= Cardinality(Blocked) /\ Cardinality(Blocked) \in Nat /\ Cardinality(Blocked') \in Nat
  BY <1>1, FS_Subset, FS_CardinalityType
<1>3. Cardinality(Blocked) < Purchased => Cardinality(Blocked)' < Purchased
  BY <1>2, SeatNumbers
<1>4. ASSUME NEW a \in Addresses
      PROVE  /\ create[a].at = "counted" => holder = <<"create", a>> /\ Cardinality(Blocked) < Purchased
             /\ act[a].at \in {"node", "change"} => act[a].own = 0
             /\ act[a].at = "taking" =>
                  /\ holder = <<"act", a>>
                  /\ IF act[a].own = 0 THEN Cardinality(Blocked) < Purchased
                                       ELSE act[a].own <= Purchased /\ reserved[act[a].own] = NoReservation
  BY DEF SeatsInv, TakersHold
<1>. DEFINE few == Cardinality(Blocked) < Purchased
<1>. HIDE DEF few
<1>5. few => few'
  BY <1>3 DEF few
<1>6. TakersHold'
  <2>1. SUFFICES ASSUME NEW a \in Addresses
        PROVE  /\ create'[a].at = "counted" => holder' = <<"create", a>> /\ few'
               /\ act'[a].at \in {"node", "change"} => act'[a].own = 0
               /\ act'[a].at = "taking" =>
                  /\ holder' = <<"act", a>>
                  /\ IF act'[a].own = 0 THEN few'
                                       ELSE act'[a].own <= Purchased /\ reserved'[act'[a].own] = NoReservation
    BY DEF TakersHold, few
  <2>2. create'[a].at = "counted" => holder = <<"create", a>> /\ few
    BY <1>4 DEF NoNewTaker, few
  <2>3. act'[a].at = "taking" =>
          /\ holder = <<"act", a>> /\ act'[a].own = act[a].own
          /\ IF act[a].own = 0 THEN few ELSE act[a].own <= Purchased /\ reserved[act[a].own] = NoReservation
    BY <1>4 DEF NoNewTaker, few
  <2>4. act'[a].at \in {"node", "change"} => act'[a].own = 0
    BY <1>4 DEF NoNewTaker
  <2>5. act[a].own \in {0} \cup Seats
    BY DEF Typed, Actions
  <2>. QED
    BY <1>5, <2>2, <2>3, <2>4, <2>5 DEF Lock
<1>. QED
  BY <1>6 DEF SeatsInv

\* A step that leaves the ledger alone and begins no taking.
LEMMA LedgerUntouched ==
  ASSUME Typed, SeatsInv, UNCHANGED ledger, NoNewTaker
  PROVE  SeatsInv'
<1>1. \A s \in Seats : SeatSane(s)'
  BY DEF SeatsInv, SeatSane, Used, ledger
<1>2. Blocked' = Blocked
  BY DEF Blocked, Held, Unreleased, ledger
<1>. QED
  BY <1>1, <1>2, QuietStep DEF ledger, Lock

\* A step that ends with the lock free, or with nobody who is taking a seat.
LEMMA NobodyTakes ==
  ASSUME \A a \in Addresses : create'[a].at # "counted" /\ act'[a].at # "taking"
                              /\ (act'[a].at \in {"node", "change"} => act'[a].own = 0),
         \A s \in Seats : SeatSane(s)'
  PROVE  SeatsInv'
  BY DEF SeatsInv, TakersHold

\* Only the holder of the lock may be taking a seat.
LEMMA OneTaker ==
  ASSUME SeatsInv, NEW a \in Addresses
  PROVE  /\ holder # <<"create", a>> => create[a].at # "counted"
         /\ holder # <<"act", a>> => act[a].at # "taking"
         /\ act[a].at \in {"node", "change"} => act[a].own = 0
  BY DEF SeatsInv, TakersHold

\* What is kept of the reservations when a transaction commits.
LEMMA KeptReservations ==
  ASSUME Typed
  PROVE  /\ Kept \in [Seats -> Reservations]
         /\ \A s \in Seats : Kept[s] = IF s \in swept THEN NoReservation ELSE reserved[s]
  BY Nothings DEF Typed, Kept

\* A number that is not blocked has nothing but a reservation that is swept.
LEMMA UnblockedIsFree ==
  ASSUME Typed, SeatsInv, NEW s \in Seats, s \notin Blocked
  PROVE  seat[s].is = "free" /\ (reserved[s] # NoReservation => s \in swept)
<1>1. SeatSane(s) /\ seat[s].is \in {"free", "live", "held"}
  BY DEF SeatsInv, Typed, Entries
<1>. QED
  BY <1>1 DEF Blocked, Held, Unreleased, SeatSane

\* Every step of a creation keeps the seats in order.
LEMMA SeatsCreation ==
  ASSUME Typed, Typed', SeatsInv, NEW a \in Addresses, CreateBegin(a) \/ Creating(a) \/ CreateCrash(a)
  PROVE  SeatsInv'
<1>. USE DEF Typed
<1>0. \A s \in Seats : SeatSane(s)
  BY DEF SeatsInv
<1>1. CASE CreateBegin(a)
  <2>1. Cardinality(Blocked') < Purchased
    BY <1>1, CountedAreBlocked DEF CreateBegin
  <2>2. \A s \in Seats : SeatSane(s)'
    <3>1. SUFFICES ASSUME NEW s \in Seats PROVE SeatSane(s)'
      OBVIOUS
    <3>2. s \in swept' => reserved[s] # NoReservation
      BY <1>1 DEF CreateBegin, Sweep, NoReservation
    <3>. QED
      BY <1>0, <1>1, <3>2 DEF CreateBegin, SeatSane, Used
  <2>3. \A b \in Addresses : create[b].at # "counted" /\ act[b].at # "taking"
                             /\ (act[b].at \in {"node", "change"} => act[b].own = 0)
    BY <1>1, OneTaker DEF CreateBegin, LockSeats, Nobody
  <2>4. \A b \in Addresses : create'[b].at = "counted" => b = a
    BY <1>1, <2>3 DEF CreateBegin
  <2>5. holder' = <<"create", a>> /\ act' = act
    BY <1>1 DEF CreateBegin, LockSeats
  <2>. QED
    BY <2>1, <2>2, <2>3, <2>4, <2>5 DEF SeatsInv, TakersHold
<1>2. CASE CreateReserve(a)
  <2>. DEFINE f == FreeSeatNumber
  <2>1. holder = <<"create", a>> /\ Cardinality(Blocked) < Purchased
    BY <1>2 DEF CreateReserve, SeatsInv, TakersHold
  <2>2. f \in Seats /\ f \notin Blocked /\ f <= Purchased
    BY <2>1, FreeNumber
  <2>3. seat[f].is = "free"
    BY <2>2, UnblockedIsFree
  <2>4. reserved' = [Kept EXCEPT ![f] = [for |-> a, expired |-> FALSE]] /\ seat' = seat /\ swept' = {}
    BY <1>2 DEF CreateReserve, Release
  <2>. HIDE DEF f
  <2>5. ASSUME NEW s \in Seats PROVE SeatSane(s)'
    <3>1. CASE s = f
      BY <2>2, <2>3, <2>4, <3>1 DEF SeatSane
    <3>2. CASE s # f
      <4>1. reserved'[s] = NoReservation \/ reserved'[s] = reserved[s]
        BY <2>4, <3>2, KeptReservations
      <4>. QED
        BY <1>0, <2>4, <4>1 DEF SeatSane, Used
    <3>. QED
      BY <3>1, <3>2
  <2>6. ASSUME NEW b \in Addresses
        PROVE  create'[b].at # "counted" /\ act'[b].at # "taking"
               /\ (act'[b].at \in {"node", "change"} => act'[b].own = 0)
    BY <1>2, <2>1, OneTaker DEF CreateReserve
  <2>. QED
    BY <2>5, <2>6, NobodyTakes
<1>3. CASE Provision(a)
  BY <1>3, OneTaker, LedgerUntouched DEF Provision, NoNewTaker
<1>4. CASE ProvisionFails(a) \/ InsertFails(a)
  <2>1. /\ reserved' = GiveBack(a) /\ create[a].seat \notin swept
        /\ create' = [create EXCEPT ![a] = NotCreating] /\ UNCHANGED <<seat, holder, swept, act>>
    BY <1>4 DEF ProvisionFails, InsertFails, NotBeingSwept
  <2>2. \A s \in Seats : reserved'[s] = reserved[s] \/ (s \notin swept /\ reserved'[s] = NoReservation)
    BY <2>1 DEF GiveBack
  <2>3. \A s \in Seats : SeatSane(s)'
    BY <1>0, <2>1, <2>2 DEF SeatSane, Used
  <2>4. Blocked' \subseteq Blocked
    BY <1>0, <2>1, <2>2 DEF Blocked, Held, Unreleased, SeatSane
  <2>5. NoNewTaker
    BY <2>1, OneTaker DEF NoNewTaker, NotCreating
  <2>. QED
    BY <2>1, <2>2, <2>3, <2>4, <2>5, QuietStep DEF Lock
<1>5. CASE Insert(a)
  <2>. DEFINE c == create[a].seat
  <2>1. c \in Seats /\ c \notin swept /\ reserved[c] # NoReservation
    BY <1>5, AddressAssumption DEF Insert, Confirm, Mine, NotBeingSwept, Creations, NoReservation
  <2>2. /\ seat' = [seat EXCEPT ![c] = [of |-> ids', is |-> "live"]]
        /\ reserved' = [reserved EXCEPT ![c] = NoReservation]
        /\ create' = [create EXCEPT ![a] = NotCreating] /\ UNCHANGED <<holder, swept, act>>
    BY <1>5 DEF Insert
  <2>. HIDE DEF c
  <2>3. \A s \in Seats : SeatSane(s)'
    BY <1>0, <2>1, <2>2 DEF SeatSane, Used
  <2>4. Blocked' \subseteq Blocked
    BY <1>0, <2>1, <2>2 DEF Blocked, Held, Unreleased
  <2>5. NoNewTaker
    BY <2>2, OneTaker DEF NoNewTaker, NotCreating
  <2>. QED
    BY <2>1, <2>2, <2>3, <2>4, <2>5, QuietStep DEF Lock
<1>6. CASE CreateCrash(a)
  <2>1. create' = [create EXCEPT ![a] = NotCreating] /\ UNCHANGED <<seat, reserved, act>>
    BY <1>6 DEF CreateCrash
  <2>2. CASE holder = <<"create", a>>
    <3>1. swept' = {}
      BY <1>6, <2>2 DEF CreateCrash, ReleaseIfHeld, Release
    <3>2. \A s \in Seats : SeatSane(s)'
      BY <1>0, <2>1, <3>1 DEF SeatSane, Used
    <3>3. \A b \in Addresses : create'[b].at # "counted" /\ act'[b].at # "taking"
                               /\ (act'[b].at \in {"node", "change"} => act'[b].own = 0)
      BY <2>1, <2>2, OneTaker DEF NotCreating
    <3>. QED
      BY <3>2, <3>3, NobodyTakes
  <2>3. CASE holder # <<"create", a>>
    <3>1. UNCHANGED ledger
      BY <1>6, <2>1, <2>3 DEF CreateCrash, ReleaseIfHeld, ledger
    <3>2. NoNewTaker
      BY <2>1, OneTaker DEF NoNewTaker, NotCreating
    <3>. QED
      BY <3>1, <3>2, LedgerUntouched
  <2>. QED
    BY <2>2, <2>3
<1>. QED
  BY <1>1, <1>2, <1>3, <1>4, <1>5, <1>6 DEF Creating

\* Every step of an action on a mailbox keeps the seats in order.
LEMMA SeatsAction ==
  ASSUME Typed, SeatsInv, NEW a \in Addresses,
         (\E op \in Ops : ActBegin(a, op)) \/ Acting(a) \/ NodeCallFails(a) \/ ChangeThrows(a) \/ ActCrash(a)
  PROVE  SeatsInv'
<1>. USE DEF Typed
<1>0. \A s \in Seats : SeatSane(s)
  BY DEF SeatsInv
<1>1. ASSUME NEW op \in Ops, ActBegin(a, op) PROVE SeatsInv'
  <2>1. act'[a].at \in {"node", "change"} /\ act'[a].own = 0 /\ \A b \in Addresses : b # a => act'[b] = act[b]
    BY <1>1 DEF ActBegin, Idle
  <2>2. NoNewTaker
    BY <1>1, <2>1, OneTaker DEF NoNewTaker, ActBegin
  <2>. QED
    BY <1>1, <2>2, LedgerUntouched DEF ActBegin
<1>2. CASE NodeCall(a) \/ NodeCallFails(a) \/ CancelClosed(a)
  <2>1. \E n : act' = [act EXCEPT ![a] = n] /\ n.at \in {"idle", "change"} /\ n.own = 0
    BY <1>2, OneTaker DEF NodeCall, NodeCallFails, CancelClosed, Idle, Actions
  <2>2. NoNewTaker
    BY <1>2, <2>1, OneTaker DEF NoNewTaker, NodeCall, NodeCallFails, CancelClosed
  <2>. QED
    BY <1>2, <2>2, LedgerUntouched DEF NodeCall, NodeCallFails, CancelClosed
<1>3. CASE Close(a)
  <2>1. /\ seat' = [s \in Seats |-> IF seat[s] = [of |-> act[a].id, is |-> "live"] THEN [of |-> act[a].id, is |-> "held"]
                                                                                  ELSE seat[s]]
        /\ act' = [act EXCEPT ![a] = Idle] /\ UNCHANGED <<reserved, holder, swept, create>>
    BY <1>3 DEF Close, ReleaseSeat
  <2>2. \A s \in Seats : seat'[s] = seat[s] \/ (seat[s].is = "live" /\ seat'[s].is = "held" /\ seat'[s].of = seat[s].of)
    BY <2>1
  <2>3. \A s \in Seats : SeatSane(s)'
    BY <1>0, <2>1, <2>2 DEF SeatSane, Used
  <2>4. Blocked' \subseteq Blocked
    BY <1>0, <2>1, <2>2 DEF Blocked, Held, Unreleased, SeatSane
  <2>5. NoNewTaker
    BY <2>1, OneTaker DEF NoNewTaker, Idle
  <2>. QED
    BY <2>1, <2>3, <2>4, <2>5, QuietStep DEF Lock
<1>4. CASE TakeSeat(a)
  <2>1. \A b \in Addresses : create[b].at # "counted" /\ act[b].at # "taking"
                             /\ (act[b].at \in {"node", "change"} => act[b].own = 0)
    BY <1>4, OneTaker DEF TakeSeat, LockSeats, Nobody
  <2>2. holder' = <<"act", a>> /\ act[a].at = "change" /\ UNCHANGED <<seat, reserved, create>>
    BY <1>4 DEF TakeSeat, LockSeats
  <2>3. CASE \E s \in Own(act[a].id) : swept' = {} /\ act' = [act EXCEPT ![a] = [@ EXCEPT !.at = "taking", !.own = s]]
    <3>1. PICK s \in Own(act[a].id) : swept' = {} /\ act' = [act EXCEPT ![a] = [@ EXCEPT !.at = "taking", !.own = s]]
      BY <2>3
    <3>2. s \in Seats /\ reserved[s] = NoReservation /\ Used(s)
      BY <3>1 DEF Own, Held, Used
    <3>3. s <= Purchased /\ s # 0
      BY <1>0, <3>2, SeatNumbers DEF SeatSane
    <3>4. \A t \in Seats : SeatSane(t)'
      BY <1>0, <2>2, <3>1 DEF SeatSane, Used
    <3>5. act'[a].at = "taking" /\ act'[a].own = s /\ \A b \in Addresses : b # a => act'[b] = act[b]
      BY <3>1 DEF Actions
    <3>. QED
      BY <2>1, <2>2, <3>2, <3>3, <3>4, <3>5 DEF SeatsInv, TakersHold
  <2>4. CASE FreeSeats >= 1 /\ Sweep /\ act' = [act EXCEPT ![a].at = "taking"]
    <3>1. Cardinality(Blocked') < Purchased
      BY <2>2, <2>4, CountedAreBlocked
    <3>2. \A s \in Seats : SeatSane(s)'
      <4>1. SUFFICES ASSUME NEW s \in Seats PROVE SeatSane(s)'
        OBVIOUS
      <4>2. s \in swept' => reserved[s] # NoReservation
        BY <2>4 DEF Sweep, NoReservation
      <4>. QED
        BY <1>0, <2>2, <4>2 DEF SeatSane, Used
    <3>3. act'[a].at = "taking" /\ act'[a].own = 0 /\ \A b \in Addresses : b # a => act'[b] = act[b]
      BY <2>1, <2>2, <2>4 DEF Actions
    <3>. QED
      BY <2>1, <2>2, <3>1, <3>2, <3>3 DEF SeatsInv, TakersHold
  <2>. QED
    BY <1>4, <2>3, <2>4 DEF TakeSeat
<1>5. CASE Open(a)
  <2>. DEFINE t == IF act[a].own # 0 THEN act[a].own ELSE FreeSeatNumber
  <2>1. /\ holder = <<"act", a>>
        /\ IF act[a].own = 0 THEN Cardinality(Blocked) < Purchased
                             ELSE act[a].own <= Purchased /\ reserved[act[a].own] = NoReservation
    BY <1>5 DEF Open, SeatsInv, TakersHold
  <2>2. t \in Seats /\ t <= Purchased /\ (reserved[t] # NoReservation => t \in swept)
    <3>1. CASE act[a].own = 0
      BY <2>1, <3>1, FreeNumber, UnblockedIsFree
    <3>2. CASE act[a].own # 0
      BY <2>1, <3>2 DEF Actions
    <3>. QED
      BY <3>1, <3>2
  <2>3. /\ seat' = [seat EXCEPT ![t] = [of |-> act[a].id, is |-> "live"]] /\ reserved' = Kept /\ swept' = {}
        /\ act' = [act EXCEPT ![a] = Idle] /\ create' = create
    BY <1>5 DEF Open, Release
  <2>. HIDE DEF t
  <2>4. ASSUME NEW s \in Seats PROVE SeatSane(s)'
    <3>1. reserved'[s] = IF s \in swept THEN NoReservation ELSE reserved[s]
      BY <2>3, KeptReservations
    <3>2. SeatSane(s)
      BY <1>0
    <3>3. CASE s = t
      <4>1. reserved'[s] = NoReservation
        BY <2>2, <3>1, <3>3
      <4>. QED
        BY <2>2, <2>3, <3>3, <4>1 DEF SeatSane
    <3>4. CASE s # t
      <4>1. seat'[s] = seat[s]
        BY <2>3, <3>4
      <4>. QED
        BY <2>3, <3>1, <3>2, <4>1 DEF SeatSane, Used
    <3>. QED
      BY <3>3, <3>4
  <2>5. ASSUME NEW b \in Addresses
        PROVE  create'[b].at # "counted" /\ act'[b].at # "taking"
               /\ (act'[b].at \in {"node", "change"} => act'[b].own = 0)
    BY <2>1, <2>3, OneTaker DEF Idle
  <2>. QED
    BY <2>4, <2>5, NobodyTakes
<1>6. CASE ChangeRefused(a)
  <2>1. act' = [act EXCEPT ![a].at = "undo"] /\ UNCHANGED <<seat, reserved, create>> /\ (swept' = {} \/ Sweep) /\ holder = Nobody
    BY <1>6 DEF ChangeRefused, Turned, LockSeats
  <2>2. \A s \in Seats : s \in swept' => reserved[s] # NoReservation
    BY <2>1 DEF Sweep, NoReservation
  <2>3. \A s \in Seats : SeatSane(s)'
    BY <1>0, <2>1, <2>2 DEF SeatSane, Used
  <2>4. ASSUME NEW b \in Addresses
        PROVE  create'[b].at # "counted" /\ act'[b].at # "taking"
               /\ (act'[b].at \in {"node", "change"} => act'[b].own = 0)
    BY <2>1, OneTaker DEF Actions, Nobody
  <2>. QED
    BY <2>3, <2>4, NobodyTakes
<1>7. CASE ChangeThrows(a)
  <2>1. act' = [act EXCEPT ![a].at = "undo"] /\ UNCHANGED <<seat, reserved, holder, create>>
    BY <1>7 DEF ChangeThrows, Turned
  <2>2. CASE holder = <<"act", a>>
    <3>1. swept' = {}
      BY <1>7, <2>2 DEF ChangeThrows
    <3>2. \A s \in Seats : SeatSane(s)'
      BY <1>0, <2>1, <3>1 DEF SeatSane, Used
    <3>3. ASSUME NEW b \in Addresses
          PROVE  create'[b].at # "counted" /\ act'[b].at # "taking"
                 /\ (act'[b].at \in {"node", "change"} => act'[b].own = 0)
      BY <2>1, <2>2, OneTaker DEF Actions
    <3>. QED
      BY <3>2, <3>3, NobodyTakes
  <2>3. CASE holder # <<"act", a>>
    <3>1. UNCHANGED ledger
      BY <1>7, <2>1, <2>3 DEF ChangeThrows, ledger
    <3>2. NoNewTaker
      BY <2>1, OneTaker DEF NoNewTaker, Actions
    <3>. QED
      BY <3>1, <3>2, LedgerUntouched
  <2>. QED
    BY <2>2, <2>3
<1>8. CASE Undo(a) \/ ActCrash(a)
  <2>1. act' = [act EXCEPT ![a] = Idle] /\ UNCHANGED <<seat, create>>
    BY <1>8 DEF Undo, ActCrash
  <2>2. CASE holder = <<"act", a>>
    <3>1. swept' = {} /\ \A s \in Seats : reserved'[s] = reserved[s] \/ reserved'[s] = NoReservation
      BY <1>8, <2>2, KeptReservations DEF Undo, ActCrash, ReleaseIfHeld, Release
    <3>2. \A s \in Seats : SeatSane(s)'
      BY <1>0, <2>1, <3>1 DEF SeatSane, Used
    <3>3. ASSUME NEW b \in Addresses
          PROVE  create'[b].at # "counted" /\ act'[b].at # "taking"
                 /\ (act'[b].at \in {"node", "change"} => act'[b].own = 0)
      BY <2>1, <2>2, OneTaker DEF Idle
    <3>. QED
      BY <3>2, <3>3, NobodyTakes
  <2>3. CASE holder # <<"act", a>>
    <3>1. UNCHANGED ledger
      BY <1>8, <2>1, <2>3 DEF Undo, ActCrash, ReleaseIfHeld, ledger
    <3>2. NoNewTaker
      BY <2>1, OneTaker DEF NoNewTaker, Idle
    <3>. QED
      BY <3>1, <3>2, LedgerUntouched
  <2>. QED
    BY <2>2, <2>3
<1>. QED
  BY <1>1, <1>2, <1>3, <1>4, <1>5, <1>6, <1>7, <1>8 DEF Acting

\* Every other step keeps the seats in order.
LEMMA SeatsRest ==
  ASSUME Typed, SeatsInv,
         \/ \E a \in Addresses : Reconcile(a) \/ DateCome(a) \/ ClaimGoesStale(a) \/ Claim(a) \/ NotConfigured(a)
         \/ Deleting \/ AttemptFails \/ NodeDeleteLost \/ JobCrash
         \/ SetHoldDays
         \/ \E s \in Seats : ReservationExpires(s) \/ HoldEnds(s)
  PROVE  SeatsInv'
<1>. USE DEF Typed
<1>0. \A s \in Seats : SeatSane(s)
  BY DEF SeatsInv
<1>1. CASE UNCHANGED <<ledger, create, act>>
  BY <1>1, OneTaker, LedgerUntouched DEF NoNewTaker
<1>2. CASE SetHoldDays
  <2>1. UNCHANGED <<reserved, swept, create, act>> /\ holder = Nobody
    BY <1>2 DEF SetHoldDays, processes
  <2>2. \A s \in Seats : seat'[s] = seat[s] \/ (Redated(s) /\ seat'[s] = [seat[s] EXCEPT !.is = "held"])
    BY <1>2 DEF SetHoldDays
  <2>3. ASSUME NEW s \in Seats PROVE SeatSane(s)'
    BY <1>0, <2>1, <2>2 DEF SeatSane, Used, Redated
  <2>4. ASSUME NEW b \in Addresses
        PROVE  create'[b].at # "counted" /\ act'[b].at # "taking"
               /\ (act'[b].at \in {"node", "change"} => act'[b].own = 0)
    BY <2>1, OneTaker DEF Nobody
  <2>. QED
    BY <2>3, <2>4, NobodyTakes
<1>3. ASSUME NEW s \in Seats, ReservationExpires(s) PROVE SeatsInv'
  <2>1. /\ reserved' = [reserved EXCEPT ![s].expired = TRUE] /\ reserved[s] # NoReservation
        /\ UNCHANGED <<seat, holder, swept, create, act>>
    BY <1>3 DEF ReservationExpires, processes
  <2>2. \A t \in Seats : (reserved'[t] = NoReservation) = (reserved[t] = NoReservation)
    BY <2>1 DEF NoReservation, Reservations
  <2>3. \A t \in Seats : SeatSane(t)'
    BY <1>0, <2>1, <2>2 DEF SeatSane, Used
  <2>4. Blocked' \subseteq Blocked
    BY <2>1, <2>2 DEF Blocked, Held, Unreleased
  <2>5. NoNewTaker
    BY <2>1, OneTaker DEF NoNewTaker
  <2>. QED
    BY <2>1, <2>2, <2>3, <2>4, <2>5, QuietStep DEF Lock
<1>4. ASSUME NEW s \in Seats, HoldEnds(s) PROVE SeatsInv'
  <2>1. /\ seat' = [seat EXCEPT ![s].is = "free"] /\ seat[s].is = "held"
        /\ UNCHANGED <<reserved, holder, swept, create, act>>
    BY <1>4 DEF HoldEnds, processes
  <2>2. \A t \in Seats : seat'[t] = seat[t] \/ (seat[t].is = "held" /\ seat'[t].is = "free")
    BY <2>1 DEF Entries
  <2>3. \A t \in Seats : SeatSane(t)'
    BY <1>0, <2>1, <2>2 DEF SeatSane, Used
  <2>4. Blocked' \subseteq Blocked
    BY <2>1, <2>2 DEF Blocked, Held, Unreleased
  <2>5. NoNewTaker
    BY <2>1, OneTaker DEF NoNewTaker
  <2>. QED
    BY <2>1, <2>2, <2>3, <2>4, <2>5, QuietStep DEF Lock
<1>5. \/ UNCHANGED <<ledger, create, act>> \/ SetHoldDays
      \/ \E s \in Seats : ReservationExpires(s) \/ HoldEnds(s)
  BY DEF Reconcile, DateCome, ClaimGoesStale, Claim, NotConfigured, Deleting, BeforeSteps, NodeDeletes,
         RemoveRow, AttemptFails, NodeDeleteLost, JobCrash, processes
<1>. QED
  BY <1>1, <1>2, <1>3, <1>4, <1>5

\* Every step keeps the types and the seats in order.
LEMMA SeatsStep ==
  ASSUME Typed, SeatsInv, [Next]_vars
  PROVE  Typed' /\ SeatsInv'
<1>1. CASE \E a \in Addresses : CreateBegin(a) \/ Creating(a) \/ CreateCrash(a)
  BY <1>1, TypedCreation, SeatsCreation
<1>2. CASE \E a \in Addresses :
             (\E op \in Ops : ActBegin(a, op)) \/ Acting(a) \/ NodeCallFails(a) \/ ChangeThrows(a) \/ ActCrash(a)
  BY <1>2, TypedAction, SeatsAction
<1>3. CASE \/ \E a \in Addresses : Reconcile(a) \/ DateCome(a) \/ ClaimGoesStale(a) \/ Claim(a) \/ NotConfigured(a)
           \/ Deleting \/ AttemptFails \/ NodeDeleteLost \/ JobCrash
           \/ SetHoldDays
           \/ \E s \in Seats : ReservationExpires(s) \/ HoldEnds(s)
  BY <1>3, TypedRest, SeatsRest
<1>4. CASE UNCHANGED vars
  <2>1. Typed'
    BY <1>4 DEF vars, mailboxes, ledger, processes, Typed
  <2>2. NoNewTaker
    BY <1>4, OneTaker DEF NoNewTaker, vars, processes
  <2>. QED
    BY <1>4, <2>1, <2>2, LedgerUntouched DEF vars
<1>. QED
  BY <1>1, <1>2, <1>3, <1>4 DEF Next

\* At the start every mailbox has its seat, within those bought, and nobody is taking one.
LEMMA SeatsInit ==
  ASSUME Init
  PROVE  Typed /\ SeatsInv
<1>1. Cardinality(Born) \in Nat /\ Cardinality(Born) <= Purchased /\ Purchased \in Nat
  BY SupplyAssumption, FS_Subset, FS_CardinalityType
<1>2. PICK n \in Bijection(Born, 1..Cardinality(Born)) :
        /\ row = [a \in Addresses |-> IF a \in Born THEN [NoRow EXCEPT !.id = n[a]] ELSE NoRow]
        /\ seat = [s \in Seats |-> IF s \in 1..Cardinality(Born) THEN [of |-> s, is |-> "live"]
                                                                ELSE [of |-> 0, is |-> "free"]]
  BY DEF Init
<1>3. n \in [Born -> 1..Cardinality(Born)]
  BY DEF Bijection, Injection, Surjection
<1>4. row \in [Addresses -> Rows]
  <2>1. ASSUME NEW i \in Nat PROVE [NoRow EXCEPT !.id = i] \in Rows
    BY DEF NoRow, Rows
  <2>2. ASSUME NEW a \in Born PROVE n[a] \in Nat
    BY <1>1, <1>3
  <2>. QED
    BY <1>2, <2>1, <2>2, Nothings
<1>5. seat \in [Seats -> Entries]
  BY <1>1, <1>2, SeatNumbers DEF Entries
<1>6. Typed
  BY <1>1, <1>4, <1>5, Nothings DEF Init, Typed
<1>7. \A s \in Seats : SeatSane(s)
  BY <1>1, <1>2 DEF Init, SeatSane, Used
<1>. QED
  BY <1>6, <1>7 DEF Init, SeatsInv, TakersHold, NotCreating, Idle

\* The seats of mailboxes, holds and reservations are among those bought.
LEMMA UsedFit ==
  ASSUME Typed, SeatsInv
  PROVE  SeatsWithinPurchase
<1>1. {s \in Seats : Unreleased(s) \/ Held(s)} \subseteq 1..Purchased
  BY SeatNumbers DEF SeatsInv, SeatSane, Used, Unreleased, Held, Seats
<1>. QED
  BY <1>1, SeatNumbers, FS_Subset DEF SeatsWithinPurchase

\* Seats bought are never overbooked, whatever creations, activations, cancels, expiries and
\* longer holds come together (lockSeats, seatCounts, freeSeatNumber of eopSeats.js).
THEOREM SeatsFit == Safety => []SeatsWithinPurchase
<1>1. Init => Typed /\ SeatsInv
  BY SeatsInit
<1>2. Typed /\ SeatsInv /\ [Next]_vars => Typed' /\ SeatsInv'
  BY SeatsStep
<1>3. Typed /\ SeatsInv => SeatsWithinPurchase
  BY UsedFit
<1>. QED
  BY <1>1, <1>2, <1>3, PTL DEF Safety

-------------------------------------------------------------------------------
(* Rows *)

\* A step that leaves every other address alone.
Alone(a) ==
  \A b \in Addresses : b # a =>
    /\ row'[b] = row[b] /\ create'[b] = create[b] /\ act'[b] = act[b]
    /\ b \in onNode' <=> b \in onNode
    /\ b \in filter' <=> b \in filter

\* What is known of an address stays known while others are at work.
LEMMA OthersSane ==
  ASSUME Typed, Typed', RowsInv, NEW a \in Addresses, Alone(a), ids <= ids', released \subseteq released',
         Sane(a)', JobSane'
  PROVE  RowsInv'
<1>1. ASSUME NEW b \in Addresses, b # a PROVE Sane(b)'
  <2>1. Sane(b)
    BY DEF RowsInv
  <2>2. /\ row'[b] = row[b] /\ create'[b] = create[b] /\ act'[b] = act[b]
        /\ b \in onNode' <=> b \in onNode
        /\ b \in filter' <=> b \in filter
    BY <1>1 DEF Alone
  <2>3. row[b].id \in Nat /\ act[b].id \in Nat /\ ids \in Nat /\ ids' \in Nat
    BY DEF Typed, Rows, Actions
  <2>4. CreationSane(b)'
    BY <2>1, <2>2 DEF Sane, CreationSane, Exists
  <2>5. RowSane(b)'
    BY <2>1, <2>2, <2>3 DEF Sane, RowSane, Exists
  <2>6. ActSane(b)'
    BY <2>1, <2>2, <2>3 DEF Sane, ActSane, SameRow
  <2>7. FilterSane(b)'
    BY <2>1, <2>2 DEF Sane, FilterSane, SameRow
  <2>. QED
    BY <2>4, <2>5, <2>6, <2>7 DEF Sane
<1>. QED
  BY <1>1 DEF RowsInv

\* The job's knowledge stays while nobody takes its row away.
LEMMA JobKept ==
  ASSUME RowsInv, job' = job,
         job.at # "idle" => /\ row'[job.on].id = row[job.on].id /\ row'[job.on].pending
                            /\ row'[job.on].due /\ row'[job.on].claimed
  PROVE  JobSane'
  BY DEF RowsInv, JobSane

\* Every step of a creation keeps the rows in order.
LEMMA RowsCreation ==
  ASSUME Typed, Typed', RowsInv, NEW a \in Addresses, CreateBegin(a) \/ Creating(a) \/ CreateCrash(a)
  PROVE  RowsInv'
<1>. USE DEF Typed
<1>0. Sane(a) /\ JobSane /\ row[a].id \in Nat /\ ids \in Nat
  BY DEF RowsInv, Rows
<1>1. ASSUME UNCHANGED <<row, act, job, ids, released>>, Alone(a), CreationSane(a)', ~Exists(a),
             \/ UNCHANGED <<onNode, filter>>
             \/ (a \in filter' <=> a \in filter)
             \/ (a \notin onNode')
      PROVE  RowsInv'
  <2>1. RowSane(a)' /\ ActSane(a)'
    BY <1>0, <1>1 DEF Sane, RowSane, ActSane, Exists, SameRow
  <2>2. FilterSane(a)'
    BY <1>0, <1>1 DEF Sane, FilterSane, ActSane, Exists, SameRow
  <2>3. JobSane'
    BY <1>1, JobKept DEF RowsInv, JobSane
  <2>. QED
    BY <1>1, <2>1, <2>2, <2>3, OthersSane DEF Sane
<1>2. CASE CreateBegin(a) \/ CreateReserve(a)
  <2>1. create'[a].at # "provisioned"
    <3>1. CASE CreateBegin(a)
      BY <3>1 DEF CreateBegin, Creations
    <3>2. CASE CreateReserve(a)
      <4>1. PICK s : create' = [create EXCEPT ![a] = [@ EXCEPT !.at = "reserved", !.seat = s]]
        BY <3>2 DEF CreateReserve
      <4>. QED
        BY <4>1 DEF Creations
    <3>. QED
      BY <1>2, <3>1, <3>2
  <2>2. ~Exists(a)
    BY <1>0, <1>2 DEF CreateBegin, CreateReserve, Sane, CreationSane
  <2>3. Alone(a) /\ UNCHANGED <<row, act, job, ids, released, onNode, filter>>
    BY <1>2 DEF CreateBegin, CreateReserve, Alone, mailboxes
  <2>. QED
    BY <1>1, <2>1, <2>2, <2>3 DEF CreationSane, Exists
<1>3. CASE Provision(a)
  <2>1. ~Exists(a)
    BY <1>0, <1>3 DEF Provision, Sane, CreationSane
  <2>2. Alone(a) /\ UNCHANGED <<row, act, job, ids, released, filter>> /\ a \in onNode'
    BY <1>3 DEF Provision, Alone
  <2>. QED
    BY <1>1, <2>1, <2>2 DEF CreationSane, Exists
<1>4. CASE ProvisionFails(a) \/ InsertFails(a)
  <2>1. ~Exists(a) /\ create'[a].at = "idle"
    BY <1>0, <1>4 DEF ProvisionFails, InsertFails, Sane, CreationSane, NotCreating
  <2>2. Alone(a) /\ UNCHANGED <<row, act, job, ids, released>>
    BY <1>4 DEF ProvisionFails, InsertFails, UndoProvision, Alone
  <2>3. (a \in filter' <=> a \in filter) \/ (a \notin onNode')
    BY <1>4 DEF ProvisionFails, InsertFails, UndoProvision
  <2>. QED
    BY <1>1, <2>1, <2>2, <2>3 DEF CreationSane
<1>5. CASE Insert(a)
  <2>1. ~Exists(a) /\ a \in onNode
    BY <1>0, <1>5 DEF Insert, Sane, CreationSane
  <2>2. /\ row' = [row EXCEPT ![a] = [NoRow EXCEPT !.id = ids + 1]] /\ ids' = ids + 1
        /\ create' = [create EXCEPT ![a] = NotCreating] /\ UNCHANGED <<onNode, filter, act, job, released>>
    BY <1>5 DEF Insert
  <2>3. /\ row'[a].id = ids + 1 /\ ~row'[a].pending /\ ~row'[a].claimed /\ ~row'[a].off /\ create'[a].at = "idle"
    BY <2>2 DEF NoRow, NotCreating
  <2>4. CreationSane(a)' /\ RowSane(a)'
    BY <1>0, <2>1, <2>2, <2>3 DEF CreationSane, RowSane, Exists
  <2>5. act[a].at # "idle" => ~SameRow(a)' /\ act[a].op = "cancel" /\ act[a].at # "taking"
    <3>1. act[a].id \in Nat
      BY DEF Actions
    <3>. QED
      BY <1>0, <2>1, <2>2, <2>3, <3>1 DEF Sane, ActSane, SameRow, Exists
  <2>6. ActSane(a)'
    BY <1>0, <2>2, <2>5 DEF Sane, ActSane, SameRow, Closing, Actions
  <2>7. FilterSane(a)'
    BY <2>2, <2>5 DEF FilterSane
  <2>8. JobSane'
    BY <1>0, <2>1, <2>2, JobKept DEF JobSane, Exists
  <2>9. Alone(a)
    BY <2>2 DEF Alone
  <2>. QED
    BY <1>0, <2>2, <2>4, <2>6, <2>7, <2>8, <2>9, OthersSane DEF Sane
<1>6. CASE CreateCrash(a)
  <2>1. ~Exists(a)
    BY <1>0, <1>6 DEF CreateCrash, Sane, CreationSane
  <2>2. Alone(a) /\ UNCHANGED <<row, act, job, ids, released, onNode, filter>> /\ create'[a].at = "idle"
    BY <1>6 DEF CreateCrash, Alone, mailboxes, NotCreating
  <2>. QED
    BY <1>1, <2>1, <2>2 DEF CreationSane
<1>. QED
  BY <1>2, <1>3, <1>4, <1>5, <1>6 DEF Creating

\* Every step of an action on a mailbox keeps the rows in order.
LEMMA RowsAction ==
  ASSUME Typed, Typed', RowsInv, NEW a \in Addresses,
         (\E op \in Ops : ActBegin(a, op)) \/ Acting(a) \/ NodeCallFails(a) \/ ChangeThrows(a) \/ ActCrash(a)
  PROVE  RowsInv'
<1>. USE DEF Typed
<1>0. Sane(a) /\ JobSane /\ row[a].id \in Nat /\ act[a].id \in Nat /\ ids \in Nat
  BY DEF RowsInv, Rows, Actions
<1>1. ASSUME UNCHANGED <<row, onNode, create, job, ids, released>>, Alone(a), ActSane(a)', FilterSane(a)'
      PROVE  RowsInv'
  <2>1. CreationSane(a)' /\ RowSane(a)'
    BY <1>0, <1>1 DEF Sane, CreationSane, RowSane, Exists
  <2>2. JobSane'
    BY <1>1, JobKept DEF RowsInv, JobSane
  <2>. QED
    BY <1>0, <1>1, <2>1, <2>2, OthersSane DEF Sane
<1>2. ASSUME UNCHANGED <<row, onNode, create, job, ids, released>>, Alone(a), act'[a].at = "idle"
      PROVE  RowsInv'
  BY <1>1, <1>2 DEF ActSane, FilterSane
<1>3. ASSUME NEW op \in Ops, ActBegin(a, op) PROVE RowsInv'
  <2>1. /\ Exists(a) /\ MayBegin(a, op) /\ UNCHANGED <<row, onNode, filter, create, job, ids, released>>
        /\ act' = [act EXCEPT ![a] = [Idle EXCEPT !.at = IF op \in Closing \/ Opens(a, op) THEN "node" ELSE "change",
                                                  !.op = op, !.id = row[a].id,
                                                  !.undoes = IF op \in Closing THEN Working(a) ELSE Opens(a, op)]]
    BY <1>3 DEF ActBegin, mailboxes
  <2>2. /\ act'[a].at = IF op \in Closing \/ Opens(a, op) THEN "node" ELSE "change"
        /\ act'[a].op = op /\ act'[a].id = row[a].id
        /\ op \notin Closing => act'[a].undoes = Opens(a, op)
    BY <2>1 DEF Idle
  <2>3. Alone(a)
    BY <2>1 DEF Alone
  <2>4. act'[a].at # "taking" /\ SameRow(a)'
    BY <2>1, <2>2 DEF SameRow
  <2>5. CASE op \in Closing
    <3>1. ActSane(a)'
      BY <1>0, <2>1, <2>2, <2>4, <2>5 DEF ActSane, Sane, RowSane, Exists, MayBegin, Closing
    <3>2. FilterSane(a)'
      BY <2>2, <2>5 DEF FilterSane
    <3>. QED
      BY <1>1, <2>1, <2>3, <3>1, <3>2
  <2>6. CASE op = "activate"
    <3>1. Opens(a, op)
      BY <2>6 DEF Opens, Closing
    <3>2. ActSane(a)'
      BY <1>0, <2>1, <2>2, <2>4, <2>6, <3>1 DEF ActSane, Sane, RowSane, Exists, MayBegin, Closing
    <3>3. FilterSane(a)'
      BY <2>2, <3>1 DEF FilterSane
    <3>. QED
      BY <1>1, <2>1, <2>3, <3>2, <3>3
  <2>7. CASE op = "cancel"
    <3>1. Opens(a, op) <=> ~row[a].off
      BY <2>7 DEF Opens, Closing
    <3>2. act'[a].undoes <=> ~row[a].off
      BY <2>2, <2>7, <3>1 DEF Closing
    <3>3. ActSane(a)'
      BY <1>0, <2>1, <2>2, <2>4, <2>7, <3>1, <3>2 DEF ActSane, Sane, RowSane, Exists, MayBegin, Closing
    <3>4. FilterSane(a)'
      BY <2>2, <2>7, <3>1, <3>2 DEF FilterSane, Closing
    <3>. QED
      BY <1>1, <2>1, <2>3, <3>3, <3>4
  <2>. QED
    BY <2>5, <2>6, <2>7 DEF Ops, Closing
<1>4. CASE NodeCall(a)
  <2>1. /\ act[a].at = "node" /\ NodeEffect(a) /\ act' = [act EXCEPT ![a].at = "change"]
        /\ UNCHANGED <<row, onNode, create, job, ids, released>>
    BY <1>4 DEF NodeCall
  <2>2. /\ act'[a].at = "change" /\ act'[a].op = act[a].op /\ act'[a].id = act[a].id
        /\ act'[a].undoes = act[a].undoes
    BY <2>1 DEF Actions
  <2>3. Alone(a)
    BY <2>1 DEF Alone, NodeEffect, CloseDelivery, OpenDelivery
  <2>4. ActSane(a)'
    BY <1>0, <2>1, <2>2 DEF ActSane, Sane, SameRow
  <2>5. FilterSane(a)'
    BY <2>1, <2>2 DEF FilterSane, NodeEffect, CloseDelivery, OpenDelivery
  <2>. QED
    BY <1>1, <2>1, <2>3, <2>4, <2>5
<1>5. CASE NodeCallFails(a) \/ Undo(a) \/ ActCrash(a)
  <2>1. act'[a].at = "idle" /\ UNCHANGED <<row, onNode, create, job, ids, released>>
    BY <1>5 DEF NodeCallFails, Undo, ActCrash, Idle, mailboxes
  <2>2. Alone(a)
    BY <1>5 DEF NodeCallFails, Undo, ActCrash, Alone, NodeEffect, PutBack, CloseDelivery, OpenDelivery, mailboxes
  <2>. QED
    BY <1>2, <2>1, <2>2
<1>6. CASE Close(a)
  <2>1. /\ act[a].at = "change" /\ act[a].op \in Closing /\ SameRow(a) /\ row' = [row EXCEPT ![a] = Closed(a)]
        /\ act' = [act EXCEPT ![a] = Idle] /\ UNCHANGED <<onNode, filter, create, job, ids, released>>
    BY <1>6 DEF Close
  <2>2. Exists(a) /\ ~row[a].pending /\ ~row[a].claimed
    BY <1>0, <2>1 DEF Sane, ActSane, RowSane, SameRow, Exists
  <2>3. row'[a].id = row[a].id /\ ~row'[a].claimed
    BY <2>1, <2>2 DEF Closed, Rows
  <2>4. act'[a].at = "idle" /\ Alone(a)
    BY <2>1 DEF Idle, Alone
  <2>5. CreationSane(a)' /\ RowSane(a)' /\ ActSane(a)' /\ FilterSane(a)'
    BY <1>0, <2>1, <2>2, <2>3, <2>4 DEF Sane, CreationSane, RowSane, ActSane, FilterSane, Exists
  <2>6. JobSane'
    BY <1>0, <2>1, <2>2, JobKept DEF JobSane
  <2>. QED
    BY <1>0, <2>1, <2>4, <2>5, <2>6, OthersSane DEF Sane
<1>7. CASE TakeSeat(a)
  <2>1. /\ act[a].at = "change" /\ act[a].op \notin Closing /\ act[a].undoes /\ ~Refused(a)
        /\ UNCHANGED <<row, onNode, filter, create, job, ids, released>>
    BY <1>7 DEF TakeSeat, mailboxes
  <2>. DEFINE new == act'[a]
  <2>2. /\ new.at = "taking" /\ new.op = act[a].op /\ new.id = act[a].id /\ new.undoes = act[a].undoes
        /\ Alone(a)
    <3>1. \/ act' = [act EXCEPT ![a].at = "taking"]
          \/ \E s \in Seats : act' = [act EXCEPT ![a] = [@ EXCEPT !.at = "taking", !.own = s]]
      BY <1>7 DEF TakeSeat, Own
    <3>2. \/ new = [act[a] EXCEPT !.at = "taking"]
          \/ \E s \in Seats : new = [act[a] EXCEPT !.at = "taking", !.own = s]
      BY <3>1
    <3>3. \A b \in Addresses : b # a => act'[b] = act[b]
      BY <3>1
    <3>4. Alone(a)
      BY <2>1, <3>3 DEF Alone
    <3>. HIDE DEF new
    <3>. QED
      BY <3>2, <3>4 DEF Actions
  <2>3. act[a].op = "cancel" => SameRow(a) /\ ~row[a].claimed
    BY <2>1 DEF Refused, CancelRefused
  <2>4. ActSane(a)'
    BY <1>0, <2>1, <2>2, <2>3 DEF ActSane, Sane, SameRow
  <2>5. FilterSane(a)'
    BY <1>0, <2>1, <2>2 DEF FilterSane, Sane, SameRow
  <2>. QED
    BY <1>1, <2>1, <2>2, <2>4, <2>5
<1>8. CASE Open(a) \/ CancelClosed(a)
  <2>1. /\ act[a].at # "idle" /\ SameRow(a) /\ row' = [row EXCEPT ![a] = Opened(a)] /\ act' = [act EXCEPT ![a] = Idle]
        /\ UNCHANGED <<onNode, filter, create, job, ids, released>>
        /\ IF act[a].op = "cancel" THEN ~row[a].claimed ELSE ~row[a].pending
    BY <1>0, <1>8 DEF Open, CancelClosed, Sane, ActSane, Refused, CancelRefused, Ops, Closing
  <2>2. Exists(a) /\ (row[a].claimed => row[a].pending)
    BY <1>0, <2>1 DEF Sane, ActSane, RowSane, SameRow, Exists
  <2>3. row'[a].id = row[a].id /\ ~row'[a].claimed /\ ~row[a].claimed
    BY <2>1, <2>2 DEF Opened, Rows
  <2>4. act'[a].at = "idle" /\ Alone(a)
    BY <2>1 DEF Idle, Alone
  <2>5. CreationSane(a)' /\ RowSane(a)' /\ ActSane(a)' /\ FilterSane(a)'
    BY <1>0, <2>1, <2>2, <2>3, <2>4 DEF Sane, CreationSane, RowSane, ActSane, FilterSane, Exists
  <2>6. JobSane'
    BY <1>0, <2>1, <2>3, JobKept DEF JobSane
  <2>. QED
    BY <1>0, <2>1, <2>4, <2>5, <2>6, OthersSane DEF Sane
<1>9. CASE ChangeRefused(a) \/ ChangeThrows(a)
  <2>1. /\ act[a].at # "idle" /\ act' = [act EXCEPT ![a].at = "undo"]
        /\ UNCHANGED <<row, onNode, filter, create, job, ids, released>>
    BY <1>9 DEF ChangeRefused, ChangeThrows, Turned, mailboxes
  <2>2. /\ act'[a].at = "undo" /\ act'[a].op = act[a].op /\ act'[a].id = act[a].id
        /\ act'[a].undoes = act[a].undoes /\ Alone(a)
    BY <2>1 DEF Actions, Alone
  <2>3. ActSane(a)' /\ FilterSane(a)'
    BY <1>0, <2>1, <2>2 DEF ActSane, FilterSane, Sane, SameRow
  <2>. QED
    BY <1>1, <2>1, <2>2, <2>3
<1>. QED
  BY <1>3, <1>4, <1>5, <1>6, <1>7, <1>8, <1>9 DEF Acting

\* Every step of the days and of the job on one mailbox keeps the rows in order.
LEMMA RowsDays ==
  ASSUME Typed, Typed', RowsInv, NEW a \in Addresses,
         Reconcile(a) \/ DateCome(a) \/ ClaimGoesStale(a) \/ Claim(a) \/ NotConfigured(a)
  PROVE  RowsInv'
<1>. USE DEF Typed
<1>0. Sane(a) /\ JobSane /\ row[a].id \in Nat /\ act[a].id \in Nat /\ ids \in Nat
  BY DEF RowsInv, Rows, Actions
<1>1. CASE Reconcile(a)
  <2>1. act[a].at = "idle" /\ Alone(a) /\ UNCHANGED <<row, onNode, create, act, job, ids, released>>
    BY <1>1 DEF Reconcile, MailboxUnlocked, Alone, processes
  <2>2. Sane(a)'
    BY <1>0, <2>1 DEF Sane, CreationSane, RowSane, ActSane, FilterSane, Exists
  <2>3. JobSane'
    BY <1>0, <2>1, JobKept DEF JobSane
  <2>. QED
    BY <1>0, <2>1, <2>2, <2>3, OthersSane
<1>2. CASE DateCome(a) \/ ClaimGoesStale(a)
  <2>1. /\ row' = [row EXCEPT ![a].due = TRUE] \/ row' = [row EXCEPT ![a].stale = TRUE]
        /\ Alone(a) /\ (row[a].pending \/ row[a].claimed)
        /\ UNCHANGED <<onNode, filter, create, act, job, ids, released>>
    BY <1>2 DEF DateCome, ClaimGoesStale, Alone, processes
  <2>2. /\ row'[a].id = row[a].id /\ row'[a].pending = row[a].pending /\ row'[a].claimed = row[a].claimed
        /\ row'[a].off = row[a].off /\ (row[a].due => row'[a].due)
    BY <2>1 DEF Rows
  <2>3. Exists(a)
    BY <1>0, <2>1 DEF Sane, RowSane, NoRow
  <2>4. Sane(a)'
    BY <1>0, <2>1, <2>2, <2>3 DEF Sane, CreationSane, RowSane, ActSane, FilterSane, SameRow, Exists
  <2>5. JobSane'
    BY <1>0, <2>1, <2>2, JobKept DEF JobSane
  <2>. QED
    BY <1>0, <2>1, <2>4, <2>5, OthersSane
<1>3. CASE Claim(a)
  <2>1. /\ row' = [row EXCEPT ![a] = [@ EXCEPT !.claimed = TRUE, !.stale = FALSE]] /\ Claimable(a)
        /\ job' = [at |-> "claimed", on |-> a, id |-> row[a].id]
        /\ UNCHANGED <<onNode, filter, create, act, ids, released>>
    BY <1>3 DEF Claim
  <2>2. /\ row'[a].id = row[a].id /\ row'[a].pending = row[a].pending /\ row'[a].claimed
        /\ row'[a].off = row[a].off /\ row'[a].due = row[a].due
    BY <2>1 DEF Rows
  <2>3. Exists(a) /\ row[a].pending /\ row[a].due
    BY <1>0, <2>1 DEF Claimable, Sane, RowSane, NoRow
  <2>4. act[a].at # "taking"
    BY <1>0, <2>1, <2>3 DEF Claimable, RowLocked, Sane, ActSane, Ops, Closing
  <2>5. Sane(a)'
    BY <1>0, <2>1, <2>2, <2>3, <2>4 DEF Sane, CreationSane, RowSane, ActSane, FilterSane, SameRow, Exists
  <2>6. JobSane'
    BY <2>1, <2>2, <2>3 DEF JobSane, Exists
  <2>7. Alone(a)
    BY <2>1 DEF Alone
  <2>. QED
    BY <1>0, <2>1, <2>5, <2>6, <2>7, OthersSane
<1>4. CASE NotConfigured(a)
  <2>1. /\ row' = [row EXCEPT ![a] = [@ EXCEPT !.claimed = FALSE, !.stale = FALSE]] /\ Claimable(a)
        /\ job = NoRun /\ released' = released \cup {row[a].id}
        /\ UNCHANGED <<onNode, filter, create, act, job, ids>>
    BY <1>4 DEF NotConfigured, processes
  <2>2. /\ row'[a].id = row[a].id /\ row'[a].pending = row[a].pending /\ ~row'[a].claimed
        /\ row'[a].off = row[a].off
    BY <2>1 DEF Rows
  <2>3. Exists(a)
    BY <1>0, <2>1 DEF Claimable, Sane, RowSane, NoRow
  <2>4. Sane(a)'
    BY <1>0, <2>1, <2>2, <2>3 DEF Sane, CreationSane, RowSane, ActSane, FilterSane, SameRow, Exists
  <2>5. JobSane'
    BY <2>1, JobKept DEF NoRun
  <2>6. Alone(a)
    BY <2>1 DEF Alone
  <2>. QED
    BY <1>0, <2>1, <2>4, <2>5, <2>6, OthersSane
<1>. QED
  BY <1>1, <1>2, <1>3, <1>4

\* Every step of a run of the job keeps the rows in order.
LEMMA RowsJob ==
  ASSUME Typed, Typed', RowsInv, Deleting \/ AttemptFails \/ NodeDeleteLost \/ JobCrash
  PROVE  RowsInv'
<1>. USE DEF Typed
<1>a. job.at # "idle"
  BY DEF Deleting, BeforeSteps, NodeDeletes, RemoveRow, AttemptFails, NodeDeleteLost, JobCrash, RowsInv, JobSane
<1>b. PICK a \in Addresses : a = job.on
  BY <1>a DEF RowsInv, JobSane
<1>0. job.at # "idle" /\ Sane(a) /\ row[a].id \in Nat /\ act[a].id \in Nat /\ ids \in Nat
  BY <1>a DEF RowsInv, Rows, Actions
<1>1. /\ job.id # 0 /\ row[a].id = job.id /\ row[a].pending /\ row[a].due /\ row[a].claimed
      /\ create[a].at = "idle" /\ act[a].at # "taking" /\ (act[a].at # "idle" => act[a].op = "cancel")
  <2>1. job.id # 0 /\ row[a].id = job.id /\ row[a].pending /\ row[a].due /\ row[a].claimed
    BY <1>0, <1>b DEF RowsInv, JobSane
  <2>. QED
    BY <1>0, <2>1 DEF Sane, CreationSane, ActSane, Exists, Ops, Closing
<1>2. CASE BeforeSteps \/ NodeDeletes
  <2>1. /\ UNCHANGED <<row, create, act, ids, released>>
        /\ (a \in filter' <=> a \in filter) \/ a \notin onNode'
        /\ job'.at \in {"deleting", "deleted"} /\ job'.on = job.on /\ job'.id = job.id
    BY <1>b, <1>2 DEF BeforeSteps, NodeDeletes, JobRuns, mailboxes
  <2>2. Alone(a) /\ (a \in onNode' => a \in onNode)
    BY <1>b, <1>2 DEF BeforeSteps, NodeDeletes, Alone, mailboxes
  <2>3. Sane(a)'
    BY <1>0, <1>1, <2>1, <2>2 DEF Sane, CreationSane, RowSane, ActSane, FilterSane, SameRow, Exists
  <2>4. JobSane'
    BY <1>b, <1>0, <1>1, <2>1 DEF JobSane
  <2>. QED
    BY <1>0, <2>1, <2>2, <2>3, <2>4, OthersSane
<1>3. CASE AttemptFails \/ NodeDeleteLost
  <2>1. RecordFailure /\ UNCHANGED <<create, act, ids>>
    BY <1>3 DEF AttemptFails, NodeDeleteLost
  <2>2. row' = [row EXCEPT ![a].claimed = FALSE] /\ released' = released \cup {job.id} /\ job' = NoRun
    BY <1>b, <1>1, <2>1 DEF RecordFailure, OwnClaim
  <2>3. Alone(a) /\ ((a \in filter' <=> a \in filter) \/ a \notin onNode') /\ (a \in onNode' => a \in onNode)
    BY <1>b, <1>3, <2>1, <2>2 DEF AttemptFails, NodeDeleteLost, Alone
  <2>4. /\ row'[a].id = row[a].id /\ row'[a].pending /\ ~row'[a].claimed /\ row'[a].off = row[a].off
    BY <1>0, <1>1, <2>2 DEF Rows
  <2>5. Sane(a)'
    BY <1>0, <1>1, <2>1, <2>2, <2>3, <2>4 DEF Sane, CreationSane, RowSane, ActSane, FilterSane, SameRow, Exists
  <2>6. JobSane'
    BY <2>2 DEF JobSane, NoRun
  <2>. QED
    BY <1>0, <2>1, <2>2, <2>3, <2>5, <2>6, OthersSane
<1>4. CASE RemoveRow
  <2>1. row' = [row EXCEPT ![a] = NoRow] /\ job' = NoRun /\ UNCHANGED <<onNode, filter, create, act, ids, released>>
    BY <1>b, <1>1, <1>4 DEF RemoveRow, OwnClaim
  <2>2. Alone(a) /\ row'[a] = NoRow /\ ~Exists(a)'
    BY <1>0, <2>1 DEF Alone, Exists, NoRow
  <2>3. act[a].at # "idle" => ~SameRow(a)'
    BY <1>0, <2>1, <2>2 DEF Sane, ActSane, SameRow, NoRow
  <2>4. CreationSane(a)' /\ RowSane(a)'
    BY <1>0, <1>1, <2>1, <2>2 DEF CreationSane, RowSane, NoRow
  <2>5. ActSane(a)'
    BY <1>0, <1>1, <2>1, <2>3 DEF Sane, ActSane, SameRow, Closing
  <2>6. FilterSane(a)'
    BY <2>1, <2>3 DEF FilterSane
  <2>7. JobSane'
    BY <2>1 DEF JobSane, NoRun
  <2>. QED
    BY <1>0, <2>1, <2>2, <2>4, <2>5, <2>6, <2>7, OthersSane DEF Sane
<1>5. CASE JobCrash
  <2>1. job' = NoRun /\ UNCHANGED <<row, onNode, filter, create, act, ids, released>>
    BY <1>5 DEF JobCrash, mailboxes
  <2>2. Alone(a)
    BY <2>1 DEF Alone
  <2>3. Sane(a)'
    BY <1>0, <2>1 DEF Sane, CreationSane, RowSane, ActSane, FilterSane, SameRow, Exists
  <2>4. JobSane'
    BY <2>1 DEF JobSane, NoRun
  <2>. QED
    BY <1>0, <2>1, <2>2, <2>3, <2>4, OthersSane
<1>. QED
  BY <1>2, <1>3, <1>4, <1>5 DEF Deleting

\* A step on the seats alone keeps the rows in order.
LEMMA RowsQuiet ==
  ASSUME RowsInv, UNCHANGED <<mailboxes, processes, ids, released>>
  PROVE  RowsInv'
<1>1. JobSane'
  BY DEF RowsInv, JobSane, mailboxes, processes
<1>2. ASSUME NEW a \in Addresses PROVE Sane(a)'
  <2>1. Sane(a)
    BY DEF RowsInv
  <2>. QED
    BY <2>1 DEF Sane, CreationSane, RowSane, ActSane, FilterSane, SameRow, Exists, mailboxes, processes
<1>. QED
  BY <1>1, <1>2 DEF RowsInv

Inv == Typed /\ SeatsInv /\ RowsInv

\* Every step keeps the invariant.
LEMMA InvStep ==
  ASSUME Inv, [Next]_vars
  PROVE  Inv'
<1>1. Typed /\ Typed' /\ SeatsInv' /\ RowsInv
  BY SeatsStep DEF Inv
<1>2. CASE \E a \in Addresses : CreateBegin(a) \/ Creating(a) \/ CreateCrash(a)
  BY <1>1, <1>2, RowsCreation DEF Inv
<1>3. CASE \E a \in Addresses :
             (\E op \in Ops : ActBegin(a, op)) \/ Acting(a) \/ NodeCallFails(a) \/ ChangeThrows(a) \/ ActCrash(a)
  BY <1>1, <1>3, RowsAction DEF Inv
<1>4. CASE \E a \in Addresses : Reconcile(a) \/ DateCome(a) \/ ClaimGoesStale(a) \/ Claim(a) \/ NotConfigured(a)
  BY <1>1, <1>4, RowsDays DEF Inv
<1>5. CASE Deleting \/ AttemptFails \/ NodeDeleteLost \/ JobCrash
  BY <1>1, <1>5, RowsJob DEF Inv
<1>6. CASE SetHoldDays \/ (\E s \in Seats : ReservationExpires(s) \/ HoldEnds(s)) \/ UNCHANGED vars
  <2>1. UNCHANGED <<mailboxes, processes, ids, released>>
    BY <1>6 DEF SetHoldDays, ReservationExpires, HoldEnds, vars
  <2>. QED
    BY <1>1, <2>1, RowsQuiet DEF Inv
<1>. QED
  BY <1>2, <1>3, <1>4, <1>5, <1>6 DEF Next

\* The invariant holds at the start.
LEMMA InvInit ==
  ASSUME Init
  PROVE  Inv
<1>1. Typed /\ SeatsInv
  BY SeatsInit
<1>2. Cardinality(Born) \in Nat
  BY SupplyAssumption, FS_Subset, FS_CardinalityType
<1>3. PICK n \in Bijection(Born, 1..Cardinality(Born)) :
        row = [a \in Addresses |-> IF a \in Born THEN [NoRow EXCEPT !.id = n[a]] ELSE NoRow]
  BY DEF Init
<1>4. n \in [Born -> 1..Cardinality(Born)]
  BY DEF Bijection, Injection, Surjection
<1>5. ASSUME NEW a \in Addresses PROVE Sane(a)
  <2>1. create[a].at = "idle" /\ act[a].at = "idle" /\ onNode = Born /\ ids = Cardinality(Born)
    BY DEF Init, NotCreating, Idle
  <2>2. CASE a \in Born
    <3>1. n[a] \in 1..Cardinality(Born)
      BY <1>4, <2>2
    <3>2. row[a].id = n[a] /\ ~row[a].claimed
      BY <1>3, <2>2 DEF NoRow
    <3>. QED
      BY <1>2, <2>1, <2>2, <3>1, <3>2 DEF Sane, CreationSane, RowSane, ActSane, FilterSane, Exists
  <2>3. CASE a \notin Born
    <3>1. row[a] = NoRow /\ row[a].id = 0 /\ ~row[a].claimed
      BY <1>3, <2>3 DEF NoRow
    <3>. QED
      BY <1>2, <2>1, <3>1 DEF Sane, CreationSane, RowSane, ActSane, FilterSane, Exists
  <2>. QED
    BY <2>2, <2>3
<1>6. JobSane
  BY DEF Init, JobSane, NoRun
<1>. QED
  BY <1>1, <1>5, <1>6 DEF Inv, RowsInv

\* The invariant holds throughout: the seats are in order, and what creations, actions and the
\* job know of their rows is so.
THEOREM Invariance == Safety => []Inv
<1>. QED
  BY InvInit, InvStep, PTL DEF Safety

\* The job deletes a mailbox on the node only under its claim, on a row whose date has come, and
\* nothing else does but a creation that takes back what it made (deleteOnNode, undoProvision).
THEOREM OnlyTheJobDeletes == Safety => OnlyDueIsDeleted
<1>1. ASSUME Inv, [Next]_vars, NEW a \in Addresses, a \in onNode \ onNode'
      PROVE  ~Exists(a) \/ (row[a].pending /\ row[a].due /\ row[a].claimed)
  <2>1. CASE \E b \in Addresses : InsertFails(b)
    <3>1. PICK b \in Addresses : InsertFails(b)
      BY <2>1
    <3>2. a = b
      BY <1>1, <3>1 DEF InsertFails, UndoProvision
    <3>. QED
      BY <1>1, <3>1, <3>2 DEF InsertFails, Inv, RowsInv, Sane, CreationSane
  <2>2. CASE NodeDeletes \/ NodeDeleteLost
    BY <1>1, <2>2 DEF NodeDeletes, NodeDeleteLost, Inv, RowsInv, JobSane
  <2>3. CASE ~(\E b \in Addresses : InsertFails(b)) /\ ~(NodeDeletes \/ NodeDeleteLost)
    <3>1. onNode \subseteq onNode'
      BY <1>1, <2>3 DEF Next, Creating, Acting, Deleting, CreateBegin, CreateReserve, Provision, ProvisionFails, Insert,
         CreateCrash, ActBegin, NodeCall, NodeCallFails, Close, TakeSeat, Open, CancelClosed, ChangeRefused,
         ChangeThrows, Undo, ActCrash, Reconcile, DateCome, ClaimGoesStale, Claim, NotConfigured, BeforeSteps,
         RemoveRow, AttemptFails, JobCrash, SetHoldDays, ReservationExpires, HoldEnds, mailboxes, vars
    <3>. QED
      BY <1>1, <3>1
  <2>. QED
    BY <2>1, <2>2, <2>3
<1>2. Inv /\ [Next]_vars => [\A a \in Addresses : a \in onNode \ onNode' =>
                               \/ ~Exists(a)
                               \/ row[a].pending /\ row[a].due /\ row[a].claimed]_vars
  BY <1>1
<1>. QED
  BY <1>2, Invariance, PTL DEF Safety, OnlyDueIsDeleted

\* A cancel gives back a mailbox that is still on the node, but for a row whose claim a recorded
\* failure has released (cancelDeletion refuses a claimed row, stale claims included).
THEOREM CancelGivesBack == Safety => ClaimedIsNeverGivenBack
<1>1. ASSUME Inv, NEW a \in Addresses, Cancelled(a), row[a].id \notin released
      PROVE  a \in onNode
  <2>1. Sane(a) /\ act[a].op = "cancel" /\ act[a].at \in {"taking", "change"}
    BY <1>1 DEF Inv, RowsInv, Cancelled, Open, CancelClosed
  <2>2. SameRow(a) /\ ~row[a].claimed
    BY <1>1, <2>1 DEF Sane, ActSane, Cancelled, Open, CancelClosed, Refused, CancelRefused
  <2>3. Exists(a)
    BY <2>1, <2>2 DEF Sane, ActSane, SameRow, Exists
  <2>. QED
    BY <1>1, <2>1, <2>2, <2>3 DEF Sane, RowSane
<1>2. Inv /\ [Next]_vars =>
        [\A a \in Addresses : Cancelled(a) /\ row[a].id \notin released => a \in onNode]_vars
  BY <1>1
<1>. QED
  BY <1>2, Invariance, PTL DEF Safety, ClaimedIsNeverGivenBack

\* When a row becomes read-only its filter is on the node already, and off when it works again
\* (closeThen and openThen: the node first, then the change).
THEOREM FilterComesFirst == Safety => FilterBeforeRow
<1>1. ASSUME Inv, [Next]_vars, NEW a \in Addresses,
             Exists(a), row[a].id = row'[a].id, ReadOnly(a) # ReadOnly(a)', a \in onNode
      PROVE  (a \in filter) = ReadOnly(a)'
  <2>1. Typed /\ Sane(a) /\ row[a] \in Rows
    BY <1>1 DEF Inv, RowsInv, Typed
  <2>2. CASE Close(a)
    <3>1. row' = [row EXCEPT ![a] = Closed(a)] /\ act[a].op \in Closing /\ a \in filter
      BY <1>1, <2>1, <2>2 DEF Close, Sane, FilterSane
    <3>2. ReadOnly(a)'
      BY <2>1, <3>1 DEF Closed, ReadOnly, Rows, Typed
    <3>. QED
      BY <3>1, <3>2 DEF ReadOnly
  <2>3. CASE Open(a)
    <3>1. /\ row' = [row EXCEPT ![a] = Opened(a)] /\ a \notin filter
          /\ IF act[a].op = "cancel" THEN ~row[a].off ELSE ~row[a].pending
      BY <1>1, <2>1, <2>3 DEF Open, Sane, ActSane, FilterSane, Ops, Closing
    <3>2. ~ReadOnly(a)'
      BY <2>1, <3>1 DEF Opened, ReadOnly, Rows, Typed
    <3>. QED
      BY <3>1, <3>2 DEF ReadOnly
  <2>4. CASE CancelClosed(a)
    <3>1. row' = [row EXCEPT ![a] = Opened(a)] /\ act[a].op = "cancel" /\ row[a].off
      BY <2>1, <2>4 DEF CancelClosed, Refused, CancelRefused, Sane, ActSane
    <3>2. ReadOnly(a)' /\ ReadOnly(a)
      BY <2>1, <3>1 DEF Opened, ReadOnly, Rows, Typed
    <3>. QED
      BY <1>1, <3>2 DEF ReadOnly
  <2>5. CASE ~(Close(a) \/ Open(a) \/ CancelClosed(a))
    <3>. DEFINE Same == row'[a].pending = row[a].pending /\ row'[a].off = row[a].off
    <3>1. ASSUME NEW b \in Addresses, b # a, Close(b) \/ Open(b) \/ CancelClosed(b) PROVE Same
      <4>1. row' = [row EXCEPT ![b] = Closed(b)] \/ row' = [row EXCEPT ![b] = Opened(b)]
        BY <3>1 DEF Close, Open, CancelClosed
      <4>2. row'[a] = row[a]
        BY <2>1, <3>1, <4>1 DEF Typed
      <4>. QED
        BY <4>2
    <3>2. ASSUME NEW b \in Addresses, Insert(b) PROVE Same
      <4>1. create[b].at # "idle" /\ Sane(b)
        BY <1>1, <3>2 DEF Insert, Inv, RowsInv
      <4>2. b # a
        BY <1>1, <4>1 DEF Sane, CreationSane
      <4>. QED
        BY <3>2, <4>2 DEF Insert
    <3>3. ASSUME NEW b \in Addresses, DateCome(b) \/ ClaimGoesStale(b) \/ Claim(b) \/ NotConfigured(b) PROVE Same
      <4>1. CASE DateCome(b)
        BY <2>1, <4>1 DEF DateCome, Typed, Rows
      <4>2. CASE ClaimGoesStale(b)
        BY <2>1, <4>2 DEF ClaimGoesStale, Typed, Rows
      <4>3. CASE Claim(b)
        BY <2>1, <4>3 DEF Claim, Typed, Rows
      <4>4. CASE NotConfigured(b)
        BY <2>1, <4>4 DEF NotConfigured, Typed, Rows
      <4>. QED
        BY <3>3, <4>1, <4>2, <4>3, <4>4
    <3>4. ASSUME AttemptFails \/ NodeDeleteLost PROVE Same
      BY <2>1, <3>4 DEF AttemptFails, NodeDeleteLost, RecordFailure, Typed, Rows
    <3>5. ASSUME RemoveRow PROVE Same
      <4>1. row'[a] = NoRow \/ row'[a] = row[a]
        BY <3>5 DEF RemoveRow
      <4>2. NoRow.id = 0
        BY DEF NoRow
      <4>. QED
        BY <1>1, <4>1, <4>2 DEF Exists
    <3>6. ASSUME UNCHANGED row PROVE Same
      BY <3>6
    <3>7. \/ UNCHANGED row \/ RemoveRow \/ AttemptFails \/ NodeDeleteLost
          \/ \E b \in Addresses : \/ Insert(b) \/ Close(b) \/ Open(b) \/ CancelClosed(b)
                                  \/ DateCome(b) \/ ClaimGoesStale(b) \/ Claim(b) \/ NotConfigured(b)
      BY <1>1 DEF Next, Creating, Acting, Deleting, CreateBegin, CreateReserve, Provision, ProvisionFails, InsertFails,
         CreateCrash, ActBegin, NodeCall, NodeCallFails, TakeSeat, ChangeRefused, ChangeThrows, Undo, ActCrash,
         Reconcile, BeforeSteps, NodeDeletes, JobCrash, SetHoldDays, ReservationExpires, HoldEnds, mailboxes, vars
    <3>8. Same
      BY <2>5, <3>1, <3>2, <3>3, <3>4, <3>5, <3>6, <3>7
    <3>. QED
      BY <1>1, <3>8 DEF ReadOnly
  <2>. QED
    BY <2>2, <2>3, <2>4, <2>5
<1>2. Inv /\ [Next]_vars =>
        [\A a \in Addresses :
           Exists(a) /\ row[a].id = row'[a].id /\ ReadOnly(a) # ReadOnly(a)' /\ a \in onNode
             => ((a \in filter) = ReadOnly(a)')]_vars
  BY <1>1
<1>. QED
  BY <1>2, Invariance, PTL DEF Safety, FilterBeforeRow

===============================================================================
