---------------------------- MODULE MoveQueueProofs ----------------------------
(***************************************************************************)
(* A job that works on rows of the panel holds them in its own claim until *)
(* it ends, and a row with a server number has the letter it was made for  *)
(* under that number, unless the counts of a command whose answer was lost *)
(* could mislead: for every install (any letters, folders, asks, answers,  *)
(* faults, other clients and arrivals) and every bound on the attempts.    *)
(*                                                                         *)
(* The second needs that everything on the way, a row, a journaled move, a *)
(* queued job, a command out, a sync's list, carries one Message-ID (Names)*)
(* and, where the panel works out the new numbers itself, that the letters *)
(* found and the letters moved are paired in order (Paired, Searched).     *)
(***************************************************************************)
EXTENDS MoveQueue, FiniteSetTheorems, TLAPS

-------------------------------------------------------------------------------
(* Numbers *)

\* A set of natural numbers that is not empty has a least one.
LEMMA LeastNumber ==
  ASSUME NEW S \in SUBSET Nat, S # {}
  PROVE  Min(S) \in S /\ \A n \in S : Min(S) <= n
<1>. DEFINE Upto == {0..m : m \in S}
            R == StrictSubsetOrdering(Nat)
            F == FiniteSubsetsOf(Nat)
<1>1. Upto \subseteq F /\ Upto # {}
  <2>1. ASSUME NEW m \in S PROVE 0..m \in F
    BY FS_Interval DEF FiniteSubsetsOf
  <2>. QED
    BY <2>1
<1>2. PICK U \in Upto : \A V \in Upto : ~(<<V, U>> \in R)
  <2>1. IsWellFoundedOn(R, F)
    BY FS_StrictSubsetOrderingWellFounded
  <2>. HIDE DEF Upto, R, F
  <2>. QED
    BY <1>1, <2>1, WFMin
<1>3. PICK m \in S : U = 0..m
  BY <1>2
<1>4. ASSUME NEW n \in S PROVE m <= n
  <2>1. ~(<<0..n, 0..m>> \in R)
    BY <1>2, <1>3
  <2>2. CASE n < m
    <3>1. 0..n \subseteq 0..m /\ m \in 0..m /\ m \notin 0..n /\ 0..n \subseteq Nat /\ 0..m \subseteq Nat
      BY <2>2
    <3>. QED
      BY <2>1, <3>1 DEF StrictSubsetOrdering
  <2>. QED
    BY <2>2
<1>. QED
  BY <1>3, <1>4 DEF Min

\* A set of natural numbers none of which is beyond n has a greatest one, unless it is empty.
LEMMA GreatestNumber ==
  ASSUME NEW S \in SUBSET Nat, S # {}, NEW n \in Nat, \A x \in S : x <= n
  PROVE  Max(S) \in S
<1>. DEFINE D == {n - x : x \in S}
<1>1. D \in SUBSET Nat /\ D # {}
  <2>1. \A x \in S : x \in Nat /\ n - x \in Nat
    OBVIOUS
  <2>. QED
    BY <2>1
<1>2. PICK x \in S : Min(D) = n - x
  BY <1>1, LeastNumber
<1>3. ASSUME NEW y \in S PROVE x >= y
  <2>1. n - y \in D
    OBVIOUS
  <2>. QED
    BY <1>1, <1>2, <2>1, LeastNumber
<1>. QED
  BY <1>3 DEF Max

\* A rank is a number below the count.
LEMMA RankBelow ==
  ASSUME NEW S \in SUBSET Nat, IsFiniteSet(S), NEW x \in S
  PROVE  Rank(x, S) \in Nat /\ Rank(x, S) < Cardinality(S)
<1>. DEFINE B == {y \in S : y < x}
<1>1. IsFiniteSet(B) /\ Cardinality(B) <= Cardinality(S) /\ (Cardinality(S) = Cardinality(B) => S = B)
  BY FS_Subset
<1>2. x \notin B
  OBVIOUS
<1>3. Cardinality(B) \in Nat /\ Cardinality(S) \in Nat
  BY <1>1, FS_CardinalityType
<1>. QED
  BY <1>1, <1>2, <1>3 DEF Rank

\* Ranks are in the order of the numbers.
LEMMA RankOrder ==
  ASSUME NEW S \in SUBSET Nat, IsFiniteSet(S), NEW x \in S, NEW y \in S, x < y
  PROVE  Rank(x, S) < Rank(y, S)
<1>. DEFINE B == {z \in S : z < y}
            A == {z \in S : z < x}
<1>1. IsFiniteSet(B) /\ B \in SUBSET Nat
  BY FS_Subset
<1>2. x \in B /\ A = {z \in B : z < x}
  <2>1. x \in Nat /\ y \in Nat
    OBVIOUS
  <2>2. \A z \in S : z \in Nat /\ (z < x => z < y)
    OBVIOUS
  <2>. QED
    BY <2>1, <2>2
<1>3. Rank(x, B) < Cardinality(B)
  <2>. HIDE DEF B
  <2>. QED
    BY <1>1, <1>2, RankBelow
<1>. QED
  BY <1>2, <1>3 DEF Rank

\* Two numbers of one rank are one.
LEMMA RankOnce ==
  ASSUME NEW S \in SUBSET Nat, IsFiniteSet(S), NEW x \in S, NEW y \in S, Rank(x, S) = Rank(y, S)
  PROVE  x = y
<1>1. Rank(x, S) \in Nat /\ Rank(y, S) \in Nat
  BY RankBelow
<1>2. x < y \/ y < x \/ x = y
  OBVIOUS
<1>. QED
  BY <1>1, <1>2, RankOrder

\* Every number below the count is a rank.
LEMMA RankOnto ==
  ASSUME NEW S \in SUBSET Nat, IsFiniteSet(S), NEW n \in Nat, n < Cardinality(S)
  PROVE  \E x \in S : Rank(x, S) = n
<1>1. Cardinality(S) \in Nat
  BY FS_CardinalityType
<1>2. PICK T : T = 0..(Cardinality(S) - 1)
  OBVIOUS
<1>3. IsFiniteSet(T) /\ Cardinality(T) = Cardinality(S)
  BY <1>1, <1>2, FS_Interval
<1>. DEFINE f == [x \in S |-> Rank(x, S)]
<1>4. \A x \in S : Rank(x, S) \in T
  BY <1>1, <1>2, RankBelow
<1>5. f \in [S -> T] /\ \A x, y \in S : f[x] = f[y] => x = y
  BY <1>4, RankOnce
<1>. HIDE DEF f
<1>6. f \in Injection(S, T)
  BY <1>5 DEF Injection, IsInjective
<1>7. f \in Surjection(S, T)
  BY <1>3, <1>6, FS_Injection
<1>8. n \in T
  BY <1>1, <1>2
<1>9. PICK x \in S : f[x] = n
  BY <1>7, <1>8 DEF Surjection
<1>. QED
  BY <1>9 DEF f

\* Numbered in its order from base on, a set keeps its ranks and its count.
LEMMA RankKept ==
  ASSUME NEW S \in SUBSET Nat, IsFiniteSet(S), NEW base \in Nat,
         NEW T, \A t : t \in T <=> \E x \in S : t = base + Rank(x, S)
  PROVE  /\ T \in SUBSET Nat /\ IsFiniteSet(T) /\ Cardinality(T) = Cardinality(S)
         /\ \A x \in S : Rank(base + Rank(x, S), T) = Rank(x, S)
<1>. DEFINE f == [x \in S |-> base + Rank(x, S)]
<1>0. \A x \in S : Rank(x, S) \in Nat
  BY RankBelow
<1>1. T \in SUBSET Nat
  BY <1>0
<1>2. f \in [S -> T] /\ \A x \in S : f[x] = base + Rank(x, S)
  OBVIOUS
<1>3. ASSUME NEW x \in S, NEW y \in S, f[x] = f[y] PROVE x = y
  <2>1. Rank(x, S) = Rank(y, S)
    BY <1>0, <1>3
  <2>. QED
    BY <2>1, RankOnce
<1>4. \A t \in T : \E x \in S : f[x] = t
  BY <1>2
<1>. HIDE DEF f
<1>5. f \in Bijection(S, T)
  BY <1>2, <1>3, <1>4 DEF Bijection, Injection, Surjection, IsInjective
<1>6. IsFiniteSet(T) /\ Cardinality(T) = Cardinality(S)
  BY <1>5, FS_Bijection DEF ExistsBijection
<1>7. ASSUME NEW x \in S PROVE Rank(base + Rank(x, S), T) = Rank(x, S)
  <2>. DEFINE A == {z \in S : z < x}
              B == {t \in T : t < base + Rank(x, S)}
              g == [z \in A |-> f[z]]
  <2>1. IsFiniteSet(A)
    BY FS_Subset
  <2>2. ASSUME NEW z \in S PROVE z < x <=> f[z] < base + Rank(x, S)
    <3>1. z < x \/ z = x \/ x < z
      OBVIOUS
    <3>2. z < x => Rank(z, S) < Rank(x, S)
      BY RankOrder
    <3>3. x < z => Rank(x, S) < Rank(z, S)
      BY RankOrder
    <3>. QED
      BY <1>0, <1>2, <3>1, <3>2, <3>3
  <2>3. g \in [A -> B] /\ \A z \in A : g[z] = f[z]
    BY <1>2, <2>2
  <2>4. \A z, w \in A : g[z] = g[w] => z = w
    BY <1>3
  <2>5. \A t \in B : \E z \in A : g[z] = t
    BY <1>4, <2>2
  <2>. HIDE DEF A, B, g
  <2>6. g \in Bijection(A, B)
    BY <2>3, <2>4, <2>5 DEF Bijection, Injection, Surjection, IsInjective
  <2>7. Cardinality(B) = Cardinality(A)
    BY <2>1, <2>6, FS_Bijection DEF ExistsBijection
  <2>. QED
    BY <2>7 DEF A, B, Rank
<1>. QED
  BY <1>1, <1>6, <1>7

\* What is gone from the source holds what the command moved, and what has come
\* is some of it, numbered in its order: equal counts mean that both are all of
\* it, and ranks pair each letter with its own copy.
LEMMA PairedByCounts ==
  ASSUME NEW gone \in SUBSET Nat, IsFiniteSet(gone), NEW M \in SUBSET gone, NEW base \in Nat,
         NEW arrived, \A w \in arrived : \E x \in M : w = base + Rank(x, M),
         Cardinality(arrived) = Cardinality(gone), NEW u \in gone,
         NEW v \in arrived, Rank(v, arrived) = Rank(u, gone)
  PROVE  u \in M /\ v = base + Rank(u, M)
<1>. DEFINE I == {base + Rank(x, M) : x \in M}
<1>1. M \in SUBSET Nat /\ IsFiniteSet(M) /\ Cardinality(M) <= Cardinality(gone) /\ (Cardinality(gone) = Cardinality(M) => gone = M)
  BY FS_Subset
<1>0. \A t : t \in I <=> \E x \in M : t = base + Rank(x, M)
  OBVIOUS
<1>. HIDE DEF I
<1>2. /\ I \in SUBSET Nat /\ IsFiniteSet(I) /\ Cardinality(I) = Cardinality(M)
      /\ \A x \in M : Rank(base + Rank(x, M), I) = Rank(x, M)
  <2>1. M \in SUBSET Nat /\ IsFiniteSet(M)
    BY <1>1
  <2>. QED
    BY <1>0, <2>1, RankKept
<1>3. Cardinality(arrived) <= Cardinality(I) /\ (Cardinality(I) = Cardinality(arrived) => I = arrived)
  <2>1. arrived \in SUBSET I
    BY <1>0
  <2>. QED
    BY <1>2, <2>1, FS_Subset
<1>4. Cardinality(gone) \in Nat /\ Cardinality(I) \in Nat
  BY <1>2, FS_CardinalityType
<1>5. gone = M /\ arrived = I
  BY <1>1, <1>2, <1>3, <1>4
<1>6. base + Rank(u, M) \in I /\ Rank(base + Rank(u, M), I) = Rank(u, M)
  BY <1>0, <1>2, <1>5
<1>7. v \in I /\ Rank(v, I) = Rank(u, M)
  BY <1>5, <1>6
<1>8. v = base + Rank(u, M)
  BY <1>2, <1>6, <1>7, RankOnce
<1>. QED
  BY <1>5, <1>7, <1>8

-------------------------------------------------------------------------------
(* The invariants *)

RowRecords == [in : Folders, uid : Int, id : Ids, claim : BOOLEAN]
States == {"none", "queued", "moving", "awaiting"}
MoveRecords == [row : {0} \cup RowIds, id : Ids, from : Folders, uid : Nat, to : Folders, pred : {0} \cup MoveIds,
                state : States, sent : BOOLEAN, tries : Nat, newer : SUBSET RowIds]
JobRecords == [id : MoveIds, from : Folders, uid : Nat, to : Folders, new : Nat,
               is : {"look", "claimed", "sent", "named", "unnamed", "retained", "failed", "found"}]
RunRecords == [at : {"idle", "looking", "claimed", "sent", "searching", "handling"}, jobs : SUBSET JobRecords, before : Nat]
SyncRecords == [at : {"idle", "fetched", "attaching", "inserting"}, uid : Nat, move : {0} \cup MoveIds]
ExpungeRecords == [at : {"idle", "claimed", "deleted", "kept"}, row : {0} \cup RowIds, uid : Nat]

BudgetInv == setting \in Settings /\ asks \in 0..MaxAsks /\ asked \in 0..asks /\ mixed \in BOOLEAN

\* A uid stands for a letter from when it is given.
ServerInv ==
  /\ letters \in [Uids -> Places] /\ given \in 0..LastUid
  /\ \A u \in Uids : u > given => ~letters[u].live
  /\ late \subseteq [uids : SUBSET Nat, from : Folders, to : Folders]

\* Only what has been given or queued is named anywhere.
PanelInv ==
  /\ rows \in [RowIds -> RowRecords] /\ moves \in [MoveIds -> MoveRecords]
  /\ \A r \in RowIds : -asked <= rows[r].uid /\ rows[r].uid <= given
  /\ \A m \in MoveIds : /\ moves[m].uid <= given /\ moves[m].pred <= asked
                        /\ moves[m].state # "none" => m <= asked /\ moves[m].row \in RowIds

\* The letters that rows and moves name carry the Message-ID that the panel has
\* of them; a move has its row's, and its predecessor's.
NamesInv ==
  /\ \A r \in RowIds : rows[r].uid > 0 => letters[rows[r].uid].id = rows[r].id
  /\ \A m \in MoveIds : moves[m].state # "none" =>
       /\ moves[m].uid > 0 => letters[moves[m].uid].id = moves[m].id
       /\ rows[moves[m].row].uid = -m => rows[moves[m].row].id = moves[m].id
       /\ \A n \in MoveIds : moves[n].state # "none" /\ moves[n].pred = m => moves[n].id = moves[m].id

RunInv ==
  /\ run \in RunRecords
  /\ run.at \in {"sent", "searching"} => Doing("sent") # {}
  /\ \A j \in run.jobs : j.id <= asked /\ j.uid <= given /\ j.new <= given
  /\ \A j \in run.jobs : j.is \in {"found", "named"} => j.new > 0

\* A job names letters with its move's Message-ID.
JobNames(j) ==
  moves[j.id].state # "none" =>
    /\ j.uid > 0 => letters[j.uid].id = moves[j.id].id
    /\ j.is \in {"found", "named"} => letters[j.new].id = moves[j.id].id

\* What has come into the destination since the command began is what it moved
\* (M), numbered in its order, and what it moved is gone from the source.
Counted(c, M, base) ==
  /\ 0 \notin M /\ M \cap Live(c.from) = {}
  /\ \A v \in Live(c.to) : v >= run.before =>
       \E u \in M : v = base + Rank(u, M) /\ letters[v].id = letters[u].id

CountsInv ==
  run.at = "searching" /\ run.before > 0 =>
    \E M \in SUBSET UidsOf(Sent), base \in Nat : Counted(Command(Sent), M, base)
NothingCame == run.at = "sent" /\ run.before > 0 => \A v \in Live(Command(Sent).to) : v < run.before

RunNames == (\A j \in run.jobs : JobNames(j)) /\ CountsInv /\ NothingCame

SyncInv ==
  /\ sync \in SyncRecords /\ sync.uid <= given /\ sync.move <= asked
  /\ sync.at # "idle" => sync.uid > 0
  /\ sync.at = "attaching" => sync.move > 0
SyncNames ==
  sync.at = "attaching" /\ moves[sync.move].state # "none" => letters[sync.uid].id = moves[sync.move].id

\* A claimed row is where the delete found it, or gone.
ClaimInv ==
  /\ expunge \in ExpungeRecords
  /\ expunge.at \in {"claimed", "deleted"} =>
       /\ expunge.row \in RowIds /\ expunge.uid > 0
       /\ rows[expunge.row].uid # 0 => rows[expunge.row].claim /\ rows[expunge.row].uid = expunge.uid

Typed == BudgetInv /\ ServerInv /\ PanelInv /\ RunInv /\ SyncInv
Names == ~mixed => NamesInv /\ RunNames /\ SyncNames
IInv == Typed /\ Names /\ ClaimInv

-------------------------------------------------------------------------------
(* The bounds of an install *)

\* The bounds of an install are numbers, and the first letters fit them.
LEMMA Sizes ==
  ASSUME setting \in Settings
  PROVE  /\ LastUid \in Nat /\ Len(Headers) \in Nat /\ Len(Headers) <= LastUid
         /\ DOMAIN Headers = 1..Len(Headers) /\ DOMAIN Headers \subseteq Uids /\ DOMAIN Headers \subseteq RowIds
         /\ MaxAsks \in Nat /\ MoveIds = 1..MaxAsks /\ Uids = 1..LastUid /\ RowIds \subseteq Nat \ {0}
         /\ NoHeader \in Ids /\ \A u \in DOMAIN Headers : Headers[u] \in Ids
<1>1. IsSetting(setting)
  BY SettingsAssumption
<1>2. Len(Headers) \in Nat /\ DOMAIN Headers = 1..Len(Headers)
  BY <1>1 DEF IsSetting, Headers
<1>3. MaxAsks \in Nat /\ MaxFaults \in Nat /\ MaxElse \in Nat /\ MaxArrivals \in Nat
  BY <1>1 DEF IsSetting, MaxAsks, MaxFaults, MaxElse, MaxArrivals
<1>4. MaxAsks * (1 + MaxFaults) \in Nat /\ MaxAsks * (2 + MaxFaults) \in Nat
  BY <1>3
<1>. QED
  BY <1>2, <1>3, <1>4 DEF LastUid, Uids, RowIds, MoveIds, Ids

\* The install stays, and with it what is derived from it.
LEMMA SameSizes ==
  ASSUME setting' = setting
  PROVE  /\ Headers' = Headers /\ Unsynced' = Unsynced /\ MaxAsks' = MaxAsks /\ LastUid' = LastUid /\ Uids' = Uids
         /\ MoveIds' = MoveIds /\ RowIds' = RowIds /\ Ids' = Ids /\ Places' = Places
         /\ RowRecords' = RowRecords /\ MoveRecords' = MoveRecords /\ JobRecords' = JobRecords
         /\ RunRecords' = RunRecords /\ SyncRecords' = SyncRecords /\ ExpungeRecords' = ExpungeRecords
<1>1. Headers' = Headers /\ Unsynced' = Unsynced /\ MaxAsks' = MaxAsks /\ MaxFaults' = MaxFaults /\ MaxElse' = MaxElse
      /\ MaxArrivals' = MaxArrivals
  BY DEF Headers, Unsynced, MaxAsks, MaxFaults, MaxElse, MaxArrivals
<1>2. LastUid' = LastUid /\ MoveIds' = MoveIds /\ RowIds' = RowIds /\ Ids' = Ids
  BY <1>1 DEF LastUid, MoveIds, RowIds, Ids
<1>3. Uids' = Uids /\ Places' = Places /\ RowRecords' = RowRecords /\ MoveRecords' = MoveRecords /\ JobRecords' = JobRecords
  BY <1>2 DEF Uids, Places, RowRecords, MoveRecords, JobRecords, States
<1>. QED
  BY <1>1, <1>2, <1>3 DEF RunRecords, SyncRecords, ExpungeRecords

\* An uid that is given is in the bounds.
LEMMA GivenUids ==
  ASSUME setting \in Settings, ServerInv
  PROVE  given \in Nat /\ 1..given \subseteq Uids /\ IsFiniteSet(1..given)
<1>1. LastUid \in Nat /\ Uids = 1..LastUid
  BY Sizes
<1>. QED
  BY <1>1, FS_Interval DEF ServerInv

-------------------------------------------------------------------------------
(* What a step keeps *)

\* Letters keep their Message-ID and place, and are not revived.
LettersKept ==
  /\ given <= given'
  /\ \A u \in 1..given : /\ letters'[u].id = letters[u].id /\ letters'[u].in = letters[u].in
                         /\ letters'[u].live => letters[u].live
NewIn(f) == \A v \in Uids : v > given /\ letters'[v].live => letters'[v].in = f

\* No move comes back, and a move keeps its Message-ID.
MovesKept ==
  /\ asked <= asked'
  /\ \A m \in MoveIds : m <= asked /\ moves'[m].state # "none" => moves[m].state # "none" /\ moves'[m].id = moves[m].id

\* A folder's letters have uids that were given.
LEMMA LiveUids ==
  ASSUME setting \in Settings, ServerInv, NEW f
  PROVE  Live(f) \subseteq 1..given /\ Live(f) \subseteq Uids
BY GivenUids DEF Live

\* A step that leaves the letters alone keeps what is said of them.
LEMMA SameLetters ==
  ASSUME setting \in Settings, setting' = setting, ServerInv, UNCHANGED <<letters, given, late>>
  PROVE  ServerInv' /\ LettersKept /\ \A f : NewIn(f) /\ Live(f)' = Live(f)
<1>1. given \in Nat
  BY GivenUids
<1>. QED
  BY <1>1, SameSizes DEF ServerInv, LettersKept, NewIn, Live

\* A command's new letters are numbered in the order of the old ones, and carry their Message-IDs.
LEMMA Executed ==
  ASSUME setting \in Settings, setting' = setting, ServerInv, NEW c, c.to \in Folders,
         NEW keep \in BOOLEAN, Executes(c, keep)
  PROVE  /\ letters' \in [Uids -> Places] /\ given' \in 0..LastUid
         /\ \A u \in Uids : u > given' => ~letters'[u].live
         /\ LettersKept /\ NewIn(c.to)
         /\ Moved(c) \subseteq 1..given /\ IsFiniteSet(Moved(c))
         /\ \A u \in Moved(c) : /\ Rank(u, Moved(c)) \in Nat
                                /\ NewUid(u, c) \in Uids /\ NewUid(u, c) > given /\ NewUid(u, c) <= given'
                                /\ letters'[NewUid(u, c)].id = letters[u].id
         /\ \A v \in Uids : v > given /\ letters'[v].live => \E u \in Moved(c) : v = NewUid(u, c)
         /\ ~keep => \A u \in Moved(c) : ~letters'[u].live
<1>. DEFINE M == Moved(c)
<1>0. given \in Nat /\ 1..given \subseteq Uids /\ IsFiniteSet(1..given) /\ LastUid \in Nat /\ Uids = 1..LastUid
  BY GivenUids, Sizes
<1>1. M \subseteq 1..given /\ IsFiniteSet(M) /\ M \in SUBSET Nat /\ Cardinality(M) \in Nat
  <2>1. M \in SUBSET (1..given)
    BY DEF Moved, Live
  <2>. QED
    BY <1>0, <2>1, FS_Subset, FS_CardinalityType
<1>2. given' = given + Cardinality(M) /\ given' <= LastUid
  BY DEF Executes
<1>3. ASSUME NEW u \in M
      PROVE  /\ Rank(u, M) \in Nat /\ Rank(u, M) < Cardinality(M) /\ NewUid(u, c) = given + 1 + Rank(u, M)
             /\ NewUid(u, c) \in Uids /\ NewUid(u, c) > given /\ NewUid(u, c) <= given'
  <2>1. Rank(u, M) \in Nat /\ Rank(u, M) < Cardinality(M)
    BY <1>1, RankBelow
  <2>2. NewUid(u, c) = given + 1 + Rank(u, M)
    BY DEF NewUid
  <2>. HIDE DEF M
  <2>. QED
    BY <1>0, <1>1, <1>2, <2>1, <2>2
<1>4. \A u \in M, w \in M : NewUid(u, c) = NewUid(w, c) => u = w
  <2>1. ASSUME NEW u \in M, NEW w \in M, NewUid(u, c) = NewUid(w, c) PROVE u = w
    <3>1. Rank(u, M) = Rank(w, M)
      <4>. HIDE DEF M
      <4>. QED
        BY <1>0, <1>3, <2>1
    <3>. QED
      BY <1>1, <3>1, RankOnce
  <2>. QED
    BY <2>1
<1>. DEFINE Old(v) == CHOOSE x \in M : v = NewUid(x, c)
<1>5. ASSUME NEW v, \E x \in M : v = NewUid(x, c) PROVE Old(v) \in M /\ v = NewUid(Old(v), c)
  BY <1>5
<1>6. \A u \in M : Old(NewUid(u, c)) = u
  BY <1>4, <1>5
<1>7. letters' = [v \in Uids |-> IF v \in M THEN [letters[v] EXCEPT !.live = keep]
                                ELSE IF \E x \in M : v = NewUid(x, c)
                                THEN [in |-> c.to, live |-> TRUE, id |-> letters[Old(v)].id]
                                ELSE letters[v]]
  BY DEF Executes
<1>. HIDE DEF Old
<1>8. letters \in [Uids -> Places]
  BY DEF ServerInv
<1>9. ASSUME NEW v \in Uids
      PROVE  /\ letters'[v] \in Places
             /\ v \in M => letters'[v].id = letters[v].id /\ letters'[v].in = letters[v].in /\ letters'[v].live = keep
             /\ v \notin M /\ (\E x \in M : v = NewUid(x, c)) =>
                  letters'[v].in = c.to /\ letters'[v].id = letters[Old(v)].id
             /\ v \notin M /\ ~(\E x \in M : v = NewUid(x, c)) => letters'[v] = letters[v]
  <2>. HIDE DEF M
  <2>1. CASE v \in M
    BY <1>7, <1>8, <2>1 DEF Places
  <2>2. CASE v \notin M /\ \E x \in M : v = NewUid(x, c)
    <3>1. Old(v) \in Uids
      BY <1>0, <1>1, <1>5, <2>2
    <3>2. letters[Old(v)].id \in Ids
      BY <1>8, <3>1 DEF Places
    <3>. QED
      BY <1>7, <2>2, <3>2 DEF Places
  <2>3. CASE v \notin M /\ ~(\E x \in M : v = NewUid(x, c))
    BY <1>7, <1>8, <2>3
  <2>. QED
    BY <2>1, <2>2, <2>3
<1>10. letters' \in [Uids -> Places]
  BY <1>7, <1>9
<1>11. \A u \in Uids : u > given => ~letters[u].live /\ u \notin M
  BY <1>0, <1>1 DEF ServerInv
<1>. HIDE DEF M
<1>12. \A u \in Uids : u > given' => ~letters'[u].live
  BY <1>0, <1>1, <1>2, <1>3, <1>9, <1>11
<1>13. \A u \in 1..given : u \in Uids /\ ~\E x \in M : u = NewUid(x, c)
  BY <1>0, <1>3
<1>14. LettersKept
  <2>1. given <= given'
    BY <1>0, <1>1, <1>2
  <2>2. ASSUME NEW u \in 1..given
        PROVE  letters'[u].id = letters[u].id /\ letters'[u].in = letters[u].in /\ (letters'[u].live => letters[u].live)
    <3>1. CASE u \in M
      <4>1. letters[u].live
        BY <3>1 DEF M, Moved, Live
      <4>. QED
        BY <1>9, <1>13, <3>1, <4>1
    <3>. QED
      BY <1>9, <1>13, <3>1
  <2>. QED
    BY <2>1, <2>2 DEF LettersKept
<1>15. \A v \in Uids : v > given /\ letters'[v].live => letters'[v].in = c.to /\ \E u \in M : v = NewUid(u, c)
  BY <1>9, <1>11
<1>16. ASSUME NEW u \in M PROVE letters'[NewUid(u, c)].id = letters[u].id
  <2>1. NewUid(u, c) \in Uids /\ NewUid(u, c) \notin M
    BY <1>3, <1>11
  <2>. QED
    BY <1>6, <1>9, <2>1
<1>17. ~keep => \A u \in M : ~letters'[u].live
  BY <1>0, <1>1, <1>9
<1>18. given' \in 0..LastUid
  BY <1>0, <1>1, <1>2
<1>. QED
  BY <1>1, <1>3, <1>10, <1>12, <1>14, <1>15, <1>16, <1>17, <1>18 DEF NewIn, M

\* The run, with its jobs as they are, holds what it held: no letter came into its command's destination.
LEMMA RunKept ==
  ASSUME setting \in Settings, setting' = setting, ServerInv, ServerInv', RunInv, run' = run, asked \in Nat, asked' \in Nat,
         LettersKept, MovesKept
  PROVE  /\ RunInv'
         /\ RunNames /\ (run.at \in {"sent", "searching"} => \A v \in Uids : v > given /\ letters'[v].live => letters'[v].in # Command(Sent).to)
              => RunNames'
<1>1. given \in Nat /\ given' \in Nat /\ given <= given' /\ 1..given \subseteq Uids /\ Uids' = Uids /\ LastUid' = LastUid
  BY GivenUids, SameSizes DEF LettersKept, ServerInv
<1>2. JobRecords' = JobRecords /\ RunRecords' = RunRecords
  BY SameSizes
<1>3. \A j \in run.jobs : j \in JobRecords /\ j.id \in Nat /\ j.uid \in Nat /\ j.new \in Nat
  <2>1. run.jobs \subseteq JobRecords
    BY DEF RunInv, RunRecords
  <2>2. MoveIds \subseteq Nat
    BY Sizes
  <2>. QED
    BY <2>1, <2>2 DEF JobRecords
<1>4. RunInv'
  BY <1>1, <1>2, <1>3 DEF RunInv, MovesKept, Doing
<1>5. ASSUME RunNames, run.at \in {"sent", "searching"} => \A v \in Uids : v > given /\ letters'[v].live => letters'[v].in # Command(Sent).to
      PROVE  RunNames'
  <2>1. ASSUME NEW j \in run.jobs PROVE JobNames(j)'
    <3>1. JobNames(j) /\ j.id \in MoveIds /\ j.id <= asked /\ j.uid <= given /\ j.new <= given
          /\ (j.is \in {"found", "named"} => j.new > 0)
      BY <1>3, <1>5 DEF RunNames, RunInv, JobRecords
    <3>2. moves'[j.id].state # "none" => moves[j.id].state # "none" /\ moves'[j.id].id = moves[j.id].id
      BY <3>1 DEF MovesKept
    <3>3. (j.uid > 0 => letters'[j.uid].id = letters[j.uid].id) /\ (j.new > 0 => letters'[j.new].id = letters[j.new].id)
      BY <1>1, <1>3, <3>1 DEF LettersKept
    <3>. QED
      BY <3>1, <3>2, <3>3 DEF JobNames
  <2>2. \A j \in run.jobs : JobNames(j)'
    BY <2>1
  <2>3. PICK c : c = Command(Sent)
    OBVIOUS
  <2>4. Command(Sent)' = c /\ UidsOf(Sent)' = UidsOf(Sent)
    BY <2>3 DEF Command, UidsOf, Sent, Doing
  <2>6. run.at \in {"sent", "searching"} =>
          \A v \in 1..given' : letters'[v].live /\ letters'[v].in = c.to =>
             v \in 1..given /\ letters[v].live /\ letters[v].in = c.to /\ letters'[v].id = letters[v].id
    <3>1. 1..given' \subseteq Uids
      BY <1>1, Sizes DEF ServerInv
    <3>. QED
      BY <1>1, <1>5, <2>3, <3>1 DEF LettersKept
  <2>7. NothingCame'
    <3>1. run.at = "sent" /\ run.before > 0 => \A v \in 1..given : letters[v].live /\ letters[v].in = c.to => v < run.before
      BY <1>5, <2>3 DEF RunNames, NothingCame, Live
    <3>. QED
      BY <2>4, <2>6, <3>1 DEF NothingCame, Live
  <2>8. CountsInv'
    <3>. SUFFICES ASSUME run.at = "searching", run.before > 0
                  PROVE  \E M \in SUBSET UidsOf(Sent), base \in Nat : Counted(c, M, base)'
      BY <2>4 DEF CountsInv
    <3>1. PICK M \in SUBSET UidsOf(Sent), base \in Nat : Counted(c, M, base)
      BY <1>5, <2>3 DEF RunNames, CountsInv
    <3>0. ASSUME NEW u \in M PROVE u \in 1..given
      <4>1. PICK j \in run.jobs : u = j.uid
        BY DEF UidsOf, Sent, Doing
      <4>2. u # 0
        BY <3>1 DEF Counted
      <4>. QED
        BY <1>1, <1>3, <4>1, <4>2 DEF RunInv
    <3>2. M \cap Live(c.from)' = {}
      <4>1. ASSUME NEW u \in M, u \in Live(c.from)' PROVE u \in Live(c.from)
        <5>1. u \in 1..given' /\ letters'[u].live /\ letters'[u].in = c.from
          BY <4>1 DEF Live
        <5>. QED
          BY <1>1, <3>0, <5>1 DEF LettersKept, Live
      <4>. QED
        BY <3>1, <4>1 DEF Counted
    <3>3. ASSUME NEW v \in Live(c.to)', v >= run.before
          PROVE  \E u \in M : v = base + Rank(u, M) /\ letters'[v].id = letters'[u].id
      <4>1. v \in 1..given' /\ letters'[v].live /\ letters'[v].in = c.to
        BY <3>3 DEF Live
      <4>2. v \in Live(c.to) /\ letters'[v].id = letters[v].id
        BY <2>6, <4>1 DEF Live
      <4>3. PICK u \in M : v = base + Rank(u, M) /\ letters[v].id = letters[u].id
        BY <3>1, <3>3, <4>2 DEF Counted
      <4>4. letters'[u].id = letters[u].id
        BY <3>0 DEF LettersKept
      <4>. QED
        BY <4>2, <4>3, <4>4
    <3>4. 0 \notin M
      BY <3>1 DEF Counted
    <3>. QED
      BY <3>2, <3>3, <3>4 DEF Counted
  <2>. QED
    BY <2>2, <2>7, <2>8 DEF RunNames
<1>. QED
  BY <1>4, <1>5

\* So does a sync with its letter.
LEMMA SyncKept ==
  ASSUME setting \in Settings, setting' = setting, ServerInv, ServerInv', SyncInv, sync' = sync, asked \in Nat, asked' \in Nat,
         LettersKept, MovesKept
  PROVE  SyncInv' /\ (SyncNames => SyncNames')
<1>1. given \in Nat /\ given' \in Nat /\ given <= given' /\ SyncRecords' = SyncRecords
  BY GivenUids, SameSizes DEF LettersKept, ServerInv
<1>2. sync.uid \in Nat /\ sync.move \in Nat /\ (sync.move > 0 => sync.move \in MoveIds)
  BY Sizes DEF SyncInv, SyncRecords
<1>3. SyncInv'
  BY <1>1, <1>2 DEF SyncInv, MovesKept
<1>4. sync.at = "attaching" => sync.uid \in 1..given /\ sync.move \in MoveIds /\ sync.move <= asked
  BY <1>1, <1>2 DEF SyncInv
<1>. QED
  BY <1>3, <1>4 DEF SyncNames, LettersKept, MovesKept

\* Rows and moves name the same letters, as long as these keep their Message-IDs.
LEMMA PanelKept ==
  ASSUME setting \in Settings, setting' = setting, ServerInv, ServerInv', PanelInv, UNCHANGED <<rows, moves, asked>>, LettersKept
  PROVE  PanelInv' /\ (NamesInv => NamesInv')
<1>1. given \in Nat /\ given' \in Nat /\ given <= given' /\ RowIds' = RowIds /\ MoveIds' = MoveIds /\ RowRecords' = RowRecords
      /\ MoveRecords' = MoveRecords
  BY GivenUids, SameSizes DEF LettersKept, ServerInv
<1>2. (\A r \in RowIds : rows[r].uid \in Int) /\ \A m \in MoveIds : moves[m].uid \in Nat
  BY DEF PanelInv, RowRecords, MoveRecords
<1>3. PanelInv'
  BY <1>1, <1>2 DEF PanelInv
<1>4. \A r \in RowIds : rows[r].uid > 0 => letters'[rows[r].uid].id = letters[rows[r].uid].id
  BY <1>1, <1>2 DEF PanelInv, LettersKept
<1>5. \A m \in MoveIds : moves[m].uid > 0 => letters'[moves[m].uid].id = letters[moves[m].uid].id
  BY <1>1, <1>2 DEF PanelInv, LettersKept
<1>. QED
  BY <1>1, <1>3, <1>4, <1>5 DEF NamesInv

\* A step of the server, or of others on it.
LEMMA ServerStep ==
  ASSUME Typed, ServerInv', LettersKept, UNCHANGED <<setting, rows, moves, asked, run, sync>>,
         asks' \in asks..MaxAsks, mixed' \in BOOLEAN
  PROVE  /\ Typed'
         /\ Names /\ (mixed => mixed') /\
              (~mixed' /\ run.at \in {"sent", "searching"} => \A v \in Uids : v > given /\ letters'[v].live => letters'[v].in # Command(Sent).to)
              => Names'
<1>1. asked \in Nat /\ asked' \in Nat /\ asks \in Nat /\ MaxAsks \in Nat /\ MaxAsks' = MaxAsks
  BY Sizes, SameSizes DEF Typed, BudgetInv
<1>2. MovesKept
  BY <1>1 DEF MovesKept
<1>3. BudgetInv'
  BY <1>1 DEF Typed, BudgetInv
<1>4. RunInv' /\ SyncInv' /\ PanelInv'
  BY <1>1, <1>2, RunKept, SyncKept, PanelKept DEF Typed, BudgetInv
<1>5. ASSUME Names, mixed => mixed', ~mixed',
             run.at \in {"sent", "searching"} => \A v \in Uids : v > given /\ letters'[v].live => letters'[v].in # Command(Sent).to
      PROVE  NamesInv' /\ RunNames' /\ SyncNames'
  <2>1. NamesInv /\ RunNames /\ SyncNames
    BY <1>5 DEF Names
  <2>. QED
    BY <1>1, <1>2, <1>5, <2>1, RunKept, SyncKept, PanelKept DEF Typed, BudgetInv
<1>. QED
  BY <1>3, <1>4, <1>5 DEF Typed, Names

-------------------------------------------------------------------------------
(* The server, other clients, and commands that run late *)

\* A step that touches neither rows nor the delete keeps the claim.
LEMMA ClaimKept ==
  ASSUME ClaimInv, UNCHANGED <<setting, rows, expunge>>
  PROVE  ClaimInv'
BY SameSizes DEF ClaimInv

\* A letter that is deleted leaves its uid behind, and nothing new comes.
LEMMA Killed ==
  ASSUME setting \in Settings, setting' = setting, ServerInv, NEW u, letters' = [letters EXCEPT ![u].live = FALSE],
         UNCHANGED <<given, late>>
  PROVE  ServerInv' /\ LettersKept /\ \A v \in Uids : v > given => ~letters'[v].live
<1>1. given \in Nat /\ 1..given \subseteq Uids /\ Uids' = Uids /\ LastUid' = LastUid /\ Places' = Places
  BY GivenUids, SameSizes
<1>2. letters \in [Uids -> Places] /\ \A v \in Uids : v > given => ~letters[v].live
  BY DEF ServerInv
<1>3. ASSUME NEW v \in Uids
      PROVE  /\ letters'[v] \in Places /\ letters'[v].id = letters[v].id /\ letters'[v].in = letters[v].in
             /\ letters'[v].live => letters[v].live
  BY <1>2 DEF Places
<1>4. letters' \in [Uids -> Places]
  BY <1>2, <1>3
<1>. QED
  BY <1>1, <1>2, <1>3, <1>4 DEF ServerInv, LettersKept

\* The permanent delete of the letter a claim names.
LEMMA StepServerExpunges ==
  ASSUME IInv, ServerExpunges
  PROVE  IInv'
<1>1. setting \in Settings /\ ServerInv /\ UNCHANGED <<setting, given, late, mixed, rows, moves, asked, run, sync, asks>>
      /\ UNCHANGED <<elses, arrivals>>
  BY DEF IInv, Typed, BudgetInv, ServerExpunges, Fault, panel, memory, budget
<1>2. ServerInv' /\ LettersKept /\ \A v \in Uids : v > given => ~letters'[v].live
  <2>1. CASE letters' = [letters EXCEPT ![expunge.uid].live = FALSE]
    BY <1>1, <2>1, Killed
  <2>2. CASE letters' = letters
    BY <1>1, <2>2, SameLetters DEF ServerInv
  <2>. QED
    BY <2>1, <2>2 DEF ServerExpunges
<1>3. asks' \in asks..MaxAsks /\ mixed' \in BOOLEAN
  BY <1>1, Sizes DEF IInv, Typed, BudgetInv
<1>4. Typed' /\ Names'
  BY <1>1, <1>2, <1>3, ServerStep DEF IInv
<1>5. expunge' = [expunge EXCEPT !.at = "deleted"] \/ expunge' = [expunge EXCEPT !.at = "kept"]
  BY DEF ServerExpunges
<1>6. ClaimInv'
  <2>1. expunge.at = "claimed"
    BY DEF ServerExpunges
  <2>2. RowIds' = RowIds /\ ExpungeRecords' = ExpungeRecords /\ expunge \in ExpungeRecords
    BY <1>1, SameSizes DEF IInv, ClaimInv
  <2>3. expunge' \in ExpungeRecords /\ expunge'.row = expunge.row /\ expunge'.uid = expunge.uid
    BY <1>5, <2>2 DEF ExpungeRecords
  <2>. QED
    BY <1>1, <2>1, <2>2, <2>3 DEF IInv, ClaimInv
<1>. QED
  BY <1>4, <1>6 DEF IInv

\* Another client deletes a letter.
LEMMA StepElseDeletes ==
  ASSUME IInv, NEW u \in Uids, ElseDeletes(u)
  PROVE  IInv'
<1>1. setting \in Settings /\ ServerInv /\ UNCHANGED <<setting, given, late, mixed, rows, moves, asked, run, sync, expunge, asks>>
  BY DEF IInv, Typed, BudgetInv, ElseDeletes, Else, panel, memory, processes
<1>2. ServerInv' /\ LettersKept /\ \A v \in Uids : v > given => ~letters'[v].live
  BY <1>1, Killed DEF ElseDeletes
<1>3. asks' \in asks..MaxAsks /\ mixed' \in BOOLEAN
  BY <1>1, Sizes DEF IInv, Typed, BudgetInv
<1>. QED
  BY <1>1, <1>2, <1>3, ServerStep, ClaimKept DEF IInv

\* What comes into the destination of a command that is out is marked.
LEMMA CameIn ==
  ASSUME Typed, NEW f, Comes(f), NewIn(f)
  PROVE  /\ mixed' \in BOOLEAN /\ (mixed => mixed')
         /\ ~mixed' /\ run.at \in {"sent", "searching"} =>
              \A v \in Uids : v > given /\ letters'[v].live => letters'[v].in # Command(Sent).to
BY DEF Typed, BudgetInv, Comes, NewIn

\* Another client moves a letter: into a command's destination, the counts may be misled.
LEMMA StepElseMoves ==
  ASSUME IInv, NEW u \in Uids, NEW f \in Folders, ElseMoves(u, f)
  PROVE  IInv'
<1>. DEFINE c == [uids |-> {u}, from |-> letters[u].in, to |-> f]
<1>1. setting \in Settings /\ ServerInv /\ UNCHANGED <<setting, late, rows, moves, asked, run, sync, expunge, asks>>
  BY DEF IInv, Typed, BudgetInv, ElseMoves, Else, panel, memory, processes
<1>2. c.to = f /\ Executes(c, FALSE) /\ Comes(f)
  BY DEF ElseMoves
<1>. HIDE DEF c
<1>3. /\ letters' \in [Uids -> Places] /\ given' \in 0..LastUid /\ \A v \in Uids : v > given' => ~letters'[v].live
      /\ LettersKept /\ NewIn(f)
  BY <1>1, <1>2, Executed
<1>4. ServerInv'
  BY <1>1, <1>3, SameSizes DEF ServerInv
<1>5. asks' \in asks..MaxAsks
  BY <1>1, Sizes DEF IInv, Typed, BudgetInv
<1>6. /\ mixed' \in BOOLEAN /\ (mixed => mixed')
      /\ ~mixed' /\ run.at \in {"sent", "searching"} =>
           \A v \in Uids : v > given /\ letters'[v].live => letters'[v].in # Command(Sent).to
  BY <1>2, <1>3, CameIn DEF IInv
<1>. QED
  BY <1>1, <1>3, <1>4, <1>5, <1>6, ServerStep, ClaimKept DEF IInv

\* A command that was cut off is run after all, like another client's.
LEMMA StepLateMove ==
  ASSUME IInv, NEW c \in late, LateMove(c)
  PROVE  IInv'
<1>1. setting \in Settings /\ ServerInv /\ UNCHANGED <<setting, rows, moves, asked, run, sync, expunge, asks>>
      /\ late' = late \ {c}
  BY DEF IInv, Typed, BudgetInv, LateMove, panel, memory, processes, budget
<1>2. asks' \in asks..MaxAsks
  BY <1>1, Sizes DEF IInv, Typed, BudgetInv
<1>3. ServerInv' /\ LettersKept /\ mixed' \in BOOLEAN /\ (mixed => mixed')
      /\ (~mixed' /\ run.at \in {"sent", "searching"} =>
            \A v \in Uids : v > given /\ letters'[v].live => letters'[v].in # Command(Sent).to)
  <2>1. CASE Executes(c, FALSE) /\ Comes(c.to)
    <3>1. c.to \in Folders
      BY <1>1 DEF ServerInv
    <3>2. /\ letters' \in [Uids -> Places] /\ given' \in 0..LastUid /\ \A v \in Uids : v > given' => ~letters'[v].live
          /\ LettersKept /\ NewIn(c.to)
      BY <1>1, <2>1, <3>1, Executed
    <3>3. ServerInv'
      BY <1>1, <3>2, SameSizes DEF ServerInv
    <3>. QED
      BY <2>1, <3>2, <3>3, CameIn DEF IInv
  <2>2. CASE UNCHANGED <<letters, given, mixed>>
    <3>1. given \in Nat
      BY <1>1, GivenUids
    <3>. QED
      BY <1>1, <2>2, <3>1, SameSizes DEF IInv, Typed, BudgetInv, ServerInv, LettersKept
  <2>. QED
    BY <2>1, <2>2 DEF LateMove
<1>. QED
  BY <1>1, <1>2, <1>3, ServerStep, ClaimKept DEF IInv

\* A letter arrives: into a command's destination, the counts may be misled.
LEMMA StepArrives ==
  ASSUME IInv, NEW f \in Folders, NEW h \in Ids, Arrives(f, h)
  PROVE  IInv'
<1>1. setting \in Settings /\ ServerInv /\ UNCHANGED <<setting, late, rows, moves, asked, run, sync, expunge, asks>>
  BY DEF IInv, Typed, BudgetInv, Arrives, panel, memory, processes
<1>2. given \in Nat /\ 1..given \subseteq Uids /\ LastUid \in Nat /\ Uids = 1..LastUid
  BY <1>1, GivenUids, Sizes
<1>3. given' = given + 1 /\ given' <= LastUid /\ Comes(f)
      /\ letters' = [letters EXCEPT ![given + 1] = [in |-> f, id |-> h, live |-> TRUE]]
  BY DEF Arrives
<1>4. letters \in [Uids -> Places] /\ \A v \in Uids : v > given => ~letters[v].live
  BY <1>1 DEF ServerInv
<1>5. ASSUME NEW v \in Uids
      PROVE  /\ letters'[v] \in Places
             /\ v # given + 1 => letters'[v] = letters[v]
             /\ v = given + 1 => letters'[v].in = f
  BY <1>3, <1>4 DEF Places
<1>6. letters' \in [Uids -> Places] /\ LettersKept /\ NewIn(f) /\ \A v \in Uids : v > given' => ~letters'[v].live
  <2>1. letters' \in [Uids -> Places]
    BY <1>3, <1>4, <1>5
  <2>. QED
    BY <1>2, <1>3, <1>4, <1>5, <2>1 DEF LettersKept, NewIn
<1>7. ServerInv'
  BY <1>1, <1>2, <1>3, <1>6, SameSizes DEF ServerInv
<1>8. asks' \in asks..MaxAsks
  BY <1>1, Sizes DEF IInv, Typed, BudgetInv
<1>9. /\ mixed' \in BOOLEAN /\ (mixed => mixed')
      /\ ~mixed' /\ run.at \in {"sent", "searching"} =>
           \A v \in Uids : v > given /\ letters'[v].live => letters'[v].in # Command(Sent).to
  BY <1>3, <1>6, CameIn DEF IInv
<1>. QED
  BY <1>1, <1>6, <1>7, <1>8, <1>9, ServerStep, ClaimKept DEF IInv

-------------------------------------------------------------------------------
(* The worker's command, and what it learns of it *)

\* The command that is out is one of the run's jobs.
LEMMA CommandOut ==
  ASSUME setting \in Settings, ServerInv, RunInv, run.at \in {"sent", "searching"}
  PROVE  /\ Command(Sent).uids = UidsOf(Sent) /\ Command(Sent).from \in Folders /\ Command(Sent).to \in Folders
         /\ UidsOf(Sent) \subseteq Nat /\ IsFiniteSet(UidsOf(Sent))
         /\ Command(Sent) \in [uids : SUBSET Nat, from : Folders, to : Folders]
<1>1. PICK j \in Sent : j = CHOOSE k \in Sent : TRUE
  BY DEF RunInv, Sent
<1>2. \A k \in Sent : k \in JobRecords /\ k.uid \in 0..given
  <2>1. run.jobs \subseteq JobRecords
    BY DEF RunInv, RunRecords
  <2>. QED
    BY <2>1, GivenUids DEF RunInv, Sent, Doing, JobRecords
<1>3. UidsOf(Sent) \in SUBSET (0..given)
  BY <1>2 DEF UidsOf
<1>4. UidsOf(Sent) \in SUBSET Nat /\ IsFiniteSet(UidsOf(Sent))
  <2>1. 0..given \subseteq Nat /\ IsFiniteSet(0..given)
    BY GivenUids, FS_Interval
  <2>2. IsFiniteSet(UidsOf(Sent))
    BY <1>3, <2>1, FS_Subset
  <2>. QED
    BY <1>3, <2>1, <2>2
<1>5. Command(Sent) = [uids |-> UidsOf(Sent), from |-> j.from, to |-> j.to]
  BY <1>1 DEF Command
<1>6. j.from \in Folders /\ j.to \in Folders
  BY <1>2 DEF JobRecords
<1>. QED
  BY <1>4, <1>5, <1>6

\* Jobs that come of a run's: the letter they name as new, if they name another, carries their move's Message-ID.
Follows(k, j) ==
  /\ k \in JobRecords /\ k.id = j.id /\ k.uid = j.uid /\ k.new <= given'
  /\ k.is \in {"found", "named"} =>
       \/ j.is \in {"found", "named"} /\ k.new = j.new
       \/ /\ k.new > 0
          /\ ~mixed' /\ (\A i \in run.jobs : JobNames(i)) /\ moves[k.id].state # "none" /\ moves'[k.id].state # "none" =>
               letters'[k.new].id = moves'[k.id].id

JobsInv(J) ==
  /\ J \subseteq JobRecords
  /\ \A k \in J : k.id <= asked /\ k.uid <= given /\ k.new <= given /\ (k.is \in {"found", "named"} => k.new > 0)

\* Jobs that come from the run's jobs by a change of stage name what those named.
LEMMA JobsFollow ==
  ASSUME Typed, setting' = setting, ServerInv', asked' \in Nat, LettersKept, MovesKept,
         NEW J, \A k \in J : \E j \in run.jobs : Follows(k, j)
  PROVE  /\ JobsInv(J)'
         /\ ~mixed' /\ (\A j \in run.jobs : JobNames(j)) => \A k \in J : JobNames(k)'
<1>1. given \in Nat /\ given' \in Nat /\ given <= given' /\ JobRecords' = JobRecords /\ MoveIds \subseteq Nat /\ asked \in Nat
  BY GivenUids, SameSizes, Sizes DEF Typed, BudgetInv, LettersKept, ServerInv
<1>2. ASSUME NEW k \in J
      PROVE  /\ k \in JobRecords /\ k.id <= asked' /\ k.uid <= given' /\ k.new <= given'
             /\ k.is \in {"found", "named"} => k.new > 0
             /\ ~mixed' /\ (\A j \in run.jobs : JobNames(j)) => JobNames(k)'
  <2>1. PICK j \in run.jobs : Follows(k, j)
    OBVIOUS
  <2>2. j \in JobRecords /\ j.id <= asked /\ j.uid <= given /\ j.new <= given /\ (j.is \in {"found", "named"} => j.new > 0)
    BY DEF Typed, RunInv, RunRecords
  <2>3. k \in JobRecords /\ k.id = j.id /\ k.uid = j.uid /\ k.new <= given'
    BY <2>1 DEF Follows
  <2>4. k.id \in MoveIds /\ k.id \in Nat /\ k.uid \in Nat /\ k.new \in Nat /\ j.new \in Nat
    BY <1>1, <2>2, <2>3 DEF JobRecords
  <2>5. k.id <= asked' /\ k.uid <= given'
    BY <1>1, <2>2, <2>3, <2>4 DEF MovesKept
  <2>6. k.is \in {"found", "named"} => k.new > 0
    BY <2>1, <2>2 DEF Follows
  <2>7. ASSUME ~mixed', \A i \in run.jobs : JobNames(i), moves'[k.id].state # "none"
        PROVE  /\ k.uid > 0 => letters'[k.uid].id = moves'[k.id].id
               /\ k.is \in {"found", "named"} => letters'[k.new].id = moves'[k.id].id
    <3>1. moves[k.id].state # "none" /\ moves'[k.id].id = moves[k.id].id
      BY <2>2, <2>3, <2>4, <2>7 DEF MovesKept
    <3>2. JobNames(j)
      BY <2>7
    <3>3. k.uid > 0 => letters'[k.uid].id = letters[k.uid].id
      BY <1>1, <2>2, <2>3, <2>4 DEF LettersKept
    <3>4. j.is \in {"found", "named"} => letters'[j.new].id = letters[j.new].id
      BY <1>1, <2>2, <2>4 DEF LettersKept
    <3>5. k.is \in {"found", "named"} => letters'[k.new].id = moves'[k.id].id
      BY <2>1, <2>3, <2>7, <3>1, <3>2, <3>4 DEF Follows, JobNames
    <3>. QED
      BY <2>3, <3>1, <3>2, <3>3, <3>5 DEF JobNames
  <2>. QED
    BY <2>3, <2>5, <2>6, <2>7 DEF JobNames
<1>. QED
  BY <1>1, <1>2 DEF JobsInv

\* No answer: the command ran, in part or not at all, or its copy is marked.
LEMMA NoAnswer ==
  ASSUME Typed, ServerInv', LettersKept, run.at = "sent", Unanswered, UNCHANGED <<setting, moves, asked>>, mixed' \in BOOLEAN,
         \/ \A v \in Uids : v > given => ~letters'[v].live
         \/ mixed'
         \/ Executes(Command(Sent), FALSE)
  PROVE  RunInv' /\ (~mixed' /\ RunNames => RunNames')
<1>0. PICK c : c = Command(Sent)
  OBVIOUS
<1>1. setting \in Settings /\ ServerInv /\ RunInv /\ setting' = setting /\ Uids' = Uids /\ LastUid' = LastUid
  BY SameSizes DEF Typed, BudgetInv
<1>2. c.to \in Folders /\ c.uids = UidsOf(Sent)
  BY <1>0, <1>1, CommandOut
<1>3. run' = [run EXCEPT !.at = "searching"] /\ run \in RunRecords
  BY <1>1 DEF Unanswered, RunInv
<1>4. run'.at = "searching" /\ run'.jobs = run.jobs /\ run'.before = run.before /\ run' \in RunRecords'
  <2>1. RunRecords' = RunRecords
    BY <1>1, SameSizes
  <2>. QED
    BY <1>3, <2>1 DEF RunRecords
<1>5. Sent' = Sent /\ UidsOf(Sent)' = UidsOf(Sent) /\ Command(Sent)' = c
  BY <1>0, <1>4 DEF Sent, Doing, UidsOf, Command
<1>6. MovesKept /\ asked' \in Nat /\ asked \in Nat
  BY Sizes DEF Typed, BudgetInv, MovesKept
<1>7. \A k \in run.jobs : Follows(k, k)
  <2>1. given <= given' /\ given \in Nat /\ given' \in Nat /\ \A k \in run.jobs : k \in JobRecords /\ k.new \in Nat
    BY <1>1, GivenUids DEF LettersKept, ServerInv, RunInv, RunRecords, JobRecords
  <2>. QED
    BY <1>1, <2>1 DEF Follows, RunInv
<1>8. JobsInv(run.jobs)' /\ (~mixed' /\ (\A j \in run.jobs : JobNames(j)) => \A k \in run.jobs : JobNames(k)')
  <2>1. PICK J : J = run.jobs
    OBVIOUS
  <2>2. JobsInv(J)' /\ (~mixed' /\ (\A j \in run.jobs : JobNames(j)) => \A k \in J : JobNames(k)')
    BY <1>1, <1>6, <1>7, <2>1, JobsFollow
  <2>. QED
    BY <1>4, <2>1, <2>2 DEF JobsInv
<1>9. RunInv'
  BY <1>1, <1>4, <1>5, <1>8 DEF RunInv, JobsInv, Sent
<1>10. ASSUME ~mixed', RunNames PROVE RunNames'
  <2>1. \A k \in run'.jobs : JobNames(k)'
    BY <1>4, <1>8, <1>10 DEF RunNames
  <2>2. NothingCame'
    BY <1>4 DEF NothingCame
  <2>3. CountsInv'
    <3>. SUFFICES ASSUME run.before > 0
                  PROVE  \E M \in SUBSET UidsOf(Sent), base \in Nat : Counted(c, M, base)'
      BY <1>4, <1>5 DEF CountsInv
    <3>0. given \in Nat /\ given' \in Nat /\ given <= given' /\ 1..given' \subseteq Uids /\ run.before \in Nat
      BY <1>1, <1>3, GivenUids, Sizes DEF LettersKept, ServerInv, RunRecords
    <3>1. \A v \in 1..given : letters[v].live /\ letters[v].in = c.to => v < run.before
      BY <1>0, <1>10 DEF RunNames, NothingCame, Live
    <3>2. CASE \A v \in Uids : v > given => ~letters'[v].live
      <4>1. \A v \in 1..given' : letters'[v].live /\ letters'[v].in = c.to => v < run.before
        BY <3>0, <3>1, <3>2 DEF LettersKept
      <4>2. Counted(c, {}, 0)'
        BY <1>4, <3>0, <4>1 DEF Counted, Live
      <4>. QED
        BY <4>2
    <3>3. CASE Executes(c, FALSE)
      <4>. DEFINE M == Moved(c)
      <4>1. /\ M \subseteq 1..given
            /\ \A u \in M : Rank(u, M) \in Nat /\ letters'[NewUid(u, c)].id = letters[u].id /\ ~letters'[u].live
            /\ \A v \in Uids : v > given /\ letters'[v].live => \E u \in M : v = NewUid(u, c)
        BY <1>1, <1>2, <3>3, Executed
      <4>2. M \in SUBSET UidsOf(Sent)
        BY <1>2 DEF Moved
      <4>3. \A u \in M : NewUid(u, c) = given + 1 + Rank(u, M)
        BY DEF NewUid
      <4>4. PICK W \in SUBSET UidsOf(Sent) : W = M
        BY <4>2
      <4>. HIDE DEF M
      <4>5. 0 \notin W /\ W \cap Live(c.from)' = {}
        BY <4>1, <4>4 DEF Live
      <4>6. ASSUME NEW v \in Live(c.to)', v >= run'.before
            PROVE  \E u \in W : v = given + 1 + Rank(u, W) /\ letters'[v].id = letters'[u].id
        <5>1. v \in 1..given' /\ letters'[v].live /\ letters'[v].in = c.to
          BY <4>6 DEF Live
        <5>2. v > given
          BY <1>4, <3>0, <3>1, <4>6, <5>1 DEF LettersKept
        <5>3. PICK u \in M : v = NewUid(u, c)
          BY <3>0, <4>1, <5>1, <5>2
        <5>4. letters'[v].id = letters'[u].id
          BY <4>1, <5>3 DEF LettersKept
        <5>. QED
          BY <4>3, <4>4, <5>3, <5>4
      <4>7. PICK base \in Nat : base = given + 1
        BY <3>0
      <4>8. Counted(c, W, base)'
        BY <4>5, <4>6, <4>7 DEF Counted
      <4>. QED
        BY <4>8
    <3>. QED
      BY <1>0, <1>10, <3>2, <3>3
  <2>. QED
    BY <2>1, <2>2, <2>3 DEF RunNames
<1>. QED
  BY <1>9, <1>10

\* Its jobs are what becomes of the run's, and the command is done.
LEMMA RunNext ==
  ASSUME Typed, setting' = setting, ServerInv', asked' \in Nat, LettersKept, MovesKept,
         run'.at \notin {"sent", "searching"}, run' \in RunRecords,
         \A k \in run'.jobs : \E j \in run.jobs : Follows(k, j)
  PROVE  RunInv' /\ (~mixed' /\ RunNames => RunNames')
<1>1. PICK J : J = run'.jobs
  OBVIOUS
<1>2. JobsInv(J)' /\ (~mixed' /\ (\A j \in run.jobs : JobNames(j)) => \A k \in J : JobNames(k)')
  BY <1>1, JobsFollow
<1>3. RunInv'
  BY <1>1, <1>2, SameSizes DEF RunInv, JobsInv
<1>4. CountsInv' /\ NothingCame'
  BY DEF CountsInv, NothingCame
<1>. QED
  BY <1>1, <1>2, <1>3, <1>4 DEF RunNames

\* The answer names the new letters.
LEMMA AnswerNamed ==
  ASSUME Typed, ServerInv', UNCHANGED <<setting, moves, asked, mixed>>, run.at = "sent", NEW keep \in BOOLEAN,
         Executes(Command(Sent), keep), NEW is \in {"named", "retained"}, Answered(is, Command(Sent))
  PROVE  RunInv' /\ (~mixed' /\ RunNames => RunNames')
<1>0. PICK c : c = Command(Sent)
  OBVIOUS
<1>1. setting \in Settings /\ ServerInv /\ RunInv /\ setting' = setting /\ run \in RunRecords /\ run.jobs \subseteq JobRecords
  BY DEF Typed, BudgetInv, RunInv, RunRecords
<1>2. c.to \in Folders
  BY <1>0, <1>1, CommandOut
<1>3. /\ LettersKept
      /\ \A u \in Moved(c) : /\ NewUid(u, c) \in Uids /\ NewUid(u, c) > given /\ NewUid(u, c) <= given'
                             /\ letters'[NewUid(u, c)].id = letters[u].id
      /\ Moved(c) \subseteq 1..given
  BY <1>0, <1>1, <1>2, Executed
<1>4. MovesKept /\ asked' \in Nat
  BY Sizes DEF Typed, BudgetInv, MovesKept
<1>5. given \in Nat /\ given' \in Nat /\ given <= given' /\ Uids \subseteq Nat
  BY <1>1, <1>3, GivenUids, Sizes DEF LettersKept, ServerInv
<1>. DEFINE Next_(j) == IF j.is # "sent" THEN j
                        ELSE IF j.uid \notin Moved(c) THEN [j EXCEPT !.is = "failed"]
                        ELSE [j EXCEPT !.is = is, !.new = IF is = "named" THEN NewUid(j.uid, c) ELSE 0]
<1>6. run' = [run EXCEPT !.at = "handling", !.jobs = {Next_(j) : j \in run.jobs}]
  BY <1>0 DEF Answered
<1>7. ASSUME NEW j \in run.jobs PROVE Follows(Next_(j), j) /\ Next_(j) \in JobRecords
  <2>1. j \in JobRecords /\ j.new <= given /\ j.new \in Nat
    BY <1>1 DEF RunInv, JobRecords
  <2>2. CASE j.is # "sent"
    BY <1>5, <2>1, <2>2 DEF Follows
  <2>3. CASE j.is = "sent" /\ j.uid \notin Moved(c)
    <3>1. PICK k : k = [j EXCEPT !.is = "failed"]
      OBVIOUS
    <3>2. k \in JobRecords /\ k.id = j.id /\ k.uid = j.uid /\ k.new = j.new /\ k.is = "failed"
      BY <2>1, <3>1 DEF JobRecords
    <3>. QED
      BY <1>5, <2>1, <2>3, <3>1, <3>2 DEF Follows
  <2>4. CASE j.is = "sent" /\ j.uid \in Moved(c)
    <3>1. PICK n \in Nat : n = IF is = "named" THEN NewUid(j.uid, c) ELSE 0
      BY <1>3, <1>5, <2>4
    <3>2. PICK k : k = [j EXCEPT !.is = is, !.new = n]
      OBVIOUS
    <3>3. k \in JobRecords /\ k.id = j.id /\ k.uid = j.uid /\ k.new = n /\ k.is = is
      BY <2>1, <3>2 DEF JobRecords
    <3>4. is = "named" => n > 0 /\ n <= given' /\ letters'[n].id = letters[j.uid].id /\ j.uid > 0
      BY <1>3, <1>5, <2>4, <3>1
    <3>5. n <= given'
      BY <1>5, <3>1, <3>4
    <3>6. is = "named" /\ JobNames(j) /\ moves[j.id].state # "none" => letters'[n].id = moves'[j.id].id
      BY <3>4 DEF JobNames
    <3>7. Follows(k, j)
      BY <3>3, <3>4, <3>5, <3>6 DEF Follows
    <3>. QED
      BY <2>4, <3>1, <3>2, <3>3, <3>7
  <2>. QED
    BY <2>2, <2>3, <2>4
<1>. HIDE DEF Next_
<1>8. run' \in RunRecords /\ run'.at = "handling" /\ run'.jobs = {Next_(j) : j \in run.jobs}
  BY <1>1, <1>6, <1>7 DEF RunRecords
<1>. QED
  BY <1>1, <1>3, <1>4, <1>7, <1>8, RunNext

\* The server runs the command, and names the new uids or not.
LEMMA StepServerMoves ==
  ASSUME IInv, ServerMoves
  PROVE  IInv'
<1>0. PICK c : c = Command(Sent)
  OBVIOUS
<1>1. /\ setting \in Settings /\ ServerInv /\ RunInv /\ run.at = "sent"
      /\ UNCHANGED <<setting, late, mixed, rows, moves, asked, sync, expunge, asks>>
  BY DEF IInv, Typed, BudgetInv, ServerMoves, panel, memory, budget
<1>2. c.to \in Folders
  BY <1>0, <1>1, CommandOut
<1>3. PICK keep \in BOOLEAN :
        /\ Executes(c, keep)
        /\ \/ \E is \in {"named", "retained"} : Answered(is, c)
           \/ Unanswered /\ ~keep
  BY <1>0 DEF ServerMoves
<1>4. ServerInv' /\ LettersKept
  <2>1. /\ letters' \in [Uids -> Places] /\ given' \in 0..LastUid
        /\ \A u \in Uids : u > given' => ~letters'[u].live
        /\ LettersKept
    BY <1>1, <1>2, <1>3, Executed
  <2>. QED
    BY <1>1, <2>1, SameSizes DEF ServerInv
<1>5. MovesKept /\ asked' \in Nat /\ asked \in Nat /\ mixed' \in BOOLEAN /\ BudgetInv'
  BY <1>1, Sizes, SameSizes DEF IInv, Typed, BudgetInv, MovesKept
<1>6. RunInv' /\ (~mixed' /\ RunNames => RunNames')
  <2>1. CASE \E is \in {"named", "retained"} : Answered(is, c)
    BY <1>0, <1>1, <1>3, <1>4, <2>1, AnswerNamed DEF IInv
  <2>2. CASE Unanswered /\ ~keep
    <3>1. Executes(c, FALSE)
      BY <1>3, <2>2
    <3>. QED
      BY <1>0, <1>1, <1>4, <1>5, <2>2, <3>1, NoAnswer DEF IInv
  <2>. QED
    BY <1>3, <2>1, <2>2
<1>7. PanelInv' /\ (NamesInv => NamesInv') /\ SyncInv' /\ (SyncNames => SyncNames')
  BY <1>1, <1>4, <1>5, PanelKept, SyncKept DEF IInv, Typed
<1>. QED
  BY <1>1, <1>4, <1>5, <1>6, <1>7, ClaimKept DEF IInv, Typed, Names

\* The command is refused, or its answer is lost, or it is cut off.
LEMMA StepCommandFails ==
  ASSUME IInv, CommandFails
  PROVE  IInv'
<1>0. PICK c : c = Command(Sent)
  OBVIOUS
<1>1. /\ setting \in Settings /\ ServerInv /\ RunInv /\ run.at = "sent" /\ Unanswered
      /\ UNCHANGED <<setting, rows, moves, asked, sync, expunge, asks>>
  BY DEF IInv, Typed, BudgetInv, CommandFails, panel, memory, Fault
<1>2. c.to \in Folders /\ c \in [uids : SUBSET Nat, from : Folders, to : Folders]
  BY <1>0, <1>1, CommandOut
<1>3. /\ ServerInv' /\ LettersKept /\ mixed' \in BOOLEAN /\ (mixed => mixed')
      /\ \/ \A v \in Uids : v > given => ~letters'[v].live
         \/ mixed'
         \/ Executes(c, FALSE)
  <2>1. CASE UNCHANGED <<letters, given, mixed>> /\ (late' = late \/ late' = late \cup {c})
    <3>1. given \in Nat
      BY <1>1, GivenUids
    <3>2. LettersKept /\ \A v \in Uids : v > given => ~letters'[v].live
      BY <1>1, <2>1, <3>1 DEF ServerInv, LettersKept
    <3>3. late' \subseteq [uids : SUBSET Nat, from : Folders, to : Folders]
      BY <1>1, <1>2, <2>1 DEF ServerInv
    <3>4. ServerInv'
      BY <1>1, <2>1, <3>3, SameSizes DEF ServerInv
    <3>. QED
      BY <2>1, <3>2, <3>4 DEF IInv, Typed, BudgetInv
  <2>2. CASE Executes(c, "retained" \in Answers) /\ mixed' = (mixed \/ "retained" \in Answers) /\ late' = late
    <3>. DEFINE keep == "retained" \in Answers
    <3>1. keep \in BOOLEAN
      OBVIOUS
    <3>10. Executes(c, keep) /\ mixed' = (mixed \/ keep) /\ late' = late
      BY <2>2
    <3>. HIDE DEF keep
    <3>2. /\ letters' \in [Uids -> Places] /\ given' \in 0..LastUid
          /\ \A u \in Uids : u > given' => ~letters'[u].live
          /\ LettersKept
      BY <1>1, <1>2, <3>1, <3>10, Executed
    <3>3. ServerInv'
      BY <1>1, <3>2, <3>10, SameSizes DEF ServerInv
    <3>4. mixed' \in BOOLEAN /\ (mixed => mixed') /\ (keep => mixed')
      BY <3>1, <3>10 DEF IInv, Typed, BudgetInv
    <3>5. CASE keep
      BY <3>2, <3>3, <3>4, <3>5
    <3>6. CASE ~keep
      <4>1. Executes(c, FALSE)
        <5>1. keep = FALSE
          BY <3>1, <3>6
        <5>. QED
          BY <3>10, <5>1
      <4>. QED
        BY <3>2, <3>3, <3>4, <4>1
    <3>. QED
      BY <3>5, <3>6
  <2>. QED
    BY <1>0, <2>1, <2>2 DEF CommandFails, server
<1>4. MovesKept /\ asked' \in Nat /\ asked \in Nat /\ BudgetInv'
  BY <1>1, <1>3, Sizes, SameSizes DEF IInv, Typed, BudgetInv, MovesKept
<1>5. RunInv' /\ (~mixed' /\ RunNames => RunNames')
  BY <1>0, <1>1, <1>3, NoAnswer DEF IInv
<1>6. PanelInv' /\ (NamesInv => NamesInv') /\ SyncInv' /\ (SyncNames => SyncNames')
  BY <1>1, <1>3, <1>4, PanelKept, SyncKept DEF IInv, Typed
<1>. QED
  BY <1>1, <1>3, <1>4, <1>5, <1>6, ClaimKept DEF IInv, Typed, Names

-------------------------------------------------------------------------------
(* The states of moves, and the worker's run *)

\* Moves change but in their state, and how often they were tried; rows may be new to them.
MovesSame ==
  /\ moves' \in [MoveIds -> MoveRecords]
  /\ \A m \in MoveIds :
       /\ moves'[m].state = "none" <=> moves[m].state = "none"
       /\ moves'[m].row = moves[m].row /\ moves'[m].id = moves[m].id /\ moves'[m].uid = moves[m].uid
       /\ moves'[m].pred = moves[m].pred

\* New states of moves alone keep what the panel names.
LEMMA PanelStates ==
  ASSUME Typed, MovesSame, UNCHANGED <<setting, letters, given, rows, asked>>
  PROVE  PanelInv' /\ (NamesInv => NamesInv') /\ MovesKept
<1>1. RowIds' = RowIds /\ MoveIds' = MoveIds /\ RowRecords' = RowRecords /\ MoveRecords' = MoveRecords /\ asked \in Nat
  BY Sizes, SameSizes DEF Typed, BudgetInv
<1>2. PanelInv /\ \A m \in MoveIds : moves[m] \in MoveRecords
  BY DEF Typed, PanelInv
<1>3. PanelInv'
  BY <1>1, <1>2 DEF PanelInv, MovesSame
<1>4. MovesKept
  BY <1>1, <1>2 DEF MovesKept, MovesSame
<1>5. ASSUME NamesInv PROVE NamesInv'
  <2>1. \A r \in RowIds : rows'[r].uid > 0 => letters'[rows'[r].uid].id = rows'[r].id
    BY <1>5 DEF NamesInv
  <2>2. ASSUME NEW m \in MoveIds, moves'[m].state # "none"
        PROVE  /\ moves'[m].uid > 0 => letters'[moves'[m].uid].id = moves'[m].id
               /\ rows'[moves'[m].row].uid = -m => rows'[moves'[m].row].id = moves'[m].id
               /\ \A n \in MoveIds : moves'[n].state # "none" /\ moves'[n].pred = m => moves'[n].id = moves'[m].id
    BY <1>5, <2>2 DEF NamesInv, MovesSame
  <2>. QED
    BY <1>1, <2>1, <2>2 DEF NamesInv
<1>. QED
  BY <1>3, <1>4, <1>5

\* The two of them, with the server as it is.
LEMMA WorkerStep ==
  ASSUME IInv, UNCHANGED <<setting, letters, given, mixed, rows, asked, asks, sync, expunge>>, ServerInv', MovesSame,
         RunInv', ~mixed' /\ RunNames => RunNames'
  PROVE  IInv'
<1>1. LettersKept /\ MovesKept /\ PanelInv' /\ (NamesInv => NamesInv')
  <2>1. given \in Nat
    BY GivenUids DEF IInv, Typed, BudgetInv
  <2>. QED
    BY <2>1, PanelStates DEF IInv, LettersKept
<1>2. BudgetInv' /\ asked \in Nat /\ asked' \in Nat /\ setting \in Settings
  BY Sizes, SameSizes DEF IInv, Typed, BudgetInv
<1>3. SyncInv' /\ (SyncNames => SyncNames')
  BY <1>1, <1>2, SyncKept DEF IInv, Typed
<1>. QED
  BY <1>1, <1>2, <1>3, ClaimKept DEF IInv, Typed, Names

\* Moves that stay have their rows, letters and predecessors.
LEMMA MovesUnchanged ==
  ASSUME Typed, UNCHANGED moves
  PROVE  MovesSame
BY DEF Typed, PanelInv, MovesSame

\* The worker's steps in the panel keep what is said of the server.
LEMMA ServerUnchanged ==
  ASSUME Typed, UNCHANGED <<setting, letters, given, late>>
  PROVE  ServerInv' /\ LettersKept
BY SameLetters DEF Typed, BudgetInv

\* A run that is over names nothing.
LEMMA RunEnds ==
  ASSUME run' = NoRun
  PROVE  RunInv' /\ RunNames'
<1>1. run'.at = "idle" /\ run'.jobs = {} /\ run'.before = 0 /\ run' = [at |-> "idle", jobs |-> {}, before |-> 0]
  BY DEF NoRun
<1>2. run' \in RunRecords'
  BY <1>1 DEF RunRecords
<1>. QED
  BY <1>1, <1>2 DEF RunInv, RunNames, CountsInv, NothingCame

\* The sweep of a move changes its state only.
LEMMA SweptStates ==
  ASSUME Typed, NEW m \in MoveIds
  PROVE  /\ Swept(moves[m]) \in MoveRecords
         /\ Swept(moves[m]).state = "none" <=> moves[m].state = "none"
         /\ Swept(moves[m]).row = moves[m].row /\ Swept(moves[m]).id = moves[m].id /\ Swept(moves[m]).uid = moves[m].uid
         /\ Swept(moves[m]).pred = moves[m].pred
<1>1. moves[m] \in MoveRecords
  BY DEF Typed, PanelInv
<1>. QED
  BY <1>1 DEF Swept, MoveRecords, States

\* The sweep takes up moves that no run has in hand.
LEMMA StepSweep ==
  ASSUME IInv, Sweep
  PROVE  IInv'
<1>1. UNCHANGED <<setting, letters, given, late, mixed, rows, asked, asks, run, sync, expunge>>
      /\ moves' = [m \in MoveIds |-> Swept(moves[m])]
  BY DEF Sweep, server, memory, processes, budget
<1>2. MovesSame
  BY <1>1, SweptStates DEF IInv, MovesSame
<1>3. ServerInv' /\ LettersKept /\ MovesKept
  BY <1>1, <1>2, ServerUnchanged, PanelStates DEF IInv
<1>4. RunInv' /\ (~mixed' /\ RunNames => RunNames')
  <2>1. RunInv' /\ (RunNames => RunNames')
    <3>1. \A v \in Uids : v > given => ~letters'[v].live
      BY <1>1 DEF IInv, Typed, ServerInv
    <3>. QED
      BY <1>1, <1>3, <3>1, RunKept, Sizes DEF IInv, Typed, BudgetInv
  <2>. QED
    BY <2>1
<1>. QED
  BY <1>1, <1>2, <1>3, <1>4, WorkerStep

\* The mailbox was busy: the moves go back to the queue.
LEMMA StepBusy ==
  ASSUME IInv, Busy
  PROVE  IInv'
<1>1. UNCHANGED <<setting, letters, given, late, mixed, rows, asked, asks, sync, expunge>> /\ run' = NoRun
      /\ moves' = Released({j.id : j \in run.jobs})
  BY DEF Busy, server, memory, Fault
<1>2. MovesSame
  <2>. DEFINE S == {j.id : j \in run.jobs}
  <2>1. moves' = [m \in MoveIds |-> IF m \in S /\ moves[m].state = "moving" THEN [moves[m] EXCEPT !.state = "queued"]
                                    ELSE moves[m]]
    BY <1>1 DEF Released
  <2>. HIDE DEF S
  <2>2. \A m \in MoveIds : moves[m] \in MoveRecords
    BY DEF IInv, Typed, PanelInv
  <2>. QED
    BY <2>1, <2>2 DEF MovesSame, MoveRecords, States
<1>. QED
  BY <1>1, <1>2, ServerUnchanged, RunEnds, WorkerStep DEF IInv

\* A run fails: its moves are swept, now or later.
LEMMA StepRunFails ==
  ASSUME IInv, RunFails
  PROVE  IInv'
<1>1. UNCHANGED <<setting, letters, given, late, mixed, rows, asked, asks, sync, expunge>> /\ run' = NoRun
  BY DEF RunFails, server, memory, Fault
<1>2. MovesSame
  <2>. DEFINE S == {j.id : j \in run.jobs}
  <2>1. moves' = [m \in MoveIds |-> IF m \in S THEN Swept(moves[m]) ELSE moves[m]] \/ UNCHANGED moves
    BY DEF RunFails
  <2>. HIDE DEF S
  <2>2. CASE UNCHANGED moves
    BY <2>2, MovesUnchanged DEF IInv
  <2>3. CASE moves' = [m \in MoveIds |-> IF m \in S THEN Swept(moves[m]) ELSE moves[m]]
    <3>1. \A m \in MoveIds : moves[m] \in MoveRecords
      BY DEF IInv, Typed, PanelInv
    <3>. QED
      BY <2>3, <3>1, SweptStates DEF IInv, MovesSame
  <2>. QED
    BY <2>1, <2>2, <2>3
<1>. QED
  BY <1>1, <1>2, ServerUnchanged, RunEnds, WorkerStep DEF IInv

\* Jobs that the run makes of moves: they name what the moves name.
LEMMA JobsMade ==
  ASSUME Typed, setting' = setting, NEW S \in SUBSET {m \in MoveIds : moves[m].state # "none"}, NEW is \in {"look", "claimed"},
         NEW stage \in {"looking", "claimed"}, run' = [NoRun EXCEPT !.at = stage, !.jobs = {JobOf(m, is) : m \in S}],
         UNCHANGED <<letters, given, asked>>, MovesSame
  PROVE  RunInv' /\ (NamesInv => RunNames')
<1>1. MoveIds \subseteq Nat /\ given \in Nat /\ asked \in Nat /\ RunRecords' = RunRecords
  BY Sizes, SameSizes, GivenUids DEF Typed, BudgetInv
<1>2. ASSUME NEW m \in S
      PROVE  /\ JobOf(m, is) \in JobRecords /\ JobOf(m, is).id = m /\ m <= asked
             /\ JobOf(m, is).uid = moves[m].uid /\ JobOf(m, is).uid <= given /\ JobOf(m, is).new = 0 /\ JobOf(m, is).is = is
  <2>1. moves[m] \in MoveRecords /\ moves[m].uid <= given /\ m <= asked
    BY DEF Typed, PanelInv
  <2>. QED
    BY <2>1 DEF JobOf, JobRecords, MoveRecords
<1>3. PICK J : J = {JobOf(m, is) : m \in S}
  OBVIOUS
<1>4. run' = [at |-> stage, jobs |-> J, before |-> 0]
  BY <1>3 DEF NoRun
<1>5. J \subseteq JobRecords
  BY <1>2, <1>3
<1>6. RunInv'
  <2>1. run' \in RunRecords /\ run'.jobs = J /\ run'.at = stage
    <3>1. J \in SUBSET JobRecords /\ stage \in {"idle", "looking", "claimed", "sent", "searching", "handling"}
      BY <1>5
    <3>. QED
      BY ONLY <1>4, <3>1, 0 \in Nat DEF RunRecords
  <2>2. \A j \in J : j.id <= asked /\ j.uid <= given /\ j.new <= given /\ j.is = is
    BY <1>1, <1>2, <1>3
  <2>. QED
    BY <1>1, <2>1, <2>2 DEF RunInv
<1>7. ASSUME NamesInv PROVE RunNames'
  <2>1. ASSUME NEW j \in J PROVE JobNames(j)'
    <3>1. PICK m \in S : j = JobOf(m, is)
      BY <1>3
    <3>2. j.id = m /\ j.uid = moves[m].uid /\ j.is = is
      BY <1>2, <3>1
    <3>. QED
      BY <1>7, <3>2 DEF JobNames, NamesInv, MovesSame
  <2>. QED
    BY ONLY <1>4, <2>1, stage \in {"looking", "claimed"} DEF RunNames, CountsInv, NothingCame
<1>. QED
  BY <1>6, <1>7

\* A run begins with what awaits its uid.
LEMMA StepRunBegins ==
  ASSUME IInv, RunBegins
  PROVE  IInv'
<1>1. UNCHANGED <<setting, letters, given, late, mixed, rows, moves, asked, asks, sync, expunge>>
      /\ run' = [NoRun EXCEPT !.at = "looking", !.jobs = {JobOf(m, "look") : m \in Awaiting}]
  BY DEF RunBegins, server, panel, memory, budget
<1>2. Awaiting \in SUBSET {m \in MoveIds : moves[m].state # "none"}
  BY DEF Awaiting
<1>3. MovesSame /\ ServerInv'
  BY <1>1, MovesUnchanged, ServerUnchanged DEF IInv
<1>4. RunInv' /\ (NamesInv => RunNames')
  BY <1>1, <1>2, <1>3, JobsMade DEF IInv
<1>5. ~mixed' => NamesInv
  BY <1>1 DEF IInv, Names
<1>. QED
  BY <1>1, <1>3, <1>4, <1>5, WorkerStep

\* The run claims what is queued.
LEMMA StepClaim ==
  ASSUME IInv, Claim
  PROVE  IInv'
<1>1. UNCHANGED <<setting, letters, given, late, mixed, rows, asked, asks, sync, expunge>>
      /\ moves' = [m \in MoveIds |-> IF m \in Queued THEN [moves[m] EXCEPT !.state = "moving", !.sent = FALSE] ELSE moves[m]]
  BY DEF Claim, server, memory, budget
<1>2. Queued \in SUBSET {m \in MoveIds : moves[m].state # "none"}
  BY DEF Queued
<1>3. MovesSame
  <2>1. \A m \in MoveIds : moves[m] \in MoveRecords
    BY DEF IInv, Typed, PanelInv
  <2>2. \A m \in Queued : moves[m].state = "queued"
    BY DEF Queued
  <2>3. ASSUME NEW m \in MoveIds
        PROVE  /\ moves'[m] \in MoveRecords
               /\ moves'[m].state = "none" <=> moves[m].state = "none"
               /\ moves'[m].row = moves[m].row /\ moves'[m].id = moves[m].id /\ moves'[m].uid = moves[m].uid
               /\ moves'[m].pred = moves[m].pred
    <3>1. PICK b \in BOOLEAN : b = FALSE
      OBVIOUS
    <3>2. moves'[m] = IF m \in Queued THEN [moves[m] EXCEPT !.state = "moving", !.sent = b] ELSE moves[m]
      BY <1>1, <3>1
    <3>. QED
      BY <2>1, <2>2, <3>2 DEF MoveRecords, States
  <2>. QED
    BY <1>1, <2>3 DEF MovesSame
<1>4. ServerInv'
  BY <1>1, ServerUnchanged DEF IInv
<1>5. RunInv' /\ (NamesInv => RunNames')
  <2>1. CASE run' = NoRun
    BY <2>1, RunEnds
  <2>2. CASE run' = [NoRun EXCEPT !.at = "claimed", !.jobs = {JobOf(m, "claimed") : m \in Queued}]
    BY <1>1, <1>2, <1>3, <2>2, JobsMade DEF IInv
  <2>. QED
    BY <2>1, <2>2 DEF Claim
<1>6. ~mixed' => NamesInv
  BY <1>1 DEF IInv, Names
<1>. QED
  BY <1>1, <1>3, <1>4, <1>5, <1>6, WorkerStep

\* The command goes out, with the first uid that is not yet given in its destination.
LEMMA StepSend ==
  ASSUME IInv, NEW j \in run.jobs, Send(j)
  PROVE  IInv'
<1>0. PICK G : G = SameGroup(j)
  OBVIOUS
<1>1. PICK before \in {0, given + 1} :
        /\ UNCHANGED <<setting, letters, given, late, mixed, rows, asked, asks, sync, expunge>>
        /\ moves' = [m \in MoveIds |-> IF (\E k \in G : k.id = m) /\ moves[m].state = "moving"
                                       THEN [moves[m] EXCEPT !.sent = TRUE] ELSE moves[m]]
        /\ run' = [at |-> "sent", before |-> before,
                   jobs |-> (run.jobs \ G) \cup {[k EXCEPT !.is = "sent"] : k \in G}]
  BY <1>0 DEF Send, server, memory, budget, Fault
<1>2. G \subseteq run.jobs /\ j \in G /\ run.jobs \subseteq JobRecords
  BY <1>0 DEF SameGroup, IInv, Typed, RunInv, RunRecords
<1>3. given \in Nat /\ asked \in Nat /\ setting \in Settings
  BY Sizes, GivenUids DEF IInv, Typed, BudgetInv
<1>4. MovesSame
  <2>1. \A m \in MoveIds : moves[m] \in MoveRecords
    BY DEF IInv, Typed, PanelInv
  <2>2. ASSUME NEW m \in MoveIds
        PROVE  /\ moves'[m] \in MoveRecords
               /\ moves'[m].state = "none" <=> moves[m].state = "none"
               /\ moves'[m].row = moves[m].row /\ moves'[m].id = moves[m].id /\ moves'[m].uid = moves[m].uid
               /\ moves'[m].pred = moves[m].pred
    <3>1. PICK b \in BOOLEAN : b = TRUE
      OBVIOUS
    <3>2. moves'[m] \in {[moves[m] EXCEPT !.sent = b], moves[m]}
      BY <1>1, <3>1
    <3>. QED
      BY <2>1, <3>2 DEF MoveRecords
  <2>. QED
    BY <1>1, <2>2 DEF MovesSame
<1>5. ServerInv' /\ LettersKept /\ MovesKept
  BY <1>1, <1>4, ServerUnchanged, PanelStates DEF IInv
<1>. DEFINE J == (run.jobs \ G) \cup {[k EXCEPT !.is = "sent"] : k \in G}
<1>6. ASSUME NEW k \in J PROVE k \in JobRecords /\ \E i \in run.jobs : Follows(k, i)
  <2>1. CASE k \in run.jobs
    <3>1. k \in JobRecords /\ k.new <= given
      BY <1>2, <2>1 DEF IInv, Typed, RunInv
    <3>2. Follows(k, k)
      BY <1>1, <3>1 DEF Follows
    <3>. QED
      BY <2>1, <3>1, <3>2
  <2>2. CASE \E i \in G : k = [i EXCEPT !.is = "sent"]
    <3>1. PICK i \in G : k = [i EXCEPT !.is = "sent"]
      BY <2>2
    <3>2. i \in run.jobs /\ i \in JobRecords /\ i.new <= given
      BY <1>2 DEF IInv, Typed, RunInv
    <3>3. k \in JobRecords /\ k.id = i.id /\ k.uid = i.uid /\ k.new = i.new /\ k.is = "sent"
      BY <3>1, <3>2 DEF JobRecords
    <3>4. Follows(k, i)
      BY <1>1, <3>2, <3>3 DEF Follows
    <3>. QED
      BY <3>2, <3>3, <3>4
  <2>. QED
    BY <2>1, <2>2
<1>7. PICK K : K = J
  OBVIOUS
<1>8. JobsInv(K)' /\ (~mixed' /\ (\A i \in run.jobs : JobNames(i)) => \A k \in K : JobNames(k)')
  <2>. HIDE DEF J
  <2>. QED
    BY <1>1, <1>3, <1>5, <1>6, <1>7, JobsFollow DEF IInv
<1>9. /\ run' = [at |-> "sent", before |-> before, jobs |-> K]
      /\ [j EXCEPT !.is = "sent"] \in K /\ [j EXCEPT !.is = "sent"].is = "sent"
  <2>1. [j EXCEPT !.is = "sent"].is = "sent"
    BY <1>2 DEF JobRecords
  <2>. QED
    BY <1>1, <1>2, <1>7, <2>1
<1>10. run'.at = "sent" /\ run'.before = before /\ run'.jobs = K /\ before \in Nat
  BY <1>3, <1>9
<1>. HIDE DEF J
<1>11. RunInv'
  <2>1. RunRecords' = RunRecords /\ JobRecords' = JobRecords
    BY <1>1, SameSizes
  <2>2. K \subseteq JobRecords
    BY <1>8, <2>1 DEF JobsInv
  <2>3. run' \in RunRecords
    BY ONLY <1>9, <1>10, <2>2 DEF RunRecords
  <2>4. Doing("sent")' # {}
    BY <1>9, <1>10 DEF Doing
  <2>. QED
    BY <1>8, <1>10, <2>1, <2>3, <2>4 DEF RunInv, JobsInv
<1>12. ASSUME ~mixed', RunNames PROVE RunNames'
  <2>1. \A k \in run'.jobs : JobNames(k)'
    BY <1>8, <1>10, <1>12 DEF RunNames
  <2>2. NothingCame'
    BY <1>1, <1>3, <1>10 DEF NothingCame, Live
  <2>. QED
    BY <1>10, <2>1, <2>2 DEF RunNames, CountsInv
<1>. QED
  BY <1>1, <1>4, <1>5, <1>11, <1>12, WorkerStep

\* The searches pair letters with their copies.
LEMMA Paired ==
  ASSUME Typed, run.at \in {"sent", "searching"}, NEW gone, gone \subseteq UidsOf(Sent),
         NEW arrived, arrived \subseteq 1..given, Cardinality(arrived) = Cardinality(gone), NEW i \in gone
  PROVE  /\ gone \in SUBSET Nat /\ IsFiniteSet(gone)
         /\ \E v \in arrived : Rank(v, arrived) = Rank(i, gone)
<1>1. given \in Nat /\ IsFiniteSet(1..given) /\ UidsOf(Sent) \in SUBSET Nat /\ IsFiniteSet(UidsOf(Sent))
  BY GivenUids, CommandOut DEF Typed, BudgetInv
<1>2. arrived \in SUBSET Nat /\ IsFiniteSet(arrived)
  <2>1. arrived \in SUBSET (1..given)
    OBVIOUS
  <2>2. IsFiniteSet(arrived)
    BY <1>1, <2>1, FS_Subset
  <2>. QED
    BY <2>1, <2>2
<1>3. gone \in SUBSET Nat /\ IsFiniteSet(gone)
  <2>1. gone \in SUBSET UidsOf(Sent)
    OBVIOUS
  <2>2. IsFiniteSet(gone)
    BY <1>1, <2>1, FS_Subset
  <2>. QED
    BY <1>1, <2>1, <2>2
<1>4. Rank(i, gone) \in Nat /\ Rank(i, gone) < Cardinality(arrived)
  BY <1>3, RankBelow
<1>5. \E u \in arrived : Rank(u, arrived) = Rank(i, gone)
  BY <1>2, <1>4, RankOnto
<1>. QED
  BY <1>3, <1>5

\* And pair them right, when what came is what the command moved, in its order.
LEMMA PairedRight ==
  ASSUME NEW gone \in SUBSET Nat, IsFiniteSet(gone), NEW arrived, Cardinality(arrived) = Cardinality(gone), NEW i \in gone,
         NEW v \in arrived, Rank(v, arrived) = Rank(i, gone), NEW M \in SUBSET gone, NEW base \in Nat,
         \A w \in arrived : \E x \in M : w = base + Rank(x, M)
  PROVE  i \in M /\ \A u \in M : v = base + Rank(u, M) => u = i
<1>1. i \in M /\ v = base + Rank(i, M)
  BY PairedByCounts
<1>2. M \in SUBSET Nat /\ IsFiniteSet(M)
  BY FS_Subset
<1>3. ASSUME NEW u \in M, v = base + Rank(u, M) PROVE u = i
  <2>1. Rank(u, M) \in Nat /\ Rank(i, M) \in Nat
    BY <1>1, <1>2, RankBelow
  <2>2. Rank(u, M) = Rank(i, M)
    BY <1>1, <1>3, <2>1
  <2>. QED
    BY <1>1, <1>2, <2>2, RankOnce
<1>. QED
  BY <1>1, <1>3

\* What the searches say of each job, with nothing found amiss unless counts were misled.
LEMMA Searched ==
  ASSUME IInv, UNCHANGED <<setting, letters, given, late, mixed, rows, moves, asked, asks, sync, expunge>>,
         run.at = "searching", NEW gone, gone \subseteq UidsOf(Sent), NEW arrived, arrived \subseteq 1..given,
         ~mixed /\ run.before > 0 => \E M \in SUBSET gone, base \in Nat :
            /\ 0 \notin M
            /\ \A v \in arrived : \E u \in M : v = base + Rank(u, M) /\ letters[v].id = letters[u].id,
         run' = [run EXCEPT !.at = "handling", !.jobs = BySearch(gone, arrived)]
  PROVE  IInv'
<1>1. /\ run \in RunRecords /\ run.jobs \subseteq JobRecords /\ given \in Nat /\ given' = given /\ setting \in Settings
      /\ \A j \in run.jobs : j.new \in Nat /\ j.uid \in Nat /\ j.new <= given
  BY GivenUids DEF IInv, Typed, BudgetInv, RunInv, RunRecords, JobRecords
<1>2. Cardinality(gone) \in Nat /\ Cardinality(arrived) \in Nat
  <2>1. IsFiniteSet(1..given) /\ IsFiniteSet(UidsOf(Sent)) /\ gone \in SUBSET UidsOf(Sent) /\ arrived \in SUBSET (1..given)
    BY GivenUids, CommandOut DEF IInv, Typed, BudgetInv
  <2>. QED
    BY <2>1, FS_Subset, FS_CardinalityType
<1>. DEFINE Match(j) == CHOOSE u \in arrived : Rank(u, arrived) = Rank(j.uid, gone)
            Says(j) == IF j.is # "sent" THEN j
                       ELSE IF j.uid \notin gone THEN [j EXCEPT !.is = "failed"]
                       ELSE IF run.before = 0 THEN [j EXCEPT !.is = "unnamed"]
                       ELSE IF Cardinality(arrived) < Cardinality(gone) THEN [j EXCEPT !.is = "failed"]
                       ELSE IF Cardinality(arrived) > Cardinality(gone) THEN [j EXCEPT !.is = "unnamed"]
                       ELSE [j EXCEPT !.is = "named", !.new = Match(j)]
<1>3. BySearch(gone, arrived) = {Says(j) : j \in run.jobs}
  BY DEF BySearch
<1>4. ASSUME NEW j \in run.jobs PROVE Says(j) \in JobRecords /\ Follows(Says(j), j)
  <2>1. CASE j.is # "sent"
    BY <1>1, <2>1 DEF Follows
  <2>2. CASE \E is \in {"failed", "unnamed"} : Says(j) = [j EXCEPT !.is = is]
    <3>1. PICK is \in {"failed", "unnamed"} : Says(j) = [j EXCEPT !.is = is]
      BY <2>2
    <3>. HIDE DEF Says
    <3>2. PICK k : k = Says(j)
      OBVIOUS
    <3>3. k \in JobRecords /\ k.id = j.id /\ k.uid = j.uid /\ k.new = j.new /\ k.is = is
      BY <1>1, <3>1, <3>2 DEF JobRecords
    <3>4. Follows(k, j)
      BY <1>1, <3>3 DEF Follows
    <3>. QED
      BY <3>2, <3>3, <3>4
  <2>3. CASE /\ j.is = "sent" /\ j.uid \in gone /\ run.before # 0 /\ Cardinality(arrived) = Cardinality(gone)
             /\ Says(j) = [j EXCEPT !.is = "named", !.new = Match(j)]
    <3>1. PICK v : v = CHOOSE u \in arrived : Rank(u, arrived) = Rank(j.uid, gone)
      OBVIOUS
    <3>2. /\ v \in arrived /\ Rank(v, arrived) = Rank(j.uid, gone)
          /\ gone \in SUBSET Nat /\ IsFiniteSet(gone) /\ Cardinality(arrived) = Cardinality(gone)
      <4>1. Typed /\ run.at \in {"sent", "searching"} /\ Cardinality(arrived) = Cardinality(gone)
        BY <2>3 DEF IInv
      <4>2. PICK i \in gone : i = j.uid
        BY <2>3
      <4>3. /\ gone \in SUBSET Nat /\ IsFiniteSet(gone)
            /\ \E u \in arrived : Rank(u, arrived) = Rank(i, gone)
        BY ONLY <4>1, gone \subseteq UidsOf(Sent), arrived \subseteq 1..given, i \in gone, Paired
      <4>. QED
        BY <3>1, <4>1, <4>2, <4>3
    <3>3. v \in Nat /\ v > 0 /\ v <= given
      BY <1>1, <3>2
    <3>4. Says(j) = [j EXCEPT !.is = "named", !.new = v]
      BY <2>3, <3>1
    <3>5. run.before > 0
      BY <1>1, <2>3 DEF RunRecords
    <3>6. ~mixed => letters[v].id = letters[j.uid].id /\ j.uid # 0
      <4>1. ASSUME ~mixed PROVE letters[v].id = letters[j.uid].id /\ j.uid # 0
        <5>1. PICK M \in SUBSET gone, base \in Nat :
                /\ 0 \notin M
                /\ \A w \in arrived : \E u \in M : w = base + Rank(u, M) /\ letters[w].id = letters[u].id
          BY <3>5, <4>1
        <5>2. j.uid \in M /\ \A u \in M : v = base + Rank(u, M) => u = j.uid
          <6>1. PICK i \in gone : i = j.uid
            BY <2>3
          <6>2. Rank(v, arrived) = Rank(i, gone) /\ M \in SUBSET gone /\ base \in Nat
                /\ \A w \in arrived : \E x \in M : w = base + Rank(x, M)
            BY <3>2, <5>1, <6>1
          <6>3. i \in M /\ \A u \in M : v = base + Rank(u, M) => u = i
            BY ONLY <3>2, <6>2, i \in gone, PairedRight
          <6>. QED
            BY <6>1, <6>3
        <5>. QED
          BY <3>2, <5>1, <5>2
      <4>. QED
        BY <4>1
    <3>. HIDE DEF Says
    <3>7. PICK k : k = Says(j)
      OBVIOUS
    <3>8. k \in JobRecords /\ k.id = j.id /\ k.uid = j.uid /\ k.new = v /\ k.is = "named"
      BY <1>1, <3>3, <3>4, <3>7 DEF JobRecords
    <3>9. ~mixed' /\ (\A i \in run.jobs : JobNames(i)) /\ moves[k.id].state # "none" => letters'[v].id = moves'[k.id].id
      BY <1>1, <3>6, <3>8 DEF JobNames
    <3>10. Follows(k, j)
      BY <1>1, <3>3, <3>8, <3>9 DEF Follows
    <3>. QED
      BY <3>7, <3>8, <3>10
  <2>. QED
    BY <1>2, <2>1, <2>2, <2>3
<1>. HIDE DEF Says
<1>5. run' \in RunRecords /\ run'.at = "handling" /\ run'.jobs = {Says(j) : j \in run.jobs}
  BY <1>1, <1>3, <1>4 DEF RunRecords
<1>6. MovesSame /\ ServerInv' /\ LettersKept /\ MovesKept /\ asked' \in Nat
  BY MovesUnchanged, ServerUnchanged, PanelStates, Sizes DEF IInv, Typed, BudgetInv
<1>7. RunInv' /\ (~mixed' /\ RunNames => RunNames')
  BY <1>4, <1>5, <1>6, RunNext DEF IInv
<1>. QED
  BY <1>6, <1>7, WorkerStep


\* The searches of the source and the destination, paired by counts.
LEMMA StepSearch ==
  ASSUME IInv, Search
  PROVE  IInv'
<1>1. PICK c : c = Command(Sent)
  OBVIOUS
<1>2. PICK gone : gone = c.uids \ Live(c.from)
  OBVIOUS
<1>3. PICK arrived : arrived = {u \in Live(c.to) : u >= run.before}
  OBVIOUS
<1>4. /\ UNCHANGED <<setting, letters, given, late, mixed, rows, moves, asked, asks, sync, expunge>> /\ run.at = "searching"
      /\ run' = [run EXCEPT !.at = "handling", !.jobs = BySearch(gone, arrived)]
  BY <1>1, <1>2, <1>3 DEF Search, server, panel, memory, budget
<1>5. setting \in Settings /\ ServerInv /\ RunInv
  BY DEF IInv, Typed, BudgetInv
<1>6. c.uids = UidsOf(Sent)
  BY <1>1, <1>4, <1>5, CommandOut
<1>7. gone \subseteq UidsOf(Sent) /\ arrived \subseteq 1..given
  BY <1>2, <1>3, <1>5, <1>6, LiveUids
<1>8. ASSUME ~mixed, run.before > 0
      PROVE  \E M \in SUBSET gone, base \in Nat :
               /\ 0 \notin M
               /\ \A v \in arrived : \E u \in M : v = base + Rank(u, M) /\ letters[v].id = letters[u].id
  <2>1. PICK M \in SUBSET UidsOf(Sent), base \in Nat : Counted(Command(Sent), M, base)
    BY <1>4, <1>8 DEF IInv, Names, RunNames, CountsInv
  <2>2. /\ 0 \notin M /\ M \cap Live(c.from) = {}
        /\ \A v \in Live(c.to) : v >= run.before => \E u \in M : v = base + Rank(u, M) /\ letters[v].id = letters[u].id
    BY <1>1, <2>1 DEF Counted
  <2>3. M \in SUBSET gone
    BY <1>2, <1>6, <2>2
  <2>. QED
    BY <1>3, <2>2, <2>3
<1>. QED
  BY <1>4, <1>7, <1>8, Searched

\* A search fails: nothing is taken to be gone, and each job is checked by itself.
LEMMA StepSearchFails ==
  ASSUME IInv, SearchFails
  PROVE  IInv'
<1>1. /\ UNCHANGED <<setting, letters, given, late, mixed, rows, moves, asked, asks, sync, expunge>> /\ run.at = "searching"
      /\ run' = [run EXCEPT !.at = "handling", !.jobs = BySearch({}, {})]
  BY DEF SearchFails, server, panel, memory, Fault
<1>2. PICK gone : gone = {}
  OBVIOUS
<1>3. PICK base \in Nat : base = 0
  OBVIOUS
<1>4. \E M \in SUBSET gone, b \in Nat :
        /\ 0 \notin M
        /\ \A v \in gone : \E u \in M : v = b + Rank(u, M) /\ letters[v].id = letters[u].id
  <2>1. PICK M \in SUBSET gone : M = {}
    OBVIOUS
  <2>. QED
    BY <1>2, <2>1
<1>5. gone \subseteq UidsOf(Sent) /\ gone \subseteq 1..given
  BY <1>2
<1>6. run' = [run EXCEPT !.at = "handling", !.jobs = BySearch(gone, gone)]
  BY <1>1, <1>2
<1>. QED
  BY <1>1, <1>4, <1>5, <1>6, Searched

-------------------------------------------------------------------------------
(* Changes of rows and moves *)

RowSays(r) ==
  /\ rows[r].uid > 0 => letters[rows[r].uid].id = rows[r].id
  /\ \A n \in MoveIds : moves[n].state # "none" /\ moves[n].row = r /\ rows[r].uid = -n => rows[r].id = moves[n].id

\* A row goes, stays, or is put where its letter is; a move ends, stays, or starts where the one before has ended.
RowStep(r) ==
  \/ rows'[r].uid = 0
  \/ rows'[r].uid = rows[r].uid /\ rows'[r].id = rows[r].id
  \/ -asked <= rows'[r].uid /\ rows'[r].uid <= given /\ (~mixed /\ NamesInv => RowSays(r)')
MoveStep(n) ==
  /\ moves'[n].uid <= given /\ moves'[n].pred \in {0, moves[n].pred}
  /\ moves'[n].state # "none" =>
       /\ moves[n].state # "none" /\ moves'[n].row = moves[n].row /\ moves'[n].id = moves[n].id
       /\ ~mixed /\ NamesInv /\ moves'[n].uid > 0 => letters[moves'[n].uid].id = moves[n].id

\* Rows and moves that change one by one as RowStep and MoveStep say keep the panel's names.
LEMMA PanelEnds ==
  ASSUME Typed, UNCHANGED <<setting, letters, given, asked>>, rows' \in [RowIds -> RowRecords], moves' \in [MoveIds -> MoveRecords],
         \A r \in RowIds : RowStep(r), \A n \in MoveIds : MoveStep(n)
  PROVE  PanelInv' /\ (~mixed /\ NamesInv => NamesInv') /\ MovesKept
<1>1. RowIds' = RowIds /\ MoveIds' = MoveIds /\ RowRecords' = RowRecords /\ MoveRecords' = MoveRecords /\ asked \in Nat
      /\ given \in Nat /\ MoveIds \subseteq Nat \ {0}
  BY Sizes, SameSizes, GivenUids DEF Typed, BudgetInv
<1>2. PanelInv
  BY DEF Typed
<1>3. PanelInv'
  <2>1. \A r \in RowIds : -asked <= rows'[r].uid /\ rows'[r].uid <= given
    BY <1>1, <1>2 DEF PanelInv, RowStep
  <2>2. \A n \in MoveIds : moves'[n].uid <= given /\ moves'[n].pred <= asked
                           /\ (moves'[n].state # "none" => n <= asked /\ moves'[n].row \in RowIds)
    <3>1. ASSUME NEW n \in MoveIds
          PROVE  /\ moves'[n].uid <= given /\ moves'[n].pred <= asked
                 /\ moves'[n].state # "none" => n <= asked /\ moves'[n].row \in RowIds
      <4>1. moves[n].pred <= asked /\ (moves[n].state # "none" => n <= asked /\ moves[n].row \in RowIds)
        BY <1>2 DEF PanelInv
      <4>2. MoveStep(n)
        OBVIOUS
      <4>. QED
        BY ONLY <1>1, <4>1, <4>2 DEF MoveStep
    <3>. QED
      BY <3>1
  <2>. QED
    BY <1>1, <2>1, <2>2 DEF PanelInv
<1>4. MovesKept
  BY <1>1 DEF MovesKept, MoveStep
<1>5. ASSUME ~mixed, NamesInv PROVE NamesInv'
  <2>1. ASSUME NEW r \in RowIds PROVE RowSays(r)'
    <3>1. CASE rows'[r].uid = 0
      BY <1>1, <3>1 DEF RowSays
    <3>2. CASE rows'[r].uid = rows[r].uid /\ rows'[r].id = rows[r].id
      BY <1>1, <1>5, <3>2 DEF RowSays, NamesInv, MoveStep
    <3>. QED
      BY <1>5, <3>1, <3>2 DEF RowStep
  <2>2. ASSUME NEW m \in MoveIds, moves'[m].state # "none"
        PROVE  /\ moves'[m].uid > 0 => letters'[moves'[m].uid].id = moves'[m].id
               /\ rows'[moves'[m].row].uid = -m => rows'[moves'[m].row].id = moves'[m].id
               /\ \A n \in MoveIds : moves'[n].state # "none" /\ moves'[n].pred = m => moves'[n].id = moves'[m].id
    <3>1. moves'[m].uid > 0 => letters'[moves'[m].uid].id = moves'[m].id
      BY <1>5, <2>2 DEF MoveStep
    <3>2. rows'[moves'[m].row].uid = -m => rows'[moves'[m].row].id = moves'[m].id
      BY <1>1, <1>2, <2>1, <2>2 DEF MoveStep, PanelInv, RowSays
    <3>3. \A n \in MoveIds : moves'[n].state # "none" /\ moves'[n].pred = m => moves'[n].id = moves'[m].id
      BY <1>1, <1>5, <2>2 DEF MoveStep, NamesInv
    <3>. QED
      BY <3>1, <3>2, <3>3
  <2>. QED
    BY <1>1, <2>1, <2>2 DEF NamesInv, RowSays
<1>. QED
  BY <1>3, <1>4, <1>5

\* Whatever happens to a row, it is not the claimed one, or that goes or stays.
LEMMA ClaimRows ==
  ASSUME ClaimInv, UNCHANGED <<setting, expunge>>,
         \A r \in RowIds : \/ rows'[r].uid = 0
                           \/ rows'[r].uid = rows[r].uid /\ rows'[r].claim = rows[r].claim
                           \/ rows[r].uid < 0
                           \/ r # expunge.row
                           \/ rows[r].uid # 0 /\ ~rows[r].claim
  PROVE  ClaimInv'
<1>1. RowIds' = RowIds /\ ExpungeRecords' = ExpungeRecords
  BY SameSizes
<1>2. expunge.at \in {"claimed", "deleted"} => expunge.uid \in Nat
  BY DEF ClaimInv, ExpungeRecords
<1>3. ASSUME expunge.at \in {"claimed", "deleted"}, rows'[expunge.row].uid # 0
      PROVE  rows'[expunge.row].claim /\ rows'[expunge.row].uid = expunge.uid
  <2>1. PICK r \in RowIds : r = expunge.row
    BY <1>3 DEF ClaimInv
  <2>2. rows[r].uid # 0 => rows[r].claim /\ rows[r].uid = expunge.uid /\ expunge.uid > 0
    BY <1>3, <2>1 DEF ClaimInv
  <2>3. rows'[r].uid = rows[r].uid /\ rows'[r].claim = rows[r].claim
    BY <1>2, <1>3, <2>1, <2>2
  <2>. QED
    BY <1>3, <2>1, <2>2, <2>3
<1>. QED
  BY <1>1, <1>3 DEF ClaimInv

\* How a move ends: the rows and moves after it.
LEMMA MoveEnds ==
  ASSUME IInv, UNCHANGED <<setting, letters, given, asked, expunge>>, NEW m \in MoveIds, Pending(m), NEW f \in Folders, NEW u \in 0..given,
         ~mixed /\ NamesInv /\ u > 0 => letters[u].id = moves[m].id,
         \/ moves' = Succeeds(m, Followers(m), f, u)
         \/ moves' = Fresh(Succeeds(m, Followers(m), f, u), moves[m].row),
         \/ rows' = rows
         \/ rows[moves[m].row].uid = -m /\ rows' = [rows EXCEPT ![moves[m].row] = NoRow]
         \/ rows[moves[m].row].uid = -m /\ rows' = Take(moves[m].row, f, u)
  PROVE  PanelInv' /\ (~mixed /\ NamesInv => NamesInv') /\ MovesKept /\ ClaimInv'
<1>1. RowIds \subseteq Nat \ {0} /\ MoveIds \subseteq Nat \ {0} /\ given \in Nat /\ asked \in Nat /\ NoHeader \in Ids
      /\ 0 \in Nat /\ Inbox \in Folders
  BY Sizes, GivenUids, InboxAssumption DEF IInv, Typed, BudgetInv
<1>2. /\ rows \in [RowIds -> RowRecords] /\ moves \in [MoveIds -> MoveRecords] /\ (\A r \in RowIds : rows[r].uid <= given)
      /\ \A n \in MoveIds : moves[n].uid <= given
  BY DEF IInv, Typed, PanelInv
<1>3. PICK r \in RowIds : r = moves[m].row
  BY DEF IInv, Typed, PanelInv, Pending
<1>4. NoMove \in MoveRecords /\ NoMove.uid = 0 /\ NoMove.pred = 0 /\ NoMove.state = "none"
  BY <1>1 DEF NoMove, MoveRecords, States
<1>5. NoRow \in RowRecords /\ NoRow.uid = 0
  BY <1>1 DEF NoRow, RowRecords
<1>6. PICK T : T = Succeeds(m, Followers(m), f, u)
  OBVIOUS
<1>7. ASSUME NEW n \in MoveIds
      PROVE  /\ T[n] \in MoveRecords /\ T[n].uid <= given /\ T[n].pred \in {0, moves[n].pred}
             /\ T[n].state # "none" =>
                  /\ moves[n].state # "none" /\ T[n].row = moves[n].row /\ T[n].id = moves[n].id
                  /\ ~mixed /\ NamesInv /\ T[n].uid > 0 => letters[T[n].uid].id = moves[n].id
  <2>1. moves[n] \in MoveRecords /\ u \in Nat /\ u <= given
    BY <1>1, <1>2
  <2>2. T[n] = IF n = m THEN NoMove
               ELSE IF n \in Followers(m) THEN [moves[n] EXCEPT !.from = f, !.uid = u, !.pred = 0] ELSE moves[n]
    BY <1>6 DEF Succeeds
  <2>3. CASE n = m
    BY <1>1, <1>4, <2>2, <2>3
  <2>4. CASE n # m /\ n \in Followers(m)
    <3>1. moves[n].state # "none" /\ moves[n].pred = m
      BY <2>4 DEF Followers, Pending
    <3>2. T[n] \in MoveRecords /\ T[n].uid = u /\ T[n].pred = 0 /\ T[n].row = moves[n].row /\ T[n].id = moves[n].id
      BY <2>1, <2>2, <2>4 DEF MoveRecords
    <3>3. NamesInv => moves[n].id = moves[m].id
      BY <3>1 DEF NamesInv, Pending
    <3>. QED
      BY <2>1, <3>1, <3>2, <3>3
  <2>5. CASE n # m /\ n \notin Followers(m)
    <3>1. T[n] = moves[n]
      BY <2>2, <2>5
    <3>. QED
      BY <1>2, <2>1, <3>1 DEF NamesInv
  <2>. QED
    BY <2>3, <2>4, <2>5
<1>8. moves' \in [MoveIds -> MoveRecords] /\ \A n \in MoveIds : MoveStep(n)
  <2>1. CASE moves' = T
    <3>1. T \in [MoveIds -> MoveRecords]
      <4>1. T = [n \in MoveIds |-> T[n]]
        BY <1>6 DEF Succeeds
      <4>. QED
        BY <1>7, <4>1
    <3>. QED
      BY <1>7, <2>1, <3>1 DEF MoveStep
  <2>2. CASE moves' = Fresh(T, r)
    <3>1. ASSUME NEW n \in MoveIds
          PROVE  /\ moves'[n] \in MoveRecords /\ moves'[n].uid = T[n].uid /\ moves'[n].pred = T[n].pred
                 /\ moves'[n].state = T[n].state /\ moves'[n].row = T[n].row /\ moves'[n].id = T[n].id
      <4>1. T[n] \in MoveRecords
        BY <1>7
      <4>2. moves'[n] = IF T[n].state = "none" THEN T[n] ELSE [T[n] EXCEPT !.newer = @ \cup {r}]
        BY <2>2 DEF Fresh
      <4>. QED
        BY <4>1, <4>2 DEF MoveRecords
    <3>2. moves' = [n \in MoveIds |-> moves'[n]]
      BY <2>2 DEF Fresh
    <3>3. moves' \in [MoveIds -> MoveRecords]
      BY <3>1, <3>2
    <3>. QED
      BY <1>7, <3>1, <3>3 DEF MoveStep
  <2>. QED
    BY <1>3, <1>6, <2>1, <2>2
<1>9. ASSUME NEW x \in RowIds
      PROVE  /\ rows'[x] \in RowRecords /\ RowStep(x)
             /\ rows'[x].uid = 0 \/ rows'[x] = rows[x] \/ rows[x].uid < 0
  <2>1. CASE rows' = rows
    BY <1>2, <2>1 DEF RowStep
  <2>2. CASE rows[r].uid = -m /\ rows' = [rows EXCEPT ![r] = NoRow]
    BY <1>2, <1>5, <2>2 DEF RowStep
  <2>3. CASE rows[r].uid = -m /\ rows' = Take(r, f, u)
    <3>1. rows'[x] = IF x = r THEN [rows[r] EXCEPT !.in = f, !.uid = u] ELSE IF x \in At(f, u) THEN NoRow ELSE rows[x]
      BY <2>3 DEF Take
    <3>2. CASE x # r
      BY <1>2, <1>5, <3>1, <3>2 DEF RowStep
    <3>3. CASE x = r
      <4>1. rows[r] \in RowRecords /\ u \in Int /\ u <= given
        BY <1>1, <1>2
      <4>2. rows'[r] \in RowRecords /\ rows'[r].uid = u /\ rows'[r].id = rows[r].id
        BY <3>1, <3>3, <4>1 DEF RowRecords
      <4>3. ASSUME ~mixed, NamesInv PROVE RowSays(r)'
        <5>1. rows[r].id = moves[m].id
          BY <1>3, <2>3, <4>3 DEF NamesInv, Pending
        <5>2. MoveIds' = MoveIds
          BY SameSizes
        <5>. QED
          BY <1>1, <4>2, <4>3, <5>1, <5>2 DEF RowSays
      <4>. QED
        BY <1>1, <2>3, <3>3, <4>1, <4>2, <4>3 DEF RowStep
    <3>. QED
      BY <3>2, <3>3
  <2>. QED
    BY <1>3, <2>1, <2>2, <2>3
<1>10. rows' \in [RowIds -> RowRecords]
  <2>1. rows' = [x \in RowIds |-> rows'[x]]
    BY <1>2, <1>3 DEF Take
  <2>. QED
    BY <1>9, <2>1
<1>11. ClaimInv'
  BY <1>9, ClaimRows DEF IInv
<1>. QED
  BY <1>8, <1>9, <1>10, <1>11, PanelEnds DEF IInv

-------------------------------------------------------------------------------
(* How the worker is done with a job *)

\* The rows and moves after a step.
PanelHolds == PanelInv' /\ (~mixed /\ NamesInv => NamesInv') /\ MovesKept /\ ClaimInv' /\ UNCHANGED asked

\* What a step of the worker must keep, put together.
LEMMA WorkerEnds ==
  ASSUME IInv, UNCHANGED <<setting, letters, given, late, mixed, sync, expunge, asks>>, PanelHolds,
         RunInv', ~mixed' /\ RunNames => RunNames'
  PROVE  IInv'
<1>1. ServerInv' /\ LettersKept
  BY ServerUnchanged DEF IInv
<1>2. BudgetInv' /\ asked \in Nat /\ asked' \in Nat /\ setting \in Settings
  BY Sizes, SameSizes DEF IInv, Typed, BudgetInv, PanelHolds
<1>3. SyncInv' /\ (SyncNames => SyncNames')
  BY <1>1, <1>2, SyncKept DEF IInv, Typed, PanelHolds
<1>. QED
  BY <1>1, <1>2, <1>3 DEF IInv, Typed, Names, PanelHolds

\* New states of moves alone keep the claim too.
LEMMA PanelStays ==
  ASSUME IInv, UNCHANGED <<setting, letters, given, rows, asked, expunge>>, MovesSame
  PROVE  PanelHolds
BY PanelStates, ClaimKept DEF IInv, PanelHolds

\* A move settled at a uid of its own letter: its row and its followers go there.
LEMMA SettlePanel ==
  ASSUME IInv, UNCHANGED <<setting, letters, given, expunge>>, NEW m \in MoveIds, NEW u \in 1..given, Settle(m, u),
         ~mixed /\ NamesInv /\ Pending(m) => letters[u].id = moves[m].id
  PROVE  PanelHolds
<1>1. CASE ~Pending(m)
  BY <1>1, PanelStays, MovesUnchanged DEF Settle, panel, IInv
<1>2. CASE Pending(m)
  <2>1. PICK f \in Folders : f = letters[u].in
    BY GivenUids DEF IInv, Typed, BudgetInv, ServerInv, Places
  <2>2. u \in 0..given
    BY GivenUids DEF IInv, Typed, BudgetInv
  <2>3. /\ UNCHANGED asked
        /\ \/ moves' = Succeeds(m, Followers(m), f, u)
           \/ moves' = Fresh(Succeeds(m, Followers(m), f, u), moves[m].row)
        /\ \/ rows' = rows
           \/ rows[moves[m].row].uid = -m /\ rows' = [rows EXCEPT ![moves[m].row] = NoRow]
           \/ rows[moves[m].row].uid = -m /\ rows' = Take(moves[m].row, f, u)
    <3>1. CASE Followers(m) # {} \/ rows[moves[m].row].uid # -m
      BY <1>2, <2>1, <3>1 DEF Settle
    <3>2. CASE Followers(m) = {} /\ rows[moves[m].row].uid = -m
      BY <1>2, <2>1, <3>2 DEF Settle
    <3>. QED
      BY <3>1, <3>2
  <2>4. PanelInv' /\ (~mixed /\ NamesInv => NamesInv') /\ MovesKept /\ ClaimInv'
    BY <1>2, <2>2, <2>3, MoveEnds
  <2>. QED
    BY <2>3, <2>4 DEF PanelHolds
<1>. QED
  BY <1>1, <1>2

\* A move reverted: its row goes back to where it was.
LEMMA RevertPanel ==
  ASSUME IInv, UNCHANGED <<setting, letters, given, expunge>>, NEW m \in MoveIds, Revert(m)
  PROVE  PanelHolds
<1>1. CASE ~Pending(m)
  BY <1>1, PanelStays, MovesUnchanged DEF Revert, panel, IInv
<1>2. CASE Pending(m)
  <2>1. PICK f \in Folders, u \in 0..given : f = moves[m].from /\ u = moves[m].uid
    <3>1. moves[m] \in MoveRecords /\ moves[m].uid <= given /\ given \in Nat
      BY GivenUids DEF IInv, Typed, BudgetInv, PanelInv
    <3>. QED
      BY <3>1 DEF MoveRecords
  <2>2. /\ UNCHANGED asked
        /\ \/ moves' = Succeeds(m, Followers(m), f, u)
           \/ moves' = Fresh(Succeeds(m, Followers(m), f, u), moves[m].row)
        /\ \/ rows' = rows
           \/ rows[moves[m].row].uid = -m /\ rows' = Take(moves[m].row, f, u)
    <3>1. CASE Followers(m) # {} \/ rows[moves[m].row].uid # -m
      BY <1>2, <2>1, <3>1 DEF Revert
    <3>2. CASE Followers(m) = {} /\ rows[moves[m].row].uid = -m
      BY <1>2, <2>1, <3>2 DEF Revert
    <3>. QED
      BY <3>1, <3>2
  <2>3. NamesInv /\ u > 0 => letters[u].id = moves[m].id
    BY <1>2, <2>1 DEF NamesInv, Pending
  <2>4. PanelInv' /\ (~mixed /\ NamesInv => NamesInv') /\ MovesKept /\ ClaimInv'
    BY <1>2, <2>2, <2>3, MoveEnds
  <2>. QED
    BY <2>2, <2>4 DEF PanelHolds
<1>. QED
  BY <1>1, <1>2

\* A move dropped with its followers, and their row with them.
LEMMA DropPanel ==
  ASSUME IInv, UNCHANGED <<setting, letters, given, expunge>>, NEW m \in MoveIds, Drop(m)
  PROVE  PanelHolds
<1>1. CASE ~Pending(m)
  BY <1>1, PanelStays, MovesUnchanged DEF Drop, panel, IInv
<1>2. CASE Pending(m)
  <2>1. RowIds \subseteq Nat \ {0} /\ MoveIds \subseteq Nat \ {0} /\ given \in Nat /\ NoHeader \in Ids /\ Inbox \in Folders
    BY Sizes, GivenUids, InboxAssumption DEF IInv, Typed, BudgetInv
  <2>2. /\ rows \in [RowIds -> RowRecords] /\ moves \in [MoveIds -> MoveRecords]
        /\ (\A x \in RowIds : rows[x].uid <= given) /\ \A n \in MoveIds : moves[n].uid <= given
    BY DEF IInv, Typed, PanelInv
  <2>3. PICK r \in RowIds : r = moves[m].row
    BY <1>2 DEF IInv, Typed, PanelInv, Pending
  <2>4. PICK gone : gone = {m} \cup Followers(m)
    OBVIOUS
  <2>5. /\ moves' = [n \in MoveIds |-> IF n \in gone THEN NoMove ELSE moves[n]] /\ UNCHANGED asked
        /\ \/ rows[r].uid < 0 /\ rows' = [rows EXCEPT ![r] = NoRow]
           \/ rows' = rows
    <3>1. gone \subseteq MoveIds
      BY <2>4 DEF Followers
    <3>2. /\ moves' = [n \in MoveIds |-> IF n \in gone THEN NoMove ELSE moves[n]] /\ UNCHANGED asked
          /\ \/ (\E n \in gone : rows[r].uid = -n) /\ rows' = [rows EXCEPT ![r] = NoRow]
             \/ rows' = rows
      BY <1>2, <2>3, <2>4 DEF Drop
    <3>. QED
      BY <2>1, <3>1, <3>2
  <2>6. NoMove \in MoveRecords /\ NoMove.uid = 0 /\ NoMove.pred = 0 /\ NoMove.state = "none"
    BY <2>1 DEF NoMove, MoveRecords, States
  <2>7. NoRow \in RowRecords /\ NoRow.uid = 0
    BY <2>1 DEF NoRow, RowRecords
  <2>8. moves' \in [MoveIds -> MoveRecords] /\ \A n \in MoveIds : MoveStep(n)
    <3>1. ASSUME NEW n \in MoveIds PROVE moves'[n] \in MoveRecords /\ MoveStep(n)
      BY <2>1, <2>2, <2>5, <2>6 DEF MoveStep, NamesInv
    <3>. QED
      BY <2>5, <3>1
  <2>9. rows' \in [RowIds -> RowRecords]
        /\ \A x \in RowIds : RowStep(x) /\ (rows'[x].uid = 0 \/ rows'[x] = rows[x])
    BY <2>2, <2>5, <2>7 DEF RowStep
  <2>10. PanelInv' /\ (~mixed /\ NamesInv => NamesInv') /\ MovesKept
    BY <2>5, <2>8, <2>9, PanelEnds DEF IInv
  <2>11. ClaimInv'
    BY <2>9, ClaimRows DEF IInv
  <2>. QED
    BY <2>5, <2>10, <2>11 DEF PanelHolds
<1>. QED
  BY <1>1, <1>2

\* A job that is not the command's: what the command has moved stays as it is.
LEMMA RunChanges ==
  ASSUME Typed, UNCHANGED <<setting, letters, given>>, ServerInv', asked' \in Nat, LettersKept, MovesKept,
         NEW J, run' = [run EXCEPT !.jobs = J], \A k : k \in J /\ k.is = "sent" <=> k \in run.jobs /\ k.is = "sent",
         \A k \in J : \E j \in run.jobs : Follows(k, j)
  PROVE  RunInv' /\ (~mixed' /\ RunNames => RunNames')
<1>1. run \in RunRecords /\ J \subseteq JobRecords
  BY DEF Typed, RunInv, Follows
<1>2. run' \in RunRecords /\ run'.jobs = J /\ run'.at = run.at /\ run'.before = run.before
  BY <1>1 DEF RunRecords
<1>3. CASE run.at \notin {"sent", "searching"}
  BY <1>2, <1>3, RunNext
<1>4. CASE run.at \in {"sent", "searching"}
  <2>1. JobsInv(J)' /\ (~mixed' /\ (\A j \in run.jobs : JobNames(j)) => \A k \in J : JobNames(k)')
    BY JobsFollow
  <2>2. Doing("sent")' = Doing("sent") /\ Sent' = Sent
    BY <1>2 DEF Doing, Sent
  <2>3. UidsOf(Sent)' = UidsOf(Sent) /\ Command(Sent)' = Command(Sent)
    BY <2>2 DEF UidsOf, Command
  <2>4. RunInv'
    BY <1>2, <1>4, <2>1, <2>2, SameSizes DEF RunInv, JobsInv, Typed
  <2>5. ASSUME ~mixed', RunNames PROVE RunNames'
    <3>1. \A k \in run'.jobs : JobNames(k)'
      BY <1>2, <2>1, <2>5 DEF RunNames
    <3>2. \A f : Live(f)' = Live(f)
      BY DEF Live
    <3>3. NothingCame'
      BY <1>2, <2>3, <2>5, <3>2 DEF RunNames, NothingCame
    <3>4. CountsInv'
      <4>. SUFFICES ASSUME run.at = "searching", run.before > 0
                    PROVE  \E M \in SUBSET UidsOf(Sent), base \in Nat : Counted(Command(Sent), M, base)'
        BY <1>2, <2>3 DEF CountsInv
      <4>1. PICK M \in SUBSET UidsOf(Sent), base \in Nat : Counted(Command(Sent), M, base)
        BY <2>5 DEF RunNames, CountsInv
      <4>2. Counted(Command(Sent), M, base)'
        BY <1>2, <2>3, <3>2, <4>1 DEF Counted
      <4>. QED
        BY <4>2
    <3>. QED
      BY <3>1, <3>3, <3>4 DEF RunNames
  <2>. QED
    BY <2>4, <2>5
<1>. QED
  BY <1>3, <1>4

\* A job that stays names what it named, while letters keep their Message-IDs.
LEMMA JobStays ==
  ASSUME Typed, ServerInv', LettersKept, NEW k \in run.jobs
  PROVE  Follows(k, k)
<1>1. given <= given' /\ given \in Nat /\ given' \in Nat /\ k \in JobRecords /\ k.new \in Nat /\ k.new <= given
  BY GivenUids DEF Typed, BudgetInv, LettersKept, ServerInv, RunInv, RunRecords, JobRecords
<1>. QED
  BY <1>1 DEF Follows

\* A job done with leaves the run.
LEMMA JobLeaves ==
  ASSUME IInv, NEW j \in run.jobs, j.is # "sent", Done(j), UNCHANGED <<setting, letters, given, late>>, PanelHolds
  PROVE  RunInv' /\ (~mixed' /\ RunNames => RunNames')
<1>1. ServerInv' /\ LettersKept /\ asked' \in Nat /\ MovesKept /\ Typed
  BY ServerUnchanged, Sizes DEF IInv, Typed, BudgetInv, PanelHolds
<1>2. PICK J : J = run.jobs \ {j}
  OBVIOUS
<1>3. \A k \in J : \E i \in run.jobs : Follows(k, i)
  BY <1>1, <1>2, JobStays
<1>4. \A k : k \in J /\ k.is = "sent" <=> k \in run.jobs /\ k.is = "sent"
  BY <1>2
<1>5. CASE run' = [run EXCEPT !.jobs = J]
  BY <1>1, <1>3, <1>4, <1>5, RunChanges
<1>6. CASE run' = NoRun
  BY <1>6, RunEnds
<1>7. CASE run' = [NoRun EXCEPT !.at = "claimed", !.jobs = J]
  <2>1. J \subseteq JobRecords
    BY <1>2 DEF IInv, Typed, RunInv, RunRecords
  <2>2. run' = [at |-> "claimed", jobs |-> J, before |-> 0]
    BY <1>7 DEF NoRun
  <2>3. run' \in RunRecords /\ run'.jobs = J /\ run'.at = "claimed"
    BY ONLY <2>1, <2>2, 0 \in Nat DEF RunRecords
  <2>. QED
    BY <1>1, <1>3, <2>3, RunNext
<1>. QED
  BY <1>2, <1>5, <1>6, <1>7 DEF Done, Left

\* What a lookup finds is there, with the move's Message-ID.
LEMMA Located ==
  ASSUME Typed, NEW m \in MoveIds, NEW u \in Locate(m)
  PROVE  u \in 1..given /\ letters[u].id = moves[m].id
<1>1. given \in Nat
  BY GivenUids DEF Typed, BudgetInv
<1>2. ASSUME NEW f, NEW v \in Pick(m, f) PROVE v \in 1..given /\ letters[v].id = moves[m].id
  <2>1. \A w \in Found(m, f) : w \in 1..given /\ letters[w].id = moves[m].id
    BY DEF Found, Live
  <2>2. PICK S : S \subseteq Found(m, f) /\ S # {} /\ v = Max(S)
    <3>1. CASE FoundFree(m, f) # {}
      BY <1>2, <3>1 DEF Pick, FoundFree
    <3>2. CASE FoundFree(m, f) = {}
      BY <1>2, <3>2 DEF Pick, FoundNewer
    <3>. QED
      BY <3>1, <3>2
  <2>3. S \in SUBSET Nat /\ \A w \in S : w <= given
    BY <1>1, <2>1, <2>2
  <2>4. v \in S
    BY ONLY <1>1, <2>2, <2>3, GreatestNumber
  <2>. QED
    BY <2>1, <2>2, <2>4
<1>3. \E f : u \in Pick(m, f)
  BY DEF Locate
<1>. QED
  BY <1>2, <1>3

\* A job whose letter was looked up names it.
LEMMA JobFound ==
  ASSUME IInv, NEW j \in run.jobs, j.is # "sent", NEW u \in Locate(j.id), Becomes(j, "found", u),
         UNCHANGED <<setting, letters, given, late, moves, asked>>
  PROVE  RunInv' /\ (~mixed' /\ RunNames => RunNames')
<1>1. ServerInv' /\ LettersKept /\ asked' \in Nat /\ MovesKept /\ Typed
  <2>1. Typed /\ asked \in Nat
    BY Sizes DEF IInv, Typed, BudgetInv
  <2>. QED
    BY <2>1, ServerUnchanged DEF MovesKept
<1>2. j \in JobRecords /\ j.id \in MoveIds
  BY DEF IInv, Typed, RunInv, RunRecords, JobRecords
<1>3. u \in 1..given /\ letters[u].id = moves[j.id].id /\ u \in Nat
  <2>1. PICK m \in MoveIds : m = j.id
    BY <1>2
  <2>2. u \in 1..given /\ letters[u].id = moves[m].id
    BY <1>1, <2>1, Located
  <2>3. given \in Nat
    BY <1>1, GivenUids DEF Typed, BudgetInv
  <2>. QED
    BY <2>1, <2>2, <2>3
<1>4. PICK k : k = [j EXCEPT !.is = "found", !.new = u]
  OBVIOUS
<1>5. k \in JobRecords /\ k.id = j.id /\ k.uid = j.uid /\ k.new = u /\ k.is = "found"
  BY <1>2, <1>3, <1>4 DEF JobRecords
<1>6. Follows(k, j)
  BY <1>3, <1>5 DEF Follows
<1>7. PICK J : J = (run.jobs \ {j}) \cup {k}
  OBVIOUS
<1>8. run' = [run EXCEPT !.jobs = J]
  BY <1>4, <1>7 DEF Becomes
<1>9. \A x \in J : \E i \in run.jobs : Follows(x, i)
  BY <1>1, <1>6, <1>7, JobStays
<1>10. \A x : x \in J /\ x.is = "sent" <=> x \in run.jobs /\ x.is = "sent"
  BY <1>5, <1>7
<1>. QED
  BY <1>1, <1>8, <1>9, <1>10, RunChanges

\* A job that is done with leaves the run.
LEMMA JobEnds ==
  ASSUME IInv, NEW j \in run.jobs, j.is # "sent", Done(j), PanelHolds,
         UNCHANGED <<setting, letters, given, late, mixed, sync, expunge, asks>>
  PROVE  IInv'
<1>1. RunInv' /\ (~mixed' /\ RunNames => RunNames')
  BY JobLeaves
<1>. QED
  BY <1>1, WorkerEnds

\* A job of the run is of one of the moves.
LEMMA JobIds ==
  ASSUME IInv, NEW j \in run.jobs
  PROVE  j \in JobRecords /\ j.id \in MoveIds
BY DEF IInv, Typed, RunInv, RunRecords, JobRecords

\* A letter that is gone from its source and nowhere to be found.
LEMMA StepGoneFromSource ==
  ASSUME IInv, NEW j \in run.jobs, j.is # "sent", GoneFromSource(j),
         UNCHANGED <<setting, letters, given, late, mixed, sync, expunge, asks>>
  PROVE  IInv'
<1>1. CASE \E u \in Locate(j.id) : Becomes(j, "found", u) /\ UNCHANGED panel
  <2>1. PICK u \in Locate(j.id) : Becomes(j, "found", u) /\ UNCHANGED panel
    BY <1>1
  <2>2. UNCHANGED <<rows, moves, asked>>
    BY <2>1 DEF panel
  <2>3. RunInv' /\ (~mixed' /\ RunNames => RunNames')
    BY <2>1, <2>2, JobFound
  <2>4. PanelHolds
    BY <2>2, PanelStays, MovesUnchanged DEF IInv
  <2>. QED
    BY <2>3, <2>4, WorkerEnds
<1>2. CASE (Drop(j.id) \/ Revert(j.id)) /\ Done(j)
  <2>1. PICK m \in MoveIds : m = j.id
    BY JobIds
  <2>2. PanelHolds
    BY <1>2, <2>1, DropPanel, RevertPanel
  <2>. QED
    BY <1>2, <2>2, JobEnds
<1>. QED
  BY <1>1, <1>2 DEF GoneFromSource

\* A move changes state only while it is claimed.
LEMMA StateSet ==
  ASSUME IInv, NEW m \in MoveIds, NEW op, OnlyMoving(m, op),
         op \in MoveRecords, op.state # "none", op.row = moves[m].row, op.id = moves[m].id, op.uid = moves[m].uid,
         op.pred = moves[m].pred
  PROVE  MovesSame
<1>1. moves \in [MoveIds -> MoveRecords]
  BY DEF IInv, Typed, PanelInv
<1>2. moves' = [moves EXCEPT ![m] = IF moves[m].state = "moving" THEN op ELSE moves[m]]
  BY DEF OnlyMoving
<1>3. moves' \in [MoveIds -> MoveRecords]
  BY <1>1, <1>2
<1>4. ASSUME NEW n \in MoveIds
      PROVE  /\ moves'[n].state = "none" <=> moves[n].state = "none"
             /\ moves'[n].row = moves[n].row /\ moves'[n].id = moves[n].id /\ moves'[n].uid = moves[n].uid
             /\ moves'[n].pred = moves[n].pred
  <2>1. CASE n = m /\ moves[m].state = "moving"
    <3>1. moves'[n] = op
      BY <1>1, <1>2, <2>1
    <3>. QED
      BY <2>1, <3>1
  <2>2. CASE ~(n = m /\ moves[m].state = "moving")
    <3>1. moves'[n] = moves[n]
      BY <1>1, <1>2, <2>2
    <3>. QED
      BY <3>1
  <2>. QED
    BY <2>1, <2>2
<1>. QED
  BY <1>3, <1>4 DEF MovesSame

\* What a new state of a move leaves as it was.
LEMMA Restated ==
  ASSUME NEW op \in MoveRecords, NEW s \in {"queued", "awaiting"}, NEW b \in BOOLEAN, NEW n \in Nat,
         NEW new \in {[op EXCEPT !.state = s], [op EXCEPT !.state = s, !.sent = b], [op EXCEPT !.state = s, !.tries = n]}
  PROVE  /\ new \in MoveRecords /\ new.state # "none" /\ new.row = op.row /\ new.id = op.id /\ new.uid = op.uid
         /\ new.pred = op.pred
<1>1. s \in States /\ s # "none"
  BY DEF States
<1>2. CASE new = [op EXCEPT !.state = s]
  BY ONLY <1>1, <1>2, op \in MoveRecords DEF MoveRecords
<1>3. CASE new = [op EXCEPT !.state = s, !.sent = b]
  BY ONLY <1>1, <1>3, op \in MoveRecords, b \in BOOLEAN DEF MoveRecords
<1>4. CASE new = [op EXCEPT !.state = s, !.tries = n]
  BY ONLY <1>1, <1>4, op \in MoveRecords, n \in Nat DEF MoveRecords
<1>. QED
  BY <1>2, <1>3, <1>4

\* Marking a move as awaiting, or retrying it, changes its state only.
LEMMA StatesSet ==
  ASSUME IInv, NEW m \in MoveIds, MarkAwaiting(m) \/ RetryUnclear(m) \/ Retry(m)
  PROVE  MovesSame
<1>1. moves[m] \in MoveRecords /\ moves[m].tries + 1 \in Nat
  <2>1. moves[m] \in MoveRecords
    BY DEF IInv, Typed, PanelInv
  <2>. QED
    BY <2>1 DEF MoveRecords
<1>2. CASE MarkAwaiting(m)
  <2>1. PICK op : op = [moves[m] EXCEPT !.state = "awaiting"]
    OBVIOUS
  <2>2. op \in MoveRecords /\ op.state # "none" /\ op.row = moves[m].row /\ op.id = moves[m].id /\ op.uid = moves[m].uid
        /\ op.pred = moves[m].pred
    BY <1>1, <2>1, Restated
  <2>. QED
    BY <1>2, <2>1, <2>2, StateSet DEF MarkAwaiting
<1>3. CASE RetryUnclear(m)
  <2>1. PICK op : op = [moves[m] EXCEPT !.state = "awaiting", !.tries = @ + 1]
    OBVIOUS
  <2>2. op \in MoveRecords /\ op.state # "none" /\ op.row = moves[m].row /\ op.id = moves[m].id /\ op.uid = moves[m].uid
        /\ op.pred = moves[m].pred
    BY <1>1, <2>1, Restated
  <2>. QED
    BY <1>3, <2>1, <2>2, StateSet DEF RetryUnclear
<1>4. CASE Retry(m)
  <2>1. PICK op : op = [moves[m] EXCEPT !.state = "queued", !.tries = @ + 1]
    OBVIOUS
  <2>2. op \in MoveRecords /\ op.state # "none" /\ op.row = moves[m].row /\ op.id = moves[m].id /\ op.uid = moves[m].uid
        /\ op.pred = moves[m].pred
    BY <1>1, <2>1, Restated
  <2>. QED
    BY <1>4, <2>1, <2>2, StateSet DEF Retry
<1>. QED
  BY <1>2, <1>3, <1>4

\* The worker looks up where an awaiting letter has gone.
LEMMA StepLook ==
  ASSUME IInv, NEW j \in run.jobs, Look(j)
  PROVE  IInv'
<1>1. j.is # "sent" /\ UNCHANGED <<setting, letters, given, late, mixed, sync, expunge, asks>>
  BY DEF Look, Doing, server, budget
<1>2. CASE GoneFromSource(j)
  BY <1>1, <1>2, StepGoneFromSource
<1>3. CASE Revert(j.id) /\ Done(j)
  <2>1. PICK m \in MoveIds : m = j.id
    BY JobIds
  <2>2. PanelHolds
    BY <1>1, <1>3, <2>1, RevertPanel
  <2>. QED
    BY <1>1, <1>3, <2>2, JobEnds
<1>4. CASE /\ moves' = [moves EXCEPT ![j.id] = IF @.state = "awaiting" THEN [@ EXCEPT !.state = "queued", !.sent = FALSE] ELSE @]
           /\ UNCHANGED <<rows, asked>> /\ Done(j)
  <2>1. PICK m \in MoveIds : m = j.id
    BY JobIds
  <2>2. PICK b \in BOOLEAN : b = FALSE
    OBVIOUS
  <2>3. moves \in [MoveIds -> MoveRecords]
    BY DEF IInv, Typed, PanelInv
  <2>4. PICK op : op = IF moves[m].state = "awaiting" THEN [moves[m] EXCEPT !.state = "queued", !.sent = b] ELSE moves[m]
    OBVIOUS
  <2>5. moves' = [moves EXCEPT ![m] = op]
    BY <1>4, <2>1, <2>2, <2>3, <2>4
  <2>6. op \in MoveRecords /\ (op.state = "none" <=> moves[m].state = "none") /\ op.row = moves[m].row
        /\ op.id = moves[m].id /\ op.uid = moves[m].uid /\ op.pred = moves[m].pred
    <3>1. moves[m] \in MoveRecords
      BY <2>3
    <3>2. CASE moves[m].state = "awaiting"
      BY <2>4, <3>1, <3>2, Restated
    <3>3. CASE moves[m].state # "awaiting"
      BY <2>4, <3>1, <3>3
    <3>. QED
      BY <3>2, <3>3
  <2>7. MovesSame
    BY <2>3, <2>5, <2>6 DEF MovesSame
  <2>8. PanelHolds
    BY <1>1, <1>4, <2>7, PanelStays
  <2>. QED
    BY <1>1, <1>4, <2>8, JobEnds
<1>. QED
  BY <1>2, <1>3, <1>4 DEF Look

\* The lookup fails, and is tried again or given up.
LEMMA StepLookFails ==
  ASSUME IInv, NEW j \in run.jobs, LookFails(j)
  PROVE  IInv'
<1>1. j.is # "sent" /\ UNCHANGED <<setting, letters, given, late, mixed, sync, expunge, asks>> /\ Done(j)
  BY DEF LookFails, Doing, server, Fault
<1>2. PICK m \in MoveIds : m = j.id
  BY JobIds
<1>3. PanelHolds
  <2>1. CASE UNCHANGED panel
    BY <1>1, <2>1, PanelStays, MovesUnchanged DEF IInv, panel
  <2>2. CASE Drop(m)
    BY <1>1, <2>2, DropPanel
  <2>. QED
    BY <1>2, <2>1, <2>2 DEF LookFails
<1>. QED
  BY <1>1, <1>3, JobEnds

\* A letter whose new uid the run knows is settled there.
LEMMA StepSettleFound ==
  ASSUME IInv, NEW j \in run.jobs, SettleFound(j)
  PROVE  IInv'
<1>1. j.is \in {"found", "named"} /\ UNCHANGED <<setting, letters, given, late, mixed, sync, expunge, asks>> /\ Done(j)
  BY DEF SettleFound, Doing, server, budget
<1>2. j.new > 0 /\ j.new <= given /\ j.new \in Nat /\ given \in Nat
  BY <1>1, GivenUids DEF IInv, Typed, BudgetInv, RunInv, RunRecords, JobRecords
<1>3. PICK m \in MoveIds, u \in 1..given : m = j.id /\ u = j.new
  BY <1>2, JobIds
<1>4. Settle(m, u)
  BY <1>3 DEF SettleFound
<1>5. ~mixed /\ Pending(m) => letters[u].id = moves[m].id
  BY <1>1, <1>3 DEF IInv, Names, RunNames, JobNames, Pending
<1>6. PanelHolds
  BY <1>1, <1>4, <1>5, SettlePanel
<1>. QED
  BY <1>1, <1>6, JobEnds

\* The new uid is not known: the move awaits it, or is dropped.
LEMMA StepUnplaced ==
  ASSUME IInv, NEW j \in run.jobs, Unplaced(j)
  PROVE  IInv'
<1>1. j.is # "sent" /\ UNCHANGED <<setting, letters, given, late, mixed, sync, expunge, asks>> /\ Done(j)
  BY DEF Unplaced, Doing, server, budget
<1>2. PICK m \in MoveIds : m = j.id
  BY JobIds
<1>3. PanelHolds
  <2>1. CASE UNCHANGED panel
    BY <1>1, <2>1, PanelStays, MovesUnchanged DEF IInv, panel
  <2>2. CASE Drop(m)
    BY <1>1, <2>2, DropPanel
  <2>3. CASE MarkAwaiting(m) /\ UNCHANGED <<rows, asked>>
    BY <1>1, <2>3, PanelStays, StatesSet
  <2>. QED
    BY <1>2, <2>1, <2>2, <2>3 DEF Unplaced
<1>. QED
  BY <1>1, <1>3, JobEnds

\* The check after a failed command: sent again, reverted, found or dropped.
LEMMA StepCheckFailed ==
  ASSUME IInv, NEW j \in run.jobs, CheckFailed(j)
  PROVE  IInv'
<1>1. j.is # "sent" /\ UNCHANGED <<setting, letters, given, late, mixed, sync, expunge, asks>>
  BY DEF CheckFailed, Doing, server, budget
<1>2. PICK m \in MoveIds : m = j.id
  BY JobIds
<1>3. CASE GoneFromSource(j)
  BY <1>1, <1>3, StepGoneFromSource
<1>4. CASE (Revert(m) \/ (Retry(m) /\ UNCHANGED <<rows, asked>>)) /\ Done(j)
  <2>1. PanelHolds
    BY <1>1, <1>4, RevertPanel, PanelStays, StatesSet
  <2>. QED
    BY <1>1, <1>4, <2>1, JobEnds
<1>. QED
  BY <1>2, <1>3, <1>4 DEF CheckFailed

\* The check after a failed command fails itself.
LEMMA StepCheckFails ==
  ASSUME IInv, NEW j \in run.jobs, CheckFails(j)
  PROVE  IInv'
<1>1. j.is # "sent" /\ UNCHANGED <<setting, letters, given, late, mixed, sync, expunge, asks, rows, asked>> /\ Done(j)
      /\ RetryUnclear(j.id)
  BY DEF CheckFails, Doing, server, Fault
<1>2. PICK m \in MoveIds : m = j.id
  BY JobIds
<1>3. PanelHolds
  BY <1>1, <1>2, PanelStays, StatesSet
<1>. QED
  BY <1>1, <1>3, JobEnds

-------------------------------------------------------------------------------
(* What people ask for, syncs, reconciliations and permanent deletes *)

\* What a step of the panel alone must keep, put together.
LEMMA PanelNext ==
  ASSUME IInv, UNCHANGED <<setting, letters, given, late, mixed, run>>, asks' \in 0..MaxAsks, asked' \in 0..asks',
         PanelInv', ~mixed /\ NamesInv => NamesInv', MovesKept, ClaimInv', SyncInv', ~mixed /\ SyncNames => SyncNames'
  PROVE  IInv'
<1>1. setting \in Settings /\ asked \in Nat /\ asked' \in Nat /\ BudgetInv'
  BY Sizes, SameSizes DEF IInv, Typed, BudgetInv
<1>2. ServerInv' /\ LettersKept
  BY ServerUnchanged DEF IInv
<1>3. \A v \in Uids : v > given => ~letters'[v].live
  BY DEF IInv, Typed, ServerInv
<1>4. RunInv' /\ (RunNames => RunNames')
  BY <1>1, <1>2, <1>3, RunKept DEF IInv, Typed
<1>. QED
  BY <1>1, <1>2, <1>4 DEF IInv, Typed, Names

\* A sync that stays as it is goes on with its own letter.
LEMMA SyncStays ==
  ASSUME IInv, UNCHANGED <<setting, letters, given, late, sync>>, asked' \in Nat, MovesKept
  PROVE  SyncInv' /\ (SyncNames => SyncNames')
<1>1. setting \in Settings /\ asked \in Nat /\ ServerInv' /\ LettersKept
  BY Sizes, ServerUnchanged DEF IInv, Typed, BudgetInv
<1>. QED
  BY <1>1, SyncKept DEF IInv, Typed

\* A new move, and its row put where it is to be.
LEMMA MoveAsked ==
  ASSUME IInv, UNCHANGED <<setting, letters, given, late, mixed, run, sync, expunge>>, Asks, asked' = asked + 1,
         NEW r \in RowIds, NEW f \in Folders, NEW op \in MoveRecords, op.row = r, op.state # "none", op.uid <= given, op.pred <= asked,
         ~mixed /\ NamesInv => /\ op.id = rows[r].id /\ (op.uid > 0 => letters[op.uid].id = op.id)
                               /\ \A p \in MoveIds : op.pred = p /\ moves[p].state # "none" => op.id = moves[p].id,
         rows[r].uid < 0 \/ (rows[r].uid # 0 /\ ~rows[r].claim),
         moves' = [moves EXCEPT ![asked + 1] = op], rows' = [rows EXCEPT ![r].in = f, ![r].uid = -(asked + 1)]
  PROVE  IInv'
<1>1. /\ MoveIds = 1..MaxAsks /\ MaxAsks \in Nat /\ asks \in Nat /\ asked \in Nat /\ given \in Nat /\ asked <= asks
      /\ asks < MaxAsks /\ asks' = asks + 1 /\ MaxAsks' = MaxAsks
      /\ RowIds' = RowIds /\ MoveIds' = MoveIds /\ RowRecords' = RowRecords /\ MoveRecords' = MoveRecords
  BY Sizes, SameSizes, GivenUids DEF IInv, Typed, BudgetInv, Asks
<1>2. PICK m \in MoveIds : m = asked + 1
  BY <1>1
<1>3. PanelInv /\ rows \in [RowIds -> RowRecords] /\ moves \in [MoveIds -> MoveRecords] /\ moves[m].state = "none"
  BY <1>1, <1>2 DEF IInv, Typed, PanelInv
<1>4. moves' \in [MoveIds -> MoveRecords] /\ moves'[m] = op /\ \A n \in MoveIds : n # m => moves'[n] = moves[n]
  BY <1>2, <1>3
<1>5. ASSUME NEW x \in RowIds
      PROVE  /\ rows'[x] \in RowRecords
             /\ x = r => rows'[x].uid = -m /\ rows'[x].id = rows[x].id
             /\ x # r => rows'[x] = rows[x]
  <2>1. CASE x = r
    <3>1. PICK v \in Int : v = -m
      BY <1>1
    <3>2. rows'[x] = [rows[x] EXCEPT !.in = f, !.uid = v]
      BY <1>2, <1>3, <2>1, <3>1
    <3>3. rows[x] \in RowRecords
      BY <1>3
    <3>4. rows'[x] \in RowRecords /\ rows'[x].uid = v /\ rows'[x].id = rows[x].id
      BY ONLY <3>2, <3>3, f \in Folders, v \in Int DEF RowRecords
    <3>. QED
      BY <2>1, <3>1, <3>4
  <2>2. CASE x # r
    BY <1>3, <2>2
  <2>. QED
    BY <2>1, <2>2
<1>6. rows' \in [RowIds -> RowRecords]
  <2>1. rows' = [x \in RowIds |-> rows'[x]]
    BY <1>3
  <2>. QED
    BY <1>5, <2>1
<1>7. PanelInv'
  <2>1. ASSUME NEW x \in RowIds PROVE -asked' <= rows'[x].uid /\ rows'[x].uid <= given
    <3>1. -asked <= rows[x].uid /\ rows[x].uid <= given /\ rows[x].uid \in Int
      BY <1>3 DEF PanelInv, RowRecords
    <3>2. rows'[x].uid = -m \/ rows'[x].uid = rows[x].uid
      BY <1>5
    <3>3. asked' = asked + 1
      OBVIOUS
    <3>. QED
      BY ONLY <1>1, <1>2, <3>1, <3>2, <3>3
  <2>2. ASSUME NEW n \in MoveIds
        PROVE  /\ moves'[n].uid <= given /\ moves'[n].pred <= asked'
               /\ moves'[n].state # "none" => n <= asked' /\ moves'[n].row \in RowIds
    <3>1. CASE n = m
      <4>1. op.pred \in Nat
        BY <1>1 DEF MoveRecords
      <4>. QED
        BY <1>1, <1>2, <1>4, <3>1, <4>1
    <3>2. CASE n # m
      <4>1. moves[n].pred \in Nat /\ n \in Nat
        BY <1>1, <1>3 DEF MoveRecords
      <4>2. moves[n].uid <= given /\ moves[n].pred <= asked /\ (moves[n].state # "none" => n <= asked /\ moves[n].row \in RowIds)
        BY <1>3 DEF PanelInv
      <4>. QED
        BY <1>1, <1>4, <3>2, <4>1, <4>2
    <3>. QED
      BY <3>1, <3>2
  <2>. QED
    BY <1>1, <1>4, <1>6, <2>1, <2>2 DEF PanelInv
<1>8. ASSUME ~mixed, NamesInv PROVE NamesInv'
  <2>1. ASSUME NEW x \in RowIds, rows'[x].uid > 0 PROVE letters[rows'[x].uid].id = rows'[x].id
    <3>1. m \in Nat /\ m > 0
      BY <1>1
    <3>2. x = r => rows'[x].uid = -m
      BY <1>5
    <3>3. x # r
      BY ONLY <2>1, <3>1, <3>2
    <3>4. rows'[x] = rows[x]
      BY <1>5, <3>3
    <3>. QED
      BY <1>8, <2>1, <3>4 DEF NamesInv
  <2>2. ASSUME NEW n \in MoveIds, moves'[n].state # "none"
        PROVE  /\ moves'[n].uid > 0 => letters[moves'[n].uid].id = moves'[n].id
               /\ rows'[moves'[n].row].uid = -n => rows'[moves'[n].row].id = moves'[n].id
               /\ \A k \in MoveIds : moves'[k].state # "none" /\ moves'[k].pred = n => moves'[k].id = moves'[n].id
    <3>1. CASE n = m
      <4>1. \A k \in MoveIds : moves'[k].state # "none" => moves'[k].pred # m
        <5>1. \A k \in MoveIds : moves[k].pred <= asked
          BY <1>3 DEF PanelInv
        <5>. QED
          BY <1>1, <1>2, <1>4, <5>1
      <4>. QED
        BY <1>4, <1>5, <1>8, <3>1, <4>1
    <3>2. CASE n # m
      <4>1. moves'[n] = moves[n] /\ moves[n].row \in RowIds /\ n \in Int /\ m \in Int
        BY <1>1, <1>3, <1>4, <2>2, <3>2 DEF PanelInv
      <4>2. moves'[n].uid > 0 => letters[moves'[n].uid].id = moves'[n].id
        BY <1>8, <2>2, <4>1 DEF NamesInv
      <4>3. rows'[moves'[n].row].uid = -n => rows'[moves'[n].row].id = moves'[n].id
        <5>1. CASE moves[n].row = r
          <6>1. rows'[moves'[n].row].uid = -m
            BY <1>5, <4>1, <5>1
          <6>. QED
            BY ONLY <3>2, <4>1, <6>1
        <5>2. CASE moves[n].row # r
          <6>1. rows'[moves'[n].row] = rows[moves[n].row]
            BY <1>5, <4>1, <5>2
          <6>2. rows[moves[n].row].uid = -n => rows[moves[n].row].id = moves[n].id
            BY <1>8, <2>2, <4>1 DEF NamesInv
          <6>. QED
            BY <4>1, <6>1, <6>2
        <5>. QED
          BY <5>1, <5>2
      <4>4. ASSUME NEW k \in MoveIds, moves'[k].state # "none", moves'[k].pred = n PROVE moves'[k].id = moves'[n].id
        <5>1. CASE k = m
          BY <1>4, <1>8, <2>2, <4>1, <4>4, <5>1
        <5>2. CASE k # m
          BY <1>4, <1>8, <2>2, <4>1, <4>4, <5>2 DEF NamesInv
        <5>. QED
          BY <5>1, <5>2
      <4>. QED
        BY <4>2, <4>3, <4>4
    <3>. QED
      BY <3>1, <3>2
  <2>. QED
    BY <1>1, <2>1, <2>2 DEF NamesInv
<1>9. MovesKept
  BY <1>1, <1>2, <1>4 DEF MovesKept
<1>10. ClaimInv'
  BY <1>5, ClaimRows DEF IInv
<1>11. SyncInv' /\ (SyncNames => SyncNames')
  BY <1>1, <1>9, SyncStays
<1>. QED
  BY <1>1, <1>7, <1>8, <1>9, <1>10, <1>11, PanelNext

\* The move that a pending row waits for.
LEMMA LatestMoves ==
  ASSUME IInv, NEW r \in RowIds, PendingRow(r)
  PROVE  /\ LatestMove(r) \in MoveIds /\ rows[r].uid = -LatestMove(r) /\ rows[r].uid < 0
         /\ moves[LatestMove(r)].state # "none" /\ moves[LatestMove(r)].row = r
         /\ NamesInv => moves[LatestMove(r)].id = rows[r].id
<1>1. /\ asked \in Nat /\ MaxAsks \in Nat /\ MoveIds = 1..MaxAsks /\ asked <= MaxAsks /\ rows[r].uid \in Int
      /\ -asked <= rows[r].uid
  BY Sizes DEF IInv, Typed, BudgetInv, PanelInv, RowRecords
<1>2. rows[r].uid < 0 /\ moves[-rows[r].uid].state # "none" /\ moves[-rows[r].uid].row = r
  BY DEF PendingRow, LatestMove, Pending
<1>3. PICK m \in MoveIds : m = -rows[r].uid
  BY <1>1, <1>2
<1>4. rows[r].uid = -m
  BY <1>1, <1>3
<1>5. NamesInv => moves[m].id = rows[r].id
  BY <1>2, <1>3, <1>4 DEF NamesInv
<1>. QED
  BY <1>2, <1>3, <1>4, <1>5 DEF LatestMove

\* A first move of a row.
LEMMA StepMoveFresh ==
  ASSUME IInv, NEW r \in RowIds, NEW f \in Folders, Asks, MoveFresh(r, f), UNCHANGED <<server, processes>>
  PROVE  IInv'
<1>1. /\ UNCHANGED <<setting, letters, given, late, mixed, run, sync, expunge>> /\ asked' = asked + 1
      /\ rows[r].uid > 0 /\ ~rows[r].claim
      /\ moves' = [moves EXCEPT ![asked + 1] = [NoMove EXCEPT !.row = r, !.id = rows[r].id, !.from = rows[r].in, !.uid = rows[r].uid,
                                                               !.to = f, !.state = "queued"]]
      /\ rows' = [rows EXCEPT ![r].in = f, ![r].uid = -(asked + 1)]
  BY DEF Asks, MoveFresh, server, processes
<1>2. PICK op : op = [NoMove EXCEPT !.row = r, !.id = rows[r].id, !.from = rows[r].in, !.uid = rows[r].uid,
                                    !.to = f, !.state = "queued"]
  OBVIOUS
<1>3. rows[r] \in RowRecords /\ rows[r].uid <= given /\ asked \in Nat /\ MoveIds \subseteq Nat \ {0}
  BY Sizes DEF IInv, Typed, BudgetInv, PanelInv
<1>4. /\ op = [row |-> r, id |-> rows[r].id, from |-> rows[r].in, uid |-> rows[r].uid, to |-> f, pred |-> 0, state |-> "queued",
               sent |-> FALSE, tries |-> 0, newer |-> {}]
      /\ rows[r].uid \in Nat /\ rows[r].id \in Ids /\ rows[r].in \in Folders
  <2>1. rows[r].uid \in Nat /\ rows[r].id \in Ids /\ rows[r].in \in Folders
    BY <1>1, <1>3 DEF RowRecords
  <2>. QED
    BY ONLY <1>2, <2>1 DEF NoMove
<1>5. op \in MoveRecords /\ op.row = r /\ op.state # "none" /\ op.uid = rows[r].uid /\ op.pred = 0 /\ op.id = rows[r].id
  BY ONLY <1>4, r \in RowIds, f \in Folders DEF MoveRecords, States
<1>6. NamesInv => letters[op.uid].id = op.id
  BY <1>1, <1>5 DEF NamesInv
<1>7. \A p \in MoveIds : op.pred # p
  BY <1>3, <1>5
<1>8. op.uid <= given /\ op.pred <= asked
  BY <1>3, <1>5
<1>9. moves' = [moves EXCEPT ![asked + 1] = op]
  BY <1>1, <1>2
<1>. QED
  BY <1>1, <1>5, <1>6, <1>7, <1>8, <1>9, MoveAsked

\* A move that follows one the worker has in hand.
LEMMA StepFollow ==
  ASSUME IInv, NEW r \in RowIds, NEW f \in Folders, Asks, Follow(r, f), UNCHANGED <<server, processes>>
  PROVE  IInv'
<1>0. PICK p \in MoveIds : p = LatestMove(r) /\ rows[r].uid < 0 /\ moves[p].state # "none" /\ moves[p].row = r
                           /\ (NamesInv => moves[p].id = rows[r].id)
  BY LatestMoves DEF Follow
<1>1. /\ UNCHANGED <<setting, letters, given, late, mixed, run, sync, expunge>> /\ asked' = asked + 1
      /\ moves' = [moves EXCEPT ![asked + 1] = [NoMove EXCEPT !.row = r, !.id = moves[p].id, !.from = moves[p].to, !.to = f,
                                                               !.pred = p, !.state = "queued"]]
      /\ rows' = [rows EXCEPT ![r].in = f, ![r].uid = -(asked + 1)]
  BY <1>0 DEF Asks, Follow, server, processes
<1>2. PICK op : op = [NoMove EXCEPT !.row = r, !.id = moves[p].id, !.from = moves[p].to, !.to = f, !.pred = p, !.state = "queued"]
  OBVIOUS
<1>3. moves[p] \in MoveRecords /\ p <= asked /\ given \in Nat
  BY <1>0, GivenUids DEF IInv, Typed, BudgetInv, PanelInv
<1>4. /\ op = [row |-> r, id |-> moves[p].id, from |-> moves[p].to, uid |-> 0, to |-> f, pred |-> p, state |-> "queued",
               sent |-> FALSE, tries |-> 0, newer |-> {}]
      /\ moves[p].id \in Ids /\ moves[p].to \in Folders
  BY <1>2, <1>3 DEF NoMove, MoveRecords
<1>5. op \in MoveRecords /\ op.row = r /\ op.state # "none" /\ op.uid = 0 /\ op.pred = p /\ op.id = moves[p].id
  BY ONLY <1>4, r \in RowIds, f \in Folders, p \in MoveIds DEF MoveRecords, States
<1>6. NamesInv => op.id = rows[r].id
  BY <1>0, <1>5
<1>7. op.uid <= given /\ op.pred <= asked /\ ~(op.uid > 0)
  BY <1>3, <1>5
<1>8. moves' = [moves EXCEPT ![asked + 1] = op]
  BY <1>1, <1>2
<1>9. \A q \in MoveIds : op.pred = q => op.id = moves[q].id
  BY <1>5
<1>. QED
  BY <1>0, <1>1, <1>5, <1>6, <1>7, <1>8, <1>9, MoveAsked

\* The rows and moves that are there, with a row in another place.
LEMMA PanelAsked ==
  ASSUME IInv, UNCHANGED <<setting, letters, given, late, mixed, run, sync, expunge, asked>>, asks' \in asks..MaxAsks,
         moves' \in [MoveIds -> MoveRecords], \A n \in MoveIds : MoveStep(n),
         NEW r \in RowIds, rows[r].uid < 0, NEW f \in Folders, NEW u \in Int, RowStep(r),
         rows' = [rows EXCEPT ![r].in = f, ![r].uid = u]
  PROVE  IInv'
<1>1. rows \in [RowIds -> RowRecords] /\ asks \in Nat /\ MaxAsks \in Nat /\ asked \in 0..asks
  BY Sizes DEF IInv, Typed, BudgetInv, PanelInv
<1>2. ASSUME NEW x \in RowIds PROVE rows'[x] \in RowRecords /\ RowStep(x) /\ (rows'[x] = rows[x] \/ rows[x].uid < 0)
  <2>1. CASE x = r
    <3>1. rows'[x] = [rows[x] EXCEPT !.in = f, !.uid = u]
      BY <1>1, <2>1
    <3>2. rows[x] \in RowRecords
      BY <1>1
    <3>. QED
      BY <2>1, <3>1, <3>2 DEF RowRecords
  <2>2. CASE x # r
    BY <1>1, <2>2 DEF RowStep
  <2>. QED
    BY <2>1, <2>2
<1>3. rows' \in [RowIds -> RowRecords]
  <2>1. rows' = [x \in RowIds |-> rows'[x]]
    BY <1>1
  <2>. QED
    BY <1>2, <2>1
<1>4. PanelInv' /\ (~mixed /\ NamesInv => NamesInv') /\ MovesKept
  BY <1>2, <1>3, PanelEnds DEF IInv
<1>5. ClaimInv'
  BY <1>2, ClaimRows DEF IInv
<1>6. SyncInv' /\ (SyncNames => SyncNames')
  BY <1>1, <1>4, SyncStays
<1>. QED
  BY <1>1, <1>4, <1>5, <1>6, PanelNext

\* A queued move cancelled: its row is back at its uid, or at its predecessor's placeholder.
LEMMA StepCancelMove ==
  ASSUME IInv, NEW r \in RowIds, NEW f \in Folders, Asks, CancelMove(r, f), UNCHANGED <<server, processes>>
  PROVE  IInv'
<1>0. PICK m \in MoveIds : m = LatestMove(r) /\ rows[r].uid < 0 /\ moves[m].state # "none" /\ moves[m].row = r
                           /\ (NamesInv => moves[m].id = rows[r].id)
  BY LatestMoves DEF CancelMove, Cancels
<1>. DEFINE back == IF moves[m].uid # 0 THEN moves[m].uid ELSE -moves[m].pred
<1>1. /\ UNCHANGED <<setting, letters, given, late, mixed, run, sync, expunge, asked>>
      /\ moves' = [moves EXCEPT ![m] = NoMove]
      /\ rows' = [rows EXCEPT ![r].in = f, ![r].uid = back]
  BY <1>0 DEF Asks, CancelMove, server, processes
<1>2. PICK u : u = back
  OBVIOUS
<1>3. /\ moves \in [MoveIds -> MoveRecords] /\ rows \in [RowIds -> RowRecords]
      /\ moves[m].uid <= given /\ moves[m].pred <= asked /\ \A n \in MoveIds : moves[n].uid <= given
  BY DEF IInv, Typed, PanelInv
<1>4. /\ MoveIds \subseteq Nat \ {0} /\ given \in Nat /\ asked \in Nat /\ asks \in Nat /\ MaxAsks \in Nat /\ asks' \in asks..MaxAsks
      /\ MoveIds' = MoveIds /\ NoHeader \in Ids
  BY <1>1, Sizes, SameSizes, GivenUids DEF IInv, Typed, BudgetInv, Asks
<1>5. moves[m].uid \in Nat /\ moves[m].pred \in Nat /\ u \in Int /\ -asked <= u /\ u <= given
  <2>1. moves[m].uid \in Nat /\ moves[m].pred \in Nat
    <3>1. moves[m] \in MoveRecords
      BY <1>3
    <3>2. moves[m].uid \in Nat /\ moves[m].pred \in {0} \cup MoveIds
      BY ONLY <3>1 DEF MoveRecords
    <3>3. \A n \in MoveIds : n \in Nat
      BY <1>4
    <3>. QED
      BY ONLY <3>2, <3>3, 0 \in Nat
  <2>. QED
    BY <1>2, <1>3, <1>4, <2>1
<1>6. NoMove \in MoveRecords /\ NoMove.uid = 0 /\ NoMove.pred = 0 /\ NoMove.state = "none"
  BY <1>4, InboxAssumption DEF NoMove, MoveRecords, States
<1>7. moves' \in [MoveIds -> MoveRecords] /\ \A n \in MoveIds : MoveStep(n) /\ (moves'[n].state # "none" => n # m /\ moves'[n] = moves[n])
  <2>1. \A n \in MoveIds : moves'[n] = IF n = m THEN NoMove ELSE moves[n]
    BY <1>1, <1>3
  <2>. QED
    BY <1>1, <1>3, <1>4, <1>6, <2>1 DEF MoveStep, NamesInv
<1>. HIDE DEF back
<1>8. rows'[r].uid = u /\ rows'[r].id = rows[r].id
  <2>1. rows'[r] = [rows[r] EXCEPT !.in = f, !.uid = u]
    BY <1>1, <1>2, <1>3
  <2>2. rows[r] \in RowRecords
    BY <1>3
  <2>. QED
    BY <2>1, <2>2 DEF RowRecords
<1>9. ASSUME ~mixed, NamesInv PROVE RowSays(r)'
  <2>1. CASE moves[m].uid # 0
    <3>1. u = moves[m].uid /\ u > 0
      BY <1>2, <1>5, <2>1 DEF back
    <3>2. letters[u].id = moves[m].id /\ moves[m].id = rows[r].id
      BY <1>0, <1>9, <3>1 DEF NamesInv
    <3>3. \A n \in MoveIds : u # -n
      BY <1>4, <3>1
    <3>. QED
      BY <1>1, <1>4, <1>8, <3>2, <3>3 DEF RowSays
  <2>2. CASE moves[m].uid = 0
    <3>1. u = -moves[m].pred /\ u <= 0
      BY <1>2, <1>5, <2>2 DEF back
    <3>2. ASSUME NEW n \in MoveIds, moves'[n].state # "none", u = -n PROVE rows[r].id = moves'[n].id
      <4>1. moves[m].pred = n
        BY <1>4, <1>5, <3>1, <3>2
      <4>2. moves'[n] = moves[n]
        BY <1>7, <3>2
      <4>3. moves[m].id = moves[n].id
        BY <1>0, <1>9, <3>2, <4>1, <4>2 DEF NamesInv
      <4>. QED
        BY <1>0, <1>9, <4>2, <4>3
    <3>3. ~(rows'[r].uid > 0)
      BY ONLY <1>5, <1>8, <3>1
    <3>4. \A n \in MoveIds : moves'[n].state # "none" /\ rows'[r].uid = -n => rows'[r].id = moves'[n].id
      BY ONLY <1>8, <3>2
    <3>. QED
      BY ONLY <1>4, <3>3, <3>4 DEF RowSays
  <2>. QED
    BY <2>1, <2>2
<1>10. RowStep(r)
  BY <1>5, <1>8, <1>9 DEF RowStep
<1>11. rows' = [rows EXCEPT ![r].in = f, ![r].uid = u]
  BY <1>1, <1>2
<1>. QED
  BY <1>0, <1>1, <1>4, <1>5, <1>7, <1>10, <1>11, PanelAsked

\* A queued move sent elsewhere.
LEMMA StepRetarget ==
  ASSUME IInv, NEW r \in RowIds, NEW f \in Folders, Asks, Retarget(r, f), UNCHANGED <<server, processes>>
  PROVE  IInv'
<1>0. PICK m \in MoveIds : m = LatestMove(r) /\ rows[r].uid < 0
  BY LatestMoves DEF Retarget
<1>1. /\ UNCHANGED <<setting, letters, given, late, mixed, run, sync, expunge, asked>>
      /\ moves' = [moves EXCEPT ![m].to = f]
      /\ rows' = [rows EXCEPT ![r].in = f]
  BY <1>0 DEF Asks, Retarget, server, processes
<1>3. moves \in [MoveIds -> MoveRecords] /\ rows \in [RowIds -> RowRecords] /\ \A n \in MoveIds : moves[n].uid <= given
  BY DEF IInv, Typed, PanelInv
<1>4. asks \in Nat /\ MaxAsks \in Nat /\ asks' \in asks..MaxAsks
  BY Sizes DEF IInv, Typed, BudgetInv, Asks
<1>5. ASSUME NEW n \in MoveIds PROVE moves'[n] \in MoveRecords /\ MoveStep(n)
  <2>1. moves'[n] = IF n = m THEN [moves[n] EXCEPT !.to = f] ELSE moves[n]
    BY <1>1, <1>3
  <2>2. moves[n] \in MoveRecords
    BY <1>3
  <2>3. moves'[n] \in MoveRecords /\ moves'[n].uid = moves[n].uid /\ moves'[n].pred = moves[n].pred /\ moves'[n].row = moves[n].row
        /\ moves'[n].id = moves[n].id /\ moves'[n].state = moves[n].state
    BY <2>1, <2>2 DEF MoveRecords
  <2>. QED
    BY <1>3, <2>3 DEF MoveStep, NamesInv
<1>6. moves' \in [MoveIds -> MoveRecords]
  <2>1. moves' = [n \in MoveIds |-> moves'[n]]
    BY <1>1, <1>3
  <2>. QED
    BY <1>5, <2>1
<1>7. rows[r] \in RowRecords
  BY <1>3
<1>8. PICK u \in Int : u = rows[r].uid
  BY <1>7 DEF RowRecords
<1>9. rows' = [rows EXCEPT ![r].in = f, ![r].uid = u] /\ rows'[r].uid = rows[r].uid /\ rows'[r].id = rows[r].id
  <2>1. rows'[r] = [rows[r] EXCEPT !.in = f]
    BY <1>1, <1>3
  <2>2. [rows[r] EXCEPT !.in = f] = [rows[r] EXCEPT !.in = f, !.uid = u]
    BY <1>7, <1>8 DEF RowRecords
  <2>3. rows'[r].uid = rows[r].uid /\ rows'[r].id = rows[r].id
    BY <1>7, <2>1 DEF RowRecords
  <2>. QED
    BY <1>1, <1>3, <2>1, <2>2, <2>3
<1>10. RowStep(r)
  BY <1>9 DEF RowStep
<1>. QED
  BY <1>0, <1>1, <1>4, <1>5, <1>6, <1>9, <1>10, PanelAsked

\* What a request does to a row, and to the guards.
LEMMA StepAsk ==
  ASSUME IInv, NEW r \in RowIds, NEW f \in Folders, Ask(r, f)
  PROVE  IInv'
BY StepMoveFresh, StepCancelMove, StepRetarget, StepFollow DEF Ask

\* A step that touches no row, move, letter or run keeps everything but what it changes.
LEMMA NothingMoves ==
  ASSUME IInv, UNCHANGED <<setting, letters, given, late, mixed, rows, moves, asked, asks, run, sync, expunge>>
  PROVE  IInv'
<1>1. asks' \in 0..MaxAsks /\ asked' \in 0..asks' /\ asked' \in Nat
  BY Sizes DEF IInv, Typed, BudgetInv
<1>2. PanelHolds
  BY PanelStays, MovesUnchanged DEF IInv
<1>3. SyncInv' /\ (SyncNames => SyncNames')
  BY <1>1, <1>2, SyncStays DEF PanelHolds
<1>. QED
  BY <1>1, <1>2, <1>3, PanelNext DEF PanelHolds

\* What requests and the reconciliation do beside rows and moves.
LEMMA StepBeside ==
  ASSUME IInv, (\E q \in unguarded : Registered(q)) \/ (\E u \in linger : LingerEnds(u)) \/ ListServer \/ Judge \/ UNCHANGED vars
  PROVE  IInv'
<1>1. UNCHANGED <<setting, letters, given, late, mixed, rows, moves, asked, asks, run, sync, expunge>>
  BY DEF Registered, LingerEnds, ListServer, Judge, vars, server, panel, memory, processes, budget
<1>. QED
  BY <1>1, NothingMoves

\* The sync goes on to another letter, or to what becomes of this one.
LEMMA SyncGoesOn ==
  ASSUME IInv, UNCHANGED <<setting, letters, given, late, mixed, asks, run>>, PanelHolds, SyncInv', SyncNames'
  PROVE  IInv'
<1>1. asks' \in 0..MaxAsks /\ asked' \in 0..asks'
  BY Sizes DEF IInv, Typed, BudgetInv, PanelHolds
<1>. QED
  BY <1>1, PanelNext DEF PanelHolds

\* A sync fetches a letter.
LEMMA StepFetch ==
  ASSUME IInv, NEW u \in Uids, Fetch(u)
  PROVE  IInv'
<1>1. /\ UNCHANGED <<setting, letters, given, late, mixed, rows, moves, asked, asks, run, expunge>>
      /\ sync' = [sync EXCEPT !.at = "fetched", !.uid = u] /\ sync = NoSync /\ u \in 1..given
  BY DEF Fetch, server, panel, memory, budget
<1>2. given \in Nat /\ asked \in Nat
  BY Sizes, GivenUids DEF IInv, Typed, BudgetInv
<1>3. sync' = [at |-> "fetched", uid |-> u, move |-> 0] /\ u \in Nat /\ u > 0 /\ u <= given
  <2>1. sync' = [at |-> "fetched", uid |-> u, move |-> 0]
    BY ONLY <1>1 DEF NoSync
  <2>2. u \in Nat /\ u > 0 /\ u <= given
    BY ONLY <1>1, <1>2
  <2>. QED
    BY <2>1, <2>2
<1>4. sync' \in SyncRecords /\ sync'.at = "fetched" /\ sync'.uid = u /\ sync'.move = 0
  BY ONLY <1>3 DEF SyncRecords
<1>5. SyncInv' /\ SyncNames'
  <2>1. SyncRecords' = SyncRecords
    BY <1>1, SameSizes
  <2>. QED
    BY ONLY <1>1, <1>2, <1>3, <1>4, <2>1 DEF SyncInv, SyncNames
<1>6. PanelHolds
  BY <1>1, PanelStays, MovesUnchanged DEF IInv
<1>. QED
  BY <1>1, <1>5, <1>6, SyncGoesOn

\* A sync that is over names nothing.
LEMMA SyncOver ==
  ASSUME IInv, setting' = setting, given' = given, asked' = asked, \/ sync' = NoSync
                                                  \/ /\ sync'.at = "inserting" /\ sync'.uid = sync.uid /\ sync'.move <= asked
                                                     /\ sync.at # "idle" /\ sync' \in SyncRecords
  PROVE  SyncInv' /\ SyncNames'
<1>1. SyncRecords' = SyncRecords /\ given \in Nat /\ asked \in Nat
  BY Sizes, SameSizes, GivenUids DEF IInv, Typed, BudgetInv
<1>2. CASE sync' = NoSync
  <2>1. sync' = [at |-> "idle", uid |-> 0, move |-> 0]
    BY <1>2 DEF NoSync
  <2>2. sync' \in SyncRecords
    BY ONLY <2>1, 0 \in Nat DEF SyncRecords
  <2>. QED
    BY <1>1, <2>1, <2>2 DEF SyncInv, SyncNames
<1>3. CASE sync' # NoSync
  BY <1>1, <1>3 DEF IInv, Typed, SyncInv, SyncNames
<1>. QED
  BY <1>2, <1>3

\* A sync finds a letter known, guarded, expected by a move, or new.
LEMMA StepCheckFetched ==
  ASSUME IInv, CheckFetched
  PROVE  IInv'
<1>1. /\ UNCHANGED <<setting, letters, given, late, mixed, rows, moves, asked, asks, run, expunge>> /\ sync.at = "fetched"
      /\ \/ sync' = NoSync
         \/ Expecting(sync.uid) # {} /\ sync' = [sync EXCEPT !.at = "attaching", !.move = Min(Expecting(sync.uid))]
         \/ sync' = [sync EXCEPT !.at = "inserting"]
  BY DEF CheckFetched, server, panel, memory, budget
<1>2. sync \in SyncRecords /\ sync.uid > 0 /\ sync.uid <= given /\ sync.move <= asked
  BY <1>1 DEF IInv, Typed, SyncInv
<1>3. PanelHolds
  BY <1>1, PanelStays, MovesUnchanged DEF IInv
<1>4. CASE sync' = NoSync
  BY <1>1, <1>3, <1>4, SyncOver, SyncGoesOn
<1>5. CASE sync' = [sync EXCEPT !.at = "inserting"]
  <2>1. sync'.at = "inserting" /\ sync'.uid = sync.uid /\ sync'.move = sync.move /\ sync' \in SyncRecords
    BY ONLY <1>2, <1>5 DEF SyncRecords
  <2>. QED
    BY <1>1, <1>2, <1>3, <2>1, SyncOver, SyncGoesOn
<1>6. CASE Expecting(sync.uid) # {} /\ sync' = [sync EXCEPT !.at = "attaching", !.move = Min(Expecting(sync.uid))]
  <2>1. MoveIds \in SUBSET Nat /\ (\A m \in MoveIds : m > 0) /\ asked \in Nat /\ given \in Nat
    BY Sizes, GivenUids DEF IInv, Typed, BudgetInv
  <2>2. Expecting(sync.uid) \in SUBSET Nat
    BY <2>1 DEF Expecting
  <2>3. PICK m \in Expecting(sync.uid) : m = Min(Expecting(sync.uid))
    BY ONLY <1>6, <2>2, LeastNumber
  <2>4. m \in MoveIds /\ moves[m].state # "none" /\ moves[m].id = letters[sync.uid].id
    BY DEF Expecting, InFlight
  <2>5. sync' = [sync EXCEPT !.at = "attaching", !.move = m]
    BY <1>6, <2>3
  <2>6. sync'.at = "attaching" /\ sync'.uid = sync.uid /\ sync'.move = m /\ sync' \in SyncRecords
    BY ONLY <1>2, <2>4, <2>5 DEF SyncRecords
  <2>7. m <= asked /\ m > 0
    BY <2>1, <2>4 DEF IInv, Typed, PanelInv
  <2>8. SyncInv' /\ SyncNames'
    BY <1>1, <1>2, <2>4, <2>6, <2>7, SameSizes DEF SyncInv, SyncNames
  <2>. QED
    BY <1>1, <1>3, <2>8, SyncGoesOn
<1>. QED
  BY <1>1, <1>4, <1>5, <1>6

\* A sync gives a letter to the move that expected it.
LEMMA StepAttach ==
  ASSUME IInv, Attach
  PROVE  IInv'
<1>1. /\ UNCHANGED <<setting, letters, given, late, mixed, asks, run, expunge>> /\ sync.at = "attaching"
      /\ Settle(sync.move, sync.uid)
      /\ (sync' = NoSync \/ sync' = [sync EXCEPT !.at = "inserting", !.move = 0])
  BY DEF Attach, server, budget
<1>2. sync \in SyncRecords /\ sync.uid > 0 /\ sync.uid <= given /\ sync.move > 0 /\ given \in Nat /\ asked \in Nat
  BY <1>1, Sizes, GivenUids DEF IInv, Typed, BudgetInv, SyncInv
<1>3. PICK m \in MoveIds, u \in 1..given : m = sync.move /\ u = sync.uid
  <2>1. sync.uid \in Nat /\ sync.move \in {0} \cup MoveIds
    BY <1>2 DEF SyncRecords
  <2>2. sync.move \in MoveIds
    BY <1>2, <2>1
  <2>. QED
    BY <1>2, <2>1, <2>2
<1>4. ~mixed /\ Pending(m) => letters[u].id = moves[m].id
  BY <1>1, <1>3 DEF IInv, Names, SyncNames, Pending
<1>5. PanelHolds
  BY <1>1, <1>3, <1>4, SettlePanel
<1>6. CASE sync' = NoSync
  BY <1>1, <1>5, <1>6, SyncOver, SyncGoesOn DEF PanelHolds
<1>7. CASE sync' = [sync EXCEPT !.at = "inserting", !.move = 0]
  <2>1. sync'.at = "inserting" /\ sync'.uid = sync.uid /\ sync'.move = 0 /\ sync' \in SyncRecords
    BY ONLY <1>2, <1>7 DEF SyncRecords
  <2>. QED
    BY <1>1, <1>2, <1>5, <2>1, SyncOver, SyncGoesOn DEF PanelHolds
<1>. QED
  BY <1>1, <1>6, <1>7

\* A change of rows alone that keeps what they name keeps everything.
LEMMA RowsChange ==
  ASSUME IInv, UNCHANGED <<setting, letters, given, late, mixed, run, moves, asked, sync>>, asks' \in asks..MaxAsks,
         rows' = [x \in RowIds |-> rows'[x]], \A x \in RowIds : rows'[x] \in RowRecords /\ RowStep(x), ClaimInv'
  PROVE  IInv'
<1>1. rows' \in [RowIds -> RowRecords] /\ moves \in [MoveIds -> MoveRecords] /\ \A n \in MoveIds : moves[n].uid <= given
  BY DEF IInv, Typed, PanelInv
<1>2. \A n \in MoveIds : MoveStep(n)
  BY <1>1 DEF MoveStep, NamesInv
<1>3. PanelInv' /\ (~mixed /\ NamesInv => NamesInv') /\ MovesKept
  BY <1>1, <1>2, PanelEnds DEF IInv
<1>4. asked \in Nat /\ asked \in 0..asks /\ asks \in Nat /\ MaxAsks \in Nat
  BY Sizes DEF IInv, Typed, BudgetInv
<1>5. SyncInv' /\ (SyncNames => SyncNames')
  BY <1>3, <1>4, SyncStays
<1>. QED
  BY <1>3, <1>4, <1>5, PanelNext

\* A delete that is over claims nothing.
LEMMA ClaimOver ==
  ASSUME expunge' = NoExpunge
  PROVE  ClaimInv'
<1>1. expunge' = [at |-> "idle", row |-> 0, uid |-> 0]
  BY DEF NoExpunge
<1>2. expunge' \in ExpungeRecords' /\ expunge'.at = "idle"
  BY <1>1 DEF ExpungeRecords
<1>. QED
  BY <1>2 DEF ClaimInv

\* A row that only its claim changes of.
LEMMA Unclaimed ==
  ASSUME Typed, NEW x \in RowIds, NEW b \in BOOLEAN, rows'[x] = [rows[x] EXCEPT !.claim = b]
  PROVE  rows'[x] \in RowRecords /\ rows'[x].uid = rows[x].uid /\ rows'[x].id = rows[x].id /\ rows'[x].claim = b /\ RowStep(x)
<1>1. rows[x] \in RowRecords
  BY DEF Typed, PanelInv
<1>2. rows'[x] \in RowRecords /\ rows'[x].uid = rows[x].uid /\ rows'[x].id = rows[x].id /\ rows'[x].claim = b
  BY <1>1 DEF RowRecords
<1>. QED
  BY <1>2 DEF RowStep

\* A row that goes names nothing.
LEMMA RowGone ==
  ASSUME Typed, NEW x \in RowIds, rows'[x] = NoRow \/ rows'[x] = rows[x]
  PROVE  rows'[x] \in RowRecords /\ RowStep(x) /\ (rows'[x].uid = 0 \/ rows'[x] = rows[x])
<1>1. NoRow = [in |-> Inbox, uid |-> 0, id |-> NoHeader, claim |-> FALSE] /\ NoHeader \in Ids
  BY Sizes DEF NoRow, Typed, BudgetInv
<1>2. NoRow \in RowRecords /\ NoRow.uid = 0
  BY <1>1, InboxAssumption DEF RowRecords
<1>3. rows[x] \in RowRecords
  BY DEF Typed, PanelInv
<1>. QED
  BY <1>2, <1>3 DEF RowStep

\* The reconciliation deletes the rows it judged orphaned, claimed ones among them.
LEMMA StepDeleteOrphans ==
  ASSUME IInv, DeleteOrphans
  PROVE  IInv'
<1>1. /\ UNCHANGED <<setting, letters, given, late, mixed, run, moves, asked, asks, sync, expunge>>
      /\ rows' = [r \in RowIds |-> rows'[r]] /\ \A r \in RowIds : rows'[r] \in {NoRow, rows[r]}
  BY DEF DeleteOrphans, server, memory, budget
<1>2. \A r \in RowIds : rows'[r] \in RowRecords /\ RowStep(r) /\ (rows'[r].uid = 0 \/ rows'[r] = rows[r])
  BY <1>1, RowGone DEF IInv
<1>3. ClaimInv'
  BY <1>1, <1>2, ClaimRows DEF IInv
<1>4. asks' \in asks..MaxAsks
  BY <1>1, Sizes DEF IInv, Typed, BudgetInv
<1>. QED
  BY <1>1, <1>2, <1>3, <1>4, RowsChange

\* The delete is done, and its row goes.
LEMMA StepFinishExpunge ==
  ASSUME IInv, FinishExpunge
  PROVE  IInv'
<1>1. /\ UNCHANGED <<setting, letters, given, late, mixed, run, moves, asked, asks, sync>> /\ expunge' = NoExpunge
      /\ rows' = [r \in RowIds |-> rows'[r]] /\ \A r \in RowIds : rows'[r] \in {NoRow, rows[r]}
  BY DEF FinishExpunge, server, memory, budget
<1>2. \A r \in RowIds : rows'[r] \in RowRecords /\ RowStep(r)
  BY <1>1, RowGone DEF IInv
<1>3. asks' \in asks..MaxAsks
  BY <1>1, Sizes DEF IInv, Typed, BudgetInv
<1>. QED
  BY <1>1, <1>2, <1>3, ClaimOver, RowsChange

\* A row is claimed where it stands.
LEMMA StepClaimRow ==
  ASSUME IInv, NEW r \in RowIds, ClaimRow(r)
  PROVE  IInv'
<1>1. PICK b \in BOOLEAN : b = TRUE
  OBVIOUS
<1>2. /\ UNCHANGED <<setting, letters, given, late, mixed, run, moves, asked, sync>> /\ rows[r].uid > 0
      /\ rows' = [rows EXCEPT ![r].claim = b] /\ expunge' = [at |-> "claimed", row |-> r, uid |-> rows[r].uid]
  BY <1>1 DEF ClaimRow, server, memory, Asks
<1>3. rows \in [RowIds -> RowRecords]
  BY DEF IInv, Typed, PanelInv
<1>4. rows' = [x \in RowIds |-> rows'[x]] /\ rows'[r] = [rows[r] EXCEPT !.claim = b] /\ \A x \in RowIds : x # r => rows'[x] = rows[x]
  BY <1>2, <1>3
<1>5. rows'[r] \in RowRecords /\ rows'[r].uid = rows[r].uid /\ rows'[r].claim = b /\ RowStep(r)
  BY <1>4, Unclaimed DEF IInv
<1>6. \A x \in RowIds : rows'[x] \in RowRecords /\ RowStep(x)
  BY <1>3, <1>4, <1>5 DEF RowStep
<1>7. ClaimInv'
  <2>1. RowIds' = RowIds /\ ExpungeRecords' = ExpungeRecords
    BY <1>2, SameSizes
  <2>2. rows[r].uid \in Nat
    BY <1>2, <1>3 DEF RowRecords
  <2>3. expunge' \in ExpungeRecords /\ expunge'.row = r /\ expunge'.uid = rows[r].uid
    BY ONLY <1>2, <2>2, r \in RowIds DEF ExpungeRecords
  <2>. QED
    BY <1>1, <1>2, <1>5, <2>1, <2>3 DEF ClaimInv
<1>8. asks' \in asks..MaxAsks
  BY Sizes DEF IInv, Typed, BudgetInv, ClaimRow, Asks
<1>. QED
  BY <1>2, <1>4, <1>6, <1>7, <1>8, RowsChange

\* Claims given back.
LEMMA StepClaimsEnd ==
  ASSUME IInv, ReleaseClaim \/ ReleaseStale
  PROVE  IInv'
<1>1. PICK b \in BOOLEAN : b = FALSE
  OBVIOUS
<1>2. UNCHANGED <<setting, letters, given, late, mixed, run, moves, asked, asks, sync>> /\ expunge' = NoExpunge
  BY DEF ReleaseClaim, ReleaseStale, server, memory, processes, budget, Fault
<1>3. rows \in [RowIds -> RowRecords]
  BY DEF IInv, Typed, PanelInv
<1>4. rows' = [x \in RowIds |-> rows'[x]] /\ \A x \in RowIds : rows'[x] \in {rows[x], [rows[x] EXCEPT !.claim = b]}
  <2>1. CASE rows' = [rows EXCEPT ![expunge.row].claim = b]
    BY <1>3, <2>1
  <2>2. CASE rows' = rows
    BY <1>3, <2>2
  <2>3. CASE rows' = [x \in RowIds |-> [rows[x] EXCEPT !.claim = b]]
    BY <2>3
  <2>. QED
    BY <1>1, <2>1, <2>2, <2>3 DEF ReleaseClaim, ReleaseStale
<1>5. \A x \in RowIds : rows'[x] \in RowRecords /\ RowStep(x)
  BY <1>4, Unclaimed, RowGone DEF IInv
<1>6. asks' \in asks..MaxAsks
  BY <1>2, Sizes DEF IInv, Typed, BudgetInv
<1>. QED
  BY <1>2, <1>4, <1>5, <1>6, ClaimOver, RowsChange

\* A sync inserts a row for a letter.
LEMMA StepInsert ==
  ASSUME IInv, Insert
  PROVE  IInv'
<1>1. UNCHANGED <<setting, letters, given, late, mixed, run, asked, asks, expunge>> /\ sync.at = "inserting" /\ sync' = NoSync
  BY DEF Insert, server, memory, budget
<1>2. SyncInv' /\ SyncNames'
  BY <1>1, SyncOver
<1>3. CASE UNCHANGED <<rows, moves>>
  BY <1>1, <1>2, <1>3, PanelStays, MovesUnchanged, SyncGoesOn DEF IInv
<1>4. CASE ~UNCHANGED <<rows, moves>>
  <2>0. PICK u : u = sync.uid
    OBVIOUS
  <2>1. PICK r : r = Min(Unused)
    OBVIOUS
  <2>2. /\ Unused # {} /\ moves' = Fresh(moves, r)
        /\ rows' = [rows EXCEPT ![r] = [NoRow EXCEPT !.in = letters[u].in, !.uid = u, !.id = letters[u].id]]
    BY <1>4, <2>0, <2>1 DEF Insert
  <2>3. RowIds \in SUBSET (Nat \ {0}) /\ MoveIds \in SUBSET (Nat \ {0}) /\ given \in Nat /\ asked \in Nat /\ MoveIds' = MoveIds
    BY <1>1, Sizes, SameSizes, GivenUids DEF IInv, Typed, BudgetInv
  <2>4. r \in Unused
    <3>1. Unused \in SUBSET Nat
      BY <2>3 DEF Unused
    <3>. QED
      BY ONLY <2>1, <2>2, <3>1, LeastNumber
  <2>5. r \in RowIds /\ expunge.row # r /\ \A m \in MoveIds : moves[m].row # r
    BY <2>4 DEF Unused
  <2>6. u \in 1..given /\ u \in Nat /\ letters[u] \in Places
    <3>1. sync.uid > 0 /\ sync.uid <= given /\ sync.uid \in Nat
      BY <1>1 DEF IInv, Typed, SyncInv, SyncRecords
    <3>2. 1..given \subseteq Uids /\ letters \in [Uids -> Places]
      BY GivenUids DEF IInv, Typed, BudgetInv, ServerInv
    <3>. QED
      BY <2>0, <2>3, <3>1, <3>2
  <2>7. rows \in [RowIds -> RowRecords] /\ moves \in [MoveIds -> MoveRecords] /\ \A n \in MoveIds : moves[n].uid <= given
    BY DEF IInv, Typed, PanelInv
  <2>8. ASSUME NEW n \in MoveIds PROVE moves'[n] \in MoveRecords /\ MoveStep(n) /\ moves'[n].row = moves[n].row
    <3>1. moves'[n] = IF moves[n].state = "none" THEN moves[n] ELSE [moves[n] EXCEPT !.newer = @ \cup {r}]
      BY <2>2 DEF Fresh
    <3>2. moves[n] \in MoveRecords
      BY <2>7
    <3>3. /\ moves'[n] \in MoveRecords /\ moves'[n].uid = moves[n].uid /\ moves'[n].pred = moves[n].pred
          /\ moves'[n].row = moves[n].row /\ moves'[n].id = moves[n].id /\ moves'[n].state = moves[n].state
      BY ONLY <2>5, <3>1, <3>2 DEF MoveRecords
    <3>. QED
      BY <2>7, <3>3 DEF MoveStep, NamesInv
  <2>9. moves' \in [MoveIds -> MoveRecords]
    <3>1. moves' = [n \in MoveIds |-> moves'[n]]
      BY <2>2 DEF Fresh
    <3>. QED
      BY <2>8, <3>1
  <2>10. PICK new : new = [NoRow EXCEPT !.in = letters[u].in, !.uid = u, !.id = letters[u].id]
    OBVIOUS
  <2>11. new \in RowRecords /\ new.uid = u /\ new.id = letters[u].id
    <3>1. letters[u].in \in Folders /\ letters[u].id \in Ids
      BY <2>6 DEF Places
    <3>2. new = [in |-> letters[u].in, uid |-> u, id |-> letters[u].id, claim |-> FALSE]
      BY <2>10 DEF NoRow
    <3>3. u \in Int
      BY <2>6
    <3>. QED
      BY ONLY <3>1, <3>2, <3>3 DEF RowRecords
  <2>12. rows'[r] = new /\ \A x \in RowIds : x # r => rows'[x] = rows[x]
    BY <2>2, <2>5, <2>7, <2>10
  <2>13. RowStep(r)
    <3>1. RowSays(r)'
      BY <1>1, <2>3, <2>5, <2>8, <2>11, <2>12 DEF RowSays
    <3>2. -asked <= u /\ u <= given
      BY <2>3, <2>6
    <3>. QED
      BY <2>11, <2>12, <3>1, <3>2 DEF RowStep
  <2>14. \A x \in RowIds : rows'[x] \in RowRecords /\ RowStep(x)
    BY <2>7, <2>11, <2>12, <2>13 DEF RowStep
  <2>15. rows' \in [RowIds -> RowRecords]
    <3>1. rows' = [x \in RowIds |-> rows'[x]]
      BY <2>2, <2>7
    <3>. QED
      BY <2>14, <3>1
  <2>16. ClaimInv'
    <3>1. \A x \in RowIds : rows'[x] = rows[x] \/ x # expunge.row
      BY <2>5, <2>12
    <3>. QED
      BY <1>1, <3>1, ClaimRows DEF IInv
  <2>17. PanelHolds
    BY <1>1, <2>8, <2>9, <2>14, <2>15, <2>16, PanelEnds DEF IInv, PanelHolds
  <2>. QED
    BY <1>1, <1>2, <2>17, SyncGoesOn
<1>. QED
  BY <1>3, <1>4

\* The backend dies and comes back: what it had in memory is gone.
LEMMA StepCrash ==
  ASSUME IInv, Crash
  PROVE  IInv'
<1>1. PICK b \in BOOLEAN : b = FALSE
  OBVIOUS
<1>2. /\ UNCHANGED <<setting, letters, given, mixed, asked, asks>>
      /\ run' = NoRun /\ sync' = NoSync /\ expunge' = NoExpunge
      /\ late' = late \/ (run.at = "sent" /\ late' = late \cup {Command(Sent)})
      /\ moves' = [m \in MoveIds |-> Swept(moves[m])]
      /\ rows' = [r \in RowIds |-> [rows[r] EXCEPT !.claim = b]]
  BY <1>1 DEF Crash, Fault
<1>3. BudgetInv' /\ setting \in Settings
  BY <1>2, SameSizes DEF IInv, Typed, BudgetInv
<1>4. ServerInv'
  <2>1. late' \subseteq [uids : SUBSET Nat, from : Folders, to : Folders]
    BY <1>2, <1>3, CommandOut DEF IInv, Typed, ServerInv
  <2>. QED
    BY <1>2, <2>1, SameSizes DEF IInv, Typed, ServerInv
<1>5. \A r \in RowIds : rows'[r] \in RowRecords /\ RowStep(r)
  BY <1>2, Unclaimed DEF IInv
<1>6. rows' \in [RowIds -> RowRecords]
  BY <1>2, <1>5
<1>7. ASSUME NEW m \in MoveIds PROVE moves'[m] \in MoveRecords /\ MoveStep(m)
  <2>1. /\ moves'[m] \in MoveRecords /\ (moves'[m].state = "none" <=> moves[m].state = "none")
        /\ moves'[m].row = moves[m].row /\ moves'[m].id = moves[m].id /\ moves'[m].uid = moves[m].uid
        /\ moves'[m].pred = moves[m].pred
    BY <1>2, SweptStates DEF IInv
  <2>2. moves[m].uid <= given
    BY DEF IInv, Typed, PanelInv
  <2>. QED
    BY <2>1, <2>2 DEF MoveStep, NamesInv
<1>8. moves' \in [MoveIds -> MoveRecords]
  BY <1>2, <1>7
<1>9. PanelInv' /\ (~mixed /\ NamesInv => NamesInv')
  BY <1>2, <1>5, <1>6, <1>7, <1>8, PanelEnds DEF IInv
<1>10. RunInv' /\ RunNames'
  BY <1>2, RunEnds
<1>11. SyncInv' /\ SyncNames'
  BY <1>2, SyncOver
<1>12. ClaimInv'
  BY <1>2, ClaimOver
<1>. QED
  BY <1>2, <1>3, <1>4, <1>9, <1>10, <1>11, <1>12 DEF IInv, Typed, Names

-------------------------------------------------------------------------------
(* The invariant holds *)

\* The panel starts with a row for every letter and nothing under way.
LEMMA InitIInv ==
  ASSUME Init
  PROVE  IInv
<1>1. setting \in Settings /\ given = Len(Headers) /\ late = {} /\ asked = 0 /\ asks = 0 /\ run = NoRun /\ sync = NoSync
      /\ expunge = NoExpunge
  BY DEF Init
<1>2. PICK n \in Nat, last \in Nat : n = Len(Headers) /\ last = LastUid /\ n <= last
  BY <1>1, Sizes
<1>3. DOMAIN Headers = 1..n /\ Uids = 1..last /\ given = n
  BY <1>1, <1>2, Sizes
<1>4. MaxAsks \in Nat /\ MoveIds = 1..MaxAsks /\ RowIds \subseteq Nat \ {0} /\ NoHeader \in Ids
  BY <1>1, Sizes
<1>5. BudgetInv
  <2>1. mixed \in BOOLEAN
    BY DEF Init
  <2>2. 0 \in 0..MaxAsks /\ 0 \in 0..0
    BY <1>4
  <2>. QED
    BY ONLY <1>1, <2>1, <2>2 DEF BudgetInv
<1>6. ASSUME NEW u \in Uids
      PROVE  /\ letters[u] \in Places /\ (u > given => ~letters[u].live)
             /\ u \in 1..n => letters[u].id = Headers[u]
  <2>1. letters[u] = IF u \in DOMAIN Headers THEN [in |-> Inbox, id |-> Headers[u], live |-> TRUE]
                     ELSE [in |-> Inbox, id |-> NoHeader, live |-> FALSE]
    BY DEF Init
  <2>2. u \in Nat /\ u > 0
    BY <1>2, <1>3
  <2>3. CASE u \in 1..n
    <3>1. letters[u] = [in |-> Inbox, id |-> Headers[u], live |-> TRUE]
      BY <1>3, <2>1, <2>3
    <3>2. Headers[u] \in Ids
      BY <1>1, <1>3, <2>3, Sizes
    <3>3. u <= given
      BY <1>3, <2>2, <2>3
    <3>4. letters[u] \in Places /\ letters[u].id = Headers[u]
      BY ONLY <3>1, <3>2, InboxAssumption DEF Places
    <3>. QED
      BY <1>2, <1>3, <2>2, <3>3, <3>4
  <2>4. CASE u \notin 1..n
    <3>1. letters[u] = [in |-> Inbox, id |-> NoHeader, live |-> FALSE]
      BY <1>3, <2>1, <2>4
    <3>2. letters[u] \in Places /\ ~letters[u].live
      BY ONLY <3>1, <1>4, InboxAssumption DEF Places
    <3>. QED
      BY <2>4, <3>2
  <2>. QED
    BY <2>3, <2>4
<1>7. ServerInv
  <2>1. letters = [u \in Uids |-> letters[u]]
    BY DEF Init
  <2>2. letters \in [Uids -> Places]
    BY <1>6, <2>1
  <2>3. given \in 0..LastUid
    BY <1>2, <1>3
  <2>4. late \subseteq [uids : SUBSET Nat, from : Folders, to : Folders]
    BY <1>1
  <2>. QED
    BY <1>6, <2>2, <2>3, <2>4 DEF ServerInv
<1>8. ASSUME NEW r \in RowIds
      PROVE  /\ rows[r] \in RowRecords /\ 0 <= rows[r].uid /\ rows[r].uid <= given
             /\ rows[r].uid > 0 => letters[rows[r].uid].id = rows[r].id
  <2>1. NoRow = [in |-> Inbox, uid |-> 0, id |-> NoHeader, claim |-> FALSE]
    BY DEF NoRow
  <2>2. rows[r] = IF r \in DOMAIN Headers THEN [NoRow EXCEPT !.uid = r, !.id = Headers[r]] ELSE NoRow
    BY DEF Init
  <2>3. r \in Nat /\ r > 0
    BY <1>4
  <2>4. CASE r \in 1..n
    <3>1. rows[r] = [in |-> Inbox, uid |-> r, id |-> Headers[r], claim |-> FALSE]
      BY ONLY <1>3, <2>1, <2>2, <2>4
    <3>2. r \in Int /\ r <= given /\ r \in Uids
      BY <1>2, <1>3, <2>3, <2>4
    <3>3. letters[r].id = Headers[r]
      BY <1>6, <2>4, <3>2
    <3>4. Headers[r] \in Ids
      BY <1>1, <1>3, <2>4, Sizes
    <3>5. rows[r] \in RowRecords /\ rows[r].uid = r /\ rows[r].id = Headers[r]
      BY ONLY <3>1, <3>2, <3>4, InboxAssumption DEF RowRecords
    <3>. QED
      BY <2>3, <3>2, <3>3, <3>5
  <2>5. CASE r \notin 1..n
    <3>1. rows[r] = [in |-> Inbox, uid |-> 0, id |-> NoHeader, claim |-> FALSE]
      BY <1>3, <2>1, <2>2, <2>5
    <3>2. rows[r] \in RowRecords /\ rows[r].uid = 0
      BY ONLY <3>1, <1>4, InboxAssumption DEF RowRecords
    <3>. QED
      BY <1>2, <1>3, <3>2
  <2>. QED
    BY <2>4, <2>5
<1>9. rows \in [RowIds -> RowRecords]
  <2>1. rows = [r \in RowIds |-> rows[r]]
    BY DEF Init
  <2>. QED
    BY <1>8, <2>1
<1>10. ASSUME NEW m \in MoveIds
       PROVE  moves[m] \in MoveRecords /\ moves[m].state = "none" /\ moves[m].uid = 0 /\ moves[m].pred = 0
  <2>1. moves[m] = NoMove
    BY DEF Init
  <2>. QED
    BY <1>4, <2>1, InboxAssumption DEF NoMove, MoveRecords, States
<1>11. moves \in [MoveIds -> MoveRecords]
  <2>1. moves = [m \in MoveIds |-> moves[m]]
    BY DEF Init
  <2>. QED
    BY <1>10, <2>1
<1>12. PanelInv /\ NamesInv
  <2>1. given \in Nat
    BY <1>3
  <2>2. asked = 0 /\ asked \in Nat
    BY <1>1
  <2>3. ASSUME NEW r \in RowIds PROVE -asked <= rows[r].uid
    <3>1. rows[r].uid \in Int /\ 0 <= rows[r].uid
      BY <1>8 DEF RowRecords
    <3>. QED
      BY ONLY <2>2, <3>1
  <2>4. PanelInv
    BY <1>8, <1>9, <1>10, <1>11, <2>1, <2>2, <2>3 DEF PanelInv
  <2>5. NamesInv
    BY <1>8, <1>10 DEF NamesInv
  <2>. QED
    BY <2>4, <2>5
<1>13. RunInv /\ RunNames
  <2>1. run = [at |-> "idle", jobs |-> {}, before |-> 0]
    BY <1>1 DEF NoRun
  <2>2. run \in RunRecords
    BY <2>1 DEF RunRecords
  <2>. QED
    BY <2>1, <2>2 DEF RunInv, RunNames, CountsInv, NothingCame
<1>14. SyncInv /\ SyncNames
  <2>1. sync = [at |-> "idle", uid |-> 0, move |-> 0]
    BY <1>1 DEF NoSync
  <2>2. sync \in SyncRecords
    BY ONLY <2>1, 0 \in Nat DEF SyncRecords
  <2>3. 0 <= given /\ 0 <= asked
    BY <1>1, <1>2, <1>3
  <2>. QED
    BY ONLY <2>1, <2>2, <2>3 DEF SyncInv, SyncNames
<1>15. ClaimInv
  <2>1. expunge = [at |-> "idle", row |-> 0, uid |-> 0]
    BY <1>1 DEF NoExpunge
  <2>2. expunge \in ExpungeRecords
    BY <2>1 DEF ExpungeRecords
  <2>. QED
    BY <2>1, <2>2 DEF ClaimInv
<1>. QED
  BY <1>5, <1>7, <1>12, <1>13, <1>14, <1>15 DEF IInv, Typed, Names

\* Every step keeps the invariant.
LEMMA NextIInv ==
  ASSUME IInv, [Next]_vars
  PROVE  IInv'
<1>1. CASE \E r \in RowIds, f \in Folders : Ask(r, f)
  BY <1>1, StepAsk
<1>2. CASE (\E q \in unguarded : Registered(q)) \/ (\E u \in linger : LingerEnds(u)) \/ UNCHANGED vars
  BY <1>2, StepBeside
<1>3. CASE \E c \in late : LateMove(c)
  BY <1>3, StepLateMove
<1>4. CASE Work
  BY <1>4, StepRunBegins, StepLook, StepSettleFound, StepSend, StepUnplaced, StepCheckFailed, StepClaim, StepServerMoves,
     StepSearch, StepSweep DEF Work, RunStep
<1>5. CASE Troubles
  BY <1>5, StepLookFails, StepCheckFails, StepCommandFails, StepSearchFails, StepBusy, StepRunFails, StepCrash DEF Troubles
<1>6. CASE Syncs
  BY <1>6, StepFetch, StepCheckFetched, StepAttach, StepInsert DEF Syncs
<1>7. CASE Reconciles
  BY <1>7, StepBeside, StepDeleteOrphans DEF Reconciles
<1>8. CASE Expunges
  BY <1>8, StepClaimRow, StepServerExpunges, StepFinishExpunge, StepClaimsEnd DEF Expunges
<1>9. CASE Others
  BY <1>9, StepElseDeletes, StepElseMoves, StepArrives DEF Others
<1>. QED
  BY <1>1, <1>2, <1>3, <1>4, <1>5, <1>6, <1>7, <1>8, <1>9 DEF Next

\* Every row, move, job and sync names a letter of its own, and a claimed row
\* stays: moveQueue.js, imapManager.js and expungeClaims.js keep this between
\* them at every step, whatever the server, the clients and the crashes do.
THEOREM Invariance == Spec => []IInv
<1>1. Init => IInv
  BY InitIInv
<1>2. IInv /\ [Next]_vars => IInv'
  BY NextIInv
<1>. QED
  BY <1>1, <1>2, PTL DEF Spec, Safety

\* A row claimed for a permanent delete stays in its place, or goes, until the
\* delete is done with it (claimExpunge, and the conditions of enqueue).
THEOREM ClaimStays == Spec => []ClaimedStays
<1>1. IInv => ClaimedStays
  BY DEF IInv, ClaimInv, ClaimedStays, There
<1>. QED
  BY <1>1, Invariance, PTL

\* A row names a letter with its own Message-ID, as long as no count of the
\* searches was misled (classifyMoveBySearch).
THEOREM NamesItsLetter == Spec => []RowNamesItsLetter
<1>1. IInv => RowNamesItsLetter
  BY DEF IInv, Names, NamesInv, RowNamesItsLetter
<1>. QED
  BY <1>1, Invariance, PTL
================================================================================
