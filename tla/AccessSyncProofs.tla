---------------------------- MODULE AccessSyncProofs ----------------------------
(***************************************************************************)
(* The access sync keeps an administrator and revives nobody; only the     *)
(* removals it counted disable a user; the baseline it stores is accounted *)
(* for; and a policy it has settled lists everybody who is active.  All of *)
(* it for every set of users, policies and rules, and every limit.  Its    *)
(* scheduler never sits on a change and never forgets a retry, for every   *)
(* number of retries, faults and saves.                                    *)
(*                                                                         *)
(* A tombstone keeps a sign-in out only of an address that is no bootstrap *)
(* administrator's, so it matters that those never get one.                *)
(***************************************************************************)
EXTENDS AccessSync, AccessSyncScheduler, TLAPS

UsersTyped == users \in [Emails -> {"none", "active", "disabled"}]

\* A bootstrap administrator is never deleted.
PinnedStay == tombstones \cap Pinned = {}

IInv == UsersTyped /\ PinnedStay /\ DeletedStaysDeleted /\ LastAdminStays

\* The process starts with an active administrator and no tombstone.
LEMMA InitIInv == Init => IInv
BY SetsAssumption DEF Init, IInv, UsersTyped, PinnedStay, DeletedStaysDeleted, LastAdminStays, Known, Active

-------------------------------------------------------------------------------
(* What a step does to the users *)

\* One user becomes active, and has no tombstone then.
Admits(e) ==
  /\ users' = [users EXCEPT ![e] = "active"]
  /\ tombstones' \subseteq tombstones
  /\ e \notin tombstones'

\* The users in D are disabled, and an administrator is left.
Disables(D) ==
  /\ D \subseteq Active
  /\ users' = [e \in Emails |-> IF e \in D THEN "disabled" ELSE users[e]]
  /\ tombstones' = tombstones
  /\ Admins \cap (Active \ D) # {} \/ Admins \cap D = {}

\* One user who is no bootstrap administrator goes and gets a tombstone, and an administrator is left.
Removes(e) ==
  /\ e \notin Pinned
  /\ users' = [users EXCEPT ![e] = "none"]
  /\ tombstones' = tombstones \cup {e}
  /\ users[e] = "active" => MayGo(e, Active)

\* A user who is let in, or who becomes an administrator, has no tombstone.
LEMMA AdmitsInv ==
  ASSUME IInv, NEW e \in Emails, Admits(e), ruled' = ruled
  PROVE  IInv'
<1>1. UsersTyped' /\ Active \subseteq Active' /\ Known' = Known \cup {e}
  BY DEF IInv, UsersTyped, Admits, Active, Known
<1>. QED
  BY <1>1 DEF IInv, Admits, PinnedStay, Pinned, DeletedStaysDeleted, LastAdminStays

\* A user is disabled only while an administrator stays.
LEMMA DisablesInv ==
  ASSUME IInv, NEW D, Disables(D), ruled' = ruled
  PROVE  IInv'
<1>1. UsersTyped' /\ Active' = Active \ D /\ Known' = Known
  BY DEF IInv, UsersTyped, Disables, Active, Known
<1>. QED
  BY <1>1 DEF IInv, Disables, PinnedStay, Pinned, DeletedStaysDeleted, LastAdminStays

\* A user goes with a tombstone, only while an administrator stays.
LEMMA RemovesInv ==
  ASSUME IInv, NEW e \in Emails, Removes(e), ruled' = ruled
  PROVE  IInv'
<1>1. UsersTyped' /\ Active' = Active \ {e} /\ Known' = Known \ {e}
  BY DEF IInv, UsersTyped, Removes, Active, Known
<1>2. Admins \cap Active' # {}
  <2>1. CASE users[e] = "active"
    BY <1>1, <2>1 DEF IInv, Removes, MayGo, LastAdminStays
  <2>2. CASE users[e] # "active"
    BY <1>1, <2>2 DEF IInv, LastAdminStays, Active
  <2>. QED
    BY <2>1, <2>2
<1>. QED
  BY <1>1, <1>2 DEF IInv, Removes, PinnedStay, Pinned, DeletedStaysDeleted, LastAdminStays

\* A step that leaves the users and the tombstones alone keeps the invariant.
LEMMA UntouchedInv ==
  ASSUME IInv, UNCHANGED <<ruled, users, tombstones>>
  PROVE  IInv'
BY DEF IInv, UsersTyped, PinnedStay, Pinned, DeletedStaysDeleted, LastAdminStays, Known, Active

-------------------------------------------------------------------------------
(* The steps *)

\* What people do in the panel, at the door and in Cloudflare. (admin/users.js, userIdentity.js)
LEMMA PeopleInv == ASSUME IInv, People PROVE IInv'
<1>1. CASE \E e \in Emails : Approve(e) \/ Enable(e) \/ SignIn(e)
  <2>1. PICK e \in Emails : Approve(e) \/ Enable(e) \/ SignIn(e)
    BY <1>1
  <2>2. ruled' = ruled
    BY <2>1 DEF Approve, Enable, SignIn, OnUsers, Move
  <2>3. Admits(e)
    BY <2>1 DEF Approve, Approved, Enable, SignIn, Admits, IInv, PinnedStay, DeletedStaysDeleted, Known
  <2>. QED
    BY <2>2, <2>3, AdmitsInv
<1>2. CASE \E e \in Emails : Disable(e)
  <2>1. PICK e \in Emails : Disable(e)
    BY <1>2
  <2>2. ruled' = ruled
    BY <2>1 DEF Disable, OnUsers, Move
  <2>3. users' = [f \in Emails |-> IF f \in {e} THEN "disabled" ELSE users[f]]
    BY <2>1 DEF Disable, IInv, UsersTyped
  <2>4. Disables({e})
    BY <2>1, <2>3 DEF Disable, Disables, Active, MayGo
  <2>. QED
    BY <2>2, <2>4, DisablesInv
<1>3. CASE \E e \in Emails : Delete(e)
  <2>1. PICK e \in Emails : Delete(e)
    BY <1>3
  <2>2. Removes(e) /\ ruled' = ruled
    BY <2>1 DEF Delete, Removes, OnUsers, Move
  <2>. QED
    BY <2>2, RemovesInv
<1>4. CASE (\E p \in Policies, e \in Emails : CloudflareAdds(p, e) \/ CloudflareRemoves(p, e))
           \/ (\E p \in Policies : SaveConfig(p))
  <2>1. UNCHANGED <<ruled, users, tombstones>>
    BY <1>4 DEF CloudflareAdds, CloudflareRemoves, SaveConfig, Move
  <2>. QED
    BY <2>1, UntouchedInv
<1>. QED
  BY <1>1, <1>2, <1>3, <1>4 DEF People

\* What a run does. (runner.js runAccessSync)
LEMMA RunInv == ASSUME IInv, Run PROVE IInv'
<1>1. CASE \E e \in Emails : Import(e)
  <2>1. PICK e \in Emails : Import(e)
    BY <1>1
  <2>2. ruled' = ruled /\ tombstones' = tombstones
    BY <2>1 DEF Import
  <2>3. CASE Importable(e)
    <3>1. Admits(e)
      BY <2>1, <2>2, <2>3 DEF Import, Importable, Admits
    <3>. QED
      BY <2>2, <3>1, AdmitsInv
  <2>4. CASE ~Importable(e)
    <3>1. users' = users
      BY <2>1, <2>4 DEF Import
    <3>. QED
      BY <2>2, <3>1, UntouchedInv
  <2>. QED
    BY <2>3, <2>4
<1>2. CASE DisableRemoved
  <2>1. PICK D \in Droppable(run.drops \ Pinned) :
          users' = [e \in Emails |-> IF e \in D THEN "disabled" ELSE users[e]]
    BY <1>2 DEF DisableRemoved
  <2>2. Disables(D) /\ ruled' = ruled
    BY <1>2, <2>1 DEF DisableRemoved, Droppable, Disables
  <2>. QED
    BY <2>2, DisablesInv
<1>3. CASE ~(\E e \in Emails : Import(e)) /\ ~DisableRemoved
  <2>1. UNCHANGED <<ruled, users, tombstones>>
    BY <1>3 DEF Run, BeginRun, GetPolicy, ReadUsers, ReadTombstones, ImportsDone, Adopt, Put, Finish,
                FinishLost, Fails, PutReplyLost, Quiet, Loss
  <2>. QED
    BY <2>1, UntouchedInv
<1>. QED
  BY <1>1, <1>2, <1>3

\* The invariant holds in every reachable state.
THEOREM Invariance == Spec => []IInv
<1>1. IInv /\ [Next]_vars => IInv'
  <2>1. CASE UNCHANGED vars
    BY <2>1, UntouchedInv DEF vars
  <2>. QED
    BY <2>1, PeopleInv, RunInv DEF Next
<1>. QED
  BY <1>1, InitIInv, PTL DEF Spec

\* Nobody who was deleted has a row while the tombstone stands: neither a run that read the
\* tombstones long ago nor a sign-in brings the address back. (runner.js importUsers)
THEOREM NobodyIsRevived == Spec => []DeletedStaysDeleted
<1>1. IInv => DeletedStaysDeleted
  BY DEF IInv
<1>. QED
  BY <1>1, Invariance, PTL

\* An active administrator is left whatever people and runs disable and delete. (userStatus.js)
THEOREM AnAdminIsLeft == Spec => []LastAdminStays
<1>1. IInv => LastAdminStays
  BY DEF IInv
<1>. QED
  BY <1>1, Invariance, PTL

-------------------------------------------------------------------------------
(* What the stored baseline and the run know of the policy *)

\* Where an address that MailExpert wrote to a policy can be: still there, taken out by somebody, or
\* taken out by a run that could not store it.
Cover(p) == policy[p] \cup takenOut[p] \cup unstored[p]

\* Between its write and its last transaction, a run has taken out what the baseline still names.
NotYetStored == IF At("finish") /\ run.target = config THEN run.took ELSE {}

BaselineIsCovered == baseline \subseteq Cover(config) \cup NotYetStored

PolicyRead == {"users", "tombstones", "import", "adopt", "disable", "put"}

\* What a run goes by when it decides whom to disable, and what it will store.
RunIsCovered ==
  /\ At("get") => run.base \subseteq Cover(run.target)
  /\ run.pc \in PolicyRead =>
       /\ run.base \subseteq run.seen \cup run.gone \cup unstored[run.target]
       /\ run.seen \subseteq policy[run.target] \cup takenOut[run.target]
  /\ run.pc \in {"import", "adopt", "disable"} => run.drops \subseteq run.base \ Admitted(run.seen)
  /\ run.pc \in {"get"} \cup PolicyRead => run.took = {}
  /\ At("finish") =>
       IF EmptyInclude THEN run.took = {}
                       ELSE Include \subseteq policy[run.target] \cup takenOut[run.target]

CoverInv == BaselineIsCovered /\ RunIsCovered

-------------------------------------------------------------------------------
(* What a run knows of a system nobody touched since it began *)

UsersRead == {"tombstones", "import", "adopt", "disable", "put"}

QuietRunKnows ==
  run # Idle /\ run.quiet =>
    /\ run.target = config
    /\ run.pc \in PolicyRead => run.seen = policy[config]
    /\ run.pc \in UsersRead => Active \ byRule \subseteq run.active
    /\ run.pc \in {"tombstones", "import", "adopt", "disable"} =>
         run.unpinned \subseteq byRule \ run.seen
    /\ run.pc \in {"tombstones", "import", "adopt"} => run.adopt \subseteq run.seen \cap run.active
    /\ At("import") => run.imports \subseteq run.seen
    /\ At("finish") => EmptyInclude \/ Active \ byRule \subseteq policy[config]

SettledIsQuiet == settled /\ run # Idle => run.quiet

SettledInv == QuietRunKnows /\ SettledIsQuiet /\ SettledListsActive

-------------------------------------------------------------------------------
(* Types *)

\* A run holds sets of emails of the install.
LEMMA SetsOfEmails == /\ Pinned \in Sets /\ DomainAdmits \in Sets /\ Excluded \in Sets
                      /\ Active \in Sets /\ Known \in Sets
BY SetsAssumption DEF Pinned, DomainAdmits, Excluded, Active, Known, Sets

\* A run that has got somewhere is one.
LEMMA ARunIsARecord == ASSUME TypeOK, ~At("idle") PROVE run \in RunRecords
BY DEF TypeOK, At, Idle

\* Whatever people do, a run stays a run.
LEMMA DisturbedTyped == ASSUME TypeOK PROVE Disturbed \in RunRecords \cup {Idle}
BY DEF TypeOK, Disturbed, RunRecords

\* What people do keeps the types. (admin/users.js, userIdentity.js, settings.js)
LEMMA PeopleTyped == ASSUME TypeOK, People PROVE TypeOK'
<1>. USE SetsAssumption, LimitsAssumption
<1>1. ruled' \in BOOLEAN /\ settled' \in BOOLEAN /\ moves' \in 0..MaxMoves /\ losses' \in 0..MaxLosses
  <2>1. Move
    BY DEF People, Approve, Disable, Enable, Delete, SignIn, CloudflareAdds, CloudflareRemoves,
           SaveConfig, OnUsers
  <2>2. MaxMoves \in Nat /\ moves \in 0..MaxMoves
    BY DEF TypeOK
  <2>3. moves' \in 0..MaxMoves
    BY <2>1, <2>2 DEF Move
  <2>. QED
    BY <2>1, <2>3 DEF Move, TypeOK
<1>2. run' \in RunRecords \cup {Idle}
  <2>1. run' = Disturbed
    BY DEF People, Approve, Disable, Enable, Delete, SignIn, CloudflareAdds, CloudflareRemoves,
           SaveConfig, OnUsers
  <2>. QED
    BY <2>1, DisturbedTyped
<1>3. CASE \E e \in Emails : Approve(e) \/ Disable(e) \/ Enable(e) \/ Delete(e) \/ SignIn(e)
  <2>1. PICK e \in Emails : Approve(e) \/ Disable(e) \/ Enable(e) \/ Delete(e) \/ SignIn(e)
    BY <1>3
  <2>2. UNCHANGED <<policy, stored, history>>
    BY <2>1 DEF Approve, Disable, Enable, Delete, SignIn, OnUsers
  <2>3. /\ users' \in [Emails -> {"none", "active", "disabled"}]
        /\ byRule' \in Sets /\ tombstones' \in Sets
        /\ \A f \in byRule' : users'[f] # "none"
    <3>1. CASE Approve(e)
      BY <3>1 DEF Approve, Approved, TypeOK, Sets
    <3>2. CASE Disable(e) \/ Enable(e)
      BY <3>2 DEF Disable, Enable, TypeOK, Sets
    <3>3. CASE Delete(e)
      BY <3>3 DEF Delete, WithoutRow, TypeOK, Sets
    <3>4. CASE SignIn(e)
      BY <3>4 DEF SignIn, TypeOK, Sets
    <3>. QED
      BY <2>1, <3>1, <3>2, <3>3, <3>4
  <2>. QED
    BY <1>1, <1>2, <2>2, <2>3 DEF TypeOK, stored, history
<1>4. CASE \E p \in Policies, e \in Emails : CloudflareAdds(p, e) \/ CloudflareRemoves(p, e)
  BY <1>1, <1>2, <1>4 DEF CloudflareAdds, CloudflareRemoves, TypeOK, stored, Sets
<1>5. CASE \E p \in Policies : SaveConfig(p)
  BY <1>1, <1>2, <1>5 DEF SaveConfig, BaselineAfterSave, TypeOK, Sets
<1>. QED
  BY <1>3, <1>4, <1>5 DEF People

\* What a run does keeps the types. (runner.js runAccessSync)
LEMMA RunTyped == ASSUME TypeOK, Run PROVE TypeOK'
<1>. USE SetsOfEmails
<1>1. CASE BeginRun
  <2>1. run' \in RunRecords
    BY <1>1 DEF BeginRun, RunRecords, TypeOK, Sets
  <2>. QED
    BY <1>1, <2>1 DEF BeginRun, Quiet, TypeOK, stored, history
<1>2. CASE GetPolicy
  <2>1. run \in RunRecords
    BY <1>2, ARunIsARecord DEF GetPolicy, At
  <2>2. run' \in RunRecords
    BY <1>2, <2>1 DEF GetPolicy, RunRecords, TypeOK
  <2>. QED
    BY <1>2, <2>2 DEF GetPolicy, Quiet, TypeOK, stored, history
<1>3. CASE ReadUsers
  <2>1. run \in RunRecords
    BY <1>3, ARunIsARecord DEF ReadUsers, At
  <2>2. run' \in RunRecords
    BY <1>3, <2>1 DEF ReadUsers, RunRecords, Sets
  <2>. QED
    BY <1>3, <2>2 DEF ReadUsers, Quiet, TypeOK, stored, history
<1>4. CASE ReadTombstones
  <2>1. run \in RunRecords
    BY <1>4, ARunIsARecord DEF ReadTombstones, At
  <2>2. run' \in RunRecords \cup {Idle}
    BY <1>4, <2>1 DEF ReadTombstones, ImportCandidates, RemovedInCloudflare, RunRecords, Sets
  <2>. QED
    BY <1>4, <2>2 DEF ReadTombstones, Quiet, TypeOK, stored, history
<1>5. CASE \E e \in Emails : Import(e)
  <2>1. PICK e \in Emails : Import(e)
    BY <1>5
  <2>2. run \in RunRecords
    BY <2>1, ARunIsARecord DEF Import, At
  <2>3. run' \in RunRecords
    BY <2>1, <2>2 DEF Import, RunRecords, Sets
  <2>4. users' \in [Emails -> {"none", "active", "disabled"}] /\ \A f \in byRule : users'[f] # "none"
    BY <2>1 DEF Import, TypeOK, Sets
  <2>. QED
    BY <2>1, <2>3, <2>4 DEF Import, TypeOK, stored, history
<1>6. CASE ImportsDone
  <2>1. run \in RunRecords
    BY <1>6, ARunIsARecord DEF ImportsDone, At
  <2>2. run' \in RunRecords
    BY <1>6, <2>1 DEF ImportsDone, RunRecords
  <2>. QED
    BY <1>6, <2>2 DEF ImportsDone, Quiet, TypeOK, stored, history
<1>7. CASE Adopt
  <2>1. run \in RunRecords
    BY <1>7, ARunIsARecord DEF Adopt, At
  <2>2. run' \in RunRecords
    BY <1>7, <2>1 DEF Adopt, RunRecords, Sets
  <2>. QED
    BY <1>7, <2>2 DEF Adopt, TypeOK, stored, history, Sets
<1>8. CASE DisableRemoved
  <2>1. run \in RunRecords
    BY <1>8, ARunIsARecord DEF DisableRemoved, At
  <2>2. PICK D \in Droppable(run.drops \ Pinned) :
          /\ users' = [e \in Emails |-> IF e \in D THEN "disabled" ELSE users[e]]
          /\ run' = [run EXCEPT !.pc = "put", !.drops = {}, !.active = StillActive(D) \ run.unpinned,
                                !.unpinned = {}]
    BY <1>8 DEF DisableRemoved
  <2>3. run' \in RunRecords
    BY <2>1, <2>2 DEF StillActive, RunRecords, Sets
  <2>4. users' \in [Emails -> {"none", "active", "disabled"}] /\ \A f \in byRule : users'[f] # "none"
    BY <2>2 DEF TypeOK, Sets
  <2>. QED
    BY <1>8, <2>3, <2>4 DEF DisableRemoved, TypeOK, stored, history
<1>9. CASE Put \/ PutReplyLost
  <2>1. run \in RunRecords
    BY <1>9, ARunIsARecord DEF Put, PutReplyLost, At
  <2>2. Include \in Sets /\ Taken \in Sets
    BY <2>1 DEF Include, IncludeOf, Desired, Taken, RunRecords, Sets, TypeOK
  <2>3. CASE Put
    <3>1. run' \in RunRecords
      BY <2>1, <2>2, <2>3 DEF Put, RunRecords
    <3>2. policy' \in [Policies -> Sets] /\ takenOut' \in [Policies -> Sets]
      BY <2>1, <2>2, <2>3 DEF Put, PutPolicy, TypeOK, Sets
    <3>. QED
      BY <2>3, <3>1, <3>2 DEF Put, TypeOK, stored
  <2>4. CASE PutReplyLost
    <3>1. /\ policy' \in [Policies -> Sets] /\ takenOut' \in [Policies -> Sets]
          /\ unstored' \in [Policies -> Sets]
      BY <2>1, <2>2, <2>4 DEF PutReplyLost, PutPolicy, LeaveUnstored, TypeOK, Sets
    <3>2. losses' \in 0..MaxLosses
      BY <2>4, LimitsAssumption DEF PutReplyLost, Loss, TypeOK
    <3>. QED
      BY <2>4, <3>1, <3>2 DEF PutReplyLost, Loss, TypeOK, stored
  <2>. QED
    BY <1>9, <2>3, <2>4
<1>10. CASE Finish \/ FinishLost
  <2>1. run \in RunRecords
    BY <1>10, ARunIsARecord DEF Finish, FinishLost, At
  <2>2. Include \in Sets /\ Desired \in Sets
    BY <2>1 DEF Include, IncludeOf, Desired, RunRecords, Sets
  <2>3. CASE Finish
    <3>1. baseline' \in Sets /\ policyEmails' \in Sets /\ settled' \in BOOLEAN
      BY <2>1, <2>2, <2>3 DEF Finish, StoredBaseline, EmptyInclude, TypeOK, RunRecords
    <3>. QED
      BY <2>3, <3>1 DEF Finish, TypeOK, history
  <2>4. CASE FinishLost
    <3>1. unstored' \in [Policies -> Sets]
      BY <2>1, <2>4 DEF FinishLost, LeaveUnstored, TypeOK, RunRecords, Sets
    <3>2. losses' \in 0..MaxLosses
      BY <2>4, LimitsAssumption DEF FinishLost, Loss, TypeOK
    <3>. QED
      BY <2>4, <3>1, <3>2 DEF FinishLost, Loss, TypeOK, stored
  <2>. QED
    BY <1>10, <2>3, <2>4
<1>11. CASE Fails
  BY <1>11 DEF Fails, Quiet, TypeOK, stored, history
<1>. QED
  BY <1>1, <1>2, <1>3, <1>4, <1>5, <1>6, <1>7, <1>8, <1>9, <1>10, <1>11 DEF Run

\* The install starts with no run and no history.
LEMMA InitTyped == Init => TypeOK
<1>. SUFFICES ASSUME Init PROVE TypeOK
  OBVIOUS
<1>1. 0 \in 0..MaxMoves /\ 0 \in 0..MaxLosses
  BY LimitsAssumption
<1>2. users \in [Emails -> {"none", "active", "disabled"}]
  BY DEF Init
<1>3. takenOut \in [Policies -> Sets] /\ unstored \in [Policies -> Sets]
  BY DEF Init, Sets
<1>4. byRule \in Sets /\ tombstones \in Sets /\ baseline \in Sets /\ policyEmails \in Sets /\ byRule = {}
  BY DEF Init, Sets
<1>. QED
  BY <1>1, <1>2, <1>3, <1>4 DEF Init, TypeOK

\* The variables keep their types, and a run is always one that the code can be at.
THEOREM TypeCorrect == Spec => []TypeOK
<1>1. TypeOK /\ [Next]_vars => TypeOK'
  <2>1. CASE UNCHANGED vars
    BY <2>1 DEF vars, stored, history, TypeOK
  <2>. QED
    BY <2>1, PeopleTyped, RunTyped DEF Next
<1>. QED
  BY <1>1, InitTyped, PTL DEF Spec

-------------------------------------------------------------------------------
(* The baseline stays covered *)

\* What the cover speaks of in the run under way is the same.
SameRun == UNCHANGED <<run.pc, run.target, run.base, run.seen, run.active, run.drops, run.gone, run.took>>

\* Nobody's doing changes what a run holds, but for its being quiet.
LEMMA DisturbedIsTheSameRun == ASSUME TypeOK, run' = Disturbed PROVE SameRun
BY DEF TypeOK, Disturbed, SameRun, RunRecords

\* An address that leaves a policy by somebody's hand is among those taken out, so what people do
\* keeps the cover; pointing the sync at another policy empties the baseline.
LEMMA PeopleCover == ASSUME TypeOK, CoverInv, People PROVE CoverInv'
<1>1. SameRun /\ ruled' = ruled /\ unstored' = unstored
  <2>1. run' = Disturbed /\ ruled' = ruled /\ unstored' = unstored
    BY DEF People, Approve, Disable, Enable, Delete, SignIn, CloudflareAdds, CloudflareRemoves,
           SaveConfig, OnUsers, Move, history
  <2>. QED
    BY <2>1, DisturbedIsTheSameRun
<1>2. \A p \in Policies : policy[p] \cup takenOut[p] \subseteq policy'[p] \cup takenOut'[p]
  <2>1. CASE UNCHANGED <<policy, takenOut>>
    BY <2>1
  <2>2. CASE \E p \in Policies, e \in Emails : CloudflareAdds(p, e) \/ CloudflareRemoves(p, e)
    BY <2>2 DEF CloudflareAdds, CloudflareRemoves, TypeOK
  <2>. QED
    BY <2>1, <2>2 DEF People, Approve, Disable, Enable, Delete, SignIn, SaveConfig, OnUsers, history
<1>3. UNCHANGED <<config, baseline>> \/ baseline' = {}
  BY DEF People, Approve, Disable, Enable, Delete, SignIn, CloudflareAdds, CloudflareRemoves, SaveConfig,
         BaselineAfterSave, OnUsers, stored
<1>4. BaselineIsCovered'
  <2>1. NotYetStored' = NotYetStored \/ config' # config
    BY <1>1 DEF SameRun, NotYetStored, At
  <2>. QED
    BY <1>1, <1>2, <1>3, <2>1 DEF CoverInv, BaselineIsCovered, Cover, TypeOK
<1>5. run.pc # "idle" => run.target \in Policies
  BY DEF TypeOK, RunRecords, Idle
<1>6. Include' = Include /\ (EmptyInclude' <=> EmptyInclude) /\ (\A S : Admitted(S)' = Admitted(S))
  BY <1>1 DEF SameRun, Include, IncludeOf, Desired, Pinned, EmptyInclude, DomainAdmits, Admitted, Excluded
<1>7. RunIsCovered'
  BY <1>1, <1>2, <1>5, <1>6 DEF SameRun, CoverInv, RunIsCovered, Cover, At, PolicyRead, Admitted,
     DomainAdmits, Excluded
<1>. QED
  BY <1>4, <1>7 DEF CoverInv

\* Reading, deciding and changing users leaves the policy and the stored state alone, and a run goes
\* by what it read: what it means to disable it wrote, and its policy did not admit.
LEMMA ReadsCover ==
  ASSUME TypeOK, CoverInv,
         BeginRun \/ GetPolicy \/ ReadUsers \/ ReadTombstones \/ (\E e \in Emails : Import(e))
           \/ ImportsDone \/ Adopt \/ DisableRemoved \/ Fails
  PROVE  CoverInv'
<1>1. UNCHANGED <<ruled, policy, takenOut, unstored, config, baseline>>
  BY DEF BeginRun, GetPolicy, ReadUsers, ReadTombstones, Import, ImportsDone, Adopt, DisableRemoved, Fails,
         Quiet, stored, history
<1>2. ~At("finish")
  BY DEF BeginRun, GetPolicy, ReadUsers, ReadTombstones, Import, ImportsDone, Adopt, DisableRemoved, Fails, At
<1>3. BaselineIsCovered'
  BY <1>1, <1>2 DEF CoverInv, BaselineIsCovered, Cover, NotYetStored
<1>4. CASE BeginRun
  <2>1. RunIsCovered'
    BY <1>1, <1>2, <1>4 DEF BeginRun, CoverInv, BaselineIsCovered, NotYetStored, RunIsCovered, Cover, At,
       PolicyRead
  <2>. QED
    BY <1>3, <2>1 DEF CoverInv
<1>5. CASE GetPolicy
  <2>1. run \in RunRecords
    BY <1>5, ARunIsARecord DEF GetPolicy, At
  <2>2. /\ run'.pc = "users" /\ run'.target = run.target /\ run'.base = run.base
        /\ run'.seen = policy[run.target] /\ run'.gone = takenOut[run.target] /\ run'.took = run.took
    BY <1>5, <2>1 DEF GetPolicy, RunRecords
  <2>3. run.base \subseteq Cover(run.target) /\ run.took = {}
    BY <1>5 DEF GetPolicy, CoverInv, RunIsCovered, At, PolicyRead
  <2>4. RunIsCovered'
    BY <1>1, <2>2, <2>3 DEF RunIsCovered, Cover, At, PolicyRead
  <2>. QED
    BY <1>3, <2>4 DEF CoverInv
<1>6. CASE ReadUsers \/ (\E e \in Emails : Import(e)) \/ ImportsDone \/ Adopt \/ DisableRemoved
  <2>1. run \in RunRecords
    BY <1>6, ARunIsARecord DEF ReadUsers, Import, ImportsDone, Adopt, DisableRemoved, At
  <2>2. /\ UNCHANGED <<run.target, run.base, run.seen, run.gone, run.took>>
        /\ run.pc \in PolicyRead /\ run'.pc \in PolicyRead
        /\ run'.drops = run.drops \/ run'.drops = {}
        /\ run'.pc \in {"import", "adopt", "disable"} => run.pc \in {"import", "adopt", "disable"}
    BY <1>6, <2>1 DEF ReadUsers, Import, ImportsDone, Adopt, DisableRemoved, At, RunRecords, PolicyRead
  <2>3. RunIsCovered'
    BY <1>1, <2>2 DEF CoverInv, RunIsCovered, At, PolicyRead, Admitted, DomainAdmits, Excluded
  <2>. QED
    BY <1>3, <2>3 DEF CoverInv
<1>7. CASE ReadTombstones /\ run' # Idle
  <2>1. run \in RunRecords
    BY <1>7, ARunIsARecord DEF ReadTombstones, At
  <2>2. /\ UNCHANGED <<run.target, run.base, run.seen, run.gone, run.took>>
        /\ run.pc \in PolicyRead /\ run'.pc = "import"
        /\ run'.drops = RemovedInCloudflare(run.seen, run.base, run.active)
    BY <1>7, <2>1 DEF ReadTombstones, At, RunRecords, PolicyRead
  <2>3. run'.drops \subseteq run.base \ Admitted(run.seen)
    BY <2>2 DEF RemovedInCloudflare
  <2>4. RunIsCovered'
    BY <1>1, <2>2, <2>3 DEF CoverInv, RunIsCovered, At, PolicyRead, Admitted, DomainAdmits, Excluded
  <2>. QED
    BY <1>3, <2>4 DEF CoverInv
<1>8. CASE run' = Idle
  BY <1>3, <1>8 DEF CoverInv, RunIsCovered, Idle, At, PolicyRead
<1>. QED
  BY <1>4, <1>5, <1>6, <1>7, <1>8 DEF Fails

\* What a run's write takes out of the policy is either noted in the run until it stores its
\* baseline, or noted as not stored.
LEMMA WritesCover ==
  ASSUME TypeOK, CoverInv, Put \/ Finish \/ FinishLost \/ PutReplyLost
  PROVE  CoverInv'
<1>1. run \in RunRecords
  BY ARunIsARecord DEF Put, Finish, FinishLost, PutReplyLost, At
<1>2. run.target \in Policies /\ config \in Policies
  BY <1>1 DEF RunRecords, TypeOK
<1>3. policy \in [Policies -> Sets] /\ takenOut \in [Policies -> Sets] /\ unstored \in [Policies -> Sets]
  BY DEF TypeOK
<1>4. ASSUME At("put")
      PROVE  /\ run.took = {} /\ NotYetStored = {}
             /\ run.seen \subseteq policy[run.target] \cup takenOut[run.target]
  BY <1>4 DEF CoverInv, RunIsCovered, NotYetStored, At, PolicyRead
<1>5. CASE Put
  <2>1. /\ run'.pc = "finish"
        /\ UNCHANGED <<run.target, run.base, run.seen, run.active, ruled, unstored, config, baseline>>
    BY <1>1, <1>5 DEF Put, RunRecords, stored
  <2>2. Include' = Include /\ (EmptyInclude' <=> EmptyInclude)
    BY <2>1 DEF Include, IncludeOf, Desired, Pinned, EmptyInclude, DomainAdmits
  <2>3. CASE Include = run.seen \/ EmptyInclude
    <3>1. UNCHANGED <<run.took, policy, takenOut>>
      BY <1>1, <1>5, <2>3 DEF Put, RunRecords
    <3>2. BaselineIsCovered'
      BY <1>4, <1>5, <2>1, <3>1 DEF Put, CoverInv, BaselineIsCovered, Cover
    <3>3. RunIsCovered'
      BY <1>4, <1>5, <2>1, <2>2, <2>3, <3>1 DEF Put, RunIsCovered, At, PolicyRead
    <3>. QED
      BY <3>2, <3>3 DEF CoverInv
  <2>4. CASE ~(Include = run.seen \/ EmptyInclude)
    <3>1. PutPolicy /\ run'.took = Taken
      BY <1>1, <1>5, <2>4 DEF Put, RunRecords
    <3>2. /\ policy'[run.target] = Include
          /\ \A p \in Policies \ {run.target} : policy'[p] = policy[p] /\ takenOut'[p] = takenOut[p]
          /\ policy[run.target] \cup takenOut[run.target]
               \subseteq policy'[run.target] \cup takenOut'[run.target] \cup Taken
      BY <1>2, <1>3, <3>1 DEF PutPolicy, Taken
    <3>3. NotYetStored' = IF run.target = config THEN Taken ELSE {}
      BY <2>1, <3>1 DEF NotYetStored, At
    <3>4. BaselineIsCovered'
      BY <1>2, <1>4, <1>5, <2>1, <3>2, <3>3 DEF Put, CoverInv, BaselineIsCovered, Cover
    <3>5. RunIsCovered'
      BY <2>1, <2>2, <2>4, <3>2 DEF RunIsCovered, At, PolicyRead
    <3>. QED
      BY <3>4, <3>5 DEF CoverInv
  <2>. QED
    BY <2>3, <2>4
<1>6. ASSUME run' = Idle, BaselineIsCovered' PROVE CoverInv'
  BY <1>6 DEF CoverInv, RunIsCovered, Idle, At, PolicyRead
<1>7. CASE PutReplyLost
  <2>1. UNCHANGED <<config, baseline>> /\ run' = Idle /\ PutPolicy /\ LeaveUnstored(Taken)
    BY <1>7 DEF PutReplyLost, stored
  <2>2. /\ policy[run.target] \cup takenOut[run.target]
             \subseteq policy'[run.target] \cup takenOut'[run.target] \cup Taken
        /\ unstored'[run.target] = unstored[run.target] \cup Taken
        /\ \A p \in Policies \ {run.target} :
             policy'[p] = policy[p] /\ takenOut'[p] = takenOut[p] /\ unstored'[p] = unstored[p]
    BY <1>2, <1>3, <2>1 DEF PutPolicy, LeaveUnstored, Taken
  <2>3. BaselineIsCovered'
    BY <1>2, <1>4, <1>7, <2>1, <2>2 DEF PutReplyLost, CoverInv, BaselineIsCovered, Cover
  <2>. QED
    BY <1>6, <2>1, <2>3
<1>8. CASE FinishLost
  <2>1. UNCHANGED <<policy, takenOut, config, baseline>> /\ run' = Idle
    BY <1>8 DEF FinishLost, stored
  <2>2. /\ unstored'[run.target] = unstored[run.target] \cup run.took
        /\ \A p \in Policies \ {run.target} : unstored'[p] = unstored[p]
    BY <1>2, <1>3, <1>8 DEF FinishLost, LeaveUnstored
  <2>3. BaselineIsCovered'
    BY <1>2, <2>1, <2>2 DEF CoverInv, BaselineIsCovered, Cover, NotYetStored
  <2>. QED
    BY <1>6, <2>1, <2>3
<1>9. CASE Finish
  <2>1. UNCHANGED <<policy, takenOut, unstored, config>> /\ run' = Idle
    BY <1>9 DEF Finish, history
  <2>2. BaselineIsCovered'
    <3>1. CASE Moved
      BY <1>9, <2>1, <3>1 DEF Finish, Moved, CoverInv, BaselineIsCovered, Cover, NotYetStored
    <3>2. CASE ~Moved /\ EmptyInclude
      BY <1>9, <2>1, <3>2 DEF Finish, Moved, CoverInv, RunIsCovered, BaselineIsCovered, Cover, NotYetStored
    <3>3. CASE ~Moved /\ ~EmptyInclude
      BY <1>9, <2>1, <3>3 DEF Finish, StoredBaseline, Moved, CoverInv, RunIsCovered, BaselineIsCovered, Cover,
         Include, IncludeOf
    <3>. QED
      BY <3>1, <3>2, <3>3
  <2>. QED
    BY <1>6, <2>1, <2>2
<1>. QED
  BY <1>5, <1>7, <1>8, <1>9

\* The stored baseline is always accounted for: what MailExpert wrote to the policy is still there,
\* or somebody took it out, or a run that could not store its baseline did. (runner.js finish)
THEOREM BaselineIsAccountedFor == Spec => []CoverInv
<1>1. Init => CoverInv
  BY DEF Init, CoverInv, BaselineIsCovered, RunIsCovered, Idle, At, PolicyRead
<1>2. TypeOK /\ CoverInv /\ [Next]_vars => CoverInv'
  <2>1. CASE UNCHANGED vars
    BY <2>1 DEF vars, stored, history, CoverInv, BaselineIsCovered, RunIsCovered, Cover, NotYetStored, At,
                Include, IncludeOf, Desired, Pinned, EmptyInclude, DomainAdmits, Admitted, Excluded
  <2>. QED
    BY <2>1, PeopleCover, ReadsCover, WritesCover DEF Next, Run
<1>. QED
  BY <1>1, <1>2, TypeCorrect, PTL DEF Spec

\* The sync disables a user only for an address the policy excludes or somebody took out of it, or
\* one that a run took out and could not store: for every number of policies, users, edits and lost
\* answers. (reconcile.js removedInCloudflare)
THEOREM DropsAreRemovals == Spec => StoredDropIsARemoval
<1>1. CoverInv /\ [Next]_vars =>
        [\A e \in Emails : Dropped(e) => Removed(e) \/ e \in unstored[run.target]]_vars
  <2>. SUFFICES ASSUME CoverInv, NEW e \in Emails, Dropped(e)
                PROVE  Removed(e) \/ e \in unstored[run.target]
    OBVIOUS
  <2>1. PICK D \in Droppable(run.drops \ Pinned) :
          users' = [f \in Emails |-> IF f \in D THEN "disabled" ELSE users[f]]
    BY DEF Dropped, DisableRemoved
  <2>2. e \in run.drops
    BY <2>1 DEF Dropped, Droppable
  <2>3. run.drops \subseteq run.base \ Admitted(run.seen)
    BY DEF Dropped, DisableRemoved, At, CoverInv, RunIsCovered
  <2>4. run.base \subseteq run.seen \cup run.gone \cup unstored[run.target]
    BY DEF Dropped, DisableRemoved, At, CoverInv, RunIsCovered, PolicyRead
  <2>. QED
    BY <2>2, <2>3, <2>4 DEF Admitted, Removed
<1>. QED
  BY <1>1, BaselineIsAccountedFor, PTL DEF Spec, StoredDropIsARemoval

-------------------------------------------------------------------------------
(* A settled policy lists the active users *)

\* Whatever people do, no run is quiet and nothing is settled after it.
LEMMA PeopleUnsettle == ASSUME TypeOK, People PROVE SettledInv'
<1>1. run' = Disturbed /\ settled' = FALSE
  BY DEF People, Approve, Disable, Enable, Delete, SignIn, CloudflareAdds, CloudflareRemoves, SaveConfig,
         OnUsers, Move
<1>2. run' = Idle \/ run'.quiet = FALSE
  BY <1>1 DEF Disturbed, TypeOK, RunRecords
<1>. QED
  BY <1>1, <1>2 DEF SettledInv, QuietRunKnows, SettledIsQuiet, SettledListsActive

\* A quiet run reads the policy and the users as they stay.
LEMMA ReadsSettle ==
  ASSUME TypeOK, SettledInv, BeginRun \/ GetPolicy \/ ReadUsers \/ ReadTombstones \/ ImportsDone \/ Fails
  PROVE  SettledInv'
<1>1. UNCHANGED <<users, byRule, policy, config, settled>>
  BY DEF BeginRun, GetPolicy, ReadUsers, ReadTombstones, ImportsDone, Fails, Quiet, stored
<1>2. SettledListsActive'
  BY <1>1 DEF SettledInv, SettledListsActive, Active
<1>3. CASE run' = Idle
  BY <1>2, <1>3 DEF SettledInv, QuietRunKnows, SettledIsQuiet
<1>4. CASE BeginRun
  BY <1>1, <1>2, <1>4 DEF BeginRun, SettledInv, QuietRunKnows, SettledIsQuiet, At, PolicyRead, UsersRead
<1>5. CASE run' # Idle /\ ~BeginRun
  <2>1. run \in RunRecords /\ run # Idle
    BY <1>5, ARunIsARecord DEF GetPolicy, ReadUsers, ReadTombstones, ImportsDone, Fails, At, Idle
  <2>2. run'.quiet = run.quiet /\ run'.target = run.target
    BY <1>5, <2>1 DEF GetPolicy, ReadUsers, ReadTombstones, ImportsDone, Fails, RunRecords
  <2>3. SettledIsQuiet'
    BY <1>1, <2>1, <2>2 DEF SettledInv, SettledIsQuiet
  <2>4. CASE GetPolicy
    <3>1. run'.pc = "users" /\ run'.seen = policy[run.target]
      BY <2>1, <2>4 DEF GetPolicy, RunRecords
    <3>. QED
      BY <1>1, <1>2, <2>1, <2>2, <2>3, <3>1 DEF SettledInv, QuietRunKnows, At, PolicyRead, UsersRead
  <2>5. CASE ReadUsers
    <3>1. /\ run.pc = "users" /\ run'.pc = "tombstones" /\ run'.seen = run.seen /\ run'.active = Active
          /\ run'.adopt = byRule \cap Active \cap run.seen
          /\ run'.unpinned = (byRule \cap Active) \ run.seen
      BY <2>1, <2>5 DEF ReadUsers, RunRecords, At
    <3>. QED
      BY <1>1, <1>2, <2>1, <2>2, <2>3, <3>1 DEF SettledInv, QuietRunKnows, At, PolicyRead, UsersRead, Active
  <2>6. CASE ReadTombstones
    <3>1. /\ run.pc = "tombstones" /\ run'.pc = "import"
          /\ UNCHANGED <<run.seen, run.active, run.adopt, run.unpinned>>
          /\ run'.imports \subseteq ImportCandidates(run.seen, run.base)
      BY <1>5, <2>1, <2>6 DEF ReadTombstones, RunRecords, At
    <3>2. run'.imports \subseteq run.seen
      BY <3>1 DEF ImportCandidates
    <3>. QED
      BY <1>1, <1>2, <2>1, <2>2, <2>3, <3>1, <3>2 DEF SettledInv, QuietRunKnows, At, PolicyRead, UsersRead, Active
  <2>7. CASE ImportsDone
    <3>1. /\ run.pc = "import" /\ run'.pc = "adopt"
          /\ UNCHANGED <<run.seen, run.active, run.adopt, run.unpinned>>
      BY <2>1, <2>7 DEF ImportsDone, RunRecords, At
    <3>. QED
      BY <1>1, <1>2, <2>1, <2>2, <2>3, <3>1 DEF SettledInv, QuietRunKnows, At, PolicyRead, UsersRead, Active
  <2>. QED
    BY <1>5, <2>4, <2>5, <2>6, <2>7 DEF Fails
<1>. QED
  BY <1>3, <1>4, <1>5

\* What a quiet run does to the users, it does to what it will write as well, and whom it lets in or
\* adopts the policy lists already.
LEMMA UsersSettle ==
  ASSUME TypeOK, SettledInv, (\E e \in Emails : Import(e)) \/ Adopt \/ DisableRemoved
  PROVE  SettledInv'
<1>1. UNCHANGED <<policy, config, settled>>
  BY DEF Import, Adopt, DisableRemoved, stored
<1>2. run \in RunRecords /\ run # Idle
  <2>1. ~At("idle")
    BY DEF Import, Adopt, DisableRemoved, At
  <2>. QED
    BY <2>1, ARunIsARecord DEF At, Idle
<1>3. UNCHANGED <<run.quiet, run.target, run.seen>> /\ run.pc \in UsersRead /\ run.pc \in PolicyRead
  BY <1>2 DEF Import, Adopt, DisableRemoved, At, RunRecords, UsersRead, PolicyRead
<1>4. SettledIsQuiet'
  BY <1>1, <1>2, <1>3 DEF SettledInv, SettledIsQuiet
<1>5. settled => run.quiet
  BY <1>2 DEF SettledInv, SettledIsQuiet
<1>6. ASSUME run.quiet
      PROVE  run.target = config /\ run.seen = policy[config] /\ Active \ byRule \subseteq run.active
  BY <1>2, <1>3, <1>6 DEF SettledInv, QuietRunKnows
<1>7. CASE \E e \in Emails : Import(e)
  <2>1. PICK e \in Emails : Import(e)
    BY <1>7
  <2>2. /\ run.pc = "import" /\ run'.pc = "import" /\ byRule' = byRule /\ e \in run.imports
        /\ run'.imports \subseteq run.imports /\ UNCHANGED <<run.adopt, run.unpinned>>
        /\ run.active \subseteq run'.active
        /\ Active' \subseteq Active \cup {e}
        /\ users' # users => e \in run'.active
    BY <1>2, <2>1 DEF Import, At, RunRecords, TypeOK, Active
  <2>3. Active' = Active \/ e \in run'.active
    BY <2>2 DEF Active
  <2>4. run.quiet => run.imports \subseteq run.seen
    BY <1>2, <2>2 DEF SettledInv, QuietRunKnows, At
  <2>5. SettledListsActive'
    BY <1>1, <1>5, <1>6, <2>2, <2>4 DEF SettledInv, SettledListsActive
  <2>6. run.quiet => Active' \ byRule' \subseteq run'.active
    BY <1>6, <2>2, <2>3
  <2>7. QuietRunKnows'
    BY <1>1, <1>2, <1>3, <1>6, <2>2, <2>4, <2>6 DEF SettledInv, QuietRunKnows, At
  <2>. QED
    BY <1>4, <2>5, <2>7 DEF SettledInv
<1>8. CASE Adopt
  <2>1. /\ run.pc = "adopt" /\ run'.pc = "disable" /\ byRule' = byRule \ run.adopt
        /\ UNCHANGED <<run.active, run.unpinned, users>>
    BY <1>2, <1>8 DEF Adopt, At, RunRecords
  <2>2. run.quiet => run.adopt \subseteq run.seen \cap run.active /\ run.unpinned \subseteq byRule \ run.seen
    BY <1>2, <2>1 DEF SettledInv, QuietRunKnows
  <2>3. SettledListsActive'
    BY <1>1, <1>5, <1>6, <2>1, <2>2 DEF SettledInv, SettledListsActive, Active
  <2>4. run.quiet => (Active \ byRule)' \subseteq run'.active
    BY <1>6, <2>1, <2>2 DEF Active
  <2>5. QuietRunKnows'
    BY <1>1, <1>3, <1>6, <2>1, <2>2, <2>4 DEF QuietRunKnows, At
  <2>. QED
    BY <1>4, <2>3, <2>5 DEF SettledInv
<1>9. CASE DisableRemoved
  <2>1. PICK D \in Droppable(run.drops \ Pinned) :
          /\ users' = [e \in Emails |-> IF e \in D THEN "disabled" ELSE users[e]]
          /\ run' = [run EXCEPT !.pc = "put", !.drops = {}, !.active = StillActive(D) \ run.unpinned,
                                !.unpinned = {}]
    BY <1>9 DEF DisableRemoved
  <2>2. /\ run.pc = "disable" /\ run'.pc = "put" /\ byRule' = byRule
        /\ run'.active = (run.active \ D) \ run.unpinned
    BY <1>2, <1>9, <2>1 DEF DisableRemoved, At, RunRecords, StillActive
  <2>3. Active' = Active \ D
    BY <2>1 DEF Active, Droppable
  <2>4. run.quiet => run.unpinned \subseteq byRule
    BY <1>2, <2>2 DEF SettledInv, QuietRunKnows
  <2>5. SettledListsActive'
    BY <1>1, <2>2, <2>3 DEF SettledInv, SettledListsActive
  <2>6. QuietRunKnows'
    BY <1>1, <1>3, <1>6, <2>2, <2>3, <2>4 DEF QuietRunKnows, At
  <2>. QED
    BY <1>4, <2>5, <2>6 DEF SettledInv
<1>. QED
  BY <1>7, <1>8, <1>9

\* A quiet run writes the active users into the policy, and says so when it is over.
LEMMA WritesSettle ==
  ASSUME TypeOK, SettledInv, Put \/ Finish \/ FinishLost \/ PutReplyLost
  PROVE  SettledInv'
<1>1. UNCHANGED <<users, byRule, config>>
  BY DEF Put, Finish, FinishLost, PutReplyLost, stored
<1>2. run \in RunRecords /\ run # Idle
  BY ARunIsARecord DEF Put, Finish, FinishLost, PutReplyLost, At, Idle
<1>3. settled => run.quiet
  BY <1>2 DEF SettledInv, SettledIsQuiet
<1>4. ASSUME At("put"), run.quiet
      PROVE  /\ run.target = config /\ run.seen = policy[config]
             /\ Active \ byRule \subseteq Include
  BY <1>2, <1>4 DEF SettledInv, QuietRunKnows, At, PolicyRead, UsersRead, Include, IncludeOf, Desired
<1>5. ASSUME At("put"), PutPolicy, run.quiet PROVE (Active \ byRule)' \subseteq policy'[config]
  <2>1. policy \in [Policies -> Sets] /\ config \in Policies
    BY DEF TypeOK
  <2>. QED
    BY <1>1, <1>4, <1>5, <2>1 DEF PutPolicy, Active
<1>6. CASE Put
  <2>1. /\ run'.pc = "finish" /\ settled' = settled
        /\ UNCHANGED <<run.quiet, run.target, run.base, run.seen, run.active, ruled>>
    BY <1>2, <1>6 DEF Put, RunRecords
  <2>2. EmptyInclude' <=> EmptyInclude
    BY <2>1 DEF Include, IncludeOf, Desired, Pinned, EmptyInclude, DomainAdmits
  <2>3. policy' = policy \/ PutPolicy
    BY <1>6 DEF Put
  <2>4. SettledListsActive'
    BY <1>1, <1>3, <1>5, <1>6, <2>1, <2>3 DEF Put, SettledInv, SettledListsActive, Active
  <2>5. run.quiet => EmptyInclude \/ (Active \ byRule)' \subseteq policy'[config]
    <3>1. CASE Include = run.seen /\ policy' = policy
      BY <1>1, <1>4, <1>6, <3>1 DEF Put, Active
    <3>. QED
      BY <1>5, <1>6, <3>1 DEF Put
  <2>6. QuietRunKnows'
    BY <1>1, <1>4, <1>6, <2>1, <2>2, <2>5 DEF Put, QuietRunKnows, At, PolicyRead, UsersRead
  <2>7. SettledIsQuiet'
    BY <1>3, <2>1 DEF SettledIsQuiet
  <2>. QED
    BY <2>4, <2>6, <2>7 DEF SettledInv
<1>7. ASSUME run' = Idle, SettledListsActive' PROVE SettledInv'
  BY <1>7 DEF SettledInv, QuietRunKnows, SettledIsQuiet
<1>8. CASE PutReplyLost
  <2>1. At("put") /\ PutPolicy /\ run' = Idle /\ settled' = settled
    BY <1>8 DEF PutReplyLost
  <2>2. SettledListsActive'
    BY <1>1, <1>3, <1>5, <2>1 DEF SettledListsActive, Active
  <2>. QED
    BY <1>7, <2>1, <2>2
<1>9. CASE FinishLost
  BY <1>1, <1>7, <1>9 DEF FinishLost, SettledInv, SettledListsActive, Active
<1>10. CASE Finish
  <2>1. settled' => Active \ byRule \subseteq policy[config]
    BY <1>2, <1>10 DEF Finish, SettledInv, QuietRunKnows
  <2>. QED
    BY <1>1, <1>7, <1>10, <2>1 DEF Finish, SettledListsActive, Active
<1>. QED
  BY <1>6, <1>8, <1>9, <1>10

\* A run that succeeded while nobody did anything leaves a policy that lists every active user but
\* those a domain rule admitted, until somebody does something: later runs, the ones whose write
\* succeeds and whose answer is lost included, do not undo it. (runner.js runAccessSync)
THEOREM SettledPolicyListsEverybody == Spec => []SettledListsActive
<1>1. Init => SettledInv
  BY DEF Init, SettledInv, QuietRunKnows, SettledIsQuiet, SettledListsActive
<1>2. TypeOK /\ SettledInv /\ [Next]_vars => SettledInv'
  <2>1. CASE UNCHANGED vars
    BY <2>1 DEF vars, stored, history, SettledInv, QuietRunKnows, SettledIsQuiet, SettledListsActive, Active,
                At, Include, IncludeOf, Desired, Pinned, EmptyInclude, DomainAdmits
  <2>. QED
    BY <2>1, PeopleUnsettle, ReadsSettle, UsersSettle, WritesSettle DEF Next, Run
<1>3. SettledInv => SettledListsActive
  BY DEF SettledInv
<1>. QED
  BY <1>1, <1>2, <1>3, TypeCorrect, PTL DEF Spec


-------------------------------------------------------------------------------
(* The scheduler. Its two properties are not inductive: a request finds queuedRun set and queues *)
(* nothing, so queuedRun must say the truth about the chain.                                     *)

\* A run that is marked as waiting does wait in the chain.
QueuedRunWaits == queuedRun => RunWaits

SchedulerIInv == SchedulerTypeOK /\ QueuedRunWaits /\ ChangeHasARunComing /\ OwedRetryIsKept

\* What is put behind the chain leaves a run that waits in it. (scheduler.js exclusive)
LEMMA ExclusiveKeepsRuns ==
  ASSUME chain \in Seq(Operations), NEW op \in Operations, Exclusive(op)
  PROVE  /\ chain' \in Seq(Operations)
         /\ RunWaits => RunWaits'
         /\ op = "run" => RunWaits'
<1>1. /\ chain' \in Seq(Operations)
      /\ DOMAIN chain = 1..Len(chain) /\ DOMAIN chain' = 1..(Len(chain) + 1)
      /\ Len(chain) \in Nat
      /\ chain'[Len(chain) + 1] = op
      /\ \A i \in DOMAIN chain : chain'[i] = chain[i]
  BY DEF Exclusive
<1>2. RunWaits => RunWaits'
  BY <1>1 DEF RunWaits
<1>3. op = "run" => RunWaits'
  BY <1>1 DEF RunWaits
<1>. QED
  BY <1>1, <1>2, <1>3

\* Whoever asks for a run has one waiting in the chain afterwards. (scheduler.js queueRun)
LEMMA QueueRunQueues ==
  ASSUME chain \in Seq(Operations), QueuedRunWaits, NEW t, QueueRun(t)
  PROVE  chain' \in Seq(Operations) /\ RunWaits'
<1>1. CASE queuedRun
  BY <1>1 DEF QueueRun, QueuedRunWaits, RunWaits
<1>2. CASE ~queuedRun
  BY <1>2, ExclusiveKeepsRuns DEF QueueRun, Operations
<1>. QED
  BY <1>1, <1>2

\* A save that leaves the head of the chain leaves the runs behind it. (scheduler.js exclusive)
LEMMA SaveLeavesRuns ==
  ASSUME chain \in Seq(Operations), chain # <<>>, Head(chain) = "save", chain' = Tail(chain), RunWaits
  PROVE  RunWaits'
<1>1. PICK i \in DOMAIN chain : chain[i] = "run"
  BY DEF RunWaits
<1>2. i \in 1..Len(chain) /\ Len(chain) \in Nat /\ i # 1
  BY <1>1
<1>3. i - 1 \in DOMAIN chain' /\ chain'[i - 1] = "run"
  BY <1>1, <1>2
<1>. QED
  BY <1>3 DEF RunWaits

-------------------------------------------------------------------------------
(* Types *)

\* A process that starts has no timer, nothing in the chain and nothing owed.
LEMMA InitTypes == SchedulerInit => SchedulerTypeOK
<1>. SUFFICES ASSUME SchedulerInit PROVE SchedulerTypeOK
  OBVIOUS
<1>1. chain \in Seq(Operations)
  BY DEF SchedulerInit
<1>2. attempt \in 0..MaxRetries /\ budget \in (0..MaxFaults) \X (0..MaxSaves)
  BY RetriesAssumption, BudgetAssumption DEF SchedulerInit, budget
<1>3. /\ timers \in BOOLEAN \X BOOLEAN \X BOOLEAN
      /\ schedulerHistory \in BOOLEAN \X {"ahead", "made", "synced"} \X {"no", "before", "after"} \X BOOLEAN
  BY DEF SchedulerInit, timers, schedulerHistory
<1>. QED
  BY <1>1, <1>2, <1>3 DEF SchedulerInit, SchedulerTypeOK, Triggers, Operations

\* The chain keeps its operations, whoever asks and whatever begins. (scheduler.js exclusive)
LEMMA NextChain == ASSUME SchedulerTypeOK, [SchedulerNext]_schedulerVars PROVE chain' \in Seq(Operations)
<1>1. CASE chain' = chain
  BY <1>1 DEF SchedulerTypeOK
<1>2. CASE \E op \in Operations : Exclusive(op)
  BY <1>2 DEF Exclusive, SchedulerTypeOK
<1>3. CASE chain # <<>> /\ chain' = Tail(chain)
  BY <1>3 DEF SchedulerTypeOK
<1>4. CASE chain' = <<>>
  BY <1>4
<1>. QED
  BY <1>1, <1>2, <1>3, <1>4
     DEF SchedulerNext, schedulerVars, timers, schedulerHistory, ChangeUser, DebounceFires, IntervalFires, RetryFires, RunNow, QueueRun,
         AskForSave, BeginOperation, BeginQueuedRun, BeginSave, RunReadsUsers, EndOperation, RunSucceeds, RunFails,
         RunFailsRetriably, RunThrows, SaveEnds, SaveThrows, Answered, Start, Stop, Crash, Operations

\* Every variable keeps to its type. (scheduler.js)
LEMMA NextTypes == SchedulerTypeOK /\ [SchedulerNext]_schedulerVars => SchedulerTypeOK'
<1>. SUFFICES ASSUME SchedulerTypeOK, [SchedulerNext]_schedulerVars PROVE SchedulerTypeOK'
  OBVIOUS
<1>1. chain' \in Seq(Operations)
  BY NextChain
<1>2. NextAttempt \in 0..MaxRetries
  BY RetriesAssumption DEF SchedulerTypeOK, NextAttempt, Failures
<1>3. attempt' \in {0, NextAttempt, attempt}
  BY DEF SchedulerNext, schedulerVars, timers, schedulerHistory, ChangeUser, DebounceFires, IntervalFires, RetryFires, RunNow, QueueRun,
         AskForSave, BeginOperation, BeginQueuedRun, BeginSave, RunReadsUsers, EndOperation, RunSucceeds, RunFails,
         RunFailsRetriably, RunThrows, SaveEnds, SaveThrows, Answered, Start, Stop, Crash, budget
<1>4. attempt' \in 0..MaxRetries
  BY <1>2, <1>3, RetriesAssumption DEF SchedulerTypeOK
<1>5. /\ faults' = faults \/ (faults < MaxFaults /\ faults' = faults + 1)
      /\ saves' = saves \/ (saves < MaxSaves /\ saves' = saves + 1)
  BY DEF SchedulerNext, schedulerVars, ChangeUser, DebounceFires, IntervalFires, RetryFires, RunNow, budget,
         AskForSave, BeginOperation, BeginQueuedRun, BeginSave, RunReadsUsers, EndOperation, RunSucceeds, RunFails,
         RunFailsRetriably, RunThrows, SaveEnds, SaveThrows, Start, Stop, Crash, Fault
<1>6. faults \in 0..MaxFaults /\ saves \in 0..MaxSaves
  BY DEF SchedulerTypeOK, budget
<1>7. faults' \in 0..MaxFaults /\ saves' \in 0..MaxSaves
  BY <1>5, <1>6, BudgetAssumption
<1>8. /\ started \in BOOLEAN /\ debounce \in BOOLEAN /\ retry \in BOOLEAN
      /\ queuedRun \in BOOLEAN /\ canRetry \in BOOLEAN /\ unserved \in BOOLEAN /\ owed \in BOOLEAN
      /\ watched \in {"ahead", "made", "synced"} /\ read \in {"no", "before", "after"}
      /\ current \in Operations \cup {"none"}
      /\ trigger \in [waiting: Triggers, running: Triggers]
  BY DEF SchedulerTypeOK, timers, schedulerHistory
<1>9. /\ started' \in BOOLEAN /\ queuedRun' \in BOOLEAN /\ canRetry' \in BOOLEAN /\ unserved' \in BOOLEAN
      /\ watched' \in {"ahead", "made", "synced"} /\ read' \in {"no", "before", "after"}
      /\ current' \in Operations \cup {"none"}
  BY <1>8 DEF SchedulerNext, schedulerVars, timers, schedulerHistory, ChangeUser, DebounceFires, IntervalFires, RetryFires, RunNow, QueueRun,
         AskForSave, BeginOperation, BeginQueuedRun, BeginSave, RunTaken, RunReadsUsers, EndOperation, RunSucceeds, RunFails,
         RunFailsRetriably, RunThrows, SaveEnds, SaveThrows, Answered, Start, Stop, Crash, Operations
<1>10. debounce' \in BOOLEAN
  <2>1. debounce' \in {debounce, Requested, TRUE, FALSE}
    BY DEF SchedulerNext, schedulerVars, timers, ChangeUser, DebounceFires, IntervalFires, RetryFires, RunNow,
         AskForSave, BeginOperation, BeginQueuedRun, BeginSave, RunReadsUsers, EndOperation, RunSucceeds, RunFails,
         RunFailsRetriably, RunThrows, SaveEnds, SaveThrows, Answered, Start, StartRequest, Stop, Crash
  <2>2. Requested \in BOOLEAN
    BY <1>8 DEF Requested
  <2>. QED
    BY <1>8, <2>1, <2>2
<1>12. retry' \in BOOLEAN /\ owed' \in BOOLEAN
  <2>1. CASE RunSucceeds \/ RunFails \/ RunFailsRetriably
    <3>1. PICK next : Answered(next)
      BY <2>1 DEF RunSucceeds, RunFails, RunFailsRetriably
    <3>. QED
      BY <3>1 DEF Answered, RetryTimer
  <2>2. CASE ~(RunSucceeds \/ RunFails \/ RunFailsRetriably)
    BY <1>8, <2>2 DEF SchedulerNext, schedulerVars, timers, schedulerHistory, ChangeUser, DebounceFires, IntervalFires, RetryFires, RunNow,
         AskForSave, BeginOperation, BeginQueuedRun, BeginSave, RunReadsUsers, EndOperation,
         RunThrows, SaveEnds, SaveThrows, Start, Stop, Crash
  <2>. QED
    BY <2>1, <2>2
<1>11. trigger' \in [waiting: Triggers, running: Triggers]
  <2>1. \/ trigger' = trigger
        \/ \E t \in Triggers : trigger' = [trigger EXCEPT !.waiting = t]
        \/ trigger' = [trigger EXCEPT !.running = trigger.waiting]
        \/ trigger' = [waiting |-> "other", running |-> "other"]
    BY DEF SchedulerNext, schedulerVars, ChangeUser, DebounceFires, IntervalFires, RetryFires, RunNow, QueueRun, Triggers,
         AskForSave, BeginOperation, BeginQueuedRun, BeginSave, RunReadsUsers, EndOperation, RunSucceeds, RunFails,
         RunFailsRetriably, RunThrows, SaveEnds, SaveThrows, Answered, Start, Stop, Crash
  <2>. QED
    BY <1>8, <2>1 DEF Triggers
<1>. QED
  BY <1>1, <1>4, <1>7, <1>9, <1>10, <1>11, <1>12 DEF SchedulerTypeOK, timers, schedulerHistory, budget

-------------------------------------------------------------------------------
(* What is owed has a run or a timer coming *)

\* The initial state has no change and no retry to wait for.
LEMMA SchedulerInitIInv == SchedulerInit => SchedulerIInv
BY InitTypes DEF SchedulerInit, SchedulerIInv, QueuedRunWaits, ChangeHasARunComing, OwedRetryIsKept

\* Every step of the scheduler, of people and of faults keeps what is owed and what covers it.
LEMMA NextIInv == SchedulerIInv /\ [SchedulerNext]_schedulerVars => SchedulerIInv'
<1>. SUFFICES ASSUME SchedulerIInv, [SchedulerNext]_schedulerVars PROVE QueuedRunWaits' /\ ChangeHasARunComing' /\ OwedRetryIsKept'
  BY NextTypes DEF SchedulerIInv
<1>0. /\ SchedulerTypeOK /\ chain \in Seq(Operations)
      /\ QueuedRunWaits /\ ChangeHasARunComing /\ OwedRetryIsKept
  BY DEF SchedulerIInv, SchedulerTypeOK
<1>1. CASE ChangeUser
  BY <1>0, <1>1 DEF ChangeUser, Requested, budget, QueuedRunWaits, ChangeHasARunComing, OwedRetryIsKept, RunWaits
<1>2. CASE \/ DebounceFires \/ IntervalFires \/ RetryFires \/ RunNow
  <2>1. RunWaits'
    BY <1>0, <1>2, QueueRunQueues DEF DebounceFires, IntervalFires, RetryFires, RunNow
  <2>. QED
    BY <2>1 DEF QueuedRunWaits, ChangeHasARunComing, OwedRetryIsKept
<1>3. CASE AskForSave
  <2>1. RunWaits => RunWaits'
    BY <1>0, <1>3, ExclusiveKeepsRuns DEF AskForSave, Operations
  <2>. QED
    BY <1>0, <1>3, <2>1 DEF AskForSave, timers, schedulerHistory, QueuedRunWaits, ChangeHasARunComing, OwedRetryIsKept
<1>4. CASE BeginQueuedRun
  BY <1>4 DEF BeginQueuedRun, RunTaken, QueuedRunWaits, ChangeHasARunComing, OwedRetryIsKept
<1>5. CASE BeginSave
  <2>1. RunWaits => RunWaits'
    BY <1>0, <1>5, SaveLeavesRuns DEF BeginSave
  <2>. QED
    BY <1>0, <1>5, <2>1 DEF BeginSave, timers, schedulerHistory, QueuedRunWaits, ChangeHasARunComing, OwedRetryIsKept
<1>6. CASE RunReadsUsers
  BY <1>0, <1>6 DEF RunReadsUsers, timers, QueuedRunWaits, ChangeHasARunComing, OwedRetryIsKept, RunWaits
<1>7. CASE RunSucceeds \/ RunFails \/ RunFailsRetriably
  <2>1. PICK next : Answered(next)
    BY <1>7 DEF RunSucceeds, RunFails, RunFailsRetriably
  <2>2. started' /\ owed' => retry'
    BY <2>1 DEF Answered, RetryTimer
  <2>. QED
    BY <1>0, <2>1, <2>2 DEF Answered, QueuedRunWaits, ChangeHasARunComing, OwedRetryIsKept, RunWaits
<1>8. CASE RunThrows \/ SaveEnds \/ SaveThrows
  <2>1. UNCHANGED <<started, retry, chain, queuedRun, unserved, owed>>
    BY <1>8 DEF RunThrows, SaveEnds, SaveThrows, timers, schedulerHistory
  <2>2. debounce' = debounce \/ debounce' = Requested
    BY <1>8 DEF RunThrows, SaveEnds, SaveThrows, timers
  <2>3. debounce => debounce'
    BY <2>2 DEF Requested
  <2>. QED
    BY <1>0, <2>1, <2>3 DEF QueuedRunWaits, ChangeHasARunComing, OwedRetryIsKept, RunWaits
<1>9. CASE Start \/ Stop \/ Crash
  <2>1. (started' => debounce') /\ (queuedRun' => RunWaits')
    BY <1>0, <1>9 DEF Start, StartRequest, Stop, Crash, QueuedRunWaits, RunWaits
  <2>. QED
    BY <2>1 DEF QueuedRunWaits, ChangeHasARunComing, OwedRetryIsKept
<1>10. CASE UNCHANGED schedulerVars
  BY <1>0, <1>10 DEF schedulerVars, timers, schedulerHistory, QueuedRunWaits, ChangeHasARunComing, OwedRetryIsKept, RunWaits
<1>. QED
  BY <1>1, <1>2, <1>3, <1>4, <1>5, <1>6, <1>7, <1>8, <1>9, <1>10 DEF SchedulerNext, BeginOperation, EndOperation

\* The invariant holds in every reachable state.
THEOREM SchedulerInvariance == SchedulerSpec => []SchedulerIInv
BY SchedulerInitIInv, NextIInv, PTL DEF SchedulerSpec

\* Every state of the scheduler has well-formed timers, chain and bookkeeping.
THEOREM SchedulerTypeCorrect == SchedulerSpec => []SchedulerTypeOK
<1>1. SchedulerIInv => SchedulerTypeOK
  BY DEF SchedulerIInv
<1>. QED
  BY <1>1, SchedulerInvariance, PTL

\* A change to the users always has a run coming that begins after it. (scheduler.js request)
THEOREM NoChangeIsLost == SchedulerSpec => []ChangeHasARunComing
<1>1. SchedulerIInv => ChangeHasARunComing
  BY DEF SchedulerIInv
<1>. QED
  BY <1>1, SchedulerInvariance, PTL

\* A retry that an answer named is kept until a run begins. (scheduler.js scheduleRetry)
THEOREM NoRetryIsLost == SchedulerSpec => []OwedRetryIsKept
<1>1. SchedulerIInv => OwedRetryIsKept
  BY DEF SchedulerIInv
<1>. QED
  BY <1>1, SchedulerInvariance, PTL
===============================================================================
