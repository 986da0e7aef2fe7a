------------------------------ MODULE AccessSync ------------------------------
(***************************************************************************)
(* A run of the Cloudflare Access sync (backend/src/services/accessSync:   *)
(* runner.js, reconcile.js, settings.js, tombstones.js), step by step,     *)
(* among the people who change users in the panel, sign in, edit the       *)
(* policy in Cloudflare, and point the sync at another policy from the     *)
(* command line. Runs follow one another in the one backend process        *)
(* (AccessSyncScheduler); here the next may begin as soon as one is over.  *)
(*                                                                         *)
(* A user is known by its email. A policy is the set of emails its include *)
(* list names; its email_domain rules, its exclude list and the bootstrap  *)
(* administrators are all there or none of them, and stay as they are.     *)
(***************************************************************************)
EXTENDS Naturals, FiniteSets

CONSTANTS
  Emails, Policies,
  Admins,        \* the emails whose user is an administrator
  PinnedEmails,  \* BOOTSTRAP_ADMIN_EMAILS
  DomainEmails,  \* emails an email_domain rule of the policies lets in
  ExcludedEmails,  \* emails the policies exclude
  MaxDisables, MaxImports,   \* ACCESS_SYNC_MAX_DISABLES, ACCESS_SYNC_MAX_IMPORTS
  MaxMoves,      \* bound: what people do, all together
  MaxLosses      \* bound: answers of Cloudflare that are lost, and crashes

ASSUME SetsAssumption ==
  /\ PinnedEmails \subseteq Admins /\ Admins \subseteq Emails
  /\ DomainEmails \subseteq Emails /\ ExcludedEmails \subseteq Emails
ASSUME LimitsAssumption == {MaxDisables, MaxImports, MaxMoves, MaxLosses} \subseteq Nat

VARIABLES
  ruled,         \* whether the install has those administrators and rules; it never changes
  users,         \* the row of each email: none, active or disabled
  byRule,        \* the users with access_source = 'login'
  tombstones,    \* access_tombstones
  policy,        \* the include list of each policy
  config,        \* the policy the stored settings name
  baseline, policyEmails,   \* the stored state
  run,           \* the run under way
  takenOut,      \* history: emails somebody removed from a policy that are still gone
  unstored,      \* history: emails a run took out of a policy without storing that it did
  settled,       \* history: a run succeeded, and nobody has done anything since it began
  moves, losses

stored == <<config, baseline, policyEmails>>
history == <<takenOut, unstored>>
vars == <<ruled, users, byRule, tombstones, policy, stored, run, history, settled, moves, losses>>

Idle == [pc |-> "idle"]
Sets == SUBSET Emails

\* What a run holds: what it read of the stored state, the policy and the users, what it means to
\* do, and three fields of history: gone (takenOut when it read the policy), took (what its write
\* takes out of the policy) and quiet (nobody has done anything since it began).
RunRecords ==
  [pc : {"get", "users", "tombstones", "import", "adopt", "disable", "put", "finish"},
   target : Policies, base : Sets, seen : Sets, known : Sets, active : Sets, unpinned : Sets,
   adopt : Sets, imports : Sets, drops : Sets, gone : Sets, took : Sets, quiet : BOOLEAN]

Pinned == IF ruled THEN PinnedEmails ELSE {}
DomainAdmits == IF ruled THEN DomainEmails ELSE {}
Excluded == IF ruled THEN ExcludedEmails ELSE {}

TypeOK ==
  /\ ruled \in BOOLEAN
  /\ users \in [Emails -> {"none", "active", "disabled"}]
  /\ {byRule, tombstones, baseline, policyEmails} \subseteq Sets
  /\ \A e \in byRule : users[e] # "none"
  /\ policy \in [Policies -> Sets]
  /\ config \in Policies
  /\ run \in RunRecords \cup {Idle}
  /\ {takenOut, unstored} \subseteq [Policies -> Sets]
  /\ settled \in BOOLEAN
  /\ moves \in 0..MaxMoves
  /\ losses \in 0..MaxLosses

Init ==
  /\ ruled \in BOOLEAN
  /\ users \in [Emails -> {"none", "active"}]
  /\ \E e \in Admins : users[e] = "active"
  /\ policy \in [Policies -> Sets]
  /\ config \in Policies
  /\ byRule = {} /\ tombstones = {}
  /\ baseline = {} /\ policyEmails = {}
  /\ run = Idle
  /\ takenOut = [p \in Policies |-> {}]
  /\ unstored = [p \in Policies |-> {}]
  /\ settled = FALSE
  /\ moves = 0 /\ losses = 0

Known == {e \in Emails : users[e] # "none"}
Active == {e \in Emails : users[e] = "active"}

-------------------------------------------------------------------------------
(* reconcile.js *)

\* Emails an include list lets in by their own address or by a domain, and does not exclude.
Admitted(include) == (include \cup DomainAdmits) \ Excluded

\* removedInCloudflare: active users whose email MailExpert wrote and the policy no longer admits;
\* a policy without a single email looks wiped and disables nobody.
RemovedInCloudflare(include, base, active) ==
  IF include = {} THEN {} ELSE (base \cap active) \ (Pinned \cup Admitted(include))

\* importCandidates: listed emails MailExpert did not write
ImportCandidates(include, base) == include \ (base \cup Pinned \cup Excluded)

ExceedsDisableLimit(drops, active) ==
  drops # {} /\ (Cardinality(drops) > MaxDisables \/ Cardinality(drops) * 2 > Cardinality(active))

ExceedsImportLimit(imports) == Cardinality(imports) > MaxImports

\* buildInclude: what MailExpert owns follows its users, everything else stays
IncludeOf(include, base, desired) == (include \ base) \cup desired

-------------------------------------------------------------------------------
(* What people do meanwhile *)

Move ==
  /\ moves < MaxMoves
  /\ moves' = moves + 1
  /\ settled' = FALSE
  /\ UNCHANGED <<ruled, losses>>

\* The run under way no longer describes a system nobody touched.
Disturbed == IF run = Idle THEN run ELSE [run EXCEPT !.quiet = FALSE]

OnUsers == Move /\ run' = Disturbed /\ UNCHANGED <<policy, stored, history>>

\* createUser and allowEmail (admin/users.js): an approval clears the tombstone
Approved(e) == tombstones \ {e}
Approve(e) ==
  /\ OnUsers
  /\ users[e] # "active" \/ e \in byRule
  /\ users' = [users EXCEPT ![e] = "active"]
  /\ byRule' = byRule \ {e}
  /\ tombstones' = Approved(e)

\* otherActiveAdminExists, under the admin guard's lock
MayGo(e, active) == e \in Admins => (Admins \cap active) \ {e} # {}

\* updateUser: disabled, or enabled again
Disable(e) ==
  /\ OnUsers
  /\ users[e] = "active"
  /\ e \notin Pinned
  /\ MayGo(e, Active)
  /\ users' = [users EXCEPT ![e] = "disabled"]
  /\ UNCHANGED <<byRule, tombstones>>

Enable(e) ==
  /\ OnUsers
  /\ users[e] = "disabled"
  /\ users' = [users EXCEPT ![e] = "active"]
  /\ UNCHANGED <<byRule, tombstones>>

\* The column goes with the row.
WithoutRow(S, e) == S \ {e}

\* deleteUser: the row goes and the tombstone comes in one transaction
Delete(e) ==
  /\ OnUsers
  /\ users[e] # "none"
  /\ e \notin Pinned
  /\ users[e] = "active" => MayGo(e, Active)
  /\ users' = [users EXCEPT ![e] = "none"]
  /\ byRule' = WithoutRow(byRule, e)
  /\ tombstones' = tombstones \cup {e}

\* resolveVerifiedUser for a Cloudflare Access identity without an account
SignInMakesRule(e) == e \notin Pinned /\ e \notin policyEmails
SignIn(e) ==
  /\ OnUsers
  /\ users[e] = "none"
  /\ e \in Pinned \/ e \notin tombstones
  /\ users' = [users EXCEPT ![e] = "active"]
  /\ byRule' = IF SignInMakesRule(e) THEN byRule \cup {e} ELSE byRule
  /\ UNCHANGED tombstones

\* Somebody edits the policy in Cloudflare's own screen.
CloudflareAdds(p, e) ==
  /\ Move
  /\ e \notin policy[p]
  /\ policy' = [policy EXCEPT ![p] = @ \cup {e}]
  /\ takenOut' = [takenOut EXCEPT ![p] = @ \ {e}]
  /\ run' = Disturbed
  /\ UNCHANGED <<users, byRule, tombstones, stored, unstored>>

CloudflareRemoves(p, e) ==
  /\ Move
  /\ e \in policy[p]
  /\ policy' = [policy EXCEPT ![p] = @ \ {e}]
  /\ takenOut' = [takenOut EXCEPT ![p] = @ \cup {e}]
  /\ run' = Disturbed
  /\ UNCHANGED <<users, byRule, tombstones, stored, unstored>>

\* updateConfig from the panel CLI, in its own process: pointing the sync at another policy
\* forgets what was written, in the same transaction.
BaselineAfterSave == {}
SaveConfig(p) ==
  /\ Move
  /\ p # config
  /\ config' = p
  /\ baseline' = BaselineAfterSave
  /\ policyEmails' = {}
  /\ run' = Disturbed
  /\ UNCHANGED <<users, byRule, tombstones, policy, takenOut, unstored>>

People ==
  \/ \E e \in Emails : Approve(e) \/ Disable(e) \/ Enable(e) \/ Delete(e) \/ SignIn(e)
  \/ \E p \in Policies, e \in Emails : CloudflareAdds(p, e) \/ CloudflareRemoves(p, e)
  \/ \E p \in Policies : SaveConfig(p)

-------------------------------------------------------------------------------
(* A run: runAccessSync *)

At(pc) == run.pc = pc

\* Nothing but the run itself changes.
Quiet == UNCHANGED <<ruled, users, byRule, tombstones, policy, stored, history, settled, moves, losses>>

\* loadRunConfig and loadState
BeginRun ==
  /\ At("idle")
  /\ run' = [pc |-> "get", target |-> config, base |-> baseline, seen |-> {}, known |-> {},
             active |-> {}, unpinned |-> {}, adopt |-> {}, imports |-> {}, drops |-> {},
             gone |-> {}, took |-> {}, quiet |-> TRUE]
  /\ Quiet

GetPolicy ==
  /\ At("get")
  /\ run' = [run EXCEPT !.pc = "users", !.seen = policy[run.target], !.gone = takenOut[run.target]]
  /\ Quiet

\* The users, read once; what is proposed for import is what they do not have.
ReadUsers ==
  /\ At("users")
  /\ run' = [run EXCEPT !.pc = "tombstones", !.known = Known, !.active = Active,
                        !.adopt = byRule \cap Active \cap run.seen,
                        !.unpinned = (byRule \cap Active) \ run.seen]
  /\ Quiet

\* tombstonedAmong, and the limits: a run does all of it or nothing
ReadTombstones ==
  LET imports == ImportCandidates(run.seen, run.base) \ (run.known \cup tombstones)
      drops == RemovedInCloudflare(run.seen, run.base, run.active)
  IN  /\ At("tombstones")
      /\ run' = IF ExceedsDisableLimit(drops, run.active) \/ ExceedsImportLimit(imports)
                THEN Idle
                ELSE [run EXCEPT !.pc = "import", !.imports = imports, !.drops = drops, !.known = {}]
      /\ Quiet

\* importUsers, one email: under the address's lock the tombstone is read again, and a user that
\* came meanwhile is left as it is.
ImportableSlip(e) == users[e] = "none"
Importable(e) == users[e] = "none" /\ e \notin tombstones
Import(e) ==
  /\ At("import")
  /\ e \in run.imports
  /\ users' = IF Importable(e) THEN [users EXCEPT ![e] = "active"] ELSE users
  /\ run' = [run EXCEPT !.imports = @ \ {e},
                        !.active = IF Importable(e) THEN @ \cup {e} ELSE @]
  /\ UNCHANGED <<byRule, tombstones, policy, stored, history, settled, moves, losses, ruled>>

ImportsDone ==
  /\ At("import")
  /\ run.imports = {}
  /\ run' = [run EXCEPT !.pc = "adopt"]
  /\ Quiet

\* The policy lists these users by address now: they are the sync's own.
Adopt ==
  /\ At("adopt")
  /\ byRule' = byRule \ run.adopt
  /\ run' = [run EXCEPT !.pc = "disable", !.adopt = {}]
  /\ UNCHANGED <<users, tombstones, policy, stored, history, settled, moves, losses, ruled>>

\* disableUsersByEmail, one transaction under the admin guard: the users are read again, the
\* last active administrator stays.
DroppableSlip(S) == {S \cap Active}
Droppable(S) ==
  {D \in SUBSET (S \cap Active) :
     /\ Admins \cap (Active \ D) # {} \/ Admins \cap D = {}
     /\ \A e \in (S \cap Active) \ D : ~ MayGo(e, Active \ D)}
StillActiveSlip(D) == run.active \ run.drops
StillActive(D) == run.active \ D
DisableRemoved ==
  /\ At("disable")
  /\ \E D \in Droppable(run.drops \ Pinned) :
       /\ users' = [e \in Emails |-> IF e \in D THEN "disabled" ELSE users[e]]
       /\ run' = [run EXCEPT !.pc = "put", !.drops = {}, !.active = StillActive(D) \ run.unpinned,
                             !.unpinned = {}]
  /\ UNCHANGED <<byRule, tombstones, policy, stored, history, settled, moves, losses, ruled>>

Desired == run.active \cup Pinned
Include == IncludeOf(run.seen, run.base, Desired)
EmptyInclude == Include \cup DomainAdmits = {}

\* What the write takes out of the policy, an address somebody put there meanwhile included.
Taken == policy[run.target] \ Include

\* updatePolicy writes back the whole policy as it was read, with the new include list.
PutPolicy ==
  /\ policy' = [policy EXCEPT ![run.target] = Include]
  /\ takenOut' = [takenOut EXCEPT ![run.target] = @ \ Include]

Put ==
  /\ At("put")
  /\ IF Include = run.seen \/ EmptyInclude
     THEN /\ run' = [run EXCEPT !.pc = "finish"]
          /\ UNCHANGED <<policy, takenOut>>
     ELSE /\ run' = [run EXCEPT !.pc = "finish", !.took = Taken]
          /\ PutPolicy
  /\ UNCHANGED <<users, byRule, tombstones, stored, unstored, settled, moves, losses, ruled>>

\* finish, in a transaction under the sync's advisory lock: when the settings name another policy
\* by now, this run's baseline belongs to the old one.
MovedSlip == FALSE
Moved == config # run.target
StoredBaseline == Desired
Finish ==
  /\ At("finish")
  /\ IF Moved THEN UNCHANGED <<baseline, policyEmails>>
     ELSE /\ baseline' = IF EmptyInclude THEN baseline ELSE StoredBaseline
          /\ policyEmails' = IF EmptyInclude THEN run.seen ELSE Include
  /\ settled' = (run.quiet /\ ~ EmptyInclude)
  /\ run' = Idle
  /\ UNCHANGED <<ruled, users, byRule, tombstones, policy, config, history, moves, losses>>

Loss == losses < MaxLosses /\ losses' = losses + 1 /\ UNCHANGED ruled

\* What this run's write took out of the policy stays in the stored baseline.
LeaveUnstored(took) == unstored' = [unstored EXCEPT ![run.target] = @ \cup took]

\* The database fails the transaction of finish: it is reported, and the state is not written.
FinishLost ==
  /\ Loss
  /\ At("finish")
  /\ LeaveUnstored(run.took)
  /\ run' = Idle
  /\ UNCHANGED <<users, byRule, tombstones, policy, stored, takenOut, settled, moves>>

\* Cloudflare refuses or cannot be reached, or the database fails, before anything was asked of
\* it that it could have done: the run ends there, what it committed stays.
Fails ==
  /\ ~ At("idle")
  /\ ~ At("finish")
  /\ run' = Idle
  /\ Quiet

\* The policy is written, and the answer is lost (a timeout), or the process dies before finish.
PutReplyLost ==
  /\ Loss
  /\ At("put")
  /\ Include # run.seen
  /\ ~ EmptyInclude
  /\ PutPolicy
  /\ LeaveUnstored(Taken)
  /\ run' = Idle
  /\ UNCHANGED <<users, byRule, tombstones, stored, settled, moves>>

Run ==
  \/ BeginRun \/ GetPolicy \/ ReadUsers \/ ReadTombstones
  \/ \E e \in Emails : Import(e)
  \/ ImportsDone \/ Adopt \/ DisableRemoved \/ Put \/ Finish \/ FinishLost \/ Fails \/ PutReplyLost

Next == People \/ Run

Spec == Init /\ [][Next]_vars

-------------------------------------------------------------------------------
(* Properties *)

\* A deleted user's address does not come back on its own: no import and no sign-in gives it a row
\* while the tombstone stands, although the run read the tombstones long before it imports
\* (runner.js importUsers, userIdentity.js resolveVerifiedUser).
DeletedStaysDeleted == tombstones \cap Known = {}

\* The install keeps an administrator who can sign in, whatever the policy lost (userStatus.js).
LastAdminStays == Admins \cap Active # {}

\* A run that succeeded undisturbed leaves a policy that lists every active user but those a
\* domain rule admitted (runner.js runAccessSync).
SettledListsActive == settled => Active \ byRule \subseteq policy[config]

Dropped(e) == DisableRemoved /\ users'[e] # users[e]
Removed(e) == e \in Excluded \cup (run.gone \ DomainAdmits)

\* The sync disables a user only for an address the policy excludes, or that somebody took out of
\* it and no domain rule lets in: its own writes never count as removals (reconcile.js
\* removedInCloudflare), whatever people do meanwhile, but for an address a run took out of the
\* policy itself and then could not store that it did, as the answer to its write or its last
\* transaction was lost.
StoredDropIsARemoval ==
  [][\A e \in Emails : Dropped(e) => Removed(e) \/ e \in unstored[run.target]]_vars
===============================================================================
