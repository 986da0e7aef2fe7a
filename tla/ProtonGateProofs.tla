--------------------------- MODULE ProtonGateProofs ----------------------------
(***************************************************************************)
(* The capture of a managed mailbox's state that a backup uses is whole,   *)
(* for every number of sends, backups, faults and restarts.                *)
(*                                                                         *)
(* The property speaks of backups that are over. What makes it inductive   *)
(* is what the gate means while a backup captures: whoever holds it, and   *)
(* has drained the sends, found no lease and stopped Bridge; the worker    *)
(* grants no lease until the gate opens; and a send that is under way has  *)
(* its lease, or the worker has lost it.                                   *)
(***************************************************************************)
EXTENDS ProtonGate, TLAPS

\* A release is tried twice at most, and none is tried before the send is over.
ReleaseInv ==
  \A s \in Sends :
    /\ deletes[s] <= tries[s]
    /\ stage[s] \in {"new", "asking", "sending"} => tries[s] = 0
    /\ stage[s] = "releasing" => tries[s] <= 1

\* A send under way has its lease, unless the worker forgot it.
SendHasItsLease == \A s \in Sends \ lost : stage[s] = "sending" => s \in leases

\* A gate that is closed and drained keeps sends and Bridge out; only such a gate expires.
GateKeepsOut ==
  /\ expired => gate # None /\ draining = None
  /\ gate # None /\ draining = None => leases = {} /\ ~bridge

\* A backup that captures under its own gate has captured nothing half recorded so far.
CaptureIsClean ==
  \A b \in Backups :
    /\ backup[b] \in {"idle", "beginning"} => b \notin dirty
    /\ backup[b] \in Capturing /\ gate = b => b \notin dirty /\ draining = None

IInv ==
  /\ TypeOK
  /\ ReleaseInv
  /\ SendHasItsLease
  /\ GateKeepsOut
  /\ CaptureIsClean
  /\ TrustedCaptureIsWhole

USE GateAssumption

\* At first no send is under way and the gate is open.
LEMMA InitIInv == Init => IInv
<1>. SUFFICES ASSUME Init
              PROVE  IInv
  OBVIOUS
<1>1. TypeOK
  <2>1. 0 \in 0 .. 2
    OBVIOUS
  <2>2. stage \in [Sends -> {"new", "asking", "sending", "releasing", "deleting", "ended"}]
    BY DEF Init
  <2>3. tries \in [Sends -> 0 .. 2] /\ deletes \in [Sends -> 0 .. 2]
    BY <2>1 DEF Init
  <2>4. budget \in [faults : Nat, restarts : Nat]
    BY DEF Init
  <2>5. backup \in [Backups -> Running \cup {"idle", "ok", "failed"}]
    BY DEF Init
  <2>. QED
    BY <2>2, <2>3, <2>4, <2>5 DEF Init, TypeOK
<1>2. ReleaseInv /\ SendHasItsLease
  BY DEF Init, ReleaseInv, SendHasItsLease
<1>3. GateKeepsOut /\ CaptureIsClean /\ TrustedCaptureIsWhole
  BY DEF Init, GateKeepsOut, CaptureIsClean, Capturing, TrustedCaptureIsWhole
<1>. QED
  BY <1>1, <1>2, <1>3 DEF IInv

-------------------------------------------------------------------------------
(* The steps of the sends and of the leases: the gate and the backups stay *)

\* What withProtonSendLease does, and the worker with its requests. (proton/maintenance.js)
SendsStep ==
  \/ \E s \in Sends : SendStep(s) \/ SendTrouble(s)
  \/ BackendDies
  \/ \E s \in Sends : HandlePost(s) \/ HandleDelete(s)

\* A step of one send that keeps it well formed. (maintenance.js withProtonSendLease)
LEMMA SendStepKeeps ==
  ASSUME TypeOK, ReleaseInv, NEW s \in Sends, SendStep(s) \/ SendTrouble(s)
  PROVE  TypeOK' /\ ReleaseInv'
<1>1. CASE Ask(s)
  BY <1>1 DEF Ask, SetStage, TypeOK, ReleaseInv, worker, host
<1>2. CASE EndSend(s)
  BY <1>2 DEF EndSend, SetStage, TypeOK, ReleaseInv, messages, worker, host
<1>3. CASE Delete(s)
  BY <1>3 DEF Delete, SetStage, TypeOK, ReleaseInv, worker, host
<1>4. CASE GiveUpAsking(s)
  BY <1>4 DEF GiveUpAsking, Fault, SetStage, TypeOK, ReleaseInv, messages, worker, host
<1>5. CASE GiveUpDeleting(s)
  BY <1>5 DEF GiveUpDeleting, TriesAgain, Fault, SetStage, TypeOK, ReleaseInv, worker, host
<1>. QED
  BY <1>1, <1>2, <1>3, <1>4, <1>5 DEF SendStep, SendTrouble

\* Every step of the sends keeps them well formed.
LEMMA SendsKeep ==
  ASSUME TypeOK, ReleaseInv, SendsStep
  PROVE  TypeOK' /\ ReleaseInv'
<1>1. CASE BackendDies
  BY <1>1 DEF BackendDies, Fault, Alive, TypeOK, ReleaseInv, messages, worker, host
<1>2. ASSUME NEW s \in Sends, HandlePost(s)
      PROVE  TypeOK' /\ ReleaseInv'
  BY <1>2 DEF HandlePost, Answered, SetStage, TypeOK, ReleaseInv, host
<1>3. ASSUME NEW s \in Sends, HandleDelete(s)
      PROVE  TypeOK' /\ ReleaseInv'
  BY <1>3 DEF HandleDelete, Remembers, SetStage, TypeOK, ReleaseInv, host
<1>. QED
  BY <1>1, <1>2, <1>3, SendStepKeeps DEF SendsStep

\* A lease ends only after its send ended, and a send begins only with one.
LEMMA SendsKeepLeases ==
  ASSUME TypeOK, ReleaseInv, SendHasItsLease, SendsStep
  PROVE  SendHasItsLease'
<1>1. ASSUME NEW s \in Sends, SendStep(s) \/ SendTrouble(s)
      PROVE  SendHasItsLease'
  BY <1>1 DEF SendStep, SendTrouble, Ask, EndSend, Delete, GiveUpAsking, GiveUpDeleting, SetStage,
              TypeOK, SendHasItsLease, worker
<1>2. CASE BackendDies
  BY <1>2 DEF BackendDies, Alive, TypeOK, SendHasItsLease, worker
<1>3. ASSUME NEW s \in Sends, HandlePost(s)
      PROVE  SendHasItsLease'
  BY <1>3 DEF HandlePost, Answered, SetStage, TypeOK, SendHasItsLease
<1>4. ASSUME NEW s \in Sends, HandleDelete(s)
      PROVE  SendHasItsLease'
  BY <1>4 DEF HandleDelete, SetStage, TypeOK, ReleaseInv, SendHasItsLease
<1>. QED
  BY <1>1, <1>2, <1>3, <1>4 DEF SendsStep

\* While the gate is closed no lease is granted, and nothing of the sends touches the backups.
LEMMA SendsKeepGate ==
  ASSUME TypeOK, GateKeepsOut, CaptureIsClean, TrustedCaptureIsWhole, SendsStep
  PROVE  GateKeepsOut' /\ CaptureIsClean' /\ TrustedCaptureIsWhole'
<1>1. UNCHANGED <<gate, draining, expired, bridge, backup, dirty>>
  BY DEF SendsStep, SendStep, SendTrouble, Ask, EndSend, Delete, GiveUpAsking, GiveUpDeleting,
         BackendDies, HandlePost, HandleDelete, worker, host
<1>2. gate # None => leases' \subseteq leases
  BY DEF SendsStep, SendStep, SendTrouble, Ask, EndSend, Delete, GiveUpAsking, GiveUpDeleting,
         BackendDies, HandlePost, HandleDelete, Admits, worker
<1>. QED
  BY <1>1, <1>2 DEF GateKeepsOut, CaptureIsClean, TrustedCaptureIsWhole

-------------------------------------------------------------------------------
(* The steps of the gate and of the backups: the sends stay *)

GateStep ==
  \/ DrainStep \/ Tick \/ Expires
  \/ \E b \in Backups : Begin(b) \/ BeginUnknown(b) \/ BackupStep(b) \/ KillBackup(b) \/ Renew(b)

\* The gate's and the backups' steps leave the sends and their leases as they are.
LEMMA GateLeavesSends ==
  ASSUME GateStep
  PROVE  UNCHANGED <<stage, tries, lost, posts, deletes, leases, cancelled>>
BY DEF GateStep, DrainStep, DrainEnds, DrainFails, Tick, Expires, Begin, BeginUnknown, BackupStep,
       Dump, Check, EndBackup, KillBackup, Renew, sendState, messages, worker

\* What is true of the gate, the backups and the budget.
GateInv == TypeOK /\ GateKeepsOut /\ CaptureIsClean /\ TrustedCaptureIsWhole

\* The drain of a snapshot ends well, and its backup may capture, or it does not.
\* (controller.py snapshot_begin)
LEMMA DrainKeeps == ASSUME GateInv, DrainStep PROVE GateInv'
<1>1. CASE DrainEnds
  BY <1>1 DEF DrainEnds, Drained, GateInv, TypeOK, GateKeepsOut, CaptureIsClean,
              TrustedCaptureIsWhole, Running, Capturing, sendState, messages
<1>2. CASE DrainFails
  BY <1>2 DEF DrainFails, GateInv, TypeOK, GateKeepsOut, CaptureIsClean,
              TrustedCaptureIsWhole, Running, Capturing, sendState, messages
<1>. QED
  BY <1>1, <1>2 DEF DrainStep

\* The gate runs out, and is opened then: what captured under it is not used.
\* (controller.py tick)
LEMMA TimeKeeps == ASSUME GateInv, Tick \/ Expires PROVE GateInv'
<1>1. CASE Tick
  BY <1>1 DEF Tick, TickOpens, OpenGate, GateInv, TypeOK, GateKeepsOut, CaptureIsClean,
              TrustedCaptureIsWhole, Running, Capturing, sendState, messages
<1>2. CASE Expires
  BY <1>2 DEF Expires, Fault, GateInv, TypeOK, GateKeepsOut, CaptureIsClean,
              TrustedCaptureIsWhole, Running, Capturing, sendState, messages, host
<1>. QED
  BY <1>1, <1>2

\* What a backup does keeps it: only a capture whose gate stayed its own is used.
\* (backup.sh, lib/proton.sh)
LEMMA BackupKeeps ==
  ASSUME GateInv, SendHasItsLease, NEW b \in Backups,
         Begin(b) \/ BeginUnknown(b) \/ BackupStep(b) \/ KillBackup(b) \/ Renew(b)
  PROVE  GateInv'
<1>. USE DEF GateInv, TypeOK, GateKeepsOut, CaptureIsClean, TrustedCaptureIsWhole, Running,
             Capturing, sendState, messages, worker, host
<1>1. CASE Begin(b)
  BY <1>1 DEF Begin
<1>2. CASE BeginUnknown(b)
  <2>1. /\ backup' = [backup EXCEPT ![b] = "failed"]
        /\ gate' = None /\ draining' = None /\ expired' = FALSE /\ bridge' = TRUE
        /\ dirty' = dirty \cup {a \in Backups : backup[a] \in Capturing}
        /\ UNCHANGED <<stage, tries, lost, posts, deletes, leases, cancelled>>
    BY <1>2 DEF BeginUnknown, OpenGate
  <2>2. budget' \in [faults : Nat, restarts : Nat]
    BY <1>2 DEF BeginUnknown, Fault
  <2>3. TypeOK'
    BY <2>1, <2>2
  <2>4. GateKeepsOut' /\ CaptureIsClean' /\ TrustedCaptureIsWhole'
    BY <2>1
  <2>. QED
    BY <2>3, <2>4
<1>3. CASE Dump(b)
  <2>1. gate = b => ~HalfRecorded /\ ~bridge
    BY <1>3 DEF Dump, HalfRecorded, SendHasItsLease
  <2>. QED
    BY <1>3, <2>1 DEF Dump
<1>4. ASSUME NEW from \in {"dumped", "staging"}, NEW to \in {"staging", "staged"},
             Check(b, from, to)
      PROVE  GateInv'
  BY <1>4 DEF Check
<1>5. CASE EndBackup(b)
  <2>1. CASE gate = b
    BY <1>5, <2>1 DEF EndBackup, IsTrusted
  <2>2. CASE gate # b
    BY <1>5, <2>2 DEF EndBackup, IsTrusted
  <2>. QED
    BY <2>1, <2>2
<1>6. CASE KillBackup(b)
  BY <1>6 DEF KillBackup, Fault
<1>7. CASE Renew(b)
  BY <1>7 DEF Renew
<1>. QED
  BY <1>1, <1>2, <1>3, <1>4, <1>5, <1>6, <1>7 DEF BackupStep

\* A restart of the worker opens the gate: a backup that captures is not used.
\* (controller.py, its memory)
LEMMA RestartKeeps == ASSUME IInv, Recreate \/ RestartAlone PROVE IInv'
<1>. USE DEF Recreate, RestartAlone, Restart, OpenGate, IInv
<1>1. TypeOK'
  <2>1. /\ stage' \in [Sends -> {"new", "asking", "sending", "releasing", "deleting", "ended"}]
        /\ tries' \in [Sends -> 0 .. 2]
        /\ deletes' \in [Sends -> 0 .. 2]
        /\ {lost', leases', cancelled', posts'} \subseteq SUBSET Sends
    BY DEF TypeOK
  <2>2. /\ gate' = None /\ draining' = None /\ expired' \in BOOLEAN /\ bridge' \in BOOLEAN
        /\ backup' \in [Backups -> Running \cup {"idle", "ok", "failed"}]
        /\ dirty' \in SUBSET Backups
    BY DEF TypeOK
  <2>3. budget' \in [faults : Nat, restarts : Nat]
    BY DEF TypeOK, Fault
  <2>. QED
    BY <2>1, <2>2, <2>3 DEF TypeOK
<1>2. ReleaseInv'
  BY DEF TypeOK, ReleaseInv, Alive
<1>3. SendHasItsLease'
  BY DEF TypeOK, Alive, SendHasItsLease
<1>4. GateKeepsOut' /\ CaptureIsClean' /\ TrustedCaptureIsWhole'
  BY DEF TypeOK, GateKeepsOut, CaptureIsClean, TrustedCaptureIsWhole, Running, Capturing
<1>. QED
  BY <1>1, <1>2, <1>3, <1>4

-------------------------------------------------------------------------------

\* Every step keeps the invariant.
LEMMA StepIInv == IInv /\ [Next]_vars => IInv'
<1>. SUFFICES ASSUME IInv, [Next]_vars
              PROVE  IInv'
  OBVIOUS
<1>1. CASE SendsStep
  BY <1>1, SendsKeep, SendsKeepLeases, SendsKeepGate DEF IInv
<1>2. CASE GateStep
  <2>1. GateInv'
    BY <1>2, DrainKeeps, TimeKeeps, BackupKeeps DEF GateStep, GateInv, IInv
  <2>2. ReleaseInv' /\ SendHasItsLease'
    BY <1>2, GateLeavesSends DEF IInv, ReleaseInv, SendHasItsLease
  <2>. QED
    BY <2>1, <2>2 DEF GateInv, IInv
<1>3. CASE Recreate \/ RestartAlone
  BY <1>3, RestartKeeps
<1>4. CASE UNCHANGED vars
  BY <1>4 DEF vars, IInv, TypeOK, ReleaseInv, SendHasItsLease, GateKeepsOut, CaptureIsClean,
              TrustedCaptureIsWhole
<1>. QED
  BY <1>1, <1>2, <1>3, <1>4 DEF Next, SendsStep, GateStep

\* The invariant holds in every reachable state.
THEOREM Invariance == Spec => []IInv
BY InitIInv, StepIInv, PTL DEF Spec

\* Sends, leases, gate and backups are always well formed: a release is tried twice at most, and
\* only the holder of the gate is drained for. (maintenance.js, controller.py)
THEOREM TypeCorrect == Spec => []TypeOK
<1>1. IInv => TypeOK
  BY DEF IInv
<1>. QED
  BY <1>1, Invariance, PTL

\* A backup uses only a capture in which no letter of a managed mailbox was half recorded and
\* Bridge did not run, whatever was killed, timed out or came late.
\* (maintenance.js:14-16, backup.sh:285-305)
THEOREM UsedCapturesAreWhole == Spec => []TrustedCaptureIsWhole
<1>1. IInv => TrustedCaptureIsWhole
  BY DEF IInv
<1>. QED
  BY <1>1, Invariance, PTL

===============================================================================
