------------------------------ MODULE AtMostOnce ------------------------------
(***************************************************************************)
(* What the job queue promises the people who use it, with no queue in it: *)
(* somebody consents to a job's irreversible effect (a letter handed to    *)
(* the mail server), each consent lets it happen at most once, and a       *)
(* consent that was withdrawn in time lets it happen never.                *)
(* (backend/src/services/jobQueue.js:19-21, docs/architecture/job-queue.md)*)
(***************************************************************************)
EXTENDS Naturals

CONSTANTS
  Jobs,
  Doers      \* who or what makes an effect happen

VARIABLES
  consents,   \* how many consents a job was given; they are numbered from 1
  withdrawn,  \* the jobs whose latest consent was withdrawn
  effects     \* effects[j]: the pairs <<consent, doer>> of the effects that happened

vars == <<consents, withdrawn, effects>>

Init ==
  /\ consents = [j \in Jobs |-> 0]
  /\ withdrawn = {}
  /\ effects = [j \in Jobs |-> {}]

Spent(j, e) == \E doer \in Doers : <<e, doer>> \in effects[j]

\* Someone asks for the job to run, or to run again.
Consent(j) ==
  /\ j \notin withdrawn
  /\ consents' = [consents EXCEPT ![j] = @ + 1]
  /\ UNCHANGED <<withdrawn, effects>>

\* The writer takes the latest consent back: only before it was used.
Withdraw(j) ==
  /\ ~Spent(j, consents[j])
  /\ withdrawn' = withdrawn \cup {j}
  /\ UNCHANGED <<consents, effects>>

\* The effect happens, under a consent that was neither used nor withdrawn.
Happen(j, e, doer) ==
  /\ e \in 1..consents[j]
  /\ ~Spent(j, e)
  /\ ~(j \in withdrawn /\ e = consents[j])
  /\ effects' = [effects EXCEPT ![j] = @ \cup {<<e, doer>>}]
  /\ UNCHANGED <<consents, withdrawn>>

Next ==
  \E j \in Jobs :
    \/ Consent(j)
    \/ Withdraw(j)
    \/ \E e \in 1..consents[j], doer \in Doers : Happen(j, e, doer)

Spec == Init /\ [][Next]_vars
===============================================================================
