-------------------------- MODULE SendTransportProofs --------------------------
(***************************************************************************)
(* The attempts of one delivery hand the letter over at most once, for     *)
(* every number of addresses, attempts and grants.                         *)
(*                                                                         *)
(* Inductive is the same statement of the letter under way: until an       *)
(* outcome is told, no request of any attempt was taken. The flag of an    *)
(* account compares the grant the token came from with the stored one:     *)
(* they are the same while nobody reconnected since the last refresh.      *)
(***************************************************************************)
EXTENDS SendTransport, TLAPS

\* Nobody was told an outcome yet, and no server took the letter.
Undelivered == stage # "settled" => outcome = "none" /\ (repeated \/ delivered = 0)

\* The attempt's token came from the stored grant, unless that was replaced meanwhile.
HeldIsStored == replaced \/ held = grant

IInv == TypeOK /\ Undelivered /\ DeliveredAtMostOnce

\* Nothing is delivered before the first attempt.
LEMMA InitIInv == Init => IInv
<1>. SUFFICES ASSUME Init PROVE IInv
  OBVIOUS
<1>1. account \in Accounts /\ reply \in BOOLEAN
  BY DEF Init
<1>2. address \in 1 .. Addresses /\ attempts \in 1 .. MaxAttempts /\ grant \in Grants /\ held \in Grants
  BY TransportAssumption DEF Init, Grants
<1>3. /\ stage \in Stages /\ thread \in BOOLEAN /\ renewed \in BOOLEAN /\ outcome \in Outcomes
      /\ delivered \in Nat /\ flagged \in BOOLEAN /\ replaced \in BOOLEAN /\ repeated \in BOOLEAN
  BY <1>1 DEF Init, Stages, Outcomes
<1>4. Undelivered /\ DeliveredAtMostOnce
  BY DEF Init, Undelivered, DeliveredAtMostOnce
<1>. QED
  BY <1>1, <1>2, <1>3, <1>4 DEF IInv, TypeOK

-------------------------------------------------------------------------------
(* Types *)

\* A refresh or a reconnect writes one of the grants there may be.
LEMMA GrantTypes ==
  ASSUME TypeOK, [Next]_vars
  PROVE  grant' \in Grants /\ held' \in Grants
<1>1. grant \in Grants /\ held \in Grants
  BY DEF TypeOK
<1>2. grant' = grant \/ (grant < MaxGrants /\ grant' = grant + 1)
  BY DEF Next, AttemptStep, ApiStep, SmtpStep, SetUp, SetupFails, GrantRefused, ApiTakes, ApiRefuses,
         ApiRejectsToken, ApiUnreachable, ApiBreaks, ApiRefresh, Renewed, NewGrant, RefreshFails,
         FlagAccount, FlagLost, FallBack, FallbackFails, SmtpTakes, SmtpUnreachable, SmtpCloses,
         SmtpRefuses, SmtpRejectsLogin, SmtpRefresh, Again, Reconnect, grants, vars
<1>3. grant' \in Grants
  BY <1>1, <1>2, TransportAssumption DEF Grants
<1>4. held' \in {held, grant, grant'}
  BY DEF Next, AttemptStep, ApiStep, SmtpStep, SetUp, SetupFails, GrantRefused, ApiTakes, ApiRefuses,
         ApiRejectsToken, ApiUnreachable, ApiBreaks, ApiRefresh, Renewed, HeldAfterRefresh, RefreshFails,
         FlagAccount, FlagLost, FallBack, FallbackFails, SmtpTakes, SmtpUnreachable, SmtpCloses,
         SmtpRefuses, SmtpRejectsLogin, SmtpRefresh, Again, Reconnect, grants, vars
<1>. QED
  BY <1>1, <1>3, <1>4

\* Every variable keeps to its type. (mailSendTransport.js, smtpTransport.js)
LEMMA NextTypes == TypeOK /\ [Next]_vars => TypeOK'
<1>. SUFFICES ASSUME TypeOK, [Next]_vars PROVE TypeOK'
  OBVIOUS
<1>1. /\ account' \in Accounts /\ reply' \in BOOLEAN /\ thread' \in BOOLEAN /\ renewed' \in BOOLEAN
      /\ stage' \in Stages /\ outcome' \in Outcomes
  BY DEF Next, AttemptStep, ApiStep, SmtpStep, SetUp, SetupFails, ApiTakes, ApiRefuses, WithoutThread,
         AfterRefusal, ApiRejectsToken, ApiUnreachable, ApiBreaks, AfterUncertain, ApiRefresh, Renewed,
         RefreshFails, FlagAccount, FlagLost, FallBack, FallbackFails, SmtpTakes, SmtpUnreachable,
         SmtpCloses, AfterConnError, AfterClose, NextAddress, SmtpRefuses, SmtpRejectsLogin, SmtpRefresh,
         Again, Reconnect, Settles, Goes, letter, vars, TypeOK, Stages, Outcomes
<1>2. /\ flagged' \in BOOLEAN /\ replaced' \in BOOLEAN /\ repeated' \in BOOLEAN
  BY DEF Next, AttemptStep, ApiStep, SmtpStep, SetUp, SetupFails, GrantRefused, ApiTakes, ApiRefuses,
         ApiRejectsToken, ApiUnreachable, ApiBreaks, ApiRefresh, Renewed, RefreshFails,
         FlagAccount, FlagsGrant, FlagLost, FallBack, FallbackFails, SmtpTakes, SmtpUnreachable, SmtpCloses,
         SmtpRefuses, SmtpRejectsLogin, SmtpRefresh, Again, Reconnect, letter, grants, vars, TypeOK
<1>3. address' = address \/ address' = 1 \/ (address < Addresses /\ address' = address + 1)
  BY DEF Next, AttemptStep, ApiStep, SmtpStep, SetUp, SetupFails, ApiTakes, ApiRefuses, WithoutThread,
         AfterRefusal, ApiRejectsToken, ApiUnreachable, ApiBreaks, AfterUncertain, ApiRefresh, Renewed,
         RefreshFails, FlagAccount, FlagLost, FallBack, FallbackFails, SmtpTakes, SmtpUnreachable,
         SmtpCloses, AfterConnError, AfterClose, NextAddress, SmtpRefuses, SmtpRejectsLogin, SmtpRefresh,
         Again, Reconnect, Settles, Goes, vars
<1>4. attempts' = attempts \/ (attempts < MaxAttempts /\ attempts' = attempts + 1)
  BY DEF Next, AttemptStep, ApiStep, SmtpStep, SetUp, SetupFails, ApiTakes, ApiRefuses, ApiRejectsToken,
         ApiUnreachable, ApiBreaks, ApiRefresh, RefreshFails, FlagAccount, FlagLost, FallBack,
         FallbackFails, SmtpTakes, SmtpUnreachable, SmtpCloses, SmtpRefuses, SmtpRejectsLogin,
         SmtpRefresh, Again, Reconnect, vars
<1>5. delivered' = delivered \/ delivered' = delivered + 1
  BY DEF Next, AttemptStep, ApiStep, SmtpStep, SetUp, SetupFails, ApiTakes, ApiRefuses, ApiRejectsToken,
         ApiUnreachable, ApiBreaks, MayBeTaken, ApiRefresh, RefreshFails, FlagAccount, FlagLost, FallBack,
         FallbackFails, SmtpTakes, SmtpUnreachable, SmtpCloses, SmtpRefuses, SmtpRejectsLogin,
         SmtpRefresh, Again, Reconnect, vars
<1>6. address' \in 1 .. Addresses /\ attempts' \in 1 .. MaxAttempts /\ delivered' \in Nat
  BY <1>3, <1>4, <1>5, TransportAssumption DEF TypeOK
<1>. QED
  BY <1>1, <1>2, <1>6, GrantTypes DEF TypeOK

-------------------------------------------------------------------------------
(* The letter goes out at most once *)

\* A step of an attempt, or one that leaves the attempt alone, keeps the invariant.
LEMMA NextIInv == IInv /\ [Next]_vars => IInv'
<1>. SUFFICES ASSUME IInv, [Next]_vars PROVE Undelivered' /\ DeliveredAtMostOnce'
  BY NextTypes DEF IInv
<1>0. delivered \in Nat /\ address \in 1 .. Addresses /\ Undelivered /\ DeliveredAtMostOnce
  BY DEF IInv, TypeOK
\* A server takes the letter, or may have: the attempt ends with an outcome that does not deny it
<1>1. CASE ApiTakes \/ SmtpTakes \/ ApiBreaks
  BY <1>0, <1>1 DEF ApiTakes, SmtpTakes, ApiBreaks, MayBeTaken, AfterUncertain, Settles, letter,
                    Undelivered, DeliveredAtMostOnce
\* A session that broke is over, or goes on at the next address and is marked as repeated
<1>2. CASE SmtpCloses
  <2>1. CASE NextAddress
    <3>0. address' # address
      BY <1>0, <2>1, TransportAssumption DEF NextAddress
    <3>1. repeated'
      BY <1>2, <3>0 DEF SmtpCloses
    <3>2. UNCHANGED <<stage, outcome>>
      BY <2>1 DEF NextAddress
    <3>. QED
      BY <1>0, <1>2, <3>1, <3>2 DEF SmtpCloses, Undelivered, DeliveredAtMostOnce
  <2>2. CASE Settles("needs_attention")
    <3>1. stage' = "settled" /\ outcome' = "needs_attention" /\ address' = address
      BY <2>2 DEF Settles
    <3>2. delivered' \in {delivered, delivered + 1} /\ stage = "smtp"
      BY <1>2 DEF SmtpCloses, MayBeTaken
    <3>3. delivered' \in {0, 1} \/ repeated
      BY <1>0, <3>2 DEF Undelivered
    <3>4. repeated => repeated'
      BY <1>2 DEF SmtpCloses
    <3>. QED
      BY <3>1, <3>3, <3>4 DEF Undelivered, DeliveredAtMostOnce
  <2>. QED
    BY <1>2, <2>1, <2>2 DEF SmtpCloses, AfterClose, AfterConnError
\* Any other request was certainly not taken
<1>3. CASE /\ stage # "settled" /\ delivered' = delivered /\ repeated' = repeated
           /\ stage' # "settled" => outcome' = outcome
  BY <1>0, <1>3 DEF Undelivered, DeliveredAtMostOnce
\* The next attempt is of a letter that was not delivered
<1>4. CASE Again
  BY <1>0, <1>4 DEF Again, letter, Undelivered, DeliveredAtMostOnce
\* A reconnect does not touch the letter
<1>5. CASE Reconnect \/ UNCHANGED vars
  BY <1>0, <1>5 DEF Reconnect, letter, vars, Undelivered, DeliveredAtMostOnce
<1>6. ASSUME AttemptStep, ~(ApiTakes \/ SmtpTakes \/ ApiBreaks), ~SmtpCloses
      PROVE  /\ stage # "settled" /\ delivered' = delivered /\ repeated' = repeated
             /\ stage' # "settled" => outcome' = outcome
  BY <1>6 DEF AttemptStep, ApiStep, SmtpStep, SetUp, SetupFails, ApiRefuses, WithoutThread,
         AfterRefusal, ApiRejectsToken, ApiUnreachable, ApiRefresh, Renewed,
         RefreshFails, FlagAccount, FlagLost, FallBack, FallbackFails, SmtpUnreachable,
         AfterConnError, NextAddress, SmtpRefuses, SmtpRejectsLogin, SmtpRefresh,
         Settles, Goes, letter
<1>. QED
  BY <1>1, <1>2, <1>3, <1>4, <1>5, <1>6 DEF Next

\* The invariant holds in every reachable state.
THEOREM Invariance == Spec => []IInv
BY InitIInv, NextIInv, PTL DEF Spec

\* The letter is taken at most once, and never before an outcome that says it was not.
\* (mailSendTransport.js:88-92, gmailApiSender.js:149-152, sendDelivery.js:6-13)
THEOREM AtMostOneDelivery == Spec => []DeliveredAtMostOnce
<1>1. IInv => DeliveredAtMostOnce
  BY DEF IInv
<1>. QED
  BY <1>1, Invariance, PTL

-------------------------------------------------------------------------------
(* The account is flagged *)

\* Every refresh, its own or one that rotated the grant, leaves the attempt with the stored grant.
\* (mailSendTransport.js, gmailApiSender.js)
LEMMA HeldStays == HeldIsStored /\ [Next]_vars => HeldIsStored'
<1>. SUFFICES ASSUME HeldIsStored, [Next]_vars PROVE HeldIsStored'
  OBVIOUS
<1>1. CASE SetUp \/ FallBack
  BY <1>1 DEF SetUp, FallBack, HeldIsStored
<1>2. CASE ApiRefresh \/ SmtpRefresh
  BY <1>2 DEF ApiRefresh, SmtpRefresh, Renewed, HeldAfterRefresh, HeldIsStored
<1>3. CASE Reconnect
  BY <1>3 DEF Reconnect, HeldIsStored
<1>4. CASE UNCHANGED <<grant, held, replaced>>
  BY <1>4 DEF HeldIsStored
<1>5. ASSUME AttemptStep \/ Again, ~(SetUp \/ FallBack), ~(ApiRefresh \/ SmtpRefresh)
      PROVE  UNCHANGED <<grant, held, replaced>>
  BY <1>5 DEF AttemptStep, ApiStep, SmtpStep, SetupFails, GrantRefused, ApiTakes, ApiRefuses,
         ApiRejectsToken, ApiUnreachable, ApiBreaks, RefreshFails, FlagAccount, FlagLost, FallbackFails,
         SmtpTakes, SmtpUnreachable, SmtpCloses, SmtpRefuses, SmtpRejectsLogin, Again, grants
<1>6. CASE UNCHANGED vars
  BY <1>4, <1>6 DEF vars
<1>. QED
  BY <1>1, <1>2, <1>3, <1>4, <1>5, <1>6 DEF Next

\* A letter that failed for its grant leaves the account flagged, unless the grant was replaced
\* meanwhile or the update failed. (mailSendTransport.js:112-114)
THEOREM DenialIsFlagged == Spec => DeniedGrantIsFlagged
<1>1. Init => HeldIsStored
  BY DEF Init, HeldIsStored
<1>2. HeldIsStored /\ [Next]_vars => [FlagAccount => flagged' \/ replaced]_vars
  BY DEF HeldIsStored, FlagAccount, FlagsGrant
<1>. QED
  BY <1>1, <1>2, HeldStays, PTL DEF Spec, DeniedGrantIsFlagged
================================================================================
