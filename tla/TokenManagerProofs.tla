--------------------------- MODULE TokenManagerProofs ---------------------------
(***************************************************************************)
(* The tokens of a mailbox: for every number of processes, callers, apps,  *)
(* consents and answers, the row holds one consent's tokens, a mailbox of  *)
(* a disabled app is flagged, nothing else flags one, a rejected token is  *)
(* not handed back, and no grant is left stranded.                         *)
(*                                                                         *)
(* Four invariants, each resting on those before it: every account that    *)
(* is read, stored or handed on is of one consent; an answer nobody stored *)
(* yet bears a number nobody holds; the flight of a caller whose token was *)
(* rejected ends with another token; and the lock, when no refresh         *)
(* outlives it, keeps the rotated refresh token from being lost.           *)
(***************************************************************************)
EXTENDS TokenManager, TLAPS

-------------------------------------------------------------------------------
(* Accounts of one consent *)

OfOneGrant(account) ==
  /\ account.access.grant = account.refresh.grant
  /\ \/ account.flow = trueFlow[account.refresh.grant]
     \/ provider = "microsoft" /\ account.flow = "confidential"

Sound(account) == account = NoAccount \/ OfOneGrant(account)

\* The answer of the provider goes on with the grant of the account that was refreshed.
Answer(f) ==
  /\ f.got.access \in Token
  /\ f.got.access.grant = f.account.refresh.grant
  /\ f.got.refresh \in {NoToken, f.got.access}
  /\ f.got.flow = IF provider = "microsoft" THEN trueFlow[f.got.access.grant] ELSE f.account.flow

SoundFlight(f) ==
  /\ Sound(f.account)
  /\ f.phase \in {"refreshing", "answered", "rejected", "appGone"} => f.account \in Account
  /\ f.phase = "answered" => Answer(f)
  /\ f.phase = "appGone" => provider = "google"
  /\ f.phase \in {"releasing", "settling"} => f.got \in Account \cup {NoAccount} /\ Sound(f.got)

SoundCall(call) ==
  /\ Sound(call.account)
  /\ call.state # "idle" => call.at \in Processes
  /\ call.state = "marking" => Refused(call.account.access)

\* A consent brings a grant of its own, or an access token of the grant that is stored.
SoundConsent ==
  consent # NoAccount =>
    /\ consent.access \in Token /\ consent.flow \in Flows
    /\ \/ consent.refresh = consent.access /\ consent.flow = trueFlow[consent.access.grant]
       \/ /\ consent.refresh = NoToken /\ provider = "google"
          /\ consent.access.grant = row.account.refresh.grant
          /\ consent.flow = row.account.flow

\* Only Google's apps can be disabled.
AppsInv == DisabledAppIsFlagged /\ (provider = "microsoft" => \A f \in Flows : apps[f] = "active")

SoundInv ==
  /\ TypeOK
  /\ TokensOfOneGrant
  /\ AppsInv
  /\ SoundConsent
  /\ \A p \in Processes : SoundFlight(flights[p])
  /\ \A c \in Callers : SoundCall(calls[c])

\* What no step changes.
Ground == provider' = provider /\ trueFlow' = trueFlow

\* The provider of a mailbox and the flows of its grants stay what they are.
LEMMA GroundStays == [Next]_vars => Ground
BY DEF Next, CallStep, Load, EnsureFresh, EnsureAgain, StopWaiting, UseAccepted, UseRefused, UseRefusedAgain,
       MarkAfterRefusal, FlightStep, AcquireLock, GiveUpLock, RereadRow, AppUnavailable, ProviderAnswers,
       ProviderRejects, ProviderFails, StoreTokens, StoreFails, ReadWinner, MarkReconnectRequired, ReleaseLock,
       Settle, Crash, LockExpires, Consent, ConsentWithoutRefreshToken, StoreConsent, DropConsent, RevokeGrant,
       SetGoogleAppStatus, DeleteRow, AccessAges, RefuseAccess, Ground, vars, providerVars

\* So the sets that depend on the provider are the same after a step.
LEMMA SameSets ==
  ASSUME Ground
  PROVE  /\ Flows' = Flows /\ Account' = Account /\ Flight' = Flight /\ Call' = Call /\ Got' = Got
         /\ StallsOutliveLock' = StallsOutliveLock
BY DEF Ground, Flows, Account, Flight, Call, Got, StallsOutliveLock

\* Being of one consent does not change either.
LEMMA SameSound ==
  ASSUME Ground
  PROVE  /\ \A a : Sound(a)' <=> Sound(a)
         /\ \A f : SoundFlight(f)' <=> SoundFlight(f)
<1>1. ASSUME NEW a PROVE Sound(a)' <=> Sound(a)
  BY DEF Ground, Sound, OfOneGrant
<1>2. ASSUME NEW f PROVE Answer(f)' <=> Answer(f)
  BY DEF Ground, Answer
<1>3. ASSUME NEW f PROVE SoundFlight(f)' <=> SoundFlight(f)
  <2>1. Sound(f.account)' <=> Sound(f.account)
    BY <1>1
  <2>2. Sound(f.got)' <=> Sound(f.got)
    BY <1>1
  <2>. QED
    BY <1>2, <2>1, <2>2, SameSets DEF SoundFlight, Ground
<1>. QED
  BY <1>1, <1>3

\* Numbers of tokens: an account bears positive ones, no account is none.
LEMMA Tokens ==
  /\ NoToken \notin Token
  /\ NoAccount \notin Account
  /\ Account \cup {NoAccount} \subseteq Got
  /\ \A t \in Token : t.n \in Nat /\ t.n >= 1 /\ t.grant \in Grants
  /\ \A a \in Got : /\ a.access \in Token \cup {NoToken} /\ a.refresh \in Token \cup {NoToken}
                    /\ a.access.n \in Nat /\ a.refresh.n \in Nat
<1>1. \A t \in Token : t.n \in Nat /\ t.n >= 1 /\ t.grant \in Grants
  BY BoundsAssumption DEF Token
<1>2. NoToken.n = 0
  BY DEF NoToken
<1>. QED
  BY <1>1, <1>2 DEF NoAccount, Account, Got

-------------------------------------------------------------------------------
(* One flight, one caller *)

\* The flight of p moves on with its account, and nothing happens to the others.
LEMMA MoveToFlight ==
  ASSUME TypeOK, NEW p \in Processes, NEW phase \in Phases, NEW got \in Got, MoveTo(p, phase, got)
  PROVE  /\ flights' \in [Processes -> Flight]
         /\ \A q \in Processes \ {p} : flights'[q] = flights[q]
         /\ flights'[p] = [flights[p] EXCEPT !.phase = phase, !.got = got]
<1>1. flights \in [Processes -> Flight]
  BY DEF TypeOK
<1>2. flights[p] \in Flight
  BY <1>1
<1>3. flights' = [flights EXCEPT ![p] = [flights[p] EXCEPT !.phase = phase, !.got = got]]
  BY <1>1, <1>2 DEF MoveTo, Flight
<1>4. [flights[p] EXCEPT !.phase = phase, !.got = got] \in Flight
  BY <1>2 DEF Flight, Got
<1>. QED
  BY <1>1, <1>3, <1>4

\* The flight of p is over, without its account, and nothing happens to the others.
LEMMA FinishFlight ==
  ASSUME TypeOK, NEW p \in Processes, NEW phase \in Phases, NEW got \in Got, Finish(p, phase, got)
  PROVE  /\ flights' \in [Processes -> Flight]
         /\ \A q \in Processes \ {p} : flights'[q] = flights[q]
         /\ flights'[p] = [phase |-> phase, force |-> flights[p].force, account |-> NoAccount, got |-> got]
BY DEF Finish, NoFlight, TypeOK, Flight, Got

\* The other flights stay sound.
LEMMA OneFlightSound ==
  ASSUME SoundInv, Ground, NEW p \in Processes, \A q \in Processes \ {p} : flights'[q] = flights[q],
         SoundFlight(flights'[p])
  PROVE  \A q \in Processes : SoundFlight(flights[q])'
<1>1. SUFFICES ASSUME NEW q \in Processes PROVE SoundFlight(flights'[q])
  BY SameSound
<1>. QED
  BY DEF SoundInv

\* A rejected token stays rejected, so the callers nothing happens to stay sound.
LEMMA CallsSound ==
  ASSUME SoundInv, Ground, calls' = calls, refused \subseteq refused', revoked \subseteq revoked'
  PROVE  \A c \in Callers : SoundCall(calls[c])'
BY SameSound DEF SoundInv, SoundCall, Refused

-------------------------------------------------------------------------------
(* Every step keeps accounts of one consent *)

\* The mailbox starts with the tokens of its first consent.
LEMMA InitSound == Init => SoundInv
<1>. SUFFICES ASSUME Init PROVE SoundInv
  OBVIOUS
<1>1. 1 \in Grants /\ 1 \in 1..MaxIssued /\ FirstToken \in Token
  BY BoundsAssumption DEF FirstToken, Grants, Token
<1>2. PICK f \in Flows : row = [there |-> TRUE, flagged |-> FALSE,
                                account |-> [access |-> FirstToken, refresh |-> FirstToken, flow |-> f]]
  BY DEF Init
<1>3. row \in [there: BOOLEAN, flagged: BOOLEAN, account: Account] /\ row.account.flow = f
  BY <1>1, <1>2 DEF Account
<1>4. NoFlight \in Flight /\ NoCall \in Call
  BY DEF NoFlight, Flight, Got, Phases, NoAccount, NoToken, NoCall, Call
<1>5. aged \in 0..MaxIssued /\ issued \in 1..MaxIssued /\ grants \in Grants /\ upsets \in 0..MaxUpsets
  BY <1>1, BoundsAssumption DEF Init
<1>6. TypeOK
  <2>1. /\ provider \in Providers /\ trueFlow \in [Grants -> Flows]
        /\ apps \in [Flows -> {"active", "disabled"}] /\ lock = NoProcess
        /\ flights \in [Processes -> Flight] /\ calls \in [Callers -> Call]
    BY <1>4 DEF Init
  <2>2. live \in SUBSET Token /\ refused \in SUBSET Token /\ revoked \in SUBSET Grants /\ lost \in SUBSET Grants
    BY <1>1 DEF Init
  <2>3. consent \in Got
    BY Tokens DEF Init
  <2>. QED
    BY <1>3, <1>5, <2>1, <2>2, <2>3 DEF TypeOK
<1>7. TokensOfOneGrant
  BY <1>2 DEF Init, TokensOfOneGrant, FirstToken
<1>8. AppsInv
  BY <1>3 DEF Init, AppsInv, DisabledAppIsFlagged
<1>9. \A p \in Processes : SoundFlight(flights[p])
  BY DEF Init, NoFlight, SoundFlight, Sound
<1>10. \A c \in Callers : SoundCall(calls[c])
  BY DEF Init, NoCall, SoundCall, Sound
<1>. QED
  BY <1>6, <1>7, <1>8, <1>9, <1>10 DEF Init, SoundInv, SoundConsent

\* What is typed besides the row, the apps, the flights, the callers and the consent.
RestTyped ==
  /\ lock \in Processes \cup {NoProcess}
  /\ live \in SUBSET Token /\ refused \in SUBSET Token
  /\ revoked \in SUBSET Grants /\ lost \in SUBSET Grants
  /\ aged \in 0..MaxIssued /\ issued \in 1..MaxIssued
  /\ grants \in Grants
  /\ upsets \in 0..MaxUpsets

\* Within its bound, what goes wrong is counted.
LEMMA UpsetTyped == ASSUME TypeOK, Upset \/ upsets' = upsets PROVE upsets' \in 0..MaxUpsets
BY BoundsAssumption DEF Upset, TypeOK

\* A step that leaves the account of the row, the apps and the consent alone keeps accounts sound
\* when it does so for the flights and the callers.
LEMMA SoundStep ==
  ASSUME SoundInv, Ground, RestTyped',
         row' \in [there: BOOLEAN, flagged: BOOLEAN, account: Account],
         row'.account = row.account, row'.there => row.there, row.flagged => row'.flagged,
         UNCHANGED <<apps, consent>>, refused \subseteq refused', revoked \subseteq revoked',
         flights' \in [Processes -> Flight], \A p \in Processes : SoundFlight(flights'[p]),
         calls' \in [Callers -> Call], \A c \in Callers : SoundCall(calls'[c])
  PROVE  SoundInv'
<1>1. TypeOK'
  BY SameSets DEF SoundInv, TypeOK, RestTyped, Ground
<1>2. \A p \in Processes : SoundFlight(flights[p])'
  BY SameSound
<1>3. \A c \in Callers : SoundCall(calls[c])'
  BY SameSound DEF SoundCall, Refused
<1>4. (TokensOfOneGrant /\ AppsInv /\ SoundConsent)'
  BY SameSets DEF SoundInv, TokensOfOneGrant, AppsInv, DisabledAppIsFlagged, SoundConsent, Ground
<1>. QED
  BY <1>1, <1>2, <1>3, <1>4 DEF SoundInv

\* A caller that goes on by itself.
LEMMA CallerSound ==
  ASSUME SoundInv, NEW c \in Callers,
         (\E p \in Processes : Load(c, p)) \/ StopWaiting(c) \/ UseAccepted(c) \/ UseRefusedAgain(c)
  PROVE  SoundInv'
<1>1. UNCHANGED <<provider, row, apps, lock, flights, consent, providerVars, lost>>
  BY DEF Load, StopWaiting, UseAccepted, UseRefusedAgain
<1>2. Ground /\ UNCHANGED <<live, refused, revoked, aged, issued, grants>>
  BY <1>1 DEF providerVars, Ground
<1>3. RestTyped'
  <2>1. upsets' \in 0..MaxUpsets
    BY UpsetTyped DEF Load, StopWaiting, UseAccepted, UseRefusedAgain, SoundInv
  <2>. QED
    BY <1>1, <1>2, <2>1 DEF RestTyped, SoundInv, TypeOK
<1>4. PICK k \in Call : calls' = [calls EXCEPT ![c] = k] /\ SoundCall(k)
  <2>1. CASE \E p \in Processes : Load(c, p)
    <3>1. PICK p \in Processes : Load(c, p)
      BY <2>1
    <3>2. row.account \in Account /\ Sound(row.account)
      BY DEF SoundInv, TypeOK, TokensOfOneGrant, Sound, OfOneGrant
    <3>. DEFINE k == [NoCall EXCEPT !.state = "loaded", !.at = p, !.account = row.account]
    <3>3. k \in Call /\ SoundCall(k)
      BY <3>2 DEF NoCall, Call, SoundCall
    <3>. QED
      BY <3>1, <3>3 DEF Load
  <2>2. CASE StopWaiting(c) \/ UseAccepted(c) \/ calls' = [calls EXCEPT ![c] = NoCall]
    <3>1. NoCall \in Call /\ SoundCall(NoCall)
      BY DEF NoCall, Call, SoundCall, Sound
    <3>. QED
      BY <2>2, <3>1 DEF StopWaiting, UseAccepted
  <2>3. CASE UseRefusedAgain(c) /\ calls' # [calls EXCEPT ![c] = NoCall]
    <3>. DEFINE k == [calls[c] EXCEPT !.state = "marking"]
    <3>1. calls[c] \in Call /\ SoundCall(calls[c])
      BY DEF SoundInv, TypeOK
    <3>2. calls[c].state = "ready" /\ Refused(calls[c].account.access) /\ calls' = [calls EXCEPT ![c] = k]
      BY <2>3 DEF UseRefusedAgain, SoundInv, TypeOK
    <3>3. k \in Call /\ SoundCall(k)
      BY <3>1, <3>2 DEF Call, SoundCall
    <3>. QED
      BY <3>2, <3>3
  <2>. QED
    BY <2>1, <2>2, <2>3
<1>5. calls' \in [Callers -> Call] /\ \A d \in Callers : SoundCall(calls'[d])
  BY <1>4 DEF SoundInv, TypeOK
<1>. QED
  BY <1>1, <1>2, <1>3, <1>5, SoundStep DEF SoundInv, TypeOK

\* What ensureFreshOAuthAccount makes of a caller and of the flights of its process.
LEMMA EnsureSound ==
  ASSUME SoundInv, NEW c \in Callers, NEW call \in Call, SoundCall(call), call.at \in Processes,
         NEW force \in BOOLEAN, Ensure(c, call, force)
  PROVE  /\ calls' \in [Callers -> Call] /\ \A d \in Callers : SoundCall(calls'[d])
         /\ flights' \in [Processes -> Flight] /\ \A p \in Processes : SoundFlight(flights'[p])
<1>. USE DEF SoundInv, TypeOK
<1>1. PICK k \in Call : calls' = [calls EXCEPT ![c] = k] /\ SoundCall(k)
  <2>1. CASE calls' = [calls EXCEPT ![c] = [call EXCEPT !.state = "ready"]]
    <3>1. [call EXCEPT !.state = "ready"] \in Call /\ SoundCall([call EXCEPT !.state = "ready"])
      BY DEF Call, SoundCall
    <3>. QED
      BY <2>1, <3>1
  <2>2. CASE \E checks, joined \in BOOLEAN :
               calls' = [calls EXCEPT ![c] = [call EXCEPT !.state = "waiting", !.checks = checks,
                                                          !.joinedForced = joined]]
    <3>1. PICK checks \in BOOLEAN, joined \in BOOLEAN :
               calls' = [calls EXCEPT ![c] = [call EXCEPT !.state = "waiting", !.checks = checks,
                                                          !.joinedForced = joined]]
      BY <2>2
    <3>. DEFINE k == [call EXCEPT !.state = "waiting", !.checks = checks, !.joinedForced = joined]
    <3>2. k \in Call /\ SoundCall(k)
      BY DEF Call, SoundCall
    <3>. QED
      BY <3>1, <3>2
  <2>3. ASSUME flights[call.at].phase # "none",
               calls' = [calls EXCEPT ![c] =
                  [[call EXCEPT !.state = "waiting", !.checks = FALSE, !.joinedForced = FALSE]
                     EXCEPT !.checks = ~TakesItAsItIs(force, flights[call.at]),
                            !.joinedForced = force /\ flights[call.at].force]]
        PROVE  \E checks, joined \in BOOLEAN :
               calls' = [calls EXCEPT ![c] = [call EXCEPT !.state = "waiting", !.checks = checks,
                                                          !.joinedForced = joined]]
    <3>. DEFINE checks == ~TakesItAsItIs(force, flights[call.at])
                joined == force /\ flights[call.at].force
    <3>1. checks \in BOOLEAN /\ joined \in BOOLEAN
      BY DEF TakesItAsItIs
    <3>2. [[call EXCEPT !.state = "waiting", !.checks = FALSE, !.joinedForced = FALSE]
             EXCEPT !.checks = checks, !.joinedForced = joined]
          = [call EXCEPT !.state = "waiting", !.checks = checks, !.joinedForced = joined]
      BY DEF Call
    <3>3. calls' = [calls EXCEPT ![c] = [call EXCEPT !.state = "waiting", !.checks = checks,
                                                     !.joinedForced = joined]]
      BY <2>3, <3>2
    <3>. HIDE DEF checks, joined
    <3>. QED
      BY <3>1, <3>3
  <2>. QED
    BY <2>1, <2>2, <2>3 DEF Ensure
<1>2. \/ flights' = flights
      \/ \E f \in Flight : SoundFlight(f) /\ flights' = [flights EXCEPT ![call.at] = f]
  <2>. DEFINE f == [NoFlight EXCEPT !.phase = "locking", !.force = force, !.account = call.account]
  <2>1. f \in Flight /\ SoundFlight(f)
    BY DEF NoFlight, Flight, Got, Phases, Call, NoAccount, NoToken, SoundFlight, SoundCall
  <2>. QED
    BY <2>1 DEF Ensure
<1>. QED
  BY <1>1, <1>2

\* A caller that asks for a fresh token.
LEMMA EnsuringSound ==
  ASSUME SoundInv, NEW c \in Callers, EnsureFresh(c) \/ EnsureAgain(c) \/ UseRefused(c)
  PROVE  SoundInv'
<1>1. /\ UNCHANGED <<provider, row, apps, lock, consent, live, refused, revoked, aged, issued, grants, upsets, lost>>
      /\ Ground
  BY DEF EnsureFresh, EnsureAgain, UseRefused, providerVars, Ground
<1>2. calls[c] \in Call /\ SoundCall(calls[c]) /\ calls[c].state # "idle"
  BY DEF SoundInv, TypeOK, EnsureFresh, EnsureAgain, UseRefused
<1>3. PICK call \in Call, force \in BOOLEAN :
        Ensure(c, call, force) /\ SoundCall(call) /\ call.at \in Processes
  <2>1. CASE EnsureFresh(c) \/ EnsureAgain(c)
    BY <1>2, <2>1 DEF EnsureFresh, EnsureAgain, SoundCall
  <2>2. CASE UseRefused(c)
    <3>. DEFINE call == [calls[c] EXCEPT !.rejected = calls[c].account.access]
    <3>1. calls[c].account \in Got
      BY <1>2, Tokens DEF Call
    <3>2. call \in Call /\ SoundCall(call) /\ call.at \in Processes
      BY <1>2, <3>1 DEF Call, Got, SoundCall
    <3>. HIDE DEF call
    <3>. QED
      BY <2>2, <3>2 DEF UseRefused, call
  <2>. QED
    BY <2>1, <2>2
<1>4. /\ calls' \in [Callers -> Call] /\ \A d \in Callers : SoundCall(calls'[d])
      /\ flights' \in [Processes -> Flight] /\ \A p \in Processes : SoundFlight(flights'[p])
  BY <1>3, EnsureSound
<1>5. RestTyped'
  BY <1>1 DEF RestTyped, SoundInv, TypeOK
<1>. QED
  BY <1>1, <1>4, <1>5, SoundStep DEF SoundInv, TypeOK

\* A caller that flags the mailbox, the mailbox's deletion, and what happens at the provider or to
\* the lock.
LEMMA OutsideSound ==
  ASSUME SoundInv,
         (\E c \in Callers : MarkAfterRefusal(c)) \/ LockExpires \/ (\E g \in Grants : RevokeGrant(g))
           \/ DeleteRow \/ AccessAges \/ RefuseAccess
  PROVE  SoundInv'
<1>1. Ground /\ UNCHANGED <<apps, flights, consent>>
  BY DEF MarkAfterRefusal, LockExpires, RevokeGrant, DeleteRow, AccessAges, RefuseAccess, providerVars, Ground
<1>2. refused \subseteq refused' /\ revoked \subseteq revoked'
  BY DEF MarkAfterRefusal, LockExpires, RevokeGrant, DeleteRow, AccessAges, RefuseAccess, providerVars
<1>3. /\ row' \in [there: BOOLEAN, flagged: BOOLEAN, account: Account]
      /\ row'.account = row.account /\ (row'.there => row.there) /\ (row.flagged => row'.flagged)
  BY DEF MarkAfterRefusal, LockExpires, RevokeGrant, DeleteRow, AccessAges, RefuseAccess, SoundInv, TypeOK
<1>4. calls' \in [Callers -> Call] /\ \A c \in Callers : SoundCall(calls'[c])
  <2>1. NoCall \in Call /\ SoundCall(NoCall)
    BY DEF NoCall, Call, SoundCall, Sound
  <2>2. calls' = calls \/ \E c \in Callers : calls' = [calls EXCEPT ![c] = NoCall]
    BY DEF MarkAfterRefusal, LockExpires, RevokeGrant, DeleteRow, AccessAges, RefuseAccess
  <2>. QED
    BY <2>1, <2>2 DEF SoundInv, TypeOK
<1>5. RestTyped'
  <2>1. upsets' \in 0..MaxUpsets
    BY UpsetTyped DEF MarkAfterRefusal, LockExpires, RevokeGrant, DeleteRow, AccessAges, RefuseAccess, SoundInv
  <2>2. lock' \in Processes \cup {NoProcess} /\ UNCHANGED <<issued, grants, lost>>
    BY DEF MarkAfterRefusal, LockExpires, RevokeGrant, DeleteRow, AccessAges, RefuseAccess, SoundInv, TypeOK,
           providerVars
  <2>3. live' \in SUBSET Token /\ revoked' \in SUBSET Grants
    BY DEF MarkAfterRefusal, LockExpires, RevokeGrant, DeleteRow, AccessAges, RefuseAccess, SoundInv, TypeOK,
           providerVars
  <2>4. aged' \in 0..MaxIssued
    <3>1. CASE AccessAges
      <4>1. row.account.access.n \in 1..MaxIssued
        BY DEF SoundInv, TypeOK, Account, Token
      <4>. QED
        BY <3>1, <4>1, BoundsAssumption DEF AccessAges
    <3>. QED
      BY <3>1 DEF MarkAfterRefusal, LockExpires, RevokeGrant, DeleteRow, RefuseAccess, SoundInv, TypeOK,
                  providerVars
  <2>5. refused' \in SUBSET Token
    <3>1. CASE RefuseAccess
      <4>1. PICK token \in {row.account.access} \cup {calls[c].account.access : c \in Callers} :
              token # NoToken /\ refused' = refused \cup {token}
        BY <3>1 DEF RefuseAccess
      <4>2. row.account \in Got /\ \A c \in Callers : calls[c].account \in Got
        BY Tokens DEF SoundInv, TypeOK, Call
      <4>3. token \in Token
        BY <4>1, <4>2 DEF Got
      <4>. QED
        BY <4>1, <4>3 DEF SoundInv, TypeOK
    <3>. QED
      BY <3>1 DEF MarkAfterRefusal, LockExpires, RevokeGrant, DeleteRow, AccessAges, SoundInv, TypeOK,
                  providerVars
  <2>. QED
    BY <2>1, <2>2, <2>3, <2>4, <2>5 DEF RestTyped, SoundInv, TypeOK
<1>6. flights' \in [Processes -> Flight] /\ \A p \in Processes : SoundFlight(flights'[p])
  BY <1>1 DEF SoundInv, TypeOK
<1>. QED
  BY <1>1, <1>2, <1>3, <1>4, <1>5, <1>6, SoundStep

\* Disabling an app flags the mailbox that is bound to it.
LEMMA AppStatusSound ==
  ASSUME SoundInv, NEW f \in Flows, NEW status \in {"active", "disabled"}, SetGoogleAppStatus(f, status)
  PROVE  SoundInv'
<1>1. /\ Ground /\ UNCHANGED <<lock, flights, calls, consent, live, refused, revoked, aged, issued, grants, lost>>
      /\ provider = "google" /\ apps' = [apps EXCEPT ![f] = status] /\ upsets' \in 0..MaxUpsets
  BY UpsetTyped DEF SetGoogleAppStatus, providerVars, Ground, SoundInv
<1>2. /\ row' \in [there: BOOLEAN, flagged: BOOLEAN, account: Account]
      /\ row'.account = row.account /\ row'.there = row.there
      /\ row'.flagged = (row.flagged \/ (row.there /\ status = "disabled" /\ row.account.flow = f))
  BY DEF SetGoogleAppStatus, SoundInv, TypeOK
<1>3. TypeOK'
  BY <1>1, <1>2, SameSets DEF SoundInv, TypeOK, Ground
<1>4. \A p \in Processes : SoundFlight(flights[p])'
  BY <1>1, SameSound DEF SoundInv
<1>5. \A c \in Callers : SoundCall(calls[c])'
  BY <1>1, CallsSound
<1>6. TokensOfOneGrant' /\ SoundConsent'
  BY <1>1, <1>2, SameSets DEF SoundInv, TokensOfOneGrant, SoundConsent, Ground
<1>7. AppsInv'
  BY <1>1, <1>2 DEF SoundInv, TypeOK, AppsInv, DisabledAppIsFlagged, Ground
<1>. QED
  BY <1>3, <1>4, <1>5, <1>6, <1>7 DEF SoundInv

\* A flight settles with an account its callers may take, or is gone with its process.
LEMMA SettleSound ==
  ASSUME SoundInv, NEW p \in Processes, Settle(p) \/ Crash(p)
  PROVE  SoundInv'
<1>1. Ground /\ UNCHANGED <<row, apps, consent, live, refused, revoked, aged, issued, grants, lock>>
  BY DEF Settle, Crash, providerVars, Ground
<1>2. flights' = [flights EXCEPT ![p] = NoFlight]
  BY DEF Settle, Crash
<1>3. NoFlight \in Flight /\ SoundFlight(NoFlight)
  BY DEF NoFlight, Flight, Got, Phases, NoAccount, NoToken, SoundFlight, Sound
<1>4. flights' \in [Processes -> Flight] /\ \A q \in Processes : SoundFlight(flights'[q])
  BY <1>2, <1>3 DEF SoundInv, TypeOK
<1>5. NoCall \in Call /\ SoundCall(NoCall)
  BY DEF NoCall, Call, SoundCall, Sound
<1>6. calls' \in [Callers -> Call] /\ \A c \in Callers : SoundCall(calls'[c])
  <2>1. CASE Crash(p)
    BY <1>5, <2>1 DEF Crash, SoundInv, TypeOK
  <2>2. CASE Settle(p)
    <3>1. flights[p].got \in Account \cup {NoAccount} /\ Sound(flights[p].got)
      BY <2>2 DEF Settle, SoundInv, SoundFlight
    <3>2. ASSUME NEW c \in Callers, calls[c].state = "waiting"
          PROVE  Answered(calls[c], flights[p].got) \in Call /\ SoundCall(Answered(calls[c], flights[p].got))
      <4>1. calls[c] \in Call /\ SoundCall(calls[c])
        BY DEF SoundInv, TypeOK
      <4>2. CASE Answered(calls[c], flights[p].got) = NoCall
        BY <1>5, <4>2
      <4>3. CASE Answered(calls[c], flights[p].got) = [calls[c] EXCEPT !.state = "again"]
        BY <3>2, <4>1, <4>3 DEF Call, SoundCall
      <4>4. CASE Answered(calls[c], flights[p].got)
                  = [calls[c] EXCEPT !.state = "ready", !.account = flights[p].got, !.checks = FALSE]
        BY <3>1, <3>2, <4>1, <4>4 DEF Call, SoundCall
      <4>. QED
        BY <4>2, <4>3, <4>4 DEF Answered
    <3>3. \A c \in Callers : calls[c] \in Call /\ SoundCall(calls[c])
      BY DEF SoundInv, TypeOK
    <3>. QED
      BY <2>2, <3>2, <3>3 DEF Settle
  <2>. QED
    BY <2>1, <2>2
<1>7. RestTyped'
  <2>1. upsets' \in 0..MaxUpsets
    BY UpsetTyped DEF Settle, Crash, SoundInv
  <2>2. lost' \in SUBSET Grants
    <3>1. CASE flights[p].phase = "answered" /\ flights[p].got.refresh # NoToken
      <4>1. flights[p].got.refresh \in Token
        BY <3>1 DEF SoundInv, SoundFlight, Answer
      <4>. QED
        BY <4>1, Tokens DEF Settle, Crash, SoundInv, TypeOK
    <3>. QED
      BY <3>1 DEF Settle, Crash, SoundInv, TypeOK
  <2>. QED
    BY <1>1, <2>1, <2>2 DEF RestTyped, SoundInv, TypeOK
<1>. QED
  BY <1>1, <1>4, <1>6, <1>7, SoundStep DEF SoundInv, TypeOK

\* What a flight does before it stores anything.
FlightAlone(p) ==
  \/ AcquireLock(p) \/ GiveUpLock(p) \/ RereadRow(p) \/ AppUnavailable(p) \/ ProviderRejects(p)
  \/ ProviderFails(p) \/ StoreFails(p) \/ ReadWinner(p) \/ MarkReconnectRequired(p) \/ ReleaseLock(p)

\* A flight refreshes the account of the row, and ends with it, with an answer or with none.
LEMMA FlightAloneSound ==
  ASSUME SoundInv, NEW p \in Processes, FlightAlone(p)
  PROVE  SoundInv'
<1>. USE DEF FlightAlone
<1>1. Ground /\ UNCHANGED <<apps, calls, consent, live, refused, revoked, aged, issued, grants>>
  BY DEF AcquireLock, GiveUpLock, RereadRow, AppUnavailable, ProviderRejects, ProviderFails, StoreFails,
         ReadWinner, MarkReconnectRequired, ReleaseLock, providerVars, Ground
<1>2. /\ row' \in [there: BOOLEAN, flagged: BOOLEAN, account: Account]
      /\ row'.account = row.account /\ (row'.there => row.there) /\ (row.flagged => row'.flagged)
  BY DEF AcquireLock, GiveUpLock, RereadRow, AppUnavailable, ProviderRejects, ProviderFails, StoreFails,
         ReadWinner, MarkReconnectRequired, ReleaseLock, SoundInv, TypeOK
<1>3. NoAccount \in Got /\ row.account \in Account /\ row.account \in Got /\ Sound(row.account) /\ Sound(NoAccount)
  BY Tokens DEF SoundInv, TypeOK, TokensOfOneGrant, Sound, OfOneGrant
<1>4. flights[p] \in Flight /\ SoundFlight(flights[p]) /\ flights[p].got \in Got
  <2>1. flights[p] \in Flight
    BY DEF SoundInv, TypeOK
  <2>. QED
    BY <2>1 DEF SoundInv, Flight, Got
<1>5. ASSUME NEW phase \in {"releasing", "settling"}, NEW got \in Account \cup {NoAccount}, Sound(got),
             Finish(p, phase, got)
      PROVE  flights' \in [Processes -> Flight] /\ \A q \in Processes : SoundFlight(flights'[q])
  <2>1. got \in Got /\ phase \in Phases
    BY <1>5, Tokens DEF Phases
  <2>2. /\ flights' \in [Processes -> Flight]
        /\ \A q \in Processes \ {p} : flights'[q] = flights[q]
        /\ flights'[p] = [phase |-> phase, force |-> flights[p].force, account |-> NoAccount, got |-> got]
    BY <1>5, <2>1, FinishFlight DEF SoundInv
  <2>3. SoundFlight(flights'[p])
    BY <1>3, <1>5, <2>2 DEF SoundFlight
  <2>. QED
    BY <2>2, <2>3 DEF SoundInv
<1>6. ASSUME NEW phase \in {"locked", "appGone", "rejected"}, MoveTo(p, phase, NoAccount),
             phase \in {"appGone", "rejected"} => flights[p].phase = "refreshing",
             phase = "appGone" => provider = "google"
      PROVE  flights' \in [Processes -> Flight] /\ \A q \in Processes : SoundFlight(flights'[q])
  <2>1. phase \in Phases
    BY DEF Phases
  <2>2. /\ flights' \in [Processes -> Flight]
        /\ \A q \in Processes \ {p} : flights'[q] = flights[q]
        /\ flights'[p] = [flights[p] EXCEPT !.phase = phase, !.got = NoAccount]
    BY <1>3, <1>6, <2>1, MoveToFlight DEF SoundInv
  <2>3. SoundFlight(flights'[p])
    BY <1>4, <1>6, <2>2 DEF SoundFlight, Flight
  <2>. QED
    BY <2>2, <2>3 DEF SoundInv
<1>7. flights' \in [Processes -> Flight] /\ \A q \in Processes : SoundFlight(flights'[q])
  <2>1. CASE AcquireLock(p)
    BY <1>3, <1>5, <1>6, <2>1 DEF AcquireLock
  <2>2. CASE RereadRow(p) /\ flights' = [flights EXCEPT ![p].phase = "refreshing", ![p].account = ToRefresh(flights[p])]
    <3>1. flights' = [flights EXCEPT ![p] = [flights[p] EXCEPT !.phase = "refreshing", !.account = row.account]]
      BY <1>4, <2>2 DEF ToRefresh, SoundInv, TypeOK, Flight
    <3>. DEFINE f == [flights[p] EXCEPT !.phase = "refreshing", !.account = row.account]
    <3>2. f \in Flight /\ SoundFlight(f)
      BY <1>3, <1>4 DEF Flight, Phases, SoundFlight
    <3>. HIDE DEF f
    <3>3. flights' = [flights EXCEPT ![p] = f]
      BY <3>1 DEF f
    <3>. QED
      BY <3>2, <3>3 DEF SoundInv, TypeOK
  <2>3. CASE RereadRow(p) /\ ~(flights' = [flights EXCEPT ![p].phase = "refreshing", ![p].account = ToRefresh(flights[p])])
    BY <1>3, <1>5, <2>3 DEF RereadRow
  <2>4. CASE AppUnavailable(p)
    BY <1>6, <2>4 DEF AppUnavailable
  <2>5. CASE ProviderRejects(p)
    BY <1>6, <2>5 DEF ProviderRejects, MayCall
  <2>6. CASE GiveUpLock(p) \/ ProviderFails(p) \/ StoreFails(p) \/ MarkReconnectRequired(p)
    BY <1>3, <1>5, <2>6 DEF GiveUpLock, ProviderFails, StoreFails, MarkReconnectRequired
  <2>7. CASE ReadWinner(p)
    <3>. DEFINE got == IF row.there THEN row.account ELSE NoAccount
    <3>1. got \in Account \cup {NoAccount} /\ Sound(got)
      BY <1>3
    <3>2. Finish(p, "releasing", got)
      BY <2>7 DEF ReadWinner
    <3>. HIDE DEF got
    <3>. QED
      BY <1>5, <3>1, <3>2
  <2>8. CASE ReleaseLock(p)
    <3>1. flights[p].got \in Account \cup {NoAccount} /\ Sound(flights[p].got)
      BY <1>4, <2>8 DEF ReleaseLock, SoundFlight
    <3>. QED
      BY <1>5, <2>8, <3>1 DEF ReleaseLock
  <2>. QED
    BY <2>1, <2>2, <2>3, <2>4, <2>5, <2>6, <2>7, <2>8
<1>8. RestTyped'
  <2>1. upsets' \in 0..MaxUpsets
    BY UpsetTyped DEF AcquireLock, GiveUpLock, RereadRow, AppUnavailable, ProviderRejects, ProviderFails,
           StoreFails, ReadWinner, MarkReconnectRequired, ReleaseLock, SoundInv
  <2>2. lock' \in Processes \cup {NoProcess}
    BY DEF AcquireLock, GiveUpLock, RereadRow, AppUnavailable, ProviderRejects, ProviderFails,
           StoreFails, ReadWinner, MarkReconnectRequired, ReleaseLock, SoundInv, TypeOK
  <2>3. lost' \in SUBSET Grants
    <3>1. CASE StoreFails(p) /\ flights[p].got.refresh # NoToken
      <4>1. flights[p].got.refresh \in Token
        BY <3>1, <1>4 DEF StoreFails, SoundFlight, Answer
      <4>. QED
        BY <3>1, <4>1, Tokens DEF StoreFails, SoundInv, TypeOK
    <3>. QED
      BY <3>1 DEF AcquireLock, GiveUpLock, RereadRow, AppUnavailable, ProviderRejects, ProviderFails,
           StoreFails, ReadWinner, MarkReconnectRequired, ReleaseLock, SoundInv, TypeOK
  <2>. QED
    BY <1>1, <2>1, <2>2, <2>3 DEF RestTyped, SoundInv, TypeOK
<1>9. calls' \in [Callers -> Call] /\ \A c \in Callers : SoundCall(calls'[c])
  BY <1>1 DEF SoundInv, TypeOK
<1>. QED
  BY <1>1, <1>2, <1>7, <1>8, <1>9, SoundStep

\* The next answer's token.
NextToken(grant) == [n |-> issued + 1, grant |-> grant]

\* It is one as long as the bound allows an answer.
LEMMA NextTokenTyped ==
  ASSUME TypeOK, issued < MaxIssued, NEW grant \in Grants
  PROVE  NextToken(grant) \in Token /\ NextToken(grant) # NoToken /\ issued + 1 \in 1..MaxIssued
<1>1. issued + 1 \in 1..MaxIssued
  BY BoundsAssumption DEF TypeOK
<1>. QED
  BY <1>1, Tokens DEF NextToken, Token

\* An answer goes on with the grant of the account that was refreshed.
LEMMA AnswersSound ==
  ASSUME SoundInv, NEW p \in Processes, ProviderAnswers(p)
  PROVE  SoundInv'
<1>1. Ground /\ UNCHANGED <<row, apps, calls, consent, refused, revoked, aged, grants, lock>>
  BY DEF ProviderAnswers, Ground
<1>2. flights[p] \in Flight /\ SoundFlight(flights[p]) /\ flights[p].account \in Account
  BY DEF ProviderAnswers, MayCall, SoundInv, TypeOK, SoundFlight
<1>. DEFINE account == flights[p].account
            token == NextToken(account.refresh.grant)
<1>3. account.refresh \in Token /\ account.refresh.grant \in Grants /\ account.flow \in Flows
  BY <1>2 DEF Account, Token
<1>4. token \in Token /\ token # NoToken /\ issued' \in 1..MaxIssued
  <2>1. issued < MaxIssued /\ issued' = issued + 1
    BY DEF ProviderAnswers
  <2>. QED
    BY <1>3, <2>1, NextTokenTyped DEF SoundInv
<1>5. PICK rotates \in BOOLEAN :
        /\ live' = IF rotates THEN (live \ {account.refresh}) \cup {token} ELSE live
        /\ \/ /\ MoveTo(p, "answered",
                   [access |-> token, refresh |-> IF rotates THEN token ELSE NoToken,
                    flow |-> IF provider = "microsoft" THEN trueFlow[token.grant] ELSE account.flow])
              /\ UNCHANGED <<upsets, lost>>
           \/ /\ Upset
              /\ Finish(p, "releasing", NoAccount)
              /\ lost' = IF rotates THEN lost \cup {token.grant} ELSE lost
  BY DEF ProviderAnswers, NextToken
<1>6. token.grant = account.refresh.grant
  BY DEF NextToken
<1>. HIDE DEF token
<1>7. flights' \in [Processes -> Flight] /\ \A q \in Processes : SoundFlight(flights'[q])
  <2>. DEFINE got == [access |-> token, refresh |-> IF rotates THEN token ELSE NoToken,
                      flow |-> IF provider = "microsoft" THEN trueFlow[token.grant] ELSE account.flow]
  <2>1. CASE MoveTo(p, "answered", got)
    <3>1. got \in Got
      <4>1. provider = "microsoft" => trueFlow[token.grant] \in Flows
        BY <1>3, <1>6 DEF SoundInv, TypeOK
      <4>. QED
        BY <1>3, <1>4, <4>1 DEF Got
    <3>2. "answered" \in Phases
      BY DEF Phases
    <3>3. /\ flights' \in [Processes -> Flight]
          /\ \A q \in Processes \ {p} : flights'[q] = flights[q]
          /\ flights'[p] = [flights[p] EXCEPT !.phase = "answered", !.got = got]
      <4>. HIDE DEF got
      <4>. QED
        BY <2>1, <3>1, <3>2, MoveToFlight DEF SoundInv
    <3>4. /\ flights'[p].phase = "answered" /\ flights'[p].account = account
          /\ flights'[p].got = got
      BY <1>2, <3>3 DEF Flight
    <3>5. Answer(flights'[p])
      BY <1>4, <1>6, <3>4 DEF Answer
    <3>6. SoundFlight(flights'[p])
      BY <1>2, <3>4, <3>5 DEF SoundFlight
    <3>. QED
      BY <3>3, <3>6 DEF SoundInv
  <2>2. CASE Finish(p, "releasing", NoAccount)
    <3>1. NoAccount \in Got /\ "releasing" \in Phases
      BY Tokens DEF Phases
    <3>2. /\ flights' \in [Processes -> Flight]
          /\ \A q \in Processes \ {p} : flights'[q] = flights[q]
          /\ flights'[p] = [phase |-> "releasing", force |-> flights[p].force, account |-> NoAccount, got |-> NoAccount]
      BY <2>2, <3>1, FinishFlight DEF SoundInv
    <3>3. SoundFlight(flights'[p])
      BY <3>2 DEF SoundFlight, Sound
    <3>. QED
      BY <3>2, <3>3 DEF SoundInv
  <2>. QED
    BY <1>5, <2>1, <2>2
<1>8. RestTyped'
  <2>1. upsets' \in 0..MaxUpsets
    BY <1>5, UpsetTyped DEF SoundInv
  <2>2. live' \in SUBSET Token
    BY <1>4, <1>5 DEF SoundInv, TypeOK
  <2>3. lost' \in SUBSET Grants
    BY <1>3, <1>5, <1>6 DEF SoundInv, TypeOK
  <2>. QED
    BY <1>1, <1>4, <2>1, <2>2, <2>3 DEF RestTyped, SoundInv, TypeOK
<1>. QED
  BY <1>1, <1>7, <1>8, SoundStep DEF SoundInv, TypeOK

\* What is stored is of the grant that is stored, and a lost race stores nothing.
LEMMA StoresSound ==
  ASSUME SoundInv, NEW p \in Processes, StoreTokens(p)
  PROVE  SoundInv'
<1>1. Ground /\ UNCHANGED <<apps, calls, consent, lock, upsets, lost, live, refused, revoked, aged, issued, grants>>
  BY DEF StoreTokens, Ground, providerVars
<1>2. RestTyped'
  BY <1>1 DEF RestTyped, SoundInv, TypeOK
<1>3. calls' \in [Callers -> Call] /\ \A c \in Callers : SoundCall(calls'[c])
  BY <1>1 DEF SoundInv, TypeOK
<1>4. flights[p] \in Flight /\ SoundFlight(flights[p]) /\ flights[p].phase = "answered"
  BY DEF StoreTokens, SoundInv, TypeOK
<1>5. CASE ~StillStored(flights[p].account)
  <2>1. NoAccount \in Got /\ "lostRace" \in Phases
    BY Tokens DEF Phases
  <2>2. /\ flights' \in [Processes -> Flight]
        /\ \A q \in Processes \ {p} : flights'[q] = flights[q]
        /\ flights'[p] = [flights[p] EXCEPT !.phase = "lostRace", !.got = NoAccount]
    BY <1>5, <2>1, MoveToFlight DEF SoundInv, StoreTokens
  <2>3. SoundFlight(flights'[p])
    BY <1>4, <2>2 DEF SoundFlight, Flight
  <2>4. row' = row
    BY <1>5 DEF StoreTokens
  <2>. QED
    BY <1>1, <1>2, <1>3, <2>2, <2>3, <2>4, SoundStep DEF SoundInv, TypeOK
<1>6. CASE StillStored(flights[p].account)
  <2>. DEFINE got == flights[p].got
              account == flights[p].account
              fresh == [got EXCEPT !.refresh = KeptRefresh(@, account.refresh)]
  <2>1. /\ Answer(flights[p]) /\ account \in Account /\ Sound(account)
        /\ got \in Got
    BY <1>4 DEF SoundFlight, Flight, Got
  <2>2. row.account.refresh = account.refresh /\ row.account.flow = account.flow /\ row.there
    BY <1>6 DEF StillStored
  <2>3. /\ account.refresh \in Token /\ account.flow \in Flows
        /\ got.access \in Token /\ got.access.grant = account.refresh.grant
    BY <2>1 DEF Answer, Account
  <2>4. OfOneGrant(account)
    BY <2>1, Tokens DEF Sound
  <2>5. got.flow \in Flows /\ (provider = "google" => got.flow = account.flow)
    <3>1. got.access.grant \in Grants
      BY <2>3 DEF Token
    <3>. QED
      BY <2>1, <2>3, <3>1, ProviderAssumption DEF Answer, SoundInv, TypeOK
  <2>6. /\ fresh = [access |-> got.access, refresh |-> KeptRefresh(got.refresh, account.refresh), flow |-> got.flow]
        /\ KeptRefresh(got.refresh, account.refresh) \in {account.refresh, got.access}
    BY <2>1, Tokens DEF Got, KeptRefresh, Answer
  <2>7. fresh \in Account
    BY <2>3, <2>5, <2>6 DEF Account
  <2>8. OfOneGrant(fresh)
    <3>1. fresh.access.grant = account.refresh.grant /\ fresh.refresh.grant = account.refresh.grant
      BY <2>3, <2>6
    <3>2. fresh.flow = IF provider = "microsoft" THEN trueFlow[account.refresh.grant] ELSE account.flow
      BY <2>1, <2>3, <2>6 DEF Answer
    <3>. QED
      BY <2>4, <3>1, <3>2 DEF OfOneGrant
  <2>9. row' = [row EXCEPT !.account = fresh] /\ Finish(p, "releasing", fresh)
    BY <1>6, <2>2, <2>6 DEF StoreTokens
  <2>10. row' \in [there: BOOLEAN, flagged: BOOLEAN, account: Account]
         /\ row'.account = fresh /\ row'.there = row.there /\ row'.flagged = row.flagged
    BY <2>7, <2>9 DEF SoundInv, TypeOK
  <2>. HIDE DEF fresh
  <2>11. flights' \in [Processes -> Flight] /\ \A q \in Processes : SoundFlight(flights'[q])
    <3>1. fresh \in Got /\ "releasing" \in Phases
      BY <2>7, Tokens DEF Phases
    <3>2. /\ flights' \in [Processes -> Flight]
          /\ \A q \in Processes \ {p} : flights'[q] = flights[q]
          /\ flights'[p] = [phase |-> "releasing", force |-> flights[p].force, account |-> NoAccount, got |-> fresh]
      BY <2>9, <3>1, FinishFlight DEF SoundInv
    <3>3. SoundFlight(flights'[p])
      BY <2>7, <2>8, <3>2 DEF SoundFlight, Sound
    <3>. QED
      BY <3>2, <3>3 DEF SoundInv
  <2>12. TypeOK'
    BY <1>1, <1>2, <1>3, <2>10, <2>11, SameSets DEF SoundInv, TypeOK, RestTyped, Ground
  <2>13. (\A q \in Processes : SoundFlight(flights[q])') /\ (\A c \in Callers : SoundCall(calls[c])')
    BY <1>1, <2>11, SameSound, CallsSound
  <2>14. TokensOfOneGrant'
    BY <1>1, <2>8, <2>10 DEF TokensOfOneGrant, OfOneGrant, Ground
  <2>15. fresh.refresh.grant = row.account.refresh.grant /\ (provider = "google" => fresh.flow = row.account.flow)
    BY <2>2, <2>3, <2>5, <2>6 DEF fresh
  <2>16. SoundConsent'
    BY <1>1, <2>10, <2>15, SameSets DEF SoundInv, SoundConsent, Ground
  <2>17. AppsInv'
    <3>1. fresh.flow \in Flows
      BY <2>7 DEF Account
    <3>. QED
      BY <1>1, <2>10, <2>15, <3>1, ProviderAssumption, SameSets DEF SoundInv, TypeOK, AppsInv,
         DisabledAppIsFlagged, Ground
  <2>. QED
    BY <2>12, <2>13, <2>14, <2>16, <2>17 DEF SoundInv
<1>. QED
  BY <1>5, <1>6

\* A consent is stored whole, or joins the refresh token it belongs to.
LEMMA ConsentsSound ==
  ASSUME SoundInv, Consent \/ ConsentWithoutRefreshToken \/ StoreConsent \/ DropConsent
  PROVE  SoundInv'
<1>1. Ground /\ UNCHANGED <<apps, lock, flights, calls, refused, revoked, aged, upsets, lost>>
  BY DEF Consent, ConsentWithoutRefreshToken, StoreConsent, DropConsent, Ground, providerVars
<1>2. (\A q \in Processes : SoundFlight(flights[q])') /\ (\A c \in Callers : SoundCall(calls[c])')
  BY <1>1, SameSound, CallsSound DEF SoundInv
<1>3. row.account \in Account /\ row.account.refresh \in Token /\ row.account.flow \in Flows
  BY DEF SoundInv, TypeOK, Account
<1>4. CASE Consent
  <2>1. issued < MaxIssued /\ grants < MaxGrants /\ issued' = issued + 1 /\ grants' = grants + 1 /\ row' = row
    BY <1>4 DEF Consent
  <2>2. grants + 1 \in Grants
    BY <2>1, BoundsAssumption DEF SoundInv, TypeOK, Grants
  <2>. DEFINE token == NextToken(grants + 1)
  <2>3. token \in Token /\ token # NoToken /\ issued' \in 1..MaxIssued /\ token.grant = grants + 1
    <3>1. token \in Token /\ token # NoToken /\ issued + 1 \in 1..MaxIssued
      BY <2>1, <2>2, NextTokenTyped DEF SoundInv
    <3>. QED
      BY <2>1, <3>1 DEF NextToken
  <2>4. /\ consent' = [access |-> token, refresh |-> token, flow |-> trueFlow[grants + 1]]
        /\ live' = live \cup {token}
    BY <1>4 DEF Consent, NextToken
  <2>5. trueFlow[grants + 1] \in Flows
    BY <2>2 DEF SoundInv, TypeOK
  <2>. HIDE DEF token
  <2>6. TypeOK'
    <3>1. consent' \in Got
      BY <2>3, <2>4, <2>5 DEF Got
    <3>. QED
      BY <1>1, <2>1, <2>2, <2>3, <2>4, <3>1, SameSets DEF SoundInv, TypeOK, Ground
  <2>7. SoundConsent'
    BY <1>1, <2>3, <2>4, <2>5, SameSets DEF SoundConsent, Ground
  <2>8. TokensOfOneGrant' /\ AppsInv'
    BY <1>1, <2>1, SameSets DEF SoundInv, TokensOfOneGrant, AppsInv, DisabledAppIsFlagged, Ground
  <2>. QED
    BY <1>2, <2>6, <2>7, <2>8 DEF SoundInv
<1>5. CASE ConsentWithoutRefreshToken
  <2>1. /\ issued < MaxIssued /\ issued' = issued + 1 /\ UNCHANGED <<row, live, grants>>
        /\ provider = "google"
    BY <1>5 DEF ConsentWithoutRefreshToken
  <2>. DEFINE token == NextToken(row.account.refresh.grant)
  <2>2. row.account.refresh.grant \in Grants
    BY <1>3 DEF Token
  <2>3. token \in Token /\ issued' \in 1..MaxIssued /\ token.grant = row.account.refresh.grant
    <3>1. token \in Token /\ issued + 1 \in 1..MaxIssued
      BY <2>1, <2>2, NextTokenTyped DEF SoundInv
    <3>. QED
      BY <2>1, <3>1 DEF NextToken
  <2>4. consent' = [access |-> token, refresh |-> NoToken, flow |-> row.account.flow]
    BY <1>5 DEF ConsentWithoutRefreshToken, NextToken
  <2>. HIDE DEF token
  <2>5. TypeOK'
    <3>1. consent' \in Got
      BY <1>3, <2>3, <2>4 DEF Got
    <3>. QED
      BY <1>1, <2>1, <2>3, <3>1, SameSets DEF SoundInv, TypeOK, Ground
  <2>6. SoundConsent'
    BY <1>1, <1>3, <2>1, <2>3, <2>4, SameSets DEF SoundConsent, Ground
  <2>7. TokensOfOneGrant' /\ AppsInv'
    BY <1>1, <2>1, SameSets DEF SoundInv, TokensOfOneGrant, AppsInv, DisabledAppIsFlagged, Ground
  <2>. QED
    BY <1>2, <2>5, <2>6, <2>7 DEF SoundInv
<1>6. CASE DropConsent
  <2>1. UNCHANGED <<row, live, issued, grants>> /\ consent' = NoAccount
    BY <1>6 DEF DropConsent, providerVars
  <2>2. TypeOK'
    BY <1>1, <2>1, SameSets, Tokens DEF SoundInv, TypeOK, Ground
  <2>3. (SoundConsent /\ TokensOfOneGrant /\ AppsInv)'
    BY <1>1, <2>1, SameSets DEF SoundInv, SoundConsent, TokensOfOneGrant, AppsInv, DisabledAppIsFlagged, Ground
  <2>. QED
    BY <1>2, <2>2, <2>3 DEF SoundInv
<1>7. CASE StoreConsent
  <2>1. UNCHANGED <<live, issued, grants>> /\ consent' = NoAccount /\ consent # NoAccount /\ MayStoreConsent
    BY <1>7 DEF StoreConsent, providerVars
  <2>. DEFINE fresh == [consent EXCEPT !.refresh = KeptRefresh(@, row.account.refresh)]
  <2>2. row' = [there |-> TRUE, flagged |-> FALSE, account |-> fresh]
    BY <1>7 DEF StoreConsent
  <2>3. /\ consent.access \in Token /\ consent.flow \in Flows
        /\ \/ consent.refresh = consent.access /\ consent.flow = trueFlow[consent.access.grant]
           \/ /\ consent.refresh = NoToken /\ provider = "google"
              /\ consent.access.grant = row.account.refresh.grant
              /\ consent.flow = row.account.flow
    BY <2>1 DEF SoundInv, SoundConsent
  <2>4. /\ fresh.access = consent.access /\ fresh.flow = consent.flow
        /\ fresh.refresh = IF consent.refresh = NoToken THEN row.account.refresh ELSE consent.refresh
        /\ fresh \in Account
    <3>1. consent \in Got
      BY DEF SoundInv, TypeOK
    <3>2. fresh = [access |-> consent.access, refresh |-> KeptRefresh(consent.refresh, row.account.refresh),
                   flow |-> consent.flow]
      BY <3>1 DEF Got
    <3>3. KeptRefresh(consent.refresh, row.account.refresh)
            = IF consent.refresh = NoToken THEN row.account.refresh ELSE consent.refresh
      BY DEF KeptRefresh
    <3>4. KeptRefresh(consent.refresh, row.account.refresh) \in Token
      BY <1>3, <2>3, <3>3
    <3>. HIDE DEF fresh
    <3>5. fresh.access = consent.access /\ fresh.flow = consent.flow
          /\ fresh.refresh = KeptRefresh(consent.refresh, row.account.refresh)
      BY <3>2
    <3>6. fresh \in Account
      BY <2>3, <3>2, <3>4 DEF Account
    <3>. QED
      BY <3>3, <3>5, <3>6
  <2>. HIDE DEF fresh
  <2>5. OfOneGrant(fresh)
    <3>1. CASE consent.refresh = NoToken
      BY <2>3, <2>4, <3>1, Tokens DEF SoundInv, TokensOfOneGrant, OfOneGrant
    <3>2. CASE consent.refresh # NoToken
      BY <2>3, <2>4, <3>2 DEF OfOneGrant
    <3>. QED
      BY <3>1, <3>2
  <2>6. TypeOK'
    <3>1. row' \in [there: BOOLEAN, flagged: BOOLEAN, account: Account]
      BY <2>2, <2>4
    <3>. QED
      BY <1>1, <2>1, <3>1, SameSets, Tokens DEF SoundInv, TypeOK, Ground
  <2>7. SoundConsent' /\ TokensOfOneGrant'
    BY <1>1, <2>1, <2>2, <2>5 DEF SoundConsent, TokensOfOneGrant, OfOneGrant, Ground
  <2>8. apps[fresh.flow] = "active"
    <3>1. CASE provider = "google"
      BY <2>1, <2>4, <3>1 DEF MayStoreConsent
    <3>2. CASE provider = "microsoft"
      BY <2>3, <2>4, <3>2 DEF SoundInv, AppsInv
    <3>. QED
      BY <3>1, <3>2, ProviderAssumption DEF SoundInv, TypeOK
  <2>9. AppsInv'
    BY <1>1, <2>2, <2>8, SameSets DEF SoundInv, AppsInv, DisabledAppIsFlagged, Ground
  <2>. QED
    BY <1>2, <2>6, <2>7, <2>9 DEF SoundInv
<1>. QED
  BY <1>4, <1>5, <1>6, <1>7

\* Every account that is stored, read or handed on is of one consent, always.
THEOREM AccountsAreSound == Spec => []SoundInv
<1>1. SoundInv /\ [Next]_vars => SoundInv'
  <2>. SUFFICES ASSUME SoundInv, [Next]_vars PROVE SoundInv'
    OBVIOUS
  <2>1. CASE UNCHANGED vars
    <3>1. Ground /\ UNCHANGED <<row, apps, lock, flights, calls, consent, live, refused, revoked, aged, issued,
                                grants, upsets, lost>>
      BY <2>1 DEF vars, providerVars, Ground
    <3>2. RestTyped'
      BY <3>1 DEF RestTyped, SoundInv, TypeOK
    <3>. QED
      BY <3>1, <3>2, SoundStep DEF SoundInv, TypeOK
  <2>2. CASE \E c \in Callers : CallStep(c)
    BY <2>2, CallerSound, EnsuringSound, OutsideSound DEF CallStep
  <2>3. CASE \E p \in Processes : FlightStep(p) \/ Crash(p)
    BY <2>3, FlightAloneSound, AnswersSound, StoresSound, SettleSound DEF FlightStep, FlightAlone
  <2>4. CASE Consent \/ ConsentWithoutRefreshToken \/ StoreConsent \/ DropConsent
    BY <2>4, ConsentsSound
  <2>5. CASE LockExpires \/ (\E g \in Grants : RevokeGrant(g)) \/ DeleteRow \/ AccessAges \/ RefuseAccess
    BY <2>5, OutsideSound
  <2>6. CASE \E f \in Flows, status \in {"active", "disabled"} : SetGoogleAppStatus(f, status)
    BY <2>6, AppStatusSound
  <2>. QED
    BY <2>1, <2>2, <2>3, <2>4, <2>5, <2>6 DEF Next
<1>. QED
  BY <1>1, InitSound, PTL DEF Spec

\* The variables keep their types.
THEOREM TypeCorrect == Spec => []TypeOK
<1>1. SoundInv => TypeOK
  BY DEF SoundInv
<1>. QED
  BY <1>1, AccountsAreSound, PTL

\* The row never mixes the tokens of two consents: a refresh that a reconnect overtook stores
\* nothing, for any number of processes, apps, consents and lost answers. (microsoftOAuth.js,
\* googleOAuth.js)
THEOREM RowIsOfOneConsent == Spec => []TokensOfOneGrant
<1>1. SoundInv => TokensOfOneGrant
  BY DEF SoundInv
<1>. QED
  BY <1>1, AccountsAreSound, PTL

\* No consent or refresh on its way leaves a mailbox of a disabled app unflagged.
\* (setGoogleAppStatus, saveGoogleAccount)
THEOREM DisabledIsFlagged == Spec => []DisabledAppIsFlagged
<1>1. SoundInv => DisabledAppIsFlagged
  BY DEF SoundInv, AppsInv
<1>. QED
  BY <1>1, AccountsAreSound, PTL

-------------------------------------------------------------------------------
(* Numbers *)

Bears(account, n) == n \in {account.access.n, account.refresh.n}

\* No account that is stored, read or being refreshed bears the number.
Spare(n) ==
  /\ ~Bears(row.account, n)
  /\ \A c \in Callers : ~Bears(calls[c].account, n)
  /\ \A p \in Processes : ~Bears(flights[p].account, n)

Issued(account) == account.access.n <= issued /\ account.refresh.n <= issued

AllIssued ==
  /\ Issued(row.account) /\ Issued(consent)
  /\ \A c \in Callers : Issued(calls[c].account)
  /\ \A p \in Processes : Issued(flights[p].account) /\ Issued(flights[p].got)

\* The number of an answer that its flight has yet to store is borne by nothing else.
AnswerIsNew(p) ==
  LET n == flights[p].got.access.n IN
  /\ Spare(n) /\ ~Bears(consent, n)
  /\ \A q \in Processes \ {p} : ~Bears(flights[q].got, n)

\* Nor is that of a consent whose transaction has not run.
ConsentIsNew ==
  LET n == consent.access.n IN
  Spare(n) /\ \A p \in Processes : ~Bears(flights[p].got, n)

NumbersInv ==
  /\ AllIssued
  /\ \A p \in Processes : flights[p].phase = "answered" => AnswerIsNew(p)
  /\ consent # NoAccount => ConsentIsNew

\* The accounts that are stored, read, being refreshed or handed on.
HeldAccounts ==
  {NoAccount, row.account} \cup {calls[c].account : c \in Callers} \cup {flights[p].account : p \in Processes}
    \cup {flights[p].got : p \in {q \in Processes : flights[q].phase # "answered"}}

\* Accounts hold numbers, and answers and consents positive ones.
LEMMA Numbers ==
  ASSUME SoundInv
  PROVE  /\ row.account \in Got /\ consent \in Got /\ issued \in Nat
         /\ \A c \in Callers : calls[c].account \in Got
         /\ \A p \in Processes : /\ flights[p].account \in Got /\ flights[p].got \in Got
                                 /\ flights[p].phase = "answered" =>
                                      flights[p].got.access.n \in Nat /\ flights[p].got.access.n >= 1
         /\ consent # NoAccount => consent.access.n \in Nat /\ consent.access.n >= 1
<1>1. row.account \in Got /\ consent \in Got /\ issued \in Nat /\ \A c \in Callers : calls[c].account \in Got
  BY Tokens DEF SoundInv, TypeOK, Call
<1>2. \A p \in Processes : flights[p].account \in Got /\ flights[p].got \in Got
  BY Tokens DEF SoundInv, TypeOK, Flight
<1>3. \A p \in Processes : flights[p].phase = "answered" => flights[p].got.access \in Token
  BY DEF SoundInv, SoundFlight, Answer
<1>4. consent # NoAccount => consent.access \in Token
  BY DEF SoundInv, SoundConsent
<1>. QED
  BY <1>1, <1>2, <1>3, <1>4, Tokens

\* No held account bears the number of an answer or a consent that is not stored yet.
LEMMA HeldNumbers ==
  ASSUME SoundInv, NumbersInv, NEW a \in HeldAccounts
  PROVE  /\ Issued(a) /\ a \in Got
         /\ \A p \in Processes : flights[p].phase = "answered" => ~Bears(a, flights[p].got.access.n)
         /\ consent # NoAccount => ~Bears(a, consent.access.n)
<1>1. CASE a = NoAccount
  BY <1>1, Numbers, Tokens DEF Issued, Bears, NoAccount, NoToken
<1>2. CASE a = row.account \/ (\E c \in Callers : a = calls[c].account) \/ (\E p \in Processes : a = flights[p].account)
  BY <1>2, Numbers DEF NumbersInv, AllIssued, AnswerIsNew, ConsentIsNew, Spare
<1>3. CASE \E q \in Processes : flights[q].phase # "answered" /\ a = flights[q].got
  BY <1>3, Numbers DEF NumbersInv, AllIssued, AnswerIsNew, ConsentIsNew
<1>. QED
  BY <1>1, <1>2, <1>3 DEF HeldAccounts

\* A step that moves accounts about, and brings nothing new, keeps the numbers apart.
LEMMA NumbersStep ==
  ASSUME SoundInv, NumbersInv, issued' \in Nat, issued <= issued',
         row'.account \in HeldAccounts, consent' \in {consent, NoAccount},
         \A c \in Callers : calls'[c].account \in HeldAccounts,
         \A p \in Processes :
           /\ flights'[p].account \in HeldAccounts
           /\ flights'[p].got \in HeldAccounts \cup {flights[p].got}
           /\ flights'[p].phase = "answered" =>
                flights[p].phase = "answered" /\ flights'[p].got = flights[p].got
  PROVE  NumbersInv'
<1>1. \A a \in Got : Issued(a) => Issued(a)'
  <2>1. SUFFICES ASSUME NEW a \in Got, Issued(a) PROVE Issued(a)'
    OBVIOUS
  <2>2. a.access.n \in Nat /\ a.refresh.n \in Nat
    BY Tokens
  <2>. QED
    BY <2>1, <2>2, Numbers DEF Issued
<1>2. AllIssued'
  <2>1. \A a \in HeldAccounts : Issued(a)'
    BY <1>1, HeldNumbers
  <2>2. Issued(consent)' /\ \A p \in Processes : Issued(flights[p].got)'
    <3>1. (\A p \in Processes : Issued(flights[p].got)) /\ Issued(consent)
      BY DEF NumbersInv, AllIssued
    <3>2. NoAccount \in HeldAccounts
      BY DEF HeldAccounts
    <3>3. \A a \in HeldAccounts \cup {consent} \cup {flights[p].got : p \in Processes} : a \in Got /\ Issued(a)
      BY <3>1, HeldNumbers, Numbers
    <3>. QED
      BY <1>1, <3>2, <3>3 DEF Issued
  <2>. QED
    BY <2>1, <2>2 DEF AllIssued, Issued
<1>3. ASSUME NEW p \in Processes, flights'[p].phase = "answered" PROVE AnswerIsNew(p)'
  <2>1. flights[p].phase = "answered" /\ flights'[p].got = flights[p].got
    BY <1>3
  <2>. DEFINE n == flights[p].got.access.n
  <2>2. \A a \in HeldAccounts : ~Bears(a, n)
    BY <2>1, HeldNumbers
  <2>3. ~Bears(consent, n) /\ ~Bears(NoAccount, n) /\ \A q \in Processes \ {p} : ~Bears(flights[q].got, n)
    BY <2>1, <2>2 DEF NumbersInv, AnswerIsNew, HeldAccounts
  <2>. QED
    BY <2>1, <2>2, <2>3 DEF AnswerIsNew, Spare, Bears
<1>4. ASSUME consent' # NoAccount PROVE ConsentIsNew'
  <2>1. consent' = consent /\ consent # NoAccount
    BY <1>4
  <2>. DEFINE n == consent.access.n
  <2>2. \A a \in HeldAccounts : ~Bears(a, n)
    BY <2>1, HeldNumbers
  <2>3. \A q \in Processes : ~Bears(flights[q].got, n)
    BY <2>1 DEF NumbersInv, ConsentIsNew
  <2>. QED
    BY <2>1, <2>2, <2>3 DEF ConsentIsNew, Spare, Bears
<1>. QED
  BY <1>2, <1>3, <1>4 DEF NumbersInv

\* What a flight alone changes of itself: it takes the account of the row, or ends with one.
LEMMA FlightAloneDoes ==
  ASSUME SoundInv, NEW p \in Processes, FlightAlone(p)
  PROVE  /\ UNCHANGED <<calls, consent, live, refused, revoked, issued>>
         /\ row'.account = row.account /\ row'.there = row.there
         /\ \A q \in Processes \ {p} : flights'[q] = flights[q]
         /\ flights'[p].force = flights[p].force
         /\ flights'[p].phase # "answered"
         /\ flights'[p].account \in {flights[p].account, NoAccount, row.account}
         /\ \/ flights'[p].got \in {NoAccount, row.account}
            \/ flights'[p].got = flights[p].got /\ flights[p].phase # "answered"
<1>. USE DEF FlightAlone
<1>1. /\ UNCHANGED <<calls, consent, live, refused, revoked, issued>>
      /\ row'.account = row.account /\ row'.there = row.there
  BY DEF AcquireLock, GiveUpLock, RereadRow, AppUnavailable, ProviderRejects, ProviderFails, StoreFails,
         ReadWinner, MarkReconnectRequired, ReleaseLock, providerVars, SoundInv, TypeOK
<1>2. flights[p] \in Flight /\ row.account \in Got /\ NoAccount \in Got /\ flights[p].got \in Got
  BY Numbers, Tokens DEF SoundInv, TypeOK
<1>3. ASSUME NEW phase \in {"locked", "appGone", "rejected"}, MoveTo(p, phase, NoAccount)
      PROVE  /\ \A q \in Processes \ {p} : flights'[q] = flights[q]
             /\ flights'[p] = [flights[p] EXCEPT !.phase = phase, !.got = NoAccount]
  <2>1. phase \in Phases
    BY DEF Phases
  <2>. QED
    BY <1>2, <1>3, <2>1, MoveToFlight DEF SoundInv
<1>4. ASSUME NEW phase \in {"releasing", "settling"}, NEW got \in Got, Finish(p, phase, got)
      PROVE  /\ \A q \in Processes \ {p} : flights'[q] = flights[q]
             /\ flights'[p] = [phase |-> phase, force |-> flights[p].force, account |-> NoAccount, got |-> got]
  <2>1. phase \in Phases
    BY DEF Phases
  <2>. QED
    BY <1>4, <2>1, FinishFlight DEF SoundInv
<1>5. CASE \E phase \in {"locked", "appGone", "rejected"} : MoveTo(p, phase, NoAccount)
  <2>1. PICK phase \in {"locked", "appGone", "rejected"} : MoveTo(p, phase, NoAccount)
    BY <1>5
  <2>2. /\ \A q \in Processes \ {p} : flights'[q] = flights[q]
        /\ flights'[p] = [flights[p] EXCEPT !.phase = phase, !.got = NoAccount]
    BY <1>3, <2>1
  <2>. QED
    BY <1>1, <1>2, <2>2 DEF Flight
<1>6. CASE \E phase \in {"releasing", "settling"} : Finish(p, phase, NoAccount) \/ Finish(p, phase, row.account)
  <2>1. PICK phase \in {"releasing", "settling"}, got \in {NoAccount, row.account} : Finish(p, phase, got)
    BY <1>6
  <2>2. /\ \A q \in Processes \ {p} : flights'[q] = flights[q]
        /\ flights'[p] = [phase |-> phase, force |-> flights[p].force, account |-> NoAccount, got |-> got]
    BY <1>2, <1>4, <2>1
  <2>. QED
    BY <1>1, <2>2
<1>7. CASE ReleaseLock(p)
  <2>1. Finish(p, "settling", flights[p].got) /\ flights[p].phase = "releasing"
    BY <1>7 DEF ReleaseLock
  <2>2. /\ \A q \in Processes \ {p} : flights'[q] = flights[q]
        /\ flights'[p] = [phase |-> "settling", force |-> flights[p].force, account |-> NoAccount,
                         got |-> flights[p].got]
    BY <1>2, <1>4, <2>1
  <2>. QED
    BY <1>1, <2>1, <2>2
<1>8. CASE RereadRow(p) /\ flights' = [flights EXCEPT ![p].phase = "refreshing", ![p].account = ToRefresh(flights[p])]
  <2>1. flights[p].phase = "locked" /\ flights \in [Processes -> Flight]
    BY <1>8 DEF RereadRow, SoundInv, TypeOK
  <2>2. flights' = [flights EXCEPT ![p] = [flights[p] EXCEPT !.phase = "refreshing", !.account = row.account]]
    BY <1>2, <1>8, <2>1 DEF ToRefresh, Flight
  <2>. QED
    BY <1>1, <1>2, <2>1, <2>2 DEF Flight
<1>9. \/ \E phase \in {"locked", "appGone", "rejected"} : MoveTo(p, phase, NoAccount)
      \/ \E phase \in {"releasing", "settling"} : Finish(p, phase, NoAccount) \/ Finish(p, phase, row.account)
      \/ ReleaseLock(p)
      \/ RereadRow(p) /\ flights' = [flights EXCEPT ![p].phase = "refreshing", ![p].account = ToRefresh(flights[p])]
  BY DEF AcquireLock, GiveUpLock, RereadRow, AppUnavailable, ProviderRejects, ProviderFails, StoreFails,
         ReadWinner, MarkReconnectRequired
<1>. QED
  BY <1>5, <1>6, <1>7, <1>8, <1>9

\* What a caller does moves accounts from the row to it and from it to a flight.
LEMMA CallDoes ==
  ASSUME SoundInv, NEW c \in Callers, CallStep(c)
  PROVE  /\ UNCHANGED <<consent, live, revoked, issued, lock, lost>> /\ row'.account = row.account /\ row'.there = row.there
         /\ \A d \in Callers \ {c} : calls'[d] = calls[d]
         /\ calls'[c].account \in {calls[c].account, row.account, NoAccount}
         /\ \A p \in Processes :
              \/ flights'[p] = flights[p]
              \/ \E force \in BOOLEAN :
                   /\ flights[p].phase = "none"
                   /\ flights'[p] = [NoFlight EXCEPT !.phase = "locking", !.force = force,
                                                     !.account = calls[c].account]
<1>1. /\ UNCHANGED <<consent, live, revoked, issued, lock, lost>> /\ row'.account = row.account
      /\ row'.there = row.there
  BY DEF CallStep, Load, EnsureFresh, EnsureAgain, StopWaiting, UseAccepted, UseRefused, UseRefusedAgain,
         MarkAfterRefusal, providerVars, SoundInv, TypeOK
<1>2. calls \in [Callers -> Call] /\ flights \in [Processes -> Flight]
  BY DEF SoundInv, TypeOK
<1>3. CASE ~(EnsureFresh(c) \/ EnsureAgain(c) \/ UseRefused(c))
  <2>1. flights' = flights
    BY <1>3 DEF CallStep, Load, StopWaiting, UseAccepted, UseRefusedAgain, MarkAfterRefusal
  <2>2. \/ calls' = [calls EXCEPT ![c] = NoCall]
        \/ \E p \in Processes : calls' = [calls EXCEPT ![c] =
             [NoCall EXCEPT !.state = "loaded", !.at = p, !.account = row.account]]
        \/ calls' = [calls EXCEPT ![c].state = "marking"]
    BY <1>3 DEF CallStep, Load, StopWaiting, UseAccepted, UseRefusedAgain, MarkAfterRefusal
  <2>3. calls[c] \in Call
    BY <1>2
  <2>4. PICK k : calls' = [calls EXCEPT ![c] = k] /\ k.account \in {calls[c].account, row.account, NoAccount}
    <3>1. CASE calls' = [calls EXCEPT ![c] = NoCall]
      <4>1. NoCall.account = NoAccount
        BY DEF NoCall
      <4>. QED
        BY <3>1, <4>1
    <3>2. CASE \E p \in Processes : calls' = [calls EXCEPT ![c] =
             [NoCall EXCEPT !.state = "loaded", !.at = p, !.account = row.account]]
      <4>1. \A p \in Processes :
              [NoCall EXCEPT !.state = "loaded", !.at = p, !.account = row.account].account = row.account
        BY DEF NoCall
      <4>. QED
        BY <3>2, <4>1
    <3>3. CASE calls' = [calls EXCEPT ![c].state = "marking"]
      <4>1. calls' = [calls EXCEPT ![c] = [calls[c] EXCEPT !.state = "marking"]]
        BY <1>2, <3>3
      <4>2. [calls[c] EXCEPT !.state = "marking"].account = calls[c].account
        BY <2>3 DEF Call
      <4>. QED
        BY <4>1, <4>2
    <3>. QED
      BY <2>2, <3>1, <3>2, <3>3
  <2>. QED
    BY <1>1, <1>2, <2>1, <2>4
<1>4. CASE EnsureFresh(c) \/ EnsureAgain(c) \/ UseRefused(c)
  <2>1. PICK call \in Call, force \in BOOLEAN : Ensure(c, call, force) /\ call.account = calls[c].account
    <3>1. CASE EnsureFresh(c) \/ EnsureAgain(c)
      BY <1>2, <3>1 DEF EnsureFresh, EnsureAgain
    <3>2. CASE UseRefused(c)
      <4>. DEFINE call == [calls[c] EXCEPT !.rejected = calls[c].account.access]
      <4>1. calls[c] \in Call /\ calls[c].account \in Got
        BY <1>2, Numbers
      <4>2. call \in Call /\ call.account = calls[c].account
        BY <4>1 DEF Call, Got
      <4>3. Ensure(c, call, TRUE)
        BY <3>2 DEF UseRefused
      <4>. HIDE DEF call
      <4>. QED
        BY <4>2, <4>3
    <3>. QED
      BY <1>4, <3>1, <3>2
  <2>2. calls'[c].account = calls[c].account /\ \A d \in Callers \ {c} : calls'[d] = calls[d]
    <3>. DEFINE flight == flights[call.at]
                waiting == [call EXCEPT !.state = "waiting", !.checks = FALSE, !.joinedForced = FALSE]
                joined == [waiting EXCEPT !.checks = ~TakesItAsItIs(force, flight),
                                          !.joinedForced = force /\ flight.force]
                ready == [call EXCEPT !.state = "ready"]
    <3>1. ready.account = call.account /\ waiting.account = call.account /\ joined.account = call.account
      BY DEF Call
    <3>2. \/ calls' = [calls EXCEPT ![c] = ready] \/ calls' = [calls EXCEPT ![c] = waiting]
          \/ calls' = [calls EXCEPT ![c] = joined]
      BY <2>1 DEF Ensure
    <3>. HIDE DEF ready, waiting, joined
    <3>4. \E k : calls' = [calls EXCEPT ![c] = k] /\ k.account = call.account
      BY <3>1, <3>2
    <3>. QED
      BY <1>2, <2>1, <3>4
  <2>3. \A p \in Processes :
              \/ flights'[p] = flights[p]
              \/ /\ flights[p].phase = "none"
                 /\ flights'[p] = [NoFlight EXCEPT !.phase = "locking", !.force = force,
                                                   !.account = calls[c].account]
    BY <1>2, <2>1 DEF Ensure
  <2>. QED
    BY <1>1, <2>2, <2>3
<1>. QED
  BY <1>3, <1>4

\* Callers, and flights by themselves, bring nothing new.
LEMMA MovesNumbers ==
  ASSUME SoundInv, NumbersInv, (\E c \in Callers : CallStep(c)) \/ (\E p \in Processes : FlightAlone(p))
  PROVE  NumbersInv'
<1>. USE DEF HeldAccounts
<1>1. CASE \E c \in Callers : CallStep(c)
  <2>1. PICK c \in Callers : CallStep(c)
    BY <1>1
  <2>2. /\ UNCHANGED <<consent, issued>> /\ row'.account = row.account
        /\ \A d \in Callers \ {c} : calls'[d] = calls[d]
        /\ calls'[c].account \in {calls[c].account, row.account, NoAccount}
    BY <2>1, CallDoes
  <2>3. \A p \in Processes :
          \/ flights'[p] = flights[p]
          \/ /\ flights'[p].account = calls[c].account /\ flights'[p].got = NoAccount
             /\ flights'[p].phase = "locking"
    <3>1. SUFFICES ASSUME NEW p \in Processes, flights'[p] # flights[p]
                   PROVE  /\ flights'[p].account = calls[c].account /\ flights'[p].got = NoAccount
                          /\ flights'[p].phase = "locking"
      OBVIOUS
    <3>2. PICK force \in BOOLEAN :
            flights'[p] = [NoFlight EXCEPT !.phase = "locking", !.force = force, !.account = calls[c].account]
      <4>1. \A q \in Processes :
              \/ flights'[q] = flights[q]
              \/ \E force \in BOOLEAN :
                   /\ flights[q].phase = "none"
                   /\ flights'[q] = [NoFlight EXCEPT !.phase = "locking", !.force = force,
                                                     !.account = calls[c].account]
        BY <2>1, CallDoes
      <4>. QED
        BY <3>1, <4>1
    <3>3. flights'[p] = [phase |-> "locking", force |-> force, account |-> calls[c].account, got |-> NoAccount]
      BY <3>2 DEF NoFlight
    <3>. QED
      BY <3>3
  <2>4. \A d \in Callers : calls'[d].account \in HeldAccounts
    BY <2>2
  <2>5. \A p \in Processes :
           /\ flights'[p].account \in HeldAccounts
           /\ flights'[p].got \in HeldAccounts \cup {flights[p].got}
           /\ flights'[p].phase = "answered" =>
                flights[p].phase = "answered" /\ flights'[p].got = flights[p].got
    BY <2>3
  <2>. HIDE DEF HeldAccounts
  <2>6. row.account \in HeldAccounts
    BY DEF HeldAccounts
  <2>. QED
    BY <2>2, <2>4, <2>5, <2>6, NumbersStep, Numbers
<1>2. CASE \E p \in Processes : FlightAlone(p)
  <2>1. PICK p \in Processes : FlightAlone(p)
    BY <1>2
  <2>2. /\ UNCHANGED <<calls, consent, issued>> /\ row'.account = row.account
        /\ \A q \in Processes \ {p} : flights'[q] = flights[q]
        /\ flights'[p].phase # "answered"
        /\ flights'[p].account \in {flights[p].account, NoAccount, row.account}
        /\ \/ flights'[p].got \in {NoAccount, row.account}
           \/ flights'[p].got = flights[p].got
    BY <2>1, FlightAloneDoes
  <2>3. /\ \A c \in Callers : calls'[c].account \in HeldAccounts
        /\ \A q \in Processes :
           /\ flights'[q].account \in HeldAccounts
           /\ flights'[q].got \in HeldAccounts \cup {flights[q].got}
           /\ flights'[q].phase = "answered" =>
                flights[q].phase = "answered" /\ flights'[q].got = flights[q].got
        /\ row.account \in HeldAccounts
    BY <2>2
  <2>. HIDE DEF HeldAccounts
  <2>. QED
    BY <2>2, <2>3, NumbersStep, Numbers
<1>. QED
  BY <1>1, <1>2

\* A result is handed to the callers, or is gone, and others' doings touch no account.
LEMMA SettlesNumbers ==
  ASSUME SoundInv, NumbersInv,
         (\E p \in Processes : Settle(p) \/ Crash(p)) \/ DropConsent
           \/ UNCHANGED <<row.account, calls, flights, consent, issued>>
  PROVE  NumbersInv'
<1>. USE DEF HeldAccounts
<1>1. CASE \E p \in Processes : Settle(p) \/ Crash(p)
  <2>1. PICK p \in Processes : Settle(p) \/ Crash(p)
    BY <1>1
  <2>2. UNCHANGED <<row, consent, issued>> /\ flights' = [flights EXCEPT ![p] = NoFlight]
    BY <2>1 DEF Settle, Crash, providerVars
  <2>3. /\ NoFlight.account = NoAccount /\ NoFlight.got = NoAccount /\ NoFlight.phase = "none"
        /\ NoCall.account = NoAccount
    BY DEF NoFlight, NoCall
  <2>4. \A q \in Processes :
           /\ flights'[q].account \in HeldAccounts
           /\ flights'[q].got \in HeldAccounts \cup {flights[q].got}
           /\ flights'[q].phase = "answered" =>
                flights[q].phase = "answered" /\ flights'[q].got = flights[q].got
    BY <2>2, <2>3 DEF SoundInv, TypeOK
  <2>5. \A c \in Callers : calls'[c].account \in HeldAccounts
    <3>1. CASE Crash(p)
      BY <2>3, <3>1 DEF Crash
    <3>2. CASE Settle(p)
      <4>1. flights[p].got \in HeldAccounts
        BY <3>2 DEF Settle
      <4>2. ASSUME NEW c \in Callers
            PROVE  Answered(calls[c], flights[p].got).account \in {NoAccount, calls[c].account, flights[p].got}
        <5>1. calls[c] \in Call
          BY DEF SoundInv, TypeOK
        <5>2. /\ [calls[c] EXCEPT !.state = "again"].account = calls[c].account
              /\ [calls[c] EXCEPT !.state = "ready", !.account = flights[p].got, !.checks = FALSE].account
                   = flights[p].got
          BY <5>1 DEF Call
        <5>. QED
          BY <2>3, <5>2 DEF Answered
      <4>3. \A c \in Callers : calls'[c] = calls[c] \/ calls'[c] = Answered(calls[c], flights[p].got)
        BY <3>2 DEF Settle
      <4>. QED
        BY <4>1, <4>2, <4>3
    <3>. QED
      BY <2>1, <3>1, <3>2
  <2>6. row.account \in HeldAccounts
    OBVIOUS
  <2>. HIDE DEF HeldAccounts
  <2>. QED
    BY <2>2, <2>4, <2>5, <2>6, NumbersStep, Numbers
<1>2. CASE DropConsent \/ UNCHANGED <<row.account, calls, flights, consent, issued>>
  <2>1. UNCHANGED <<row.account, calls, flights, issued>> /\ consent' \in {consent, NoAccount}
    BY <1>2 DEF DropConsent, providerVars
  <2>2. /\ \A c \in Callers : calls'[c].account \in HeldAccounts
        /\ \A q \in Processes :
           /\ flights'[q].account \in HeldAccounts
           /\ flights'[q].got \in HeldAccounts \cup {flights[q].got}
           /\ flights'[q].phase = "answered" =>
                flights[q].phase = "answered" /\ flights'[q].got = flights[q].got
        /\ row'.account \in HeldAccounts
    BY <2>1
  <2>. HIDE DEF HeldAccounts
  <2>. QED
    BY <2>1, <2>2, NumbersStep, Numbers
<1>. QED
  BY <1>1, <1>2

\* The provider numbers an answer after everything it ever handed out.
LEMMA AnswersNumbers ==
  ASSUME SoundInv, NumbersInv, NEW p \in Processes, ProviderAnswers(p)
  PROVE  NumbersInv'
<1>1. /\ issued' = issued + 1 /\ UNCHANGED <<row, calls, consent>>
      /\ \A q \in Processes \ {p} : flights'[q] = flights[q]
  BY DEF ProviderAnswers, MoveTo, Finish, SoundInv, TypeOK
<1>2. \/ /\ flights'[p].phase = "releasing" /\ flights'[p].account = NoAccount /\ flights'[p].got = NoAccount
      \/ /\ flights'[p].phase = "answered" /\ flights'[p].account = flights[p].account
         /\ flights'[p].got.access.n = issued + 1 /\ flights'[p].got.refresh.n \in {0, issued + 1}
  <2>1. PICK phase, got :
          /\ phase \in {"releasing", "answered"}
          /\ phase = "releasing" => Finish(p, phase, NoAccount)
          /\ phase = "answered" => MoveTo(p, phase, got)
          /\ phase = "answered" => got.access.n = issued + 1 /\ got.refresh.n \in {0, issued + 1}
    <3>1. PICK rotates \in BOOLEAN :
            LET token == [n |-> issued + 1, grant |-> flights[p].account.refresh.grant] IN
            \/ Finish(p, "releasing", NoAccount)
            \/ MoveTo(p, "answered",
                 [access |-> token, refresh |-> IF rotates THEN token ELSE NoToken,
                  flow |-> IF provider = "microsoft" THEN trueFlow[token.grant] ELSE flights[p].account.flow])
      BY DEF ProviderAnswers
    <3>. DEFINE token == [n |-> issued + 1, grant |-> flights[p].account.refresh.grant]
                got == [access |-> token, refresh |-> IF rotates THEN token ELSE NoToken,
                  flow |-> IF provider = "microsoft" THEN trueFlow[token.grant] ELSE flights[p].account.flow]
    <3>2. got.access.n = issued + 1 /\ got.refresh.n \in {0, issued + 1}
      BY DEF NoToken
    <3>3. Finish(p, "releasing", NoAccount) \/ MoveTo(p, "answered", got)
      BY <3>1
    <3>. HIDE DEF got
    <3>. QED
      BY <3>2, <3>3
  <2>2. flights \in [Processes -> Flight] /\ flights[p] \in Flight
    BY DEF SoundInv, TypeOK
  <2>3. CASE phase = "releasing"
    <3>1. flights'[p] = [NoFlight EXCEPT !.phase = "releasing", !.force = flights[p].force, !.got = NoAccount]
      BY <2>1, <2>2, <2>3 DEF Finish
    <3>. QED
      BY <3>1 DEF NoFlight
  <2>4. CASE phase = "answered"
    <3>1. flights'[p].phase = "answered" /\ flights'[p].got = got /\ flights'[p].account = flights[p].account
      BY <2>1, <2>2, <2>4 DEF MoveTo, Flight
    <3>. QED
      BY <2>1, <2>4, <3>1
  <2>. QED
    BY <2>1, <2>3, <2>4
<1>3. /\ NoAccount.access.n = 0 /\ NoAccount.refresh.n = 0
  BY DEF NoAccount, NoToken
<1>4. AllIssued'
  <2>1. /\ Issued(row.account)' /\ Issued(consent)' /\ (\A c \in Callers : Issued(calls[c].account)')
        /\ \A q \in Processes \ {p} : Issued(flights[q].account)' /\ Issued(flights[q].got)'
    <3>1. \A a \in Got : Issued(a) => a.access.n <= issued + 1 /\ a.refresh.n <= issued + 1
      BY Numbers, Tokens DEF Issued
    <3>. QED
      BY <1>1, <3>1, Numbers DEF NumbersInv, AllIssued, Issued
  <2>2. Issued(flights[p].account)' /\ Issued(flights[p].got)'
    <3>1. Issued(flights[p].account) /\ flights[p].account.access.n \in Nat /\ flights[p].account.refresh.n \in Nat
      BY Numbers, Tokens DEF NumbersInv, AllIssued
    <3>. QED
      BY <1>1, <1>2, <1>3, <3>1, Numbers DEF Issued
  <2>. QED
    BY <2>1, <2>2 DEF AllIssued
<1>5. \A a \in Got : Issued(a) => ~Bears(a, issued + 1)
  BY Numbers, Tokens DEF Issued, Bears
<1>6. ASSUME NEW q \in Processes, flights'[q].phase = "answered" PROVE AnswerIsNew(q)'
  <2>1. CASE q = p
    <3>1. flights'[p].got.access.n = issued + 1 /\ flights'[p].account = flights[p].account
      BY <1>2, <1>6, <2>1
    <3>2. Spare(issued + 1) /\ ~Bears(consent, issued + 1) /\ \A r \in Processes : ~Bears(flights[r].got, issued + 1)
      BY <1>5, Numbers DEF NumbersInv, AllIssued, Spare
    <3>. QED
      BY <1>1, <2>1, <3>1, <3>2 DEF AnswerIsNew, Spare, Bears
  <2>2. CASE q # p
    <3>. DEFINE n == flights[q].got.access.n
    <3>1. /\ flights[q].phase = "answered" /\ AnswerIsNew(q) /\ n \in Nat /\ n >= 1 /\ n <= issued
          /\ flights'[q].got.access.n = n
      BY <1>1, <1>6, <2>2, Numbers DEF NumbersInv, AllIssued, Issued
    <3>2. ~Bears(flights[p].account, n) /\ ~Bears(NoAccount, n)
      BY <1>3, <3>1 DEF AnswerIsNew, Spare, Bears
    <3>. HIDE DEF n
    <3>3. ~Bears(flights'[p].account, n)
      BY <1>2, <3>2
    <3>4. issued + 1 # n /\ n # 0
      BY <3>1, Numbers
    <3>5. ~Bears(flights'[p].got, n)
      BY <1>2, <3>2, <3>4 DEF Bears
    <3>. USE DEF n
    <3>. QED
      BY <1>1, <2>2, <3>1, <3>3, <3>5 DEF AnswerIsNew, Spare, Bears
  <2>. QED
    BY <2>1, <2>2
<1>7. ASSUME consent' # NoAccount PROVE ConsentIsNew'
  <2>. DEFINE n == consent.access.n
  <2>1. ConsentIsNew /\ n \in Nat /\ n >= 1 /\ n <= issued
    BY <1>1, <1>7, Numbers DEF NumbersInv, AllIssued, Issued
  <2>2. ~Bears(flights'[p].account, n) /\ ~Bears(flights'[p].got, n)
    BY <1>2, <1>3, <2>1, Numbers DEF ConsentIsNew, Spare, Bears
  <2>. QED
    BY <1>1, <2>1, <2>2 DEF ConsentIsNew, Spare, Bears
<1>. QED
  BY <1>4, <1>6, <1>7 DEF NumbersInv

\* What is stored bears the numbers of the answer and of the row it replaces, and no others.
LEMMA StoresNumbers ==
  ASSUME SoundInv, NumbersInv, NEW p \in Processes, StoreTokens(p)
  PROVE  NumbersInv'
<1>1. /\ UNCHANGED <<calls, consent, issued>> /\ flights[p].phase = "answered"
      /\ \A q \in Processes \ {p} : flights'[q] = flights[q]
  BY DEF StoreTokens, MoveTo, Finish, providerVars, SoundInv, TypeOK
<1>2. flights \in [Processes -> Flight] /\ flights[p] \in Flight /\ flights[p].got \in Got /\ row.account \in Got
  BY Numbers DEF SoundInv, TypeOK
<1>3. CASE ~StillStored(flights[p].account)
  <2>1. row' = row /\ MoveTo(p, "lostRace", NoAccount)
    BY <1>3 DEF StoreTokens
  <2>2. flights'[p].phase = "lostRace" /\ flights'[p].account = flights[p].account /\ flights'[p].got = NoAccount
    BY <1>2, <2>1 DEF MoveTo, Flight
  <2>3. /\ \A c \in Callers : calls'[c].account \in HeldAccounts
        /\ \A q \in Processes :
           /\ flights'[q].account \in HeldAccounts
           /\ flights'[q].got \in HeldAccounts \cup {flights[q].got}
           /\ flights'[q].phase = "answered" =>
                flights[q].phase = "answered" /\ flights'[q].got = flights[q].got
        /\ row'.account \in HeldAccounts
    BY <1>1, <2>1, <2>2 DEF HeldAccounts
  <2>. QED
    BY <1>1, <2>3, NumbersStep, Numbers
<1>4. CASE StillStored(flights[p].account)
  <2>. DEFINE got == flights[p].got
              fresh == [got EXCEPT !.refresh = KeptRefresh(@, flights[p].account.refresh)]
  <2>1. row.account.refresh = flights[p].account.refresh
    BY <1>4 DEF StillStored
  <2>2. /\ fresh = [access |-> got.access, refresh |-> KeptRefresh(got.refresh, row.account.refresh),
                    flow |-> got.flow]
        /\ KeptRefresh(got.refresh, row.account.refresh) \in {got.refresh, row.account.refresh}
    BY <1>2, <2>1 DEF Got, KeptRefresh
  <2>3. row' = [row EXCEPT !.account = fresh] /\ Finish(p, "releasing", fresh)
    BY <1>4, <2>2 DEF StoreTokens
  <2>4. \A n : Bears(fresh, n) => Bears(got, n) \/ Bears(row.account, n)
    BY <2>2 DEF Bears
  <2>. HIDE DEF fresh
  <2>5. row'.account = fresh
    BY <2>3 DEF SoundInv, TypeOK
  <2>6. flights'[p].phase = "releasing" /\ flights'[p].account = NoAccount /\ flights'[p].got = fresh
    <3>1. flights'[p] = [NoFlight EXCEPT !.phase = "releasing", !.force = flights[p].force, !.got = fresh]
      BY <1>2, <2>3 DEF Finish
    <3>2. flights'[p] = [phase |-> "releasing", force |-> flights[p].force, account |-> NoAccount, got |-> fresh]
      BY <3>1 DEF NoFlight
    <3>. QED
      BY <3>2
  <2>7. AllIssued'
    <3>1. Issued(fresh)
      BY <1>2, <2>2, Tokens DEF NumbersInv, AllIssued, Issued
    <3>2. Issued(NoAccount)
      BY HeldNumbers DEF HeldAccounts
    <3>3. \A q \in Processes : Issued(flights'[q].account) /\ Issued(flights'[q].got)
      BY <1>1, <2>6, <3>1, <3>2 DEF NumbersInv, AllIssued
    <3>. QED
      BY <1>1, <2>5, <3>1, <3>3 DEF NumbersInv, AllIssued, Issued
  <2>8. ASSUME NEW q \in Processes, flights'[q].phase = "answered" PROVE AnswerIsNew(q)'
    <3>. DEFINE n == flights[q].got.access.n
    <3>1. q # p /\ flights'[q] = flights[q]
      BY <1>1, <2>6, <2>8
    <3>2. Spare(n) /\ ~Bears(consent, n) /\ \A r \in Processes \ {q} : ~Bears(flights[r].got, n)
      BY <2>8, <3>1 DEF NumbersInv, AnswerIsNew
    <3>3. ~Bears(NoAccount, n)
      BY <2>8, <3>1, HeldNumbers DEF HeldAccounts
    <3>4. ~Bears(fresh, n)
      BY <2>4, <3>1, <3>2 DEF Spare
    <3>. HIDE DEF n
    <3>5. \A r \in Processes : ~Bears(flights'[r].account, n)
      BY <1>1, <2>6, <3>2, <3>3 DEF Spare
    <3>6. \A r \in Processes \ {q} : ~Bears(flights'[r].got, n)
      BY <1>1, <2>6, <3>2, <3>4
    <3>7. n = flights'[q].got.access.n
      BY <3>1 DEF n
    <3>. QED
      BY <1>1, <2>5, <3>2, <3>4, <3>5, <3>6, <3>7 DEF AnswerIsNew, Spare, Bears
  <2>9. ASSUME consent # NoAccount PROVE ConsentIsNew'
    <3>. DEFINE n == consent.access.n
    <3>1. Spare(n) /\ \A r \in Processes : ~Bears(flights[r].got, n)
      BY <2>9 DEF NumbersInv, ConsentIsNew
    <3>2. ~Bears(NoAccount, n)
      BY <2>9, HeldNumbers DEF HeldAccounts
    <3>3. ~Bears(fresh, n)
      BY <2>4, <3>1 DEF Spare
    <3>. HIDE DEF n
    <3>4. \A r \in Processes : ~Bears(flights'[r].account, n) /\ ~Bears(flights'[r].got, n)
      BY <1>1, <2>6, <3>1, <3>2, <3>3 DEF Spare
    <3>. USE DEF n
    <3>. QED
      BY <1>1, <2>5, <3>1, <3>3, <3>4 DEF ConsentIsNew, Spare, Bears
  <2>. QED
    BY <1>1, <2>7, <2>8, <2>9 DEF NumbersInv
<1>. QED
  BY <1>3, <1>4

\* A consent has a number of its own, and the row takes it over.
LEMMA ConsentsNumbers ==
  ASSUME SoundInv, NumbersInv, Consent \/ ConsentWithoutRefreshToken \/ StoreConsent
  PROVE  NumbersInv'
<1>1. UNCHANGED <<flights, calls>>
  BY DEF Consent, ConsentWithoutRefreshToken, StoreConsent
<1>2. issued \in Nat /\ row.account \in Got /\ consent \in Got
  BY Numbers
<1>3. CASE Consent \/ ConsentWithoutRefreshToken
  <2>1. issued' = issued + 1 /\ row' = row
    BY <1>3 DEF Consent, ConsentWithoutRefreshToken
  <2>2. consent'.access.n = issued + 1 /\ consent'.refresh.n \in {0, issued + 1}
    BY <1>3 DEF Consent, ConsentWithoutRefreshToken, NoToken
  <2>3. \A a \in Got : Issued(a) => ~Bears(a, issued + 1) /\ a.access.n <= issued + 1 /\ a.refresh.n <= issued + 1
    BY <1>2, Tokens DEF Issued, Bears
  <2>4. AllIssued'
    <3>1. /\ Issued(row.account)' /\ \A c \in Callers : Issued(calls[c].account)'
          /\ \A q \in Processes : Issued(flights[q].account)' /\ Issued(flights[q].got)'
      BY <1>1, <2>1, <2>3, Numbers DEF NumbersInv, AllIssued, Issued
    <3>2. Issued(consent)'
      BY <1>2, <2>1, <2>2 DEF Issued
    <3>. QED
      BY <3>1, <3>2 DEF AllIssued
  <2>5. ASSUME NEW q \in Processes, flights[q].phase = "answered" PROVE AnswerIsNew(q)'
    <3>. DEFINE n == flights[q].got.access.n
    <3>1. n \in Nat /\ n >= 1 /\ n <= issued
      BY <2>5, Numbers DEF NumbersInv, AllIssued, Issued
    <3>2. ~Bears(consent', n)
      BY <1>2, <2>2, <3>1 DEF Bears
    <3>. QED
      BY <1>1, <2>1, <2>5, <3>2 DEF NumbersInv, AnswerIsNew, Spare, Bears
  <2>6. ConsentIsNew'
    <3>1. Spare(issued + 1) /\ \A q \in Processes : ~Bears(flights[q].got, issued + 1)
      BY <2>3, Numbers DEF NumbersInv, AllIssued, Spare
    <3>. QED
      BY <1>1, <2>1, <2>2, <3>1 DEF ConsentIsNew, Spare, Bears
  <2>. QED
    BY <1>1, <2>4, <2>5, <2>6 DEF NumbersInv
<1>4. CASE StoreConsent
  <2>. DEFINE fresh == [consent EXCEPT !.refresh = KeptRefresh(@, row.account.refresh)]
  <2>1. UNCHANGED issued /\ consent' = NoAccount /\ row'.account = fresh
    BY <1>4 DEF StoreConsent, providerVars
  <2>2. /\ fresh = [access |-> consent.access, refresh |-> KeptRefresh(consent.refresh, row.account.refresh),
                    flow |-> consent.flow]
        /\ KeptRefresh(consent.refresh, row.account.refresh) \in {consent.refresh, row.account.refresh}
    BY <1>2 DEF Got, KeptRefresh
  <2>3. \A n : Bears(fresh, n) => Bears(consent, n) \/ Bears(row.account, n)
    BY <2>2 DEF Bears
  <2>4. AllIssued'
    <3>1. Issued(fresh)
      BY <1>2, <2>2, Tokens DEF NumbersInv, AllIssued, Issued
    <3>2. Issued(NoAccount)
      BY HeldNumbers DEF HeldAccounts
    <3>. HIDE DEF fresh
    <3>. QED
      BY <1>1, <2>1, <3>1, <3>2 DEF NumbersInv, AllIssued, Issued
  <2>. HIDE DEF fresh
  <2>5. ASSUME NEW q \in Processes, flights[q].phase = "answered" PROVE AnswerIsNew(q)'
    <3>. DEFINE n == flights[q].got.access.n
    <3>1. AnswerIsNew(q)
      BY <2>5 DEF NumbersInv
    <3>2. ~Bears(fresh, n)
      BY <2>3, <3>1 DEF AnswerIsNew, Spare
    <3>3. ~Bears(NoAccount, n)
      BY <2>5, HeldNumbers DEF HeldAccounts
    <3>. QED
      BY <1>1, <2>1, <3>1, <3>2, <3>3 DEF AnswerIsNew, Spare, Bears
  <2>. QED
    BY <1>1, <2>1, <2>4, <2>5 DEF NumbersInv
<1>. QED
  BY <1>3, <1>4

\* An answer or a consent that is not stored yet bears a number nothing else does, always: the
\* token a forced refresh ends with is another than the rejected one. (It is the order of expiry
\* that ensureFreshOAuthAccount compares.)
THEOREM NumbersStayApart == Spec => []NumbersInv
<1>1. Init => NumbersInv
  <2>. SUFFICES ASSUME Init PROVE NumbersInv
    OBVIOUS
  <2>1. /\ row.account.access.n = 1 /\ row.account.refresh.n = 1 /\ consent = NoAccount /\ issued = 1
        /\ calls = [c \in Callers |-> NoCall] /\ flights = [p \in Processes |-> NoFlight]
    BY DEF Init, FirstToken
  <2>2. /\ NoAccount.access.n = 0 /\ NoAccount.refresh.n = 0 /\ NoCall.account = NoAccount
        /\ NoFlight.account = NoAccount /\ NoFlight.got = NoAccount /\ NoFlight.phase = "none"
    BY DEF NoAccount, NoToken, NoCall, NoFlight
  <2>. QED
    BY <2>1, <2>2 DEF NumbersInv, AllIssued, Issued
<1>2. SoundInv /\ NumbersInv /\ [Next]_vars => NumbersInv'
  <2>. SUFFICES ASSUME SoundInv, NumbersInv, [Next]_vars PROVE NumbersInv'
    OBVIOUS
  <2>1. CASE UNCHANGED <<row.account, calls, flights, consent, issued>>
    BY <2>1, SettlesNumbers
  <2>2. CASE (\E c \in Callers : CallStep(c)) \/ (\E p \in Processes : FlightAlone(p))
    BY <2>2, MovesNumbers
  <2>3. CASE \E p \in Processes : ProviderAnswers(p) \/ StoreTokens(p) \/ Settle(p) \/ Crash(p)
    BY <2>3, AnswersNumbers, StoresNumbers, SettlesNumbers
  <2>4. CASE Consent \/ ConsentWithoutRefreshToken \/ StoreConsent \/ DropConsent
    BY <2>4, ConsentsNumbers, SettlesNumbers
  <2>5. CASE \/ UNCHANGED vars \/ LockExpires \/ DeleteRow \/ AccessAges \/ RefuseAccess
             \/ \E g \in Grants : RevokeGrant(g)
             \/ \E f \in Flows, status \in {"active", "disabled"} : SetGoogleAppStatus(f, status)
    <3>1. UNCHANGED <<row.account, calls, flights, consent, issued>>
      BY <2>5 DEF vars, providerVars, LockExpires, DeleteRow, AccessAges, RefuseAccess, RevokeGrant,
         SetGoogleAppStatus, SoundInv, TypeOK
    <3>. QED
      BY <3>1, SettlesNumbers
  <2>. QED
    BY <2>2, <2>3, <2>4, <2>5 DEF Next, FlightStep, FlightAlone
<1>. QED
  BY <1>1, <1>2, AccountsAreSound, PTL DEF Spec

-------------------------------------------------------------------------------
(* Rejected tokens *)

\* A flight that a caller forced with this account, and how it will end with another token: under
\* the lock it finds a newer one in the row, is answered a new one, or finds the row changed.
OwnFlight(f, account, stored) ==
  LET n == account.access.n IN
  /\ f.force
  /\ \/ f.phase \in {"locking", "locked"} /\ f.account = account
     \/ f.phase \in {"refreshing", "answered"} /\ (stored.account.access.n = n => stored.account = f.account)
     \/ f.phase = "lostRace" /\ (stored.there => stored.account.access.n # n)
     \/ f.phase \in {"rejected", "appGone"}
     \/ f.phase \in {"releasing", "settling"} /\ (f.got = NoAccount \/ f.got.access.n # n)

\* A caller of the flight f whose token was rejected: the token it holds before the refresh is the
\* rejected one, the refresh it waits for is its own or will be checked, and brings another.
RejectedCall(call, f, stored) ==
  /\ call.state = "loaded" => call.rejected = NoToken
  /\ call.state \in {"waiting", "again"} /\ call.rejected # NoToken => call.rejected = call.account.access
  /\ call.state = "waiting" /\ call.rejected # NoToken /\ ~call.checks /\ ~call.joinedForced
       => OwnFlight(f, call.account, stored)
  /\ call.state = "ready" /\ call.rejected # NoToken /\ ~call.joinedForced => call.account.access # call.rejected

RejectedInv == \A c \in Callers : RejectedCall(calls[c], flights[calls[c].at], row)

\* The invariant after a step, caller by caller.
LEMMA RejectedNext ==
  ASSUME \A c \in Callers : RejectedCall(calls'[c], flights'[calls'[c].at], row')
  PROVE  RejectedInv'
BY DEF RejectedInv, RejectedCall, OwnFlight

\* A row that is as it was, or has another token, or is deleted, keeps what a flight will end with.
LEMMA OwnStays ==
  ASSUME NEW f, NEW account, OwnFlight(f, account, row), row'.there => row.there,
         row'.account = row.account \/ row'.account.access.n # account.access.n
  PROVE  OwnFlight(f, account, row')
BY DEF OwnFlight

\* A step that leaves the callers alone and every flight of theirs as good as it was.
LEMMA CallersWait ==
  ASSUME RejectedInv, calls' = calls,
         \A c \in Callers :
           OwnFlight(flights[calls[c].at], calls[c].account, row)
             => OwnFlight(flights'[calls[c].at], calls[c].account, row')
  PROVE  RejectedInv'
<1>1. \A c \in Callers : RejectedCall(calls'[c], flights'[calls'[c].at], row')
  BY DEF RejectedInv, RejectedCall
<1>. QED
  BY <1>1, RejectedNext

\* A step of one caller that starts a flight only where there is none.
LEMMA OneCallGoesOn ==
  ASSUME SoundInv, RejectedInv, NEW c \in Callers, CallStep(c),
         RejectedCall(calls'[c], flights'[calls'[c].at], row')
  PROVE  RejectedInv'
<1>1. /\ row'.account = row.account /\ row'.there = row.there
      /\ \A d \in Callers \ {c} : calls'[d] = calls[d]
      /\ \A p \in Processes : flights'[p] = flights[p] \/ flights[p].phase = "none"
  BY CallDoes
<1>2. ASSUME NEW d \in Callers \ {c} PROVE RejectedCall(calls'[d], flights'[calls'[d].at], row')
  <2>1. calls'[d] = calls[d] /\ RejectedCall(calls[d], flights[calls[d].at], row) /\ SoundCall(calls[d])
    BY <1>1 DEF RejectedInv, SoundInv
  <2>2. CASE calls[d].state # "waiting"
    BY <2>1, <2>2 DEF RejectedCall
  <2>3. CASE calls[d].state = "waiting"
    <3>1. calls[d].at \in Processes
      BY <2>1, <2>3 DEF SoundCall
    <3>2. ASSUME OwnFlight(flights[calls[d].at], calls[d].account, row)
          PROVE  OwnFlight(flights'[calls[d].at], calls[d].account, row')
      <4>1. flights[calls[d].at].phase # "none"
        BY <3>2 DEF OwnFlight
      <4>2. flights'[calls[d].at] = flights[calls[d].at]
        BY <1>1, <3>1, <4>1
      <4>. QED
        BY <1>1, <3>2, <4>2, OwnStays
    <3>. QED
      BY <2>1, <3>2 DEF RejectedCall
  <2>. QED
    BY <2>2, <2>3
<1>3. \A d \in Callers : RejectedCall(calls'[d], flights'[calls'[d].at], row')
  BY <1>2
<1>. QED
  BY <1>3, RejectedNext

\* A forced refresh that is started, or joined, after a token was rejected.
LEMMA ForcedWaits ==
  ASSUME SoundInv, NEW c \in Callers, NEW call \in Call, call.rejected = call.account.access,
         call.at \in Processes, Ensure(c, call, TRUE)
  PROVE  RejectedCall(calls'[c], flights'[calls'[c].at], row')
<1>. DEFINE flight == flights[call.at]
<1>1. calls \in [Callers -> Call] /\ flights \in [Processes -> Flight]
  BY DEF SoundInv, TypeOK
<1>2. CASE flight.phase # "none"
  <2>. DEFINE checks == ~TakesItAsItIs(TRUE, flight)
              joinedForced == TRUE /\ flight.force
              waiting == [call EXCEPT !.state = "waiting", !.checks = FALSE, !.joinedForced = FALSE]
              k == [waiting EXCEPT !.checks = checks, !.joinedForced = joinedForced]
  <2>1. calls'[c] = k
    BY <1>1, <1>2 DEF Ensure
  <2>2. checks \/ joinedForced
    BY DEF TakesItAsItIs
  <2>. HIDE DEF checks, joinedForced
  <2>3. /\ k.state = "waiting" /\ k.rejected = call.rejected /\ k.account = call.account
        /\ k.checks = checks /\ k.joinedForced = joinedForced
    BY DEF Call
  <2>. HIDE DEF k
  <2>4. k.checks \/ k.joinedForced
    BY <2>2, <2>3
  <2>. QED
    BY <2>1, <2>3, <2>4 DEF RejectedCall
<1>3. CASE flight.phase = "none"
  <2>. DEFINE k == [call EXCEPT !.state = "waiting", !.checks = FALSE, !.joinedForced = FALSE]
              f == [NoFlight EXCEPT !.phase = "locking", !.force = TRUE, !.account = call.account]
  <2>1. calls'[c] = k /\ flights'[call.at] = f
    BY <1>1, <1>3 DEF Ensure
  <2>2. k.state = "waiting" /\ k.rejected = call.rejected /\ k.account = call.account /\ k.at = call.at
    BY DEF Call
  <2>3. f.force = TRUE /\ f.phase = "locking" /\ f.account = call.account
    BY DEF NoFlight
  <2>. HIDE DEF k, f
  <2>. QED
    BY <2>1, <2>2, <2>3 DEF RejectedCall, OwnFlight
<1>. QED
  BY <1>2, <1>3

\* What a caller does by itself.
LEMMA CallRejected ==
  ASSUME SoundInv, RejectedInv, NEW c \in Callers, CallStep(c)
  PROVE  RejectedInv'
<1>1. calls \in [Callers -> Call] /\ calls[c] \in Call
  BY DEF SoundInv, TypeOK
<1>2. /\ RejectedCall(calls[c], flights[calls[c].at], row)
      /\ calls[c].state # "idle" => calls[c].at \in Processes
  BY DEF RejectedInv, SoundInv, SoundCall
<1>3. CASE EnsureAgain(c) /\ calls[c].rejected # NoToken
  <2>1. Ensure(c, calls[c], TRUE) /\ calls[c].state = "again"
    BY <1>3 DEF EnsureAgain
  <2>2. calls[c].rejected = calls[c].account.access
    BY <1>2, <1>3, <2>1 DEF RejectedCall
  <2>. QED
    BY <1>1, <1>2, <2>1, <2>2, ForcedWaits, OneCallGoesOn
<1>4. CASE UseRefused(c)
  <2>. DEFINE k == [calls[c] EXCEPT !.rejected = calls[c].account.access]
  <2>1. Ensure(c, k, TRUE) /\ calls[c].state = "ready"
    BY <1>4 DEF UseRefused
  <2>2. calls[c].account \in Got
    BY Numbers
  <2>3. k \in Call /\ k.rejected = k.account.access /\ k.at = calls[c].at
    BY <1>1, <2>2 DEF Call, Got
  <2>. HIDE DEF k
  <2>. QED
    BY <1>2, <2>1, <2>3, ForcedWaits, OneCallGoesOn
<1>5. CASE EnsureFresh(c) \/ (EnsureAgain(c) /\ calls[c].rejected = NoToken)
  <2>1. calls[c].rejected = NoToken
    BY <1>2, <1>5 DEF EnsureFresh, RejectedCall
  <2>2. PICK force \in BOOLEAN : Ensure(c, calls[c], force)
    BY <1>5 DEF EnsureFresh, EnsureAgain
  <2>. DEFINE flight == flights[calls[c].at]
              waiting == [calls[c] EXCEPT !.state = "waiting", !.checks = FALSE, !.joinedForced = FALSE]
              joined == [waiting EXCEPT !.checks = ~TakesItAsItIs(force, flight),
                                        !.joinedForced = force /\ flight.force]
              ready == [calls[c] EXCEPT !.state = "ready"]
  <2>3. /\ waiting.rejected = NoToken /\ joined.rejected = NoToken /\ ready.rejected = NoToken
        /\ waiting.state # "loaded" /\ joined.state # "loaded" /\ ready.state # "loaded"
    BY <1>1, <2>1 DEF Call
  <2>4. \/ calls' = [calls EXCEPT ![c] = ready] \/ calls' = [calls EXCEPT ![c] = waiting]
        \/ calls' = [calls EXCEPT ![c] = joined]
    BY <2>2 DEF Ensure
  <2>. HIDE DEF ready, waiting, joined
  <2>5. calls'[c].rejected = NoToken /\ calls'[c].state # "loaded"
    BY <1>1, <2>3, <2>4
  <2>6. RejectedCall(calls'[c], flights'[calls'[c].at], row')
    BY <2>5 DEF RejectedCall
  <2>. QED
    BY <2>6, OneCallGoesOn
<1>6. CASE ~(EnsureFresh(c) \/ EnsureAgain(c) \/ UseRefused(c))
  <2>1. \/ calls' = [calls EXCEPT ![c] = NoCall]
        \/ \E p \in Processes : calls' = [calls EXCEPT ![c] =
             [NoCall EXCEPT !.state = "loaded", !.at = p, !.account = row.account]]
        \/ calls' = [calls EXCEPT ![c].state = "marking"]
    BY <1>6 DEF CallStep, Load, StopWaiting, UseAccepted, UseRefusedAgain, MarkAfterRefusal
  <2>2. /\ NoCall.state = "idle"
        /\ \A p \in Processes :
             [NoCall EXCEPT !.state = "loaded", !.at = p, !.account = row.account].rejected = NoToken
    BY DEF NoCall
  <2>3. \/ calls'[c].state \in {"idle", "marking"} \/ calls'[c].rejected = NoToken
    <3>1. CASE calls' = [calls EXCEPT ![c].state = "marking"]
      BY <1>1, <3>1 DEF Call
    <3>. QED
      BY <1>1, <2>1, <2>2, <3>1
  <2>4. RejectedCall(calls'[c], flights'[calls'[c].at], row')
    BY <2>3 DEF RejectedCall
  <2>. QED
    BY <2>4, OneCallGoesOn
<1>. QED
  BY <1>3, <1>4, <1>5, <1>6

\* A forced flight that goes on alone still ends with another token than the rejected one.
LEMMA OwnFlightGoesOn ==
  ASSUME SoundInv, NEW p \in Processes, FlightAlone(p), NEW account \in Got,
         OwnFlight(flights[p], account, row)
  PROVE  OwnFlight(flights'[p], account, row')
<1>1. /\ row'.account = row.account /\ row'.there = row.there
      /\ flights'[p].force = flights[p].force /\ flights[p].force
  BY FlightAloneDoes DEF OwnFlight
<1>2. flights \in [Processes -> Flight] /\ flights[p] \in Flight /\ flights[p].got \in Got /\ row.account \in Got
  BY Numbers DEF SoundInv, TypeOK
<1>3. ASSUME NEW phase, NEW got, MoveTo(p, phase, got)
      PROVE  flights'[p].phase = phase /\ flights'[p].account = flights[p].account
  BY <1>2, <1>3 DEF MoveTo, Flight
<1>4. ASSUME NEW phase, NEW got, Finish(p, phase, got)
      PROVE  flights'[p].phase = phase /\ flights'[p].got = got
  <2>1. flights'[p] = [phase |-> phase, force |-> flights[p].force, account |-> NoAccount, got |-> got]
    BY <1>2, <1>4 DEF Finish, NoFlight
  <2>. QED
    BY <2>1
<1>5. CASE \E phase \in {"releasing", "settling"} : Finish(p, phase, NoAccount)
  BY <1>1, <1>4, <1>5 DEF OwnFlight
<1>6. CASE AcquireLock(p) /\ MoveTo(p, "locked", NoAccount)
  <2>1. flights[p].phase = "locking"
    BY <1>6 DEF AcquireLock
  <2>. QED
    BY <1>1, <1>3, <1>6, <2>1 DEF OwnFlight
<1>7. CASE AppUnavailable(p) \/ ProviderRejects(p)
  BY <1>1, <1>3, <1>7 DEF AppUnavailable, ProviderRejects, OwnFlight
<1>8. CASE RereadRow(p) /\ MayReuse(flights[p]) /\ Finish(p, "releasing", row.account)
  <2>1. flights[p].account = account
    BY <1>8 DEF RereadRow, OwnFlight
  <2>2. row.account.access.n > account.access.n
    BY <1>1, <1>8, <2>1 DEF MayReuse, Newer
  <2>3. row.account.access.n # account.access.n
    BY <1>2, <2>2, Tokens
  <2>. QED
    BY <1>1, <1>4, <1>8, <2>3 DEF OwnFlight
<1>9. CASE RereadRow(p) /\ flights' = [flights EXCEPT ![p].phase = "refreshing", ![p].account = ToRefresh(flights[p])]
  <2>1. flights'[p].phase = "refreshing" /\ flights'[p].account = row.account
    BY <1>2, <1>9 DEF ToRefresh, Flight
  <2>. QED
    BY <1>1, <2>1 DEF OwnFlight
<1>10. CASE ReadWinner(p) /\ row.there
  <2>1. row.account.access.n # account.access.n /\ Finish(p, "releasing", row.account)
    BY <1>10 DEF ReadWinner, OwnFlight
  <2>. QED
    BY <1>1, <1>4, <2>1 DEF OwnFlight
<1>11. CASE ReleaseLock(p)
  <2>1. Finish(p, "settling", flights[p].got) /\ flights[p].phase = "releasing"
    BY <1>11 DEF ReleaseLock
  <2>. QED
    BY <1>1, <1>4, <2>1 DEF OwnFlight
<1>12. \/ \E phase \in {"releasing", "settling"} : Finish(p, phase, NoAccount)
       \/ AcquireLock(p) /\ MoveTo(p, "locked", NoAccount)
       \/ AppUnavailable(p) \/ ProviderRejects(p)
       \/ RereadRow(p) /\ MayReuse(flights[p]) /\ Finish(p, "releasing", row.account)
       \/ RereadRow(p) /\ flights' = [flights EXCEPT ![p].phase = "refreshing", ![p].account = ToRefresh(flights[p])]
       \/ ReadWinner(p) /\ row.there
       \/ ReleaseLock(p)
  BY DEF FlightAlone, AcquireLock, GiveUpLock, RereadRow, ProviderFails, StoreFails, ReadWinner, MarkReconnectRequired
<1>. QED
  BY <1>5, <1>6, <1>7, <1>8, <1>9, <1>10, <1>11, <1>12

\* So no step of a flight before it is over spoils what its callers wait for: an answer has a new
\* number, and what another flight stores is another token too.
LEMMA FlightRejected ==
  ASSUME SoundInv, NumbersInv, RejectedInv, NEW p \in Processes,
         FlightAlone(p) \/ ProviderAnswers(p) \/ StoreTokens(p)
  PROVE  RejectedInv'
<1>1. \A c \in Callers : calls[c].account \in Got
  BY Numbers
<1>2. flights \in [Processes -> Flight] /\ flights[p] \in Flight /\ flights[p].got \in Got
  BY Numbers DEF SoundInv, TypeOK
<1>3. calls' = calls /\ row'.there = row.there
  BY FlightAloneDoes DEF ProviderAnswers, StoreTokens, SoundInv, TypeOK
<1>4. ASSUME NEW c \in Callers, OwnFlight(flights[calls[c].at], calls[c].account, row), calls[c].state = "waiting"
      PROVE  OwnFlight(flights'[calls[c].at], calls[c].account, row')
  <2>. DEFINE account == calls[c].account
              q == calls[c].at
  <2>1. q \in Processes
    BY <1>4 DEF SoundInv, SoundCall
  <2>2. CASE FlightAlone(p)
    <3>1. row'.account = row.account /\ \A r \in Processes \ {p} : flights'[r] = flights[r]
      BY <2>2, FlightAloneDoes
    <3>2. CASE q = p
      BY <1>1, <1>4, <2>2, <3>2, OwnFlightGoesOn
    <3>3. CASE q # p
      <4>1. flights'[q] = flights[q]
        BY <2>1, <3>1, <3>3
      <4>. QED
        BY <1>3, <1>4, <3>1, <4>1, OwnStays
    <3>. QED
      BY <3>2, <3>3
  <2>3. CASE ProviderAnswers(p)
    <3>1. row' = row /\ flights[p].phase = "refreshing" /\ \A r \in Processes \ {p} : flights'[r] = flights[r]
      BY <1>2, <2>3 DEF ProviderAnswers, MayCall, MoveTo, Finish
    <3>2. CASE q = p
      <4>1. \/ /\ flights'[p].phase = "answered" /\ flights'[p].account = flights[p].account
               /\ flights'[p].force = flights[p].force
            \/ /\ flights'[p].phase = "releasing" /\ flights'[p].got = NoAccount
               /\ flights'[p].force = flights[p].force
        <5>1. (\E got : MoveTo(p, "answered", got)) \/ Finish(p, "releasing", NoAccount)
          BY <2>3 DEF ProviderAnswers
        <5>2. ASSUME NEW got, MoveTo(p, "answered", got)
              PROVE  /\ flights'[p].phase = "answered" /\ flights'[p].account = flights[p].account
                     /\ flights'[p].force = flights[p].force
          BY <1>2, <5>2 DEF MoveTo, Flight
        <5>3. ASSUME Finish(p, "releasing", NoAccount)
              PROVE  /\ flights'[p].phase = "releasing" /\ flights'[p].got = NoAccount
                     /\ flights'[p].force = flights[p].force
          <6>1. flights'[p] = [phase |-> "releasing", force |-> flights[p].force, account |-> NoAccount,
                               got |-> NoAccount]
            BY <1>2, <5>3 DEF Finish, NoFlight
          <6>. QED
            BY <6>1
        <5>. QED
          BY <5>1, <5>2, <5>3
      <4>. QED
        BY <1>4, <3>1, <3>2, <4>1 DEF OwnFlight
    <3>3. CASE q # p
      <4>1. flights'[q] = flights[q]
        BY <2>1, <3>1, <3>3
      <4>. QED
        BY <1>4, <3>1, <4>1
    <3>. QED
      BY <3>2, <3>3
  <2>4. CASE StoreTokens(p)
    <3>. DEFINE n == flights[p].got.access.n
                fresh == [flights[p].got EXCEPT !.refresh = KeptRefresh(@, flights[p].account.refresh)]
    <3>1. flights[p].phase = "answered" /\ \A r \in Processes \ {p} : flights'[r] = flights[r]
      BY <1>2, <2>4 DEF StoreTokens, MoveTo, Finish
    <3>2. n # account.access.n
      BY <3>1 DEF NumbersInv, AnswerIsNew, Spare, Bears
    <3>3. fresh.access = flights[p].got.access
      BY <1>2 DEF Got
    <3>. HIDE DEF fresh
    <3>4. CASE StillStored(flights[p].account)
      <4>1. row'.account.access.n = n
        BY <2>4, <3>3, <3>4 DEF StoreTokens, SoundInv, TypeOK, fresh
      <4>2. CASE q = p
        <5>1. Finish(p, "releasing", fresh)
          BY <2>4, <3>4 DEF StoreTokens, fresh
        <5>2. flights'[p] = [phase |-> "releasing", force |-> flights[p].force, account |-> NoAccount, got |-> fresh]
          BY <1>2, <5>1 DEF Finish, NoFlight
        <5>3. flights'[p].phase = "releasing" /\ flights'[p].force = flights[p].force /\ flights'[p].got = fresh
          BY <5>2
        <5>. QED
          BY <1>4, <3>2, <3>3, <4>2, <5>3 DEF OwnFlight
      <4>3. CASE q # p
        <5>1. flights'[q] = flights[q]
          BY <2>1, <3>1, <4>3
        <5>. QED
          BY <1>3, <1>4, <3>2, <4>1, <5>1, OwnStays
      <4>. QED
        BY <4>2, <4>3
    <3>5. CASE ~StillStored(flights[p].account)
      <4>1. row' = row /\ MoveTo(p, "lostRace", NoAccount)
        BY <2>4, <3>5 DEF StoreTokens
      <4>2. CASE q = p
        <5>1. flights'[p].phase = "lostRace" /\ flights'[p].force = flights[p].force
          BY <1>2, <4>1 DEF MoveTo, Flight
        <5>2. row.there => row.account # flights[p].account
          BY <3>5 DEF StillStored
        <5>. QED
          BY <1>4, <3>1, <4>1, <4>2, <5>1, <5>2 DEF OwnFlight
      <4>3. CASE q # p
        <5>1. flights'[q] = flights[q]
          BY <2>1, <3>1, <4>3
        <5>. QED
          BY <1>4, <4>1, <5>1
      <4>. QED
        BY <4>2, <4>3
    <3>. QED
      BY <3>4, <3>5
  <2>. QED
    BY <2>2, <2>3, <2>4
<1>5. \A c \in Callers : RejectedCall(calls'[c], flights'[calls'[c].at], row')
  BY <1>3, <1>4 DEF RejectedInv, RejectedCall
<1>. QED
  BY <1>5, RejectedNext

\* A result is another token than the rejected one, or is checked by who merely joined the refresh.
LEMMA SettleRejected ==
  ASSUME SoundInv, RejectedInv, NEW p \in Processes, Settle(p) \/ Crash(p)
  PROVE  RejectedInv'
<1>1. row' = row /\ \A q \in Processes \ {p} : flights'[q] = flights[q]
  BY DEF Settle, Crash, SoundInv, TypeOK
<1>2. ASSUME NEW c \in Callers PROVE RejectedCall(calls'[c], flights'[calls'[c].at], row')
  <2>1. RejectedCall(calls[c], flights[calls[c].at], row) /\ SoundCall(calls[c]) /\ calls[c] \in Call
    BY DEF RejectedInv, SoundInv, TypeOK
  <2>2. CASE calls'[c] = NoCall
    <3>1. NoCall.state = "idle"
      BY DEF NoCall
    <3>. QED
      BY <2>2, <3>1 DEF RejectedCall
  <2>3. CASE calls'[c] = calls[c] /\ (calls[c].state = "waiting" => calls[c].at # p)
    <3>1. calls[c].state = "waiting" => flights'[calls[c].at] = flights[calls[c].at]
      BY <1>1, <2>1, <2>3 DEF SoundCall
    <3>. QED
      BY <1>1, <2>1, <2>3, <3>1 DEF RejectedCall
  <2>4. CASE Settle(p) /\ calls[c].state = "waiting" /\ calls[c].at = p /\ calls'[c] # NoCall
    <3>. DEFINE result == flights[p].got
                again == [calls[c] EXCEPT !.state = "again"]
                ready == [calls[c] EXCEPT !.state = "ready", !.account = result, !.checks = FALSE]
    <3>1. flights[p].phase = "settling" /\ calls'[c] = Answered(calls[c], result)
      BY <2>4 DEF Settle
    <3>2. /\ again.state = "again" /\ again.account = calls[c].account /\ again.rejected = calls[c].rejected
          /\ ready.state = "ready" /\ ready.account = result /\ ready.rejected = calls[c].rejected
          /\ ready.joinedForced = calls[c].joinedForced
      BY <2>1 DEF Call
    <3>3. result # NoAccount
      BY <2>4, <3>1 DEF Answered
    <3>4. CASE calls[c].checks /\ ~Newer(result, calls[c].account)
      <4>1. calls'[c] = again
        BY <3>1, <3>3, <3>4 DEF Answered
      <4>. HIDE DEF again
      <4>. QED
        BY <2>1, <2>4, <3>2, <4>1 DEF RejectedCall
    <3>5. CASE ~(calls[c].checks /\ ~Newer(result, calls[c].account))
      <4>1. calls'[c] = ready
        BY <3>1, <3>3, <3>5 DEF Answered
      <4>2. calls[c].rejected # NoToken /\ ~calls[c].joinedForced => result.access # calls[c].rejected
        <5>1. CASE Newer(result, calls[c].account)
          <6>1. calls[c].account \in Got /\ result \in Got
            BY Numbers
          <6>2. result.access.n # calls[c].account.access.n
            BY <5>1, <6>1, Tokens DEF Newer
          <6>. QED
            BY <2>1, <2>4, <6>2 DEF RejectedCall
        <5>2. CASE ~calls[c].checks
          BY <2>1, <2>4, <3>1, <3>3, <5>2 DEF RejectedCall, OwnFlight
        <5>. QED
          BY <3>5, <5>1, <5>2
      <4>. HIDE DEF ready, result
      <4>. QED
        BY <3>2, <4>1, <4>2 DEF RejectedCall
    <3>. QED
      BY <3>4, <3>5
  <2>5. \/ calls'[c] = NoCall
        \/ calls'[c] = calls[c] /\ (calls[c].state = "waiting" => calls[c].at # p)
        \/ Settle(p) /\ calls[c].state = "waiting" /\ calls[c].at = p
    BY DEF Settle, Crash
  <2>. QED
    BY <2>2, <2>3, <2>4, <2>5
<1>3. \A c \in Callers : RejectedCall(calls'[c], flights'[calls'[c].at], row')
  BY <1>2
<1>. QED
  BY <1>3, RejectedNext

\* A reconnect brings another token; others leave the token of the row.
LEMMA OthersRejected ==
  ASSUME SoundInv, NumbersInv, RejectedInv,
         \/ StoreConsent
         \/ UNCHANGED <<flights, calls, row.account>> /\ (row'.there => row.there)
  PROVE  RejectedInv'
<1>1. UNCHANGED <<flights, calls>> /\ (row'.there => row.there)
  BY DEF StoreConsent, MayStoreConsent
<1>2. row'.account = row.account \/ \A c \in Callers : row'.account.access.n # calls[c].account.access.n
  <2>1. CASE StoreConsent
    <3>1. consent \in Got /\ consent # NoAccount
      BY <2>1, Numbers DEF StoreConsent
    <3>2. row'.account.access = consent.access
      BY <2>1, <3>1 DEF StoreConsent, Got
    <3>. QED
      BY <3>1, <3>2 DEF NumbersInv, ConsentIsNew, Spare, Bears
  <2>. QED
    BY <2>1
<1>3. \A c \in Callers :
        OwnFlight(flights[calls[c].at], calls[c].account, row)
          => OwnFlight(flights'[calls[c].at], calls[c].account, row')
  BY <1>1, <1>2, OwnStays
<1>. QED
  BY <1>1, <1>3, CallersWait

\* A caller whose token was rejected is never handed that token again, neither by its own refresh
\* nor by one it joined, however many processes refresh, store and reconnect meanwhile.
\* (ensureFreshOAuthAccount)
THEOREM RejectedIsNotReturned == Spec => []RejectedNotReturned
<1>1. Init => RejectedInv
  <2>1. NoCall.state = "idle"
    BY DEF NoCall
  <2>. QED
    BY <2>1 DEF Init, RejectedInv, RejectedCall
<1>2. SoundInv /\ NumbersInv /\ RejectedInv /\ [Next]_vars => RejectedInv'
  <2>. SUFFICES ASSUME SoundInv, NumbersInv, RejectedInv, [Next]_vars PROVE RejectedInv'
    OBVIOUS
  <2>1. CASE \E c \in Callers : CallStep(c)
    BY <2>1, CallRejected
  <2>2. CASE \E p \in Processes : FlightStep(p) \/ Crash(p)
    BY <2>2, FlightRejected, SettleRejected DEF FlightStep, FlightAlone
  <2>3. CASE \/ UNCHANGED vars \/ LockExpires \/ DeleteRow \/ AccessAges \/ RefuseAccess
             \/ Consent \/ ConsentWithoutRefreshToken \/ DropConsent
             \/ \E g \in Grants : RevokeGrant(g)
             \/ \E f \in Flows, status \in {"active", "disabled"} : SetGoogleAppStatus(f, status)
    <3>1. UNCHANGED <<flights, calls, row.account>> /\ (row'.there => row.there)
      BY <2>3 DEF vars, LockExpires, DeleteRow, AccessAges, RefuseAccess, RevokeGrant, Consent, DropConsent,
         ConsentWithoutRefreshToken, SetGoogleAppStatus, SoundInv, TypeOK
    <3>. QED
      BY <3>1, OthersRejected
  <2>. QED
    BY <2>1, <2>2, <2>3, OthersRejected DEF Next
<1>3. RejectedInv => RejectedNotReturned
  BY DEF RejectedInv, RejectedCall, RejectedNotReturned
<1>. QED
  BY <1>1, <1>2, <1>3, AccountsAreSound, NumbersStayApart, PTL DEF Spec

-------------------------------------------------------------------------------
(* Stranded grants *)

\* While no refresh outlives the lock, one flight at most is under it, ...
HeldLock == \A p \in Processes : Holding(p) => lock = p

\* ... so the flow of the grant a flight refreshes stays.
FlowStays ==
  \A p \in Processes :
    flights[p].phase \in {"refreshing", "answered"} /\ row.account.refresh = flights[p].account.refresh
      => row.account.flow = flights[p].account.flow

LockInv == ~StallsOutliveLock => HeldLock /\ FlowStays

Honoured(token) == token \in live \/ token.grant \in revoked

\* A refresh token about to be stored is honoured.
NewTokensHonoured ==
  /\ \A p \in Processes :
       flights[p].phase = "answered" /\ flights[p].got.refresh # NoToken => Honoured(flights[p].got.refresh)
  /\ consent.refresh # NoToken => Honoured(consent.refresh)

\* Its successor is about to be stored.
Succeeded(token) ==
  \E p \in Processes : /\ flights[p].phase = "answered" /\ flights[p].account.refresh = token
                       /\ flights[p].got.refresh # NoToken

StoredInv ==
  LET stored == row.account.refresh IN
  ~StallsOutliveLock /\ row.there => Honoured(stored) \/ stored.grant \in lost \/ Succeeded(stored)

\* A caller starts a flight only where there is none.
LEMMA CallStarts ==
  ASSUME SoundInv, NEW c \in Callers, CallStep(c)
  PROVE  /\ row'.account = row.account /\ row'.there = row.there /\ UNCHANGED <<consent, live, revoked, lock, lost>>
         /\ \A p \in Processes : \/ flights'[p] = flights[p]
                                 \/ flights[p].phase = "none" /\ flights'[p].phase = "locking"
<1>1. /\ row'.account = row.account /\ row'.there = row.there /\ UNCHANGED <<consent, live, revoked, lock, lost>>
      /\ \A p \in Processes :
           \/ flights'[p] = flights[p]
           \/ \E force \in BOOLEAN :
                /\ flights[p].phase = "none"
                /\ flights'[p] = [NoFlight EXCEPT !.phase = "locking", !.force = force,
                                                  !.account = calls[c].account]
  BY CallDoes
<1>2. ASSUME NEW p \in Processes, flights'[p] # flights[p]
      PROVE  flights[p].phase = "none" /\ flights'[p].phase = "locking"
  <2>1. PICK force \in BOOLEAN :
          /\ flights[p].phase = "none"
          /\ flights'[p] = [NoFlight EXCEPT !.phase = "locking", !.force = force, !.account = calls[c].account]
    BY <1>1, <1>2
  <2>. QED
    BY <2>1 DEF NoFlight
<1>. QED
  BY <1>1, <1>2

\* What an answer, lost or not, changes.
LEMMA AnswerDoes ==
  ASSUME SoundInv, NEW p \in Processes, ProviderAnswers(p)
  PROVE  /\ UNCHANGED <<row, lock, consent, revoked, calls>> /\ lost \subseteq lost'
         /\ flights[p].phase = "refreshing" /\ \A q \in Processes \ {p} : flights'[q] = flights[q]
         /\ \/ /\ flights'[p].phase = "answered" /\ flights'[p].account = flights[p].account
               /\ \/ flights'[p].got.refresh = NoToken /\ live' = live
                  \/ /\ flights'[p].got.refresh \in live' /\ flights'[p].got.refresh # NoToken
                     /\ live \ {flights[p].account.refresh} \subseteq live'
            \/ /\ flights'[p].phase = "releasing"
               /\ \/ live' = live
                  \/ /\ live \ {flights[p].account.refresh} \subseteq live'
                     /\ flights[p].account.refresh.grant \in lost'
<1>1. flights \in [Processes -> Flight] /\ flights[p] \in Flight /\ issued \in Nat
  BY Numbers DEF SoundInv, TypeOK
<1>. DEFINE account == flights[p].account
            token == [n |-> issued + 1, grant |-> account.refresh.grant]
<1>2. PICK rotates \in BOOLEAN :
        /\ live' = IF rotates THEN (live \ {account.refresh}) \cup {token} ELSE live
        /\ \/ /\ MoveTo(p, "answered",
                   [access |-> token, refresh |-> IF rotates THEN token ELSE NoToken,
                    flow |-> IF provider = "microsoft" THEN trueFlow[token.grant] ELSE account.flow])
              /\ UNCHANGED <<upsets, lost>>
           \/ /\ Upset
              /\ Finish(p, "releasing", NoAccount)
              /\ lost' = IF rotates THEN lost \cup {token.grant} ELSE lost
  BY DEF ProviderAnswers
<1>3. /\ UNCHANGED <<row, lock, consent, revoked, calls>> /\ lost \subseteq lost' /\ flights[p].phase = "refreshing"
      /\ \A q \in Processes \ {p} : flights'[q] = flights[q]
  <2>1. /\ UNCHANGED <<row, lock, consent, revoked, calls>> /\ flights[p].phase = "refreshing"
    BY DEF ProviderAnswers, MayCall
  <2>2. lost \subseteq lost'
    BY <1>2
  <2>3. \A q \in Processes \ {p} : flights'[q] = flights[q]
    BY <1>1, <1>2 DEF MoveTo, Finish
  <2>. QED
    BY <2>1, <2>2, <2>3
<1>4. token # NoToken /\ token.grant = account.refresh.grant
  BY <1>1 DEF NoToken
<1>. DEFINE got == [access |-> token, refresh |-> IF rotates THEN token ELSE NoToken,
                    flow |-> IF provider = "microsoft" THEN trueFlow[token.grant] ELSE account.flow]
<1>5. got.refresh = IF rotates THEN token ELSE NoToken
  OBVIOUS
<1>. HIDE DEF got, token
<1>6. CASE MoveTo(p, "answered", got)
  <2>1. flights'[p].phase = "answered" /\ flights'[p].account = account /\ flights'[p].got = got
    BY <1>1, <1>6 DEF MoveTo, Flight
  <2>. QED
    BY <1>2, <1>3, <1>4, <1>5, <2>1
<1>7. CASE Finish(p, "releasing", NoAccount) /\ lost' = IF rotates THEN lost \cup {token.grant} ELSE lost
  <2>1. flights'[p] = [phase |-> "releasing", force |-> flights[p].force, account |-> NoAccount, got |-> NoAccount]
    BY <1>1, <1>7 DEF Finish, NoFlight
  <2>2. flights'[p].phase = "releasing"
    BY <2>1
  <2>. QED
    BY <1>2, <1>3, <1>4, <1>7, <2>2
<1>. QED
  BY <1>2, <1>6, <1>7 DEF got

\* What a store changes.
LEMMA StoreDoes ==
  ASSUME SoundInv, NEW p \in Processes, StoreTokens(p)
  PROVE  /\ UNCHANGED <<lock, consent, live, revoked, lost, calls>> /\ row'.there = row.there
         /\ flights[p].phase = "answered" /\ \A q \in Processes \ {p} : flights'[q] = flights[q]
         /\ flights'[p].phase \in {"releasing", "lostRace"}
         /\ IF StillStored(flights[p].account)
            THEN row'.account.refresh = IF flights[p].got.refresh = NoToken THEN row.account.refresh
                                                                            ELSE flights[p].got.refresh
            ELSE row' = row
<1>1. flights \in [Processes -> Flight] /\ flights[p] \in Flight /\ row.there \in BOOLEAN
  BY DEF SoundInv, TypeOK
<1>2. /\ UNCHANGED <<lock, consent, live, revoked, lost, calls>> /\ row'.there = row.there
      /\ flights[p].phase = "answered"
  BY DEF StoreTokens, providerVars, SoundInv, TypeOK
<1>3. \A q \in Processes \ {p} : flights'[q] = flights[q]
  BY <1>1 DEF StoreTokens, MoveTo, Finish
<1>4. ASSUME NEW got, Finish(p, "releasing", got) PROVE flights'[p].phase = "releasing"
  <2>1. flights'[p] = [phase |-> "releasing", force |-> flights[p].force, account |-> NoAccount, got |-> got]
    BY <1>1, <1>4 DEF Finish, NoFlight
  <2>. QED
    BY <2>1
<1>5. CASE StillStored(flights[p].account)
  <2>1. row'.account.refresh = KeptRefresh(flights[p].got.refresh, row.account.refresh)
    BY <1>5 DEF StoreTokens, SoundInv, TypeOK
  <2>2. \E got : Finish(p, "releasing", got)
    BY <1>5 DEF StoreTokens
  <2>. QED
    BY <1>2, <1>3, <1>4, <1>5, <2>1, <2>2 DEF KeptRefresh
<1>6. CASE ~StillStored(flights[p].account)
  <2>1. row' = row /\ MoveTo(p, "lostRace", NoAccount)
    BY <1>6 DEF StoreTokens
  <2>2. flights'[p].phase = "lostRace"
    BY <1>1, <2>1 DEF MoveTo, Flight
  <2>. QED
    BY <1>2, <1>3, <1>6, <2>1, <2>2
<1>. QED
  BY <1>5, <1>6

\* A flight that goes on alone takes or gives up the lock, or keeps what it had.
LEMMA FlightAloneLocks ==
  ASSUME SoundInv, NEW p \in Processes, FlightAlone(p)
  PROVE  /\ flights'[p].phase = "refreshing" => flights'[p].account = row.account
         /\ \/ lock' = lock /\ (Holding(p)' => Holding(p))
            \/ lock = NoProcess /\ lock' = p
            \/ lock = p /\ ~Holding(p)'
         /\ flights[p].phase = "answered" => StoreFails(p)
<1>1. flights \in [Processes -> Flight] /\ flights[p] \in Flight
  BY DEF SoundInv, TypeOK
<1>2. ASSUME NEW phase, NEW got, MoveTo(p, phase, got) PROVE flights'[p].phase = phase
  BY <1>1, <1>2 DEF MoveTo, Flight
<1>3. ASSUME NEW phase, NEW got, Finish(p, phase, got) PROVE flights'[p].phase = phase
  <2>1. flights'[p] = [phase |-> phase, force |-> flights[p].force, account |-> NoAccount, got |-> got]
    BY <1>1, <1>3 DEF Finish, NoFlight
  <2>. QED
    BY <2>1
<1>4. flights[p].phase = "answered" => StoreFails(p)
  BY DEF FlightAlone, AcquireLock, GiveUpLock, RereadRow, AppUnavailable, ProviderRejects, ProviderFails, MayCall,
         ReadWinner, MarkReconnectRequired, ReleaseLock
<1>5. CASE AcquireLock(p)
  <2>1. flights'[p].phase \in {"locked", "settling"} /\ lock = NoProcess /\ lock' = p
    BY <1>2, <1>3, <1>5 DEF AcquireLock
  <2>. QED
    BY <1>4, <2>1
<1>6. CASE ReleaseLock(p)
  <2>1. flights'[p].phase = "settling" /\ (lock' = lock \/ lock = p)
    BY <1>3, <1>6 DEF ReleaseLock
  <2>. QED
    BY <1>4, <2>1 DEF Holding
<1>7. CASE GiveUpLock(p)
  <2>1. flights'[p].phase = "settling" /\ lock' = lock
    BY <1>3, <1>7 DEF GiveUpLock
  <2>. QED
    BY <1>4, <2>1 DEF Holding
<1>8. CASE RereadRow(p) /\ flights' = [flights EXCEPT ![p].phase = "refreshing", ![p].account = ToRefresh(flights[p])]
  <2>1. flights'[p].account = row.account /\ lock' = lock /\ flights[p].phase = "locked"
    BY <1>1, <1>8 DEF RereadRow, ToRefresh, Flight
  <2>. QED
    BY <1>4, <2>1 DEF Holding
<1>9. CASE \/ RereadRow(p) /\ \E got : Finish(p, "releasing", got)
           \/ AppUnavailable(p) \/ ProviderRejects(p) \/ ProviderFails(p) \/ StoreFails(p) \/ ReadWinner(p)
           \/ MarkReconnectRequired(p)
  <2>1. /\ lock' = lock /\ Holding(p)
        /\ \/ \E got : Finish(p, "releasing", got)
           \/ MoveTo(p, "appGone", NoAccount) \/ MoveTo(p, "rejected", NoAccount)
    BY <1>9 DEF RereadRow, AppUnavailable, ProviderRejects, ProviderFails, StoreFails, ReadWinner, MayCall,
       MarkReconnectRequired, Holding
  <2>2. flights'[p].phase # "refreshing"
    BY <1>2, <1>3, <2>1
  <2>. QED
    BY <1>4, <2>1, <2>2
<1>. QED
  BY <1>5, <1>6, <1>7, <1>8, <1>9 DEF FlightAlone, RereadRow

\* The steps of others that leave the lock, the flights and the grant of the row alone.
LEMMA OthersLeave ==
  ASSUME SoundInv,
         \/ UNCHANGED vars \/ DeleteRow \/ AccessAges \/ RefuseAccess
         \/ Consent \/ ConsentWithoutRefreshToken \/ DropConsent
         \/ \E g \in Grants : RevokeGrant(g)
         \/ \E f \in Flows, status \in {"active", "disabled"} : SetGoogleAppStatus(f, status)
  PROVE  UNCHANGED <<flights, lock, lost, row.account>> /\ (row'.there => row.there)
BY DEF vars, DeleteRow, AccessAges, RefuseAccess, RevokeGrant, Consent, DropConsent, ConsentWithoutRefreshToken,
   SetGoogleAppStatus, SoundInv, TypeOK

\* What storing a consent changes: the refresh token, unless it brings none and is of the same flow.
LEMMA StoreConsentDoes ==
  ASSUME SoundInv, StoreConsent
  PROVE  /\ UNCHANGED <<flights, lock, live, revoked, lost, calls>> /\ row.there /\ consent # NoAccount
         /\ consent' = NoAccount
         /\ IF consent.refresh = NoToken
            THEN row'.account.refresh = row.account.refresh /\ row'.account.flow = row.account.flow
            ELSE row'.account.refresh = consent.refresh /\ consent.refresh = consent.access
<1>1. /\ UNCHANGED <<flights, lock, live, revoked, lost, calls>> /\ row.there /\ consent # NoAccount
      /\ consent' = NoAccount
      /\ row'.account = [consent EXCEPT !.refresh = KeptRefresh(@, row.account.refresh)]
  BY DEF StoreConsent, MayStoreConsent, providerVars
<1>2. consent \in Got
  BY Numbers
<1>3. row'.account.refresh = KeptRefresh(consent.refresh, row.account.refresh) /\ row'.account.flow = consent.flow
  BY <1>1, <1>2 DEF Got
<1>4. /\ consent.access \in Token
      /\ \/ consent.refresh = consent.access
         \/ consent.refresh = NoToken /\ consent.flow = row.account.flow
  BY <1>1 DEF SoundInv, SoundConsent
<1>. QED
  BY <1>1, <1>3, <1>4, Tokens DEF KeptRefresh

\* One flight at most is under the lock, and the flow of what it refreshes stays.
LEMMA LockStep ==
  ASSUME SoundInv, NumbersInv, LockInv, [Next]_vars
  PROVE  LockInv'
<1>1. StallsOutliveLock' = StallsOutliveLock
  BY GroundStays, SameSets
<1>2. SUFFICES ASSUME ~StallsOutliveLock PROVE HeldLock' /\ FlowStays'
  BY <1>1 DEF LockInv
<1>3. /\ \A p \in Processes : Holding(p) => lock = p
      /\ \A p \in Processes :
           flights[p].phase \in {"refreshing", "answered"} /\ row.account.refresh = flights[p].account.refresh
             => row.account.flow = flights[p].account.flow
  BY <1>2 DEF LockInv, HeldLock, FlowStays
<1>4. CASE \E c \in Callers : CallStep(c)
  <2>1. PICK c \in Callers : CallStep(c)
    BY <1>4
  <2>2. /\ row'.account = row.account /\ lock' = lock
        /\ \A p \in Processes : \/ flights'[p] = flights[p]
                                \/ flights[p].phase = "none" /\ flights'[p].phase = "locking"
    BY <2>1, CallStarts
  <2>. QED
    BY <1>3, <2>2 DEF HeldLock, FlowStays, Holding
<1>5. CASE \E p \in Processes : FlightAlone(p)
  <2>1. PICK p \in Processes : FlightAlone(p)
    BY <1>5
  <2>2. /\ row'.account = row.account /\ flights'[p].phase # "answered"
        /\ \A q \in Processes \ {p} : flights'[q] = flights[q]
    BY <2>1, FlightAloneDoes
  <2>3. /\ flights'[p].phase = "refreshing" => flights'[p].account = row.account
        /\ \/ lock' = lock /\ (Holding(p)' => Holding(p))
           \/ lock = NoProcess /\ lock' = p
           \/ lock = p /\ ~Holding(p)'
    BY <2>1, FlightAloneLocks
  <2>4. HeldLock'
    BY <1>3, <2>2, <2>3, ProcessesAssumption DEF HeldLock, Holding
  <2>5. FlowStays'
    BY <1>3, <2>2, <2>3 DEF FlowStays
  <2>. QED
    BY <2>4, <2>5
<1>6. CASE \E p \in Processes : ProviderAnswers(p)
  <2>1. PICK p \in Processes : ProviderAnswers(p)
    BY <1>6
  <2>2. /\ row' = row /\ lock' = lock /\ flights[p].phase = "refreshing"
        /\ \A q \in Processes \ {p} : flights'[q] = flights[q]
        /\ \/ flights'[p].phase = "answered" /\ flights'[p].account = flights[p].account
           \/ flights'[p].phase = "releasing"
    BY <2>1, AnswerDoes
  <2>. QED
    BY <1>3, <2>2 DEF HeldLock, FlowStays, Holding
<1>7. CASE \E p \in Processes : StoreTokens(p)
  <2>1. PICK p \in Processes : StoreTokens(p)
    BY <1>7
  <2>2. /\ lock' = lock /\ flights[p].phase = "answered" /\ flights'[p].phase \in {"releasing", "lostRace"}
        /\ \A q \in Processes \ {p} : flights'[q] = flights[q]
    BY <2>1, StoreDoes
  <2>3. \A q \in Processes \ {p} : flights[q].phase \notin {"refreshing", "answered"}
    BY <1>3, <2>2 DEF Holding
  <2>. QED
    BY <1>3, <2>2, <2>3 DEF HeldLock, FlowStays, Holding
<1>8. CASE \E p \in Processes : Settle(p) \/ Crash(p)
  <2>1. PICK p \in Processes : Settle(p) \/ Crash(p)
    BY <1>8
  <2>2. /\ row' = row /\ lock' = lock /\ flights'[p].phase = "none"
        /\ \A q \in Processes \ {p} : flights'[q] = flights[q]
    BY <2>1 DEF Settle, Crash, NoFlight, SoundInv, TypeOK
  <2>. QED
    BY <1>3, <2>2 DEF HeldLock, FlowStays, Holding
<1>9. CASE LockExpires
  BY <1>2, <1>3, <1>9 DEF LockExpires, HeldLock, FlowStays, Holding
<1>10. CASE StoreConsent
  <2>1. /\ UNCHANGED <<flights, lock>> /\ consent # NoAccount
        /\ IF consent.refresh = NoToken
           THEN row'.account.refresh = row.account.refresh /\ row'.account.flow = row.account.flow
           ELSE row'.account.refresh = consent.refresh /\ consent.refresh = consent.access
    BY <1>10, StoreConsentDoes
  <2>2. consent.refresh = consent.access => \A p \in Processes : flights[p].account.refresh # consent.refresh
    BY <2>1 DEF NumbersInv, ConsentIsNew, Spare, Bears
  <2>. QED
    BY <1>3, <2>1, <2>2 DEF HeldLock, FlowStays, Holding
<1>11. CASE UNCHANGED <<flights, lock, row.account>>
  BY <1>3, <1>11 DEF HeldLock, FlowStays, Holding
<1>. QED
  BY <1>4, <1>5, <1>6, <1>7, <1>8, <1>9, <1>10, <1>11, OthersLeave DEF Next, FlightStep, FlightAlone

\* Only the answer to a flight that was shown the token takes an honoured one away.
LEMMA HonouredStays ==
  ASSUME SoundInv, [Next]_vars, NEW token, Honoured(token),
         \A p \in Processes : ProviderAnswers(p) => token # flights[p].account.refresh
  PROVE  token \in live' \/ token.grant \in revoked'
<1>1. CASE \E p \in Processes : ProviderAnswers(p)
  <2>1. PICK p \in Processes : ProviderAnswers(p)
    BY <1>1
  <2>2. live \ {flights[p].account.refresh} \subseteq live' /\ revoked' = revoked
    BY <2>1, AnswerDoes
  <2>. QED
    BY <2>1, <2>2 DEF Honoured
<1>2. CASE \E g \in Grants : RevokeGrant(g)
  BY <1>2 DEF RevokeGrant, Honoured
<1>3. CASE \E c \in Callers : CallStep(c)
  BY <1>3, CallStarts DEF Honoured
<1>4. CASE \E p \in Processes : FlightAlone(p) \/ StoreTokens(p) \/ Settle(p) \/ Crash(p)
  <2>1. live' = live /\ revoked' = revoked
    BY <1>4, FlightAloneDoes DEF StoreTokens, Settle, Crash, providerVars
  <2>. QED
    BY <2>1 DEF Honoured
<1>5. CASE \/ UNCHANGED vars \/ LockExpires \/ DeleteRow \/ AccessAges \/ RefuseAccess
           \/ Consent \/ ConsentWithoutRefreshToken \/ DropConsent \/ StoreConsent
           \/ \E f \in Flows, status \in {"active", "disabled"} : SetGoogleAppStatus(f, status)
  <2>1. live \subseteq live' /\ revoked' = revoked
    BY <1>5 DEF vars, providerVars, LockExpires, DeleteRow, AccessAges, RefuseAccess, Consent, DropConsent,
       ConsentWithoutRefreshToken, StoreConsent, SetGoogleAppStatus
  <2>. QED
    BY <2>1 DEF Honoured
<1>. QED
  BY <1>1, <1>2, <1>3, <1>4, <1>5 DEF Next, FlightStep, FlightAlone

\* Who has an answer after a step had it before, or has just been answered; who had one still has it,
\* or stored it, or lost it.
LEMMA AnswersComeAndGo ==
  ASSUME SoundInv, [Next]_vars, NEW q \in Processes
  PROVE  /\ flights'[q].phase = "answered" => flights'[q] = flights[q] \/ ProviderAnswers(q)
         /\ flights[q].phase = "answered" =>
              flights'[q] = flights[q] \/ StoreTokens(q) \/ StoreFails(q) \/ Crash(q)
<1>1. CASE \E c \in Callers : CallStep(c)
  <2>1. PICK c \in Callers : CallStep(c)
    BY <1>1
  <2>2. flights'[q] = flights[q] \/ (flights[q].phase = "none" /\ flights'[q].phase = "locking")
    BY <2>1, CallStarts
  <2>. QED
    BY <2>2
<1>2. CASE \E p \in Processes : FlightAlone(p)
  <2>1. PICK p \in Processes : FlightAlone(p)
    BY <1>2
  <2>2. /\ flights'[p].phase # "answered" /\ (flights[p].phase = "answered" => StoreFails(p))
        /\ \A r \in Processes \ {p} : flights'[r] = flights[r]
    BY <2>1, FlightAloneDoes, FlightAloneLocks
  <2>. QED
    BY <2>2
<1>3. CASE \E p \in Processes : ProviderAnswers(p)
  <2>1. PICK p \in Processes : ProviderAnswers(p)
    BY <1>3
  <2>2. flights[p].phase = "refreshing" /\ \A r \in Processes \ {p} : flights'[r] = flights[r]
    BY <2>1, AnswerDoes
  <2>. QED
    BY <2>1, <2>2
<1>4. CASE \E p \in Processes : StoreTokens(p)
  <2>1. PICK p \in Processes : StoreTokens(p)
    BY <1>4
  <2>2. /\ flights'[p].phase \in {"releasing", "lostRace"} /\ \A r \in Processes \ {p} : flights'[r] = flights[r]
    BY <2>1, StoreDoes
  <2>. QED
    BY <2>1, <2>2
<1>5. CASE \E p \in Processes : Settle(p) \/ Crash(p)
  <2>1. PICK p \in Processes : Settle(p) \/ Crash(p)
    BY <1>5
  <2>2. flights' = [flights EXCEPT ![p] = NoFlight] /\ (flights[p].phase = "answered" => Crash(p))
    BY <2>1 DEF Settle, Crash
  <2>3. NoFlight.phase = "none"
    BY DEF NoFlight
  <2>4. /\ flights'[p].phase = "none" /\ \A r \in Processes \ {p} : flights'[r] = flights[r]
    BY <2>2, <2>3 DEF SoundInv, TypeOK
  <2>. QED
    BY <2>2, <2>4
<1>6. CASE UNCHANGED flights
  BY <1>6
<1>7. LockExpires \/ StoreConsent => UNCHANGED flights
  BY DEF LockExpires, StoreConsent
<1>. QED
  BY <1>1, <1>2, <1>3, <1>4, <1>5, <1>6, <1>7, OthersLeave DEF Next, FlightStep, FlightAlone

\* A refresh token that is about to be stored stays honoured: nobody else is shown it.
LEMMA NewTokensStep ==
  ASSUME SoundInv, NumbersInv, NewTokensHonoured, [Next]_vars
  PROVE  NewTokensHonoured'
<1>1. ASSUME NEW q \in Processes, flights'[q].phase = "answered", flights'[q].got.refresh # NoToken
      PROVE  Honoured(flights[q].got.refresh)'
  <2>1. CASE ProviderAnswers(q)
    <3>1. flights'[q].got.refresh \in live'
      BY <1>1, <2>1, AnswerDoes
    <3>. QED
      BY <3>1 DEF Honoured
  <2>2. CASE flights'[q] = flights[q]
    <3>. DEFINE token == flights[q].got.refresh
    <3>1. Honoured(token) /\ token = flights[q].got.access
      BY <1>1, <2>2, Tokens DEF NewTokensHonoured, SoundInv, SoundFlight, Answer
    <3>2. \A p \in Processes : token # flights[p].account.refresh
      BY <1>1, <2>2, <3>1 DEF NumbersInv, AnswerIsNew, Spare, Bears
    <3>. HIDE DEF token
    <3>3. token \in live' \/ token.grant \in revoked'
      BY <3>1, <3>2, HonouredStays
    <3>. USE DEF token
    <3>. QED
      BY <2>2, <3>3 DEF Honoured
  <2>. QED
    BY <1>1, <2>1, <2>2, AnswersComeAndGo
<1>2. ASSUME consent'.refresh # NoToken PROVE Honoured(consent.refresh)'
  <2>1. consent' = consent \/ Consent \/ consent'.refresh = NoToken
    <3>1. CASE \E c \in Callers : CallStep(c)
      BY <3>1, CallStarts
    <3>2. CASE \E p \in Processes : FlightStep(p) \/ Crash(p)
      <4>1. (\E p \in Processes : FlightAlone(p)) => consent' = consent
        BY FlightAloneDoes
      <4>. QED
        BY <3>2, <4>1 DEF FlightStep, FlightAlone, ProviderAnswers, StoreTokens, Settle, Crash
    <3>3. CASE ConsentWithoutRefreshToken \/ DropConsent \/ StoreConsent
      <4>1. NoAccount.refresh = NoToken
        BY DEF NoAccount
      <4>. QED
        BY <3>3, <4>1 DEF ConsentWithoutRefreshToken, DropConsent, StoreConsent
    <3>. QED
      BY <3>1, <3>2, <3>3 DEF Next, vars, LockExpires, RevokeGrant, SetGoogleAppStatus, DeleteRow, AccessAges,
         RefuseAccess
  <2>2. CASE Consent
    <3>1. consent'.refresh \in live'
      BY <2>2 DEF Consent
    <3>. QED
      BY <3>1 DEF Honoured
  <2>3. CASE consent' = consent
    <3>. DEFINE token == consent.refresh
    <3>1. consent # NoAccount
      BY <1>2, <2>3 DEF NoAccount
    <3>2. Honoured(token) /\ token = consent.access
      BY <1>2, <2>3, <3>1 DEF NewTokensHonoured, SoundInv, SoundConsent
    <3>3. \A p \in Processes : token # flights[p].account.refresh
      BY <3>1, <3>2 DEF NumbersInv, ConsentIsNew, Spare, Bears
    <3>. HIDE DEF token
    <3>4. token \in live' \/ token.grant \in revoked'
      BY <3>2, <3>3, HonouredStays
    <3>. USE DEF token
    <3>. QED
      BY <2>3, <3>4 DEF Honoured
  <2>. QED
    BY <1>2, <2>1, <2>2, <2>3
<1>. QED
  BY <1>1, <1>2 DEF NewTokensHonoured

\* A stored refresh token stays honoured until an answer replaces it, and then that answer is
\* stored, or lost.
LEMMA StoredStep ==
  ASSUME SoundInv, NumbersInv, LockInv, NewTokensHonoured, StoredInv, [Next]_vars
  PROVE  StoredInv'
<1>1. StallsOutliveLock' = StallsOutliveLock
  BY GroundStays, SameSets
<1>. DEFINE stored == row.account.refresh
<1>2. SUFFICES ASSUME ~StallsOutliveLock, row'.there
               PROVE  LET s == row'.account.refresh IN
                      s \in live' \/ s.grant \in revoked' \/ s.grant \in lost' \/ Succeeded(row.account.refresh)'
  BY <1>1 DEF StoredInv, Honoured
<1>3. row.there => Honoured(stored) \/ stored.grant \in lost \/ Succeeded(stored)
  BY <1>2 DEF StoredInv
<1>4. CASE \E p \in Processes : StoreTokens(p)
  <2>1. PICK p \in Processes : StoreTokens(p)
    BY <1>4
  <2>2. /\ UNCHANGED <<live, revoked, lost>> /\ row'.there = row.there
        /\ flights[p].phase = "answered" /\ \A q \in Processes \ {p} : flights'[q] = flights[q]
        /\ IF StillStored(flights[p].account)
           THEN row'.account.refresh = IF flights[p].got.refresh = NoToken THEN stored ELSE flights[p].got.refresh
           ELSE row' = row
    BY <2>1, StoreDoes
  <2>3. CASE StillStored(flights[p].account) /\ flights[p].got.refresh # NoToken
    BY <2>2, <2>3 DEF NewTokensHonoured, Honoured
  <2>4. CASE ~(StillStored(flights[p].account) /\ flights[p].got.refresh # NoToken)
    <3>1. row'.account.refresh = stored
      BY <2>2, <2>4
    <3>2. CASE Honoured(stored) \/ stored.grant \in lost
      BY <2>2, <3>1, <3>2 DEF Honoured
    <3>3. CASE Succeeded(stored)
      <4>1. PICK q \in Processes : /\ flights[q].phase = "answered" /\ flights[q].account.refresh = stored
                                   /\ flights[q].got.refresh # NoToken
        BY <3>3 DEF Succeeded
      <4>2. StillStored(flights[q].account)
        BY <1>2, <2>2, <4>1 DEF LockInv, FlowStays, StillStored
      <4>3. q # p
        BY <2>4, <4>1, <4>2
      <4>4. flights'[q] = flights[q]
        BY <2>2, <4>3
      <4>. QED
        BY <3>1, <4>1, <4>4 DEF Succeeded
    <3>. QED
      BY <1>2, <1>3, <2>2, <3>2, <3>3
  <2>. QED
    BY <2>3, <2>4
<1>5. CASE StoreConsent
  <2>1. /\ UNCHANGED <<flights, live, revoked, lost>> /\ row.there /\ consent # NoAccount
        /\ IF consent.refresh = NoToken THEN row'.account.refresh = stored
                                        ELSE row'.account.refresh = consent.refresh
    BY <1>5, StoreConsentDoes
  <2>2. CASE consent.refresh # NoToken
    BY <2>1, <2>2 DEF NewTokensHonoured, Honoured
  <2>3. CASE consent.refresh = NoToken
    BY <1>3, <2>1, <2>3 DEF Honoured, Succeeded
  <2>. QED
    BY <2>2, <2>3
<1>6. ASSUME row'.account.refresh = stored, row.there, lost \subseteq lost',
             \A p \in Processes : ~StoreTokens(p)
      PROVE  stored \in live' \/ stored.grant \in revoked' \cup lost' \/ Succeeded(row.account.refresh)'
  <2>1. CASE Honoured(stored) /\ \A p \in Processes : ProviderAnswers(p) => stored # flights[p].account.refresh
    BY <2>1, HonouredStays
  <2>2. CASE \E p \in Processes : ProviderAnswers(p) /\ stored = flights[p].account.refresh
    <3>1. PICK p \in Processes : ProviderAnswers(p) /\ stored = flights[p].account.refresh
      BY <2>2
    <3>2. stored \in live
      BY <3>1 DEF ProviderAnswers
    <3>3. \/ /\ flights'[p].phase = "answered" /\ flights'[p].account = flights[p].account
             /\ flights'[p].got.refresh = NoToken /\ live' = live
          \/ /\ flights'[p].phase = "answered" /\ flights'[p].account = flights[p].account
             /\ flights'[p].got.refresh # NoToken
          \/ live' = live
          \/ flights[p].account.refresh.grant \in lost'
      BY <3>1, AnswerDoes
    <3>. QED
      BY <1>6, <3>1, <3>2, <3>3 DEF Succeeded
  <2>3. CASE stored.grant \in lost
    BY <1>6, <2>3
  <2>4. CASE Succeeded(stored)
    <3>1. PICK q \in Processes : /\ flights[q].phase = "answered" /\ flights[q].account.refresh = stored
                                 /\ flights[q].got.refresh # NoToken
      BY <2>4 DEF Succeeded
    <3>2. CASE flights'[q] = flights[q]
      BY <1>6, <3>1, <3>2 DEF Succeeded
    <3>3. CASE StoreFails(q) \/ Crash(q)
      <4>1. flights[q].got.refresh.grant \in lost'
        BY <3>1, <3>3 DEF StoreFails, Crash
      <4>2. flights[q].got.refresh.grant = stored.grant
        BY <3>1, Tokens DEF SoundInv, SoundFlight, Answer
      <4>. QED
        BY <4>1, <4>2
    <3>. QED
      BY <1>6, <3>1, <3>2, <3>3, AnswersComeAndGo
  <2>. QED
    BY <1>3, <1>6, <2>1, <2>2, <2>3, <2>4
<1>7. CASE ~((\E p \in Processes : StoreTokens(p)) \/ StoreConsent)
  <2>1. row'.account.refresh = stored /\ row.there /\ lost \subseteq lost'
    <3>1. CASE \E c \in Callers : CallStep(c)
      BY <1>2, <3>1, CallStarts
    <3>2. CASE \E p \in Processes : FlightAlone(p)
      <4>1. PICK p \in Processes : FlightAlone(p)
        BY <3>2
      <4>2. row'.account = row.account /\ row'.there = row.there
        BY <4>1, FlightAloneDoes
      <4>3. lost \subseteq lost'
        BY <4>1 DEF FlightAlone, AcquireLock, GiveUpLock, RereadRow, AppUnavailable, ProviderRejects, ProviderFails,
           StoreFails, ReadWinner, MarkReconnectRequired, ReleaseLock
      <4>. QED
        BY <1>2, <4>2, <4>3
    <3>3. CASE \E p \in Processes : ProviderAnswers(p)
      BY <1>2, <3>3, AnswerDoes
    <3>4. CASE \E p \in Processes : Settle(p) \/ Crash(p)
      BY <1>2, <3>4 DEF Settle, Crash
    <3>5. CASE LockExpires
      BY <1>2, <3>5 DEF LockExpires
    <3>6. CASE UNCHANGED <<lost, row.account>> /\ (row'.there => row.there)
      BY <1>2, <3>6
    <3>. QED
      BY <1>7, <3>1, <3>2, <3>3, <3>4, <3>5, <3>6, OthersLeave DEF Next, FlightStep, FlightAlone
  <2>. QED
    BY <1>6, <1>7, <2>1
<1>. QED
  BY <1>4, <1>5, <1>7

StrandedInv == LockInv /\ NewTokensHonoured /\ StoredInv

\* While no refresh outlives the lock, no mailbox is left with a refresh token that the provider
\* has replaced, unless the user revoked the grant or an answer was lost: two processes never
\* refresh the same grant one after the other with the same token. (refreshUnderLock)
THEOREM NoGrantIsStranded == Spec => []GrantNotStranded
<1>1. Init => StrandedInv
  <2>. SUFFICES ASSUME Init PROVE StrandedInv
    OBVIOUS
  <2>1. \A p \in Processes : flights[p].phase = "none"
    BY DEF Init, NoFlight
  <2>2. consent.refresh = NoToken /\ row.account.refresh \in live
    BY DEF Init, NoAccount
  <2>. QED
    BY <2>1, <2>2 DEF StrandedInv, LockInv, HeldLock, FlowStays, Holding, NewTokensHonoured, StoredInv, Honoured
<1>2. SoundInv /\ NumbersInv /\ StrandedInv /\ [Next]_vars => StrandedInv'
  BY LockStep, NewTokensStep, StoredStep DEF StrandedInv
<1>3. StrandedInv => GrantNotStranded
  BY DEF StrandedInv, StoredInv, Honoured, Succeeded, GrantNotStranded
<1>. QED
  BY <1>1, <1>2, <1>3, AccountsAreSound, NumbersStayApart, PTL DEF Spec

-------------------------------------------------------------------------------
(* The flag for reconnect *)

\* A refresh token that was rejected is never honoured again.
RejectedForGood ==
  \A p \in Processes : flights[p].phase = "rejected" => flights[p].account.refresh \notin live

\* New tokens have a number nobody has.
LEMMA RejectedForGoodStep ==
  ASSUME SoundInv, NumbersInv, RejectedForGood, [Next]_vars
  PROVE  RejectedForGood'
<1>1. \A p \in Processes : flights[p].account.refresh.n <= issued /\ flights[p].account.refresh.n \in Nat
  BY Numbers, Tokens DEF NumbersInv, AllIssued, Issued
<1>2. \A token \in live' : token \in live \/ token.n = issued + 1
  <2>1. CASE \E c \in Callers : CallStep(c)
    BY <2>1, CallStarts
  <2>2. CASE \E p \in Processes : FlightAlone(p)
    BY <2>2, FlightAloneDoes
  <2>3. CASE \E p \in Processes : ProviderAnswers(p)
    BY <2>3 DEF ProviderAnswers
  <2>4. CASE Consent
    BY <2>4 DEF Consent
  <2>5. CASE \E g \in Grants : RevokeGrant(g)
    BY <2>5 DEF RevokeGrant
  <2>6. CASE \E p \in Processes : StoreTokens(p) \/ Settle(p) \/ Crash(p)
    BY <2>6 DEF StoreTokens, Settle, Crash, providerVars
  <2>7. CASE \/ UNCHANGED vars \/ LockExpires \/ DeleteRow \/ AccessAges \/ RefuseAccess
             \/ ConsentWithoutRefreshToken \/ DropConsent \/ StoreConsent
             \/ \E f \in Flows, status \in {"active", "disabled"} : SetGoogleAppStatus(f, status)
    <3>1. live' = live
      BY <2>7 DEF vars, providerVars, LockExpires, DeleteRow, AccessAges, RefuseAccess, ConsentWithoutRefreshToken,
         DropConsent, StoreConsent, SetGoogleAppStatus
    <3>. QED
      BY <3>1
  <2>. QED
    BY <2>1, <2>2, <2>3, <2>4, <2>5, <2>6, <2>7 DEF Next, FlightStep, FlightAlone
<1>3. ASSUME NEW q \in Processes, flights'[q].phase = "rejected"
      PROVE  flights'[q].account = flights[q].account /\ flights[q].account.refresh \notin live
  <2>1. CASE flights'[q] = flights[q]
    BY <1>3, <2>1 DEF RejectedForGood
  <2>2. CASE ProviderRejects(q)
    <3>1. flights[q] \in Flight /\ flights \in [Processes -> Flight]
      BY DEF SoundInv, TypeOK
    <3>. QED
      BY <2>2, <3>1 DEF ProviderRejects, MoveTo, Flight
  <2>3. flights'[q] = flights[q] \/ ProviderRejects(q)
    <3>1. flights \in [Processes -> Flight]
      BY DEF SoundInv, TypeOK
    <3>2. ASSUME NEW p \in Processes, NEW phase, NEW got, phase # "rejected",
                 MoveTo(p, phase, got) \/ Finish(p, phase, got)
          PROVE  flights'[q] = flights[q]
      <4>1. CASE q # p
        BY <3>1, <3>2, <4>1 DEF MoveTo, Finish
      <4>2. CASE q = p /\ MoveTo(p, phase, got)
        BY <1>3, <3>1, <3>2, <4>2 DEF MoveTo, Flight
      <4>3. CASE q = p /\ Finish(p, phase, got)
        <5>1. flights'[p] = [phase |-> phase, force |-> flights[p].force, account |-> NoAccount, got |-> got]
          BY <3>1, <4>3 DEF Finish, NoFlight
        <5>2. flights'[p].phase = phase
          BY <5>1
        <5>. QED
          BY <1>3, <3>2, <4>3, <5>2
      <4>. QED
        BY <3>2, <4>1, <4>2, <4>3
    <3>3. CASE \E c \in Callers : CallStep(c)
      <4>1. PICK c \in Callers : CallStep(c)
        BY <3>3
      <4>2. flights'[q] = flights[q] \/ flights'[q].phase = "locking"
        BY <4>1, CallStarts
      <4>. QED
        BY <1>3, <4>2
    <3>4. CASE \E p \in Processes : Settle(p) \/ Crash(p)
      <4>1. PICK p \in Processes : Settle(p) \/ Crash(p)
        BY <3>4
      <4>2. flights' = [flights EXCEPT ![p] = NoFlight] /\ NoFlight.phase = "none"
        BY <4>1 DEF Settle, Crash, NoFlight
      <4>. QED
        BY <1>3, <3>1, <4>2
    <3>5. CASE \E p \in Processes : FlightStep(p) /\ ~Settle(p)
      <4>1. PICK p \in Processes : FlightStep(p) /\ ~Settle(p)
        BY <3>5
      <4>2. CASE ProviderRejects(p)
        <5>1. \A r \in Processes \ {p} : flights'[r] = flights[r]
          BY <3>1, <4>2 DEF ProviderRejects, MoveTo
        <5>. QED
          BY <4>2, <5>1
      <4>3. CASE RereadRow(p) /\ flights' = [flights EXCEPT ![p].phase = "refreshing", ![p].account = ToRefresh(flights[p])]
        <5>1. /\ flights'[p].phase = "refreshing" /\ \A r \in Processes \ {p} : flights'[r] = flights[r]
          BY <3>1, <4>3 DEF Flight
        <5>. QED
          BY <1>3, <5>1
      <4>4. \/ ProviderRejects(p)
            \/ RereadRow(p) /\ flights' = [flights EXCEPT ![p].phase = "refreshing", ![p].account = ToRefresh(flights[p])]
            \/ \E phase \in Phases \ {"rejected"} : \E got : MoveTo(p, phase, got) \/ Finish(p, phase, got)
        BY <4>1 DEF FlightStep, AcquireLock, GiveUpLock, RereadRow, AppUnavailable, ProviderAnswers, ProviderFails,
           StoreTokens, StoreFails, ReadWinner, MarkReconnectRequired, ReleaseLock, Phases
      <4>. QED
        BY <3>2, <4>2, <4>3, <4>4
    <3>6. CASE UNCHANGED flights
      BY <3>6
    <3>7. LockExpires \/ StoreConsent => UNCHANGED flights
      BY DEF LockExpires, StoreConsent
    <3>. QED
      BY <3>3, <3>4, <3>5, <3>6, <3>7, OthersLeave DEF Next
  <2>. QED
    BY <2>1, <2>2, <2>3
<1>4. issued \in Nat
  BY Numbers
<1>. QED
  BY <1>1, <1>2, <1>3, <1>4 DEF RejectedForGood

\* The mailbox is flagged only for its present grant: its app is disabled or was, the provider
\* rejects the stored refresh token for good, or refused an access token of this same grant.
\* (markReconnectRequired, setGoogleAppStatus)
THEOREM FlagIsForThisGrant == Spec => FlagIsEarned
<1>1. Init => RejectedForGood
  BY DEF Init, NoFlight, RejectedForGood
<1>2. ASSUME SoundInv, RejectedForGood, [Next]_vars, row'.flagged, ~row.flagged
      PROVE  LET account == row.account IN
             \/ apps'[account.flow] = "disabled"
             \/ account.refresh \notin live
             \/ \E p \in Processes :
                  flights[p].phase = "appGone" /\ flights[p].account.flow = account.flow
             \/ \E c \in Callers :
                  /\ calls[c].state = "marking"
                  /\ Refused(calls[c].account.access)
                  /\ calls[c].account.access.grant = account.refresh.grant
  <2>1. \/ \E c \in Callers : MarkAfterRefusal(c) /\ MarkMatches(calls[c].account.refresh)
        \/ \E p \in Processes : MarkReconnectRequired(p) /\ MarkMatches(flights[p].account.refresh)
        \/ \E f \in Flows, status \in {"active", "disabled"} : SetGoogleAppStatus(f, status)
    <3>1. row' # row
      BY <1>2
    <3>2. CASE \E c \in Callers : CallStep(c)
      BY <3>1, <3>2 DEF CallStep, Load, EnsureFresh, EnsureAgain, StopWaiting, UseAccepted, UseRefused,
         UseRefusedAgain, MarkAfterRefusal
    <3>3. ASSUME NEW p \in Processes, FlightStep(p) \/ Crash(p)
          PROVE  MarkReconnectRequired(p) /\ MarkMatches(flights[p].account.refresh)
      <4>1. CASE StoreTokens(p)
        <5>1. row' = row \/ \E account : row' = [row EXCEPT !.account = account]
          BY <4>1 DEF StoreTokens
        <5>. QED
          BY <1>2, <5>1 DEF SoundInv, TypeOK
      <4>2. CASE ~StoreTokens(p)
        BY <3>1, <3>3, <4>2 DEF FlightStep, AcquireLock, GiveUpLock, RereadRow, AppUnavailable, ProviderAnswers,
           ProviderRejects, ProviderFails, StoreFails, ReadWinner, MarkReconnectRequired, ReleaseLock, Settle, Crash
      <4>. QED
        BY <4>1, <4>2
    <3>4. ~(UNCHANGED vars \/ LockExpires \/ Consent \/ ConsentWithoutRefreshToken \/ StoreConsent \/ DropConsent
              \/ (\E g \in Grants : RevokeGrant(g)) \/ AccessAges \/ RefuseAccess)
      BY <1>2, <3>1 DEF vars, LockExpires, Consent, ConsentWithoutRefreshToken, StoreConsent, DropConsent,
         RevokeGrant, AccessAges, RefuseAccess
    <3>5. ~DeleteRow
      BY <1>2 DEF DeleteRow, SoundInv, TypeOK
    <3>. QED
      BY <1>2, <3>2, <3>3, <3>4, <3>5 DEF Next
  <2>2. CASE \E c \in Callers : MarkAfterRefusal(c) /\ MarkMatches(calls[c].account.refresh)
    <3>1. PICK c \in Callers : MarkAfterRefusal(c) /\ MarkMatches(calls[c].account.refresh)
      BY <2>2
    <3>2. /\ calls[c].state = "marking" /\ row.account.refresh = calls[c].account.refresh
          /\ Refused(calls[c].account.access) /\ Sound(calls[c].account)
      BY <1>2, <3>1 DEF MarkAfterRefusal, MarkMatches, SoundInv, SoundCall
    <3>3. calls[c].account.access.grant = calls[c].account.refresh.grant
      BY <3>2 DEF Sound, OfOneGrant, NoAccount
    <3>. QED
      BY <3>2, <3>3
  <2>3. CASE \E p \in Processes : MarkReconnectRequired(p) /\ MarkMatches(flights[p].account.refresh)
    <3>1. PICK p \in Processes : MarkReconnectRequired(p) /\ MarkMatches(flights[p].account.refresh)
      BY <2>3
    <3>2. flights[p].phase \in {"rejected", "appGone"} /\ row.account.refresh = flights[p].account.refresh
      BY <3>1 DEF MarkReconnectRequired, MarkMatches
    <3>3. CASE flights[p].phase = "rejected"
      BY <1>2, <3>2, <3>3 DEF RejectedForGood
    <3>4. CASE flights[p].phase = "appGone"
      <4>1. provider = "google" /\ flights[p].account \in Account /\ Sound(flights[p].account)
        BY <1>2, <3>4 DEF SoundInv, SoundFlight
      <4>2. flights[p].account.flow = trueFlow[flights[p].account.refresh.grant]
        BY <4>1, Tokens DEF Sound, OfOneGrant
      <4>3. row.account.flow = trueFlow[row.account.refresh.grant]
        BY <1>2, <4>1 DEF SoundInv, TokensOfOneGrant
      <4>. QED
        BY <3>2, <3>4, <4>2, <4>3
    <3>. QED
      BY <3>2, <3>3, <3>4
  <2>4. CASE \E f \in Flows, status \in {"active", "disabled"} : SetGoogleAppStatus(f, status)
    <3>1. PICK f \in Flows, status \in {"active", "disabled"} : SetGoogleAppStatus(f, status)
      BY <2>4
    <3>2. status = "disabled" /\ row.account.flow = f
      BY <1>2, <3>1 DEF SetGoogleAppStatus, SoundInv, TypeOK
    <3>3. apps'[f] = "disabled"
      BY <1>2, <3>1, <3>2 DEF SetGoogleAppStatus, SoundInv, TypeOK
    <3>. QED
      BY <3>2, <3>3
  <2>. QED
    BY <2>1, <2>2, <2>3, <2>4
<1>3. SoundInv /\ RejectedForGood /\ [Next]_vars
        => [row.flagged' /\ ~row.flagged =>
              LET account == row.account IN
              \/ apps'[account.flow] = "disabled"
              \/ account.refresh \notin live
              \/ \E p \in Processes :
                   flights[p].phase = "appGone" /\ flights[p].account.flow = account.flow
              \/ \E c \in Callers :
                   /\ calls[c].state = "marking"
                   /\ Refused(calls[c].account.access)
                   /\ calls[c].account.access.grant = account.refresh.grant]_vars
  BY <1>2
<1>4. SoundInv /\ NumbersInv /\ RejectedForGood /\ [Next]_vars => RejectedForGood'
  BY RejectedForGoodStep
<1>. QED
  BY <1>1, <1>3, <1>4, AccountsAreSound, NumbersStayApart, PTL DEF Spec, FlagIsEarned
===============================================================================
