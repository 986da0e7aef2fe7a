----------------------------- MODULE TokenManager -----------------------------
(***************************************************************************)
(* The OAuth tokens of one mailbox: who may refresh them, what a refresh   *)
(* stores, and what a rejected token leads to                              *)
(* (backend/src/services/oauth/tokenManager.js, microsoftOAuth.js,         *)
(* googleOAuth.js, the reconnect of routes/oauth.js and oauthGoogle.js).   *)
(*                                                                         *)
(* Several processes share the mailbox's row and a lock in Redis. A        *)
(* process runs at most one refresh (a flight) at a time, which its        *)
(* callers join. A token is numbered in the order of its expiry and        *)
(* carries, for the properties only, the consent it descends from.         *)
(***************************************************************************)
EXTENDS Integers, FiniteSets

CONSTANTS
  Providers,          \* "google", "microsoft" or both
  GoogleApps,         \* the ids of the Google apps
  Processes, Callers, \* processes, and the sends and connections that need a token
  NoProcess,
  SlowProviders,      \* those of which a running refresh may take longer than LOCK_TTL_SECONDS
  MaxIssued, MaxGrants, MaxUpsets    \* bounds: answers with tokens, consents, and what goes wrong

ASSUME ProviderAssumption ==
  Providers \subseteq {"google", "microsoft"} /\ SlowProviders \subseteq Providers
ASSUME ProcessesAssumption == NoProcess \notin Processes
ASSUME BoundsAssumption ==
  MaxIssued \in Nat \ {0} /\ MaxGrants \in Nat \ {0} /\ MaxUpsets \in Nat

VARIABLES
  provider, \* the mailbox's provider; it never changes
  row,      \* the mailbox's row in email_accounts
  apps,     \* status of the Google apps
  lock,     \* the process named by the Redis lock
  flights,  \* inFlightRefresh of each process
  calls,    \* what each caller does
  consent,  \* the tokens of a reconnect whose transaction has not run yet
  live,     \* the refresh tokens the provider honours
  refused,  \* access tokens the provider rejects before they expire
  revoked,  \* grants the user took back at the provider
  aged,     \* access tokens up to this number are within the refresh window
  issued,   \* the number of the last answer with tokens
  grants,   \* the number of consents given
  trueFlow, \* the flow each grant was really given through
  upsets,   \* how much went wrong so far: what MaxUpsets bounds
  lost      \* history: grants of which an answer was lost before it was stored

providerVars == <<live, refused, revoked, aged, issued, grants, trueFlow>>
vars == <<provider, row, apps, lock, flights, calls, consent, providerVars, upsets, lost>>

\* What a row of the provider is bound to: the app that issued its tokens, or the kind of client
Flows == IF provider = "google" THEN GoogleApps ELSE {"confidential", "public"}
StallsOutliveLock == provider \in SlowProviders

Grants == 1..MaxGrants
Token == [n: 1..MaxIssued, grant: Grants]
NoToken == [n |-> 0, grant |-> 0]
Account == [access: Token, refresh: Token, flow: Flows]
NoAccount == [access |-> NoToken, refresh |-> NoToken, flow |-> "none"]

\* Tokens as the provider hands them out, with or without a new refresh token
Got == [access: Token \cup {NoToken}, refresh: Token \cup {NoToken}, flow: Flows \cup {"none"}]

\* Where a call of refreshUnderLock stands between two awaits.
Phases == {"none", "locking", "locked", "refreshing", "answered", "lostRace",
           "rejected", "appGone", "releasing", "settling"}
\* account: what the flight was started with, then the row it read under the lock.
\* got: the answer of the provider, then the result of the flight (NoAccount: an error).
Flight == [phase: Phases, force: BOOLEAN, account: Account \cup {NoAccount}, got: Got]
NoFlight == [phase |-> "none", force |-> FALSE, account |-> NoAccount, got |-> NoAccount]

\* rejected: the access token the provider refused the caller, once it did.
\* joinedForced: its forced refresh joined one that another forced caller had started.
Call == [state: {"idle", "loaded", "waiting", "again", "ready", "marking"},
         at: Processes \cup {NoProcess}, account: Account \cup {NoAccount},
         checks: BOOLEAN, rejected: Token \cup {NoToken}, joinedForced: BOOLEAN]
NoCall == [state |-> "idle", at |-> NoProcess, account |-> NoAccount, checks |-> FALSE,
           rejected |-> NoToken, joinedForced |-> FALSE]

TypeOK ==
  /\ provider \in Providers
  /\ row \in [there: BOOLEAN, flagged: BOOLEAN, account: Account]
  /\ apps \in [Flows -> {"active", "disabled"}]
  /\ lock \in Processes \cup {NoProcess}
  /\ flights \in [Processes -> Flight]
  /\ calls \in [Callers -> Call]
  /\ consent \in Got
  /\ live \in SUBSET Token /\ refused \in SUBSET Token
  /\ revoked \in SUBSET Grants /\ lost \in SUBSET Grants
  /\ aged \in 0..MaxIssued /\ issued \in 1..MaxIssued
  /\ grants \in Grants
  /\ upsets \in 0..MaxUpsets
  /\ trueFlow \in [Grants -> Flows]

FirstToken == [n |-> 1, grant |-> 1]

\* A Microsoft mailbox older than oauth_public_client is stored as confidential, whatever it is.
Init ==
  /\ provider \in Providers
  /\ \E f \in Flows :
       row = [there |-> TRUE, flagged |-> FALSE,
              account |-> [access |-> FirstToken, refresh |-> FirstToken, flow |-> f]]
  /\ trueFlow \in [Grants -> Flows]
  /\ \/ trueFlow[1] = row.account.flow
     \/ provider = "microsoft" /\ row.account.flow = "confidential"
  /\ apps = [f \in Flows |-> "active"]
  /\ lock = NoProcess
  /\ flights = [p \in Processes |-> NoFlight]
  /\ calls = [c \in Callers |-> NoCall]
  /\ consent = NoAccount
  /\ live = {FirstToken}
  /\ refused = {} /\ revoked = {} /\ lost = {}
  /\ aged = 0 /\ issued = 1 /\ grants = 1 /\ upsets = 0

\* Something goes wrong, within the bound.
Upset == upsets < MaxUpsets /\ upsets' = upsets + 1

-------------------------------------------------------------------------------
(* Reading a token *)

NeedsTokenRefresh(account) == account.access.n <= aged
Newer(account, than) == account.access.n > than.access.n
Refused(token) == token \in refused \/ token.grant \in revoked

\* The row is a forced caller's answer only when it holds a newer token than the rejected one.
MayReuse(flight) ==
  /\ ~NeedsTokenRefresh(row.account)
  /\ ~flight.force \/ Newer(row.account, flight.account)

\* The account a flight refreshes: the row as it is under the lock.
ToRefresh(flight) == row.account

\* The compare-and-set of the providers' UPDATE: the grant and the flow the refresh started from.
StillStoredSlip(account) == row.there
StillStored(account) ==
  row.there /\ row.account.refresh = account.refresh /\ row.account.flow = account.flow

\* The compare-and-set of markReconnectRequired.
MarkMatchesSlip(refresh) == row.there
MarkMatches(refresh) == row.there /\ row.account.refresh = refresh

\* COALESCE(answered, stored): the stored refresh token stays when none came back.
KeptRefreshOldSlip(answered, stored) == stored
KeptRefresh(answered, stored) == IF answered = NoToken THEN stored ELSE answered

-------------------------------------------------------------------------------
(* Callers: ensureFreshOAuthAccount and what its callers do with the token *)

\* Whether a caller takes the result of a running refresh as it is.
TakesItAsItIsSlip(force, flight) == TRUE
TakesItAsItIs(force, flight) == ~force \/ flight.force

\* ensureFreshOAuthAccount: the account itself, a join, or a new flight.
Ensure(c, call, force) ==
  LET flight == flights[call.at]
      waiting == [call EXCEPT !.state = "waiting", !.checks = FALSE, !.joinedForced = FALSE]
  IN
  \/ /\ ~force /\ ~NeedsTokenRefresh(call.account)
     /\ calls' = [calls EXCEPT ![c] = [call EXCEPT !.state = "ready"]]
     /\ UNCHANGED flights
  \/ /\ force \/ NeedsTokenRefresh(call.account)
     /\ flight.phase # "none"
     /\ calls' = [calls EXCEPT ![c] =
          [waiting EXCEPT !.checks = ~TakesItAsItIs(force, flight),
                          !.joinedForced = force /\ flight.force]]
     /\ UNCHANGED flights
  \/ /\ force \/ NeedsTokenRefresh(call.account)
     /\ flight.phase = "none"
     /\ calls' = [calls EXCEPT ![c] = waiting]
     /\ flights' = [flights EXCEPT ![call.at] =
          [NoFlight EXCEPT !.phase = "locking", !.force = force, !.account = call.account]]

\* A send or a connection reads the row; it may use it much later.
Load(c, p) ==
  /\ calls[c].state = "idle"
  /\ row.there /\ ~row.flagged
  /\ calls' = [calls EXCEPT ![c] =
       [NoCall EXCEPT !.state = "loaded", !.at = p, !.account = row.account]]
  /\ UNCHANGED <<provider, row, apps, lock, flights, consent, providerVars, upsets, lost>>

EnsureFresh(c) ==
  /\ calls[c].state = "loaded"
  /\ Ensure(c, calls[c], FALSE)
  /\ UNCHANGED <<provider, row, apps, lock, consent, providerVars, upsets, lost>>

\* The joined refresh gave nothing newer: a forced one of its own, or another join.
EnsureAgain(c) ==
  /\ calls[c].state = "again"
  /\ Ensure(c, calls[c], TRUE)
  /\ UNCHANGED <<provider, row, apps, lock, consent, providerVars, upsets, lost>>

\* IMAP: raceTimeout. The flight goes on without the caller.
StopWaiting(c) ==
  /\ Upset
  /\ calls[c].state = "waiting"
  /\ calls' = [calls EXCEPT ![c] = NoCall]
  /\ UNCHANGED <<provider, row, apps, lock, flights, consent, providerVars, lost>>

\* The server takes the token.
UseAccepted(c) ==
  /\ calls[c].state = "ready"
  /\ ~Refused(calls[c].account.access)
  /\ calls' = [calls EXCEPT ![c] = NoCall]
  /\ UNCHANGED <<provider, row, apps, lock, flights, consent, providerVars, upsets, lost>>

\* The server rejects the token: one forced refresh, then one more attempt.
UseRefused(c) ==
  /\ calls[c].state = "ready"
  /\ Refused(calls[c].account.access)
  /\ calls[c].rejected = NoToken
  /\ Ensure(c, [calls[c] EXCEPT !.rejected = calls[c].account.access], TRUE)
  /\ UNCHANGED <<provider, row, apps, lock, consent, providerVars, upsets, lost>>

\* ... rejected again: an IMAP login or SMTP gives up, the Gmail API sender flags the mailbox.
UseRefusedAgain(c) ==
  /\ calls[c].state = "ready"
  /\ Refused(calls[c].account.access)
  /\ calls[c].rejected # NoToken
  /\ \/ calls' = [calls EXCEPT ![c] = NoCall]
     \/ /\ provider = "google"
        /\ calls' = [calls EXCEPT ![c].state = "marking"]
  /\ UNCHANGED <<provider, row, apps, lock, flights, consent, providerVars, upsets, lost>>

\* sendViaGmailApiWithFallback: markReconnectRequired with the refreshed account's grant; a
\* failing query is only logged.
MarkAfterRefusal(c) ==
  /\ calls[c].state = "marking"
  /\ \/ /\ MarkMatches(calls[c].account.refresh)
        /\ row' = [row EXCEPT !.flagged = TRUE]
     \/ UNCHANGED row
  /\ calls' = [calls EXCEPT ![c] = NoCall]
  /\ UNCHANGED <<provider, apps, lock, flights, consent, providerVars, upsets, lost>>

-------------------------------------------------------------------------------
(* A flight: refreshUnderLock *)

Holding(p) == flights[p].phase \notin {"none", "locking", "settling"}

\* The flight of p moves on to a phase, with a result or an answer.
MoveTo(p, phase, got) ==
  flights' = [flights EXCEPT ![p].phase = phase, ![p].got = got]

\* The flight of p is over, but for the lock; its promise will settle with the result.
Finish(p, phase, result) ==
  flights' = [flights EXCEPT ![p] =
    [NoFlight EXCEPT !.phase = phase, !.force = flights[p].force, !.got = result]]

\* SET NX EX. Its reply may be lost: the flight fails and the lock stays until it expires.
AcquireLock(p) ==
  /\ flights[p].phase = "locking"
  /\ lock = NoProcess
  /\ lock' = p
  /\ \/ MoveTo(p, "locked", NoAccount)
     \/ Finish(p, "settling", NoAccount)
  /\ UNCHANGED <<provider, row, apps, calls, consent, providerVars, upsets, lost>>

\* lockWaitMs passed, or Redis cannot be reached.
GiveUpLock(p) ==
  /\ flights[p].phase = "locking"
  /\ Finish(p, "settling", NoAccount)
  /\ UNCHANGED <<provider, row, apps, lock, calls, consent, providerVars, upsets, lost>>

\* EX LOCK_TTL_SECONDS, counted from the acquisition.
LockExpires ==
  /\ lock # NoProcess
  /\ StallsOutliveLock \/ ~Holding(lock)
  /\ lock' = NoProcess
  /\ UNCHANGED <<provider, row, apps, flights, calls, consent, providerVars, upsets, lost>>

\* The row is read again under the lock: it is gone or flagged (an error), already fresh (the
\* result), or what is to be refreshed. The query itself may fail.
RereadRow(p) ==
  /\ flights[p].phase = "locked"
  /\ \/ Finish(p, "releasing", NoAccount)
     \/ /\ row.there /\ ~row.flagged
        /\ IF MayReuse(flights[p])
           THEN Finish(p, "releasing", row.account)
           ELSE flights' = [flights EXCEPT ![p].phase = "refreshing",
                                           ![p].account = ToRefresh(flights[p])]
  /\ UNCHANGED <<provider, row, apps, lock, calls, consent, providerVars, upsets, lost>>

\* refreshGoogleToken: the app that issued the tokens was disabled.
AppUnavailable(p) ==
  /\ flights[p].phase = "refreshing"
  /\ provider = "google"
  /\ apps[flights[p].account.flow] = "disabled"
  /\ MoveTo(p, "appGone", NoAccount)
  /\ UNCHANGED <<provider, row, apps, lock, calls, consent, providerVars, upsets, lost>>

MayCall(p) ==
  /\ flights[p].phase = "refreshing"
  /\ provider = "google" => apps[flights[p].account.flow] = "active"

\* The provider issues an access token and, or not, a new refresh token in the place of the one
\* it was shown. Microsoft refuses the secret of a client that is really public and is asked
\* again without it (becamePublic). The answer may be lost on the way.
ProviderAnswers(p) ==
  LET account == flights[p].account
      token == [n |-> issued + 1, grant |-> account.refresh.grant]
  IN
  /\ MayCall(p)
  /\ account.refresh \in live
  /\ issued < MaxIssued
  /\ issued' = issued + 1
  /\ \E rotates \in BOOLEAN :
       /\ live' = IF rotates THEN (live \ {account.refresh}) \cup {token} ELSE live
       /\ \/ /\ MoveTo(p, "answered",
                 [access |-> token,
                  refresh |-> IF rotates THEN token ELSE NoToken,
                  flow |-> IF provider = "microsoft" THEN trueFlow[token.grant]
                                                     ELSE account.flow])
             /\ UNCHANGED <<upsets, lost>>
          \/ /\ Upset
             /\ Finish(p, "releasing", NoAccount)
             /\ lost' = IF rotates THEN lost \cup {token.grant} ELSE lost
  /\ UNCHANGED <<provider, row, apps, lock, calls, consent, refused, revoked, aged, grants, trueFlow>>

\* invalid_grant: the refresh token was superseded or its grant revoked.
ProviderRejects(p) ==
  /\ MayCall(p)
  /\ flights[p].account.refresh \notin live
  /\ MoveTo(p, "rejected", NoAccount)
  /\ UNCHANGED <<provider, row, apps, lock, calls, consent, providerVars, upsets, lost>>

\* An error that a retry may heal: the provider is down or was never reached.
ProviderFails(p) ==
  /\ MayCall(p)
  /\ Finish(p, "releasing", NoAccount)
  /\ UNCHANGED <<provider, row, apps, lock, calls, consent, providerVars, upsets, lost>>

\* The UPDATE of the provider modules. A lost race leaves the row alone.
StoreTokens(p) ==
  LET flight == flights[p]
      fresh == [flight.got EXCEPT !.refresh = KeptRefresh(@, flight.account.refresh)]
  IN
  /\ flight.phase = "answered"
  /\ IF StillStored(flight.account)
     THEN /\ row' = [row EXCEPT !.account =
               [access |-> fresh.access,
                refresh |-> KeptRefresh(flight.got.refresh, row.account.refresh),
                flow |-> fresh.flow]]
          /\ Finish(p, "releasing", fresh)
     ELSE /\ MoveTo(p, "lostRace", NoAccount)
          /\ UNCHANGED row
  /\ UNCHANGED <<provider, apps, lock, calls, consent, providerVars, upsets, lost>>

\* The UPDATE fails: the answer is lost, and with it a rotated refresh token.
StoreFails(p) ==
  /\ Upset
  /\ flights[p].phase = "answered"
  /\ Finish(p, "releasing", NoAccount)
  /\ lost' = IF flights[p].got.refresh = NoToken THEN lost
                                                 ELSE lost \cup {flights[p].got.refresh.grant}
  /\ UNCHANGED <<provider, row, apps, lock, calls, consent, providerVars>>

\* After a lost race the row is read and handed back, if it is still there.
ReadWinner(p) ==
  /\ flights[p].phase = "lostRace"
  /\ Finish(p, "releasing", IF row.there THEN row.account ELSE NoAccount)
  /\ UNCHANGED <<provider, row, apps, lock, calls, consent, providerVars, upsets, lost>>

\* refreshOAuthToken: only a new consent helps, unless the grant was replaced meanwhile. The
\* query may fail.
MarkReconnectRequired(p) ==
  /\ flights[p].phase \in {"rejected", "appGone"}
  /\ \/ /\ MarkMatches(flights[p].account.refresh)
        /\ row' = [row EXCEPT !.flagged = TRUE]
     \/ UNCHANGED row
  /\ Finish(p, "releasing", NoAccount)
  /\ UNCHANGED <<provider, apps, lock, calls, consent, providerVars, upsets, lost>>

\* RELEASE_LOCK_SCRIPT deletes the lock only under the flight's own token; it may fail.
ReleaseLock(p) ==
  /\ flights[p].phase = "releasing"
  /\ \/ lock' = IF lock = p THEN NoProcess ELSE lock
     \/ UNCHANGED lock
  /\ Finish(p, "settling", flights[p].got)
  /\ UNCHANGED <<provider, row, apps, calls, consent, providerVars, upsets, lost>>

\* What a caller makes of a flight's result.
Answered(call, result) ==
  IF result = NoAccount THEN NoCall
  ELSE IF call.checks /\ ~Newer(result, call.account) THEN [call EXCEPT !.state = "again"]
  ELSE [call EXCEPT !.state = "ready", !.account = result, !.checks = FALSE]

\* The promise settles: the flight leaves the map, then its callers go on.
Settle(p) ==
  /\ flights[p].phase = "settling"
  /\ flights' = [flights EXCEPT ![p] = NoFlight]
  /\ calls' = [c \in Callers |->
       IF calls[c].state = "waiting" /\ calls[c].at = p
       THEN Answered(calls[c], flights[p].got) ELSE calls[c]]
  /\ UNCHANGED <<provider, row, apps, lock, consent, providerVars, upsets, lost>>

-------------------------------------------------------------------------------
(* The user and the administrator *)

\* The provider issues the tokens of a reconnect; the callback has not stored them yet.
Consent ==
  /\ consent = NoAccount
  /\ issued < MaxIssued /\ grants < MaxGrants
  /\ provider = "google" => apps[trueFlow[grants + 1]] = "active"
  /\ LET token == [n |-> issued + 1, grant |-> grants + 1]
     IN /\ consent' = [access |-> token, refresh |-> token, flow |-> trueFlow[grants + 1]]
        /\ live' = live \cup {token}
  /\ issued' = issued + 1
  /\ grants' = grants + 1
  /\ UNCHANGED <<provider, row, apps, lock, flights, calls, refused, revoked, aged, trueFlow, upsets, lost>>

\* Google may answer a consent to the same app without a refresh token: the old one goes on.
ConsentWithoutRefreshToken ==
  LET stored == row.account IN
  /\ provider = "google"
  /\ consent = NoAccount
  /\ issued < MaxIssued
  /\ row.there /\ stored.refresh.grant \notin revoked
  /\ apps[stored.flow] = "active"
  /\ issued' = issued + 1
  /\ consent' = [access |-> [n |-> issued + 1, grant |-> stored.refresh.grant],
                 refresh |-> NoToken, flow |-> stored.flow]
  /\ UNCHANGED <<provider, row, apps, lock, flights, calls, live, refused, revoked, aged, grants,
                 trueFlow, upsets, lost>>

\* What the transaction of the callback requires: the app is active, and the stored refresh
\* token is kept only on the same app and never when the mailbox is flagged.
MayStoreConsentSlip == consent.refresh # NoToken \/ ~row.flagged
MayStoreConsent ==
  /\ row.there
  /\ provider = "google" =>
       /\ apps[consent.flow] = "active"
       /\ \/ consent.refresh # NoToken
          \/ row.account.flow = consent.flow /\ ~row.flagged

StoreConsent ==
  /\ consent # NoAccount
  /\ MayStoreConsent
  /\ row' = [there |-> TRUE, flagged |-> FALSE,
             account |-> [consent EXCEPT !.refresh = KeptRefresh(@, row.account.refresh)]]
  /\ consent' = NoAccount
  /\ UNCHANGED <<provider, apps, lock, flights, calls, providerVars, upsets, lost>>

\* The callback refuses it, or never runs.
DropConsent ==
  /\ consent # NoAccount
  /\ consent' = NoAccount
  /\ UNCHANGED <<provider, row, apps, lock, flights, calls, providerVars, upsets, lost>>

RevokeGrant(g) ==
  /\ Upset
  /\ g \notin revoked /\ g <= grants
  /\ revoked' = revoked \cup {g}
  /\ live' = {token \in live : token.grant # g}
  /\ UNCHANGED <<provider, row, apps, lock, flights, calls, consent, refused, aged, issued, grants,
                 trueFlow, lost>>

\* setGoogleAppStatus: disabling flags the mailboxes of the app, in one transaction.
SetGoogleAppStatus(f, status) ==
  /\ Upset
  /\ provider = "google"
  /\ apps[f] # status
  /\ apps' = [apps EXCEPT ![f] = status]
  /\ row' = [row EXCEPT !.flagged =
       @ \/ (row.there /\ status = "disabled" /\ row.account.flow = f)]
  /\ UNCHANGED <<provider, lock, flights, calls, consent, providerVars, lost>>

\* deleteAccount
DeleteRow ==
  /\ Upset
  /\ row.there
  /\ row' = [row EXCEPT !.there = FALSE]
  /\ UNCHANGED <<provider, apps, lock, flights, calls, consent, providerVars, lost>>

-------------------------------------------------------------------------------
(* Time, the provider's moods and crashes *)

\* The stored access token comes within TOKEN_REFRESH_SKEW_MS of its expiry.
AccessAges ==
  /\ Upset
  /\ aged < row.account.access.n
  /\ aged' = row.account.access.n
  /\ UNCHANGED <<provider, row, apps, lock, flights, calls, consent, live, refused, revoked, issued,
                 grants, trueFlow, lost>>

\* A token is rejected before its time: revoked early, or clocks disagree.
RefuseAccess ==
  /\ Upset
  /\ \E token \in {row.account.access} \cup {calls[c].account.access : c \in Callers} :
       /\ token \notin refused \cup {NoToken}
       /\ refused' = refused \cup {token}
  /\ UNCHANGED <<provider, row, apps, lock, flights, calls, consent, live, revoked, aged, issued,
                 grants, trueFlow, lost>>

\* The process dies with its flight and its callers; its lock stays until it expires.
Crash(p) ==
  /\ Upset
  /\ flights[p].phase # "none" \/ \E c \in Callers : calls[c].at = p
  /\ flights' = [flights EXCEPT ![p] = NoFlight]
  /\ calls' = [c \in Callers |-> IF calls[c].at = p THEN NoCall ELSE calls[c]]
  /\ lost' = IF flights[p].phase = "answered" /\ flights[p].got.refresh # NoToken
             THEN lost \cup {flights[p].got.refresh.grant} ELSE lost
  /\ UNCHANGED <<provider, row, apps, lock, consent, providerVars>>

CallStep(c) ==
  \/ \E p \in Processes : Load(c, p)
  \/ EnsureFresh(c)
  \/ EnsureAgain(c)
  \/ StopWaiting(c)
  \/ UseAccepted(c)
  \/ UseRefused(c)
  \/ UseRefusedAgain(c)
  \/ MarkAfterRefusal(c)

FlightStep(p) ==
  \/ AcquireLock(p)
  \/ GiveUpLock(p)
  \/ RereadRow(p)
  \/ AppUnavailable(p)
  \/ ProviderAnswers(p)
  \/ ProviderRejects(p)
  \/ ProviderFails(p)
  \/ StoreTokens(p)
  \/ StoreFails(p)
  \/ ReadWinner(p)
  \/ MarkReconnectRequired(p)
  \/ ReleaseLock(p)
  \/ Settle(p)

Next ==
  \/ \E c \in Callers : CallStep(c)
  \/ \E p \in Processes : FlightStep(p) \/ Crash(p)
  \/ LockExpires
  \/ Consent
  \/ ConsentWithoutRefreshToken
  \/ StoreConsent
  \/ DropConsent
  \/ \E g \in Grants : RevokeGrant(g)
  \/ \E f \in Flows, status \in {"active", "disabled"} : SetGoogleAppStatus(f, status)
  \/ DeleteRow
  \/ AccessAges
  \/ RefuseAccess

Spec == Init /\ [][Next]_vars

-------------------------------------------------------------------------------
(* Properties *)

\* The access token, the refresh token and the flow of the row belong to one consent: no refresh
\* that was overtaken by a reconnect mixes its tokens into the new ones (the UPDATEs of
\* microsoftOAuth.js and googleOAuth.js). A Microsoft row may still call a public client
\* confidential.
TokensOfOneGrant ==
  LET account == row.account IN
  /\ account.access.grant = account.refresh.grant
  /\ \/ account.flow = trueFlow[account.refresh.grant]
     \/ provider = "microsoft" /\ account.flow = "confidential"

\* The row never stays with a refresh token the provider has replaced, unless the user revoked
\* the grant, an answer was lost on its way, or its successor is about to be stored.
GrantNotStranded ==
  LET stored == row.account.refresh IN
  ~StallsOutliveLock /\ row.there /\ stored \notin live =>
    \/ stored.grant \in revoked \cup lost
    \/ \E p \in Processes : flights[p].phase = "answered" /\ flights[p].account.refresh = stored

\* A mailbox bound to a disabled Google app is flagged, whatever consents and refreshes are on
\* their way when the app is disabled (setGoogleAppStatus against saveGoogleAccount).
DisabledAppIsFlagged ==
  row.there /\ apps[row.account.flow] = "disabled" => row.flagged

\* A caller whose token was rejected is never handed that token again as a fresh one by its own
\* refresh or by an ordinary one it joined (ensureFreshOAuthAccount).
RejectedNotReturned ==
  \A c \in Callers :
    calls[c].state = "ready" /\ calls[c].rejected # NoToken /\ ~calls[c].joinedForced
      => calls[c].account.access # calls[c].rejected

\* The mailbox is flagged for reconnect only for its present grant: its app is disabled or was
\* when the refresh looked, the provider rejects the stored refresh token, or it rejected an
\* access token of this same grant after a forced refresh. A rejection that arrives after a
\* reconnect flags nothing (markReconnectRequired).
FlagIsEarned ==
  [][row.flagged' /\ ~row.flagged =>
       LET account == row.account IN
       \/ apps'[account.flow] = "disabled"
       \/ account.refresh \notin live
       \/ \E p \in Processes :
            flights[p].phase = "appGone" /\ flights[p].account.flow = account.flow
       \/ \E c \in Callers :
            /\ calls[c].state = "marking"
            /\ Refused(calls[c].account.access)
            /\ calls[c].account.access.grant = account.refresh.grant]_vars
===============================================================================
