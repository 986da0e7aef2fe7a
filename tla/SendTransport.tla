----------------------------- MODULE SendTransport -----------------------------
(***************************************************************************)
(* The delivery attempts of one letter: what transport.sendMail does behind *)
(* the send queue's step "hand to the server" (mailSendTransport.js,        *)
(* gmailApiSender.js, smtpTransport.js) and the outcome the queue is given  *)
(* for it (smtpErrors.js, sendDelivery.js).                                 *)
(*                                                                          *)
(* A Gmail mailbox sends over the Gmail API, again without the thread after *)
(* a refusal, again with a renewed token after a 401, and over SMTP when    *)
(* the API certainly did not take the letter. SMTP tries the addresses of   *)
(* the host one by one, and an OAuth mailbox renews its token once.         *)
(* Meanwhile the user may reconnect the account. "retry" runs it all again. *)
(***************************************************************************)
EXTENDS Naturals

CONSTANTS
  Accounts,     \* among "gmail" (sends over the API), "oauth" and "password" (over SMTP)
  Addresses,    \* how many addresses the SMTP host resolves to
  MaxAttempts,  \* bound: runs of the job
  MaxGrants     \* bound: grants the account may have had

ASSUME TransportAssumption ==
  /\ Accounts \subseteq {"gmail", "oauth", "password"}
  /\ Addresses \in Nat \ {0} /\ MaxAttempts \in Nat \ {0} /\ MaxGrants \in Nat \ {0}

VARIABLES
  account,    \* the kind of mailbox
  reply,      \* the letter answers one of a known Gmail thread
  stage,      \* where the attempt stands
  thread,     \* the API request carries the threadId
  renewed,    \* the attempt forced its refresh of the token (API and SMTP each have one)
  address,    \* the SMTP address in turn
  outcome,    \* what the queue was told of the last attempt
  attempts,   \* attempts begun
  delivered,  \* how many times a server took the letter
  grant,      \* the refresh token in the account's row
  held,       \* the one the attempt's token came from: what the flag is compared with
  flagged,    \* oauth_reconnect_required
  replaced,   \* history: the row's grant changed under this attempt
  repeated    \* history: a session that broke was repeated at the host's next address

letter == <<account, reply, repeated>>
grants == <<grant, held, flagged, replaced>>
vars == <<account, reply, stage, thread, renewed, address, outcome, attempts, delivered,
          grant, held, flagged, replaced, repeated>>

Grants == 1 .. MaxGrants
Outcomes == {"none", "sent", "retry", "fail", "needs_attention"}
Stages == {"ready", "api", "apiRefresh", "flag", "fallback", "smtp", "smtpRefresh", "settled"}

TypeOK ==
  /\ account \in Accounts
  /\ reply \in BOOLEAN
  /\ stage \in Stages
  /\ thread \in BOOLEAN
  /\ renewed \in BOOLEAN
  /\ address \in 1 .. Addresses
  /\ outcome \in Outcomes
  /\ attempts \in 1 .. MaxAttempts
  /\ delivered \in Nat
  /\ grant \in Grants /\ held \in Grants
  /\ flagged \in BOOLEAN
  /\ replaced \in BOOLEAN
  /\ repeated \in BOOLEAN

Init ==
  /\ account \in Accounts
  /\ reply \in (IF account = "gmail" THEN BOOLEAN ELSE {FALSE})
  /\ stage = "ready"
  /\ thread = reply
  /\ renewed = FALSE
  /\ address = 1
  /\ outcome = "none"
  /\ attempts = 1
  /\ delivered = 0
  /\ grant = 1 /\ held = 1
  /\ flagged = FALSE
  /\ replaced = FALSE
  /\ repeated = FALSE

-------------------------------------------------------------------------------
(* Parts of steps *)

\* The attempt is over: sendMail resolved, or threw what deliveryFailure takes for this outcome.
Settles(result) ==
  /\ stage' = "settled"
  /\ outcome' = result
  /\ UNCHANGED <<thread, renewed, address>>

Goes(to) ==
  /\ stage' = to
  /\ UNCHANGED <<thread, renewed, address, outcome>>

\* The server took the letter, or it did not, and a broken connection does not say which.
MayBeTaken == delivered' \in {delivered, delivered + 1}

\* The row's grant becomes another one: rotated by a refresh, or written by a reconnect.
NewGrant == grant < MaxGrants /\ grant' = grant + 1

-------------------------------------------------------------------------------
(* The transport is set up: createAccountSendTransport, createAccountSmtpTransport *)

\* ensureFreshOAuthAccount returns the row whose token is used.
SetUp ==
  /\ stage = "ready"
  /\ Goes(IF account = "gmail" THEN "api" ELSE "smtp")
  /\ held' = grant
  /\ replaced' = FALSE
  /\ UNCHANGED <<letter, attempts, delivered, grant, flagged>>

\* The provider refuses the grant at its token endpoint, which the token manager flags.
GrantRefused ==
  /\ flagged' = TRUE
  /\ UNCHANGED <<grant, held, replaced>>

\* setupFailure: oauth_refresh_failed and a throw are retried, oauth_reconnect_required and the
\* rest fail.
SetupFails ==
  /\ stage = "ready"
  /\ \/ \E result \in {"retry", "fail"} : Settles(result) /\ UNCHANGED grants
     \/ Settles("fail") /\ account # "password" /\ GrantRefused
  /\ UNCHANGED <<letter, attempts, delivered>>

-------------------------------------------------------------------------------
(* The Gmail API: sendGmailApiMessage *)

ApiTakes ==
  /\ stage = "api"
  /\ delivered' = delivered + 1
  /\ Settles("sent")
  /\ UNCHANGED <<letter, attempts, grants>>

\* What a 4xx means once it stands: a refusal of the letter (gmail_quota_exceeded is tried
\* later), one the SMTP server may not share, or of the grant's scope.
Refusals == {"terminal", "quota", "fallback", "scope"}
AfterRefusal(class) ==
  \/ class = "terminal" /\ Settles("fail")
  \/ class = "quota" /\ Settles("retry")
  \/ class = "fallback" /\ Goes("fallback")
  \/ class = "scope" /\ Goes("flag")

\* attemptWithThreadFallback: any 4xx is first retried without the thread.
WithoutThread ==
  /\ stage' = "api"
  /\ thread' = FALSE
  /\ UNCHANGED <<renewed, address, outcome>>
ApiRefuses(class) ==
  /\ stage = "api"
  /\ IF thread THEN WithoutThread ELSE AfterRefusal(class)
  /\ UNCHANGED <<letter, attempts, delivered, grant, held, flagged, replaced>>

\* 401: the token is renewed once, by a forced refresh; the second 401 is of the grant.
ApiRejectsToken ==
  /\ stage = "api"
  /\ Goes(IF renewed THEN "flag" ELSE "apiRefresh")
  /\ UNCHANGED <<letter, attempts, delivered, grant, held, flagged, replaced>>

\* classifyGmailApiNetworkError: the host was not reached, nothing was sent.
ApiUnreachable ==
  /\ stage = "api"
  /\ Goes("fallback")
  /\ UNCHANGED <<letter, attempts, delivered, grants>>

\* A 5xx, the abort after 90 s, or a connection lost: Google may have taken the letter.
AfterUncertainSlip == Goes("fallback")
AfterUncertain == Settles("needs_attention")
ApiBreaks ==
  /\ stage = "api"
  /\ MayBeTaken
  /\ AfterUncertain
  /\ UNCHANGED <<letter, attempts, grants>>

\* ensureFreshOAuthAccount({ force }): the row with a new token, by this refresh or by another's,
\* and with a new refresh token when the provider rotated it.
Renewed(to, heldNow) ==
  /\ stage' = to
  /\ renewed' = TRUE
  /\ thread' = reply
  /\ address' = 1
  /\ UNCHANGED outcome
  /\ \/ grant' = grant
     \/ NewGrant
  /\ held' = heldNow
  /\ replaced' = FALSE
  /\ UNCHANGED flagged

HeldAfterRefreshSlip == held
HeldAfterRefresh == grant'
ApiRefresh ==
  /\ stage = "apiRefresh"
  /\ Renewed("api", HeldAfterRefresh)
  /\ UNCHANGED <<letter, attempts, delivered>>

\* The refresh fails and its error is the attempt's: an OAuthTokenError, the rejection when the
\* row holds no token, or one without a class (the database), which is taken for uncertain.
RefreshFails ==
  /\ stage \in {"apiRefresh", "smtpRefresh"}
  /\ \/ \E result \in {"retry", "fail", "needs_attention"} :
          Settles(result) /\ UNCHANGED grants
     \/ Settles("fail") /\ GrantRefused
  /\ UNCHANGED <<letter, attempts, delivered>>

\* markReconnectRequired: only while the rejected grant is still the stored one.
FlagsGrant == grant = held
FlagAccount ==
  /\ stage = "flag"
  /\ Settles("fail")
  /\ flagged' = (flagged \/ FlagsGrant)
  /\ UNCHANGED <<letter, attempts, delivered, grant, held, replaced>>

\* The UPDATE fails: logged, and the letter fails all the same.
FlagLost ==
  /\ stage = "flag"
  /\ Settles("fail")
  /\ UNCHANGED <<letter, attempts, delivered, grants>>

-------------------------------------------------------------------------------
(* The fallback to SMTP: createAccountSmtpTransport, with a refresh of its own *)

FallBack ==
  /\ stage = "fallback"
  /\ stage' = "smtp"
  /\ renewed' = FALSE
  /\ held' = grant
  /\ replaced' = FALSE
  /\ UNCHANGED <<letter, thread, address, outcome, attempts, delivered, grant, flagged>>

\* A refresh that fails, or a setup that throws: an error without a class is taken for uncertain.
FallbackFails ==
  /\ stage = "fallback"
  /\ \/ \E result \in {"retry", "fail", "needs_attention"} :
          Settles(result) /\ UNCHANGED grants
     \/ Settles("fail") /\ GrantRefused
  /\ UNCHANGED <<letter, attempts, delivered>>

-------------------------------------------------------------------------------
(* SMTP: runWithAddressFallback and createOAuthSmtpTransport *)

SmtpTakes ==
  /\ stage = "smtp"
  /\ delivered' = delivered + 1
  /\ Settles("sent")
  /\ UNCHANGED <<letter, attempts, grants>>

\* An error with the command CONN goes on at the next address, within the budget of 45 s; the
\* last address, or one past the budget, throws it.
NextAddress ==
  /\ address < Addresses
  /\ address' = address + 1
  /\ UNCHANGED <<stage, thread, renewed, outcome>>
AfterConnError(result) == NextAddress \/ Settles(result)

\* No connection, no greeting, no TLS; or a 421, the server ending the session.
SmtpUnreachable ==
  /\ stage = "smtp"
  /\ AfterConnError("retry")
  /\ UNCHANGED <<letter, attempts, delivered, grants>>

\* nodemailer tags a close or a timeout in the middle of a session as CONN too: the letter may
\* have been taken.
AfterClose == AfterConnError("needs_attention")
SmtpCloses ==
  /\ stage = "smtp"
  /\ MayBeTaken
  /\ AfterClose
  /\ repeated' = (repeated \/ address' # address)
  /\ UNCHANGED <<account, reply, attempts, grants>>

\* A reply: 4xx is tried again, 5xx, no valid recipient and a letter that cannot be built fail.
SmtpRefuses ==
  /\ stage = "smtp"
  /\ \E result \in {"retry", "fail"} : Settles(result)
  /\ UNCHANGED <<letter, attempts, delivered, grants>>

\* The credentials are rejected: an OAuth token is renewed once, and everything repeated.
SmtpRejectsLogin ==
  /\ stage = "smtp"
  /\ \/ /\ account # "password"
        /\ ~renewed
        /\ Goes("smtpRefresh")
     \/ /\ account = "password" \/ renewed
        /\ \E result \in {"retry", "fail"} : Settles(result)
  /\ UNCHANGED <<letter, attempts, delivered, grants>>

SmtpRefresh ==
  /\ stage = "smtpRefresh"
  /\ Renewed("smtp", grant')
  /\ UNCHANGED <<letter, attempts, delivered>>

-------------------------------------------------------------------------------
(* Around the attempt *)

\* The job runs again after its delay.
Again ==
  /\ stage = "settled"
  /\ outcome = "retry"
  /\ attempts < MaxAttempts
  /\ attempts' = attempts + 1
  /\ stage' = "ready"
  /\ thread' = reply
  /\ renewed' = FALSE
  /\ address' = 1
  /\ outcome' = "none"
  /\ UNCHANGED <<letter, delivered, grants>>

\* The user goes through the consent: a new grant, and the flag is cleared.
Reconnect ==
  /\ account # "password"
  /\ NewGrant
  /\ flagged' = FALSE
  /\ replaced' = TRUE
  /\ UNCHANGED <<letter, stage, thread, renewed, address, outcome, attempts, delivered, held>>

ApiStep ==
  \/ ApiTakes
  \/ \E class \in Refusals : ApiRefuses(class)
  \/ ApiRejectsToken \/ ApiUnreachable \/ ApiBreaks
  \/ ApiRefresh
SmtpStep ==
  \/ SmtpTakes \/ SmtpUnreachable \/ SmtpCloses \/ SmtpRefuses \/ SmtpRejectsLogin
  \/ SmtpRefresh

AttemptStep ==
  \/ SetUp \/ SetupFails
  \/ ApiStep
  \/ RefreshFails \/ FlagAccount \/ FlagLost
  \/ FallBack \/ FallbackFails
  \/ SmtpStep

Next == AttemptStep \/ Again \/ Reconnect

Spec == Init /\ [][Next]_vars

-------------------------------------------------------------------------------
(* Safety *)

\* However the attempts of a letter go, no two of its requests are both taken, over SMTP, again without
\* the thread, or by another run, and an outcome that says nothing was delivered is true of every
\* request of every attempt: the queue sends again after "retry", and the author is told "failed"
\* after "fail". The exception is a session that broke and was repeated at the next address.
\* (mailSendTransport.js:88-92, gmailApiSender.js:149-152, sendDelivery.js:6-13, 184-214)
DeliveredAtMostOnce ==
  repeated \/ delivered <= (IF outcome \in {"retry", "fail"} THEN 0 ELSE 1)

\* A letter that failed for its grant leaves the account flagged, also when the refresh before
\* had rotated the grant, unless the row was changed meanwhile or its update failed.
\* (mailSendTransport.js:112-114)
DeniedGrantIsFlagged ==
  [][FlagAccount => flagged' \/ replaced]_vars
===============================================================================
