# TLA+ models and proofs of muxi_auth_service_v2

The service keeps the accounts of an organisation: people sign up, sign in, reset
forgotten passwords, log in through the university's CAS, and are handed OAuth
codes and tokens for registered applications. It is a Go program (gin, gorm on
MySQL, go-oauth2 v4); this directory holds models of the parts of it that have
concurrency, transactions, retries or a protocol, the TLC configurations that
check them, and proofs, for every value of their constants, of the safety properties
those configurations check.

Paths below are relative to the repository (`src/`). `PROJECT.json` maps every
definition to the lines it models and lists the hazards each property is for.

    tlc -workers 2 -config MCIdentity.cfg MCCASIdentity        # model-check one run
    tlapm CASIdentity_proofs.tla                               # check one module's proofs

## 1. The system

### Components

| Component | Code | State | Operations | Talks to |
|---|---|---|---|---|
| CAS user resolver | `service/cas_identity.go`, `model/user_identity.go`, `db.sql` | tables `users`, `user_identities` | `ResolveCASUser`: look up identity; in a transaction find a local account, else create one; create the identity | called by the CAS callback; shares `users` with signup |
| Signup | `handler/signup/signup.go`, `model/user.go` | `users` | check the email and username, insert | existence check |
| Existence check, account lookup | `service/service.go` | none of its own; goroutines and channels per call | `CheckUserExisted`, `CheckUserNotExisted` | called by signup, sign-in and OAuth authorisation |
| Password reset | `handler/password/*.go`, `util/captcha` | `users.reset_t`, `users.password_hash` | `GetCaptcha`, `CheckCaptcha`, `PasswordReset` | mail |
| CAS callback | `service/cas_oauth.go`, `handler/oauth/cas_*.go` | none; CAS holds tickets, the code store codes | `HandleCallback`: validate the callback, validate the ticket, resolve the user, generate the code; or retry | browser, CAS, client store, resolver, code store |
| OAuth client domains | `service/oauth.go`, parts of `cas_oauth.go` | none | normalise a domain, accept a callback URL, find a client by callback URL | client store |
| OAuth client registration | `handler/oauth/store.go` | `oauth2_client` | `AdminStore` (`Store` always refuses) | client domains |
| OAuth codes and tokens | `handler/oauth/auth.go`, `token.go`, `refresh.go`, `pkg/oauth` | `oauth2_token` | issue a code, exchange it, refresh, parse an access token | go-oauth2 manager |
| User profile | `handler/user/get.go` | none | answer the subject of an access token | `users` |
| Migration of duplicate accounts | `migrations/20260804_merge_cas_duplicate_users.sql` | rewrites `users`, `user_identities`, `oauth2_token` | merge CAS shadow accounts into local ones | everything that stores a user id |
| Authorisation middleware | `router/middleware/auth.go`, `model/role.go` | none | access token to account or CAS user, role check | `users`, `roles` |
| Sign-in | `handler/signin/signin.go`, `pkg/auth`, `handler/check/token.go` | none; the client keeps the token | look up the account, compare the password, make a token; check a token | account lookup |
| Existence and email queries | `handler/check`, `handler/email` | none | one read each | `users` |
| Database connection, startup, HTTP plumbing, logging, mail, password primitives | `main.go`, `model/init.go`, `router`, `pkg/errno`, `pkg/logx`, `pkg/nacosx`, `util/smtpMail`, ... | configuration | input and output | |

How the parts meet: the CAS callback calls the resolver and then the code store;
the resolver, signup, password reset and the migration share the table `users`
with nothing between them but MySQL's unique keys and row locks; tokens carry a
user id that the migration may make obsolete; `AdminStore` and the callback share
the client store.

### What is hard, and what makes each part correct

* **Resolver.** The identity is looked up outside the transaction that later
  inserts it (`cas_identity.go:27`, `:51`); a first login racing another, a commit
  whose acknowledgement is lost, and a signup that takes the shadow name are all
  possible. Right: a CAS user gets one account for good (`AnswersAgree`,
  `ImplementsRegistry`), one they have a claim to and, if it is a shadow account,
  nobody else has, though shadow names may collide (`BoundByRight`), accounts and
  identities stand or fall together (`NoOrphanShadow`), and row locks never leave
  anyone waiting for ever (`EveryCallEnds`).
* **Signup.** Check-then-insert with one unique key, on `username` (`db.sql:46`).
  Right would be one account per email (`SignupEmailsDiffer`; it does not hold).
* **Existence check, lookup.** Two goroutines, a caller that leaves at the first
  decisive answer and closes their channels (`service.go:23-30`, `:86-113`). Right:
  the verdict is justified, the caller returns, no goroutine is left behind, and
  nothing is sent on a closed channel (the last does not hold).
* **Password reset.** Whole rows are read, held while a mail is sent, and written
  back (`getCaptcha.go:30`, `:66`; `reset.go:25`, `:43`). Right: a reset needs a live code
  (`ResetsOnlyByLiveCode`) and with one is not refused (`LiveCodeAccepted`), a request answered with success left a code that works
  (`AnsweredCodeWorks`), the handler returns (`GetCaptchaReturns`); that a mail
  failure is survived and that a reset lasts do not hold.
* **CAS callback.** CAS may lose the `client_id`; a ticket is bound to the exact
  service URL and can be spent once; the client is looked up by a URL while clients
  are being registered. Right: `CodeJustified`, `OneCodePerTicket`, `CodeAsAsked`,
  `TicketSpentForClient`, `OwnerServed` (the lookup finds the page's own client), and
  `LoginGetsCode` (the retry ends).
* **Registration.** Look up, then create: `OneClientPerDomain` does not hold.
* **Migration.** Runs beside live logins and refreshes, perhaps twice. Right: rows
  of `oauth2_token` and refreshed access tokens follow the account
  (`RowsFollowAccount`, `RefreshedTokensServed`), no identity dangles and no shadow
  account loses its identity.
* **Access tokens, authorisation.** An access token names an account by its number
  for up to 30 days, and only its signature and expiry are looked at
  (`pkg/oauth/token.go:31`), while accounts are merged away under it and the
  database is restarted. Right: it never opens another user's profile nor an
  administrator's route (`ServedAsOwner`).
* **Codes, tokens, refreshes.** A client may ask for a lifetime, which is multiplied
  in machine words (`cas_oauth.go:447`, `auth.go:69`); exchanges and refreshes are
  several calls of a store, which interleave and fail one by one. Right: access tokens
  live as long as was asked on every path (`LifetimeAsAsked`), a session ends
  (`SessionEnds`), a code that succeeded is not good again (`CodeGoodOnce`), a refresh
  that fails costs nothing (`FailedRefreshCostsNothing`).
* **Sign-in token.** Right would be seven days (`ValidSevenDays`; it does not hold).

## 2. The modules

| Module | Models | Composes |
|---|---|---|
| `IdentityRegistry` | abstract: what the resolver promises | |
| `CASIdentity` | resolver and signup over the two tables, statement by statement | refines `IdentityRegistry` |
| `AccountMerge` | the migration, sessions, the profile and the guarded routes, restarts of the database | extends `CASIdentity` |
| `UserChecks` | `CheckUserExisted` and `CheckUserNotExisted` in one process | |
| `PasswordReset` | `GetCaptcha`, `PasswordReset` | |
| `OAuthURLs` | rules on client domains and callback URLs | |
| `CASCallback` | `HandleCallback`, CAS, browsers, `AdminStore` | extends `OAuthURLs`; uses the registry's promise for the resolver |
| `OAuthTokens` | codes, exchanges and refreshes on a clock | |
| `SigninToken` | the sign-in token and its check | |
| `MC*` | instances for TLC | |
| `*_proofs` | the theorems about the module of that name | extend it; `CASCallback_proofs` extends `OAuthURLs_proofs`, `AccountMerge_proofs` extends `CASIdentity_proofs` |

Definitions headed "Mutant:" are plausible wrong versions of the definition that
follows them. No specification uses them; each property is shown to fail when one
of them is put in the place of the right one, so each property says something
about the code.

### CASIdentity

Variables `users`, `identities`, `nextId` are the committed rows and the
auto-increment column; `txUsers[l]`, `txIdentities[l]` what login `l` has inserted
and not committed. `pc[l]` is the statement login `l` is about to run:

| `pc[l]` | Action | Code |
|---|---|---|
| `idle` | `Arrive` | `ResolveCASUser`, the blank test |
| `lookup` | `LookupIdentity` | `GetUserIdentity`, on the pool: autocommit |
| `find` | `FindLocalUser` | `findExistingLocalUserForCAS`; both SELECTs share a snapshot, so one step |
| `createUser` | `CreateUser` | `tx.Create(&user)`; waits for, or fails on, the unique username |
| `createIdentity` | `CreateIdentity` | `tx.Create(&identity)`; likewise the unique subject |
| `commit` | `Commit`, `CommitUnacknowledged` | `tx.Commit()`; the answer may be lost |
| any of these | `Fail` | a statement fails, the process dies: rollback |

What MySQL does is modelled from how the code depends on it: a transaction runs at
REPEATABLE READ, its own rows are invisible to others until the commit, and an
insert whose key another open transaction holds waits for that transaction.
Auto-increment values are not given back by a rollback. `ShadowOf` stands for
`BuildCASLocalUsername` (a prefix and eight hex digits of a hash); it is an
arbitrary function, so that names may collide. Signups read email and username in
either order, then insert; a read error counts as "free", as in the code.

`IdentityRegistry` is the abstract specification: subject, status, answer and one
binding per subject that is set once. `CASIdentity` implements it under the mapping
`binding[s] <- BindingOf(s)` (the `user_id` of the committed identity row), `status`
<- all statements in between count as "waiting".

### AccountMerge

Adds to `CASIdentity` one row of `oauth2_token` per session (`row`), the access
token (`sub`, a JWT subject nobody checks against the database), and requests in
flight, which hold an account they have read and not written (`held`). `Merge` is
the whole migration as one step: it is one transaction that reads and updates all
three tables, so it waits for the rows of open transactions and they wait for it.
`Candidates`, `Pairs`, `MergedId`, `Rebound`, `Leftover`, `FilledUser` follow the
temporary tables and statements of the SQL in order. (`FilledUser` fills in no email
in the run: only shadow accounts are without one there, and they are no targets.) Sessions of the time before
local accounts (`cas:` subjects) exist from the start.

`cas_user_merge_pairs` is filled by one statement that reads the temporary table
`cas_user_merge_candidates` twice (lines 74 and 77 of the script). MySQL refuses
that (error 1137); MariaDB, and MySQL once the statement is rewritten, run it. The
model is of the migration where it runs.

The routes behind the middleware keep no state: `LocalUserID` and `CASUsername` are
the principal an access token resolves to, `Profile` what the profile request
answers, `AdminAllowed` whether `AdminRequiredMiddleware` lets it through. No handler
changes a role, so which usernames manage clients is the constant `Managers`.
`RestartDatabase` rolls open transactions back and leaves the `AUTO_INCREMENT`
counter as it was, which is what MySQL does since version 8 (`SurvivingId`); before,
the counter was made again from the table. `ServedAsOwner` needs the former: with
the latter (its mutant) the number of a shadow account the migration deleted is given
to the next signup, and old access tokens open that account.

### UserChecks

A call is two goroutines and a caller: one step for each database read (`Query`, any
outcome, since other signups go on meanwhile), `select` (`Select`), send, receive and
`close`; the deferred closes run last in, first out. `Checks` are calls of
`CheckUserExisted`, where an unbuffered send and its receive are one step
(`Receive`); `Lookups` are calls of `CheckUserNotExisted`, with a buffer of two (`Send`,
`ReceiveBuffered`). Both loops end at the first account or the second report of none
(`Take`). A send on a closed channel, one that was blocked included, ends the process
with all its calls (`up = FALSE`): gin's Recovery guards the request's goroutine only.

### PasswordReset

The account is one `row` of the password hash and the token. `copy[g]` and `verified[r]`
are the rows the handlers hold; a save writes all of the copy (gorm's `Save`). `void`
and `behind` are history: `void` collects the requests whose token was overwritten by a
save that did not know it. The mailer and the updater are goroutines with unbuffered
channels as above. Time is `now`; a token is a code and an expiry. `CheckCaptcha` is
`VerifyCaptcha` without an effect. The user types a code that came by mail, or one that
never was issued; `typed[r]` keeps it, so that the properties can say which code a reset
was sent with.

### OAuthURLs, CASCallback

A URL is a record of scheme, user info, host, port and whether it has a path, a
query, a fragment: all the rules look at. `Candidates` keeps the order in which the
code looks clients up, `FirstFound` stops at the first hit, as it does, and
`ClientsOf` adds the final comparison of origins.

`CASCallback` runs a browser through `Start`, `Login` (CAS issues a ticket for the
service URL, with or without the `client_id`) and the statements of
`HandleCallback`. `Reload` requests a callback URL again, with or without its
ticket, at any time. Requests in `Faulty` may meet a failure at every call,
including one after the call took effect. `ResolveUser` is one step, an
`IdentityRegistry` `Answer` or `Refuse`: that it may be one is what
`CASIdentity` shows. External parts (CAS, the client store, the code store) do
what the code's use of them relies on.

### OAuthTokens, SigninToken

`OAuthTokens` has one action per call of the store: `PasswordLogin` (`Auth`) and
`CASLogin` (`GenerateAuthorizeCode`) save a code with the lifetime asked for;
`LoadCode`, `RemoveCode`, `SaveGrant` are an exchange; `LoadRefresh`, `SaveRefreshed`,
`RemoveRefresh` a refresh. Every call may fail with or without effect, and the clock
ticks in between. `Duration` is the product with `time.Second` in signed words of
`MaxInt`, so it wraps. The manager and the store are libraries (go-oauth2 v4 and its
MySQL store): the order load, remove, save of an exchange, the order load, save, remove
of a refresh, that a lifetime counts only if positive, and that a refresh keeps the
lifetime asked for and the start of the refresh token's life are taken from version 4.0
of the manager with the configuration of `pkg/oauth/server.go`.

`SigninToken` makes a token with `Expire` as the code has it, a number of
nanoseconds, and checks it as `CheckToken` does. Two accounts may share an email.

## 3. What the runs check

| Run | Shows | Distinct states |
|---|---|---|
| `identity` | two logins of three CAS users, two of whose shadow names collide, and a signup whose reads fail: type, `AnswersAgree`, `NoOrphanShadow`, `BoundByRight`, `EveryCallEnds`, and that the resolver implements the registry | 173 thousand |
| `signup_emails` | two signups with one email are both created | violation |
| `user_checks` | a check and a lookup in one process, every outcome and order of their reads: `VerdictJustified`, `CallReturns`, `NoGoroutineLeft` | 66 thousand |
| `existence_panic` | a send on a closed channel ends the process | violation |
| `password` | two requests for a code and a reset: `AnsweredCodeWorks`, `ResetsOnlyByLiveCode`, `LiveCodeAccepted`, `GetCaptchaReturns` | 362 thousand |
| `password_lost` | a late save brings the old password back | violation |
| `password_panic` | a mail failure ends the process | violation |
| `cas_callback` | two logins, a reload, a registration: `CodeJustified`, `OneCodePerTicket`, `CodeAsAsked`, `TicketSpentForClient`, `OwnerServed`, and `LoginGetsCode` | 234 thousand |
| `client_twice` | one domain gets two clients | violation |
| `account_merge` | the migration run up to twice and the database restarted during two sessions and a signup: `RowsFollowAccount`, `RefreshedTokensServed`, `ServedAsOwner`, and that the resolver's invariants survive | 1.2 million |
| `tokens` | a login of either kind with any `token_exp`, two exchanges and two refreshes: `LifetimeAsAsked`, `FailedRefreshCostsNothing`, `SessionEnds`, `CodeGoodOnce` | 2.0 million |
| `signin_week` | a sign-in token is good after seven days | violation |

### Bounds, and why they are enough

* `Logins`: two in `identity` and `account_merge`, a pair being what collides: one
  commits between the lookup and the insert of the other, or holds the lock the
  other waits for. The safety properties of `identity` are proved for any number.
* Subjects in `identity`: three, so that a pair of logins is of one CAS user, of two
  whose shadow names collide, or of two that have nothing in common.
* `MaxId`: 3, since each login and signup draws at most one id.
* `Emails`: one address and none at all: equal and missing are the cases the code
  tells apart. `Names` are the subjects and their shadow names, so that a signup
  may take either.
* `ReadErrors`: the signup may meet read errors in `identity` and `account_merge`.
* `Managers`: one of the two names a local account may have and its CAS user shares,
  so that a stranger's account may be a manager's and need not be.
* `Checks` and `Lookups`: one each. Calls share only the process, whose end is what
  one can do to another; within a call, both goroutines and the caller interleave.
  Two accounts, so that the two reads may disagree. `Misses` is a constant of the code.
* `Lifetime` 1 and `MaxTime` 2: before, at and after the expiry.
  Two codes, so that the tokens of two requests may be equal or differ.
* `MaxLosses` 1, `MaxTickets` 2: a login loses its `client_id` and comes back; a
  second loss would repeat the same states with a fresh ticket. Hosts: one
  written with a capital, one not public, one registered meanwhile; ports: none and 443.
  Four things a login may ask for: its own page, a page whose client is registered
  meanwhile, its page with the default port written out, and another client's page with a
  `token_exp` that is no number. Two accounts, so that a code may be for the wrong one.
* `MaxMerges` 2: the script is meant to be repeatable.
* `tokens`: `Second` 10 and `MaxInt` 127, an 8-bit word in which a second is a
  number with two digits: of the six values of `token_exp` one fits, one wraps to a
  negative lifetime, one is negative, one is negative and wraps to a positive
  lifetime, one is no number, one is missing. `CodeExp` and `RefreshExp` 1 within
  `MaxTime` 2: before, at and after the expiry. Two refreshes: of one token at once,
  or one after the other.
* `signin_week`: a week of 3 seconds of 10 nanoseconds.
* `account_merge` and `tokens` use the symmetry of `Logins` and of the requests; both
  check safety only.
* Deadlock is not checked: every model may come to rest when its requests are over
  or the process is down. That nothing waits for ever is what `EveryCallEnds`,
  `CallReturns`, `NoGoroutineLeft`, `GetCaptchaReturns` and
  `LoginGetsCode` say instead.

### Fairness

Weak fairness only, and only of steps the code's scheduling grants. A running
goroutine is eventually scheduled (`LoginStep`, `SignupStep`, `CallerStep`,
`GoroutineStep`, the four steps of `GetCaptcha`); an InnoDB lock is granted once
it is free, which is why `CreateUser` and `CreateIdentity` need only weak fairness:
no login comes again, so a freed lock is not taken away for ever. The browser and CAS: a
user who is asked to log in does (`Login`). No arrival, failure, loss, reload,
clock tick or registration is fair: nothing relies on one happening.
`AccountMerge`, `OAuthTokens` and `SigninToken` have no liveness property and no fairness.

### Findings

1. **Two accounts with one email** (`signup_emails`). `signup.go:42` checks, `:58`
   inserts; only `username` is unique. `api.yaml:56-57` promises "Email duplicated".
2. **A check that is over can end the process** (`existence_panic`). A goroutine
   passes the `select` on `done` and then sends on a channel that its caller is
   closing. Comments at `service.go:16` and `:22` say it sends only if the check is not
   over. `CheckUserNotExisted` has the same step.
3. **A mail failure can end the process** (`password_panic`). `GetCaptcha` returns
   at `getCaptcha.go:69-72` and closes the channel its other goroutine sends on.
4. **A password reset can be undone** (`password_lost`). A request for a code saves
   the whole row it read before the reset.
5. **A domain can get two clients** (`client_twice`). `store.go:49` looks up, `:61`
   creates; `:55` promises a refusal.

6. **A sign-in token is good for ever** (`signin_week`). `signin.go:50` says seven
   days; the number is taken for nanoseconds, so the expiry is the moment the token
   was made, and `CheckToken` does not look at it.

Noted in passing, and not checked: the example of docs/cas-oauth-debug.md 5.4-5.5
uses an `http` callback, which `validateCallbackURLForClient` refuses as line 195 of
the same document says it should, and 5.6 exchanges the code without the
`redirect_uri`; a `callback_url` with `:443` is looked up without
the port too, but the comparison of origins then refuses the client so found; the
refresh of an old `cas:` token issues a new `cas:` subject, which
`pkg/oauth/token.go:17-18` says does not happen (`SessionEnds` bounds it); a reset does
not clear the token, so a code works again until it expires; `Refresh` answers
`refresh_expired` with the full five years, though the life of the refresh token is
counted from the exchange of the code; a `token_exp` that is no number is passed over
by `Auth` and refused by the CAS callback, whose comment (`cas_oauth.go:430`) says it keeps to
the existing semantics; when the database does not answer as the process starts,
`model/init.go:31-33` logs the error and goes on with a pool gorm has closed.

`RowsFollowAccount` and `RefreshedTokensServed` leave out sessions one of whose
requests was in flight when the migration ran (`overtaken`): such a request writes
the id of an account that the migration has just deleted, and the service has
nothing to prevent it. `RefreshedTokensServed` also leaves out access tokens from
before the merge that were not refreshed yet (`outdated`), since they name the
old account until they expire. `ServedAsOwner` leaves out neither.

`AnsweredCodeWorks` and `LiveCodeAccepted` leave out codes whose token a later save
overwrote unknowingly (`void`): a second request for a code, or a reset that had read the
row before, makes the first code worthless, and nothing promises otherwise.
`LifetimeAsAsked` leaves out lifetimes whose nanoseconds do not fit a word. The panic of
`CheckUserNotExisted` is a step of `UserChecks`, and no run is about it: `existence_panic`
shows that of its twin, whose comments say it cannot happen.

## 4. What is proved

Every invariant that a passing run checks, and every action property, is a theorem
for all values of the constants. One TLC run shows it on a small instance; the proof
covers any number of logins, requests, signups, tickets, names and merges.

| Module | Theorem | Statement |
|---|---|---|
| `CASIdentity_proofs` | `Invariance`, `TypeCorrect` | `Spec => []IInv`, `Spec => []TypeOK` |
| | `LoginsAgree`, `ShadowsHaveIdentity`, `BindingsByRight` | `[]AnswersAgree`, `[]NoOrphanShadow`, `[]BoundByRight` |
| | `RegistryImplemented` | `Spec => ImplementsRegistry` |
| `AccountMerge_proofs` | `MergeInvariance`, `MergeTypeCorrect` | `MergeSpec => []MergeInv`, `MergeSpec => []MergeTypeOK` |
| | `MergeLeavesNoOrphan`, `MergeByRight` | `[]NoOrphanShadow`, `[]BoundByRight`, of `MergeSpec` |
| | `RowsFollow`, `RefreshedServed`, `OnlyOwnersServed` | `[]RowsFollowAccount`, `[]RefreshedTokensServed`, `[]ServedAsOwner` |
| `UserChecks_proofs` | `Invariance`, `TypeCorrect`, `VerdictsJustified` | `[]IInv`, `[]TypeOK`, `[]VerdictJustified` |
| `PasswordReset_proofs` | `Invariance`, `TypeCorrect`, `AnsweredCodesWork` | `[]IInv`, `[]TypeOK`, `[]AnsweredCodeWorks` |
| | `OnlyLiveCodesReset`, `LiveCodesAccepted` | `ResetsOnlyByLiveCode`, `LiveCodeAccepted`, about steps |
| `OAuthURLs_proofs` | `OwnerFound` | what `ClientsOf` returns for a page that may be a callback |
| `CASCallback_proofs` | `Invariance`, `TypeCorrect`, `CodesJustified`, `TicketsGoodOnce`, `CodesAsAsked` | `[]IInv`, `[]TypeOK`, `[]CodeJustified`, `[]OneCodePerTicket`, `[]CodeAsAsked` |
| | `TicketsSpentForClients`, `OwnersServed` | `TicketSpentForClient`, `OwnerServed`, about steps |
| `OAuthTokens_proofs` | `Invariance`, `TypeCorrect`, `LifetimesAsAsked`, `FailuresCostNothing` | `[]IInv`, `[]TypeOK`, `[]LifetimeAsAsked`, `[]FailedRefreshCostsNothing` |
| | `SessionsEnd`, `CodesGoodOnce` | `SessionEnds`, `CodeGoodOnce`, about steps |

### From which assumptions

Only the named assumptions of the modules, which TLC evaluates for every run, and one
hypothesis:

* Markers differ from what they stand beside: `NoneAssumption` (`None` is no code, token,
  service, row), `NilAssumption`, `AccountsAssumption` (0 is no account), `Blank` and
  `NoEmail` in `NamesAssumption`, `PortAssumption`, `CallersAssumption`.
* Requests of two kinds are different requests: `LoginsAssumption`, `RequestsAssumption`,
  `CallsAssumption`, `CallersAssumption`, `PasswordAssumption`.
* Bounds, clocks and lifetimes are natural numbers; `AccessExp` fits a word of nanoseconds
  (`LifetimesAssumption`; 30 days do), and so does any number a `token_exp` can be
  parsed into (`WordAssumption`; `strconv.ParseInt` gives no other).
* `NamesAssumption`: shadow names and subjects are names, each subject has a shadow name;
  nothing is assumed of collisions.
* `HostsAssumption`: lower case is idempotent, and a public host is in lower case.
  `ParametersAssumption`: an exp parameter is missing, a number or none, and a domain
  has a host and a port.
* `SubjectsAssumption`: the subject of a CAS user is no number (`cas:` and a username,
  `pkg/oauth/token.go:14`), so a token never names a user and an account at once.
* `OwnersServed` has the hypothesis `Normalised(Registered)`: clients that were there at
  the start are stored in lower case, as `AdminStore` stores them. A client written into
  the table otherwise, by hand, may stand before the owner and be refused for it; TLC's
  instance satisfies it.

### Along which argument

None of the invariants is inductive as it stands; each module's `IInv` (`MergeInv`) is. The
proofs have one lemma per action that keeps it, lemmas for what a step leaves alone
(`TransactionKept`, `CallKept`, `GetKept`, `HandlerKept`, `SessionKept`, ...), and
`StepInv`, which joins them.

* **CASIdentity.** `AnswersAgree` could be lost at a commit if two rows with one subject
  could be committed, which needs `OneRowPerSubject`, which a commit keeps only because the
  rows of an open transaction are free of the committed rows and of those of any other
  transaction (`PendingSubjectsFree`). `NoOrphanShadow` and `BoundByRight` are about
  committed rows, and a commit keeps them because of what the transaction holds at each
  statement (`TransactionOK`): nothing before `createUser`, at most the user row before
  `createIdentity`, exactly one identity row before `commit`, and a target the subject has
  a claim to. That claim (`ClaimsHeld`) is read off the account, so it is not enough where
  two shadow names collide: `OneOwner` is the other half of `BoundByRight`. A commit keeps it
  because a login that is about to bind never binds to an older shadow account (`TargetOK`),
  and the one it has created has an id that is nobody else's (`IdsApart`). These parts make
  up `AccountsInv`, on top of `TablesInv`, and `IInv` adds `AnswersAgree`; the former two are
  kept whatever was answered, so `AccountMerge` can build on them.

  The refinement uses `IInv` in both states: `BindingOfRow` says what `CHOOSE` picks when a
  subject has one row, `PublishBinds` that a commit binds one subject and leaves the others
  alone, and a lemma per action maps it to a registry step or a stutter (`StepRefines`).
* **AccountMerge.** A merge changes bindings, so `AnswersAgree` fails: a login answered
  before it and not yet given a code has the old account. What stays is `AccountsInv`.
  The identity of a shadow account came with the email the account has
  (`SameEmailAsShadow`), so the email the migration searches by is the identity's
  (`PairFacts`); it is the only one (`OneOwner`), so an identity bound to a shadow account is
  the one the pair was made of (`PairOfIdentity`), and none is left at an account that is
  merged (`LeftoverIs`). `MergeKeepsAccounts` is
  the migration's part; `BindingMerged` says that a binding moves as `MergedId` does,
  `MergedDies` that the merged account is `Dead`: deleted and its id below the counter.
  Dead accounts stay dead, and this is where `ServedAsOwner` comes from: whatever a
  session still holds is its user's account or dead (`Named`). `SessionOK` adds, for
  sessions that no merge overtook, that it is its user's account (`Owned`).
* **UserChecks.** A verdict of none is justified only if no report of an account can be
  lost. While the caller is in its loop, the reports it has received and those in the
  buffer are all reports of goroutines that ended (`Counted`), an account that was found
  and not received waits in the buffer (`NothingLost`), and what waits there was read
  (`BufferRead`). The first also bounds the buffer, so a send never waits.
* **PasswordReset.** The token of a request that was answered is in the row
  (`SavedInRow`), and in every row a reset has read and not saved, unless it was saved after
  that read (`SavedInVerified`); otherwise the reset would put back an older token. The
  exceptions are the history variables `void` and `behind`: they are written and
  never read by an action, so they restrict no behaviour; they only name the requests
  whose token was overwritten by a save that did not know it. A token in any row was made
  by a request and did not change (`TokensIssued`), and holds the code that request drew
  (`GetOK`): with the guard of `Verify` (`ResetBegins`) this gives `OnlyLiveCodesReset`, and
  with `SavedInRow` (`AnsweredCode`) `LiveCodesAccepted`.
* **OAuthURLs, CASCallback.** `FirstCandidates` says that a URL is looked up as it is
  written and then in lower case, so `OwnerFound` needs no induction over the list of
  candidates: of clients stored in lower case, either the first finds the owner, or the
  second does. In `CASCallback`, `HandlerOK` ties each place of a handler to the ticket it
  carries: past `ValidateCallback` it names a client of the page, past `ValidateTicket` it
  holds a ticket that is spent, was issued for this very service, and has no code yet;
  `HoldersApart` says that no other handler holds it, which is what makes
  `OneCodePerTicket` inductive. `CodeAsAsked` needs that every service that goes round
  between browser, CAS and the retry carries what the login began with (`BrowserOK`,
  `TicketsAsAsked`). Bindings, clients, spent and bound tickets only grow, so a code
  stays right (`CodeKept`).
* **OAuthTokens.** `WrapWord` says that cutting an integer down to a word leaves a word
  alone, `WholeSeconds` that whole seconds survive the nanoseconds, `ExpRight` that both ways
  of logging in give the lifetime asked for unless it does not fit. `CodesRight` and
  `TokenRight` carry it from the code to every token; `TokenRight` also says that the life of
  a refresh token counts from an exchange of the same login, from which `SessionEnds`
  follows. `Replaced`: tokens that were stored and are gone were replaced, which is
  `FailedRefreshCostsNothing` before anyone was answered.

The invariants above were also given to TLC as invariants of the runs before they were
proved.

**Model-checked only.** Liveness: `EveryCallEnds`, `CallReturns`, `NoGoroutineLeft`,
`GetCaptchaReturns`, `LoginGetsCode`; the prover has no rule for fairness and ENABLED. The
properties that do not hold, whose counterexamples the runs find. What `FirstFound` returns
for a list of any length, which would need an induction over it.

## 5. What is not modelled, and why

* Email format, password hashing, AES of the sign-in token, URL syntax below the
  parts listed: they do not interact with the order of steps.
* `CheckCaptcha`, existence and email queries: one read each; they change nothing and
  nothing relies on what they answered. Routing, answers, logging: no state.
* Startup: what becomes of the process when the database, Nacos or the configuration
  is not there lies with gorm, viper and the OAuth store, none of them in the
  repository. The failures of reads it may lead to are in the modules.
* The store's removal of expired rows every two hours: an expired row is refused anyway.
* Changes of the configuration file under the running service (`config.go:72`): the
  values read per request are the CAS addresses, the key of the captcha token and the
  mail password; all fail closed.

## 6. Plan

Done, in order of importance: `IdentityRegistry` and `CASIdentity` with proofs;
`UserChecks`, `PasswordReset`; `OAuthURLs` and `CASCallback`; `AccountMerge`;
`OAuthTokens`, `SigninToken`.

Then the proofs: `CASIdentity`, with the refinement; `OAuthTokens`, `UserChecks`,
`PasswordReset`, `OAuthURLs`, `CASCallback`, `AccountMerge`.

Next:

1. `AccountMerge`: an abstract registry whose bindings a merge may move, only along
   `MergedId`, and that the service with the migration implements it.
2. `CASCallback`: that its bindings, with `ResolveUser`, implement `IdentityRegistry`, so
   that the module is seen to use no more than what `CASIdentity` promises.
3. `UserChecks`: the safety half of `NoGoroutineLeft`: when a call is over and the process
   is up, no goroutine is blocked in a send.
4. `PasswordReset`: that a row's password is the old one or one of a verified reset, and
   what it takes for `OldPasswordGone` to hold.
