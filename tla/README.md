# Keyring: a verification project

Keyring is a credential service: people log in by invitation, keep named profiles of
connections to other services in an encrypted vault, and let programs use them. It is one
process with one asyncio event loop over one SQLite file, whose single worker thread runs one
whole transaction at a time. This directory holds TLA+ models of that code, the TLC runs that
check them on small instances, and TLAPS proofs of every safety property the runs check.

## How the code runs, and what a step is

* A request handler runs alone until it awaits. What it read stays in its own locals.
* `Database.transact` and `Database.execute` submit one callable to one thread. A store
  method is therefore one indivisible transaction; two store methods are never one.
* In-memory structures (rate limiter, OAuth states) take an `asyncio.Lock` around code that
  never awaits, so their operations are indivisible too. The renewal lock of the credential
  service is different: it is held across transactions and network calls.

So an action of every model is a handler *from one await to the next*: at most one
transaction or outside call, then the code up to the following one. The variable `task` holds
what each request is about to do and what it has read. Everything hard in this system comes
from the gaps between those steps.

## Inventory

| Component | State | Operations | Hard behaviour | What makes it correct |
|---|---|---|---|---|
| Accounts (`accounts/service.py`, `sql_store.py`, `domain/`) | accounts with roles, sessions, grants (invites, reset links) | login, confirm_password, resolve_session, logout, change_password, request_password_reset, redeem_*, issue_invite, set_status, set_roles, delete, sweep | read-compute-save over several transactions; logins racing with revocation, deletion, disabling | session cap, deadlines under the ceiling, ended sessions stay ended, single-use grants, one account per address, an owner remains |
| Rate limiter (`accounts/ratelimit.py`) | attempt times per scope and caller | check, reset, purge_expired | capped history, boundary of the window, sweep with somebody else's window | verdict equals that of the full history; callers are forgotten |
| Credential vault (`credentials/service.py`, `kinds.py`, `state.py`, `profiles/sql_store.py`, `secrets/sql.py`) | profiles, connections, secrets, OAuth flows, renewal locks | create/delete profile, put_direct_credential, begin/complete_authorization, resolve_http_auth with renewal, resolve_form_secrets, revoke_connection, sweep | two-write stores and two-read loads, renewal across a network call, rotating refresh tokens, restart | caps, single-use states, no material of one kind at the endpoint of another, renewals take turns, no replay of a rotated token, every request ends |
| Credential changes (`credentials/changes.py`) | none of its own | re-authentication and announcement around vault changes, by four kinds of requester | settings read over the network before the change, profile read before the check, consent checked when it begins and stored when it ends | no change without the password an owner asks for; each change announced once |
| Admin and roles (`admin/`, `sql_roles.py`, `domain/rbac.py`) | roles table, roles held, audit log | create, edit, delete and assign roles; disable, reset, sign out, delete a person; delete a profile; invite | permissions, target and roles each read in a transaction before the write | the staff never exceed what they began with, held roles exist, built-ins are immutable, the log is bounded |
| Delegation (`credentials/delegation.py`, `sql_delegations.py`, `signing.py`) | offline grants, allowlist of the process; tokens are out of its hands | issue a service token, create, revoke, exchange a token or a grant | cap, expiry, revocation and disabling racing an exchange, chains of exchanges, a restart with another allowlist | no token outlives what it was made from; revoking and disabling take hold |
| Preferences (`core/preferences.py`) | none; the settings client keeps a cache | for_account | outage, stale copy, damaged answers | an unknown security setting is never guessed; ceilings are never raised |
| Outbox (`notifications/outbox.py`) | pending sends | enqueue, drain | full queue, hanging sender, shutdown | bounded; shutdown does not wait for ever |
| Database, migrator, container (`storage/`, `core/container.py`, `api/app.py`) | one file, one connection, one thread, its queue; signing key file; sweeper task | open, migrate, seed, load key, run, transact, sweep, close | crash inside any step of a start, disconnecting clients, a refused start, close behind queued work | schema is what it says, answers are true, one key, nothing left open, the sweeper survives |
| Python client (`clients/python`) | key set cache | key_for, healthy | refetch storms, rotation, outage, cancellation under a lock | fetches are spaced, nothing is served past its grace, a new key is found |

Components call downwards (api → admin → credentials → accounts → storage) and share the
database; the container runs one sweeper task that calls both services' `sweep_once`. The
hazards met while reading are listed in `PROJECT.json`, each with the property that covers it.

## Modules

| Module | What it is |
|---|---|
| `AccountTables` | The tables behind `accounts/sql_store.py` and each store method as one transaction, with the schema's unique keys, foreign keys and cascades. |
| `Accounts` | `accounts/service.py` over those tables: one action per stretch of a handler, `Abandon` for a request that dies, the sweeper and the clock. |
| `AccountDirectory` | Abstract specification: every account operation takes effect at once and touches only what it is about. |
| `IsolatedAccounts` | `IsolatedSpec`: the same system as long as requests on one account do not overlap, and what it promises then. |
| `MCAccounts` | Constant values. |
| `AccountsProofs` | TLAPS theorems about `Accounts` and `IsolatedAccounts`, the refinement of `AccountDirectory` among them. |
| `RateLimiter`, `MCRateLimiter` | The sliding window limiter and its sweep; `answers` is a history variable. |
| `RateLimiterProofs` | TLAPS theorems about `RateLimiter`. |
| `Admin`, `MCAdmin` | `admin/service.py` and `accounts/sql_roles.py`: permission checks, role edits and assignments, actions against a person, audit entries. |
| `AdminProofs` | TLAPS theorems about `Admin`. |
| `Vault`, `MCVault` | One account's vault, its OAuth flows and renewals, with the provider as the environment. |
| `VaultProofs` | TLAPS theorems about `Vault`. |
| `JwksClient`, `MCJwksClient` | `clients/python/keyring_client/jwks.py`, with keyring, its key rotations and the network as the environment. |
| `JwksClientProofs` | TLAPS theorems about `JwksClient`. |
| `Preferences` | `core/preferences.py` as operators: what `for_account` makes of an answer of settings-api. |
| `Changes`, `MCChanges` | `credentials/changes.py` over `Preferences`: who may change one person's credentials and who hears of it, with settings-api as the environment. |
| `ChangesProofs` | TLAPS theorems about `Changes`. |
| `Delegation`, `MCDelegation` | Service tokens, offline grants and exchanges for one person and profile. |
| `DelegationProofs` | TLAPS theorems about `Delegation`. |
| `Lifecycle`, `MCLifecycle` | The process: start, database thread, migrations, key file, outbox, sweeper, shutdown, crash. |
| `LifecycleProofs` | TLAPS theorems about `Lifecycle`. |

State and actions correspond to the code as follows; `PROJECT.json` maps each definition to its
lines.

* **Accounts.** `accounts`, `sessions`, `grants` and `roles` are the tables (functions from
  primary keys to rows); `minted` records ids handed out, which are never reused; `now` is the
  clock. `Login` reads the row and verifies; `RecordFailure` or `AcceptLogin` saves the row *as
  read*, whole; `OpenSession` resolves preferences and stores the session. `ChangePassword` and
  the redemption of a reset share `SavePassword`, `EndSessions`, `EndResets`. `proof` in a
  session is a history field: the password its login verified. A password hash is the password
  it verifies; token hashes are ids. The deadline of a session is `min(now + idle, absolute)` as
  in `Session.touched`.
* **RateLimiter.** `attempts` is `_attempts`. `Check` evicts, appends before the verdict, drops
  the oldest past the cap, and answers; `Sweep` uses the widest of the windows in `SweptScope`.
  Times are whole seconds.
* **Vault.** `connections` and `secrets` are keyed by profile and service; `flows` is the state
  store; `renewing[key]` is the queue of an `asyncio.Lock` (head holds, the rest wait in order).
  `CheckStored → Refresh → Recheck → PutConnection → PutSecret` is `_refresh`/`_renew`.
  `Refresh` is the provider: it may rotate the refresh token or not, refuse, be out of reach, or
  (with `Lossy`) rotate and lose the answer. `grant` in a secret is a history field, and `kind`
  stands for the fields it has: `Requires` is `_require`, which is all that tells a secret of
  another kind. `HandOver` is what `headers` and `fields` do with connection and secret, and
  `answer` is the moment before the response leaves. `Fail` is an exception out of an await, which
  releases the lock; `Restart` loses flows, locks and requests and keeps the tables.
* **Changes.** `chosen` is what the owner has chosen at settings-api; `Answers` is what a request
  may be told instead (the choices; a copy kept from earlier, without the entry that refuses to be
  guessed; damaged values; an outage; a refusal), and `Preferences!ForAccount` what becomes of it.
  A request starts with `RequestChange`, `RequestRemoval` or `RedeemState`, is admitted (`Admit`,
  `Confirm`), makes the steps of the credential service, and announces (`Announce`). `off`,
  `proved`, `warranted`, `owed`, `told` and `missed` are history. The count of wrong passwords is
  kept up to the lockout threshold. An administrator who deletes a profile of their own counts as
  a person, as in `AdminService.delete_profile`. An entry that is missing from an answer altogether
  reads as off, which is its declared default.
* **Delegation.** `grants` is the table, `tokens` what was signed and has not expired: nobody can
  take a token back. `root`, `until`, `late`, `over` and `permitted` in a token, `ended` and
  `disabled` are history. `ExchangeToken` or `ExchangeGrant`, `Mint` and `Record` are `exchange`:
  the account is loaded after the grant was read, and the answer follows the audit entry. A service
  with a token of the person's may record a new grant for itself, so a new grant is a new root.
* **Lifecycle.** `schema`, `versions`, `roles`, `key`, `written` and `expired` are on the disk, and
  `Crash` keeps only them. `queue` and `job` are the executor, `txn` what the open transaction has
  written. Startup goes through the steps of `Container.build` in order, and `Refuse` may end it at
  each. A request is one transaction, one message and one answer; cancelling its caller withdraws a
  callable that has not begun and lets a running one finish and commit. `written` counts commits per request.
* **Admin.** `roles` is the roles table (permissions by name), `held` is `account_roles`, `audit`
  the number of entries. A request resolves its actor in two reads (`Ask`, `ResolveActor`) and
  carries the permissions it found to the end. `SetAccountRoles`, one `ReadRole` per name and
  `SetRoles` are `set_account_roles`; `LoadTarget` and `ResolveTarget` are `_require_account` and
  `_check_can_act_on`, followed by one action per operation; `Record` is the audit entry, in a
  transaction of its own. `acting` is a history variable: the accounts the staff can log in as,
  to which a reset link adds its target. Effects on sessions, grants and profiles are in
  `Accounts` and `Vault`.
* **JwksClient.** `keys`, `fetchedAt`, `failedAt`, `provokedAt` are the fields, `lock` the queue
  of the `asyncio.Lock` (head holds). `KeyFor` and `Healthy` join it; `EnterCached`,
  `EnterSuppressed` and `EnterRefresh` are the three ways past the second look at the cache;
  `Serve` (keyring, external) and `Receive` are the two ends of a fetch; `Fail` is every way it
  fails; `Cancel` ends a request anywhere. `gone`, `told` and `fetches` are history variables.

## Runs

| Run | Shows |
|---|---|
| `sessions` | Two accounts, three sessions, differing idle windows and caps: logins, uses, logouts, deletions and sweeps in any order keep `NoOrphanRows`, `SessionLimitsHold` (the cap, and deadlines under the ceiling) and `EndedSessionsStayEnded`. |
| `owners` | `OnlyStaleSavesLoseTheLastOwner`: demotion and deletion never take the last owner; if one is lost, a request saved a row it had read before. |
| `grants` | Invites and reset links asked for, redeemed together, revoked by password changes, expired and swept: `GrantActedOnOnce` (and one account per address), `SpentGrantsStaySpent`. |
| `isolated` | Without overlap on one account (`IsolatedSpec`) the system implements `AccountDirectory` (`INSTANCE AccountDirectory WITH accounts <- accounts, now <- now`), and `PasswordChangeEndsSessions` holds. |
| `limiter` | `ExactVerdicts`: eviction, the cap and the sweep never change a verdict, provided the mail window is no longer than the swept ones and limits are below the cap. `CallersAreForgotten` is liveness. |
| `admin` | Two administrators' requests at once, over every operation: `NoEscalation` (no account they can act as comes to a permission none of them began with), `HeldRolesExist`, `BuiltinsIntact`, and the audit bound (`TypeOK`). |
| `keys` | Two requests, rotations in both directions, slow, failed and cancelled fetches: `WithdrawnKeysStopWorking`, `FetchesSpaced` (at most two completed fetches of `key_for` begin within the floor; a cancelled one is not remembered by the code and not counted), `UnknownKeysAreNew`, `LockIsHeldByTheLiving`. |
| `vault` | Every operation of the vault over three kinds of credential, with failures, lost answers and restarts: the caps and connections only inside profiles (`TypeOK`), `StateRedeemedOnce`, and `FormLoginsStayInForms`: a replacement between the two reads of a load, or one cut off between its two writes, never hands material of one kind to a caller of the other. |
| `renewals` | `RenewalsTakeTurns` and `RotatedTokenNotReplayed` under concurrent renewal and replacement, with no removal, no request dying and no lost answer, and `RequestsEnd` (liveness) whatever the provider answers. |
| `changes` | A person, a service, an administrator and a provider's callback change one person's credentials while the person changes settings and settings-api fails, lags or answers nonsense: `NoUnprovenChange` (no change the owner wants proved is made without the password, and no consent is completed that nobody was allowed to begin), `EachChangeAnnouncedOnce`, `StampWithinDeployment`. |
| `delegation` | Grants recorded, revoked and exchanged and tokens exchanged for tokens, while the account is disabled, the profile deleted and the process restarted with another allowlist: the cap (`TypeOK`), `NoTokenExceedsItsSource` (expiry and audience, along chains), `WithdrawalTakesHold` (one token lifetime after a revocation or a disabling nothing works, but for the requests it overlaps). |
| `lifecycle` | Two starts of the process with refusals, failing transactions, disconnecting clients, failing and hanging mail and a crash at any step: `SchemaIsWhatItSays`, `AnswersAreTrue`, `ClosedLast`, `OneSigningKey`, the bounded outbox (`TypeOK`), and as liveness `ExpiredRowsGo` and `ShutdownCompletes`. |

**What overlapping requests may do.** `save` and `put_connection` write a row computed from a read
in an earlier transaction. The properties above are what holds nevertheless; the `isolated` run
delimits the rest: with requests on one account kept apart nothing is lost. Where they do overlap,
the models have these behaviours: a login that read the account before it was disabled saves it as
active again; two invites redeemed at once on a fresh deployment make two owners; a login that
verified the old password opens its session after a password change ended the others; two wrong
passwords checked at once count as one; two overlapping reset requests leave two live links; a
profile deleted between the two writes of a store leaves a secret behind; a renewal overwrites a
credential stored meanwhile, and a connection revoked during a failing renewal, or between the
re-read and the write of a successful one, is there again; a profile that was empty when its
removal was asked for takes a credential stored meanwhile with it. Two more come from settings
nothing bounds: a mail window longer than the swept ones is cut short, and a limit of
`MAX_TIMESTAMPS_PER_CALLER` or more never refuses. And the wait that Retry-After announces is not
enough, since the refused attempt counts too. In the client, an unknown key id is answered with a
401 while the window is claimed even if the fetch that claimed it failed; `UnknownKeysAreNew` has
this as its exception.

**Bounds.** Two requests in flight, two or three accounts, two addresses, up to three sessions and two
grants, one or two profiles and services, a clock of one to four ticks, lockout thresholds
of one or two. Two overlapping requests suffice for every lost update here (one reads, the other
writes, the first writes) and let one wait behind the holder of a lock; a cap of one is overrun
by two; the clock lets every deadline (idle, absolute, lock, grant, state, window) pass while a
request is in flight. Each run offers the requests (`Ops`) that its question is about: `isolated`
leaves out role changes, which are single transactions, and uses of sessions, which do not write
accounts. In `admin` an owner makes no request, a manager may do all but read
the audit log and an editor only writes roles; the permission sets asked for are one below and one
above the ceiling, so that an escalation would need a chain of both. In `keys` the cache time (3),
the floor (2), the grace (1) and the timeout (1) are such that the clock passes
the cache time and the grace together, during a fetch and after one. `vault` has one state and two
tokens of the provider, enough for a flow beside a renewal; `renewals` has four tokens, so that both
requests renew twice. In `changes` three requests are made, two of them at once: one changes what
the next has read, and the third is the callback of a consent that either began. Choices are
below their ceilings and the wrong way round, or above them, and the lockout comes with the first
wrong password, so that it falls into every gap. In `delegation` the cap is one and there are two handles; a token lives one
second, a grant two, requests ask for three, and the clock runs for three, so a grant outlives the
tokens made from it and ends while others are recorded; two tokens are out at once, a token and the
one exchanged for it. In `lifecycle` the process starts twice with two migrations and two roles, so a
start is cut short between any two commits and followed by another; the outbox holds one of two
messages; two faults are shared by refusals, transactions, sends and crashes, so that one failure
meets another. Named bounds: `MaxTime`, `MaxFailures`, `MaxAttempts`, `MaxTokens`, `MaxRequests`,
`MaxBoots`, `MaxFaults`. Requests, sessions, grants, states and accounts yet to be created, in
`vault` profiles and services, and in `keys` signing keys, are symmetric; symmetry is not used in
runs with liveness.

**Fairness.** `RateLimiter!FairSpec`: the clock advances and the sweeper sweeps again and again,
which is `Container._sweep_forever`. `Vault!FairSpec`: a started request that is not waiting for
a lock takes its next step — transactions end, and calls of the provider end or time out
(`httpx` timeout). Nothing is assumed about who makes requests. `Lifecycle!Fairness`: the worker
thread runs what is queued, the event loop runs what is ready, and the timers of the sweeper and of
the drain go off. Nothing says that a client calls, that a send ever ends, or that the process is
stopped or started; faults are bounded, so a sweep does not fail for ever. `JwksClient` claims no
liveness: that nobody is left holding or awaiting the lock is an invariant. Deadlock checking is
on in every run but `admin`, where the staff may delete one another until nobody is left to ask.

## Proofs

Every invariant and every action property that a run checks is a theorem: TLC finds no
counterexample on the instance of the run, and the proof holds for any number of requests,
accounts, services, keys, starts and whatever else is a `CONSTANT`. The four liveness properties
are only model-checked (see below). Each proof has the same plan: `Init` implies an invariant, one
lemma per action or per kind of step says that `Next` keeps it, and the theorem follows. What
differs is how the invariant has to be stronger than the property; that is the argument for why
the code is right, and it is given here for each.

`AccountsProofs`:

* `TypeCorrect`: `TypeOK`. It is inductive; the work is that each task state is one of eight
  record shapes (`TaskShapes`) and that each store operation keeps its table typed.
* `LastOwnerTheorem`: `OnlyStaleSavesLoseTheLastOwner`, from `TypeOK`. Each step that writes
  `accounts` is a checked role change or deletion, an insertion, or a save (`AccountWrites`).
* `EndedSessionsTheorem`: `EndedSessionsStayEnded`. Only `OpenSession` adds a session and its id
  is fresh (`SessionWrites`).
* `NoOrphanRowsTheorem`: `NoOrphanRows`, strengthened by the fact that the roles table never
  changes here (`RolesFixed`): sessions and reset links are added only for existing accounts, and
  the only step that removes an account removes what refers to it.
* `SpentGrantsTheorem`: `SpentGrantsStaySpent`. Only `MintGrant` adds a grant, with
  a fresh id; every other step removes grants or marks them, and the clock only ends them.
* `GrantActedOnOnceTheorem`: `GrantActedOnOnce`. The strengthening `OneActor` adds that the grant
  a request acts on was handed out, so that no fresh one can be mistaken for it; one account per
  address rests on `RowsKeepAddresses`: the row a request will save, however old, has the address
  of the account it names, so a stale save cannot bring a second one about.
* `SessionLimitsTheorem`: `SessionLimitsHold`. The cap is counted in the transaction that adds
  (`WithinCap`). `TouchesFit` is what makes the deadlines hold under overlapping touches: a touch
  in flight carries the ceiling the row has now, because nothing ever changes a ceiling.
* `DirectoryTheorem`: `IsolatedSpec` implements `AccountDirectory`. The invariant `RowsCurrent`
  says that what a request is about to save is one directory operation away from the row its
  account has *now* (`Fits`), not only from the row it read; `Isolated` keeps it so between the
  read and the write. Each step of `Accounts` is then a step of the directory or leaves the
  directory alone.
* `PasswordChangeTheorem`: under `IsolatedSpec`, `PasswordChangeEndsSessions`. Without isolation
  it is false: a login that verified the old password may open its session late.

`RateLimiterProofs`:

* `TypeCorrect`: `TypeOK`: at most `HistoryCap` times, in order, none ahead of the clock.
* `ExactVerdictsTheorem`: `ExactVerdicts`, under `Ample` (the widest swept window is the widest of
  all, and every limit is below the cap). The strengthening `Recalled` says that what is kept is a
  suffix of the whole history, and that what is missing is out of the window, or the cap is full.
  In the second case what was cut off is older than `HistoryCap` attempts: if one of them has left
  the window so has it, and if not they exceed the limit without it. The mail window longer than
  the swept ones and the limit at the cap, described above, are what `Ample` excludes.

`AdminProofs`, for any roles, permissions, accounts, staff and requests:

* `TypeCorrect`: `TypeOK`, with the audit bound.
* `NoEscalationTheorem`: `NoEscalation`. It is not inductive, because what a request has read
  decides what it will write. The strengthening `StaffBounded` calls a role name *low* if the role
  of that name, when there is one, allows nothing above the ceiling, and says that the accounts
  the staff can act as hold only low names and that every request (`Bounded`) carries permissions
  within the ceiling, wants a role within it, and has low names in hand once its check has passed.
  Low names stay low (`LowGrows`): a role is added or saved only with permissions its writer had.
  So a check made on stale rows still counts when it is used.
* `HeldRolesExistTheorem`: `HeldRolesExist`, from the checks in the transactions of the writes.
* `BuiltinsIntactTheorem`: `BuiltinsIntact`, strengthened by `EditsCustom`: a pending edit never
  names a built-in role, which is checked when it begins.

`VaultProofs`, for any number of profiles, services, states and requests, with failures, lost
answers and restarts:

* `VaultTypeCorrect`: `TypeOK`. The caps are counted in the transaction that adds, and a
  connection is in a profile because its insertion checks the foreign key.
* `FormLoginsTheorem`: `FormLoginsStayInForms`, although the connection and its secret come from
  two transactions: whatever gets to an answer went through `HandOver`, where the kind of the
  connection has to suit the caller and the secret to have the fields of that kind.
* `StateRedeemedOnceTheorem`: `StateRedeemedOnce`, strengthened as for grants: a state in a
  callback's hands was issued (`OneCallback`), so it is not stored again.
* `RenewalsTakeTurnsTheorem`: `RenewalsTakeTurns`. `LocksOrderly` ties the queue of each lock to
  what requests do: nobody queues twice, whoever queues is renewing what they queue for, and
  whoever is past the re-read is at the head. An exception out of an await leaves the queue with
  its request.
* `RotatedTokenTheorem`: `RotatedTokenNotReplayed`, under `Undisturbed` (nothing is removed, no
  request dies, no answer is lost), which is what the property says of itself; without it the code
  does replay. The invariant has three parts. `TokensTraced`: every copy of a secret, stored or in
  a request's hands, goes back to one answer of the provider. `NothingRemoved`: what a renewal is
  about stays where it is. `SpentInTurn`: a spent token is stored only while the renewal that
  spent it has still to store what it got, and nobody else is going to present or store a copy of
  it. The re-read under the lock is what carries the last one.

`ChangesProofs`, for any number of requests and whatever settings-api answers within `Answers`:

* `TypeCorrect`: requests, tables and account are well formed.
* `StampTheorem`: `StampWithinDeployment`: every answer `ForAccount` accepts is usable.
* `AnnouncedOnceTheorem`: `EachChangeAnnouncedOnce`. The invariant `Counts` is the balance itself;
  the work is that no step puts a request at, or takes it from, its announcement without an entry
  on the other side.
* `NoUnprovenChangeTheorem`: `NoUnprovenChange`. `RequestsFit` says for every kind of requester
  and every step what it must have shown to be there, so that a warrant obtained at `Admit` or
  `Confirm` is still good at the write; `FlowsWarranted` carries it through an OAuth flow, from
  the request that began it to the callback that completes it.

`DelegationProofs`, for any number of grants, services and requests, and chains of any length:

* `DelegationTypeCorrect`: `TypeOK`, with the cap on live grants. It holds as time passes since
  only the clock and revocations end grants and only a counted insertion adds one.
* `NoTokenExceedsTheorem`: `NoTokenExceedsItsSource`. `WithinSource` says the same of what a
  request has in hand between reading the grant and recording the token; a request that was
  checked against one allowlist does not survive a restart with another.
* `WithdrawalTheorem`: `WithdrawalTakesHold`. `Bounded` relates the expiry of every token to the
  end of its root, and `RequestBounded` marks those requests that overlap the withdrawal.
  `EndsKnown` ties the history to the tables: a grant not marked as revoked has not ended.

`LifecycleProofs`, for any number of requests, migrations, starts and faults:

* `ClosedLastTheorem`: `ClosedLast`. `Placement` says what each phase has (`Placed`) and that each
  callable is in one place (`Orderly`): queued once or running, and queued only while its caller
  waits. So the shutdown that has waited for the callers leaves an empty queue behind.
* `AnswersAreTrueTheorem`: `AnswersAreTrue`. `Accounted` adds that what is queued or running has
  not been written, which is why a cancelled caller's callable commits once or not at all.
* `SchemaTheorem`: `SchemaIsWhatItSays`. `Recorded`: the scripts run are always the first n, and
  their record is exactly 1..n, as both are one commit; the phases after the migrator have all of
  them.
* `OneSigningKeyTheorem`: `OneSigningKey`. `KeyKept`: once something was signed the file holds the
  key it was signed with; a half-written file means that nothing was.
* `LifecycleTypeCorrect`: `TypeOK`, with the bound of the outbox, from all of the above.

`JwksClientProofs`, for any number of requests and keys and any settings that meet
`TimeAssumption` (a fetch takes less than the cache time and the grace together: `httpx` bounds
each read of 5 seconds, against an hour and a day):

* `TypeCorrect`: `TypeOK`; no recorded time is ahead of the clock.
* `WithdrawnKeysTheorem`: `WithdrawnKeysStopWorking`. The strengthening `KeyInv` says that the key
  held was keyring's at or after `fetchedAt`, that the key of a document on its way was so at or
  after the moment it was asked for, and that no fetch is older than the timeout. The first half
  is why the code takes the age before the request goes out; with the age of arrival it fails.
* `UnknownKeysTheorem`: `UnknownKeysAreNew`, an action property, from the same `KeyInv`.
* `LockTheorem`: `LockIsHeldByTheLiving`, strengthened to `LockOrderly`: the lock is a sequence
  without repetitions of exactly the requests in flight. A request may leave it from anywhere
  (`Left`).
* `FetchesTheorem`: `FetchesSpaced`, under `Unhurried` (the floor is no longer than the cache
  time: a minute against an hour by default). The hypothesis is needed: with a cache of one second
  and a floor of three, TLC finds three fetches within the floor, as a cache that has run out is
  fetched without asking the floor. The invariant `Spacing` says of the log that the later of two
  fetches claimed the window, that the client remembers something no older than any fetch that
  ended (`Remembered`), and of a fetch in flight what it knew of the earlier ones when it began.

**What the proofs assume.** The `ASSUME`s of the modules, which TLC evaluates on every run. Those
that say something about the code or its surroundings: positive thresholds and lifetimes
(`config.py` rejects others); `for_account` always answers (`Prefs # {}`); a vault to start from
is one the store could have written, with tokens the provider gave once (`SeedAssumption`,
`SeedTokensAssumption`); a settings-api with a bug may make the re-authentication switch
unreadable but does not say that it is off (`DamageAssumption`), as then nobody could know better.
Three theorems have hypotheses of their own, `Ample`, `Undisturbed` and `Unhurried`, and two are
about `IsolatedSpec`; the configurations of the runs that check those properties satisfy them.
Bounds such as `MaxTime` are constants of the theorems too, and range over all numbers.

**Model-checked only:** `RequestsEnd`, `CallersAreForgotten`, `ExpiredRowsGo` and
`ShutdownCompletes`. They are liveness under fairness, whose proofs need `ENABLED`, which the
prover does not support. Nothing is proved by induction over data: where an operator walks a
sequence (what eviction drops, the fetches within the floor, a queue without somebody) it is
written as a prefix, a suffix or a function of positions, and the lemmas are about those.

## Not modelled, and the plan

Left out for good: cryptography (Argon2, AES-GCM, RS256, TOTP), request and response schemas, the
routes that only read, wording, logging, the parsing of configuration (a rejected setting is a
refused start), the site and scripts, and the test double of the Python client, whose other calls
keep no state. Left out of the models above: the sealed vault (every store is refused before it
writes), what a message or an audit entry says, the break-glass token (which passes every check) and
the wait announced to a refused caller. The settings client and its cache are a library, known by
what it may answer.

`Lifecycle` takes the following from outside the code or leaves it out. uvicorn waits for requests
in flight before it runs the lifespan's shutdown. A send that the drain cancels may still be
delivered by the thread it runs on. The commit is outside the `try` of `_in_transaction`; one that
fails is taken to be rolled back by SQLite. The credential service's `sweep_once` only drops
flows in memory and does not fail. A crash while the key file is written leaves a file every later
start refuses: the model has it, and no property asks a start to recover.

What is left to say about the parts modelled: a renewal whose answer is lost leaves a spent token
in the store, and one that succeeds writes back over what happened meanwhile
(`credentials/service.py`, `_renew`); the runs show it as a behaviour, and no property bounds it.
A lemma per store method, of the form "this is one operation of the table", would let
`Accounts` be proved against a more detailed directory that has sessions and links as well.
