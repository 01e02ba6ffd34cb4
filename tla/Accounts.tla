------------------------------ MODULE Accounts ------------------------------
(***************************************************************************)
(* accounts/service.py: what happens to an account.  A request is a task   *)
(* of the event loop.  It gives way only where it awaits, so each action   *)
(* below runs a handler from one await to the next: at most one store      *)
(* transaction, and the code up to the following one.  What a task read    *)
(* before it gave way stays in its own state, however old it gets.         *)
(*                                                                         *)
(* A refusal that writes nothing (unknown address, locked or disabled      *)
(* account, policy, rate limit) is a step that changes nothing, and has no *)
(* action.  The rate limits are the business of module RateLimiter.        *)
(***************************************************************************)
EXTENDS AccountTables

CONSTANTS
    Task,           \* requests in flight at once
    Ops,            \* which requests may be made, a subset of Operations
    Seed,           \* the accounts table to start from
    Prefs,          \* what PreferenceSource.for_account may answer
    Threshold,      \* Settings.lockout_threshold
    Lockout,        \* Settings.lockout_seconds
    InviteTtl,      \* Settings.invite_ttl_seconds
    ResetTtl,       \* Settings.reset_ttl_seconds
    MaxFailures,    \* bound on failed_attempts
    MaxTime         \* bound on the clock

Operations ==
    {"login", "confirm", "resolve", "logout", "change_password", "request_reset",
     "redeem", "invite", "set_status", "set_roles", "delete", "sweep"}

ASSUME OpsAssumption == Ops \subseteq Operations
ASSUME SeedAssumption ==
    /\ DOMAIN Seed \subseteq Account
    /\ Seed \in [DOMAIN Seed -> AccountRow]
    /\ \A a, b \in DOMAIN Seed : Seed[a].email = Seed[b].email => a = b
ASSUME TimeAssumption ==
    /\ MaxTime \in Nat /\ InviteTtl \in Nat /\ ResetTtl \in Nat
    /\ Threshold \in Nat \ {0} /\ Lockout \in Nat \ {0}    \* PositiveInt, PositiveFloat
ASSUME PrefsAssumption ==
    /\ Prefs # {}                       \* for_account always answers
    /\ \A p \in Prefs :
          /\ p \in [idle: Nat, absolute: Nat, cap: Nat \ {0}]
          /\ p.idle <= p.absolute     \* core/preferences.py: max(absolute, idle)

VARIABLE task       \* what each request is about to do, and what it has read

vars == <<accounts, roles, sessions, grants, minted, now, task>>

Idle == [at |-> "idle"]

SaveSteps == {"record_failure", "accept_login", "clear_failures", "set_status", "set_password"}
AccountSteps == {"open_session", "sign_out", "end_sessions", "end_resets",
                 "clear_resets", "mint_reset"}

TaskState ==
    [at: {"idle"}]
    \cup [at: SaveSteps, acct: Account, row: AccountRow, since: Nat, keep: SessionId \cup {None}]
    \cup [at: AccountSteps, acct: Account, since: Nat, proof: Password, keep: SessionId \cup {None}]
    \cup [at: {"load_account"}, grant: GrantId, acct: Account, password: Password]
    \cup [at: {"count_accounts"}, grant: GrantId, email: Email, password: Password]
    \cup [at: {"add_account"}, row: AccountRow]
    \cup [at: {"mint_invite"}, email: Email]
    \cup [at: {"authorize", "touch"}, session: SessionId, row: SessionRow]

Saving(step, a, row, keep) ==
    [at |-> step, acct |-> a, row |-> row, since |-> now, keep |-> keep]

\* The next step of a task that has finished with the row it saved.
After(step, r) ==
    [at |-> step, acct |-> r.acct, since |-> r.since,
     proof |-> r.row.password, keep |-> r.keep]

Then(step, r) == [r EXCEPT !.at = step]

Start(t, op, r) == op \in Ops /\ task[t] = Idle /\ task' = [task EXCEPT ![t] = r]

Continue(t, step, r) == task[t].at = step /\ task' = [task EXCEPT ![t] = r]

Init ==
    /\ accounts = Seed
    /\ roles = Role
    /\ sessions = [s \in {} |-> None]
    /\ grants = [g \in {} |-> None]
    /\ minted = DOMAIN Seed
    /\ now = 1
    /\ task = [t \in Task |-> Idle]

-----------------------------------------------------------------------------
(* domain/accounts.py and domain/sessions.py: transitions of a row *)

IsLocked(row) == now < row.locked

MayAuthenticate(row) == ~ IsLocked(row) /\ row.status = "active"

\* Mutation of WithFailure: the threshold is passed before the lock is set.
WithFailureLate(row) ==
    [row EXCEPT !.failed = @ + 1,
                !.locked = IF row.failed + 1 > Threshold THEN now + Lockout ELSE @]

WithFailure(row) ==
    [row EXCEPT !.failed = @ + 1,
                !.locked = IF row.failed + 1 >= Threshold THEN now + Lockout ELSE @]

WithSuccess(row) == [row EXCEPT !.failed = 0, !.locked = 0]

\* The row _set_password stores.
WithPassword(row, new) == [row EXCEPT !.password = new, !.failed = 0, !.locked = 0]

Touched(row) ==
    [row EXCEPT !.expires = IF now + row.idle <= row.absolute
                            THEN now + row.idle ELSE row.absolute]

-----------------------------------------------------------------------------
(* login *)

\* Up to the first write: the account is read and the password verified.
Login(t, email, guess) ==
    \E a \in Holders(email) :
        LET row == accounts[a] IN
        /\ MayAuthenticate(row)
        /\ IF guess = row.password
           THEN Start(t, "login", Saving("accept_login", a, WithSuccess(row), None))
           ELSE /\ row.failed < MaxFailures
                /\ Start(t, "login", Saving("record_failure", a, WithFailure(row), None))
        /\ UNCHANGED tables

\* confirm_password; it writes on success only to clear earlier failures.
ConfirmPassword(t, a, guess) ==
    LET row == accounts[a] IN
    /\ a \in DOMAIN accounts
    /\ MayAuthenticate(row)
    /\ IF guess = row.password
       THEN /\ row.failed > 0
            /\ Start(t, "confirm", Saving("clear_failures", a, WithSuccess(row), None))
       ELSE /\ row.failed < MaxFailures
            /\ Start(t, "confirm", Saving("record_failure", a, WithFailure(row), None))
    /\ UNCHANGED tables

\* The AccountStore.save of a task, which ends the request when it raises.
Save(t, step, next) ==
    LET r == task[t] IN
    /\ Continue(t, step, IF SaveRaises(r.acct, r.row) THEN Idle ELSE next)
    /\ accounts' = SavedAccounts(r.acct, r.row)
    /\ UNCHANGED <<roles, sessions, grants, minted, now>>

RecordFailure(t) == Save(t, "record_failure", Idle)
ClearFailures(t) == Save(t, "clear_failures", Idle)
AcceptLogin(t) == Save(t, "accept_login", After("open_session", task[t]))

\* Mutation of NewSession: the start is moved back by the idle window.
NewSessionBackdated(r, p) ==
    [account |-> r.acct, created |-> r.since - p.idle, expires |-> r.since,
     absolute |-> r.since + p.absolute, idle |-> p.idle, proof |-> r.proof]

\* The row _open_session stores, from the clock read when the login began.
NewSession(r, p) ==
    [account |-> r.acct, created |-> r.since, expires |-> r.since + p.idle,
     absolute |-> r.since + p.absolute, idle |-> p.idle, proof |-> r.proof]

\* Preferences are resolved and the session stored; an error where the
\* account is gone.
OpenSession(t) ==
    LET r == task[t] IN
    /\ Continue(t, "open_session", Idle)
    /\ \/ \E s \in SessionId \ minted, p \in Prefs :
            /\ AddWithinCap(s, NewSession(r, p), p.cap)
            /\ minted' = minted \cup {s}
       \/ r.acct \notin DOMAIN accounts /\ UNCHANGED <<sessions, minted>>
    /\ UNCHANGED <<accounts, roles, grants, now>>

-----------------------------------------------------------------------------
(* resolve_session, logout *)

ResolveSession(t, s) ==
    /\ s \in DOMAIN sessions
    /\ IsLive(s)
    /\ Start(t, "resolve", [at |-> "authorize", session |-> s, row |-> sessions[s]])
    /\ UNCHANGED tables

\* The account is loaded; only an active one keeps its sessions working.
Authorize(t) ==
    LET r  == task[t]
        ok == r.row.account \in DOMAIN accounts /\ accounts[r.row.account].status = "active"
    IN  /\ Continue(t, "authorize",
                IF ok THEN [r EXCEPT !.at = "touch", !.row = Touched(r.row)] ELSE Idle)
        /\ UNCHANGED tables

Touch(t) ==
    /\ Continue(t, "touch", Idle)
    /\ sessions' = SavedSessions(task[t].session, task[t].row)
    /\ UNCHANGED <<accounts, roles, grants, minted, now>>

Logout(s) ==
    /\ "logout" \in Ops
    /\ s \in DOMAIN sessions
    /\ sessions' = Without(sessions, {s})
    /\ UNCHANGED <<accounts, roles, grants, minted, now, task>>

LogoutEverywhere(a) ==
    /\ "logout" \in Ops
    /\ a \in DOMAIN accounts
    /\ sessions' = RevokedSessions(a, None)
    /\ UNCHANGED <<accounts, roles, grants, minted, now, task>>

-----------------------------------------------------------------------------
(* set_status, and the sign-out AdminService.set_status adds to a disable *)

SetStatus(t, a, status) ==
    /\ a \in DOMAIN accounts
    /\ Start(t, "set_status",
             Saving("set_status", a, [accounts[a] EXCEPT !.status = status], None))
    /\ UNCHANGED tables

SaveStatus(t) ==
    LET r == task[t] IN
    Save(t, "set_status",
         IF r.row.status = "active" THEN Idle ELSE After("sign_out", r))

SignOut(t) ==
    /\ Continue(t, "sign_out", Idle)
    /\ sessions' = RevokedSessions(task[t].acct, None)
    /\ UNCHANGED <<accounts, roles, grants, minted, now>>

-----------------------------------------------------------------------------
(* change_password, made from the live session it will spare *)

ChangePassword(t, s, new) ==
    LET a == sessions[s].account IN
    /\ s \in DOMAIN sessions
    /\ IsLive(s)
    /\ a \in DOMAIN accounts
    /\ Start(t, "change_password",
             Saving("set_password", a, WithPassword(accounts[a], new), s))
    /\ UNCHANGED tables

SavePassword(t) == Save(t, "set_password", After("end_sessions", task[t]))

EndSessions(t) ==
    LET r == task[t] IN
    /\ Continue(t, "end_sessions", Then("end_resets", r))
    /\ sessions' = RevokedSessions(r.acct, r.keep)
    /\ UNCHANGED <<accounts, roles, grants, minted, now>>

EndResets(t) ==
    /\ Continue(t, "end_resets", Idle)
    /\ grants' = RevokedResets(task[t].acct)
    /\ UNCHANGED <<accounts, roles, sessions, minted, now>>

-----------------------------------------------------------------------------
(* request_password_reset and issue_reset_for *)

RequestReset(t, a) ==
    /\ a \in DOMAIN accounts
    /\ Start(t, "request_reset", After("clear_resets", Saving("clear_resets", a, accounts[a], None)))
    /\ UNCHANGED tables

ClearResets(t) ==
    /\ Continue(t, "clear_resets", Then("mint_reset", task[t]))
    /\ grants' = RevokedResets(task[t].acct)
    /\ UNCHANGED <<accounts, roles, sessions, minted, now>>

NewGrant(purpose, subject, ttl) ==
    [purpose |-> purpose, subject |-> subject, expires |-> now + ttl,
     redeemed |-> FALSE, revoked |-> FALSE]

\* Mutation of MintGrant: an id that was used before may be used again.
MintGrantReusingIds(g, row) ==
    /\ grants' = Put(grants, g, row)
    /\ minted' = minted \cup {g}

\* _mint_grant
MintGrant(g, row) ==
    /\ g \in GrantId \ minted
    /\ grants' = Put(grants, g, row)
    /\ minted' = minted \cup {g}

\* The foreign key refuses a link for an account deleted in the meantime.
MintReset(t) ==
    LET a == task[t].acct IN
    /\ Continue(t, "mint_reset", Idle)
    /\ \/ /\ a \in DOMAIN accounts
          /\ \E g \in GrantId : MintGrant(g, NewGrant("password_reset", a, ResetTtl))
       \/ a \notin DOMAIN accounts /\ UNCHANGED <<grants, minted>>
    /\ UNCHANGED <<accounts, roles, sessions, now>>

-----------------------------------------------------------------------------
(* _redeem, at the invite or at the reset endpoint *)

\* What the handler goes on to do with a grant it has consumed.
Redeemed(g, new) ==
    IF grants[g].purpose = "invite"
    THEN [at |-> "count_accounts", grant |-> g, email |-> grants[g].subject, password |-> new]
    ELSE [at |-> "load_account", grant |-> g, acct |-> grants[g].subject, password |-> new]

\* The purpose is checked after redemption: the wrong endpoint burns the grant.
Redeem(t, g, endpoint, new) ==
    /\ Redeemable(g)
    /\ grants' = [grants EXCEPT ![g].redeemed = TRUE]
    /\ Start(t, "redeem", IF grants[g].purpose = endpoint THEN Redeemed(g, new) ELSE Idle)
    /\ UNCHANGED <<accounts, roles, sessions, minted, now>>

\* redeem_password_reset from there: a link whose account is gone is spent.
LoadAccount(t) ==
    LET r == task[t] IN
    /\ Continue(t, "load_account",
            IF r.acct \in DOMAIN accounts
            THEN Saving("set_password", r.acct, WithPassword(accounts[r.acct], r.password), None)
            ELSE Idle)
    /\ UNCHANGED tables

(***************************************************************************)
(* redeem_invite from there: the first account to exist becomes the owner. *)
(***************************************************************************)
NewAccount(email, password, first) ==
    [email |-> email, password |-> password, status |-> "active",
     failed |-> 0, locked |-> 0, roles |-> IF first THEN {OWNER} ELSE {MEMBER}]

CountAccounts(t) ==
    LET r == task[t] IN
    /\ Continue(t, "count_accounts",
            [at |-> "add_account",
             row |-> NewAccount(r.email, r.password, DOMAIN accounts = {})])
    /\ UNCHANGED tables

AddAccount(t) ==
    LET row == task[t].row IN
    /\ Continue(t, "add_account", Idle)
    /\ \/ /\ CanAdd(row)
          /\ \E a \in Account \ minted :
                /\ accounts' = Put(accounts, a, row)
                /\ minted' = minted \cup {a}
       \/ ~ CanAdd(row) /\ UNCHANGED <<accounts, minted>>
    /\ UNCHANGED <<roles, sessions, grants, now>>

\* issue_invite
IssueInvite(t, email) ==
    /\ Holders(email) = {}
    /\ Start(t, "invite", [at |-> "mint_invite", email |-> email])
    /\ UNCHANGED tables

MintInvite(t) ==
    /\ Continue(t, "mint_invite", Idle)
    /\ \E g \in GrantId : MintGrant(g, NewGrant("invite", task[t].email, InviteTtl))
    /\ UNCHANGED <<accounts, roles, sessions, now>>

-----------------------------------------------------------------------------
(* Single transactions, the sweeper, the clock and requests that die *)

Delete(a) == "delete" \in Ops /\ DeleteAccount(a) /\ UNCHANGED task

AssignRoles(a, wanted) == "set_roles" \in Ops /\ SetRoles(a, wanted) /\ UNCHANGED task

\* sweep_once, one transaction per table.
PurgeSessions ==
    /\ "sweep" \in Ops
    /\ sessions' = Without(sessions, {s \in DOMAIN sessions : ~ IsLive(s)})
    /\ UNCHANGED <<accounts, roles, grants, minted, now, task>>

PurgeGrants ==
    /\ "sweep" \in Ops
    /\ grants' = Without(grants, {g \in DOMAIN grants : grants[g].expires <= now})
    /\ UNCHANGED <<accounts, roles, sessions, minted, now, task>>

Tick ==
    /\ now < MaxTime
    /\ now' = now + 1
    /\ UNCHANGED <<accounts, roles, sessions, grants, minted, task>>

(***************************************************************************)
(* A request dies between two transactions: the client went away, a call   *)
(* it awaited failed (settings-api refused, the disk was full), or the     *)
(* process stopped.                                                        *)
(***************************************************************************)
Abandon(t) ==
    /\ task[t] # Idle
    /\ task' = [task EXCEPT ![t] = Idle]
    /\ UNCHANGED tables

StartRequest(t) ==
    \/ \E e \in Email, p \in Password : Login(t, e, p)
    \/ \E a \in Account, p \in Password : ConfirmPassword(t, a, p)
    \/ \E s \in SessionId : ResolveSession(t, s)
    \/ \E a \in Account, st \in Status : SetStatus(t, a, st)
    \/ \E s \in SessionId, p \in Password : ChangePassword(t, s, p)
    \/ \E a \in Account : RequestReset(t, a)
    \/ \E g \in GrantId, e \in Purpose, p \in Password : Redeem(t, g, e, p)
    \/ \E e \in Email : IssueInvite(t, e)

ContinueRequest(t) ==
    \/ RecordFailure(t) \/ ClearFailures(t) \/ AcceptLogin(t) \/ OpenSession(t)
    \/ Authorize(t) \/ Touch(t)
    \/ SaveStatus(t) \/ SignOut(t)
    \/ SavePassword(t) \/ EndSessions(t) \/ EndResets(t)
    \/ ClearResets(t) \/ MintReset(t)
    \/ LoadAccount(t) \/ CountAccounts(t) \/ AddAccount(t) \/ MintInvite(t)

WholeRequest ==
    \/ \E s \in SessionId : Logout(s)
    \/ \E a \in Account : LogoutEverywhere(a) \/ Delete(a)
    \/ \E a \in Account, wanted \in SUBSET Role : AssignRoles(a, wanted)
    \/ PurgeSessions
    \/ PurgeGrants

Next ==
    \/ \E t \in Task : StartRequest(t) \/ ContinueRequest(t) \/ Abandon(t)
    \/ WholeRequest
    \/ Tick

Spec == Init /\ [][Next]_vars

-----------------------------------------------------------------------------
(* Properties *)

\* The tables and every request in flight are well formed.
TypeOK == TablesTypeOK /\ task \in [Task -> TaskState]

(***************************************************************************)
(* No row outlives what it refers to: a session or a reset link of a       *)
(* deleted account, or a held role that is not a role, would be reachable  *)
(* by nobody and cleaned up by nothing.  A login or a reset request whose  *)
(* account is deleted while it is in flight must not leave one behind.     *)
(***************************************************************************)
NoOrphanRows ==
    /\ \A s \in DOMAIN sessions : sessions[s].account \in DOMAIN accounts
    /\ \A g \in DOMAIN grants :
          grants[g].purpose = "password_reset" => grants[g].subject \in DOMAIN accounts
    /\ \A a \in DOMAIN accounts : accounts[a].roles \subseteq roles

(***************************************************************************)
(* An account never has more sessions than the widest cap a login was      *)
(* given, no matter how many logins arrive together (add_within_cap); and  *)
(* use extends the idle deadline of a session, in any order of touches,    *)
(* but never past the ceiling its login fixed, which no later request      *)
(* moves (Session.touched).                                                *)
(***************************************************************************)
SessionLimitsHold ==
    /\ \A a \in DOMAIN accounts :
          \E p \in Prefs : Cardinality(SessionsOf(a)) <= p.cap \/ SessionsOf(a) = {}
    /\ \A s \in DOMAIN sessions :
          /\ sessions[s].expires <= sessions[s].absolute
          /\ \E p \in Prefs :
                sessions[s].idle = p.idle /\ sessions[s].absolute = sessions[s].created + p.absolute

(***************************************************************************)
(* A session a person ended stays ended: a request that read it before it  *)
(* was revoked must not bring it back with the touch it writes afterwards. *)
(***************************************************************************)
EndedSessionsStayEnded ==
    [][\A s \in minted : s \notin DOMAIN sessions => s \notin DOMAIN sessions']_vars

(***************************************************************************)
(* A grant is redeemed once: no two requests ever act on the same invite   *)
(* or reset link, and one that is being acted on cannot be presented again *)
(* (SqlGrantStore.redeem).  However many invites for one address are       *)
(* redeemed at once, it has one account (SqlAccountStore.add).             *)
(***************************************************************************)
Carries(t, g) == task[t].at \in {"load_account", "count_accounts"} /\ task[t].grant = g

GrantActedOnOnce ==
    /\ \A t \in Task, g \in GrantId :
          Carries(t, g) =>
              /\ g \in DOMAIN grants => grants[g].redeemed
              /\ \A u \in Task : Carries(u, g) => u = t
    /\ \A a, b \in DOMAIN accounts : accounts[a].email = accounts[b].email => a = b

(***************************************************************************)
(* A spent link stays spent: once redeemed, revoked or expired, nothing    *)
(* makes a grant redeemable again.                                         *)
(***************************************************************************)
SpentGrantsStaySpent ==
    [][\A g \in minted : ~ Redeemable(g) => ~ Redeemable(g)']_vars

(***************************************************************************)
(* Demoting and deleting never remove the last owner: a step that leaves a *)
(* deployment without one is the save of a row some request read earlier.  *)
(***************************************************************************)
OnlyStaleSavesLoseTheLastOwner ==
    [][(Owners # {} /\ Owners' = {}) =>
          \E t \in Task : task[t].at \in SaveSteps /\ OWNER \notin task[t].row.roles]_vars

(***************************************************************************)
(* "Anything that changes a password ends every other session": once a     *)
(* password change has ended the sessions, those left are its own and ones *)
(* opened with the new password.                                           *)
(***************************************************************************)
PasswordChangeEndsSessions ==
    \A t \in Task :
        task[t].at = "end_resets" =>
            \A s \in SessionsOf(task[t].acct) :
                s = task[t].keep \/ sessions[s].proof = task[t].proof
=============================================================================
