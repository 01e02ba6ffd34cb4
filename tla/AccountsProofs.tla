--------------------------- MODULE AccountsProofs ---------------------------
(***************************************************************************)
(* Theorems about Accounts, for any number of accounts, requests, sessions *)
(* and grants, any settings and any seed.                                  *)
(***************************************************************************)
EXTENDS IsolatedAccounts, FiniteSetTheorems, TLAPS

-----------------------------------------------------------------------------
(* Rows *)

\* Every transition of an account row yields an account row.
LEMMA RowTransitions ==
    ASSUME NEW row \in AccountRow, now \in Nat, NEW new \in Password, NEW st \in Status
    PROVE  /\ WithFailure(row) \in AccountRow
           /\ WithSuccess(row) \in AccountRow
           /\ WithPassword(row, new) \in AccountRow
           /\ [row EXCEPT !.status = st] \in AccountRow
<1>1. WithFailure(row) \in AccountRow
  <2> DEFINE until == IF row.failed + 1 >= Threshold THEN now + Lockout ELSE row.locked
  <2>1. row.failed \in Nat /\ row.locked \in Nat
    BY DEF AccountRow
  <2>2. until \in Nat /\ row.failed + 1 \in Nat
    BY <2>1, TimeAssumption
  <2>3. WithFailure(row) = [row EXCEPT !.failed = row.failed + 1, !.locked = until]
    BY DEF WithFailure
  <2> HIDE DEF until
  <2> QED  BY <2>2, <2>3 DEF AccountRow
<1>2. WithSuccess(row) \in AccountRow
  BY DEF WithSuccess, AccountRow
<1>3. WithPassword(row, new) \in AccountRow
  BY DEF WithPassword, AccountRow
<1>4. [row EXCEPT !.status = st] \in AccountRow
  BY DEF AccountRow
<1> QED  BY <1>1, <1>2, <1>3, <1>4

\* Touching a session keeps it a session.
LEMMA TouchedTyped ==
    ASSUME NEW row \in SessionRow, now \in Nat
    PROVE  Touched(row) \in SessionRow
BY DEF Touched, SessionRow

-----------------------------------------------------------------------------
(* Requests in flight *)

\* What a request carries is determined by the step it is about to take.
LEMMA TaskShapes ==
    ASSUME NEW r \in TaskState
    PROVE  /\ r.at \in SaveSteps =>
                 /\ r.acct \in Account /\ r.row \in AccountRow
                 /\ r.since \in Nat /\ r.keep \in SessionId \cup {None}
           /\ r.at \in AccountSteps =>
                 r \in [at: AccountSteps, acct: Account, since: Nat, proof: Password,
                        keep: SessionId \cup {None}]
           /\ r.at = "load_account" =>
                 r.grant \in GrantId /\ r.acct \in Account /\ r.password \in Password
           /\ r.at = "count_accounts" =>
                 r.grant \in GrantId /\ r.email \in Email /\ r.password \in Password
           /\ r.at = "add_account" => r.row \in AccountRow
           /\ r.at = "mint_invite" => r.email \in Email
           /\ r.at \in {"authorize", "touch"} =>
                 r \in [at: {"authorize", "touch"}, session: SessionId, row: SessionRow]
BY DEF TaskState, SaveSteps, AccountSteps

\* A request about to save a row is a request.
LEMMA SavingTyped ==
    ASSUME now \in Nat, NEW step \in SaveSteps, NEW a \in Account, NEW row \in AccountRow,
           NEW keep \in SessionId \cup {None}
    PROVE  Saving(step, a, row, keep) \in TaskState
BY DEF Saving, TaskState

\* A request that goes on after its save is a request.
LEMMA AfterTyped ==
    ASSUME NEW r \in TaskState, r.at \in SaveSteps, NEW step \in AccountSteps
    PROVE  After(step, r) \in TaskState
<1>1. r.acct \in Account /\ r.since \in Nat /\ r.keep \in SessionId \cup {None}
      /\ r.row.password \in Password
  BY TaskShapes DEF AccountRow
<1> QED  BY <1>1 DEF After, TaskState

\* A request that goes on to another step about the same account is a request.
LEMMA ThenTyped ==
    ASSUME NEW r \in TaskState, r.at \in AccountSteps, NEW step \in AccountSteps
    PROVE  Then(step, r) \in TaskState
<1>1. r \in [at: AccountSteps, acct: Account, since: Nat, proof: Password,
             keep: SessionId \cup {None}]
  BY TaskShapes
<1> QED  BY <1>1 DEF Then, TaskState

\* Changing one request's state keeps the others.
LEMMA TaskUpdate ==
    ASSUME task \in [Task -> TaskState], NEW t \in Task, NEW r \in TaskState,
           task' = [task EXCEPT ![t] = r]
    PROVE  task' \in [Task -> TaskState]
OBVIOUS

\* A free slot is a request state.
LEMMA IdleTyped == Idle \in TaskState
BY DEF Idle, TaskState

-----------------------------------------------------------------------------
(* Type correctness *)

\* Starting a request writes nothing but, for Redeem, the grant's redeemed mark.
LEMMA StartTyped ==
    ASSUME TypeOK, NEW t \in Task, StartRequest(t)
    PROVE  TypeOK'
<1> USE DEF TypeOK, TablesTypeOK, tables
<1>1. ASSUME NEW e \in Email, NEW p \in Password, Login(t, e, p)
      PROVE  TypeOK'
  <2>1. PICK a \in DOMAIN accounts :
          \/ Start(t, "login", Saving("accept_login", a, WithSuccess(accounts[a]), None))
          \/ Start(t, "login", Saving("record_failure", a, WithFailure(accounts[a]), None))
    BY <1>1 DEF Login, Holders
  <2>2. accounts[a] \in AccountRow /\ a \in Account
    BY <2>1
  <2>3. /\ WithSuccess(accounts[a]) \in AccountRow
        /\ WithFailure(accounts[a]) \in AccountRow
    BY <2>2, RowTransitions DEF Status
  <2>4. /\ Saving("accept_login", a, WithSuccess(accounts[a]), None) \in TaskState
        /\ Saving("record_failure", a, WithFailure(accounts[a]), None) \in TaskState
    BY <2>2, <2>3, SavingTyped DEF SaveSteps
  <2>5. task' \in [Task -> TaskState]
    BY <2>1, <2>4, TaskUpdate DEF Start
  <2> QED  BY <1>1, <2>5 DEF Login
<1>2. ASSUME NEW a \in Account, NEW p \in Password, ConfirmPassword(t, a, p)
      PROVE  TypeOK'
  <2>1. /\ a \in DOMAIN accounts
        /\ \/ Start(t, "confirm", Saving("clear_failures", a, WithSuccess(accounts[a]), None))
           \/ Start(t, "confirm", Saving("record_failure", a, WithFailure(accounts[a]), None))
    BY <1>2 DEF ConfirmPassword
  <2>3. /\ WithSuccess(accounts[a]) \in AccountRow
        /\ WithFailure(accounts[a]) \in AccountRow
    BY <2>1, <1>2, RowTransitions DEF Status
  <2>4. /\ Saving("clear_failures", a, WithSuccess(accounts[a]), None) \in TaskState
        /\ Saving("record_failure", a, WithFailure(accounts[a]), None) \in TaskState
    BY <2>1, <2>3, SavingTyped DEF SaveSteps
  <2>5. task' \in [Task -> TaskState]
    BY <2>1, <2>4, TaskUpdate DEF Start
  <2> QED  BY <1>2, <2>5 DEF ConfirmPassword
<1>3. ASSUME NEW s \in SessionId, ResolveSession(t, s)
      PROVE  TypeOK'
  <2>1. [at |-> "authorize", session |-> s, row |-> sessions[s]] \in TaskState
    BY <1>3 DEF ResolveSession, TaskState
  <2>2. task' \in [Task -> TaskState]
    BY <1>3, <2>1, TaskUpdate DEF ResolveSession, Start
  <2> QED  BY <1>3, <2>2 DEF ResolveSession
<1>4. ASSUME NEW a \in Account, NEW st \in Status, SetStatus(t, a, st)
      PROVE  TypeOK'
  <2>1. [accounts[a] EXCEPT !.status = st] \in AccountRow
    BY <1>4 DEF SetStatus, AccountRow
  <2>2. Saving("set_status", a, [accounts[a] EXCEPT !.status = st], None) \in TaskState
    BY <2>1, SavingTyped DEF SaveSteps
  <2>3. task' \in [Task -> TaskState]
    BY <1>4, <2>2, TaskUpdate DEF SetStatus, Start
  <2> QED  BY <1>4, <2>3 DEF SetStatus
<1>5. ASSUME NEW s \in SessionId, NEW p \in Password, ChangePassword(t, s, p)
      PROVE  TypeOK'
  <2> DEFINE a == sessions[s].account
  <2>1. a \in Account /\ accounts[a] \in AccountRow
    BY <1>5 DEF ChangePassword, SessionRow
  <2>2. WithPassword(accounts[a], p) \in AccountRow
    BY <2>1, RowTransitions DEF Status
  <2>3. Saving("set_password", a, WithPassword(accounts[a], p), s) \in TaskState
    BY <2>1, <2>2, SavingTyped DEF SaveSteps
  <2>4. task' \in [Task -> TaskState]
    BY <1>5, <2>3, TaskUpdate DEF ChangePassword, Start
  <2> QED  BY <1>5, <2>4 DEF ChangePassword
<1>6. ASSUME NEW a \in Account, RequestReset(t, a)
      PROVE  TypeOK'
  <2> DEFINE r == After("clear_resets", Saving("clear_resets", a, accounts[a], None))
  <2>1. accounts[a] \in AccountRow
    BY <1>6 DEF RequestReset
  <2>2. r \in TaskState
    BY <2>1 DEF After, Saving, TaskState, AccountSteps, AccountRow
  <2>3. task' \in [Task -> TaskState]
    BY <1>6, <2>2, TaskUpdate DEF RequestReset, Start
  <2> QED  BY <1>6, <2>3 DEF RequestReset
<1>7. ASSUME NEW g \in GrantId, NEW e \in Purpose, NEW p \in Password, Redeem(t, g, e, p)
      PROVE  TypeOK'
  <2>1. g \in DOMAIN grants /\ grants[g] \in GrantRow
    BY <1>7 DEF Redeem, Redeemable
  <2>2. [grants[g] EXCEPT !.redeemed = TRUE] \in GrantRow
    BY <2>1 DEF GrantRow
  <2>3. grants' = [grants EXCEPT ![g] = [grants[g] EXCEPT !.redeemed = TRUE]]
    BY <1>7 DEF Redeem
  <2>4. DOMAIN grants' = DOMAIN grants /\ grants' \in [DOMAIN grants -> GrantRow]
    BY <2>1, <2>2, <2>3
  <2>5. Redeemed(g, p) \in TaskState
    BY <2>1 DEF Redeemed, TaskState, GrantRow
  <2>6. task' \in [Task -> TaskState]
    BY <1>7, <2>5, IdleTyped, TaskUpdate DEF Redeem, Start
  <2> QED  BY <1>7, <2>4, <2>6 DEF Redeem
<1>8. ASSUME NEW e \in Email, IssueInvite(t, e)
      PROVE  TypeOK'
  <2>1. [at |-> "mint_invite", email |-> e] \in TaskState
    BY DEF TaskState
  <2>2. task' \in [Task -> TaskState]
    BY <1>8, <2>1, TaskUpdate DEF IssueInvite, Start
  <2> QED  BY <1>8, <2>2 DEF IssueInvite
<1> QED  BY <1>1, <1>2, <1>3, <1>4, <1>5, <1>6, <1>7, <1>8 DEF StartRequest

\* The save of a task rewrites one account with a well-formed row.
LEMMA SaveTyped ==
    ASSUME TypeOK, NEW t \in Task, NEW step \in SaveSteps, NEW next \in TaskState,
           Save(t, step, next)
    PROVE  TypeOK'
<1> USE DEF TypeOK, TablesTypeOK
<1> DEFINE r == task[t]
<1>1. r.acct \in Account /\ r.row \in AccountRow
  BY TaskShapes DEF Save, Continue
<1>2. /\ DOMAIN accounts' = DOMAIN accounts
      /\ accounts' \in [DOMAIN accounts -> AccountRow]
  BY <1>1 DEF Save, SavedAccounts
<1>3. task' \in [Task -> TaskState]
  BY IdleTyped, TaskUpdate DEF Save, Continue
<1> QED  BY <1>2, <1>3 DEF Save

\* Revoking links changes only the revoked mark.
LEMMA RevokedResetsTyped ==
    ASSUME TablesTypeOK, NEW a
    PROVE  /\ DOMAIN RevokedResets(a) = DOMAIN grants
           /\ RevokedResets(a) \in [DOMAIN grants -> GrantRow]
<1>1. ASSUME NEW g \in DOMAIN grants
      PROVE  [grants[g] EXCEPT !.revoked = TRUE] \in GrantRow /\ grants[g] \in GrantRow
  BY DEF TablesTypeOK, GrantRow
<1> QED  BY <1>1 DEF RevokedResets

\* Revoking sessions leaves a table of sessions.
LEMMA RevokedSessionsTyped ==
    ASSUME TablesTypeOK, NEW a, NEW keep
    PROVE  /\ DOMAIN RevokedSessions(a, keep) \subseteq DOMAIN sessions
           /\ RevokedSessions(a, keep) \in [DOMAIN RevokedSessions(a, keep) -> SessionRow]
BY DEF TablesTypeOK, RevokedSessions, Without

\* Opening a session stores a well-formed row and trims the table.
LEMMA OpenSessionTyped ==
    ASSUME TypeOK, NEW t \in Task, OpenSession(t)
    PROVE  TypeOK'
<1> USE DEF TypeOK, TablesTypeOK
<1> DEFINE r == task[t]
<1>1. r.acct \in Account /\ r.since \in Nat /\ r.proof \in Password
  BY TaskShapes DEF OpenSession, Continue, AccountSteps
<1>2. task' \in [Task -> TaskState]
  BY IdleTyped, TaskUpdate DEF OpenSession, Continue
<1>3. CASE r.acct \notin DOMAIN accounts /\ UNCHANGED <<sessions, minted>>
  BY <1>2, <1>3 DEF OpenSession
<1>4. ASSUME NEW s \in SessionId \ minted, NEW p \in Prefs,
             AddWithinCap(s, NewSession(r, p), p.cap), minted' = minted \cup {s}
      PROVE  TypeOK'
  <2> DEFINE row == NewSession(r, p)
             table == Put(sessions, s, row)
             mine == SessionsOf(row.account) \cup {s}
  <2>1. row \in SessionRow
    BY <1>1, PrefsAssumption DEF NewSession, SessionRow
  <2> HIDE DEF row
  <2>2. DOMAIN table \subseteq SessionId /\ table \in [DOMAIN table -> SessionRow]
    <3>1. DOMAIN sessions \subseteq SessionId /\ sessions \in [DOMAIN sessions -> SessionRow]
      OBVIOUS
    <3> QED  BY <1>4, <2>1, <3>1 DEF Put
  <2>3. PICK kept \in Newest(table, mine, p.cap) : sessions' = Without(table, mine \ kept)
    BY <1>4 DEF AddWithinCap, row
  <2> HIDE DEF table, mine
  <2>4. DOMAIN sessions' \subseteq SessionId /\ sessions' \in [DOMAIN sessions' -> SessionRow]
    BY <2>2, <2>3 DEF Without
  <2> QED  BY <1>2, <1>4, <2>4 DEF OpenSession
<1> QED  BY <1>3, <1>4 DEF OpenSession

\* Storing a freshly minted grant.
LEMMA MintGrantTyped ==
    ASSUME TablesTypeOK, NEW g, NEW row \in GrantRow, MintGrant(g, row)
    PROVE  /\ DOMAIN grants' \subseteq GrantId
           /\ grants' \in [DOMAIN grants' -> GrantRow]
           /\ minted' \in SUBSET (Account \cup SessionId \cup GrantId)
<1>1. g \in GrantId /\ grants' = Put(grants, g, row) /\ minted' = minted \cup {g}
  BY DEF MintGrant
<1>2. DOMAIN grants \subseteq GrantId /\ grants \in [DOMAIN grants -> GrantRow]
      /\ minted \in SUBSET (Account \cup SessionId \cup GrantId)
  BY DEF TablesTypeOK
<1> QED  BY <1>1, <1>2 DEF Put

\* Every later step of a request.
LEMMA ContinueTyped ==
    ASSUME TypeOK, NEW t \in Task, ContinueRequest(t)
    PROVE  TypeOK'
<1> DEFINE r == task[t]
<1> r \in TaskState
  BY DEF TypeOK
<1>1. CASE RecordFailure(t) \/ ClearFailures(t)
  BY <1>1, SaveTyped, IdleTyped DEF RecordFailure, ClearFailures, SaveSteps
<1>2. CASE AcceptLogin(t)
  <2>1. r.at \in SaveSteps
    BY <1>2 DEF AcceptLogin, Save, Continue, SaveSteps
  <2>2. After("open_session", r) \in TaskState
    BY <2>1, AfterTyped DEF AccountSteps
  <2> QED  BY <1>2, <2>2, SaveTyped DEF AcceptLogin, SaveSteps
<1>3. CASE OpenSession(t)
  BY <1>3, OpenSessionTyped
<1>4. CASE Authorize(t)
  <2>1. r \in [at: {"authorize", "touch"}, session: SessionId, row: SessionRow]
    BY <1>4, TaskShapes DEF Authorize, Continue
  <2>2. Touched(r.row) \in SessionRow
    BY <2>1, TouchedTyped DEF TypeOK, TablesTypeOK
  <2>3. [r EXCEPT !.at = "touch", !.row = Touched(r.row)] \in TaskState
    BY <2>1, <2>2 DEF TaskState
  <2>4. task' \in [Task -> TaskState]
    BY <1>4, <2>3, IdleTyped, TaskUpdate DEF Authorize, Continue, TypeOK
  <2> QED  BY <1>4, <2>4 DEF Authorize, TypeOK, TablesTypeOK, tables
<1>5. CASE Touch(t)
  <2>1. r.session \in SessionId /\ r.row \in SessionRow
    BY <1>5, TaskShapes DEF Touch, Continue
  <2>2. /\ DOMAIN sessions' = DOMAIN sessions
        /\ sessions' \in [DOMAIN sessions -> SessionRow]
    BY <1>5, <2>1 DEF Touch, SavedSessions, SessionRow, TypeOK, TablesTypeOK
  <2>3. task' \in [Task -> TaskState]
    BY <1>5, IdleTyped, TaskUpdate DEF Touch, Continue, TypeOK
  <2> QED  BY <1>5, <2>2, <2>3 DEF Touch, TypeOK, TablesTypeOK
<1>6. CASE SaveStatus(t)
  <2>1. r.at \in SaveSteps
    BY <1>6 DEF SaveStatus, Save, Continue, SaveSteps
  <2>2. After("sign_out", r) \in TaskState
    BY <2>1, AfterTyped DEF AccountSteps
  <2> QED  BY <1>6, <2>2, IdleTyped, SaveTyped DEF SaveStatus, SaveSteps
<1>7. CASE SignOut(t)
  <2>1. task' \in [Task -> TaskState]
    BY <1>7, IdleTyped, TaskUpdate DEF SignOut, Continue, TypeOK
  <2> QED  BY <1>7, <2>1, RevokedSessionsTyped DEF SignOut, TypeOK, TablesTypeOK
<1>8. CASE SavePassword(t)
  <2>1. r.at \in SaveSteps
    BY <1>8 DEF SavePassword, Save, Continue, SaveSteps
  <2>2. After("end_sessions", r) \in TaskState
    BY <2>1, AfterTyped DEF AccountSteps
  <2> QED  BY <1>8, <2>2, SaveTyped DEF SavePassword, SaveSteps
<1>9. CASE EndSessions(t)
  <2>1. Then("end_resets", r) \in TaskState
    BY <1>9, ThenTyped DEF EndSessions, Continue, AccountSteps
  <2>2. task' \in [Task -> TaskState]
    BY <1>9, <2>1, TaskUpdate DEF EndSessions, Continue, TypeOK
  <2> QED  BY <1>9, <2>2, RevokedSessionsTyped DEF EndSessions, TypeOK, TablesTypeOK
<1>10. CASE EndResets(t)
  <2>1. task' \in [Task -> TaskState]
    BY <1>10, IdleTyped, TaskUpdate DEF EndResets, Continue, TypeOK
  <2> QED  BY <1>10, <2>1, RevokedResetsTyped DEF EndResets, TypeOK, TablesTypeOK
<1>11. CASE ClearResets(t)
  <2>1. Then("mint_reset", r) \in TaskState
    BY <1>11, ThenTyped DEF ClearResets, Continue, AccountSteps
  <2>2. task' \in [Task -> TaskState]
    BY <1>11, <2>1, TaskUpdate DEF ClearResets, Continue, TypeOK
  <2> QED  BY <1>11, <2>2, RevokedResetsTyped DEF ClearResets, TypeOK, TablesTypeOK
<1>12. CASE MintReset(t)
  <2>1. r.acct \in Account
    BY <1>12, TaskShapes DEF MintReset, Continue, AccountSteps
  <2>2. NewGrant("password_reset", r.acct, ResetTtl) \in GrantRow
    BY <2>1, TimeAssumption DEF NewGrant, GrantRow, TypeOK, TablesTypeOK
  <2>3. task' \in [Task -> TaskState]
    BY <1>12, IdleTyped, TaskUpdate DEF MintReset, Continue, TypeOK
  <2>4. /\ DOMAIN grants' \subseteq GrantId
        /\ grants' \in [DOMAIN grants' -> GrantRow]
        /\ minted' \in SUBSET (Account \cup SessionId \cup GrantId)
    BY <1>12, <2>2, MintGrantTyped DEF MintReset, TypeOK, TablesTypeOK
  <2> QED  BY <1>12, <2>3, <2>4 DEF MintReset, TypeOK, TablesTypeOK
<1>13. CASE LoadAccount(t)
  <2>1. r.acct \in Account /\ r.password \in Password
    BY <1>13, TaskShapes DEF LoadAccount, Continue
  <2>2. ASSUME r.acct \in DOMAIN accounts
        PROVE  Saving("set_password", r.acct,
                      WithPassword(accounts[r.acct], r.password), None) \in TaskState
    <3>1. accounts[r.acct] \in AccountRow
      BY <2>2 DEF TypeOK, TablesTypeOK
    <3>2. WithPassword(accounts[r.acct], r.password) \in AccountRow
      BY <2>1, <3>1, RowTransitions DEF Status, TypeOK, TablesTypeOK
    <3> QED  BY <2>1, <3>2, SavingTyped DEF SaveSteps, TypeOK, TablesTypeOK
  <2>3. task' \in [Task -> TaskState]
    BY <1>13, <2>2, IdleTyped, TaskUpdate DEF LoadAccount, Continue, TypeOK
  <2> QED  BY <1>13, <2>3 DEF LoadAccount, TypeOK, TablesTypeOK, tables
<1>14. CASE CountAccounts(t)
  <2> DEFINE row == NewAccount(r.email, r.password, DOMAIN accounts = {})
  <2>1. row \in AccountRow
    BY <1>14, TaskShapes, RoleAssumption
    DEF CountAccounts, Continue, NewAccount, AccountRow, Status
  <2>2. [at |-> "add_account", row |-> row] \in TaskState
    BY <2>1 DEF TaskState
  <2>3. task' \in [Task -> TaskState]
    BY <1>14, <2>2, TaskUpdate DEF CountAccounts, Continue, TypeOK
  <2> QED  BY <1>14, <2>3 DEF CountAccounts, TypeOK, TablesTypeOK, tables
<1>15. CASE AddAccount(t)
  <2>1. r.row \in AccountRow
    BY <1>15, TaskShapes DEF AddAccount, Continue
  <2>2. task' \in [Task -> TaskState]
    BY <1>15, IdleTyped, TaskUpdate DEF AddAccount, Continue, TypeOK
  <2>3. /\ DOMAIN accounts' \subseteq Account
        /\ accounts' \in [DOMAIN accounts' -> AccountRow]
        /\ minted' \in SUBSET (Account \cup SessionId \cup GrantId)
    <3>1. /\ DOMAIN accounts \subseteq Account
          /\ accounts \in [DOMAIN accounts -> AccountRow]
          /\ minted \in SUBSET (Account \cup SessionId \cup GrantId)
      BY DEF TypeOK, TablesTypeOK
    <3>2. CASE UNCHANGED <<accounts, minted>>
      BY <3>1, <3>2
    <3>3. ASSUME NEW a \in Account, accounts' = Put(accounts, a, r.row),
                 minted' = minted \cup {a}
          PROVE  /\ DOMAIN accounts' \subseteq Account
                 /\ accounts' \in [DOMAIN accounts' -> AccountRow]
                 /\ minted' \in SUBSET (Account \cup SessionId \cup GrantId)
      BY <2>1, <3>1, <3>3 DEF Put
    <3> QED  BY <1>15, <3>2, <3>3 DEF AddAccount
  <2> QED  BY <1>15, <2>2, <2>3 DEF AddAccount, TypeOK, TablesTypeOK
<1>16. CASE MintInvite(t)
  <2>1. r.email \in Email
    BY <1>16, TaskShapes DEF MintInvite, Continue
  <2>2. NewGrant("invite", r.email, InviteTtl) \in GrantRow
    BY <2>1, TimeAssumption DEF NewGrant, GrantRow, TypeOK, TablesTypeOK
  <2>3. task' \in [Task -> TaskState]
    BY <1>16, IdleTyped, TaskUpdate DEF MintInvite, Continue, TypeOK
  <2>4. /\ DOMAIN grants' \subseteq GrantId
        /\ grants' \in [DOMAIN grants' -> GrantRow]
        /\ minted' \in SUBSET (Account \cup SessionId \cup GrantId)
    BY <1>16, <2>2, MintGrantTyped DEF MintInvite, TypeOK
  <2> QED  BY <1>16, <2>3, <2>4 DEF MintInvite, TypeOK, TablesTypeOK
<1> QED  BY <1>1, <1>2, <1>3, <1>4, <1>5, <1>6, <1>7, <1>8, <1>9, <1>10, <1>11, <1>12,
            <1>13, <1>14, <1>15, <1>16 DEF ContinueRequest

\* Requests of one transaction, the sweeper, the clock and requests that die.
LEMMA OtherTyped ==
    ASSUME TypeOK, WholeRequest \/ Tick \/ \E t \in Task : Abandon(t)
    PROVE  TypeOK'
<1> USE DEF TypeOK, TablesTypeOK
<1>1. ASSUME NEW s \in SessionId, Logout(s)
      PROVE  TypeOK'
  BY <1>1 DEF Logout, Without
<1>2. ASSUME NEW a \in Account, LogoutEverywhere(a)
      PROVE  TypeOK'
  BY <1>2, RevokedSessionsTyped DEF LogoutEverywhere
<1>3. ASSUME NEW a \in Account, Delete(a)
      PROVE  TypeOK'
  BY <1>3 DEF Delete, DeleteAccount, Without
<1>4. ASSUME NEW a \in Account, NEW wanted \in SUBSET Role, AssignRoles(a, wanted)
      PROVE  TypeOK'
  <2>1. [accounts[a] EXCEPT !.roles = wanted] \in AccountRow
    BY <1>4 DEF AssignRoles, SetRoles, AccountRow
  <2>2. /\ DOMAIN accounts' = DOMAIN accounts
        /\ accounts' \in [DOMAIN accounts -> AccountRow]
    BY <1>4, <2>1 DEF AssignRoles, SetRoles
  <2> QED  BY <1>4, <2>2 DEF AssignRoles, SetRoles
<1>5. CASE PurgeSessions
  BY <1>5 DEF PurgeSessions, Without
<1>6. CASE PurgeGrants
  BY <1>6 DEF PurgeGrants, Without
<1>7. CASE Tick
  BY <1>7 DEF Tick
<1>8. ASSUME NEW t \in Task, Abandon(t)
      PROVE  TypeOK'
  BY <1>8, IdleTyped, TaskUpdate DEF Abandon, tables
<1> QED  BY <1>1, <1>2, <1>3, <1>4, <1>5, <1>6, <1>7, <1>8 DEF WholeRequest

\* No step breaks the types.
LEMMA NextTyped ==
    ASSUME TypeOK, [Next]_vars
    PROVE  TypeOK'
<1>1. CASE UNCHANGED vars
  BY <1>1 DEF vars, TypeOK, TablesTypeOK
<1>2. CASE Next
  BY <1>2, StartTyped, ContinueTyped, OtherTyped DEF Next
<1> QED  BY <1>1, <1>2

(***************************************************************************)
(* The tables and the requests in flight are well formed in every          *)
(* reachable state: what a request saves is always a row, whatever other   *)
(* requests did since it read one.                                         *)
(***************************************************************************)
THEOREM TypeCorrect == Spec => []TypeOK
<1>1. Init => TypeOK
  <2> SUFFICES ASSUME Init
               PROVE  TypeOK
    OBVIOUS
  <2>1. task \in [Task -> TaskState]
    BY IdleTyped DEF Init
  <2> QED  BY <2>1, SeedAssumption DEF Init, TypeOK, TablesTypeOK
<1>2. TypeOK /\ [Next]_vars => TypeOK'
  BY NextTyped
<1> QED  BY <1>1, <1>2, PTL DEF Spec

-----------------------------------------------------------------------------
(* Which steps write which table *)

\* The only writes of the accounts table.
LEMMA AccountWrites ==
    ASSUME [Next]_vars
    PROVE  \/ accounts' = accounts
           \/ \E t \in Task :
                 /\ task[t].at \in SaveSteps
                 /\ accounts' = SavedAccounts(task[t].acct, task[t].row)
                 /\ UNCHANGED <<roles, sessions, grants, minted>>
           \/ \E t \in Task, a \in Account \ minted :
                 /\ task[t].at = "add_account"
                 /\ CanAdd(task[t].row)
                 /\ accounts' = Put(accounts, a, task[t].row)
                 /\ minted' = minted \cup {a}
                 /\ UNCHANGED <<roles, sessions, grants>>
           \/ \E a \in Account, wanted \in SUBSET Role : SetRoles(a, wanted)
           \/ \E a \in Account : DeleteAccount(a)
<1> USE DEF tables
<1>1. CASE UNCHANGED vars
  BY <1>1 DEF vars
<1>2. ASSUME NEW t \in Task, StartRequest(t)
      PROVE  accounts' = accounts
  BY <1>2 DEF StartRequest, Login, ConfirmPassword, ResolveSession, SetStatus, ChangePassword,
              RequestReset, Redeem, IssueInvite
<1>3. ASSUME NEW t \in Task, NEW step \in SaveSteps, NEW next, Save(t, step, next)
      PROVE  /\ task[t].at \in SaveSteps
             /\ accounts' = SavedAccounts(task[t].acct, task[t].row)
             /\ UNCHANGED <<roles, sessions, grants, minted>>
  BY <1>3 DEF Save, Continue
<1>4. ASSUME NEW t \in Task,
             \/ RecordFailure(t) \/ ClearFailures(t) \/ AcceptLogin(t)
             \/ SaveStatus(t) \/ SavePassword(t)
      PROVE  /\ task[t].at \in SaveSteps
             /\ accounts' = SavedAccounts(task[t].acct, task[t].row)
             /\ UNCHANGED <<roles, sessions, grants, minted>>
  BY <1>3, <1>4 DEF RecordFailure, ClearFailures, AcceptLogin, SaveStatus, SavePassword, SaveSteps
<1>5. ASSUME NEW t \in Task, AddAccount(t)
      PROVE  \/ accounts' = accounts
             \/ \E a \in Account \ minted :
                 /\ task[t].at = "add_account"
                 /\ CanAdd(task[t].row)
                 /\ accounts' = Put(accounts, a, task[t].row)
                 /\ minted' = minted \cup {a}
                 /\ UNCHANGED <<roles, sessions, grants>>
  BY <1>5 DEF AddAccount, Continue
<1>6. ASSUME NEW t \in Task,
             \/ OpenSession(t) \/ Authorize(t) \/ Touch(t) \/ SignOut(t) \/ EndSessions(t)
             \/ EndResets(t) \/ ClearResets(t) \/ MintReset(t) \/ LoadAccount(t)
             \/ CountAccounts(t) \/ MintInvite(t) \/ Abandon(t)
      PROVE  accounts' = accounts
  BY <1>6 DEF OpenSession, Authorize, Touch, SignOut, EndSessions, EndResets, ClearResets,
              MintReset, LoadAccount, CountAccounts, MintInvite, Abandon
<1>7. CASE Tick \/ PurgeSessions \/ PurgeGrants \/ (\E s \in SessionId : Logout(s))
           \/ (\E a \in Account : LogoutEverywhere(a))
  BY <1>7 DEF Tick, PurgeSessions, PurgeGrants, Logout, LogoutEverywhere
<1>8. CASE \E a \in Account : Delete(a)
  BY <1>8 DEF Delete
<1>9. CASE \E a \in Account, wanted \in SUBSET Role : AssignRoles(a, wanted)
  BY <1>9 DEF AssignRoles
<1> QED  BY <1>1, <1>2, <1>4, <1>5, <1>6, <1>7, <1>8, <1>9 DEF Next, ContinueRequest, WholeRequest

\* The only writes of the sessions table.
LEMMA SessionWrites ==
    ASSUME [Next]_vars
    PROVE  \/ sessions' = sessions
           \/ \E t \in Task, s \in SessionId \ minted, p \in Prefs :
                 /\ task[t].at = "open_session"
                 /\ AddWithinCap(s, NewSession(task[t], p), p.cap)
                 /\ minted' = minted \cup {s}
                 /\ UNCHANGED <<accounts, roles, grants>>
           \/ \E t \in Task :
                 /\ task[t].at = "touch"
                 /\ sessions' = SavedSessions(task[t].session, task[t].row)
                 /\ UNCHANGED <<accounts, roles, grants, minted>>
           \/ \E K : /\ sessions' = Without(sessions, K)
                     /\ UNCHANGED <<accounts, roles, grants, minted>>
           \/ \E a \in Account : DeleteAccount(a)
<1> USE DEF tables
<1>1. CASE UNCHANGED vars
  BY <1>1 DEF vars
<1>2. ASSUME NEW t \in Task, StartRequest(t)
      PROVE  sessions' = sessions
  BY <1>2 DEF StartRequest, Login, ConfirmPassword, ResolveSession, SetStatus, ChangePassword,
              RequestReset, Redeem, IssueInvite
<1>3. ASSUME NEW t \in Task, OpenSession(t)
      PROVE  \/ sessions' = sessions
             \/ \E s \in SessionId \ minted, p \in Prefs :
                 /\ task[t].at = "open_session"
                 /\ AddWithinCap(s, NewSession(task[t], p), p.cap)
                 /\ minted' = minted \cup {s}
                 /\ UNCHANGED <<accounts, roles, grants>>
  BY <1>3 DEF OpenSession, Continue
<1>4. ASSUME NEW t \in Task, Touch(t)
      PROVE  /\ task[t].at = "touch"
             /\ sessions' = SavedSessions(task[t].session, task[t].row)
             /\ UNCHANGED <<accounts, roles, grants, minted>>
  BY <1>4 DEF Touch, Continue
<1>5. ASSUME NEW t \in Task, SignOut(t) \/ EndSessions(t)
      PROVE  \E K : /\ sessions' = Without(sessions, K)
                    /\ UNCHANGED <<accounts, roles, grants, minted>>
  BY <1>5 DEF SignOut, EndSessions, RevokedSessions
<1>6. ASSUME NEW t \in Task,
             \/ RecordFailure(t) \/ ClearFailures(t) \/ AcceptLogin(t)
             \/ SaveStatus(t) \/ SavePassword(t) \/ Authorize(t)
             \/ EndResets(t) \/ ClearResets(t) \/ MintReset(t) \/ LoadAccount(t)
             \/ CountAccounts(t) \/ AddAccount(t) \/ MintInvite(t) \/ Abandon(t)
      PROVE  sessions' = sessions
  BY <1>6 DEF RecordFailure, ClearFailures, AcceptLogin, SaveStatus, SavePassword, Save,
              Authorize, EndResets, ClearResets, MintReset, LoadAccount, CountAccounts,
              AddAccount, MintInvite, Abandon
<1>7. CASE Tick \/ PurgeGrants \/ (\E a \in Account, w \in SUBSET Role : AssignRoles(a, w))
  BY <1>7 DEF Tick, PurgeGrants, AssignRoles, SetRoles
<1>8. CASE PurgeSessions \/ (\E s \in SessionId : Logout(s))
           \/ (\E a \in Account : LogoutEverywhere(a))
  BY <1>8 DEF PurgeSessions, Logout, LogoutEverywhere, RevokedSessions
<1>9. CASE \E a \in Account : Delete(a)
  BY <1>9 DEF Delete
<1> QED  BY <1>1, <1>2, <1>3, <1>4, <1>5, <1>6, <1>7, <1>8, <1>9
         DEF Next, ContinueRequest, WholeRequest

\* The only writes of the grants table.
LEMMA GrantWrites ==
    ASSUME [Next]_vars
    PROVE  \/ grants' = grants
           \/ \E t \in Task, g \in GrantId \ minted :
                 /\ \/ /\ task[t].at = "mint_invite"
                       /\ MintGrant(g, NewGrant("invite", task[t].email, InviteTtl))
                    \/ /\ task[t].at = "mint_reset"
                       /\ task[t].acct \in DOMAIN accounts
                       /\ MintGrant(g, NewGrant("password_reset", task[t].acct, ResetTtl))
                 /\ task' = [task EXCEPT ![t] = Idle]
                 /\ UNCHANGED <<accounts, roles, sessions, now>>
           \/ \E t \in Task, g \in GrantId, e \in Purpose, p \in Password : Redeem(t, g, e, p)
           \/ \E t \in Task :
                 /\ EndResets(t) \/ ClearResets(t)
                 /\ grants' = RevokedResets(task[t].acct)
                 /\ UNCHANGED <<accounts, roles, sessions, minted, now>>
           \/ PurgeGrants
           \/ \E a \in Account : Delete(a)
<1> USE DEF tables
<1>1. CASE UNCHANGED vars
  BY <1>1 DEF vars
<1>2. ASSUME NEW t \in Task, StartRequest(t)
      PROVE  \/ grants' = grants
             \/ \E g \in GrantId, e \in Purpose, p \in Password : Redeem(t, g, e, p)
  BY <1>2 DEF StartRequest, Login, ConfirmPassword, ResolveSession, SetStatus, ChangePassword,
              RequestReset, IssueInvite
<1>3. ASSUME NEW t \in Task, MintReset(t) \/ MintInvite(t)
      PROVE  \/ grants' = grants
             \/ \E g \in GrantId \ minted :
                 /\ \/ /\ task[t].at = "mint_invite"
                       /\ MintGrant(g, NewGrant("invite", task[t].email, InviteTtl))
                    \/ /\ task[t].at = "mint_reset"
                       /\ task[t].acct \in DOMAIN accounts
                       /\ MintGrant(g, NewGrant("password_reset", task[t].acct, ResetTtl))
                 /\ task' = [task EXCEPT ![t] = Idle]
                 /\ UNCHANGED <<accounts, roles, sessions, now>>
  BY <1>3 DEF MintReset, MintInvite, MintGrant, Continue
<1>4. ASSUME NEW t \in Task, EndResets(t) \/ ClearResets(t)
      PROVE  /\ grants' = RevokedResets(task[t].acct)
             /\ UNCHANGED <<accounts, roles, sessions, minted, now>>
  BY <1>4 DEF EndResets, ClearResets
<1>5. ASSUME NEW t \in Task,
             \/ RecordFailure(t) \/ ClearFailures(t) \/ AcceptLogin(t) \/ OpenSession(t)
             \/ SaveStatus(t) \/ SavePassword(t) \/ Authorize(t) \/ Touch(t) \/ SignOut(t)
             \/ EndSessions(t) \/ LoadAccount(t) \/ CountAccounts(t) \/ AddAccount(t) \/ Abandon(t)
      PROVE  grants' = grants
  BY <1>5 DEF RecordFailure, ClearFailures, AcceptLogin, OpenSession, SaveStatus, SavePassword,
              Save, Authorize, Touch, SignOut, EndSessions, LoadAccount, CountAccounts,
              AddAccount, Abandon
<1>6. CASE Tick \/ PurgeSessions \/ (\E s \in SessionId : Logout(s))
           \/ (\E a \in Account : LogoutEverywhere(a))
           \/ (\E a \in Account, w \in SUBSET Role : AssignRoles(a, w))
  BY <1>6 DEF Tick, PurgeSessions, Logout, LogoutEverywhere, AssignRoles, SetRoles
<1> QED  BY <1>1, <1>2, <1>3, <1>4, <1>5, <1>6 DEF Next, ContinueRequest, WholeRequest

\* An id handed out is never taken back.
LEMMA MintedGrows ==
    ASSUME [Next]_vars
    PROVE  minted \subseteq minted'
<1> USE DEF tables
<1>1. CASE UNCHANGED vars
  BY <1>1 DEF vars
<1>2. ASSUME NEW t \in Task, StartRequest(t)
      PROVE  minted' = minted
  BY <1>2 DEF StartRequest, Login, ConfirmPassword, ResolveSession, SetStatus, ChangePassword,
              RequestReset, Redeem, IssueInvite
<1>3. ASSUME NEW t \in Task, ContinueRequest(t)
      PROVE  minted \subseteq minted'
  BY <1>3 DEF ContinueRequest, RecordFailure, ClearFailures, AcceptLogin, OpenSession,
              SaveStatus, SavePassword, Save, Authorize, Touch, SignOut, EndSessions, EndResets,
              ClearResets, MintReset, MintInvite, MintGrant, LoadAccount, CountAccounts, AddAccount
<1>4. CASE WholeRequest \/ Tick \/ \E t \in Task : Abandon(t)
  BY <1>4 DEF WholeRequest, Logout, LogoutEverywhere, Delete, DeleteAccount, AssignRoles,
              SetRoles, PurgeSessions, PurgeGrants, Tick, Abandon
<1> QED  BY <1>1, <1>2, <1>3, <1>4 DEF Next

-----------------------------------------------------------------------------
(* Ids *)

\* Every key of every table has been handed out.
KeysMinted ==
    /\ DOMAIN accounts \subseteq minted
    /\ DOMAIN sessions \subseteq minted
    /\ DOMAIN grants \subseteq minted

\* Ids are never reused: the key of a stored row is one that was minted for it.
LEMMA KeysMintedAlways == Spec => []KeysMinted
<1>1. Init => KeysMinted
  BY DEF Init, KeysMinted
<1>2. ASSUME KeysMinted, [Next]_vars
      PROVE  KeysMinted'
  <2>1. minted \subseteq minted'
    BY <1>2, MintedGrows
  <2>2. DOMAIN accounts' \subseteq minted'
    <3>1. ASSUME NEW t \in Task, accounts' = SavedAccounts(task[t].acct, task[t].row)
          PROVE  DOMAIN accounts' = DOMAIN accounts
      BY <3>1 DEF SavedAccounts
    <3> QED  BY <1>2, <2>1, <3>1, AccountWrites
             DEF KeysMinted, Put, Without, SetRoles, DeleteAccount
  <2>3. DOMAIN sessions' \subseteq minted'
    <3>1. ASSUME NEW t \in Task, NEW s, NEW p \in Prefs,
                 AddWithinCap(s, NewSession(task[t], p), p.cap), minted' = minted \cup {s}
          PROVE  DOMAIN sessions' \subseteq minted'
      BY <1>2, <3>1 DEF AddWithinCap, Put, Without, KeysMinted
    <3>2. ASSUME NEW t \in Task, sessions' = SavedSessions(task[t].session, task[t].row)
          PROVE  DOMAIN sessions' = DOMAIN sessions
      BY <3>2 DEF SavedSessions
    <3>3. ASSUME NEW K, sessions' = Without(sessions, K)
          PROVE  DOMAIN sessions' \subseteq DOMAIN sessions
      BY <3>3 DEF Without
    <3>4. ASSUME NEW a \in Account, DeleteAccount(a)
          PROVE  DOMAIN sessions' \subseteq DOMAIN sessions
      BY <3>4 DEF DeleteAccount, Without
    <3> QED  BY <1>2, <2>1, <3>1, <3>2, <3>3, <3>4, SessionWrites DEF KeysMinted
  <2>4. DOMAIN grants' \subseteq minted'
    <3>1. ASSUME NEW g, NEW row, MintGrant(g, row)
          PROVE  DOMAIN grants' \subseteq minted'
      BY <1>2, <3>1 DEF MintGrant, Put, KeysMinted
    <3>2. ASSUME NEW t, NEW g, NEW e, NEW p, Redeem(t, g, e, p)
          PROVE  DOMAIN grants' = DOMAIN grants
      BY <3>2 DEF Redeem
    <3>3. ASSUME NEW a, grants' = RevokedResets(a)
          PROVE  DOMAIN grants' = DOMAIN grants
      BY <3>3 DEF RevokedResets
    <3>4. ASSUME PurgeGrants \/ \E a \in Account : Delete(a)
          PROVE  DOMAIN grants' \subseteq DOMAIN grants
      BY <3>4 DEF PurgeGrants, Delete, DeleteAccount, Without
    <3> QED  BY <1>2, <2>1, <3>1, <3>2, <3>3, <3>4, GrantWrites DEF KeysMinted
  <2> QED  BY <2>2, <2>3, <2>4 DEF KeysMinted
<1> QED  BY <1>1, <1>2, PTL DEF Spec

(***************************************************************************)
(* Demotion and deletion cannot take the last owner away, for any number   *)
(* of accounts: only the save of a row without the owner role can.         *)
(***************************************************************************)
THEOREM LastOwnerTheorem == Spec => OnlyStaleSavesLoseTheLastOwner
<1> DEFINE Kept == (Owners # {} /\ Owners' = {}) =>
                       \E t \in Task : task[t].at \in SaveSteps /\ OWNER \notin task[t].row.roles
<1>1. ASSUME TypeOK, KeysMinted, [Next]_vars
      PROVE  [Kept]_vars
  <2> SUFFICES ASSUME Owners # {}, Owners' = {}
               PROVE  \E t \in Task : task[t].at \in SaveSteps /\ OWNER \notin task[t].row.roles
    OBVIOUS
  <2>1. PICK o \in DOMAIN accounts : OWNER \in accounts[o].roles
    BY DEF Owners
  <2>2. accounts \in [DOMAIN accounts -> AccountRow]
    BY <1>1 DEF TypeOK, TablesTypeOK
  <2>3. CASE accounts' = accounts
    BY <2>1, <2>3 DEF Owners
  <2>4. ASSUME NEW t \in Task, task[t].at \in SaveSteps,
               accounts' = SavedAccounts(task[t].acct, task[t].row)
        PROVE  OWNER \notin task[t].row.roles
    <3>1. CASE accounts' = accounts
      BY <2>1, <3>1 DEF Owners
    <3>2. CASE task[t].acct \in DOMAIN accounts
               /\ accounts' = [accounts EXCEPT ![task[t].acct] = task[t].row]
      BY <2>2, <3>2 DEF Owners
    <3> QED  BY <2>4, <3>1, <3>2 DEF SavedAccounts
  <2>5. ASSUME NEW a \in Account \ minted, NEW row, CanAdd(row), accounts' = Put(accounts, a, row)
        PROVE  FALSE
    <3>1. a # o
      BY <1>1, <2>1, <2>5 DEF KeysMinted
    <3> QED  BY <2>1, <2>5, <3>1 DEF Owners, Put
  <2>6. ASSUME NEW a \in Account, NEW wanted \in SUBSET Role, SetRoles(a, wanted)
        PROVE  FALSE
    <3>1. a \in DOMAIN accounts /\ accounts' = [accounts EXCEPT ![a].roles = wanted]
      BY <2>6 DEF SetRoles
    <3>2. CASE OWNER \in wanted
      BY <2>2, <3>1, <3>2 DEF Owners, AccountRow
    <3>3. CASE OWNER \notin wanted
      <4>1. PICK b \in DOMAIN accounts \ {a} : OWNER \in accounts[b].roles
        BY <2>1, <2>6, <3>3 DEF SetRoles, OwnerSurvives, Owners
      <4> QED  BY <2>2, <3>1, <4>1 DEF Owners
    <3> QED  BY <3>2, <3>3
  <2>7. ASSUME NEW a \in Account, DeleteAccount(a)
        PROVE  FALSE
    <3>1. PICK b \in DOMAIN accounts \ {a} : OWNER \in accounts[b].roles
      BY <2>1, <2>7 DEF DeleteAccount, OwnerSurvives, Owners
    <3> QED  BY <2>7, <3>1 DEF DeleteAccount, Owners, Without
  <2> QED  BY <1>1, <2>3, <2>4, <2>5, <2>6, <2>7, AccountWrites
<1>2. OnlyStaleSavesLoseTheLastOwner <=> [][Kept]_vars
  BY DEF OnlyStaleSavesLoseTheLastOwner
<1> HIDE DEF Kept
<1> QED  BY <1>1, <1>2, TypeCorrect, KeysMintedAlways, PTL DEF Spec

-----------------------------------------------------------------------------
(* Sessions *)

(***************************************************************************)
(* A session that was revoked, trimmed, purged or deleted with its account *)
(* is never stored again, whatever a request that read it earlier writes.  *)
(***************************************************************************)
THEOREM EndedSessionsTheorem == Spec => EndedSessionsStayEnded
<1> DEFINE Ended == \A s \in minted : s \notin DOMAIN sessions => s \notin DOMAIN sessions'
<1>1. ASSUME [Next]_vars
      PROVE  [Ended]_vars
  <2> SUFFICES ASSUME NEW s \in minted, s \notin DOMAIN sessions
               PROVE  s \notin DOMAIN sessions'
    OBVIOUS
  <2>1. ASSUME NEW n \in SessionId \ minted, NEW row, NEW cap, AddWithinCap(n, row, cap)
        PROVE  s \notin DOMAIN sessions'
    BY <2>1 DEF AddWithinCap, Put, Without
  <2>2. ASSUME NEW n, NEW row, sessions' = SavedSessions(n, row)
        PROVE  s \notin DOMAIN sessions'
    BY <2>2 DEF SavedSessions
  <2>3. ASSUME NEW K, sessions' = Without(sessions, K)
        PROVE  s \notin DOMAIN sessions'
    BY <2>3 DEF Without
  <2>4. ASSUME NEW a \in Account, DeleteAccount(a)
        PROVE  s \notin DOMAIN sessions'
    BY <2>4 DEF DeleteAccount, Without
  <2> QED  BY <1>1, <2>1, <2>2, <2>3, <2>4, SessionWrites
<1>2. EndedSessionsStayEnded <=> [][Ended]_vars
  BY DEF EndedSessionsStayEnded
<1> HIDE DEF Ended
<1> QED  BY <1>1, <1>2, PTL DEF Spec

-----------------------------------------------------------------------------
(* References between tables *)

\* The roles table is not this layer's to write.
LEMMA RolesFixed ==
    ASSUME [Next]_vars
    PROVE  roles' = roles
<1> USE DEF tables
<1>1. CASE UNCHANGED vars
  BY <1>1 DEF vars
<1>2. ASSUME NEW t \in Task, StartRequest(t)
      PROVE  roles' = roles
  BY <1>2 DEF StartRequest, Login, ConfirmPassword, ResolveSession, SetStatus, ChangePassword,
              RequestReset, Redeem, IssueInvite
<1>3. ASSUME NEW t \in Task, ContinueRequest(t)
      PROVE  roles' = roles
  BY <1>3 DEF ContinueRequest, RecordFailure, ClearFailures, AcceptLogin, OpenSession,
              SaveStatus, SavePassword, Save, Authorize, Touch, SignOut, EndSessions, EndResets,
              ClearResets, MintReset, MintInvite, LoadAccount, CountAccounts, AddAccount
<1>4. CASE WholeRequest \/ Tick \/ \E t \in Task : Abandon(t)
  BY <1>4 DEF WholeRequest, Logout, LogoutEverywhere, Delete, DeleteAccount, AssignRoles,
              SetRoles, PurgeSessions, PurgeGrants, Tick, Abandon
<1> QED  BY <1>1, <1>2, <1>3, <1>4 DEF Next

\* Only deletion removes an account.
LEMMA AccountsKept ==
    ASSUME [Next]_vars, \A a \in Account : ~ DeleteAccount(a)
    PROVE  DOMAIN accounts \subseteq DOMAIN accounts'
<1>1. ASSUME NEW a, NEW row, accounts' = SavedAccounts(a, row)
      PROVE  DOMAIN accounts' = DOMAIN accounts
  BY <1>1 DEF SavedAccounts
<1>2. ASSUME NEW a, NEW row, accounts' = Put(accounts, a, row)
      PROVE  DOMAIN accounts \subseteq DOMAIN accounts'
  BY <1>2 DEF Put
<1>3. ASSUME NEW a, NEW wanted, SetRoles(a, wanted)
      PROVE  DOMAIN accounts' = DOMAIN accounts
  BY <1>3 DEF SetRoles
<1> QED  BY <1>1, <1>2, <1>3, AccountWrites

(***************************************************************************)
(* No session, reset link or held role refers to a row that is not there,  *)
(* however a deletion interleaves with logins and reset requests.          *)
(***************************************************************************)
THEOREM NoOrphanRowsTheorem == Spec => []NoOrphanRows
<1>1. Init => NoOrphanRows
  BY SeedAssumption DEF Init, NoOrphanRows, AccountRow
<1>2. ASSUME TypeOK, NoOrphanRows, [Next]_vars
      PROVE  NoOrphanRows'
  <2>1. roles' = roles
    BY <1>2, RolesFixed
  <2>2. accounts \in [DOMAIN accounts -> AccountRow]
    BY <1>2 DEF TypeOK, TablesTypeOK
  <2>3. \A a \in DOMAIN accounts' : accounts'[a].roles \subseteq roles
    <3>1. ASSUME NEW a, NEW row, accounts' = SavedAccounts(a, row)
          PROVE  \A b \in DOMAIN accounts' : accounts'[b].roles \subseteq roles
      BY <1>2, <3>1 DEF SavedAccounts, NoOrphanRows
    <3>2. ASSUME NEW a, NEW row, CanAdd(row), accounts' = Put(accounts, a, row)
          PROVE  \A b \in DOMAIN accounts' : accounts'[b].roles \subseteq roles
      BY <1>2, <3>2 DEF Put, CanAdd, NoOrphanRows
    <3>3. ASSUME NEW a, NEW wanted, SetRoles(a, wanted)
          PROVE  \A b \in DOMAIN accounts' : accounts'[b].roles \subseteq roles
      BY <1>2, <2>2, <3>3 DEF SetRoles, NoOrphanRows, AccountRow
    <3>4. ASSUME NEW a, DeleteAccount(a)
          PROVE  \A b \in DOMAIN accounts' : accounts'[b].roles \subseteq roles
      BY <1>2, <3>4 DEF DeleteAccount, Without, NoOrphanRows
    <3> QED  BY <1>2, <3>1, <3>2, <3>3, <3>4, AccountWrites DEF NoOrphanRows
  <2>4. ASSUME NEW a \in Account, DeleteAccount(a)
        PROVE  /\ \A s \in DOMAIN sessions' : sessions'[s].account \in DOMAIN accounts'
               /\ \A g \in DOMAIN grants' :
                     grants'[g].purpose = "password_reset" =>
                         grants'[g].subject \in DOMAIN accounts'
    BY <1>2, <2>4 DEF DeleteAccount, Without, NoOrphanRows
  <2>5. ASSUME \A a \in Account : ~ DeleteAccount(a)
        PROVE  /\ \A s \in DOMAIN sessions' : sessions'[s].account \in DOMAIN accounts'
               /\ \A g \in DOMAIN grants' :
                     grants'[g].purpose = "password_reset" =>
                         grants'[g].subject \in DOMAIN accounts'
    <3>1. DOMAIN accounts \subseteq DOMAIN accounts'
      BY <1>2, <2>5, AccountsKept
    <3>2. \A s \in DOMAIN sessions' : sessions'[s].account \in DOMAIN accounts'
      <4>1. ASSUME NEW s, NEW row, NEW cap, AddWithinCap(s, row, cap)
            PROVE  \A x \in DOMAIN sessions' : sessions'[x].account \in DOMAIN accounts'
        BY <1>2, <3>1, <4>1 DEF AddWithinCap, Put, Without, NoOrphanRows
      <4>2. ASSUME NEW s, NEW row, sessions' = SavedSessions(s, row)
            PROVE  \A x \in DOMAIN sessions' : sessions'[x].account \in DOMAIN accounts'
        BY <1>2, <3>1, <4>2
        DEF SavedSessions, NoOrphanRows, TypeOK, TablesTypeOK, SessionRow
      <4>3. ASSUME NEW K, sessions' = Without(sessions, K)
            PROVE  \A x \in DOMAIN sessions' : sessions'[x].account \in DOMAIN accounts'
        BY <1>2, <3>1, <4>3 DEF Without, NoOrphanRows
      <4> QED  BY <1>2, <2>5, <3>1, <4>1, <4>2, <4>3, SessionWrites DEF NoOrphanRows
    <3>3. \A g \in DOMAIN grants' :
             grants'[g].purpose = "password_reset" => grants'[g].subject \in DOMAIN accounts'
      <4> DEFINE Held == \A g \in DOMAIN grants' :
             grants'[g].purpose = "password_reset" => grants'[g].subject \in DOMAIN accounts'
      <4>1. ASSUME NEW g, NEW a \in DOMAIN accounts,
                   MintGrant(g, NewGrant("password_reset", a, ResetTtl))
            PROVE  Held
        BY <1>2, <3>1, <4>1 DEF MintGrant, NewGrant, Put, NoOrphanRows
      <4>2. ASSUME NEW g, NEW e, MintGrant(g, NewGrant("invite", e, InviteTtl))
            PROVE  Held
        BY <1>2, <3>1, <4>2 DEF MintGrant, NewGrant, Put, NoOrphanRows
      <4>3. ASSUME NEW t, NEW g, NEW e, NEW p, Redeem(t, g, e, p)
            PROVE  Held
        BY <1>2, <3>1, <4>3 DEF Redeem, NoOrphanRows, TypeOK, TablesTypeOK, GrantRow
      <4>4. ASSUME NEW a, grants' = RevokedResets(a)
            PROVE  Held
        <5>1. ASSUME NEW g \in DOMAIN grants
              PROVE  /\ grants'[g].purpose = grants[g].purpose
                     /\ grants'[g].subject = grants[g].subject
          BY <1>2, <4>4 DEF RevokedResets, TypeOK, TablesTypeOK, GrantRow
        <5> QED  BY <1>2, <3>1, <4>4, <5>1 DEF RevokedResets, NoOrphanRows
      <4>5. ASSUME PurgeGrants
            PROVE  Held
        BY <1>2, <3>1, <4>5 DEF PurgeGrants, Without, NoOrphanRows
      <4>6. ASSUME grants' = grants
            PROVE  Held
        BY <1>2, <3>1, <4>6 DEF NoOrphanRows
      <4>7. \A a \in Account : ~ Delete(a)
        BY <2>5 DEF Delete
      <4> QED  BY <1>2, <4>1, <4>2, <4>3, <4>4, <4>5, <4>6, <4>7, GrantWrites
    <3> QED  BY <3>2, <3>3
  <2> QED  BY <2>1, <2>3, <2>4, <2>5 DEF NoOrphanRows
<1> QED  BY <1>1, <1>2, TypeCorrect, PTL DEF Spec

-----------------------------------------------------------------------------
(* What a step does to the requests *)

(***************************************************************************)
(* What the steps of a request save of the row they read: new is the row   *)
(* with one failure more, which locks it at the threshold, or with none;   *)
(* or with another status or password.                                     *)
(***************************************************************************)
Fits(step, row, new) ==
    \/ /\ step = "record_failure"
       /\ \E until \in 0..now + Lockout :
             /\ new = [row EXCEPT !.failed = @ + 1, !.locked = until]
             /\ IF row.failed + 1 >= Threshold THEN until > row.locked ELSE until = row.locked
    \/ step \in {"accept_login", "clear_failures"} /\ new = WithSuccess(row)
    \/ step = "set_status" /\ \E st \in Status : new = [row EXCEPT !.status = st]
    \/ step = "set_password" /\ \E p \in Password : new = WithPassword(row, p)

\* The steps that act on something read before.
Acting ==
    SaveSteps \cup {"load_account", "count_accounts", "authorize", "touch", "add_account",
                    "end_resets"}

\* A request that is about to act on a grant, to save a row or to touch a session
\* has just read it, or was about to before the step.
TaskMove(u) ==
    \/ task'[u] = task[u]
    \/ task'[u].at \notin Acting
    \/ \E g \in GrantId, e \in Purpose, p \in Password :
          Redeem(u, g, e, p) /\ task'[u] = Redeemed(g, p)
    \/ \E a \in DOMAIN accounts :
          /\ task'[u].at \in SaveSteps
          /\ task'[u].acct = a
          /\ task'[u].row.email = accounts[a].email
          /\ Fits(task'[u].at, accounts[a], task'[u].row)
          /\ UNCHANGED <<accounts, minted, now>>
    \/ /\ task'[u].at = "add_account"
       /\ \E e \in Email, p \in Password :
             task'[u].row = NewAccount(e, p, DOMAIN accounts = {})
       /\ UNCHANGED <<accounts, now>>
    \/ task'[u].at = "end_resets" /\ EndSessions(u)
    \/ \E x \in DOMAIN sessions :
          /\ task'[u] = [at |-> "authorize", session |-> x, row |-> sessions[x]]
          /\ UNCHANGED <<sessions, minted>>
    \/ /\ task[u].at = "authorize"
       /\ task'[u] = [task[u] EXCEPT !.at = "touch", !.row = Touched(task[u].row)]
       /\ UNCHANGED <<sessions, minted>>

\* The address of a row is not what a transition changes, and each fits its step.
LEMMA TransitionsFit ==
    ASSUME NEW row \in AccountRow, now \in Nat
    PROVE  /\ WithFailure(row).email = row.email
           /\ MayAuthenticate(row) => Fits("record_failure", row, WithFailure(row))
           /\ WithSuccess(row).email = row.email
           /\ Fits("accept_login", row, WithSuccess(row))
           /\ Fits("clear_failures", row, WithSuccess(row))
           /\ \A p \in Password : /\ WithPassword(row, p).email = row.email
                                 /\ Fits("set_password", row, WithPassword(row, p))
           /\ \A st \in Status : /\ [row EXCEPT !.status = st].email = row.email
                                /\ Fits("set_status", row, [row EXCEPT !.status = st])
<1>1. /\ WithFailure(row).email = row.email
      /\ WithSuccess(row).email = row.email
      /\ \A p \in Password : WithPassword(row, p).email = row.email
      /\ \A st \in Status : [row EXCEPT !.status = st].email = row.email
  BY DEF AccountRow, WithFailure, WithSuccess, WithPassword
<1>2. ASSUME MayAuthenticate(row)
      PROVE  Fits("record_failure", row, WithFailure(row))
  <2> DEFINE until == IF row.failed + 1 >= Threshold THEN now + Lockout ELSE row.locked
  <2>1. row.failed \in Nat /\ row.locked \in Nat /\ row.locked <= now
    BY <1>2 DEF MayAuthenticate, IsLocked, AccountRow
  <2>2. until \in 0..now + Lockout
    BY <2>1, TimeAssumption
  <2>3. IF row.failed + 1 >= Threshold THEN until > row.locked ELSE until = row.locked
    BY <2>1, TimeAssumption
  <2>4. WithFailure(row) = [row EXCEPT !.failed = @ + 1, !.locked = until]
    BY DEF WithFailure
  <2> HIDE DEF until
  <2> QED
    BY <2>2, <2>3, <2>4 DEF Fits
<1>3. /\ Fits("accept_login", row, WithSuccess(row))
      /\ Fits("clear_failures", row, WithSuccess(row))
      /\ \A p \in Password : Fits("set_password", row, WithPassword(row, p))
      /\ \A st \in Status : Fits("set_status", row, [row EXCEPT !.status = st])
  BY DEF Fits
<1> QED
  BY <1>1, <1>2, <1>3

\* Every step moves every request in one of those ways.
LEMMA TaskMoves ==
    ASSUME TypeOK, [Next]_vars, NEW u \in Task
    PROVE  TaskMove(u)
<1> USE DEF TypeOK, TablesTypeOK
<1>1. CASE task' = task
  BY <1>1 DEF TaskMove
<1>2. ASSUME NEW t \in Task, NEW r, task' = [task EXCEPT ![t] = r],
             r.at \notin Acting
      PROVE  TaskMove(u)
  BY <1>2 DEF TaskMove
<1>3. ASSUME NEW t \in Task, task' = [task EXCEPT ![t] = Idle]
      PROVE  TaskMove(u)
  BY <1>2, <1>3 DEF Idle, SaveSteps, Acting
<1>4. ASSUME NEW t \in Task, NEW op, NEW step \in SaveSteps, NEW a \in DOMAIN accounts, NEW row,
             NEW keep, Start(t, op, Saving(step, a, row, keep)), row.email = accounts[a].email,
             Fits(step, accounts[a], row), UNCHANGED tables
      PROVE  TaskMove(u)
  BY <1>4 DEF TaskMove, Start, Saving, tables
<1>5. ASSUME NEW t \in Task, StartRequest(t)
      PROVE  TaskMove(u)
  <2>1. ASSUME NEW e \in Email, NEW p \in Password, Login(t, e, p)
        PROVE  TaskMove(u)
    <3>1. PICK a \in DOMAIN accounts :
            /\ MayAuthenticate(accounts[a])
            /\ \/ Start(t, "login", Saving("accept_login", a, WithSuccess(accounts[a]), None))
               \/ Start(t, "login", Saving("record_failure", a, WithFailure(accounts[a]), None))
      BY <2>1 DEF Login, Holders
    <3>2. UNCHANGED tables
      BY <2>1 DEF Login
    <3>3. accounts[a] \in AccountRow
      BY <3>1
    <3> QED  BY <1>4, <3>1, <3>2, <3>3, TransitionsFit DEF SaveSteps
  <2>2. ASSUME NEW a \in Account, NEW p \in Password, ConfirmPassword(t, a, p)
        PROVE  TaskMove(u)
    <3>1. /\ a \in DOMAIN accounts
          /\ MayAuthenticate(accounts[a])
          /\ \/ Start(t, "confirm", Saving("clear_failures", a, WithSuccess(accounts[a]), None))
             \/ Start(t, "confirm", Saving("record_failure", a, WithFailure(accounts[a]), None))
          /\ UNCHANGED tables
      BY <2>2 DEF ConfirmPassword
    <3>2. accounts[a] \in AccountRow
      BY <3>1
    <3> QED  BY <1>4, <3>1, <3>2, TransitionsFit DEF SaveSteps
  <2>3. ASSUME NEW s \in SessionId, ResolveSession(t, s)
        PROVE  TaskMove(u)
    BY <2>3 DEF ResolveSession, Start, TaskMove, tables
  <2>4. ASSUME NEW a \in Account, NEW st \in Status, SetStatus(t, a, st)
        PROVE  TaskMove(u)
    <3>1. accounts[a] \in AccountRow
      BY <2>4 DEF SetStatus
    <3> QED  BY <1>4, <2>4, <3>1, TransitionsFit DEF SetStatus, SaveSteps
  <2>5. ASSUME NEW s \in SessionId, NEW p \in Password, ChangePassword(t, s, p)
        PROVE  TaskMove(u)
    <3>1. accounts[sessions[s].account] \in AccountRow
      BY <2>5 DEF ChangePassword
    <3> QED  BY <1>4, <2>5, <3>1, TransitionsFit DEF ChangePassword, SaveSteps
  <2>6. ASSUME NEW a \in Account, RequestReset(t, a)
        PROVE  TaskMove(u)
    BY <1>2, <2>6 DEF RequestReset, Start, After, SaveSteps, Acting
  <2>7. ASSUME NEW g \in GrantId, NEW e \in Purpose, NEW p \in Password, Redeem(t, g, e, p)
        PROVE  TaskMove(u)
    <3>1. CASE grants[g].purpose = e
      BY <2>7, <3>1 DEF Redeem, Start, TaskMove
    <3>2. CASE grants[g].purpose # e
      BY <1>3, <2>7, <3>2 DEF Redeem, Start
    <3> QED  BY <3>1, <3>2
  <2>8. ASSUME NEW e \in Email, IssueInvite(t, e)
        PROVE  TaskMove(u)
    BY <1>2, <2>8 DEF IssueInvite, Start, SaveSteps, Acting
  <2> QED  BY <1>5, <2>1, <2>2, <2>3, <2>4, <2>5, <2>6, <2>7, <2>8 DEF StartRequest
<1>6. ASSUME NEW t \in Task, NEW step \in SaveSteps, NEW next,
             \/ next = Idle
             \/ \E x \in {"open_session", "sign_out", "end_sessions"} : next = After(x, task[t]),
             Save(t, step, next)
      PROVE  TaskMove(u)
  BY <1>2, <1>3, <1>6 DEF Save, Continue, After, SaveSteps, Acting
<1>7. ASSUME NEW t \in Task, ContinueRequest(t)
      PROVE  TaskMove(u)
  <2>1. CASE RecordFailure(t) \/ ClearFailures(t) \/ AcceptLogin(t) \/ SaveStatus(t) \/ SavePassword(t)
    BY <1>6, <2>1 DEF RecordFailure, ClearFailures, AcceptLogin, SaveStatus, SavePassword,
                      SaveSteps
  <2>2. CASE OpenSession(t) \/ Touch(t) \/ SignOut(t) \/ EndResets(t) \/ MintReset(t)
             \/ AddAccount(t) \/ MintInvite(t)
    BY <1>3, <2>2 DEF OpenSession, Touch, SignOut, EndResets, MintReset, AddAccount, MintInvite,
                      Continue
  <2>3. CASE Authorize(t)
    BY <1>3, <2>3 DEF Authorize, Continue, TaskMove, tables
  <2>4. CASE EndSessions(t) \/ ClearResets(t)
    <3>1. task[t] \in [at: AccountSteps, acct: Account, since: Nat, proof: Password,
                       keep: SessionId \cup {None}]
      BY <2>4, TaskShapes DEF EndSessions, ClearResets, Continue, AccountSteps
    <3>2. Then("end_resets", task[t]).at = "end_resets" /\ Then("mint_reset", task[t]).at = "mint_reset"
      BY <3>1 DEF Then
    <3>3. CASE ClearResets(t)
      BY <1>2, <3>2, <3>3 DEF ClearResets, Continue, SaveSteps, Acting
    <3>4. CASE EndSessions(t)
      BY <3>2, <3>4 DEF EndSessions, Continue, TaskMove
    <3> QED  BY <2>4, <3>3, <3>4
  <2>5. CASE LoadAccount(t)
    <3> DEFINE r == task[t]
    <3>1. CASE r.acct \notin DOMAIN accounts
      BY <1>3, <2>5, <3>1 DEF LoadAccount, Continue
    <3>2. CASE r.acct \in DOMAIN accounts
      <4>1. accounts[r.acct] \in AccountRow
        BY <3>2
      <4>2. /\ WithPassword(accounts[r.acct], r.password).email = accounts[r.acct].email
            /\ Fits("set_password", accounts[r.acct],
                    WithPassword(accounts[r.acct], r.password))
        BY <2>5, <4>1, TaskShapes, TransitionsFit DEF LoadAccount, Continue
      <4> QED  BY <2>5, <3>2, <4>2 DEF LoadAccount, Continue, Saving, TaskMove, SaveSteps, tables
    <3> QED  BY <3>1, <3>2
  <2>6. CASE CountAccounts(t)
    <3> DEFINE row == NewAccount(task[t].email, task[t].password, DOMAIN accounts = {})
    <3>1. /\ task' = [task EXCEPT ![t] = [at |-> "add_account", row |-> row]]
          /\ UNCHANGED <<accounts, now>>
      BY <2>6 DEF CountAccounts, Continue, tables
    <3>2. task[t].email \in Email /\ task[t].password \in Password
      BY <2>6, TaskShapes DEF CountAccounts, Continue
    <3> HIDE DEF row
    <3>3. CASE u = t
      BY <3>1, <3>2, <3>3 DEF TaskMove, row
    <3>4. CASE u # t
      BY <3>1, <3>4 DEF TaskMove
    <3> QED  BY <3>3, <3>4
  <2> QED  BY <1>7, <2>1, <2>2, <2>3, <2>4, <2>5, <2>6 DEF ContinueRequest
<1>8. CASE WholeRequest \/ Tick \/ UNCHANGED vars
  BY <1>1, <1>8 DEF WholeRequest, Logout, LogoutEverywhere, Delete, AssignRoles, PurgeSessions,
                    PurgeGrants, Tick, vars
<1>9. ASSUME NEW t \in Task, Abandon(t)
      PROVE  TaskMove(u)
  BY <1>3, <1>9 DEF Abandon
<1> QED  BY <1>5, <1>7, <1>8, <1>9 DEF Next

-----------------------------------------------------------------------------
(* Invites and reset links *)

\* Only a tick moves the clock.
LEMMA ClockSteps ==
    ASSUME [Next]_vars
    PROVE  now' = now \/ Tick
<1> USE DEF tables
<1>1. CASE UNCHANGED vars
  BY <1>1 DEF vars
<1>2. ASSUME NEW t \in Task, StartRequest(t)
      PROVE  now' = now
  BY <1>2 DEF StartRequest, Login, ConfirmPassword, ResolveSession, SetStatus, ChangePassword,
              RequestReset, Redeem, IssueInvite
<1>3. ASSUME NEW t \in Task, ContinueRequest(t)
      PROVE  now' = now
  BY <1>3 DEF ContinueRequest, RecordFailure, ClearFailures, AcceptLogin, OpenSession,
              SaveStatus, SavePassword, Save, Authorize, Touch, SignOut, EndSessions, EndResets,
              ClearResets, MintReset, MintInvite, LoadAccount, CountAccounts, AddAccount
<1>4. ASSUME WholeRequest \/ \E t \in Task : Abandon(t)
      PROVE  now' = now
  BY <1>4 DEF WholeRequest, Logout, LogoutEverywhere, Delete, DeleteAccount, AssignRoles,
              SetRoles, PurgeSessions, PurgeGrants, Abandon
<1> QED  BY <1>1, <1>2, <1>3, <1>4 DEF Next

\* The clock does not go back.
LEMMA ClockAdvances ==
    ASSUME TypeOK, [Next]_vars
    PROVE  now \in Nat /\ now' \in Nat /\ now <= now'
<1>1. now \in Nat /\ now' \in Nat
  BY NextTyped DEF TypeOK, TablesTypeOK
<1> QED  BY <1>1, ClockSteps DEF Tick

\* A grant that was handed out changes only by being redeemed, revoked or removed.
LEMMA GrantsOnlyEnd ==
    ASSUME TypeOK, [Next]_vars, NEW g \in minted, g \in DOMAIN grants'
    PROVE  /\ g \in DOMAIN grants
           /\ grants'[g].expires = grants[g].expires
           /\ grants[g].redeemed => grants'[g].redeemed
           /\ grants[g].revoked => grants'[g].revoked
<1> DEFINE Ends == /\ g \in DOMAIN grants
                   /\ grants'[g].expires = grants[g].expires
                   /\ grants[g].redeemed => grants'[g].redeemed
                   /\ grants[g].revoked => grants'[g].revoked
<1>1. ASSUME NEW x \in GrantId \ minted, NEW row, MintGrant(x, row)
      PROVE  Ends
  BY <1>1 DEF MintGrant, Put
<1>2. ASSUME NEW t, NEW x, NEW e, NEW p, Redeem(t, x, e, p)
      PROVE  Ends
  <2>1. g \in DOMAIN grants /\ grants[g] \in GrantRow
    BY <1>2 DEF Redeem, TypeOK, TablesTypeOK
  <2> QED  BY <1>2, <2>1 DEF Redeem, GrantRow
<1>3. ASSUME NEW a, grants' = RevokedResets(a)
      PROVE  Ends
  <2>1. g \in DOMAIN grants /\ grants[g] \in GrantRow
    BY <1>3 DEF RevokedResets, TypeOK, TablesTypeOK
  <2> QED  BY <1>3, <2>1 DEF RevokedResets, GrantRow
<1>4. ASSUME PurgeGrants \/ \E a \in Account : Delete(a)
      PROVE  Ends
  BY <1>4 DEF PurgeGrants, Delete, DeleteAccount, Without
<1> QED  BY <1>1, <1>2, <1>3, <1>4, GrantWrites

(***************************************************************************)
(* A spent link stays spent, for any number of requests and grants: no     *)
(* step makes a grant redeemable that was handed out and is not.           *)
(***************************************************************************)
THEOREM SpentGrantsTheorem == Spec => SpentGrantsStaySpent
<1> DEFINE Spent == \A g \in minted : ~ Redeemable(g) => ~ Redeemable(g)'
<1>1. ASSUME TypeOK, [Next]_vars
      PROVE  [Spent]_vars
  <2> SUFFICES ASSUME NEW g \in minted, Redeemable(g)'
               PROVE  Redeemable(g)
    OBVIOUS
  <2>1. /\ g \in DOMAIN grants' /\ ~ grants'[g].redeemed /\ ~ grants'[g].revoked
        /\ now' < grants'[g].expires
    BY DEF Redeemable
  <2>2. /\ g \in DOMAIN grants
        /\ grants'[g].expires = grants[g].expires
        /\ ~ grants[g].redeemed /\ ~ grants[g].revoked
    BY <1>1, <2>1, GrantsOnlyEnd
  <2>3. grants[g].expires \in Nat
    BY <1>1, <2>2 DEF TypeOK, TablesTypeOK, GrantRow
  <2>4. now < grants[g].expires
    BY <1>1, <2>1, <2>2, <2>3, ClockAdvances
  <2> QED  BY <2>2, <2>4 DEF Redeemable
<1>2. SpentGrantsStaySpent <=> [][Spent]_vars
  BY DEF SpentGrantsStaySpent
<1> HIDE DEF Spent
<1> QED  BY <1>1, <1>2, TypeCorrect, PTL DEF Spec

\* A grant that a request acts on was handed out, is marked if it is still there,
\* and is no other request's.
OneActor ==
    \A t \in Task, g \in GrantId :
        Carries(t, g) =>
            /\ g \in minted
            /\ g \in DOMAIN grants => grants[g].redeemed
            /\ \A u \in Task : Carries(u, g) => u = t

\* The row a request will save is of the account it names, whose address it keeps.
RowsKeepAddresses ==
    \A t \in Task :
        task[t].at \in SaveSteps =>
            /\ task[t].acct \in minted
            /\ task[t].acct \in DOMAIN accounts =>
                  accounts[task[t].acct].email = task[t].row.email

OneAccountPerAddress ==
    \A a, b \in DOMAIN accounts : accounts[a].email = accounts[b].email => a = b

\* A request begins to act on a grant only by redeeming it.
LEMMA NewActors ==
    ASSUME TypeOK, [Next]_vars, NEW t \in Task, NEW g \in GrantId, Carries(t, g)'
    PROVE  \/ Carries(t, g)
           \/ \E e \in Purpose, p \in Password : Redeem(t, g, e, p)
<1>1. TaskMove(t)
  BY TaskMoves
<1>2. CASE task'[t] = task[t]
  BY <1>2 DEF Carries
<1>3. ASSUME NEW x \in GrantId, NEW e \in Purpose, NEW p \in Password, Redeem(t, x, e, p),
             task'[t] = Redeemed(x, p)
      PROVE  Redeem(t, g, e, p)
  BY <1>3 DEF Carries, Redeemed
<1>4. task'[t].at \in {"load_account", "count_accounts"}
  BY DEF Carries
<1>5. ASSUME task[t].at = "authorize",
             task'[t] = [task[t] EXCEPT !.at = "touch", !.row = Touched(task[t].row)]
      PROVE  FALSE
  BY <1>4, <1>5, TaskShapes DEF TypeOK
<1>6. ASSUME NEW x, task'[t] = [at |-> "authorize", session |-> x, row |-> sessions[x]]
      PROVE  FALSE
  BY <1>4, <1>6
<1>7. task'[t].at \notin SaveSteps
  BY <1>4 DEF SaveSteps
<1> QED  BY <1>1, <1>2, <1>3, <1>4, <1>5, <1>6, <1>7 DEF TaskMove, Acting

\* Redemption is exclusive in every step.
LEMMA OneActorStep ==
    ASSUME TypeOK, KeysMinted, OneActor, [Next]_vars
    PROVE  OneActor'
<1> SUFFICES ASSUME NEW t \in Task, NEW g \in GrantId, Carries(t, g)'
             PROVE  /\ g \in minted'
                    /\ g \in DOMAIN grants' => grants'[g].redeemed
                    /\ \A u \in Task : Carries(u, g)' => u = t
  BY DEF OneActor
<1>1. minted \subseteq minted'
  BY MintedGrows
<1>2. CASE Carries(t, g) /\ \A u \in Task : Carries(u, g)' => Carries(u, g)
  <2>1. /\ g \in minted
        /\ g \in DOMAIN grants => grants[g].redeemed
        /\ \A u \in Task : Carries(u, g) => u = t
    BY <1>2 DEF OneActor
  <2> QED  BY <1>1, <1>2, <2>1, GrantsOnlyEnd
<1>3. ASSUME NEW u \in Task, NEW e \in Purpose, NEW p \in Password, Redeem(u, g, e, p)
      PROVE  /\ g \in minted'
             /\ g \in DOMAIN grants' => grants'[g].redeemed
             /\ \A v \in Task : Carries(v, g)' => v = u
  <2>1. g \in DOMAIN grants /\ ~ grants[g].redeemed
    BY <1>3 DEF Redeem, Redeemable
  <2>2. g \in minted
    BY <2>1 DEF KeysMinted
  <2>3. grants'[g].redeemed
    BY <1>3, <2>1 DEF Redeem, TypeOK, TablesTypeOK, GrantRow
  <2>4. ASSUME NEW v \in Task, v # u, Carries(v, g)'
        PROVE  FALSE
    <3>1. task'[v] = task[v]
      BY <1>3, <2>4 DEF Redeem, Start, TypeOK
    <3>2. Carries(v, g)
      BY <2>4, <3>1 DEF Carries
    <3> QED  BY <2>1, <3>2 DEF OneActor
  <2> QED  BY <1>1, <2>2, <2>3, <2>4
<1> QED  BY <1>2, <1>3, NewActors

\* No row that is saved moves an account to another address.
LEMMA AddressesStep ==
    ASSUME TypeOK, KeysMinted, RowsKeepAddresses, OneAccountPerAddress, [Next]_vars
    PROVE  RowsKeepAddresses' /\ OneAccountPerAddress'
<1>1. accounts \in [DOMAIN accounts -> AccountRow] /\ minted \subseteq minted'
  BY MintedGrows DEF TypeOK, TablesTypeOK
<1> DEFINE SameAddress(a) == a \in DOMAIN accounts /\ accounts'[a].email = accounts[a].email
<1>2. \A a \in minted : a \in DOMAIN accounts' => SameAddress(a)
  <2>1. ASSUME NEW t \in Task, task[t].at \in SaveSteps,
               accounts' = SavedAccounts(task[t].acct, task[t].row)
        PROVE  \A a \in minted : a \in DOMAIN accounts' => SameAddress(a)
    BY <1>1, <2>1 DEF SavedAccounts, RowsKeepAddresses
  <2>2. ASSUME NEW x \in Account \ minted, NEW row, accounts' = Put(accounts, x, row)
        PROVE  \A a \in minted : a \in DOMAIN accounts' => SameAddress(a)
    BY <2>2 DEF Put
  <2>3. ASSUME NEW x \in Account, NEW wanted, SetRoles(x, wanted)
        PROVE  \A a \in minted : a \in DOMAIN accounts' => SameAddress(a)
    BY <1>1, <2>3 DEF SetRoles, AccountRow
  <2>4. ASSUME NEW x \in Account, DeleteAccount(x)
        PROVE  \A a \in minted : a \in DOMAIN accounts' => SameAddress(a)
    BY <2>4 DEF DeleteAccount, Without
  <2> QED  BY <2>1, <2>2, <2>3, <2>4, AccountWrites
<1>3. RowsKeepAddresses'
  <2> SUFFICES ASSUME NEW t \in Task, task'[t].at \in SaveSteps
               PROVE  /\ task'[t].acct \in minted'
                      /\ task'[t].acct \in DOMAIN accounts' =>
                            accounts'[task'[t].acct].email = task'[t].row.email
    BY DEF RowsKeepAddresses
  <2>1. TaskMove(t)
    BY TaskMoves
  <2>2. CASE task'[t] = task[t]
    BY <1>1, <1>2, <2>2 DEF RowsKeepAddresses
  <2>3. ASSUME NEW a \in DOMAIN accounts, task'[t].acct = a,
               task'[t].row.email = accounts[a].email, UNCHANGED <<accounts, minted>>
        PROVE  /\ task'[t].acct \in minted'
               /\ task'[t].acct \in DOMAIN accounts' =>
                     accounts'[task'[t].acct].email = task'[t].row.email
    BY <2>3 DEF KeysMinted
  <2>4. ASSUME NEW g, NEW p, task'[t] = Redeemed(g, p)
        PROVE  FALSE
    BY <2>4 DEF Redeemed, SaveSteps
  <2>5. ASSUME task[t].at = "authorize",
               task'[t] = [task[t] EXCEPT !.at = "touch", !.row = Touched(task[t].row)]
        PROVE  FALSE
    BY <2>5, TaskShapes DEF SaveSteps, TypeOK
  <2>6. ASSUME NEW x, task'[t] = [at |-> "authorize", session |-> x, row |-> sessions[x]]
        PROVE  FALSE
    BY <2>6 DEF SaveSteps
  <2> QED  BY <2>1, <2>2, <2>3, <2>4, <2>5, <2>6 DEF TaskMove, Acting, SaveSteps
<1>4. OneAccountPerAddress'
  <2>1. ASSUME \A a \in DOMAIN accounts' : a \in minted
        PROVE  OneAccountPerAddress'
    BY <1>2, <2>1 DEF OneAccountPerAddress
  <2>2. ASSUME NEW x \in Account \ minted, NEW row, CanAdd(row), accounts' = Put(accounts, x, row)
        PROVE  OneAccountPerAddress'
    BY <1>1, <2>2 DEF CanAdd, Holders, Put, OneAccountPerAddress
  <2>3. ASSUME \/ accounts' = accounts
               \/ \E a, row : accounts' = SavedAccounts(a, row)
               \/ \E a \in Account, wanted \in SUBSET Role : SetRoles(a, wanted)
               \/ \E a \in Account : DeleteAccount(a)
        PROVE  DOMAIN accounts' \subseteq DOMAIN accounts
    BY <2>3 DEF SavedAccounts, SetRoles, DeleteAccount, Without
  <2> QED  BY <2>1, <2>2, <2>3, AccountWrites DEF KeysMinted
<1> QED  BY <1>3, <1>4

(***************************************************************************)
(* No two requests ever act on one invite or reset link, and an address    *)
(* has one account, however redemptions interleave with one another and    *)
(* with revocations, deletions and sweeps.                                 *)
(***************************************************************************)
THEOREM GrantActedOnOnceTheorem == Spec => []GrantActedOnOnce
<1> DEFINE Inv == OneActor /\ RowsKeepAddresses /\ OneAccountPerAddress
<1>1. Init => Inv
  BY SeedAssumption
  DEF Init, Idle, OneActor, RowsKeepAddresses, OneAccountPerAddress, Carries, SaveSteps
<1>2. TypeOK /\ KeysMinted /\ Inv /\ [Next]_vars => Inv'
  BY OneActorStep, AddressesStep
<1>3. Inv => GrantActedOnOnce
  BY DEF OneActor, OneAccountPerAddress, GrantActedOnOnce
<1> HIDE DEF Inv
<1> QED  BY <1>1, <1>2, <1>3, TypeCorrect, KeysMintedAlways, PTL DEF Spec

-----------------------------------------------------------------------------
(* The limits of a session *)

\* A session's row keeps what its login fixed.
Limited(row) ==
    /\ row.expires <= row.absolute
    /\ \E p \in Prefs : row.idle = p.idle /\ row.absolute = row.created + p.absolute

\* A touch in flight is of a session that was opened, and would move no ceiling.
TouchesFit ==
    \A t \in Task :
        task[t].at \in {"authorize", "touch"} =>
            /\ task[t].session \in minted
            /\ task[t].row.expires <= task[t].row.absolute
            /\ task[t].session \in DOMAIN sessions =>
                  sessions[task[t].session].absolute = task[t].row.absolute

\* The table is finite, and each account's part of it within a cap.
WithinCap ==
    /\ IsFiniteSet(DOMAIN sessions)
    /\ \A a \in Account :
          SessionsOf(a) = {} \/ \E p \in Prefs : Cardinality(SessionsOf(a)) <= p.cap

RowsLimited == \A s \in DOMAIN sessions : Limited(sessions[s])

\* An account keeps its cap when its sessions only become fewer.
LEMMA FewerSessions ==
    ASSUME IsFiniteSet(DOMAIN sessions), NEW a \in Account, NEW S, S \subseteq SessionsOf(a),
           SessionsOf(a) = {} \/ \E p \in Prefs : Cardinality(SessionsOf(a)) <= p.cap
    PROVE  S = {} \/ \E p \in Prefs : Cardinality(S) <= p.cap
<1>1. IsFiniteSet(SessionsOf(a))
  BY FS_Subset DEF SessionsOf
<1>2. IsFiniteSet(S) /\ Cardinality(S) <= Cardinality(SessionsOf(a))
  BY <1>1, FS_Subset
<1>3. Cardinality(S) \in Nat /\ Cardinality(SessionsOf(a)) \in Nat
  BY <1>1, <1>2, FS_CardinalityType
<1>4. \A p \in Prefs : p.cap \in Nat
  BY PrefsAssumption
<1> QED  BY <1>2, <1>3, <1>4

\* No step lets an account past its cap.
LEMMA WithinCapStep ==
    ASSUME TypeOK, WithinCap, [Next]_vars
    PROVE  WithinCap'
<1>0. sessions \in [DOMAIN sessions -> SessionRow]
  BY DEF TypeOK, TablesTypeOK
<1>1. ASSUME DOMAIN sessions' \subseteq DOMAIN sessions,
             \A s \in DOMAIN sessions' : sessions'[s].account = sessions[s].account
      PROVE  WithinCap'
  <2>1. IsFiniteSet(DOMAIN sessions')
    BY <1>1, FS_Subset DEF WithinCap
  <2>2. ASSUME NEW a \in Account
        PROVE  SessionsOf(a)' = {} \/ \E p \in Prefs : Cardinality(SessionsOf(a)') <= p.cap
    <3>1. SessionsOf(a)' \subseteq SessionsOf(a)
      BY <1>1 DEF SessionsOf
    <3> QED  BY <3>1, FewerSessions DEF WithinCap
  <2> QED  BY <2>1, <2>2 DEF WithinCap
<1>2. ASSUME NEW n \in SessionId, NEW row, NEW p \in Prefs, AddWithinCap(n, row, p.cap)
      PROVE  WithinCap'
  <2> DEFINE table == Put(sessions, n, row)
             mine  == SessionsOf(row.account) \cup {n}
  <2>1. PICK kept \in SUBSET mine : Cardinality(kept) <= p.cap /\ sessions' = Without(table, mine \ kept)
    BY <1>2 DEF AddWithinCap, Newest
  <2>2. /\ DOMAIN sessions' \subseteq DOMAIN sessions \cup {n}
        /\ \A s \in DOMAIN sessions' : s = n \/ sessions'[s] = sessions[s]
        /\ n \in DOMAIN sessions' => sessions'[n] = row
    BY <2>1 DEF Put, Without
  <2>3. IsFiniteSet(DOMAIN sessions')
    BY <2>2, FS_AddElement, FS_Subset DEF WithinCap
  <2>4. SessionsOf(row.account)' = kept
    BY <2>1 DEF Put, Without, SessionsOf
  <2>5. \A a \in Account : a # row.account => SessionsOf(a)' \subseteq SessionsOf(a)
    BY <2>2 DEF SessionsOf
  <2>6. ASSUME NEW a \in Account
        PROVE  SessionsOf(a)' = {} \/ \E q \in Prefs : Cardinality(SessionsOf(a)') <= q.cap
    BY <2>1, <2>4, <2>5, FewerSessions DEF WithinCap
  <2> QED  BY <2>3, <2>6 DEF WithinCap
<1>3. ASSUME NEW s, NEW row, sessions' = SavedSessions(s, row)
      PROVE  WithinCap'
  <2>1. /\ DOMAIN sessions' = DOMAIN sessions
        /\ \A x \in DOMAIN sessions : sessions'[x].account = sessions[x].account
    BY <1>0, <1>3 DEF SavedSessions, SessionRow
  <2> QED  BY <1>1, <2>1
<1>4. ASSUME NEW K, sessions' = Without(sessions, K)
      PROVE  WithinCap'
  BY <1>1, <1>4 DEF Without
<1>5. CASE sessions' = sessions
  BY <1>1, <1>5
<1> QED  BY <1>2, <1>3, <1>4, <1>5, SessionWrites DEF DeleteAccount

\* A row written before a session was minted, or a touch, moves no ceiling.
LEMMA CeilingsKept ==
    ASSUME TypeOK, TouchesFit, [Next]_vars, NEW s \in minted, s \in DOMAIN sessions'
    PROVE  /\ s \in DOMAIN sessions
           /\ sessions'[s].absolute = sessions[s].absolute
           /\ sessions'[s].created = sessions[s].created
           /\ sessions'[s].idle = sessions[s].idle
<1> DEFINE Kept == /\ s \in DOMAIN sessions
                   /\ sessions'[s].absolute = sessions[s].absolute
                   /\ sessions'[s].created = sessions[s].created
                   /\ sessions'[s].idle = sessions[s].idle
<1>1. ASSUME NEW n \in SessionId \ minted, NEW row, NEW cap, AddWithinCap(n, row, cap)
      PROVE  Kept
  BY <1>1 DEF AddWithinCap, Put, Without
<1>2. ASSUME NEW t \in Task, task[t].at = "touch",
             sessions' = SavedSessions(task[t].session, task[t].row)
      PROVE  Kept
  <2>1. s \in DOMAIN sessions /\ sessions[s] \in SessionRow
    BY <1>2 DEF SavedSessions, TypeOK, TablesTypeOK
  <2>2. task[t].session \in DOMAIN sessions =>
            sessions[task[t].session].absolute = task[t].row.absolute
    BY <1>2 DEF TouchesFit
  <2> QED  BY <1>2, <2>1, <2>2 DEF SavedSessions, SessionRow
<1>3. ASSUME NEW K, sessions' = Without(sessions, K)
      PROVE  Kept
  BY <1>3 DEF Without
<1> QED  BY <1>1, <1>2, <1>3, SessionWrites DEF DeleteAccount

\* No step moves the ceiling of a session or lets a deadline past it.
LEMMA RowsLimitedStep ==
    ASSUME TypeOK, KeysMinted, TouchesFit, RowsLimited, [Next]_vars
    PROVE  TouchesFit' /\ RowsLimited'
<1>1. RowsLimited'
  <2> SUFFICES ASSUME NEW s \in DOMAIN sessions'
               PROVE  Limited(sessions'[s])
    BY DEF RowsLimited
  <2>1. ASSUME NEW t \in Task, NEW n \in SessionId \ minted, NEW p \in Prefs,
               task[t].at = "open_session", AddWithinCap(n, NewSession(task[t], p), p.cap)
        PROVE  Limited(sessions'[s])
    <3>1. s # n => s \in DOMAIN sessions /\ sessions'[s] = sessions[s]
      BY <2>1 DEF AddWithinCap, Put, Without
    <3>2. s = n => sessions'[s] = NewSession(task[t], p)
      BY <2>1 DEF AddWithinCap, Put, Without
    <3>3. task[t].since \in Nat
      BY <2>1, TaskShapes DEF TypeOK, AccountSteps
    <3>4. p.idle \in Nat /\ p.absolute \in Nat /\ p.idle <= p.absolute
      BY PrefsAssumption
    <3>5. Limited(NewSession(task[t], p))
      BY <3>3, <3>4 DEF Limited, NewSession
    <3> QED  BY <3>1, <3>2, <3>5 DEF RowsLimited
  <2>2. ASSUME NEW t \in Task, task[t].at = "touch",
               sessions' = SavedSessions(task[t].session, task[t].row)
        PROVE  Limited(sessions'[s])
    <3>1. s \in DOMAIN sessions /\ sessions[s] \in SessionRow /\ Limited(sessions[s])
      BY <2>2 DEF SavedSessions, TypeOK, TablesTypeOK, RowsLimited
    <3>2. /\ task[t].row.expires <= task[t].row.absolute
          /\ s = task[t].session => sessions[s].absolute = task[t].row.absolute
      BY <2>2, <3>1 DEF TouchesFit
    <3>3. CASE s = task[t].session
      BY <2>2, <3>1, <3>2, <3>3 DEF SavedSessions, SessionRow, Limited
    <3>4. CASE s # task[t].session
      BY <2>2, <3>1, <3>4 DEF SavedSessions, SessionRow
    <3> QED  BY <3>3, <3>4
  <2>3. ASSUME NEW K, sessions' = Without(sessions, K)
        PROVE  Limited(sessions'[s])
    BY <2>3 DEF Without, RowsLimited
  <2> QED  BY <2>1, <2>2, <2>3, SessionWrites DEF DeleteAccount, RowsLimited
<1>2. TouchesFit'
  <2> SUFFICES ASSUME NEW t \in Task, task'[t].at \in {"authorize", "touch"}
               PROVE  /\ task'[t].session \in minted'
                      /\ task'[t].row.expires <= task'[t].row.absolute
                      /\ task'[t].session \in DOMAIN sessions' =>
                            sessions'[task'[t].session].absolute = task'[t].row.absolute
    BY DEF TouchesFit
  <2>1. minted \subseteq minted' /\ TaskMove(t)
    BY MintedGrows, TaskMoves
  <2>2. CASE task'[t] = task[t]
    BY <2>1, <2>2, CeilingsKept DEF TouchesFit
  <2>3. ASSUME NEW g, NEW p, task'[t] = Redeemed(g, p)
        PROVE  FALSE
    BY <2>3 DEF Redeemed
  <2>4. task'[t].at \notin SaveSteps
    BY DEF SaveSteps
  <2>5. ASSUME NEW x \in DOMAIN sessions, UNCHANGED <<sessions, minted>>,
               task'[t] = [at |-> "authorize", session |-> x, row |-> sessions[x]]
        PROVE  /\ task'[t].session \in minted'
               /\ task'[t].row.expires <= task'[t].row.absolute
               /\ task'[t].session \in DOMAIN sessions' =>
                     sessions'[task'[t].session].absolute = task'[t].row.absolute
    BY <2>5 DEF KeysMinted, RowsLimited, Limited
  <2>6. ASSUME task[t].at = "authorize", UNCHANGED <<sessions, minted>>,
               task'[t] = [task[t] EXCEPT !.at = "touch", !.row = Touched(task[t].row)]
        PROVE  /\ task'[t].session \in minted'
               /\ task'[t].row.expires <= task'[t].row.absolute
               /\ task'[t].session \in DOMAIN sessions' =>
                     sessions'[task'[t].session].absolute = task'[t].row.absolute
    <3>1. task[t] \in [at: {"authorize", "touch"}, session: SessionId, row: SessionRow]
      BY <2>6, TaskShapes DEF TypeOK
    <3>2. now \in Nat /\ task[t].row \in SessionRow
      BY <3>1 DEF TypeOK, TablesTypeOK
    <3>3. /\ Touched(task[t].row).absolute = task[t].row.absolute
          /\ Touched(task[t].row).expires <= task[t].row.absolute
      BY <3>2 DEF Touched, SessionRow
    <3>4. task'[t].session = task[t].session /\ task'[t].row = Touched(task[t].row)
      BY <2>6, <3>1
    <3> QED  BY <2>6, <3>3, <3>4 DEF TouchesFit
  <2> QED  BY <2>1, <2>2, <2>3, <2>4, <2>5, <2>6 DEF TaskMove, Acting, SaveSteps
<1> QED  BY <1>1, <1>2

(***************************************************************************)
(* Any number of logins at once leave an account within the widest cap,    *)
(* and no order of touches extends a session past the ceiling its login    *)
(* fixed: what a touch writes is a deadline below the ceiling it read, and *)
(* a ceiling never changes while the session it belongs to is stored.      *)
(***************************************************************************)
THEOREM SessionLimitsTheorem == Spec => []SessionLimitsHold
<1> DEFINE Inv == WithinCap /\ TouchesFit /\ RowsLimited
<1>1. Init => Inv
  <2> SUFFICES ASSUME Init
               PROVE  Inv
    OBVIOUS
  <2>1. DOMAIN sessions = {}
    BY DEF Init
  <2>2. WithinCap
    BY <2>1, FS_EmptySet DEF WithinCap, SessionsOf
  <2>3. TouchesFit /\ RowsLimited
    BY <2>1 DEF Init, Idle, TouchesFit, RowsLimited
  <2> QED  BY <2>2, <2>3
<1>2. TypeOK /\ KeysMinted /\ Inv /\ [Next]_vars => Inv'
  BY WithinCapStep, RowsLimitedStep
<1>3. TypeOK /\ Inv => SessionLimitsHold
  <2> SUFFICES ASSUME TypeOK, Inv
               PROVE  SessionLimitsHold
    OBVIOUS
  <2>1. \A a \in DOMAIN accounts :
          \E p \in Prefs : Cardinality(SessionsOf(a)) <= p.cap \/ SessionsOf(a) = {}
    BY PrefsAssumption DEF WithinCap, TypeOK, TablesTypeOK
  <2> QED  BY <2>1 DEF RowsLimited, Limited, SessionLimitsHold
<1> HIDE DEF Inv
<1> QED  BY <1>1, <1>2, <1>3, TypeCorrect, KeysMintedAlways, PTL DEF Spec

-----------------------------------------------------------------------------
(***************************************************************************)
(* Requests that leave each other's account alone.  What a request is      *)
(* about to save fits the row its account has now, not just the row it had *)
(* when the request read it; and what it is about to add is an owner only  *)
(* if there still is no account.                                           *)
(***************************************************************************)

RowsCurrent ==
    \A t \in Task :
        /\ task[t].at \in SaveSteps =>
              /\ task[t].acct \in minted
              /\ task[t].acct \in DOMAIN accounts =>
                    Fits(task[t].at, accounts[task[t].acct], task[t].row)
        /\ task[t].at = "add_account" =>
              \E e \in Email, p \in Password :
                 task[t].row = NewAccount(e, p, DOMAIN accounts = {})

\* A request that saves or goes on about an account names it.
LEMMA NamesAccount ==
    ASSUME NEW r \in TaskState, r.at \in SaveSteps \cup AccountSteps
    PROVE  "acct" \in DOMAIN r
<1>1. CASE r \in [at: SaveSteps, acct: Account, row: AccountRow, since: Nat,
                  keep: SessionId \cup {None}]
  BY <1>1
<1>2. CASE r \in [at: AccountSteps, acct: Account, since: Nat, proof: Password,
                  keep: SessionId \cup {None}]
  BY <1>2
<1> QED  BY <1>1, <1>2 DEF TaskState, SaveSteps, AccountSteps

\* In every step, as a lock that was possible stays possible as time goes by.
LEMMA RowsCurrentStep ==
    ASSUME TypeOK, KeysMinted, RowsCurrent, [Next /\ Isolated]_vars
    PROVE  RowsCurrent'
<1> USE DEF TypeOK, TablesTypeOK
<1>1. /\ [Next]_vars
      /\ minted \subseteq minted'
      /\ now \in Nat /\ now' \in Nat /\ now <= now'
  BY MintedGrows, ClockAdvances
<1>2. \A a \in minted : a \in DOMAIN accounts' => a \in DOMAIN accounts
  <2>1. ASSUME NEW x \in Account \ minted, NEW row, accounts' = Put(accounts, x, row)
        PROVE  \A a \in minted : a \in DOMAIN accounts' => a \in DOMAIN accounts
    BY <2>1 DEF Put
  <2>2. ASSUME \/ accounts' = accounts
               \/ \E a, row : accounts' = SavedAccounts(a, row)
               \/ \E a \in Account, wanted \in SUBSET Role : SetRoles(a, wanted)
               \/ \E a \in Account : DeleteAccount(a)
        PROVE  DOMAIN accounts' \subseteq DOMAIN accounts
    BY <2>2 DEF SavedAccounts, SetRoles, DeleteAccount, Without
  <2> QED  BY <1>1, <2>1, <2>2, AccountWrites
<1> SUFFICES ASSUME NEW t \in Task
             PROVE  /\ task'[t].at \in SaveSteps =>
                          /\ task'[t].acct \in minted'
                          /\ task'[t].acct \in DOMAIN accounts' =>
                                Fits(task[t].at, accounts[task[t].acct], task[t].row)'
                    /\ task'[t].at = "add_account" =>
                          \E e \in Email, p \in Password :
                             task'[t].row = NewAccount(e, p, DOMAIN accounts' = {})
  BY DEF RowsCurrent, NewAccount
<1>3. TaskMove(t)
  BY <1>1, TaskMoves
<1>4. ASSUME task'[t].at \in SaveSteps
      PROVE  /\ task'[t].acct \in minted'
             /\ task'[t].acct \in DOMAIN accounts' =>
                   Fits(task[t].at, accounts[task[t].acct], task[t].row)'
  <2>1. CASE task'[t] = task[t]
    <3> DEFINE a == task[t].acct
    <3>1. a \in minted /\ a \in minted'
      BY <1>1, <1>4, <2>1 DEF RowsCurrent
    <3>2. ASSUME a \in DOMAIN accounts'
          PROVE  accounts'[a] = accounts[a] /\ a \in DOMAIN accounts
      <4>1. "acct" \in DOMAIN task[t]
        BY <1>4, <2>1, NamesAccount
      <4>2. CASE Isolated
        BY <1>2, <2>1, <3>1, <3>2, <4>1, <4>2 DEF Isolated
      <4>3. CASE UNCHANGED vars
        BY <3>2, <4>3 DEF vars
      <4> QED  BY <4>2, <4>3
    <3>3. ASSUME a \in DOMAIN accounts'
          PROVE  Fits(task[t].at, accounts[a], task[t].row)'
      <4>1. Fits(task[t].at, accounts[a], task[t].row)
        BY <1>4, <2>1, <3>2, <3>3 DEF RowsCurrent
      <4> DEFINE step == task[t].at
                 row  == accounts[a]
                 new  == task[t].row
      <4>2. step' = step /\ row' = row /\ new' = new
        BY <2>1, <3>2, <3>3
      <4>3. \A until \in 0..now + Lockout : until \in 0..now' + Lockout
        BY <1>1, TimeAssumption
      <4> QED  BY <4>1, <4>2, <4>3 DEF Fits, WithSuccess, WithPassword
    <3> QED  BY <2>1, <3>1, <3>3
  <2>2. ASSUME NEW a \in DOMAIN accounts, task'[t].acct = a,
               Fits(task'[t].at, accounts[a], task'[t].row), UNCHANGED <<accounts, minted, now>>
        PROVE  /\ task'[t].acct \in minted'
               /\ Fits(task[t].at, accounts[task[t].acct], task[t].row)'
    BY <2>2 DEF KeysMinted, Fits, WithSuccess, WithPassword
  <2>3. ASSUME NEW g, NEW p, task'[t] = Redeemed(g, p)
        PROVE  FALSE
    BY <1>4, <2>3 DEF Redeemed, SaveSteps
  <2>4. ASSUME task[t].at = "authorize",
               task'[t] = [task[t] EXCEPT !.at = "touch", !.row = Touched(task[t].row)]
        PROVE  FALSE
    BY <1>4, <2>4, TaskShapes DEF SaveSteps
  <2>5. ASSUME NEW x, task'[t] = [at |-> "authorize", session |-> x, row |-> sessions[x]]
        PROVE  FALSE
    BY <1>4, <2>5 DEF SaveSteps
  <2>6. task'[t].at \notin {"add_account", "end_resets"} /\ task'[t].at \in Acting
    BY <1>4 DEF SaveSteps, Acting
  <2> QED  BY <1>3, <2>1, <2>2, <2>3, <2>4, <2>5, <2>6 DEF TaskMove
<1>5. ASSUME task'[t].at = "add_account"
      PROVE  \E e \in Email, p \in Password :
                task'[t].row = NewAccount(e, p, DOMAIN accounts' = {})
  <2>1. CASE task'[t] = task[t]
    <3>1. (DOMAIN accounts' = {}) <=> (DOMAIN accounts = {})
      <4>1. CASE Isolated
        BY <1>5, <2>1, <4>1 DEF Isolated
      <4>2. CASE UNCHANGED vars
        BY <4>2 DEF vars
      <4> QED  BY <4>1, <4>2
    <3>2. (DOMAIN accounts' = {}) = (DOMAIN accounts = {})
      BY <3>1
    <3> QED  BY <1>5, <2>1, <3>2 DEF RowsCurrent
  <2>2. ASSUME task[t].at = "authorize",
               task'[t] = [task[t] EXCEPT !.at = "touch", !.row = Touched(task[t].row)]
        PROVE  FALSE
    BY <1>5, <2>2, TaskShapes
  <2>3. ASSUME NEW g, NEW p, task'[t] = Redeemed(g, p)
        PROVE  FALSE
    BY <1>5, <2>3 DEF Redeemed
  <2>4. task'[t].at \in Acting /\ task'[t].at \notin SaveSteps /\ task'[t].at # "end_resets"
    BY <1>5 DEF SaveSteps, Acting
  <2>5. ASSUME NEW x, task'[t] = [at |-> "authorize", session |-> x, row |-> sessions[x]]
        PROVE  FALSE
    BY <1>5, <2>5
  <2> QED  BY <1>3, <1>5, <2>1, <2>2, <2>3, <2>4, <2>5 DEF TaskMove
<1> QED  BY <1>4, <1>5

\* A row that fits its step is saved as one operation of the directory.
LEMMA SaveIsOperation ==
    ASSUME TypeOK, NEW a \in DOMAIN accounts, NEW step \in SaveSteps, NEW new,
           Fits(step, accounts[a], new), accounts' = [accounts EXCEPT ![a] = new]
    PROVE  Directory!Operation
<1>1. CASE step = "record_failure"
  <2>1. PICK until \in 0..now + Lockout :
          /\ new = [accounts[a] EXCEPT !.failed = @ + 1, !.locked = until]
          /\ IF accounts[a].failed + 1 >= Threshold
             THEN until > accounts[a].locked ELSE until = accounts[a].locked
    BY <1>1 DEF Fits
  <2>2. Directory!Change(a, [accounts[a] EXCEPT !.failed = @ + 1, !.locked = until])
    BY <2>1 DEF Directory!Change
  <2>3. Directory!Fail(a)
    BY <2>1, <2>2 DEF Directory!Fail
  <2> QED  BY <2>3 DEF Directory!Operation
<1>2. CASE step \in {"accept_login", "clear_failures"}
  <2>1. Directory!Succeed(a)
    BY <1>2 DEF Fits, WithSuccess, Directory!Succeed, Directory!Change
  <2> QED  BY <2>1 DEF Directory!Operation
<1>3. CASE step = "set_status"
  <2>1. \E st \in {"active", "disabled"} : Directory!SetStatus(a, st)
    BY <1>3 DEF Fits, Status, Directory!SetStatus, Directory!Change
  <2> QED  BY <2>1 DEF Directory!Operation
<1>4. CASE step = "set_password"
  <2>1. \E p \in Password : Directory!SetPassword(a, p)
    BY <1>4 DEF Fits, WithPassword, Directory!SetPassword, Directory!Change
  <2> QED  BY <2>1 DEF Directory!Operation
<1> QED  BY <1>1, <1>2, <1>3, <1>4 DEF SaveSteps

\* Every write of the accounts table is one operation of the directory.
LEMMA WritesAreOperations ==
    ASSUME TypeOK, KeysMinted, RowsCurrent, [Next]_vars
    PROVE  accounts' = accounts \/ Directory!Operation
<1> USE DEF TypeOK, TablesTypeOK
<1>1. ASSUME NEW t \in Task, task[t].at \in SaveSteps,
             accounts' = SavedAccounts(task[t].acct, task[t].row)
      PROVE  accounts' = accounts \/ Directory!Operation
  <2> DEFINE a == task[t].acct
  <2>1. CASE a \in DOMAIN accounts /\ accounts' = [accounts EXCEPT ![a] = task[t].row]
    <3>1. Fits(task[t].at, accounts[a], task[t].row)
      BY <1>1, <2>1 DEF RowsCurrent
    <3> QED  BY <1>1, <2>1, <3>1, SaveIsOperation
  <2> QED  BY <1>1, <2>1 DEF SavedAccounts
<1>2. ASSUME NEW t \in Task, NEW a \in Account \ minted, task[t].at = "add_account",
             CanAdd(task[t].row), accounts' = Put(accounts, a, task[t].row)
      PROVE  Directory!Operation
  <2>1. PICK e \in Email, p \in Password : task[t].row = NewAccount(e, p, DOMAIN accounts = {})
    BY <1>2 DEF RowsCurrent
  <2>2. a \in Account \ DOMAIN accounts
    BY DEF KeysMinted
  <2>3. \A b \in DOMAIN accounts : accounts[b].email # e
    BY <1>2, <2>1 DEF CanAdd, Holders, NewAccount
  <2>4. /\ DOMAIN accounts' = DOMAIN accounts \cup {a}
        /\ \A b \in DOMAIN accounts : accounts'[b] = accounts[b]
        /\ accounts'[a] = task[t].row
    BY <1>2, <2>2 DEF Put
  <2>5. Directory!Register(a, e, p)
    BY <2>1, <2>2, <2>3, <2>4 DEF NewAccount, Directory!Register
  <2> QED  BY <2>5 DEF Directory!Operation
<1>3. ASSUME NEW a
      PROVE  Owners \ {a} # {} => Directory!OtherOwner(a)
  BY DEF Owners, Directory!OtherOwner
<1>4. ASSUME NEW a \in Account, NEW wanted \in SUBSET Role, SetRoles(a, wanted)
      PROVE  Directory!Operation
  <2>1. a \in DOMAIN accounts /\ (OWNER \in accounts[a].roles \ wanted => Directory!OtherOwner(a))
    BY <1>3, <1>4 DEF SetRoles, OwnerSurvives
  <2>2. accounts' = [accounts EXCEPT ![a] = [accounts[a] EXCEPT !.roles = wanted]]
    BY <1>4 DEF SetRoles
  <2>3. Directory!SetRoles(a, wanted)
    BY <2>1, <2>2 DEF Directory!SetRoles, Directory!Change
  <2> QED  BY <2>1, <2>3 DEF Directory!Operation
<1>5. ASSUME NEW a \in Account, DeleteAccount(a)
      PROVE  Directory!Operation
  <2>1. a \in DOMAIN accounts /\ (OWNER \in accounts[a].roles => Directory!OtherOwner(a))
    BY <1>3, <1>5 DEF DeleteAccount, OwnerSurvives
  <2>2. Directory!Remove(a)
    BY <1>5, <2>1 DEF DeleteAccount, Without, Directory!Remove
  <2> QED  BY <2>1, <2>2 DEF Directory!Operation
<1> QED  BY <1>1, <1>2, <1>4, <1>5, AccountWrites

LEMMA IsolatedIsSpec == IsolatedSpec => Spec
<1>1. [Next /\ Isolated]_vars => [Next]_vars
  OBVIOUS
<1> QED  BY <1>1, PTL DEF IsolatedSpec, Spec

(***************************************************************************)
(* As long as no request disturbs the account another is about, the        *)
(* account operations implement the account directory: although each reads *)
(* a row, gives way and saves its copy of it later, every save is one      *)
(* operation on the row the account has by then, every registration sees   *)
(* rightly whether it is the first, and the owner is kept.                 *)
(***************************************************************************)
THEOREM DirectoryTheorem == IsolatedSpec => ImplementsDirectory
<1>1. Init => Directory!Init
  BY DEF Init, Directory!Init
<1>2. Init => RowsCurrent
  BY DEF Init, RowsCurrent, Idle, SaveSteps
<1>3. TypeOK /\ KeysMinted /\ RowsCurrent /\ [Next /\ Isolated]_vars => RowsCurrent'
  BY RowsCurrentStep
<1>4. TypeOK /\ KeysMinted /\ RowsCurrent /\ [Next /\ Isolated]_vars
         => [Directory!Next]_<<accounts, now>>
  <2> SUFFICES ASSUME TypeOK, KeysMinted, RowsCurrent, [Next]_vars
               PROVE  [Directory!Next]_<<accounts, now>>
    OBVIOUS
  <2>1. CASE Tick
    BY <2>1 DEF Tick, Directory!Next
  <2>2. CASE now' = now
    BY <2>2, WritesAreOperations DEF Directory!Next
  <2> QED  BY <2>1, <2>2, ClockSteps
<1> QED
  BY <1>1, <1>2, <1>3, <1>4, IsolatedIsSpec, TypeCorrect, KeysMintedAlways, PTL
  DEF IsolatedSpec, ImplementsDirectory, Directory!Spec

-----------------------------------------------------------------------------
(* Password changes *)

\* A session keeps the account and the proof it was opened with.
LEMMA SessionsKept ==
    ASSUME TypeOK, KeysMinted, [Next]_vars, NEW s \in DOMAIN sessions, s \in DOMAIN sessions'
    PROVE  sessions'[s].account = sessions[s].account /\ sessions'[s].proof = sessions[s].proof
<1> DEFINE Kept == /\ sessions'[s].account = sessions[s].account
                   /\ sessions'[s].proof = sessions[s].proof
<1>1. ASSUME NEW n \in SessionId \ minted, NEW row, NEW cap, AddWithinCap(n, row, cap)
      PROVE  Kept
  BY <1>1 DEF AddWithinCap, Put, Without, KeysMinted
<1>2. ASSUME NEW n, NEW row, sessions' = SavedSessions(n, row)
      PROVE  Kept
  BY <1>2 DEF SavedSessions, TypeOK, TablesTypeOK, SessionRow
<1>3. ASSUME NEW K, sessions' = Without(sessions, K)
      PROVE  Kept
  BY <1>3 DEF Without
<1> QED  BY <1>1, <1>2, <1>3, SessionWrites DEF DeleteAccount

(***************************************************************************)
(* Once a password change, with the old password or by a link, has ended   *)
(* an account's sessions, those left are its own and ones that proved the  *)
(* new password, as long as no other request about that account opens one  *)
(* in between: no touch of a session read earlier brings it back.          *)
(***************************************************************************)
THEOREM PasswordChangeTheorem == IsolatedSpec => []PasswordChangeEndsSessions
<1>1. Init => PasswordChangeEndsSessions
  BY DEF Init, PasswordChangeEndsSessions, Idle
<1>2. ASSUME TypeOK, TypeOK', KeysMinted, NoOrphanRows', PasswordChangeEndsSessions,
             [Next /\ Isolated]_vars
      PROVE  PasswordChangeEndsSessions'
  <2>0. [Next]_vars
    BY <1>2
  <2> SUFFICES ASSUME NEW t \in Task, task'[t].at = "end_resets",
                      NEW s \in DOMAIN sessions', sessions'[s].account = task'[t].acct
               PROVE  s = task'[t].keep \/ sessions'[s].proof = task'[t].proof
    BY DEF PasswordChangeEndsSessions, SessionsOf
  <2>1. TaskMove(t)
    BY <1>2, <2>0, TaskMoves
  <2>2. CASE task'[t] = task[t]
    <3>1. task[t].acct \in DOMAIN accounts'
      BY <1>2, <2>2 DEF NoOrphanRows
    <3>2. "acct" \in DOMAIN task[t]
      BY <1>2, <2>2, NamesAccount DEF AccountSteps, TypeOK
    <3>3. s \in SessionsOf(task[t].acct)
      <4>1. CASE Isolated
        BY <2>2, <3>1, <3>2, <4>1 DEF Isolated, SessionsOf
      <4>2. CASE UNCHANGED vars
        BY <2>2, <4>2 DEF vars, SessionsOf
      <4> QED  BY <1>2, <4>1, <4>2
    <3>4. sessions'[s].proof = sessions[s].proof
      BY <1>2, <2>0, <3>3, SessionsKept DEF SessionsOf
    <3> QED  BY <1>2, <2>2, <3>3, <3>4 DEF PasswordChangeEndsSessions
  <2>3. CASE EndSessions(t)
    <3>1. task[t] \in [at: AccountSteps, acct: Account, since: Nat, proof: Password,
                       keep: SessionId \cup {None}]
      BY <1>2, <2>3, TaskShapes DEF EndSessions, Continue, AccountSteps, TypeOK
    <3>2. task'[t].acct = task[t].acct /\ task'[t].keep = task[t].keep
      BY <1>2, <2>3, <3>1 DEF EndSessions, Continue, Then, TypeOK
    <3> QED  BY <2>3, <3>2 DEF EndSessions, RevokedSessions, Without, SessionsOf
  <2>4. ASSUME NEW g, NEW p, task'[t] = Redeemed(g, p)
        PROVE  FALSE
    BY <2>4 DEF Redeemed
  <2>5. ASSUME task[t].at = "authorize",
               task'[t] = [task[t] EXCEPT !.at = "touch", !.row = Touched(task[t].row)]
        PROVE  FALSE
    BY <1>2, <2>5, TaskShapes DEF TypeOK
  <2>6. ASSUME NEW x, task'[t] = [at |-> "authorize", session |-> x, row |-> sessions[x]]
        PROVE  FALSE
    BY <2>6
  <2>7. task'[t].at \in Acting /\ task'[t].at \notin SaveSteps
    BY DEF Acting, SaveSteps
  <2> QED  BY <2>1, <2>2, <2>3, <2>4, <2>5, <2>6, <2>7 DEF TaskMove
<1> QED
  BY <1>1, <1>2, IsolatedIsSpec, TypeCorrect, KeysMintedAlways, NoOrphanRowsTheorem, PTL
  DEF IsolatedSpec
=============================================================================
