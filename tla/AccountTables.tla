--------------------------- MODULE AccountTables ---------------------------
(***************************************************************************)
(* The tables behind accounts/sql_store.py: accounts with their roles,     *)
(* sessions and grants.  A table is a function from its primary keys to    *)
(* rows.  Every definition below is one store method, and every store      *)
(* method is one transaction: the database runs one whole callable at a    *)
(* time, so nothing happens between its reads and its writes.              *)
(*                                                                         *)
(* Left out of the rows because no operation here decides anything by      *)
(* them: created_at and updated_at of an account, last_used_at of a        *)
(* session, token hashes (a row is presented by its id) and the hash       *)
(* parameters of a password (a hash is the password it verifies, which a   *)
(* rehash does not change).                                                *)
(***************************************************************************)
EXTENDS Integers, FiniteSets

CONSTANTS
    Account,            \* account ids, never reused (new_account_id is a uuid4)
    Email,              \* normalised addresses
    Password,
    Role,               \* role names
    OWNER, MEMBER,      \* the two built-in roles this layer hands out
    SessionId, GrantId, \* ids of sessions and of invites and reset links
    None                \* the absent value

ASSUME RoleAssumption == OWNER \in Role /\ MEMBER \in Role /\ OWNER # MEMBER
ASSUME NoneAssumption == None \notin SessionId
ASSUME IdAssumption == Account \cap Email = {}

VARIABLES
    accounts,   \* the accounts table, each row with its account_roles
    roles,      \* the names in the roles table
    sessions,   \* the sessions table
    grants,     \* the grants table
    minted,     \* every id handed out so far, deleted rows included
    now         \* Clock.now()

tables == <<accounts, roles, sessions, grants, minted, now>>

Status == {"active", "disabled"}
Purpose == {"invite", "password_reset"}

(***************************************************************************)
(* locked is locked_until; 0, before every instant, is its None.           *)
(***************************************************************************)
AccountRow ==
    [email: Email, password: Password, status: Status,
     failed: Nat, locked: Nat, roles: SUBSET Role]

(***************************************************************************)
(* proof is not a column: it records which password the login that opened  *)
(* the session had verified, for the properties.                           *)
(***************************************************************************)
SessionRow ==
    [account: Account, created: Nat, expires: Nat, absolute: Nat,
     idle: Nat, proof: Password]

\* subject is the email column of an invite and the account_id of a reset.
GrantRow ==
    [purpose: {"invite"}, subject: Email, expires: Nat, redeemed: BOOLEAN, revoked: BOOLEAN]
    \cup
    [purpose: {"password_reset"}, subject: Account, expires: Nat, redeemed: BOOLEAN,
     revoked: BOOLEAN]

Put(table, key, row) ==
    [k \in DOMAIN table \cup {key} |-> IF k = key THEN row ELSE table[k]]

Without(table, keys) == [k \in DOMAIN table \ keys |-> table[k]]

-----------------------------------------------------------------------------
(* SqlAccountStore *)

\* get_by_email: the account that holds an address, if any does.
Holders(email) == {a \in DOMAIN accounts : accounts[a].email = email}

Owners == {a \in DOMAIN accounts : OWNER \in accounts[a].roles}

(***************************************************************************)
(* add: refused for a taken address, and by the foreign key for an unknown *)
(* role.                                                                   *)
(***************************************************************************)
CanAdd(row) == Holders(row.email) = {} /\ row.roles \subseteq roles

(***************************************************************************)
(* save: an UPDATE of every column, then the roles rewritten, all from the *)
(* caller's copy of the row.  On a deleted account the UPDATE finds no row *)
(* and the role inserts break the foreign key, as they do for a deleted    *)
(* role; the transaction is then rolled back and the caller sees the       *)
(* error.                                                                  *)
(***************************************************************************)
SaveRaises(a, row) ==
    \/ ~ row.roles \subseteq roles
    \/ a \notin DOMAIN accounts /\ row.roles # {}

SavedAccounts(a, row) ==
    IF a \in DOMAIN accounts /\ row.roles \subseteq roles
    THEN [accounts EXCEPT ![a] = row]
    ELSE accounts

\* Mutation of OwnerSurvives: the count includes the account being changed.
OwnerSurvivesCountingItself(a, keepingOwner) ==
    keepingOwner \/ OWNER \notin accounts[a].roles \/ Owners # {}

\* _check_owner_survives, inside the transaction that performs the write.
OwnerSurvives(a, keepingOwner) ==
    keepingOwner \/ OWNER \notin accounts[a].roles \/ Owners \ {a} # {}

\* set_roles
SetRoles(a, wanted) ==
    /\ a \in DOMAIN accounts
    /\ OwnerSurvives(a, OWNER \in wanted)
    /\ wanted \subseteq roles
    /\ accounts' = [accounts EXCEPT ![a].roles = wanted]
    /\ UNCHANGED <<roles, sessions, grants, minted, now>>

\* Mutation of DeleteAccount: a sessions table without ON DELETE CASCADE.
DeleteAccountKeepingSessions(a) ==
    /\ a \in DOMAIN accounts
    /\ OwnerSurvives(a, FALSE)
    /\ accounts' = Without(accounts, {a})
    /\ grants' = Without(grants, {g \in DOMAIN grants : grants[g].subject = a})
    /\ UNCHANGED <<roles, sessions, minted, now>>

\* delete, with the schema's cascade into sessions and grants.
DeleteAccount(a) ==
    /\ a \in DOMAIN accounts
    /\ OwnerSurvives(a, FALSE)
    /\ accounts' = Without(accounts, {a})
    /\ sessions' = Without(sessions, {s \in DOMAIN sessions : sessions[s].account = a})
    /\ grants' = Without(grants, {g \in DOMAIN grants : grants[g].subject = a})
    /\ UNCHANGED <<roles, minted, now>>

-----------------------------------------------------------------------------
(* SqlSessionStore *)

SessionsOf(a) == {s \in DOMAIN sessions : sessions[s].account = a}

\* The WHERE clause of get_by_token_hash; purge_expired is its complement.
IsLive(s) == now < sessions[s].expires /\ now < sessions[s].absolute

(***************************************************************************)
(* The sessions add_within_cap leaves an account: the newest cap of them.  *)
(* Equal creation times are ordered by session id, which is random, so     *)
(* any choice among them is possible.                                      *)
(***************************************************************************)
Newest(table, mine, cap) ==
    {kept \in SUBSET mine :
        /\ Cardinality(kept) <= cap
        /\ kept # mine => Cardinality(kept) = cap
        /\ \A k \in kept, x \in mine \ kept : table[k].created >= table[x].created}

\* Mutation of AddWithinCap: the row is inserted and nothing is trimmed.
AddUntrimmed(s, row, cap) ==
    /\ row.account \in DOMAIN accounts
    /\ sessions' = Put(sessions, s, row)

\* add_within_cap; the foreign key refuses a session of a deleted account.
AddWithinCap(s, row, cap) ==
    /\ row.account \in DOMAIN accounts
    /\ LET table == Put(sessions, s, row)
           mine  == SessionsOf(row.account) \cup {s}
       IN  \E kept \in Newest(table, mine, cap) :
               sessions' = Without(table, mine \ kept)

\* Mutation of SavedSessions: the touch is an upsert, not an UPDATE.
UpsertedSessions(s, row) == Put(sessions, s, row)

\* save: an UPDATE of the deadlines, which finds no row once it is revoked.
SavedSessions(s, row) ==
    IF s \in DOMAIN sessions
    THEN [sessions EXCEPT ![s].expires = row.expires, ![s].absolute = row.absolute]
    ELSE sessions

\* Mutation of RevokedSessions: the other sessions are left alone.
RevokedNothing(a, keep) == sessions

\* revoke_all, optionally sparing the caller's own session.
RevokedSessions(a, keep) == Without(sessions, SessionsOf(a) \ {keep})

-----------------------------------------------------------------------------
(* SqlGrantStore *)

\* Mutation of Redeemable: the redeemed_at IS NULL condition is dropped.
RedeemableAgain(g) ==
    /\ g \in DOMAIN grants
    /\ ~ grants[g].revoked
    /\ now < grants[g].expires

\* The WHERE clause of redeem.
Redeemable(g) ==
    /\ g \in DOMAIN grants
    /\ ~ grants[g].redeemed
    /\ ~ grants[g].revoked
    /\ now < grants[g].expires

ResetsOf(a) ==
    {g \in DOMAIN grants :
        grants[g].purpose = "password_reset" /\ grants[g].subject = a}

\* revoke_all_for_account(PASSWORD_RESET)
RevokedResets(a) ==
    [g \in DOMAIN grants |->
        IF g \in ResetsOf(a) THEN [grants[g] EXCEPT !.revoked = TRUE] ELSE grants[g]]

(***************************************************************************)
(* The tables are well formed.                                             *)
(***************************************************************************)
TablesTypeOK ==
    /\ DOMAIN accounts \subseteq Account
    /\ accounts \in [DOMAIN accounts -> AccountRow]
    /\ roles \in SUBSET Role
    /\ DOMAIN sessions \subseteq SessionId
    /\ sessions \in [DOMAIN sessions -> SessionRow]
    /\ DOMAIN grants \subseteq GrantId
    /\ grants \in [DOMAIN grants -> GrantRow]
    /\ minted \in SUBSET (Account \cup SessionId \cup GrantId)
    /\ now \in Nat
=============================================================================
