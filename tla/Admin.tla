-------------------------------- MODULE Admin --------------------------------
(***************************************************************************)
(* admin/service.py over the roles table and the roles accounts hold: who  *)
(* may change what, decided from permissions a request resolved when it    *)
(* began and from rows it read in earlier transactions.                    *)
(*                                                                         *)
(* An action takes a request from one await to the next.  A refusal is a   *)
(* request that ends, and one that could only be refused has no step.      *)
(* What an action against a person does to sessions, grants and profiles   *)
(* is in modules Accounts and Vault; here it matters whose password the    *)
(* staff can set, and which accounts are gone.  A new account holds a role *)
(* without permissions, so registrations are left out, and so are the      *)
(* stale saves of a login, which module Accounts is about, and an          *)
(* account's status, which only keeps the staff from asking.  The break-   *)
(* glass token passes every check, and nothing is claimed of its holder.   *)
(***************************************************************************)
EXTENDS Integers, FiniteSets

CONSTANTS
    Account,
    RoleName,           \* normalised role names, those of the built-ins included
    Permission,
    Builtin,            \* BUILTIN_ROLES: permissions by name
    OWNER,
    Staff,              \* who makes administrative requests to begin with
    SeedRoles,          \* the roles table to start from
    SeedHeld,           \* the roles each account holds to start with
    Wanted,             \* the permission sets requests ask a role to have
    Task,               \* requests in flight at once
    MaxHeld,            \* MAX_ROLES_PER_ACCOUNT
    MaxEntries          \* SqlAuditLog's max_entries

\* What each action against a person requires.
Needs ==
    [set_status |-> "accounts:disable", revoke_sessions |-> "accounts:revoke_sessions",
     issue_password_reset |-> "accounts:reset_password", delete_account |-> "accounts:delete",
     delete_profile |-> "profiles:delete_any"]

Against == DOMAIN Needs

ASSUME PermissionAssumption ==
    /\ {"roles:write", "roles:assign", "accounts:invite"} \subseteq Permission
    /\ \A act \in Against : Needs[act] \in Permission
ASSUME BuiltinAssumption ==
    /\ DOMAIN Builtin \subseteq RoleName
    /\ OWNER \in DOMAIN Builtin
    /\ Builtin \in [DOMAIN Builtin -> SUBSET Permission]
ASSUME SeedAssumption ==
    /\ DOMAIN Builtin \subseteq DOMAIN SeedRoles    \* seed_builtin_roles
    /\ DOMAIN SeedRoles \subseteq RoleName
    /\ SeedRoles \in [DOMAIN SeedRoles -> SUBSET Permission]
    /\ \A n \in DOMAIN Builtin : SeedRoles[n] = Builtin[n]
    /\ DOMAIN SeedHeld \subseteq Account
    /\ SeedHeld \in [DOMAIN SeedHeld -> SUBSET DOMAIN SeedRoles]
ASSUME StaffAssumption ==
    /\ Staff \subseteq Account
    /\ Wanted \subseteq SUBSET Permission
ASSUME BoundAssumption == MaxHeld \in Nat /\ MaxEntries \in Nat \ {0}

VARIABLES
    roles,      \* the roles table: permissions by name
    held,       \* account_roles, by account
    audit,      \* how many entries the audit table holds
    acting,     \* not in the code: the accounts the staff can act as
    task        \* what each request is about to do, and what it has read

vars == <<roles, held, audit, acting, task>>

Idle == [at |-> "idle"]

Put(table, key, row) ==
    [k \in DOMAIN table \cup {key} |-> IF k = key THEN row ELSE table[k]]

Without(table, keys) == [k \in DOMAIN table \ keys |-> table[k]]

\* RoleStore.resolve: a name without a role contributes nothing.
Resolve(names) == UNION {roles[n] : n \in names \cap DOMAIN roles}

Continue(t, step, r) == task[t].at = step /\ task' = [task EXCEPT ![t] = r]

\* A change was made; what is left of the request is its audit entry.
Recording == [at |-> "record"]

Init ==
    /\ roles = SeedRoles
    /\ held = SeedHeld
    /\ audit = 0
    /\ acting = Staff
    /\ task = [t \in Task |-> Idle]

-----------------------------------------------------------------------------
(* get_actor: the account is read, then its roles are resolved *)

Ask(t, a) ==
    /\ a \in acting
    /\ a \in DOMAIN held
    /\ Continue(t, "idle", [at |-> "resolve", actor |-> a, names |-> held[a]])
    /\ UNCHANGED <<roles, held, audit, acting>>

ResolveActor(t) ==
    LET r == task[t] IN
    /\ Continue(t, "resolve", [at |-> "authorized", actor |-> r.actor, perms |-> Resolve(r.names)])
    /\ UNCHANGED <<roles, held, audit, acting>>

Has(t, permission) == task[t].at = "authorized" /\ permission \in task[t].perms

\* Mutation of Grantable: whoever may write roles may write any role.
GrantableByAnyone(r, permissions) == TRUE

\* check_can_grant
Grantable(r, permissions) == permissions \subseteq r.perms

-----------------------------------------------------------------------------
(* Roles *)

\* create_role up to its write: the name is looked up.
CreateRole(t, n, wanted) ==
    LET r == task[t] IN
    /\ Has(t, "roles:write")
    /\ Grantable(r, wanted)
    /\ n \notin DOMAIN roles
    /\ Continue(t, "authorized", [at |-> "add_role", name |-> n, wanted |-> wanted])
    /\ UNCHANGED <<roles, held, audit, acting>>

\* SqlRoleStore.add looks the name up again, built-ins included.
AddRole(t) ==
    LET r == task[t] IN
    /\ r.at = "add_role"
    /\ IF r.name \in DOMAIN roles
       THEN Continue(t, "add_role", Idle) /\ UNCHANGED roles
       ELSE /\ Continue(t, "add_role", Recording)
            /\ roles' = Put(roles, r.name, r.wanted)
    /\ UNCHANGED <<held, audit, acting>>

\* Mutation of Editable: the built-in roles can be edited.
EditableAll(n) == n \in DOMAIN roles

Editable(n) == n \in DOMAIN roles \ DOMAIN Builtin

\* update_role up to its write.
UpdateRole(t, n, wanted) ==
    LET r == task[t] IN
    /\ Has(t, "roles:write")
    /\ Editable(n)
    /\ Grantable(r, wanted)
    /\ Continue(t, "authorized", [at |-> "save_role", name |-> n, wanted |-> wanted])
    /\ UNCHANGED <<roles, held, audit, acting>>

\* save: an UPDATE, which finds no row once the role is deleted.
SaveRole(t) ==
    LET r == task[t] IN
    /\ Continue(t, "save_role", Recording)
    /\ roles' = IF r.name \in DOMAIN roles THEN [roles EXCEPT ![r.name] = r.wanted] ELSE roles
    /\ UNCHANGED <<held, audit, acting>>

HoldersOf(n) == {a \in DOMAIN held : n \in held[a]}

\* Mutation of Deletable: a held role is deleted all the same.
DeletableThoughHeld(n) == n \in DOMAIN roles \ DOMAIN Builtin

\* The checks of SqlRoleStore.delete, in the transaction of its write.
Deletable(n) == n \in DOMAIN roles \ DOMAIN Builtin /\ HoldersOf(n) = {}

\* delete_role; the count it takes first decides nothing.
DeleteRole(t, n) ==
    /\ Has(t, "roles:write")
    /\ Deletable(n)
    /\ Continue(t, "authorized", Recording)
    /\ roles' = Without(roles, {n})
    /\ UNCHANGED <<held, audit, acting>>

-----------------------------------------------------------------------------
(* set_account_roles: the account, then every role, each in a read of its own *)

SetAccountRoles(t, a, names) ==
    LET r == task[t] IN
    /\ Has(t, "roles:assign")
    /\ a \in DOMAIN held
    /\ Cardinality(names) <= MaxHeld
    /\ Continue(t, "authorized",
           [at |-> "read_roles", perms |-> r.perms, target |-> a,
            names |-> names, unread |-> names, granted |-> {}])
    /\ UNCHANGED <<roles, held, audit, acting>>

ReadRole(t, n) ==
    LET r == task[t] IN
    /\ r.at = "read_roles"
    /\ n \in r.unread
    /\ Continue(t, "read_roles",
           IF n \in DOMAIN roles
           THEN [r EXCEPT !.unread = @ \ {n}, !.granted = @ \cup roles[n]] ELSE Idle)
    /\ UNCHANGED <<roles, held, audit, acting>>

\* _check_owner_survives
OwnerSurvives(a, names) ==
    OWNER \in names \/ OWNER \notin held[a] \/ HoldersOf(OWNER) \ {a} # {}

\* What SqlAccountStore.set_roles checks in the transaction of its write.
CanSetRoles(a, names) ==
    a \in DOMAIN held /\ OwnerSurvives(a, names) /\ names \subseteq DOMAIN roles

SetRoles(t) ==
    LET r == task[t] IN
    /\ r.at = "read_roles"
    /\ r.unread = {}
    /\ IF Grantable(r, r.granted) /\ CanSetRoles(r.target, r.names)
       THEN /\ Continue(t, "read_roles", Recording)
            /\ held' = [held EXCEPT ![r.target] = r.names]
       ELSE Continue(t, "read_roles", Idle) /\ UNCHANGED held
    /\ UNCHANGED <<roles, audit, acting>>

-----------------------------------------------------------------------------
(* Actions against a person, bounded by _check_can_act_on *)

LoadTarget(t, a, act) ==
    LET r == task[t] IN
    /\ Has(t, Needs[act])
    /\ a \in DOMAIN held
    /\ Continue(t, "authorized",
           [at |-> IF r.actor = a THEN "act" ELSE "resolve_target",
            perms |-> r.perms, target |-> a, names |-> held[a], act |-> act])
    /\ UNCHANGED <<roles, held, audit, acting>>

ResolveTarget(t) ==
    LET r == task[t] IN
    /\ Continue(t, "resolve_target",
           IF Resolve(r.names) \subseteq r.perms THEN [r EXCEPT !.at = "act"] ELSE Idle)
    /\ UNCHANGED <<roles, held, audit, acting>>

\* The next step of a request that may act on its target.
Acts(t, act, r) == task[t].at = "act" /\ task[t].act = act /\ task' = [task EXCEPT ![t] = r]

\* AccountService.set_status reads the row again; a missing one is passed over.
SetStatus(t) ==
    LET r == task[t] IN
    /\ Acts(t, "set_status",
            IF r.target \in DOMAIN held
            THEN [at |-> "save_status", target |-> r.target, names |-> held[r.target]]
            ELSE Recording)
    /\ UNCHANGED <<roles, held, audit, acting>>

\* Its save writes the roles back as well, and raises where they cannot be.
SaveStatus(t) ==
    LET r     == task[t]
        there == r.target \in DOMAIN held /\ r.names \subseteq DOMAIN roles
    IN  /\ Continue(t, "save_status", IF there \/ r.names = {} THEN Recording ELSE Idle)
        /\ held' = IF there THEN [held EXCEPT ![r.target] = r.names] ELSE held
        /\ UNCHANGED <<roles, audit, acting>>

\* Whoever is given the reset link sets the password.
IssuePasswordReset(t) ==
    LET r == task[t] IN
    /\ r.at = "act"
    /\ IF r.target \in DOMAIN held
       THEN /\ Acts(t, "issue_password_reset", Recording)
            /\ acting' = acting \cup {r.target}
       ELSE Acts(t, "issue_password_reset", Idle) /\ UNCHANGED acting
    /\ UNCHANGED <<roles, held, audit>>

\* A deletion that finds nothing is recorded like one that did.
DeleteAccount(t) ==
    LET r == task[t] IN
    /\ r.at = "act"
    /\ IF r.target \in DOMAIN held => OwnerSurvives(r.target, {})
       THEN /\ Acts(t, "delete_account", Recording)
            /\ held' = Without(held, {r.target})
       ELSE Acts(t, "delete_account", Idle) /\ UNCHANGED held
    /\ UNCHANGED <<roles, audit, acting>>

\* The invite itself is made in module Accounts.
Invite(t) ==
    /\ Has(t, "accounts:invite")
    /\ Continue(t, "authorized", Recording)
    /\ UNCHANGED <<roles, held, audit, acting>>

RevokeSessions(t) ==
    /\ Acts(t, "revoke_sessions", Recording)
    /\ UNCHANGED <<roles, held, audit, acting>>

DeleteProfile(t) ==
    /\ task[t].at = "act"
    /\ Acts(t, "delete_profile",
            IF task[t].target \in DOMAIN held THEN Recording ELSE Idle)
    /\ UNCHANGED <<roles, held, audit, acting>>

-----------------------------------------------------------------------------
(* The audit log, and requests that die *)

\* Mutation of Trimmed: the insert trims nothing.
TrimmedLater(entries) == entries

Trimmed(entries) == IF entries > MaxEntries THEN MaxEntries ELSE entries

\* SqlAuditLog.record trims in the transaction of its insert.
Record(t) ==
    /\ Continue(t, "record", Idle)
    /\ audit' = Trimmed(audit + 1)
    /\ UNCHANGED <<roles, held, acting>>

Abandon(t) ==
    /\ task[t] # Idle
    /\ task' = [task EXCEPT ![t] = Idle]
    /\ UNCHANGED <<roles, held, audit, acting>>

\* The routes of api/routers/admin.py, once the actor and what it may do are known.
RoleRoutes(t) ==
    \/ \E n \in RoleName, wanted \in Wanted : CreateRole(t, n, wanted) \/ UpdateRole(t, n, wanted)
    \/ \E n \in RoleName : DeleteRole(t, n)

RoleAssignmentRoute(t) ==
    \E a \in Account, names \in SUBSET RoleName : SetAccountRoles(t, a, names)

AccountRoutes(t) ==
    \E a \in Account, act \in Against \ {"delete_profile"} : LoadTarget(t, a, act)

ProfileRoute(t) == \E a \in Account : LoadTarget(t, a, "delete_profile")

ContinueRequest(t) ==
    \/ AddRole(t) \/ SaveRole(t)
    \/ \E n \in RoleName : ReadRole(t, n)
    \/ SetRoles(t)
    \/ ResolveTarget(t)
    \/ SetStatus(t) \/ SaveStatus(t) \/ IssuePasswordReset(t)
    \/ DeleteAccount(t) \/ RevokeSessions(t) \/ DeleteProfile(t)
    \/ Record(t)

Next ==
    \E t \in Task :
        \/ \E a \in Account : Ask(t, a)
        \/ ResolveActor(t)
        \/ RoleRoutes(t) \/ RoleAssignmentRoute(t) \/ AccountRoutes(t) \/ ProfileRoute(t)
        \/ Invite(t)
        \/ ContinueRequest(t)
        \/ Abandon(t)

Spec == Init /\ [][Next]_vars

-----------------------------------------------------------------------------
(* Properties *)

TaskState ==
    [at: {"idle", "record"}]
    \cup [at: {"resolve"}, actor: Account, names: SUBSET RoleName]
    \cup [at: {"authorized"}, actor: Account, perms: SUBSET Permission]
    \cup [at: {"add_role", "save_role"}, name: RoleName, wanted: Wanted]
    \cup [at: {"read_roles"}, perms: SUBSET Permission, target: Account,
          names: SUBSET RoleName, unread: SUBSET RoleName, granted: SUBSET Permission]
    \cup [at: {"resolve_target", "act"}, perms: SUBSET Permission,
          target: Account, names: SUBSET RoleName, act: Against]
    \cup [at: {"save_status"}, target: Account, names: SUBSET RoleName]

\* The tables are well formed, and the audit log stays within its bound.
TypeOK ==
    /\ DOMAIN roles \subseteq RoleName
    /\ roles \in [DOMAIN roles -> SUBSET Permission]
    /\ DOMAIN held \subseteq Account
    /\ held \in [DOMAIN held -> SUBSET RoleName]
    /\ audit \in 0 .. MaxEntries
    /\ acting \subseteq Account
    /\ task \in [Task -> TaskState]

(***************************************************************************)
(* The two rules of domain/rbac.py and _check_can_act_on close every path  *)
(* by which the staff could come to a permission none of them began with:  *)
(* not by granting, writing or editing roles, not by resetting a password, *)
(* and not by any interleaving of those, although each is decided from     *)
(* rows that were read before.                                             *)
(***************************************************************************)
Ceiling ==
    UNION {UNION {SeedRoles[n] : n \in SeedHeld[a]} : a \in Staff \cap DOMAIN SeedHeld}

NoEscalation ==
    \A a \in acting \cap DOMAIN held : Resolve(held[a]) \subseteq Ceiling

(***************************************************************************)
(* A role is never deleted under an account that holds it, nor granted     *)
(* after it was deleted, by an assignment or by a status change that       *)
(* writes back the roles it read (account_roles and SqlRoleStore.delete).  *)
(***************************************************************************)
HeldRolesExist == \A a \in DOMAIN held : held[a] \subseteq DOMAIN roles

(***************************************************************************)
(* "Built-in roles are immutable": no create, edit or delete, however it   *)
(* interleaves with others, changes what a built-in role allows.           *)
(***************************************************************************)
BuiltinsIntact ==
    \A n \in DOMAIN Builtin : n \in DOMAIN roles /\ roles[n] = Builtin[n]
=============================================================================
