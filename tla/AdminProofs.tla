----------------------------- MODULE AdminProofs -----------------------------
(***************************************************************************)
(* Theorems about Admin, for any accounts, roles, permissions and requests *)
(* in flight, any seed and any staff.                                      *)
(***************************************************************************)
EXTENDS Admin, TLAPS

-----------------------------------------------------------------------------
(* Type correctness *)

\* The next-state relation, request by request.
LEMMA Steps ==
    ASSUME Next
    PROVE  \E t \in Task :
        \/ \E a \in Account : Ask(t, a)
        \/ ResolveActor(t)
        \/ \E n \in RoleName, wanted \in Wanted : CreateRole(t, n, wanted) \/ UpdateRole(t, n, wanted)
        \/ AddRole(t) \/ SaveRole(t)
        \/ \E n \in RoleName : DeleteRole(t, n) \/ ReadRole(t, n)
        \/ \E a \in Account, names \in SUBSET RoleName : SetAccountRoles(t, a, names)
        \/ SetRoles(t)
        \/ \E a \in Account, act \in Against : LoadTarget(t, a, act)
        \/ ResolveTarget(t)
        \/ SetStatus(t) \/ SaveStatus(t) \/ IssuePasswordReset(t)
        \/ DeleteAccount(t) \/ RevokeSessions(t) \/ DeleteProfile(t)
        \/ Invite(t) \/ Record(t)
        \/ Abandon(t)
<1>1. "delete_profile" \in Against
  BY DEF Against, Needs
<1> QED
  BY <1>1 DEF Next, RoleRoutes, RoleAssignmentRoute, AccountRoutes, ProfileRoute, ContinueRequest

\* What a request carries is determined by the step it is about to take.
LEMMA TaskShapes ==
    ASSUME NEW r \in TaskState
    PROVE  /\ r.at = "resolve" => r.actor \in Account /\ r.names \in SUBSET RoleName
           /\ r.at = "authorized" => r.actor \in Account /\ r.perms \in SUBSET Permission
           /\ r.at \in {"add_role", "save_role"} => r.name \in RoleName /\ r.wanted \in Wanted
           /\ r.at = "read_roles" =>
                 r \in [at: {"read_roles"}, perms: SUBSET Permission, target: Account,
                        names: SUBSET RoleName, unread: SUBSET RoleName,
                        granted: SUBSET Permission]
           /\ r.at \in {"resolve_target", "act"} =>
                 r \in [at: {"resolve_target", "act"}, perms: SUBSET Permission,
                        target: Account, names: SUBSET RoleName, act: Against]
           /\ r.at = "save_status" => r.target \in Account /\ r.names \in SUBSET RoleName
BY DEF TaskState

\* A free slot, and a request left with its audit entry, are request states.
LEMMA RestingTyped == Idle \in TaskState /\ Recording \in TaskState
BY DEF Idle, Recording, TaskState

\* Changing one request's state keeps the others.
LEMMA TaskUpdate ==
    ASSUME task \in [Task -> TaskState], NEW t \in Task, NEW r \in TaskState,
           task' = [task EXCEPT ![t] = r]
    PROVE  task' \in [Task -> TaskState]
OBVIOUS

\* Resolving names yields permissions.
LEMMA ResolveTyped ==
    ASSUME TypeOK, NEW names
    PROVE  Resolve(names) \in SUBSET Permission
BY DEF Resolve, TypeOK

\* The requests that start, look something up or end write no table.
LEMMA ReadsTyped ==
    ASSUME TypeOK, NEW t \in Task,
           \/ \E a \in Account : Ask(t, a)
           \/ ResolveActor(t)
           \/ \E n \in RoleName, wanted \in Wanted : CreateRole(t, n, wanted) \/ UpdateRole(t, n, wanted)
           \/ \E n \in RoleName : ReadRole(t, n)
           \/ \E a \in Account, names \in SUBSET RoleName : SetAccountRoles(t, a, names)
           \/ \E a \in Account, act \in Against : LoadTarget(t, a, act)
           \/ ResolveTarget(t)
           \/ SetStatus(t) \/ Invite(t) \/ RevokeSessions(t) \/ DeleteProfile(t)
           \/ Abandon(t)
    PROVE  TypeOK'
<1> DEFINE r == task[t]
<1>0. r \in TaskState
  BY DEF TypeOK
<1> SUFFICES /\ UNCHANGED <<roles, held, audit, acting>>
             /\ \E q \in TaskState : task' = [task EXCEPT ![t] = q]
  BY TaskUpdate DEF TypeOK
<1>1. ASSUME NEW a \in Account, Ask(t, a)
      PROVE  UNCHANGED <<roles, held, audit, acting>>
             /\ \E q \in TaskState : task' = [task EXCEPT ![t] = q]
  <2>1. [at |-> "resolve", actor |-> a, names |-> held[a]] \in TaskState
    BY <1>1 DEF Ask, TaskState, TypeOK
  <2> QED  BY <1>1, <2>1 DEF Ask, Continue
<1>2. CASE ResolveActor(t)
  <2>1. r.at = "resolve"
    BY <1>2 DEF ResolveActor, Continue
  <2>2. [at |-> "authorized", actor |-> r.actor, perms |-> Resolve(r.names)] \in TaskState
    BY <1>0, <2>1, TaskShapes, ResolveTyped DEF TaskState
  <2> QED  BY <1>2, <2>2 DEF ResolveActor, Continue
<1>3. ASSUME NEW n \in RoleName, NEW wanted \in Wanted,
             CreateRole(t, n, wanted) \/ UpdateRole(t, n, wanted)
      PROVE  UNCHANGED <<roles, held, audit, acting>>
             /\ \E q \in TaskState : task' = [task EXCEPT ![t] = q]
  <2>1. /\ [at |-> "add_role", name |-> n, wanted |-> wanted] \in TaskState
        /\ [at |-> "save_role", name |-> n, wanted |-> wanted] \in TaskState
    BY DEF TaskState
  <2> QED  BY <1>3, <2>1 DEF CreateRole, UpdateRole, Continue
<1>4. ASSUME NEW n \in RoleName, ReadRole(t, n)
      PROVE  UNCHANGED <<roles, held, audit, acting>>
             /\ \E q \in TaskState : task' = [task EXCEPT ![t] = q]
  <2>1. r \in [at: {"read_roles"}, perms: SUBSET Permission, target: Account,
               names: SUBSET RoleName, unread: SUBSET RoleName, granted: SUBSET Permission]
    BY <1>0, <1>4, TaskShapes DEF ReadRole
  <2>2. n \in DOMAIN roles => roles[n] \in SUBSET Permission
    BY DEF TypeOK
  <2>3. n \in DOMAIN roles =>
          [r EXCEPT !.unread = @ \ {n}, !.granted = @ \cup roles[n]] \in TaskState
    BY <2>1, <2>2 DEF TaskState
  <2> QED  BY <1>4, <2>3, RestingTyped DEF ReadRole, Continue
<1>5. ASSUME NEW a \in Account, NEW names \in SUBSET RoleName, SetAccountRoles(t, a, names)
      PROVE  UNCHANGED <<roles, held, audit, acting>>
             /\ \E q \in TaskState : task' = [task EXCEPT ![t] = q]
  <2>1. r.perms \in SUBSET Permission
    BY <1>0, <1>5, TaskShapes DEF SetAccountRoles, Has
  <2>2. [at |-> "read_roles", perms |-> r.perms, target |-> a,
         names |-> names, unread |-> names, granted |-> {}] \in TaskState
    BY <2>1 DEF TaskState
  <2> QED  BY <1>5, <2>2 DEF SetAccountRoles, Continue
<1>6. ASSUME NEW a \in Account, NEW act \in Against, LoadTarget(t, a, act)
      PROVE  UNCHANGED <<roles, held, audit, acting>>
             /\ \E q \in TaskState : task' = [task EXCEPT ![t] = q]
  <2>1. r.perms \in SUBSET Permission /\ held[a] \in SUBSET RoleName
    BY <1>0, <1>6, TaskShapes DEF LoadTarget, Has, TypeOK
  <2>2. \A step \in {"act", "resolve_target"} :
          [at |-> step, perms |-> r.perms, target |-> a, names |-> held[a], act |-> act]
            \in TaskState
    BY <2>1 DEF TaskState
  <2> QED  BY <1>6, <2>2 DEF LoadTarget, Continue
<1>7. CASE ResolveTarget(t)
  <2>1. r \in [at: {"resolve_target", "act"}, perms: SUBSET Permission,
               target: Account, names: SUBSET RoleName, act: Against]
    BY <1>0, <1>7, TaskShapes DEF ResolveTarget, Continue
  <2>2. [r EXCEPT !.at = "act"] \in TaskState
    BY <2>1 DEF TaskState
  <2> QED  BY <1>7, <2>2, RestingTyped DEF ResolveTarget, Continue
<1>8. CASE SetStatus(t)
  <2>1. r.target \in Account
    BY <1>0, <1>8, TaskShapes DEF SetStatus, Acts
  <2>2. r.target \in DOMAIN held =>
          [at |-> "save_status", target |-> r.target, names |-> held[r.target]] \in TaskState
    BY <2>1 DEF TaskState, TypeOK
  <2> QED  BY <1>8, <2>2, RestingTyped DEF SetStatus, Acts
<1>9. CASE Invite(t) \/ RevokeSessions(t) \/ DeleteProfile(t) \/ Abandon(t)
  BY <1>9, RestingTyped DEF Invite, RevokeSessions, DeleteProfile, Abandon, Acts, Continue
<1> QED  BY <1>1, <1>2, <1>3, <1>4, <1>5, <1>6, <1>7, <1>8, <1>9

\* Every step keeps the tables and the requests well formed.
LEMMA NextTyped == ASSUME TypeOK, [Next]_vars PROVE TypeOK'
<1>0. CASE UNCHANGED vars
  BY <1>0 DEF vars, TypeOK
<1> SUFFICES ASSUME NEW t \in Task,
                    \/ AddRole(t) \/ SaveRole(t)
                    \/ \E n \in RoleName : DeleteRole(t, n)
                    \/ SetRoles(t) \/ SaveStatus(t)
                    \/ IssuePasswordReset(t) \/ DeleteAccount(t)
                    \/ Record(t)
             PROVE  TypeOK'
  BY <1>0, ReadsTyped, Steps
<1> DEFINE r == task[t]
<1>1. r \in TaskState
  BY DEF TypeOK
<1>2. ASSUME task' = [task EXCEPT ![t] = Idle] \/ task' = [task EXCEPT ![t] = Recording]
      PROVE  task' \in [Task -> TaskState]
  BY <1>2, RestingTyped, TaskUpdate DEF TypeOK
<1>3. CASE AddRole(t)
  <2>1. r.name \in RoleName /\ r.wanted \in SUBSET Permission
    BY <1>1, <1>3, TaskShapes, StaffAssumption DEF AddRole
  <2>2. /\ DOMAIN Put(roles, r.name, r.wanted) \subseteq RoleName
        /\ Put(roles, r.name, r.wanted)
             \in [DOMAIN Put(roles, r.name, r.wanted) -> SUBSET Permission]
    BY <2>1 DEF Put, TypeOK
  <2>3. task' \in [Task -> TaskState]
    BY <1>2, <1>3 DEF AddRole, Continue
  <2> QED  BY <1>3, <2>2, <2>3 DEF AddRole, TypeOK
<1>4. CASE SaveRole(t)
  <2>1. r.name \in RoleName /\ r.wanted \in SUBSET Permission
    BY <1>1, <1>4, TaskShapes, StaffAssumption DEF SaveRole, Continue
  <2>2. task' \in [Task -> TaskState]
    BY <1>2, <1>4 DEF SaveRole, Continue
  <2> QED  BY <1>4, <2>1, <2>2 DEF SaveRole, TypeOK
<1>5. ASSUME NEW n \in RoleName, DeleteRole(t, n) PROVE TypeOK'
  <2>1. /\ DOMAIN Without(roles, {n}) \subseteq RoleName
        /\ Without(roles, {n}) \in [DOMAIN Without(roles, {n}) -> SUBSET Permission]
    BY DEF Without, TypeOK
  <2>2. task' \in [Task -> TaskState]
    BY <1>2, <1>5 DEF DeleteRole, Continue
  <2> QED  BY <1>5, <2>1, <2>2 DEF DeleteRole, TypeOK
<1>6. CASE SetRoles(t)
  <2>1. r.names \in SUBSET RoleName
    BY <1>1, <1>6, TaskShapes DEF SetRoles
  <2>2. task' \in [Task -> TaskState]
    BY <1>2, <1>6 DEF SetRoles, Continue
  <2> QED  BY <1>6, <2>1, <2>2 DEF SetRoles, TypeOK
<1>7. CASE SaveStatus(t)
  <2>1. r.names \in SUBSET RoleName
    BY <1>1, <1>7, TaskShapes DEF SaveStatus, Continue
  <2>2. task' \in [Task -> TaskState]
    BY <1>2, <1>7 DEF SaveStatus, Continue
  <2> QED  BY <1>7, <2>1, <2>2 DEF SaveStatus, TypeOK
<1>8. CASE IssuePasswordReset(t)
  <2>1. r.target \in Account
    BY <1>1, <1>8, TaskShapes DEF IssuePasswordReset
  <2>2. task' \in [Task -> TaskState]
    BY <1>2, <1>8 DEF IssuePasswordReset, Acts
  <2> QED  BY <1>8, <2>1, <2>2 DEF IssuePasswordReset, TypeOK
<1>9. CASE DeleteAccount(t)
  <2>1. /\ DOMAIN Without(held, {r.target}) \subseteq Account
        /\ Without(held, {r.target}) \in [DOMAIN Without(held, {r.target}) -> SUBSET RoleName]
    BY DEF Without, TypeOK
  <2>2. task' \in [Task -> TaskState]
    BY <1>2, <1>9 DEF DeleteAccount, Acts
  <2> QED  BY <1>9, <2>1, <2>2 DEF DeleteAccount, TypeOK
<1>10. CASE Record(t)
  <2>1. audit' \in 0 .. MaxEntries
    BY <1>10, BoundAssumption DEF Record, Trimmed, TypeOK
  <2>2. task' \in [Task -> TaskState]
    BY <1>2, <1>10 DEF Record, Continue
  <2> QED  BY <1>10, <2>1, <2>2 DEF Record, TypeOK
<1> QED  BY <1>3, <1>4, <1>5, <1>6, <1>7, <1>8, <1>9, <1>10

(***************************************************************************)
(* The roles table, the roles accounts hold and the audit log are always   *)
(* well formed, and the log never exceeds its bound.                       *)
(***************************************************************************)
THEOREM TypeCorrect == Spec => []TypeOK
<1>1. Init => TypeOK
  <2> SUFFICES ASSUME Init PROVE TypeOK
    OBVIOUS
  <2>1. task \in [Task -> TaskState]
    BY RestingTyped DEF Init
  <2>2. audit \in 0 .. MaxEntries
    BY BoundAssumption DEF Init
  <2> QED  BY <2>1, <2>2, SeedAssumption, StaffAssumption DEF Init, TypeOK
<1> QED  BY <1>1, NextTyped, PTL DEF Spec

-----------------------------------------------------------------------------
(* The staff stay below the ceiling *)

\* Roles that allow nothing beyond the ceiling, those that do not exist included.
Low == {n \in RoleName : n \in DOMAIN roles => roles[n] \subseteq Ceiling}

(***************************************************************************)
(* What a request in flight can still do is bounded by the ceiling.  The   *)
(* roles it has read may be out of date, and so may those of its target;   *)
(* but whatever was written since is low.                                  *)
(***************************************************************************)
Bounded(r) ==
    /\ r.at = "resolve" => r.names \subseteq Low /\ r.actor \in acting
    /\ r.at = "authorized" => r.perms \subseteq Ceiling /\ r.actor \in acting
    /\ r.at \in {"add_role", "save_role"} => r.wanted \subseteq Ceiling
    /\ r.at = "read_roles" =>
          /\ r.perms \subseteq Ceiling
          /\ r.granted \subseteq r.perms => r.names \ r.unread \subseteq Low
    /\ r.at = "resolve_target" =>
          /\ r.perms \subseteq Ceiling
          /\ r.target \in DOMAIN held => held[r.target] = r.names \/ held[r.target] \subseteq Low
    /\ r.at = "act" => (r.target \in DOMAIN held => held[r.target] \subseteq Low)
    /\ r.at = "save_status" => r.names \subseteq Low

ActingLow == \A a \in acting \cap DOMAIN held : held[a] \subseteq Low

\* The inductive invariant behind NoEscalation.
StaffBounded == ActingLow /\ \A t \in Task : Bounded(task[t])

\* Roles that resolve to nothing beyond the ceiling are low.
LEMMA LowNames ==
    ASSUME NEW names \in SUBSET RoleName, Resolve(names) \subseteq Ceiling
    PROVE  names \subseteq Low
BY DEF Resolve, Low

\* Low roles resolve to nothing beyond the ceiling.
LEMMA ResolveLow ==
    ASSUME NEW names, names \subseteq Low
    PROVE  Resolve(names) \subseteq Ceiling
BY DEF Resolve, Low

\* A request that ends, or only has its audit entry left, can do no harm.
LEMMA RestingBounded == Bounded(Idle)' /\ Bounded(Recording)'
BY DEF Bounded, Idle, Recording

\* What a step writes: no role rises above the ceiling.
LEMMA LowGrows ==
    ASSUME TypeOK, StaffBounded, NEW t \in Task,
           \/ roles' = roles
           \/ AddRole(t) \/ SaveRole(t) \/ \E n \in RoleName : DeleteRole(t, n)
    PROVE  Low \subseteq Low'
<1> DEFINE r == task[t]
<1>0. Bounded(r)
  BY DEF StaffBounded
<1>1. CASE roles' = roles
  BY <1>1 DEF Low
<1>2. CASE AddRole(t)
  <2>1. r.wanted \subseteq Ceiling
    BY <1>0, <1>2 DEF AddRole, Bounded
  <2>2. roles' = roles \/ roles' = Put(roles, r.name, r.wanted)
    BY <1>2 DEF AddRole
  <2> QED  BY <2>1, <2>2 DEF Low, Put
<1>3. CASE SaveRole(t)
  <2>1. r.wanted \subseteq Ceiling
    BY <1>0, <1>3 DEF SaveRole, Continue, Bounded
  <2>2. roles' = roles \/ (r.name \in DOMAIN roles /\ roles' = [roles EXCEPT ![r.name] = r.wanted])
    BY <1>3 DEF SaveRole
  <2> QED  BY <2>1, <2>2 DEF Low
<1>4. ASSUME NEW n \in RoleName, DeleteRole(t, n) PROVE Low \subseteq Low'
  BY <1>4 DEF DeleteRole, Low, Without
<1> QED  BY <1>1, <1>2, <1>3, <1>4

(***************************************************************************)
(* A request that is not the one taking the step stays bounded when roles  *)
(* only become lower, held roles change only to low ones and nobody is     *)
(* taken out of the staff.                                                 *)
(***************************************************************************)
LEMMA OthersBounded ==
    ASSUME NEW r \in TaskState, Bounded(r),
           Low \subseteq Low', acting \subseteq acting',
           DOMAIN held' \subseteq DOMAIN held,
           \A a \in DOMAIN held' : held'[a] = held[a] \/ held'[a] \subseteq Low
    PROVE  Bounded(r)'
<1>1. r.at = "resolve_target" =>
        (r.target \in DOMAIN held' => held'[r.target] = r.names \/ held'[r.target] \subseteq Low')
  BY DEF Bounded
<1>2. r.at = "act" => (r.target \in DOMAIN held' => held'[r.target] \subseteq Low')
  BY DEF Bounded
<1> QED  BY <1>1, <1>2 DEF Bounded

\* Such a step keeps the invariant when its own request stays bounded too.
LEMMA StepBounded ==
    ASSUME TypeOK, StaffBounded, NEW t \in Task, NEW q,
           task' = [task EXCEPT ![t] = q], Bounded(q)',
           Low \subseteq Low', acting \subseteq acting',
           \A a \in acting' \ acting : a \in DOMAIN held' => held'[a] \subseteq Low',
           DOMAIN held' \subseteq DOMAIN held,
           \A a \in DOMAIN held' : held'[a] = held[a] \/ held'[a] \subseteq Low
    PROVE  StaffBounded'
<1>1. ActingLow'
  BY DEF StaffBounded, ActingLow
<1>2. ASSUME NEW u \in Task PROVE Bounded(task[u])'
  <2>1. CASE u = t
    <3>1. task'[u] = q
      BY <2>1 DEF TypeOK
    <3> QED  BY <3>1 DEF Bounded
  <2>2. CASE u # t
    <3>1. task'[u] = task[u] /\ task[u] \in TaskState /\ Bounded(task[u])
      BY <2>2 DEF TypeOK, StaffBounded
    <3> QED  BY <3>1, OthersBounded DEF Bounded
  <2> QED  BY <2>1, <2>2
<1> QED  BY <1>1, <1>2 DEF StaffBounded

\* The steps that write neither roles, nor who holds them, nor the staff.
LEMMA ReadsBounded ==
    ASSUME TypeOK, StaffBounded, NEW t \in Task, NEW q,
           task' = [task EXCEPT ![t] = q], Bounded(q)',
           UNCHANGED <<roles, held, acting>>
    PROVE  StaffBounded'
BY StepBounded DEF Low

\* Starting, looking things up and ending keep the invariant.
LEMMA LookupsBounded ==
    ASSUME TypeOK, StaffBounded, NEW t \in Task,
           \/ \E a \in Account : Ask(t, a)
           \/ ResolveActor(t)
           \/ \E n \in RoleName, wanted \in Wanted : CreateRole(t, n, wanted) \/ UpdateRole(t, n, wanted)
           \/ \E n \in RoleName : ReadRole(t, n)
           \/ \E a \in Account, names \in SUBSET RoleName : SetAccountRoles(t, a, names)
           \/ Invite(t) \/ RevokeSessions(t) \/ DeleteProfile(t)
           \/ Record(t) \/ Abandon(t)
    PROVE  StaffBounded'
<1> DEFINE r == task[t]
<1>0. r \in TaskState /\ Bounded(r)
  BY DEF TypeOK, StaffBounded
<1>1. ASSUME NEW a \in Account, Ask(t, a) PROVE StaffBounded'
  <2>0. PICK q : q = [at |-> "resolve", actor |-> a, names |-> held[a]]
    OBVIOUS
  <2>1. held[a] \subseteq Low /\ a \in acting
    BY <1>1 DEF Ask, StaffBounded, ActingLow
  <2>2. Bounded(q)'
    BY <1>1, <2>0, <2>1 DEF Ask, Bounded, Low
  <2> QED  BY <1>1, <2>0, <2>2, ReadsBounded DEF Ask, Continue
<1>2. CASE ResolveActor(t)
  <2>0. PICK q : q = [at |-> "authorized", actor |-> r.actor, perms |-> Resolve(r.names)]
    OBVIOUS
  <2>1. r.names \subseteq Low /\ r.actor \in acting
    BY <1>0, <1>2 DEF ResolveActor, Continue, Bounded
  <2>2. Resolve(r.names) \subseteq Ceiling
    BY <2>1, ResolveLow
  <2>3. q.at = "authorized" /\ q.perms \subseteq Ceiling /\ q.actor \in acting'
    BY <1>2, <2>0, <2>1, <2>2 DEF ResolveActor
  <2>4. task' = [task EXCEPT ![t] = q] /\ UNCHANGED <<roles, held, acting>>
    BY <1>2, <2>0 DEF ResolveActor, Continue
  <2>5. Bounded(q)'
    BY <2>3 DEF Bounded
  <2> QED  BY <2>4, <2>5, ReadsBounded
<1>3. ASSUME NEW n \in RoleName, NEW wanted \in Wanted,
             CreateRole(t, n, wanted) \/ UpdateRole(t, n, wanted)
      PROVE  StaffBounded'
  <2>1. wanted \subseteq Ceiling
    BY <1>0, <1>3 DEF CreateRole, UpdateRole, Has, Grantable, Bounded
  <2>2. PICK step \in {"add_role", "save_role"} :
          task' = [task EXCEPT ![t] = [at |-> step, name |-> n, wanted |-> wanted]]
    BY <1>3 DEF CreateRole, UpdateRole, Continue
  <2>3. Bounded([at |-> step, name |-> n, wanted |-> wanted])'
    BY <2>1 DEF Bounded
  <2> QED  BY <1>3, <2>2, <2>3, ReadsBounded DEF CreateRole, UpdateRole
<1>4. ASSUME NEW n \in RoleName, ReadRole(t, n) PROVE StaffBounded'
  <2>0. PICK q : q = [r EXCEPT !.unread = @ \ {n}, !.granted = @ \cup roles[n]]
    OBVIOUS
  <2>1. /\ r \in [at: {"read_roles"}, perms: SUBSET Permission, target: Account,
                  names: SUBSET RoleName, unread: SUBSET RoleName,
                  granted: SUBSET Permission]
        /\ r.perms \subseteq Ceiling
        /\ r.granted \subseteq r.perms => r.names \ r.unread \subseteq Low
    BY <1>0, <1>4, TaskShapes DEF ReadRole, Bounded
  <2>2. /\ q.at = "read_roles" /\ q.perms = r.perms /\ q.names = r.names
        /\ q.unread = r.unread \ {n} /\ q.granted = r.granted \cup roles[n]
    BY <2>0, <2>1
  <2>3. CASE n \in DOMAIN roles
    <3>1. q.granted \subseteq q.perms => q.names \ q.unread \subseteq Low
      BY <2>1, <2>2 DEF Low
    <3>2. Low' = Low
      BY <1>4 DEF ReadRole, Low
    <3>3. Bounded(q)'
      BY <2>1, <2>2, <3>1, <3>2 DEF Bounded
    <3> QED  BY <1>4, <2>0, <2>3, <3>3, ReadsBounded DEF ReadRole, Continue
  <2>4. CASE n \notin DOMAIN roles
    BY <1>4, <2>4, RestingBounded, ReadsBounded DEF ReadRole, Continue
  <2> QED  BY <2>3, <2>4
<1>5. ASSUME NEW a \in Account, NEW names \in SUBSET RoleName, SetAccountRoles(t, a, names)
      PROVE  StaffBounded'
  <2>0. PICK q : q = [at |-> "read_roles", perms |-> r.perms, target |-> a,
                      names |-> names, unread |-> names, granted |-> {}]
    OBVIOUS
  <2>1. r.perms \subseteq Ceiling
    BY <1>0, <1>5 DEF SetAccountRoles, Has, Bounded
  <2>2. q.at = "read_roles" /\ q.perms \subseteq Ceiling /\ q.names \ q.unread = {}
    BY <2>0, <2>1
  <2>3. Bounded(q)'
    BY <2>2 DEF Bounded
  <2> QED  BY <1>5, <2>0, <2>3, ReadsBounded DEF SetAccountRoles, Continue
<1>6. CASE Invite(t) \/ RevokeSessions(t) \/ DeleteProfile(t) \/ Record(t) \/ Abandon(t)
  BY <1>6, RestingBounded, ReadsBounded
     DEF Invite, RevokeSessions, DeleteProfile, Record, Abandon, Acts, Continue
<1> QED  BY <1>1, <1>2, <1>3, <1>4, <1>5, <1>6

\* Acting on a person keeps the invariant: what the target held when it was
\* read, and whatever it was given since, is low.
LEMMA TargetsBounded ==
    ASSUME TypeOK, StaffBounded, NEW t \in Task,
           \/ \E a \in Account, act \in Against : LoadTarget(t, a, act)
           \/ ResolveTarget(t) \/ SetStatus(t)
    PROVE  StaffBounded'
<1> DEFINE r == task[t]
<1>0. r \in TaskState /\ Bounded(r)
  BY DEF TypeOK, StaffBounded
<1>1. ASSUME NEW a \in Account, NEW act \in Against, LoadTarget(t, a, act) PROVE StaffBounded'
  <2>0. PICK q : q = [at |-> IF r.actor = a THEN "act" ELSE "resolve_target",
                      perms |-> r.perms, target |-> a, names |-> held[a], act |-> act]
    OBVIOUS
  <2>1. r.perms \subseteq Ceiling /\ r.actor \in acting /\ a \in DOMAIN held
    BY <1>0, <1>1 DEF LoadTarget, Has, Bounded
  <2>2. r.actor = a => held[a] \subseteq Low
    BY <2>1 DEF StaffBounded, ActingLow
  <2>3. Low' = Low /\ held' = held
    BY <1>1 DEF LoadTarget, Low
  <2>4. /\ q.at = "act" => held[q.target] \subseteq Low
        /\ q.at = "resolve_target" => q.perms \subseteq Ceiling /\ held[q.target] = q.names
        /\ q.at \in {"act", "resolve_target"}
    BY <2>0, <2>1, <2>2
  <2>5. Bounded(q)'
    BY <2>3, <2>4 DEF Bounded
  <2> QED  BY <1>1, <2>0, <2>5, ReadsBounded DEF LoadTarget, Continue
<1>2. CASE ResolveTarget(t)
  <2>0. PICK q : q = IF Resolve(r.names) \subseteq r.perms THEN [r EXCEPT !.at = "act"] ELSE Idle
    OBVIOUS
  <2>1. /\ r \in [at: {"resolve_target", "act"}, perms: SUBSET Permission,
                  target: Account, names: SUBSET RoleName, act: Against]
        /\ r.perms \subseteq Ceiling
        /\ r.target \in DOMAIN held => held[r.target] = r.names \/ held[r.target] \subseteq Low
    BY <1>0, <1>2, TaskShapes DEF ResolveTarget, Continue, Bounded
  <2>2. Low' = Low /\ held' = held
    BY <1>2 DEF ResolveTarget, Low
  <2>3. CASE Resolve(r.names) \subseteq r.perms
    <3>1. r.names \subseteq Low
      BY <2>1, <2>3, LowNames
    <3>2. q.at = "act" /\ q.target = r.target
      BY <2>0, <2>1, <2>3
    <3> QED  BY <1>2, <2>0, <2>1, <2>2, <3>1, <3>2, ReadsBounded
             DEF ResolveTarget, Continue, Bounded
  <2>4. CASE ~ (Resolve(r.names) \subseteq r.perms)
    BY <1>2, <2>4, RestingBounded, ReadsBounded DEF ResolveTarget, Continue
  <2> QED  BY <2>3, <2>4
<1>3. CASE SetStatus(t)
  <2>0. PICK q : q = IF r.target \in DOMAIN held
                     THEN [at |-> "save_status", target |-> r.target, names |-> held[r.target]]
                     ELSE Recording
    OBVIOUS
  <2>1. r.target \in DOMAIN held => held[r.target] \subseteq Low
    BY <1>0, <1>3 DEF SetStatus, Acts, Bounded
  <2>2. Low' = Low
    BY <1>3 DEF SetStatus, Low
  <2>3. q.at \in {"save_status", "record"} /\ (q.at = "save_status" => q.names \subseteq Low)
    BY <2>0, <2>1 DEF Recording
  <2>4. Bounded(q)'
    BY <2>2, <2>3 DEF Bounded
  <2> QED  BY <1>3, <2>0, <2>4, ReadsBounded DEF SetStatus, Acts
<1> QED  BY <1>1, <1>2, <1>3

\* The steps that write keep the invariant.
LEMMA WritesBounded ==
    ASSUME TypeOK, StaffBounded, NEW t \in Task,
           \/ AddRole(t) \/ SaveRole(t)
           \/ \E n \in RoleName : DeleteRole(t, n)
           \/ SetRoles(t) \/ SaveStatus(t)
           \/ IssuePasswordReset(t) \/ DeleteAccount(t)
    PROVE  StaffBounded'
<1> DEFINE r == task[t]
<1>0. r \in TaskState /\ Bounded(r)
  BY DEF TypeOK, StaffBounded
<1>1. CASE AddRole(t) \/ SaveRole(t) \/ \E n \in RoleName : DeleteRole(t, n)
  <2>1. Low \subseteq Low'
    BY <1>1, LowGrows
  <2>2. PICK q \in {Idle, Recording} : task' = [task EXCEPT ![t] = q]
    BY <1>1 DEF AddRole, SaveRole, DeleteRole, Continue
  <2>3. Bounded(q)'
    BY <2>2, RestingBounded
  <2>4. UNCHANGED <<held, acting>>
    BY <1>1 DEF AddRole, SaveRole, DeleteRole
  <2> QED  BY <2>1, <2>2, <2>3, <2>4, StepBounded
<1>2. CASE SetRoles(t)
  <2>1. Low' = Low /\ acting' = acting
    BY <1>2 DEF SetRoles, Low
  <2>2. PICK q \in {Idle, Recording} : task' = [task EXCEPT ![t] = q]
    BY <1>2 DEF SetRoles, Continue
  <2>3. Bounded(q)'
    BY <2>2, RestingBounded
  <2>4. Grantable(r, r.granted) => r.names \subseteq Low
    BY <1>0, <1>2 DEF SetRoles, Grantable, Bounded
  <2>5. held' = held \/ (r.names \subseteq Low /\ held' = [held EXCEPT ![r.target] = r.names])
    BY <1>2, <2>4 DEF SetRoles
  <2>6. /\ DOMAIN held' \subseteq DOMAIN held
        /\ \A a \in DOMAIN held' : held'[a] = held[a] \/ held'[a] \subseteq Low
    BY <2>5
  <2> QED  BY <2>1, <2>2, <2>3, <2>6, StepBounded
<1>3. CASE SaveStatus(t)
  <2>1. Low' = Low /\ acting' = acting
    BY <1>3 DEF SaveStatus, Low
  <2>2. PICK q \in {Idle, Recording} : task' = [task EXCEPT ![t] = q]
    BY <1>3 DEF SaveStatus, Continue
  <2>3. Bounded(q)'
    BY <2>2, RestingBounded
  <2>4. r.names \subseteq Low
    BY <1>0, <1>3 DEF SaveStatus, Continue, Bounded
  <2>5. held' = held \/ held' = [held EXCEPT ![r.target] = r.names]
    BY <1>3 DEF SaveStatus
  <2>6. /\ DOMAIN held' \subseteq DOMAIN held
        /\ \A a \in DOMAIN held' : held'[a] = held[a] \/ held'[a] \subseteq Low
    BY <2>4, <2>5
  <2> QED  BY <2>1, <2>2, <2>3, <2>6, StepBounded
<1>4. CASE IssuePasswordReset(t)
  <2>1. Low' = Low /\ held' = held
    BY <1>4 DEF IssuePasswordReset, Low
  <2>2. PICK q \in {Idle, Recording} : task' = [task EXCEPT ![t] = q]
    BY <1>4 DEF IssuePasswordReset, Acts
  <2>3. Bounded(q)'
    BY <2>2, RestingBounded
  <2>4. r.target \in DOMAIN held => held[r.target] \subseteq Low
    BY <1>0, <1>4 DEF IssuePasswordReset, Bounded
  <2>5. acting' = acting \/ acting' = acting \cup {r.target}
    BY <1>4 DEF IssuePasswordReset
  <2>6. \A a \in acting' \ acting : a \in DOMAIN held' => held'[a] \subseteq Low'
    BY <2>1, <2>4, <2>5
  <2> QED  BY <2>1, <2>2, <2>3, <2>5, <2>6, StepBounded
<1>5. CASE DeleteAccount(t)
  <2>1. Low' = Low /\ acting' = acting
    BY <1>5 DEF DeleteAccount, Low
  <2>2. PICK q \in {Idle, Recording} : task' = [task EXCEPT ![t] = q]
    BY <1>5 DEF DeleteAccount, Acts
  <2>3. Bounded(q)'
    BY <2>2, RestingBounded
  <2>4. /\ DOMAIN held' \subseteq DOMAIN held
        /\ \A a \in DOMAIN held' : held'[a] = held[a]
    BY <1>5 DEF DeleteAccount, Without
  <2> QED  BY <2>1, <2>2, <2>3, <2>4, StepBounded
<1> QED  BY <1>1, <1>2, <1>3, <1>4, <1>5

\* The staff hold nothing but low roles to begin with.
LEMMA InitBounded == ASSUME Init PROVE StaffBounded
<1>1. ASSUME NEW a \in acting \cap DOMAIN held, NEW n \in held[a] PROVE n \in Low
  <2>1. a \in Staff \cap DOMAIN SeedHeld /\ n \in SeedHeld[a]
    BY <1>1 DEF Init
  <2>2. n \in DOMAIN SeedRoles /\ n \in RoleName
    BY <2>1, SeedAssumption
  <2>3. SeedRoles[n] \subseteq Ceiling
    BY <2>1 DEF Ceiling
  <2> QED  BY <2>2, <2>3 DEF Low, Init
<1>2. \A t \in Task : Bounded(task[t])
  BY DEF Init, Idle, Bounded
<1> QED  BY <1>1, <1>2 DEF StaffBounded, ActingLow

(***************************************************************************)
(* No sequence of administrative requests, however they interleave, gives  *)
(* the staff a permission none of them began with: the two rules of        *)
(* admin/service.py suffice although both are decided from earlier reads.  *)
(***************************************************************************)
THEOREM NoEscalationTheorem == Spec => []NoEscalation
<1>1. Init => StaffBounded
  BY InitBounded
<1>2. TypeOK /\ StaffBounded /\ [Next]_vars => StaffBounded'
  <2> SUFFICES ASSUME TypeOK, StaffBounded, [Next]_vars PROVE StaffBounded'
    OBVIOUS
  <2>1. CASE UNCHANGED vars
    BY <2>1 DEF vars, StaffBounded, ActingLow, Bounded, Low
  <2>2. CASE Next
    BY <2>2, LookupsBounded, TargetsBounded, WritesBounded, Steps
  <2> QED  BY <2>1, <2>2
<1>3. StaffBounded => NoEscalation
  BY ResolveLow DEF StaffBounded, ActingLow, NoEscalation
<1> QED  BY <1>1, <1>2, <1>3, TypeCorrect, PTL DEF Spec

-----------------------------------------------------------------------------
(* The roles table *)

\* Who writes the two tables, and what.
LEMMA Writes ==
    ASSUME TypeOK, Next
    PROVE  \/ UNCHANGED <<roles, held>>
           \/ \E t \in Task : AddRole(t) \/ SaveRole(t) \/ SetRoles(t)
                              \/ SaveStatus(t) \/ DeleteAccount(t)
           \/ \E t \in Task, n \in RoleName : DeleteRole(t, n)
<1>1. ASSUME NEW t \in Task,
             \/ \E a \in Account : Ask(t, a)
             \/ ResolveActor(t)
             \/ \E n \in RoleName, wanted \in Wanted :
                    CreateRole(t, n, wanted) \/ UpdateRole(t, n, wanted)
             \/ \E n \in RoleName : ReadRole(t, n)
             \/ \E a \in Account, names \in SUBSET RoleName : SetAccountRoles(t, a, names)
      PROVE  UNCHANGED <<roles, held>>
  BY <1>1 DEF Ask, ResolveActor, CreateRole, UpdateRole, ReadRole, SetAccountRoles
<1>2. ASSUME NEW t \in Task,
             \/ \E a \in Account, act \in Against : LoadTarget(t, a, act)
             \/ ResolveTarget(t) \/ SetStatus(t) \/ IssuePasswordReset(t) \/ Invite(t)
             \/ RevokeSessions(t) \/ DeleteProfile(t) \/ Record(t) \/ Abandon(t)
      PROVE  UNCHANGED <<roles, held>>
  BY <1>2 DEF LoadTarget, ResolveTarget, SetStatus, IssuePasswordReset, Invite, RevokeSessions,
              DeleteProfile, Record, Abandon
<1> QED  BY <1>1, <1>2, Steps

(***************************************************************************)
(* Every role an account holds exists: SqlRoleStore.delete and the foreign *)
(* key of account_roles decide in the transaction that writes.             *)
(***************************************************************************)
THEOREM HeldRolesExistTheorem == Spec => []HeldRolesExist
<1>1. Init => HeldRolesExist
  BY SeedAssumption DEF Init, HeldRolesExist
<1>2. TypeOK /\ HeldRolesExist /\ [Next]_vars => HeldRolesExist'
  <2> SUFFICES ASSUME TypeOK, HeldRolesExist, [Next]_vars PROVE HeldRolesExist'
    OBVIOUS
  <2>1. CASE UNCHANGED <<roles, held>>
    BY <2>1 DEF HeldRolesExist
  <2>2. ASSUME NEW t \in Task, AddRole(t) \/ SaveRole(t) PROVE HeldRolesExist'
    <3>1. DOMAIN roles \subseteq DOMAIN roles' /\ held' = held
      BY <2>2 DEF AddRole, SaveRole, Put
    <3> QED  BY <3>1 DEF HeldRolesExist
  <2>3. ASSUME NEW t \in Task, NEW n \in RoleName, DeleteRole(t, n) PROVE HeldRolesExist'
    <3>1. /\ \A a \in DOMAIN held : n \notin held[a]
          /\ DOMAIN roles' = DOMAIN roles \ {n} /\ held' = held
      BY <2>3 DEF DeleteRole, Deletable, HoldersOf, Without
    <3> QED  BY <3>1 DEF HeldRolesExist
  <2>4. ASSUME NEW t \in Task, SetRoles(t) \/ SaveStatus(t) PROVE HeldRolesExist'
    <3>1. /\ roles' = roles
          /\ \/ held' = held
             \/ /\ task[t].names \subseteq DOMAIN roles
                /\ held' = [held EXCEPT ![task[t].target] = task[t].names]
      BY <2>4 DEF SetRoles, SaveStatus, CanSetRoles
    <3> QED  BY <3>1 DEF HeldRolesExist
  <2>5. ASSUME NEW t \in Task, DeleteAccount(t) PROVE HeldRolesExist'
    <3>1. /\ roles' = roles /\ DOMAIN held' \subseteq DOMAIN held
          /\ \A a \in DOMAIN held' : held'[a] = held[a]
      BY <2>5 DEF DeleteAccount, Without
    <3> QED  BY <3>1 DEF HeldRolesExist
  <2> QED  BY <2>1, <2>2, <2>3, <2>4, <2>5, Writes DEF vars
<1> QED  BY <1>1, <1>2, TypeCorrect, PTL DEF Spec

\* No edit of a built-in role is under way.
EditsCustom == \A t \in Task : task[t].at = "save_role" => task[t].name \notin DOMAIN Builtin

(***************************************************************************)
(* A built-in role allows what BUILTIN_ROLES says, at all times: an edit   *)
(* checks before it gives way, and what it checked cannot change.          *)
(***************************************************************************)
THEOREM BuiltinsIntactTheorem == Spec => []BuiltinsIntact
<1> DEFINE Inv == BuiltinsIntact /\ EditsCustom
<1>1. Init => Inv
  BY SeedAssumption DEF Init, Idle, BuiltinsIntact, EditsCustom
<1>2. TypeOK /\ Inv /\ [Next]_vars => Inv'
  <2> SUFFICES ASSUME TypeOK, Inv, [Next]_vars PROVE Inv'
    OBVIOUS
  <2>1. BuiltinsIntact'
    <3>1. CASE roles' = roles
      BY <3>1 DEF BuiltinsIntact
    <3>2. ASSUME NEW t \in Task, AddRole(t) PROVE BuiltinsIntact'
      BY <3>2 DEF AddRole, Put, BuiltinsIntact
    <3>3. ASSUME NEW t \in Task, SaveRole(t) PROVE BuiltinsIntact'
      BY <3>3 DEF SaveRole, Continue, EditsCustom, BuiltinsIntact
    <3>4. ASSUME NEW t \in Task, NEW n \in RoleName, DeleteRole(t, n) PROVE BuiltinsIntact'
      BY <3>4 DEF DeleteRole, Deletable, Without, BuiltinsIntact
    <3> QED  BY <3>1, <3>2, <3>3, <3>4, Writes DEF vars, SetRoles, SaveStatus, DeleteAccount
  <2>2. EditsCustom'
    <3>1. CASE UNCHANGED vars
      BY <3>1 DEF vars, EditsCustom
    <3>2. ASSUME NEW t \in Task, NEW n \in RoleName, NEW wanted \in Wanted, UpdateRole(t, n, wanted)
          PROVE  EditsCustom'
      BY <3>2 DEF UpdateRole, Editable, Continue, EditsCustom, TypeOK
    <3>3. ASSUME NEW t \in Task, task'[t].at # "save_role",
                 \A u \in Task \ {t} : task'[u] = task[u]
          PROVE  EditsCustom'
      BY <3>3 DEF EditsCustom
    <3>4. ASSUME NEW t \in Task,
                 \/ \E a \in Account : Ask(t, a)
                 \/ ResolveActor(t)
                 \/ \E n \in RoleName, wanted \in Wanted : CreateRole(t, n, wanted)
                 \/ \E a \in Account, names \in SUBSET RoleName : SetAccountRoles(t, a, names)
                 \/ \E a \in Account, act \in Against : LoadTarget(t, a, act)
          PROVE  EditsCustom'
      <4>1. task'[t].at # "save_role" /\ \A u \in Task \ {t} : task'[u] = task[u]
        BY <3>4 DEF Ask, ResolveActor, CreateRole, SetAccountRoles, LoadTarget, Continue, TypeOK
      <4> QED  BY <3>3, <4>1
    <3>5. ASSUME NEW t \in Task,
                 \/ AddRole(t) \/ SaveRole(t)
                 \/ \E n \in RoleName : DeleteRole(t, n)
                 \/ SetRoles(t) \/ SaveStatus(t)
                 \/ Invite(t) \/ Record(t) \/ Abandon(t)
          PROVE  EditsCustom'
      <4>1. task' = [task EXCEPT ![t] = Idle] \/ task' = [task EXCEPT ![t] = Recording]
        BY <3>5 DEF AddRole, SaveRole, DeleteRole, SetRoles, SaveStatus, Invite, Record, Abandon,
                    Continue
      <4>2. task'[t].at # "save_role" /\ \A u \in Task \ {t} : task'[u] = task[u]
        BY <4>1 DEF Idle, Recording, TypeOK
      <4> QED  BY <3>3, <4>2
    <3>6. ASSUME NEW t \in Task,
                 \/ SetStatus(t) \/ IssuePasswordReset(t)
                 \/ DeleteAccount(t) \/ RevokeSessions(t) \/ DeleteProfile(t)
          PROVE  EditsCustom'
      <4>1. task'[t].at # "save_role" /\ \A u \in Task \ {t} : task'[u] = task[u]
        BY <3>6 DEF SetStatus, IssuePasswordReset, DeleteAccount, RevokeSessions, DeleteProfile,
                    Acts, Idle, Recording, TypeOK
      <4> QED  BY <3>3, <4>1
    <3>7. ASSUME NEW t \in Task, NEW n \in RoleName, ReadRole(t, n) PROVE EditsCustom'
      <4>1. task[t] \in [at: {"read_roles"}, perms: SUBSET Permission, target: Account,
                         names: SUBSET RoleName, unread: SUBSET RoleName,
                         granted: SUBSET Permission]
        BY <3>7, TaskShapes DEF ReadRole, TypeOK
      <4>2. task'[t].at # "save_role" /\ \A u \in Task \ {t} : task'[u] = task[u]
        BY <3>7, <4>1 DEF ReadRole, Continue, Idle, TypeOK
      <4> QED  BY <3>3, <4>2
    <3>8. ASSUME NEW t \in Task, ResolveTarget(t) PROVE EditsCustom'
      <4>1. task[t] \in [at: {"resolve_target", "act"}, perms: SUBSET Permission,
                         target: Account, names: SUBSET RoleName, act: Against]
        BY <3>8, TaskShapes DEF ResolveTarget, Continue, TypeOK
      <4>2. task'[t].at # "save_role" /\ \A u \in Task \ {t} : task'[u] = task[u]
        BY <3>8, <4>1 DEF ResolveTarget, Continue, Idle, TypeOK
      <4> QED  BY <3>3, <4>2
    <3> QED  BY <3>1, <3>2, <3>4, <3>5, <3>6, <3>7, <3>8, Steps
  <2> QED  BY <2>1, <2>2
<1> QED  BY <1>1, <1>2, TypeCorrect, PTL DEF Spec
=============================================================================
